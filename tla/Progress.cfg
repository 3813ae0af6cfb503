\* Everything that bookings, payments and the background work promise to finish.
SPECIFICATION MCSpec
PROPERTIES
  PaymentsEnd BackgroundWorkEnds
