----------------------------- MODULE MCBooking -----------------------------
(***************************************************************************)
(* The booking service under three kinds of callers, of which one runs at  *)
(* a time: those that wait for each other, those that overlap on a slot,   *)
(* and recurring bookings that overlap.                                    *)
(***************************************************************************)
EXTENDS BookingIntents, TLC

CONSTANTS
  Parts,      \* the parts that run
  s1, s2

\* The first slot starts at time 1 and is sold without a bundle deadline; the
\* second starts at 0 and its bundle expires at time 1.
MCStartTime == [s \in Slots |-> IF s = s1 THEN 1 ELSE 0]
MCValidUntil == [s \in Slots |-> IF s = s1 THEN Undefined ELSE 1]

\* Requests are interchangeable.
RequestSymmetry == Permutations(Requests)

VARIABLES
  part,
  bookable2, status2, pc2, req2, now2, paused2, refunds2, strikes2

\* Requests on one slot overlap, escrow is paused and calls fail.
Overlap == INSTANCE BookingIntents WITH
  Slots <- {s1}, Requests <- {"q1", "q2", "q3"}, MayOverlap <- TRUE, MayPause <- TRUE, MayFail <- TRUE,
  bookable <- bookable2, status <- status2, pc <- pc2, req <- req2, now <- now2,
  paused <- paused2, refunds <- refunds2, strikes <- strikes2

\* The same for recurring bookings and their confirmations.
Recurring == INSTANCE BookingIntents WITH
  Ops <- {"materialize", "confirm"}, Types <- {"standard"},
  MayOverlap <- TRUE, MayPause <- TRUE, MayFail <- TRUE,
  bookable <- bookable2, status <- status2, pc <- pc2, req <- req2, now <- now2,
  paused <- paused2, refunds <- refunds2, strikes <- strikes2

second == <<bookable2, status2, pc2, req2, now2, paused2, refunds2, strikes2>>
all == <<part, vars, second>>

MCInit ==
  /\ part \in Parts
  /\ Init
  /\ IF part = "recurring" THEN Recurring!Init ELSE Overlap!Init

\* Nothing is in flight and nothing more is asked of the service.
Rest ==
  /\ \A r \in Requests : pc[r] \in {"new", "done"}
  /\ \A r \in DOMAIN pc2 : pc2[r] \in {"new", "done"}
  /\ UNCHANGED all

MCNext ==
  \/ part = "serial" /\ Next /\ UNCHANGED <<part, second>>
  \/ part = "overlap" /\ Overlap!Next /\ UNCHANGED <<part, vars>>
  \/ part = "recurring" /\ Recurring!Next /\ UNCHANGED <<part, vars>>
  \/ Rest

MCSpec == MCInit /\ [][MCNext]_all

-----------------------------------------------------------------------------
\* What requests that overlap at every await cannot break: a slot has at most
\* one pending or held intent (the unique index behind the repository's create)
\* and a no-show has cost its buyer a strike (recorded before the status).
\* Recurring bookings and their confirmations promise no slot twice and, when
\* they fail half-way, leak no reservation.
OverlapIsSafe ==
  /\ part = "overlap" => Overlap!OneActiveIntentPerSlot /\ Overlap!NoShowHasStrike
  /\ part = "recurring" => Recurring!NoDoubleBooking /\ Recurring!NoLeakedReservation
=============================================================================
