\* Three requests of one day, one after the other, on the SQL store.
SPECIFICATION Spec
CONSTANTS
  Store = "sql"
  Day = 2
  Month = 4
  daily_limit = 2
  monthly_limit = 9
  Requests = {"q"}
  MaxTime = 1
  MaxRequests = 4
  MaxFailures = 0
INVARIANT ExceededIsRefused
