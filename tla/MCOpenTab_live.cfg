CONSTANTS
  Watched <- Everything
  Writers <- AnyChange
  MaxWrites = 1
  MaxFaults = 1
  Cards = {k1}
  None = None
  MAX_MESSAGES = 4
  MaxRequests = 3
SPECIFICATION TabSpec
INVARIANTS CaughtUp OneStreamAtATime
PROPERTIES PollsCatchUp StreamsSettle
CHECK_DEADLOCK FALSE
