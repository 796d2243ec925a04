CONSTANTS
  Watched <- BudgetPage
  Writers <- BudgetChanges
  MaxWrites = 2
  MaxFaults = 1
  Cards = {k1}
  None = None
  MAX_MESSAGES = 4
  MaxRequests = 1
SPECIFICATION TabSpec
INVARIANTS ChangesReachOpenPages
CHECK_DEADLOCK FALSE
