CONSTANTS
  Watched <- BudgetPage
  Writers <- BudgetChanges
  MaxWrites = 1
  MaxFaults = 1
  Cards = {k1}
  None = None
  MAX_MESSAGES = 4
  MaxRequests = 2
SPECIFICATION TabSpec
INVARIANTS ConfirmedCardShowsUpdated
CHECK_DEADLOCK FALSE
