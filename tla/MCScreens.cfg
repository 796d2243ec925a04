CONSTANTS
  None = None
  NoOne = NoOne
  NoData = NoData
  All = All
  People <- Couple
  Me = "ann"
  Partner = "bob"
  Rows <- Kinds
  Words <- Cafe
  Tags <- Discuss
  CategoryGroups <- TwoGroups
  Calendar <- ThreeMonths
  Today <- feb
  Fronted <- FrontedInEach
  Settlements <- Payments
  Legs <- ThreeLegs
  Files <- ThreeFiles
  Imported <- TwoRows
  Typed <- ZeroOrOne
  Budgets <- FirstMonth
  Transfers <- OneTransfer
  Loans <- TwoLoans
  Dues <- TwoMonths
  RequestsOf <- FewRequests
  ChangesOf <- FewChanges
SPECIFICATION Spec
INVARIANTS
  NothingHiddenSilently InViewWithinRounding BulkEditsAsClaimed
  AuditAddsUp RecordsWhatLegsSay ConfirmsWhatWasShown SplitFitsRow BalancesAsServed
  BudgetsAsShown NoStrandedCategory RowPaysOne
PROPERTIES
  WaivesAsShown ClearedWhenLinked RejectedKeepsItsVersion OriginalKept DraftSurvives PaymentsFollowTheLoan
CHECK_DEADLOCK FALSE
