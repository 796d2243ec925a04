----------------------------- MODULE Endpoints -----------------------------
(* The web client's view of the server: one generated hook per route (its   *)
(* path is its cache key), the tables each route's use case reads or        *)
(* writes, what the route announces on the event bus, which cached queries  *)
(* each announcement makes a tab refetch, and which ones the component that *)
(* made a change refetches by itself.  Hooks no screen calls are left out.  *)
Query(path) == [method |-> "GET", path |-> path]
Call(method, path) == [method |-> method, path |-> path]

GetBudgetOverview == Query("/budgets/overview")
GetBudgets == Query("/budgets")
GetCategoryGroups == Query("/category-groups")
GetUnmappedCategories == Query("/category-mappings/unmapped")
GetDashboard == Query("/dashboard")
GetHouse == Query("/house")
GetCoOwnedAsset == Query("/house/asset")
ListManualEntries == Query("/house/manual-entries")
ListLoans == Query("/house/loans")
ListObligations == Query("/house/obligations")
FindObligationPaymentCandidates == Query("/house/obligations/{id}/candidates")
GetSpendingTrends == Query("/insights/spending-trends")
GetPersons == Query("/persons/")
PreviewAdjustments == Query("/persons/{id}/adjustments/{year}/{month}")
GetReconciliation == Query("/reconciliation")
GetSettlementMerchants == Query("/settings/settlement-merchants")
GetAccounts == Query("/settings/accounts")
GetSettleUpData == Query("/settle-up")
GetSettlementCandidates == Query("/settlements/candidates")
GetTags == Query("/tags")
GetTransactionEdits == Query("/transactions/{id}/edits")
UploadHistory == Query("/uploads/history")

PostBudget == Call("POST", "/budgets")
CopyBudgets == Call("POST", "/budgets/copy")
PutBudget == Call("PUT", "/budgets/{id}")
DeleteBudget == Call("DELETE", "/budgets/{id}")
PostCategoryGroup == Call("POST", "/category-groups")
PutCategoryGroup == Call("PUT", "/category-groups/{id}")
DeleteCategoryGroup == Call("DELETE", "/category-groups/{id}")
PutCategoryMappings == Call("PUT", "/category-mappings")
PatchCategory == Call("PATCH", "/categories/{name}")
SaveCoOwnedAsset == Call("PUT", "/house/asset")
RecordManualEntry == Call("POST", "/house/manual-entries")
DeleteManualEntry == Call("DELETE", "/house/manual-entries/{id}")
CreateLoan == Call("POST", "/house/loans")
ReplaceLoan == Call("POST", "/house/loans/{id}/replace")
CloseLoan == Call("POST", "/house/loans/{id}/close")
UpdateLoanStatement == Call("PUT", "/house/loans/{id}/statement")
DeleteLoan == Call("DELETE", "/house/loans/{id}")
AddLoanPaymentObligations == Call("POST", "/house/loans/{id}/payment-obligations")
CreateObligation == Call("POST", "/house/obligations")
UpdateObligation == Call("PUT", "/house/obligations/{id}")
DeleteObligation == Call("DELETE", "/house/obligations/{id}")
MarkObligationPaid == Call("PUT", "/house/obligations/{id}/payment")
UpdatePerson == Call("PATCH", "/persons/{id}")
FinalizePeriod == Call("POST", "/reconciliation/finalize")
UnfinalizePeriod == Call("POST", "/reconciliation/unfinalize")
PostSettlementMerchant == Call("POST", "/settings/settlement-merchants")
DeleteSettlementMerchant == Call("DELETE", "/settings/settlement-merchants/{id}")
MarkAccountJoint == Call("POST", "/settings/accounts/joint")
UnmarkAccountJoint == Call("DELETE", "/settings/accounts/joint/{label}")
RecordSettlement == Call("POST", "/settlements")
WaiveSettlement == Call("POST", "/settlements/waive")
DeleteSettlement == Call("DELETE", "/settlements/{id}")
MarkTransactionAsSettlement == Call("POST", "/settlements/mark-transaction")
UnlinkSettlementTransaction == Call("DELETE", "/settlements/{id}/links/{id}")
BulkUpdateTransactions == Call("PATCH", "/transactions/bulk-update")
BulkModifyTags == Call("POST", "/transactions/bulk-tags")
UpdateTransaction == Call("PATCH", "/transactions/{id}")
PostUpload == Call("POST", "/uploads/")

----------------------------------------------------------------------------
(* Families of routes: the ones of one file that write and announce alike.  *)
BudgetWrites == {PostBudget, CopyBudgets, PutBudget, DeleteBudget}
CategoryWrites ==
    {PostCategoryGroup, PutCategoryGroup, DeleteCategoryGroup, PutCategoryMappings,
     PatchCategory}
LoanWrites ==
    {CreateLoan, ReplaceLoan, CloseLoan, UpdateLoanStatement, DeleteLoan,
     AddLoanPaymentObligations}
ObligationWrites ==
    {CreateObligation, UpdateObligation, DeleteObligation, MarkObligationPaid}
PeriodWrites == {FinalizePeriod, UnfinalizePeriod}
MerchantWrites == {PostSettlementMerchant, DeleteSettlementMerchant}
AccountWrites == {MarkAccountJoint, UnmarkAccountJoint}
SettlementWrites ==
    {RecordSettlement, WaiveSettlement, DeleteSettlement, MarkTransactionAsSettlement,
     UnlinkSettlementTransaction}
TransactionWrites == {BulkUpdateTransactions, BulkModifyTags, UpdateTransaction}
HouseWrites ==
    {SaveCoOwnedAsset, RecordManualEntry, DeleteManualEntry} \union LoanWrites
        \union ObligationWrites

Mutations ==
    BudgetWrites \union CategoryWrites \union HouseWrites \union PeriodWrites
        \union MerchantWrites \union AccountWrites \union SettlementWrites
        \union TransactionWrites \union {UpdatePerson, PostUpload}

Queries ==
    {GetBudgetOverview, GetBudgets, GetCategoryGroups, GetUnmappedCategories,
     GetDashboard, GetHouse, GetCoOwnedAsset, ListManualEntries, ListLoans,
     ListObligations, FindObligationPaymentCandidates, GetSpendingTrends, GetPersons,
     PreviewAdjustments, GetReconciliation, GetSettlementMerchants, GetAccounts,
     GetSettleUpData, GetSettlementCandidates, GetTags, GetTransactionEdits,
     UploadHistory}

(* What a query's answer depends on, by the tables its use case loads.      *)
Context == {"persons", "categories"}
Ledger == Context \union {"rows", "settlements"}
Reads(q) ==
    CASE q = GetReconciliation -> Context \union {"rows", "uploads", "periods"}
      [] q = GetSettleUpData -> Ledger \union {"uploads", "periods"}
      [] q = GetDashboard -> Ledger \union {"uploads", "periods", "budgets"}
      [] q = GetBudgetOverview -> Context \union {"rows", "budgets"}
      [] q \in {GetSpendingTrends, PreviewAdjustments} -> Context \union {"rows"}
      [] q = GetSettlementCandidates -> Ledger \union {"merchants"}
      [] q = GetHouse -> Context \union {"rows", "accounts", "asset", "loans", "obligations"}
      [] q = FindObligationPaymentCandidates -> {"rows", "loans", "obligations"}
      [] q = ListManualEntries -> {"rows", "accounts"}
      [] q = ListLoans -> {"asset", "loans"}
      [] q = ListObligations -> {"asset", "obligations"}
      [] q \in {GetTags, GetTransactionEdits} -> {"rows"}
      [] q = UploadHistory -> {"persons", "uploads", "rows"}
      [] q \in {GetCategoryGroups, GetUnmappedCategories} -> {"categories"}
      [] q = GetBudgets -> {"budgets"}
      [] q = GetPersons -> {"persons"}
      [] q = GetSettlementMerchants -> {"merchants"}
      [] q = GetAccounts -> {"accounts"}
      [] q = GetCoOwnedAsset -> {"asset"}

Writes(m) ==
    CASE m \in BudgetWrites -> {"budgets"}
      [] m = DeleteCategoryGroup -> {"categories", "budgets"}
      [] m \in CategoryWrites \ {DeleteCategoryGroup} -> {"categories"}
      [] m = SaveCoOwnedAsset -> {"asset"}
      [] m = RecordManualEntry -> {"rows", "accounts", "categories", "uploads"}
      [] m = DeleteManualEntry -> {"rows"}
      [] m \in {CreateLoan, UpdateLoanStatement} -> {"loans"}
      [] m \in {ReplaceLoan, CloseLoan, DeleteLoan} -> {"loans", "obligations"}
      [] m \in ObligationWrites \union {AddLoanPaymentObligations} -> {"obligations"}
      [] m = UpdatePerson -> {"persons"}
      [] m \in PeriodWrites -> {"periods"}
      [] m \in MerchantWrites -> {"merchants"}
      [] m \in AccountWrites -> {"accounts", "rows"}
      [] m = WaiveSettlement -> {"settlements"}
      [] m \in SettlementWrites \ {WaiveSettlement} -> {"settlements", "rows"}
      [] m \in TransactionWrites -> {"rows"}
      [] m = PostUpload -> {"rows", "uploads", "categories", "accounts", "settlements"}

(* What the route announces once its use case has committed.  The budget,   *)
(* merchant and person routes announce nothing.                             *)
Broadcasts(m) ==
    CASE m \in SettlementWrites -> {"settlements"}
      [] m \in TransactionWrites -> {"transactions"}
      [] m = PostUpload -> {"uploads"}
      [] m \in PeriodWrites -> {"reconciliation"}
      [] m \in CategoryWrites -> {"category_groups"}
      [] m \in AccountWrites -> {"accounts", "transactions"}
      [] m = RecordManualEntry -> {"house", "transactions", "accounts"}
      [] m = DeleteManualEntry -> {"house", "transactions"}
      [] m \in HouseWrites \ {RecordManualEntry, DeleteManualEntry} -> {"house"}
      [] OTHER -> {}

(* What the assistant announces after a confirmed action that makes the     *)
(* same change; {} where it has no such tool.                               *)
ToolBroadcasts(m) ==
    CASE m \in {PostBudget, PutBudget, DeleteBudget, CopyBudgets} -> {"budgets"}
      [] m \in TransactionWrites -> {"transactions"}
      [] m \in CategoryWrites \union PeriodWrites -> {"reconciliation"}
      [] m \in SettlementWrites \union MerchantWrites -> {"settlements"}
      [] OTHER -> {}

Tooled(m) == ToolBroadcasts(m) # {}

(* The cached queries a tab refetches when it hears of an entity.           *)
TRANSACTION_QUERY_KEYS ==
    {GetReconciliation, GetDashboard, GetTags, GetBudgetOverview, GetSpendingTrends}
ACCOUNT_QUERY_KEYS ==
    {GetAccounts, GetReconciliation, GetSettleUpData, GetHouse, GetDashboard}
HOUSE_QUERY_KEYS ==
    {GetHouse, GetCoOwnedAsset, ListManualEntries, ListLoans, ListObligations, GetTags}
        \union ACCOUNT_QUERY_KEYS
ENTITY_QUERY_KEYS(entity) ==
    CASE entity = "settlements" -> {GetSettleUpData, GetDashboard, GetReconciliation}
      [] entity = "transactions" -> TRANSACTION_QUERY_KEYS
      [] entity = "accounts" -> ACCOUNT_QUERY_KEYS \union TRANSACTION_QUERY_KEYS
      [] entity = "house" -> HOUSE_QUERY_KEYS
      [] entity = "uploads" ->
            {GetDashboard, GetReconciliation, GetBudgetOverview, GetBudgets,
             GetSpendingTrends}
      [] entity = "reconciliation" -> {GetReconciliation, GetSettleUpData, GetDashboard}
      [] entity = "budgets" -> {GetBudgetOverview, GetBudgets}
      [] entity = "category_groups" ->
            {GetReconciliation, GetDashboard, GetBudgetOverview, GetSpendingTrends,
             GetSettleUpData}

(* The queries the component that makes a change refetches on its success.  *)
useInvalidateCategories ==
    {GetCategoryGroups, GetUnmappedCategories} \union ENTITY_QUERY_KEYS("category_groups")
invalidateReconciliation == {GetReconciliation, GetDashboard, GetTags}
invalidateAll ==
    {GetSettleUpData, GetDashboard, GetReconciliation, GetBudgetOverview,
     GetSettlementCandidates}
OwnRefetches(m) ==
    CASE m \in HouseWrites -> HOUSE_QUERY_KEYS
      [] m \in AccountWrites -> ACCOUNT_QUERY_KEYS
      [] m \in CategoryWrites \ {PatchCategory} -> useInvalidateCategories
      [] m \in BudgetWrites \union {PatchCategory} -> {GetBudgetOverview}
      [] m \in TransactionWrites -> invalidateReconciliation
      [] m \in SettlementWrites \union PeriodWrites -> invalidateAll
      [] m \in MerchantWrites -> {GetSettlementMerchants}
      [] m = UpdatePerson -> {GetPersons}
      [] m = PostUpload -> useInvalidateCategories \union {UploadHistory}

(* The queries a page refetches every five seconds while it is shown.       *)
Polled == {GetReconciliation, GetSettleUpData, GetDashboard}
=============================================================================
