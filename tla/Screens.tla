------------------------------ MODULE Screens ------------------------------
(* The pages of the web app side by side. A tab shows one page at a time and *)
(* the state of a page goes with it (what it fetched stays in the query      *)
(* cache, module LiveQueries), so a behaviour follows one page from the day  *)
(* it opens. Each page has its own module over the same three variables:     *)
(* `server` is what the page's requests and other people change, `view` what *)
(* the page holds, `calls` the requests under way.                           *)
EXTENDS Integers, FiniteSets

CONSTANTS None, NoOne, NoData, All,
          People,                              \* the couple, by name
          Me, Partner,
          Rows, Words, Tags, CategoryGroups,   \* the Transactions table
          Calendar, Today, Fronted, Settlements,  \* Settle Up, months as <<y, m>>
          Legs,                                \* bank transfers, in months 1 and 2
          Files, Imported,                     \* the upload page
          Typed,                               \* what the forms hold; 0 is the default
          Budgets,                             \* the budget page
          Transfers, Loans, Dues,              \* the house page, dues as months
          RequestsOf, ChangesOf \* bounds: page -> requests, page -> changes by others

\* Months are numbers.
ASSUME DuesAreMonths == Dues \subseteq Int
\* They are a couple; None is no amount and nothing that is owed.
ASSUME TwoPeople == Me \in People /\ Partner \in People /\ Me # Partner /\ People = {Me, Partner}
ASSUME NoneIsNothing == None \notin Int /\ None \notin [from : People, to : People, amount : Int]
\* Money is in whole cents, and rows, months and payments are finitely many.
ASSUME MoneyIsCounted ==
  /\ IsFiniteSet(Rows) /\ IsFiniteSet(Calendar) /\ IsFiniteSet(DOMAIN Settlements)
  /\ \A m \in Calendar : /\ m[1] \in Int /\ m[2] \in Int
                        /\ Fronted[m] \in [{"first", "second"} -> Int]
  /\ DOMAIN Settlements \subseteq Nat
  /\ \A s \in DOMAIN Settlements : \A m \in DOMAIN Settlements[s].portions :
        Settlements[s].portions[m] \in Int
  /\ \A l \in DOMAIN Legs : Legs[l].amount \in Int /\ Legs[l].payer \in People
\* A row that counts as spending is split between the two.
ASSUME SpendingIsSplit ==
  \A r \in Rows : r.amount \in Int /\ (~r.settlement /\ ~r.transfer /\ ~r.income =>
    /\ r.shares \in [People -> 0..100] /\ r.shares[Me] + r.shares[Partner] = 100
    /\ r.payer \in People \cup {NoOne})
\* The budgets there at first have ids of their own, no request's, and a group has
\* one a month for each owner.
ASSUME OneBudgetAtFirst ==
  \A b, x \in Budgets :
    /\ {"id", "group", "month", "owner", "amount"} \subseteq DOMAIN b /\ b.id[1] = 0
    /\ b.id = x.id \/ <<b.group, b.month, b.owner>> = <<x.group, x.month, x.owner>> => b = x

VARIABLES page, server, view, calls
vars == <<page, server, view, calls>>

Filters == INSTANCE FilterBar WITH
  Persons <- People, Groups <- CategoryGroups, Amounts <- {2}, MaxActive <- 2
Bulk == INSTANCE BulkEdit WITH
  Ids <- {"r1", "r2"}, Parts <- {"owner_shares", "tags"}, MaxApplies <- RequestsOf["bulk"],
  MaxElsewhere <- ChangesOf["bulk"]
Settle == INSTANCE SettleScreen WITH
  Months <- Calendar, ThisMonth <- Today, Splits <- Fronted,
  MaxRequests <- RequestsOf["settle"], MaxFetches <- 1
Link == INSTANCE LinkForm WITH
  Persons <- People, Months <- {1, 2}, MaxLinked <- 2, MaxRequests <- RequestsOf["link"]
Upload == INSTANCE UploadWizard WITH
  Stored <- Imported, MaxRequests <- RequestsOf["upload"], MaxElsewhere <- ChangesOf["upload"]
Editor == INSTANCE RowEditor WITH
  Values <- Typed, MaxRequests <- RequestsOf["editor"], MaxElsewhere <- ChangesOf["editor"]
Balance == INSTANCE Balances WITH
  Months <- {1, 2}, Scopes <- {"household", "personal"},
  MaxChanges <- ChangesOf["balances"], MaxRequests <- RequestsOf["balances"]
Budget == INSTANCE BudgetScreen WITH
  Groups <- {"food"}, Months <- {1, 2}, Amounts <- {1}, Stored <- Budgets,
  MaxRequests <- RequestsOf["budget"], MaxElsewhere <- ChangesOf["budget"]
Settings == INSTANCE SettingsScreen WITH
  Groups <- {"g1", "g2"}, Categories <- {"c1"}, Values <- Typed,
  MaxRequests <- RequestsOf["settings"], MaxElsewhere <- ChangesOf["settings"]
House == INSTANCE HouseScreen WITH
  Rows <- Transfers, Months <- Dues, Serial <- TRUE,
  MaxRequests <- RequestsOf["house"], MaxElsewhere <- ChangesOf["house"]

Init ==
  \/ page = "filters" /\ Filters!Init
  \/ page = "bulk" /\ Bulk!Init
  \/ page = "settle" /\ Settle!Init
  \/ page = "link" /\ Link!Init
  \/ page = "upload" /\ Upload!Init
  \/ page = "editor" /\ Editor!Init
  \/ page = "balances" /\ Balance!Init
  \/ page = "budget" /\ Budget!Init
  \/ page = "settings" /\ Settings!Init
  \/ page = "house" /\ House!Init

Next ==
  /\ UNCHANGED page
  /\ \/ page = "filters" /\ Filters!Next
     \/ page = "bulk" /\ Bulk!Next
     \/ page = "settle" /\ Settle!Next
     \/ page = "link" /\ Link!Next
     \/ page = "upload" /\ Upload!Next
     \/ page = "editor" /\ Editor!Next
     \/ page = "balances" /\ Balance!Next
     \/ page = "budget" /\ Budget!Next
     \/ page = "settings" /\ Settings!Next
     \/ page = "house" /\ House!Next

Spec == Init /\ [][Next]_vars

----------------------------------------------------------------------------
(* A row is hidden only by a filter the page shows as active: a URL it does  *)
(* not understand hides nothing (transaction-filters.ts, decode).            *)
NothingHiddenSilently == page = "filters" => Filters!NothingHiddenSilently

(* The personal "in view" total is the server's to half a cent a row         *)
(* (transaction-filters.ts, sumMyShares; domain/splits.py).                  *)
InViewWithinRounding == page = "filters" => Filters!InViewWithinRounding

(* The bulk edit claims success only for an apply whose every request the    *)
(* server carried out, and sends owner shares and depositors only for rows   *)
(* it knows to be joint (TransactionsPage.tsx, BulkEditToolbar.tsx).         *)
BulkEditsAsClaimed == page = "bulk" => Bulk!MessageAfterAll /\ Bulk!JointPartsOnJointRows

(* A waiver clears the year its reader saw, in the direction on screen, or   *)
(* is refused (SettleUpPage.tsx, WaiveAction; record_waived_settlement.py).  *)
WaivesAsShown == [][page = "settle" => Settle!WaivesWhatWasShown]_vars

(* The audit table of a month sums to the balance the ledger serves for it   *)
(* (SettleUpAuditTable.tsx, buildLedgerRows).                                *)
AuditAddsUp == page = "settle" => Settle!AuditAddsUp

(* A recorded payment has the direction the server derives from its legs and *)
(* the amount of one side of the transfer (CandidateChecklist.tsx).          *)
RecordsWhatLegsSay == page = "link" => Link!RecordsWhatLegsSay

(* The dialog is cleared only when every leg it sent is linked               *)
(* (PosthocLinkDialog.tsx, handleLink).                                      *)
ClearedWhenLinked == [][page = "link" => Link!ClearsWhenLinked]_vars

(* The file imported is the one whose preview is on screen; which of its     *)
(* changes are ticked is not part of it (UploadPage.tsx).                    *)
ConfirmsWhatWasShown == page = "upload" => Upload!ConfirmsWhatWasShown

(* A changed row that the confirmation does not accept keeps its version     *)
(* through the import (UploadPage.tsx, upload_csv.py).                       *)
RejectedKeepsItsVersion == [][page = "upload" => Upload!KeepsRejected]_vars

(* A row has the split of its kind only, whatever kind it was when the       *)
(* editor opened (TransactionEditor.tsx, bulk_update_transactions.py).       *)
SplitFitsRow == page = "editor" => Editor!SplitFitsRow

(* The amount a row was imported with survives any number of edits           *)
(* (bulk_update_transactions.py).                                            *)
OriginalKept == [][page = "editor" => Editor!KeepsOriginal]_vars

(* What is being typed survives the poll and a refused save                  *)
(* (TransactionEditor.tsx, the draft).                                       *)
DraftSurvives == [][page = "editor" => Editor!KeepsDraft]_vars

(* No card claims a balance a month never had: not while loading, not after  *)
(* an error (what stands in is captioned as gross and is the month's), not   *)
(* the one shown before; and the dashboard's hero speaks from the reader's   *)
(* side and agrees with the months (TransactionsHeaderCards.tsx,             *)
(* DashboardPage.tsx).                                                       *)
BalancesAsServed ==
  page = "balances" => Balance!NeverClaimsSettled /\ Balance!SpeaksForScope

(* An edit reaches the budget that was on screen when it was confirmed, also *)
(* from a form opened in another month, and a group has one budget a month   *)
(* for the household and one for each person (BudgetPage.tsx,                *)
(* save_budget.py, copy_budgets.py).                                         *)
BudgetsAsShown == page = "budget" => Budget!EditsWhatIsShown /\ Budget!OneBudgetEach

(* Removing a category group strands no category, whatever the partner       *)
(* removes or moves meanwhile (delete_category_group.py).                    *)
NoStrandedCategory == page = "settings" => Settings!EveryCategoryHasAHome

(* A bank row pays one obligation at most, when requests do not overlap      *)
(* (mark_obligation_paid.py, domain/obligations.py).                         *)
RowPaysOne == page = "house" => House!RowPaysOne

(* A loan gets its payments at most once a month, and loses those to come    *)
(* when it closes (domain/loans.py, house_records.py).                       *)
PaymentsFollowTheLoan == [][page = "house" => House!FollowsTheLoan]_vars
=============================================================================
