------------------------------- MODULE Ledger -------------------------------
(***************************************************************************)
(* The settlement ledger under concurrent requests: what each month's      *)
(* charges come to, the recorded payments and waivers, and the portions    *)
(* that say which months each of them covers. Balances are signed: positive*)
(* means the first person owes the second.                                 *)
(*                                                                         *)
(* A request that records a payment or a waiver reads the ledger with three*)
(* queries (READ COMMITTED, so each sees what is committed by then) and    *)
(* later writes portions planned from what it read.                        *)
(***************************************************************************)
EXTENDS Portions

CONSTANTS
    LastMonth,    \* months are numbered 1..LastMonth
    Year,         \* the calendar year of a month, never 0
    Settlements,  \* settlement ids that may ever be issued
    Sessions,     \* requests that can be in flight at once
    Charges,      \* bound: what a month's charges can come to, 0 among it
    Amounts,      \* amounts a payment can be recorded with, above 0
    LegShares     \* shares that linked transfer legs may carry in the charges

Months == 1..LastMonth
Senders == {1, -1}  \* the first person, the second
Whole == 0          \* a waiver of every open month names no year

VARIABLES
    charged,     \* month -> net of the stored transactions' shares
    settlement,  \* stored settlements: id -> sender, amount, month of settled_at
    portions,    \* settlement_portions: id -> month -> amount
    issued,      \* settlement ids ever inserted
    req          \* the request each session is running

db == <<charged, settlement, portions, issued>>
vars == <<charged, settlement, portions, issued, req>>

Record == [from : Senders, amount : Nat \ {0}, at : Months]
Nothing == [k \in {} |-> 0]
Idle == [op |-> "none"]

-----------------------------------------------------------------------------
(* The books *)

\* A settlement without stored portions covers its settled_at month in full.
Resolved(stl, por, k) ==
    IF k \in DOMAIN por THEN por[k] ELSE [m \in {stl[k].at} |-> stl[k].amount]

Books(chg, stl, por) ==
    [m \in Months |->
        chg[m] - Total([k \in DOMAIN stl |-> stl[k].from * At(Resolved(stl, por, k), m)])]

Balance == Books(charged, settlement, portions)
Toward(from, balance) == [m \in DOMAIN balance |-> from * balance[m]]

InScope(year) == {m \in Months : year \in {Whole, Year[m]}}
ScopeTotal(balance, year) == Total([m \in InScope(year) |-> balance[m]])
\* Mutant of OpenMonths: a waiver of one year spreads over every open month.
AllOpenMonths(balance, year) == {m \in Months : balance[m] # 0}
OpenMonths(balance, year) == {m \in InScope(year) : balance[m] # 0}

-----------------------------------------------------------------------------
(* The requests *)

\* An upload, an edit or a deletion of transactions commits.
ChangeCharges(s) ==
    /\ req[s] = Idle
    /\ \E m \in Months, c \in Charges : charged' = [charged EXCEPT ![m] = c]
    /\ UNCHANGED <<settlement, portions, issued, req>>

\* A payment of some amount over some months, or none.
StartRecord(s) ==
    \E from \in Senders, a \in Amounts, covered \in SUBSET Months :
        /\ req[s] = Idle
        /\ issued # Settlements
        /\ req' = [req EXCEPT ![s] =
              [op |-> "record", stage |-> "charges", from |-> from, amount |-> a,
               covered |-> covered, seen |-> Nothing, stl |-> Nothing]]
        /\ UNCHANGED db

\* A waiver of one year's balance or of every open month, as the client saw it.
StartWaive(s) ==
    \E from \in Senders, year \in {Whole} \cup {Year[m] : m \in Months} :
        /\ req[s] = Idle
        /\ issued # Settlements
        /\ req' = [req EXCEPT ![s] =
              [op |-> "waive", stage |-> "charges", from |-> from, year |-> year,
               seen |-> Nothing, stl |-> Nothing]]
        /\ UNCHANGED db

StartDelete(s) ==
    \E k \in DOMAIN settlement :
        /\ req[s] = Idle
        /\ req' = [req EXCEPT ![s] = [op |-> "delete", stage |-> "ready", sid |-> k]]
        /\ UNCHANGED db

Loading(s, stage) == req[s].op \in {"record", "waive"} /\ req[s].stage = stage

\* load_ledger reads the transactions, then the settlements, then the portions.
LoadCharges(s) ==
    /\ Loading(s, "charges")
    /\ req' = [req EXCEPT ![s].seen = charged, ![s].stage = "settlements"]
    /\ UNCHANGED db

LoadSettlements(s) ==
    /\ Loading(s, "settlements")
    /\ req' = [req EXCEPT ![s].stl = settlement, ![s].stage = "portions"]
    /\ UNCHANGED db

LoadPortions(s) ==
    LET q == req[s] IN
    /\ Loading(s, "portions")
    /\ req' = [req EXCEPT ![s].seen = Books(q.seen, q.stl, portions),
                          ![s].stl = Nothing, ![s].stage = "ready"]
    /\ UNCHANGED db

Ready(s, op) == req[s].op = op /\ req[s].stage = "ready"
Finish(s) == req' = [req EXCEPT ![s] = Idle]

\* The settlement and its portions, planned from the ledger that was read.
Inserted(table, k, row) == [j \in DOMAIN table \cup {k} |-> IF j = k THEN row ELSE table[j]]
Save(k, from, amount, at, seen, covered) ==
    /\ k \notin issued
    /\ settlement' = Inserted(settlement, k, [from |-> from, amount |-> amount, at |-> at])
    /\ portions' = Inserted(portions, k, Plan(Toward(from, seen), amount, covered))
    /\ issued' = issued \cup {k}

\* The months a payment covers default to the month of its settled_at.
CoveredBy(q, at) == IF q.covered = {} THEN {at} ELSE q.covered

\* Linking a leg flags its row, which takes the row's share out of the charges
\* in the same commit.
CommitRecord(s) ==
    LET q == req[s] IN
    /\ Ready(s, "record")
    /\ \E k \in Settlements, at \in Months :
          Save(k, q.from, q.amount, at, q.seen, CoveredBy(q, at))
    /\ \E leg \in Months, share \in LegShares \cup {0} :
          /\ charged[leg] - share \in Charges
          /\ charged' = [charged EXCEPT ![leg] = @ - share]
    /\ Finish(s)

\* Refused when the scope nets to zero or runs in the other direction.
CommitWaive(s) ==
    LET q == req[s]
        total == q.from * ScopeTotal(q.seen, q.year) IN
    /\ Ready(s, "waive")
    /\ total > 0
    /\ \E k \in Settlements, now \in Months :
          Save(k, q.from, total, now, q.seen, OpenMonths(q.seen, q.year))
    /\ Finish(s)
    /\ UNCHANGED charged

CommitDelete(s) ==
    /\ Ready(s, "delete")
    /\ settlement' = [k \in DOMAIN settlement \ {req[s].sid} |-> settlement[k]]
    /\ portions' = [k \in DOMAIN portions \ {req[s].sid} |-> portions[k]]
    /\ Finish(s)
    /\ UNCHANGED <<charged, issued>>

Abort(s) ==
    /\ req[s] # Idle
    /\ Finish(s)
    /\ UNCHANGED db

Init ==
    /\ charged = [m \in Months |-> 0]
    /\ settlement = Nothing
    /\ portions = Nothing
    /\ issued = {}
    /\ req = [s \in Sessions |-> Idle]

Next ==
    \E s \in Sessions :
        \/ ChangeCharges(s) \/ StartRecord(s) \/ StartWaive(s) \/ StartDelete(s)
        \/ LoadCharges(s) \/ LoadSettlements(s) \/ LoadPortions(s)
        \/ CommitRecord(s) \/ CommitWaive(s) \/ CommitDelete(s) \/ Abort(s)

Spec == Init /\ [][Next]_vars

-----------------------------------------------------------------------------
(* Properties *)

\* The stored charges, payments and portions have the types of their columns.
TypeOK ==
    /\ charged \in [Months -> Charges]
    /\ DOMAIN settlement \subseteq issued
    /\ \A k \in DOMAIN settlement : settlement[k] \in Record
    /\ DOMAIN portions \subseteq issued
    /\ \A k \in DOMAIN portions :
          DOMAIN portions[k] \subseteq Months /\ \A m \in DOMAIN portions[k] : portions[k][m] \in Int
    /\ issued \subseteq Settlements

\* However requests interleave, every stored payment is fully placed on months
\* and nothing else is, so what is outstanding is the net of all charges less
\* all payments: a plan made from a stale ledger can misplace money, not lose
\* it, and the fallback for a settlement without portions never applies to the
\* committed tables.
OutstandingIsNet ==
    /\ DOMAIN portions = DOMAIN settlement
    /\ \A k \in DOMAIN settlement : portions[k] # Nothing
    /\ Total(Balance) =
          Total(charged) -
          Total([k \in DOMAIN settlement |-> settlement[k].from * settlement[k].amount])

Completes(s, op) == req[s].op = op /\ issued' # issued /\ req'[s] = Idle
\* What a request is about to plan from is still what the books say.
Current(s) == req[s].seen = Balance

\* A payment recorded from a ledger that is current does to the balances what
\* plan_portions promises, whatever else is under way: oldest months first,
\* months owed to the payer brought to zero, no month swung to the other side
\* but by a surplus on the newest.
RecordPromise ==
    \A s \in Sessions :
        Completes(s, "record") /\ Current(s) =>
            LET q == req[s] IN
            \A k \in issued' \ issued :
                KeepsPromise(Toward(q.from, Balance), Toward(q.from, Balance'),
                             q.amount, CoveredBy(q, settlement'[k].at))
PaymentsKeepPromise == [][RecordPromise]_vars

\* A waiver of a current ledger brings every month of its scope to zero and
\* leaves the others, whatever else is under way.
WaiverPromise ==
    \A s \in Sessions :
        Completes(s, "waive") /\ Current(s) =>
            \A m \in Months :
                Balance'[m] = IF m \in InScope(req[s].year) THEN 0 ELSE Balance[m]
WaiversClear == [][WaiverPromise]_vars

=============================================================================
