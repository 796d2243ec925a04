----------------------------- MODULE RowFilters -----------------------------
(* What the web client computes from the transaction rows the server sent:   *)
(* the spending scopes, the buckets of the imported-data card, the quick     *)
(* filters and the "in view" totals (web/src/lib/transaction-filters.ts).    *)
(* A row is a record of the fields those functions read; amounts are cents,  *)
(* shares whole percentages. No identity ("" here) is a store not hydrated.  *)
EXTENDS Integers, FiniteSets, Functions

CONSTANTS Persons,     \* the two people of the couple
          NoOne        \* null: no payer, no depositor, no identity

Scopes == {"all", "household", "personal", "spotted"}
Magnitude(row) == IF row.amount < 0 THEN -row.amount ELSE row.amount

HasDiscussTag(row) == "discuss" \in row.tags
IsNotSpending(row) == row.settlement \/ row.transfer \/ row.income
InHousehold(row) == row.household /\ ~IsNotSpending(row)

\* Mutant: the payer's percentage, whoever looks.
PayersPercentage(row, me) == row.percentage
\* tx.shares[me] ?? 0
MyPercentage(row, me) == IF me \in DOMAIN row.shares THEN row.shares[me] ELSE 0
\* In hundredths of a cent: the client does not round a row's share.
MyShareAmount(row, me) == row.amount * MyPercentage(row, me)

InPersonal(row, me) ==
  /\ ~IsNotSpending(row)
  /\ IF me = NoOne THEN ~row.household ELSE MyPercentage(row, me) > 0

InSpotted(row, me) ==
  /\ me # NoOne /\ ~IsNotSpending(row)
  /\ row.payer = me /\ row.percentage = 0

IsUnassignedDeposit(row) ==
  row.joint /\ row.amount > 0 /\ row.depositor = NoOne /\ ~row.excluded

PayerKey(row) == IF row.joint THEN "joint" ELSE row.payer
PayerEntries == Persons \cup {"joint"}

IsSpendingRow(row) == ~IsNotSpending(row) /\ ~row.excluded

PreviewScope(row) ==
  CASE row.joint -> "joint"
    [] ~row.joint /\ row.percentage = 0 -> "spotted"
    [] ~row.joint /\ row.percentage # 0 /\ row.household -> "household"
    [] OTHER -> "personal"

Net(rows) == - SumFunction([r \in rows |-> r.amount])
MyNet(rows, me) == - SumFunction([r \in rows |-> MyShareAmount(r, me)])

InScope(row, scope, me) ==
  \/ scope = "all"
  \/ scope = "household" /\ InHousehold(row)
  \/ scope = "personal" /\ InPersonal(row, me)
  \/ scope = "spotted" /\ InSpotted(row, me)

\* The main bucket of a row: the chain of `continue`s.
BucketOf(row, me) ==
  CASE row.excluded -> "excluded"
    [] ~row.excluded /\ row.settlement -> "settlement"
    [] ~row.excluded /\ ~row.settlement /\ row.transfer -> "transfer"
    [] ~row.excluded /\ ~row.settlement /\ ~row.transfer /\ row.income -> "income"
    [] IsSpendingRow(row) /\ InSpotted(row, me) -> "spotted"
    [] IsSpendingRow(row) /\ ~InSpotted(row, me) /\ row.household -> "household"
    [] IsSpendingRow(row) /\ ~row.household /\ me # NoOne /\ row.payer # me -> "partnerPaid"
    [] OTHER -> "personal"

\* The counters under a bucket: refunds of the household, splits of one's own.
SubBuckets(row, me) ==
  LET b == BucketOf(row, me) IN
    {s \in {"householdRefunds"} : b = "household" /\ row.amount > 0}
    \cup {s \in {"personalSplit"} : b = "personal" /\ row.percentage < 100}

Buckets == {"excluded", "settlement", "transfer", "income", "spotted",
            "household", "partnerPaid", "personal"}

Stat(rows) == [count |-> Cardinality(rows),
               amount |-> SumFunction([r \in rows |-> Magnitude(r)])]
BucketStats(rows, me) ==
  [b \in Buckets \cup {"total", "householdRefunds", "personalSplit"} |->
     Stat({r \in rows : b = "total" \/ b = BucketOf(r, me) \/ b \in SubBuckets(r, me)})]

ScopeCounts(rows, me) ==
  [s \in Scopes |-> Cardinality({r \in rows : InScope(r, s, me)})]

\* The rows the filters of one view keep.
Matches(row, f, me) ==
  /\ InScope(row, f.scope, me)
  /\ f.query # "" => f.query \in row.words
  /\ f.payers # {} => PayerKey(row) \in f.payers
  /\ f.categories # {} => row.category \in f.categories
  /\ f.tags # {} => row.tags \cap f.tags # {}
  /\ f.hasNotes => row.notes
  /\ f.discuss => HasDiscussTag(row)
  /\ f.settlement => row.settlement
  /\ f.unassigned => IsUnassignedDeposit(row)
  /\ \A low \in f.minAmount : Magnitude(row) >= low
  /\ \A high \in f.maxAmount : Magnitude(row) <= high
Filtered(rows, f, me) == {r \in rows : Matches(r, f, me)}

QuickCounts(rows) ==
  [notes |-> Cardinality({r \in rows : r.notes}),
   discuss |-> Cardinality({r \in rows : HasDiscussTag(r)}),
   settlement |-> Cardinality({r \in rows : r.settlement}),
   unassigned |-> Cardinality({r \in rows : IsUnassignedDeposit(r)})]
=============================================================================
