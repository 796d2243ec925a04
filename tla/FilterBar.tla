------------------------------ MODULE FilterBar ------------------------------
(* The filters of the Transactions page: they live in the URL, which a user, *)
(* a link or a bookmark may have written, and are read back from it at every *)
(* render (useTransactionFilters, TransactionFilters.tsx,                    *)
(* TransactionSearch.tsx, TransactionsHeaderCards.tsx).                      *)
EXTENDS RowFilters, Sequences

CONSTANTS Rows,        \* the rows the server answered with
          Me,          \* the signed-in person
          Words, Tags, Groups, Amounts,   \* what can be typed or picked
          MaxActive    \* bound: parameters of the URL set at the same time

VARIABLES server, view, calls
vars == <<server, view, calls>>

Malformed == -1
SortFields == {"date", "merchant", "amount", "group"}
DefaultSort == <<"date", "desc">>
NoParams == [scope |-> "", query |-> "", payers |-> {}, categories |-> {},
             tags |-> {}, minAmount |-> {}, maxAmount |-> {}, hasNotes |-> FALSE,
             discuss |-> FALSE, settlement |-> FALSE, unassigned |-> FALSE,
             sort |-> <<>>]
FilterNames == DOMAIN NoParams

ParseSort(raw) ==
  IF raw \in SortFields \X {"asc", "desc"} THEN raw ELSE DefaultSort
SerializeSort(s) == IF s = DefaultSort THEN <<>> ELSE s
ParseScope(raw) == IF raw \in Scopes THEN raw ELSE "all"
ParseAmount(raw) == raw \ {Malformed}

\* The filters a URL stands for.
Decode(url) ==
  [url EXCEPT !.scope = ParseScope(@), !.sort = ParseSort(@),
              !.minAmount = ParseAmount(@), !.maxAmount = ParseAmount(@)]

Written(name, value) ==
  CASE name = "scope" -> IF value = "all" THEN "" ELSE value
    [] name = "sort" -> SerializeSort(value)
    [] OTHER -> value

\* setFilter: only the given filters are rewritten, the rest of the URL stays.
SetFilter(url, updates) ==
  [n \in FilterNames |-> IF n \in DOMAIN updates THEN Written(n, updates[n]) ELSE url[n]]

ClearAllUpdates == Decode(NoParams)

\* Clicking a column: a new field, then the other direction, then the default.
CycleSort(sort, field) ==
  CASE sort[1] # field -> <<field, IF field = "date" THEN "desc" ELSE "asc">>
    [] sort[1] = field /\ sort[2] = "asc" -> <<field, "desc">>
    [] OTHER -> DefaultSort

Toggled(set, x) == IF x \in set THEN set \ {x} ELSE set \cup {x}
\* All payers picked is the same as none, and is written as none.
TogglePayer(payers, p) ==
  LET next == Toggled(payers, p) IN IF Cardinality(next) = Cardinality(PayerEntries) THEN {} ELSE next
ToggleGroup(categories, group) ==
  IF group \subseteq categories THEN categories \ group ELSE categories \cup group

Filters == Decode(view.url)
Active(url) == {n \in FilterNames : Decode(url)[n] # Decode(NoParams)[n]}

\* Every change of the URL restarts the components that mirror it: the search
\* box and the amount fields take the new values.
Mirrored(name, url, local) ==
  IF Decode(url)[name] # Filters[name] THEN Decode(url)[name] ELSE local
Moved(url) == Decode(url).minAmount # Filters.minAmount \/ Decode(url).maxAmount # Filters.maxAmount
RewriteFrom(updates, text) ==
  LET url == SetFilter(view.url, updates) IN
  /\ Cardinality(Active(url)) <= MaxActive
  /\ view' = [url |-> url, text |-> Mirrored("query", url, text),
              low |-> IF Moved(url) THEN Decode(url).minAmount ELSE view.low,
              high |-> IF Moved(url) THEN Decode(url).maxAmount ELSE view.high]
  /\ UNCHANGED <<server, calls>>
Rewrite(updates) == RewriteFrom(updates, view.text)

TypeText(t) == view' = [view EXCEPT !.text = t] /\ UNCHANGED <<server, calls>>
\* 150 ms after the last change of the box or of the URL.
SearchFires == view.text # Filters.query /\ Rewrite([query |-> view.text])
ClearText == view.text # "" /\ RewriteFrom([query |-> ""], "")
TypeAmounts(low, high) ==
  view' = [view EXCEPT !.low = low, !.high = high] /\ UNCHANGED <<server, calls>>
ApplyAmounts == Rewrite([minAmount |-> view.low, maxAmount |-> view.high])
ClearAmounts == Rewrite([minAmount |-> {}, maxAmount |-> {}])
PickScope(s) == Rewrite([scope |-> s])
PickPayer(p) == Rewrite([payers |-> TogglePayer(Filters.payers, p)])
PickCategory(c) == Rewrite([categories |-> Toggled(Filters.categories, c)])
PickGroup(g) == Rewrite([categories |-> ToggleGroup(Filters.categories, g)])
PickTag(t) == Rewrite([tags |-> Toggled(Filters.tags, t)])
PickChip(n) == Rewrite([m \in {n} |-> ~Filters[n]])
ClickHeader(f) == Rewrite([sort |-> CycleSort(Filters.sort, f)])

\* Mutant: the pills a later filter was forgotten in.
PillsBeforeDiscuss ==
  {<<n, n>> : n \in Active(view.url) \cap {"scope", "query", "hasNotes", "unassigned"}}
  \cup UNION {{<<n, v>> : v \in Filters[n]} : n \in {"payers", "categories", "tags"}}
\* The pills above the table: one per value, none for the settlement chip.
FlagPills(on) == {<<n, n>> : n \in on \cap {"scope", "query", "hasNotes", "discuss", "unassigned"}}
ValuePills == UNION {{<<n, v>> : v \in Filters[n]} : n \in {"payers", "categories", "tags"}}
AmountPills(on) == {<<"amounts", "range">> : n \in on \cap {"minAmount", "maxAmount"}}
Pills == LET on == Active(view.url) IN FlagPills(on) \cup ValuePills \cup AmountPills(on)
RemovePill(p) ==
  CASE p[1] = "amounts" -> ClearAmounts
    [] p[1] \in {"payers", "categories", "tags"} ->
         Rewrite([n \in {p[1]} |-> Filters[p[1]] \ {p[2]}])
    [] OTHER -> Rewrite([n \in {p[1]} |-> Decode(NoParams)[p[1]]])
ClearAll == Cardinality(Pills) > 1 /\ Rewrite(ClearAllUpdates)

Init ==
  /\ server = Rows
  /\ \E url \in {NoParams, [NoParams EXCEPT !.scope = "bogus", !.minAmount = {Malformed}],
                 [NoParams EXCEPT !.sort = <<"bogus">>, !.settlement = TRUE]} :
       view = [url |-> url, text |-> Decode(url).query,
               low |-> Decode(url).minAmount, high |-> Decode(url).maxAmount]
  /\ calls = {}

Next ==
  \/ \E t \in Words \cup {""} : TypeText(t)
  \/ SearchFires
  \/ ClearText
  \/ \E low, high \in {{}} \cup {{a} : a \in Amounts} : TypeAmounts(low, high)
  \/ ApplyAmounts
  \/ ClearAmounts
  \/ \E s \in Scopes : PickScope(s)
  \/ \E p \in PayerEntries : PickPayer(p)
  \/ \E g \in Groups : PickGroup(g) \/ \E c \in g : PickCategory(c)
  \/ \E t \in Tags : PickTag(t)
  \/ \E n \in {"hasNotes", "discuss", "settlement", "unassigned"} : PickChip(n)
  \/ \E f \in SortFields : ClickHeader(f)
  \/ \E p \in Pills : RemovePill(p)
  \/ ClearAll

Spec == Init /\ [][Next]_vars

(* A row is hidden only by a filter the page shows as active, by a pill or   *)
(* by a pressed chip: a URL the page does not understand hides nothing.      *)
NothingHiddenSilently ==
  Filtered(server, Filters, Me) # server => Pills # {} \/ Filters.settlement

(* The "in view" total of the personal scope against the sum of the viewer's *)
(* shares as the server splits the rows (the lead's share half up to the     *)
(* cent, the other's the remainder): the client rounds the sum, the server   *)
(* each row, so they differ by no more than half a cent a row. ("My          *)
(* Spending" links promise equality: it holds only when no row is rounded.)  *)
HalfUp(hundredths) == (hundredths + 50) \div 100
Lead(row) == IF row.payer # NoOne THEN row.payer ELSE CHOOSE p \in Persons : TRUE
ServerShare(row, me) ==
  LET paid == HalfUp(Magnitude(row) * row.shares[Lead(row)])
      mine == IF Lead(row) = me THEN paid ELSE Magnitude(row) - paid
  IN IF row.amount < 0 THEN -mine ELSE mine
InView == LET spending == {r \in Filtered(server, Filters, Me) : IsSpendingRow(r)}
          IN IF Filters.scope = "personal" THEN MyNet(spending, Me) ELSE 100 * Net(spending)
InViewWithinRounding ==
  Filters.scope = "personal" =>
    LET rows == {r \in Filtered(server, Filters, Me) : IsSpendingRow(r)}
        off == InView + 100 * SumFunction([r \in rows |-> ServerShare(r, Me)])
    IN off \in -50 * Cardinality(rows) .. 50 * Cardinality(rows)
=============================================================================
