------------------------------ MODULE Balances ------------------------------
(* Who owes whom, as the Dashboard and the cards over the transactions say   *)
(* it: each figure comes from a query of its own (a scope, a month) that is  *)
(* polled, fails, and is answered late while the user moves on               *)
(* (DashboardPage.tsx, TransactionsHeaderCards.tsx, format.ts).              *)
EXTENDS Integers, FiniteSets, Functions

CONSTANTS Months, Scopes,       \* scopes of the dashboard
          Me, Partner, None,
          MaxChanges, MaxRequests   \* bounds: rows and payments, fetches

VARIABLES server, view, calls
vars == <<server, view, calls>>

\* Cents my partner owes me; below zero, I owe.
Balance(book, m) == book[m].charged - book[m].paid
Owed(n) == CASE n > 0 -> [from |-> Partner, to |-> Me, amount |-> n]
             [] n < 0 -> [from |-> Me, to |-> Partner, amount |-> -n]
             [] OTHER -> None
Status(book, m) ==
  CASE Balance(book, m) = 0 -> "settled"
    [] book[m].paid # 0 -> "partially_settled"
    [] OTHER -> "unsettled"
Total(f) == SumFunction(f)

Keys == [page : {"dashboard"}, at : Scopes] \cup [page : {"settle-up", "transactions"}, at : Months]
\* What the three endpoints answer: the reconciliation of a month is over its rows,
\* before any payment.
Answer(k, book) ==
  CASE k.page = "settle-up" ->
       [month |-> k.at, owed |-> Owed(Balance(book, k.at)), status |-> Status(book, k.at),
        charged |-> Owed(book[k.at].charged), paid |-> Owed(book[k.at].paid)]
    [] k.page = "transactions" -> [month |-> k.at, settlement |-> Owed(book[k.at].charged)]
    [] OTHER -> [scope |-> k.at,
        year |-> Owed(Total([m \in Months |-> Balance(book, m)])),
        charged |-> Owed(Total([m \in Months |-> book[m].charged])),
        rows |-> [m \in Months |-> [owed |-> Owed(Balance(book, m)), status |-> Status(book, m)]],
        mine |-> IF k.at = "personal" THEN Total([m \in Months |-> book[m].spent]) ELSE None]

\* ----- what the screens say ------------------------------------------------
DashboardKey(scope) == [page |-> "dashboard", at |-> scope]
MonthKey(m) == [page |-> "settle-up", at |-> m]
RowsKey(m) == [page |-> "transactions", at |-> m]
Kept(k) == view.cache[k].data
\* buildSettlementLabel
Says(what) == [said |-> what]
Label(owed) == IF owed = None THEN Says("Settled") ELSE owed

Hero(d) ==
  CASE d.year = None -> Says(IF d.charged = None THEN "Nothing to settle" ELSE "Settled")
    [] d.year # None /\ d.scope = "personal" /\ d.year.from = Me -> [said |-> "You owe", whom |-> d.year.to]
    [] d.year # None /\ d.scope = "personal" /\ d.year.to = Me -> [said |-> "owes you", whom |-> d.year.from]
    [] OTHER -> d.year
PersonalStats(d) == IF d.mine = None THEN 0 ELSE d.mine
MonthHistory(d) ==
  [m \in Months |-> IF d.rows[m].status = "settled" THEN Says("Settled") ELSE Label(d.rows[m].owed)]

\* Mutant: another month's answer is shown while this one has none.
LastKept(m) ==
  LET kept == {n \in Months : Kept(MonthKey(n)) # None}
  IN IF m \in kept \/ kept = {} THEN Kept(MonthKey(m)) ELSE Kept(MonthKey(CHOOSE n \in kept : TRUE))
\* useSettleUpForMonth: a month without data is loading or in error, never settled.
ForMonth(m) == Kept(MonthKey(m))
Kind(m) ==
  CASE m = None -> "disabled"
    [] m # None /\ ForMonth(m) # None -> "ready"
    [] m # None /\ ForMonth(m) = None /\ ~view.cache[MonthKey(m)].error -> "loading"
    [] OTHER -> "error"
\* The card over the rows of a month. SettlementPlaceholder: a ledger that failed
\* falls back on what the rows below come to, under a caption that says so.
Card(m) ==
  LET gross == Kept(RowsKey(m)).settlement IN
  CASE Kind(m) = "ready" -> [caption |-> "balance", headline |-> Label(ForMonth(m).owed)]
    [] Kind(m) = "error" /\ gross # None -> [caption |-> "gross", headline |-> gross]
    [] OTHER -> [caption |-> Kind(m), headline |-> Says("unknown")]
Description(m) ==
  LET d == ForMonth(m) IN
  CASE d.status = "settled" -> IF d.paid # None THEN "covered"
                               ELSE IF d.charged = None THEN "nothing" ELSE "fully covered"
    [] d.status # "settled" /\ d.charged = None -> None
    [] d.status = "partially_settled" /\ d.paid # None -> "partly paid"
    [] OTHER -> "no payments"

\* ----- steps -----------------------------------------------------------------
Polled == IF view.page = "dashboard" THEN {DashboardKey(view.scope)}
          ELSE {MonthKey(view.month), RowsKey(view.month)} \cap Keys
Fetch(k) ==
  /\ k \in Polled /\ k \notin DOMAIN calls /\ view.try < MaxRequests
  /\ calls' = [j \in DOMAIN calls \cup {k} |-> IF j = k THEN None ELSE calls[j]]
  /\ view' = [view EXCEPT !.try = @ + 1, !.cache[k].error = FALSE]
  /\ UNCHANGED server
ServerAnswers(k) ==
  /\ calls[k] = None
  /\ calls' = [calls EXCEPT ![k] = Answer(k, server.book)]
  /\ UNCHANGED <<server, view>>
Done(k) == calls' = [j \in DOMAIN calls \ {k} |-> calls[j]]
Arrive(k) ==
  /\ calls[k] # None
  /\ Done(k)
  /\ view' = [view EXCEPT !.cache[k] = [data |-> calls[k], error |-> FALSE]]
  /\ UNCHANGED server
\* After the retries; data that came before stays on screen, and hides the error.
Fail(k) ==
  /\ Done(k)
  /\ view' = [view EXCEPT !.cache[k].error = view.cache[k].data = None]
  /\ UNCHANGED server

SetScope(s) ==
  /\ view.page = "dashboard" /\ view.scope # s
  /\ view' = [view EXCEPT !.scope = s] /\ UNCHANGED <<server, calls>>
\* A row of the month history opens its month.
OpenMonth(m) ==
  /\ view.page = "dashboard" /\ Kept(DashboardKey(view.scope)) # None
  /\ view' = [view EXCEPT !.page = "transactions", !.month = m] /\ UNCHANGED <<server, calls>>
\* The picker: one month, or a range (None).
PickMonth(m) ==
  /\ view.page = "transactions" /\ view.month # m
  /\ view' = [view EXCEPT !.month = m] /\ UNCHANGED <<server, calls>>
Leave ==
  /\ view.page = "transactions" /\ view' = [view EXCEPT !.page = "dashboard"]
  /\ UNCHANGED <<server, calls>>

Change(new) ==
  /\ server.changes < MaxChanges
  /\ server' = [book |-> new, changes |-> server.changes + 1,
                past |-> [m \in Months |-> server.past[m] \cup {new[m]}]]
  /\ UNCHANGED <<view, calls>>
Spend(m, n) == Change([server.book EXCEPT ![m].charged = @ + n, ![m].spent = @ + 1])
Pay(m) == Balance(server.book, m) # 0 /\ Change([server.book EXCEPT ![m].paid = server.book[m].charged])

Init ==
  /\ server = [book |-> [m \in Months |-> [charged |-> 0, paid |-> 0, spent |-> 1]], changes |-> 0,
               past |-> [m \in Months |-> {[charged |-> 0, paid |-> 0, spent |-> 1]}]]
  /\ view = [page |-> "dashboard", scope |-> "household", month |-> None, try |-> 0,
             cache |-> [k \in Keys |-> [data |-> None, error |-> FALSE]]]
  /\ calls = <<>>

Next ==
  \/ \E k \in Keys : Fetch(k)
  \/ \E k \in DOMAIN calls : ServerAnswers(k) \/ Arrive(k) \/ Fail(k)
  \/ \E s \in Scopes : SetScope(s)
  \/ \E m \in Months : OpenMonth(m) \/ Pay(m) \/ \E n \in {-1, 1} : Spend(m, n)
  \/ \E m \in Months \cup {None} : PickMonth(m)
  \/ Leave

Spec == Init /\ [][Next]_vars

(* A balance over the transactions of a month, "Settled" among them, was     *)
(* that month's: it is never put together while the ledger loads, after an   *)
(* error, or from the month looked at before. What stands in after an error  *)
(* is captioned as gross, and is what that month's rows came to before any   *)
(* payment; it may differ from the balance, and never says "Settled".        *)
NeverClaimsSettled ==
  LET m == view.month
      card == Card(m)
  IN view.page = "transactions" /\ m # None /\ Kept(RowsKey(m)) # None =>
       /\ card.caption = "balance" =>
            \E b \in server.past[m] : card.headline = Label(Owed(b.charged - b.paid))
       /\ card.caption = "gross" =>
            \E b \in server.past[m] : card.headline = Owed(b.charged) /\ b.charged # 0
       /\ card.headline = Says("Settled") => card.caption = "balance"

(* The dashboard's personal figures are there whenever its scope is the      *)
(* personal one, never a zero that stands for missing; its hero speaks of a  *)
(* debt from the side of the person who looks, and is settled when every     *)
(* month of the history below it is.                                         *)
SpeaksForScope ==
  LET d == Kept(DashboardKey(view.scope)) IN
  view.page = "dashboard" /\ d # None =>
    /\ view.scope = "personal" => PersonalStats(d) > 0
    /\ view.scope = "personal" /\ d.year # None =>
         Hero(d) = IF d.year.from = Me THEN [said |-> "You owe", whom |-> Partner]
                   ELSE [said |-> "owes you", whom |-> Partner]
    /\ (\A m \in Months : MonthHistory(d)[m] = Says("Settled"))
         => Hero(d) \in {Says("Settled"), Says("Nothing to settle")}
=============================================================================
