---------------------------- MODULE HouseScreen ----------------------------
(* The house page: obligations that come due, the bank rows that pay them,   *)
(* and the loan whose monthly payments they are. Every action is a dialog    *)
(* over a list that was fetched earlier, and both partners act on the same   *)
(* house (components/house/*.tsx; mark_obligation_paid.py,                   *)
(* update_obligation.py, add_loan_payment_obligations.py, close_loan.py,     *)
(* replace_loan.py, delete_loan.py, domain/obligations.py, domain/loans.py). *)
EXTENDS Integers, FiniteSets

CONSTANTS Rows, Loans, Months,      \* months are numbers from 1, the current one
          Serial,                   \* requests do not overlap at the server
          None,
          MaxRequests, MaxElsewhere \* bounds: my requests, the partner's

VARIABLES server, view, calls
vars == <<server, view, calls>>

Kinds == {"tax", "loan_payment"}
First == CHOOSE l \in Loans : TRUE
NoLoan == [loan |-> None, kind |-> "tax"]
Open(loans, l) == l \in DOMAIN loans /\ loans[l].closed = None
Current == [obligations |-> server.obligations, loans |-> server.loans]

\* ----- the page: a list and one dialog at a time (notes are left out) -------------
Arrive ==
  view.house # Current /\ view' = [view EXCEPT !.house = Current] /\ UNCHANGED <<server, calls>>

Shown == IF view.house = None THEN {} ELSE view.house.obligations
Upcoming == {o \in Shown : o.paid = None}
OpenLoans == IF view.house = None THEN {} ELSE {l \in DOMAIN view.house.loans : Open(view.house.loans, l)}
OpenDialog(d) ==
  /\ view.house # None /\ view.dialog = None /\ view.try < MaxRequests
  /\ view' = [view EXCEPT !.dialog = d] /\ UNCHANGED <<server, calls>>
Close == view.dialog # None /\ view' = [view EXCEPT !.dialog = None] /\ UNCHANGED <<server, calls>>

\* A form opens on the obligation as it is shown.
Form(o) == [kind |-> "edit", id |-> o.id, due |-> o.due, for |-> o.for]
Record == OpenDialog([kind |-> "record", id |-> 0, due |-> 1, for |-> NoLoan])
Edit(o) == o \in Upcoming /\ OpenDialog(Form(o))
MarkPaid(o) == o \in Upcoming /\ OpenDialog([kind |-> "mark", id |-> o.id, row |-> None,
                                             candidates |-> None])
Delete(o) == o \in Upcoming /\ OpenDialog([kind |-> "delete", id |-> o.id])
LoanAction(kind, l) == l \in OpenLoans /\ OpenDialog([kind |-> kind, loan |-> l, month |-> 1])
Change(d) == d # view.dialog /\ view' = [view EXCEPT !.dialog = d] /\ UNCHANGED <<server, calls>>
\* A new obligation is offered the open loans, an edited one the past ones too.
Draft(m, loan) ==
  /\ view.dialog # None /\ view.dialog.kind \in {"record", "edit"}
  /\ loan.loan \in {None} \cup (IF view.dialog.kind = "edit" THEN DOMAIN view.house.loans ELSE OpenLoans)
  /\ Change([view.dialog EXCEPT !.due = m, !.for = loan])
PickMonth(m) ==
  /\ view.dialog # None /\ view.dialog.kind \in {"close", "replace"}
  /\ Change([view.dialog EXCEPT !.month = m])

\* Mutant: only the obligation's own row is looked at.
PaidByNone(obligations, id) == {}
\* Candidates: rows that pay no other obligation when they are searched for.
PaidByOthers(obligations, id) == {o.paid : o \in {x \in obligations : x.id # id}} \ {None}
FindRows ==
  /\ view.dialog # None /\ view.dialog.kind = "mark"
  /\ \E o \in server.obligations : o.id = view.dialog.id
  /\ Change([view.dialog EXCEPT !.candidates = Rows \ PaidByOthers(server.obligations, view.dialog.id)])
PickRow(r) ==
  /\ view.dialog # None /\ view.dialog.kind = "mark"
  /\ view.dialog.candidates # None /\ r \in view.dialog.candidates
  /\ Change([view.dialog EXCEPT !.row = r])

\* What a dialog sends, with nothing for the fields it does not have.
Request(call, by, try) ==
  LET fixed == [by |-> by, try |-> try, read |-> None]
      absent == [id |-> 0, row |-> None, loan |-> None, month |-> 0]
  IN [f \in DOMAIN call \cup DOMAIN fixed \cup DOMAIN absent |->
        IF f \in DOMAIN fixed THEN fixed[f]
        ELSE IF f \in DOMAIN call THEN call[f] ELSE absent[f]]
Send(call, new) ==
  /\ view.try < MaxRequests /\ ~\E c \in calls : c.by = "me" /\ c.kind = call.kind
  /\ calls' = calls \cup {Request(call, "me", view.try)}
  /\ view' = [new EXCEPT !.try = @ + 1] /\ UNCHANGED server
CanSubmit(d) ==
  CASE d.kind \in {"record", "edit"} -> d.for.kind = "loan_payment" => d.for.loan # None
    [] d.kind = "mark" -> d.row # None
    [] OTHER -> TRUE
Submit == view.dialog # None /\ CanSubmit(view.dialog) /\ Send(view.dialog, view)
\* Without a dialog: a paid obligation is unmarked, the next payment is added.
Unmark(o) == o \in Shown \ Upcoming /\ Send([kind |-> "mark", id |-> o.id], view)
AddPayments(l) == l \in OpenLoans /\ Send([kind |-> "add", loan |-> l], view)

\* ----- the server: reads and checks, then writes what it read --------------------
Named(c) == {o \in server.obligations : o.id = c.id}
Payments(l) == {o \in server.obligations : o.for = [loan |-> l, kind |-> "loan_payment"]}
\* The first scheduled month after the loan's latest payment and not taken.
OpenDue(l) ==
  LET taken == {o.due : o \in Payments(l)} IN
  {m \in Months : (\A t \in taken : t < m) /\ \A n \in Months : (\A t \in taken : t < n) => m <= n}
Accepts(c) ==
  CASE c.kind = "record" -> c.for.loan \in DOMAIN server.loans \cup {None}
    [] c.kind = "edit" -> Named(c) # {} /\ c.for.loan \in DOMAIN server.loans \cup {None}
    [] c.kind = "delete" -> Named(c) # {}
    [] c.kind = "mark" -> /\ Named(c) # {}
                          /\ c.row # None => c.row \notin PaidByOthers(server.obligations, c.id)
    [] c.kind = "deleteLoan" ->
         /\ c.loan \in DOMAIN server.loans /\ ~\E o \in server.obligations : o.for.loan = c.loan
         /\ ~\E l \in DOMAIN server.loans : server.loans[l].by = c.loan
    [] c.kind = "statement" -> c.loan \in DOMAIN server.loans
    [] OTHER -> Open(server.loans, c.loan)
\* Mutant: those of its payments that are due by the closing.
LapsedEarly(c) == {o \in Payments(c.loan) : o.paid = None /\ o.due <= c.month}
\* A closed loan loses its unpaid payments due after the closing.
Lapsed(c) == {o \in Payments(c.loan) : o.paid = None /\ o.due > c.month}
\* What a request has in hand when it starts to write.
Found(c) ==
  CASE c.kind \in {"edit", "mark"} -> Named(c)
    [] c.kind = "add" -> OpenDue(c.loan)
    [] c.kind \in {"close", "replace"} -> {o.id : o \in Lapsed(c)}
    [] OTHER -> {}
Read(c) ==
  /\ c.read = None /\ Accepts(c)
  /\ Serial => \A d \in calls : d.read = None
  /\ calls' = (calls \ {c}) \cup {[c EXCEPT !.read = Found(c)]} /\ UNCHANGED <<server, view>>

Answer(c, ok) ==
  /\ calls' = calls \ {c}
  /\ view' = IF ok /\ c.by = "me" THEN [view EXCEPT !.dialog = None] ELSE view
Saved(c) ==
  LET without == {o \in server.obligations : o.id # c.id} IN
  CASE c.kind = "record" -> server.obligations \cup
         {[id |-> server.next, due |-> c.due, for |-> c.for, paid |-> None]}
    [] c.kind = "add" -> server.obligations \cup
         {[id |-> server.next, due |-> m, for |-> [loan |-> c.loan, kind |-> "loan_payment"],
           paid |-> None] : m \in c.read}
    [] c.kind = "edit" -> without \cup
         {[o EXCEPT !.due = c.due, !.for = c.for] : o \in c.read}
    [] c.kind = "mark" -> without \cup {[o EXCEPT !.paid = c.row] : o \in c.read}
    [] c.kind = "delete" -> without
    [] c.kind \in {"close", "replace"} -> {o \in server.obligations : o.id \notin c.read}
    [] OTHER -> server.obligations
SavedLoans(c) ==
  LET closed(by) == [server.loans EXCEPT ![c.loan] = [closed |-> c.month, by |-> by]] IN
  CASE c.kind = "close" -> closed(None)
    [] c.kind = "replace" ->
         LET l == CHOOSE x \in Loans : x \notin DOMAIN server.loans
         IN [x \in DOMAIN server.loans \cup {l} |->
               IF x = l THEN [closed |-> None, by |-> None] ELSE closed(l)[x]]
    [] c.kind = "deleteLoan" -> [l \in DOMAIN server.loans \ {c.loan} |-> server.loans[l]]
    [] OTHER -> server.loans
Write(c) ==
  /\ c.read # None /\ Answer(c, TRUE)
  /\ c.kind \in {"close", "replace", "deleteLoan"} => c.loan \in DOMAIN server.loans
  /\ c.kind = "replace" => Loans \ DOMAIN server.loans # {}
  /\ server' = [server EXCEPT !.obligations = Saved(c), !.loans = SavedLoans(c),
                               !.next = IF c.kind \in {"record", "add"} THEN @ + 1 ELSE @]
Refuse(c) == Answer(c, FALSE) /\ UNCHANGED server

\* The partner's page sends the same requests.
PartnerSends(call) ==
  /\ server.elsewhere < MaxElsewhere
  /\ calls' = calls \cup {Request(call, "partner", 0)}
  /\ server' = [server EXCEPT !.elsewhere = @ + 1] /\ UNCHANGED view

Bill(i) == [id |-> i, due |-> 1, for |-> NoLoan, paid |-> None]
Init ==
  /\ server = [obligations |-> {Bill(1), Bill(2)}, loans |-> [l \in {First} |-> [closed |-> None, by |-> None]],
               next |-> 3, elsewhere |-> 0]
  /\ view = [house |-> None, dialog |-> None, try |-> 0]
  /\ calls = {}

Next ==
  \/ Arrive \/ Record \/ Close \/ FindRows \/ Submit
  \/ \E o \in Shown : Edit(o) \/ MarkPaid(o) \/ Delete(o) \/ Unmark(o)
  \/ \E l \in Loans : \/ AddPayments(l)
                      \/ \E k \in {"statement", "close", "replace", "deleteLoan"} : LoanAction(k, l)
  \/ \E m \in Months : \/ PickMonth(m)
                       \/ \E loan \in {NoLoan} \cup [loan : Loans, kind : {"loan_payment"}] : Draft(m, loan)
  \/ \E r \in Rows : PickRow(r) \/ \E o \in server.obligations :
                                      PartnerSends([kind |-> "mark", id |-> o.id, row |-> r])
  \/ \E c \in {[kind |-> "add", loan |-> First], [kind |-> "close", loan |-> First, month |-> 1],
               [kind |-> "delete", id |-> 1]} : PartnerSends(c)
  \/ \E c \in calls : Read(c) \/ Write(c) \/ Refuse(c)

Spec == Init /\ [][Next]_vars

(* A row pays one obligation at most (domain/obligations.py), whichever of   *)
(* two pages listed it as a candidate. It takes requests that do not overlap.*)
RowPaysOne ==
  \A o, x \in server.obligations : o.paid # None /\ o.paid = x.paid => o = x

(* A loan gets its generated payments at most once a month, and when it      *)
(* closes loses those to come: pages that still show it open add none        *)
(* (domain/loans.py, open_due_dates; house_records.py, close_loan).          *)
FollowsTheLoan ==
  \A c \in calls : c \notin calls' /\ server' # server =>
       /\ c.kind = "add" =>
            \A o \in server'.obligations \ server.obligations :
              Open(server.loans, c.loan) /\ \A x \in Payments(c.loan) : x.due # o.due
       /\ c.kind \in {"close", "replace"} /\ c.loan \in DOMAIN server'.loans =>
            \A o \in Payments(c.loan)' : o.paid # None \/ o.due <= server'.loans[c.loan].closed
=============================================================================
