---------------------------- MODULE BudgetScreen ----------------------------
(* The monthly budgets of category groups: a month and scope picked in the   *)
(* URL, forms kept per group while the answer under them changes, and the    *)
(* requests, two people's at once, that the unique indexes arbitrate         *)
(* (BudgetPage.tsx; save_budget.py, update_budget.py, copy_budgets.py).      *)
EXTENDS Integers, FiniteSets

CONSTANTS Groups, Months,         \* months are numbers
          Amounts, Stored,        \* Stored: the budgets there at first
          Me, None,               \* None: the household's, or nothing
          MaxRequests, MaxElsewhere   \* bounds

VARIABLES server, view, calls
vars == <<server, view, calls>>

Scopes == {"household", "personal"}
Owner(scope) == IF scope = "personal" THEN Me ELSE None
Key(v) == <<v.month, v.scope>>
Of(budgets, m, owner) == {b \in budgets : b.month = m /\ b.owner = owner}
Visible(budgets, scope) == {b \in budgets : b.owner \in {None, Owner(scope)}}
\* find_copyable_source: the latest earlier month with budgets.
CopyableSource(budgets, m) ==
  LET earlier == {b.month : b \in {c \in budgets : c.month < m}}
  IN IF earlier = {} THEN None ELSE CHOOSE n \in earlier : \A k \in earlier : k <= n
Overview(budgets, m, scope) ==
  [budgets |-> Of(budgets, m, Owner(scope)), source |-> CopyableSource(Visible(budgets, scope), m)]

\* ----- the page --------------------------------------------------------------
Data(v) == v.cache[Key(v)]
NoForm == [editing |-> FALSE, amount |-> None, confirm |-> FALSE, id |-> None]
NoAdd == [open |-> FALSE, group |-> None, amount |-> None]
BudgetOf(v, g) ==
  IF Data(v) = None \/ ~\E b \in Data(v).budgets : b.group = g THEN None
  ELSE CHOOSE b \in Data(v).budgets : b.group = g
\* A row keeps its form while its group stays budgeted on screen; without data
\* nothing is rendered and every form is forgotten. (Bound: nothing is followed
\* on screen after the last request.)
Rendered(before, after) ==
  [after EXCEPT !.rows = [g \in Groups |-> IF BudgetOf(before, g) # None /\ BudgetOf(after, g) # None
                                           THEN after.rows[g] ELSE NoForm],
                !.add = IF Data(after) = None THEN NoAdd ELSE @]
Show(new) ==
  view.try < MaxRequests /\ view' = Rendered(view, new) /\ UNCHANGED <<server, calls>>

PickMonth(m) == view.month # m /\ Show([view EXCEPT !.month = m])
SetScope(s) == view.scope # s /\ Show([view EXCEPT !.scope = s])
\* Fetched when first shown and after each answer; an event refetches it too.
Arrive ==
  LET data == Overview(server.budgets, view.month, view.scope) IN
  /\ Data(view) # data
  /\ Show([view EXCEPT !.cache[Key(view)] = data])

Edit(g) ==
  /\ BudgetOf(view, g) # None /\ ~view.rows[g].editing
  /\ Show([view EXCEPT !.rows[g] = [@ EXCEPT !.editing = TRUE, !.amount = BudgetOf(view, g).amount,
                                             !.id = BudgetOf(view, g).id]])
TypeAmount(g, a) ==
  view.rows[g].editing /\ view.rows[g].amount # a /\ Show([view EXCEPT !.rows[g].amount = a])
CancelEdit(g) == view.rows[g].editing /\ Show([view EXCEPT !.rows[g] = NoForm])
AskDelete(g, open) ==
  /\ BudgetOf(view, g) # None /\ view.rows[g].confirm # open
  /\ Show([view EXCEPT !.rows[g].confirm = open])

\* What a request names: the month and the scope on screen beside its own fields.
Request(call) ==
  LET beside == [try |-> view.try + 1, month |-> view.month, id |-> None,
                 owner |-> Owner(view.scope), found |-> None, read |-> FALSE]
  IN [f \in DOMAIN call \cup DOMAIN beside |-> IF f \in DOMAIN call THEN call[f] ELSE beside[f]]
Send(call, new) ==
  /\ view.try < MaxRequests
  /\ calls' = calls \cup {Request(call)}
  /\ view' = [new EXCEPT !.try = @ + 1]
  /\ UNCHANGED server
\* Mutant: the budget the form was opened on, in whichever month that was.
OpenedTarget(g) == view.rows[g].id
\* The budget that is on screen when the form is submitted.
Target(g) == BudgetOf(view, g).id
SaveEdit(g) ==
  /\ view.rows[g].editing /\ view.rows[g].amount \in Amounts /\ BudgetOf(view, g) # None
  /\ Send([kind |-> "update", group |-> g, amount |-> view.rows[g].amount, id |-> Target(g)],
          [view EXCEPT !.rows[g].editing = FALSE])
ConfirmDelete(g) ==
  /\ view.rows[g].confirm /\ BudgetOf(view, g) # None
  /\ Send([kind |-> "delete", group |-> g, id |-> Target(g)], [view EXCEPT !.rows[g].confirm = FALSE])

OpenAdd == Data(view) # None /\ ~view.add.open /\ Show([view EXCEPT !.add.open = TRUE])
FillAdd(g, a) ==
  /\ view.add.open /\ BudgetOf(view, g) = None
  /\ Show([view EXCEPT !.add = [open |-> TRUE, group |-> g, amount |-> a]])
CancelAdd == view.add.open /\ Show([view EXCEPT !.add.open = FALSE])
SaveAdd ==
  /\ view.add.open /\ view.add.group # None /\ view.add.amount \in Amounts
  /\ Send([kind |-> "save", group |-> view.add.group, amount |-> view.add.amount],
          [view EXCEPT !.add = NoAdd])
Copy ==
  /\ Data(view) # None /\ Data(view).budgets = {} /\ Data(view).source # None
  /\ ~\E c \in calls : c.kind = "copy"
  /\ Send([kind |-> "copy", from |-> Data(view).source], view)

\* ----- the server: what a request reads, then what it writes --------------------
Read(c) ==
  /\ c.kind \in {"save", "update", "delete"} /\ ~c.read /\ c.month \notin server.locked
  /\ LET named == {b \in server.budgets : b.id = c.id \/ (c.kind = "save" /\ b.group = c.group
                                                      /\ b.month = c.month /\ b.owner = c.owner)} IN
     /\ c.kind = "save" \/ named # {}
     /\ calls' = (calls \ {c}) \cup {[c EXCEPT !.read = TRUE,
           !.found = IF named = {} THEN None ELSE CHOOSE b \in named : TRUE]}
  /\ UNCHANGED <<server, view>>
Slot(b) == <<b.group, b.month, b.owner>>
FreeSlot(b, budgets) == \A x \in budgets : Slot(x) # Slot(b)
Reply(c) == calls' = calls \ {c} /\ UNCHANGED view
Write(c) ==
  /\ c.read /\ Reply(c)
  /\ \/ /\ c.found = None
        /\ LET b == [id |-> <<c.try, 0>>, group |-> c.group, month |-> c.month, owner |-> c.owner,
                     amount |-> c.amount] IN
           /\ FreeSlot(b, server.budgets)
           /\ server' = [server EXCEPT !.budgets = @ \cup {b}]
     \* merge: a budget that went since it was read is put back under its id
     \/ /\ c.found # None /\ c.kind # "delete"
        /\ \A b \in server.budgets : b.id # c.found.id
        /\ FreeSlot(c.found, server.budgets)
        /\ server' = [server EXCEPT !.budgets = @ \cup {[c.found EXCEPT !.amount = c.amount]}]
     \/ \E b \in server.budgets :
           /\ c.found # None /\ b.id = c.found.id
           /\ server' = [server EXCEPT !.budgets = (@ \ {b}) \cup
                (IF c.kind = "delete" THEN {} ELSE {[b EXCEPT !.amount = c.amount]})]
\* The household's and my own budgets, of the groups that have none yet.
Copied(c, owner) ==
  {b \in Of(server.budgets, c.from, owner) :
     ~\E x \in Of(server.budgets, c.month, owner) : x.group = b.group}
CopyBudgets(c) ==
  /\ c.kind = "copy" /\ c.month \notin server.locked /\ Reply(c)
  /\ server' = [server EXCEPT !.budgets = @ \cup
        {[b EXCEPT !.month = c.month, !.id = <<c.try, b.id>>] : b \in Copied(c, None) \cup Copied(c, Me)}]
Refuse(c) == Reply(c) /\ UNCHANGED server

Elsewhere(new) ==
  /\ server.elsewhere < MaxElsewhere
  /\ server' = [new EXCEPT !.elsewhere = @ + 1] /\ UNCHANGED <<view, calls>>
PartnerAdds(g, m) ==
  LET b == [id |-> <<-1 - server.elsewhere, 0>>, group |-> g, month |-> m, owner |-> None, amount |-> 1] IN
  FreeSlot(b, server.budgets) /\ Elsewhere([server EXCEPT !.budgets = @ \cup {b}])
PartnerRemoves(b) == b.owner = None /\ Elsewhere([server EXCEPT !.budgets = @ \ {b}])
Finalize(m) == m \notin server.locked /\ Elsewhere([server EXCEPT !.locked = @ \cup {m}])

Init ==
  /\ server = [budgets |-> Stored, locked |-> {}, elsewhere |-> 0]
  /\ view = [month |-> CHOOSE m \in Months : \A n \in Months : m >= n, scope |-> "household",
             cache |-> [k \in Months \X Scopes |-> None], rows |-> [g \in Groups |-> NoForm],
             add |-> NoAdd, try |-> 0]
  /\ calls = {}

Next ==
  \/ \E m \in Months : PickMonth(m) \/ Finalize(m) \/ \E g \in Groups : PartnerAdds(g, m)
  \/ \E s \in Scopes : SetScope(s)
  \/ \E g \in Groups : \/ Edit(g) \/ CancelEdit(g) \/ SaveEdit(g) \/ ConfirmDelete(g)
                       \/ \E open \in BOOLEAN : AskDelete(g, open)
                       \/ \E a \in Amounts : TypeAmount(g, a) \/ FillAdd(g, a)
  \/ Arrive \/ OpenAdd \/ CancelAdd \/ SaveAdd \/ Copy
  \/ \E c \in calls : Read(c) \/ Write(c) \/ CopyBudgets(c) \/ Refuse(c)
  \/ \E b \in server.budgets : PartnerRemoves(b)

Spec == Init /\ [][Next]_vars

(* A group has one budget a month for the household and one for each person, *)
(* whoever adds or copies it at the same time.                               *)
OneBudgetEach ==
  \A b, x \in server.budgets : Slot(b) = Slot(x) => b = x

(* An edit or a removal reaches the budget of the month and scope that were  *)
(* on screen when it was confirmed, also from a form opened in another one.  *)
EditsWhatIsShown ==
  \A c \in calls : c.kind \in {"update", "delete"} =>
    \A b \in server.budgets : b.id = c.id => Slot(b) = <<c.group, c.month, c.owner>>
=============================================================================
