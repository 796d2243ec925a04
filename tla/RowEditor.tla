------------------------------ MODULE RowEditor ------------------------------
(* Editing one transaction in place: the draft taken when the row opens, the *)
(* rows polled under it, the save that sends what differs from the row on    *)
(* screen, an account that becomes joint or a month that closes meanwhile    *)
(* (TransactionEditor.tsx, TransactionsPage.tsx, OwnerSharesEditor.tsx;      *)
(* bulk_update_transactions.py).                                             *)
EXTENDS Integers, FiniteSets

CONSTANTS Values,                     \* what a field may hold; 0 is its default
          None,
          MaxRequests, MaxElsewhere   \* bounds: saves, changes by others

Fields == {"amount", "notes", "split", "shares"}

VARIABLES server, view, calls
vars == <<server, view, calls>>

Differing(draft, row) == {f \in Fields : draft[f] # row[f]}
\* The split of a joint row is its owner shares, of any other its percentage.
Sent(draft, row) ==
  Differing(draft, row) \ {IF row.joint THEN "split" ELSE "shares"}
HasChanges(draft, row) ==
  Differing(draft, row) \ {f \in {"shares"} : ~row.joint} # {}
DraftOf(row) == [f \in Fields |-> row[f]]

Toggle ==
  /\ view.shown /\ ~view.locked
  /\ view' = [view EXCEPT !.open = ~@, !.draft = IF view.open THEN None ELSE DraftOf(view.row)]
  /\ UNCHANGED <<server, calls>>
\* Escape, also while an earlier save is under way.
Cancel ==
  /\ view.open /\ view.shown
  /\ view' = [view EXCEPT !.open = FALSE, !.draft = None]
  /\ UNCHANGED <<server, calls>>
Type(f, v) ==
  /\ view.open /\ view.shown /\ view.saving = 0 /\ view.draft[f] # v
  /\ f # (IF view.row.joint THEN "split" ELSE "shares")
  /\ view' = [view EXCEPT !.draft[f] = v]
  /\ UNCHANGED <<server, calls>>
\* The row closes and is ticked as saved before the server has answered. Enter
\* does not wait for an earlier save.
Save ==
  /\ view.open /\ view.shown /\ view.try < MaxRequests
  /\ HasChanges(view.draft, view.row)
  /\ calls' = calls \cup {[try |-> view.try + 1, fields |-> Sent(view.draft, view.row),
                           values |-> view.draft]}
  /\ view' = [view EXCEPT !.try = @ + 1, !.saving = view.try + 1, !.saved = TRUE,
                          !.open = FALSE, !.draft = None]
  /\ UNCHANGED server
\* A filter hides the row, and its draft with it, or shows it again.
Filter ==
  /\ view' = [view EXCEPT !.shown = ~@,
                          !.draft = IF view.open /\ ~view.shown THEN DraftOf(view.row) ELSE None]
  /\ UNCHANGED <<server, calls>>
TickExpires == view.saved /\ view' = [view EXCEPT !.saved = FALSE] /\ UNCHANGED <<server, calls>>

\* Mutant: the editor starts again from every poll.
PollInto(v) == [v EXCEPT !.row = server.row, !.locked = server.locked,
                         !.draft = IF @ = None THEN None ELSE DraftOf(server.row)]
\* The poll, every five seconds and after each save that succeeds.
Polled(v) == [v EXCEPT !.row = server.row, !.locked = server.locked]
Poll ==
  /\ view' = Polled(view) /\ view' # view
  /\ UNCHANGED <<server, calls>>

\* ----- the server ------------------------------------------------------------
\* Mutant: no rule relates the fields of a request to the row.
AnyFields(row, fields) == fields # {}
\* Only a joint row has owner shares, and it has no payer's split.
Allowed(row, fields) ==
  /\ fields # {}
  /\ (IF row.joint THEN "split" ELSE "shares") \notin fields
\* Mutant: the amount before the latest edit is kept, not the imported one.
LatestOriginal(row, new) == IF new.amount # row.amount THEN row.amount ELSE row.original
Original(row, new) ==
  IF new.amount # row.amount /\ row.original = None THEN row.amount ELSE row.original
Written(row, c) ==
  LET new == [f \in DOMAIN row |-> IF f \in c.fields THEN c.values[f] ELSE row[f]]
  IN [new EXCEPT !.original = Original(row, new)]
Accept(c) ==
  /\ ~server.locked /\ Allowed(server.row, c.fields)
  /\ server' = [server EXCEPT !.row = Written(server.row, c)]
  /\ calls' = calls \ {c}
  /\ view' = [view EXCEPT !.saving = IF @ = c.try THEN 0 ELSE @]
Refuse(c) ==
  /\ calls' = calls \ {c}
  /\ view' = [view EXCEPT !.saving = IF @ = c.try THEN 0 ELSE @]
  /\ UNCHANGED server

\* ----- the others --------------------------------------------------------------
Elsewhere(new) ==
  /\ server.elsewhere < MaxElsewhere
  /\ server' = [new EXCEPT !.elsewhere = @ + 1] /\ server' # server
  /\ UNCHANGED <<view, calls>>
PartnerEdits(f, v) ==
  /\ ~server.locked /\ Allowed(server.row, {f}) /\ server.row[f] # v
  /\ Elsewhere([server EXCEPT !.row = Written(server.row, [fields |-> {f},
                                        values |-> [g \in Fields |-> v]])])
\* A hand-set split is carried into the shares of the joint row, and back.
AccountFlips ==
  /\ ~server.locked
  /\ Elsewhere([server EXCEPT !.row.joint = ~@, !.row.split = server.row.shares,
                              !.row.shares = server.row.split])
MonthFlips == Elsewhere([server EXCEPT !.locked = ~@])

Init ==
  /\ server = [row |-> [amount |-> 0, notes |-> 0, split |-> 0, shares |-> 0, joint |-> FALSE,
                        original |-> None], locked |-> FALSE, elsewhere |-> 0]
  /\ view = [row |-> server.row, locked |-> FALSE, shown |-> TRUE, open |-> FALSE, draft |-> None,
             saving |-> 0, saved |-> FALSE, try |-> 0]
  /\ calls = {}

Next ==
  \/ Toggle \/ Cancel \/ Save \/ Filter \/ TickExpires \/ Poll
  \/ \E f \in Fields, v \in Values : Type(f, v) \/ PartnerEdits(f, v)
  \/ AccountFlips \/ MonthFlips
  \/ \E c \in calls : Accept(c) \/ Refuse(c)

Spec == Init /\ [][Next]_vars

(* A row has the split of its kind only, whatever kind it was when the       *)
(* editor opened: a percentage never lands on a row that became joint, nor   *)
(* owner shares on one that no longer is.                                    *)
SplitFitsRow ==
  IF server.row.joint THEN server.row.split = 0 ELSE server.row.shares = 0

(* The amount the row was imported with is kept through any number of edits, *)
(* by either partner, and never replaced by an amount in between.            *)
KeepsOriginal ==
  server.row.original # None => server'.row.original = server.row.original

(* What is being typed survives the poll, a refused save of an earlier edit  *)
(* and every change made elsewhere: only the user, or a filter that hides    *)
(* the row, lets go of a draft.                                              *)
KeepsDraft ==
  (view.draft # None /\ view'.draft # view.draft /\ view'.shown = view.shown /\ view'.open
       => Cardinality({f \in Fields : view'.draft[f] # view.draft[f]}) = 1
          /\ view'.row = view.row /\ server' = server)
=============================================================================
