------------------------------ MODULE BulkEdit ------------------------------
(* Bulk editing in the Transactions table: a selection that outlives the     *)
(* filters and the polls, a toolbar with an editing and a reviewing step, and *)
(* one apply that sends its field edits and its tag edits as two requests at *)
(* once (TransactionsPage.tsx, BulkEditToolbar.tsx, OwnerSharesEditor.tsx).  *)
(* A row is its kind, which its account decides; the writes of whole rows    *)
(* are SettleUp's.                                                           *)
EXTENDS Naturals, FiniteSets

CONSTANTS Ids,          \* the rows
          Parts,        \* the parts of a bulk change a run uses
          MaxApplies,   \* bound: applies of the user
          MaxElsewhere  \* bound: changes made by the partner meanwhile

AllParts == {"split", "category", "owner_shares", "depositor", "tags"}
JointParts == {"owner_shares", "depositor"}
Parsed == {"split", "owner_shares"}    \* typed as text, so possibly invalid

VARIABLES server, view, calls
vars == <<server, view, calls>>

NoDraft == [p \in Parts |-> "none"]
NoResult == {}

\* The rows the page has: those of the last answer the filters keep.
Known == [id \in view.visible |-> view.data[id]]
AllJoint == view.selected # {} /\ \A id \in view.selected :
              id \in DOMAIN Known /\ Known[id].joint

\* The parts the toolbar holds as it stands: the split only for rows with a
\* payer, shares and depositor only for joint rows.
Shown(p) == IF p \in JointParts THEN AllJoint ELSE p # "split" \/ ~AllJoint
Wanted == {p \in Parts : Shown(p) /\ view.draft[p] = "ok"}
Erroneous == {p \in Parts : Shown(p) /\ view.draft[p] = "bad"}
CanReview == Wanted # {} /\ Erroneous = {} /\ view.selected # {}

Unanswered == {c \in calls : ~c.answered}
Saving == Unanswered # {}
ToolbarShown == view.bulk /\ view.result = NoResult /\ view.visible # {}

EnterBulk ==
  /\ ~view.bulk /\ ~view.finalized /\ view.visible # {}
  /\ view' = [view EXCEPT !.bulk = TRUE]
  /\ UNCHANGED <<server, calls>>

\* exitBulkMode: the toolbar unmounts with its drafts, the selection is cleared.
Exited == [view EXCEPT !.bulk = FALSE, !.selected = {}, !.step = "editing",
                       !.draft = NoDraft, !.result = NoResult]
\* The button, not while saving, or Escape, from the editing step.
Cancel == ToolbarShown /\ (~Saving \/ view.step = "editing") /\ view' = Exited /\ UNCHANGED <<server, calls>>
ResultExpires == view.result # NoResult /\ view' = Exited /\ UNCHANGED <<server, calls>>

ToggleRow(id) ==
  /\ view.bulk /\ id \in view.visible
  /\ view' = [view EXCEPT !.selected = IF id \in @ THEN @ \ {id} ELSE @ \cup {id}]
  /\ UNCHANGED <<server, calls>>
\* The box of the header compares sizes: as many selected as shown means all.
ToggleAll ==
  /\ view.bulk /\ view.visible # {}
  /\ view' = [view EXCEPT !.selected =
       IF Cardinality(@) = Cardinality(view.visible) THEN {} ELSE view.visible]
  /\ UNCHANGED <<server, calls>>

\* Its fields wait for an apply under way; the switch that drops the tags does not.
Draft(p, value) ==
  /\ ToolbarShown /\ view.step = "editing" /\ Shown(p)
  /\ ~Saving \/ <<p, value>> = <<"tags", "none">>
  /\ value = "bad" => p \in Parsed
  /\ view' = [view EXCEPT !.draft[p] = value]
  /\ UNCHANGED <<server, calls>>
Review ==
  /\ ToolbarShown /\ view.step = "editing" /\ CanReview
  /\ view' = [view EXCEPT !.step = "reviewing"]
  /\ UNCHANGED <<server, calls>>
\* Escape takes a step back whether an apply is under way or not.
Back ==
  /\ ToolbarShown /\ view.step = "reviewing"
  /\ view' = [view EXCEPT !.step = "editing"]
  /\ UNCHANGED <<server, calls>>

\* handleApply, from the button or by Enter: the parts are those that hold now,
\* which need not be those that were reviewed; fields and tags go separately.
Requests(n, parts) ==
  {[apply |-> n, kind |-> k, parts |-> parts \cap IF k = "tags" THEN {"tags"} ELSE Parts \ {"tags"},
    ids |-> view.selected, phase |-> "sent", read |-> <<>>, answered |-> FALSE,
    joint |-> {id \in DOMAIN Known : Known[id].joint}] :
     k \in {q \in {"fields", "tags"} : IF q = "tags" THEN "tags" \in parts
                                       ELSE parts \ {"tags"} # {}}}
Shows(parts) == [view EXCEPT !.result = parts, !.step = "editing", !.draft = NoDraft]
Apply ==
  /\ ToolbarShown /\ view.step = "reviewing" /\ view.applies < MaxApplies
  /\ LET parts == Wanted
         sent == Requests(view.applies, parts) IN
     /\ calls' = calls \cup sent
     \* nothing left to send: Promise.all of nothing resolves
     /\ view' = [(IF sent = {} THEN Shows({"nothing"}) ELSE view) EXCEPT !.applies = @ + 1]
  /\ UNCHANGED server

\* The server: one transaction per request, whole rows read, then written.
ServerReads(c) ==
  /\ c.phase = "sent"
  /\ calls' = (calls \ {c}) \cup {[c EXCEPT !.phase = "read", !.read = server.rows]}
  /\ UNCHANGED <<server, view>>
Refused(c) ==
  \/ server.finalized /\ c.kind = "fields"
  \/ \E id \in c.ids : ~c.read[id].joint /\ c.parts \cap JointParts # {}
  \/ \E id \in c.ids : c.read[id].joint /\ "split" \in c.parts
ServerWrites(c) ==
  /\ c.phase = "read" /\ ~Refused(c)
  /\ calls' = (calls \ {c}) \cup {[c EXCEPT !.phase = "done", !.read = <<>>]}
  /\ UNCHANGED <<server, view>>
ServerRefuses(c) ==
  /\ c.phase = "read" /\ Refused(c)
  /\ calls' = (calls \ {c}) \cup {[c EXCEPT !.phase = "failed", !.read = <<>>]}
  /\ UNCHANGED <<server, view>>

Together(c) == {d \in calls : d.apply = c.apply}
\* Mutant: the first success is enough.
FirstSucceeded(c) == TRUE
\* Promise.all: the message waits for every request of the apply to succeed.
AllSucceeded(c) == \A d \in Together(c) \ {c} : d.answered /\ d.phase = "done"
Answer(c) ==
  /\ c.phase \in {"done", "failed"} /\ ~c.answered
  /\ calls' = (calls \ {c}) \cup {[c EXCEPT !.answered = TRUE]}
  /\ view' = IF c.phase = "done" /\ AllSucceeded(c)
             THEN [Shows(UNION {d.parts : d \in Together(c)}) EXCEPT !.shownOf = c.apply]
             ELSE view
  /\ UNCHANGED server

\* The poll, an event or an invalidation brings the rows as they now are.
Refetch ==
  /\ view' = [view EXCEPT !.data = server.rows, !.finalized = server.finalized]
  /\ UNCHANGED <<server, calls>>
\* Other filters: the table shows other rows, and without any it renders nothing.
Refilter(rows) ==
  /\ view' = [view EXCEPT !.visible = rows,
                !.step = IF rows = {} THEN "editing" ELSE @,
                !.draft = IF rows = {} THEN NoDraft ELSE @]
  /\ UNCHANGED <<server, calls>>
Elsewhere ==
  /\ server.elsewhere < MaxElsewhere
  /\ \/ \E id \in Ids : server' = [server EXCEPT !.rows[id].joint = ~@, !.elsewhere = @ + 1]
     \/ server' = [server EXCEPT !.finalized = ~@, !.elsewhere = @ + 1]
  /\ UNCHANGED <<view, calls>>

Init ==
  /\ \E joint \in SUBSET Ids :
       server = [rows |-> [id \in Ids |-> [joint |-> id \in joint]],
                 finalized |-> FALSE, elsewhere |-> 0]
  /\ view = [data |-> server.rows, finalized |-> FALSE, visible |-> Ids, bulk |-> FALSE,
             selected |-> {}, step |-> "editing", draft |-> NoDraft,
             result |-> NoResult, applies |-> 0, shownOf |-> 0]
  /\ calls = {}

Next ==
  \/ EnterBulk \/ Cancel \/ ResultExpires \/ ToggleAll \/ Review \/ Back \/ Apply
  \/ \E id \in Ids : ToggleRow(id)
  \/ \E p \in Parts, value \in {"none", "ok", "bad"} : Draft(p, value)
  \/ \E c \in calls : ServerReads(c) \/ ServerWrites(c) \/ ServerRefuses(c) \/ Answer(c)
  \/ Refetch
  \/ \E rows \in SUBSET Ids : Refilter(rows)
  \/ Elsewhere

Spec == Init /\ [][Next]_vars

(* The success message stands only for an apply all of whose requests the    *)
(* server has carried out, however their answers are ordered.                *)
MessageAfterAll ==
  view.result \notin {NoResult, {"nothing"}} =>
    \A c \in calls : c.apply = view.shownOf => c.phase = "done"

(* Owner shares and depositors are sent only for rows the page has before it *)
(* and knows to be joint, whatever the filters hide or a poll brings between *)
(* the review and the apply.                                                 *)
JointPartsOnJointRows ==
  \A c \in calls : c.parts \cap JointParts # {} => c.ids # {} /\ c.ids \subseteq c.joint
=============================================================================
