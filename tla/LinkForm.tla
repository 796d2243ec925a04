------------------------------ MODULE LinkForm ------------------------------
(* Linking bank transfers to payments: the checklist of candidates with its  *)
(* search month, the form that records a payment from the picked legs, and   *)
(* the dialog that links legs to a stored one, several requests at once      *)
(* (CandidateChecklist.tsx, SettleUpPage.tsx, PosthocLinkDialog.tsx).        *)
EXTENDS Integers, FiniteSets, Functions

CONSTANTS Persons, Months, Legs,   \* Legs: id -> [amount, payer, month]
          None, All,               \* no person; every month of the span
          MaxLinked,               \* legs of one payment (2 in the code)
          MaxRequests              \* bound: requests sent

VARIABLES server, view, calls
vars == <<server, view, calls>>

Candidates(search) == {l \in DOMAIN Legs : search = All \/ Legs[l].month = search}
Magnitude(n) == IF n < 0 THEN -n ELSE n

\* All the legs, whichever way they run. Mutant of SettlementAmount: both sides
\* of the transfer are added up.
SumOfLegs(legs) == SumFunction([l \in legs |-> Magnitude(Legs[l].amount)])
\* computeSettlementAmount: what was sent or what was received, in cents.
SettlementAmount(legs) ==
  LET sent == SumOfLegs({l \in legs : Legs[l].amount < 0})
      received == SumOfLegs({l \in legs : Legs[l].amount >= 0})
  IN IF sent > received THEN sent ELSE received

Senders(legs) == {Legs[l].payer : l \in {k \in legs : Legs[k].amount < 0}}
Recipients(legs) == {Legs[l].payer : l \in {k \in legs : Legs[k].amount > 0}}
Other(p) == CHOOSE q \in Persons : q # p
\* deriveSettlementDirection: the legs decide, a missing side is the other one.
DeriveDirection(legs) ==
  LET s == Senders(legs)  r == Recipients(legs)
      from == IF s = {} THEN Other(CHOOSE p \in r : TRUE) ELSE CHOOSE p \in s : TRUE
      to == IF r = {} THEN Other(from) ELSE CHOOSE p \in r : TRUE
  IN IF Cardinality(s) > 1 \/ Cardinality(r) > 1 \/ s \cup r = {} \/ from = to
     THEN None ELSE <<from, to>>
\* What the server derives from the legs it is sent (or refuses with).
ServerDirections(legs) ==
  {d \in Persons \X Persons : d[1] # d[2] /\ Senders(legs) \subseteq {d[1]}
     /\ Recipients(legs) \subseteq {d[2]} /\ Senders(legs) \cup Recipients(legs) # {}}

\* Transfers of one size come first, the lone ones on demand.
Paired(legs) ==
  {l \in legs : \E k \in legs \ {l} : Magnitude(Legs[k].amount) = Magnitude(Legs[l].amount)}
Visible == IF view.showAll THEN Candidates(view.search) ELSE Paired(Candidates(view.search))

Empty(form) == [form |-> form, search |-> All, showAll |-> FALSE, selected |-> {},
                covered |-> {}, busy |-> FALSE, try |-> 0]

Search(m) ==
  /\ view.search # m
  /\ view' = [view EXCEPT !.search = m, !.showAll = FALSE]
  /\ UNCHANGED <<server, calls>>
ShowAll == ~view.showAll /\ view' = [view EXCEPT !.showAll = TRUE] /\ UNCHANGED <<server, calls>>

\* The record form keeps the picked candidates, of which only those of the
\* month searched are known to the toggle; the dialog keeps their ids.
ToggleLeg(l) ==
  /\ l \in Visible
  /\ l \in view.selected \/ Cardinality(view.selected) < MaxLinked
  /\ LET next == IF l \in view.selected THEN view.selected \ {l} ELSE view.selected \cup {l} IN
     view' = [view EXCEPT !.selected =
                IF view.form = "record" THEN next \cap Candidates(view.search) ELSE next]
  /\ UNCHANGED <<server, calls>>
ToggleMonth(m) ==
  /\ view.form = "record" /\ view.selected # {}
  /\ view' = [view EXCEPT !.covered = IF m \in @ THEN @ \ {m} ELSE @ \cup {m}]
  /\ UNCHANGED <<server, calls>>

Call(kind, legs) ==
  [kind |-> kind, legs |-> legs, all |-> view.selected,
   direction |-> DeriveDirection(view.selected), amount |-> SettlementAmount(view.selected),
   try |-> view.try + 1, ok |-> FALSE]
Send(new) ==
  /\ view.selected # {} /\ ~view.busy /\ view.try < MaxRequests
  /\ calls' = calls \cup new
  /\ view' = [view EXCEPT !.busy = TRUE, !.try = @ + 1]
  /\ UNCHANGED server
Record ==
  /\ view.form = "record" /\ view.covered # {} /\ DeriveDirection(view.selected) # None
  /\ Send({Call("record", view.selected)})
Link == view.form = "posthoc" /\ Send({Call("mark", {l}) : l \in view.selected})

\* One leg belongs to one payment: a request that names a linked one is refused.
Accept(c) ==
  /\ ~c.ok /\ c.legs \cap server.linked = {}
  /\ server' = [server EXCEPT !.linked = @ \cup c.legs]
  /\ calls' = (calls \ {c}) \cup {[c EXCEPT !.ok = TRUE]}
  /\ UNCHANGED view
\* Promise.all is settled by its last success or by its first failure, and a
\* success clears whatever is selected by then.
\* Mutant: one success is enough.
AnySuccess(c) == TRUE
IsLast(c) == ~\E d \in calls \ {c} : d.try = c.try
Waits(c) == view.busy /\ c.try = view.try
Succeed(c) ==
  /\ c.ok
  /\ calls' = calls \ {c}
  /\ view' = IF Waits(c) /\ IsLast(c)
             THEN [view EXCEPT !.busy = FALSE, !.selected = {}] ELSE view
  /\ UNCHANGED server
Refuse(c) ==
  /\ ~c.ok
  /\ calls' = calls \ {c}
  /\ view' = IF Waits(c) THEN [view EXCEPT !.busy = FALSE] ELSE view
  /\ UNCHANGED server

\* The balance or the list of payments changed: the form starts again (its key);
\* the dialog only when its amount does.
Rekey ==
  /\ view.form = "record" /\ view' = [Empty("record") EXCEPT !.try = view.try]
  /\ UNCHANGED <<server, calls>>
Elsewhere(l) ==
  /\ l \notin server.linked
  /\ server' = [server EXCEPT !.linked = @ \cup {l}] /\ UNCHANGED <<view, calls>>

Init ==
  /\ server = [linked |-> {}]
  /\ \E form \in {"record", "posthoc"} : view = Empty(form)
  /\ calls = {}

Next ==
  \/ \E m \in Months \cup {All} : Search(m)
  \/ \E m \in Months : ToggleMonth(m)
  \/ ShowAll \/ Record \/ Link \/ Rekey
  \/ \E l \in DOMAIN Legs : ToggleLeg(l) \/ Elsewhere(l)
  \/ \E c \in calls : Accept(c) \/ Succeed(c) \/ Refuse(c)

Spec == Init /\ [][Next]_vars

(* A payment the form records goes from the person its legs say paid to the  *)
(* one they say received, the only direction the server derives, and is of   *)
(* the amount of one side of the transfer, never of both added up.           *)
RecordsWhatLegsSay ==
  \A c \in calls : c.kind = "record" =>
    /\ c.direction # None /\ ServerDirections(c.legs) = {c.direction}
    /\ \A l \in c.legs : Cardinality(c.legs) = 2 /\ Cardinality(Senders(c.legs)) = 1
         /\ Cardinality(Recipients(c.legs)) = 1 /\ Paired(c.legs) = c.legs
         => c.amount = Magnitude(Legs[l].amount)

(* The dialog is cleared only when every leg it sent is linked: after a      *)
(* half-way failure, or before the last answer, nothing picked is forgotten. *)
ClearsWhenLinked ==
  (view.form = "posthoc" /\ view.busy /\ ~view'.busy /\ view'.selected # view.selected =>
       \A c \in calls : c.try = view.try /\ c.try = view'.try => c.all \subseteq server.linked)
=============================================================================
