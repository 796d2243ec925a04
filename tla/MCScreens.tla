----------------------------- MODULE MCScreens -----------------------------
(* What each page shows at first.                                            *)
EXTENDS Screens, TLC

Couple == {"ann", "bob"}

(* Rows of each kind the server sends: a shared expense of each person, a    *)
(* spotted one, a personal one, a joint deposit nobody is credited with, a   *)
(* linked leg, a transfer, a paycheck and an excluded row.                   *)
Shares(ann) == [p \in Couple |-> IF p = "ann" THEN ann ELSE 100 - ann]
Base == [id |-> 0, joint |-> FALSE, payer |-> "ann", percentage |-> 50,
         household |-> TRUE, settlement |-> FALSE, excluded |-> FALSE,
         transfer |-> FALSE, income |-> FALSE, amount |-> -1, shares |-> Shares(50),
         depositor |-> NoOne, tags |-> {}, category |-> "food", words |-> {"cafe"}, notes |-> FALSE]
Kinds == {
  Base,
  [Base EXCEPT !.id = 1, !.payer = "bob", !.percentage = 25, !.shares = Shares(75),
               !.tags = {"discuss"}],
  [Base EXCEPT !.id = 2, !.percentage = 0, !.amount = -4, !.shares = Shares(0)],
  [Base EXCEPT !.id = 3, !.percentage = 100, !.household = FALSE, !.notes = TRUE,
               !.shares = Shares(100)],
  [Base EXCEPT !.id = 4, !.joint = TRUE, !.payer = NoOne, !.amount = 6,
               !.category = "pay", !.words = {}],
  [Base EXCEPT !.id = 5, !.settlement = TRUE, !.household = FALSE],
  [Base EXCEPT !.id = 6, !.transfer = TRUE, !.shares = <<>>, !.category = "pay"],
  [Base EXCEPT !.id = 7, !.income = TRUE, !.shares = <<>>, !.amount = 6],
  [Base EXCEPT !.id = 8, !.excluded = TRUE]}
Cafe == {"cafe"}
Discuss == {"discuss"}
TwoGroups == {{"food"}, {"pay"}}

(* Last December, and January and February of this year; the clock is in     *)
(* February, which has no activity. A payment over December and January      *)
(* turns December around and settles January.                                *)
dec == <<1, 12>>
jan == <<2, 1>>
feb == <<2, 2>>
ThreeMonths == {dec, jan, feb}
FrontedInEach == [m \in ThreeMonths |->
  CASE m = dec -> [first |-> 3, second |-> 1]
    [] m = jan -> [first |-> 1, second |-> 2]
    [] m = feb -> [first |-> 0, second |-> 0]]
Payments == <<[from |-> "second", portions |-> [m \in {dec, jan} |-> IF m = dec THEN 3 ELSE -1]]>>

(* Both legs of a transfer of 5, found in one month each, and a leg of the   *)
(* same size the other way.                                                  *)
ThreeLegs == [sent |-> [amount |-> -5, payer |-> "ann", month |-> 1],
             received |-> [amount |-> 5, payer |-> "bob", month |-> 2],
             back |-> [amount |-> -5, payer |-> "bob", month |-> 2]]

(* A file that changes two stored rows, one that adds a row and drops one,   *)
(* one that is not an export.                                                *)
TwoRows == [r1 |-> 1, r2 |-> 1]
ThreeFiles == [changes |-> [ok |-> TRUE, rows |-> [r1 |-> 2, r2 |-> 2]],
               adds |-> [ok |-> TRUE, rows |-> [r1 |-> 1, r3 |-> 1]],
               other |-> [ok |-> FALSE, rows |-> [r1 |-> 1]]]

(* One group, budgeted in the first month by the household.                  *)
FirstMonth == {[id |-> <<0, 1>>, group |-> "food", month |-> 1, owner |-> None, amount |-> 1]}

ZeroOrOne == {0, 1}
OneTransfer == {"r"}
TwoLoans == {"l1", "l2"}
TwoMonths == {1, 2}

(* One request that is under way and one that races it; a preview before an  *)
(* import, and a fetch beside two; the partner steps in once, or twice where *)
(* it takes two to make a payment one can lose or a month that was settled.  *)
FewRequests == [p \in {"link", "editor", "budget", "settings"} |-> 2]
  @@ [p \in {"bulk", "settle", "house"} |-> 1] @@ [p \in {"upload", "balances"} |-> 3]
FewChanges == [p \in {"bulk", "upload", "editor", "budget", "settings"} |-> 1]
  @@ [p \in {"balances", "house"} |-> 2]
=============================================================================
