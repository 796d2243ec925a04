----------------------------- MODULE MCSettleUp -----------------------------
(* Small instances of SettleUp for TLC. *)
EXTENDS SettleUp, TLC

CONSTANTS r1, r2, ann, bob, k1, k2, m1, m2, s1, s2

MoneyOut == {-1}
Unsplit == {100}
TwoSplits == {50, 100}
IdsInterchangeable == Permutations(Settlements) \cup Permutations(Months)
AllInterchangeable == IdsInterchangeable \cup Permutations(Sessions)

\* The rows come from one person's account, which may be marked joint and back.
AnnsRows(q) == \A r \in DOMAIN q.new : q.new[r].payer \in {ann, Joint}
AnnsSpec == Init /\ [][Next /\ \A s \in Sessions : AnnsRows(req'[s])]_vars

\* That account stays hers, and no file tags a row as a settlement: every flag
\* was set by a record or a mark.
Untagged(q) ==
    \A r \in DOMAIN q.new : /\ q.new[r].payer = ann
                            /\ q.op = "upload" => ~q.new[r].settle
UntaggedSpec == Init /\ [][Next /\ \A s \in Sessions : Untagged(req'[s])]_vars

=============================================================================
