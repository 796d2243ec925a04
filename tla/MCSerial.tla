----------------------------- MODULE MCSerial -----------------------------
(* SettleUp with one request at a time, in three small worlds followed in    *)
(* one run: the two legs of a transfer, a row of each person with both       *)
(* signs, in one month; edits of a personal and a joint row in two months;   *)
(* and both partners' rows of an account that is marked joint and back.      *)
EXTENDS SettleUp, TLC

CONSTANTS r1, r2, r3, ann, bob, k1, m1, m2, s1
VARIABLE world

BothSigns == {-1, 1}
TwoSplits == {50, 100}

\* What a world's requests may write of a row, and whose account it may be in.
Legs(m) ==
    [payers |-> (r1 :> {ann}) @@ (r2 :> {bob}), months |-> {m},
     amounts |-> {-1, 1}, splits |-> {100}]
EditedRows ==
    [payers |-> (r1 :> {ann}) @@ (r3 :> {Joint}), months |-> Months,
     amounts |-> {-1}, splits |-> {50, 100}]
MovedRows(m) ==
    [payers |-> (r1 :> {ann, Joint}) @@ (r2 :> {bob, Joint}), months |-> {m},
     amounts |-> {-1}, splits |-> {50, 100}]
InWorld(q) ==
    /\ q.months \subseteq world.months
    /\ \A r \in DOMAIN q.new :
           /\ r \in DOMAIN world.payers /\ q.new[r].payer \in world.payers[r]
           /\ q.new[r].amount \in world.amounts
           /\ q.new[r].split \in world.splits

\* Init, but that the row of the other worlds was imported and removed before.
SerialInit ==
    /\ world \in UNION {{Legs(m), MovedRows(m)} : m \in Months} \cup {EditedRows}
    /\ issued = Rows \ DOMAIN world.payers
    /\ tx = Nothing /\ settlement = Nothing /\ links = {} /\ logged = {}
    /\ period = [m \in Months |-> "absent"]
    /\ req = [s \in Sessions |-> Idle]
SerialNext == Next /\ (\A s \in Sessions : InWorld(req'[s])) /\ UNCHANGED world
SerialSpec == SerialInit /\ [][SerialNext]_<<vars, world>>
Interchangeable == Permutations(Months)
=============================================================================
