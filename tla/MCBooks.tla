------------------------------ MODULE MCBooks ------------------------------
(* Ledger in two small worlds followed in one run: one request at a time     *)
(* over three months of two years, with charges that run either way; and two *)
(* requests that race over two months, with charges changing beneath them.   *)
EXTENDS Ledger, TLC

CONSTANTS k1, k2, s1, s2
VARIABLE world

TwoYears == (1 :> 2024) @@ (2 :> 2025) @@ (3 :> 2025)
EitherWay == -2..2

Alone ==
    [months |-> 1..3, charges |-> -2..2, amounts |-> {1, 3}, paidIn |-> 1..3,
     payments |-> 1, requests |-> 1]
Racing ==
    [months |-> 2..3, charges |-> {0, 1}, amounts |-> {1}, paidIn |-> {3},
     payments |-> 2, requests |-> 2]

\* What a step of a world may do; a request that has no id left can only end,
\* and nothing changes beneath the only one.
Busy == {s \in Sessions : req[s] # Idle}
InWorld(q) ==
    /\ q.op \in {"record", "waive"} => Cardinality(issued) < world.payments
    /\ q.op = "record" => q.amount \in world.amounts /\ q.covered \subseteq world.months
    /\ q.op = "waive" => q.year \in {Whole} \cup {Year[m] : m \in world.months}
Bounds ==
    /\ \A m \in Months : charged'[m] \in IF m \in world.months THEN world.charges ELSE {0}
    /\ \A k \in DOMAIN settlement' : settlement'[k].at \in world.paidIn
    /\ \A s \in Sessions : InWorld(req'[s])
    /\ Cardinality(Busy') <= world.requests
    /\ world = Alone => charged' = charged \/ Busy = {}

BooksInit == Init /\ world \in {Alone, Racing}
BooksNext == Next /\ Bounds /\ UNCHANGED world
BooksSpec == BooksInit /\ [][BooksNext]_<<vars, world>>
Interchangeable == Permutations({k1, k2}) \cup Permutations({s1, s2})
=============================================================================
