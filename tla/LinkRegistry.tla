---------------------------- MODULE LinkRegistry ----------------------------
(***************************************************************************)
(* What settlements promise about the rows they link: a stored row is free *)
(* or is owned by one open settlement, it never passes from one settlement *)
(* to another without being free in between, and closing a settlement or   *)
(* removing a row leaves nothing behind.  SettleUp implements this with    *)
(* any number of concurrent requests.                                      *)
(***************************************************************************)
CONSTANTS Rows, Settlements, Free

VARIABLES
    stored,  \* rows in the database
    open,    \* recorded settlements
    owner    \* the settlement of each row, or Free

vars == <<stored, open, owner>>

Init ==
    /\ stored = {}
    /\ open = {}
    /\ owner = [r \in Rows |-> Free]

Give(k, R) == owner' = [r \in Rows |-> IF r \in R THEN k ELSE owner[r]]
Unowned(R) == \A r \in R : owner[r] = Free

\* A new settlement takes the rows it is recorded with.
Open(k, R) ==
    /\ k \notin open
    /\ R \subseteq stored /\ Unowned(R)
    /\ open' = open \cup {k}
    /\ Give(k, R)
    /\ UNCHANGED stored

\* An open settlement takes free rows.
Attach(k, R) ==
    /\ k \in open
    /\ R \subseteq stored /\ Unowned(R)
    /\ Give(k, R)
    /\ UNCHANGED <<stored, open>>

Detach(R) ==
    /\ Give(Free, R)
    /\ UNCHANGED <<stored, open>>

Close(k) ==
    /\ open' = open \ {k}
    /\ Give(Free, {r \in Rows : owner[r] = k})
    /\ UNCHANGED stored

\* An upload stores rows and removes others.
Replace(added, removed) ==
    /\ stored' = (stored \cup added) \ removed
    /\ Give(Free, removed)
    /\ UNCHANGED open

Next ==
    \/ \E k \in Settlements, R \in SUBSET Rows : Open(k, R) \/ Attach(k, R)
    \/ \E R \in SUBSET Rows : Detach(R)
    \/ \E k \in Settlements : Close(k)
    \/ \E added, removed \in SUBSET Rows : Replace(added, removed)

Spec == Init /\ [][Next]_vars
=============================================================================
