-------------------------- MODULE MCPendingActions --------------------------
(* Small instances of PendingActions for TLC. *)
EXTENDS PendingActions, TLC

CONSTANTS a1, a2, ann, bob, t1, t2, x, y, c1, c2

Interchangeable ==
    Permutations(Actions) \cup Permutations(Persons) \cup Permutations(Tools)
        \cup Permutations(Inputs) \cup Permutations(Calls)

=============================================================================
