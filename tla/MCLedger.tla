------------------------------ MODULE MCLedger ------------------------------
(* A small instance of Ledger for TLC. *)
EXTENDS Ledger

CONSTANTS k1, s1

OneYear == [m \in 1..LastMonth |-> 2025]

=============================================================================
