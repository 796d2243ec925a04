----------------------------- MODULE MCImports -----------------------------
(* Small instances of Imports for TLC. *)
EXTENDS Imports, TLC

CONSTANTS r1, r2, ann, bob, s1

\* A file's rows are tagged for an uneven split; in the app the text may change.
TwoTexts == {"tagged", "edited"}
UnevenSplits == [t \in TwoTexts |-> 30]
On(day, occ) == [day |-> day, occ |-> occ, text |-> "tagged"]
TwinFiles ==
    {{}, {On(1, 0)}, {On(1, 0), On(1, 1)}, {On(2, 0)}, {On(1, 0), On(2, 0)}}
Interchangeable == Permutations(Ids) \cup Permutations(Persons)

=============================================================================
