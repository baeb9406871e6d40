--------------------------- MODULE MCCorrections ---------------------------
(* Instances of Corrections for TLC.                                          *)
EXTENDS Corrections, TLC

\* A lesson while words are counted, three lessons, and reviews.
SmallBudgets ==
    {[teach |-> 1, review |-> 0, count |-> 2, fault |-> 2],
     [teach |-> 3, review |-> 0, count |-> 0, fault |-> 1],
     [teach |-> 0, review |-> 3, count |-> 0, fault |-> 2]}

\* Words, threads and readers are interchangeable.
Symmetry == Permutations(Words) \cup Permutations(Threads)

=============================================================================
