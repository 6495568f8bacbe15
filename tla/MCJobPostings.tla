---------------------------- MODULE MCJobPostings ----------------------------
(* Small instances of JobPostings for TLC.                                 *)
EXTENDS JobPostings, TLC

CONSTANTS c1, c2

\* Company c2 has no posting at first: a stranger to those of c1.
MCOwnerOf == [p \in Existing |-> c1]

Symmetric == Permutations(Requests)
=============================================================================
