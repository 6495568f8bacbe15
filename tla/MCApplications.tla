--------------------------- MODULE MCApplications ---------------------------
(* Small instances of Applications for TLC.                                *)
EXTENDS Applications, TLC

CONSTANTS s1, s2, j1, c1, c2, k1, k2, r1, r2, r3, r4

\* Company c2 owns no posting: it is the stranger that tries its luck.
MCCompanyOf == [j \in Jobs |-> c1]
MCOwnerOf == [k \in Keys |-> IF k = k1 THEN s1 ELSE s2]

Symmetric == Permutations(Requests)
=============================================================================
