-------------------------- MODULE MCResumeSnapshots --------------------------
(* Small instances of ResumeSnapshots for TLC.                             *)
EXTENDS ResumeSnapshots, TLC

MCCompanyOf == [j \in Jobs |-> CHOOSE c \in Companies : TRUE]

Symmetric == Permutations(ProfileRequests) \union Permutations(ApplicationRequests)
=============================================================================
