-------------------------- MODULE MCStudentProfiles --------------------------
(* Small instances of StudentProfiles for TLC.                             *)
EXTENDS StudentProfiles, TLC

Symmetric == Permutations(Requests)
=============================================================================
