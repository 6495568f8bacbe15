----------------------------- MODULE MCMessaging -----------------------------
(* Small instances of Messaging for TLC.                                   *)
EXTENDS Messaging, TLC

CONSTANTS s1, s2, c1, c2, r1, r2, r3, r4

\* s2 and c2 are strangers to every application.
MCStudentOf == [a \in Apps |-> s1]
MCCompanyOf == [a \in Apps |-> c1]

Symmetric == Permutations(Requests)
=============================================================================
