-------------------------- MODULE ApplicationFunnel --------------------------
(***************************************************************************)
(* What the application funnel promises, whatever requests interleave in   *)
(* it: a student applies at most once to a posting, an application never   *)
(* disappears, and it enters a stage only when it had earlier (not         *)
(* necessarily last) been in a stage from which the code allows the move.  *)
(* "Earlier" and not "last" because every handler of                       *)
(* application-service.ts decides on a status it read before its           *)
(* transaction and then updates the row unconditionally.                   *)
(***************************************************************************)
EXTENDS FiniteSets

CONSTANTS Students, Jobs

VARIABLES
  stage,   \* stage[p]: the status of the application of pair p, or NoApplication
  passed   \* passed[p]: every status that application has ever had

vars == <<stage, passed>>

NoApplication == "NO_APPLICATION"
Pairs == Jobs \X Students
Statuses == {"APPLIED", "IN_REVIEW", "INTERVIEWING", "OFFER", "REJECTED", "WITHDRAWN"}

\* ACTIVE_APPLICATION_STATUSES
Active == {"APPLIED", "IN_REVIEW", "INTERVIEWING", "OFFER"}

\* The ALLOWED table of the company's transitions.
Allowed == [APPLIED      |-> {"IN_REVIEW", "REJECTED"},
            IN_REVIEW    |-> {"INTERVIEWING", "REJECTED"},
            INTERVIEWING |-> {"OFFER", "REJECTED"},
            OFFER        |-> {"REJECTED"},
            REJECTED     |-> {"IN_REVIEW", "INTERVIEWING"},
            WITHDRAWN    |-> {}]

Init ==
  /\ stage = [p \in Pairs |-> NoApplication]
  /\ passed = [p \in Pairs |-> {}]

Enter(p, s) ==
  /\ stage' = [stage EXCEPT ![p] = s]
  /\ passed' = [passed EXCEPT ![p] = @ \union {s}]

Apply(p) ==
  /\ stage[p] = NoApplication
  /\ Enter(p, "APPLIED")

CompanyMoves(p, s) ==
  /\ \E from \in passed[p] : s \in Allowed[from]
  /\ Enter(p, s)

StudentWithdraws(p) ==
  /\ passed[p] \intersect Active # {}
  /\ Enter(p, "WITHDRAWN")

Next ==
  \E p \in Pairs :
    \/ Apply(p)
    \/ \E s \in Statuses : CompanyMoves(p, s)
    \/ StudentWithdraws(p)

Spec == Init /\ [][Next]_vars
=============================================================================
