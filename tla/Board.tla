--------------------------------- MODULE Board ---------------------------------
(***************************************************************************)
(* src/server/services/saved-job-service.ts, visibility-service.ts and     *)
(* public-job-search.ts: what the public board shows, and which            *)
(* postings a student may keep while companies and their postings change.  *)
(***************************************************************************)
EXTENDS Platform

\* The postings that the board lists: buildPublicJobWhere without a filter.
PublicBoard == {j \in Jobs : PubliclyVisible(j)}

\* getPublicCompanyBySlug: the page of an active, approved company, with its postings.
HasPublicPage(c) == c \in ActiveCompanies /\ company[c].approval = "APPROVED"
PublicPage(c) ==
  IF HasPublicPage(c)
    THEN {j \in Jobs : PostedBy[j] = c /\ posting[j].status = "PUBLISHED" /\ ~posting[j].deleted}
    ELSE {}

\* Mutant: the flag forgets that the company may be suspended.
IsCurrentlyOpenUnmoderated(j) ==
  /\ posting[j].status = "PUBLISHED" /\ ~posting[j].deleted
  /\ PostedBy[j] \in ActiveCompanies

\* isCurrentlyOpen of listSavedJobsForStudent, which states the rule again.
isCurrentlyOpen(j) ==
  /\ posting[j].status = "PUBLISHED" /\ ~posting[j].deleted
  /\ company[PostedBy[j]].approval = "APPROVED" /\ ~company[PostedBy[j]].deleted

-----------------------------------------------------------------------------
(* toggleSavedJobAction: saveJobPosting, unsaveJobPosting                  *)

\* getStudentProfileId finds the profile of a deleted user too.
SaveJob(r, u, j) ==
  /\ requireRole(u, "STUDENT")
  /\ IF u \in DOMAIN student
       THEN Enter(r, "job.visible",
              [Arguments("saveJob", u) EXCEPT !.target = j])
       ELSE pc[r] = "idle" /\ Return(r, "refused")
  /\ UNCHANGED tables

\* Mutant: any posting that exists may be saved.
SavableAny(j) == ~posting[j].deleted

Savable(j) == PubliclyVisible(j)

SaveJobGate(r) ==
  /\ pc[r] = "job.visible"
  /\ IF Savable(call[r].target) THEN Goto(r, "job.existing") ELSE Return(r, "refused")
  /\ UNCHANGED tables

SaveJobExisting(r) ==
  /\ pc[r] = "job.existing"
  /\ IF <<call[r].user, call[r].target>> \in saved THEN Return(r, "ok") ELSE Goto(r, "job.create")
  /\ UNCHANGED tables

\* The insert, or the exception of the unique index on the pair.
SaveJobCreate(r) ==
  /\ pc[r] = "job.create"
  /\ LET row == <<call[r].user, call[r].target>> IN
       /\ saved' = saved \union {row}
       /\ Return(r, IF row \in saved THEN "threw" ELSE "ok")
  /\ UNCHANGED <<user, student, company, posting, files, approvals, log, mails, sessions>>

UnsaveJob(r, u, j) ==
  /\ requireRole(u, "STUDENT")
  /\ IF u \in DOMAIN student
       THEN Enter(r, "job.delete", [Arguments("unsaveJob", u) EXCEPT !.target = j])
       ELSE pc[r] = "idle" /\ Return(r, "refused")
  /\ UNCHANGED tables

UnsaveJobDelete(r) ==
  /\ pc[r] = "job.delete"
  /\ saved' = saved \ {<<call[r].user, call[r].target>>}
  /\ Return(r, "ok")
  /\ UNCHANGED <<user, student, company, posting, files, approvals, log, mails, sessions>>

-----------------------------------------------------------------------------

AdvanceBoard(r) ==
  SaveJobGate(r) \/ SaveJobExisting(r) \/ SaveJobCreate(r) \/ UnsaveJobDelete(r)
=============================================================================
