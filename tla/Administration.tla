---------------------------- MODULE Administration ----------------------------
(***************************************************************************)
(* src/server/services/admin-service.ts and src/features/admin/actions.ts: *)
(* deciding about a company, soft-deleting a company profile or a student, *)
(* and the email diagnostic. Every operation reads the admin's row again,  *)
(* then the row it is about, and writes that row by id.                    *)
(***************************************************************************)
EXTENDS Platform

\* ensureAdmin refuses, or lets the request go on to its own statements.
Administer(r, a, where, arguments) ==
  /\ requireRole(a, "ADMIN")
  /\ IF ensureAdmin(a) THEN Enter(r, where, arguments) ELSE pc[r] = "idle" /\ Return(r, "refused")
  /\ UNCHANGED tables

-----------------------------------------------------------------------------
(* setCompanyApprovalStatus                                                *)

Approve(r, a, c, status) ==
  Administer(r, a, "approve.read",
    [Arguments("approve", a) EXCEPT !.target = c, !.status = status, !.late = company[c].deleted])

ApproveRead(r) ==
  /\ pc[r] = "approve.read"
  /\ LET c == call[r] IN
       IF ~HasProfile(c.target) THEN Return(r, "refused")
       ELSE IF company[c.target].approval = c.status THEN Return(r, "ok")
       ELSE /\ pc' = [pc EXCEPT ![r] = "approve.commit"]
            /\ call' = [call EXCEPT ![r].seen = company[c.target].approval]
  /\ UNCHANGED tables

\* Mutant: the event tells the new status twice.
ApprovalEventOfNew(c) == [from |-> c.status, to |-> c.status, actor |-> c.user]

\* The event tells the status that was read, not the one that is overwritten.
ApprovalEventOf(c) == [from |-> c.seen, to |-> c.status, actor |-> c.user]

\* The transaction writes the row, whatever became of it, and the event.
ApproveCommit(r) ==
  /\ pc[r] = "approve.commit"
  /\ LET c == call[r] IN
       /\ company' = [company EXCEPT ![c.target].approval = c.status]
       /\ approvals' = [approvals EXCEPT ![c.target] = Append(@, ApprovalEventOf(c))]
  /\ Goto(r, "approve.mail")
  /\ UNCHANGED <<user, student, posting, saved, files, log, mails, sessions>>

\* The contact address may be null, and then the mail goes to the user unless deleted.
ApproveMail(r) ==
  /\ pc[r] = "approve.mail"
  /\ LET c == call[r].target IN
       \/ dispatchEmail(r, "companyApprovalChanged", {c})
       \/ c \notin ActiveUsers /\ UNCHANGED mails
  /\ Return(r, "ok")
  /\ UNCHANGED <<user, student, company, posting, saved, files, approvals, log, sessions>>

-----------------------------------------------------------------------------
(* softDeleteCompanyAsAdmin, softDeleteStudentAsAdmin                      *)

DeleteCompany(r, a, c) ==
  Administer(r, a, "delete.read",
    [Arguments("deleteCompany", a) EXCEPT !.target = c, !.late = company[c].deleted])

DeleteStudent(r, a, u) ==
  Administer(r, a, "delete.read",
    [Arguments("deleteStudent", a) EXCEPT !.target = u, !.late = user[u].deleted])

\* Mutant: a row that is already deleted is deleted again.
DeletableAlways(c) == TRUE

\* The active row the repository looks for: a company profile, or a student's user.
Deletable(c) ==
  IF c.op = "deleteCompany"
    THEN HasProfile(c.target)
    ELSE c.target \in ActiveUsers /\ user[c.target].role = "STUDENT"

DeleteRead(r) ==
  /\ pc[r] = "delete.read"
  /\ IF Deletable(call[r]) THEN Goto(r, "delete.write") ELSE Return(r, "refused")
  /\ UNCHANGED tables

DeleteWrite(r) ==
  /\ pc[r] = "delete.write"
  /\ LET c == call[r] IN
       IF c.op = "deleteCompany"
         THEN company' = [company EXCEPT ![c.target].deleted = TRUE] /\ UNCHANGED user
         ELSE user' = [user EXCEPT ![c.target].deleted = TRUE] /\ UNCHANGED company
  /\ Goto(r, "delete.event")
  /\ UNCHANGED <<student, posting, saved, files, approvals, log, mails, sessions>>

DeletionType(op) == IF op = "deleteCompany" THEN "COMPANY_SOFT_DELETED" ELSE "STUDENT_SOFT_DELETED"

DeleteRecord(r) ==
  /\ pc[r] = "delete.event"
  /\ Record(r, DeletionType(call[r].op), call[r].target, call[r].user)
  /\ Return(r, "ok")
  /\ UNCHANGED <<user, student, company, posting, saved, files, approvals, mails, sessions>>

-----------------------------------------------------------------------------
(* runEmailDiagnosticAction                                                *)

\* The recipient is the admin's own row, read again.
Diagnostic(r, a) == Administer(r, a, "diagnostic.send", Arguments("diagnostic", a))

\* runEmailDiagnostic reports a failure of the provider.
DiagnosticSend(r) ==
  /\ pc[r] = "diagnostic.send"
  /\ dispatchEmail(r, "diagnostic", {call[r].user})
  /\ Return(r, "ok") \/ Return(r, "refused")
  /\ UNCHANGED <<user, student, company, posting, saved, files, approvals, log, sessions>>

-----------------------------------------------------------------------------

AdvanceAdministration(r) ==
  \/ ApproveRead(r) \/ ApproveCommit(r) \/ ApproveMail(r)
  \/ DeleteRead(r) \/ DeleteWrite(r) \/ DeleteRecord(r)
  \/ DiagnosticSend(r)
=============================================================================
