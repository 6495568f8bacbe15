------------------------------ MODULE Marketplace ------------------------------
(***************************************************************************)
(* Accounts, company profiles, administration and the board composed: any  *)
(* signed-in user may start any of its operations at any time, and their   *)
(* statements interleave.                                                  *)
(***************************************************************************)
EXTENDS Accounts, Companies, Administration, Board

VARIABLE shown  \* history: the requests whose posting has been public since they arrived

allvars == <<vars, shown>>

Rowless == {m \in Members : RoleOf[m] = "COMPANY" /\ \A j \in Jobs : PostedBy[j] # m}

\* Some members have a profile; of the companies those with postings always do.
\* A company that is not PENDING has been decided about once.
Init ==
  /\ user = [m \in Members |-> NewUser(RoleOf[m], EmailOf[m])]
  /\ \E S \in SUBSET {m \in Members : RoleOf[m] = "STUDENT"} : student \in [S -> StudentProfile]
  /\ \E C \in SUBSET Rowless : company \in [C \union {PostedBy[j] : j \in Jobs} -> CompanyProfile]
  /\ \A c, d \in DOMAIN company : company[c].slug = company[d].slug => c = d
  /\ \A c \in DOMAIN company :
       company[c].by = "before" /\ ~company[c].deleted /\ company[c].logo \in {None, c}
  /\ posting \in [Jobs -> JobPosting]
  /\ saved = {}
  /\ files = {company[c].logo : c \in DOMAIN company} \ {None}
  /\ \E a \in Members : approvals = [c \in Ids |->
       IF c \in DOMAIN company /\ company[c].approval # "PENDING"
         THEN <<[from |-> "PENDING", to |-> company[c].approval, actor |-> a]>>
         ELSE <<>>]
  /\ log = {}
  /\ mails = {}
  /\ sessions = Members
  /\ pc = [r \in Requests |-> "idle"]
  /\ call = [r \in Requests |-> NoCall]
  /\ shown = {}

-----------------------------------------------------------------------------
(* What the requests modelled in StudentProfiles and JobPostings do        *)

\* Onboarding creates a student's profile, later edits complete it or not.
SaveStudentProfile(u, complete) ==
  /\ requireRole(u, "STUDENT")
  /\ student' = Insert([complete |-> complete], u, student)
  /\ UNCHANGED <<user, company, posting, saved, files, approvals, log, mails, sessions, pc, call>>

\* Statuses are free here, the lifecycle is in JobPostings.
SetPosting(j, row) ==
  /\ row # posting[j] /\ ~posting[j].deleted
  /\ posting' = [posting EXCEPT ![j] = row]
  /\ UNCHANGED <<user, student, company, saved, files, approvals, log, mails, sessions, pc, call>>

-----------------------------------------------------------------------------

\* The operation op is asked for.
Arrive(r, op) ==
  \/ op = "signup" /\ \E e \in Emails, role \in {"STUDENT", "COMPANY"} : Signup(r, e, role)
  \/ op = "login" /\ \E u \in DOMAIN user : Login(r, u)
  \/ op = "bootstrap" /\ \E e \in Emails : Bootstrap(r, e)
  \/ \E u \in sessions :
       \/ op = "save" /\ \E complete \in BOOLEAN : Save(r, u, complete)
       \/ op = "uploadLogo" /\ UploadLogo(r, u)
       \/ op = "deleteLogo" /\ DeleteLogo(r, u)
       \/ op = "approve" /\ \E c \in DOMAIN company, s \in CompanyApprovalStatus : Approve(r, u, c, s)
       \/ op = "deleteCompany" /\ \E c \in DOMAIN company : DeleteCompany(r, u, c)
       \/ op = "deleteStudent" /\ \E s \in DOMAIN user : DeleteStudent(r, u, s)
       \/ op = "diagnostic" /\ Diagnostic(r, u)
       \/ op = "saveJob" /\ \E j \in Jobs : SaveJob(r, u, j)
       \/ op = "unsaveJob" /\ \E j \in Jobs : UnsaveJob(r, u, j)

Advance(r) ==
  \/ AdvanceAccount(r)
  \/ AdvanceCompany(r)
  \/ AdvanceAdministration(r)
  \/ AdvanceBoard(r)

OtherServices ==
  \/ \E u \in sessions : Logout(u) \/ \E complete \in BOOLEAN : SaveStudentProfile(u, complete)
  \/ \E j \in Jobs, row \in JobPosting : SetPosting(j, row)

\* The requests that are about a posting which is public now.
Watch ==
  shown' = {r \in Requests :
    /\ pc'[r] \in {"job.visible", "job.existing", "job.create"}
    /\ r \in shown \/ PubliclyVisible(call[r].target)'}

Next ==
  /\ (\E r \in Requests : Advance(r) \/ \E op \in Ops : Arrive(r, op)) \/ OtherServices
  /\ Watch

Spec == Init /\ [][Next]_allvars

-----------------------------------------------------------------------------
(* Properties                                                              *)

\* Whatever sign-ups, bootstraps and first saves race, an address names one active
\* account and a public URL one active company (auth-service.ts:32-48,
\* company-service.ts:135-168): only the insert and its index decide.
KeysUnique ==
  /\ \A u, v \in ActiveUsers : user[u].email = user[v].email => u = v
  /\ \A c, d \in ActiveCompanies : company[c].slug = company[d].slug => c = d

\* The audit trail of a company ends in the status it has, whoever decided at the
\* same time or saved the profile meanwhile, and each decision starts from PENDING
\* or from a status that an earlier one left (admin-service.ts:70-97): the status
\* is read before the transaction, so it need not be the last.
ApprovalsTell ==
  /\ \A c \in DOMAIN company :
       company[c].approval = IF approvals[c] = <<>> THEN "PENDING" ELSE approvals[c][Len(approvals[c])].to
  /\ \A c \in Ids : \A n \in DOMAIN approvals[c] :
       LET e == approvals[c][n] IN
         /\ e.from # e.to
         /\ e.from = "PENDING" \/ \E m \in 1..(n - 1) : approvals[c][m].to = e.from

\* The step is one of request r, and its row had not been deleted when r arrived.
StepOf(r) == pc'[r] # pc[r] /\ ~call[r].late

\* r is about the profile of c: it is c's own, or an admin's.
MayWrite(r, c) ==
  IF call[r].op \in {"save", "uploadLogo", "deleteLogo"}
    THEN call[r].user = c
    ELSE /\ call[r].op \in {"approve", "deleteCompany"}
         /\ call[r].target = c /\ ensureAdmin(call[r].user)

\* Every write is backed by what its request found since it arrived: a profile or an
\* account that was deleted before is never written, or reported again, a posting that was
\* never public meanwhile never enters a saved list (saved-job-service.ts:42-62), a deleted
\* account opens no session, and a public URL, once given, stays (company-service.ts:95-97).
WritesAreBacked ==
  [][/\ \A c \in DOMAIN company' :
          c \notin DOMAIN company \/ company'[c] # company[c] =>
            \E r \in Requests : StepOf(r) /\ MayWrite(r, c)
     /\ \A c \in DOMAIN company : company'[c].slug = company[c].slug
     /\ \A u \in DOMAIN user : user'[u] # user[u] =>
          \E r \in Requests : StepOf(r) /\ call[r].op = "deleteStudent" /\ call[r].target = u
     /\ \A row \in saved' \ saved :
          \E r \in shown : StepOf(r) /\ <<call[r].user, call[r].target>> = row
     /\ log' # log \/ approvals' # approvals => \E r \in Requests : StepOf(r)
     /\ sessions' \ sessions \subseteq ActiveUsers]_allvars

AtRest == \A r \in Requests : pc[r] \in Results \union {"idle"}

Told(type, entity) == {e \in log : e.type = type /\ e.entity = entity}

\* Once no request is under way the audit log and the mails tell what happened, although
\* each is a statement of its own: one sign-up and one welcome for each account that signed
\* up, and none for a bootstrapped admin; one creation, told to every admin there was, for each
\* profile born of a save, and none for one born of a logo; a report of every deletion.
AuditAtRest ==
  AtRest =>
    /\ \A u \in DOMAIN user \ Members :
         IF user[u].role = "ADMIN"
           THEN \A e \in log : e.entity = u => e.type \notin {"STUDENT_SIGNUP", "COMPANY_SIGNUP"}
           ELSE LET isStudent == user[u].role = "STUDENT" IN
                /\ Cardinality(Told(IF isStudent THEN "STUDENT_SIGNUP" ELSE "COMPANY_SIGNUP", u)) = 1
                /\ \E m \in mails :
                     m.to = u /\ m.template = IF isStudent THEN "studentWelcome" ELSE "companyWelcome"
    /\ \A c \in DOMAIN company :
         LET told == Told("COMPANY_PROFILE_CREATED", c) IN
           /\ Cardinality(told) = IF company[c].by = "save" THEN 1 ELSE 0
           /\ \A e \in told, a \in Members : RoleOf[a] = "ADMIN" =>
                [template |-> "adminCompanyPending", to |-> a, by |-> e.by] \in mails
           /\ company[c].deleted <=> Told("COMPANY_SOFT_DELETED", c) # {}
    /\ \A u \in DOMAIN user : user[u].deleted <=> Told("STUDENT_SOFT_DELETED", u) # {}

\* "Only after persistent collisions do we surface slug_taken" (company-service.ts:139-141):
\* the answer means that MAX_RETRIES other profiles came in between, or, which the loop takes
\* for the same, that the user has a profile already, be it a deleted one.
TakenOnlyWhenHeld ==
  [][\A r \in Requests : pc'[r] = "taken" /\ pc[r] # "taken" =>
       \/ call[r].user \in DOMAIN company
       \/ Cardinality({c \in DOMAIN company : company[c].by # "before"}) >= MaxRetries]_allvars

\* The logo that an active profile names is in storage, however uploads and deletions of
\* one company overlap and whichever storage call fails, except while a deletion has removed
\* the file and not yet cleared the row (features/companies/actions.ts:141-148).
LogoDanglesOnlyInDelete ==
  \A c \in ActiveCompanies : company[c].logo \notin files \union {None} =>
    \E r \in Requests :
      /\ pc[r] \in {"logo.read", "logo.update"} /\ call[r].op = "deleteLogo"
      /\ call[r].user = c /\ call[r].old = company[c].logo
=============================================================================
