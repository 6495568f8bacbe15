------------------------------- MODULE Platform -------------------------------
(***************************************************************************)
(* The tables that accounts, company profiles, administration and saved    *)
(* jobs share, and how a request runs over them: every awaited Prisma or   *)
(* storage call is one atomic step, a transaction is one step.             *)
(*                                                                         *)
(* Requests are one-shot. A request creates at most one user and puts at   *)
(* most one file, so the id of a new user and the key of a new file are    *)
(* the request. All companies have the same slugified name, the case in    *)
(* which slugs meet: slug 1 is the name, slug k the name with suffix -k.   *)
(***************************************************************************)
EXTENDS Naturals, FiniteSets, Sequences

CONSTANTS
  Requests,       \* every request the server will ever receive
  Members,        \* the users of before the history begins
  RoleOf,         \* the role of each member
  EmailOf,        \* the address of each member
  Emails,
  Jobs,           \* postings of before the history begins
  PostedBy,       \* the company member that owns each
  MaxRetries,     \* MAX_RETRIES, 5 in the code
  MaxCandidates,  \* how many slugs a search tries, 50 in the code
  None            \* SQL null, or no argument

UserRole == {"STUDENT", "COMPANY", "ADMIN"}
CompanyApprovalStatus == {"PENDING", "APPROVED", "SUSPENDED"}

ASSUME RoleOfAssumption == RoleOf \in [Members -> UserRole]
ASSUME EmailOfAssumption ==
  /\ EmailOf \in [Members -> Emails]
  /\ \A m, n \in Members : EmailOf[m] = EmailOf[n] => m = n
ASSUME PostedByAssumption == PostedBy \in [Jobs -> {m \in Members : RoleOf[m] = "COMPANY"}]
ASSUME BoundsAssumption == MaxRetries \in Nat \ {0} /\ MaxCandidates \in Nat \ {0}
ASSUME DistinctAssumption ==
  Members \intersect Requests = {} /\ None \notin Members \union Requests \union Emails \union Jobs

VARIABLES
  user,       \* the User table: a function on the ids of its rows
  student,    \* the StudentProfile table, a function on the ids of its users
  company,    \* the CompanyProfile table, a function on the ids of its users: the unique
              \* index on userId covers deleted rows, so a user has one row at most
  posting,    \* JobPosting.status, and whether .deletedAt is set
  saved,      \* the SavedJobPosting table, rows <<student, job>>
  files,      \* the logo files in object storage
  approvals,  \* per company the COMPANY_APPROVAL_CHANGED events, oldest first
  log,        \* the other ActivityEvents about users and companies
  mails,      \* the mails handed to the email adapter
  sessions,   \* the users that hold a JWT
  pc, call    \* per request: its next statement; its arguments and what it has read

tables == <<user, student, company, posting, saved, files, approvals, log, mails, sessions>>
vars == <<user, student, company, posting, saved, files, approvals, log, mails, sessions, pc, call>>

-----------------------------------------------------------------------------
(* Types                                                                   *)

Ids == Members \union Requests
Slugs == 1..MaxCandidates
JobPostingStatus == {"DRAFT", "PUBLISHED", "PAUSED", "CLOSED", "ARCHIVED"}

User == [role: UserRole, email: Emails, deleted: BOOLEAN]

StudentProfile == [complete: BOOLEAN]

\* by is history: the upsert or the logo upload that created the row.
CompanyProfile == [slug: Slugs, approval: CompanyApprovalStatus, complete: BOOLEAN,
                   logo: Ids \union {None}, deleted: BOOLEAN, by: {"before", "save", "logo"}]

JobPosting == [status: JobPostingStatus, deleted: BOOLEAN]
ApprovalEvent == [from: CompanyApprovalStatus, to: CompanyApprovalStatus, actor: Ids]
Event == [type: {"STUDENT_SIGNUP", "COMPANY_SIGNUP", "COMPANY_PROFILE_CREATED",
                 "COMPANY_SOFT_DELETED", "STUDENT_SOFT_DELETED"},
          entity: Ids, actor: Ids, by: Requests]
Mail == [template: {"studentWelcome", "companyWelcome", "adminCompanyPending",
                    "companyApprovalChanged", "diagnostic"},
         to: Ids, by: Requests]

Ops == {"signup", "login", "bootstrap", "save", "uploadLogo", "deleteLogo", "approve",
        "deleteCompany", "deleteStudent", "diagnostic", "saveJob", "unsaveJob"}

\* late is history: the row the request is about was deleted when it arrived.
Call == [op: Ops, user: Ids \union {None}, target: Ids \union Jobs \union {None},
         email: Emails \union {None}, role: UserRole \union {None},
         status: CompanyApprovalStatus \union {None}, seen: CompanyApprovalStatus \union {None},
         complete: BOOLEAN, old: Ids \union {None}, slug: Slugs, attempt: 0..(MaxRetries - 1),
         late: BOOLEAN]
NoCall == [op |-> None]

Results == {"ok", "refused", "taken", "threw"}
PCs == Results \union
  {"idle", "signup.create", "signup.event", "signup.mail", "signup.signin",
   "bootstrap.create", "bootstrap.requery",
   "save.slug", "save.create", "save.update", "save.event", "save.mails",
   "logo.put", "logo.remove", "logo.read", "logo.slug", "logo.create", "logo.update", "logo.cleanup",
   "approve.read", "approve.commit", "approve.mail",
   "delete.read", "delete.write", "delete.event", "diagnostic.send",
   "job.visible", "job.existing", "job.create", "job.delete"}

TypeOK ==
  /\ DOMAIN user \subseteq Ids /\ user \in [DOMAIN user -> User]
  /\ DOMAIN student \subseteq DOMAIN user /\ student \in [DOMAIN student -> StudentProfile]
  /\ DOMAIN company \subseteq DOMAIN user /\ company \in [DOMAIN company -> CompanyProfile]
  /\ posting \in [Jobs -> JobPosting]
  /\ saved \subseteq Ids \X Jobs
  /\ files \subseteq Ids
  /\ approvals \in [Ids -> Seq(ApprovalEvent)]
  /\ log \subseteq Event
  /\ mails \subseteq Mail
  /\ sessions \subseteq DOMAIN user
  /\ pc \in [Requests -> PCs]
  /\ DOMAIN call = Requests
  /\ \A r \in Requests : call[r] \in IF pc[r] \in Results \union {"idle"} THEN {NoCall} ELSE Call

-----------------------------------------------------------------------------
(* How a request runs                                                      *)

Goto(r, where) == pc' = [pc EXCEPT ![r] = where] /\ UNCHANGED call

Return(r, result) ==
  /\ pc' = [pc EXCEPT ![r] = result]
  /\ call' = [call EXCEPT ![r] = NoCall]

Enter(r, where, arguments) ==
  /\ pc[r] = "idle"
  /\ pc' = [pc EXCEPT ![r] = where]
  /\ call' = [call EXCEPT ![r] = arguments]

\* Mutant: the search for a slug starts at suffix 0.
ArgumentsFromZero(op, u) ==
  [op |-> op, user |-> u, target |-> None, email |-> None, role |-> None, status |-> None,
   seen |-> None, complete |-> FALSE, old |-> None, slug |-> 0, attempt |-> 0, late |-> FALSE]

\* The arguments of a request that user u (or nobody) makes.
Arguments(op, u) ==
  [op |-> op, user |-> u, target |-> None, email |-> None, role |-> None, status |-> None,
   seen |-> None, complete |-> FALSE, old |-> None, slug |-> 1, attempt |-> 0, late |-> FALSE]

Record(r, type, entity, actor) ==
  log' = log \union {[type |-> type, entity |-> entity, actor |-> actor, by |-> r]}

dispatchEmail(r, template, recipients) ==
  mails' = mails \union {[template |-> template, to |-> u, by |-> r] : u \in recipients}

Insert(row, id, table) ==
  [x \in DOMAIN table \union {id} |-> IF x = id THEN row ELSE table[x]]

-----------------------------------------------------------------------------
(* What the statements select                                              *)

ActiveUsers == {u \in DOMAIN user : ~user[u].deleted}

\* where: { email, deletedAt: null }
findActiveUserByEmail(email) == {u \in ActiveUsers : user[u].email = email}

\* Mutant: the partial unique index on active addresses is not there.
EmailCollisionNever(email) == FALSE

\* User_email_active_key refuses a second active row.
EmailCollision(email) == \E u \in ActiveUsers : user[u].email = email

ActiveCompanies == {c \in DOMAIN company : ~company[c].deleted}

\* Mutant: a deleted profile is read like any other.
HasProfileEvenDeleted(u) == u \in DOMAIN company

\* getCompanyProfileByUserId
HasProfile(u) == u \in ActiveCompanies

SlugFree(slug) == \A c \in ActiveCompanies : company[c].slug # slug

\* Mutant: the unique index on active slugs is not there.
CompanyCollisionUserOnly(u, slug) == u \in DOMAIN company

\* CompanyProfile_userId_key covers deleted rows, CompanyProfile_slug_active_key does not.
CompanyCollision(u, slug) == u \in DOMAIN company \/ ~SlugFree(slug)

\* requireRole: the token names the user and its role, the row is not read again.
requireRole(u, role) == u \in sessions /\ user[u].role = role

\* ensureAdmin
ensureAdmin(u) == u \in ActiveUsers /\ user[u].role = "ADMIN"

\* publicJobPostingVisibilityWhere
PubliclyVisible(j) ==
  /\ posting[j].status = "PUBLISHED" /\ ~posting[j].deleted
  /\ PostedBy[j] \in ActiveCompanies /\ company[PostedBy[j]].approval = "APPROVED"
=============================================================================
