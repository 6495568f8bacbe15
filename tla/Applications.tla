---------------------------- MODULE Applications ----------------------------
(***************************************************************************)
(* src/server/services/application-service.ts as interleaved requests.     *)
(*                                                                         *)
(* A request is one call of submitApplication, transitionApplicationStatus *)
(* or withdrawApplicationByStudent.  Every awaited Prisma statement, and   *)
(* every prisma.$transaction([...]) batch, is one atomic step; between two *)
(* steps any other request, and any handler that writes the rows read      *)
(* here, may run: PostgreSQL runs at read committed and nothing locks.     *)
(* A request whose server dies simply takes no further step.               *)
(*                                                                         *)
(* Requests are one-shot.  A request creates at most one Application row,  *)
(* so the fresh id (cuid) of the row is the creating request.              *)
(***************************************************************************)
EXTENDS Naturals, Sequences

CONSTANTS
  Students,    \* student users, each with its StudentProfile
  Companies,   \* company users, each with its CompanyProfile
  Jobs,        \* JobPosting ids
  CompanyOf,   \* the company a posting belongs to
  Keys,        \* resume storage keys
  OwnerOf,     \* the student a resume key was minted for
  Requests,    \* every request the server will ever receive
  None         \* SQL null, or no argument

ASSUME CompanyOfAssumption == CompanyOf \in [Jobs -> Companies]
ASSUME OwnerOfAssumption == OwnerOf \in [Keys -> Students]
ASSUME NoneAssumption == None \notin Keys

VARIABLES
  student,        \* User.deletedAt, StudentProfile.isProfileComplete, .resumeStorageKey
  posting,        \* JobPosting.status is PUBLISHED, .deletedAt is set
  company,        \* CompanyProfile.approvalStatus is APPROVED, .deletedAt is set
  apps,           \* the Application table: a function on the ids of its rows
  submittedLog,   \* ActivityEvents filed under a posting's id (APPLICATION_SUBMITTED)
  moveLog,        \* ActivityEvents filed under an application's id
  mails,          \* the mails the provider accepted
  pc,             \* pc[r]: the statement request r is about to run
  call            \* call[r]: its arguments, and the values it has read so far

records == <<student, posting, company>>
tables  == <<apps, submittedLog, moveLog>>
vars    == <<student, posting, company, apps, submittedLog, moveLog, mails, pc, call>>

-----------------------------------------------------------------------------
(* Types                                                                   *)

Statuses == {"APPLIED", "IN_REVIEW", "INTERVIEWING", "OFFER", "REJECTED", "WITHDRAWN"}
ACTIVE_APPLICATION_STATUSES == {"APPLIED", "IN_REVIEW", "INTERVIEWING", "OFFER"}
CompanyTransition == {"IN_REVIEW", "INTERVIEWING", "OFFER", "REJECTED"}

ALLOWED == [APPLIED      |-> {"IN_REVIEW", "REJECTED"},
            IN_REVIEW    |-> {"INTERVIEWING", "REJECTED"},
            INTERVIEWING |-> {"OFFER", "REJECTED"},
            OFFER        |-> {"REJECTED"},
            REJECTED     |-> {"IN_REVIEW", "INTERVIEWING"},
            WITHDRAWN    |-> {}]

Application == [job: Jobs, student: Students, snapshot: Keys, status: Statuses]

SubmittedEvent == [type: {"APPLICATION_SUBMITTED"}, actor: Students]
MoveEvent ==
  [type: {"APPLICATION_STATUS_CHANGED"}, actor: Companies, from: Statuses, to: CompanyTransition]
    \union
  [type: {"APPLICATION_WITHDRAWN"}, actor: Students, from: Statuses, to: {"WITHDRAWN"}]

Mail == [app: Requests, announces: Statuses]

SubmitCall == [student: Students, job: Jobs, key: Keys]
TransitionCall ==
  [company: Companies, app: Requests, target: CompanyTransition, seen: Statuses \union {None}]
WithdrawCall == [student: Students, app: Requests, seen: Statuses \union {None}]

SubmitPC     == {"submit.job", "submit.existing", "submit.commit"}
TransitionPC == {"transition.application", "transition.commit", "transition.notify"}
WithdrawPC   == {"withdraw.application", "withdraw.commit"}
\* How a request ends: a result of the code, "created" while the mail of a
\* successful submission is still to be sent, or the exception of a unique index.
Results == {"ok", "refused", "threw"}
PCs == {"idle", "submit.notify"} \union SubmitPC \union TransitionPC \union WithdrawPC \union Results

CallOK(r) ==
  /\ pc[r] \in SubmitPC => call[r] \in SubmitCall
  /\ pc[r] \in TransitionPC => call[r] \in TransitionCall
  /\ pc[r] \in WithdrawPC => call[r] \in WithdrawCall

TypeOK ==
  /\ student \in [Students -> [deleted: BOOLEAN, complete: BOOLEAN, resume: Keys \union {None}]]
  /\ posting \in [Jobs -> [published: BOOLEAN, deleted: BOOLEAN]]
  /\ company \in [Companies -> [approved: BOOLEAN, deleted: BOOLEAN]]
  /\ DOMAIN apps \subseteq Requests
  /\ apps \in [DOMAIN apps -> Application]
  /\ submittedLog \in [Jobs -> Seq(SubmittedEvent)]
  /\ moveLog \in [Requests -> Seq(MoveEvent)]
  /\ mails \subseteq Mail
  /\ pc \in [Requests -> PCs]
  /\ DOMAIN call = Requests
  /\ \A r \in Requests : CallOK(r)

-----------------------------------------------------------------------------
(* Helpers                                                                 *)

\* Mutant: the resume requirement is forgotten.
MayApplyWithoutResume(s) == ~student[s].deleted /\ student[s].complete

\* The student gate of submitApplication: checks 1 and 1b.
MayApply(s) ==
  /\ ~student[s].deleted
  /\ student[s].complete
  /\ student[s].resume # None

\* The job gate of submitApplication: checks 3 and 4, one query.
IsOpen(j) ==
  /\ ~posting[j].deleted
  /\ posting[j].published
  /\ ~company[CompanyOf[j]].deleted
  /\ company[CompanyOf[j]].approved

HasApplied(j, s) == \E a \in DOMAIN apps : apps[a].job = j /\ apps[a].student = s

\* Mutants: no unique index; a unique index on the posting alone.
DuplicateNever(j, s) == FALSE
DuplicateOfPosting(j, s) == \E a \in DOMAIN apps : apps[a].job = j

\* The unique index (jobPostingId, studentProfileId) refuses the row.
Duplicate(j, s) == HasApplied(j, s)

\* Mutant: any other status is a legal target.
MayTransitionAnywhere(c, row) == CompanyOf[row.job] = c.company /\ c.target # row.status

\* Mutant: the posting's company is not compared.
MayTransitionAny(c, row) == c.target \in ALLOWED[row.status]

\* The application is the company's, and the ALLOWED table has the move.
MayTransition(c, row) == CompanyOf[row.job] = c.company /\ c.target \in ALLOWED[row.status]

\* The application is the student's and still active.
MayWithdraw(c, row) == row.student = c.student /\ row.status \in ACTIVE_APPLICATION_STATUSES

\* The request returns (or throws): its locals are gone.
Return(r, result) ==
  /\ pc' = [pc EXCEPT ![r] = result]
  /\ call' = [call EXCEPT ![r] = None]

Goto(r, where) == pc' = [pc EXCEPT ![r] = where]

\* Mutant: the row is only updated if it still has the status that was read,
\* while its event is recorded in any case.
SetStatusIfUnmoved(a, status, event) ==
  /\ apps' = IF apps[a].status = event.from THEN [apps EXCEPT ![a].status = status] ELSE apps
  /\ moveLog' = [moveLog EXCEPT ![a] = Append(@, event)]
  /\ UNCHANGED submittedLog

\* update({where: {id}, data: {status}}) and its event, one transaction.
SetStatus(a, status, event) ==
  /\ apps' = [apps EXCEPT ![a].status = status]
  /\ moveLog' = [moveLog EXCEPT ![a] = Append(@, event)]
  /\ UNCHANGED submittedLog

\* dispatchEmail: the provider takes the mail or does not; the caller cannot tell.
Dispatch(mail) == mails' \in {mails, mails \union {mail}}

-----------------------------------------------------------------------------
(* submitApplication                                                       *)

SubmitReadStudent(r, s, j) ==
  /\ pc[r] = "idle"
  /\ \/ /\ MayApply(s)
        /\ Goto(r, "submit.job")
        /\ call' = [call EXCEPT ![r] = [student |-> s, job |-> j, key |-> student[s].resume]]
     \/ ~MayApply(s) /\ Return(r, "refused")
  /\ UNCHANGED <<records, tables, mails>>

SubmitReadJob(r) ==
  /\ pc[r] = "submit.job"
  /\ \/ IsOpen(call[r].job) /\ Goto(r, "submit.existing") /\ UNCHANGED call
     \/ ~IsOpen(call[r].job) /\ Return(r, "refused")
  /\ UNCHANGED <<records, tables, mails>>

SubmitReadExisting(r) ==
  /\ pc[r] = "submit.existing"
  /\ \/ ~HasApplied(call[r].job, call[r].student) /\ Goto(r, "submit.commit") /\ UNCHANGED call
     \/ HasApplied(call[r].job, call[r].student) /\ Return(r, "refused")
  /\ UNCHANGED <<records, tables, mails>>

\* The row and its event commit together.  A duplicate that slipped past the
\* read above is stopped by the unique index: P2002 leaves submitApplication
\* as an exception and the transaction rolls back.
SubmitCommit(r) ==
  /\ pc[r] = "submit.commit"
  /\ LET c == call[r]
         row == [job |-> c.job, student |-> c.student, snapshot |-> c.key, status |-> "APPLIED"]
     IN
     \/ /\ ~Duplicate(c.job, c.student)
        /\ apps' = [a \in DOMAIN apps \union {r} |-> IF a = r THEN row ELSE apps[a]]
        /\ submittedLog' = [submittedLog EXCEPT ![c.job] =
             Append(@, [type |-> "APPLICATION_SUBMITTED", actor |-> c.student])]
        /\ Goto(r, "submit.notify")
        /\ UNCHANGED <<moveLog, call>>
     \/ /\ Duplicate(c.job, c.student)
        /\ Return(r, "threw")
        /\ UNCHANGED tables
  /\ UNCHANGED <<records, mails>>

SubmitNotify(r) ==
  /\ pc[r] = "submit.notify"
  /\ Dispatch([app |-> r, announces |-> "APPLIED"])
  /\ Return(r, "ok")
  /\ UNCHANGED <<records, tables>>

-----------------------------------------------------------------------------
(* transitionApplicationStatus                                             *)

TransitionReadCompany(r, c, a, target) ==
  /\ pc[r] = "idle"
  /\ \/ /\ ~company[c].deleted
        /\ Goto(r, "transition.application")
        /\ call' = [call EXCEPT ![r] =
             [company |-> c, app |-> a, target |-> target, seen |-> None]]
     \/ company[c].deleted /\ Return(r, "refused")
  /\ UNCHANGED <<records, tables, mails>>

\* Mutant: the student is told before the transaction.
TransitionReadAndTell(r) ==
  /\ pc[r] = "transition.application"
  /\ LET c == call[r]
         row == apps[c.app]
     IN
     \/ /\ MayTransition(c, row)
        /\ Goto(r, "transition.commit")
        /\ call' = [call EXCEPT ![r].seen = row.status]
        /\ Dispatch([app |-> c.app, announces |-> c.target])
     \/ ~MayTransition(c, row) /\ Return(r, "refused") /\ UNCHANGED mails
  /\ UNCHANGED <<records, tables>>

TransitionReadApplication(r) ==
  /\ pc[r] = "transition.application"
  /\ LET c == call[r]
         row == apps[c.app]
     IN
     \/ /\ MayTransition(c, row)
        /\ Goto(r, "transition.commit")
        /\ call' = [call EXCEPT ![r].seen = row.status]
     \/ ~MayTransition(c, row) /\ Return(r, "refused")
  /\ UNCHANGED <<records, tables, mails>>

\* The update carries no condition on the status that was read.
TransitionCommit(r) ==
  /\ pc[r] = "transition.commit"
  /\ LET c == call[r] IN
     SetStatus(c.app, c.target,
               [type |-> "APPLICATION_STATUS_CHANGED", actor |-> c.company,
                from |-> c.seen, to |-> c.target])
  /\ Goto(r, "transition.notify")
  /\ UNCHANGED <<records, mails, call>>

TransitionNotify(r) ==
  /\ pc[r] = "transition.notify"
  /\ LET c == call[r]
         s == apps[c.app].student
     IN
     \/ ~student[s].deleted /\ Dispatch([app |-> c.app, announces |-> c.target])
     \/ student[s].deleted /\ UNCHANGED mails
  /\ Return(r, "ok")
  /\ UNCHANGED <<records, tables>>

-----------------------------------------------------------------------------
(* withdrawApplicationByStudent                                            *)

\* The profile read tests neither the role nor deletedAt; every student here
\* has a profile, so it always succeeds.
WithdrawReadProfile(r, s, a) ==
  /\ pc[r] = "idle"
  /\ Goto(r, "withdraw.application")
  /\ call' = [call EXCEPT ![r] = [student |-> s, app |-> a, seen |-> None]]
  /\ UNCHANGED <<records, tables, mails>>

WithdrawReadApplication(r) ==
  /\ pc[r] = "withdraw.application"
  /\ LET c == call[r]
         row == apps[c.app]
     IN
     \/ /\ MayWithdraw(c, row)
        /\ Goto(r, "withdraw.commit")
        /\ call' = [call EXCEPT ![r].seen = row.status]
     \/ ~MayWithdraw(c, row) /\ Return(r, "refused")
  /\ UNCHANGED <<records, tables, mails>>

WithdrawCommit(r) ==
  /\ pc[r] = "withdraw.commit"
  /\ LET c == call[r] IN
     SetStatus(c.app, "WITHDRAWN",
               [type |-> "APPLICATION_WITHDRAWN", actor |-> c.student,
                from |-> c.seen, to |-> "WITHDRAWN"])
  /\ Return(r, "ok")
  /\ UNCHANGED <<records, mails>>

-----------------------------------------------------------------------------
(* What other services write to the rows read above, one statement each.   *)
(* Their own guards, and the statements around these, are in the modules of *)
(* those services; here any of them may write at any moment.               *)

SetResumeStorageKey(s, k) ==
  /\ student' = [student EXCEPT ![s].resume = k]
  /\ UNCHANGED <<posting, company, tables, mails, pc, call>>

\* recomputeAndPersistCompleteness stores the outcome of reads made earlier,
\* so the flag may be stale in either direction.
StoreCompleteness(s, complete) ==
  /\ student' = [student EXCEPT ![s].complete = complete]
  /\ UNCHANGED <<posting, company, tables, mails, pc, call>>

SoftDeleteStudent(s) ==
  /\ student' = [student EXCEPT ![s].deleted = TRUE]
  /\ UNCHANGED <<posting, company, tables, mails, pc, call>>

SetPostingStatus(j, published) ==
  /\ posting' = [posting EXCEPT ![j].published = published]
  /\ UNCHANGED <<student, company, tables, mails, pc, call>>

SoftDeletePosting(j) ==
  /\ posting' = [posting EXCEPT ![j].deleted = TRUE]
  /\ UNCHANGED <<student, company, tables, mails, pc, call>>

SetApprovalStatus(c, approved) ==
  /\ company' = [company EXCEPT ![c].approved = approved]
  /\ UNCHANGED <<student, posting, tables, mails, pc, call>>

SoftDeleteCompany(c) ==
  /\ company' = [company EXCEPT ![c].deleted = TRUE]
  /\ UNCHANGED <<student, posting, tables, mails, pc, call>>

-----------------------------------------------------------------------------
(* Specification                                                           *)

\* A posting that is open and a student ready to apply; every other record
\* the guards test is reached from here by the statements above.
Init ==
  /\ \E k \in [Students -> Keys] :
       /\ \A s \in Students : OwnerOf[k[s]] = s
       /\ student = [s \in Students |-> [deleted |-> FALSE, complete |-> TRUE, resume |-> k[s]]]
  /\ posting = [j \in Jobs |-> [published |-> TRUE, deleted |-> FALSE]]
  /\ company = [c \in Companies |-> [approved |-> TRUE, deleted |-> FALSE]]
  /\ apps = [a \in {} |-> None]
  /\ submittedLog = [j \in Jobs |-> <<>>]
  /\ moveLog = [a \in Requests |-> <<>>]
  /\ mails = {}
  /\ pc = [r \in Requests |-> "idle"]
  /\ call = [r \in Requests |-> None]

\* A new request.  Application ids come from a page the caller was shown, so
\* they name a row that exists; nothing says that the row is the caller's.
Arrive(r) ==
  \/ \E s \in Students, j \in Jobs : SubmitReadStudent(r, s, j)
  \/ \E c \in Companies, a \in DOMAIN apps, target \in CompanyTransition :
       TransitionReadCompany(r, c, a, target)
  \/ \E s \in Students, a \in DOMAIN apps : WithdrawReadProfile(r, s, a)

\* The next statement of a request under way.
Advance(r) ==
  \/ SubmitReadJob(r)
  \/ SubmitReadExisting(r)
  \/ SubmitCommit(r)
  \/ SubmitNotify(r)
  \/ TransitionReadApplication(r)
  \/ TransitionCommit(r)
  \/ TransitionNotify(r)
  \/ WithdrawReadApplication(r)
  \/ WithdrawCommit(r)

RequestStep == \E r \in Requests : Arrive(r) \/ Advance(r)

OtherServices ==
  \/ \E s \in Students :
       \/ \E k \in {key \in Keys : OwnerOf[key] = s} \union {None} : SetResumeStorageKey(s, k)
       \/ \E complete \in BOOLEAN : StoreCompleteness(s, complete)
       \/ SoftDeleteStudent(s)
  \/ \E j \in Jobs :
       \/ \E published \in BOOLEAN : SetPostingStatus(j, published)
       \/ SoftDeletePosting(j)
  \/ \E c \in Companies :
       \/ \E approved \in BOOLEAN : SetApprovalStatus(c, approved)
       \/ SoftDeleteCompany(c)

Next == RequestStep \/ OtherServices

\* Once a handler has started, Node runs it to its return: every statement it
\* awaits completes or throws.  Nothing obliges a request to arrive.
Fairness == \A r \in Requests : WF_vars(Advance(r))

Spec == Init /\ [][Next]_vars /\ Fairness

\* The same requests while nobody edits the records they read.
QuietSpec == Init /\ [][RequestStep]_vars /\ Fairness

-----------------------------------------------------------------------------
(* Properties                                                              *)

\* Every status application a has ever been given, by its own audit trail.
Past(a) == {"APPLIED"} \union {moveLog[a][i].to : i \in DOMAIN moveLog[a]}

\* One application ever per student per posting, although two submissions can
\* both pass the "already applied" read (application-service.ts:149-159): only
\* the unique index separates them.
OneApplicationPerPosting ==
  \A a, b \in DOMAIN apps :
    apps[a].job = apps[b].job /\ apps[a].student = apps[b].student => a = b

\* An application carries a resume of its own student, whatever the student
\* uploads, deletes or lets go stale while the submission is in flight
\* (application-service.ts:112-117, 161-164).
SnapshotIsOwnResume ==
  \A a \in DOMAIN apps :
    apps[a].snapshot \in Keys /\ OwnerOf[apps[a].snapshot] = apps[a].student

\* The snapshot, posting and student of an application never change and the
\* row never goes away (application-service.ts:21-24).
ApplicationsAreKept ==
  [][\A a \in DOMAIN apps :
       /\ a \in DOMAIN apps'
       /\ apps'[a].snapshot = apps[a].snapshot
       /\ apps'[a].job = apps[a].job
       /\ apps'[a].student = apps[a].student]_vars

\* Row and audit trail agree: the last event filed under an application gives
\* its status, also when several stale writers hit the same row, because the
\* update and its event share a transaction (application-service.ts:438, 533).
LogTellsStatus ==
  \A a \in DOMAIN apps :
    apps[a].status = IF moveLog[a] = <<>> THEN "APPLIED"
                     ELSE moveLog[a][Len(moveLog[a])].to

\* The statuses application a had been given before its i-th event.
Before(a, i) == {"APPLIED"} \union {moveLog[a][k].to : k \in 1..(i - 1)}

\* Event e is a move of application a that the code allows, by whom it allows.
Authentic(a, e) ==
  \/ /\ e.type = "APPLICATION_STATUS_CHANGED"
     /\ e.actor = CompanyOf[apps[a].job]
     /\ e.to \in ALLOWED[e.from]
  \/ /\ e.type = "APPLICATION_WITHDRAWN"
     /\ e.actor = apps[a].student
     /\ e.from \in ACTIVE_APPLICATION_STATUSES

\* What an event says it moved from was really a status of that application,
\* though perhaps no longer the current one, and the move is one the code
\* allows from there, by the posting's company or the applying student
\* (application-service.ts:420-451, 519-550).
EventsAreAuthentic ==
  \A a \in DOMAIN apps : \A i \in DOMAIN moveLog[a] :
    moveLog[a][i].from \in Before(a, i) /\ Authentic(a, moveLog[a][i])

\* No interleaving of stale writes lets an application skip a stage: an offer
\* was preceded by interviews, and interviews by a review or a rejection that
\* the company reconsidered (the ALLOWED table, application-service.ts:400-407).
StagesInOrder ==
  \A a \in DOMAIN apps :
    /\ "OFFER" \in Past(a) => "INTERVIEWING" \in Past(a)
    /\ "INTERVIEWING" \in Past(a) => Past(a) \intersect {"IN_REVIEW", "REJECTED"} # {}

\* A withdrawn application leaves WITHDRAWN only at the hands of a company
\* request that is past its read and saw another status there
\* (application-service.ts:406 forbids it to every later one).
WithdrawnUnlessRaced ==
  [][\A a \in DOMAIN apps :
       /\ apps[a].status = "WITHDRAWN"
       /\ ~\E r \in Requests :
            pc[r] = "transition.commit" /\ call[r].app = a /\ call[r].seen # "WITHDRAWN"
       => apps'[a].status = "WITHDRAWN"]_vars

Knows(r) ==
  /\ pc[r] \in SubmitPC => OwnerOf[call[r].key] = call[r].student
  /\ pc[r] \in TransitionPC \union WithdrawPC => call[r].app \in DOMAIN apps
  /\ pc[r] = "transition.commit" =>
       /\ CompanyOf[apps[call[r].app].job] = call[r].company
       /\ call[r].seen \in Past(call[r].app)
       /\ call[r].target \in ALLOWED[call[r].seen]
  /\ pc[r] = "withdraw.commit" =>
       /\ apps[call[r].app].student = call[r].student
       /\ call[r].seen \in Past(call[r].app) \intersect ACTIVE_APPLICATION_STATUSES

\* What a request read before its transaction is stale at worst, never wrong:
\* at its commit the application exists, is the caller's, and has at some time
\* had the status the decision was based on (application-service.ts:420-436,
\* 519-531); a submission still carries a resume of its own student.
RequestsKnow == \A r \in Requests : Knows(r)

\* A mail tells of something that was committed: it never precedes the row or
\* the status it announces (application-service.ts:191, 454).
MailsAnnounceCommits ==
  \A m \in mails : m.app \in DOMAIN apps /\ m.announces \in Past(m.app)

\* A submission that found the posting open ends with the student having an
\* application for it, its own or that of the request that won the race, even
\* if posting, company or student change meanwhile (application-service.ts:122-189).
SubmissionSettles ==
  \A s \in Students, j \in Jobs :
    (\E r \in Requests : pc[r] = "submit.existing" /\ call[r].student = s /\ call[r].job = j)
      ~> \E a \in DOMAIN apps : apps[a].job = j /\ apps[a].student = s

\* The application of student s to posting j, which OneApplicationPerPosting makes one row.
AppOf(j, s) == CHOOSE a \in DOMAIN apps : apps[a].job = j /\ apps[a].student = s

\* The funnel of each posting and student, read off the table and the log.
FunnelStage ==
  [p \in Jobs \X Students |->
     IF HasApplied(p[1], p[2]) THEN apps[AppOf(p[1], p[2])].status ELSE "NO_APPLICATION"]

FunnelPassed ==
  [p \in Jobs \X Students |-> IF HasApplied(p[1], p[2]) THEN Past(AppOf(p[1], p[2])) ELSE {}]

Funnel == INSTANCE ApplicationFunnel WITH stage <- FunnelStage, passed <- FunnelPassed

\* The interleaved requests implement the abstract funnel.
ImplementsFunnel == Funnel!Spec

-----------------------------------------------------------------------------
(* What the code says of itself and does not keep                          *)

\* "They cannot un-withdraw -- the action is intentionally one-way"
\* (application-service.ts:502).
WithdrawIsOneWay ==
  [][\A a \in DOMAIN apps : apps[a].status = "WITHDRAWN" => apps'[a].status = "WITHDRAWN"]_vars
=============================================================================
