# Internship board: TLA+ models

The repository is a Next.js 16 application on Prisma 7 and PostgreSQL. Students
apply to internship postings, companies publish postings and decide on
applications, and the two talk in message threads; admins approve companies.
This directory models the server side: what requests do to the database and to
the object store, one awaited statement at a time, when several requests run at
once; and, as functions, what the pages, reports, redirects, storage adapters
and operations scripts make of that state.

## 1. What runs, and what is atomic

* Every server action (`src/features/*/actions.ts`) and route handler
  (`src/app/api/**/route.ts`) is one asynchronous **request**. Node interleaves
  requests at every `await`; several server processes may run.
* Each `await prisma.x.y(...)` is one SQL statement, atomic by itself. A batch
  `prisma.$transaction([...])` is atomic. Nothing else is: the services take no
  row lock, use no conditional update on a status, and run at PostgreSQL's
  default level, read committed.
* So a service function "read the row, check it, write it" is two or more steps,
  and any other request may run between them. The only things that hold two
  concurrent writers apart are the unique indexes of `prisma/schema.prisma` and
  of its migrations.
* Sessions are JWTs valid for thirty days that carry a user id and a role; the
  record behind them may be soft-deleted in the meantime.
* `dispatchEmail` absorbs every failure of the mail provider: a mail is sent
  after the commit, or it is lost.

A request in these models is a process `r \in Requests` with a program counter
`pc[r]` and the locals it still needs in `call[r]` (or `args`): the values its
earlier statements read. One action per awaited statement, guarded by `pc[r]`;
the result of a request (`ok`, `refused`, `threw`) is its last `pc`. A request
whose server dies takes no further step, which the safety properties allow
everywhere.

## 2. Inventory

| Component | Source (under `src/`) | State it keeps | Operations | What makes it correct |
| --- | --- | --- | --- | --- |
| Applications | `server/services/application-service.ts`, `features/applications`, `app/(company)/company/applications`, `app/(student)/student/applications`, the detail page of a posting | `Application`, `ActivityEvent` | submit, company transition, withdraw, lists, detail page | one application per student and posting; status and audit log agree; only legal moves; withdrawal final; snapshot stays the student's own; pages offer what the service accepts |
| Student profiles and resumes | `server/services/student-service.ts`, `features/students` | `StudentProfile` and its sections, resume key, object store | save profile, add/update/delete section, upload and delete resume | stored completeness flag equals the computation; one completion event per rise; profile points at a file that is there |
| Resume reads | `app/api/files/resume/**` | none | own resume, snapshot of an application | only the owner and the company read it; the snapshot of an application remains readable |
| Messaging | `server/services/message-service.ts`, `features/messages`, the message pages | `MessageThread`, `Message`, `ActivityEvent` | start thread, send, load and mark read, two inboxes, two badges | one thread per application; only the two parties write; closed applications are silent; read means the other side loaded it; lists, badges and gates agree |
| Job postings | `server/services/job-posting-service.ts`, `features/job-postings`, `app/(company)/company/jobs` | `JobPosting` | create, update, publish, pause, close, archive, delete, list, form | publish gate; lifecycle table; slugs unique per company; `publishedAt` is the first publication |
| Company profiles | `server/services/company-service.ts`, `features/companies`, `lib/companies` | `CompanyProfile`, logo | upsert, logo upload and deletion, completeness | one profile per user, unique slug that never moves, first save announced, logo in storage |
| Administration | `server/services/admin-service.ts`, `features/admin`, `server/repositories/admin-repository.ts` | approval status, `deletedAt` | approve, reject, suspend, soft delete, mail diagnostic, paged lists | events tell the change made; nothing deleted is decided about again |
| Accounts and sessions | `server/services/auth-service.ts`, `features/auth`, `lib/auth` | `User`, JWTs | sign up, log in, log out, bootstrap an admin | email unique among the living; stale sessions write nothing |
| Saved jobs | `server/services/saved-job-service.ts`, `features/saved-job-postings` | `SavedJobPosting` | save, unsave, list | idempotent; only public postings enter |
| Visibility and search | `server/services/visibility-service.ts`, `public-job-search.ts`, `features/public-jobs`, public pages | none | search, detail, company page | only published postings of approved companies, everywhere alike |
| Onboarding and redirects | `server/services/onboarding-service.ts`, `proxy.ts`, `lib/auth/config.ts`, onboarding pages | none | where a user is sent | one hop, no loop |
| Metrics and activity | `server/services/admin-metrics-service.ts`, `server/repositories/activity-repository.ts` | none | dashboard, feed | numbers agree with the lists they head |
| Email, storage | `server/adapters/email`, `server/adapters/storage`, `email-service.ts` | external | send; put, delete, signed URL | failures are absorbed or reported; a file is served as what it was uploaded |
| Operations | `scripts` | none | preflight, smoke mail, admin bootstrap | a green preflight means the server boots and delivers |
| Seed | `prisma/seed.ts` | all tables | fill a demo database | not modelled |

Interactions: a submission reads the profile the profile requests write, and the
posting and company that company and admin requests write; it copies the resume
**key** of the profile, while the file behind the key belongs to the profile.
Messaging reads the status that applications write, and the `deletedAt` of
everything above it. Sign-up, company profiles, administration, the board and
the reports meet on `User` and `CompanyProfile`. Notifications run after the
commits.

Hard behaviours are listed, each at its line, in `PROJECT.json` under
`hazards`. The common shape: a decision taken on a row read by an earlier
statement, and a write that does not test the row again. Two others recur: a
rule stated in several places that must stay equal, and a check in one process
(preflight, proxy) that must agree with another (boot, page).

## 3. Modules

### `ApplicationFunnel` (abstract)

What an application is to the people around it, with no requests: for each
pair (posting, student), the status of its application (`stage`) and every
status it has ever had (`passed`). A step applies, moves as a company, or
withdraws. It says what the committed code guarantees *races included*: an
application enters a status only from one it was in **earlier**, not
necessarily last.

### `Applications`

`application-service.ts`. State: `student`, `posting`, `company` (the columns
the guards read), `apps` (the table; a row's fresh id is the request that
creates it), `submittedLog` and `moveLog` (audit events), `mails`, and
`pc`/`call` of the requests.

| Action | Statement of the code |
| --- | --- |
| `SubmitReadStudent`, `SubmitReadJob`, `SubmitReadExisting`, `SubmitCommit`, `SubmitNotify` | `submitApplication`: profile gate, open-posting query, already-applied query, the transaction (insert and event, or the unique index), the mail |
| `TransitionReadCompany`, `TransitionReadApplication`, `TransitionCommit`, `TransitionNotify` | `transitionApplicationStatus`: the company, the application with its checks, the transaction (update by id and event), the mail |
| `WithdrawReadProfile`, `WithdrawReadApplication`, `WithdrawCommit` | `withdrawApplicationByStudent` |
| `OtherServices`: `SetResumeStorageKey`, `StoreCompleteness`, `SoftDeleteStudent`, `SetPostingStatus`, `SoftDeletePosting`, `SetApprovalStatus`, `SoftDeleteCompany` | the writes of other services to the columns the guards read |

`Spec` lets the records change at any moment; `QuietSpec` holds them still, so
that more requests fit into one run. Data abstractions: a posting's status is
"PUBLISHED or not", a company's approval is "APPROVED or not", since no guard
tells the other values apart; mail address lookup and dispatch are one step.

### `StudentProfiles` and `ResumeSnapshots`

`student-service.ts` and the resume actions. The ten completeness fields are
abstracted to three facts: the basics form is filled, a section exists, a resume
is there. `recomputeAndPersistCompleteness` is its separate statements: the
reads, the prior flag, the write, the event. The store is a set of keys; `put`
may fail, `delete` may fail silently, as in the adapters. `crossed` and `doubted`
are history variables: the requests that are computing the flag while another one
changed the data, and whether the last writer of the flag was one of them.
`ResumeSnapshots` composes the profile requests with applications that copy the
resume key, and maps the pair to the environment of `Applications`: what that
module assumes about the profile is what the profile service does
(`ImplementsApplications`).

### `Messaging`

`message-service.ts`: `startThreadAsCompany`, sending from either side, opening a
thread (load, then mark as read), notification. The application status and the
four soft-delete columns are changed by free steps. `arrival[r]` is a history
variable: what was shut, and whether a thread existed, when the request arrived.
It separates a request that was let in too late from one that raced with the
change. `viewed` is another: which page load selected a message, and which message
was sent between such a load and the update that marks the thread as read, an update
that tests the thread and not what the page shows.

### `JobPostings`

`job-posting-service.ts` and the admin's soft delete of a posting. All postings
carry one title, the case in which slugs meet; slug `k` is the title with suffix
`-k`. A create is the gate, one query per slug candidate, the insert (or the
exception of the partial unique index, and a new search), and one or two events
as statements of their own; edits and transitions load the posting, pass the
gate, read status and date, and write both by id. `MaxRetries` (5 in the code)
and `MaxCandidates` (50) are constants. Companies are approved, suspended and
deleted at any moment. `past` is a history variable, and so are the two facts
`late` and `barred` kept with a request: whether its posting was already deleted
when it arrived, and whether its company has been unapproved ever since.

### `Platform`, `Accounts`, `Companies`, `Administration`, `Board`, composed by `Marketplace`

`Platform` declares the tables that four components share (`user`, `student`,
`company`, `posting`, `saved`, `files`, `approvals`, `log`, `mails`, `sessions`)
and how a request runs over them; each component module adds its handlers, and
`Marketplace` lets them interleave.

| Module | Handlers, one action per statement |
| --- | --- |
| `Accounts` | `Signup` to `SignupSignIn` (`createUserWithCredentials` and `signupAction`), `Login`, `Logout`, `Bootstrap`: the admin script with its requery after the unique index refused |
| `Companies` | `Save` to `SaveNotifyAdmins` (`upsertCompanyProfile`: slug search, insert with at most `MaxRetries` attempts, or update; event; mails), `UploadLogo`, `DeleteLogo` with their storage calls, each of which may fail, and the placeholder profile a first logo creates |
| `Administration` | `Approve` to `ApproveMail` (`setCompanyApprovalStatus`), `DeleteCompany`, `DeleteStudent`, `Diagnostic` |
| `Board` | the visibility rule and its restatements; `SaveJob`, `UnsaveJob` |

A user's id is the member or the sign-up request that made it; a logo key is the
request that put the file. A session is membership in `sessions`: deleting an
account does not end it, as no code does. All companies have one name, the case
in which slugs meet. The unique index on `CompanyProfile.userId` covers deleted
rows, which the table being a function of the user expresses. History variables:
`shown` (requests whose posting has been public since they arrived), `late` in a
call (its row was deleted when it arrived), `by` in a company row.

### `Reports`

Every number, alert and list of the admin dashboard, the four admin lists and
the activity feed with their filters and paging, and the public search, as
operators over the tables of `Platform`. `MCMarketplace` evaluates them in every
state that `Marketplace` reaches. Applications, tags, texts and dates, which
these requests do not write, are constants.

### `ApplicationPages`, `PostingPages`, and the lists in `Messaging`

What the pages of applications and of postings offer, over the tables of
`Applications` and `JobPostings`: lists, buttons, forms, links, warnings. Theorems
of `ApplicationsProofs` and `JobPostingsProofs` compare what is offered with what
the service, asked in the same state, answers. The inboxes, unread badges and reply gates are in `Messaging`
(`InboxAgrees`).

### `Routes`, `Storage`, `Deployment`

Pure functions, with theorems about all their inputs (those of `Storage` and
`Deployment` in `AdapterProofs`). `Routes`: where a request
for a page ends, from session and profile rows, through the proxy, the guards,
the onboarding decisions and the redirects of the actions; the completeness
meter. `Storage`: keys, extensions, content types and the three adapters' put,
read and delete; the two resume routes and the logo route with their status and
headers. `Deployment`: the environment as classes of strings, the checks of
`preflight-checks-lib.ts`, the adapters the server builds from the same
variables, and the exit codes of the scripts.

### Operators marked `Mutant:`

Next to the definition it alters, each module keeps a few deliberately wrong
variants (an index that never refuses, a gate that forgets a comparison, a swapped
order). No specification uses them; `PROJECT.json` names, for each property, the
variant that breaks it under the same configuration, which shows that the
property is sensitive to the code.

## 4. Runs

| Run | Instance | What it shows |
| --- | --- | --- |
| `applications_records` | 2 students, 1 posting, 2 requests of any kind; profiles, posting and company change at any moment | The unique index, not the read before it, keeps applications unique; every row has a resume key of its own student; a submission that saw an open posting ends with an application in place (`SubmissionSettles`, under the fairness of section 5) |
| `applications_funnel` | 4 requests of 2 students and 2 companies (one of them a stranger) on one posting; records still; symmetric requests | The last event always tells the status; an event is written only by a party and only for a move the table allows from a status the application once had; OFFER is never reached without INTERVIEWING; a mail announces only what was committed; a withdrawal is undone only by a request that read an earlier status; the requests implement `ApplicationFunnel` |
| `withdraw_one_way` | 3 requests | *Violation.* A company decision that read the application before the student withdrew revives it |
| `profiles_serial` | one request in flight at a time, a history of several | The completion event and the store are exactly what the handlers promise, and every request ends with a flag that fits the data (`FlagCatchesUp`) |
| `profile_completed_event` | two requests in flight | *Violation.* The completion event is recorded twice for one rise, or not at all |
| `resume_snapshots` | 3 overlapping profile requests, a failing store, 1 application request | The profile points at a missing file only while a delete is half done; an upload never deletes the file shown; the flag that admits applications is right once nobody is computing it, unless its last writer was crossed by another request's change (`FlagIsTruthful`: mutations that overlap a recompute, and torn reads, do no other harm); the composition implements `Applications` |
| `snapshot_readable` | 1 application, 1 upload or delete | *Violation.* Replacing or deleting a resume removes the file behind an application's snapshot |
| `messaging` | 1 application, 3 requests of 2 students and 2 companies; status and soft deletes change | In every state the badges are the sums of the listed threads' counters, every listed thread opens and shows a message, replies are offered exactly when they pass, and the Message button of an applicant leads to a listed thread or an accepted form (`InboxAgrees`); a message is marked as read only if a page of the other side selected it, or if it was sent between that load and its update; only the parties write, and a request that arrived after the application was closed writes nothing (`SendsAdmitted`); one that arrived after a thread existed reuses it |
| `duplicate_thread` | 2 requests | *Violation.* Two clicks on Start conversation open two threads |
| `job_postings` | 3 requests of 2 companies and of admins, 1 posting that was published and paused; `MaxRetries` 2, `MaxCandidates` 3 | Live slugs are unique per company; a posting has a date exactly when it is no draft; no lifecycle stage is skipped; a create fails for its name only when it is crowded out; an event is missing only while its writer is at the statement that records it, every publication date shown is that of a recorded publication, and no event tells of what did not happen (`AuditComplete`); only owners and admins write, and nobody to a posting deleted before they came; a company suspended all the while publishes nothing |
| `published_at` | 2 requests | *Violation.* Publishing a paused posting through the edit form replaces its first publication date |
| `marketplace` | 3 requests of one of four workloads (accounts, companies, moderation, board); an admin, a student, four companies, two postings; `MaxRetries` 2, `MaxCandidates` 4, `MaxListed` 1; symmetric requests | One account per address and one company per slug; the approval history explains the status; at rest every sign-up, first save and deletion has its event and mails; a logo is missing only while a delete is half done; `slug_taken` only after collisions or for a user that has a profile; nothing deleted is written again, a saved posting was public meanwhile, no deleted account signs in; and in each of these states the four statements of the visibility rule agree, the dashboard agrees with the lists it heads, for every tag, for page numbers from below the first to beyond the last and deadlines in the past, and the public search lists the newest postings up to its limit |

**Why these bounds.** Every race in this code is between a read and a write of
one request and one write of another, on one row, so two requests of each kind
that may collide are the smallest interesting instance and no property relates
more than one posting. Four requests are needed in the funnel for a submission
and the three moves to OFFER; they also give every three-way race of submission,
withdrawal and decisions. In the profile runs three requests give an upload that
races with an upload while a delete is half done. `MaxInFlight` bounds how many
requests of one student overlap: 1 is the sequential contract, 3 the races. A
stranger of each kind is there so that ownership checks can fail. In
`marketplace` each workload holds the operations that touch one table; operations
of different workloads meet only in rows that a workload's own operations also
write, and the proofs of section 6 are about all of them together. In
`job_postings`, 2 retries and 3 candidates let three requests exhaust both loops,
which the 5 and 50 of the code would need dozens of requests for.

**Deadlock.** `Spec` of `Applications`, and of `Messaging`, never stop because
other services never do; TLC checks this. In the other runs a finite number of
requests ends, and `CHECK_DEADLOCK FALSE` says so.

### Violations: where the code and its comments differ

* `WithdrawIsOneWay` (application-service.ts:438 against :501): the update of a
  company transition is by id only. What does hold, and is proved, is
  `WithdrawnUnlessRaced`.
* `OneEventPerRise` (student-service.ts:74 against :71): prior flag, write and
  event are three statements.
* `SnapshotStaysReadable` (features/students/actions.ts:181, :210 against
  application-service.ts:23): an application keeps the key, not the file.
* `OneThreadPerApplication` (message-service.ts:601 against
  features/messages/actions.ts:43): find, then create, with no unique index.
  What does hold is `ReusedOnceThere`.
* `PublishedAtIsFirst` (job-posting-service.ts:289 against :282 and :391): the edit
  form stamps whenever the status it read is not PUBLISHED. What does hold is
  `StampTellsDraft`.

### Observations that are no violations of a stated rule

Modelled as the code has them, and worth a reader's attention:

* A company whose profile was soft-deleted, or that saves twice at once for the
  first time, gets `slug_taken` although no other company holds the name
  (company-service.ts:147, comment at 136-141; the first disjunct of
  `TakenOnlyWhenHeld`). A logo uploaded first makes a placeholder profile, after
  which the first save records no creation and tells no admin.
* A posting that leaves the board between check and insert still enters a saved
  set (saved-job-service.ts:42, 59).
* The composer of `message/page.tsx` is reached by a direct link for applications
  whose send is refused; from the applicants list it is not (`InboxAgrees`).
* A student's application list links a PUBLISHED posting that is deleted or whose
  company lost its approval, which answers 404 (`LinksLeadToPages`). An unapproved
  company is offered Resume, which is refused silently (`ButtonsAreMoves`).
* The company's "Skip for now" returns to the page it is on (`SkipForNowReturns`).
* `S3_SIGNED_URL_TTL_SECONDS=""` and `STORAGE_DRIVER=noop` pass the preflight. An
  unknown `EMAIL_DRIVER` falls back to the console, an unknown `STORAGE_DRIVER`
  throws.
* The extension of a logo's file name is kept whatever its type, so an image named
  `x.jfif` is stored on disk and never shown (`LogoShownAsNamed`).
* The dashboard counts profiles of deleted students, which the admin list hides
  until asked (`DashboardAgrees` compares it with the list that shows them).

## 5. Fairness

Liveness is asked of two modules. `Applications` and `StudentProfiles` assume
weak fairness of `Advance(r)` for each request: Node runs a handler that was
started until it returns, and a pending promise of the database or of the store
settles. Nothing is assumed about arrivals: a user may never send a request, and
no other service ever has to act. `SubmissionSettles` and `FlagCatchesUp` are
thus statements about a server that stays up; a crash leaves the flag of a
profile stale until the student saves again, which is listed as a hazard with no
property.

## 6. Proofs

All theorems are for every value of the constants: any number of requests,
people, postings and loop rounds. The assumptions on constants are named `ASSUME`s
in the module that declares them and are evaluated by TLC in the runs; those of the
functional modules stand in the theorems. They say what ids are (distinct, of one
owner, not null), that bounds are positive, and that the tables start with finitely
many rows.

The inductive invariants have one shape: the type invariant, the property, and what
each request **remembers**, that is how far a value it read by an earlier statement
can still be relied on when it writes. What a row once was does not change, rows
stay, deletions stay; the current status does not. A proof has one lemma per action,
or per group of actions that move the same things.

### `Applications`

| Theorem of `ApplicationsProofs` | Statement |
| --- | --- |
| `Invariance` | `Spec => []IInv` |
| `TypeCorrect` | `Spec => []TypeOK` |
| `UniqueApplication` | `Spec => []OneApplicationPerPosting` |
| `OwnSnapshot` | `Spec => []SnapshotIsOwnResume` |
| `StatusTold` | `Spec => []LogTellsStatus` |
| `AuditTrail` | `Spec => []EventsAreAuthentic` |
| `StaleReadsAreBacked` | `Spec => []RequestsKnow` |
| `NoStageSkipped` | `Spec => []StagesInOrder` |
| `RowsAreKept` | `Spec => ApplicationsAreKept` |
| `WithdrawnHolds` | `Spec => WithdrawnUnlessRaced` |
| `MailsAreTrue` | `Spec => []MailsAnnounceCommits` |
| `FunnelImplemented` | `Spec => ImplementsFunnel` |

Assumed: every posting belongs to a company, every key was minted for a student,
and `None` is not a key. None of the properties is inductive alone, because a
transaction acts on a value read earlier. The invariant is

    IInv == TypeOK /\ OneApplicationPerPosting /\ SnapshotIsOwnResume
            /\ LogTellsStatus /\ EventsAreAuthentic /\ RequestsKnow /\ Bookkeeping

`RequestsKnow` is its heart: whatever a request holds in its locals was once
true, and the part of it that never changes again (the row exists, belongs to
that posting and student, has had that status) still is. With it, the event that
a late transaction writes is authentic although the status has moved on.
`Bookkeeping` says where rows come from: the row `r` exists only once request
`r` has committed, and the log of a row that is not there is empty. The proof
has one lemma per action (grouped into those that touch the tables and those
that do not) and one step per conjunct the action can disturb. `NoStageSkipped`
is then a consequence of `LogTellsStatus` and `EventsAreAuthentic` by following
the events of a row backwards; `WithdrawnHolds` is an action property that holds
from any state in `IInv`. `MailsAreTrue` adds `MailsPending`: a request about to
send has committed what it will tell, and trails only grow (`PastGrows`).

`FunnelImplemented` is the refinement. `FunnelFits` reads the funnel off the
tables row by row, which uniqueness of applications allows (the mapping chooses
*the* row of a pair). A step that writes one row moves the funnel of its pair
only (`FunnelMoves`); the insert is `Apply`, a company's transaction is
`CompanyMoves` and a withdrawal `StudentWithdraws`, each enabled by the part of
`RequestsKnow` that says the status read was once passed; every other step is a
stutter.

Five more theorems of the same specification are about `ApplicationPages`:
`CompanyButtons`, `StudentButtons` and `HonestForm` (what is offered is what the
service accepts), `StudentLinks` (from uniqueness), `NarrowBypass`.

### `JobPostings`

| Theorem of `JobPostingsProofs` | Statement |
| --- | --- |
| `Invariance` | `Spec => []IInv` |
| `TypeCorrect` | `Spec => []TypeOK` |
| `UniqueSlugs` | `Spec => []SlugsUnique` |
| `DatedUnlessDraft` | `Spec => []StampTellsDraft` |
| `NoStageSkipped` | `Spec => []LifecycleInOrder` |
| `OwnedWrites` | `Spec => WritesAreOwned` |
| `GatedPublication` | `Spec => PublishedUnderApproval` |
| `CompleteAudit` | `Spec => []AuditComplete` |
| `GivesUpLate` | `Spec => []GivesUpOnlyWhenCrowded` |

Any set of companies and requests, finitely many existing postings (at most one of
a company) and all loop bounds. An edit or a transition writes a status and a date together,
both from an earlier read, so the invariant adds `RequestsRemember`: the operation
of a request fits its next statement, the status it read is one the posting had,
and the date it read fits that status. Two stale writes may then overtake each
other in any order without separating a status from a fitting date.

The other four each have an invariant on top of `IInv`.

* `WritesInv`, for `OwnedWrites` and `GatedPublication`, two action properties. A
  posting that was gone when the request arrived is gone for good, and stops the
  request when it loads the row; a company that was barred all the while is barred
  at the gate, whenever that is. So a request that still runs with PUBLISHED after
  the gate is not barred, although the company may be by the time it writes.
* `AuditInv`: whatever is due for a posting has been told, or some request is at the
  statement that tells it. An edit that found its posting already PUBLISHED tells
  nothing; then that status was one the posting had had before, and is told by
  whoever gave it. `DatesInv` does so for the dates: a date that a posting
  shows, or that a request has read and will write again, is told by the event of the
  request that stamped it, or that request is about to record it. `HonestInv` is the
  converse, what an event tells of has happened. The three make `AuditComplete`, in the middle of requests as well as at rest, so a
  server that dies costs at most the events of the requests it was serving.
* `CrowdInv`: a create has retried at most as often as others have inserted, and
  every candidate it passed over is the slug of some posting, live or not. A full
  search is then a surjection of the postings onto the slugs.

Four theorems are about `PostingPages`: `CompanyButtons`, `WayOn`, `HonestWarning`
and `DateKept`; the last follows from `StampTellsDraft` and tells that the restamping found by
`published_at` needs a form rendered in an earlier state than the one it is
submitted in.

### `Marketplace`

| Theorem of `MarketplaceProofs` | Statement |
| --- | --- |
| `Invariance` | `Spec => []IInv` |
| `TypeCorrect` | `Spec => []TypeOK` |
| `UniqueKeys` | `Spec => []KeysUnique` |
| `DecisionsTold` | `Spec => []ApprovalsTell` |
| `BackedWrites` | `Spec => WritesAreBacked` |
| `LogoStored` | `Spec => []LogoDanglesOnlyInDelete` |
| `GivesUpLate` | `Spec => TakenOnlyWhenHeld` |
| `NothingUntold` | `Spec => []AuditAtRest` |
| `RuleAgrees` | `Spec => []RuleStatedAlike` |
| `DashboardHolds` | `Spec => []DashboardAgrees` |

    IInv == TypeOK /\ KeysUnique /\ ApprovalsTell /\ RequestsRemember /\ Bookkeeping

`RequestsRemember` has two halves: `Started`, whose operation a statement belongs
to and with which arguments, and `Found`, what the request has read. What it read
may have changed; the invariant keeps only what `Grows` says no step undoes: rows
stay, roles stay, deletions stay, a decision once recorded stays. So a stale
decision still starts from a status the company had, and a request whose row was
deleted before it arrived has nothing to write. The proof has a lemma for the
arrivals of each component, one for the statements that touch no table the
invariant speaks of, and one for each insert and update. `BackedWrites` is an
action property, proved component by component from `IInv` (`AccountBacked`,
`CompanyBacked`, `AdministrationBacked`, `BoardBacked`).

* `LogoInv`, for `LogoStored`: a key is on one profile only; nobody knows the key of
  an upload before it writes the row, so no other request can remove its file; and
  the old file that a request has found is named by its own user's profile only, and
  by none once the upload has replaced it.
* `TakenInv`, for `GivesUpLate`: the retries of a save whose user has no profile are
  no more than the profiles made since the start. An insert that collides with an
  active slug counts one that was not there when the search found the slug free.
* `SignupInv`, `CreationInv` and `DeletionInv`, for `NothingUntold`: each fact in the
  tables has its event and mails, or a request is at the statement that records or
  sends them; conversely an event is about such a fact. Only one request may be about
  to announce a profile, because only one insert for a user succeeds.
* `ShownInv`, for `RuleAgrees` and `DashboardHolds`: only students have a student's
  profile, whoever posted has a company's, and the tables have finitely many rows. The
  counts are cardinalities of related sets; a sum over the kinds of a row is the number
  of pairs of a kind and a position within it, which a bijection with the rows counts
  (`TotalOfKinds`). A list in the order of its columns is chosen among the enumerations
  of its rows, and one in that order exists (`InOrderSorts`: place each row by the number
  of rows that are not after it), so its pages of two rows hold every row
  (`PagesShowAll`). None of these definitions is recursive, so no
  induction over data is needed.

### `StudentProfiles` and `ResumeSnapshots`

| Theorem of `StudentProfilesProofs` | Statement |
| --- | --- |
| `Invariance` | `Spec => []IInv` |
| `TypeCorrect` | `Spec => []TypeOK` |
| `DanglingHeals` | `Spec => []DanglingOnlyInDelete` |
| `CurrentFileKept` | `Spec => UploadKeepsCurrentFile` |
| `FlagFollowsData` | `Spec => []FlagIsTruthful` |
| `SerialFlag` | `MaxInFlight = 1` proves `Spec => [](InFlight = {} => profile.complete = IsComplete)` |
| `SerialEvents` | `MaxInFlight = 1` proves `Spec => []OneEventPerRise` |
| `SerialStore` | `MaxInFlight = 1`, `StorageFails = FALSE` prove `Spec => []NoDeadFiles` |

The first five are for requests that overlap and a storage that fails. A key is
*ahead* while its upload has yet to set it; no row and no request holds a key that is
ahead, so a request that removes an old file never removes the one about to be shown.
`KeyFits` says that an upload's own file is in the store until it is set, and that the
file it is going to remove is off the profile by then. `FlagInv` adds the flag: a
request that nobody has crossed since it began to read has found the stored data
complete or not as they are (`FlagFits`), whichever columns it has still to read. What
it then writes is right, even if another request wrote a stale flag before it.

The last three are the sequential promise, which `profile_completed_event` shows to
fail as soon as two requests overlap; the hypothesis is what that run drops.
`SerialInv` follows the one request through its statements (`FlagInStep`): the flag
may differ from the data only between the mutation and `recompute.update`, and the
event may be missing only in `recompute.event`. `StoreInv` (`FilesInStep`) does so for
the files, and needs that no storage call fails, since a failed delete leaves its file
behind for good.

| Theorem of `ResumeSnapshotsProofs` | Statement |
| --- | --- |
| `DanglingHeals` | `Spec => []DanglingOnlyInDelete` |
| `CurrentFileKept` | `Spec => UploadKeepsCurrentFile` |
| `FlagFollowsData` | `Spec => []FlagIsTruthful` |
| `Refinement` | `Spec => ImplementsApplications` |

Here the profile shares its world with applications. `StudentProfilesProofs` is
instantiated for the profile side, so that its invariants are proved once; a step of an
application leaves it alone. `Refinement` maps every profile step to one of the free
steps of `Applications` or to a stutter. For this no handler may write the resume key
and the flag in one statement (`OneColumnAtATime`), and a key that is set is the
student's own. What section 6 proves of `Applications` is thus true of applications made with
the real profile service.

### `Messaging`

| Theorem of `MessagingProofs` | Statement |
| --- | --- |
| `Invariance` | `Spec => []IInv` |
| `TypeCorrect` | `Spec => []TypeOK` |
| `ReadAfterLoad` | `Spec => []ReadMeansShownToOther` |
| `NoLateSend` | `Spec => []SendsAdmitted` |
| `ThreadReused` | `Spec => []ReusedOnceThere` |
| `InboxHonest` | `Spec => []InboxAgrees` |

    IInv == TypeOK /\ ReadMeansShownToOther /\ SendsAdmitted /\ ReusedOnceThere
            /\ TablesFit /\ RequestsRemember

The difficulty is that `arrival` speaks of a moment before the gate. `ArrivalHolds`
says what of that moment lasts: an application that was shut on arrival is shut still,
since a deletion is not undone and `arrival` forgets an application that is reopened,
and it is shut for a reason that the gate will see; a thread that existed exists.
`MayWrite` says that a request past its gate is a party and its application was not
shut on its arrival, which a closure between gate and insert does not undo. `Found`
says that the thread a request is going to append to is one of its application, and
`start.create` is only reached when no thread was there on arrival. `Seen` says that a
page load about to mark its thread has selected each message of it, or the message was
sent since. `InboxHonest`
rests on `TypeOK` and `TablesFit` alone: messages are finitely many, and every thread
has a first one, which is the company's.

### Functions

`Routes`: `OneHop`, `SignedInLandsAtHome`, `SkipForNowReturns`,
`ActionsLandWhereTheySay`, `MeterIsHonest`. `AdapterProofs`, about `Storage`:
`LogoShownAsNamed`, `ResumeReadByOwner`, `ReplacedSnapshot`, `ServedAsUploaded`;
about `Deployment`: `PreflightCoversBoot`, `SilentPreflightMeansDelivery`,
`TtlPositiveUnlessEmpty`.
Each is about every input of its function, by cases on what the code tells apart.

### What is only model-checked

Every safety property of a passing run is stated by a theorem. Liveness
(`SubmissionSettles`, `FlagCatchesUp`) is out of the prover's reach. The five
properties that are violated have no theorem, of course; what does hold in their
place is proved (`WithdrawnHolds`, `DatedUnlessDraft`, `ThreadReused`, `SerialEvents`,
`CurrentFileKept`).

## 7. Not modelled, and why

* The demo seed (`prisma/seed.ts`): run by hand against a quiet, empty database.
  It writes rows directly, among them complete students without the fields the
  completeness rule asks for, so the invariants say nothing about a seeded
  database.
* Input validation (Zod schemas) and form components: the input is a member of a
  small set that passed, or the request is refused. Formatting, layout, wording,
  mail templates.
* Password hashing and the JWT itself: a log-in names an account, a session names
  its user and ends by logging out; that it also expires after thirty days only
  shortens histories.
* File system paths, signing and the network protocols of the storage and mail
  providers: a call succeeds or fails.
* Foreign keys and cascades: rows are soft-deleted, but for saved postings and
  profile sections, on which nothing depends.
* Full text search: a query is a word that a row's texts contain or not. The
  clock: ages and deadlines of postings are constants of `Reports`. The free-text filters
  and order keys of `Reports` are there because they are part of the queries; no property
  tells one filter from another.
* The percentage of a student's profile (the company's is in `Routes`), and the
  profile pages.
* The dashboard's statements are read in one state; between two of its statements
  a number may move. The rows of a list that its `ORDER BY` ties, two timestamps
  being equal, come in one order on every page; the database may choose another for
  each query, as the code names no unique last column.

## 8. Plan

Done: the core (`ApplicationFunnel`, `Applications`, `StudentProfiles`,
`ResumeSnapshots`, `Messaging`), postings, the marketplace of accounts, companies,
administration and board with its reports, the pages and the functional modules,
and the proofs of section 6.

To come, in this order:

1. The composition of `JobPostings` with `Applications`, whose free steps on
   postings it should implement, as `ResumeSnapshots` does for profiles.
2. The seed, as an initial state of the other modules.
