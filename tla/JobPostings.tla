----------------------------- MODULE JobPostings -----------------------------
(***************************************************************************)
(* src/server/services/job-posting-service.ts and the admin's soft delete  *)
(* of a posting, as interleaved requests: every awaited Prisma statement   *)
(* is one atomic step, audit events included, which here are statements of *)
(* their own.                                                              *)
(*                                                                         *)
(* All postings carry the same title, the case in which their slugs meet:  *)
(* slug 1 is the slugified title, slug k the title with suffix -k.         *)
(* Requests are one-shot; a request creates at most one posting, so the    *)
(* id of a new row is its request, and so is the moment `new Date()`       *)
(* stands for in a publishedAt that the request stamps.                    *)
(***************************************************************************)
EXTENDS Naturals, FiniteSets

CONSTANTS
  Companies,      \* company users, each with its CompanyProfile
  Requests,       \* every posting request the server will ever receive
  Existing,       \* postings that were published and then paused before the history begins,
                  \* at most one of a company
  OwnerOf,        \* the company of each existing posting
  MaxRetries,     \* MAX_RETRIES, 5 in the code
  MaxCandidates,  \* how many slugs a search tries, 50 in the code
  None            \* SQL null, or no argument

ASSUME OwnerOfAssumption ==
  /\ OwnerOf \in [Existing -> Companies]
  /\ \A p, q \in Existing : OwnerOf[p] = OwnerOf[q] => p = q
ASSUME ExistingAssumption == IsFiniteSet(Existing)
ASSUME BoundsAssumption == MaxRetries \in Nat \ {0} /\ MaxCandidates \in Nat \ {0}
ASSUME DistinctAssumption ==
  Existing \intersect Requests = {} /\ None \notin Existing \union Requests \union Companies

VARIABLES
  company,    \* CompanyProfile.approvalStatus is APPROVED, .deletedAt is set
  postings,   \* the JobPosting table: a function on the ids of its rows
  events,     \* ActivityEvents about postings: a request records each type at most once
  past,       \* history: past[p]: every status posting p has had
  pc, call    \* per request: its next statement; its arguments and reads, and two
              \* facts of history: whether its posting was already deleted when it
              \* arrived (late), whether its company has been unapproved ever since (barred)

vars == <<company, postings, events, past, pc, call>>

-----------------------------------------------------------------------------
(* Types                                                                   *)

Ids == Requests \union Existing
Slugs == 1..MaxCandidates
Statuses == {"DRAFT", "PUBLISHED", "PAUSED", "CLOSED", "ARCHIVED"}

ASSUME NullAssumption == None \notin Statuses

\* The statuses the create and edit forms submit.
JOB_POSTING_USER_STATUSES == {"DRAFT", "PUBLISHED"}
TransitionTarget == {"PAUSED", "CLOSED", "ARCHIVED", "PUBLISHED"}

ALLOWED_TRANSITIONS == [DRAFT     |-> {},
                        PUBLISHED |-> {"PAUSED", "CLOSED"},
                        PAUSED    |-> {"PUBLISHED", "CLOSED"},
                        CLOSED    |-> {"ARCHIVED"},
                        ARCHIVED  |-> {}]

JobPosting == [company: Companies, slug: Slugs, status: Statuses,
               publishedAt: Ids \union {None}, deleted: BOOLEAN]

\* JOB_POSTING_CREATED, _SOFT_DELETED, and one type for each transition target.
Event == [type: {"CREATED", "SOFT_DELETED"} \union TransitionTarget, posting: Ids, by: Requests]

Ops == {"create", "update", "transition", "delete", "adminDelete"}
Call == [op: Ops, user: Companies \union {None}, posting: Ids \union {None},
         status: Statuses \union {None},
         slug: Slugs, attempt: 0..(MaxRetries - 1),
         seen: Statuses \union {None}, seenAt: Ids \union {None},
         late: BOOLEAN, barred: BOOLEAN]
NoCall == [op |-> None]

Results == {"ok", "refused", "threw"}
PCs == Results \union
  {"idle", "load", "gate", "create.slug", "create.insert", "create.event", "update.read",
   "update.write", "transition.read", "transition.write", "delete.write", "event"}

TypeOK ==
  /\ company \in [Companies -> [approved: BOOLEAN, deleted: BOOLEAN]]
  /\ DOMAIN postings \subseteq Ids
  /\ postings \in [DOMAIN postings -> JobPosting]
  /\ events \subseteq Event
  /\ past \in [Ids -> SUBSET Statuses]
  /\ pc \in [Requests -> PCs]
  /\ DOMAIN call = Requests
  /\ \A r \in Requests : call[r] \in IF pc[r] \in Results \union {"idle"} THEN {NoCall} ELSE Call

-----------------------------------------------------------------------------
(* Helpers                                                                 *)

Goto(r, where) == pc' = [pc EXCEPT ![r] = where] /\ UNCHANGED call

Return(r, result) ==
  /\ pc' = [pc EXCEPT ![r] = result]
  /\ call' = [call EXCEPT ![r] = NoCall]

\* The postings of c that hold a slug: the partial unique index skips deleted rows.
Holding(c, slug) ==
  {p \in DOMAIN postings : postings[p].company = c /\ postings[p].slug = slug /\ ~postings[p].deleted}

\* Mutant: the index is not there.
SlugCollisionNever(c, slug) == FALSE

SlugCollision(c, slug) == Holding(c, slug) # {}

\* canCompanyPublishJobsByUserId
CanPublish(c) == company[c].approved /\ ~company[c].deleted

\* Mutant: every company may publish.
GateOpen(c) == TRUE

\* gateOnPublish, for a posting that is to be PUBLISHED.
GateOnPublish(c) == CanPublish(c)

\* Mutant: a posting of any company, deleted or not, may be edited.
OwnsAny(c, p) == p \in DOMAIN postings

\* loadOwnedPosting
Owns(c, p) == p \in DOMAIN postings /\ ~postings[p].deleted /\ postings[p].company = c

\* Mutant: a retry short.
RetriesSpentEarly(attempt) == attempt + 1 >= MaxRetries

RetriesSpent(attempt) == attempt >= MaxRetries

\* The row of p gets a status and a publishedAt, both from the request's memory.
Write(p, status, at) ==
  /\ postings' = [postings EXCEPT ![p].status = status, ![p].publishedAt = at]
  /\ past' = [past EXCEPT ![p] = @ \union {status}]

Record(r, type, p) == events' = events \union {[type |-> type, posting |-> p, by |-> r]}

\* A request enters with the user its session names.
Enter(r, where, arguments) ==
  /\ pc[r] = "idle"
  /\ pc' = [pc EXCEPT ![r] = where]
  /\ call' = [call EXCEPT ![r] = arguments]

Arguments(op, c, p, status) ==
  [op |-> op, user |-> c, posting |-> p, status |-> status, slug |-> 1, attempt |-> 0,
   seen |-> None, seenAt |-> None,
   late |-> p # None /\ postings[p].deleted, barred |-> c # None /\ ~CanPublish(c)]

\* resolveCompanyProfileId, the first statement of every operation of a company.
Resolve(r, op, c, p, status, where) ==
  /\ pc[r] = "idle"
  /\ IF company[c].deleted
       THEN Return(r, "refused")
       ELSE Enter(r, where, Arguments(op, c, p, status))
  /\ UNCHANGED <<company, postings, events, past>>

-----------------------------------------------------------------------------
(* createJobPosting                                                        *)

\* After the gate, if the posting is to be PUBLISHED, the search for a slug begins.
Create(r, c, status) ==
  Resolve(r, "create", c, None, status, IF status = "PUBLISHED" THEN "gate" ELSE "create.slug")

\* One query of ensureUniqueJobPostingSlug.
CreateSearchSlug(r) ==
  /\ pc[r] = "create.slug"
  /\ LET c == call[r] IN
       IF Holding(c.user, c.slug) = {}
         THEN Goto(r, "create.insert")
         ELSE IF c.slug = MaxCandidates
                THEN Return(r, "threw")
                ELSE call' = [call EXCEPT ![r].slug = @ + 1] /\ UNCHANGED pc
  /\ UNCHANGED <<company, postings, events, past>>

\* The insert, or the exception of the unique index and a new search.
CreateInsert(r) ==
  /\ pc[r] = "create.insert"
  /\ LET c == call[r] IN
       \/ /\ ~SlugCollision(c.user, c.slug)
          /\ postings' = [p \in DOMAIN postings \union {r} |->
               IF p = r
                 THEN [company |-> c.user, slug |-> c.slug, status |-> c.status, deleted |-> FALSE,
                       publishedAt |-> IF c.status = "PUBLISHED" THEN r ELSE None]
                 ELSE postings[p]]
          /\ past' = [past EXCEPT ![r] = {c.status}]
          /\ Goto(r, "create.event")
       \/ /\ SlugCollision(c.user, c.slug)
          /\ IF RetriesSpent(c.attempt + 1)
               THEN Return(r, "threw")
               ELSE /\ call' = [call EXCEPT ![r].slug = 1, ![r].attempt = @ + 1]
                    /\ pc' = [pc EXCEPT ![r] = "create.slug"]
          /\ UNCHANGED <<postings, past>>
  /\ UNCHANGED <<company, events>>

\* Mutant: the id of the new row does not reach the second event.
CreateRecordWithoutId(r) ==
  /\ pc[r] = "create.event"
  /\ Record(r, "CREATED", r)
  /\ IF call[r].status = "PUBLISHED" THEN Goto(r, "event") ELSE Return(r, "ok")
  /\ UNCHANGED <<company, postings, past>>

\* JOB_POSTING_CREATED, and JOB_POSTING_PUBLISHED next if it was created public.
CreateRecord(r) ==
  /\ pc[r] = "create.event"
  /\ Record(r, "CREATED", r)
  /\ IF call[r].status = "PUBLISHED"
       THEN /\ pc' = [pc EXCEPT ![r] = "event"]
            /\ call' = [call EXCEPT ![r].posting = r]
       ELSE Return(r, "ok")
  /\ UNCHANGED <<company, postings, past>>

-----------------------------------------------------------------------------
(* loadOwnedPosting, gateOnPublish                                         *)

\* What follows loadOwnedPosting.
AfterLoad(c) ==
  IF c.op = "update" THEN IF c.status = "PUBLISHED" THEN "gate" ELSE "update.read"
  ELSE IF c.op = "transition" THEN "transition.read" ELSE "delete.write"

Load(r) ==
  /\ pc[r] = "load"
  /\ LET c == call[r] IN
       IF IF c.op = "adminDelete" THEN ~postings[c.posting].deleted ELSE Owns(c.user, c.posting)
         THEN Goto(r, AfterLoad(c))
         ELSE Return(r, "refused")
  /\ UNCHANGED <<company, postings, events, past>>

AfterGate(op) ==
  CASE op = "create" -> "create.slug"
    [] op = "update" -> "update.read"
    [] op = "transition" -> "transition.write"

Gate(r) ==
  /\ pc[r] = "gate"
  /\ IF GateOnPublish(call[r].user) THEN Goto(r, AfterGate(call[r].op)) ELSE Return(r, "refused")
  /\ UNCHANGED <<company, postings, events, past>>

\* The read of status and publishedAt that precedes a write.
Remember(r, where) ==
  LET p == call[r].posting IN
    /\ pc' = [pc EXCEPT ![r] = where]
    /\ call' = [call EXCEPT ![r].seen = postings[p].status, ![r].seenAt = postings[p].publishedAt]

-----------------------------------------------------------------------------
(* updateJobPosting                                                        *)

Update(r, c, p, status) == Resolve(r, "update", c, p, status, "load")

UpdateRead(r) ==
  /\ pc[r] = "update.read"
  /\ Remember(r, "update.write")
  /\ UNCHANGED <<company, postings, events, past>>

\* Mutant: publishedAt is not cleared when the posting returns to DRAFT.
StampOfEditKept(r, c) ==
  IF c.status = "PUBLISHED" /\ c.seen # "PUBLISHED" THEN r ELSE c.seenAt

\* publishedAt as the edit form leaves it.
StampOfEdit(r, c) ==
  IF c.status = "DRAFT" THEN None
  ELSE IF c.seen # "PUBLISHED" THEN r ELSE c.seenAt

\* Mutant: a publication is told only of a posting that has never been published.
UpdateWriteUntold(r) ==
  /\ pc[r] = "update.write"
  /\ LET c == call[r] IN
       /\ Write(c.posting, c.status, StampOfEdit(r, c))
       /\ IF c.status = "PUBLISHED" /\ c.seenAt = None THEN Goto(r, "event") ELSE Return(r, "ok")
  /\ UNCHANGED <<company, events>>

UpdateWrite(r) ==
  /\ pc[r] = "update.write"
  /\ LET c == call[r] IN
       /\ Write(c.posting, c.status, StampOfEdit(r, c))
       /\ IF c.status = "PUBLISHED" /\ c.seen # "PUBLISHED" THEN Goto(r, "event") ELSE Return(r, "ok")
  /\ UNCHANGED <<company, events>>

-----------------------------------------------------------------------------
(* transitionJobPostingStatus                                              *)

Transition(r, c, p, target) == Resolve(r, "transition", c, p, target, "load")

\* Mutant: any other status is a legal target.
IsAllowedAnywhere(from, to) == from # to

IsAllowed(from, to) == to \in ALLOWED_TRANSITIONS[from]

TransitionRead(r) ==
  /\ pc[r] = "transition.read"
  /\ LET c == call[r] IN
       IF IsAllowed(postings[c.posting].status, c.status)
         THEN Remember(r, IF c.status = "PUBLISHED" THEN "gate" ELSE "transition.write")
         ELSE Return(r, "refused")
  /\ UNCHANGED <<company, postings, events, past>>

\* publishedAt as a transition leaves it.
StampOfTransition(r, c) == IF c.status = "PUBLISHED" /\ c.seenAt = None THEN r ELSE c.seenAt

TransitionWrite(r) ==
  /\ pc[r] = "transition.write"
  /\ LET c == call[r] IN Write(c.posting, c.status, StampOfTransition(r, c))
  /\ Goto(r, "event")
  /\ UNCHANGED <<company, events>>

-----------------------------------------------------------------------------
(* softDeleteJobPosting, softDeleteJobPostingAsAdmin                       *)

Delete(r, c, p) == Resolve(r, "delete", c, p, None, "load")

\* ensureAdmin refuses, or lets the request go on to the row.
DeleteAsAdmin(r, p) ==
  /\ pc[r] = "idle"
  /\ \/ Return(r, "refused")
     \/ Enter(r, "load", Arguments("adminDelete", None, p, None))
  /\ UNCHANGED <<company, postings, events, past>>

DeleteWrite(r) ==
  /\ pc[r] = "delete.write"
  /\ postings' = [postings EXCEPT ![call[r].posting].deleted = TRUE]
  /\ Goto(r, "event")
  /\ UNCHANGED <<company, events, past>>

\* The last event of an update, a transition, a deletion or a public creation.
RecordLast(r) ==
  /\ pc[r] = "event"
  /\ LET c == call[r] IN Record(r, IF c.status = None THEN "SOFT_DELETED" ELSE c.status, c.posting)
  /\ Return(r, "ok")
  /\ UNCHANGED <<company, postings, past>>

-----------------------------------------------------------------------------
(* What the admin does to companies meanwhile                              *)

\* An approval ends the barring of the requests that are under way.
SetApprovalStatus(c, approved) ==
  /\ ~company[c].deleted
  /\ approved # company[c].approved
  /\ company' = [company EXCEPT ![c].approved = approved]
  /\ call' = [r \in Requests |->
       IF approved /\ call[r] # NoCall /\ call[r].user = c
         THEN [call[r] EXCEPT !.barred = FALSE]
         ELSE call[r]]
  /\ UNCHANGED <<postings, events, past, pc>>

SoftDeleteCompany(c) ==
  /\ ~company[c].deleted
  /\ company' = [company EXCEPT ![c].deleted = TRUE]
  /\ UNCHANGED <<postings, events, past, pc, call>>

-----------------------------------------------------------------------------

NewPosting(p) ==
  [company |-> OwnerOf[p], slug |-> 1, status |-> "PAUSED", publishedAt |-> p, deleted |-> FALSE]

Init ==
  /\ company \in [Companies -> [approved: BOOLEAN, deleted: {FALSE}]]
  /\ postings = [p \in Existing |-> NewPosting(p)]
  /\ events = {}
  /\ past = [p \in Ids |-> IF p \in Existing THEN {"PUBLISHED", "PAUSED"} ELSE {}]
  /\ pc = [r \in Requests |-> "idle"]
  /\ call = [r \in Requests |-> NoCall]

Arrive(r) ==
  \/ \E c \in Companies :
       \/ \E status \in JOB_POSTING_USER_STATUSES : Create(r, c, status)
       \/ \E p \in DOMAIN postings :
            \/ \E status \in JOB_POSTING_USER_STATUSES : Update(r, c, p, status)
            \/ \E target \in TransitionTarget : Transition(r, c, p, target)
            \/ Delete(r, c, p)
  \/ \E p \in DOMAIN postings : DeleteAsAdmin(r, p)

Advance(r) ==
  \/ CreateSearchSlug(r) \/ CreateInsert(r) \/ CreateRecord(r)
  \/ Load(r) \/ Gate(r)
  \/ UpdateRead(r) \/ UpdateWrite(r)
  \/ TransitionRead(r) \/ TransitionWrite(r)
  \/ DeleteWrite(r) \/ RecordLast(r)

OtherServices ==
  \E c \in Companies :
    \/ \E approved \in BOOLEAN : SetApprovalStatus(c, approved)
    \/ SoftDeleteCompany(c)

Next == (\E r \in Requests : Arrive(r) \/ Advance(r)) \/ OtherServices

Spec == Init /\ [][Next]_vars

-----------------------------------------------------------------------------
(* Properties                                                              *)

\* Two live postings of one company never share a slug, however the searches of
\* ensureUniqueJobPostingSlug interleave: the public URL names one posting.
SlugsUnique ==
  \A p, q \in DOMAIN postings :
    /\ p # q /\ ~postings[p].deleted /\ ~postings[q].deleted
    /\ postings[p].company = postings[q].company
    => postings[p].slug # postings[q].slug

\* A posting has a publication date exactly when it is not a draft, although
\* edits and transitions write a status and a date they read earlier
\* (job-posting-service.ts:282-295 and 390-401): the public list sorts by it.
StampTellsDraft ==
  \A p \in DOMAIN postings : (postings[p].status = "DRAFT") <=> (postings[p].publishedAt = None)

\* Whatever requests race, no posting is paused or closed without having been
\* published, or archived without having been closed (ALLOWED_TRANSITIONS).
LifecycleInOrder ==
  \A p \in DOMAIN postings :
    /\ past[p] \intersect {"PAUSED", "CLOSED"} # {} => "PUBLISHED" \in past[p]
    /\ "ARCHIVED" \in past[p] => "CLOSED" \in past[p]

\* A create fails with an exception only after MAX_RETRIES other postings took
\* the slugs it had found free, or when every candidate slug has been used
\* (job-posting-service.ts:65-77, 247-257): two clicks never fail for the name.
GivesUpOnlyWhenCrowded ==
  \A r \in Requests : pc[r] = "threw" =>
    \/ Cardinality(DOMAIN postings \intersect Requests) >= MaxRetries
    \/ Cardinality(DOMAIN postings) >= MaxCandidates

\* The posting p is created, or its status, date or deletion written, by request r.
WrittenBy(p, r) ==
  /\ pc[r] \in {"create.insert", "update.write", "transition.write", "delete.write"}
  /\ pc'[r] # pc[r]
  /\ p = IF call[r].op = "create" THEN r ELSE call[r].posting

\* A posting is written only by a request of its own company or of an admin, and
\* never by one that arrived after the posting had been soft-deleted.
WritesAreOwned ==
  [][\A p \in DOMAIN postings' :
       p \notin DOMAIN postings \/ postings'[p] # postings[p] =>
         \E r \in Requests :
           /\ WrittenBy(p, r)
           /\ call[r].op # "adminDelete" => call[r].user = postings'[p].company
           /\ ~call[r].late]_vars

\* A posting becomes PUBLISHED only by a request during which its company was
\* approved at some moment: a company suspended all the while publishes nothing
\* (the gate is read several statements before the write).
PublishedUnderApproval ==
  [][\A p \in DOMAIN postings' :
       /\ postings'[p].status = "PUBLISHED"
       /\ p \in DOMAIN postings => postings[p].status # "PUBLISHED"
       => \E r \in Requests : WrittenBy(p, r) /\ ~call[r].barred]_vars

\* What has become of posting p that the audit log should tell.
Due(p) ==
  (IF p \in Requests THEN {"CREATED"} \union (past[p] \ {"DRAFT"}) ELSE past[p] \intersect {"CLOSED", "ARCHIVED"})
  \union (IF postings[p].deleted THEN {"SOFT_DELETED"} ELSE {})

Told(p, t) == \E e \in events : e.posting = p /\ e.type = t

\* Request r has written, and has its event of type t on p still to record.
Telling(r, p, t) ==
  \/ /\ pc[r] = "event"
     /\ call[r].posting = p
     /\ t = IF call[r].status = None THEN "SOFT_DELETED" ELSE call[r].status
  \/ pc[r] = "create.event" /\ p = r /\ t \in {"CREATED", call[r].status}

\* The publication that request `at` stamped as the date of p has its event of that request.
DateTold(p, at) ==
  at \in Requests =>
    [type |-> "PUBLISHED", posting |-> p, by |-> at] \in events \/ Telling(at, p, "PUBLISHED")

\* What an event tells of has happened.
Happened(e) ==
  /\ e.posting \in DOMAIN postings
  /\ CASE e.type = "CREATED" -> e.posting = e.by
       [] e.type = "SOFT_DELETED" -> postings[e.posting].deleted
       [] OTHER -> e.type \in past[e.posting]

\* Each event is a statement of its own, after the write (job-posting-service.ts:238-255,
\* 321, 409, 432). One is missing only as long as the request that wrote is at that statement, or for
\* good if it died there: every creation, deletion and status but DRAFT has its event. An
\* edit that had read PUBLISHED records none, so that a pause in between is undone untold
\* (line 320); yet no posting ever shows a publication date without the event of the request
\* that stamped it. And no event tells of what did not happen.
AuditComplete ==
  /\ \A p \in DOMAIN postings :
       /\ \A t \in Due(p) : Told(p, t) \/ \E r \in Requests : Telling(r, p, t)
       /\ DateTold(p, postings[p].publishedAt)
  /\ \A e \in events : Happened(e)

\* "the original publish moment is the truth we want to preserve"
\* (job-posting-service.ts:391-392); "stamp on first publish" (line 282): a date
\* is only ever cleared by a return to DRAFT, never replaced by another.
PublishedAtIsFirst ==
  [][\A p \in DOMAIN postings :
       postings[p].publishedAt # None =>
         postings'[p].publishedAt \in {postings[p].publishedAt, None}]_vars
=============================================================================
