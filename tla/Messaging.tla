------------------------------ MODULE Messaging ------------------------------
(***************************************************************************)
(* src/server/services/message-service.ts: conversations between the       *)
(* company and the student of an application.  Every awaited statement or  *)
(* transaction is one step of a request; requests interleave freely, with  *)
(* each other and with the handlers that move the application or           *)
(* soft-delete its parents.                                                *)
(*                                                                         *)
(* Requests are one-shot and create at most one MessageThread and one      *)
(* Message, whose fresh ids (cuid) are therefore the creating request.     *)
(***************************************************************************)
EXTENDS Naturals, FiniteSets

CONSTANTS
  Apps,         \* Application ids
  Students, Companies,
  StudentOf,    \* the student of an application
  CompanyOf,    \* the company whose posting it is for
  Requests,     \* every message request the server will ever receive
  None

ASSUME StudentOfAssumption == StudentOf \in [Apps -> Students]
ASSUME CompanyOfAssumption == CompanyOf \in [Apps -> Companies]

VARIABLES
  closed,          \* closed[a]: the application is REJECTED or WITHDRAWN
  postingDeleted,  \* per application: its JobPosting.deletedAt is set
  deleted,         \* the soft-deleted students and companies
  threads,         \* the MessageThread table, a function on its ids
  messages,        \* the Message table, a function on its ids
  createdLog,      \* entity ids of the MESSAGE_THREAD_CREATED events, one entry each
  viewed,          \* history: <<message, side, "shown">> once a load of that side selected it,
                   \* <<message, side, "missed">> if it was sent between such a load and its update
  arrival,         \* history: arrival[r]: the applications that were shut, or had a
                   \* thread, when r arrived (shut ones are struck out on reopening)
  mails,           \* message ids whose notification the provider accepted
  pc, call         \* per request: its next statement; its arguments and reads

records == <<closed, postingDeleted, deleted>>
tables  == <<threads, messages, createdLog>>
vars    == <<closed, postingDeleted, deleted, threads, messages, createdLog, viewed, arrival, mails, pc, call>>

Sides == {"STUDENT", "COMPANY"}

Thread == [app: Apps, initiatedBy: Companies]
Message == [thread: Requests, sender: Students \union Companies, side: Sides, read: BOOLEAN]

Call == [user: Students \union Companies, app: Apps \union {None}, thread: Requests \union {None}]

SendPC == {"start.application", "start.existing", "start.append", "start.create",
           "student.thread", "student.send", "company.thread", "company.send"}
ViewPC == {"student.load", "student.markRead", "company.load", "company.markRead"}
Results == {"ok", "refused"}
PCs == {"idle", "notify"} \union SendPC \union ViewPC \union Results

TypeOK ==
  /\ closed \in [Apps -> BOOLEAN]
  /\ postingDeleted \in [Apps -> BOOLEAN]
  /\ deleted \subseteq Students \union Companies
  /\ DOMAIN threads \subseteq Requests
  /\ threads \in [DOMAIN threads -> Thread]
  /\ DOMAIN messages \subseteq Requests
  /\ messages \in [DOMAIN messages -> Message]
  /\ createdLog \subseteq Requests
  /\ viewed \subseteq Requests \X Sides \X {"shown", "missed"}
  /\ arrival \in [Requests -> [shut: SUBSET Apps, threaded: SUBSET Apps]]
  /\ mails \subseteq Requests
  /\ pc \in [Requests -> PCs]
  /\ DOMAIN call = Requests
  /\ \A r \in Requests : pc[r] \in SendPC \union ViewPC \union {"notify"} => call[r] \in Call

-----------------------------------------------------------------------------
(* Helpers                                                                 *)

\* APPLICATION_PARENTS_LIVE: no parent of the application is soft-deleted.
ParentsLive(a) ==
  /\ ~postingDeleted[a]
  /\ CompanyOf[a] \notin deleted
  /\ StudentOf[a] \notin deleted

\* CLOSED_APPLICATION_STATUSES, or a parent is gone: no message may be sent.
Shut(a) == closed[a] \/ ~ParentsLive(a)

\* Mutants: the posting's company is not compared; a stranger's request passes.
CompanyMaySeeAny(c, a) == ~postingDeleted[a] /\ StudentOf[a] \notin deleted

\* The parents of the application are not looked at.
StudentMaySeeDead(s, a) == StudentOf[a] = s

\* What every handler asks of a company, of a student, about an application.
CompanyMaySee(c, a) == CompanyOf[a] = c /\ ~postingDeleted[a] /\ StudentOf[a] \notin deleted

StudentMaySee(s, a) == StudentOf[a] = s /\ ParentsLive(a)

CompanyMayWrite(c, a) == CompanyMaySee(c, a) /\ ~closed[a]

\* A student answers in a thread that the company opened.
StudentMayReply(s, t) == StudentMaySee(s, t.app) /\ t.initiatedBy # s /\ ~closed[t.app]

ThreadsOf(a) == {t \in DOMAIN threads : threads[t].app = a}

Goto(r, where) == pc' = [pc EXCEPT ![r] = where]

Return(r, result) ==
  /\ pc' = [pc EXCEPT ![r] = result]
  /\ call' = [call EXCEPT ![r] = None]

\* resolveStudent / resolveCompany: the first statement of every handler.
Resolve(r, user, where, a, t) ==
  /\ pc[r] = "idle"
  /\ \/ /\ user \notin deleted
        /\ Goto(r, where)
        /\ call' = [call EXCEPT ![r] = [user |-> user, app |-> a, thread |-> t]]
     \/ user \in deleted /\ Return(r, "refused")
  /\ arrival' = [arrival EXCEPT ![r] =
       [shut |-> {b \in Apps : Shut(b)}, threaded |-> {b \in Apps : ThreadsOf(b) # {}}]]
  /\ UNCHANGED <<records, tables, viewed, mails>>

\* A read that decides whether the handler goes on.
Gate(r, granted, where) ==
  /\ \/ granted /\ Goto(r, where) /\ UNCHANGED call
     \/ ~granted /\ Return(r, "refused")
  /\ UNCHANGED <<records, tables, viewed, arrival, mails>>

MarkReadPC == [STUDENT |-> "student.markRead", COMPANY |-> "company.markRead"]

\* The sides with a request that has loaded thread t and not marked it yet.
Opening(t) == {side \in Sides : \E v \in Requests : pc[v] = MarkReadPC[side] /\ call[v].thread = t}

\* Mutant: the sender's role in the place of the sender.
AddMessageByRole(r, t, side) ==
  /\ messages' = [m \in DOMAIN messages \union {r} |->
       IF m = r THEN [thread |-> t, sender |-> side, side |-> side, read |-> FALSE]
       ELSE messages[m]]
  /\ viewed' = viewed

\* message.create, with thread.updatedAt in the same transaction.
AddMessage(r, t, side) ==
  /\ messages' = [m \in DOMAIN messages \union {r} |->
       IF m = r THEN [thread |-> t, sender |-> call[r].user, side |-> side, read |-> FALSE]
       ELSE messages[m]]
  /\ viewed' = viewed \union {<<r, reader, "missed">> : reader \in Opening(t)}

-----------------------------------------------------------------------------
(* startThreadAsCompany                                                    *)

\* clean(body) is empty or longer than MAX_BODY_LEN, in any of the handlers.
RefuseBody(r) ==
  /\ pc[r] = "idle"
  /\ Return(r, "refused")
  /\ UNCHANGED <<records, tables, viewed, arrival, mails>>

StartThread(r, c, a) == Resolve(r, c, "start.application", a, None)

StartReadApplication(r) ==
  /\ pc[r] = "start.application"
  /\ LET a == call[r].app IN
     Gate(r, CompanyMayWrite(call[r].user, a), "start.existing")

\* Mutant: the existing thread is not looked for.
StartReadNothing(r) ==
  /\ pc[r] = "start.existing"
  /\ Goto(r, "start.create")
  /\ UNCHANGED <<records, tables, viewed, arrival, mails, call>>

\* findFirst without an order: any thread of the application.
StartReadExisting(r) ==
  /\ pc[r] = "start.existing"
  /\ \/ \E t \in ThreadsOf(call[r].app) :
          /\ call' = [call EXCEPT ![r].thread = t]
          /\ Goto(r, "start.append")
     \/ ThreadsOf(call[r].app) = {} /\ Goto(r, "start.create") /\ UNCHANGED call
  /\ UNCHANGED <<records, tables, viewed, arrival, mails>>

StartAppend(r) ==
  /\ pc[r] = "start.append"
  /\ AddMessage(r, call[r].thread, "COMPANY")
  /\ Goto(r, "notify")
  /\ UNCHANGED <<records, threads, createdLog, arrival, mails, call>>

\* The interactive transaction: thread, first message and event, or nothing.
\* No unique index covers MessageThread.applicationId.
StartCreate(r) ==
  /\ pc[r] = "start.create"
  /\ threads' = [t \in DOMAIN threads \union {r} |->
       IF t = r THEN [app |-> call[r].app, initiatedBy |-> call[r].user] ELSE threads[t]]
  /\ AddMessage(r, r, "COMPANY")
  /\ createdLog' = createdLog \union {r}
  /\ Goto(r, "notify")
  /\ UNCHANGED <<records, arrival, mails, call>>

-----------------------------------------------------------------------------
(* sendMessageAsStudent, sendMessageAsCompany                              *)

SendAsStudent(r, s, t) == Resolve(r, s, "student.thread", None, t)

StudentReadThread(r) ==
  /\ pc[r] = "student.thread"
  /\ LET t == threads[call[r].thread] IN
     Gate(r, StudentMayReply(call[r].user, t), "student.send")

StudentSend(r) ==
  /\ pc[r] = "student.send"
  /\ AddMessage(r, call[r].thread, "STUDENT")
  /\ Goto(r, "notify")
  /\ UNCHANGED <<records, threads, createdLog, arrival, mails, call>>

SendAsCompany(r, c, t) == Resolve(r, c, "company.thread", None, t)

CompanyReadThread(r) ==
  /\ pc[r] = "company.thread"
  /\ LET a == threads[call[r].thread].app IN
     Gate(r, CompanyMayWrite(call[r].user, a), "company.send")

CompanySend(r) ==
  /\ pc[r] = "company.send"
  /\ AddMessage(r, call[r].thread, "COMPANY")
  /\ Goto(r, "notify")
  /\ UNCHANGED <<records, threads, createdLog, arrival, mails, call>>

\* notifyNewMessage: a student who is gone gets no mail; a company may have a
\* contact address that outlives its user.  The provider may fail.
Notify(r) ==
  /\ pc[r] = "notify"
  /\ LET m == messages[r]
         a == threads[m.thread].app
     IN mails' \in {mails} \union
          (IF m.side = "COMPANY" /\ StudentOf[a] \in deleted THEN {} ELSE {mails \union {r}})
  /\ Return(r, "ok")
  /\ UNCHANGED <<records, tables, viewed, arrival>>

-----------------------------------------------------------------------------
(* getThreadForStudent, getThreadForCompany                                *)

\* findFirst with the messages: what the page will show.
LoadThread(r, granted, side) ==
  /\ \/ /\ granted
        /\ Goto(r, MarkReadPC[side])
        /\ viewed' = viewed \union
             {<<m, side, "shown">> : m \in {m \in DOMAIN messages : messages[m].thread = call[r].thread}}
        /\ UNCHANGED call
     \/ ~granted /\ Return(r, "refused") /\ UNCHANGED viewed
  /\ UNCHANGED <<records, tables, arrival, mails>>

ViewAsStudent(r, s, t) == Resolve(r, s, "student.load", None, t)

StudentLoad(r) ==
  /\ pc[r] = "student.load"
  /\ LET a == threads[call[r].thread].app IN
     LoadThread(r, StudentMaySee(call[r].user, a), "STUDENT")

ViewAsCompany(r, c, t) == Resolve(r, c, "company.load", None, t)

CompanyLoad(r) ==
  /\ pc[r] = "company.load"
  /\ LET a == threads[call[r].thread].app IN
     LoadThread(r, CompanyMaySee(call[r].user, a), "COMPANY")

\* Mutant: the messages of the reader's own side are marked as well.
MarkReadAll(r, side) ==
  /\ messages' = [m \in DOMAIN messages |->
       IF messages[m].thread = call[r].thread THEN [messages[m] EXCEPT !.read = TRUE]
       ELSE messages[m]]
  /\ Return(r, "ok")
  /\ UNCHANGED <<records, threads, createdLog, viewed, arrival, mails>>

\* updateMany: every unread message of the other side, the ones that arrived
\* after the load included.
MarkRead(r, side) ==
  /\ messages' = [m \in DOMAIN messages |->
       IF messages[m].thread = call[r].thread /\ messages[m].side # side
       THEN [messages[m] EXCEPT !.read = TRUE]
       ELSE messages[m]]
  /\ Return(r, "ok")
  /\ UNCHANGED <<records, threads, createdLog, viewed, arrival, mails>>

StudentMarkRead(r) == pc[r] = "student.markRead" /\ MarkRead(r, "STUDENT")
CompanyMarkRead(r) == pc[r] = "company.markRead" /\ MarkRead(r, "COMPANY")

-----------------------------------------------------------------------------
(* What the pages show: each query states the rule about the parents       *)
(* again, and none of them changes a row. Lists come without their order.  *)

\* readAt is null, and the sender is not of the viewer's role.
UnreadBy(side, t) ==
  {m \in DOMAIN messages : messages[m].thread = t /\ ~messages[m].read /\ messages[m].side # side}

Item(t, side) == [thread |-> t, unreadForViewer |-> Cardinality(UnreadBy(side, t))]

listThreadsForStudent(s) ==
  {Item(t, "STUDENT") : t \in
     {t \in DOMAIN threads : /\ s \notin deleted /\ StudentOf[threads[t].app] = s
                            /\ ParentsLive(threads[t].app)}}

listThreadsForCompany(c) ==
  {Item(t, "COMPANY") : t \in
     {t \in DOMAIN threads :
        LET a == threads[t].app IN
          /\ c \notin deleted /\ CompanyOf[a] = c
          /\ ~postingDeleted[a] /\ StudentOf[a] \notin deleted}}

\* The badge of the top bar, one count over all threads.
countUnreadForStudent(s) ==
  IF s \in deleted THEN 0
  ELSE Cardinality({m \in DOMAIN messages :
         LET a == threads[messages[m].thread].app IN
           /\ ~messages[m].read /\ messages[m].side # "STUDENT"
           /\ StudentOf[a] = s /\ ParentsLive(a)})

\* Mutant: the count forgets jobPosting.deletedAt.
CountUnreadOfDeletedToo(c) ==
  IF c \in deleted THEN 0
  ELSE Cardinality({m \in DOMAIN messages :
         LET a == threads[messages[m].thread].app IN
           /\ ~messages[m].read /\ messages[m].side # "COMPANY"
           /\ CompanyOf[a] = c /\ StudentOf[a] \notin deleted})

countUnreadForCompany(c) ==
  IF c \in deleted THEN 0
  ELSE Cardinality({m \in DOMAIN messages :
         LET a == threads[messages[m].thread].app IN
           /\ ~messages[m].read /\ messages[m].side # "COMPANY"
           /\ CompanyOf[a] = c /\ ~postingDeleted[a] /\ StudentOf[a] \notin deleted})

\* canReply of the thread that is being shown; closed threads stay readable.
CanReplyAsStudent(s, t) == ~closed[threads[t].app] /\ threads[t].initiatedBy # s
CanReplyAsCompany(t) == ~closed[threads[t].app]

\* The applicants of a company, each row with a button that leads to its message page.
listApplicationsForCompany(c) ==
  {a \in Apps : /\ c \notin deleted /\ CompanyOf[a] = c
               /\ ~postingDeleted[a] /\ StudentOf[a] \notin deleted}

\* findFirst without an order: one of these.
getThreadIdForApplicationAsCompany(c, a) ==
  {t \in ThreadsOf(a) : /\ c \notin deleted /\ CompanyOf[a] = c
                        /\ ~postingDeleted[a] /\ StudentOf[a] \notin deleted}

\* What the page shows: a redirect to a thread, 404, that the chat is closed, or a form.
StartThreadPage(c, a) ==
  IF getThreadIdForApplicationAsCompany(c, a) # {} THEN "thread"
  ELSE IF c \in deleted \/ CompanyOf[a] # c THEN "notFound"
  ELSE IF closed[a] THEN "closed" ELSE "composer"

-----------------------------------------------------------------------------
(* Other services: application-service moves the application, in both      *)
(* directions (REJECTED can be reconsidered); admins soft-delete.          *)

SetClosed(a, value) ==
  /\ closed' = [closed EXCEPT ![a] = value]
  /\ arrival' = IF value THEN arrival
                ELSE [r \in Requests |-> [arrival[r] EXCEPT !.shut = @ \ {a}]]
  /\ UNCHANGED <<postingDeleted, deleted, tables, viewed, mails, pc, call>>

SoftDeletePosting(a) ==
  /\ postingDeleted' = [postingDeleted EXCEPT ![a] = TRUE]
  /\ UNCHANGED <<closed, deleted, tables, viewed, arrival, mails, pc, call>>

SoftDeleteUser(u) ==
  /\ deleted' = deleted \union {u}
  /\ UNCHANGED <<closed, postingDeleted, tables, viewed, arrival, mails, pc, call>>

-----------------------------------------------------------------------------
(* Specification                                                           *)

Init ==
  /\ closed = [a \in Apps |-> FALSE]
  /\ postingDeleted = [a \in Apps |-> FALSE]
  /\ deleted = {}
  /\ threads = [t \in {} |-> None]
  /\ messages = [m \in {} |-> None]
  /\ createdLog = {}
  /\ viewed = {}
  /\ arrival = [r \in Requests |-> [shut |-> {}, threaded |-> {}]]
  /\ mails = {}
  /\ pc = [r \in Requests |-> "idle"]
  /\ call = [r \in Requests |-> None]

Arrive(r) ==
  \/ RefuseBody(r)
  \/ \E c \in Companies, a \in Apps : StartThread(r, c, a)
  \/ \E s \in Students, t \in DOMAIN threads : SendAsStudent(r, s, t) \/ ViewAsStudent(r, s, t)
  \/ \E c \in Companies, t \in DOMAIN threads : SendAsCompany(r, c, t) \/ ViewAsCompany(r, c, t)

Advance(r) ==
  \/ StartReadApplication(r) \/ StartReadExisting(r) \/ StartAppend(r) \/ StartCreate(r)
  \/ StudentReadThread(r) \/ StudentSend(r)
  \/ CompanyReadThread(r) \/ CompanySend(r)
  \/ Notify(r)
  \/ StudentLoad(r) \/ StudentMarkRead(r)
  \/ CompanyLoad(r) \/ CompanyMarkRead(r)

OtherServices ==
  \/ \E a \in Apps :
       \/ \E value \in BOOLEAN : SetClosed(a, value)
       \/ SoftDeletePosting(a)
  \/ \E u \in Students \union Companies : SoftDeleteUser(u)

Next == (\E r \in Requests : Arrive(r) \/ Advance(r)) \/ OtherServices

Spec == Init /\ [][Next]_vars

-----------------------------------------------------------------------------
(* Properties                                                              *)

\* The sum of the counters of a list, one pair for each message counted.
Total(list) == Cardinality(UNION {{i} \X (1..i.unreadForViewer) : i \in list})

\* The parents' rule, stated seven times (message-service.ts:148-161, "keep these predicates
\* aligned"), comes out the same: the badge is the sum of the listed threads' counters, a
\* listed thread opens and has an opening message of its company to show, a reply is offered
\* when it would pass, and the Message button of an applicant leads to a listed thread, or to
\* a form the action accepts ("so we never render a composer that the action will reject",
\* app/(company)/company/applications/[applicationId]/message/page.tsx:56-57).
InboxAgrees ==
  /\ \A s \in Students :
       LET list == listThreadsForStudent(s) IN
         /\ countUnreadForStudent(s) = Total(list)
         /\ \A t \in DOMAIN threads : s \notin deleted =>
              /\ StudentMaySee(s, threads[t].app) <=> \E i \in list : i.thread = t
              /\ StudentMaySee(s, threads[t].app) =>
                   (CanReplyAsStudent(s, t) <=> StudentMayReply(s, threads[t]))
  /\ \A c \in Companies :
       LET list == listThreadsForCompany(c) IN
         /\ countUnreadForCompany(c) = Total(list)
         /\ \A i \in list :
              /\ messages[i.thread].side = "COMPANY" /\ messages[i.thread].thread = i.thread
              /\ threads[i.thread].app \in listApplicationsForCompany(c)
              /\ CanReplyAsCompany(i.thread) <=> CompanyMayWrite(c, threads[i.thread].app)
         /\ \A a \in listApplicationsForCompany(c) :
              /\ StartThreadPage(c, a) # "notFound"
              /\ StartThreadPage(c, a) = "composer" => CompanyMayWrite(c, a)
              /\ getThreadIdForApplicationAsCompany(c, a) \subseteq {i.thread : i \in list}

\* A message counts as read only if a page load of the other party selected it, or if it
\* was sent while such a load was on its way to the update, which marks what it finds
\* (message-service.ts:404-452, 493-533): one that arrives at any other moment is never taken
\* off the badge unseen, and no load by its own side does that.
ReadMeansShownToOther ==
  \A m \in DOMAIN messages : messages[m].read =>
    \E reader \in Sides \ {messages[m].side}, how \in {"shown", "missed"} : <<m, reader, how>> \in viewed

OnlyPartiesWrite ==
  \A m \in DOMAIN messages :
    LET a == threads[messages[m].thread].app IN
      messages[m].sender = IF messages[m].side = "STUDENT" THEN StudentOf[a] ELSE CompanyOf[a]

SilentOnceShut ==
  \A m \in DOMAIN messages : threads[messages[m].thread].app \notin arrival[m].shut

\* Only the two parties of the application ever write into its threads, and a send that
\* arrives when the application is closed, or when its posting or one of its parties is gone,
\* leaves no message in it unless the application is reopened; only sends that overlap the
\* closing can (message-service.ts:50-65, 149-161, 586-594, 686-700, 750-763).
SendsAdmitted == OnlyPartiesWrite /\ SilentOnceShut

\* A request that arrives when the application has a thread never opens another:
\* only requests that overlap the first one can (message-service.ts:599-604).
ReusedOnceThere ==
  \A t \in DOMAIN threads : threads[t].app \notin arrival[t].threaded

\* "Idempotent -- if a thread already exists for the application, the service
\* appends to it rather than creating a duplicate" (features/messages/actions.ts:43).
OneThreadPerApplication == \A a \in Apps : Cardinality(ThreadsOf(a)) <= 1
=============================================================================
