--------------------------- MODULE MessagingProofs ---------------------------
(***************************************************************************)
(* Proofs about Messaging, for any applications, students, companies and   *)
(* requests.  A send passes its gate some statements before its row is     *)
(* inserted, and the history variable arrival speaks of a moment earlier   *)
(* still, so the invariant says what each request remembers of both.       *)
(***************************************************************************)
EXTENDS Messaging, FiniteSetTheorems, TLAPS

StartPC  == {"start.application", "start.existing", "start.append", "start.create"}
ThreadPC == {"student.thread", "student.send", "company.thread", "company.send"} \union ViewPC

Busy(r) == pc[r] \notin Results \union {"idle"}

\* A request's arguments fit its next statement, and what it found still stands.
Found(r) ==
  /\ pc[r] \in StartPC => call[r].app \in Apps
  /\ pc[r] \in ThreadPC => call[r].thread \in DOMAIN threads
  /\ pc[r] = "start.append" => call[r].thread \in ThreadsOf(call[r].app)
  /\ pc[r] = "start.create" => call[r].app \notin arrival[r].threaded
  /\ pc[r] = "notify" => r \in DOMAIN messages

\* A request that has passed its gate may write on that side, and the
\* application was not shut when it arrived.
Admitted(r, side, a) ==
  /\ call[r].user = IF side = "STUDENT" THEN StudentOf[a] ELSE CompanyOf[a]
  /\ a \notin arrival[r].shut

MayWrite(r) ==
  /\ pc[r] \in StartPC \ {"start.application"} => Admitted(r, "COMPANY", call[r].app)
  /\ pc[r] = "student.send" => Admitted(r, "STUDENT", threads[call[r].thread].app)
  /\ pc[r] = "company.send" => Admitted(r, "COMPANY", threads[call[r].thread].app)

\* What was shut at the arrival and was not reopened is shut still, but not because the
\* caller itself is gone; and a thread that was there is there.
ArrivalHolds(r) ==
  /\ \A a \in arrival[r].threaded : ThreadsOf(a) # {}
  /\ Busy(r) => \A a \in arrival[r].shut :
       \/ closed[a] \/ postingDeleted[a] \/ StudentOf[a] \in deleted
       \/ CompanyOf[a] \in deleted /\ CompanyOf[a] # call[r].user

\* Ids are fresh until the request inserts its rows.
Fresh(r) == pc[r] \in {"idle"} \union SendPC => r \notin DOMAIN messages /\ r \notin DOMAIN threads

\* A page load that is about to mark its thread selected each message of it, or the message
\* was sent since and counts as missed.
Seen(r) ==
  \A side \in Sides : pc[r] = MarkReadPC[side] =>
    \A m \in DOMAIN messages : messages[m].thread = call[r].thread =>
      \E how \in {"shown", "missed"} : <<m, side, how>> \in viewed

Remembers(r) == Found(r) /\ MayWrite(r) /\ ArrivalHolds(r) /\ Fresh(r) /\ Seen(r)

RequestsRemember == \A r \in Requests : Remembers(r)

\* A message is in a thread, a thread has the message it was opened with, and
\* there are finitely many.
TablesFit ==
  /\ \A m \in DOMAIN messages : messages[m].thread \in DOMAIN threads
  /\ \A t \in DOMAIN threads :
       t \in DOMAIN messages /\ messages[t].thread = t /\ messages[t].side = "COMPANY"
  /\ IsFiniteSet(DOMAIN messages)

\* The inductive invariant.
IInv ==
  /\ TypeOK
  /\ ReadMeansShownToOther
  /\ SendsAdmitted
  /\ ReusedOnceThere
  /\ TablesFit
  /\ RequestsRemember

\* Every initial state satisfies the inductive invariant.
LEMMA InitIInv == Init => IInv
<1> SUFFICES ASSUME Init PROVE IInv
  OBVIOUS
<1> USE DEF Init
<1>1. TypeOK
  BY DEF TypeOK, PCs, SendPC, ViewPC
<1>2. ReadMeansShownToOther /\ SendsAdmitted /\ ReusedOnceThere
  BY DEF ReadMeansShownToOther, SendsAdmitted, OnlyPartiesWrite, SilentOnceShut, ReusedOnceThere
<1>3. TablesFit
  BY FS_EmptySet DEF TablesFit
<1>4. RequestsRemember
  BY DEF RequestsRemember, Remembers, Found, MayWrite, ArrivalHolds, Fresh, Seen, Busy, StartPC, ThreadPC, ViewPC
<1> QED
  BY <1>1, <1>2, <1>3, <1>4 DEF IInv

-----------------------------------------------------------------------------
(* Frames                                                                  *)

\* What TypeOK says of the locals of r.
CallOK(r) == pc[r] \in SendPC \union ViewPC \union {"notify"} => call[r] \in Call

\* Only the locals of request r move.
OnlyCallOf(r) ==
  /\ pc' \in [Requests -> PCs]
  /\ DOMAIN call' = Requests
  /\ \A q \in Requests \ {r} : pc'[q] = pc[q] /\ call'[q] = call[q]

\* No row of a thread or of a message is lost, and new ones have the id r; no view is
\* forgotten, and the pages that are being opened miss the new message.
OnlyRowsOf(r) ==
  /\ DOMAIN threads \subseteq DOMAIN threads' /\ DOMAIN threads' \subseteq DOMAIN threads \union {r}
  /\ \A t \in DOMAIN threads : threads'[t] = threads[t]
  /\ DOMAIN messages \subseteq DOMAIN messages' /\ DOMAIN messages' \subseteq DOMAIN messages \union {r}
  /\ \A m \in DOMAIN messages : messages'[m].thread = messages[m].thread
  /\ viewed \subseteq viewed'
  /\ r \in DOMAIN messages' \ DOMAIN messages =>
       \A side \in Opening(messages'[r].thread) : <<r, side, "missed">> \in viewed'

\* The typing of a request that moves its own locals.
LEMMA Locals ==
  ASSUME IInv, NEW r \in Requests, NEW where \in PCs
  PROVE  /\ pc' = [pc EXCEPT ![r] = where] => pc' \in [Requests -> PCs] /\ pc'[r] = where
                                              /\ \A q \in Requests \ {r} : pc'[q] = pc[q]
         /\ \A c : call' = [call EXCEPT ![r] = c] => DOMAIN call' = Requests /\ call'[r] = c
                                              /\ \A q \in Requests \ {r} : call'[q] = call[q]
<1>1. pc \in [Requests -> PCs] /\ DOMAIN call = Requests
  BY DEF IInv, TypeOK
<1> QED
  BY <1>1

\* A request that takes no step remembers what it did.
LEMMA OthersRemember ==
  ASSUME IInv, NEW r \in Requests, OnlyCallOf(r), OnlyRowsOf(r), UNCHANGED records,
         NEW q \in Requests \ {r}, arrival'[q] = arrival[q]
  PROVE  CallOK(q)' /\ Remembers(q)'
<1>1. pc'[q] = pc[q] /\ call'[q] = call[q]
  BY DEF OnlyCallOf
<1>2. CallOK(q)'
  BY <1>1 DEF IInv, TypeOK, CallOK
<1>3. Remembers(q)
  BY DEF IInv, RequestsRemember
<1>4. \A a : ThreadsOf(a) \subseteq ThreadsOf(a)'
  BY DEF ThreadsOf, OnlyRowsOf
<1>5. Found(q)'
  <2>1. Found(q)
    BY <1>3 DEF Remembers
  <2> QED
    BY <1>1, <1>4, <2>1 DEF Found, OnlyRowsOf
<1>6. MayWrite(q)'
  <2>1. MayWrite(q) /\ Found(q)
    BY <1>3 DEF Remembers
  <2>2. pc[q] \in {"student.send", "company.send"} => threads'[call[q].thread] = threads[call[q].thread]
    BY <2>1 DEF Found, ThreadPC, OnlyRowsOf
  <2> QED
    BY <1>1, <2>1, <2>2 DEF MayWrite, Admitted
<1>7. ArrivalHolds(q)'
  <2>1. ArrivalHolds(q)
    BY <1>3 DEF Remembers
  <2> QED
    BY <1>1, <1>4, <2>1 DEF ArrivalHolds, Busy, records
<1>8. Fresh(q)'
  BY <1>1, <1>3 DEF Remembers, Fresh, OnlyRowsOf
<1>9. Seen(q)'
  <2> SUFFICES ASSUME NEW side \in Sides, pc[q] = MarkReadPC[side], NEW m \in DOMAIN messages',
                      messages'[m].thread = call[q].thread
               PROVE  \E how \in {"shown", "missed"} : <<m, side, how>> \in viewed'
    BY <1>1 DEF Seen
  <2>1. CASE m \in DOMAIN messages
    <3>1. messages[m].thread = call[q].thread
      BY <2>1 DEF OnlyRowsOf
    <3> QED
      BY <1>3, <2>1, <3>1 DEF Remembers, Seen, OnlyRowsOf
  <2>2. CASE m \notin DOMAIN messages
    <3>1. m = r /\ side \in Opening(messages'[r].thread)
      BY <2>2 DEF OnlyRowsOf, Opening
    <3> QED
      BY <2>2, <3>1 DEF OnlyRowsOf
  <2> QED
    BY <2>1, <2>2
<1> QED
  BY <1>2, <1>5, <1>6, <1>7, <1>8, <1>9 DEF Remembers

\* The views of a step that records more of them, or none.
ViewsGrow == viewed \subseteq viewed' /\ viewed' \subseteq Requests \X Sides \X {"shown", "missed"}

\* A step that leaves threads and messages alone keeps what is said of them, if no view is
\* lost and the requests whose rows are there keep their arrival, or find it shorter.
LEMMA TablesKept ==
  ASSUME IInv, UNCHANGED <<threads, messages>>, viewed \subseteq viewed',
         \A m \in DOMAIN messages : /\ arrival'[m].shut \subseteq arrival[m].shut
                                    /\ arrival'[m].threaded = arrival[m].threaded
  PROVE  ReadMeansShownToOther' /\ SendsAdmitted' /\ ReusedOnceThere' /\ TablesFit'
<1>1. ReadMeansShownToOther'
  BY DEF IInv, ReadMeansShownToOther
<1>2. SendsAdmitted'
  BY DEF IInv, SendsAdmitted, OnlyPartiesWrite, SilentOnceShut
<1>3. ReusedOnceThere'
  BY DEF IInv, ReusedOnceThere, TablesFit
<1>4. TablesFit'
  BY DEF IInv, TablesFit
<1> QED
  BY <1>1, <1>2, <1>3, <1>4

\* A step of r that touches no table, no record and no arrival keeps the invariant if r
\* remembers the right things.
LEMMA ViewStep ==
  ASSUME IInv, NEW r \in Requests, OnlyCallOf(r), UNCHANGED <<records, tables, arrival>>, ViewsGrow,
         mails' \subseteq Requests, CallOK(r)', Remembers(r)'
  PROVE  IInv'
<1>1. OnlyRowsOf(r)
  BY DEF OnlyRowsOf, tables, ViewsGrow
<1>2. \A q \in Requests : CallOK(q)' /\ Remembers(q)'
  BY <1>1, OthersRemember
<1>3. TypeOK'
  BY <1>2 DEF IInv, TypeOK, OnlyCallOf, CallOK, ViewsGrow, records, tables
<1>4. ReadMeansShownToOther' /\ SendsAdmitted' /\ ReusedOnceThere' /\ TablesFit'
  BY TablesKept DEF tables, ViewsGrow
<1> QED
  BY <1>2, <1>3, <1>4 DEF IInv, RequestsRemember

LEMMA LocalStep ==
  ASSUME IInv, NEW r \in Requests, OnlyCallOf(r), UNCHANGED <<records, tables, viewed, arrival>>,
         mails' \subseteq Requests, CallOK(r)', Remembers(r)'
  PROVE  IInv'
<1>1. ViewsGrow
  BY DEF ViewsGrow, IInv, TypeOK
<1> QED
  BY <1>1, ViewStep

-----------------------------------------------------------------------------
(* Arrivals, gates and reads                                               *)

LEMMA ResolveKeeps ==
  ASSUME IInv, NEW r \in Requests, NEW user \in Students \union Companies,
         NEW where, NEW a, NEW t, Resolve(r, user, where, a, t),
         \/ where = "start.application" /\ a \in Apps /\ t = None
         \/ /\ where \in {"student.thread", "company.thread", "student.load", "company.load"}
            /\ a = None /\ t \in DOMAIN threads
  PROVE  IInv'
<1> DEFINE seen == [shut |-> {b \in Apps : Shut(b)}, threaded |-> {b \in Apps : ThreadsOf(b) # {}}]
           args == [user |-> user, app |-> a, thread |-> t]
<1>1. pc[r] = "idle" /\ arrival' = [arrival EXCEPT ![r] = seen] /\ UNCHANGED <<records, tables, viewed, mails>>
  BY DEF Resolve
<1>2. arrival \in [Requests -> [shut: SUBSET Apps, threaded: SUBSET Apps]] /\ DOMAIN threads \subseteq Requests
  BY DEF IInv, TypeOK
<1>3. arrival' \in [Requests -> [shut: SUBSET Apps, threaded: SUBSET Apps]]
      /\ arrival'[r] = seen /\ \A q \in Requests \ {r} : arrival'[q] = arrival[q]
  BY <1>1, <1>2
<1>4. r \notin DOMAIN messages /\ r \notin DOMAIN threads
  BY <1>1 DEF IInv, RequestsRemember, Remembers, Fresh
<1>5. OnlyCallOf(r) /\ OnlyRowsOf(r)
  <2>1. where \in PCs /\ "refused" \in PCs
    BY DEF PCs, SendPC, ViewPC, Results
  <2> QED
    BY <1>1, <2>1, Locals DEF Resolve, Goto, Return, OnlyCallOf, OnlyRowsOf, tables
<1>6. \/ user \notin deleted /\ pc'[r] = where /\ call'[r] = args
      \/ pc'[r] = "refused" /\ call'[r] = None
  <2>1. pc \in [Requests -> PCs] /\ DOMAIN call = Requests
    BY DEF IInv, TypeOK
  <2> QED
    BY <2>1 DEF Resolve, Goto, Return
<1>7. CallOK(r)'
  BY <1>2, <1>6 DEF CallOK, Call, SendPC, ViewPC
<1>8. Remembers(r)'
  <2>1. Found(r)' /\ MayWrite(r)' /\ Fresh(r)' /\ Seen(r)'
    BY <1>1, <1>4, <1>6 DEF Found, MayWrite, Fresh, Seen, MarkReadPC, Sides, StartPC, ThreadPC, ViewPC, SendPC, tables
  <2>2. \A b \in arrival'[r].threaded : ThreadsOf(b)' # {}
    BY <1>1, <1>3 DEF ThreadsOf, tables
  <2>3. ASSUME Busy(r)', NEW b \in arrival'[r].shut
        PROVE  \/ closed'[b] \/ postingDeleted'[b] \/ StudentOf[b] \in deleted'
               \/ CompanyOf[b] \in deleted' /\ CompanyOf[b] # call'[r].user
    <3>1. Shut(b) /\ user \notin deleted /\ call'[r].user = user
      BY <1>3, <1>6, <2>3 DEF Busy, Results
    <3> QED
      BY <1>1, <3>1 DEF Shut, ParentsLive, records
  <2> QED
    BY <2>1, <2>2, <2>3 DEF Remembers, ArrivalHolds
<1>9. \A q \in Requests : CallOK(q)' /\ Remembers(q)'
  BY <1>1, <1>3, <1>5, <1>7, <1>8, OthersRemember
<1>10. TypeOK'
  BY <1>1, <1>3, <1>5, <1>9 DEF IInv, TypeOK, OnlyCallOf, CallOK, records, tables
<1>11. ReadMeansShownToOther' /\ SendsAdmitted' /\ ReusedOnceThere' /\ TablesFit'
  <2>1. \A m \in DOMAIN messages : arrival'[m] = arrival[m]
    BY <1>3, <1>4 DEF IInv, TypeOK
  <2> QED
    BY <1>1, <2>1, TablesKept DEF tables
<1> QED
  BY <1>9, <1>10, <1>11 DEF IInv, RequestsRemember

\* What a gate leaves behind: the next statement, or a refusal.
LEMMA GateEffect ==
  ASSUME IInv, NEW r \in Requests, NEW granted, NEW where \in PCs, Gate(r, granted, where)
  PROVE  /\ OnlyCallOf(r) /\ UNCHANGED <<records, tables, viewed, arrival, mails>>
         /\ \/ granted /\ pc'[r] = where /\ call'[r] = call[r]
            \/ pc'[r] = "refused"
<1>1. "refused" \in PCs /\ pc \in [Requests -> PCs] /\ DOMAIN call = Requests
  BY DEF PCs, Results, IInv, TypeOK
<1> QED
  BY <1>1, Locals DEF Gate, Goto, Return, OnlyCallOf

\* A request that ends has nothing to remember.
LEMMA EndedRemembers ==
  ASSUME IInv, NEW r \in Requests, pc'[r] \in Results, UNCHANGED <<threads, arrival>>
  PROVE  CallOK(r)' /\ Remembers(r)'
<1>1. \A a \in arrival[r].threaded : ThreadsOf(a) # {}
  BY DEF IInv, RequestsRemember, Remembers, ArrivalHolds
<1>2. \A a \in arrival'[r].threaded : ThreadsOf(a)' # {}
  BY <1>1 DEF ThreadsOf
<1> QED
  BY <1>2 DEF CallOK, Remembers, Found, MayWrite, ArrivalHolds, Fresh, Seen, MarkReadPC, Sides, Busy,
     Results, StartPC, ThreadPC, SendPC, ViewPC

\* A request that goes on to another statement, and changes no table, still
\* remembers its arrival and has no rows yet.
LEMMA GoesOn ==
  ASSUME IInv, NEW r \in Requests, pc[r] \in SendPC \union ViewPC,
         pc'[r] \in SendPC \union ViewPC, pc[r] \in SendPC \/ pc'[r] \in ViewPC,
         call'[r].user = call[r].user, UNCHANGED <<records, tables, arrival>>
  PROVE  ArrivalHolds(r)' /\ Fresh(r)'
<1>1. ArrivalHolds(r) /\ Fresh(r) /\ Busy(r)
  BY DEF IInv, RequestsRemember, Remembers, Busy, Results, SendPC, ViewPC
<1>2. ArrivalHolds(r)'
  BY <1>1 DEF ArrivalHolds, ThreadsOf, records, tables
<1>3. Fresh(r)'
  BY <1>1 DEF Fresh, SendPC, ViewPC, tables
<1> QED
  BY <1>2, <1>3

LEMMA StartReadApplicationKeeps ==
  ASSUME IInv, NEW r \in Requests, StartReadApplication(r)
  PROVE  IInv'
<1> DEFINE a == call[r].app
<1>1. "start.existing" \in PCs /\ pc[r] = "start.application" /\ a \in Apps
  BY DEF PCs, SendPC, StartReadApplication, IInv, RequestsRemember, Remembers, Found, StartPC
<1>2. /\ OnlyCallOf(r) /\ UNCHANGED <<records, tables, viewed, arrival, mails>>
      /\ \/ CompanyMayWrite(call[r].user, a) /\ pc'[r] = "start.existing" /\ call'[r] = call[r]
         \/ pc'[r] = "refused"
  BY <1>1, GateEffect DEF StartReadApplication
<1>3. CallOK(r)' /\ Remembers(r)'
  <2>1. CASE pc'[r] = "refused"
    BY <1>2, <2>1, EndedRemembers DEF Results, tables
  <2>2. CASE CompanyMayWrite(call[r].user, a) /\ pc'[r] = "start.existing" /\ call'[r] = call[r]
    <3>1. ArrivalHolds(r) /\ Busy(r) /\ call[r] \in Call
      BY <1>1 DEF IInv, RequestsRemember, Remembers, TypeOK, Busy, Results, SendPC
    <3>2. Admitted(r, "COMPANY", a)
      BY <2>2, <3>1 DEF Admitted, ArrivalHolds, CompanyMayWrite, CompanyMaySee
    <3>3. Found(r)' /\ MayWrite(r)' /\ Seen(r)'
      BY <1>1, <1>2, <2>2, <3>2 DEF Found, MayWrite, Admitted, Seen, MarkReadPC, Sides, StartPC, ThreadPC, ViewPC
    <3>4. ArrivalHolds(r)' /\ Fresh(r)'
      BY <1>1, <1>2, <2>2, GoesOn DEF SendPC
    <3> QED
      BY <2>2, <3>1, <3>3, <3>4 DEF CallOK, Remembers
  <2> QED
    BY <1>2, <2>1, <2>2
<1>4. mails' \subseteq Requests
  BY <1>2 DEF IInv, TypeOK
<1> QED
  BY <1>2, <1>3, <1>4, LocalStep

LEMMA StartReadExistingKeeps ==
  ASSUME IInv, NEW r \in Requests, StartReadExisting(r)
  PROVE  IInv'
<1> DEFINE a == call[r].app
<1>1. pc[r] = "start.existing" /\ UNCHANGED <<records, tables, viewed, arrival, mails>>
  BY DEF StartReadExisting
<1>2. call[r] \in Call /\ a \in Apps /\ Admitted(r, "COMPANY", a) /\ ArrivalHolds(r)
  BY <1>1 DEF IInv, TypeOK, SendPC, RequestsRemember, Remembers, Found, MayWrite, StartPC
<1>3. pc \in [Requests -> PCs] /\ DOMAIN call = Requests /\ DOMAIN threads \subseteq Requests
      /\ {"start.append", "start.create"} \subseteq PCs
  BY DEF IInv, TypeOK, PCs, SendPC
<1>4. OnlyCallOf(r)
  BY <1>1, <1>3 DEF StartReadExisting, Goto, OnlyCallOf
<1>5. \/ pc'[r] = "start.append" /\ \E t \in ThreadsOf(a) : call'[r] = [call[r] EXCEPT !.thread = t]
      \/ pc'[r] = "start.create" /\ call'[r] = call[r] /\ ThreadsOf(a) = {}
  BY <1>1, <1>2, <1>3 DEF StartReadExisting, Goto, Call
<1>6. /\ call'[r] \in Call /\ call'[r].app = a /\ call'[r].user = call[r].user /\ CallOK(r)'
      /\ pc'[r] = "start.append" => call'[r].thread \in ThreadsOf(a)
  <2>1. \A t \in ThreadsOf(a) : t \in Requests
    BY <1>3 DEF ThreadsOf
  <2>2. \A t \in Requests : /\ [call[r] EXCEPT !.thread = t] \in Call /\ [call[r] EXCEPT !.thread = t].app = a
                             /\ [call[r] EXCEPT !.thread = t].user = call[r].user
                             /\ [call[r] EXCEPT !.thread = t].thread = t
    BY <1>2 DEF Call
  <2> QED
    BY <1>2, <1>5, <2>1, <2>2 DEF CallOK
<1>7. Found(r)'
  <2>1. pc'[r] = "start.append" => call'[r].thread \in ThreadsOf(a)'
    BY <1>1, <1>6 DEF ThreadsOf, tables
  <2>2. pc'[r] = "start.create" => a \notin arrival'[r].threaded
    BY <1>1, <1>2, <1>5 DEF ArrivalHolds
  <2> QED
    BY <1>2, <1>5, <1>6, <2>1, <2>2 DEF Found, StartPC, ThreadPC, ViewPC
<1>8. MayWrite(r)' /\ Seen(r)'
  BY <1>1, <1>2, <1>5, <1>6 DEF MayWrite, Admitted, Seen, MarkReadPC, Sides
<1>9. ArrivalHolds(r)' /\ Fresh(r)'
  BY <1>1, <1>5, <1>6, GoesOn DEF SendPC
<1>10. mails' \subseteq Requests
  BY <1>1 DEF IInv, TypeOK
<1> QED
  BY <1>1, <1>4, <1>6, <1>7, <1>8, <1>9, <1>10, LocalStep DEF Remembers

\* The gates of the two handlers that send into a thread.
LEMMA ReadThreadKeeps ==
  ASSUME IInv, NEW r \in Requests, StudentReadThread(r) \/ CompanyReadThread(r)
  PROVE  IInv'
<1> DEFINE a == threads[call[r].thread].app
           side == IF pc[r] = "student.thread" THEN "STUDENT" ELSE "COMPANY"
           next == IF pc[r] = "student.thread" THEN "student.send" ELSE "company.send"
<1>1. pc[r] \in {"student.thread", "company.thread"} /\ next \in PCs
  BY DEF StudentReadThread, CompanyReadThread, PCs, SendPC
<1>2. call[r] \in Call /\ call[r].thread \in DOMAIN threads /\ ArrivalHolds(r) /\ Busy(r)
  BY <1>1 DEF IInv, TypeOK, SendPC, RequestsRemember, Remembers, Found, ThreadPC, Busy, Results
<1>3. PICK granted :
         /\ Gate(r, granted, next)
         /\ granted => /\ call[r].user = IF side = "STUDENT" THEN StudentOf[a] ELSE CompanyOf[a]
                       /\ ~closed[a] /\ ~postingDeleted[a] /\ StudentOf[a] \notin deleted
                       /\ CompanyOf[a] \in deleted => CompanyOf[a] = call[r].user
  <2>1. CASE StudentReadThread(r)
    BY <2>1 DEF StudentReadThread, StudentMayReply, StudentMaySee, ParentsLive
  <2>2. CASE CompanyReadThread(r)
    BY <2>2 DEF CompanyReadThread, CompanyMayWrite, CompanyMaySee
  <2> QED
    BY <2>1, <2>2
<1>4. /\ OnlyCallOf(r) /\ UNCHANGED <<records, tables, viewed, arrival, mails>>
      /\ \/ granted /\ pc'[r] = next /\ call'[r] = call[r]
         \/ pc'[r] = "refused"
  BY <1>1, <1>3, GateEffect
<1>5. CallOK(r)' /\ Remembers(r)'
  <2>1. CASE pc'[r] = "refused"
    BY <1>4, <2>1, EndedRemembers DEF Results, tables
  <2>2. CASE granted /\ pc'[r] = next /\ call'[r] = call[r]
    <3>1. Admitted(r, side, a)
      BY <1>2, <1>3, <2>2 DEF Admitted, ArrivalHolds
    <3>2. threads'[call'[r].thread].app = a
      BY <1>4, <2>2 DEF tables
    <3>3. Found(r)'
      BY <1>1, <1>2, <1>4, <2>2 DEF Found, StartPC, ThreadPC, tables
    <3>4. MayWrite(r)'
      BY <1>1, <1>4, <2>2, <3>1, <3>2 DEF MayWrite, Admitted, StartPC
    <3>5. ArrivalHolds(r)' /\ Fresh(r)'
      BY <1>1, <1>4, <2>2, GoesOn DEF SendPC
    <3>6. Seen(r)'
      BY <1>1, <2>2 DEF Seen, MarkReadPC, Sides
    <3> QED
      BY <1>2, <2>2, <3>3, <3>4, <3>5, <3>6 DEF CallOK, Remembers
  <2> QED
    BY <1>4, <2>1, <2>2
<1>6. mails' \subseteq Requests
  BY <1>4 DEF IInv, TypeOK
<1> QED
  BY <1>4, <1>5, <1>6, LocalStep

\* The two pages that show a thread, and record what they show.
LEMMA LoadKeeps ==
  ASSUME IInv, NEW r \in Requests, StudentLoad(r) \/ CompanyLoad(r)
  PROVE  IInv'
<1> DEFINE side == IF pc[r] = "student.load" THEN "STUDENT" ELSE "COMPANY"
           shown == {m \in DOMAIN messages : messages[m].thread = call[r].thread}
<1>1. /\ pc[r] \in {"student.load", "company.load"} /\ UNCHANGED <<records, tables, arrival, mails>>
      /\ \/ /\ Goto(r, MarkReadPC[side]) /\ UNCHANGED call
            /\ viewed' = viewed \union {<<m, side, "shown">> : m \in shown}
         \/ Return(r, "refused") /\ UNCHANGED viewed
  BY DEF StudentLoad, CompanyLoad, LoadThread
<1>2. /\ side \in Sides /\ MarkReadPC[side] \in {"student.markRead", "company.markRead"}
      /\ \A other \in Sides : MarkReadPC[other] = MarkReadPC[side] => other = side
  BY DEF MarkReadPC, Sides
<1>3. call[r] \in Call /\ call[r].thread \in DOMAIN threads
  BY <1>1 DEF IInv, TypeOK, ViewPC, RequestsRemember, Remembers, Found, ThreadPC
<1> HIDE DEF side
<1>4. OnlyCallOf(r) /\ ((pc'[r] = MarkReadPC[side] /\ call'[r] = call[r]) \/ pc'[r] = "refused")
  <2>1. MarkReadPC[side] \in PCs /\ "refused" \in PCs /\ pc \in [Requests -> PCs] /\ DOMAIN call = Requests
    BY <1>2 DEF PCs, ViewPC, Results, IInv, TypeOK
  <2> QED
    BY <1>1, <2>1, Locals DEF Goto, Return, OnlyCallOf
<1>5. ViewsGrow
  <2>1. viewed \subseteq Requests \X Sides \X {"shown", "missed"} /\ DOMAIN messages \subseteq Requests
    BY DEF IInv, TypeOK
  <2> QED
    BY <1>1, <1>2, <2>1 DEF ViewsGrow
<1>6. CallOK(r)' /\ Remembers(r)'
  <2>1. CASE pc'[r] = "refused"
    BY <1>1, <2>1, EndedRemembers DEF Results, tables
  <2>2. CASE pc'[r] = MarkReadPC[side] /\ call'[r] = call[r]
    <3>1. Found(r)' /\ MayWrite(r)'
      BY <1>1, <1>2, <1>3, <2>2 DEF Found, MayWrite, StartPC, ThreadPC, ViewPC, tables
    <3>2. ArrivalHolds(r)' /\ Fresh(r)'
      BY <1>1, <1>2, <2>2, GoesOn DEF ViewPC
    <3>3. viewed' = viewed \union {<<m, side, "shown">> : m \in shown}
      <4>1. pc'[r] # "refused" /\ pc \in [Requests -> PCs]
        BY <1>2, <2>2 DEF IInv, TypeOK
      <4> QED
        BY <1>1, <4>1 DEF Return
    <3>4. Seen(r)'
      BY <1>1, <1>2, <2>2, <3>3 DEF Seen, tables
    <3> QED
      BY <1>3, <2>2, <3>1, <3>2, <3>4 DEF CallOK, Remembers
  <2> QED
    BY <1>4, <2>1, <2>2
<1>7. mails' \subseteq Requests
  BY <1>1 DEF IInv, TypeOK
<1> QED
  BY <1>1, <1>4, <1>5, <1>6, <1>7, ViewStep

LEMMA ArriveKeeps ==
  ASSUME IInv, NEW r \in Requests, Arrive(r)
  PROVE  IInv'
<1>1. CASE RefuseBody(r)
  <2>1. "refused" \in PCs /\ pc \in [Requests -> PCs] /\ DOMAIN call = Requests /\ mails \subseteq Requests
    BY DEF PCs, Results, IInv, TypeOK
  <2>2. OnlyCallOf(r) /\ pc'[r] = "refused" /\ UNCHANGED <<records, tables, viewed, arrival, mails>>
    BY <1>1, <2>1, Locals DEF RefuseBody, Return, OnlyCallOf
  <2> QED
    BY <2>1, <2>2, EndedRemembers, LocalStep DEF Results, tables
<1>2. ASSUME NEW c \in Companies, NEW a \in Apps, StartThread(r, c, a) PROVE IInv'
  BY <1>2, ResolveKeeps DEF StartThread
<1>3. ASSUME NEW s \in Students, NEW t \in DOMAIN threads, SendAsStudent(r, s, t) \/ ViewAsStudent(r, s, t)
      PROVE  IInv'
  BY <1>3, ResolveKeeps DEF SendAsStudent, ViewAsStudent
<1>4. ASSUME NEW c \in Companies, NEW t \in DOMAIN threads, SendAsCompany(r, c, t) \/ ViewAsCompany(r, c, t)
      PROVE  IInv'
  BY <1>4, ResolveKeeps DEF SendAsCompany, ViewAsCompany
<1> QED
  BY <1>1, <1>2, <1>3, <1>4 DEF Arrive

LEMMA NotifyKeeps ==
  ASSUME IInv, NEW r \in Requests, Notify(r)
  PROVE  IInv'
<1>1. "ok" \in PCs /\ pc \in [Requests -> PCs] /\ DOMAIN call = Requests /\ mails \subseteq Requests
  BY DEF PCs, Results, IInv, TypeOK
<1>2. OnlyCallOf(r) /\ pc'[r] = "ok" /\ UNCHANGED <<records, tables, viewed, arrival>>
  BY <1>1, Locals DEF Notify, Return, OnlyCallOf
<1>3. mails' \subseteq Requests
  BY <1>1 DEF Notify
<1> QED
  BY <1>2, <1>3, EndedRemembers, LocalStep DEF Results, tables

-----------------------------------------------------------------------------
(* Inserts and updates                                                     *)

\* A message inserted by a request that may write, in a thread that is there or
\* comes with it.
LEMMA MessageInserted ==
  ASSUME IInv, NEW r \in Requests, NEW t \in DOMAIN threads', NEW side \in Sides,
         OnlyRowsOf(r), AddMessage(r, t, side), r \notin DOMAIN messages, call[r] \in Call,
         DOMAIN threads' \subseteq Requests, Admitted(r, side, threads'[t].app),
         r \in DOMAIN threads' => t = r /\ side = "COMPANY", UNCHANGED arrival
  PROVE  /\ DOMAIN messages' \subseteq Requests /\ messages' \in [DOMAIN messages' -> Message]
         /\ r \in DOMAIN messages'
         /\ ReadMeansShownToOther' /\ SendsAdmitted' /\ TablesFit'
<1> DEFINE row == [thread |-> t, sender |-> call[r].user, side |-> side, read |-> FALSE]
<1>1. /\ DOMAIN messages' = DOMAIN messages \union {r} /\ messages'[r] = row
      /\ \A m \in DOMAIN messages : messages'[m] = messages[m]
      /\ messages' = [m \in DOMAIN messages \union {r} |-> messages'[m]]
  BY DEF AddMessage
<1>2. row \in Message
  BY DEF Message, Call
<1>3. DOMAIN messages' \subseteq Requests /\ messages' \in [DOMAIN messages' -> Message]
  <2>1. DOMAIN messages \subseteq Requests /\ \A m \in DOMAIN messages : messages[m] \in Message
    BY DEF IInv, TypeOK
  <2>2. DOMAIN messages' \subseteq Requests /\ \A m \in DOMAIN messages' : messages'[m] \in Message
    BY <1>1, <1>2, <2>1
  <2> HIDE DEF row
  <2> QED
    BY <1>1, <2>2
<1>4. \A m \in DOMAIN messages : threads'[messages[m].thread] = threads[messages[m].thread]
                                 /\ messages[m].thread \in DOMAIN threads'
  BY DEF IInv, TablesFit, OnlyRowsOf
<1>5. ReadMeansShownToOther'
  <2>1. viewed \subseteq viewed'
    BY DEF AddMessage
  <2>2. \A m \in DOMAIN messages' : messages'[m].read => m \in DOMAIN messages /\ messages'[m] = messages[m]
    BY <1>1
  <2> QED
    BY <2>1, <2>2 DEF IInv, ReadMeansShownToOther
<1>6. SendsAdmitted'
  <2>1. OnlyPartiesWrite'
    BY <1>1, <1>4 DEF IInv, SendsAdmitted, OnlyPartiesWrite, Admitted
  <2>2. SilentOnceShut'
    BY <1>1, <1>4 DEF IInv, SendsAdmitted, SilentOnceShut, Admitted
  <2> QED
    BY <2>1, <2>2 DEF SendsAdmitted
<1>7. TablesFit'
  <2>1. IsFiniteSet(DOMAIN messages')
    BY <1>1, FS_AddElement DEF IInv, TablesFit
  <2> QED
    BY <1>1, <1>4, <2>1 DEF IInv, TablesFit, OnlyRowsOf
<1> QED
  BY <1>1, <1>3, <1>5, <1>6, <1>7

\* The pages that are being opened miss the new message; no other view is recorded.
LEMMA OpeningsMiss ==
  ASSUME IInv, NEW r \in Requests, NEW t, NEW side, AddMessage(r, t, side), r \notin DOMAIN messages
  PROVE  /\ DOMAIN messages' = DOMAIN messages \union {r}
         /\ \A m \in DOMAIN messages : messages'[m].thread = messages[m].thread
         /\ ViewsGrow
         /\ \A reader \in Opening(messages'[r].thread) : <<r, reader, "missed">> \in viewed'
<1>1. DOMAIN messages' = DOMAIN messages \union {r} /\ messages'[r].thread = t
      /\ \A m \in DOMAIN messages : messages'[m] = messages[m]
  BY DEF AddMessage
<1>2. viewed' = viewed \union {<<r, reader, "missed">> : reader \in Opening(t)}
  BY DEF AddMessage
<1>3. viewed \subseteq Requests \X Sides \X {"shown", "missed"} /\ Opening(t) \subseteq Sides
  BY DEF IInv, TypeOK, Opening
<1>4. ViewsGrow
  BY <1>2, <1>3 DEF ViewsGrow
<1> QED
  BY <1>1, <1>2, <1>4

LEMMA SendKeeps ==
  ASSUME IInv, NEW r \in Requests, StartAppend(r) \/ StudentSend(r) \/ CompanySend(r)
  PROVE  IInv'
<1> DEFINE t == call[r].thread
           side == IF pc[r] = "student.send" THEN "STUDENT" ELSE "COMPANY"
<1>1. /\ pc[r] \in {"start.append", "student.send", "company.send"} /\ AddMessage(r, t, side)
      /\ Goto(r, "notify") /\ UNCHANGED <<records, threads, createdLog, arrival, mails, call>>
  BY DEF StartAppend, StudentSend, CompanySend
<1>2. call[r] \in Call /\ Found(r) /\ MayWrite(r) /\ ArrivalHolds(r) /\ r \notin DOMAIN messages
      /\ r \notin DOMAIN threads
  BY <1>1 DEF IInv, TypeOK, SendPC, RequestsRemember, Remembers, Fresh
<1>3. t \in DOMAIN threads /\ Admitted(r, side, threads[t].app)
  BY <1>1, <1>2 DEF Found, MayWrite, ThreadPC, StartPC, ThreadsOf
<1>4. OnlyCallOf(r) /\ pc'[r] = "notify" /\ OnlyRowsOf(r)
  <2>1. "notify" \in PCs /\ pc \in [Requests -> PCs] /\ DOMAIN call = Requests
    BY DEF PCs, IInv, TypeOK
  <2>2. OnlyRowsOf(r)
    BY <1>1, <1>2, OpeningsMiss DEF OnlyRowsOf, ViewsGrow
  <2> QED
    BY <1>1, <2>1, <2>2 DEF Goto, OnlyCallOf
<1>5. DOMAIN threads \subseteq Requests /\ side \in Sides
  BY DEF IInv, TypeOK, Sides
<1>6. /\ DOMAIN messages' \subseteq Requests /\ messages' \in [DOMAIN messages' -> Message]
      /\ r \in DOMAIN messages'
      /\ ReadMeansShownToOther' /\ SendsAdmitted' /\ TablesFit'
  BY <1>1, <1>2, <1>3, <1>4, <1>5, MessageInserted
<1>7. CallOK(r)' /\ Remembers(r)'
  BY <1>1, <1>2, <1>4, <1>6 DEF CallOK, Remembers, Found, MayWrite, Fresh, Seen, MarkReadPC, Sides, ArrivalHolds,
     Busy, Results, StartPC, ThreadPC, ViewPC, SendPC, ThreadsOf, records
<1>8. \A q \in Requests : CallOK(q)' /\ Remembers(q)'
  BY <1>1, <1>4, <1>7, OthersRemember
<1>9. TypeOK'
  <2>1. ViewsGrow
    BY <1>1, <1>2, OpeningsMiss
  <2> QED
    BY <1>1, <1>4, <1>6, <1>8, <2>1 DEF IInv, TypeOK, OnlyCallOf, CallOK, ViewsGrow, records
<1>10. ReusedOnceThere'
  BY <1>1 DEF IInv, ReusedOnceThere
<1> QED
  BY <1>6, <1>8, <1>9, <1>10 DEF IInv, RequestsRemember

LEMMA StartCreateKeeps ==
  ASSUME IInv, NEW r \in Requests, StartCreate(r)
  PROVE  IInv'
<1> DEFINE a == call[r].app
           thread == [app |-> a, initiatedBy |-> call[r].user]
<1>1. /\ pc[r] = "start.create" /\ AddMessage(r, r, "COMPANY") /\ createdLog' = createdLog \union {r}
      /\ threads' = [t \in DOMAIN threads \union {r} |-> IF t = r THEN thread ELSE threads[t]]
      /\ Goto(r, "notify") /\ UNCHANGED <<records, arrival, mails, call>>
  BY DEF StartCreate
<1>2. call[r] \in Call /\ Found(r) /\ MayWrite(r) /\ ArrivalHolds(r) /\ r \notin DOMAIN messages
      /\ r \notin DOMAIN threads
  BY <1>1 DEF IInv, TypeOK, SendPC, RequestsRemember, Remembers, Fresh
<1>3. a \in Apps /\ Admitted(r, "COMPANY", a) /\ a \notin arrival[r].threaded
  BY <1>1, <1>2 DEF Found, MayWrite, StartPC
<1>4. thread \in Thread
  <2>1. call[r].user = CompanyOf[a]
    BY <1>3 DEF Admitted
  <2> QED
    BY <1>3, <2>1, CompanyOfAssumption DEF Thread
<1>5. /\ DOMAIN threads' = DOMAIN threads \union {r} /\ threads'[r] = thread
      /\ \A t \in DOMAIN threads : threads'[t] = threads[t]
      /\ threads' = [t \in DOMAIN threads \union {r} |-> threads'[t]]
  BY <1>1, <1>2
<1>6. DOMAIN threads' \subseteq Requests /\ threads' \in [DOMAIN threads' -> Thread]
  <2>1. DOMAIN threads \subseteq Requests /\ \A t \in DOMAIN threads : threads[t] \in Thread
    BY DEF IInv, TypeOK
  <2>2. DOMAIN threads' \subseteq Requests /\ \A t \in DOMAIN threads' : threads'[t] \in Thread
    BY <1>4, <1>5, <2>1
  <2> HIDE DEF thread
  <2> QED
    BY <1>5, <2>2
<1>7. OnlyCallOf(r) /\ pc'[r] = "notify" /\ OnlyRowsOf(r)
  <2>1. "notify" \in PCs /\ pc \in [Requests -> PCs] /\ DOMAIN call = Requests
    BY DEF PCs, IInv, TypeOK
  <2>2. OnlyRowsOf(r)
    BY <1>1, <1>2, <1>5, OpeningsMiss DEF OnlyRowsOf, ViewsGrow
  <2> QED
    BY <1>1, <2>1, <2>2 DEF Goto, OnlyCallOf
<1>8. /\ DOMAIN messages' \subseteq Requests /\ messages' \in [DOMAIN messages' -> Message]
      /\ r \in DOMAIN messages'
      /\ ReadMeansShownToOther' /\ SendsAdmitted' /\ TablesFit'
  <2>1. "COMPANY" \in Sides /\ r \in DOMAIN threads' /\ Admitted(r, "COMPANY", threads'[r].app)
    BY <1>3, <1>5 DEF Sides
  <2> QED
    BY <1>1, <1>2, <1>6, <1>7, <2>1, MessageInserted
<1>9. CallOK(r)' /\ Remembers(r)'
  <2>1. \A b \in arrival[r].threaded : ThreadsOf(b)' # {}
    <3>1. \A b : ThreadsOf(b) \subseteq ThreadsOf(b)'
      BY <1>5 DEF ThreadsOf
    <3> QED
      BY <1>2, <3>1 DEF ArrivalHolds
  <2> QED
    BY <1>1, <1>2, <1>7, <1>8, <2>1 DEF CallOK, Remembers, Found, MayWrite, Fresh, Seen, MarkReadPC, Sides,
       ArrivalHolds, Busy, Results, StartPC, ThreadPC, ViewPC, SendPC, records
<1>10. \A q \in Requests : CallOK(q)' /\ Remembers(q)'
  BY <1>1, <1>7, <1>9, OthersRemember
<1>11. TypeOK'
  <2>1. ViewsGrow
    BY <1>1, <1>2, OpeningsMiss
  <2> QED
    BY <1>1, <1>6, <1>7, <1>8, <1>10, <2>1 DEF IInv, TypeOK, OnlyCallOf, CallOK, ViewsGrow, records
<1>12. ReusedOnceThere'
  BY <1>1, <1>3, <1>5 DEF IInv, ReusedOnceThere
<1> QED
  BY <1>8, <1>10, <1>11, <1>12 DEF IInv, RequestsRemember

\* A message that becomes read is of the other side, and the request has seen it or missed it.
LEMMA MarkReadKeeps ==
  ASSUME IInv, NEW r \in Requests, StudentMarkRead(r) \/ CompanyMarkRead(r)
  PROVE  IInv'
<1> DEFINE side == IF pc[r] = "student.markRead" THEN "STUDENT" ELSE "COMPANY"
           t == call[r].thread
<1>1. /\ pc[r] \in {"student.markRead", "company.markRead"}
      /\ messages' = [m \in DOMAIN messages |->
           IF messages[m].thread = t /\ messages[m].side # side
           THEN [messages[m] EXCEPT !.read = TRUE] ELSE messages[m]]
      /\ Return(r, "ok") /\ UNCHANGED <<records, threads, createdLog, viewed, arrival, mails>>
  BY DEF StudentMarkRead, CompanyMarkRead, MarkRead
<1>2. t \in DOMAIN threads /\ t \in Requests /\ side \in Sides
  BY <1>1 DEF IInv, TypeOK, RequestsRemember, Remembers, Found, ThreadPC, ViewPC, Sides
<1>3. \A m \in DOMAIN messages : messages[m] \in Message
  BY DEF IInv, TypeOK
<1>4. DOMAIN messages' = DOMAIN messages
      /\ \A m \in DOMAIN messages :
           /\ messages'[m] \in Message
           /\ messages'[m].thread = messages[m].thread /\ messages'[m].side = messages[m].side
           /\ messages'[m].sender = messages[m].sender
           /\ messages'[m].read =>
                messages[m].read \/ (messages[m].thread = t /\ messages[m].side # side)
  BY <1>1, <1>3 DEF Message
<1>5. messages' \in [DOMAIN messages' -> Message]
  <2>1. messages' = [m \in DOMAIN messages |-> messages'[m]]
    BY <1>1
  <2> QED
    BY <1>4, <2>1
<1>6. OnlyCallOf(r) /\ pc'[r] = "ok" /\ OnlyRowsOf(r)
  <2>1. "ok" \in PCs /\ pc \in [Requests -> PCs] /\ DOMAIN call = Requests
    BY DEF PCs, Results, IInv, TypeOK
  <2> QED
    BY <1>1, <1>4, <2>1 DEF Return, OnlyCallOf, OnlyRowsOf
<1>7. \A q \in Requests : CallOK(q)' /\ Remembers(q)'
  BY <1>1, <1>6, EndedRemembers, OthersRemember DEF Results
<1>8. TypeOK'
  BY <1>1, <1>2, <1>4, <1>5, <1>6, <1>7 DEF IInv, TypeOK, OnlyCallOf, CallOK, records
<1>9. ReadMeansShownToOther'
  <2>1. \A m \in DOMAIN messages : messages[m].thread = t =>
          \E how \in {"shown", "missed"} : <<m, side, how>> \in viewed
    <3>1. pc[r] = MarkReadPC[side] /\ Seen(r)
      BY <1>1 DEF MarkReadPC, IInv, RequestsRemember, Remembers
    <3> QED
      BY <1>2, <3>1 DEF Seen
  <2> HIDE DEF side, t
  <2> QED
    BY <1>1, <1>2, <1>4, <2>1 DEF IInv, ReadMeansShownToOther
<1>10. SendsAdmitted'
  BY <1>1, <1>4 DEF IInv, SendsAdmitted, OnlyPartiesWrite, SilentOnceShut
<1>11. ReusedOnceThere' /\ TablesFit'
  BY <1>1, <1>4 DEF IInv, ReusedOnceThere, TablesFit
<1> QED
  BY <1>7, <1>8, <1>9, <1>10, <1>11 DEF IInv, RequestsRemember

\* The other services: what is shut stays so, unless it is reopened and struck out.
LEMMA OtherServicesKeep ==
  ASSUME IInv, OtherServices
  PROVE  IInv'
<1>1. /\ UNCHANGED <<tables, viewed, mails, pc, call>>
      /\ closed' \in [Apps -> BOOLEAN] /\ postingDeleted' \in [Apps -> BOOLEAN]
      /\ deleted' \subseteq Students \union Companies
      /\ arrival' \in [Requests -> [shut: SUBSET Apps, threaded: SUBSET Apps]]
      /\ \A q \in Requests : arrival'[q].shut \subseteq arrival[q].shut
                             /\ arrival'[q].threaded = arrival[q].threaded
      /\ \A a \in Apps : /\ closed[a] => closed'[a] \/ \A q \in Requests : a \notin arrival'[q].shut
                         /\ postingDeleted[a] => postingDeleted'[a]
      /\ deleted \subseteq deleted'
  <2> USE DEF IInv, TypeOK
  <2>1. ASSUME NEW a \in Apps, NEW value \in BOOLEAN, SetClosed(a, value)
        PROVE  <1>1
    <3>1. CASE value
      BY <2>1, <3>1 DEF SetClosed
    <3>2. CASE ~value
      BY <2>1, <3>2 DEF SetClosed
    <3> QED
      BY <3>1, <3>2
  <2>2. ASSUME NEW a \in Apps, SoftDeletePosting(a) PROVE <1>1
    BY <2>2 DEF SoftDeletePosting
  <2>3. ASSUME NEW u \in Students \union Companies, SoftDeleteUser(u) PROVE <1>1
    BY <2>3 DEF SoftDeleteUser
  <2> QED
    BY <2>1, <2>2, <2>3 DEF OtherServices
<1>2. TypeOK'
  BY <1>1 DEF IInv, TypeOK, tables
<1>3. RequestsRemember'
  <2> SUFFICES ASSUME NEW q \in Requests PROVE Remembers(q)'
    BY DEF RequestsRemember
  <2>1. Remembers(q) /\ arrival[q].shut \subseteq Apps
    BY DEF IInv, RequestsRemember, TypeOK
  <2>2. Found(q)' /\ MayWrite(q)' /\ Fresh(q)' /\ Seen(q)'
    BY <1>1, <2>1 DEF Remembers, Found, MayWrite, Admitted, Fresh, Seen, ThreadsOf, tables
  <2>3. ArrivalHolds(q)'
    BY <1>1, <2>1 DEF Remembers, ArrivalHolds, Busy, ThreadsOf, tables
  <2> QED
    BY <2>2, <2>3 DEF Remembers
<1>4. ReadMeansShownToOther' /\ SendsAdmitted' /\ ReusedOnceThere' /\ TablesFit'
  <2>1. DOMAIN messages \subseteq Requests
    BY DEF IInv, TypeOK
  <2> QED
    BY <1>1, <2>1, TablesKept DEF tables
<1> QED
  BY <1>2, <1>3, <1>4 DEF IInv

LEMMA Stutters == IInv /\ UNCHANGED vars => IInv'
<1> SUFFICES ASSUME IInv, UNCHANGED vars PROVE IInv'
  OBVIOUS
<1>1. TypeOK'
  BY DEF IInv, TypeOK, vars
<1>2. ReadMeansShownToOther' /\ SendsAdmitted' /\ ReusedOnceThere' /\ TablesFit'
  BY TablesKept DEF vars
<1>3. \A q \in Requests : Remembers(q)'
  BY DEF IInv, RequestsRemember, Remembers, Found, MayWrite, Admitted, ArrivalHolds, Busy, Fresh, Seen,
     ThreadsOf, vars
<1> QED
  BY <1>1, <1>2, <1>3 DEF IInv, RequestsRemember

-----------------------------------------------------------------------------
(* Theorems                                                                *)

\* The invariant that all of the following is read off from.
THEOREM Invariance == Spec => []IInv
<1>1. IInv /\ [Next]_vars => IInv'
  <2> SUFFICES ASSUME IInv, [Next]_vars PROVE IInv'
    OBVIOUS
  <2>1. ASSUME NEW r \in Requests, Advance(r) PROVE IInv'
    BY <2>1, StartReadApplicationKeeps, StartReadExistingKeeps, SendKeeps, StartCreateKeeps, ReadThreadKeeps,
       NotifyKeeps, LoadKeeps, MarkReadKeeps DEF Advance
  <2> QED
    BY <2>1, ArriveKeeps, OtherServicesKeep, Stutters DEF Next
<1> QED
  BY <1>1, InitIInv, PTL DEF Spec

\* The tables and the locals of the requests keep their types.
THEOREM TypeCorrect == Spec => []TypeOK
<1>1. IInv => TypeOK
  BY DEF IInv
<1> QED
  BY <1>1, Invariance, PTL

\* A message is never marked as read by its own side, nor by the other side's page unless that
\* page selected it or was past its query when it was sent (message-service.ts:404-452, 493-533).
THEOREM ReadAfterLoad == Spec => []ReadMeansShownToOther
<1>1. IInv => ReadMeansShownToOther
  BY DEF IInv
<1> QED
  BY <1>1, Invariance, PTL

\* Whoever's name a message bears is a party to its application, and no request that found the
\* application shut on its arrival leaves one (message-service.ts:583-597, 686-707, 750-766).
THEOREM NoLateSend == Spec => []SendsAdmitted
<1>1. IInv => SendsAdmitted
  BY DEF IInv
<1> QED
  BY <1>1, Invariance, PTL

\* Only requests that overlap the opening of a thread can open a second one
\* (message-service.ts:599-604).
THEOREM ThreadReused == Spec => []ReusedOnceThere
<1>1. IInv => ReusedOnceThere
  BY DEF IInv
<1> QED
  BY <1>1, Invariance, PTL

-----------------------------------------------------------------------------
(* The inbox                                                               *)

\* The sum of a list's counters is the number of messages its threads count: each
\* thread's unread messages are numbered, and no message is in two threads.
LEMMA CountersAddUp ==
  ASSUME IInv, NEW side \in Sides, NEW T \in SUBSET DOMAIN threads
  PROVE  Total({Item(t, side) : t \in T}) = Cardinality(UNION {UnreadBy(side, t) : t \in T})
<1> DEFINE S == UNION {UnreadBy(side, t) : t \in T}
           n(t) == Cardinality(UnreadBy(side, t))
           D == UNION {{i} \X (1..i.unreadForViewer) : i \in {Item(t, side) : t \in T}}
           number == [t \in T |-> CHOOSE f : f \in Bijection(UnreadBy(side, t), 1..n(t))]
           f == [m \in S |-> <<Item(messages[m].thread, side), number[messages[m].thread][m]>>]
<1>1. IsFiniteSet(DOMAIN messages)
  BY DEF IInv, TablesFit
<1>2. \A t \in T : /\ IsFiniteSet(UnreadBy(side, t)) /\ n(t) \in Nat
                   /\ number[t] \in Bijection(UnreadBy(side, t), 1..n(t))
  <2> SUFFICES ASSUME NEW t \in T
               PROVE  /\ IsFiniteSet(UnreadBy(side, t)) /\ n(t) \in Nat
                      /\ \E g : g \in Bijection(UnreadBy(side, t), 1..n(t))
    OBVIOUS
  <2>1. UnreadBy(side, t) \in SUBSET DOMAIN messages
    BY DEF UnreadBy
  <2>2. IsFiniteSet(UnreadBy(side, t))
    BY <1>1, <2>1, FS_Subset
  <2>3. n(t) \in Nat
    BY <2>2, FS_CardinalityType
  <2>4. IsFiniteSet(1..n(t)) /\ Cardinality(1..n(t)) = n(t)
    BY <2>3, FS_Interval
  <2>5. ExistsBijection(UnreadBy(side, t), 1..n(t))
    BY <2>2, <2>4, FS_SameCardinalityBij
  <2> QED
    BY <2>2, <2>3, <2>5 DEF ExistsBijection
<1>3. IsFiniteSet(S)
  <2>1. S \in SUBSET DOMAIN messages
    BY DEF UnreadBy
  <2> QED
    BY <1>1, <2>1, FS_Subset
<1>4. \A m \in S : messages[m].thread \in T /\ m \in UnreadBy(side, messages[m].thread)
  BY DEF UnreadBy
<1>5. \A t \in T : Item(t, side).thread = t /\ Item(t, side).unreadForViewer = n(t)
  BY DEF Item
<1> HIDE DEF n
<1>6. \A d : d \in D <=> \E t \in T : \E k \in 1..n(t) : d = <<Item(t, side), k>>
  BY <1>5
<1>7. f \in Bijection(S, D)
  <2>1. f \in [S -> D]
    <3> SUFFICES ASSUME NEW m \in S PROVE <<Item(messages[m].thread, side), number[messages[m].thread][m]>> \in D
      OBVIOUS
    <3>1. number[messages[m].thread][m] \in 1..n(messages[m].thread)
      BY <1>2, <1>4 DEF Bijection, Injection, IsInjective
    <3> QED
      BY <1>4, <1>6, <3>1
  <2>2. ASSUME NEW m1 \in S, NEW m2 \in S, f[m1] = f[m2] PROVE m1 = m2
    <3>1. Item(messages[m1].thread, side) = Item(messages[m2].thread, side)
          /\ number[messages[m1].thread][m1] = number[messages[m2].thread][m2]
      <4>1. ASSUME NEW m \in S
            PROVE  f[m][1] = Item(messages[m].thread, side) /\ f[m][2] = number[messages[m].thread][m]
        OBVIOUS
      <4> HIDE DEF f, number
      <4> QED
        BY <2>2, <4>1
    <3>2. messages[m1].thread = messages[m2].thread
      BY <1>4, <1>5, <3>1
    <3> QED
      BY <1>2, <1>4, <3>1, <3>2 DEF Bijection, Injection, IsInjective
  <2>3. ASSUME NEW d \in D PROVE \E m \in S : f[m] = d
    <3>0. PICK t \in T : \E k \in 1..n(t) : d = <<Item(t, side), k>>
      BY <1>6, <2>3
    <3>1. PICK k \in 1..n(t) : d = <<Item(t, side), k>>
      BY <3>0
    <3>2. PICK m \in UnreadBy(side, t) : number[t][m] = k
      BY <1>2 DEF Bijection, Surjection
    <3>3. m \in S /\ messages[m].thread = t
      BY DEF UnreadBy
    <3> QED
      BY <3>1, <3>2, <3>3
  <2> QED
    BY <2>1, <2>2, <2>3 DEF Bijection, Injection, IsInjective, Surjection
<1>8. Cardinality(D) = Cardinality(S)
  BY <1>3, <1>7, FS_Bijection DEF ExistsBijection
<1> QED
  BY <1>8 DEF Total

\* What the page of a student lists, counts and offers.
LEMMA StudentInbox ==
  ASSUME IInv, NEW s \in Students
  PROVE  LET list == listThreadsForStudent(s) IN
         /\ countUnreadForStudent(s) = Total(list)
         /\ \A t \in DOMAIN threads : s \notin deleted =>
              /\ StudentMaySee(s, threads[t].app) <=> \E i \in list : i.thread = t
              /\ StudentMaySee(s, threads[t].app) =>
                   (CanReplyAsStudent(s, t) <=> StudentMayReply(s, threads[t]))
<1> DEFINE T == {t \in DOMAIN threads : /\ s \notin deleted /\ StudentOf[threads[t].app] = s
                                        /\ ParentsLive(threads[t].app)}
           U == UNION {UnreadBy("STUDENT", t) : t \in T}
<1>1. listThreadsForStudent(s) = {Item(t, "STUDENT") : t \in T}
  BY DEF listThreadsForStudent
<1>2. Total(listThreadsForStudent(s)) = Cardinality(U)
  <2>1. "STUDENT" \in Sides /\ T \in SUBSET DOMAIN threads
    BY DEF Sides
  <2> HIDE DEF T
  <2> QED
    BY <1>1, <2>1, CountersAddUp
<1>3. CASE s \in deleted
  <2>1. U = {}
    BY <1>3
  <2>2. listThreadsForStudent(s) = {}
    BY <1>3 DEF listThreadsForStudent
  <2> QED
    BY <1>2, <1>3, <2>1, <2>2, FS_EmptySet DEF countUnreadForStudent
<1>4. CASE s \notin deleted
  <2>1. U = {m \in DOMAIN messages :
               LET a == threads[messages[m].thread].app IN
                 /\ ~messages[m].read /\ messages[m].side # "STUDENT"
                 /\ StudentOf[a] = s /\ ParentsLive(a)}
    BY <1>4 DEF UnreadBy, IInv, TablesFit
  <2>2. countUnreadForStudent(s) = Total(listThreadsForStudent(s))
    BY <1>2, <1>4, <2>1 DEF countUnreadForStudent
  <2>3. \A t : Item(t, "STUDENT").thread = t
    BY DEF Item
  <2>4. \A t \in DOMAIN threads :
          StudentMaySee(s, threads[t].app) <=> \E i \in listThreadsForStudent(s) : i.thread = t
    BY <1>1, <1>4, <2>3 DEF StudentMaySee
  <2>5. \A t \in DOMAIN threads : StudentMaySee(s, threads[t].app) =>
          (CanReplyAsStudent(s, t) <=> StudentMayReply(s, threads[t]))
    BY DEF CanReplyAsStudent, StudentMayReply
  <2> QED
    BY <2>2, <2>4, <2>5
<1> QED
  BY <1>3, <1>4

\* The same for a company, with the buttons of its applicants.
LEMMA CompanyInbox ==
  ASSUME IInv, NEW c \in Companies
  PROVE  LET list == listThreadsForCompany(c) IN
         /\ countUnreadForCompany(c) = Total(list)
         /\ \A i \in list :
              /\ messages[i.thread].side = "COMPANY" /\ messages[i.thread].thread = i.thread
              /\ threads[i.thread].app \in listApplicationsForCompany(c)
              /\ CanReplyAsCompany(i.thread) <=> CompanyMayWrite(c, threads[i.thread].app)
         /\ \A a \in listApplicationsForCompany(c) :
              /\ StartThreadPage(c, a) # "notFound"
              /\ StartThreadPage(c, a) = "composer" => CompanyMayWrite(c, a)
              /\ getThreadIdForApplicationAsCompany(c, a) \subseteq {i.thread : i \in list}
<1> DEFINE Listed(t) == LET a == threads[t].app IN
             c \notin deleted /\ CompanyOf[a] = c /\ ~postingDeleted[a] /\ StudentOf[a] \notin deleted
           T == {t \in DOMAIN threads : Listed(t)}
           U == UNION {UnreadBy("COMPANY", t) : t \in T}
           list == listThreadsForCompany(c)
<1>1. list = {Item(t, "COMPANY") : t \in T}
  BY DEF listThreadsForCompany
<1>2. Total(list) = Cardinality(U)
  <2>1. "COMPANY" \in Sides /\ T \in SUBSET DOMAIN threads
    BY DEF Sides
  <2> HIDE DEF T, list
  <2> QED
    BY <1>1, <2>1, CountersAddUp
<1>3. countUnreadForCompany(c) = Total(list)
  <2>1. CASE c \in deleted
    <3>1. U = {}
      BY <2>1
    <3> QED
      BY <1>2, <2>1, <3>1, FS_EmptySet DEF countUnreadForCompany
  <2>2. CASE c \notin deleted
    <3>1. U = {m \in DOMAIN messages :
                 LET a == threads[messages[m].thread].app IN
                   /\ ~messages[m].read /\ messages[m].side # "COMPANY"
                   /\ CompanyOf[a] = c /\ ~postingDeleted[a] /\ StudentOf[a] \notin deleted}
      BY <2>2 DEF UnreadBy, IInv, TablesFit
    <3> HIDE DEF U, list
    <3> QED
      BY <1>2, <2>2, <3>1 DEF countUnreadForCompany
  <2> QED
    BY <2>1, <2>2
<1>4. \A t : Item(t, "COMPANY").thread = t
  BY DEF Item
<1>5. \A i \in list : i.thread \in T
  BY <1>1, <1>4
<1>6. ASSUME NEW i \in list
      PROVE  /\ messages[i.thread].side = "COMPANY" /\ messages[i.thread].thread = i.thread
             /\ threads[i.thread].app \in listApplicationsForCompany(c)
             /\ CanReplyAsCompany(i.thread) <=> CompanyMayWrite(c, threads[i.thread].app)
  <2> DEFINE t == i.thread
  <2>1. t \in DOMAIN threads /\ Listed(t)
    BY <1>5
  <2>2. threads[t].app \in Apps
    BY <2>1 DEF IInv, TypeOK, Thread
  <2>3. messages[t].side = "COMPANY" /\ messages[t].thread = t
    BY <2>1 DEF IInv, TablesFit
  <2> HIDE DEF t
  <2>4. threads[t].app \in listApplicationsForCompany(c)
    BY <2>1, <2>2 DEF listApplicationsForCompany
  <2>5. CanReplyAsCompany(t) <=> CompanyMayWrite(c, threads[t].app)
    BY <2>1 DEF CanReplyAsCompany, CompanyMayWrite, CompanyMaySee
  <2> QED
    BY <2>3, <2>4, <2>5 DEF t
<1>7. ASSUME NEW a \in listApplicationsForCompany(c)
      PROVE  /\ StartThreadPage(c, a) # "notFound"
             /\ StartThreadPage(c, a) = "composer" => CompanyMayWrite(c, a)
             /\ getThreadIdForApplicationAsCompany(c, a) \subseteq {i.thread : i \in list}
  <2>1. c \notin deleted /\ CompanyOf[a] = c /\ ~postingDeleted[a] /\ StudentOf[a] \notin deleted
    BY DEF listApplicationsForCompany
  <2>2. StartThreadPage(c, a) # "notFound" /\ (StartThreadPage(c, a) = "composer" => CompanyMayWrite(c, a))
    BY <2>1 DEF StartThreadPage, CompanyMayWrite, CompanyMaySee
  <2>3. getThreadIdForApplicationAsCompany(c, a) \subseteq T
    BY <2>1 DEF getThreadIdForApplicationAsCompany, ThreadsOf
  <2>4. \A t \in T : t \in {i.thread : i \in list}
    BY <1>1, <1>4
  <2> HIDE DEF T, list
  <2> QED
    BY <2>2, <2>3, <2>4
<1> QED
  BY <1>3, <1>6, <1>7

\* The badges, lists, reply forms and Message buttons agree with each other and with what the
\* handlers accept, in every state (message-service.ts:148-161, 231-383, 586-594, 686-763).
THEOREM InboxHonest == Spec => []InboxAgrees
<1>1. IInv => InboxAgrees
  BY StudentInbox, CompanyInbox DEF InboxAgrees
<1> QED
  BY <1>1, Invariance, PTL
=============================================================================
