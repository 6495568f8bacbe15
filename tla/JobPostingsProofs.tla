-------------------------- MODULE JobPostingsProofs --------------------------
(***************************************************************************)
(* Proofs about JobPostings, for any companies, requests, existing         *)
(* postings and loop bounds.  An edit or a transition writes a status and  *)
(* a date it read some statements earlier, so the invariant says what a    *)
(* request remembers (Remembers) beside what the tables hold.              *)
(***************************************************************************)
EXTENDS PostingPages, FiniteSetTheorems, TLAPS

Busy(r) == pc[r] \notin Results \union {"idle"}

\* The transition has read its posting and found the move allowed.
Decided(r) ==
  \/ pc[r] = "transition.write"
  \/ pc[r] = "gate" /\ call[r].op = "transition"

\* What a request under way knows: its operation fits its next statement, and
\* what it read was the posting's status and date at some moment.
Remembers(r) ==
  /\ call[r].op \in {"create", "update"} => call[r].status \in JOB_POSTING_USER_STATUSES
  /\ call[r].op = "create" => call[r].user \in Companies
  /\ call[r].op = "transition" => call[r].status \in TransitionTarget
  /\ call[r].op \in {"delete", "adminDelete"} => call[r].status = None
  /\ call[r].op # "create" => call[r].posting \in DOMAIN postings
  /\ pc[r] \in {"create.slug", "create.insert", "create.event"} => call[r].op = "create"
  /\ pc[r] = "create.event" => r \in DOMAIN postings
  /\ pc[r] = "gate" => call[r].op \in {"create", "update", "transition"}
  /\ pc[r] = "load" => call[r].op # "create"
  /\ pc[r] \in {"update.read", "update.write"} => call[r].op = "update"
  /\ pc[r] \in {"transition.read", "transition.write"} => call[r].op = "transition"
  /\ pc[r] = "delete.write" => call[r].op \in {"delete", "adminDelete"}
  /\ pc[r] = "event" => call[r].posting \in DOMAIN postings
                        /\ call[r].status \in TransitionTarget \union {None}
  /\ pc[r] = "update.write" \/ Decided(r) =>
       /\ call[r].seen \in past[call[r].posting] \intersect Statuses
       /\ (call[r].seen = "DRAFT") <=> (call[r].seenAt = None)
  /\ Decided(r) => call[r].status \in ALLOWED_TRANSITIONS[call[r].seen]

RequestsRemember == \A r \in Requests : Busy(r) => Remembers(r)

\* A row is there only once its request has inserted it, and its status is past.
Bookkeeping ==
  /\ \A r \in Requests : r \in DOMAIN postings => pc[r] \in Results \union {"create.event", "event"}
  /\ \A p \in DOMAIN postings : postings[p].status \in past[p]

\* The inductive invariant.
IInv ==
  /\ TypeOK
  /\ SlugsUnique
  /\ StampTellsDraft
  /\ LifecycleInOrder
  /\ RequestsRemember
  /\ Bookkeeping

\* Every initial state satisfies the inductive invariant.
LEMMA InitIInv == Init => IInv
<1> SUFFICES ASSUME Init PROVE IInv
  OBVIOUS
<1> USE OwnerOfAssumption, BoundsAssumption, DistinctAssumption DEF Init, NewPosting, Ids
<1>1. TypeOK
  <2>1. company \in [Companies -> [approved: BOOLEAN, deleted: BOOLEAN]]
    OBVIOUS
  <2>2. postings \in [DOMAIN postings -> JobPosting] /\ DOMAIN postings \subseteq Ids
    BY DEF JobPosting, Slugs, Statuses
  <2>3. past \in [Ids -> SUBSET Statuses] /\ events \subseteq Event
    BY DEF Statuses
  <2>4. pc \in [Requests -> PCs] /\ DOMAIN call = Requests
    BY DEF PCs
  <2>5. \A r \in Requests : call[r] \in IF pc[r] \in Results \union {"idle"} THEN {NoCall} ELSE Call
    BY DEF Results
  <2> QED
    BY <2>1, <2>2, <2>3, <2>4, <2>5 DEF TypeOK
<1>2. SlugsUnique /\ StampTellsDraft /\ LifecycleInOrder
  BY DEF SlugsUnique, StampTellsDraft, LifecycleInOrder
<1>3. RequestsRemember /\ Bookkeeping
  BY DEF RequestsRemember, Busy, Bookkeeping
<1> QED
  BY <1>1, <1>2, <1>3 DEF IInv

-----------------------------------------------------------------------------
(* Steps that leave the tables alone                                       *)

\* Only the locals of request r move.
OnlyCallOf(r) ==
  /\ pc' \in [Requests -> PCs]
  /\ DOMAIN call' = Requests
  /\ \A q \in Requests \ {r} : pc'[q] = pc[q] /\ call'[q] = call[q]

\* What TypeOK says of the locals of r.
CallOK(r) == call[r] \in IF pc[r] \in Results \union {"idle"} THEN {NoCall} ELSE Call

\* A request that takes no step remembers what it did, if rows and pasts only grow.
LEMMA OthersRemember ==
  ASSUME IInv, NEW r \in Requests, OnlyCallOf(r),
         DOMAIN postings \subseteq DOMAIN postings',
         \A p \in DOMAIN postings : past[p] \subseteq past'[p]
  PROVE  \A q \in Requests \ {r} : CallOK(q)' /\ (Busy(q) => Remembers(q))'
<1> SUFFICES ASSUME NEW q \in Requests \ {r} PROVE CallOK(q)' /\ (Busy(q) => Remembers(q))'
  OBVIOUS
<1>1. pc'[q] = pc[q] /\ call'[q] = call[q]
  BY DEF OnlyCallOf
<1>2. CallOK(q)'
  BY <1>1 DEF IInv, TypeOK, CallOK
<1>3. Busy(q) => Remembers(q)
  BY DEF IInv, RequestsRemember
<1>4. ASSUME Busy(q)' PROVE Remembers(q)'
  <2>1. Remembers(q)
    BY <1>1, <1>3, <1>4 DEF Busy
  <2> QED
    BY <1>1, <2>1 DEF Remembers, Decided
<1> QED
  BY <1>2, <1>4

\* A step of r that leaves the tables alone preserves the invariant as soon as r
\* itself is in order.
LEMMA QuietStep ==
  ASSUME IInv, UNCHANGED <<company, postings, past>>, events' \subseteq Event,
         NEW r \in Requests, OnlyCallOf(r), CallOK(r)', (Busy(r) => Remembers(r))',
         r \in DOMAIN postings => pc'[r] \in Results \union {"create.event", "event"}
  PROVE  IInv'
<1>1. \A q \in Requests \ {r} : CallOK(q)' /\ (Busy(q) => Remembers(q))'
  BY OthersRemember
<1>2. TypeOK'
  BY <1>1 DEF IInv, TypeOK, OnlyCallOf, CallOK
<1>3. SlugsUnique' /\ StampTellsDraft' /\ LifecycleInOrder'
  BY DEF IInv, SlugsUnique, StampTellsDraft, LifecycleInOrder
<1>4. RequestsRemember'
  BY <1>1 DEF RequestsRemember
<1>5. Bookkeeping'
  BY DEF IInv, Bookkeeping, OnlyCallOf
<1> QED
  BY <1>2, <1>3, <1>4, <1>5 DEF IInv

\* A request that returns has nothing to remember.
LEMMA ReturnOK ==
  ASSUME IInv, UNCHANGED <<company, postings, past>>, events' \subseteq Event,
         NEW r \in Requests, NEW result \in Results, Return(r, result)
  PROVE  IInv'
<1>1. OnlyCallOf(r) /\ pc'[r] = result /\ call'[r] = NoCall
  BY DEF IInv, TypeOK, Return, OnlyCallOf, PCs, CallOK
<1>2. CallOK(r)' /\ ~Busy(r)'
  BY <1>1 DEF CallOK, Busy
<1> QED
  BY <1>1, <1>2, QuietStep

\* A request under way stays under way with the locals it has, or with others
\* that fit its next statement.
LEMMA MoveOn ==
  ASSUME IInv, UNCHANGED <<company, postings, past>>, events' \subseteq Event,
         NEW r \in Requests, NEW where \in PCs \ (Results \union {"idle"}), NEW c \in Call,
         pc' = [pc EXCEPT ![r] = where], call' = [call EXCEPT ![r] = c],
         r \in DOMAIN postings => where \in {"create.event", "event"},
         Remembers(r)'
  PROVE  IInv'
<1>1. OnlyCallOf(r) /\ pc'[r] = where /\ call'[r] = c
  BY DEF IInv, TypeOK, OnlyCallOf
<1>2. CallOK(r)'
  BY <1>1 DEF CallOK
<1> QED
  BY <1>1, <1>2, QuietStep

\* The same for a step that keeps its locals.
LEMMA GoOn ==
  ASSUME IInv, UNCHANGED <<company, postings, past>>, events' \subseteq Event,
         NEW r \in Requests, Busy(r), NEW where \in PCs \ (Results \union {"idle"}), Goto(r, where),
         r \in DOMAIN postings => where \in {"create.event", "event"},
         Remembers(r)'
  PROVE  IInv'
<1>1. OnlyCallOf(r) /\ pc'[r] = where /\ call'[r] = call[r]
  BY DEF IInv, TypeOK, Goto, OnlyCallOf
<1>2. CallOK(r)'
  BY <1>1 DEF IInv, TypeOK, Busy, CallOK
<1> QED
  BY <1>1, <1>2, QuietStep

-----------------------------------------------------------------------------
(* Arrivals                                                                *)

\* A request of a company enters, or is refused for a deleted profile.
LEMMA Resolved ==
  ASSUME IInv, NEW r \in Requests, NEW op \in Ops \ {"adminDelete"}, NEW c \in Companies,
         NEW p, NEW status \in Statuses \union {None}, NEW where \in {"load", "gate", "create.slug"},
         Resolve(r, op, c, p, status, where),
         op \in {"create", "update"} => status \in JOB_POSTING_USER_STATUSES,
         op = "transition" => status \in TransitionTarget,
         op = "delete" => status = None,
         IF op = "create" THEN p = None /\ where # "load" ELSE p \in DOMAIN postings /\ where = "load"
  PROVE  IInv'
<1>0. pc[r] = "idle" /\ UNCHANGED <<company, postings, past, events>> /\ events \subseteq Event
  BY DEF Resolve, IInv, TypeOK
<1>1. CASE Return(r, "refused")
  BY <1>0, <1>1, ReturnOK DEF Results
<1>2. CASE Enter(r, where, Arguments(op, c, p, status))
  <2> DEFINE a == Arguments(op, c, p, status)
  <2>1. p \in Ids \union {None}
    BY DEF IInv, TypeOK
  <2>2. p # None => p \in DOMAIN postings
    OBVIOUS
  <2>3. a \in Call
    BY <2>1, BoundsAssumption DEF Arguments, Call, Ops, Slugs
  <2>4. pc' = [pc EXCEPT ![r] = where] /\ call' = [call EXCEPT ![r] = a]
    BY <1>2 DEF Enter
  <2>5. pc'[r] = where /\ call'[r] = a
    BY <2>4 DEF IInv, TypeOK
  <2>6. Remembers(r)'
    BY <1>0, <2>5 DEF Remembers, Decided, Arguments, Ops
  <2>7. r \notin DOMAIN postings
    BY <1>0 DEF IInv, Bookkeeping, Results
  <2>8. where \in PCs \ (Results \union {"idle"})
    BY DEF PCs, Results
  <2> HIDE DEF a
  <2> QED
    BY <1>0, <2>3, <2>4, <2>6, <2>7, <2>8, MoveOn
<1> QED
  BY <1>1, <1>2 DEF Resolve

\* A request of an admin enters, or is refused.
LEMMA AdminArrives ==
  ASSUME IInv, NEW r \in Requests, NEW p \in DOMAIN postings, DeleteAsAdmin(r, p)
  PROVE  IInv'
<1>0. pc[r] = "idle" /\ UNCHANGED <<company, postings, past, events>> /\ events \subseteq Event
  BY DEF DeleteAsAdmin, IInv, TypeOK
<1>1. CASE Return(r, "refused")
  BY <1>0, <1>1, ReturnOK DEF Results
<1>2. CASE Enter(r, "load", Arguments("adminDelete", None, p, None))
  <2> DEFINE a == Arguments("adminDelete", None, p, None)
  <2>1. p \in Ids
    BY DEF IInv, TypeOK
  <2>3. a \in Call
    BY <2>1, BoundsAssumption DEF Arguments, Call, Ops, Slugs
  <2>4. pc' = [pc EXCEPT ![r] = "load"] /\ call' = [call EXCEPT ![r] = a]
    BY <1>2 DEF Enter
  <2>5. pc'[r] = "load" /\ call'[r] = a
    BY <2>4 DEF IInv, TypeOK
  <2>6. Remembers(r)'
    BY <1>0, <2>5 DEF Remembers, Decided, Arguments
  <2>7. r \notin DOMAIN postings
    BY <1>0 DEF IInv, Bookkeeping, Results
  <2>8. "load" \in PCs \ (Results \union {"idle"})
    BY DEF PCs, Results
  <2> HIDE DEF a
  <2> QED
    BY <1>0, <2>3, <2>4, <2>6, <2>7, <2>8, MoveOn
<1> QED
  BY <1>1, <1>2 DEF DeleteAsAdmin

\* Every arrival preserves the invariant.
LEMMA Arrivals ==
  ASSUME IInv, NEW r \in Requests, Arrive(r) PROVE IInv'
<1>1. ASSUME NEW c \in Companies, NEW status \in JOB_POSTING_USER_STATUSES, Create(r, c, status)
      PROVE  IInv'
  <2>1. status \in Statuses
    BY DEF JOB_POSTING_USER_STATUSES, Statuses
  <2> QED
    BY <1>1, <2>1, Resolved DEF Create, Ops
<1>2. ASSUME NEW c \in Companies, NEW p \in DOMAIN postings,
             NEW status \in JOB_POSTING_USER_STATUSES, Update(r, c, p, status)
      PROVE  IInv'
  <2>1. status \in Statuses
    BY DEF JOB_POSTING_USER_STATUSES, Statuses
  <2> QED
    BY <1>2, <2>1, Resolved DEF Update, Ops
<1>3. ASSUME NEW c \in Companies, NEW p \in DOMAIN postings, NEW target \in TransitionTarget,
             Transition(r, c, p, target)
      PROVE  IInv'
  <2>1. target \in Statuses
    BY DEF TransitionTarget, Statuses
  <2> QED
    BY <1>3, <2>1, Resolved DEF Transition, Ops
<1>4. ASSUME NEW c \in Companies, NEW p \in DOMAIN postings, Delete(r, c, p) PROVE IInv'
  BY <1>4, Resolved DEF Delete, Ops
<1> QED
  BY <1>1, <1>2, <1>3, <1>4, AdminArrives DEF Arrive

-----------------------------------------------------------------------------
(* Reads and events                                                        *)

\* The search for a slug, loads, gates and reads preserve the invariant.
LEMMA Reads ==
  ASSUME IInv, NEW r \in Requests,
         CreateSearchSlug(r) \/ Load(r) \/ Gate(r) \/ UpdateRead(r) \/ TransitionRead(r)
  PROVE  IInv'
<1>0. /\ UNCHANGED <<company, postings, past, events>> /\ events \subseteq Event
      /\ Busy(r) /\ pc[r] \notin {"create.event", "event"} /\ call[r] \in Call
  BY DEF IInv, TypeOK, Busy, Results, CreateSearchSlug, Load, Gate, UpdateRead, TransitionRead
<1>1. Remembers(r) /\ r \notin DOMAIN postings
  BY <1>0 DEF IInv, RequestsRemember, Bookkeeping, Busy
<1>2. ASSUME NEW result \in Results, Return(r, result) PROVE IInv'
  BY <1>0, <1>2, ReturnOK
<1>3. CASE CreateSearchSlug(r)
  <2>1. CASE Goto(r, "create.insert")
    <3>1. pc'[r] = "create.insert" /\ call'[r] = call[r]
      BY <2>1 DEF Goto, IInv, TypeOK
    <3>2. Remembers(r)'
      BY <1>0, <1>1, <1>3, <3>1 DEF Remembers, Decided, CreateSearchSlug
    <3> QED
      BY <1>0, <1>1, <2>1, <3>2, GoOn DEF PCs, Results
  <2>2. CASE call[r].slug # MaxCandidates /\ call' = [call EXCEPT ![r].slug = @ + 1] /\ UNCHANGED pc
    <3> DEFINE c == [call[r] EXCEPT !.slug = @ + 1]
    <3>1. c \in Call
      BY <1>0, <2>2, BoundsAssumption DEF Call, Slugs
    <3>2. pc' = [pc EXCEPT ![r] = "create.slug"] /\ call' = [call EXCEPT ![r] = c]
      BY <1>3, <2>2 DEF CreateSearchSlug, IInv, TypeOK
    <3>3. pc'[r] = "create.slug" /\ call'[r] = c
      BY <3>2 DEF IInv, TypeOK
    <3>4. c.op = call[r].op /\ c.status = call[r].status /\ c.user = call[r].user
      BY <1>0 DEF Call
    <3>5. Remembers(r)'
      BY <1>0, <1>1, <1>3, <3>3, <3>4 DEF Remembers, Decided, CreateSearchSlug
    <3> HIDE DEF c
    <3> QED
      BY <1>0, <1>1, <3>1, <3>2, <3>5, MoveOn DEF PCs, Results
  <2> QED
    BY <1>2, <1>3, <2>1, <2>2 DEF CreateSearchSlug, Results
<1>4. CASE Load(r)
  <2>1. CASE Goto(r, AfterLoad(call[r]))
    <3>1. AfterLoad(call[r]) \in {"gate", "update.read", "transition.read", "delete.write"}
      BY DEF AfterLoad
    <3>2. pc'[r] = AfterLoad(call[r]) /\ call'[r] = call[r]
      BY <2>1 DEF Goto, IInv, TypeOK
    <3>3. call[r].op \in Ops \ {"create"}
      BY <1>0, <1>1, <1>4 DEF Load, Remembers, Call
    <3>4. Remembers(r)'
      BY <1>0, <1>1, <3>2, <3>3 DEF Remembers, Decided, AfterLoad, Ops
    <3> QED
      BY <1>0, <1>1, <2>1, <3>1, <3>4, GoOn DEF PCs, Results
  <2> QED
    BY <1>2, <1>4, <2>1 DEF Load, Results
<1>5. CASE Gate(r)
  <2>1. CASE Goto(r, AfterGate(call[r].op))
    <3>1. call[r].op \in {"create", "update", "transition"}
      BY <1>1, <1>5 DEF Gate, Remembers
    <3>2. AfterGate(call[r].op) =
            IF call[r].op = "create" THEN "create.slug"
            ELSE IF call[r].op = "update" THEN "update.read" ELSE "transition.write"
      BY <3>1 DEF AfterGate
    <3>3. pc'[r] = AfterGate(call[r].op) /\ call'[r] = call[r]
      BY <2>1 DEF Goto, IInv, TypeOK
    <3>4. Remembers(r)'
      BY <1>0, <1>1, <1>5, <3>1, <3>2, <3>3 DEF Remembers, Decided, Gate
    <3>5. AfterGate(call[r].op) \in PCs \ (Results \union {"idle"})
      BY <3>2 DEF PCs, Results
    <3> QED
      BY <1>0, <1>1, <2>1, <3>4, <3>5, GoOn
  <2> QED
    BY <1>2, <1>5, <2>1 DEF Gate, Results
<1>6. ASSUME NEW where \in {"update.write", "gate", "transition.write"}, Remember(r, where),
             IF where = "update.write"
               THEN call[r].op = "update"
               ELSE /\ call[r].op = "transition"
                    /\ call[r].status \in ALLOWED_TRANSITIONS[postings[call[r].posting].status]
      PROVE  IInv'
  <2> DEFINE p == call[r].posting
  <2> DEFINE c == [call[r] EXCEPT !.seen = postings[p].status, !.seenAt = postings[p].publishedAt]
  <2>1. p \in DOMAIN postings
    BY <1>1, <1>6 DEF Remembers
  <2>2. /\ postings[p].status \in Statuses \intersect past[p]
        /\ postings[p].publishedAt \in Ids \union {None}
        /\ (postings[p].status = "DRAFT") <=> (postings[p].publishedAt = None)
    BY <2>1 DEF IInv, TypeOK, JobPosting, Bookkeeping, StampTellsDraft
  <2>3. c \in Call
    BY <1>0, <2>2 DEF Call
  <2>4. pc' = [pc EXCEPT ![r] = where] /\ call' = [call EXCEPT ![r] = c]
    BY <1>6 DEF Remember, IInv, TypeOK
  <2>5. pc'[r] = where /\ call'[r] = c
    BY <2>4 DEF IInv, TypeOK
  <2>6. /\ c.op = call[r].op /\ c.status = call[r].status /\ c.user = call[r].user /\ c.posting = p
        /\ c.seen = postings[p].status /\ c.seenAt = postings[p].publishedAt
    BY <1>0 DEF Call
  <2> HIDE DEF c
  <2>7. Remembers(r)'
    BY <1>0, <1>1, <1>6, <2>1, <2>2, <2>5, <2>6 DEF Remembers, Decided
  <2>8. where \in PCs \ (Results \union {"idle"})
    BY DEF PCs, Results
  <2> QED
    BY <1>0, <1>1, <2>3, <2>4, <2>7, <2>8, MoveOn
<1>7. CASE UpdateRead(r)
  BY <1>1, <1>6, <1>7 DEF UpdateRead, Remembers
<1>8. CASE TransitionRead(r)
  <2>1. CASE /\ IsAllowed(postings[call[r].posting].status, call[r].status)
             /\ Remember(r, IF call[r].status = "PUBLISHED" THEN "gate" ELSE "transition.write")
    BY <1>1, <1>6, <1>8, <2>1 DEF TransitionRead, Remembers, IsAllowed
  <2> QED
    BY <1>2, <1>8, <2>1 DEF TransitionRead, Results
<1> QED
  BY <1>3, <1>4, <1>5, <1>7, <1>8

\* The audit events preserve the invariant.
LEMMA Records ==
  ASSUME IInv, NEW r \in Requests, CreateRecord(r) \/ RecordLast(r)
  PROVE  IInv'
<1>0. Busy(r) /\ UNCHANGED <<company, postings, past>> /\ call[r] \in Call
  BY DEF IInv, TypeOK, Busy, Results, CreateRecord, RecordLast
<1>1. Remembers(r)
  BY <1>0 DEF IInv, RequestsRemember
<1>2. ASSUME NEW type \in {"CREATED", "SOFT_DELETED"} \union TransitionTarget,
             NEW p \in DOMAIN postings, Record(r, type, p)
      PROVE  events' \subseteq Event
  <2>1. [type |-> type, posting |-> p, by |-> r] \in Event
    BY DEF Event, IInv, TypeOK
  <2> QED
    BY <1>2, <2>1 DEF Record, IInv, TypeOK
<1>3. CASE CreateRecord(r)
  <2>1. r \in DOMAIN postings /\ Record(r, "CREATED", r)
    BY <1>1, <1>3 DEF CreateRecord, Remembers
  <2>2. events' \subseteq Event
    BY <1>2, <2>1
  <2>3. CASE Return(r, "ok")
    BY <1>0, <2>2, <2>3, ReturnOK DEF Results
  <2>4. CASE /\ call[r].status = "PUBLISHED"
             /\ pc' = [pc EXCEPT ![r] = "event"] /\ call' = [call EXCEPT ![r].posting = r]
    <3> DEFINE c == [call[r] EXCEPT !.posting = r]
    <3>1. c \in Call
      BY <1>0 DEF Call, Ids
    <3>2. call' = [call EXCEPT ![r] = c]
      BY <2>4 DEF IInv, TypeOK
    <3>3. pc'[r] = "event" /\ call'[r] = c
      BY <2>4, <3>2 DEF IInv, TypeOK
    <3>4. c.op = call[r].op /\ c.status = call[r].status /\ c.user = call[r].user /\ c.posting = r
      BY <1>0 DEF Call
    <3> HIDE DEF c
    <3>5. Remembers(r)'
      BY <1>0, <1>1, <1>3, <2>1, <2>4, <3>3, <3>4 DEF Remembers, Decided, CreateRecord, TransitionTarget
    <3> QED
      BY <1>0, <2>2, <2>4, <3>1, <3>2, <3>5, MoveOn DEF PCs, Results
  <2> QED
    BY <1>3, <2>3, <2>4 DEF CreateRecord
<1>4. CASE RecordLast(r)
  <2>1. call[r].posting \in DOMAIN postings /\ call[r].status \in TransitionTarget \union {None}
    BY <1>1, <1>4 DEF RecordLast, Remembers
  <2>2. events' \subseteq Event
    BY <1>2, <1>4, <2>1 DEF RecordLast
  <2> QED
    BY <1>0, <1>4, <2>2, ReturnOK DEF RecordLast, Results
<1> QED
  BY <1>3, <1>4

-----------------------------------------------------------------------------
(* Writes                                                                  *)

\* The step that writes a row returns, or goes on to its event.
LEMMA AfterWrite ==
  ASSUME IInv, NEW r \in Requests, Busy(r),
         call[r].posting \in DOMAIN postings, call[r].status \in TransitionTarget \union {None},
         DOMAIN postings' = DOMAIN postings,
         Remembers(r),
         Goto(r, "event") \/ Return(r, "ok")
  PROVE  /\ OnlyCallOf(r) /\ pc'[r] \in {"event", "ok"}
         /\ CallOK(r)' /\ (Busy(r) => Remembers(r))'
<1>1. call[r] \in Call
  BY DEF IInv, TypeOK, Busy
<1>2. CASE Goto(r, "event")
  <2>1. OnlyCallOf(r) /\ pc'[r] = "event" /\ call'[r] = call[r]
    BY <1>2 DEF Goto, IInv, TypeOK, OnlyCallOf, PCs
  <2>2. CallOK(r)'
    BY <1>1, <2>1 DEF CallOK, Results
  <2>3. Remembers(r)'
    BY <2>1 DEF Remembers, Decided
  <2> QED
    BY <2>1, <2>2, <2>3
<1>3. CASE Return(r, "ok")
  <2>1. OnlyCallOf(r) /\ pc'[r] = "ok" /\ call'[r] = NoCall
    BY <1>3 DEF Return, IInv, TypeOK, OnlyCallOf, PCs, Results
  <2> QED
    BY <2>1 DEF CallOK, Busy, Results
<1> QED
  BY <1>2, <1>3

\* A write of a status and of a date that fit each other, in its place in the
\* lifecycle, preserves what the invariant says of the tables.
LEMMA WriteOK ==
  ASSUME IInv, NEW p \in DOMAIN postings, NEW status \in Statuses, NEW at \in Ids \union {None},
         Write(p, status, at),
         (status = "DRAFT") <=> (at = None),
         status \in {"PAUSED", "CLOSED"} => "PUBLISHED" \in past[p],
         status = "ARCHIVED" => "CLOSED" \in past[p]
  PROVE  /\ DOMAIN postings' = DOMAIN postings /\ postings' \in [DOMAIN postings -> JobPosting]
         /\ past' \in [Ids -> SUBSET Statuses] /\ \A q \in DOMAIN postings : past[q] \subseteq past'[q]
         /\ SlugsUnique' /\ StampTellsDraft' /\ LifecycleInOrder'
         /\ \A q \in DOMAIN postings' : postings'[q].status \in past'[q]
<1>0. p \in Ids /\ postings \in [DOMAIN postings -> JobPosting] /\ past \in [Ids -> SUBSET Statuses]
      /\ DOMAIN postings \subseteq Ids
  BY DEF IInv, TypeOK
<1>1. /\ DOMAIN postings' = DOMAIN postings
      /\ postings'[p] = [postings[p] EXCEPT !.status = status, !.publishedAt = at]
      /\ \A q \in DOMAIN postings \ {p} : postings'[q] = postings[q]
  BY <1>0 DEF Write
<1>2. /\ postings'[p] \in JobPosting
      /\ postings'[p].status = status /\ postings'[p].publishedAt = at
      /\ postings'[p].company = postings[p].company /\ postings'[p].slug = postings[p].slug
      /\ postings'[p].deleted = postings[p].deleted
  <2>1. postings[p] \in JobPosting
    BY <1>0
  <2> QED
    BY <1>1, <2>1 DEF JobPosting
<1>3. /\ past'[p] = past[p] \union {status} /\ past' \in [Ids -> SUBSET Statuses]
      /\ \A q \in DOMAIN postings \ {p} : past'[q] = past[q]
  BY <1>0 DEF Write
<1>4. postings' \in [DOMAIN postings -> JobPosting]
  BY <1>0, <1>1, <1>2 DEF Write
<1>5. SlugsUnique'
  <2>1. \A q \in DOMAIN postings : /\ postings'[q].company = postings[q].company
                                   /\ postings'[q].slug = postings[q].slug
                                   /\ postings'[q].deleted = postings[q].deleted
    BY <1>1, <1>2
  <2> QED
    BY <1>1, <2>1 DEF IInv, SlugsUnique
<1>6. StampTellsDraft'
  BY <1>1, <1>2 DEF IInv, StampTellsDraft
<1>7. LifecycleInOrder'
  BY <1>1, <1>3 DEF IInv, LifecycleInOrder
<1>8. \A q \in DOMAIN postings' : postings'[q].status \in past'[q]
  BY <1>1, <1>2, <1>3 DEF IInv, Bookkeeping
<1> QED
  BY <1>1, <1>3, <1>4, <1>5, <1>6, <1>7, <1>8

\* The parts come together: tables in order, the writer in order.
LEMMA StepOK ==
  ASSUME IInv, NEW r \in Requests, UNCHANGED <<company, events>>,
         DOMAIN postings' \subseteq Ids, postings' \in [DOMAIN postings' -> JobPosting],
         past' \in [Ids -> SUBSET Statuses],
         DOMAIN postings \subseteq DOMAIN postings', DOMAIN postings' \subseteq DOMAIN postings \union {r},
         \A q \in DOMAIN postings : past[q] \subseteq past'[q],
         SlugsUnique', StampTellsDraft', LifecycleInOrder',
         \A q \in DOMAIN postings' : postings'[q].status \in past'[q],
         OnlyCallOf(r), CallOK(r)', (Busy(r) => Remembers(r))',
         r \in DOMAIN postings' => pc'[r] \in Results \union {"create.event", "event"}
  PROVE  IInv'
<1>1. \A q \in Requests \ {r} : CallOK(q)' /\ (Busy(q) => Remembers(q))'
  BY OthersRemember
<1>2. TypeOK'
  BY <1>1 DEF IInv, TypeOK, OnlyCallOf, CallOK
<1>3. RequestsRemember'
  BY <1>1 DEF RequestsRemember
<1>4. Bookkeeping'
  BY DEF IInv, Bookkeeping, OnlyCallOf
<1> QED
  BY <1>2, <1>3, <1>4 DEF IInv

\* An edit preserves the invariant.
LEMMA UpdateWrites ==
  ASSUME IInv, NEW r \in Requests, UpdateWrite(r) PROVE IInv'
<1> DEFINE c == call[r]
<1>1. Busy(r) /\ c \in Call
  BY DEF IInv, TypeOK, Busy, Results, UpdateWrite
<1>2. Remembers(r)
  BY <1>1 DEF IInv, RequestsRemember
<1>3. /\ c.posting \in DOMAIN postings /\ c.status \in {"DRAFT", "PUBLISHED"} /\ c.op = "update"
      /\ c.seen \in Statuses /\ c.seenAt \in Ids \union {None}
      /\ (c.seen = "DRAFT") <=> (c.seenAt = None)
  BY <1>1, <1>2 DEF UpdateWrite, Remembers, Call, JOB_POSTING_USER_STATUSES
<1> DEFINE at == StampOfEdit(r, c)
<1>4. at \in Ids \union {None} /\ ((c.status = "DRAFT") <=> (at = None))
  BY <1>3, DistinctAssumption DEF StampOfEdit, Ids
<1>5. Write(c.posting, c.status, at) /\ UNCHANGED <<company, events>>
  BY DEF UpdateWrite
<1> HIDE DEF at
<1>6. /\ DOMAIN postings' = DOMAIN postings /\ postings' \in [DOMAIN postings -> JobPosting]
      /\ past' \in [Ids -> SUBSET Statuses] /\ \A q \in DOMAIN postings : past[q] \subseteq past'[q]
      /\ SlugsUnique' /\ StampTellsDraft' /\ LifecycleInOrder'
      /\ \A q \in DOMAIN postings' : postings'[q].status \in past'[q]
  BY <1>3, <1>4, <1>5, WriteOK DEF Statuses
<1>7. /\ OnlyCallOf(r) /\ CallOK(r)' /\ (Busy(r) => Remembers(r))'
      /\ pc'[r] \in Results \union {"create.event", "event"}
  <2>1. CASE Goto(r, "event") /\ c.status = "PUBLISHED"
    BY <1>1, <1>2, <1>3, <1>6, <2>1, AfterWrite DEF TransitionTarget, Results
  <2>2. CASE Return(r, "ok")
    <3>1. OnlyCallOf(r) /\ pc'[r] = "ok" /\ call'[r] = NoCall
      BY <2>2 DEF Return, IInv, TypeOK, OnlyCallOf, PCs, Results
    <3> QED
      BY <3>1 DEF CallOK, Busy, Results
  <2> QED
    BY <2>1, <2>2 DEF UpdateWrite
<1>8. DOMAIN postings \subseteq Ids
  BY DEF IInv, TypeOK
<1> QED
  BY <1>5, <1>6, <1>7, <1>8, StepOK

\* A transition preserves the invariant.
LEMMA TransitionWrites ==
  ASSUME IInv, NEW r \in Requests, TransitionWrite(r) PROVE IInv'
<1> DEFINE c == call[r]
<1>1. Busy(r) /\ c \in Call
  BY DEF IInv, TypeOK, Busy, Results, TransitionWrite
<1>2. Remembers(r)
  BY <1>1 DEF IInv, RequestsRemember
<1>3. /\ c.posting \in DOMAIN postings /\ c.status \in TransitionTarget
      /\ c.seen \in Statuses \intersect past[c.posting] /\ c.seenAt \in Ids \union {None}
      /\ (c.seen = "DRAFT") <=> (c.seenAt = None)
      /\ c.status \in ALLOWED_TRANSITIONS[c.seen]
  BY <1>1, <1>2 DEF TransitionWrite, Remembers, Decided, Call
<1>4. /\ c.seen # "DRAFT"
      /\ c.status \in {"PAUSED", "CLOSED"} => c.seen \in {"PUBLISHED", "PAUSED"}
      /\ c.status = "ARCHIVED" => c.seen = "CLOSED"
  BY <1>3 DEF ALLOWED_TRANSITIONS, Statuses
<1>5. /\ c.status \in {"PAUSED", "CLOSED"} => "PUBLISHED" \in past[c.posting]
      /\ c.status = "ARCHIVED" => "CLOSED" \in past[c.posting]
  BY <1>3, <1>4 DEF IInv, LifecycleInOrder
<1> DEFINE at == StampOfTransition(r, c)
<1>6. at \in Ids \union {None} /\ c.status # "DRAFT" /\ at # None
  BY <1>3, <1>4 DEF StampOfTransition, TransitionTarget
<1>7. Write(c.posting, c.status, at) /\ UNCHANGED <<company, events>> /\ Goto(r, "event")
  BY DEF TransitionWrite
<1> HIDE DEF at
<1>8. /\ DOMAIN postings' = DOMAIN postings /\ postings' \in [DOMAIN postings -> JobPosting]
      /\ past' \in [Ids -> SUBSET Statuses] /\ \A q \in DOMAIN postings : past[q] \subseteq past'[q]
      /\ SlugsUnique' /\ StampTellsDraft' /\ LifecycleInOrder'
      /\ \A q \in DOMAIN postings' : postings'[q].status \in past'[q]
  <2>1. c.status \in Statuses
    BY <1>3 DEF TransitionTarget, Statuses
  <2> QED
    BY <1>3, <1>5, <1>6, <1>7, <2>1, WriteOK
<1>9. /\ OnlyCallOf(r) /\ CallOK(r)' /\ (Busy(r) => Remembers(r))'
      /\ pc'[r] \in Results \union {"create.event", "event"}
  BY <1>1, <1>2, <1>3, <1>7, <1>8, AfterWrite DEF Results
<1>10. DOMAIN postings \subseteq Ids
  BY DEF IInv, TypeOK
<1> QED
  BY <1>7, <1>8, <1>9, <1>10, StepOK

\* A soft delete preserves the invariant.
LEMMA DeleteWrites ==
  ASSUME IInv, NEW r \in Requests, DeleteWrite(r) PROVE IInv'
<1> DEFINE p == call[r].posting
<1>1. Busy(r) /\ call[r] \in Call
  BY DEF IInv, TypeOK, Busy, Results, DeleteWrite
<1>2. Remembers(r)
  BY <1>1 DEF IInv, RequestsRemember
<1>3. p \in DOMAIN postings /\ call[r].status = None
  BY <1>1, <1>2 DEF DeleteWrite, Remembers
<1>4. /\ DOMAIN postings' = DOMAIN postings
      /\ postings'[p] = [postings[p] EXCEPT !.deleted = TRUE]
      /\ \A q \in DOMAIN postings \ {p} : postings'[q] = postings[q]
      /\ UNCHANGED <<company, events, past>> /\ Goto(r, "event")
  BY <1>3 DEF DeleteWrite
<1>5. /\ postings'[p] \in JobPosting /\ postings'[p].deleted = TRUE
      /\ postings'[p].status = postings[p].status /\ postings'[p].publishedAt = postings[p].publishedAt
      /\ postings'[p].company = postings[p].company /\ postings'[p].slug = postings[p].slug
  <2>1. postings[p] \in JobPosting
    BY <1>3 DEF IInv, TypeOK
  <2> QED
    BY <1>4, <2>1 DEF JobPosting
<1>6. postings' \in [DOMAIN postings' -> JobPosting] /\ DOMAIN postings' \subseteq Ids
  BY <1>4, <1>5 DEF DeleteWrite, IInv, TypeOK
<1>7. SlugsUnique'
  <2>1. \A q \in DOMAIN postings : /\ postings'[q].company = postings[q].company
                                   /\ postings'[q].slug = postings[q].slug
                                   /\ postings[q].deleted => postings'[q].deleted
    BY <1>4, <1>5
  <2> QED
    BY <1>4, <2>1 DEF IInv, SlugsUnique
<1>8. StampTellsDraft' /\ LifecycleInOrder' /\ \A q \in DOMAIN postings' : postings'[q].status \in past'[q]
  <2>1. \A q \in DOMAIN postings : /\ postings'[q].status = postings[q].status
                                   /\ postings'[q].publishedAt = postings[q].publishedAt
    BY <1>4, <1>5
  <2>2. StampTellsDraft'
    BY <1>4, <2>1 DEF IInv, StampTellsDraft
  <2>3. LifecycleInOrder'
    BY <1>4 DEF IInv, LifecycleInOrder
  <2>4. \A q \in DOMAIN postings' : postings'[q].status \in past'[q]
    BY <1>4, <2>1 DEF IInv, Bookkeeping
  <2> QED
    BY <2>2, <2>3, <2>4
<1>9. /\ OnlyCallOf(r) /\ CallOK(r)' /\ (Busy(r) => Remembers(r))'
      /\ pc'[r] \in Results \union {"create.event", "event"}
  BY <1>1, <1>2, <1>3, <1>4, AfterWrite DEF Results
<1>10. past' \in [Ids -> SUBSET Statuses]
  BY <1>4 DEF IInv, TypeOK
<1> QED
  BY <1>4, <1>6, <1>7, <1>8, <1>9, <1>10, StepOK

\* An insert, or the collision that sends it back to the search, preserves the invariant.
LEMMA CreateInserts ==
  ASSUME IInv, NEW r \in Requests, CreateInsert(r) PROVE IInv'
<1> DEFINE c == call[r]
<1>1. Busy(r) /\ c \in Call /\ pc[r] = "create.insert" /\ UNCHANGED <<company, events>>
      /\ events \subseteq Event
  BY DEF IInv, TypeOK, Busy, Results, CreateInsert
<1>2. Remembers(r) /\ r \notin DOMAIN postings
  BY <1>1 DEF IInv, RequestsRemember, Bookkeeping, Results
<1>3. c.op = "create" /\ c.user \in Companies /\ c.status \in {"DRAFT", "PUBLISHED"} /\ c.slug \in Slugs
      /\ c.attempt \in 0..(MaxRetries - 1)
  BY <1>1, <1>2 DEF Remembers, Call, JOB_POSTING_USER_STATUSES
<1>4. CASE /\ ~SlugCollision(c.user, c.slug) /\ Goto(r, "create.event")
           /\ past' = [past EXCEPT ![r] = {c.status}]
           /\ postings' = [p \in DOMAIN postings \union {r} |->
               IF p = r
                 THEN [company |-> c.user, slug |-> c.slug, status |-> c.status, deleted |-> FALSE,
                       publishedAt |-> IF c.status = "PUBLISHED" THEN r ELSE None]
                 ELSE postings[p]]
  <2> DEFINE row == [company |-> c.user, slug |-> c.slug, status |-> c.status, deleted |-> FALSE,
                     publishedAt |-> IF c.status = "PUBLISHED" THEN r ELSE None]
  <2>1. row \in JobPosting
    BY <1>3 DEF JobPosting, Statuses, Ids
  <2>2. /\ DOMAIN postings' = DOMAIN postings \union {r} /\ postings'[r] = row
        /\ \A q \in DOMAIN postings : postings'[q] = postings[q]
    BY <1>2, <1>4
  <2>3. postings' \in [DOMAIN postings' -> JobPosting] /\ DOMAIN postings' \subseteq Ids
    BY <1>4, <2>1, <2>2 DEF IInv, TypeOK, Ids
  <2>4. /\ past'[r] = {c.status} /\ past' \in [Ids -> SUBSET Statuses]
        /\ \A q \in DOMAIN postings : past'[q] = past[q]
    BY <1>2, <1>3, <1>4 DEF IInv, TypeOK, Ids, Statuses
  <2>5. SlugsUnique'
    <3>1. \A q \in DOMAIN postings :
            ~(postings[q].company = c.user /\ postings[q].slug = c.slug /\ ~postings[q].deleted)
      BY <1>4 DEF SlugCollision, Holding
    <3>2. row.company = c.user /\ row.slug = c.slug
      OBVIOUS
    <3> QED
      BY <2>2, <3>1, <3>2 DEF IInv, SlugsUnique
  <2>6. StampTellsDraft'
    <3>1. (row.status = "DRAFT") <=> (row.publishedAt = None)
      BY <1>3, DistinctAssumption
    <3> QED
      BY <2>2, <3>1 DEF IInv, StampTellsDraft
  <2>7. LifecycleInOrder' /\ \A q \in DOMAIN postings' : postings'[q].status \in past'[q]
    BY <1>3, <2>2, <2>4 DEF IInv, LifecycleInOrder, Bookkeeping
  <2>8. OnlyCallOf(r) /\ pc'[r] = "create.event" /\ call'[r] = c
    BY <1>4 DEF Goto, OnlyCallOf, IInv, TypeOK, PCs
  <2>9. CallOK(r)' /\ Remembers(r)'
    BY <1>1, <1>2, <1>3, <2>2, <2>8 DEF CallOK, Remembers, Decided, Results
  <2> HIDE DEF row
  <2> QED
    BY <1>1, <2>2, <2>3, <2>4, <2>5, <2>6, <2>7, <2>8, <2>9, StepOK
<1>5. CASE Return(r, "threw") /\ UNCHANGED <<postings, past>>
  BY <1>1, <1>5, ReturnOK DEF Results
<1>6. CASE /\ ~RetriesSpent(c.attempt + 1) /\ UNCHANGED <<postings, past>>
           /\ call' = [call EXCEPT ![r].slug = 1, ![r].attempt = @ + 1]
           /\ pc' = [pc EXCEPT ![r] = "create.slug"]
  <2> DEFINE d == [c EXCEPT !.slug = 1, !.attempt = @ + 1]
  <2>1. c.attempt + 1 \in 0..(MaxRetries - 1) /\ 1 \in Slugs
    BY <1>3, <1>6, BoundsAssumption DEF RetriesSpent, Slugs
  <2>2. d \in Call
    BY <1>1, <2>1 DEF Call
  <2>3. call' = [call EXCEPT ![r] = d]
    BY <1>6 DEF IInv, TypeOK
  <2>4. pc'[r] = "create.slug" /\ call'[r] = d
    BY <1>6, <2>3 DEF IInv, TypeOK
  <2>5. d.op = c.op /\ d.status = c.status /\ d.user = c.user
    BY <1>1 DEF Call
  <2> HIDE DEF d
  <2>6. Remembers(r)'
    BY <1>3, <2>4, <2>5 DEF Remembers, Decided, JOB_POSTING_USER_STATUSES
  <2> QED
    BY <1>1, <1>2, <1>6, <2>2, <2>3, <2>6, MoveOn DEF PCs, Results
<1> QED
  BY <1>4, <1>5, <1>6 DEF CreateInsert

-----------------------------------------------------------------------------
(* The theorems                                                            *)

\* What admins do to companies preserves the invariant.
LEMMA OthersPreserve ==
  ASSUME IInv, OtherServices PROVE IInv'
<1>1. UNCHANGED <<postings, events, past, pc>> /\ DOMAIN call' = Requests
      /\ company' \in [Companies -> [approved: BOOLEAN, deleted: BOOLEAN]]
  <2>1. ASSUME NEW c \in Companies, NEW approved \in BOOLEAN, SetApprovalStatus(c, approved)
        PROVE  <1>1!:
    BY <2>1 DEF SetApprovalStatus, IInv, TypeOK
  <2>2. ASSUME NEW c \in Companies, SoftDeleteCompany(c)
        PROVE  <1>1!:
    BY <2>2 DEF SoftDeleteCompany, IInv, TypeOK
  <2> QED
    BY <2>1, <2>2 DEF OtherServices
<1>2. \A r \in Requests : \/ call'[r] = call[r]
                          \/ call[r] # NoCall /\ call'[r] = [call[r] EXCEPT !.barred = FALSE]
  BY DEF OtherServices, SetApprovalStatus, SoftDeleteCompany
<1>3. ASSUME NEW r \in Requests
      PROVE  CallOK(r)' /\ (Busy(r) => Remembers(r))'
  <2>1. CallOK(r)
    BY DEF IInv, TypeOK, CallOK
  <2>2. CallOK(r)'
    BY <1>1, <1>2, <2>1 DEF CallOK, Call
  <2>3. ASSUME Busy(r)' PROVE Remembers(r)'
    <3>1. Busy(r) /\ call[r] \in Call
      BY <1>1, <2>1, <2>3 DEF Busy, CallOK
    <3>2. /\ call'[r].op = call[r].op /\ call'[r].user = call[r].user
          /\ call'[r].status = call[r].status /\ call'[r].posting = call[r].posting
          /\ call'[r].seen = call[r].seen /\ call'[r].seenAt = call[r].seenAt
      BY <1>2, <3>1 DEF Call
    <3>3. Remembers(r)
      BY <3>1 DEF IInv, RequestsRemember
    <3> QED
      BY <1>1, <3>2, <3>3 DEF Remembers, Decided
  <2> QED
    BY <2>2, <2>3
<1>4. TypeOK' /\ RequestsRemember'
  BY <1>1, <1>3 DEF IInv, TypeOK, RequestsRemember, CallOK
<1>5. SlugsUnique' /\ StampTellsDraft' /\ LifecycleInOrder' /\ Bookkeeping'
  BY <1>1 DEF IInv, SlugsUnique, StampTellsDraft, LifecycleInOrder, Bookkeeping
<1> QED
  BY <1>4, <1>5 DEF IInv

\* Every step preserves the invariant.
LEMMA StepIInv == IInv /\ [Next]_vars => IInv'
<1> SUFFICES ASSUME IInv, [Next]_vars PROVE IInv'
  OBVIOUS
<1>1. CASE UNCHANGED vars
  BY <1>1 DEF vars, IInv, TypeOK, SlugsUnique, StampTellsDraft, LifecycleInOrder, RequestsRemember,
              Busy, Remembers, Decided, Bookkeeping
<1>2. ASSUME NEW r \in Requests, Advance(r) PROVE IInv'
  BY <1>2, CreateInserts, UpdateWrites, TransitionWrites, DeleteWrites, Reads, Records DEF Advance
<1> QED
  BY <1>1, <1>2, Arrivals, OthersPreserve DEF Next

\* The inductive invariant holds of every reachable state.
THEOREM Invariance == Spec => []IInv
<1> QED
  BY InitIInv, StepIInv, PTL DEF Spec

\* Type correctness of JobPostings.
THEOREM TypeCorrect == Spec => []TypeOK
<1>1. IInv => TypeOK
  BY DEF IInv
<1> QED
  BY <1>1, Invariance, PTL

\* Two live postings of a company never share a slug, however many creates race
\* for it: the partial unique index decides, not the search.
THEOREM UniqueSlugs == Spec => []SlugsUnique
<1>1. IInv => SlugsUnique
  BY DEF IInv
<1> QED
  BY <1>1, Invariance, PTL

\* A posting has a publication date exactly when it is not a draft, although
\* every handler writes a date it read some statements earlier.
THEOREM DatedUnlessDraft == Spec => []StampTellsDraft
<1>1. IInv => StampTellsDraft
  BY DEF IInv
<1> QED
  BY <1>1, Invariance, PTL

\* No interleaving of edits and transitions lets a posting skip a stage.
THEOREM NoStageSkipped == Spec => []LifecycleInOrder
<1>1. IInv => LifecycleInOrder
  BY DEF IInv
<1> QED
  BY <1>1, Invariance, PTL

-----------------------------------------------------------------------------
(* What a request may write                                                *)

\* A posting that was gone when the request arrived still is, and has stopped it
\* by the time it has loaded the row; beyond that, the row is its company's.
Owned(r) ==
  /\ call[r].late => pc[r] = "load" /\ postings[call[r].posting].deleted
  /\ pc[r] # "load" /\ call[r].op \notin {"create", "adminDelete"} =>
       postings[call[r].posting].company = call[r].user

\* A company that could never publish while the request ran still cannot, so the
\* gate has refused whatever was to be PUBLISHED.
Gated(r) ==
  /\ call[r].barred => call[r].user \in Companies /\ ~CanPublish(call[r].user)
  /\ call[r].status = "PUBLISHED"
       /\ pc[r] \in {"create.slug", "create.insert", "update.read", "update.write", "transition.write"}
     => ~call[r].barred

WritesInv == \A r \in Requests : Busy(r) => Owned(r) /\ Gated(r)

\* Every event that is due has been recorded or is about to be.
AuditInv ==
  \A p \in DOMAIN postings : \A t \in Due(p) : Told(p, t) \/ \E r \in Requests : Telling(r, p, t)

\* The dates of the postings, and those that requests carry, have their events.
DatesInv ==
  /\ \A p \in DOMAIN postings : DateTold(p, postings[p].publishedAt)
  /\ \A r \in Requests : pc[r] = "update.write" \/ Decided(r) => DateTold(call[r].posting, call[r].seenAt)

\* What request r is about to record has happened.
Honest(r) ==
  /\ pc[r] = "event" => IF call[r].status = None THEN postings[call[r].posting].deleted
                        ELSE call[r].status \in past[call[r].posting]
  /\ pc[r] = "create.event" => call[r].status \in past[r]

HonestInv == (\A e \in events : Happened(e)) /\ (\A r \in Requests : Honest(r))

\* How many postings the requests have created.
Created == Cardinality(DOMAIN postings \intersect Requests)

\* Every retry of a create was caused by another insert, and every candidate it
\* has passed over has been a slug of some posting.
Crowded(r) ==
  /\ call[r].attempt <= Created
  /\ pc[r] = "create.insert" /\ SlugCollision(call[r].user, call[r].slug) => call[r].attempt + 1 <= Created
  /\ \A i \in 1..(call[r].slug - 1) : \E p \in DOMAIN postings : postings[p].slug = i

CrowdInv ==
  /\ IsFiniteSet(DOMAIN postings)
  /\ \A r \in Requests : Busy(r) => Crowded(r)
  /\ GivesUpOnlyWhenCrowded

\* A step of a request moves its own locals only, and leaves companies alone.
LEMMA StepOf ==
  ASSUME IInv, NEW r \in Requests, Arrive(r) \/ Advance(r)
  PROVE  OnlyCallOf(r) /\ company' = company
<1> USE DEF Goto, Return, Remember, Enter, Resolve
<1>1. /\ company' = company
      /\ UNCHANGED pc \/ \E where : pc' = [pc EXCEPT ![r] = where]
      /\ UNCHANGED call \/ \E c : call' = [call EXCEPT ![r] = c]
  <2>1. CASE Arrive(r)
    BY <2>1 DEF Arrive, Create, Update, Transition, Delete, DeleteAsAdmin
  <2>2. CASE CreateSearchSlug(r) \/ CreateInsert(r) \/ CreateRecord(r)
    BY <2>2 DEF CreateSearchSlug, CreateInsert, CreateRecord
  <2>3. CASE Load(r) \/ Gate(r) \/ UpdateRead(r) \/ UpdateWrite(r)
    BY <2>3 DEF Load, Gate, UpdateRead, UpdateWrite
  <2>4. CASE TransitionRead(r) \/ TransitionWrite(r) \/ DeleteWrite(r) \/ RecordLast(r)
    BY <2>4 DEF TransitionRead, TransitionWrite, DeleteWrite, RecordLast
  <2> QED
    BY <2>1, <2>2, <2>3, <2>4 DEF Advance
<1>2. IInv'
  BY StepIInv DEF Next
<1> QED
  BY <1>1, <1>2 DEF OnlyCallOf, IInv, TypeOK

\* The steps that write the table.
Writes(r) == CreateInsert(r) \/ UpdateWrite(r) \/ TransitionWrite(r) \/ DeleteWrite(r)

LEMMA OnlyWrites ==
  ASSUME NEW r \in Requests, Arrive(r) \/ Advance(r), ~Writes(r)
  PROVE  UNCHANGED <<postings, past>>
<1>1. CASE Arrive(r)
  BY <1>1 DEF Arrive, Create, Update, Transition, Delete, DeleteAsAdmin, Resolve
<1>2. CASE Advance(r)
  BY <1>2 DEF Advance, Writes, CreateSearchSlug, CreateRecord, Load, Gate, UpdateRead, TransitionRead, RecordLast
<1> QED
  BY <1>1, <1>2

\* A row stays, with its company and slug, and is deleted for good.
LEMMA RowsStay ==
  ASSUME IInv, NEW r \in Requests, Arrive(r) \/ Advance(r), NEW p \in DOMAIN postings
  PROVE  /\ p \in DOMAIN postings'
         /\ postings'[p].company = postings[p].company
         /\ postings'[p].slug = postings[p].slug
         /\ postings[p].deleted => postings'[p].deleted
<1>1. postings[p] \in JobPosting
  BY DEF IInv, TypeOK
<1>2. CASE ~Writes(r)
  BY <1>2, OnlyWrites
<1>3. CASE CreateInsert(r)
  <2>1. r \notin DOMAIN postings
    BY <1>3 DEF CreateInsert, IInv, Bookkeeping, Results
  <2> QED
    BY <1>3, <2>1 DEF CreateInsert
<1>4. CASE UpdateWrite(r)
  BY <1>1, <1>4 DEF UpdateWrite, Write, JobPosting
<1>5. CASE TransitionWrite(r)
  BY <1>1, <1>5 DEF TransitionWrite, Write, JobPosting
<1>6. CASE DeleteWrite(r)
  BY <1>1, <1>6 DEF DeleteWrite, JobPosting
<1> QED
  BY <1>2, <1>3, <1>4, <1>5, <1>6 DEF Writes

\* Until it returns, a request keeps its arguments.
LEMMA ArgumentsStay ==
  ASSUME IInv, NEW r \in Requests, Advance(r), Busy(r)'
  PROVE  /\ Busy(r) /\ call[r] \in Call /\ call'[r] \in Call
         /\ call'[r].op = call[r].op /\ call'[r].user = call[r].user /\ call'[r].status = call[r].status
         /\ call'[r].late = call[r].late /\ call'[r].barred = call[r].barred
         /\ call[r].op # "create" => call'[r].posting = call[r].posting
<1>1. Busy(r)
  BY DEF Advance, CreateSearchSlug, CreateInsert, CreateRecord, Load, Gate, UpdateRead, UpdateWrite, TransitionRead,
     TransitionWrite, DeleteWrite, RecordLast, Busy, Results
<1>2. call[r] \in Call /\ call'[r] \in Call /\ DOMAIN call = Requests /\ Remembers(r)
  <2>1. IInv'
    BY StepIInv DEF Next
  <2> QED
    BY <1>1, <2>1 DEF Busy, IInv, TypeOK, RequestsRemember
<1>3. call' = [call EXCEPT ![r] = NoCall] => FALSE
  BY <1>2 DEF NoCall, Call, Ops
<1>4. CASE call' = call
  BY <1>1, <1>2, <1>4
<1>5. CASE CreateSearchSlug(r) \/ CreateInsert(r) \/ CreateRecord(r)
  BY <1>1, <1>2, <1>3, <1>5 DEF CreateSearchSlug, CreateInsert, CreateRecord, Call, Remembers, Goto, Return
<1>6. CASE UpdateRead(r) \/ TransitionRead(r)
  BY <1>1, <1>2, <1>3, <1>6 DEF UpdateRead, TransitionRead, Remember, Call, Return
<1>7. CASE Load(r) \/ Gate(r) \/ UpdateWrite(r) \/ TransitionWrite(r) \/ DeleteWrite(r) \/ RecordLast(r)
  BY <1>3, <1>4, <1>7 DEF Load, Gate, UpdateWrite, TransitionWrite, DeleteWrite, RecordLast, Goto, Return
<1> QED
  BY <1>5, <1>6, <1>7 DEF Advance

LEMMA InitWrites == Init => WritesInv
BY DEF Init, WritesInv, Busy

\* The requests that take no step.
LEMMA OthersOwned ==
  ASSUME IInv, WritesInv, NEW r \in Requests, Arrive(r) \/ Advance(r), NEW q \in Requests \ {r}, Busy(q)'
  PROVE  Owned(q)' /\ Gated(q)'
<1>1. pc'[q] = pc[q] /\ call'[q] = call[q] /\ company' = company
  BY StepOf DEF OnlyCallOf
<1>2. Owned(q) /\ Gated(q) /\ Remembers(q)
  BY <1>1 DEF WritesInv, Busy, IInv, RequestsRemember
<1>3. Gated(q)'
  BY <1>1, <1>2 DEF Gated, CanPublish
<1>4. call[q].op # "create" => call[q].posting \in DOMAIN postings
  BY <1>2 DEF Remembers
<1>5. call[q].late => call[q].posting \in DOMAIN postings
  BY <1>2, <1>4 DEF Owned, Remembers
<1>6. Owned(q)'
  BY <1>1, <1>2, <1>4, <1>5, RowsStay DEF Owned
<1> QED
  BY <1>3, <1>6

LEMMA ArriveOwned ==
  ASSUME IInv, NEW r \in Requests, Arrive(r), Busy(r)'
  PROVE  Owned(r)' /\ Gated(r)'
<1>1. pc \in [Requests -> PCs] /\ DOMAIN call = Requests /\ DOMAIN postings \subseteq Ids
      /\ postings' = postings /\ company' = company
  BY StepOf, OnlyWrites DEF IInv, TypeOK, Writes, Arrive, CreateInsert, UpdateWrite, TransitionWrite, DeleteWrite,
     Create, Update, Transition, Delete, DeleteAsAdmin, Resolve
<1>2. ASSUME NEW op, NEW c \in Companies \union {None}, NEW p \in DOMAIN postings \union {None}, NEW status,
             NEW where, Enter(r, where, Arguments(op, c, p, status)),
             op \notin {"create", "adminDelete"} => where = "load",
             p # None => where = "load",
             status = "PUBLISHED" => where \in {"gate", "load"}
      PROVE  Owned(r)' /\ Gated(r)'
  <2>1. /\ pc'[r] = where /\ call'[r].op = op /\ call'[r].user = c /\ call'[r].posting = p
        /\ call'[r].status = status /\ call'[r].late = (p # None /\ postings[p].deleted)
        /\ call'[r].barred = (c # None /\ ~CanPublish(c))
    BY <1>1, <1>2 DEF Enter, Arguments
  <2>2. Owned(r)'
    BY <1>1, <1>2, <2>1 DEF Owned
  <2>3. Gated(r)'
    BY <1>1, <1>2, <2>1 DEF Gated, CanPublish
  <2> QED
    BY <2>2, <2>3
<1>3. ~(\E result \in Results : Return(r, result))
  BY <1>1 DEF Return, Busy
<1>4. ASSUME NEW c \in Companies, NEW status \in JOB_POSTING_USER_STATUSES, Create(r, c, status)
      PROVE  Owned(r)' /\ Gated(r)'
  <2> DEFINE where == IF status = "PUBLISHED" THEN "gate" ELSE "create.slug"
  <2>1. Enter(r, where, Arguments("create", c, None, status))
    BY <1>3, <1>4 DEF Create, Resolve, Results
  <2> QED
    BY <1>2, <2>1
<1>5. ASSUME NEW c \in Companies, NEW p \in DOMAIN postings, NEW status,
             \/ Update(r, c, p, status)
             \/ Transition(r, c, p, status)
             \/ Delete(r, c, p)
      PROVE  Owned(r)' /\ Gated(r)'
  <2>1. \/ Enter(r, "load", Arguments("update", c, p, status))
        \/ Enter(r, "load", Arguments("transition", c, p, status))
        \/ Enter(r, "load", Arguments("delete", c, p, None))
    BY <1>3, <1>5 DEF Update, Transition, Delete, Resolve, Results
  <2> QED
    BY <1>2, <2>1
<1>6. ASSUME NEW p \in DOMAIN postings, DeleteAsAdmin(r, p)
      PROVE  Owned(r)' /\ Gated(r)'
  <2>1. Enter(r, "load", Arguments("adminDelete", None, p, None))
    BY <1>3, <1>6 DEF DeleteAsAdmin, Results
  <2> QED
    BY <1>2, <2>1
<1> QED
  BY <1>4, <1>5, <1>6 DEF Arrive

LEMMA AdvanceOwned ==
  ASSUME IInv, WritesInv, NEW r \in Requests, Advance(r), Busy(r)'
  PROVE  Owned(r)' /\ Gated(r)'
<1>1. /\ Owned(r) /\ Gated(r) /\ Remembers(r) /\ Busy(r)
      /\ pc \in [Requests -> PCs] /\ DOMAIN call = Requests /\ company' = company
  BY ArgumentsStay, StepOf DEF IInv, TypeOK, RequestsRemember, WritesInv
<1>2. /\ call'[r].op = call[r].op /\ call'[r].user = call[r].user /\ call'[r].status = call[r].status
      /\ call'[r].late = call[r].late /\ call'[r].barred = call[r].barred
      /\ call[r].op # "create" => call'[r].posting = call[r].posting
  BY ArgumentsStay
<1>3. \A result \in Results : ~Return(r, result)
  BY <1>1 DEF Return, Busy
<1>4. /\ ~call[r].late
      /\ pc[r] = "load" /\ call[r].op # "adminDelete" => postings[call[r].posting].company = call[r].user
  <2>1. CASE pc[r] = "load"
    <3>1. Load(r)
      BY <2>1 DEF Advance, Load, CreateSearchSlug, CreateInsert, CreateRecord, Gate, UpdateRead, UpdateWrite,
         TransitionRead, TransitionWrite, DeleteWrite, RecordLast
    <3> QED
      BY <1>1, <1>3, <3>1 DEF Load, Owns, Owned, Results
  <2>2. CASE pc[r] # "load"
    BY <1>1, <2>2 DEF Owned
  <2> QED
    BY <2>1, <2>2
<1>5. Owned(r)'
  <2>1. call[r].op # "create" => postings'[call[r].posting].company = postings[call[r].posting].company
    BY <1>1, RowsStay DEF Remembers
  <2> QED
    BY <1>1, <1>2, <1>4, <2>1 DEF Owned
<1>6. (call[r].barred => call[r].user \in Companies /\ ~CanPublish(call[r].user))'
  BY <1>1, <1>2 DEF Gated, CanPublish
<1>7. CASE Gate(r)
  <2>1. ~call[r].barred
    BY <1>1, <1>3, <1>7 DEF Gate, GateOnPublish, Gated, Results
  <2> QED
    BY <1>2, <1>5, <1>6, <2>1 DEF Gated
<1>8. CASE ~Gate(r)
  <2> DEFINE Past == {"create.slug", "create.insert", "update.read", "update.write", "transition.write"}
  <2>1. call[r].status = "PUBLISHED" /\ pc'[r] \in Past => pc[r] \in Past
    BY <1>1, <1>3, <1>8 DEF Advance, CreateSearchSlug, CreateInsert, CreateRecord, Load, AfterLoad, UpdateRead,
       UpdateWrite, TransitionRead, TransitionWrite, DeleteWrite, RecordLast, Goto, Remember, Results
  <2> QED
    BY <1>1, <1>2, <1>5, <1>6, <2>1 DEF Gated
<1> QED
  BY <1>7, <1>8

LEMMA NextWrites ==
  ASSUME IInv, WritesInv, [Next]_vars
  PROVE  WritesInv'
<1>1. CASE UNCHANGED vars
  BY <1>1 DEF vars, WritesInv, Busy, Owned, Gated, CanPublish
<1>2. ASSUME NEW r \in Requests, Arrive(r) \/ Advance(r) PROVE WritesInv'
  BY <1>2, OthersOwned, ArriveOwned, AdvanceOwned DEF WritesInv
<1>3. ASSUME NEW c \in Companies, SoftDeleteCompany(c) PROVE WritesInv'
  <2>1. \A d \in Companies : ~CanPublish(d) => ~CanPublish(d)'
    BY <1>3 DEF SoftDeleteCompany, CanPublish, IInv, TypeOK
  <2> QED
    BY <1>3, <2>1 DEF SoftDeleteCompany, WritesInv, Busy, Owned, Gated
<1>4. ASSUME NEW c \in Companies, NEW approved \in BOOLEAN, SetApprovalStatus(c, approved) PROVE WritesInv'
  <2> SUFFICES ASSUME NEW r \in Requests, Busy(r)' PROVE Owned(r)' /\ Gated(r)'
    BY DEF WritesInv
  <2>1. Owned(r) /\ Gated(r) /\ call[r] \in Call /\ postings' = postings /\ pc' = pc
    BY <1>4 DEF SetApprovalStatus, Busy, WritesInv, IInv, TypeOK
  <2>2. /\ call'[r].op = call[r].op /\ call'[r].user = call[r].user /\ call'[r].status = call[r].status
        /\ call'[r].late = call[r].late /\ call'[r].posting = call[r].posting
        /\ call'[r].barred => call[r].barred /\ ~(approved /\ call[r].user = c)
    <3>1. call[r] # NoCall
      BY <2>1 DEF Call, NoCall, Ops
    <3> QED
      BY <1>4, <2>1, <3>1 DEF SetApprovalStatus, Call
  <2>3. call'[r].barred => ~CanPublish(call[r].user)'
    BY <1>4, <2>1, <2>2 DEF SetApprovalStatus, CanPublish, IInv, TypeOK, Gated
  <2> QED
    BY <2>1, <2>2, <2>3 DEF Owned, Gated
<1> QED
  BY <1>1, <1>2, <1>3, <1>4 DEF Next, OtherServices

LEMMA WritesInvariance == Spec => [](IInv /\ WritesInv)
BY InitIInv, StepIInv, InitWrites, NextWrites, PTL DEF Spec

\* The rows that the write of r changes: one, created or loaded by r.
LEMMA WriteOfOne ==
  ASSUME IInv, NEW r \in Requests, Writes(r), NEW p \in DOMAIN postings',
         p \notin DOMAIN postings \/ postings'[p] # postings[p]
  PROVE  WrittenBy(p, r)
<1>1. pc \in [Requests -> PCs] /\ DOMAIN call = Requests /\ Remembers(r)
  BY DEF IInv, TypeOK, RequestsRemember, Writes, CreateInsert, UpdateWrite, TransitionWrite, DeleteWrite, Busy, Results
<1>2. CASE CreateInsert(r)
  BY <1>1, <1>2 DEF CreateInsert, WrittenBy, Remembers, Goto
<1>3. CASE UpdateWrite(r)
  BY <1>1, <1>3 DEF UpdateWrite, WrittenBy, Remembers, Goto, Return, Write
<1>4. CASE TransitionWrite(r)
  BY <1>1, <1>4 DEF TransitionWrite, WrittenBy, Remembers, Goto, Write
<1>5. CASE DeleteWrite(r)
  BY <1>1, <1>5 DEF DeleteWrite, WrittenBy, Remembers, Goto
<1> QED
  BY <1>2, <1>3, <1>4, <1>5 DEF Writes

\* A step that changes a row is a write of one request.
LEMMA ChangedByWrite ==
  ASSUME IInv, Next, NEW p \in DOMAIN postings',
         p \notin DOMAIN postings \/ postings'[p] # postings[p]
  PROVE  \E r \in Requests : Writes(r) /\ WrittenBy(p, r)
<1>1. postings' # postings
  OBVIOUS
<1>2. PICK r \in Requests : Arrive(r) \/ Advance(r)
  BY <1>1 DEF Next, OtherServices, SetApprovalStatus, SoftDeleteCompany
<1>3. Writes(r)
  BY <1>1, <1>2, OnlyWrites
<1> QED
  BY <1>3, WriteOfOne

LEMMA WriteIsOwned ==
  ASSUME IInv, WritesInv, NEW r \in Requests, Writes(r), NEW p \in DOMAIN postings', WrittenBy(p, r)
  PROVE  /\ call[r].op # "adminDelete" => call[r].user = postings'[p].company
         /\ ~call[r].late
<1>1. Owned(r) /\ Remembers(r) /\ pc[r] # "load" /\ pc \in [Requests -> PCs]
  BY DEF WritesInv, IInv, TypeOK, RequestsRemember, Writes, CreateInsert, UpdateWrite, TransitionWrite, DeleteWrite,
     Busy, Results
<1>2. CASE CreateInsert(r)
  <2>1. (p = r /\ call[r].op = "create" /\ ~SlugCollision(call[r].user, call[r].slug)) \/ postings' = postings
    BY <1>1, <1>2 DEF CreateInsert, Remembers, WrittenBy
  <2>2. r \notin DOMAIN postings
    BY <1>2 DEF CreateInsert, IInv, Bookkeeping, Results
  <2>3. postings'[p].company = call[r].user
    BY <1>1, <1>2, <2>1, <2>2 DEF CreateInsert, Remembers, WrittenBy
  <2> QED
    BY <1>1, <2>3 DEF Owned
<1>3. CASE UpdateWrite(r) \/ TransitionWrite(r) \/ DeleteWrite(r)
  <2>1. call[r].op # "create"
    BY <1>1, <1>3 DEF UpdateWrite, TransitionWrite, DeleteWrite, Remembers
  <2>2. p = call[r].posting /\ p \in DOMAIN postings
    BY <1>1, <2>1 DEF WrittenBy, Remembers
  <2>3. postings'[p].company = postings[p].company
    BY <1>3, <2>2, RowsStay DEF Advance
  <2> QED
    BY <1>1, <2>1, <2>2, <2>3 DEF Owned
<1> QED
  BY <1>2, <1>3 DEF Writes

\* A request writes a posting of its own company, or its own new one, or is an admin's
\* deletion; one that arrived after the deletion of a posting does not write it.
THEOREM OwnedWrites == Spec => WritesAreOwned
<1> DEFINE Written == \A p \in DOMAIN postings' :
      p \notin DOMAIN postings \/ postings'[p] # postings[p] =>
        \E r \in Requests :
          /\ WrittenBy(p, r)
          /\ call[r].op # "adminDelete" => call[r].user = postings'[p].company
          /\ ~call[r].late
<1>1. ASSUME IInv, WritesInv, [Next]_vars PROVE [Written]_vars
  <2> SUFFICES ASSUME Next, NEW p \in DOMAIN postings', p \notin DOMAIN postings \/ postings'[p] # postings[p]
               PROVE  \E r \in Requests :
                        /\ WrittenBy(p, r)
                        /\ call[r].op # "adminDelete" => call[r].user = postings'[p].company
                        /\ ~call[r].late
    BY <1>1
  <2>1. PICK r \in Requests : Writes(r) /\ WrittenBy(p, r)
    BY <1>1, ChangedByWrite
  <2> QED
    BY <1>1, <2>1, WriteIsOwned
<1>2. Spec => [][Written]_vars
  BY <1>1, WritesInvariance, PTL DEF Spec
<1> QED
  BY <1>2 DEF WritesAreOwned

LEMMA PublicationIsGated ==
  ASSUME IInv, WritesInv, NEW r \in Requests, Writes(r), NEW p \in DOMAIN postings', WrittenBy(p, r),
         postings'[p].status = "PUBLISHED", p \in DOMAIN postings => postings[p].status # "PUBLISHED"
  PROVE  ~call[r].barred
<1>1. Gated(r) /\ Remembers(r) /\ pc \in [Requests -> PCs] /\ postings \in [DOMAIN postings -> JobPosting]
  BY DEF WritesInv, IInv, TypeOK, RequestsRemember, Writes, CreateInsert, UpdateWrite, TransitionWrite, DeleteWrite,
     Busy, Results
<1>2. CASE CreateInsert(r)
  BY <1>1, <1>2 DEF CreateInsert, Remembers, WrittenBy, Gated
<1>3. CASE UpdateWrite(r) \/ TransitionWrite(r)
  <2>1. call[r].op # "create" /\ p = call[r].posting /\ p \in DOMAIN postings
    BY <1>1, <1>3 DEF UpdateWrite, TransitionWrite, Remembers, WrittenBy
  <2>2. call[r].status = "PUBLISHED"
    BY <1>1, <1>3, <2>1 DEF UpdateWrite, TransitionWrite, Write, JobPosting
  <2> QED
    BY <1>1, <1>3, <2>2 DEF UpdateWrite, TransitionWrite, Gated
<1>4. CASE DeleteWrite(r)
  <2>1. p \in DOMAIN postings /\ postings'[p].status = postings[p].status
    BY <1>1, <1>4 DEF DeleteWrite, JobPosting
  <2> QED
    BY <2>1
<1> QED
  BY <1>2, <1>3, <1>4 DEF Writes

\* Although the gate is read several statements before the write: a company that was not
\* approved at any moment of the request has published nothing with it.
THEOREM GatedPublication == Spec => PublishedUnderApproval
<1> DEFINE Published == \A p \in DOMAIN postings' :
      /\ postings'[p].status = "PUBLISHED"
      /\ p \in DOMAIN postings => postings[p].status # "PUBLISHED"
      => \E r \in Requests : WrittenBy(p, r) /\ ~call[r].barred
<1>1. ASSUME IInv, WritesInv, [Next]_vars PROVE [Published]_vars
  <2> SUFFICES ASSUME Next, NEW p \in DOMAIN postings', postings'[p].status = "PUBLISHED",
                      p \in DOMAIN postings => postings[p].status # "PUBLISHED"
               PROVE  \E r \in Requests : WrittenBy(p, r) /\ ~call[r].barred
    BY <1>1
  <2>1. p \notin DOMAIN postings \/ postings'[p] # postings[p]
    OBVIOUS
  <2>2. PICK r \in Requests : Writes(r) /\ WrittenBy(p, r)
    BY <1>1, <2>1, ChangedByWrite
  <2> QED
    BY <1>1, <2>2, PublicationIsGated
<1>2. Spec => [][Published]_vars
  BY <1>1, WritesInvariance, PTL DEF Spec
<1> QED
  BY <1>2 DEF PublishedUnderApproval

-----------------------------------------------------------------------------
(* The audit log                                                           *)

LEMMA InitAudit == Init => AuditInv
<1> SUFFICES ASSUME Init PROVE \A p \in DOMAIN postings : Due(p) = {}
  BY DEF AuditInv
<1> SUFFICES ASSUME NEW p \in DOMAIN postings PROVE Due(p) = {}
  OBVIOUS
<1>1. p \in Existing /\ p \notin Requests /\ past[p] = {"PUBLISHED", "PAUSED"} /\ ~postings[p].deleted
  BY DistinctAssumption DEF Init, NewPosting, Ids
<1> QED
  BY <1>1 DEF Due

\* A request may change what is due of the postings, or stop telling, if it has told
\* or is going to.
LEMMA AuditStep ==
  ASSUME IInv, AuditInv, NEW r \in Requests, OnlyCallOf(r), events \subseteq events',
         \A p \in DOMAIN postings' : \A t \in Due(p)' :
           \/ p \in DOMAIN postings /\ t \in Due(p) /\ ~Telling(r, p, t)
           \/ Told(p, t)'
           \/ Telling(r, p, t)'
  PROVE  AuditInv'
<1> SUFFICES ASSUME NEW p \in DOMAIN postings', NEW t \in Due(p)'
             PROVE  Told(p, t)' \/ \E q \in Requests : Telling(q, p, t)'
  BY DEF AuditInv
<1>1. CASE p \in DOMAIN postings /\ t \in Due(p) /\ ~Telling(r, p, t)
  <2>1. CASE Told(p, t)
    BY <2>1 DEF Told
  <2>2. ASSUME NEW q \in Requests, Telling(q, p, t) PROVE Telling(q, p, t)'
    <3>1. q # r
      BY <1>1, <2>2
    <3> QED
      BY <2>2, <3>1 DEF Telling, OnlyCallOf
  <2> QED
    BY <1>1, <2>1, <2>2 DEF AuditInv
<1> QED
  BY <1>1

\* Steps that write and tell nothing.
LEMMA AuditQuiet ==
  ASSUME IInv, AuditInv, NEW r \in Requests, Arrive(r) \/ Advance(r), ~Writes(r), ~CreateRecord(r), ~RecordLast(r)
  PROVE  AuditInv'
<1>1. OnlyCallOf(r) /\ postings' = postings /\ past' = past
  BY StepOf, OnlyWrites
<1>2. events' = events
  BY DEF Arrive, Create, Update, Transition, Delete, DeleteAsAdmin, Resolve, Advance, Writes, CreateSearchSlug, Load,
     Gate, UpdateRead, TransitionRead
<1>3. pc[r] \notin {"event", "create.event"}
  BY DEF Arrive, Create, Update, Transition, Delete, DeleteAsAdmin, Resolve, Enter, Advance, Writes, CreateSearchSlug,
     Load, Gate, UpdateRead, TransitionRead
<1>4. \A p, t : ~Telling(r, p, t)
  BY <1>3 DEF Telling
<1> QED
  BY <1>1, <1>2, <1>4, AuditStep DEF Due

\* Requests tell what they have written.
LEMMA AuditTell ==
  ASSUME IInv, AuditInv, NEW r \in Requests, CreateRecord(r) \/ RecordLast(r)
  PROVE  AuditInv'
<1>1. OnlyCallOf(r) /\ postings' = postings /\ past' = past
  BY StepOf, OnlyWrites DEF Advance, Writes, CreateRecord, RecordLast, CreateInsert, UpdateWrite, TransitionWrite,
     DeleteWrite
<1>2. call[r] \in Call /\ DOMAIN call = Requests /\ pc \in [Requests -> PCs] /\ Remembers(r)
  BY DEF IInv, TypeOK, RequestsRemember, CreateRecord, RecordLast, Busy, Results
<1>3. events \subseteq events'
  BY DEF CreateRecord, RecordLast, Record
<1>4. ASSUME NEW p \in DOMAIN postings, NEW t \in Due(p), Telling(r, p, t) PROVE Told(p, t)' \/ Telling(r, p, t)'
  <2>1. ASSUME [type |-> t, posting |-> p, by |-> r] \in events' PROVE Told(p, t)'
    BY <2>1 DEF Told
  <2>2. CASE RecordLast(r)
    <3>1. [type |-> t, posting |-> p, by |-> r] \in events'
      BY <1>4, <2>2 DEF RecordLast, Record, Telling
    <3> QED
      BY <2>1, <3>1
  <2>3. CASE CreateRecord(r) /\ t = "CREATED"
    <3>1. [type |-> t, posting |-> p, by |-> r] \in events'
      BY <1>4, <2>3 DEF CreateRecord, Record, Telling
    <3> QED
      BY <2>1, <3>1
  <2>4. CASE CreateRecord(r) /\ t # "CREATED"
    <3>1. p = r /\ t = call[r].status /\ call[r].op = "create"
      BY <1>2, <1>4, <2>4 DEF CreateRecord, Telling, Remembers
    <3>2. call[r].status = "PUBLISHED"
      BY <1>2, <1>4, <3>1 DEF Due, Remembers, JOB_POSTING_USER_STATUSES
    <3>3. pc'[r] = "event" /\ call'[r].posting = r /\ call'[r].status = call[r].status
      BY <1>2, <2>4, <3>2 DEF CreateRecord, Call
    <3>4. call'[r].status # None
      BY <3>2, <3>3, NullAssumption DEF Statuses
    <3> QED
      BY <3>1, <3>3, <3>4 DEF Telling
  <2> QED
    BY <2>2, <2>3, <2>4
<1>5. \A p, t : Due(p)' = Due(p)
  BY <1>1 DEF Due
<1> QED
  BY <1>1, <1>3, <1>4, <1>5, AuditStep

LEMMA AuditInsert ==
  ASSUME IInv, AuditInv, NEW r \in Requests, CreateInsert(r)
  PROVE  AuditInv'
<1>1. OnlyCallOf(r) /\ pc[r] = "create.insert" /\ pc \in [Requests -> PCs] /\ r \notin DOMAIN postings
      /\ past \in [Ids -> SUBSET Statuses] /\ DOMAIN postings \subseteq Ids /\ events' = events
  BY StepOf DEF Advance, CreateInsert, IInv, TypeOK, Bookkeeping, Results
<1>2. \A p, t : ~Telling(r, p, t)
  BY <1>1 DEF Telling
<1>3. CASE UNCHANGED <<postings, past>>
  BY <1>1, <1>2, <1>3, AuditStep DEF Due
<1>4. CASE ~UNCHANGED <<postings, past>>
  <2>1. /\ DOMAIN postings' = DOMAIN postings \union {r}
        /\ \A p \in DOMAIN postings : postings'[p] = postings[p] /\ past'[p] = past[p]
        /\ past'[r] = {call[r].status} /\ ~postings'[r].deleted
        /\ pc'[r] = "create.event" /\ call' = call
    BY <1>1, <1>4 DEF CreateInsert, Goto, Ids
  <2>2. \A p \in DOMAIN postings : Due(p)' = Due(p)
    BY <2>1 DEF Due
  <2>3. \A t \in Due(r)' : Telling(r, r, t)'
    BY <2>1 DEF Due, Telling
  <2> QED
    BY <1>1, <1>2, <2>1, <2>2, <2>3, AuditStep
<1> QED
  BY <1>3, <1>4

\* An edit, a transition or a deletion of posting p.
LEMMA AuditWrite ==
  ASSUME IInv, AuditInv, NEW r \in Requests, UpdateWrite(r) \/ TransitionWrite(r) \/ DeleteWrite(r)
  PROVE  AuditInv'
<1>0. PICK p : p = call[r].posting
  OBVIOUS
<1>1. OnlyCallOf(r) /\ pc \in [Requests -> PCs] /\ Remembers(r) /\ past \in [Ids -> SUBSET Statuses]
      /\ DOMAIN postings \subseteq Ids /\ events' = events /\ call[r] \in Call /\ DOMAIN call = Requests
      /\ postings \in [DOMAIN postings -> JobPosting]
  BY StepOf DEF Advance, UpdateWrite, TransitionWrite, DeleteWrite, IInv, TypeOK, RequestsRemember, Busy, Results
<1>2. \A q, t : ~Telling(r, q, t)
  BY DEF Telling, UpdateWrite, TransitionWrite, DeleteWrite
<1>3. p \in DOMAIN postings /\ DOMAIN postings' = DOMAIN postings
      /\ \A q \in DOMAIN postings \ {p} : postings'[q] = postings[q] /\ past'[q] = past[q]
  BY <1>0, <1>1 DEF Remembers, UpdateWrite, TransitionWrite, DeleteWrite, Write
<1>4. \A q \in DOMAIN postings \ {p} : Due(q)' = Due(q)
  BY <1>3 DEF Due
<1>5. \A t \in Due(p)' : t \in Due(p) \/ Telling(r, p, t)'
  <2>1. CASE DeleteWrite(r)
    <3>1. pc'[r] = "event" /\ call' = call /\ past' = past /\ call[r].status = None
      BY <1>1, <2>1 DEF DeleteWrite, Goto, Remembers
    <3>2. \A t \in Due(p)' : t \in Due(p) \/ t = "SOFT_DELETED"
      BY <3>1 DEF Due
    <3>3. Telling(r, p, "SOFT_DELETED")'
      BY <1>0, <3>1 DEF Telling
    <3> QED
      BY <3>2, <3>3
  <2>2. CASE TransitionWrite(r)
    <3>1. /\ pc'[r] = "event" /\ call' = call /\ past'[p] = past[p] \union {call[r].status}
          /\ call[r].status \in TransitionTarget /\ postings'[p].deleted = postings[p].deleted
      BY <1>0, <1>1, <1>3, <2>2 DEF TransitionWrite, Goto, Remembers, Write, JobPosting
    <3>2. call[r].status # None
      BY <3>1, NullAssumption DEF TransitionTarget, Statuses
    <3>3. \A t \in Due(p)' : t \in Due(p) \/ t = call[r].status
      BY <3>1 DEF Due
    <3>4. \A t : t = call[r].status => Telling(r, p, t)'
      BY <1>0, <3>1, <3>2 DEF Telling
    <3> QED
      BY <3>3, <3>4
  <2>3. CASE UpdateWrite(r)
    <3>1. /\ past'[p] = past[p] \union {call[r].status} /\ call[r].status \in JOB_POSTING_USER_STATUSES
          /\ postings'[p].deleted = postings[p].deleted
      BY <1>0, <1>1, <1>3, <2>3 DEF UpdateWrite, Remembers, Write, JobPosting
    <3>2. CASE call[r].status = "DRAFT" \/ call[r].seen = "PUBLISHED"
      <4>1. call[r].status = "DRAFT" \/ call[r].status \in past[p]
        BY <1>0, <1>1, <2>3, <3>1, <3>2 DEF UpdateWrite, Remembers, JOB_POSTING_USER_STATUSES
      <4> QED
        BY <3>1, <4>1 DEF Due
    <3>3. CASE call[r].status = "PUBLISHED" /\ call[r].seen # "PUBLISHED"
      <4>1. pc'[r] = "event" /\ call' = call
        BY <1>1, <2>3, <3>3 DEF UpdateWrite, Goto
      <4>2. \A t \in Due(p)' : t \in Due(p) \/ t = call[r].status
        BY <3>1, <4>1 DEF Due
      <4>3. \A t : t = call[r].status => Telling(r, p, t)'
        BY <1>0, <3>3, <4>1, NullAssumption DEF Telling, Statuses
      <4> QED
        BY <4>2, <4>3
    <3> QED
      BY <3>1, <3>2, <3>3 DEF JOB_POSTING_USER_STATUSES
  <2> QED
    BY <2>1, <2>2, <2>3
<1>6. ASSUME NEW q \in DOMAIN postings', NEW t \in Due(q)'
      PROVE  (q \in DOMAIN postings /\ t \in Due(q) /\ ~Telling(r, q, t)) \/ Telling(r, q, t)'
  <2>1. CASE q = p
    BY <1>2, <1>3, <1>5, <1>6, <2>1
  <2>2. CASE q # p
    BY <1>2, <1>3, <1>4, <1>6, <2>2
  <2> QED
    BY <2>1, <2>2
<1>7. events \subseteq events'
  BY <1>1
<1> QED
  BY <1>1, <1>6, <1>7, AuditStep

LEMMA NextAudit ==
  ASSUME IInv, AuditInv, [Next]_vars
  PROVE  AuditInv'
<1>1. CASE UNCHANGED vars
  BY <1>1 DEF vars, AuditInv, Due, Told, Telling
<1>2. ASSUME NEW r \in Requests, Arrive(r) \/ Advance(r) PROVE AuditInv'
  BY <1>2, AuditQuiet, AuditTell, AuditInsert, AuditWrite DEF Writes
<1>3. CASE OtherServices
  <2>1. UNCHANGED <<postings, events, past, pc>>
    BY <1>3 DEF OtherServices, SetApprovalStatus, SoftDeleteCompany
  <2>2. \A r \in Requests : pc[r] \in {"event", "create.event"} =>
          call'[r].posting = call[r].posting /\ call'[r].status = call[r].status
    BY <1>3 DEF OtherServices, SetApprovalStatus, SoftDeleteCompany, IInv, TypeOK, Call, Results
  <2>3. \A p, t : (Due(p)' = Due(p)) /\ (Told(p, t)' <=> Told(p, t))
                  /\ \A r \in Requests : Telling(r, p, t) => Telling(r, p, t)'
    BY <2>1, <2>2 DEF Due, Told, Telling
  <2> QED
    BY <2>1, <2>3 DEF AuditInv
<1> QED
  BY <1>1, <1>2, <1>3 DEF Next

-----------------------------------------------------------------------------
(* The dates                                                               *)

LEMMA EventsGrow ==
  ASSUME NEW r \in Requests, Arrive(r) \/ Advance(r)
  PROVE  events \subseteq events'
<1>1. CASE Arrive(r)
  BY <1>1 DEF Arrive, Create, Update, Transition, Delete, DeleteAsAdmin, Resolve
<1>2. CASE Advance(r)
  BY <1>2 DEF Advance, CreateSearchSlug, CreateInsert, CreateRecord, Load, Gate, UpdateRead, UpdateWrite, TransitionRead,
     TransitionWrite, DeleteWrite, RecordLast, Record
<1> QED
  BY <1>1, <1>2

\* A request leaves its event statement by recording.
LEMMA EventStep ==
  ASSUME NEW r \in Requests, Arrive(r) \/ Advance(r), pc[r] \in {"event", "create.event"}
  PROVE  CreateRecord(r) \/ RecordLast(r)
BY DEF Arrive, Create, Update, Transition, Delete, DeleteAsAdmin, Resolve, Enter, Advance, CreateSearchSlug, CreateInsert,
   Load, Gate, UpdateRead, UpdateWrite, TransitionRead, TransitionWrite, DeleteWrite

\* A date that is told stays told.
LEMMA DateStaysTold ==
  ASSUME IInv, NEW r \in Requests, Arrive(r) \/ Advance(r), NEW p, NEW at, DateTold(p, at)
  PROVE  DateTold(p, at)'
<1> SUFFICES ASSUME at \in Requests
             PROVE  [type |-> "PUBLISHED", posting |-> p, by |-> at] \in events' \/ Telling(at, p, "PUBLISHED")'
  BY DEF DateTold
<1>1. CASE [type |-> "PUBLISHED", posting |-> p, by |-> at] \in events
  BY <1>1, EventsGrow
<1>2. CASE Telling(at, p, "PUBLISHED") /\ at # r
  <2>1. pc'[at] = pc[at] /\ call'[at] = call[at]
    BY <1>2, StepOf DEF OnlyCallOf
  <2> QED
    BY <1>2, <2>1 DEF Telling
<1>3. CASE Telling(at, p, "PUBLISHED") /\ at = r
  <2>1. pc[r] \in {"event", "create.event"}
    BY <1>3 DEF Telling
  <2>2. CASE RecordLast(r)
    BY <1>3, <2>2 DEF RecordLast, Record, Telling
  <2>3. CASE CreateRecord(r)
    <3>1. p = r /\ call[r].status = "PUBLISHED"
      BY <1>3, <2>3 DEF CreateRecord, Telling
    <3>2. call[r] \in Call /\ DOMAIN call = Requests /\ pc \in [Requests -> PCs]
      BY <2>1 DEF IInv, TypeOK, Results
    <3>3. pc'[r] = "event" /\ call'[r].posting = r /\ call'[r].status = "PUBLISHED"
      BY <2>3, <3>1, <3>2 DEF CreateRecord, Call
    <3> QED
      BY <1>3, <3>1, <3>3, NullAssumption DEF Telling, Statuses
  <2> QED
    BY <2>1, <2>2, <2>3, EventStep
<1> QED
  BY <1>1, <1>2, <1>3 DEF DateTold

LEMMA InitDates == Init => DatesInv
<1> SUFFICES ASSUME Init, NEW p \in DOMAIN postings PROVE postings[p].publishedAt \notin Requests
  BY DEF Init, DatesInv, DateTold, Decided
<1> QED
  BY DistinctAssumption DEF Init, NewPosting

\* A date that r stamps is told by r, and any other is one it has read.
LEMMA DateOfWrite ==
  ASSUME IInv, DatesInv, NEW r \in Requests, UpdateWrite(r) \/ TransitionWrite(r),
         NEW p, p = call[r].posting, NEW at, at = postings'[p].publishedAt
  PROVE  DateTold(p, at)'
<1>1. /\ Remembers(r) /\ pc \in [Requests -> PCs] /\ call[r] \in Call /\ DOMAIN call = Requests
      /\ postings \in [DOMAIN postings -> JobPosting] /\ p \in DOMAIN postings
  <2>1. Remembers(r) /\ pc \in [Requests -> PCs] /\ call[r] \in Call /\ DOMAIN call = Requests
        /\ postings \in [DOMAIN postings -> JobPosting] /\ call[r].op # "create"
    BY DEF UpdateWrite, TransitionWrite, IInv, TypeOK, RequestsRemember, Busy, Results, Remembers
  <2> QED
    BY <2>1 DEF Remembers
<1>2. \A x : x = call[r].seenAt => DateTold(p, x)
  BY DEF DatesInv, Decided, UpdateWrite, TransitionWrite
<1>3. None \notin Requests
  BY DistinctAssumption
<1>4. at \notin Requests \/ at = call[r].seenAt \/ (at = r /\ pc'[r] = "event" /\ call' = call /\ call[r].status = "PUBLISHED")
  <2>1. CASE UpdateWrite(r)
    <3>1. at = StampOfEdit(r, call[r])
      BY <1>1, <2>1 DEF UpdateWrite, Write, JobPosting
    <3>2. call[r].status \in {"DRAFT", "PUBLISHED"}
      BY <1>1, <2>1 DEF UpdateWrite, Remembers, JOB_POSTING_USER_STATUSES
    <3>3. CASE call[r].status = "PUBLISHED" /\ call[r].seen # "PUBLISHED"
      BY <1>1, <2>1, <3>1, <3>3 DEF UpdateWrite, Goto, StampOfEdit
    <3>4. CASE ~(call[r].status = "PUBLISHED" /\ call[r].seen # "PUBLISHED")
      BY <1>3, <3>1, <3>2, <3>4 DEF StampOfEdit
    <3> QED
      BY <3>3, <3>4
  <2>2. CASE TransitionWrite(r)
    <3>1. at = StampOfTransition(r, call[r]) /\ pc'[r] = "event" /\ call' = call
      BY <1>1, <2>2 DEF TransitionWrite, Write, JobPosting, Goto
    <3> QED
      BY <3>1 DEF StampOfTransition
  <2> QED
    BY <2>1, <2>2
<1>5. CASE at \notin Requests
  BY <1>5 DEF DateTold
<1>6. CASE at = call[r].seenAt
  <2>1. DateTold(p, at)
    BY <1>2, <1>6
  <2> QED
    BY <2>1, DateStaysTold DEF Advance
<1>7. CASE at = r /\ pc'[r] = "event" /\ call' = call /\ call[r].status = "PUBLISHED"
  BY <1>7, NullAssumption DEF DateTold, Telling, Statuses
<1> QED
  BY <1>4, <1>5, <1>6, <1>7

\* The dates of the table.
LEMMA DatesOfTable ==
  ASSUME IInv, DatesInv, NEW r \in Requests, Arrive(r) \/ Advance(r), NEW p \in DOMAIN postings'
  PROVE  \A at : at = postings'[p].publishedAt => DateTold(p, at)'
<1> SUFFICES ASSUME NEW at, at = postings'[p].publishedAt PROVE DateTold(p, at)'
  OBVIOUS
<1>1. CASE p \in DOMAIN postings /\ postings'[p].publishedAt = postings[p].publishedAt
  <2>1. DateTold(p, at)
    BY <1>1 DEF DatesInv
  <2> QED
    BY <2>1, DateStaysTold
<1>2. CASE (UpdateWrite(r) \/ TransitionWrite(r)) /\ p = call[r].posting
  BY <1>2, DateOfWrite
<1>3. CASE CreateInsert(r) /\ p = r
  <2>1. r \notin DOMAIN postings /\ pc \in [Requests -> PCs]
    BY <1>3 DEF CreateInsert, IInv, TypeOK, Bookkeeping, Results
  <2>2. pc'[r] = "create.event" /\ call' = call /\ at = IF call[r].status = "PUBLISHED" THEN r ELSE None
    BY <1>3, <2>1 DEF CreateInsert, Goto
  <2> QED
    BY <1>3, <2>2, DistinctAssumption DEF DateTold, Telling
<1>4. \/ p \in DOMAIN postings /\ postings'[p].publishedAt = postings[p].publishedAt
      \/ (UpdateWrite(r) \/ TransitionWrite(r)) /\ p = call[r].posting
      \/ CreateInsert(r) /\ p = r
  <2>1. CASE ~Writes(r)
    BY <2>1, OnlyWrites
  <2>2. CASE CreateInsert(r)
    BY <2>2 DEF CreateInsert
  <2>3. CASE UpdateWrite(r) \/ TransitionWrite(r)
    BY <2>3 DEF UpdateWrite, TransitionWrite, Write
  <2>4. CASE DeleteWrite(r)
    <3>1. DOMAIN postings' = DOMAIN postings /\ postings[p] \in JobPosting
      BY <2>4 DEF DeleteWrite, IInv, TypeOK
    <3> QED
      BY <2>4, <3>1 DEF DeleteWrite, JobPosting
  <2> QED
    BY <2>1, <2>2, <2>3, <2>4 DEF Writes
<1> QED
  BY <1>1, <1>2, <1>3, <1>4

\* The dates that requests carry to their writes.
LEMMA DatesOfRequests ==
  ASSUME IInv, DatesInv, NEW r \in Requests, Arrive(r) \/ Advance(r), NEW q \in Requests,
         (pc[q] = "update.write" \/ Decided(q))'
  PROVE  \A p, at : p = call'[q].posting /\ at = call'[q].seenAt => DateTold(p, at)'
<1> SUFFICES ASSUME NEW p, NEW at, p = call'[q].posting, at = call'[q].seenAt PROVE DateTold(p, at)'
  OBVIOUS
<1>1. CASE (pc[q] = "update.write" \/ Decided(q)) /\ call'[q].posting = call[q].posting /\ call'[q].seenAt = call[q].seenAt
  <2>1. DateTold(p, at)
    BY <1>1 DEF DatesInv
  <2> QED
    BY <2>1, DateStaysTold
<1>2. CASE p \in DOMAIN postings /\ at = postings[p].publishedAt
  <2>1. DateTold(p, at)
    BY <1>2 DEF DatesInv
  <2> QED
    BY <2>1, DateStaysTold
<1>3. CASE q # r
  <2>1. pc'[q] = pc[q] /\ call'[q] = call[q]
    BY <1>3, StepOf DEF OnlyCallOf
  <2> QED
    BY <1>1, <2>1 DEF Decided
<1>4. CASE q = r
  <2>1. CASE UpdateRead(r) \/ TransitionRead(r)
    <3>1. call[r] \in Call /\ DOMAIN call = Requests /\ pc \in [Requests -> PCs] /\ Remembers(r)
      BY <2>1 DEF UpdateRead, TransitionRead, IInv, TypeOK, RequestsRemember, Busy, Results
    <3>2. call[r].posting \in DOMAIN postings
      BY <2>1, <3>1 DEF UpdateRead, TransitionRead, Remembers
    <3>3. pc'[r] # "refused"
      BY <1>4 DEF Decided
    <3>4. call'[r].posting = call[r].posting /\ call'[r].seenAt = postings[call[r].posting].publishedAt
      BY <2>1, <3>1, <3>3 DEF UpdateRead, TransitionRead, Remember, Return, Call
    <3> QED
      BY <1>2, <1>4, <3>2, <3>4
  <2>2. CASE Gate(r)
    <3>1. call[r] \in Call /\ DOMAIN call = Requests /\ pc \in [Requests -> PCs] /\ Remembers(r)
      BY <2>2 DEF Gate, IInv, TypeOK, RequestsRemember, Busy, Results
    <3>2. pc'[r] # "refused" /\ pc'[r] \in {"update.write", "transition.write", "gate"}
      BY <1>4 DEF Decided
    <3>3. call' = call /\ pc'[r] = AfterGate(call[r].op)
      BY <2>2, <3>1, <3>2 DEF Gate, Goto, Return
    <3>4. call[r].op = "transition"
      BY <2>2, <3>1, <3>2, <3>3 DEF AfterGate, Gate, Remembers
    <3> QED
      BY <1>1, <1>4, <2>2, <3>3, <3>4 DEF Decided, Gate
  <2>3. CASE Arrive(r)
    <3>1. pc'[r] \in {"refused", "load", "gate", "create.slug"} /\ (pc'[r] = "gate" => call'[r].op = "create")
      <4>1. pc \in [Requests -> PCs] /\ DOMAIN call = Requests
        BY DEF IInv, TypeOK
      <4>2. ASSUME NEW c \in Companies, NEW status \in JOB_POSTING_USER_STATUSES, Create(r, c, status)
            PROVE  <3>1!:
        BY <4>1, <4>2 DEF Create, Resolve, Enter, Return, Arguments
      <4>3. ASSUME NEW c \in Companies, NEW x \in DOMAIN postings, NEW status,
                   Update(r, c, x, status) \/ Transition(r, c, x, status) \/ Delete(r, c, x)
            PROVE  <3>1!:
        BY <4>1, <4>3 DEF Update, Transition, Delete, Resolve, Enter, Return
      <4>4. ASSUME NEW x \in DOMAIN postings, DeleteAsAdmin(r, x)
            PROVE  <3>1!:
        BY <4>1, <4>4 DEF DeleteAsAdmin, Enter, Return
      <4> QED
        BY <2>3, <4>2, <4>3, <4>4 DEF Arrive
    <3> QED
      BY <1>4, <3>1 DEF Decided
  <2>4. CASE Load(r) \/ CreateSearchSlug(r)
    <3>1. call[r] \in Call /\ DOMAIN call = Requests /\ pc \in [Requests -> PCs] /\ Remembers(r)
      BY <2>4 DEF Load, CreateSearchSlug, IInv, TypeOK, RequestsRemember, Busy, Results
    <3>2. CASE Load(r)
      <4>1. pc'[r] = "refused" \/ (call' = call /\ pc'[r] = AfterLoad(call[r]))
        BY <3>1, <3>2 DEF Load, Goto, Return
      <4> QED
        BY <1>4, <4>1 DEF AfterLoad, Decided
    <3>3. CASE CreateSearchSlug(r)
      <4>1. pc'[r] \in {"create.insert", "threw", "create.slug"}
        BY <3>1, <3>3 DEF CreateSearchSlug, Goto, Return
      <4> QED
        BY <1>4, <4>1 DEF Decided
    <3> QED
      BY <2>4, <3>2, <3>3
  <2>5. CASE CreateInsert(r) \/ CreateRecord(r) \/ UpdateWrite(r) \/ TransitionWrite(r) \/ DeleteWrite(r) \/ RecordLast(r)
    <3>1. pc \in [Requests -> PCs]
      BY DEF IInv, TypeOK
    <3>2. pc'[r] \in {"create.event", "create.slug", "event"} \union Results
      BY <2>5, <3>1 DEF CreateInsert, CreateRecord, UpdateWrite, TransitionWrite, DeleteWrite, RecordLast, Goto, Return,
         Results
    <3> QED
      BY <1>4, <3>2 DEF Decided, Results
  <2> QED
    BY <2>1, <2>2, <2>3, <2>4, <2>5 DEF Advance
<1> QED
  BY <1>3, <1>4

LEMMA NextDates ==
  ASSUME IInv, DatesInv, [Next]_vars
  PROVE  DatesInv'
<1>1. CASE UNCHANGED vars
  BY <1>1 DEF vars, DatesInv, DateTold, Telling, Decided
<1>2. ASSUME NEW r \in Requests, Arrive(r) \/ Advance(r) PROVE DatesInv'
  <2>1. ASSUME NEW p \in DOMAIN postings' PROVE DateTold(p, postings[p].publishedAt)'
    <3>1. PICK at : at = postings'[p].publishedAt
      OBVIOUS
    <3>2. DateTold(p, at)'
      BY <1>2, <3>1, DatesOfTable
    <3> QED
      BY <3>1, <3>2 DEF DateTold, Telling
  <2>2. ASSUME NEW q \in Requests, (pc[q] = "update.write" \/ Decided(q))'
        PROVE  DateTold(call[q].posting, call[q].seenAt)'
    <3>1. PICK p, at : p = call'[q].posting /\ at = call'[q].seenAt
      OBVIOUS
    <3>2. DateTold(p, at)'
      BY <1>2, <2>2, <3>1, DatesOfRequests
    <3> QED
      BY <3>1, <3>2 DEF DateTold, Telling
  <2> QED
    BY <2>1, <2>2 DEF DatesInv
<1>3. CASE OtherServices
  <2>1. UNCHANGED <<postings, events, past, pc>>
    BY <1>3 DEF OtherServices, SetApprovalStatus, SoftDeleteCompany
  <2>2. \A q \in Requests : Busy(q) =>
          /\ call'[q].posting = call[q].posting /\ call'[q].status = call[q].status
          /\ call'[q].op = call[q].op /\ call'[q].seenAt = call[q].seenAt
    BY <1>3 DEF OtherServices, SetApprovalStatus, SoftDeleteCompany, IInv, TypeOK, Call, Busy
  <2>3. \A p, at : DateTold(p, at) => DateTold(p, at)'
    BY <2>1, <2>2 DEF DateTold, Telling, Busy, Results
  <2>4. ASSUME NEW p \in DOMAIN postings' PROVE DateTold(p, postings[p].publishedAt)'
    BY <2>1, <2>3 DEF DatesInv, DateTold, Telling
  <2>5. ASSUME NEW q \in Requests, (pc[q] = "update.write" \/ Decided(q))'
        PROVE  DateTold(call[q].posting, call[q].seenAt)'
    <3>1. Busy(q) /\ (pc[q] = "update.write" \/ Decided(q))
      BY <2>1, <2>2, <2>5 DEF Decided, Busy, Results
    <3>2. PICK p, at : p = call[q].posting /\ at = call[q].seenAt
      OBVIOUS
    <3>3. DateTold(p, at)
      BY <3>1, <3>2 DEF DatesInv
    <3>4. DateTold(p, at)'
      BY <2>3, <3>3
    <3>5. p = call'[q].posting /\ at = call'[q].seenAt
      BY <2>2, <3>1, <3>2
    <3> QED
      BY <3>4, <3>5 DEF DateTold, Telling
  <2> QED
    BY <2>4, <2>5 DEF DatesInv
<1> QED
  BY <1>1, <1>2, <1>3 DEF Next

-----------------------------------------------------------------------------
(* Honest events                                                           *)

LEMMA PastGrows ==
  ASSUME IInv, NEW r \in Requests, Arrive(r) \/ Advance(r), NEW p \in DOMAIN postings
  PROVE  past[p] \subseteq past'[p]
<1>1. CASE ~Writes(r) \/ DeleteWrite(r)
  BY <1>1, OnlyWrites DEF DeleteWrite
<1>2. CASE CreateInsert(r)
  <2>1. p # r /\ p \in Ids /\ past \in [Ids -> SUBSET Statuses]
    BY <1>2 DEF CreateInsert, IInv, TypeOK, Bookkeeping, Results
  <2>2. past' = past \/ past' = [past EXCEPT ![r] = {call[r].status}]
    BY <1>2 DEF CreateInsert
  <2> QED
    BY <2>1, <2>2
<1>3. CASE UpdateWrite(r) \/ TransitionWrite(r)
  <2>1. past \in [Ids -> SUBSET Statuses] /\ p \in Ids
    BY DEF IInv, TypeOK
  <2> QED
    BY <1>3, <2>1 DEF UpdateWrite, TransitionWrite, Write
<1> QED
  BY <1>1, <1>2, <1>3 DEF Writes

\* What has happened stays so.
LEMMA HappenedStays ==
  ASSUME IInv, NEW r \in Requests, Arrive(r) \/ Advance(r), NEW e, Happened(e)
  PROVE  Happened(e)'
<1>1. PICK p \in DOMAIN postings : p = e.posting
  BY DEF Happened
<1>2. p \in DOMAIN postings' /\ (postings[p].deleted => postings'[p].deleted) /\ past[p] \subseteq past'[p]
  BY RowsStay, PastGrows
<1> QED
  BY <1>1, <1>2 DEF Happened

\* A request is honest about what it wrote.
LEMMA WritesAreHonest ==
  ASSUME IInv, HonestInv, NEW r \in Requests, Arrive(r) \/ Advance(r)
  PROVE  Honest(r)'
<1>1. pc \in [Requests -> PCs] /\ DOMAIN call = Requests
  BY DEF IInv, TypeOK
<1>2. CASE CreateInsert(r)
  <2>1. past \in [Ids -> SUBSET Statuses] /\ r \in Ids
    BY DEF IInv, TypeOK, Ids
  <2>2. pc'[r] \in {"create.event", "create.slug", "threw"}
        /\ (pc'[r] = "create.event" => call' = call /\ call[r].status \in past'[r])
    BY <1>1, <1>2, <2>1 DEF CreateInsert, Goto, Return
  <2> QED
    BY <2>2 DEF Honest
<1>3. CASE UpdateWrite(r) \/ TransitionWrite(r)
  <2>1. Remembers(r) /\ past \in [Ids -> SUBSET Statuses] /\ DOMAIN postings \subseteq Ids
    BY <1>3 DEF UpdateWrite, TransitionWrite, IInv, TypeOK, RequestsRemember, Busy, Results
  <2>2. call[r].posting \in Ids
    BY <1>3, <2>1 DEF UpdateWrite, TransitionWrite, Remembers
  <2>3. call[r].status \in past'[call[r].posting]
    BY <1>3, <2>1, <2>2 DEF UpdateWrite, TransitionWrite, Write
  <2>4. pc'[r] = "ok" \/ (pc'[r] = "event" /\ call' = call)
    BY <1>1, <1>3 DEF UpdateWrite, TransitionWrite, Goto, Return
  <2>5. call[r].status # None
    BY <1>3, <2>1, NullAssumption DEF UpdateWrite, TransitionWrite, Remembers, JOB_POSTING_USER_STATUSES, TransitionTarget,
       Statuses
  <2> QED
    BY <2>3, <2>4, <2>5 DEF Honest
<1>4. CASE DeleteWrite(r)
  <2>1. Remembers(r) /\ postings \in [DOMAIN postings -> JobPosting]
    BY <1>4 DEF DeleteWrite, IInv, TypeOK, RequestsRemember, Busy, Results
  <2>2. call[r].posting \in DOMAIN postings /\ call[r].status = None
    BY <1>4, <2>1 DEF DeleteWrite, Remembers
  <2>3. postings'[call[r].posting].deleted /\ pc'[r] = "event" /\ call' = call
    BY <1>1, <1>4, <2>1, <2>2 DEF DeleteWrite, Goto, JobPosting
  <2> QED
    BY <2>2, <2>3 DEF Honest
<1>5. CASE CreateRecord(r)
  <2>1. call[r] \in Call /\ Honest(r) /\ UNCHANGED <<postings, past>>
    BY <1>5 DEF CreateRecord, HonestInv, IInv, TypeOK, Results
  <2>2. \/ pc'[r] = "ok"
        \/ pc'[r] = "event" /\ call'[r].posting = r /\ call'[r].status = "PUBLISHED" /\ call[r].status = "PUBLISHED"
    BY <1>1, <1>5, <2>1 DEF CreateRecord, Return, Call
  <2>3. "PUBLISHED" # None
    BY NullAssumption DEF Statuses
  <2> QED
    BY <1>5, <2>1, <2>2, <2>3 DEF Honest, CreateRecord
<1>6. CASE RecordLast(r)
  <2>1. pc'[r] = "ok"
    BY <1>1, <1>6 DEF RecordLast, Return
  <2> QED
    BY <2>1 DEF Honest
<1>7. CASE ~Writes(r) /\ ~CreateRecord(r) /\ ~RecordLast(r)
  <2>1. pc'[r] \notin {"event", "create.event"}
    <3>1. CASE Arrive(r)
      <4>1. ASSUME NEW c \in Companies, NEW status, Create(r, c, status) PROVE <2>1!:
        BY <1>1, <4>1 DEF Create, Resolve, Enter, Return
      <4>2. ASSUME NEW c \in Companies, NEW x \in DOMAIN postings, NEW status,
                   Update(r, c, x, status) \/ Transition(r, c, x, status) \/ Delete(r, c, x)
            PROVE  <2>1!:
        BY <1>1, <4>2 DEF Update, Transition, Delete, Resolve, Enter, Return
      <4>3. ASSUME NEW x \in DOMAIN postings, DeleteAsAdmin(r, x) PROVE <2>1!:
        BY <1>1, <4>3 DEF DeleteAsAdmin, Enter, Return
      <4> QED
        BY <3>1, <4>1, <4>2, <4>3 DEF Arrive
    <3>2. CASE CreateSearchSlug(r)
      BY <1>1, <3>2 DEF CreateSearchSlug, Goto, Return
    <3>3. CASE Load(r)
      <4>1. pc'[r] \in {"refused", AfterLoad(call[r])}
        BY <1>1, <3>3 DEF Load, Goto, Return
      <4> QED
        BY <4>1 DEF AfterLoad
    <3>4. CASE Gate(r)
      <4>1. call[r].op \in {"create", "update", "transition"}
        BY <3>4 DEF Gate, IInv, RequestsRemember, Busy, Results, Remembers
      <4>2. pc'[r] \in {"refused", AfterGate(call[r].op)}
        BY <1>1, <3>4 DEF Gate, Goto, Return
      <4> QED
        BY <4>1, <4>2 DEF AfterGate
    <3>5. CASE UpdateRead(r) \/ TransitionRead(r)
      BY <1>1, <3>5 DEF UpdateRead, TransitionRead, Remember, Return
    <3> QED
      BY <1>7, <3>1, <3>2, <3>3, <3>4, <3>5 DEF Advance, Writes
  <2> QED
    BY <2>1 DEF Honest
<1> QED
  BY <1>2, <1>3, <1>4, <1>5, <1>6, <1>7 DEF Writes

LEMMA InitHonest == Init => HonestInv
BY DEF Init, HonestInv, Honest

\* A request records what it has been honest about.
LEMMA RecordsHappened ==
  ASSUME IInv, HonestInv, NEW r \in Requests, Arrive(r) \/ Advance(r), NEW e \in events'
  PROVE  Happened(e)'
<1>1. CASE e \in events
  BY <1>1, HappenedStays DEF HonestInv
<1>2. CASE CreateRecord(r) /\ e \notin events
  <2>1. e = [type |-> "CREATED", posting |-> r, by |-> r] /\ UNCHANGED postings
    BY <1>2 DEF CreateRecord, Record
  <2>2. r \in DOMAIN postings
    BY <1>2 DEF CreateRecord, IInv, RequestsRemember, Busy, Results, Remembers
  <2> QED
    BY <2>1, <2>2 DEF Happened
<1>3. CASE RecordLast(r) /\ e \notin events
  <2>1. /\ e = [type |-> IF call[r].status = None THEN "SOFT_DELETED" ELSE call[r].status,
                posting |-> call[r].posting, by |-> r]
        /\ UNCHANGED <<postings, past>>
    BY <1>3 DEF RecordLast, Record
  <2>2. Remembers(r) /\ Honest(r) /\ pc[r] = "event"
    BY <1>3 DEF RecordLast, HonestInv, IInv, RequestsRemember, Busy, Results
  <2>3. call[r].posting \in DOMAIN postings /\ call[r].status \in TransitionTarget \union {None}
    BY <2>2 DEF Remembers
  <2>4. CASE call[r].status = None
    BY <2>1, <2>2, <2>3, <2>4 DEF Happened, Honest
  <2>5. CASE call[r].status # None
    <3>1. e.type = call[r].status /\ e.type \notin {"CREATED", "SOFT_DELETED"} /\ e.posting = call[r].posting
      BY <2>1, <2>3, <2>5 DEF TransitionTarget
    <3> QED
      BY <2>1, <2>2, <2>3, <2>5, <3>1 DEF Happened, Honest
  <2> QED
    BY <2>4, <2>5
<1>4. e \in events \/ CreateRecord(r) \/ RecordLast(r)
  <2>1. CASE Arrive(r)
    BY <2>1 DEF Arrive, Create, Update, Transition, Delete, DeleteAsAdmin, Resolve
  <2>2. CASE Advance(r)
    BY <2>2 DEF Advance, CreateSearchSlug, CreateInsert, Load, Gate, UpdateRead, UpdateWrite, TransitionRead,
       TransitionWrite, DeleteWrite
  <2> QED
    BY <2>1, <2>2
<1> QED
  BY <1>1, <1>2, <1>3, <1>4

LEMMA NextHonest ==
  ASSUME IInv, HonestInv, [Next]_vars
  PROVE  HonestInv'
<1>1. CASE UNCHANGED vars
  BY <1>1 DEF vars, HonestInv, Honest, Happened
<1>2. ASSUME NEW r \in Requests, Arrive(r) \/ Advance(r) PROVE HonestInv'
  <2>1. ASSUME NEW q \in Requests \ {r} PROVE Honest(q)'
    <3>1. pc'[q] = pc[q] /\ call'[q] = call[q] /\ Honest(q)
      BY <1>2, StepOf DEF OnlyCallOf, HonestInv
    <3>2. CASE pc[q] = "event"
      <4>1. PICK p \in DOMAIN postings : p = call[q].posting
        BY <3>2 DEF IInv, RequestsRemember, Busy, Results, Remembers
      <4>2. (postings[p].deleted => postings'[p].deleted) /\ past[p] \subseteq past'[p]
        BY <1>2, RowsStay, PastGrows
      <4> QED
        BY <3>1, <3>2, <4>1, <4>2 DEF Honest
    <3>3. CASE pc[q] = "create.event"
      <4>1. q \in DOMAIN postings
        BY <3>3 DEF IInv, RequestsRemember, Busy, Results, Remembers
      <4>2. past[q] \subseteq past'[q]
        BY <1>2, <4>1, PastGrows
      <4> QED
        BY <3>1, <3>3, <4>2 DEF Honest
    <3> QED
      BY <3>1, <3>2, <3>3 DEF Honest
  <2> QED
    BY <1>2, <2>1, WritesAreHonest, RecordsHappened DEF HonestInv
<1>3. CASE OtherServices
  <2>1. UNCHANGED <<postings, events, past, pc>>
    BY <1>3 DEF OtherServices, SetApprovalStatus, SoftDeleteCompany
  <2>2. \A q \in Requests : Busy(q) => call'[q].posting = call[q].posting /\ call'[q].status = call[q].status
    BY <1>3 DEF OtherServices, SetApprovalStatus, SoftDeleteCompany, IInv, TypeOK, Call, Busy
  <2> QED
    BY <2>1, <2>2 DEF HonestInv, Honest, Happened, Busy, Results
<1> QED
  BY <1>1, <1>2, <1>3 DEF Next

\* Every creation, deletion and status but DRAFT has its event, unless the request that
\* wrote it is, or died, at the statement that records it; so has every publication date;
\* and every event tells of what has happened.
THEOREM CompleteAudit == Spec => []AuditComplete
<1>1. IInv /\ AuditInv /\ DatesInv /\ HonestInv => AuditComplete
  BY DEF AuditInv, DatesInv, HonestInv, AuditComplete
<1>2. Spec => [](IInv /\ AuditInv /\ DatesInv /\ HonestInv)
  BY InitIInv, StepIInv, InitAudit, NextAudit, InitDates, NextDates, InitHonest, NextHonest, PTL DEF Spec
<1> QED
  BY <1>1, <1>2, PTL

-----------------------------------------------------------------------------
(* Giving up                                                               *)

LEMMA InitCrowd == Init => CrowdInv
BY ExistingAssumption DEF Init, CrowdInv, Busy, GivesUpOnlyWhenCrowded

\* A step adds at most the posting of its request: only then is a slug taken.
LEMMA TableGrows ==
  ASSUME IInv, CrowdInv, NEW r \in Requests, Arrive(r) \/ Advance(r)
  PROVE  /\ IsFiniteSet(DOMAIN postings')
         /\ Cardinality(DOMAIN postings) <= Cardinality(DOMAIN postings')
         /\ Created \in Nat /\ Created' \in Nat /\ Created <= Created'
         /\ Cardinality(DOMAIN postings) \in Nat /\ Cardinality(DOMAIN postings') \in Nat
         /\ \A c, s : SlugCollision(c, s)' /\ ~SlugCollision(c, s) => Created' = Created + 1
<1>1. CASE DOMAIN postings' = DOMAIN postings
  <2>1. \A c, s : SlugCollision(c, s)' => SlugCollision(c, s)
    BY <1>1, RowsStay DEF SlugCollision, Holding
  <2>2. IsFiniteSet(DOMAIN postings \intersect Requests)
    BY FS_Subset, DOMAIN postings \intersect Requests \in SUBSET DOMAIN postings DEF CrowdInv
  <2>3. Created \in Nat /\ Created' = Created
    BY <1>1, <2>2, FS_CardinalityType DEF Created
  <2>4. Cardinality(DOMAIN postings) \in Nat
    BY FS_CardinalityType DEF CrowdInv
  <2> QED
    BY <1>1, <2>1, <2>3, <2>4 DEF CrowdInv
<1>2. CASE DOMAIN postings' # DOMAIN postings
  <2> DEFINE M == DOMAIN postings \intersect Requests
  <2>1. CreateInsert(r)
    <3>1. Writes(r)
      BY <1>2, OnlyWrites
    <3> QED
      BY <1>2, <3>1 DEF Writes, UpdateWrite, TransitionWrite, DeleteWrite, Write
  <2>2. r \notin DOMAIN postings /\ DOMAIN postings' = DOMAIN postings \union {r}
    BY <1>2, <2>1 DEF CreateInsert, IInv, Bookkeeping, Results
  <2>3. IsFiniteSet(DOMAIN postings) /\ IsFiniteSet(M)
    BY FS_Subset, M \in SUBSET DOMAIN postings DEF CrowdInv
  <2>4. r \notin M /\ DOMAIN postings' \intersect Requests = M \union {r}
    BY <2>2
  <2>5. Cardinality(M) \in Nat /\ Cardinality(DOMAIN postings) \in Nat
    BY <2>3, FS_CardinalityType
  <2>6. Cardinality(M \union {r}) = Cardinality(M) + 1
    BY <2>3, <2>4, FS_AddElement
  <2>7. /\ IsFiniteSet(DOMAIN postings \union {r})
        /\ Cardinality(DOMAIN postings \union {r}) = Cardinality(DOMAIN postings) + 1
    BY <2>2, <2>3, FS_AddElement
  <2>8. Created = Cardinality(M) /\ Created' = Cardinality(M) + 1
    BY <2>4, <2>6 DEF Created
  <2> HIDE DEF M
  <2> QED
    BY <2>2, <2>5, <2>7, <2>8
<1> QED
  BY <1>1, <1>2

\* When every slug is that of some posting, there are as many postings.
LEMMA AllSlugsUsed ==
  ASSUME TypeOK, IsFiniteSet(DOMAIN postings), \A i \in Slugs : \E p \in DOMAIN postings : postings[p].slug = i
  PROVE  Cardinality(DOMAIN postings) >= MaxCandidates
<1> DEFINE slugOf == [p \in DOMAIN postings |-> postings[p].slug]
<1>1. slugOf \in [DOMAIN postings -> Slugs]
  BY DEF TypeOK, JobPosting
<1>2. slugOf \in Surjection(DOMAIN postings, Slugs)
  BY <1>1 DEF Surjection
<1>3. Cardinality(Slugs) <= Cardinality(DOMAIN postings)
  BY <1>2, FS_Surjection
<1>4. Cardinality(Slugs) = MaxCandidates
  BY FS_Interval, BoundsAssumption DEF Slugs
<1>5. Cardinality(DOMAIN postings) \in Nat
  BY FS_CardinalityType
<1> QED
  BY <1>3, <1>4, <1>5, BoundsAssumption

\* Every slug that was used still is.
LEMMA StillUsed ==
  ASSUME IInv, NEW r \in Requests, Arrive(r) \/ Advance(r), NEW i, \E p \in DOMAIN postings : postings[p].slug = i
  PROVE  \E p \in DOMAIN postings' : postings'[p].slug = i
BY RowsStay

\* Crowded in the next state, by the arguments of that state.
LEMMA CrowdedNext ==
  ASSUME NEW q, NEW c, c = call'[q].user, NEW s, s = call'[q].slug, call'[q].attempt <= Created',
         pc'[q] = "create.insert" /\ SlugCollision(c, s)' => call'[q].attempt + 1 <= Created',
         \A i \in 1..(s - 1) : \E p \in DOMAIN postings' : postings'[p].slug = i
  PROVE  Crowded(q)'
BY DEF Crowded, SlugCollision, Holding

\* The requests that take no step.
LEMMA OthersCrowded ==
  ASSUME IInv, CrowdInv, NEW r \in Requests, Arrive(r) \/ Advance(r), NEW q \in Requests \ {r}
  PROVE  /\ Busy(q)' => Crowded(q)'
         /\ pc'[q] = "threw" =>
              \/ Cardinality(DOMAIN postings' \intersect Requests) >= MaxRetries
              \/ Cardinality(DOMAIN postings') >= MaxCandidates
<1>1. pc'[q] = pc[q] /\ call'[q] = call[q]
  BY StepOf DEF OnlyCallOf
<1>2. ASSUME Busy(q) PROVE Crowded(q)'
  <2>1. call[q].attempt \in Nat /\ call[q].slug \in Nat /\ Crowded(q)
    BY <1>2, BoundsAssumption DEF IInv, TypeOK, CrowdInv, Busy, Call, Slugs
  <2>2. call'[q].attempt <= Created'
    BY <1>1, <2>1, TableGrows DEF Crowded
  <2>3. PICK c, s : c = call[q].user /\ s = call[q].slug
    OBVIOUS
  <2>4. pc'[q] = "create.insert" /\ SlugCollision(c, s)' => call'[q].attempt + 1 <= Created'
    BY <1>1, <2>1, <2>3, TableGrows DEF Crowded
  <2>5. \A i \in 1..(s - 1) : \E p \in DOMAIN postings' : postings'[p].slug = i
    BY <2>1, <2>3, StillUsed DEF Crowded
  <2> QED
    BY <1>1, <2>2, <2>3, <2>4, <2>5, CrowdedNext
<1>3. ASSUME pc[q] = "threw"
      PROVE  \/ Cardinality(DOMAIN postings' \intersect Requests) >= MaxRetries
             \/ Cardinality(DOMAIN postings') >= MaxCandidates
  BY <1>3, TableGrows, BoundsAssumption DEF CrowdInv, GivesUpOnlyWhenCrowded, Created
<1> QED
  BY <1>1, <1>2, <1>3 DEF Busy

\* Steps of a request that neither search for a slug nor insert.
LEMMA KeepsItsSlug ==
  ASSUME IInv, CrowdInv, NEW r \in Requests, Advance(r), ~CreateSearchSlug(r), ~CreateInsert(r)
  PROVE  /\ Busy(r)' => Crowded(r)'
         /\ pc'[r] # "threw"
<1>1. OnlyCallOf(r) /\ Busy(r) /\ call[r] \in Call /\ DOMAIN call = Requests /\ pc \in [Requests -> PCs] /\ Crowded(r)
  BY StepOf DEF IInv, TypeOK, CrowdInv, Busy, Results, Advance, CreateSearchSlug, CreateInsert, CreateRecord, Load,
     Gate, UpdateRead, UpdateWrite, TransitionRead, TransitionWrite, DeleteWrite, RecordLast
<1>2. pc'[r] # "create.insert" /\ pc'[r] # "threw"
  <2>1. CASE Load(r) \/ Gate(r)
    BY <1>1, <2>1 DEF Load, Gate, AfterLoad, AfterGate, Goto, Return, IInv, RequestsRemember, Remembers
  <2>2. CASE CreateRecord(r) \/ RecordLast(r) \/ UpdateWrite(r) \/ TransitionWrite(r) \/ DeleteWrite(r)
    BY <1>1, <2>2 DEF CreateRecord, RecordLast, UpdateWrite, TransitionWrite, DeleteWrite, Goto, Return
  <2>3. CASE UpdateRead(r) \/ TransitionRead(r)
    BY <1>1, <2>3 DEF UpdateRead, TransitionRead, Remember, Return
  <2> QED
    BY <2>1, <2>2, <2>3 DEF Advance
<1>3. ASSUME Busy(r)' PROVE call'[r].attempt = call[r].attempt /\ call'[r].slug = call[r].slug
  <2>1. CASE CreateRecord(r)
    BY <1>1, <1>3, <2>1 DEF CreateRecord, Return, Busy, Results, Call
  <2>2. CASE UpdateRead(r) \/ TransitionRead(r)
    BY <1>1, <1>3, <2>2 DEF UpdateRead, TransitionRead, Remember, Return, Busy, Results, Call
  <2>3. CASE Load(r) \/ Gate(r) \/ RecordLast(r) \/ UpdateWrite(r) \/ TransitionWrite(r) \/ DeleteWrite(r)
    BY <1>1, <1>3, <2>3 DEF Load, Gate, RecordLast, UpdateWrite, TransitionWrite, DeleteWrite, Goto, Return, Busy,
       Results
  <2> QED
    BY <2>1, <2>2, <2>3 DEF Advance
<1>4. call[r].attempt \in Nat /\ call[r].slug \in Nat
  BY <1>1, BoundsAssumption DEF Call, Slugs
<1>5. ASSUME Busy(r)' PROVE Crowded(r)'
  <2>1. call'[r].attempt <= Created'
    BY <1>1, <1>3, <1>4, <1>5, TableGrows DEF Crowded
  <2>2. \A i \in 1..(call'[r].slug - 1) : \E p \in DOMAIN postings' : postings'[p].slug = i
    BY <1>1, <1>3, <1>4, <1>5, StillUsed DEF Crowded
  <2> QED
    BY <1>2, <2>1, <2>2 DEF Crowded
<1> QED
  BY <1>2, <1>5

LEMMA SearchCrowds ==
  ASSUME IInv, CrowdInv, NEW r \in Requests, CreateSearchSlug(r)
  PROVE  /\ Busy(r)' => Crowded(r)'
         /\ pc'[r] = "threw" => Cardinality(DOMAIN postings') >= MaxCandidates
<1>1. /\ OnlyCallOf(r) /\ call[r] \in Call /\ DOMAIN call = Requests /\ pc \in [Requests -> PCs] /\ Crowded(r)
      /\ postings' = postings /\ pc[r] = "create.slug" /\ Created' = Created
  BY StepOf DEF IInv, TypeOK, CrowdInv, Busy, Results, Advance, CreateSearchSlug, Created
<1>2. call[r].attempt \in Nat /\ call[r].slug \in 1..MaxCandidates /\ MaxCandidates \in Nat
  BY <1>1, BoundsAssumption DEF Call, Slugs
<1>3. CASE Holding(call[r].user, call[r].slug) = {}
  <2>1. pc'[r] = "create.insert" /\ call' = call
    BY <1>1, <1>3 DEF CreateSearchSlug, Goto
  <2>2. PICK c, s : c = call[r].user /\ s = call[r].slug
    OBVIOUS
  <2>3. ~SlugCollision(c, s)'
    BY <1>1, <1>3, <2>2 DEF SlugCollision, Holding
  <2>4. call'[r].attempt <= Created' /\ \A i \in 1..(s - 1) : \E p \in DOMAIN postings' : postings'[p].slug = i
    BY <1>1, <2>1, <2>2 DEF Crowded
  <2>5. Crowded(r)'
    BY <2>1, <2>2, <2>3, <2>4, CrowdedNext
  <2> QED
    BY <2>1, <2>5
<1>4. CASE Holding(call[r].user, call[r].slug) # {}
  <2>1. \A i \in 1..call[r].slug : \E p \in DOMAIN postings : postings[p].slug = i
    <3>1. \E p \in DOMAIN postings : postings[p].slug = call[r].slug
      BY <1>4 DEF Holding
    <3>2. \A i \in 1..call[r].slug : i = call[r].slug \/ i \in 1..(call[r].slug - 1)
      BY <1>2
    <3> QED
      BY <1>1, <3>1, <3>2 DEF Crowded
  <2>2. CASE call[r].slug = MaxCandidates
    <3>1. pc'[r] = "threw"
      BY <1>1, <1>4, <2>2 DEF CreateSearchSlug, Return
    <3>2. Cardinality(DOMAIN postings) >= MaxCandidates
      BY <2>1, <2>2, AllSlugsUsed DEF IInv, CrowdInv, Slugs
    <3> QED
      BY <1>1, <3>1, <3>2 DEF Busy, Results
  <2>3. CASE call[r].slug # MaxCandidates
    <3>1. pc' = pc /\ call'[r] = [call[r] EXCEPT !.slug = @ + 1]
      BY <1>1, <1>4, <2>3 DEF CreateSearchSlug
    <3>2. call'[r].attempt = call[r].attempt /\ call'[r].slug = call[r].slug + 1
      BY <1>1, <3>1 DEF Call
    <3>3. 1..(call'[r].slug - 1) = 1..call[r].slug
      BY <1>2, <3>2
    <3> QED
      BY <1>1, <2>1, <3>1, <3>2, <3>3 DEF Crowded
  <2> QED
    BY <2>2, <2>3
<1> QED
  BY <1>3, <1>4

LEMMA InsertCrowds ==
  ASSUME IInv, CrowdInv, NEW r \in Requests, CreateInsert(r)
  PROVE  /\ Busy(r)' => Crowded(r)'
         /\ pc'[r] = "threw" => Cardinality(DOMAIN postings' \intersect Requests) >= MaxRetries
<1>1. /\ OnlyCallOf(r) /\ call[r] \in Call /\ DOMAIN call = Requests /\ pc \in [Requests -> PCs] /\ Crowded(r)
      /\ pc[r] = "create.insert"
  BY StepOf DEF IInv, TypeOK, CrowdInv, Busy, Results, Advance, CreateInsert
<1>2. call[r].attempt \in Nat /\ call[r].slug \in Nat
  BY <1>1, BoundsAssumption DEF Call, Slugs
<1>3. CASE ~SlugCollision(call[r].user, call[r].slug)
  <2>1. pc'[r] = "create.event" /\ call' = call
    BY <1>1, <1>3 DEF CreateInsert, Goto
  <2>2. call'[r].attempt <= Created'
    BY <1>1, <1>2, <2>1, TableGrows DEF Crowded, Advance
  <2>3. \A i \in 1..(call'[r].slug - 1) : \E p \in DOMAIN postings' : postings'[p].slug = i
    BY <1>1, <1>2, <2>1, StillUsed DEF Crowded, Advance
  <2> QED
    BY <2>1, <2>2, <2>3 DEF Crowded
<1>4. CASE SlugCollision(call[r].user, call[r].slug)
  <2>1. call[r].attempt + 1 <= Created /\ postings' = postings /\ Created' = Created /\ Created \in Nat
    BY <1>1, <1>4, TableGrows DEF Crowded, CreateInsert, Created, Advance
  <2>2. CASE RetriesSpent(call[r].attempt + 1)
    <3>1. pc'[r] = "threw"
      BY <1>1, <1>4, <2>2 DEF CreateInsert, Return
    <3>2. Created >= MaxRetries
      BY <1>2, <2>1, <2>2, BoundsAssumption DEF RetriesSpent
    <3> QED
      BY <2>1, <3>1, <3>2 DEF Busy, Results, Created
  <2>3. CASE ~RetriesSpent(call[r].attempt + 1)
    <3>1. pc'[r] = "create.slug" /\ call'[r] = [call[r] EXCEPT !.slug = 1, !.attempt = @ + 1]
      BY <1>1, <1>4, <2>3 DEF CreateInsert
    <3>2. call'[r].attempt = call[r].attempt + 1 /\ call'[r].slug = 1
      BY <1>1, <3>1 DEF Call
    <3> QED
      BY <1>2, <2>1, <3>1, <3>2 DEF Crowded
  <2> QED
    BY <2>2, <2>3
<1> QED
  BY <1>3, <1>4

LEMMA ArriveCrowds ==
  ASSUME IInv, CrowdInv, NEW r \in Requests, Arrive(r)
  PROVE  /\ Busy(r)' => Crowded(r)'
         /\ pc'[r] # "threw"
<1>1. OnlyCallOf(r) /\ DOMAIN call = Requests /\ pc \in [Requests -> PCs]
  BY StepOf DEF IInv, TypeOK
<1>2. \/ pc'[r] = "refused"
      \/ pc'[r] \in {"gate", "create.slug", "load"} /\ \E op, c, p, status : call'[r] = Arguments(op, c, p, status)
  BY <1>1 DEF Arrive, Create, Update, Transition, Delete, DeleteAsAdmin, Resolve, Enter, Return
<1>3. \A op, c, p, status : Arguments(op, c, p, status).attempt = 0 /\ Arguments(op, c, p, status).slug = 1
  BY DEF Arguments
<1>4. ASSUME Busy(r)' PROVE call'[r].attempt = 0 /\ call'[r].slug = 1
  BY <1>2, <1>3, <1>4 DEF Busy, Results
<1> QED
  BY <1>2, <1>4, TableGrows DEF Crowded

LEMMA NextCrowd ==
  ASSUME IInv, CrowdInv, [Next]_vars
  PROVE  CrowdInv'
<1>1. CASE UNCHANGED vars
  BY <1>1 DEF vars, CrowdInv, Busy, Crowded, Created, SlugCollision, Holding, GivesUpOnlyWhenCrowded
<1>2. ASSUME NEW r \in Requests, Arrive(r) \/ Advance(r) PROVE CrowdInv'
  <2>1. /\ Busy(r)' => Crowded(r)'
        /\ pc'[r] = "threw" =>
             \/ Cardinality(DOMAIN postings' \intersect Requests) >= MaxRetries
             \/ Cardinality(DOMAIN postings') >= MaxCandidates
    BY <1>2, ArriveCrowds, KeepsItsSlug, SearchCrowds, InsertCrowds
  <2>2. \A q \in Requests :
          /\ Busy(q)' => Crowded(q)'
          /\ pc'[q] = "threw" =>
               \/ Cardinality(DOMAIN postings' \intersect Requests) >= MaxRetries
               \/ Cardinality(DOMAIN postings') >= MaxCandidates
    BY <1>2, <2>1, OthersCrowded
  <2>3. IsFiniteSet(DOMAIN postings')
    BY <1>2, TableGrows
  <2> QED
    BY <2>2, <2>3 DEF CrowdInv, GivesUpOnlyWhenCrowded
<1>3. CASE OtherServices
  <2>1. UNCHANGED <<postings, pc>>
    BY <1>3 DEF OtherServices, SetApprovalStatus, SoftDeleteCompany
  <2>2. \A r \in Requests : Busy(r) =>
          call'[r].user = call[r].user /\ call'[r].slug = call[r].slug /\ call'[r].attempt = call[r].attempt
    BY <1>3 DEF OtherServices, SetApprovalStatus, SoftDeleteCompany, IInv, TypeOK, Call, Busy
  <2>3. ASSUME NEW r \in Requests, Busy(r)' PROVE Crowded(r)'
    <3>1. Busy(r) /\ Crowded(r) /\ Created' = Created
      BY <2>1, <2>3 DEF CrowdInv, Busy, Created
    <3>2. PICK c, s : c = call[r].user /\ s = call[r].slug
      OBVIOUS
    <3>3. SlugCollision(c, s)' = SlugCollision(c, s)
      BY <2>1 DEF SlugCollision, Holding
    <3>4. c = call'[r].user /\ s = call'[r].slug /\ call'[r].attempt = call[r].attempt
      BY <2>2, <3>1, <3>2
    <3> QED
      BY <2>1, <3>1, <3>2, <3>3, <3>4, CrowdedNext DEF Crowded
  <2> QED
    BY <2>1, <2>3 DEF CrowdInv, GivesUpOnlyWhenCrowded
<1> QED
  BY <1>1, <1>2, <1>3 DEF Next

\* A create gives up only when MAX_RETRIES postings were created meanwhile or every
\* candidate slug has been used: each retry and each candidate passed over counts one.
THEOREM GivesUpLate == Spec => []GivesUpOnlyWhenCrowded
<1>1. CrowdInv => GivesUpOnlyWhenCrowded
  BY DEF CrowdInv
<1> QED
  BY <1>1, InitIInv, StepIInv, InitCrowd, NextCrowd, PTL DEF Spec

-----------------------------------------------------------------------------
(* The pages                                                               *)

\* The buttons of the list, by type correctness.
THEOREM CompanyButtons == Spec => []ButtonsAreMoves
<1>1. TypeOK => ButtonsAreMoves
  <2> SUFFICES ASSUME TypeOK, NEW c \in Companies, NEW p \in DOMAIN postings, NEW target \in TransitionTarget
               PROVE  /\ Accepts(c, p, target) => <<p, target>> \in Buttons(c)
                      /\ <<p, target>> \in Buttons(c) /\ ~Accepts(c, p, target)
                           => target = "PUBLISHED" /\ postings[p].status = "PAUSED" /\ ~company[c].approved
    BY DEF ButtonsAreMoves
  <2>1. postings[p].status \in Statuses
    BY DEF TypeOK, JobPosting
  <2>2. TRANSITIONS_BY_STATUS[postings[p].status] = ALLOWED_TRANSITIONS[postings[p].status]
    BY <2>1 DEF TRANSITIONS_BY_STATUS, ALLOWED_TRANSITIONS, Statuses
  <2>3. "PUBLISHED" \in ALLOWED_TRANSITIONS[postings[p].status] => postings[p].status = "PAUSED"
    BY <2>1 DEF ALLOWED_TRANSITIONS, Statuses
  <2>4. p \in listJobPostingsForCompany(c) <=> ~company[c].deleted /\ Owns(c, p)
    BY DEF listJobPostingsForCompany, Owns
  <2>5. <<p, target>> \in Buttons(c)
          <=> ~company[c].deleted /\ Owns(c, p) /\ IsAllowed(postings[p].status, target)
    BY <2>2, <2>4 DEF Buttons, IsAllowed
  <2> QED
    BY <2>3, <2>5 DEF Accepts, IsAllowed, GateOnPublish, CanPublish
<1> QED
  BY <1>1, TypeCorrect, PTL

\* The way on.
THEOREM WayOn == Spec => []NothingIsStuck
<1>1. TypeOK => NothingIsStuck
  <2> SUFFICES ASSUME TypeOK, NEW c \in Companies, NEW p \in listJobPostingsForCompany(c)
               PROVE  /\ EditPage(c, p) # "not found"
                      /\ EditPage(c, p) = "form" \/ (\E target \in TransitionTarget : <<p, target>> \in Buttons(c))
                           <=> postings[p].status # "ARCHIVED"
    BY DEF NothingIsStuck
  <2>1. ~company[c].deleted /\ Owns(c, p) /\ p \in DOMAIN postings
    BY DEF listJobPostingsForCompany, Owns
  <2>2. postings[p].status \in Statuses
    BY <2>1 DEF TypeOK, JobPosting
  <2>3. \A target \in TransitionTarget :
           <<p, target>> \in Buttons(c) <=> target \in TRANSITIONS_BY_STATUS[postings[p].status]
    BY DEF Buttons
  <2>4. (\E target \in TransitionTarget : target \in TRANSITIONS_BY_STATUS[postings[p].status])
          <=> postings[p].status \notin {"DRAFT", "ARCHIVED"}
    <3>1. \A s \in Statuses : (\E target \in TransitionTarget : target \in TRANSITIONS_BY_STATUS[s])
                                <=> s \notin {"DRAFT", "ARCHIVED"}
      BY DEF Statuses, TransitionTarget, TRANSITIONS_BY_STATUS
    <3> QED
      BY <2>2, <3>1
  <2>5. EditPage(c, p) # "not found" /\ (EditPage(c, p) = "form" <=> postings[p].status \in {"DRAFT", "PUBLISHED"})
    BY <2>1 DEF EditPage, getJobPostingByIdForCompany
  <2> QED
    BY <2>3, <2>4, <2>5
<1> QED
  BY <1>1, TypeCorrect, PTL

\* The warning of the form.
THEOREM HonestWarning == Spec => []WarningIsTrue
<1>1. WarningIsTrue
  BY DEF WarningIsTrue, EditPage, getJobPostingByIdForCompany, PublishWarning,
     getFreshCompanyApprovalStatus, GateOnPublish, CanPublish
<1> QED
  BY <1>1, PTL

\* The date, by StampTellsDraft: a posting with a date is not a draft.
THEOREM DateKept == Spec => []FreshFormKeepsDate
<1>1. StampTellsDraft => FreshFormKeepsDate
  BY DEF StampTellsDraft, FreshFormKeepsDate, EditPage, StampOfEdit
<1> QED
  BY <1>1, DatedUnlessDraft, PTL
=============================================================================
