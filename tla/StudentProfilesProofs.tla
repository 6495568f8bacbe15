------------------------- MODULE StudentProfilesProofs -------------------------
(***************************************************************************)
(* Proofs about StudentProfiles, for any requests, sections and names.     *)
(*                                                                         *)
(* The first part lets requests overlap and storage fail, and is about the *)
(* resume: a key is on the profile, or remembered by a request, only once  *)
(* its upload has set it, and an upload sets it once.  The second part is  *)
(* the sequential promise of the service, for requests that do not overlap.*)
(***************************************************************************)
EXTENDS StudentProfiles, FiniteSetTheorems, TLAPS

Busy(r) == pc[r] \notin Results \union {"idle"}

EnsurePC == {"ensure.read", "ensure.create"}

\* The key k is one that an upload may still put on the profile.
Ahead(k) ==
  /\ k \in Requests
  /\ \/ pc[k] \in {"idle", "upload.put"}
     \/ pc[k] \in EnsurePC \union {"resume.set"} /\ call[k].op = "upload"

\* The operation of a request fits its next statement.
OpFits(r) ==
  /\ pc[r] \in {"basics.update", "basics.create"} => call[r].op = "saveBasics"
  /\ pc[r] = "row.delete" => call[r].op = "remove"
  /\ pc[r] \in EnsurePC => call[r].op \in {"add", "upload", "delete"}
  /\ pc[r] = "row.add" => call[r].op = "add"
  /\ call[r].op = "add" => call[r].sec \in Sections /\ call[r].entry \in RowIds
  /\ pc[r] = "resume.set" => call[r].op \in {"upload", "delete"}
  /\ pc[r] \in {"upload.put", "upload.deleteOld"} => call[r].op = "upload"
  /\ pc[r] = "delete.file" => call[r].op = "delete"
  /\ pc[r] \in {"delete.file", "upload.deleteOld"} => call[r].old # None

\* The key it read was set by then; an upload has its file in the store until it
\* is set, and has taken the key it read off the profile after.
KeyFits(r) ==
  /\ call[r].old # None \/ pc[r] = "resume.set" => profile.exists
  /\ ~Ahead(call[r].old)
  /\ call[r].op = "upload" =>
       /\ pc[r] \in EnsurePC \union {"resume.set"} => r \in files
       /\ pc[r] \notin EnsurePC \union {"upload.put", "resume.set"} /\ call[r].old # None
            => profile.resume # call[r].old

Fits(r) == Busy(r) => OpFits(r) /\ KeyFits(r)

ProfileFits == ~Ahead(profile.resume) /\ (profile.resume # None => profile.exists)

\* The inductive invariant for overlapping requests.
IInv ==
  /\ TypeOK
  /\ DanglingOnlyInDelete
  /\ ProfileFits
  /\ \A r \in Requests : Fits(r)

-----------------------------------------------------------------------------
(* The flag, whatever requests overlap                                     *)

\* A request that computes the flag without being crossed has read the data as they are.
FlagFits(r) ==
  r \notin crossed =>
    /\ pc[r] = "recompute.reads" => (call[r].filled <=> \A q \in Queries \ call[r].pending : Filled(q))
    /\ pc[r] \in {"recompute.prior", "recompute.update"} => (call[r].filled <=> IsComplete)

\* The invariant of the flag, on top of IInv.
FlagInv == (\A r \in Requests : FlagFits(r)) /\ FlagIsTruthful

-----------------------------------------------------------------------------
(* One request at a time                                                   *)

MutatePC == {"basics.update", "basics.create", "ensure.read", "ensure.create", "row.add", "row.delete",
             "upload.put", "delete.file", "resume.set"}

\* What the flag and the event count are while request r runs alone.
FlagInStep(r) ==
  /\ pc[r] \in MutatePC \union {"upload.deleteOld"} => profile.complete = IsComplete /\ completed = rises
  /\ pc[r] = "recompute.reads" =>
       (call[r].filled <=> \A q \in Queries \ call[r].pending : Filled(q)) /\ completed = rises
  /\ pc[r] \in {"recompute.prior", "recompute.update"} => (call[r].filled <=> IsComplete) /\ completed = rises
  /\ pc[r] = "recompute.update" => call[r].prior = profile.complete
  /\ pc[r] = "recompute.event" => profile.complete = IsComplete /\ completed + 1 = rises

\* What is in the store meanwhile, if storage works.
FilesInStep(r) ==
  /\ pc[r] = "ensure.create" => ~profile.exists
  /\ call[r].op \notin {"upload", "delete"} => files \subseteq {profile.resume}
  /\ call[r].op = "upload" =>
       /\ files \subseteq IF pc[r] = "upload.put" THEN {call[r].old} ELSE {call[r].old, r}
       /\ profile.resume = IF pc[r] \in EnsurePC \union {"upload.put", "resume.set"} THEN call[r].old ELSE r
  /\ call[r].op = "delete" =>
       IF pc[r] = "delete.file"
       THEN profile.resume = call[r].old /\ files \subseteq {call[r].old}
       ELSE files = {}

\* The inductive invariant for requests that do not overlap.
SerialInv ==
  /\ \A r, q \in InFlight : r = q
  /\ \A r \in InFlight : FlagInStep(r)
  /\ InFlight = {} => profile.complete = IsComplete /\ completed = rises

StoreInv ==
  /\ \A r \in InFlight : FilesInStep(r)
  /\ InFlight = {} => files \subseteq {profile.resume}

-----------------------------------------------------------------------------
(* Frames                                                                  *)

LEMMA InitIInv == Init => IInv
<1> SUFFICES ASSUME Init PROVE IInv
  OBVIOUS
<1> USE KeysAssumption DEF Init, NoProfile, FullProfile
<1>1. TypeOK
  <2>1. profile \in [exists: BOOLEAN, basics: BOOLEAN, resume: Keys \union {None}, complete: BOOLEAN]
        /\ files \subseteq Keys
    <3>1. NoProfile \in [exists: BOOLEAN, basics: BOOLEAN, resume: Keys \union {None}, complete: BOOLEAN]
          /\ FullProfile \in [exists: BOOLEAN, basics: BOOLEAN, resume: Keys \union {None}, complete: BOOLEAN]
      BY DEF Keys
    <3>2. profile = NoProfile \/ profile = FullProfile
      OBVIOUS
    <3> HIDE DEF NoProfile, FullProfile
    <3> QED
      BY <3>1, <3>2 DEF Keys
  <2>2. rows \in [Sections -> SUBSET RowIds]
    BY DEF RowIds
  <2>3. pc \in [Requests -> PCs] /\ DOMAIN call = Requests /\ completed \in Nat /\ rises \in Nat
        /\ crossed \subseteq Requests /\ doubted \in BOOLEAN
    BY DEF PCs
  <2>4. \A r \in Requests : call[r] \in IF pc[r] \in Results \union {"idle"} THEN {NoCall} ELSE Call
    OBVIOUS
  <2> QED
    BY <2>1, <2>2, <2>3, <2>4 DEF TypeOK
<1>2. DanglingOnlyInDelete /\ ProfileFits
  BY DEF DanglingOnlyInDelete, ProfileFits, Ahead
<1>3. \A r \in Requests : Fits(r)
  BY DEF Fits, Busy
<1> QED
  BY <1>1, <1>2, <1>3 DEF IInv

\* What TypeOK says of the locals of r.
CallOK(r) == call[r] \in IF pc[r] \in Results \union {"idle"} THEN {NoCall} ELSE Call

\* Only the locals of request r move, and only forward.
OnlyCallOf(r) ==
  /\ pc' \in [Requests -> PCs]
  /\ DOMAIN call' = Requests
  /\ \A q \in Requests \ {r} : pc'[q] = pc[q] /\ call'[q] = call[q]

\* Assigning the locals of r.
LEMMA Locals ==
  ASSUME IInv, NEW r \in Requests, NEW where \in PCs, pc' = [pc EXCEPT ![r] = where],
         \/ UNCHANGED call
         \/ \E c : call' = [call EXCEPT ![r] = c]
  PROVE  OnlyCallOf(r) /\ pc'[r] = where
<1>1. pc \in [Requests -> PCs] /\ DOMAIN call = Requests
  BY DEF IInv, TypeOK
<1> QED
  BY <1>1 DEF OnlyCallOf

\* Keys that were set are not ahead again.
LEMMA NeverAheadAgain ==
  ASSUME NEW r \in Requests, OnlyCallOf(r), Ahead(r)' => Ahead(r)
  PROVE  \A k : Ahead(k)' => Ahead(k)
BY DEF Ahead, OnlyCallOf

\* A request that takes no step still fits, as long as only set keys are removed
\* from the store and only keys ahead are put on the profile.
LEMMA OthersFit ==
  ASSUME IInv, NEW r \in Requests, OnlyCallOf(r), Ahead(r)' => Ahead(r),
         profile.exists => profile'.exists,
         \A k \in files \ files' : ~Ahead(k),
         \/ profile'.resume \in {profile.resume, None}
         \/ Ahead(r) /\ profile'.resume = r,
         NEW q \in Requests \ {r}
  PROVE  CallOK(q)' /\ Fits(q)'
<1>1. pc'[q] = pc[q] /\ call'[q] = call[q] /\ CallOK(q) /\ Fits(q)
  BY DEF OnlyCallOf, IInv, TypeOK, CallOK
<1>2. CallOK(q)'
  BY <1>1 DEF CallOK
<1>3. ASSUME Busy(q)' PROVE OpFits(q)' /\ KeyFits(q)'
  <2>1. OpFits(q) /\ KeyFits(q)
    BY <1>1, <1>3 DEF Fits, Busy
  <2>2. OpFits(q)'
    BY <1>1, <2>1 DEF OpFits
  <2>3. ~Ahead(call[q].old)'
    BY <1>1, <2>1 DEF KeyFits, Ahead, OnlyCallOf
  <2>4. call[q].op = "upload" /\ pc[q] \in EnsurePC \union {"resume.set"} => q \in files'
    BY <2>1 DEF KeyFits, Ahead
  <2>5. call[q].op = "upload" /\ pc[q] \notin EnsurePC \union {"upload.put", "resume.set"} /\ call[q].old # None
          => profile'.resume # call[q].old
    BY <2>1 DEF KeyFits
  <2>6. KeyFits(q)'
    BY <1>1, <2>1, <2>3, <2>4, <2>5 DEF KeyFits
  <2> QED
    BY <2>2, <2>6
<1> QED
  BY <1>2, <1>3 DEF Fits

\* The profile keeps its resume, or loses it.
LEMMA ProfileStillFits ==
  ASSUME IInv, NEW r \in Requests, OnlyCallOf(r), Ahead(r)' => Ahead(r),
         profile.exists => profile'.exists, profile'.resume \in {profile.resume, None}
  PROVE  ProfileFits'
<1>1. ~Ahead(None)'
  BY KeysAssumption DEF Ahead
<1>2. ~Ahead(profile.resume)'
  BY <1>1 DEF IInv, ProfileFits, Ahead, OnlyCallOf
<1> QED
  BY <1>1, <1>2 DEF IInv, ProfileFits

\* A delete between the file and the pointer.
Clearing(r, k) == call[r].op = "delete" /\ call[r].old = k /\ pc[r] \in {"ensure.read", "resume.set"}

\* The resume stays, and no file is lost; or the one that is removed is being cleared.
LEMMA DanglingKept ==
  ASSUME IInv, NEW r \in Requests, OnlyCallOf(r), profile'.resume = profile.resume,
         profile.resume # None /\ Clearing(r, profile.resume) => Clearing(r, profile.resume)',
         profile.resume \in files \ files' => Clearing(r, profile.resume)'
  PROVE  DanglingOnlyInDelete'
<1> SUFFICES ASSUME profile.resume # None, profile.resume \notin files'
             PROVE  \E q \in Requests : Clearing(q, profile.resume)'
  BY DEF DanglingOnlyInDelete, Clearing
<1>1. CASE profile.resume \in files
  BY <1>1
<1>2. CASE profile.resume \notin files
  <2>1. PICK q \in Requests : Clearing(q, profile.resume)
    BY <1>2 DEF IInv, DanglingOnlyInDelete, Clearing
  <2>2. CASE q = r
    BY <2>1, <2>2
  <2>3. CASE q # r
    BY <2>1, <2>3 DEF Clearing, OnlyCallOf
  <2> QED
    BY <2>2, <2>3
<1> QED
  BY <1>1, <1>2

\* The types of the tables.
DataOK ==
  /\ profile \in [exists: BOOLEAN, basics: BOOLEAN, resume: Keys \union {None}, complete: BOOLEAN]
  /\ rows \in [Sections -> SUBSET RowIds]
  /\ files \subseteq Keys
  /\ completed \in Nat
  /\ rises \in Nat
  /\ crossed \subseteq Requests
  /\ doubted \in BOOLEAN

\* A step of r that leaves the resume alone.
LEMMA ResumeKept ==
  ASSUME IInv, NEW r \in Requests, OnlyCallOf(r), DataOK', Ahead(r)' => Ahead(r),
         profile.exists => profile'.exists, profile'.resume = profile.resume,
         \A k \in files \ files' : ~Ahead(k),
         profile.resume # None /\ Clearing(r, profile.resume) => Clearing(r, profile.resume)',
         profile.resume \in files \ files' => Clearing(r, profile.resume)',
         CallOK(r)', Fits(r)'
  PROVE  IInv'
<1>1. \A q \in Requests : CallOK(q)' /\ Fits(q)'
  BY OthersFit
<1>2. TypeOK'
  BY <1>1 DEF TypeOK, DataOK, CallOK, OnlyCallOf
<1>3. ProfileFits' /\ DanglingOnlyInDelete'
  BY ProfileStillFits, DanglingKept
<1> QED
  BY <1>1, <1>2, <1>3 DEF IInv


-----------------------------------------------------------------------------
(* Requests arrive                                                         *)

\* A request that takes its arguments: what it reads of the profile is its resume.
LEMMA StartKept ==
  ASSUME IInv, NEW r \in Requests, Accept(r), UNCHANGED <<data, history>>,
         NEW op \in Ops, NEW where \in PCs \ (Results \union {"idle"}), NEW filled \in BOOLEAN,
         NEW sec \in Sections \union {None}, NEW entry \in RowIds \union {None}, NEW old \in {None, profile.resume},
         Start(r, op, where, filled, sec, entry, old),
         OpFits(r)', op = "upload" => where = "upload.put", old # None => where # "ensure.read",
         where # "resume.set"
  PROVE  IInv'
<1>1. OnlyCallOf(r) /\ pc'[r] = where
  BY Locals DEF Start
<1>2. call'[r] = [op |-> op, filled |-> filled, sec |-> sec, entry |-> entry, old |-> old,
                  pending |-> {}, prior |-> FALSE]
  BY DEF IInv, TypeOK, Start
<1>3. profile' = profile /\ files' = files /\ DataOK' /\ DataOK /\ ProfileFits
  BY DEF data, counters, history, DataOK, IInv, TypeOK
<1>4. Ahead(r) /\ ~Clearing(r, profile.resume)
  BY DEF Ahead, Accept, Clearing
<1>5. CallOK(r)'
  BY <1>1, <1>2, <1>3 DEF CallOK, Call, DataOK
<1>6. KeyFits(r)'
  <2>1. \A k : Ahead(k)' => Ahead(k)
    BY <1>1, <1>4, NeverAheadAgain
  <2>2. ~Ahead(None) /\ ~Ahead(profile.resume)
    BY <1>3, KeysAssumption DEF Ahead, ProfileFits
  <2>3. ~Ahead(call[r].old)'
    BY <1>2, <2>1, <2>2 DEF Ahead
  <2> QED
    BY <1>1, <1>2, <1>3, <2>3 DEF KeyFits, ProfileFits, EnsurePC
<1> QED
  BY <1>1, <1>3, <1>4, <1>5, <1>6, ResumeKept DEF Fits

\* A request that ends.
LEMMA DoneKept ==
  ASSUME IInv, NEW r \in Requests, NEW result \in Results, Return(r, result), DataOK',
         profile.exists => profile'.exists, profile'.resume = profile.resume,
         \A k \in files \ files' : ~Ahead(k) /\ k # profile.resume,
         profile.resume # None => ~Clearing(r, profile.resume)
  PROVE  IInv'
<1>1. OnlyCallOf(r) /\ pc'[r] = result
  BY Locals DEF Return, PCs
<1>2. call'[r] = NoCall
  BY DEF IInv, TypeOK, Return
<1>3. (Ahead(r)' => Ahead(r)) /\ CallOK(r)' /\ Fits(r)'
  BY <1>1, <1>2 DEF Ahead, Results, EnsurePC, CallOK, Fits, Busy
<1> QED
  BY <1>1, <1>3, ResumeKept

LEMMA ArriveKept ==
  ASSUME IInv, NEW r \in Requests, Arrive(r)
  PROVE  IInv'
<1>1. CASE UNCHANGED <<data, history>> /\ Accept(r) /\ Return(r, "error")
  <2>1. DataOK' /\ profile' = profile /\ files' = files /\ ~Clearing(r, profile.resume)
    BY <1>1 DEF data, counters, history, DataOK, IInv, TypeOK, Accept, Clearing
  <2> QED
    BY <1>1, <2>1, DoneKept DEF Results
<1>2. ASSUME NEW filled \in BOOLEAN, SaveBasics(r, filled) PROVE IInv'
  <2> DEFINE where == IF profile.exists THEN "basics.update" ELSE "basics.create"
  <2>1. where \in PCs \ (Results \union {"idle"}) /\ where \in {"basics.update", "basics.create"}
    BY DEF PCs, Results
  <2>2. Accept(r) /\ Start(r, "saveBasics", where, filled, None, None, None) /\ UNCHANGED <<data, history>>
    BY <1>2 DEF SaveBasics
  <2> HIDE DEF where
  <2>3. OpFits(r)'
    BY <2>1, <2>2 DEF OpFits, Start, IInv, TypeOK, EnsurePC
  <2> QED
    BY <2>1, <2>2, <2>3, StartKept DEF Ops
<1>3. ASSUME NEW sec \in Sections, NEW name \in Names, Add(r, sec, name) PROVE IInv'
  <2>1. Accept(r) /\ Start(r, "add", "ensure.read", FALSE, sec, name, None) /\ UNCHANGED <<data, history>>
    BY <1>3 DEF Add
  <2>2. OpFits(r)'
    BY <2>1 DEF OpFits, Start, IInv, TypeOK, EnsurePC, RowIds
  <2> QED
    BY <2>1, <2>2, StartKept DEF Ops, PCs, Results, RowIds
<1>4. ASSUME NEW sec \in Sections, NEW e \in RowIds, Remove(r, sec, e), Start(r, "remove", "row.delete", FALSE, sec, e, None)
      PROVE  IInv'
  <2>1. OpFits(r)'
    BY <1>4 DEF OpFits, Start, IInv, TypeOK, EnsurePC
  <2> QED
    BY <1>4, <2>1, StartKept DEF Ops, PCs, Results, Remove
<1>5. ASSUME Upload(r) PROVE IInv'
  <2>1. OpFits(r)'
    BY <1>5 DEF OpFits, Upload, Start, IInv, TypeOK, EnsurePC
  <2> QED
    BY <1>5, <2>1, StartKept DEF Ops, PCs, Results, Upload
<1>6. ASSUME Delete(r) PROVE IInv'
  <2> DEFINE where == IF profile.resume = None THEN "ensure.read" ELSE "delete.file"
  <2>1. where \in PCs \ (Results \union {"idle"}) /\ (profile.resume # None <=> where = "delete.file")
        /\ where \in {"ensure.read", "delete.file"}
    BY DEF PCs, Results
  <2>2. Accept(r) /\ Start(r, "delete", where, FALSE, None, None, profile.resume) /\ UNCHANGED <<data, history>>
    BY <1>6 DEF Delete
  <2> HIDE DEF where
  <2>3. OpFits(r)'
    BY <2>1, <2>2 DEF OpFits, Start, IInv, TypeOK, EnsurePC
  <2> QED
    BY <2>1, <2>2, <2>3, StartKept DEF Ops
<1> QED
  BY <1>1, <1>2, <1>3, <1>4, <1>5, <1>6 DEF Arrive, RefuseInput, Remove


-----------------------------------------------------------------------------
(* Requests go on                                                          *)

\* A request that goes on with the arguments it has.
LEMMA OnKept ==
  ASSUME IInv, NEW r \in Requests, NEW where \in PCs \ (Results \union {"idle"}), pc' = [pc EXCEPT ![r] = where],
         call'[r] = call[r] \/ (\E c : call' = [call EXCEPT ![r] = c]),
         UNCHANGED call \/ (\E c : call' = [call EXCEPT ![r] = c]),
         CallOK(r)', DataOK', Busy(r),
         call'[r].op = call[r].op, call'[r].old = call[r].old, OpFits(r)',
         Ahead(r)' => Ahead(r), profile.exists => profile'.exists, profile'.resume = profile.resume,
         \A k \in files \ files' : ~Ahead(k),
         profile.resume # None /\ Clearing(r, profile.resume) => where \in {"ensure.read", "resume.set"},
         profile.resume \in files \ files' => Clearing(r, profile.resume)',
         where = "resume.set" => profile'.exists,
         call[r].op = "upload" =>
           /\ where # "upload.put"
           /\ where \in EnsurePC \union {"resume.set"} => r \in files'
           /\ where \notin EnsurePC \union {"resume.set"} => pc[r] \notin EnsurePC \union {"upload.put", "resume.set"}
  PROVE  IInv'
<1>1. OnlyCallOf(r) /\ pc'[r] = where
  BY Locals
<1>2. KeyFits(r)
  BY DEF IInv, Fits
<1>3. ~Ahead(call[r].old)'
  BY <1>1, <1>2, NeverAheadAgain DEF KeyFits, Ahead
<1>4. KeyFits(r)'
  BY <1>1, <1>2, <1>3 DEF KeyFits
<1>5. profile.resume # None /\ Clearing(r, profile.resume) => Clearing(r, profile.resume)'
  BY <1>1 DEF Clearing
<1> QED
  BY <1>1, <1>4, <1>5, ResumeKept DEF Fits

\* A mutation that calls the recompute.
LEMMA RecomputeKept ==
  ASSUME IInv, NEW r \in Requests, Busy(r), Recompute(r), DataOK', profile.exists => profile'.exists,
         profile'.resume = profile.resume, files' = files,
         pc[r] \notin EnsurePC \union {"upload.put", "resume.set"}
  PROVE  IInv'
<1> DEFINE c == [call[r] EXCEPT !.pending = Queries, !.filled = TRUE]
<1>1. call[r] \in Call /\ DOMAIN call = Requests /\ Fits(r)
  BY DEF IInv, TypeOK, Busy
<1>2. c \in Call /\ c.op = call[r].op /\ c.old = call[r].old /\ c.sec = call[r].sec /\ c.entry = call[r].entry
  BY <1>1 DEF Call
<1>3. call' = [call EXCEPT ![r] = c] /\ call'[r] = c /\ pc' = [pc EXCEPT ![r] = "recompute.reads"]
  BY <1>1 DEF Recompute
<1> HIDE DEF c
<1>4. pc \in [Requests -> PCs]
  BY DEF IInv, TypeOK
<1>5. CallOK(r)' /\ OpFits(r)'
  BY <1>1, <1>2, <1>3, <1>4 DEF CallOK, Results, Fits, OpFits, EnsurePC
<1>6. ~Clearing(r, profile.resume) /\ ~Ahead(r)'
  BY <1>3, <1>4 DEF Clearing, EnsurePC, Ahead
<1>7. "recompute.reads" \in PCs \ (Results \union {"idle"})
  BY DEF PCs, Results
<1> QED
  BY <1>2, <1>3, <1>5, <1>6, <1>7, OnKept DEF EnsurePC

LEMMA BasicsKept ==
  ASSUME IInv, NEW r \in Requests, BasicsUpdate(r) \/ BasicsCreate(r)
  PROVE  IInv'
<1>1. DataOK /\ Busy(r) /\ call[r] \in Call
  BY DEF IInv, TypeOK, DataOK, BasicsUpdate, BasicsCreate, Busy, Results
<1>2. pc[r] \notin EnsurePC \union {"upload.put", "resume.set"} /\ ~Clearing(r, profile.resume)
      /\ files' = files
  BY DEF BasicsUpdate, BasicsCreate, EnsurePC, Clearing
<1>3. DataOK' /\ (profile.exists => profile'.exists) /\ profile'.resume = profile.resume
  BY <1>1 DEF DataOK, BasicsUpdate, BasicsCreate, Call, Recompute, Computing, counters
<1>4. Recompute(r) \/ Return(r, "error")
  BY DEF BasicsUpdate, BasicsCreate
<1> QED
  BY <1>1, <1>2, <1>3, <1>4, RecomputeKept, DoneKept DEF Results

LEMMA RowsKept ==
  ASSUME IInv, NEW r \in Requests, RowAdd(r) \/ RowDelete(r)
  PROVE  IInv'
<1>1. DataOK /\ Busy(r) /\ call[r] \in Call /\ OpFits(r)
  BY DEF IInv, TypeOK, DataOK, RowAdd, RowDelete, Busy, Results, Fits
<1>2. pc[r] \notin EnsurePC \union {"upload.put", "resume.set"} /\ ~Clearing(r, profile.resume)
      /\ files' = files /\ profile' = profile
  BY DEF RowAdd, RowDelete, EnsurePC, Clearing
<1>3. rows' \in [Sections -> SUBSET RowIds]
  <2>1. CASE RowAdd(r)
    <3>1. call[r].sec \in Sections /\ call[r].entry \in RowIds
      BY <1>1, <2>1 DEF OpFits, RowAdd
    <3> QED
      BY <1>1, <2>1, <3>1 DEF RowAdd, DataOK, RowIds
  <2>2. CASE RowDelete(r)
    BY <1>1, <2>2 DEF RowDelete, DataOK
  <2> QED
    BY <2>1, <2>2
<1>4. DataOK'
  BY <1>1, <1>2, <1>3 DEF DataOK, RowAdd, RowDelete, Recompute, Computing, counters
<1>5. Recompute(r) \/ Return(r, "error")
  BY DEF RowAdd, RowDelete
<1> QED
  BY <1>1, <1>2, <1>4, <1>5, RecomputeKept, DoneKept DEF Results

LEMMA EnsureKept ==
  ASSUME IInv, NEW r \in Requests, EnsureRead(r) \/ EnsureCreate(r)
  PROVE  IInv'
<1>1. DataOK /\ Busy(r) /\ call[r] \in Call /\ OpFits(r) /\ KeyFits(r) /\ pc \in [Requests -> PCs]
      /\ pc[r] \in EnsurePC
  BY DEF IInv, TypeOK, DataOK, EnsureRead, EnsureCreate, Busy, Results, Fits, EnsurePC
<1>2. DataOK' /\ (profile.exists => profile'.exists) /\ profile'.resume = profile.resume /\ files' = files
  BY <1>1 DEF DataOK, EnsureRead, EnsureCreate, data, counters, history
<1>3. CASE EnsureCreate(r) /\ Return(r, "error")
  BY <1>1, <1>2, <1>3, DoneKept DEF EnsureCreate, Clearing, Results
<1>4. ASSUME NEW where \in {"ensure.create", AfterEnsure(call[r].op)}, Goto(r, where), 
             where = "ensure.create" => ~profile.exists, where # "ensure.create" => profile'.exists
      PROVE  IInv'
  <2>1. where \in {"ensure.create", "row.add", "resume.set"} /\ where \in PCs \ (Results \union {"idle"})
    BY <1>4 DEF AfterEnsure, PCs, Results
  <2>2. pc' = [pc EXCEPT ![r] = where] /\ call' = call /\ pc'[r] = where
    BY <1>1, <1>4 DEF Goto
  <2>3. CallOK(r)' /\ OpFits(r)'
    BY <1>1, <1>4, <2>1, <2>2 DEF CallOK, OpFits, AfterEnsure, Call, EnsurePC
  <2>4. Ahead(r)' => Ahead(r)
    BY <1>1, <2>1, <2>2 DEF Ahead, OpFits, EnsurePC
  <2>5. profile.resume # None /\ Clearing(r, profile.resume) => where \in {"ensure.read", "resume.set"}
    BY <1>1, <1>4 DEF Clearing, AfterEnsure, KeyFits
  <2>6. call[r].op = "upload" => where # "upload.put" /\ where \in EnsurePC \union {"resume.set"} /\ r \in files'
    BY <1>1, <1>2, <1>4 DEF KeyFits, AfterEnsure, EnsurePC
  <2>7. where = "resume.set" => profile'.exists
    BY <1>4
  <2> QED
    BY <1>1, <1>2, <2>1, <2>2, <2>3, <2>4, <2>5, <2>6, <2>7, OnKept
<1>5. CASE EnsureRead(r) /\ profile.exists
  BY <1>4, <1>5 DEF EnsureRead, AfterEnsure, data
<1>6. CASE EnsureRead(r) /\ ~profile.exists
  BY <1>4, <1>6 DEF EnsureRead, AfterEnsure
<1>7. CASE EnsureCreate(r) /\ ~profile.exists
  BY <1>1, <1>4, <1>7 DEF EnsureCreate, AfterEnsure, DataOK
<1> QED
  BY <1>3, <1>5, <1>6, <1>7 DEF EnsureCreate

LEMMA UploadPutKept ==
  ASSUME IInv, NEW r \in Requests, UploadPut(r)
  PROVE  IInv'
<1>1. DataOK /\ Busy(r) /\ call[r] \in Call /\ OpFits(r) /\ pc \in [Requests -> PCs] /\ pc[r] = "upload.put"
  BY DEF IInv, TypeOK, DataOK, UploadPut, Busy, Results, Fits
<1>2. DataOK' /\ profile' = profile /\ files \subseteq files' /\ ~Clearing(r, profile.resume)
  BY <1>1 DEF DataOK, UploadPut, counters, history, Keys, Clearing
<1>3. CASE Return(r, "error")
  BY <1>1, <1>2, <1>3, DoneKept DEF Results
<1>4. CASE files' = files \union {r} /\ Goto(r, "ensure.read")
  <2>1. pc' = [pc EXCEPT ![r] = "ensure.read"] /\ call' = call /\ pc'[r] = "ensure.read"
    BY <1>1, <1>4 DEF Goto
  <2>2. CallOK(r)' /\ OpFits(r)' /\ Ahead(r)
    BY <1>1, <2>1 DEF CallOK, OpFits, EnsurePC, Ahead, Results
  <2>3. "ensure.read" \in PCs \ (Results \union {"idle"})
    BY DEF PCs, Results
  <2> QED
    BY <1>1, <1>2, <1>4, <2>1, <2>2, <2>3, OnKept DEF EnsurePC
<1> QED
  BY <1>3, <1>4 DEF UploadPut

LEMMA DeleteResumeFileKept ==
  ASSUME IInv, NEW r \in Requests, DeleteResumeFile(r)
  PROVE  IInv'
<1>1. DataOK /\ Busy(r) /\ call[r] \in Call /\ OpFits(r) /\ KeyFits(r) /\ pc \in [Requests -> PCs]
      /\ pc[r] = "delete.file" /\ call[r].op = "delete"
  BY DEF IInv, TypeOK, DataOK, DeleteResumeFile, Busy, Results, Fits, OpFits
<1>2. DataOK' /\ profile' = profile /\ ~Clearing(r, profile.resume) /\ files \ files' \subseteq {call[r].old}
  BY <1>1 DEF DataOK, DeleteResumeFile, DeleteFile, counters, history, Clearing
<1>3. pc' = [pc EXCEPT ![r] = "ensure.read"] /\ call' = call /\ pc'[r] = "ensure.read"
  BY <1>1 DEF DeleteResumeFile, Goto
<1>4. CallOK(r)' /\ OpFits(r)' /\ ~Ahead(r)'
  BY <1>1, <1>3 DEF CallOK, OpFits, EnsurePC, Ahead, Results
<1>5. profile.resume \in files \ files' => Clearing(r, profile.resume)'
  BY <1>1, <1>2, <1>3 DEF Clearing
<1>6. \A k \in files \ files' : ~Ahead(k)
  BY <1>1, <1>2 DEF KeyFits
<1>7. "ensure.read" \in PCs \ (Results \union {"idle"})
  BY DEF PCs, Results
<1> QED
  BY <1>1, <1>2, <1>3, <1>4, <1>5, <1>6, <1>7, OnKept DEF EnsurePC


LEMMA RecomputeReadKept ==
  ASSUME IInv, NEW r \in Requests, NEW q \in Queries, RecomputeRead(r, q)
  PROVE  IInv'
<1> DEFINE c == [call[r] EXCEPT !.pending = @ \ {q}, !.filled = @ /\ Filled(q)]
           where == IF call[r].pending = {q} THEN "recompute.prior" ELSE "recompute.reads"
<1>1. DataOK /\ Busy(r) /\ call[r] \in Call /\ OpFits(r) /\ pc \in [Requests -> PCs] /\ DOMAIN call = Requests
      /\ pc[r] = "recompute.reads"
  BY DEF IInv, TypeOK, DataOK, RecomputeRead, Busy, Results, Fits
<1>2. Filled(q) \in BOOLEAN
  BY <1>1 DEF Filled, DataOK
<1>3. c \in Call /\ c.op = call[r].op /\ c.old = call[r].old /\ c.sec = call[r].sec /\ c.entry = call[r].entry
  BY <1>1, <1>2 DEF Call
<1>4. where \in {"recompute.reads", "recompute.prior"} /\ where \in PCs \ (Results \union {"idle"})
  BY DEF PCs, Results
<1>5. call' = [call EXCEPT ![r] = c] /\ call'[r] = c /\ pc' = [pc EXCEPT ![r] = where] /\ pc'[r] = where
  BY <1>1 DEF RecomputeRead
<1> HIDE DEF c, where
<1>6. DataOK' /\ profile' = profile /\ files' = files /\ ~Clearing(r, profile.resume)
  BY <1>1 DEF DataOK, RecomputeRead, data, counters, history, Clearing
<1>7. CallOK(r)' /\ OpFits(r)' /\ ~Ahead(r)'
  BY <1>1, <1>3, <1>4, <1>5 DEF CallOK, OpFits, EnsurePC, Ahead, Results
<1> QED
  BY <1>1, <1>3, <1>4, <1>5, <1>6, <1>7, OnKept DEF EnsurePC

LEMMA RecomputeReadPriorKept ==
  ASSUME IInv, NEW r \in Requests, RecomputeReadPrior(r)
  PROVE  IInv'
<1> DEFINE c == [call[r] EXCEPT !.prior = profile.complete]
<1>1. DataOK /\ Busy(r) /\ call[r] \in Call /\ OpFits(r) /\ pc \in [Requests -> PCs] /\ DOMAIN call = Requests
      /\ pc[r] = "recompute.prior"
  BY DEF IInv, TypeOK, DataOK, RecomputeReadPrior, Busy, Results, Fits
<1>2. c \in Call /\ c.op = call[r].op /\ c.old = call[r].old /\ c.sec = call[r].sec /\ c.entry = call[r].entry
  BY <1>1 DEF Call, DataOK
<1>3. call' = [call EXCEPT ![r] = c] /\ call'[r] = c /\ pc' = [pc EXCEPT ![r] = "recompute.update"]
      /\ pc'[r] = "recompute.update"
  BY <1>1 DEF RecomputeReadPrior
<1> HIDE DEF c
<1>4. DataOK' /\ profile' = profile /\ files' = files /\ ~Clearing(r, profile.resume)
  BY <1>1 DEF DataOK, RecomputeReadPrior, data, counters, history, Clearing
<1>5. CallOK(r)' /\ OpFits(r)' /\ ~Ahead(r)'
  BY <1>1, <1>2, <1>3 DEF CallOK, OpFits, EnsurePC, Ahead, Results
<1>6. "recompute.update" \in PCs \ (Results \union {"idle"})
  BY DEF PCs, Results
<1> QED
  BY <1>1, <1>2, <1>3, <1>4, <1>5, <1>6, OnKept DEF EnsurePC

\* The end of the recompute, and what its caller does next.
LEMMA AfterKept ==
  ASSUME IInv, NEW r \in Requests, pc[r] \in {"recompute.update", "recompute.event"},
         Goto(r, "recompute.event") \/ AfterRecompute(r), DataOK', profile'.exists = profile.exists,
         profile'.resume = profile.resume, files' = files
  PROVE  IInv'
<1>1. Busy(r) /\ call[r] \in Call /\ OpFits(r) /\ pc \in [Requests -> PCs] /\ ~Clearing(r, profile.resume)
  BY DEF IInv, TypeOK, Busy, Results, Fits, Clearing
<1>2. CASE Return(r, "ok")
  BY <1>1, <1>2, DoneKept DEF Results
<1>3. ASSUME NEW where \in {"recompute.event", "upload.deleteOld"}, Goto(r, where),
             where = "upload.deleteOld" => call[r].op = "upload" /\ call[r].old # None
      PROVE  IInv'
  <2>1. pc' = [pc EXCEPT ![r] = where] /\ call' = call /\ pc'[r] = where /\ where \in PCs \ (Results \union {"idle"})
    BY <1>1, <1>3 DEF Goto, PCs, Results
  <2>2. CallOK(r)' /\ OpFits(r)' /\ ~Ahead(r)'
    BY <1>1, <1>3, <2>1 DEF CallOK, OpFits, EnsurePC, Ahead, Results
  <2> QED
    BY <1>1, <1>3, <2>1, <2>2, OnKept DEF EnsurePC
<1>4. CASE Goto(r, "recompute.event")
  BY <1>3, <1>4
<1>5. CASE AfterRecompute(r)
  BY <1>2, <1>3, <1>5 DEF AfterRecompute
<1> QED
  BY <1>4, <1>5

LEMMA MembershipIsBoolean == ASSUME NEW d, NEW q, NEW S, d = (q \in S) PROVE d \in BOOLEAN
BY SMT

LEMMA RecomputeEndKept ==
  ASSUME IInv, NEW r \in Requests, RecomputeUpdate(r) \/ RecomputeEvent(r)
  PROVE  IInv'
<1>1. pc[r] \in {"recompute.update", "recompute.event"} /\ DataOK /\ call[r] \in Call
  BY DEF RecomputeUpdate, RecomputeEvent, IInv, TypeOK, DataOK, Results
<1>2. doubted' \in BOOLEAN
  <2>1. CASE RecomputeUpdate(r)
    <3>1. doubted' = (r \in crossed)
      BY <2>1 DEF RecomputeUpdate
    <3> QED
      BY <3>1, MembershipIsBoolean, Zenon
  <2>2. CASE RecomputeEvent(r)
    BY <1>1, <2>2 DEF RecomputeEvent, DataOK
  <2> QED
    BY <2>1, <2>2
<1>3. crossed' \subseteq Requests /\ profile' \in [exists: BOOLEAN, basics: BOOLEAN, resume: Keys \union {None}, complete: BOOLEAN]
      /\ profile'.exists = profile.exists /\ profile'.resume = profile.resume /\ files' = files /\ rows' = rows
  BY <1>1 DEF RecomputeUpdate, RecomputeEvent, DataOK, Call, data
<1>4. completed' \in Nat /\ rises' \in Nat
  BY <1>1 DEF RecomputeUpdate, RecomputeEvent, DataOK
<1>5. DataOK'
  BY <1>1, <1>2, <1>3, <1>4 DEF DataOK
<1> QED
  BY <1>1, <1>3, <1>5, AfterKept DEF RecomputeUpdate, RecomputeEvent

LEMMA UploadDeleteOldKept ==
  ASSUME IInv, NEW r \in Requests, UploadDeleteOld(r)
  PROVE  IInv'
<1>1. DataOK /\ OpFits(r) /\ KeyFits(r) /\ pc[r] = "upload.deleteOld"
  BY DEF IInv, TypeOK, DataOK, UploadDeleteOld, Busy, Results, Fits
<1>2. DataOK' /\ profile' = profile /\ ~Clearing(r, profile.resume) /\ files \ files' \subseteq {call[r].old}
  BY <1>1 DEF DataOK, UploadDeleteOld, DeleteFile, counters, history, Clearing
<1>3. \A k \in files \ files' : ~Ahead(k) /\ k # profile.resume
  BY <1>1, <1>2 DEF KeyFits, OpFits, EnsurePC
<1> QED
  BY <1>2, <1>3, DoneKept DEF UploadDeleteOld, Results

\* The pointer moves: to a file that is there, or to none.
LEMMA SetResumeStorageKeyKept ==
  ASSUME IInv, NEW r \in Requests, SetResumeStorageKey(r)
  PROVE  IInv'
<1> DEFINE c == [call[r] EXCEPT !.pending = Queries, !.filled = TRUE]
           key == IF call[r].op = "upload" THEN r ELSE None
<1>1. DataOK /\ Busy(r) /\ call[r] \in Call /\ OpFits(r) /\ KeyFits(r) /\ pc \in [Requests -> PCs]
      /\ DOMAIN call = Requests /\ pc[r] = "resume.set"
  BY DEF IInv, TypeOK, DataOK, SetResumeStorageKey, Busy, Results, Fits
<1>2. c \in Call /\ c.op = call[r].op /\ c.old = call[r].old /\ c.sec = call[r].sec /\ c.entry = call[r].entry
  BY <1>1 DEF Call
<1>3. call' = [call EXCEPT ![r] = c] /\ call'[r] = c /\ pc' = [pc EXCEPT ![r] = "recompute.reads"]
      /\ pc'[r] = "recompute.reads"
  BY <1>1 DEF Recompute, SetResumeStorageKey
<1>4. profile' = [profile EXCEPT !.resume = key] /\ key \in Keys \union {None} /\ files' = files
  BY DEF SetResumeStorageKey, Keys
<1>5. DataOK' /\ profile'.resume = key /\ profile'.exists = profile.exists
  BY <1>1, <1>4 DEF DataOK, SetResumeStorageKey, Recompute, Computing, counters
<1>6. key = r \/ key = None
  OBVIOUS
<1>7. OnlyCallOf(r)
  BY <1>3, Locals DEF PCs
<1>8. CallOK(r)' /\ OpFits(r)' /\ ~Ahead(r)'
  BY <1>1, <1>2, <1>3 DEF CallOK, OpFits, EnsurePC, Ahead, Results

<1>9. (\A k : Ahead(k)' => Ahead(k)) /\ ~Ahead(None)'
  BY <1>7, <1>8, NeverAheadAgain, KeysAssumption DEF Ahead
<1>10. KeyFits(r)'
  <2>1. ~Ahead(call[r].old)'
    BY <1>1, <1>2, <1>3, <1>9 DEF KeyFits, Ahead
  <2>2. call[r].op = "upload" /\ call[r].old # None => profile'.resume # call[r].old
    BY <1>1, <1>5 DEF KeyFits, Ahead
  <2> HIDE DEF c, key
  <2> QED
    BY <1>1, <1>2, <1>3, <1>5, <2>1, <2>2 DEF KeyFits, EnsurePC
<1>11. \A q \in Requests : CallOK(q)' /\ Fits(q)'
  <2>1. key = r => Ahead(r)
    BY <1>1, KeysAssumption DEF Ahead
  <2> HIDE DEF c, key
  <2> QED
    BY <1>1, <1>4, <1>5, <1>6, <1>7, <1>8, <1>10, <2>1, OthersFit DEF Fits
<1> HIDE DEF c
<1>12. TypeOK'
  BY <1>5, <1>7, <1>11 DEF TypeOK, DataOK, CallOK, OnlyCallOf
<1>13. ProfileFits'
  BY <1>1, <1>5, <1>6, <1>8, <1>9 DEF ProfileFits, KeyFits, Ahead
<1>14. DanglingOnlyInDelete'
  BY <1>1, <1>4, <1>5 DEF DanglingOnlyInDelete, KeyFits
<1> QED
  BY <1>11, <1>12, <1>13, <1>14 DEF IInv

-----------------------------------------------------------------------------
(* The invariant                                                           *)

LEMMA Stutters ==
  ASSUME IInv, UNCHANGED vars
  PROVE  IInv'
<1>1. \A k : Ahead(k)' <=> Ahead(k)
  BY DEF vars, Ahead
<1>2. TypeOK' /\ ProfileFits'
  BY <1>1 DEF IInv, vars, TypeOK, ProfileFits, Ahead
<1>3. DanglingOnlyInDelete'
  BY DEF IInv, vars, DanglingOnlyInDelete
<1>4. ASSUME NEW r \in Requests PROVE Fits(r)'
  <2>1. Fits(r)
    BY DEF IInv
  <2>2. ~Ahead(call[r].old) => ~Ahead(call[r].old)'
    BY DEF Ahead, vars
  <2> QED
    BY <2>1, <2>2 DEF vars, Fits, Busy, OpFits, KeyFits
<1> QED
  BY <1>2, <1>3, <1>4 DEF IInv

LEMMA NextIInv ==
  ASSUME IInv, [Next]_vars
  PROVE  IInv'
<1>1. ASSUME NEW r \in Requests, Arrive(r) PROVE IInv'
  BY <1>1, ArriveKept
<1>2. ASSUME NEW r \in Requests, Advance(r) PROVE IInv'
  BY <1>2, BasicsKept, EnsureKept, RowsKept, UploadPutKept, DeleteResumeFileKept, SetResumeStorageKeyKept,
     UploadDeleteOldKept, RecomputeReadKept, RecomputeReadPriorKept, RecomputeEndKept DEF Advance
<1> QED
  BY <1>1, <1>2, Stutters DEF Next

THEOREM Invariance == Spec => []IInv
BY InitIInv, NextIInv, PTL DEF Spec

\* The tables and the locals of the requests keep their types: a request that is
\* on its way has its arguments, and one that is not has none.
THEOREM TypeCorrect == Spec => []TypeOK
BY Invariance, PTL DEF IInv

\* However uploads and deletes overlap and storage fails, a profile points at a
\* missing file only while a delete is about to clear the pointer.
THEOREM DanglingHeals == Spec => []DanglingOnlyInDelete
BY Invariance, PTL DEF IInv

\* The step with which an upload ends.
LEMMA UploadEnds ==
  ASSUME IInv, Next, NEW r \in Requests, pc[r] = "upload.deleteOld", pc'[r] = "ok"
  PROVE  profile.resume \notin files \ files'
<1> SUFFICES ASSUME profile.resume \in files \ files' PROVE FALSE
  OBVIOUS
<1>1. pc \in [Requests -> PCs] /\ Fits(r) /\ Busy(r)
  BY DEF IInv, TypeOK, Busy, Results
<1>2. PICK q \in Requests : Arrive(q) \/ Advance(q)
  BY DEF Next
<1>3. Arrive(q) => files' = files
  BY DEF Arrive, RefuseInput, SaveBasics, Add, Remove, Upload, Delete, data
<1>4. Advance(q) => UploadPut(q) \/ DeleteResumeFile(q) \/ UploadDeleteOld(q) \/ files' = files
  BY DEF Advance, BasicsUpdate, BasicsCreate, EnsureRead, EnsureCreate, RowAdd, RowDelete, SetResumeStorageKey,
     RecomputeRead, RecomputeReadPrior, RecomputeUpdate, RecomputeEvent, data
<1>5. ~UploadPut(q)
  BY DEF UploadPut
<1>6. ~DeleteResumeFile(q)
  BY <1>1 DEF DeleteResumeFile, Goto
<1>7. CASE UploadDeleteOld(q)
  <2>1. q = r /\ profile.resume = call[r].old
    BY <1>1, <1>7 DEF UploadDeleteOld, DeleteFile, Return
  <2> QED
    BY <1>1, <2>1 DEF Fits, OpFits, KeyFits, EnsurePC
<1> QED
  BY <1>2, <1>3, <1>4, <1>5, <1>6, <1>7

\* The key an upload read before its put is never again the key of the profile
\* once it is set, so what the upload then deletes is not the current file.
THEOREM CurrentFileKept == Spec => UploadKeepsCurrentFile
<1> DEFINE Kept == \A r \in Requests :
      pc[r] = "upload.deleteOld" /\ pc'[r] = "ok" => profile.resume \notin files \ files'
<1>1. ASSUME IInv, [Next]_vars PROVE [Kept]_vars
  BY <1>1, UploadEnds
<1>2. Spec => [][Kept]_vars
  BY <1>1, Invariance, PTL DEF Spec
<1> QED
  BY <1>2 DEF UploadKeepsCurrentFile

-----------------------------------------------------------------------------
(* The flag, whatever requests overlap                                     *)

\* The history begins with a flag that tells the truth.
LEMMA InitComplete ==
  ASSUME Init
  PROVE  profile.complete = IsComplete
<1>1. CASE profile = NoProfile
  BY <1>1 DEF NoProfile, IsComplete, Filled, Queries
<1>2. CASE profile = FullProfile /\ \E e \in Names : rows = [sec \in Sections |-> {e}]
  <2>1. \A q \in Queries : Filled(q)
    BY <1>2, KeysAssumption DEF FullProfile, Filled, Queries
  <2> QED
    BY <1>2, <2>1 DEF FullProfile, IsComplete
<1> QED
  BY <1>1, <1>2 DEF Init

\* The data the flag is computed from stay.
LEMMA DataSame ==
  ASSUME profile'.basics = profile.basics, profile'.resume = profile.resume, rows' = rows
  PROVE  (\A q : Filled(q)' <=> Filled(q)) /\ IsComplete' = IsComplete
<1>1. \A q : Filled(q)' <=> Filled(q)
  BY DEF Filled
<1> QED
  BY <1>1 DEF IsComplete

\* A step moves the locals of its own request only.
LEMMA OneMoves ==
  ASSUME IInv, NEW r \in Requests, Arrive(r) \/ Advance(r)
  PROVE  OnlyCallOf(r)
<1>1. /\ \E where : pc' = [pc EXCEPT ![r] = where]
      /\ UNCHANGED call \/ \E c : call' = [call EXCEPT ![r] = c]
  <2> USE DEF Start, Return, Goto, Recompute
  <2>1. CASE Arrive(r)
    BY <2>1 DEF Arrive, RefuseInput, SaveBasics, Add, Remove, Upload, Delete
  <2>2. CASE Advance(r)
    BY <2>2 DEF Advance, BasicsUpdate, BasicsCreate, EnsureRead, EnsureCreate, RowAdd, RowDelete,
       UploadPut, DeleteResumeFile, SetResumeStorageKey, UploadDeleteOld, RecomputeRead, RecomputeReadPrior,
       RecomputeUpdate, RecomputeEvent, AfterRecompute
  <2> QED
    BY <2>1, <2>2
<1>2. IInv'
  BY NextIInv DEF Next
<1> QED
  BY <1>1, <1>2 DEF OnlyCallOf, IInv, TypeOK

\* A step that is no part of a recompute and changes none of the data.
LEMMA FlagQuiet ==
  ASSUME FlagInv, NEW r \in Requests, OnlyCallOf(r), r \notin Computing, r \notin Computing',
         profile'.basics = profile.basics, profile'.resume = profile.resume, profile'.complete = profile.complete,
         UNCHANGED <<rows, crossed, doubted>>
  PROVE  FlagInv'
<1>1. (\A q : Filled(q)' <=> Filled(q)) /\ IsComplete' = IsComplete
  BY DataSame
<1>2. Computing' = Computing
  BY DEF Computing, OnlyCallOf
<1>3. ASSUME NEW q \in Requests PROVE FlagFits(q)'
  <2>1. CASE q = r
    BY <2>1 DEF FlagFits, Computing
  <2>2. CASE q # r
    BY <1>1, <2>2 DEF FlagInv, FlagFits, OnlyCallOf
  <2> QED
    BY <2>1, <2>2
<1>4. FlagIsTruthful'
  BY <1>1, <1>2 DEF FlagInv, FlagIsTruthful
<1> QED
  BY <1>3, <1>4 DEF FlagInv

\* A change of the data crosses every recompute that is under way, and starts one.
LEMMA FlagMutated ==
  ASSUME FlagInv, NEW r \in Requests, OnlyCallOf(r), r \notin Computing, Recompute(r),
         pc \in [Requests -> PCs], DOMAIN call = Requests, call[r] \in Call
  PROVE  FlagInv'
<1>1. pc'[r] = "recompute.reads" /\ call'[r].pending = Queries /\ call'[r].filled = TRUE
      /\ crossed' = crossed \union Computing
  BY DEF Recompute, Call
<1>2. ASSUME NEW q \in Requests PROVE FlagFits(q)'
  <2>1. CASE q = r
    BY <1>1, <2>1 DEF FlagFits
  <2>2. CASE q # r
    BY <1>1, <2>2 DEF FlagFits, Computing, OnlyCallOf
  <2> QED
    BY <2>1, <2>2
<1>3. FlagIsTruthful'
  BY <1>1 DEF FlagIsTruthful, Computing
<1> QED
  BY <1>2, <1>3 DEF FlagInv

\* The steps of the recompute itself.
LEMMA FlagComputed ==
  ASSUME IInv, FlagInv, NEW r \in Requests, OnlyCallOf(r),
         (\E q \in Queries : RecomputeRead(r, q)) \/ RecomputeReadPrior(r) \/ RecomputeUpdate(r)
  PROVE  FlagInv'
<1>1. pc \in [Requests -> PCs] /\ DOMAIN call = Requests /\ call[r] \in Call /\ r \in Computing /\ DataOK
  BY DEF RecomputeRead, RecomputeReadPrior, RecomputeUpdate, IInv, TypeOK, Results, Computing, DataOK
<1>2. (\A p : Filled(p)' <=> Filled(p)) /\ IsComplete' = IsComplete /\ (IsComplete <=> \A p \in Queries : Filled(p))
  <2>1. profile'.basics = profile.basics /\ profile'.resume = profile.resume /\ rows' = rows
    BY <1>1 DEF RecomputeRead, RecomputeReadPrior, RecomputeUpdate, data, DataOK
  <2> QED
    BY <2>1, DataSame DEF IsComplete
<1>3. \A q \in Requests \ {r} : q \in crossed' <=> q \in crossed
  BY DEF RecomputeRead, RecomputeReadPrior, RecomputeUpdate, history
<1>4. \A q \in Requests \ {r} : FlagFits(q)'
  BY <1>2, <1>3 DEF FlagInv, FlagFits, OnlyCallOf
<1>5. FlagFits(r)
  BY DEF FlagInv
<1>6. ASSUME NEW q \in Queries, RecomputeRead(r, q) PROVE FlagInv'
  <2>1. /\ pc[r] = "recompute.reads" /\ crossed' = crossed /\ q \in call[r].pending
        /\ call'[r].pending = call[r].pending \ {q}
        /\ call'[r].filled <=> call[r].filled /\ Filled(q)
        /\ pc'[r] = IF call[r].pending = {q} THEN "recompute.prior" ELSE "recompute.reads"
    BY <1>1, <1>6 DEF RecomputeRead, Call, history
  <2>2. r \notin crossed => (call'[r].filled <=> \A p \in Queries \ call'[r].pending : Filled(p)')
    BY <1>2, <1>5, <2>1 DEF FlagFits
  <2>3. r \notin crossed /\ pc'[r] = "recompute.prior" => (call'[r].filled <=> IsComplete')
    BY <1>2, <2>1, <2>2
  <2>4. FlagFits(r)'
    BY <2>1, <2>2, <2>3 DEF FlagFits
  <2>5. FlagIsTruthful'
    BY <2>1 DEF FlagIsTruthful, Computing
  <2> QED
    BY <1>4, <2>4, <2>5 DEF FlagInv
<1>7. CASE RecomputeReadPrior(r)
  <2>1. /\ pc[r] = "recompute.prior" /\ pc'[r] = "recompute.update" /\ crossed' = crossed
        /\ call'[r].filled = call[r].filled
    BY <1>1, <1>7 DEF RecomputeReadPrior, Call, history
  <2>2. FlagFits(r)'
    BY <1>2, <1>5, <2>1 DEF FlagFits
  <2>3. FlagIsTruthful'
    BY <2>1 DEF FlagIsTruthful, Computing
  <2> QED
    BY <1>4, <2>2, <2>3 DEF FlagInv
<1>8. CASE RecomputeUpdate(r)
  <2>1. /\ pc[r] = "recompute.update" /\ pc'[r] \in {"recompute.event", "upload.deleteOld", "ok"}
        /\ profile'.complete = call[r].filled /\ (doubted' <=> r \in crossed)
    BY <1>1, <1>8 DEF RecomputeUpdate, DataOK, Goto, Return, AfterRecompute
  <2>2. FlagFits(r)'
    BY <2>1 DEF FlagFits
  <2>3. FlagIsTruthful'
    <3>1. r \notin crossed => (profile'.complete <=> IsComplete')
      BY <1>2, <1>5, <2>1 DEF FlagFits
    <3>2. profile'.complete \in BOOLEAN /\ IsComplete' \in BOOLEAN
      BY <1>1, <2>1 DEF Call, IsComplete
    <3> QED
      BY <2>1, <3>1, <3>2 DEF FlagIsTruthful
  <2> QED
    BY <1>4, <2>2, <2>3 DEF FlagInv
<1> QED
  BY <1>6, <1>7, <1>8

LEMMA InitFlag ==
  ASSUME Init
  PROVE  FlagInv
<1>1. \A r \in Requests : FlagFits(r)
  BY DEF Init, FlagFits
<1>2. FlagIsTruthful
  BY InitComplete DEF FlagIsTruthful
<1> QED
  BY <1>1, <1>2 DEF FlagInv

LEMMA NextFlag ==
  ASSUME IInv, FlagInv, [Next]_vars
  PROVE  FlagInv'
<1>1. CASE UNCHANGED vars
  <2>1. (\A p : Filled(p)' <=> Filled(p)) /\ IsComplete' = IsComplete
    BY <1>1, DataSame DEF vars
  <2> QED
    BY <1>1, <2>1 DEF FlagInv, FlagFits, FlagIsTruthful, Computing, vars
<1>2. ASSUME NEW r \in Requests, Arrive(r) PROVE FlagInv'
  <2>1. OnlyCallOf(r) /\ r \notin Computing /\ UNCHANGED <<profile, rows, crossed, doubted>>
    BY <1>2, OneMoves DEF Arrive, RefuseInput, SaveBasics, Add, Remove, Upload, Delete, Accept, Computing, data, history
  <2>2. r \notin Computing'
    BY <1>2 DEF Arrive, RefuseInput, SaveBasics, Add, Remove, Upload, Delete, Start, Return, IInv, TypeOK, Computing
  <2> QED
    BY <2>1, <2>2, FlagQuiet
<1>3. ASSUME NEW r \in Requests, Advance(r) PROVE FlagInv'
  <2>1. OnlyCallOf(r) /\ pc \in [Requests -> PCs] /\ DOMAIN call = Requests /\ DataOK
    BY <1>3, OneMoves DEF IInv, TypeOK, DataOK
  <2>2. CASE (\E q \in Queries : RecomputeRead(r, q)) \/ RecomputeReadPrior(r) \/ RecomputeUpdate(r)
    BY <2>1, <2>2, FlagComputed
  <2>3. CASE Recompute(r) /\ r \notin Computing /\ pc[r] \notin Results \union {"idle"}
    <3>1. call[r] \in Call
      BY <2>3 DEF IInv, TypeOK
    <3> QED
      BY <2>1, <2>3, <3>1, FlagMutated
  <2>4. CASE BasicsUpdate(r) \/ BasicsCreate(r) \/ RowAdd(r) \/ RowDelete(r) \/ SetResumeStorageKey(r)
    <3>1. r \notin Computing /\ pc[r] \notin Results \union {"idle"}
      BY <2>4 DEF BasicsUpdate, BasicsCreate, RowAdd, RowDelete, SetResumeStorageKey, Computing, Results
    <3>2. CASE Return(r, "error") /\ UNCHANGED <<profile, rows, crossed, doubted>>
      <4>1. r \notin Computing'
        BY <2>1, <3>2 DEF Return, Computing
      <4> QED
        BY <2>1, <3>1, <3>2, <4>1, FlagQuiet
    <3> QED
      BY <2>3, <2>4, <3>1, <3>2 DEF BasicsUpdate, BasicsCreate, RowAdd, RowDelete, SetResumeStorageKey
  <2>5. CASE EnsureRead(r) \/ EnsureCreate(r) \/ UploadPut(r) \/ DeleteResumeFile(r) \/ UploadDeleteOld(r)
             \/ RecomputeEvent(r)
    <3>1. r \notin Computing /\ rows' = rows /\ crossed' = crossed /\ doubted' = doubted
      BY <2>5 DEF EnsureRead, EnsureCreate, UploadPut, DeleteResumeFile, UploadDeleteOld, RecomputeEvent, Computing,
         data, history
    <3>2. profile'.basics = profile.basics /\ profile'.resume = profile.resume /\ profile'.complete = profile.complete
      BY <2>1, <2>5 DEF EnsureRead, EnsureCreate, UploadPut, DeleteResumeFile, UploadDeleteOld, RecomputeEvent, data,
         DataOK
    <3>3. r \notin Computing'
      BY <2>1, <2>5 DEF EnsureRead, EnsureCreate, UploadPut, DeleteResumeFile, UploadDeleteOld, RecomputeEvent,
         Computing, Goto, Return, AfterEnsure, AfterRecompute
    <3> QED
      BY <2>1, <3>1, <3>2, <3>3, FlagQuiet
  <2> QED
    BY <1>3, <2>2, <2>4, <2>5 DEF Advance
<1> QED
  BY <1>1, <1>2, <1>3 DEF Next

LEMMA FlagInvariance == Spec => [](IInv /\ FlagInv)
BY InitIInv, NextIInv, InitFlag, NextFlag, PTL DEF Spec

\* However the reads, changes and writes of overlapping requests interleave, the flag is right
\* once nobody is computing it, unless its last writer had been crossed by a change.
THEOREM FlagFollowsData == Spec => []FlagIsTruthful
<1>1. FlagInv => FlagIsTruthful
  BY DEF FlagInv
<1> QED
  BY <1>1, FlagInvariance, PTL

-----------------------------------------------------------------------------
(* One request at a time                                                   *)

\* A request that takes a step is the only one on its way, before and after.
LEMMA Alone ==
  ASSUME IInv, SerialInv, MaxInFlight = 1, NEW r \in Requests, Arrive(r) \/ Advance(r)
  PROVE  /\ InFlight \subseteq {r}
         /\ Arrive(r) => InFlight = {}
         /\ OnlyCallOf(r)
<1>1. ASSUME Accept(r) PROVE InFlight = {}
  <2>1. IsFiniteSet(InFlight)
    <3>1. CASE InFlight = {}
      BY <3>1, FS_EmptySet
    <3>2. ASSUME NEW q \in InFlight PROVE IsFiniteSet(InFlight)
      <4>1. InFlight = {q}
        BY DEF SerialInv
      <4> QED
        BY <4>1, FS_Singleton
    <3> QED
      BY <3>1, <3>2
  <2>2. Cardinality(InFlight) \in Nat /\ Cardinality(InFlight) < 1
    BY <1>1, <2>1, FS_CardinalityType DEF Accept
  <2> QED
    BY <2>1, <2>2, FS_EmptySet
<1>2. ASSUME Arrive(r) PROVE Accept(r)
  BY <1>2 DEF Arrive, RefuseInput, SaveBasics, Add, Remove, Upload, Delete
<1>3. ASSUME Advance(r) PROVE InFlight \subseteq {r}
  <2>1. r \in InFlight
    BY <1>3 DEF Advance, InFlight, Results, BasicsUpdate, BasicsCreate, EnsureRead, EnsureCreate, RowAdd, RowDelete,
       UploadPut, DeleteResumeFile, SetResumeStorageKey, UploadDeleteOld, RecomputeRead, RecomputeReadPrior,
       RecomputeUpdate, RecomputeEvent
  <2> QED
    BY <2>1 DEF SerialInv
<1>4. OnlyCallOf(r)
  BY OneMoves
<1> QED
  BY <1>1, <1>2, <1>3, <1>4

\* What a step of the only request has to show.
LEMMA SerialStep ==
  ASSUME SerialInv, NEW r \in Requests, InFlight \subseteq {r}, OnlyCallOf(r),
         Busy(r)' => FlagInStep(r)',
         ~Busy(r)' => profile'.complete = IsComplete' /\ completed' = rises'
  PROVE  SerialInv'
<1>1. InFlight' \subseteq {r}
  BY DEF InFlight, OnlyCallOf
<1>2. r \in InFlight' <=> Busy(r)'
  BY DEF InFlight, Busy
<1> QED
  BY <1>1, <1>2 DEF SerialInv

LEMMA SerialArrive ==
  ASSUME IInv, SerialInv, MaxInFlight = 1, NEW r \in Requests, Arrive(r)
  PROVE  SerialInv'
<1>1. InFlight = {} /\ OnlyCallOf(r)
  BY Alone
<1>2. profile.complete = IsComplete /\ completed = rises
  BY <1>1 DEF SerialInv
<1>3. UNCHANGED <<profile, rows, files, completed, rises>>
  BY DEF Arrive, RefuseInput, SaveBasics, Add, Remove, Upload, Delete, data, counters, history
<1>4. IsComplete' = IsComplete
  BY <1>3, DataSame
<1>5. pc'[r] \in MutatePC \union Results
  BY DEF Arrive, RefuseInput, SaveBasics, Add, Remove, Upload, Delete, Start, Return, MutatePC, Results, IInv, TypeOK
<1>6. profile'.complete = IsComplete' /\ completed' = rises'
  BY <1>2, <1>3, <1>4
<1>7. Busy(r)' => FlagInStep(r)'
  BY <1>5, <1>6 DEF Busy, FlagInStep, MutatePC, Results
<1> QED
  BY <1>1, <1>6, <1>7, SerialStep

\* A step of a mutation before its recompute, and one that starts it.
LEMMA SerialMutate ==
  ASSUME IInv, SerialInv, MaxInFlight = 1, NEW r \in Requests,
         \/ BasicsUpdate(r) \/ BasicsCreate(r) \/ EnsureRead(r) \/ EnsureCreate(r) \/ RowAdd(r) \/ RowDelete(r)
         \/ UploadPut(r) \/ DeleteResumeFile(r) \/ SetResumeStorageKey(r) \/ UploadDeleteOld(r)
  PROVE  SerialInv'
<1>1. InFlight \subseteq {r} /\ OnlyCallOf(r)
  BY Alone DEF Advance
<1>2. pc[r] \in MutatePC \union {"upload.deleteOld"} /\ pc \in [Requests -> PCs] /\ DOMAIN call = Requests
      /\ Busy(r) /\ call[r] \in Call
  BY DEF BasicsUpdate, BasicsCreate, EnsureRead, EnsureCreate, RowAdd, RowDelete, UploadPut, DeleteResumeFile,
     SetResumeStorageKey, UploadDeleteOld, MutatePC, IInv, TypeOK, Busy, Results
<1>3. profile.complete = IsComplete /\ completed = rises
  BY <1>2 DEF SerialInv, FlagInStep, InFlight, Busy
<1>4. completed' = rises'
  BY <1>3 DEF BasicsUpdate, BasicsCreate, EnsureRead, EnsureCreate, RowAdd, RowDelete, UploadPut, DeleteResumeFile,
     SetResumeStorageKey, UploadDeleteOld, counters, history
<1>5. CASE Recompute(r)
  <2>1. pc'[r] = "recompute.reads" /\ call'[r].pending = Queries /\ call'[r].filled = TRUE
    BY <1>2, <1>5 DEF Recompute, Call
  <2> QED
    BY <1>1, <1>4, <2>1, SerialStep DEF FlagInStep, MutatePC, Busy, Results
<1>6. CASE ~Recompute(r)
  <2>1. profile'.complete = profile.complete /\ profile'.basics = profile.basics /\ profile'.resume = profile.resume
        /\ rows' = rows
    BY <1>6 DEF BasicsUpdate, BasicsCreate, EnsureRead, EnsureCreate, RowAdd, RowDelete, UploadPut, DeleteResumeFile,
       SetResumeStorageKey, UploadDeleteOld, data, IInv, TypeOK
  <2>2. pc'[r] \in MutatePC \union Results
    BY <1>2, <1>6 DEF BasicsUpdate, BasicsCreate, EnsureRead, EnsureCreate, RowAdd, RowDelete, UploadPut,
       DeleteResumeFile, SetResumeStorageKey, UploadDeleteOld, MutatePC, Results, Goto, Return, AfterEnsure
  <2>3. profile'.complete = IsComplete'
    BY <1>3, <2>1, DataSame
  <2>4. Busy(r)' => FlagInStep(r)'
    BY <1>4, <2>2, <2>3 DEF Busy, FlagInStep, MutatePC, Results
  <2> QED
    BY <1>1, <1>4, <2>3, <2>4, SerialStep
<1> QED
  BY <1>5, <1>6


LEMMA SerialRead ==
  ASSUME IInv, SerialInv, MaxInFlight = 1, NEW r \in Requests, NEW q \in Queries, RecomputeRead(r, q)
  PROVE  SerialInv'
<1>1. InFlight \subseteq {r} /\ OnlyCallOf(r)
  BY Alone DEF Advance
<1>2. pc[r] = "recompute.reads" /\ pc \in [Requests -> PCs] /\ DOMAIN call = Requests /\ Busy(r) /\ call[r] \in Call
      /\ q \in call[r].pending /\ call[r].pending \subseteq Queries /\ completed = rises
  BY DEF RecomputeRead, IInv, TypeOK, Busy, Results, SerialInv, FlagInStep, InFlight, Call
<1>3. call[r].filled <=> \A p \in Queries \ call[r].pending : Filled(p)
  BY <1>2 DEF SerialInv, FlagInStep, InFlight, Busy
<1>4. /\ call'[r].pending = call[r].pending \ {q}
      /\ call'[r].filled <=> call[r].filled /\ Filled(q)
      /\ pc'[r] = IF call[r].pending = {q} THEN "recompute.prior" ELSE "recompute.reads"
      /\ completed' = rises'
  BY <1>2 DEF RecomputeRead, Call, counters, history
<1>5. (\A p : Filled(p)' <=> Filled(p)) /\ IsComplete' = IsComplete
  BY DataSame DEF RecomputeRead, data
<1>6. call'[r].filled <=> \A p \in Queries \ call'[r].pending : Filled(p)'
  BY <1>2, <1>3, <1>4, <1>5
<1>7. pc'[r] = "recompute.prior" => (call'[r].filled <=> IsComplete')
  <2>1. pc'[r] = "recompute.prior" => call'[r].pending = {}
    BY <1>4
  <2>2. IsComplete' <=> \A p \in Queries : Filled(p)'
    BY DEF IsComplete
  <2> QED
    BY <1>6, <2>1, <2>2
<1> QED
  BY <1>1, <1>4, <1>6, <1>7, SerialStep DEF FlagInStep, MutatePC, Busy, Results

LEMMA SerialRecompute ==
  ASSUME IInv, SerialInv, MaxInFlight = 1, NEW r \in Requests,
         RecomputeReadPrior(r) \/ RecomputeUpdate(r) \/ RecomputeEvent(r)
  PROVE  SerialInv'
<1>1. InFlight \subseteq {r} /\ OnlyCallOf(r)
  BY Alone DEF Advance
<1>2. pc \in [Requests -> PCs] /\ DOMAIN call = Requests /\ Busy(r) /\ call[r] \in Call
      /\ FlagInStep(r) /\ DataOK
  BY DEF RecomputeReadPrior, RecomputeUpdate, RecomputeEvent, IInv, TypeOK, Busy, Results, SerialInv, InFlight, DataOK
<1>3. (\A p : Filled(p)' <=> Filled(p)) /\ IsComplete' = IsComplete
  BY <1>2, DataSame DEF RecomputeReadPrior, RecomputeUpdate, RecomputeEvent, data, DataOK
<1>4. CASE RecomputeReadPrior(r)
  <2>1. /\ pc[r] = "recompute.prior" /\ pc'[r] = "recompute.update"
        /\ call'[r].prior = profile'.complete /\ call'[r].filled = call[r].filled
        /\ completed' = completed /\ rises' = rises
    BY <1>2, <1>4 DEF RecomputeReadPrior, Call, counters, history, data
  <2> QED
    BY <1>1, <1>2, <1>3, <2>1, SerialStep DEF FlagInStep, MutatePC, Busy, Results
<1>5. CASE RecomputeUpdate(r)
  <2>1. /\ pc[r] = "recompute.update" /\ pc'[r] \in {"recompute.event", "upload.deleteOld", "ok"}
        /\ profile'.complete = call[r].filled /\ completed' = completed
        /\ pc'[r] = "recompute.event" <=> ~call[r].prior /\ call[r].filled
    BY <1>2, <1>5 DEF RecomputeUpdate, Call, DataOK, Goto, Return, AfterRecompute
  <2>2. (call[r].filled <=> IsComplete) /\ call[r].prior = profile.complete /\ completed = rises
    BY <1>2, <2>1 DEF FlagInStep
  <2>3. IF pc'[r] = "recompute.event" THEN completed' + 1 = rises' ELSE completed' = rises'
    BY <1>2, <1>5, <2>1, <2>2 DEF RecomputeUpdate, DataOK
  <2>4. profile'.complete = IsComplete'
    <3>1. IsComplete \in BOOLEAN /\ call[r].filled \in BOOLEAN
      BY <1>2 DEF IsComplete, Call
    <3> QED
      BY <1>3, <2>1, <2>2, <3>1
  <2>5. Busy(r)' => FlagInStep(r)'
    BY <2>1, <2>3, <2>4 DEF FlagInStep, MutatePC, Busy, Results
  <2>6. ~Busy(r)' => pc'[r] # "recompute.event"
    BY DEF Busy, Results
  <2> QED
    BY <1>1, <2>3, <2>4, <2>5, <2>6, SerialStep
<1>6. CASE RecomputeEvent(r)
  <2>1. /\ pc[r] = "recompute.event" /\ pc'[r] \in {"upload.deleteOld", "ok"}
        /\ profile' = profile /\ completed' = completed + 1 /\ rises' = rises
    BY <1>2, <1>6 DEF RecomputeEvent, AfterRecompute, Goto, Return, data
  <2>2. profile'.complete = IsComplete' /\ completed' = rises'
    BY <1>2, <1>3, <2>1 DEF FlagInStep
  <2>3. Busy(r)' => FlagInStep(r)'
    BY <2>1, <2>2 DEF FlagInStep, MutatePC, Busy, Results
  <2> QED
    BY <1>1, <2>2, <2>3, SerialStep
<1> QED
  BY <1>4, <1>5, <1>6

LEMMA InitSerial == Init => SerialInv
<1> SUFFICES ASSUME Init PROVE SerialInv
  OBVIOUS
<1>1. InFlight = {} /\ completed = rises
  BY DEF Init, InFlight, Results
<1>2. profile.complete = IsComplete
  BY InitComplete
<1> QED
  BY <1>1, <1>2 DEF SerialInv

LEMMA NextSerial ==
  ASSUME IInv, SerialInv, MaxInFlight = 1, [Next]_vars
  PROVE  SerialInv'
<1>1. CASE UNCHANGED vars
  <2>1. (\A p : Filled(p)' <=> Filled(p)) /\ IsComplete' = IsComplete
    BY <1>1, DataSame DEF vars
  <2>2. InFlight' = InFlight
    BY <1>1 DEF vars, InFlight
  <2>3. \A r \in Requests : FlagInStep(r) => FlagInStep(r)'
    BY <1>1, <2>1 DEF vars, FlagInStep
  <2> QED
    BY <1>1, <2>1, <2>2, <2>3 DEF SerialInv, vars, InFlight
<1>2. ASSUME NEW r \in Requests, Arrive(r) PROVE SerialInv'
  BY <1>2, SerialArrive
<1>3. ASSUME NEW r \in Requests, Advance(r) PROVE SerialInv'
  BY <1>3, SerialMutate, SerialRead, SerialRecompute DEF Advance
<1> QED
  BY <1>1, <1>2, <1>3 DEF Next

LEMMA SerialInvariance == ASSUME MaxInFlight = 1 PROVE Spec => [](IInv /\ SerialInv)
BY InitIInv, NextIInv, InitSerial, NextSerial, PTL DEF Spec

\* Requests that do not overlap: whenever none is on its way, the flag that
\* submitApplication trusts is the completeness of the stored data.
THEOREM SerialFlag == ASSUME MaxInFlight = 1 PROVE Spec => [](InFlight = {} => profile.complete = IsComplete)
<1>1. SerialInv => (InFlight = {} => profile.complete = IsComplete)
  BY DEF SerialInv
<1> QED
  BY <1>1, SerialInvariance, PTL

\* And each rise of the flag was reported once.
THEOREM SerialEvents == ASSUME MaxInFlight = 1 PROVE Spec => []OneEventPerRise
<1>1. SerialInv => OneEventPerRise
  BY DEF SerialInv, OneEventPerRise
<1> QED
  BY <1>1, SerialInvariance, PTL


-----------------------------------------------------------------------------
(* The store, if storage works                                             *)

LEMMA InitStore == Init => StoreInv
BY DEF Init, StoreInv, InFlight, Results, NoProfile, FullProfile

\* What a step of the only request has to show.
LEMMA StoreStep ==
  ASSUME NEW r \in Requests, InFlight \subseteq {r}, OnlyCallOf(r),
         Busy(r)' => FilesInStep(r)', ~Busy(r)' => files' \subseteq {profile'.resume}
  PROVE  StoreInv'
<1>1. InFlight' \subseteq {r}
  BY DEF InFlight, OnlyCallOf
<1>2. r \in InFlight' <=> Busy(r)'
  BY DEF InFlight, Busy
<1> QED
  BY <1>1, <1>2 DEF StoreInv

LEMMA StoreArrive ==
  ASSUME IInv, SerialInv, StoreInv, MaxInFlight = 1, NEW r \in Requests, Arrive(r)
  PROVE  StoreInv'
<1>1. InFlight = {} /\ OnlyCallOf(r)
  BY Alone
<1>2. files \subseteq {profile.resume} /\ files \subseteq Keys /\ profile' = profile /\ files' = files
  BY <1>1 DEF StoreInv, Arrive, RefuseInput, SaveBasics, Add, Remove, Upload, Delete, data, IInv, TypeOK
<1>3. \/ pc'[r] = "error"
      \/ call'[r].op \notin {"upload", "delete"} /\ pc'[r] # "ensure.create"
      \/ call'[r].op = "upload" /\ call'[r].old = profile.resume /\ pc'[r] = "upload.put"
      \/ call'[r].op = "delete" /\ call'[r].old = profile.resume
         /\ pc'[r] = IF profile.resume = None THEN "ensure.read" ELSE "delete.file"
  BY DEF Arrive, RefuseInput, SaveBasics, Add, Remove, Upload, Delete, Start, Return, IInv, TypeOK
<1>4. Busy(r)' => FilesInStep(r)'
  BY <1>2, <1>3, KeysAssumption DEF Busy, Results, FilesInStep, Keys, EnsurePC
<1> QED
  BY <1>1, <1>2, <1>4, StoreStep

\* The steps that leave the store and the resume alone.
LEMMA StoreAdvance ==
  ASSUME IInv, SerialInv, StoreInv, MaxInFlight = 1, NEW r \in Requests,
         \/ BasicsUpdate(r) \/ BasicsCreate(r) \/ EnsureRead(r) \/ EnsureCreate(r) \/ RowAdd(r) \/ RowDelete(r)
         \/ \E q \in Queries : RecomputeRead(r, q)
         \/ RecomputeReadPrior(r) \/ RecomputeUpdate(r) \/ RecomputeEvent(r)
  PROVE  StoreInv'
<1> DEFINE Early == EnsurePC \union {"resume.set"}
<1>1. InFlight \subseteq {r} /\ OnlyCallOf(r)
  BY Alone DEF Advance
<1>2. Busy(r) /\ pc \in [Requests -> PCs] /\ DOMAIN call = Requests /\ call[r] \in Call
      /\ pc[r] \notin {"upload.put", "delete.file"} /\ DataOK
  BY DEF BasicsUpdate, BasicsCreate, EnsureRead, EnsureCreate, RowAdd, RowDelete, RecomputeRead, RecomputeReadPrior,
       RecomputeUpdate, RecomputeEvent, Busy, Results, IInv, TypeOK, DataOK
<1>3. FilesInStep(r) /\ OpFits(r) /\ files \subseteq Keys
  BY <1>2 DEF StoreInv, InFlight, Busy, DataOK, IInv, Fits
<1>4. files' = files /\ profile'.resume = profile.resume
  BY <1>2 DEF BasicsUpdate, BasicsCreate, EnsureRead, EnsureCreate, RowAdd, RowDelete, RecomputeRead,
     RecomputeReadPrior, RecomputeUpdate, RecomputeEvent, data, DataOK
<1>5. CASE /\ pc'[r] \in Results
           /\ call[r].op \in {"saveBasics", "remove"} \/ pc[r] \in {"recompute.update", "recompute.event"}
           /\ call[r].op = "upload" => call[r].old = None
  <2>1. files \subseteq {profile.resume}
    BY <1>2, <1>3, <1>5, KeysAssumption DEF FilesInStep, EnsurePC, Keys, Call, Ops
  <2> QED
    BY <1>1, <1>4, <1>5, <2>1, StoreStep DEF Busy
<1>6. CASE /\ call'[r].op = call[r].op /\ call'[r].old = call[r].old
           /\ pc'[r] \notin Results \union {"idle", "upload.put", "delete.file"}
           /\ pc'[r] = "ensure.create" => ~profile'.exists
           /\ call[r].op = "upload" => (pc'[r] \in Early <=> pc[r] \in Early)
  <2>1. FilesInStep(r)'
    BY <1>2, <1>3, <1>4, <1>6 DEF FilesInStep
  <2> QED
    BY <1>1, <1>6, <2>1, StoreStep DEF Busy, Results
<1>7. CASE BasicsUpdate(r) \/ BasicsCreate(r) \/ RowAdd(r) \/ RowDelete(r)
  BY <1>2, <1>3, <1>5, <1>6, <1>7 DEF BasicsUpdate, BasicsCreate, RowAdd, RowDelete, Recompute, Return, OpFits, Call,
     Results, EnsurePC
<1>8. CASE EnsureRead(r) \/ EnsureCreate(r)
  BY <1>2, <1>3, <1>6, <1>8 DEF EnsureRead, EnsureCreate, Goto, AfterEnsure, OpFits, FilesInStep, EnsurePC, Results, data, DataOK
<1>9. CASE (\E q \in Queries : RecomputeRead(r, q)) \/ RecomputeReadPrior(r)
  <2>1. call'[r].op = call[r].op /\ call'[r].old = call[r].old
    <3>1. ASSUME NEW q \in Queries, RecomputeRead(r, q)
          PROVE  call'[r].op = call[r].op /\ call'[r].old = call[r].old
      <4> QED
        BY <1>2, <3>1 DEF RecomputeRead, Call
    <3>2. CASE RecomputeReadPrior(r)
      BY <1>2, <3>2 DEF RecomputeReadPrior, Call
    <3> QED
      BY <1>9, <3>1, <3>2
  <2>2. pc[r] \in {"recompute.reads", "recompute.prior"}
        /\ pc'[r] \in {"recompute.reads", "recompute.prior", "recompute.update"}
    BY <1>2, <1>9 DEF RecomputeRead, RecomputeReadPrior
  <2> QED
    BY <1>6, <2>1, <2>2 DEF EnsurePC, Results
<1>10. CASE RecomputeUpdate(r) \/ RecomputeEvent(r)
  BY <1>2, <1>5, <1>6, <1>10 DEF RecomputeUpdate, RecomputeEvent, AfterRecompute, Goto, Return, Results, EnsurePC
<1> QED
  BY <1>7, <1>8, <1>9, <1>10

\* The steps that change the store or the resume.
LEMMA StoreChange ==
  ASSUME IInv, SerialInv, StoreInv, MaxInFlight = 1, StorageFails = FALSE, NEW r \in Requests,
         UploadPut(r) \/ DeleteResumeFile(r) \/ SetResumeStorageKey(r) \/ UploadDeleteOld(r)
  PROVE  StoreInv'
<1>1. InFlight \subseteq {r} /\ OnlyCallOf(r)
  BY Alone DEF Advance
<1>2. Busy(r) /\ pc \in [Requests -> PCs] /\ DOMAIN call = Requests /\ call[r] \in Call /\ DataOK
  BY DEF UploadPut, DeleteResumeFile, SetResumeStorageKey, UploadDeleteOld, Busy, Results, IInv, TypeOK, DataOK
<1>3. FilesInStep(r) /\ OpFits(r) /\ KeyFits(r)
  BY <1>2 DEF StoreInv, InFlight, Busy, IInv, Fits
<1>4. CASE UploadPut(r)
  <2>1. call[r].op = "upload" /\ pc[r] = "upload.put"
    BY <1>3, <1>4 DEF UploadPut, OpFits
  <2>2. pc'[r] = "ensure.read" /\ call' = call /\ files' = files \union {r} /\ profile' = profile
    BY <1>2, <1>4 DEF UploadPut, Goto
  <2>3. FilesInStep(r)' /\ Busy(r)'
    BY <1>3, <2>1, <2>2 DEF FilesInStep, EnsurePC, Busy, Results
  <2> QED
    BY <1>1, <2>3, StoreStep
<1>5. CASE DeleteResumeFile(r)
  <2>1. call[r].op = "delete" /\ pc[r] = "delete.file"
    BY <1>3, <1>5 DEF DeleteResumeFile, OpFits
  <2>2. pc'[r] = "ensure.read" /\ call' = call /\ files' = files \ {call[r].old} /\ profile' = profile
    BY <1>2, <1>5 DEF DeleteResumeFile, DeleteFile, Goto
  <2>3. FilesInStep(r)' /\ Busy(r)'
    BY <1>3, <2>1, <2>2 DEF FilesInStep, EnsurePC, Busy, Results
  <2> QED
    BY <1>1, <2>3, StoreStep
<1>6. CASE SetResumeStorageKey(r)
  <2>1. call[r].op \in {"upload", "delete"} /\ pc[r] = "resume.set"
    BY <1>3, <1>6 DEF SetResumeStorageKey, OpFits
  <2>2. pc'[r] = "recompute.reads" /\ call'[r].op = call[r].op /\ call'[r].old = call[r].old /\ files' = files
        /\ (call[r].op = "upload" => profile'.resume = r)
    BY <1>2, <1>6 DEF SetResumeStorageKey, Recompute, Call, DataOK
  <2>3. FilesInStep(r)' /\ Busy(r)'
    BY <1>3, <2>1, <2>2 DEF FilesInStep, EnsurePC, Busy, Results
  <2> QED
    BY <1>1, <2>3, StoreStep
<1>7. CASE UploadDeleteOld(r)
  <2>1. call[r].op = "upload" /\ pc[r] = "upload.deleteOld"
    BY <1>3, <1>7 DEF UploadDeleteOld, OpFits
  <2>2. pc'[r] = "ok" /\ files' = files \ {call[r].old} /\ profile' = profile
    BY <1>2, <1>7 DEF UploadDeleteOld, DeleteFile, Return
  <2>3. files' \subseteq {profile'.resume} /\ ~Busy(r)'
    BY <1>3, <2>1, <2>2 DEF FilesInStep, EnsurePC, Busy, Results
  <2> QED
    BY <1>1, <2>3, StoreStep
<1> QED
  BY <1>4, <1>5, <1>6, <1>7

LEMMA NextStore ==
  ASSUME IInv, SerialInv, StoreInv, MaxInFlight = 1, StorageFails = FALSE, [Next]_vars
  PROVE  StoreInv'
<1>1. CASE UNCHANGED vars
  BY <1>1 DEF vars, StoreInv, InFlight, FilesInStep
<1>2. ASSUME NEW r \in Requests, Arrive(r) \/ Advance(r) PROVE StoreInv'
  BY <1>2, StoreArrive, StoreAdvance, StoreChange DEF Advance
<1> QED
  BY <1>1, <1>2 DEF Next

\* Requests that do not overlap, on a storage that works: whenever none is on its
\* way, the store holds no resume but the one on the profile.
THEOREM SerialStore == ASSUME MaxInFlight = 1, StorageFails = FALSE PROVE Spec => []NoDeadFiles
<1>1. StoreInv => NoDeadFiles
  BY DEF StoreInv, NoDeadFiles
<1>2. Spec => []StoreInv
  BY InitStore, NextStore, SerialInvariance, PTL DEF Spec
<1> QED
  BY <1>1, <1>2, PTL


-----------------------------------------------------------------------------
(* What the services that read the profile row see of it                   *)

\* No statement changes the resume and the flag at once: submitApplication sees
\* the one or the other move.
LEMMA OneColumnAtATime ==
  ASSUME IInv, [Next]_vars
  PROVE  \/ profile'.resume = profile.resume /\ profile'.complete = profile.complete
         \/ \E k \in Keys \union {None} : profile' = [profile EXCEPT !.resume = k]
         \/ \E complete \in BOOLEAN : profile' = [profile EXCEPT !.complete = complete]
<1>1. CASE UNCHANGED vars
  BY <1>1 DEF vars
<1>2. ASSUME NEW r \in Requests, Arrive(r) PROVE profile' = profile
  BY <1>2 DEF Arrive, RefuseInput, SaveBasics, Add, Remove, Upload, Delete, data
<1>3. ASSUME NEW r \in Requests, Advance(r), ~SetResumeStorageKey(r), ~RecomputeUpdate(r)
      PROVE  profile'.resume = profile.resume /\ profile'.complete = profile.complete
  BY <1>3 DEF Advance, BasicsUpdate, BasicsCreate, EnsureRead, EnsureCreate, RowAdd, RowDelete, UploadPut,
     DeleteResumeFile, UploadDeleteOld, RecomputeRead, RecomputeReadPrior, RecomputeEvent, data, IInv, TypeOK
<1>4. ASSUME NEW r \in Requests, SetResumeStorageKey(r)
      PROVE  \E k \in Keys \union {None} : profile' = [profile EXCEPT !.resume = k]
  BY <1>4 DEF SetResumeStorageKey, Keys
<1>5. ASSUME NEW r \in Requests, RecomputeUpdate(r)
      PROVE  \E complete \in BOOLEAN : profile' = [profile EXCEPT !.complete = complete]
  <2>1. call[r].filled \in BOOLEAN
    BY <1>5 DEF RecomputeUpdate, IInv, TypeOK, Call, Results
  <2> QED
    BY <1>5, <2>1 DEF RecomputeUpdate
<1> QED
  BY <1>1, <1>2, <1>3, <1>4, <1>5 DEF Next
=============================================================================
