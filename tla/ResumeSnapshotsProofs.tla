------------------------ MODULE ResumeSnapshotsProofs ------------------------
(***************************************************************************)
(* Proofs about ResumeSnapshots: the profile and the applications made     *)
(* with it, over one row and one store.  The theorems of StudentProfiles   *)
(* carry over, and what the profile's handlers write are writes that       *)
(* Applications lets other services make.                                  *)
(***************************************************************************)
EXTENDS ResumeSnapshots, TLAPS

\* The theorems about the profile of the student.
P == INSTANCE StudentProfilesProofs WITH
  Requests <- ProfileRequests, pc <- profilePC, call <- profileCall

-----------------------------------------------------------------------------
(* The profile                                                             *)

\* The two instances are the same system.
LEMMA SameInit == Init => P!Init
BY DEF Init, Profiles!Init, P!Init, Profiles!NoProfile, P!NoProfile, Profiles!FullProfile, P!FullProfile,
   Profiles!NoCall, P!NoCall

LEMMA SameCardinality == ASSUME NEW S PROVE Profiles!Cardinality(S) = P!Cardinality(S)
BY DEF Profiles!Cardinality, P!Cardinality

LEMMA SameAccept == ASSUME NEW r PROVE Profiles!Accept(r) <=> P!Accept(r)
BY SameCardinality DEF Profiles!Accept, P!Accept, Profiles!InFlight, P!InFlight, Profiles!Results, P!Results

LEMMA SameArrive == ASSUME NEW r, Profiles!Arrive(r) PROVE P!Arrive(r)
BY SameAccept
   DEF Profiles!Arrive, P!Arrive, Profiles!RefuseInput, P!RefuseInput, Profiles!SaveBasics, P!SaveBasics,
       Profiles!Add, P!Add, Profiles!Remove, P!Remove, Profiles!Upload, P!Upload, Profiles!Delete, P!Delete,
       Profiles!Start, P!Start, Profiles!Return, P!Return, Profiles!RowIds, P!RowIds, Profiles!NoCall,
       P!NoCall, Profiles!data, P!data, Profiles!counters, P!counters, Profiles!history, P!history,
       Profiles!Computing, P!Computing

LEMMA SameAdvance == ASSUME NEW r, Profiles!Advance(r) PROVE P!Advance(r)
BY DEF Profiles!Advance, P!Advance, Profiles!BasicsUpdate, P!BasicsUpdate, Profiles!BasicsCreate, P!BasicsCreate,
       Profiles!EnsureRead, P!EnsureRead, Profiles!EnsureCreate, P!EnsureCreate, Profiles!RowAdd, P!RowAdd,
       Profiles!RowDelete, P!RowDelete, Profiles!UploadPut, P!UploadPut, Profiles!DeleteResumeFile,
       P!DeleteResumeFile, Profiles!SetResumeStorageKey, P!SetResumeStorageKey, Profiles!UploadDeleteOld,
       P!UploadDeleteOld, Profiles!RecomputeRead, P!RecomputeRead, Profiles!RecomputeReadPrior,
       P!RecomputeReadPrior, Profiles!RecomputeUpdate, P!RecomputeUpdate, Profiles!RecomputeEvent,
       P!RecomputeEvent, Profiles!Goto, P!Goto, Profiles!Return, P!Return, Profiles!Recompute, P!Recompute,
       Profiles!AfterEnsure, P!AfterEnsure, Profiles!DeleteFile, P!DeleteFile, Profiles!AfterRecompute,
       P!AfterRecompute, Profiles!Filled, P!Filled, Profiles!Queries, P!Queries, Profiles!NoCall, P!NoCall,
       Profiles!data, P!data, Profiles!counters, P!counters, Profiles!history, P!history,
       Profiles!Computing, P!Computing

LEMMA SameNext == [Next]_vars => [P!Next]_(P!vars)
BY SameArrive, SameAdvance DEF Next, ProfileStep, ApplicationStep, Profiles!Next, P!Next, vars, profileVars, P!vars

\* The inductive invariant of StudentProfiles, along every step of either side.
LEMMA ProfileInvariance == Spec => []P!IInv
<1>1. Init => P!IInv
  BY MaxInFlightAssumption, StorageFailsAssumption, KeysAssumption, SameInit, P!InitIInv
<1>2. P!IInv /\ [Next]_vars => P!IInv'
  BY MaxInFlightAssumption, StorageFailsAssumption, KeysAssumption, SameNext, P!NextIInv
<1> QED
  BY <1>1, <1>2, PTL DEF Spec

\* And the invariant of the completeness flag.
LEMMA FlagInvariance == Spec => []P!FlagInv
<1>1. Init => P!FlagInv
  BY MaxInFlightAssumption, StorageFailsAssumption, KeysAssumption, SameInit, P!InitFlag
<1>2. P!IInv /\ P!FlagInv /\ [Next]_vars => P!FlagInv'
  BY MaxInFlightAssumption, StorageFailsAssumption, KeysAssumption, SameNext, P!NextFlag
<1> QED
  BY <1>1, <1>2, ProfileInvariance, PTL DEF Spec

\* The flag that admits an application is the completeness of the stored data once nobody is
\* computing it, unless the request that wrote it last had been crossed by another's change.
THEOREM FlagFollowsData == Spec => []FlagIsTruthful
<1>1. P!FlagInv => FlagIsTruthful
  BY DEF P!FlagInv, P!FlagIsTruthful, FlagIsTruthful, Profiles!FlagIsTruthful, Profiles!Computing, P!Computing,
         Profiles!IsComplete, P!IsComplete, Profiles!Filled, P!Filled, Profiles!Queries, P!Queries
<1> QED
  BY <1>1, FlagInvariance, PTL

\* Whatever profile requests overlap, applications arrive and storage calls fail, the
\* resume an application would be made with is there, or is about to be cleared.
THEOREM DanglingHeals == Spec => []DanglingOnlyInDelete
<1>1. P!IInv => DanglingOnlyInDelete
  BY DEF P!IInv, P!DanglingOnlyInDelete, DanglingOnlyInDelete, Profiles!DanglingOnlyInDelete
<1> QED
  BY <1>1, ProfileInvariance, PTL

\* No upload removes the file the profile shows at that moment.
THEOREM CurrentFileKept == Spec => UploadKeepsCurrentFile
<1> DEFINE Kept == \A r \in ProfileRequests :
      profilePC[r] = "upload.deleteOld" /\ profilePC'[r] = "ok" => profile.resume \notin files \ files'
<1>1. ASSUME P!IInv, [Next]_vars PROVE [Kept]_(Profiles!vars)
  <2>1. P!Next \/ UNCHANGED P!vars
    BY <1>1, SameNext
  <2>2. CASE P!Next
    BY MaxInFlightAssumption, StorageFailsAssumption, KeysAssumption, <1>1, <2>2, P!UploadEnds
  <2>3. CASE UNCHANGED P!vars
    BY <2>3 DEF P!vars, Profiles!vars
  <2> QED
    BY <2>1, <2>2, <2>3
<1>2. Spec => [][Kept]_(Profiles!vars)
  BY <1>1, ProfileInvariance, PTL DEF Spec
<1> QED
  BY <1>2 DEF UploadKeepsCurrentFile, Profiles!UploadKeepsCurrentFile

-----------------------------------------------------------------------------
(* The applications                                                        *)

\* The resume keys of the student.
TheKeys == ProfileRequests \union {FirstResume}

\* A write of a profile request is a write of the resume, of the flag, or of nothing
\* that an application request reads.
LEMMA ProfileStepIsAWrite ==
  ASSUME P!IInv, ProfileStep
  PROVE  [Board!Next]_(Board!vars)
<1>1. UNCHANGED applicationVars
  BY DEF ProfileStep
<1>2. \/ profile'.resume = profile.resume /\ profile'.complete = profile.complete
      \/ \E k \in TheKeys \union {None} : profile' = [profile EXCEPT !.resume = k]
      \/ \E complete \in BOOLEAN : profile' = [profile EXCEPT !.complete = complete]
  BY MaxInFlightAssumption, StorageFailsAssumption, KeysAssumption, SameNext, P!OneColumnAtATime DEF Next, P!Keys, TheKeys
<1>3. profile \in [exists: BOOLEAN, basics: BOOLEAN, resume: TheKeys \union {None}, complete: BOOLEAN]
  BY DEF P!IInv, P!TypeOK, P!Keys, TheKeys
<1>4. CASE profile'.resume = profile.resume /\ profile'.complete = profile.complete
  BY <1>1, <1>4 DEF Board!vars, applicationVars
<1>5. ASSUME NEW k \in TheKeys \union {None}, profile' = [profile EXCEPT !.resume = k]
      PROVE  Board!SetResumeStorageKey(TheStudent, k)
  BY <1>1, <1>3, <1>5 DEF Board!SetResumeStorageKey, applicationVars, Board!tables
<1>6. ASSUME NEW complete \in BOOLEAN, profile' = [profile EXCEPT !.complete = complete]
      PROVE  Board!StoreCompleteness(TheStudent, complete)
  BY <1>1, <1>3, <1>6 DEF Board!StoreCompleteness, applicationVars, Board!tables
<1> QED
  BY <1>2, <1>4, <1>5, <1>6 DEF Board!Next, Board!OtherServices, TheKeys

\* The composition implements Applications: its requests are checked there against
\* every write the profile's handlers really make.
THEOREM Refinement == Spec => ImplementsApplications
<1>1. ASSUME P!IInv, [Next]_vars PROVE [Board!Next]_(Board!vars)
  <2>1. CASE ProfileStep
    BY <1>1, <2>1, ProfileStepIsAWrite
  <2>2. CASE ApplicationStep
    BY <2>2 DEF ApplicationStep, Board!Next
  <2>3. CASE UNCHANGED vars
    BY <2>3 DEF vars, profileVars, applicationVars, Board!vars
  <2> QED
    BY <1>1, <2>1, <2>2, <2>3 DEF Next
<1>2. Init => Board!Init
  BY DEF Init
<1> QED
  BY <1>1, <1>2, ProfileInvariance, PTL DEF Spec, ImplementsApplications
=============================================================================
