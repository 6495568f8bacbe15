--------------------------- MODULE StudentProfiles ---------------------------
(***************************************************************************)
(* src/server/services/student-service.ts and the resume actions of        *)
(* src/features/students/actions.ts, for the profile of one student whose  *)
(* requests (several tabs, double clicks, retries) interleave at every     *)
(* awaited statement or storage call.                                      *)
(*                                                                         *)
(* Requests are one-shot; storage.put mints a fresh key for each upload,   *)
(* so the key of an uploaded file is the request that uploaded it, and so  *)
(* is the fresh id of an experience or project row.  A request whose       *)
(* server dies takes no further step.                                      *)
(***************************************************************************)
EXTENDS Naturals, FiniteSets

CONSTANTS
  Requests,      \* every profile request of this student
  Sections,      \* the repeating sections: skill, experience, project
  Names,         \* skill names
  FirstResume,   \* the key of a resume uploaded before the history begins
  None,          \* SQL null
  MaxInFlight,   \* how many of the student's requests may overlap
  StorageFails   \* whether a storage call may fail

ASSUME MaxInFlightAssumption == MaxInFlight \in Nat \ {0}
ASSUME StorageFailsAssumption == StorageFails \in BOOLEAN
ASSUME KeysAssumption == FirstResume \notin Requests /\ None \notin Requests \union {FirstResume}

VARIABLES
  profile,     \* the StudentProfile row
  rows,        \* rows[sec]: its StudentSkill/Experience/Project rows
  files,       \* the resume objects in storage
  completed,   \* number of STUDENT_PROFILE_COMPLETED events
  rises,       \* history: how often isProfileComplete really went FALSE to TRUE
  crossed,     \* history: requests that are computing the flag while another one changed the data
  doubted,     \* history: the request that wrote the flag last had been crossed
  pc, call     \* per request: its next statement; its arguments and reads

vars == <<profile, rows, files, completed, rises, crossed, doubted, pc, call>>

Keys == Requests \union {FirstResume}
RowIds == Requests \union Names
\* The queries recomputeAndPersistCompleteness issues together.
Queries == {"profile"} \union Sections

Results == {"ok", "error"}
PCs == Results \union
  {"idle", "basics.update", "basics.create", "ensure.read", "ensure.create", "row.add", "row.delete",
   "upload.put", "delete.file", "resume.set",
   "recompute.reads", "recompute.prior", "recompute.update", "recompute.event", "upload.deleteOld"}

Ops == {"saveBasics", "add", "remove", "upload", "delete"}
NoCall == [op |-> None]
Call == [op: Ops, filled: BOOLEAN, sec: Sections \union {None}, entry: RowIds \union {None},
         old: Keys \union {None}, pending: SUBSET Queries, prior: BOOLEAN]

TypeOK ==
  /\ profile \in [exists: BOOLEAN, basics: BOOLEAN, resume: Keys \union {None}, complete: BOOLEAN]
  /\ rows \in [Sections -> SUBSET RowIds]
  /\ files \subseteq Keys
  /\ completed \in Nat
  /\ rises \in Nat
  /\ crossed \subseteq Requests
  /\ doubted \in BOOLEAN
  /\ pc \in [Requests -> PCs]
  /\ DOMAIN call = Requests
  /\ \A r \in Requests : call[r] \in IF pc[r] \in Results \union {"idle"} THEN {NoCall} ELSE Call

-----------------------------------------------------------------------------
(* Helpers                                                                 *)

\* calculateCompleteness on the stored data, the ten fields seen as the nine
\* of the basics form and the resume.
Filled(query) ==
  IF query = "profile" THEN profile.basics /\ profile.resume # None ELSE rows[query] # {}

IsComplete == \A q \in Queries : Filled(q)

InFlight == {r \in Requests : pc[r] \notin Results \union {"idle"}}

Accept(r) == pc[r] = "idle" /\ Cardinality(InFlight) < MaxInFlight

Start(r, op, where, filled, sec, entry, old) ==
  /\ pc' = [pc EXCEPT ![r] = where]
  /\ call' = [call EXCEPT ![r] =
       [op |-> op, filled |-> filled, sec |-> sec, entry |-> entry, old |-> old,
        pending |-> {}, prior |-> FALSE]]

Goto(r, where) == pc' = [pc EXCEPT ![r] = where] /\ UNCHANGED call

Return(r, result) ==
  /\ pc' = [pc EXCEPT ![r] = result]
  /\ call' = [call EXCEPT ![r] = NoCall]

\* The requests whose flag is being computed, or still to be written.
Computing == {r \in Requests : pc[r] \in {"recompute.reads", "recompute.prior", "recompute.update"}}

\* The call of recomputeAndPersistCompleteness that ends every mutation.
Recompute(r) ==
  /\ pc' = [pc EXCEPT ![r] = "recompute.reads"]
  /\ call' = [call EXCEPT ![r].pending = Queries, ![r].filled = TRUE]
  /\ crossed' = crossed \union Computing

data == <<profile, rows, files>>
counters == <<completed, rises>>
history == <<counters, crossed, doubted>>

\* The form fails its schema, or the file is missing, empty or over 5 MB.
RefuseInput(r) ==
  /\ Accept(r)
  /\ Return(r, "error")
  /\ UNCHANGED <<data, history>>

-----------------------------------------------------------------------------
(* upsertProfileBasics                                                     *)

\* filled: whether the submitted form fills all nine required fields.
SaveBasics(r, filled) ==
  /\ Accept(r)
  /\ Start(r, "saveBasics", IF profile.exists THEN "basics.update" ELSE "basics.create",
           filled, None, None, None)
  /\ UNCHANGED <<data, history>>

\* Mutant: the recompute is forgotten.
BasicsUpdateOnly(r) ==
  /\ pc[r] = "basics.update"
  /\ profile' = [profile EXCEPT !.basics = call[r].filled]
  /\ Return(r, "ok")
  /\ UNCHANGED <<rows, files, history>>

BasicsUpdate(r) ==
  /\ pc[r] = "basics.update"
  /\ profile' = [profile EXCEPT !.basics = call[r].filled]
  /\ Recompute(r)
  /\ UNCHANGED <<rows, files, counters, doubted>>

\* The unique index on userId stops the second of two racing creates.
BasicsCreate(r) ==
  /\ pc[r] = "basics.create"
  /\ \/ /\ ~profile.exists
        /\ profile' = [profile EXCEPT !.exists = TRUE, !.basics = call[r].filled]
        /\ Recompute(r)
     \/ profile.exists /\ Return(r, "error") /\ UNCHANGED <<profile, crossed>>
  /\ UNCHANGED <<rows, files, counters, doubted>>

-----------------------------------------------------------------------------
(* ensureProfileId                                                         *)

AfterEnsure(op) == IF op = "add" THEN "row.add" ELSE "resume.set"

EnsureRead(r) ==
  /\ pc[r] = "ensure.read"
  /\ Goto(r, IF profile.exists THEN AfterEnsure(call[r].op) ELSE "ensure.create")
  /\ UNCHANGED <<data, history>>

EnsureCreate(r) ==
  /\ pc[r] = "ensure.create"
  /\ \/ /\ ~profile.exists
        /\ profile' = [profile EXCEPT !.exists = TRUE]
        /\ Goto(r, AfterEnsure(call[r].op))
     \/ profile.exists /\ Return(r, "error") /\ UNCHANGED profile
  /\ UNCHANGED <<rows, files, history>>

-----------------------------------------------------------------------------
(* addSkill, addExperience, addProject; removeSkill, ...                    *)

Add(r, sec, e) ==
  /\ Accept(r)
  /\ Start(r, "add", "ensure.read", FALSE, sec, e, None)
  /\ UNCHANGED <<data, history>>

\* Mutant: the row gets no id.
RowAddWithoutId(r) ==
  /\ pc[r] = "row.add"
  /\ rows' = [rows EXCEPT ![call[r].sec] = @ \union {None}]
  /\ Recompute(r)
  /\ UNCHANGED <<profile, files, counters, doubted>>

\* A skill is upserted by its name; the other rows always get a fresh id.
RowAdd(r) ==
  /\ pc[r] = "row.add"
  /\ LET c == call[r] IN
     rows' = [rows EXCEPT ![c.sec] = @ \union {IF c.sec = "skill" THEN c.entry ELSE r}]
  /\ Recompute(r)
  /\ UNCHANGED <<profile, files, counters, doubted>>

\* assertOwnsChild: the row must be there and be the student's.
Remove(r, sec, e) ==
  /\ Accept(r)
  /\ \/ e \in rows[sec] /\ Start(r, "remove", "row.delete", FALSE, sec, e, None)
     \/ e \notin rows[sec] /\ Return(r, "error")
  /\ UNCHANGED <<data, history>>

\* delete({where: {id}}) throws when another request removed the row first.
RowDelete(r) ==
  /\ pc[r] = "row.delete"
  /\ LET c == call[r] IN
     \/ /\ c.entry \in rows[c.sec]
        /\ rows' = [rows EXCEPT ![c.sec] = @ \ {c.entry}]
        /\ Recompute(r)
     \/ c.entry \notin rows[c.sec] /\ Return(r, "error") /\ UNCHANGED <<rows, crossed>>
  /\ UNCHANGED <<profile, files, counters, doubted>>

-----------------------------------------------------------------------------
(* uploadResumeAction, deleteResumeAction                                  *)

Upload(r) ==
  /\ Accept(r)
  /\ Start(r, "upload", "upload.put", FALSE, None, None, profile.resume)
  /\ UNCHANGED <<data, history>>

\* Mutant: a failed put goes unnoticed.
UploadPutUnchecked(r) ==
  /\ pc[r] = "upload.put"
  /\ files' \in {files \union {r}} \union (IF StorageFails THEN {files} ELSE {})
  /\ Goto(r, "ensure.read")
  /\ UNCHANGED <<profile, rows, history>>

UploadPut(r) ==
  /\ pc[r] = "upload.put"
  /\ \/ files' = files \union {r} /\ Goto(r, "ensure.read")
     \/ StorageFails /\ Return(r, "error") /\ UNCHANGED files
  /\ UNCHANGED <<profile, rows, history>>

\* A failed storage.delete is swallowed by both actions.
DeleteFile(k) == files' \in {files \ {k}} \union (IF StorageFails THEN {files} ELSE {})

Delete(r) ==
  /\ Accept(r)
  /\ Start(r, "delete", IF profile.resume = None THEN "ensure.read" ELSE "delete.file",
           FALSE, None, None, profile.resume)
  /\ UNCHANGED <<data, history>>

\* The file goes first, the pointer to it after.
DeleteResumeFile(r) ==
  /\ pc[r] = "delete.file"
  /\ DeleteFile(call[r].old)
  /\ Goto(r, "ensure.read")
  /\ UNCHANGED <<profile, rows, history>>

\* Mutant: deleting the resume takes the completeness flag down in the same update.
SetResumeStorageKeyAndFlag(r) ==
  /\ pc[r] = "resume.set"
  /\ profile' = IF call[r].op = "upload" THEN [profile EXCEPT !.resume = r]
                ELSE [profile EXCEPT !.resume = None, !.complete = FALSE]
  /\ Recompute(r)
  /\ UNCHANGED <<rows, files, counters, doubted>>

SetResumeStorageKey(r) ==
  /\ pc[r] = "resume.set"
  /\ profile' = [profile EXCEPT !.resume = IF call[r].op = "upload" THEN r ELSE None]
  /\ Recompute(r)
  /\ UNCHANGED <<rows, files, counters, doubted>>

\* Mutant: the key to delete is read again after the upload.
UploadDeleteCurrent(r) ==
  /\ pc[r] = "upload.deleteOld"
  /\ DeleteFile(profile.resume)
  /\ Return(r, "ok")
  /\ UNCHANGED <<profile, rows, history>>

\* After the recompute, an upload removes the file it replaced.
UploadDeleteOld(r) ==
  /\ pc[r] = "upload.deleteOld"
  /\ DeleteFile(call[r].old)
  /\ Return(r, "ok")
  /\ UNCHANGED <<profile, rows, history>>

-----------------------------------------------------------------------------
(* recomputeAndPersistCompleteness                                         *)

\* Promise.all: four queries on their own connections, in any order.
RecomputeRead(r, q) ==
  /\ pc[r] = "recompute.reads"
  /\ q \in call[r].pending
  /\ call' = [call EXCEPT ![r].pending = @ \ {q}, ![r].filled = @ /\ Filled(q)]
  /\ pc' = [pc EXCEPT ![r] = IF call[r].pending = {q} THEN "recompute.prior" ELSE @]
  /\ UNCHANGED <<data, history>>

RecomputeReadPrior(r) ==
  /\ pc[r] = "recompute.prior"
  /\ call' = [call EXCEPT ![r].prior = profile.complete]
  /\ pc' = [pc EXCEPT ![r] = "recompute.update"]
  /\ UNCHANGED <<data, history>>

\* Mutant: the replaced file is left behind.
AfterRecomputeKeeping(r) == Return(r, "ok")

\* What the caller does after the recompute.
AfterRecompute(r) ==
  IF call[r].op = "upload" /\ call[r].old # None
  THEN Goto(r, "upload.deleteOld")
  ELSE Return(r, "ok")

\* Mutant: the event does not look at the prior flag.
RecomputeUpdateAlwaysTell(r) ==
  /\ pc[r] = "recompute.update"
  /\ profile' = [profile EXCEPT !.complete = call[r].filled]
  /\ rises' = rises + (IF ~profile.complete /\ call[r].filled THEN 1 ELSE 0)
  /\ doubted' = (r \in crossed)
  /\ crossed' = crossed \ {r}
  /\ IF call[r].filled THEN Goto(r, "recompute.event") ELSE AfterRecompute(r)
  /\ UNCHANGED <<rows, files, completed>>

\* Mutant: the flag is written only if it differs from the prior one.
RecomputeUpdateIfChanged(r) ==
  /\ pc[r] = "recompute.update"
  /\ profile' = [profile EXCEPT !.complete = IF call[r].prior # call[r].filled THEN call[r].filled ELSE @]
  /\ rises' = rises + (IF ~profile.complete /\ profile'.complete THEN 1 ELSE 0)
  /\ doubted' = (r \in crossed)
  /\ crossed' = crossed \ {r}
  /\ IF ~call[r].prior /\ call[r].filled THEN Goto(r, "recompute.event") ELSE AfterRecompute(r)
  /\ UNCHANGED <<rows, files, completed>>

RecomputeUpdate(r) ==
  /\ pc[r] = "recompute.update"
  /\ profile' = [profile EXCEPT !.complete = call[r].filled]
  /\ rises' = rises + (IF ~profile.complete /\ call[r].filled THEN 1 ELSE 0)
  /\ doubted' = (r \in crossed)
  /\ crossed' = crossed \ {r}
  /\ IF ~call[r].prior /\ call[r].filled THEN Goto(r, "recompute.event") ELSE AfterRecompute(r)
  /\ UNCHANGED <<rows, files, completed>>

RecomputeEvent(r) ==
  /\ pc[r] = "recompute.event"
  /\ completed' = completed + 1
  /\ AfterRecompute(r)
  /\ UNCHANGED <<data, rises, crossed, doubted>>

-----------------------------------------------------------------------------
(* Specification                                                           *)

NoProfile == [exists |-> FALSE, basics |-> FALSE, resume |-> None, complete |-> FALSE]
FullProfile == [exists |-> TRUE, basics |-> TRUE, resume |-> FirstResume, complete |-> TRUE]

\* A student before onboarding, or one whose profile is complete.
Init ==
  /\ \/ /\ profile = NoProfile
        /\ rows = [sec \in Sections |-> {}]
        /\ files = {}
     \/ /\ profile = FullProfile
        /\ \E e \in Names : rows = [sec \in Sections |-> {e}]
        /\ files = {FirstResume}
  /\ completed = 0
  /\ rises = 0
  /\ crossed = {}
  /\ doubted = FALSE
  /\ pc = [r \in Requests |-> "idle"]
  /\ call = [r \in Requests |-> NoCall]

Arrive(r) ==
  \/ RefuseInput(r)
  \/ \E filled \in BOOLEAN : SaveBasics(r, filled)
  \/ \E sec \in Sections, name \in Names : Add(r, sec, name)
  \/ \E sec \in Sections, e \in RowIds : Remove(r, sec, e)
  \/ Upload(r)
  \/ Delete(r)

Advance(r) ==
  \/ BasicsUpdate(r) \/ BasicsCreate(r)
  \/ EnsureRead(r) \/ EnsureCreate(r)
  \/ RowAdd(r) \/ RowDelete(r)
  \/ UploadPut(r) \/ DeleteResumeFile(r) \/ SetResumeStorageKey(r) \/ UploadDeleteOld(r)
  \/ \E q \in Queries : RecomputeRead(r, q)
  \/ RecomputeReadPrior(r) \/ RecomputeUpdate(r) \/ RecomputeEvent(r)

Next == \E r \in Requests : Arrive(r) \/ Advance(r)

\* A started handler is run to its end; nothing obliges a request to arrive.
Fairness == \A r \in Requests : WF_vars(Advance(r))

Spec == Init /\ [][Next]_vars /\ Fairness

-----------------------------------------------------------------------------
(* Properties                                                              *)

\* The profile never points at a resume that is gone, except while a delete
\* request is between removing the file and clearing the pointer
\* (features/students/actions.ts:202-217), whatever uploads and deletes overlap.
DanglingOnlyInDelete ==
  profile.resume # None /\ profile.resume \notin files =>
    \E r \in Requests :
      /\ call[r].op = "delete"
      /\ call[r].old = profile.resume
      /\ pc[r] \in {"ensure.read", "resume.set"}

\* An upload never removes the file that the profile shows at that moment
\* (features/students/actions.ts:179-181 deletes a key read before the put).
UploadKeepsCurrentFile ==
  [][\A r \in Requests :
       pc[r] = "upload.deleteOld" /\ pc'[r] = "ok" => profile.resume \notin files \ files']_vars

\* Once no flag is being computed, the flag that submitApplication trusts is the completeness
\* of the stored data, unless the request that wrote it last computed it across another one's
\* change (student-service.ts:39-79): no mutation forgets to recompute, whatever order the
\* reads, changes and writes of overlapping requests come in.
FlagIsTruthful == Computing = {} /\ ~doubted => profile.complete = IsComplete

\* Every rise of the flag is reported by one STUDENT_PROFILE_COMPLETED event:
\* "emit an audit event exactly once" (student-service.ts:71-73).
OneEventPerRise == InFlight = {} => completed = rises

\* Storage does not "accumulate dead files" (features/students/actions.ts:164)
\* when requests do not overlap and storage works.
NoDeadFiles == InFlight = {} => files \subseteq {profile.resume}

\* The flag never stays behind the data for good: after the last change of a
\* burst of requests it is brought up to date (student-service.ts:31-34, 74-79).
FlagCatchesUp == profile.complete # IsComplete ~> profile.complete = IsComplete
=============================================================================
