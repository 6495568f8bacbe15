--------------------------- MODULE ResumeSnapshots ---------------------------
(***************************************************************************)
(* The profile of one student (StudentProfiles) and the applications made  *)
(* with it (Applications) over the same StudentProfile row and the same    *)
(* resume storage.  An application keeps the storage key of the resume it  *)
(* was made with; the file behind the key belongs to the profile's upload  *)
(* and delete actions.                                                     *)
(***************************************************************************)
EXTENDS Naturals, Sequences, FiniteSets

CONSTANTS
  TheStudent, Companies, Jobs, CompanyOf,
  ProfileRequests, ApplicationRequests,
  Sections, Names, FirstResume, None, MaxInFlight, StorageFails

\* What StudentProfiles and Applications assume of their constants.
ASSUME MaxInFlightAssumption == MaxInFlight \in Nat \ {0}
ASSUME StorageFailsAssumption == StorageFails \in BOOLEAN
ASSUME KeysAssumption ==
  FirstResume \notin ProfileRequests /\ None \notin ProfileRequests \union {FirstResume}
ASSUME CompanyOfAssumption == CompanyOf \in [Jobs -> Companies]

VARIABLES
  profile, rows, files, completed, rises, crossed, doubted, profilePC, profileCall,
  posting, company, apps, submittedLog, moveLog, mails, applicationPC, applicationCall

profileVars == <<profile, rows, files, completed, rises, crossed, doubted, profilePC, profileCall>>
applicationVars ==
  <<posting, company, apps, submittedLog, moveLog, mails, applicationPC, applicationCall>>
vars == <<profileVars, applicationVars>>

Profiles == INSTANCE StudentProfiles WITH
  Requests <- ProfileRequests, pc <- profilePC, call <- profileCall

\* What submitApplication reads of the student is the profile row itself.
Board == INSTANCE Applications WITH
  Students <- {TheStudent},
  Keys <- ProfileRequests \union {FirstResume},
  OwnerOf <- [k \in ProfileRequests \union {FirstResume} |-> TheStudent],
  Requests <- ApplicationRequests,
  student <- [s \in {TheStudent} |->
                [deleted |-> FALSE, complete |-> profile.complete, resume |-> profile.resume]],
  pc <- applicationPC, call <- applicationCall

\* The history begins with a complete profile.
Init ==
  /\ Profiles!Init
  /\ profile = Profiles!FullProfile
  /\ Board!Init

ProfileStep == Profiles!Next /\ UNCHANGED applicationVars
ApplicationStep == UNCHANGED profileVars /\ Board!RequestStep

Next == ProfileStep \/ ApplicationStep

Spec == Init /\ [][Next]_vars

-----------------------------------------------------------------------------
(* Properties                                                              *)

\* The profile never points at a resume that is gone, except while a delete
\* request is between removing the file and clearing the pointer
\* (features/students/actions.ts:202-217), whatever uploads and deletes overlap
\* and whichever storage calls fail; so an application made with the resume the
\* profile still shows can be read by the company.
DanglingOnlyInDelete == Profiles!DanglingOnlyInDelete

\* An upload never removes the file that the profile shows at that moment
\* (features/students/actions.ts:179-181 deletes a key read before the put).
UploadKeepsCurrentFile == Profiles!UploadKeepsCurrentFile

\* The completeness flag that an application is admitted by is that of the stored data, unless
\* the profile request that wrote it last computed it across another one's change
\* (student-service.ts:39-79).
FlagIsTruthful == Profiles!FlagIsTruthful

\* Every write of the profile's handlers is one the application requests were
\* checked against: the composition implements Applications.
ImplementsApplications == Board!Init /\ [][Board!Next]_(Board!vars)

\* "Subsequent profile changes don't bleed into the application -- the company
\* always sees the version that was applied with" (application-service.ts:23).
SnapshotStaysReadable == \A a \in DOMAIN apps : apps[a].snapshot \in files
=============================================================================
