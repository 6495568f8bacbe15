------------------------- MODULE ApplicationsProofs -------------------------
(***************************************************************************)
(* Proofs about Applications, for any number of students, companies,       *)
(* postings and requests.                                                  *)
(*                                                                         *)
(* The inductive invariant adds to the safety properties what each request *)
(* under way knows (RequestsKnow), that a row's id is the request that     *)
(* created it, and that no event is filed under an id without a row.       *)
(***************************************************************************)
EXTENDS ApplicationPages, TLAPS

\* Ids are fresh, the resume on a profile is the student's, and nothing is
\* logged for an application that does not exist.
Bookkeeping ==
  /\ \A r \in Requests : pc[r] \in {"idle"} \union SubmitPC => r \notin DOMAIN apps
  /\ \A a \in Requests \ DOMAIN apps : moveLog[a] = <<>>
  /\ \A s \in Students : student[s].resume # None => OwnerOf[student[s].resume] = s

IInv ==
  /\ TypeOK
  /\ OneApplicationPerPosting
  /\ SnapshotIsOwnResume
  /\ LogTellsStatus
  /\ EventsAreAuthentic
  /\ RequestsKnow
  /\ Bookkeeping

-----------------------------------------------------------------------------
(* The initial state                                                       *)

\* Every initial state satisfies the inductive invariant.
LEMMA InitIInv == Init => IInv
<1> SUFFICES ASSUME Init PROVE IInv
  OBVIOUS
<1> USE DEF Init
<1>1. TypeOK
  BY OwnerOfAssumption DEF TypeOK, CallOK, PCs, SubmitPC, TransitionPC, WithdrawPC
<1>2. OneApplicationPerPosting /\ SnapshotIsOwnResume /\ LogTellsStatus /\ EventsAreAuthentic
  BY DEF OneApplicationPerPosting, SnapshotIsOwnResume, LogTellsStatus, EventsAreAuthentic
<1>3. RequestsKnow
  BY DEF RequestsKnow, Knows, SubmitPC, TransitionPC, WithdrawPC
<1>4. Bookkeeping
  BY OwnerOfAssumption DEF Bookkeeping
<1> QED
  BY <1>1, <1>2, <1>3, <1>4 DEF IInv

-----------------------------------------------------------------------------
(* Steps that leave the three tables alone                                 *)

\* The conjuncts about rows and events only depend on the tables.
LEMMA TablesKept ==
  ASSUME IInv, UNCHANGED tables
  PROVE  /\ OneApplicationPerPosting'
         /\ SnapshotIsOwnResume'
         /\ LogTellsStatus'
         /\ EventsAreAuthentic'
  BY DEF IInv, tables, OneApplicationPerPosting, SnapshotIsOwnResume, LogTellsStatus,
         EventsAreAuthentic, Before, Authentic

\* A request that takes no step still knows what it knew, if its rows stay.
LEMMA OthersKnow ==
  ASSUME IInv, UNCHANGED tables, NEW q \in Requests, pc'[q] = pc[q], call'[q] = call[q]
  PROVE  CallOK(q)' /\ Knows(q)'
  BY DEF IInv, TypeOK, CallOK, RequestsKnow, Knows, Past, tables

\* The variables of a step of request r: only its own pc and call move.
OnlyCallOf(r) ==
  /\ pc' \in [Requests -> PCs]
  /\ DOMAIN call' = Requests
  /\ \A q \in Requests \ {r} : pc'[q] = pc[q] /\ call'[q] = call[q]

\* A step of request r that leaves records and tables alone preserves the
\* invariant as soon as r itself is in order afterwards.
LEMMA RequestOnly ==
  ASSUME IInv, UNCHANGED <<records, tables>>, mails' \subseteq Mail,
         NEW r \in Requests, OnlyCallOf(r),
         pc'[r] \in {"idle"} \union SubmitPC => r \notin DOMAIN apps,
         CallOK(r)', Knows(r)'
  PROVE  IInv'
<1>1. TypeOK'
  <2>1. ASSUME NEW q \in Requests PROVE CallOK(q)'
    BY OthersKnow DEF OnlyCallOf
  <2> QED
    BY <2>1 DEF IInv, TypeOK, records, tables, OnlyCallOf
<1>2. RequestsKnow'
  BY OthersKnow DEF IInv, RequestsKnow, OnlyCallOf
<1>3. Bookkeeping'
  BY DEF IInv, Bookkeeping, records, tables, OnlyCallOf
<1> QED
  BY <1>1, <1>2, <1>3, TablesKept DEF IInv

\* A request that returns has nothing left to know.
LEMMA ReturnOK ==
  ASSUME IInv, UNCHANGED <<records, tables>>, mails' \subseteq Mail,
         NEW r \in Requests, NEW result \in Results, Return(r, result)
  PROVE  IInv'
<1>1. OnlyCallOf(r)
  BY DEF IInv, TypeOK, Return, OnlyCallOf, PCs
<1>2. pc'[r] = result /\ result \notin {"idle"} \union SubmitPC \union TransitionPC \union WithdrawPC
  BY DEF IInv, TypeOK, Return, Results, SubmitPC, TransitionPC, WithdrawPC
<1>3. CallOK(r)' /\ Knows(r)'
  BY <1>2 DEF CallOK, Knows, TransitionPC, WithdrawPC
<1> QED
  BY <1>1, <1>2, <1>3, RequestOnly

\* A mail sent is a mail.
LEMMA DispatchTyped ==
  ASSUME IInv, NEW m \in Mail, Dispatch(m) PROVE mails' \subseteq Mail
  BY DEF IInv, TypeOK, Dispatch

-----------------------------------------------------------------------------
(* submitApplication                                                       *)

\* The reads of submitApplication that decide whether it goes on, and its mail,
\* only move the request; the resume key it keeps is one of its own student.
LEMMA SubmitReads ==
  ASSUME IInv, NEW r \in Requests,
         \/ \E s \in Students, j \in Jobs : SubmitReadStudent(r, s, j)
         \/ SubmitReadJob(r)
         \/ SubmitReadExisting(r)
         \/ SubmitNotify(r)
  PROVE  IInv'
<1>1. ASSUME NEW s \in Students, NEW j \in Jobs, SubmitReadStudent(r, s, j) PROVE IInv'
  <2> USE <1>1 DEF SubmitReadStudent
  <2>0. UNCHANGED <<records, tables>> /\ mails' \subseteq Mail
    BY DEF IInv, TypeOK
  <2>1. CASE MayApply(s)
    <3>1. pc' = [pc EXCEPT ![r] = "submit.job"]
          /\ call' = [call EXCEPT ![r] = [student |-> s, job |-> j, key |-> student[s].resume]]
      BY <2>1 DEF Goto, Return
    <3>2. OnlyCallOf(r) /\ r \notin DOMAIN apps
      BY <3>1 DEF IInv, TypeOK, OnlyCallOf, PCs, SubmitPC, Bookkeeping
    <3>3. student[s].resume \in Keys /\ OwnerOf[student[s].resume] = s
      BY <2>1 DEF IInv, TypeOK, MayApply, Bookkeeping
    <3>4. CallOK(r)'
      BY <3>1, <3>3 DEF IInv, TypeOK, CallOK, SubmitPC, TransitionPC, WithdrawPC, SubmitCall
    <3>5. Knows(r)'
      BY <3>1, <3>3 DEF IInv, TypeOK, Knows, SubmitPC, TransitionPC, WithdrawPC
    <3> QED
      BY <2>0, <3>2, <3>4, <3>5, RequestOnly
  <2>2. CASE ~MayApply(s)
    BY <2>0, <2>2, ReturnOK DEF Results
  <2> QED
    BY <2>1, <2>2
<1>2. ASSUME NEW where \in SubmitPC, pc[r] \in SubmitPC, Goto(r, where),
             UNCHANGED <<records, tables, mails, call>>
      PROVE IInv'
  <2>1. OnlyCallOf(r) /\ r \notin DOMAIN apps /\ pc'[r] = where /\ call'[r] = call[r]
    BY <1>2 DEF IInv, TypeOK, OnlyCallOf, Goto, PCs, Bookkeeping
  <2>2. CallOK(r)' /\ Knows(r)'
    BY <1>2, <2>1 DEF IInv, TypeOK, CallOK, RequestsKnow, Knows, SubmitPC, TransitionPC, WithdrawPC
  <2> QED
    BY <1>2, <2>1, <2>2, RequestOnly DEF IInv, TypeOK
<1>3. CASE SubmitReadJob(r)
  <2> USE <1>3 DEF SubmitReadJob
  <2>1. CASE IsOpen(call[r].job)
    BY <2>1, <1>2 DEF SubmitPC
  <2>2. CASE ~IsOpen(call[r].job)
    BY <2>2, ReturnOK DEF Results, IInv, TypeOK
  <2> QED
    BY <2>1, <2>2
<1>4. CASE SubmitReadExisting(r)
  <2> USE <1>4 DEF SubmitReadExisting
  <2>1. CASE ~HasApplied(call[r].job, call[r].student)
    BY <2>1, <1>2 DEF SubmitPC
  <2>2. CASE HasApplied(call[r].job, call[r].student)
    BY <2>2, ReturnOK DEF Results, IInv, TypeOK
  <2> QED
    BY <2>1, <2>2
<1>5. CASE SubmitNotify(r)
  <2>1. [app |-> r, announces |-> "APPLIED"] \in Mail
    BY DEF Mail, Statuses
  <2>2. mails' \subseteq Mail
    BY <1>5, <2>1, DispatchTyped DEF SubmitNotify
  <2> QED
    BY <1>5, <2>2, ReturnOK DEF SubmitNotify, Results
<1> QED
  BY <1>1, <1>3, <1>4, <1>5
-----------------------------------------------------------------------------
(* transitionApplicationStatus and withdrawApplicationByStudent            *)

\* The status of a row is one its audit trail knows.
LEMMA StatusIsPast ==
  ASSUME IInv, NEW a \in DOMAIN apps
  PROVE  apps[a].status \in Past(a) /\ apps[a].status \in Statuses
<1>1. moveLog[a] \in Seq(MoveEvent) /\ apps[a].status \in Statuses
  BY DEF IInv, TypeOK, Application
<1>2. CASE moveLog[a] = <<>>
  BY <1>1, <1>2 DEF IInv, LogTellsStatus, Past
<1>3. CASE moveLog[a] # <<>>
  <2>1. Len(moveLog[a]) \in DOMAIN moveLog[a]
    BY <1>1, <1>3
  <2> QED
    BY <1>1, <1>3, <2>1 DEF IInv, LogTellsStatus, Past
<1> QED
  BY <1>2, <1>3

\* The reads of transitionApplicationStatus and its mail preserve the invariant;
\* the status it keeps is the one the row has at that moment.
LEMMA TransitionReads ==
  ASSUME IInv, NEW r \in Requests,
         \/ \E c \in Companies, a \in DOMAIN apps, target \in CompanyTransition :
              TransitionReadCompany(r, c, a, target)
         \/ TransitionReadApplication(r)
         \/ TransitionNotify(r)
  PROVE  IInv'
<1>1. ASSUME NEW c \in Companies, NEW a \in DOMAIN apps, NEW target \in CompanyTransition,
             TransitionReadCompany(r, c, a, target)
      PROVE IInv'
  <2> USE <1>1 DEF TransitionReadCompany
  <2>0. UNCHANGED <<records, tables>> /\ mails' \subseteq Mail /\ a \in Requests
    BY DEF IInv, TypeOK
  <2>1. CASE ~company[c].deleted
    <3>1. /\ pc' = [pc EXCEPT ![r] = "transition.application"]
          /\ call' = [call EXCEPT ![r] =
                        [company |-> c, app |-> a, target |-> target, seen |-> None]]
      BY <2>1 DEF Goto, Return
    <3>2. OnlyCallOf(r) /\ pc'[r] \notin {"idle"} \union SubmitPC
      BY <3>1 DEF IInv, TypeOK, OnlyCallOf, PCs, SubmitPC, TransitionPC
    <3>3. CallOK(r)'
      BY <2>0, <3>1 DEF IInv, TypeOK, CallOK, SubmitPC, TransitionPC, WithdrawPC, TransitionCall
    <3>4. Knows(r)'
      BY <2>0, <3>1 DEF IInv, TypeOK, Knows, SubmitPC, TransitionPC, WithdrawPC, tables
    <3> QED
      BY <2>0, <3>2, <3>3, <3>4, RequestOnly
  <2>2. CASE company[c].deleted
    BY <2>0, <2>2, ReturnOK DEF Results
  <2> QED
    BY <2>1, <2>2
<1>2. CASE TransitionReadApplication(r)
  <2> USE <1>2 DEF TransitionReadApplication, MayTransition
  <2> DEFINE row == apps[call[r].app]
             granted == MayTransition(call[r], row)
  <2>0. UNCHANGED <<records, tables>> /\ mails' \subseteq Mail
    BY DEF IInv, TypeOK
  <2>1. CASE granted
    <3>1. /\ pc' = [pc EXCEPT ![r] = "transition.commit"]
          /\ call' = [call EXCEPT ![r].seen = row.status]
      BY <2>1 DEF Goto, Return
    <3>2. OnlyCallOf(r) /\ pc'[r] \notin {"idle"} \union SubmitPC
      BY <3>1 DEF IInv, TypeOK, OnlyCallOf, PCs, SubmitPC, TransitionPC
    <3>3. call[r] \in TransitionCall /\ call[r].app \in DOMAIN apps
      BY DEF IInv, TypeOK, CallOK, RequestsKnow, Knows, TransitionPC
    <3>4. row.status \in Past(call[r].app) /\ row.status \in Statuses
      BY <3>3, StatusIsPast
    <3>5. call'[r] = [call[r] EXCEPT !.seen = row.status]
      BY <3>1 DEF IInv, TypeOK
    <3>6. CallOK(r)'
      BY <3>1, <3>3, <3>4, <3>5
         DEF IInv, TypeOK, CallOK, SubmitPC, TransitionPC, WithdrawPC, TransitionCall
    <3>7. /\ call'[r].app = call[r].app /\ call'[r].company = call[r].company
          /\ call'[r].target = call[r].target /\ call'[r].seen = row.status
      BY <3>3, <3>5 DEF TransitionCall
    <3>8. Knows(r)'
      BY <2>0, <2>1, <3>1, <3>3, <3>4, <3>7
         DEF IInv, TypeOK, Knows, Past, SubmitPC, TransitionPC, WithdrawPC, tables
    <3> QED
      BY <2>0, <3>2, <3>6, <3>8, RequestOnly
  <2>2. CASE ~granted
    BY <2>0, <2>2, ReturnOK DEF Results
  <2> QED
    BY <2>1, <2>2
<1>3. CASE TransitionNotify(r)
  <2>1. call[r].app \in Requests /\ call[r].target \in Statuses
    BY <1>3 DEF TransitionNotify, IInv, TypeOK, CallOK, TransitionPC, TransitionCall,
                CompanyTransition, Statuses
  <2>2. [app |-> call[r].app, announces |-> call[r].target] \in Mail
    BY <2>1 DEF Mail
  <2>3. mails' \subseteq Mail
    BY <1>3, <2>2, DispatchTyped DEF TransitionNotify, IInv, TypeOK
  <2> QED
    BY <1>3, <2>3, ReturnOK DEF TransitionNotify, Results
<1> QED
  BY <1>1, <1>2, <1>3

\* The same of the reads of withdrawApplicationByStudent.
LEMMA WithdrawReads ==
  ASSUME IInv, NEW r \in Requests,
         \/ \E s \in Students, a \in DOMAIN apps : WithdrawReadProfile(r, s, a)
         \/ WithdrawReadApplication(r)
  PROVE  IInv'
<1>1. ASSUME NEW s \in Students, NEW a \in DOMAIN apps, WithdrawReadProfile(r, s, a) PROVE IInv'
  <2> USE <1>1 DEF WithdrawReadProfile
  <2>0. UNCHANGED <<records, tables>> /\ mails' \subseteq Mail /\ a \in Requests
    BY DEF IInv, TypeOK
  <2>1. /\ pc' = [pc EXCEPT ![r] = "withdraw.application"]
        /\ call' = [call EXCEPT ![r] = [student |-> s, app |-> a, seen |-> None]]
    BY DEF Goto
  <2>2. OnlyCallOf(r) /\ pc'[r] \notin {"idle"} \union SubmitPC
    BY <2>1 DEF IInv, TypeOK, OnlyCallOf, PCs, SubmitPC, WithdrawPC
  <2>3. CallOK(r)'
    BY <2>0, <2>1 DEF IInv, TypeOK, CallOK, SubmitPC, TransitionPC, WithdrawPC, WithdrawCall
  <2>4. Knows(r)'
    BY <2>0, <2>1 DEF IInv, TypeOK, Knows, SubmitPC, TransitionPC, WithdrawPC, tables
  <2> QED
    BY <2>0, <2>2, <2>3, <2>4, RequestOnly
<1>2. CASE WithdrawReadApplication(r)
  <2> USE <1>2 DEF WithdrawReadApplication, MayWithdraw
  <2> DEFINE row == apps[call[r].app]
             granted == MayWithdraw(call[r], row)
  <2>0. UNCHANGED <<records, tables>> /\ mails' \subseteq Mail
    BY DEF IInv, TypeOK
  <2>1. CASE granted
    <3>1. /\ pc' = [pc EXCEPT ![r] = "withdraw.commit"]
          /\ call' = [call EXCEPT ![r].seen = row.status]
      BY <2>1 DEF Goto, Return
    <3>2. OnlyCallOf(r) /\ pc'[r] \notin {"idle"} \union SubmitPC
      BY <3>1 DEF IInv, TypeOK, OnlyCallOf, PCs, SubmitPC, WithdrawPC
    <3>3. call[r] \in WithdrawCall /\ call[r].app \in DOMAIN apps
      BY DEF IInv, TypeOK, CallOK, RequestsKnow, Knows, WithdrawPC
    <3>4. row.status \in Past(call[r].app) /\ row.status \in Statuses
      BY <3>3, StatusIsPast
    <3>5. call'[r] = [call[r] EXCEPT !.seen = row.status]
      BY <3>1 DEF IInv, TypeOK
    <3>6. CallOK(r)'
      BY <3>1, <3>3, <3>4, <3>5
         DEF IInv, TypeOK, CallOK, SubmitPC, TransitionPC, WithdrawPC, WithdrawCall
    <3>7. /\ call'[r].app = call[r].app /\ call'[r].student = call[r].student
          /\ call'[r].seen = row.status
      BY <3>3, <3>5 DEF WithdrawCall
    <3>8. Knows(r)'
      BY <2>0, <2>1, <3>1, <3>3, <3>4, <3>7
         DEF IInv, TypeOK, Knows, Past, SubmitPC, TransitionPC, WithdrawPC, tables
    <3> QED
      BY <2>0, <3>2, <3>6, <3>8, RequestOnly
  <2>2. CASE ~granted
    BY <2>0, <2>2, ReturnOK DEF Results
  <2> QED
    BY <2>1, <2>2
<1> QED
  BY <1>1, <1>2
-----------------------------------------------------------------------------
(* The transactions                                                        *)

\* The insert of an application and its event, or the P2002 in its place,
\* preserves the invariant: the unique index is what keeps rows apart.
LEMMA SubmitCommits ==
  ASSUME IInv, NEW r \in Requests, SubmitCommit(r)
  PROVE  IInv'
<1> USE DEF SubmitCommit, Duplicate
<1> DEFINE c == call[r]
           row == [job |-> c.job, student |-> c.student, snapshot |-> c.key, status |-> "APPLIED"]
<1>0. /\ c \in SubmitCall /\ OwnerOf[c.key] = c.student /\ r \notin DOMAIN apps
      /\ moveLog[r] = <<>>
  BY DEF IInv, TypeOK, CallOK, SubmitPC, RequestsKnow, Knows, Bookkeeping
<1>1. CASE HasApplied(c.job, c.student)
  BY <1>1, ReturnOK DEF Results, IInv, TypeOK
<1>2. CASE ~HasApplied(c.job, c.student)
  <2>1. /\ apps' = [a \in DOMAIN apps \union {r} |-> IF a = r THEN row ELSE apps[a]]
        /\ submittedLog' = [submittedLog EXCEPT ![c.job] =
             Append(@, [type |-> "APPLICATION_SUBMITTED", actor |-> c.student])]
        /\ pc' = [pc EXCEPT ![r] = "submit.notify"]
        /\ UNCHANGED <<student, posting, company, moveLog, call, mails>>
    BY <1>2 DEF Goto, records
  <2>2. /\ DOMAIN apps' = DOMAIN apps \union {r}
        /\ apps'[r] = row
        /\ \A a \in DOMAIN apps : apps'[a] = apps[a]
    BY <1>0, <2>1
  <2>3. row \in Application
    BY <1>0 DEF Application, SubmitCall, Statuses
  <2>4. TypeOK'
    <3>1. apps' \in [DOMAIN apps' -> Application] /\ DOMAIN apps' \subseteq Requests
      BY <2>1, <2>3 DEF IInv, TypeOK
    <3>2. submittedLog' \in [Jobs -> Seq(SubmittedEvent)]
      <4>1. [type |-> "APPLICATION_SUBMITTED", actor |-> c.student] \in SubmittedEvent /\ c.job \in Jobs
        BY <1>0 DEF SubmittedEvent, SubmitCall
      <4>2. submittedLog \in [Jobs -> Seq(SubmittedEvent)]
        BY DEF IInv, TypeOK
      <4> QED
        BY <2>1, <4>1, <4>2
    <3>3. pc' \in [Requests -> PCs]
      BY <2>1 DEF IInv, TypeOK, PCs
    <3>4. ASSUME NEW q \in Requests PROVE CallOK(q)'
      BY <2>1 DEF IInv, TypeOK, CallOK, SubmitPC, TransitionPC, WithdrawPC
    <3> QED
      BY <2>1, <3>1, <3>2, <3>3, <3>4 DEF IInv, TypeOK
  <2>5. OneApplicationPerPosting'
    BY <1>2, <2>2 DEF IInv, OneApplicationPerPosting, HasApplied
  <2>6. SnapshotIsOwnResume'
    BY <1>0, <2>2 DEF IInv, SnapshotIsOwnResume, SubmitCall
  <2>7. LogTellsStatus'
    BY <1>0, <2>1, <2>2 DEF IInv, LogTellsStatus
  <2>8. EventsAreAuthentic'
    <3> SUFFICES ASSUME NEW a \in DOMAIN apps', NEW i \in DOMAIN moveLog'[a]
                 PROVE  (moveLog[a][i].from \in Before(a, i) /\ Authentic(a, moveLog[a][i]))'
      BY DEF EventsAreAuthentic
    <3>1. moveLog' = moveLog /\ i \in DOMAIN moveLog[a]
      BY <2>1
    <3>2. a # r
      BY <1>0, <3>1
    <3>3. a \in DOMAIN apps /\ apps'[a] = apps[a]
      BY <2>2, <3>2
    <3>4. moveLog[a][i].from \in Before(a, i) /\ Authentic(a, moveLog[a][i])
      BY <3>1, <3>3 DEF IInv, EventsAreAuthentic
    <3> QED
      BY <3>1, <3>3, <3>4 DEF Before, Authentic
  <2>9. RequestsKnow'
    <3> SUFFICES ASSUME NEW q \in Requests PROVE Knows(q)'
      BY DEF RequestsKnow
    <3> QED
      BY <2>1, <2>2 DEF IInv, TypeOK, RequestsKnow, Knows, Past, SubmitPC, TransitionPC, WithdrawPC
  <2>10. Bookkeeping'
    BY <2>1, <2>2 DEF IInv, TypeOK, Bookkeeping, SubmitPC
  <2> QED
    BY <2>4, <2>5, <2>6, <2>7, <2>8, <2>9, <2>10 DEF IInv
<1> QED
  BY <1>1, <1>2

\* An authentic event appended in the transaction that sets its status keeps
\* the invariant, whatever happened since the status was read.
LEMMA StatusSet ==
  ASSUME IInv, NEW r \in Requests, NEW a \in DOMAIN apps, NEW e \in MoveEvent,
         SetStatus(a, e.to, e), e.from \in Past(a),
         Authentic(a, e),
         UNCHANGED <<records, mails>>,
         OnlyCallOf(r), pc'[r] \notin {"idle"} \union SubmitPC, CallOK(r)',
         pc'[r] \in {"transition.notify"} \union Results,
         pc'[r] = "transition.notify" => call'[r].app = a
  PROVE  IInv'
<1>1. /\ a \in Requests /\ moveLog \in [Requests -> Seq(MoveEvent)]
      /\ e.to \in Statuses
  BY DEF IInv, TypeOK, MoveEvent, CompanyTransition, Statuses
<1>2. /\ DOMAIN apps' = DOMAIN apps
      /\ \A b \in DOMAIN apps :
           /\ apps'[b].job = apps[b].job
           /\ apps'[b].student = apps[b].student
           /\ apps'[b].snapshot = apps[b].snapshot
           /\ apps'[b].status = IF b = a THEN e.to ELSE apps[b].status
      /\ apps' \in [DOMAIN apps -> Application]
  BY <1>1 DEF SetStatus, IInv, TypeOK, Application
<1>3. /\ moveLog'[a] = Append(moveLog[a], e)
      /\ \A b \in Requests \ {a} : moveLog'[b] = moveLog[b]
      /\ moveLog' \in [Requests -> Seq(MoveEvent)]
  BY <1>1 DEF SetStatus
<1>4. /\ Len(moveLog'[a]) = Len(moveLog[a]) + 1
      /\ DOMAIN moveLog'[a] = 1..(Len(moveLog[a]) + 1)
      /\ DOMAIN moveLog[a] = 1..Len(moveLog[a])
      /\ Len(moveLog[a]) \in Nat
      /\ \A i \in 1..Len(moveLog[a]) : moveLog'[a][i] = moveLog[a][i]
      /\ moveLog'[a][Len(moveLog[a]) + 1] = e
      /\ moveLog'[a] # <<>>
  BY <1>1, <1>3
<1>5. \A b \in Requests : Past(b) \subseteq Past(b)'
  <2> SUFFICES ASSUME NEW b \in Requests, NEW i \in DOMAIN moveLog[b]
               PROVE  i \in DOMAIN moveLog'[b] /\ moveLog'[b][i] = moveLog[b][i]
    BY DEF Past
  <2>1. CASE b = a
    BY <2>1, <1>4
  <2>2. CASE b # a
    BY <2>2, <1>3
  <2> QED
    BY <2>1, <2>2
<1>6. TypeOK'
  <2>1. ASSUME NEW q \in Requests PROVE CallOK(q)'
    BY DEF OnlyCallOf, IInv, TypeOK, CallOK
  <2> QED
    BY <1>2, <1>3, <2>1 DEF IInv, TypeOK, records, OnlyCallOf, SetStatus
<1>7. OneApplicationPerPosting' /\ SnapshotIsOwnResume'
  BY <1>2 DEF IInv, OneApplicationPerPosting, SnapshotIsOwnResume
<1>8. LogTellsStatus'
  BY <1>1, <1>2, <1>3, <1>4 DEF IInv, TypeOK, LogTellsStatus
<1>9. EventsAreAuthentic'
  <2> SUFFICES ASSUME NEW b \in DOMAIN apps, NEW i \in DOMAIN moveLog'[b]
               PROVE  (moveLog[b][i].from \in Before(b, i) /\ Authentic(b, moveLog[b][i]))'
    BY <1>2 DEF EventsAreAuthentic
  <2>0. b \in Requests /\ apps'[b].job = apps[b].job /\ apps'[b].student = apps[b].student
    BY <1>2 DEF IInv, TypeOK
  <2>1. CASE b # a
    <3>1. moveLog'[b] = moveLog[b]
      BY <2>0, <2>1, <1>3
    <3>2. Before(b, i)' = Before(b, i)
      BY <3>1 DEF Before
    <3>3. moveLog[b][i].from \in Before(b, i) /\ Authentic(b, moveLog[b][i])
      BY <3>1 DEF IInv, EventsAreAuthentic
    <3> QED
      BY <2>0, <3>1, <3>2, <3>3 DEF Authentic
  <2>2. CASE b = a /\ i \in 1..Len(moveLog[a])
    <3>1. \A k \in 1..(i - 1) : moveLog'[a][k] = moveLog[a][k]
      BY <1>4, <2>2
    <3>2. moveLog'[b][i] = moveLog[b][i] /\ i \in DOMAIN moveLog[b]
      BY <1>4, <2>2
    <3>3. Before(b, i)' = Before(b, i)
      BY <3>1, <2>2 DEF Before
    <3>4. moveLog[b][i].from \in Before(b, i) /\ Authentic(b, moveLog[b][i])
      BY <3>2 DEF IInv, EventsAreAuthentic
    <3> QED
      BY <2>0, <3>2, <3>3, <3>4 DEF Authentic
  <2>3. CASE b = a /\ i = Len(moveLog[a]) + 1
    <3>1. moveLog'[b][i] = e /\ 1..(i - 1) = DOMAIN moveLog[a]
      BY <1>4, <2>3
    <3>2. \A k \in 1..(i - 1) : moveLog'[b][k] = moveLog[a][k]
      BY <1>4, <2>3, <3>1
    <3>3. CASE e.from = "APPLIED"
      BY <2>0, <2>3, <3>1, <3>3 DEF Before, Authentic
    <3>4. CASE e.from # "APPLIED"
      <4>1. PICK k \in 1..(i - 1) : e.from = moveLog'[b][k].to
        BY <3>1, <3>2, <3>4 DEF Past
      <4>2. e.from \in Before(b, i)'
        BY <4>1 DEF Before
      <4> QED
        BY <2>0, <2>3, <3>1, <4>2 DEF Authentic
    <3> QED
      BY <3>3, <3>4
  <2> QED
    BY <1>4, <2>1, <2>2, <2>3
<1>10. RequestsKnow'
  <2> SUFFICES ASSUME NEW q \in Requests PROVE Knows(q)'
    BY DEF RequestsKnow
  <2>1. CASE q = r
    BY <2>1, <1>2 DEF Knows, SubmitPC, TransitionPC, WithdrawPC, Results
  <2>2. CASE q # r
    <3>1. pc'[q] = pc[q] /\ call'[q] = call[q] /\ Knows(q)
      BY <2>2 DEF OnlyCallOf, IInv, RequestsKnow
    <3>2. pc[q] \in TransitionPC \union WithdrawPC => call[q].app \in Requests
      BY DEF IInv, TypeOK, CallOK, TransitionCall, WithdrawCall
    <3> QED
      BY <1>2, <1>5, <3>1, <3>2 DEF Knows, TransitionPC, WithdrawPC
  <2> QED
    BY <2>1, <2>2
<1>11. Bookkeeping'
  BY <1>2, <1>3 DEF IInv, TypeOK, Bookkeeping, records, OnlyCallOf
<1> QED
  BY <1>6, <1>7, <1>8, <1>9, <1>10, <1>11 DEF IInv

\* The transaction of a company transition preserves the invariant, although
\* the row may have changed since it was read.
LEMMA TransitionCommits ==
  ASSUME IInv, NEW r \in Requests, TransitionCommit(r)
  PROVE  IInv'
<1> USE DEF TransitionCommit
<1> DEFINE a == call[r].app
           e == [type |-> "APPLICATION_STATUS_CHANGED", actor |-> call[r].company,
                 from |-> call[r].seen, to |-> call[r].target]
<1>1. /\ call[r] \in TransitionCall /\ a \in DOMAIN apps
      /\ CompanyOf[apps[a].job] = call[r].company
      /\ call[r].seen \in Past(a)
      /\ call[r].target \in ALLOWED[call[r].seen]
  BY DEF IInv, TypeOK, CallOK, RequestsKnow, Knows, TransitionPC
<1>2. call[r].seen \in Statuses
  <2>1. moveLog[a] \in Seq(MoveEvent)
    BY <1>1 DEF IInv, TypeOK, TransitionCall
  <2>2. \A f \in MoveEvent : f.to \in Statuses
    BY DEF MoveEvent, CompanyTransition, Statuses
  <2>3. \A i \in DOMAIN moveLog[a] : moveLog[a][i] \in MoveEvent
    BY <2>1
  <2> QED
    BY <1>1, <2>2, <2>3 DEF Past, Statuses
<1>3. e \in MoveEvent
  BY <1>1, <1>2 DEF MoveEvent, TransitionCall
<1>4. /\ SetStatus(a, e.to, e)
      /\ pc' = [pc EXCEPT ![r] = "transition.notify"]
      /\ UNCHANGED <<records, mails, call>>
  BY DEF Goto
<1>5. OnlyCallOf(r) /\ pc'[r] = "transition.notify" /\ call'[r].app = a
  BY <1>4 DEF IInv, TypeOK, OnlyCallOf, PCs, TransitionPC
<1>6. CallOK(r)'
  BY <1>1, <1>4, <1>5 DEF CallOK, SubmitPC, TransitionPC, WithdrawPC
<1>7. Authentic(a, e) /\ e.from \in Past(a)
  BY <1>1 DEF Authentic
<1> HIDE DEF e
<1> QED
  BY <1>1, <1>3, <1>4, <1>5, <1>6, <1>7, StatusSet DEF SubmitPC

\* The same of the transaction of a withdrawal.
LEMMA WithdrawCommits ==
  ASSUME IInv, NEW r \in Requests, WithdrawCommit(r)
  PROVE  IInv'
<1> USE DEF WithdrawCommit
<1> DEFINE a == call[r].app
           e == [type |-> "APPLICATION_WITHDRAWN", actor |-> call[r].student,
                 from |-> call[r].seen, to |-> "WITHDRAWN"]
<1>1. /\ call[r] \in WithdrawCall /\ a \in DOMAIN apps
      /\ apps[a].student = call[r].student
      /\ call[r].seen \in Past(a) \intersect ACTIVE_APPLICATION_STATUSES
  BY DEF IInv, TypeOK, CallOK, RequestsKnow, Knows, WithdrawPC
<1>2. e \in MoveEvent
  BY <1>1 DEF MoveEvent, WithdrawCall, ACTIVE_APPLICATION_STATUSES, Statuses
<1>3. /\ SetStatus(a, e.to, e)
      /\ Return(r, "ok")
      /\ UNCHANGED <<records, mails>>
  OBVIOUS
<1>4. OnlyCallOf(r) /\ pc'[r] = "ok"
  BY <1>3 DEF Return, IInv, TypeOK, OnlyCallOf, PCs, Results
<1>5. CallOK(r)'
  BY <1>4 DEF CallOK, SubmitPC, TransitionPC, WithdrawPC
<1>6. Authentic(a, e) /\ e.from \in Past(a)
  BY <1>1 DEF Authentic
<1> HIDE DEF e
<1> QED
  BY <1>1, <1>2, <1>3, <1>4, <1>5, <1>6, StatusSet DEF SubmitPC, Results

-----------------------------------------------------------------------------
(* The other services                                                      *)

\* Whatever other services write to the student, posting and company rows
\* preserves the invariant.
LEMMA OthersPreserve ==
  ASSUME IInv, OtherServices
  PROVE  IInv'
<1>1. UNCHANGED <<tables, mails, pc, call>>
  BY DEF OtherServices, SetResumeStorageKey, StoreCompleteness, SoftDeleteStudent,
         SetPostingStatus, SoftDeletePosting, SetApprovalStatus, SoftDeleteCompany
<1>2. /\ student' \in [Students -> [deleted: BOOLEAN, complete: BOOLEAN, resume: Keys \union {None}]]
      /\ posting' \in [Jobs -> [published: BOOLEAN, deleted: BOOLEAN]]
      /\ company' \in [Companies -> [approved: BOOLEAN, deleted: BOOLEAN]]
      /\ \A s \in Students : student'[s].resume # None => OwnerOf[student'[s].resume] = s
  <2>1. ASSUME NEW s \in Students, NEW k \in {key \in Keys : OwnerOf[key] = s} \union {None},
               SetResumeStorageKey(s, k)
        PROVE <1>2!:
    <3>1. /\ student \in [Students -> [deleted: BOOLEAN, complete: BOOLEAN, resume: Keys \union {None}]]
          /\ \A q \in Students : student[q].resume # None => OwnerOf[student[q].resume] = q
      BY DEF IInv, TypeOK, Bookkeeping
    <3>2. student' \in [Students -> [deleted: BOOLEAN, complete: BOOLEAN, resume: Keys \union {None}]]
      BY <2>1, <3>1 DEF SetResumeStorageKey
    <3>3. \A q \in Students : student'[q].resume = IF q = s THEN k ELSE student[q].resume
      BY <2>1, <3>1 DEF SetResumeStorageKey
    <3>4. UNCHANGED <<posting, company>>
      BY <2>1 DEF SetResumeStorageKey
    <3> QED
      BY <2>1, <3>1, <3>2, <3>3, <3>4 DEF IInv, TypeOK
  <2>2. ASSUME NEW s \in Students, NEW b \in BOOLEAN,
               StoreCompleteness(s, b) \/ SoftDeleteStudent(s)
        PROVE <1>2!:
    <3>1. student \in [Students -> [deleted: BOOLEAN, complete: BOOLEAN, resume: Keys \union {None}]]
      BY DEF IInv, TypeOK
    <3>2. student' \in [Students -> [deleted: BOOLEAN, complete: BOOLEAN, resume: Keys \union {None}]]
      BY <2>2, <3>1 DEF StoreCompleteness, SoftDeleteStudent
    <3>3. \A q \in Students : student'[q].resume = student[q].resume
      BY <2>2, <3>1 DEF StoreCompleteness, SoftDeleteStudent
    <3>4. UNCHANGED <<posting, company>>
      BY <2>2 DEF StoreCompleteness, SoftDeleteStudent
    <3> QED
      BY <3>2, <3>3, <3>4 DEF IInv, TypeOK, Bookkeeping
  <2>3. ASSUME NEW j \in Jobs, NEW st \in BOOLEAN,
               SetPostingStatus(j, st) \/ SoftDeletePosting(j)
        PROVE <1>2!:
    BY <2>3 DEF SetPostingStatus, SoftDeletePosting, IInv, TypeOK, Bookkeeping
  <2>4. ASSUME NEW c \in Companies, NEW st \in BOOLEAN,
               SetApprovalStatus(c, st) \/ SoftDeleteCompany(c)
        PROVE <1>2!:
    BY <2>4 DEF SetApprovalStatus, SoftDeleteCompany, IInv, TypeOK, Bookkeeping
  <2> QED
    BY <2>1, <2>2, <2>3, <2>4 DEF OtherServices
<1>3. TypeOK'
  BY <1>1, <1>2 DEF IInv, TypeOK, CallOK, tables
<1>4. RequestsKnow'
  BY <1>1 DEF IInv, RequestsKnow, Knows, Past, tables
<1>5. Bookkeeping'
  BY <1>1, <1>2 DEF IInv, Bookkeeping, tables
<1> QED
  BY <1>1, <1>3, <1>4, <1>5, TablesKept DEF IInv
-----------------------------------------------------------------------------
(* Theorems                                                                *)

\* No step of any request or of any other service breaks the invariant.
LEMMA StepIInv == IInv /\ [Next]_vars => IInv'
<1> SUFFICES ASSUME IInv, [Next]_vars PROVE IInv'
  OBVIOUS
<1>1. CASE UNCHANGED vars
  <2>1. UNCHANGED <<records, tables, mails, pc, call>>
    BY <1>1 DEF vars, records, tables
  <2>2. TypeOK' /\ RequestsKnow' /\ Bookkeeping'
    BY <2>1 DEF IInv, TypeOK, CallOK, RequestsKnow, Knows, Past, Bookkeeping, records, tables
  <2> QED
    BY <2>1, <2>2, TablesKept DEF IInv
<1>2. ASSUME NEW r \in Requests, Arrive(r) PROVE IInv'
  BY <1>2, SubmitReads, TransitionReads, WithdrawReads DEF Arrive
<1>3. ASSUME NEW r \in Requests, Advance(r) PROVE IInv'
  BY <1>3, SubmitReads, SubmitCommits, TransitionReads, TransitionCommits, WithdrawReads,
     WithdrawCommits DEF Advance
<1>4. CASE OtherServices
  BY <1>4, OthersPreserve
<1> QED
  BY <1>1, <1>2, <1>3, <1>4 DEF Next, RequestStep

\* The inductive invariant holds in every reachable state, for any number of
\* requests, students, companies and postings.
THEOREM Invariance == Spec => []IInv
<1> QED
  BY InitIInv, StepIInv, PTL DEF Spec

\* Every row, event and request has the shape the schema gives it.
THEOREM TypeCorrect == Spec => []TypeOK
<1>1. IInv => TypeOK
  BY DEF IInv
<1> QED
  BY <1>1, Invariance, PTL

\* A student has at most one application per posting, however many submissions
\* race past the "already applied" read (application-service.ts:149-189).
THEOREM UniqueApplication == Spec => []OneApplicationPerPosting
<1>1. IInv => OneApplicationPerPosting
  BY DEF IInv
<1> QED
  BY <1>1, Invariance, PTL

\* The resume kept with an application is one of its own student, whatever
\* happens to the profile during the submission (application-service.ts:161-171).
THEOREM OwnSnapshot == Spec => []SnapshotIsOwnResume
<1>1. IInv => SnapshotIsOwnResume
  BY DEF IInv
<1> QED
  BY <1>1, Invariance, PTL

\* The last event of an application always tells its status: both are written in one
\* transaction (application-service.ts:166-189, 438-452, 533-550).
THEOREM StatusTold == Spec => []LogTellsStatus
<1>1. IInv => LogTellsStatus
  BY DEF IInv
<1> QED
  BY <1>1, Invariance, PTL

\* Every event was written by a party to the application, for a move the table allows from a
\* status the application once had (application-service.ts:420-452, 519-550).
THEOREM AuditTrail == Spec => []EventsAreAuthentic
<1>1. IInv => EventsAreAuthentic
  BY DEF IInv
<1> QED
  BY <1>1, Invariance, PTL

\* What a request read before its transaction was true of the application at
\* some time (application-service.ts:420-436, 519-531).
THEOREM StaleReadsAreBacked == Spec => []RequestsKnow
<1>1. IInv => RequestsKnow
  BY DEF IInv
<1> QED
  BY <1>1, Invariance, PTL

\* An authentic trail cannot skip a stage: an OFFER event came from
\* INTERVIEWING, and an INTERVIEWING event from IN_REVIEW or REJECTED.
LEMMA TrailInOrder == IInv => StagesInOrder
<1> SUFFICES ASSUME IInv, NEW a \in DOMAIN apps
             PROVE  /\ "OFFER" \in Past(a) => "INTERVIEWING" \in Past(a)
                    /\ "INTERVIEWING" \in Past(a) => Past(a) \intersect {"IN_REVIEW", "REJECTED"} # {}
  BY DEF StagesInOrder
<1>1. ASSUME NEW i \in DOMAIN moveLog[a] PROVE moveLog[a][i].from \in Past(a)
  <2>1. moveLog[a] \in Seq(MoveEvent)
    BY DEF IInv, TypeOK
  <2>2. i \in Nat /\ DOMAIN moveLog[a] = 1..Len(moveLog[a]) /\ 1..(i - 1) \subseteq DOMAIN moveLog[a]
    BY <1>1, <2>1
  <2>3. moveLog[a][i].from \in Before(a, i)
    BY DEF IInv, EventsAreAuthentic
  <2> QED
    BY <2>2, <2>3 DEF Before, Past
<1>2. ASSUME NEW s \in {"OFFER", "INTERVIEWING"}, s \in Past(a)
      PROVE  \E f \in Past(a) : f \in Statuses /\ s \in ALLOWED[f]
  <2>1. PICK i \in DOMAIN moveLog[a] : moveLog[a][i].to = s
    BY <1>2 DEF Past
  <2>2. moveLog[a] \in Seq(MoveEvent)
    BY DEF IInv, TypeOK
  <2>3. moveLog[a][i] \in MoveEvent
    BY <2>1, <2>2
  <2>4. moveLog[a][i].type = "APPLICATION_STATUS_CHANGED" /\ moveLog[a][i].from \in Statuses
    BY <2>1, <2>3 DEF MoveEvent
  <2>5. s \in ALLOWED[moveLog[a][i].from]
    BY <2>1, <2>4 DEF IInv, EventsAreAuthentic, Authentic
  <2> QED
    BY <1>1, <2>4, <2>5
<1>3. \A f \in Statuses :
        /\ "OFFER" \in ALLOWED[f] => f = "INTERVIEWING"
        /\ "INTERVIEWING" \in ALLOWED[f] => f \in {"IN_REVIEW", "REJECTED"}
  BY DEF Statuses, ALLOWED
<1>4. ASSUME "OFFER" \in Past(a) PROVE "INTERVIEWING" \in Past(a)
  <2>1. PICK f \in Past(a) : f \in Statuses /\ "OFFER" \in ALLOWED[f]
    BY <1>2, <1>4
  <2>2. f = "INTERVIEWING"
    BY <1>3, <2>1
  <2> QED
    BY <2>1, <2>2
<1>5. ASSUME "INTERVIEWING" \in Past(a) PROVE Past(a) \intersect {"IN_REVIEW", "REJECTED"} # {}
  <2>1. PICK f \in Past(a) : f \in Statuses /\ "INTERVIEWING" \in ALLOWED[f]
    BY <1>2, <1>5
  <2>2. f \in {"IN_REVIEW", "REJECTED"}
    BY <1>3, <2>1
  <2> QED
    BY <2>1, <2>2
<1> QED
  BY <1>4, <1>5

\* No interleaving of stale writers lets an application skip a stage of the
\* ALLOWED table (application-service.ts:400-407).
THEOREM NoStageSkipped == Spec => []StagesInOrder
<1> QED
  BY TrailInOrder, Invariance, PTL
-----------------------------------------------------------------------------
(* Action properties                                                       *)

\* What a step may do to the table: leave it, insert the row of a submission,
\* or set the status of a row to the target of a request at its commit.
LEMMA TableSteps ==
  ASSUME IInv, [Next]_vars
  PROVE  \/ UNCHANGED apps
         \/ \E r \in Requests :
              /\ SubmitCommit(r)
              /\ r \notin DOMAIN apps
              /\ DOMAIN apps' = DOMAIN apps \union {r}
              /\ \A a \in DOMAIN apps : apps'[a] = apps[a]
         \/ \E r \in Requests, status \in Statuses :
              /\ TransitionCommit(r) \/ (WithdrawCommit(r) /\ status = "WITHDRAWN")
              /\ apps' = [apps EXCEPT ![call[r].app].status = status]
<1>1. CASE UNCHANGED vars \/ OtherServices
  BY <1>1 DEF vars, tables, OtherServices, SetResumeStorageKey, StoreCompleteness,
     SoftDeleteStudent, SetPostingStatus, SoftDeletePosting, SetApprovalStatus, SoftDeleteCompany
<1>2. ASSUME NEW r \in Requests, Arrive(r) PROVE UNCHANGED apps
  BY <1>2 DEF Arrive, SubmitReadStudent, TransitionReadCompany, WithdrawReadProfile, tables
<1>3. ASSUME NEW r \in Requests,
             \/ SubmitReadJob(r) \/ SubmitReadExisting(r) \/ SubmitNotify(r)
             \/ TransitionReadApplication(r) \/ TransitionNotify(r) \/ WithdrawReadApplication(r)
      PROVE UNCHANGED apps
  BY <1>3 DEF SubmitReadJob, SubmitReadExisting, SubmitNotify, TransitionReadApplication,
     TransitionNotify, WithdrawReadApplication, tables
<1>4. ASSUME NEW r \in Requests, SubmitCommit(r)
      PROVE  \/ UNCHANGED apps
             \/ /\ r \notin DOMAIN apps
                /\ DOMAIN apps' = DOMAIN apps \union {r}
                /\ \A a \in DOMAIN apps : apps'[a] = apps[a]
  BY <1>4 DEF SubmitCommit, tables, IInv, Bookkeeping, SubmitPC
<1>5. ASSUME NEW r \in Requests, TransitionCommit(r)
      PROVE  \E status \in Statuses : apps' = [apps EXCEPT ![call[r].app].status = status]
  <2>1. call[r].target \in Statuses
    BY <1>5 DEF TransitionCommit, IInv, TypeOK, CallOK, TransitionPC, TransitionCall,
       CompanyTransition, Statuses
  <2> QED
    BY <1>5, <2>1 DEF TransitionCommit, SetStatus
<1>6. ASSUME NEW r \in Requests, WithdrawCommit(r)
      PROVE  apps' = [apps EXCEPT ![call[r].app].status = "WITHDRAWN"]
  BY <1>6 DEF WithdrawCommit, SetStatus
<1> QED
  BY <1>1, <1>2, <1>3, <1>4, <1>5, <1>6 DEF Next, RequestStep, Advance, Statuses

\* No step removes an application or changes its posting, student or snapshot
\* (application-service.ts:21-24).
THEOREM RowsAreKept == Spec => ApplicationsAreKept
<1>1. IInv /\ [Next]_vars =>
        [\A a \in DOMAIN apps :
           /\ a \in DOMAIN apps'
           /\ apps'[a].snapshot = apps[a].snapshot
           /\ apps'[a].job = apps[a].job
           /\ apps'[a].student = apps[a].student]_vars
  <2> SUFFICES ASSUME IInv, [Next]_vars, NEW a \in DOMAIN apps
               PROVE  /\ a \in DOMAIN apps'
                      /\ apps'[a].snapshot = apps[a].snapshot
                      /\ apps'[a].job = apps[a].job
                      /\ apps'[a].student = apps[a].student
    OBVIOUS
  <2>1. CASE UNCHANGED apps
    BY <2>1
  <2>2. ASSUME NEW r \in Requests, DOMAIN apps' = DOMAIN apps \union {r},
               \A b \in DOMAIN apps : apps'[b] = apps[b]
        PROVE  a \in DOMAIN apps' /\ apps'[a] = apps[a]
    BY <2>2
  <2>3. ASSUME NEW r \in Requests, NEW status \in Statuses,
               apps' = [apps EXCEPT ![call[r].app].status = status]
        PROVE  /\ a \in DOMAIN apps'
               /\ apps'[a].snapshot = apps[a].snapshot
               /\ apps'[a].job = apps[a].job
               /\ apps'[a].student = apps[a].student
    BY <2>3 DEF IInv, TypeOK, Application
  <2> QED
    BY <2>1, <2>2, <2>3, TableSteps
<1> QED
  BY <1>1, Invariance, PTL DEF Spec, ApplicationsAreKept

\* A withdrawn application is only ever moved by a company request that was at
\* its commit point already: it had read another status before
\* (application-service.ts:406, 438).
THEOREM WithdrawnHolds == Spec => WithdrawnUnlessRaced
<1>1. IInv /\ [Next]_vars =>
        [\A a \in DOMAIN apps :
           /\ apps[a].status = "WITHDRAWN"
           /\ ~\E r \in Requests :
                pc[r] = "transition.commit" /\ call[r].app = a /\ call[r].seen # "WITHDRAWN"
           => apps'[a].status = "WITHDRAWN"]_vars
  <2> SUFFICES ASSUME IInv, [Next]_vars, NEW a \in DOMAIN apps, apps[a].status = "WITHDRAWN",
                      ~\E r \in Requests :
                        pc[r] = "transition.commit" /\ call[r].app = a /\ call[r].seen # "WITHDRAWN"
               PROVE  apps'[a].status = "WITHDRAWN"
    OBVIOUS
  <2>1. ASSUME NEW r \in Requests, NEW status \in Statuses,
               TransitionCommit(r) \/ (WithdrawCommit(r) /\ status = "WITHDRAWN"),
               apps' = [apps EXCEPT ![call[r].app].status = status]
        PROVE  apps'[a].status = "WITHDRAWN"
    <3>1. CASE TransitionCommit(r)
      <4>1. pc[r] = "transition.commit" /\ call[r].target \in ALLOWED[call[r].seen]
        BY <3>1 DEF TransitionCommit, IInv, RequestsKnow, Knows
      <4>2. call[r].seen # "WITHDRAWN"
        BY <4>1 DEF ALLOWED
      <4>3. call[r].app # a
        BY <4>1, <4>2
      <4> QED
        BY <2>1, <4>3
    <3>2. CASE status = "WITHDRAWN"
      BY <2>1, <3>2 DEF IInv, TypeOK, Application
    <3> QED
      BY <2>1, <3>1, <3>2
  <2> QED
    BY <2>1, TableSteps
<1> QED
  BY <1>1, Invariance, PTL DEF Spec, WithdrawnUnlessRaced
-----------------------------------------------------------------------------
(* Mails                                                                   *)

\* A mail still to be sent tells of something that is committed already.
Pending(r) ==
  /\ pc[r] = "submit.notify" => r \in DOMAIN apps
  /\ pc[r] = "transition.notify" => call[r].target \in Past(call[r].app)

MailsPending == \A r \in Requests : Pending(r)

\* Rows stay, and a status once given stays in the trail.
LEMMA PastGrows ==
  ASSUME IInv, [Next]_vars
  PROVE  /\ DOMAIN apps \subseteq DOMAIN apps'
         /\ \A a \in Requests : Past(a) \subseteq Past(a)'
<1>1. ASSUME UNCHANGED <<apps, moveLog>>
      PROVE  DOMAIN apps \subseteq DOMAIN apps' /\ \A a \in Requests : Past(a) \subseteq Past(a)'
  BY <1>1 DEF Past
<1>2. CASE UNCHANGED vars \/ OtherServices
  BY <1>1, <1>2 DEF vars, tables, OtherServices, SetResumeStorageKey, StoreCompleteness,
     SoftDeleteStudent, SetPostingStatus, SoftDeletePosting, SetApprovalStatus, SoftDeleteCompany
<1>3. ASSUME NEW r \in Requests, Arrive(r)
      PROVE  DOMAIN apps \subseteq DOMAIN apps' /\ \A a \in Requests : Past(a) \subseteq Past(a)'
  BY <1>1, <1>3 DEF Arrive, SubmitReadStudent, TransitionReadCompany, WithdrawReadProfile, tables
<1>4. ASSUME NEW r \in Requests,
             \/ SubmitReadJob(r) \/ SubmitReadExisting(r) \/ SubmitNotify(r)
             \/ TransitionReadApplication(r) \/ TransitionNotify(r) \/ WithdrawReadApplication(r)
      PROVE  DOMAIN apps \subseteq DOMAIN apps' /\ \A a \in Requests : Past(a) \subseteq Past(a)'
  BY <1>1, <1>4 DEF SubmitReadJob, SubmitReadExisting, SubmitNotify, TransitionReadApplication,
     TransitionNotify, WithdrawReadApplication, tables
<1>5. ASSUME NEW r \in Requests, SubmitCommit(r)
      PROVE  DOMAIN apps \subseteq DOMAIN apps' /\ \A a \in Requests : Past(a) \subseteq Past(a)'
  BY <1>5 DEF SubmitCommit, Past, tables
<1>6. ASSUME NEW a, NEW status, NEW event, SetStatus(a, status, event)
      PROVE  DOMAIN apps \subseteq DOMAIN apps' /\ \A b \in Requests : Past(b) \subseteq Past(b)'
  <2>1. DOMAIN apps' = DOMAIN apps
    BY <1>6 DEF SetStatus
  <2>2. ASSUME NEW b \in Requests, NEW i \in DOMAIN moveLog[b]
        PROVE  i \in DOMAIN moveLog'[b] /\ moveLog'[b][i] = moveLog[b][i]
    <3>1. moveLog \in [Requests -> Seq(MoveEvent)] /\ moveLog[b] \in Seq(MoveEvent)
      BY DEF IInv, TypeOK
    <3>2. moveLog'[b] = IF b = a THEN Append(moveLog[b], event) ELSE moveLog[b]
      BY <1>6, <3>1 DEF SetStatus
    <3> QED
      BY <3>1, <3>2
  <2> QED
    BY <2>1, <2>2 DEF Past
<1>7. ASSUME NEW r \in Requests, TransitionCommit(r) \/ WithdrawCommit(r)
      PROVE  DOMAIN apps \subseteq DOMAIN apps' /\ \A a \in Requests : Past(a) \subseteq Past(a)'
  BY <1>6, <1>7 DEF TransitionCommit, WithdrawCommit
<1> QED
  BY <1>2, <1>3, <1>4, <1>5, <1>7 DEF Next, RequestStep, Advance

\* A commit leaves its mail to be sent, and a mail sent is one that was due.
LEMMA MailsDue ==
  IInv /\ [Next]_vars /\ MailsAnnounceCommits /\ MailsPending
    => MailsAnnounceCommits' /\ MailsPending'
<1> SUFFICES ASSUME IInv, [Next]_vars, MailsAnnounceCommits, MailsPending
             PROVE  MailsAnnounceCommits' /\ MailsPending'
  OBVIOUS
<1> DEFINE Due(m) == m.app \in DOMAIN apps /\ m.announces \in Past(m.app)
<1>1. ASSUME \A m \in mails' : m \in mails \/ Due(m) PROVE MailsAnnounceCommits'
  <2> SUFFICES ASSUME NEW m \in mails' PROVE Due(m)'
    BY DEF MailsAnnounceCommits
  <2>1. Due(m)
    BY <1>1 DEF MailsAnnounceCommits
  <2>2. m.app \in Requests
    BY <2>1 DEF IInv, TypeOK
  <2> QED
    BY <2>1, <2>2, PastGrows
<1>2. ASSUME NEW q \in Requests, pc'[q] = pc[q], call'[q] = call[q]
      PROVE  Pending(q)'
  <2>1. pc[q] = "transition.notify" => call[q].app \in Requests
    BY DEF IInv, TypeOK, CallOK, TransitionPC, TransitionCall
  <2> QED
    BY <1>2, <2>1, PastGrows DEF MailsPending, Pending
<1>3. ASSUME NEW r \in Requests, OnlyCallOf(r), pc'[r] \notin {"submit.notify", "transition.notify"}
      PROVE  MailsPending'
  <2>1. Pending(r)'
    BY <1>3 DEF Pending
  <2> QED
    BY <1>2, <1>3, <2>1 DEF MailsPending, OnlyCallOf
<1>4. ASSUME UNCHANGED <<mails, pc, call>> PROVE MailsAnnounceCommits' /\ MailsPending'
  BY <1>1, <1>2, <1>4 DEF MailsPending
<1>5. CASE UNCHANGED vars \/ OtherServices
  BY <1>4, <1>5 DEF vars, OtherServices, SetResumeStorageKey, StoreCompleteness,
     SoftDeleteStudent, SetPostingStatus, SoftDeletePosting, SetApprovalStatus, SoftDeleteCompany
<1>6. ASSUME NEW r \in Requests,
             Arrive(r) \/ SubmitReadJob(r) \/ SubmitReadExisting(r) \/ TransitionReadApplication(r)
               \/ WithdrawReadApplication(r) \/ WithdrawCommit(r)
      PROVE  MailsAnnounceCommits' /\ MailsPending'
  <2>1. mails' = mails
    BY <1>6 DEF Arrive, SubmitReadStudent, TransitionReadCompany, WithdrawReadProfile, SubmitReadJob,
       SubmitReadExisting, TransitionReadApplication, WithdrawReadApplication, WithdrawCommit
  <2>2. OnlyCallOf(r) /\ pc'[r] \notin {"submit.notify", "transition.notify"}
    <3>1. ASSUME NEW where \in PCs \ {"submit.notify", "transition.notify"}, NEW value,
                 pc' = [pc EXCEPT ![r] = where],
                 call' = [call EXCEPT ![r] = value] \/ call' = call
          PROVE  OnlyCallOf(r) /\ pc'[r] \notin {"submit.notify", "transition.notify"}
      BY <3>1 DEF IInv, TypeOK, OnlyCallOf
    <3>2. ASSUME NEW result \in Results, Return(r, result)
          PROVE  OnlyCallOf(r) /\ pc'[r] \notin {"submit.notify", "transition.notify"}
      BY <3>1, <3>2 DEF Return, PCs, Results
    <3>3. CASE Arrive(r)
      BY <3>1, <3>2, <3>3 DEF Arrive, SubmitReadStudent, TransitionReadCompany, WithdrawReadProfile,
         Goto, PCs, SubmitPC, TransitionPC, WithdrawPC, Results
    <3>4. CASE SubmitReadJob(r) \/ SubmitReadExisting(r)
      BY <3>1, <3>2, <3>4 DEF SubmitReadJob, SubmitReadExisting, Goto, PCs, SubmitPC, Results
    <3>5. CASE TransitionReadApplication(r)
      <4>1. \/ /\ pc' = [pc EXCEPT ![r] = "transition.commit"]
               /\ call' = [call EXCEPT ![r].seen = apps[call[r].app].status]
            \/ Return(r, "refused")
        BY <3>5 DEF TransitionReadApplication, Goto
      <4>2. call' = [call EXCEPT ![r].seen = apps[call[r].app].status] =>
              call' = [call EXCEPT ![r] = [call[r] EXCEPT !.seen = apps[call[r].app].status]]
        OBVIOUS
      <4> QED
        BY <3>1, <3>2, <4>1, <4>2 DEF PCs, TransitionPC, Results
    <3>6. CASE WithdrawReadApplication(r)
      <4>1. \/ /\ pc' = [pc EXCEPT ![r] = "withdraw.commit"]
               /\ call' = [call EXCEPT ![r].seen = apps[call[r].app].status]
            \/ Return(r, "refused")
        BY <3>6 DEF WithdrawReadApplication, Goto
      <4>2. call' = [call EXCEPT ![r].seen = apps[call[r].app].status] =>
              call' = [call EXCEPT ![r] = [call[r] EXCEPT !.seen = apps[call[r].app].status]]
        OBVIOUS
      <4> QED
        BY <3>1, <3>2, <4>1, <4>2 DEF PCs, WithdrawPC, Results
    <3>7. CASE WithdrawCommit(r)
      BY <3>2, <3>7 DEF WithdrawCommit, Results
    <3> QED
      BY <1>6, <3>3, <3>4, <3>5, <3>6, <3>7
  <2> QED
    BY <1>1, <1>3, <2>1, <2>2
<1>7. ASSUME NEW r \in Requests, SubmitCommit(r) PROVE MailsAnnounceCommits' /\ MailsPending'
  <2>1. mails' = mails
    BY <1>7 DEF SubmitCommit
  <2>2. /\ \A q \in Requests \ {r} : pc'[q] = pc[q] /\ call'[q] = call[q]
        /\ Pending(r)'
    BY <1>7 DEF SubmitCommit, Goto, Return, IInv, TypeOK, Pending
  <2> QED
    BY <1>1, <1>2, <2>1, <2>2 DEF MailsPending
<1>8. ASSUME NEW r \in Requests, TransitionCommit(r) PROVE MailsAnnounceCommits' /\ MailsPending'
  <2>1. mails' = mails /\ call' = call
    BY <1>8 DEF TransitionCommit
  <2>2. /\ \A q \in Requests \ {r} : pc'[q] = pc[q]
        /\ pc'[r] = "transition.notify"
    BY <1>8 DEF TransitionCommit, Goto, IInv, TypeOK
  <2>3. Pending(r)'
    <3>1. call[r].app \in Requests /\ moveLog \in [Requests -> Seq(MoveEvent)]
      BY <1>8 DEF TransitionCommit, IInv, TypeOK, CallOK, TransitionPC, TransitionCall
    <3>2. PICK e : e.to = call[r].target /\ moveLog' = [moveLog EXCEPT ![call[r].app] = Append(@, e)]
      BY <1>8 DEF TransitionCommit, SetStatus
    <3>3. LET n == Len(moveLog[call[r].app]) + 1
          IN  n \in DOMAIN moveLog'[call[r].app] /\ moveLog'[call[r].app][n] = e
      BY <3>1, <3>2
    <3> QED
      BY <2>1, <2>2, <3>2, <3>3 DEF Past, Pending
  <2> QED
    BY <1>1, <1>2, <2>1, <2>2, <2>3 DEF MailsPending
<1>9. ASSUME NEW r \in Requests, SubmitNotify(r) \/ TransitionNotify(r)
      PROVE  MailsAnnounceCommits' /\ MailsPending'
  <2>1. OnlyCallOf(r) /\ pc'[r] \notin {"submit.notify", "transition.notify"}
    BY <1>9 DEF SubmitNotify, TransitionNotify, Return, OnlyCallOf, PCs, Results, IInv, TypeOK
  <2>2. CASE SubmitNotify(r)
    <3>1. Due([app |-> r, announces |-> "APPLIED"])
      BY <2>2 DEF SubmitNotify, MailsPending, Pending, Past
    <3>2. \A m \in mails' : m \in mails \/ m = [app |-> r, announces |-> "APPLIED"]
      BY <2>2 DEF SubmitNotify, Dispatch
    <3>3. \A m \in mails' : m \in mails \/ Due(m)
      BY <3>1, <3>2
    <3> QED
      BY <1>1, <1>3, <2>1, <3>3
  <2>3. CASE TransitionNotify(r)
    <3> DEFINE mail == [app |-> call[r].app, announces |-> call[r].target]
    <3>1. call[r].app \in DOMAIN apps /\ call[r].target \in Past(call[r].app)
      BY <2>3 DEF TransitionNotify, MailsPending, Pending, IInv, RequestsKnow, Knows, TransitionPC
    <3>2. \A m \in mails' : m \in mails \/ m = mail
      BY <2>3 DEF TransitionNotify, Dispatch
    <3>3. \A m \in mails' : m \in mails \/ Due(m)
      BY <3>1, <3>2
    <3> QED
      BY <1>1, <1>3, <2>1, <3>3
  <2> QED
    BY <1>9, <2>2, <2>3
<1> QED
  BY <1>5, <1>6, <1>7, <1>8, <1>9 DEF Next, RequestStep, Advance

\* A mail never precedes the row or the status it tells of, although it is sent after
\* the transaction by a request that others may have overtaken (application-service.ts:191, 454).
THEOREM MailsAreTrue == Spec => []MailsAnnounceCommits
<1>1. Init => MailsAnnounceCommits /\ MailsPending
  BY DEF Init, MailsAnnounceCommits, MailsPending, Pending
<1> QED
  BY <1>1, MailsDue, Invariance, PTL DEF Spec
-----------------------------------------------------------------------------
(* Refinement of ApplicationFunnel                                         *)

PairOf(a) == <<apps[a].job, apps[a].student>>

\* The funnel shows of a pair the status and the trail of its only row.
LEMMA FunnelOfRow ==
  ASSUME OneApplicationPerPosting, NEW a \in DOMAIN apps, PairOf(a) \in Jobs \X Students
  PROVE  FunnelStage[PairOf(a)] = apps[a].status /\ FunnelPassed[PairOf(a)] = Past(a)
<1> DEFINE j == apps[a].job
           s == apps[a].student
<1>1. HasApplied(j, s)
  BY DEF HasApplied
<1>2. AppOf(j, s) \in DOMAIN apps /\ apps[AppOf(j, s)].job = j /\ apps[AppOf(j, s)].student = s
  BY DEF AppOf
<1>3. AppOf(j, s) = a
  BY <1>2 DEF OneApplicationPerPosting
<1> QED
  BY <1>1, <1>3 DEF FunnelStage, FunnelPassed, PairOf

\* And of a pair without a row, nothing.
LEMMA FunnelOfNone ==
  ASSUME NEW p \in Jobs \X Students, \A a \in DOMAIN apps : PairOf(a) # p
  PROVE  FunnelStage[p] = "NO_APPLICATION" /\ FunnelPassed[p] = {}
<1>1. ~HasApplied(p[1], p[2])
  BY DEF HasApplied, PairOf
<1> QED
  BY <1>1 DEF FunnelStage, FunnelPassed

Pairs == Jobs \X Students

\* What the funnel shows, row by row.
FunnelFits ==
  /\ \A a \in DOMAIN apps :
       /\ PairOf(a) \in Pairs
       /\ FunnelStage[PairOf(a)] = apps[a].status
       /\ FunnelPassed[PairOf(a)] = Past(a)
  /\ \A p \in Pairs :
       (\A a \in DOMAIN apps : PairOf(a) # p) => FunnelStage[p] = "NO_APPLICATION" /\ FunnelPassed[p] = {}

LEMMA FunnelFitsAlways == IInv => FunnelFits
<1> SUFFICES ASSUME IInv PROVE FunnelFits
  OBVIOUS
<1>1. \A a \in DOMAIN apps : PairOf(a) \in Pairs
  BY DEF IInv, TypeOK, Application, PairOf, Pairs
<1> QED
  BY <1>1, FunnelOfRow, FunnelOfNone DEF FunnelFits, IInv, Pairs

\* A step that writes row a only, or inserts it, moves the funnel of its pair only.
LEMMA FunnelMoves ==
  ASSUME FunnelFits, FunnelFits', OneApplicationPerPosting', NEW a,
         DOMAIN apps' = DOMAIN apps \union {a},
         a \in DOMAIN apps => PairOf(a)' = PairOf(a),
         \A b \in DOMAIN apps \ {a} : apps'[b] = apps[b] /\ moveLog'[b] = moveLog[b]
  PROVE  /\ FunnelStage' = [FunnelStage EXCEPT ![PairOf(a)'] = apps'[a].status]
         /\ FunnelPassed' = [FunnelPassed EXCEPT ![PairOf(a)'] = Past(a)']
<1> DEFINE p == PairOf(a)'
<1>0. p \in Pairs /\ FunnelStage'[p] = apps'[a].status /\ FunnelPassed'[p] = Past(a)'
  BY DEF FunnelFits
<1>1. ASSUME NEW q \in Pairs, q # p PROVE FunnelStage'[q] = FunnelStage[q] /\ FunnelPassed'[q] = FunnelPassed[q]
  <2>1. CASE \E b \in DOMAIN apps : PairOf(b) = q
    <3>1. PICK b \in DOMAIN apps : PairOf(b) = q
      BY <2>1
    <3>2. b # a
      BY <1>1, <3>1
    <3>3. /\ b \in DOMAIN apps' /\ PairOf(b)' = q
          /\ apps'[b].status = apps[b].status /\ Past(b)' = Past(b)
      BY <3>1, <3>2 DEF PairOf, Past
    <3> QED
      BY <3>1, <3>3 DEF FunnelFits
  <2>2. CASE ~\E b \in DOMAIN apps : PairOf(b) = q
    <3>1. \A b \in DOMAIN apps' : PairOf(b)' # q
      BY <1>1, <2>2 DEF PairOf
    <3> QED
      BY <2>2, <3>1 DEF FunnelFits
  <2> QED
    BY <2>1, <2>2
<1>2. /\ FunnelStage = [q \in Pairs |-> FunnelStage[q]] /\ FunnelStage' = [q \in Pairs |-> FunnelStage'[q]]
      /\ FunnelPassed = [q \in Pairs |-> FunnelPassed[q]] /\ FunnelPassed' = [q \in Pairs |-> FunnelPassed'[q]]
  BY DEF FunnelStage, FunnelPassed, Pairs
<1> HIDE DEF p
<1> QED
  BY <1>0, <1>1, <1>2 DEF p

\* A step that leaves rows and trails alone is a stutter of the funnel.
LEMMA FunnelStutters == UNCHANGED <<apps, moveLog>> => UNCHANGED <<FunnelStage, FunnelPassed>>
  BY DEF FunnelStage, FunnelPassed, HasApplied, AppOf, Past

\* The insert of a row is Apply.
LEMMA InsertApplies ==
  ASSUME IInv, FunnelFits, IInv', FunnelFits', NEW r \in Requests, SubmitCommit(r)
  PROVE  [Funnel!Next]_<<FunnelStage, FunnelPassed>>
<1> DEFINE c == call[r]
           p == <<c.job, c.student>>
<1>1. CASE Duplicate(c.job, c.student)
  BY <1>1, FunnelStutters DEF SubmitCommit, tables, Duplicate
<1>2. CASE ~Duplicate(c.job, c.student)
  <2>1. r \notin DOMAIN apps /\ moveLog[r] = <<>> /\ c \in SubmitCall
    BY DEF SubmitCommit, IInv, TypeOK, CallOK, SubmitPC, Bookkeeping
  <2>2. /\ DOMAIN apps' = DOMAIN apps \union {r}
        /\ \A b \in DOMAIN apps : apps'[b] = apps[b]
        /\ apps'[r].job = c.job /\ apps'[r].student = c.student /\ apps'[r].status = "APPLIED"
        /\ moveLog' = moveLog
    BY <1>2, <2>1 DEF SubmitCommit
  <2>3. PairOf(r)' = p /\ p \in Pairs /\ Past(r)' = {"APPLIED"}
    BY <2>1, <2>2 DEF PairOf, Pairs, SubmitCall, Past
  <2>4. \A a \in DOMAIN apps : PairOf(a) # p
    BY <1>2 DEF Duplicate, HasApplied, PairOf
  <2>5. FunnelStage[p] = "NO_APPLICATION" /\ FunnelPassed[p] = {}
    BY <2>3, <2>4 DEF FunnelFits
  <2>6. /\ FunnelStage' = [FunnelStage EXCEPT ![p] = "APPLIED"]
        /\ FunnelPassed' = [FunnelPassed EXCEPT ![p] = {"APPLIED"}]
    BY <2>1, <2>2, <2>3, FunnelMoves DEF IInv
  <2>7. FunnelPassed' = [FunnelPassed EXCEPT ![p] = @ \union {"APPLIED"}]
    BY <2>5, <2>6
  <2>8. Funnel!Apply(p)
    BY <2>5, <2>6, <2>7 DEF Funnel!Apply, Funnel!Enter, Funnel!NoApplication
  <2> QED
    BY <2>3, <2>8 DEF Funnel!Next, Funnel!Pairs, Pairs
<1> QED
  BY <1>1, <1>2

\* The transaction that sets a status enters it, with the trail as the statuses passed.
LEMMA StatusEnters ==
  ASSUME IInv, FunnelFits, IInv', FunnelFits', NEW a \in DOMAIN apps, NEW e, SetStatus(a, e.to, e)
  PROVE  PairOf(a) \in Pairs /\ FunnelPassed[PairOf(a)] = Past(a) /\ Funnel!Enter(PairOf(a), e.to)
<1> DEFINE p == PairOf(a)
<1>0. apps \in [DOMAIN apps -> Application] /\ apps[a] \in Application
  BY DEF IInv, TypeOK
<1>1. /\ DOMAIN apps' = DOMAIN apps
      /\ apps'[a].job = apps[a].job /\ apps'[a].student = apps[a].student /\ apps'[a].status = e.to
      /\ \A b \in DOMAIN apps \ {a} : apps'[b] = apps[b]
  <2>1. apps' = [apps EXCEPT ![a].status = e.to]
    BY DEF SetStatus
  <2> QED
    BY <1>0, <2>1 DEF Application
<1>2. /\ a \in Requests /\ moveLog[a] \in Seq(MoveEvent) /\ moveLog'[a] = Append(moveLog[a], e)
      /\ \A b \in DOMAIN apps \ {a} : moveLog'[b] = moveLog[b]
  BY DEF SetStatus, IInv, TypeOK
<1>3. Past(a)' = Past(a) \union {e.to}
  <2>1. /\ Len(moveLog[a]) \in Nat /\ DOMAIN moveLog[a] = 1..Len(moveLog[a])
        /\ DOMAIN moveLog'[a] = 1..(Len(moveLog[a]) + 1)
        /\ \A i \in DOMAIN moveLog[a] : moveLog'[a][i] = moveLog[a][i]
        /\ moveLog'[a][Len(moveLog[a]) + 1] = e
    BY <1>2
  <2>2. DOMAIN moveLog'[a] = DOMAIN moveLog[a] \union {Len(moveLog[a]) + 1}
    BY <2>1
  <2> QED
    BY <2>1, <2>2 DEF Past
<1>4. PairOf(a)' = p
  BY <1>1 DEF PairOf
<1>5. FunnelPassed[p] = Past(a) /\ p \in Pairs
  BY DEF FunnelFits
<1>6. /\ FunnelStage' = [FunnelStage EXCEPT ![p] = e.to]
      /\ FunnelPassed' = [FunnelPassed EXCEPT ![p] = Past(a) \union {e.to}]
  BY <1>1, <1>2, <1>3, <1>4, FunnelMoves DEF IInv
<1> HIDE DEF p
<1> QED
  BY <1>5, <1>6 DEF Funnel!Enter, p

\* A company's transaction is CompanyMoves, from the status its request read.
LEMMA DecisionMoves ==
  ASSUME IInv, FunnelFits, IInv', FunnelFits', NEW r \in Requests, TransitionCommit(r)
  PROVE  Funnel!Next
<1> DEFINE a == call[r].app
           e == [type |-> "APPLICATION_STATUS_CHANGED", actor |-> call[r].company,
                 from |-> call[r].seen, to |-> call[r].target]
<1>1. a \in DOMAIN apps /\ call[r].seen \in Past(a) /\ e.to \in ALLOWED[call[r].seen] /\ e.to \in Statuses
  BY DEF TransitionCommit, IInv, TypeOK, CallOK, RequestsKnow, Knows, TransitionPC, TransitionCall,
     CompanyTransition, Statuses
<1>2. SetStatus(a, e.to, e)
  BY DEF TransitionCommit
<1> HIDE DEF e
<1>3. PairOf(a) \in Pairs /\ FunnelPassed[PairOf(a)] = Past(a) /\ Funnel!Enter(PairOf(a), e.to)
  BY <1>1, <1>2, StatusEnters
<1>4. Funnel!CompanyMoves(PairOf(a), e.to)
  BY <1>1, <1>3 DEF Funnel!CompanyMoves, Funnel!Allowed, ALLOWED
<1> QED
  BY <1>1, <1>3, <1>4 DEF Funnel!Next, Funnel!Pairs, Pairs, Funnel!Statuses, Statuses

\* A student's is StudentWithdraws.
LEMMA WithdrawalMoves ==
  ASSUME IInv, FunnelFits, IInv', FunnelFits', NEW r \in Requests, WithdrawCommit(r)
  PROVE  Funnel!Next
<1> DEFINE a == call[r].app
           e == [type |-> "APPLICATION_WITHDRAWN", actor |-> call[r].student,
                 from |-> call[r].seen, to |-> "WITHDRAWN"]
<1>1. a \in DOMAIN apps /\ call[r].seen \in Past(a) \intersect ACTIVE_APPLICATION_STATUSES
  BY DEF WithdrawCommit, IInv, RequestsKnow, Knows, WithdrawPC
<1>2. SetStatus(a, e.to, e) /\ e.to = "WITHDRAWN"
  BY DEF WithdrawCommit
<1> HIDE DEF e
<1>3. PairOf(a) \in Pairs /\ FunnelPassed[PairOf(a)] = Past(a) /\ Funnel!Enter(PairOf(a), "WITHDRAWN")
  BY <1>1, <1>2, StatusEnters
<1>4. Funnel!StudentWithdraws(PairOf(a))
  BY <1>1, <1>3 DEF Funnel!StudentWithdraws, Funnel!Active, ACTIVE_APPLICATION_STATUSES
<1> QED
  BY <1>3, <1>4 DEF Funnel!Next, Funnel!Pairs, Pairs

\* The interleaved requests, stale reads and all, only ever move the funnel as its
\* specification allows (application-service.ts:122-189, 400-451, 508-550).
THEOREM FunnelImplemented == Spec => ImplementsFunnel
<1>1. Init => Funnel!Init
  <2> SUFFICES ASSUME Init PROVE Funnel!Init
    OBVIOUS
  <2>1. \A j, s : ~HasApplied(j, s)
    BY DEF Init, HasApplied
  <2> QED
    BY <2>1 DEF Funnel!Init, FunnelStage, FunnelPassed, Funnel!Pairs, Funnel!NoApplication
<1>2. IInv /\ FunnelFits /\ IInv' /\ FunnelFits' /\ [Next]_vars => [Funnel!Next]_(Funnel!vars)
  <2> SUFFICES ASSUME IInv, FunnelFits, IInv', FunnelFits', [Next]_vars
               PROVE  [Funnel!Next]_<<FunnelStage, FunnelPassed>>
    BY DEF Funnel!vars
  <2>1. CASE UNCHANGED vars \/ OtherServices
    BY <2>1, FunnelStutters DEF vars, tables, OtherServices, SetResumeStorageKey, StoreCompleteness,
       SoftDeleteStudent, SetPostingStatus, SoftDeletePosting, SetApprovalStatus, SoftDeleteCompany
  <2>2. ASSUME NEW r \in Requests, Arrive(r) PROVE UNCHANGED <<FunnelStage, FunnelPassed>>
    BY <2>2, FunnelStutters DEF Arrive, SubmitReadStudent, TransitionReadCompany, WithdrawReadProfile, tables
  <2>3. ASSUME NEW r \in Requests,
               \/ SubmitReadJob(r) \/ SubmitReadExisting(r) \/ SubmitNotify(r)
               \/ TransitionReadApplication(r) \/ TransitionNotify(r) \/ WithdrawReadApplication(r)
        PROVE  UNCHANGED <<FunnelStage, FunnelPassed>>
    BY <2>3, FunnelStutters DEF SubmitReadJob, SubmitReadExisting, SubmitNotify,
       TransitionReadApplication, TransitionNotify, WithdrawReadApplication, tables
  <2> QED
    BY <2>1, <2>2, <2>3, InsertApplies, DecisionMoves, WithdrawalMoves DEF Next, RequestStep, Advance
<1>3. IInv => FunnelFits
  BY FunnelFitsAlways
<1> QED
  BY <1>1, <1>2, <1>3, Invariance, PTL DEF Spec, ImplementsFunnel, Funnel!Spec

-----------------------------------------------------------------------------
(* The pages                                                               *)

\* The buttons of the company, by type correctness alone.
THEOREM CompanyButtons == Spec => []ButtonsAreMoves
<1>1. TypeOK => ButtonsAreMoves
  <2> SUFFICES ASSUME TypeOK, NEW c \in Companies, NEW a \in DOMAIN apps, NEW target \in CompanyTransition
               PROVE  <<a, target>> \in Buttons(c)
                        <=> /\ a \in listApplicationsForCompany(c)
                            /\ MayTransition([company |-> c, target |-> target], apps[a])
    BY DEF ButtonsAreMoves
  <2>1. apps[a].status \in Statuses
    BY DEF TypeOK, Application
  <2>2. NEXT_TARGETS[apps[a].status] = ALLOWED[apps[a].status]
    BY <2>1 DEF NEXT_TARGETS, ALLOWED, Statuses
  <2>3. \E group \in STATUS_GROUPS : apps[a].status \in group
    BY <2>1 DEF Statuses, STATUS_GROUPS
  <2>4. <<a, target>> \in Buttons(c) <=> a \in ApplicantRows(c) /\ target \in NEXT_TARGETS[apps[a].status]
    BY DEF Buttons
  <2>5. a \in ApplicantRows(c) <=> a \in listApplicationsForCompany(c)
    BY <2>3 DEF ApplicantRows
  <2>6. a \in listApplicationsForCompany(c) => CompanyOf[apps[a].job] = c
    BY DEF listApplicationsForCompany
  <2> QED
    BY <2>2, <2>4, <2>5, <2>6 DEF MayTransition
<1> QED
  BY <1>1, TypeCorrect, PTL

\* The withdraw buttons of the student.
THEOREM StudentButtons == Spec => []WithdrawOfferedRight
<1>1. WithdrawOfferedRight
  BY DEF WithdrawOfferedRight, WithdrawOffered, listApplicationsForStudent, IsActive, MayWithdraw
<1> QED
  BY <1>1, PTL

\* The form of the student.
THEOREM HonestForm == Spec => []FormMeansAdmitted
<1>1. FormMeansAdmitted
  <2> SUFFICES ASSUME NEW s \in Students, NEW j \in Jobs, ~student[s].deleted
               PROVE  FormShown("STUDENT", s, j) <=> MayApply(s) /\ IsOpen(j) /\ ~HasApplied(j, s)
    BY DEF FormMeansAdmitted
  <2>1. ApplyCta("STUDENT", s, j) = "form" <=> MayApply(s) /\ ~HasApplied(j, s)
    BY DEF ApplyCta, MayApply
  <2>2. ~HasApplied(j, s) => (JobDetailPage("STUDENT", s, j) # "not found" <=> IsOpen(j))
    BY DEF JobDetailPage, studentHasActiveApplication, HasApplied, getPublicJobPostingBySlugs
  <2> QED
    BY <2>1, <2>2 DEF FormShown
<1> QED
  BY <1>1, PTL

\* The links of the student: that there is no second application is the unique index.
THEOREM StudentLinks == Spec => []LinksLeadToPages
<1>1. OneApplicationPerPosting => LinksLeadToPages
  <2> SUFFICES ASSUME OneApplicationPerPosting, NEW s \in Students, NEW a \in listApplicationsForStudent(s)
               PROVE  LET found == JobDetailPage("STUDENT", s, apps[a].job) # "not found"
                          j == apps[a].job
                      IN /\ TitleLinked(a) =>
                              (found <=> /\ ~posting[j].deleted /\ ~company[CompanyOf[j]].deleted
                                         /\ IsActive(a) \/ company[CompanyOf[j]].approved)
                         /\ ~TitleLinked(a) => ~found
    BY DEF LinksLeadToPages
  <2> DEFINE j == apps[a].job
  <2>1. a \in DOMAIN apps /\ apps[a].student = s
    BY DEF listApplicationsForStudent
  <2>2. studentHasActiveApplication(s, j) <=> IsActive(a)
    BY <2>1 DEF studentHasActiveApplication, OneApplicationPerPosting, IsActive
  <2>3. JobDetailPage("STUDENT", s, j) # "not found"
          <=> IsOpen(j) \/ (~posting[j].deleted /\ ~company[CompanyOf[j]].deleted /\ IsActive(a))
    BY <2>2 DEF JobDetailPage, getPublicJobPostingBySlugs, getJobPostingBySlugsForBypass
  <2> QED
    BY <2>3 DEF TitleLinked, IsOpen
<1> QED
  BY <1>1, UniqueApplication, PTL

\* The bypass, for every viewer.
THEOREM NarrowBypass == Spec => []BypassIsForApplicants
<1>1. BypassIsForApplicants
  BY DEF BypassIsForApplicants, JobDetailPage, SaveToggleShown, getPublicJobPostingBySlugs
<1> QED
  BY <1>1, PTL
=============================================================================
