--------------------------- MODULE MarketplaceProofs ---------------------------
(***************************************************************************)
(* Proofs about Marketplace, for any members, requests, postings and loop  *)
(* bounds. A handler writes what it found some statements earlier, so the  *)
(* invariant says what each request knows (Remembers) beside what the      *)
(* tables hold, and what may not be undone meanwhile (Grows). Logos, the   *)
(* retries of a save, the audit log and the pages of Reports each have an  *)
(* invariant of their own on top of it.                                    *)
(***************************************************************************)
EXTENDS Marketplace, Reports, FiniteSetTheorems, SequenceTheorems, TLAPS

Busy(r) == pc[r] \notin Results \union {"idle"}

SignupAt == {"signup.create", "signup.event", "signup.mail", "signup.signin"}
BootstrapAt == {"bootstrap.create", "bootstrap.requery"}
SaveAt == {"save.slug", "save.create", "save.update", "save.event", "save.mails"}
LogoAt == {"logo.put", "logo.remove", "logo.read", "logo.slug", "logo.create", "logo.update", "logo.cleanup"}
ApproveAt == {"approve.read", "approve.commit", "approve.mail"}
DeleteAt == {"delete.read", "delete.write", "delete.event"}
JobAt == {"job.visible", "job.existing", "job.create", "job.delete"}

\* The statements that follow on an active company profile that the request has found.
OnCompany == {"save.update", "save.event", "save.mails", "logo.update", "logo.cleanup",
              "approve.commit", "approve.mail"}

\* The profile that the request is about.
Subject(c) == IF c.op \in {"approve", "deleteCompany"} THEN c.target ELSE c.user

\* An earlier decision about company c, or its creation, left it in status s.
Known(c, s) == s = "PENDING" \/ \E m \in DOMAIN approvals[c] : approvals[c][m].to = s

\* Whose operation it is, and with which arguments.
Started(r) ==
  LET c == call[r] IN
    /\ pc[r] \in SignupAt =>
         c.op = "signup" /\ c.email \in Emails /\ c.role \in {"STUDENT", "COMPANY"} /\ ~c.late
    /\ pc[r] \in BootstrapAt => c.op = "bootstrap" /\ c.email \in Emails /\ ~c.late
    /\ pc[r] \in SaveAt => c.op = "save" /\ c.user \in DOMAIN user
    /\ pc[r] \in LogoAt => c.op \in {"uploadLogo", "deleteLogo"} /\ c.user \in DOMAIN user
    /\ pc[r] \in ApproveAt =>
         c.op = "approve" /\ ensureAdmin(c.user) /\ c.target \in DOMAIN company
         /\ c.status \in CompanyApprovalStatus
    /\ pc[r] \in DeleteAt =>
         /\ c.op \in {"deleteCompany", "deleteStudent"} /\ ensureAdmin(c.user)
         /\ c.target \in IF c.op = "deleteCompany" THEN DOMAIN company ELSE DOMAIN user
    /\ pc[r] = "diagnostic.send" => c.op = "diagnostic" /\ ensureAdmin(c.user)
    /\ pc[r] \in JobAt => c.op \in {"saveJob", "unsaveJob"} /\ c.target \in Jobs /\ c.user \in DOMAIN user /\ ~c.late

\* What it has found since, and what the row it is about was when it arrived.
Found(r) ==
  LET c == call[r] IN
    /\ pc[r] \in OnCompany => Subject(c) \in DOMAIN company /\ ~c.late
    /\ pc[r] \in {"delete.write", "delete.event"} => ~c.late
    /\ pc[r] = "delete.write" /\ c.op = "deleteStudent" => user[c.target].role = "STUDENT"
    /\ c.late /\ c.op \in {"save", "uploadLogo", "deleteLogo", "approve", "deleteCompany"} =>
         Subject(c) \in DOMAIN company /\ company[Subject(c)].deleted
    /\ pc[r] \in DeleteAt /\ c.late /\ c.op = "deleteStudent" => user[c.target].deleted
    /\ pc[r] = "approve.commit" =>
         c.seen \in CompanyApprovalStatus /\ c.seen # c.status /\ Known(c.target, c.seen)
    /\ pc[r] \in {"job.existing", "job.create"} => r \in shown

Remembers(r) == Started(r) /\ Found(r)

RequestsRemember == \A r \in Requests : Busy(r) => Remembers(r)

\* A user is there only once its request has inserted it.
Born == Results \union {"signup.event", "signup.mail", "signup.signin"}
Bookkeeping ==
  /\ \A r \in Requests : r \in DOMAIN user => pc[r] \in Born
  /\ \A r \in Requests : pc[r] \in {"signup.event", "signup.mail", "signup.signin"} => r \in DOMAIN user
  /\ \A c \in Ids \ DOMAIN company : approvals[c] = <<>>

\* The inductive invariant.
IInv ==
  /\ TypeOK
  /\ KeysUnique
  /\ ApprovalsTell
  /\ RequestsRemember
  /\ Bookkeeping

\* What TypeOK says of the locals of r, and of the tables that no request relies on.
CallOK(r) == call[r] \in IF pc[r] \in Results \union {"idle"} THEN {NoCall} ELSE Call
SideTablesOK ==
  /\ DOMAIN student \subseteq DOMAIN user /\ student \in [DOMAIN student -> StudentProfile]
  /\ posting \in [Jobs -> JobPosting]
  /\ saved \subseteq Ids \X Jobs
  /\ files \subseteq Ids
  /\ log \subseteq Event
  /\ mails \subseteq Mail
  /\ sessions \subseteq DOMAIN user
UsersOK == DOMAIN user \subseteq Ids /\ user \in [DOMAIN user -> User]
CompaniesOK == DOMAIN company \subseteq DOMAIN user /\ company \in [DOMAIN company -> CompanyProfile]

\* The conjuncts of TypeOK, by table and by request.
LEMMA Types ==
  TypeOK <=> /\ SideTablesOK /\ UsersOK /\ CompaniesOK /\ approvals \in [Ids -> Seq(ApprovalEvent)]
             /\ pc \in [Requests -> PCs] /\ DOMAIN call = Requests /\ \A r \in Requests : CallOK(r)
<1> QED
  BY DEF TypeOK, SideTablesOK, UsersOK, CompaniesOK, CallOK

\* Every initial state satisfies the inductive invariant.
LEMMA InitIInv == Init => IInv
<1> SUFFICES ASSUME Init PROVE IInv
  OBVIOUS
<1> USE RoleOfAssumption, EmailOfAssumption, PostedByAssumption, BoundsAssumption, DistinctAssumption
<1>1. UsersOK /\ DOMAIN user = Members
  BY DEF Init, UsersOK, NewUser, User, Ids
<1>2. CompaniesOK
  <2>1. PICK C \in SUBSET Rowless :
          company \in [C \union {PostedBy[j] : j \in Jobs} -> CompanyProfile]
    BY DEF Init
  <2>2. DOMAIN company \subseteq Members
    BY <2>1 DEF Rowless
  <2> QED
    BY <1>1, <2>1, <2>2 DEF CompaniesOK
<1>3. SideTablesOK
  <2>1. PICK S \in SUBSET {m \in Members : RoleOf[m] = "STUDENT"} : student \in [S -> StudentProfile]
    BY DEF Init
  <2>2. DOMAIN student \subseteq DOMAIN user /\ student \in [DOMAIN student -> StudentProfile]
    BY <1>1, <2>1
  <2>3. files \subseteq Ids
    BY <1>1, <1>2 DEF Init, CompaniesOK, CompanyProfile, Ids
  <2> QED
    BY <1>1, <2>2, <2>3 DEF Init, SideTablesOK
<1>4. PICK a \in Members : approvals = [c \in Ids |->
        IF c \in DOMAIN company /\ company[c].approval # "PENDING"
          THEN <<[from |-> "PENDING", to |-> company[c].approval, actor |-> a]>>
          ELSE <<>>]
  BY DEF Init
<1>5. \A c \in DOMAIN company : company[c].approval \in CompanyApprovalStatus
  BY <1>2 DEF CompaniesOK, CompanyProfile
<1>6. approvals \in [Ids -> Seq(ApprovalEvent)]
  <2> SUFFICES ASSUME NEW c \in Ids PROVE approvals[c] \in Seq(ApprovalEvent)
    BY <1>4
  <2>1. CASE c \in DOMAIN company /\ company[c].approval # "PENDING"
    <3> DEFINE e == [from |-> "PENDING", to |-> company[c].approval, actor |-> a]
    <3>1. e \in ApprovalEvent
      BY <1>5, <2>1 DEF ApprovalEvent, Ids, CompanyApprovalStatus
    <3>2. approvals[c] = <<e>>
      BY <1>4, <2>1
    <3> QED
      BY <3>1, <3>2
  <2>2. CASE ~(c \in DOMAIN company /\ company[c].approval # "PENDING")
    <3>1. approvals[c] = <<>>
      BY <1>4, <2>2
    <3> QED
      BY <3>1
  <2> QED
    BY <2>1, <2>2
<1>7. pc \in [Requests -> PCs] /\ DOMAIN call = Requests /\ \A r \in Requests : CallOK(r)
  BY DEF Init, PCs, CallOK
<1>8. TypeOK
  BY <1>1, <1>2, <1>3, <1>6, <1>7, Types
<1>9. KeysUnique
  BY <1>1, <1>2 DEF Init, KeysUnique, ActiveUsers, ActiveCompanies, NewUser
<1>10. ApprovalsTell
  BY <1>1, <1>2, <1>4 DEF ApprovalsTell, CompaniesOK, Ids
<1>11. RequestsRemember
  BY DEF Init, RequestsRemember, Busy
<1>12. Bookkeeping
  BY <1>1, <1>4 DEF Init, Bookkeeping
<1> QED
  BY <1>8, <1>9, <1>10, <1>11, <1>12 DEF IInv

-----------------------------------------------------------------------------
(* A step of one request                                                   *)

\* Only the locals of request r move.
OnlyCallOf(r) ==
  /\ pc' \in [Requests -> PCs]
  /\ DOMAIN call' = Requests
  /\ \A q \in Requests \ {r} : pc'[q] = pc[q] /\ call'[q] = call[q]

\* What no step undoes.
Grows ==
  /\ DOMAIN user \subseteq DOMAIN user' /\ DOMAIN company \subseteq DOMAIN company'
  /\ \A u \in DOMAIN user :
       /\ user'[u].role = user[u].role
       /\ user[u].deleted => user'[u].deleted
       /\ user[u].role = "ADMIN" => user'[u] = user[u]
  /\ \A c \in DOMAIN company : company[c].deleted => company'[c].deleted
  /\ \A c \in Ids : \A m \in DOMAIN approvals[c] :
       m \in DOMAIN approvals'[c] /\ approvals'[c][m].to = approvals[c][m].to

\* A request that takes no step knows what it knew.
LEMMA OthersRemember ==
  ASSUME IInv, Watch, Grows, NEW r \in Requests, OnlyCallOf(r)
  PROVE  \A q \in Requests \ {r} : CallOK(q)' /\ (Busy(q) => Remembers(q))'
<1> SUFFICES ASSUME NEW q \in Requests \ {r} PROVE CallOK(q)' /\ (Busy(q) => Remembers(q))'
  OBVIOUS
<1>1. pc'[q] = pc[q] /\ call'[q] = call[q]
  BY DEF OnlyCallOf
<1>2. CallOK(q) /\ CallOK(q)'
  BY <1>1, Types DEF IInv, CallOK
<1>3. ASSUME Busy(q)' PROVE Remembers(q)'
  <2>1. Started(q) /\ Found(q) /\ call[q] \in Call
    BY <1>1, <1>2, <1>3 DEF IInv, RequestsRemember, Remembers, Busy, CallOK
  <2>2. \A u \in DOMAIN user : ensureAdmin(u) => ensureAdmin(u)'
    BY DEF Grows, ensureAdmin, ActiveUsers
  <2>3. Started(q)'
    <3> USE <1>1, <2>1 DEF Started
    <3>1. pc[q] \in ApproveAt \union DeleteAt \union {"diagnostic.send"} => ensureAdmin(call[q].user)'
      BY <2>2 DEF ensureAdmin, ActiveUsers, ApproveAt, DeleteAt
    <3> QED
      BY <3>1 DEF Grows
  <2>4. Found(q)'
    <3> USE <1>1, <2>1 DEF Found, Subject
    <3>1. pc[q] = "approve.commit" => Known(call[q].target, call[q].seen)'
      <4> SUFFICES ASSUME pc[q] = "approve.commit" PROVE Known(call[q].target, call[q].seen)'
        OBVIOUS
      <4>1. call[q].target \in Ids
        BY Types DEF Started, ApproveAt, IInv, CompaniesOK, UsersOK
      <4> QED
        BY <4>1 DEF Known, Grows
    <3>2. pc[q] = "delete.write" /\ call[q].op = "deleteStudent" => call[q].target \in DOMAIN user
      BY DEF Started, DeleteAt
    <3>3. pc[q] \in DeleteAt /\ call[q].op = "deleteStudent" => call[q].target \in DOMAIN user
      BY DEF Started, DeleteAt
    <3>4. pc[q] \in {"job.existing", "job.create"} => q \in shown'
      BY DEF Watch
    <3> QED
      BY <3>1, <3>2, <3>3, <3>4 DEF Grows
  <2> QED
    BY <2>3, <2>4 DEF Remembers
<1> QED
  BY <1>2, <1>3

\* A step of r that leaves users, companies and decisions alone preserves the invariant
\* as soon as r itself is in order.
LEMMA SideStep ==
  ASSUME IInv, Watch, UNCHANGED <<user, company, approvals>>, SideTablesOK',
         NEW r \in Requests, OnlyCallOf(r), CallOK(r)', (Busy(r) => Remembers(r))',
         r \in DOMAIN user => pc'[r] \in Born,
         pc'[r] \in {"signup.event", "signup.mail", "signup.signin"} => r \in DOMAIN user
  PROVE  IInv'
<1>1. Grows
  BY DEF Grows
<1>2. \A q \in Requests \ {r} : CallOK(q)' /\ (Busy(q) => Remembers(q))'
  BY <1>1, OthersRemember
<1>3. TypeOK'
  <2>1. \A q \in Requests : CallOK(q)'
    BY <1>2
  <2>2. UsersOK' /\ CompaniesOK' /\ (approvals \in [Ids -> Seq(ApprovalEvent)])'
    BY Types DEF IInv, UsersOK, CompaniesOK
  <2> QED
    BY <2>1, <2>2 DEF TypeOK, SideTablesOK, UsersOK, CompaniesOK, CallOK, OnlyCallOf
<1>4. KeysUnique' /\ ApprovalsTell'
  BY DEF IInv, KeysUnique, ApprovalsTell, ActiveUsers, ActiveCompanies
<1>5. RequestsRemember'
  BY <1>2 DEF RequestsRemember
<1>6. Bookkeeping'
  BY DEF IInv, Bookkeeping, OnlyCallOf
<1> QED
  BY <1>3, <1>4, <1>5, <1>6 DEF IInv

\* A request that returns has nothing to remember.
LEMMA ReturnOK ==
  ASSUME IInv, Watch, UNCHANGED <<user, company, approvals>>, SideTablesOK',
         NEW r \in Requests, NEW result \in Results, Return(r, result)
  PROVE  IInv'
<1>1. OnlyCallOf(r) /\ pc'[r] = result /\ call'[r] = NoCall
  BY Types DEF IInv, Return, OnlyCallOf, PCs
<1>2. CallOK(r)' /\ ~Busy(r)'
  BY <1>1 DEF CallOK, Busy
<1>3. pc'[r] \in Born /\ pc'[r] \notin {"signup.event", "signup.mail", "signup.signin"}
  BY <1>1 DEF Born, Results
<1> QED
  BY <1>1, <1>2, <1>3, SideStep

\* The statements at which no user of r's is in the tables yet.
Waiting == PCs \ (Born \union {"idle"})

\* A request goes on, with the locals it has or with others.
LEMMA MoveOn ==
  ASSUME IInv, Watch, UNCHANGED <<user, company, approvals>>, SideTablesOK',
         NEW r \in Requests, NEW where \in Waiting, NEW c \in Call,
         pc' = [pc EXCEPT ![r] = where], call' = [call EXCEPT ![r] = c],
         r \notin DOMAIN user, Remembers(r)'
  PROVE  IInv'
<1>1. OnlyCallOf(r) /\ pc'[r] = where /\ call'[r] = c
  BY Types DEF IInv, OnlyCallOf, Waiting
<1>2. CallOK(r)'
  BY <1>1 DEF CallOK, Waiting, Born
<1>3. pc'[r] \notin {"signup.event", "signup.mail", "signup.signin"}
  BY <1>1 DEF Born, Waiting
<1> QED
  BY <1>1, <1>2, <1>3, SideStep

LEMMA GoOn ==
  ASSUME IInv, Watch, UNCHANGED <<user, company, approvals>>, SideTablesOK',
         NEW r \in Requests, Busy(r), NEW where \in Waiting, Goto(r, where),
         r \notin DOMAIN user, Remembers(r)'
  PROVE  IInv'
<1>1. OnlyCallOf(r) /\ pc'[r] = where /\ call'[r] = call[r]
  BY Types DEF IInv, Goto, OnlyCallOf, Waiting
<1>2. CallOK(r)'
  BY <1>1, Types DEF IInv, CallOK, Busy, Waiting, Born
<1>3. pc'[r] \notin {"signup.event", "signup.mail", "signup.signin"}
  BY <1>1 DEF Born, Waiting
<1> QED
  BY <1>1, <1>2, <1>3, SideStep

\* A request under way that has no user of its own.
LEMMA NotBorn ==
  ASSUME IInv, NEW r \in Requests, pc[r] \in Waiting \union {"idle"} PROVE r \notin DOMAIN user
<1> QED
  BY DEF IInv, Bookkeeping, Waiting, Born, Results

-----------------------------------------------------------------------------
(* Arrivals                                                                *)

\* The arguments of a request are typed.
LEMMA ArgumentsTyped ==
  ASSUME NEW op \in Ops, NEW u \in Ids \union {None} PROVE Arguments(op, u) \in Call
<1> QED
  BY BoundsAssumption DEF Arguments, Call, Slugs

\* A request enters at its first statement.
LEMMA Enters ==
  ASSUME IInv, Watch, UNCHANGED tables, NEW r \in Requests, NEW where \in Waiting, NEW a \in Call,
         Enter(r, where, a),
         pc'[r] = where /\ call'[r] = a => Remembers(r)'
  PROVE  IInv'
<1>1. pc' = [pc EXCEPT ![r] = where] /\ call' = [call EXCEPT ![r] = a] /\ pc[r] = "idle"
  BY DEF Enter
<1>2. pc'[r] = where /\ call'[r] = a
  BY <1>1, Types DEF IInv
<1>3. SideTablesOK'
  BY Types DEF IInv, tables, SideTablesOK
<1>4. r \notin DOMAIN user
  BY <1>1, NotBorn
<1> QED
  BY <1>1, <1>2, <1>3, <1>4, MoveOn DEF tables

\* A request that ends at once, without a write, preserves the invariant.
LEMMA Answers ==
  ASSUME IInv, Watch, UNCHANGED tables, NEW r \in Requests, NEW result \in Results, Return(r, result)
  PROVE  IInv'
<1>1. SideTablesOK'
  BY Types DEF IInv, tables, SideTablesOK
<1> QED
  BY <1>1, ReturnOK DEF tables

\* The users of sessions are rows, with typed ids.
LEMMA SessionsAreUsers == IInv => \A u \in sessions : u \in DOMAIN user /\ u \in Ids
<1> QED
  BY Types DEF IInv, SideTablesOK, UsersOK

LEMMA SignupArrives ==
  ASSUME IInv, Watch, NEW r \in Requests, NEW email \in Emails, NEW role \in {"STUDENT", "COMPANY"},
         Signup(r, email, role)
  PROVE  IInv'
<1>0. UNCHANGED tables
  BY DEF Signup
<1>1. CASE Return(r, "refused")
  BY <1>0, <1>1, Answers DEF Results
<1> DEFINE a == [Arguments("signup", None) EXCEPT !.email = email, !.role = role]
<1>2. CASE Enter(r, "signup.create", a)
  <2>1. a \in Call
    <3>1. Arguments("signup", None) \in Call
      BY ArgumentsTyped DEF Ops
    <3> QED
      BY <3>1 DEF Call, UserRole
  <2>2. ASSUME pc'[r] = "signup.create", call'[r] = a PROVE Remembers(r)'
    BY <2>2 DEF Remembers, Started, Found, Arguments, SignupAt, BootstrapAt, SaveAt, LogoAt, ApproveAt,
                DeleteAt, JobAt, OnCompany
  <2> HIDE DEF a
  <2> QED
    BY <1>0, <1>2, <2>1, <2>2, Enters DEF Waiting, PCs, Born, Results
<1> QED
  BY <1>1, <1>2 DEF Signup

LEMMA BootstrapArrives ==
  ASSUME IInv, Watch, NEW r \in Requests, NEW email \in Emails, Bootstrap(r, email)
  PROVE  IInv'
<1>0. UNCHANGED tables
  BY DEF Bootstrap
<1>1. ASSUME NEW found, Return(r, Disambiguated(found)) PROVE IInv'
  BY <1>0, <1>1, Answers DEF Results, Disambiguated
<1> DEFINE a == [Arguments("bootstrap", None) EXCEPT !.email = email]
<1>2. CASE Enter(r, "bootstrap.create", a)
  <2>1. a \in Call
    <3>1. Arguments("bootstrap", None) \in Call
      BY ArgumentsTyped DEF Ops
    <3> QED
      BY <3>1 DEF Call
  <2>2. ASSUME pc'[r] = "bootstrap.create", call'[r] = a PROVE Remembers(r)'
    BY <2>2 DEF Remembers, Started, Found, Arguments, SignupAt, BootstrapAt, SaveAt, LogoAt, ApproveAt,
                DeleteAt, JobAt, OnCompany
  <2> HIDE DEF a
  <2> QED
    BY <1>0, <1>2, <2>1, <2>2, Enters DEF Waiting, PCs, Born, Results
<1> QED
  BY <1>1, <1>2 DEF Bootstrap

LEMMA LoginArrives ==
  ASSUME IInv, Watch, NEW r \in Requests, NEW u \in DOMAIN user, Login(r, u) PROVE IInv'
<1>1. SideTablesOK' /\ UNCHANGED <<user, company, approvals>>
  BY Types DEF IInv, Login, SideTablesOK
<1>2. PICK result \in Results : Return(r, result)
  BY DEF Login, Results
<1> QED
  BY <1>1, <1>2, ReturnOK

\* A company saves its profile, or uploads or deletes its logo.
LEMMA CompanyArrives ==
  ASSUME IInv, Watch, NEW r \in Requests, NEW u \in sessions, UNCHANGED tables,
         NEW a \in Call, a.op \in {"save", "uploadLogo", "deleteLogo"}, a.user = u, a.late = WasDeleted(u),
         NEW where \in {"save.update", "save.slug", "logo.put", "logo.read", "logo.remove"},
         where \in SaveAt <=> a.op = "save",
         where = "save.update" => HasProfile(u),
         Enter(r, where, a)
  PROVE  IInv'
<1>1. u \in DOMAIN user
  BY SessionsAreUsers
<1>2. where = "save.update" => u \in DOMAIN company /\ ~WasDeleted(u)
  BY DEF HasProfile, ActiveCompanies, WasDeleted
<1>3. ASSUME pc'[r] = where, call'[r] = a PROVE Remembers(r)'
  <2>1. user' = user /\ company' = company
    BY DEF tables
  <2>2. Started(r)'
    BY <1>1, <1>3, <2>1
    DEF Started, SignupAt, BootstrapAt, SaveAt, LogoAt, ApproveAt, DeleteAt, JobAt
  <2>3. Subject(a) = u
    BY DEF Subject
  <2>4. Found(r)'
    BY <1>2, <1>3, <2>1, <2>3 DEF Found, OnCompany, DeleteAt, WasDeleted
  <2> QED
    BY <2>2, <2>4 DEF Remembers
<1>4. where \in Waiting
  BY DEF Waiting, PCs, Born, Results
<1> QED
  BY <1>3, <1>4, Enters

LEMMA SaveArrives ==
  ASSUME IInv, Watch, NEW r \in Requests, NEW u \in sessions, NEW complete \in BOOLEAN, Save(r, u, complete)
  PROVE  IInv'
<1> DEFINE where == IF HasProfile(u) THEN "save.update" ELSE "save.slug"
           a == [Arguments("save", u) EXCEPT !.complete = complete, !.late = WasDeleted(u)]
<1>1. UNCHANGED tables /\ Enter(r, where, a)
  BY DEF Save
<1>2. Arguments("save", u) \in Call /\ WasDeleted(u) \in BOOLEAN
  BY SessionsAreUsers, ArgumentsTyped DEF Ops, WasDeleted
<1>3. a \in Call
  BY <1>2 DEF Call
<1>4. a.op = "save" /\ a.user = u /\ a.late = WasDeleted(u)
  BY DEF Arguments
<1>5. where \in {"save.update", "save.slug"} /\ (where = "save.update" => HasProfile(u))
  OBVIOUS
<1> HIDE DEF where, a
<1> QED
  BY <1>1, <1>3, <1>4, <1>5, CompanyArrives DEF SaveAt

\* The key that the row of a company names.
LEMMA LogoTyped == ASSUME IInv, NEW u PROVE LogoOf(u) \in Ids \union {None}
<1>1. ASSUME HasProfile(u) PROVE company[u].logo \in Ids \union {None}
  <2>1. company[u] \in CompanyProfile
    BY <1>1, Types DEF IInv, HasProfile, ActiveCompanies, CompaniesOK
  <2> QED
    BY <2>1 DEF CompanyProfile
<1> QED
  BY <1>1 DEF LogoOf

LEMMA LogoArrives ==
  ASSUME IInv, Watch, NEW r \in Requests, NEW u \in sessions, UploadLogo(r, u) \/ DeleteLogo(r, u)
  PROVE  IInv'
<1> DEFINE args(op) == [Arguments(op, u) EXCEPT !.old = LogoOf(u), !.late = WasDeleted(u)]
<1>1. UNCHANGED tables
  BY DEF UploadLogo, DeleteLogo
<1>2. ASSUME NEW op \in {"uploadLogo", "deleteLogo"}, NEW where \in {"logo.put", "logo.read", "logo.remove"},
             Enter(r, where, args(op))
      PROVE  IInv'
  <2> DEFINE a == args(op)
  <2>1. Arguments(op, u) \in Call /\ WasDeleted(u) \in BOOLEAN /\ LogoOf(u) \in Ids \union {None}
    BY SessionsAreUsers, ArgumentsTyped, LogoTyped DEF Ops, WasDeleted
  <2>2. a \in Call
    BY <2>1 DEF Call
  <2>3. a.op = op /\ a.user = u /\ a.late = WasDeleted(u)
    BY DEF Arguments
  <2>4. where \notin SaveAt
    BY DEF SaveAt
  <2>5. Enter(r, where, a)
    BY <1>2
  <2> HIDE DEF a
  <2> QED
    BY <1>1, <2>2, <2>3, <2>4, <2>5, CompanyArrives
<1>3. CASE Return(r, "refused")
  BY <1>1, <1>3, Answers DEF Results
<1> QED
  BY <1>2, <1>3 DEF UploadLogo, DeleteLogo

\* An admin's request enters, or is refused.
LEMMA AdminArrives ==
  ASSUME IInv, Watch, NEW r \in Requests, NEW a \in sessions, NEW args \in Call,
         NEW where \in {"approve.read", "delete.read", "diagnostic.send"}, Administer(r, a, where, args),
         args.user = a,
         where = "approve.read" =>
           args.op = "approve" /\ args.target \in DOMAIN company /\ args.status \in CompanyApprovalStatus,
         where = "delete.read" =>
           /\ args.op \in {"deleteCompany", "deleteStudent"}
           /\ args.target \in IF args.op = "deleteCompany" THEN DOMAIN company ELSE DOMAIN user,
         where = "diagnostic.send" => args.op = "diagnostic",
         args.op \in {"approve", "deleteCompany"} /\ args.late => company[args.target].deleted,
         args.op = "deleteStudent" /\ args.late => user[args.target].deleted
  PROVE  IInv'
<1>0. UNCHANGED tables
  BY DEF Administer
<1>1. CASE Return(r, "refused")
  BY <1>0, <1>1, Answers DEF Results
<1>2. CASE ensureAdmin(a) /\ Enter(r, where, args)
  <2>1. ASSUME pc'[r] = where, call'[r] = args PROVE Remembers(r)'
    <3>1. user' = user /\ company' = company
      BY <1>0 DEF tables
    <3>2. Started(r)'
      BY <1>2, <2>1, <3>1
      DEF Started, SignupAt, BootstrapAt, SaveAt, LogoAt, ApproveAt, DeleteAt, JobAt, ensureAdmin, ActiveUsers
    <3>3. Found(r)'
      BY <2>1, <3>1 DEF Found, Subject, OnCompany, DeleteAt
    <3> QED
      BY <3>2, <3>3 DEF Remembers
  <2>2. where \in Waiting
    BY DEF Waiting, PCs, Born, Results
  <2> QED
    BY <1>0, <1>2, <2>1, <2>2, Enters
<1> QED
  BY <1>1, <1>2 DEF Administer

LEMMA ModerationArrives ==
  ASSUME IInv, Watch, NEW r \in Requests, NEW a \in sessions,
         \/ \E c \in DOMAIN company, s \in CompanyApprovalStatus : Approve(r, a, c, s)
         \/ \E c \in DOMAIN company : DeleteCompany(r, a, c)
         \/ \E u \in DOMAIN user : DeleteStudent(r, a, u)
         \/ Diagnostic(r, a)
  PROVE  IInv'
<1>0. a \in Ids /\ DOMAIN company \subseteq Ids /\ DOMAIN user \subseteq Ids
  BY SessionsAreUsers, Types DEF IInv, CompaniesOK, UsersOK
<1>1. \A op \in Ops : Arguments(op, a) \in Call /\ Arguments(op, a).op = op /\ Arguments(op, a).user = a
  BY <1>0, ArgumentsTyped DEF Arguments
<1>2. ASSUME NEW c \in DOMAIN company, NEW s \in CompanyApprovalStatus, Approve(r, a, c, s) PROVE IInv'
  <2> DEFINE args == [Arguments("approve", a) EXCEPT !.target = c, !.status = s, !.late = company[c].deleted]
  <2>0. "approve" \in Ops /\ company[c].deleted \in BOOLEAN
    BY Types DEF Ops, IInv, CompaniesOK, CompanyProfile
  <2>1. args \in Call
    <3>1. Arguments("approve", a) \in Call
      BY <1>1, <2>0
    <3> QED
      BY <1>0, <2>0, <3>1 DEF Call
  <2>2. /\ args.op = "approve" /\ args.user = a /\ args.target = c
        /\ args.status = s /\ args.late = company[c].deleted
    BY <1>0 DEF Arguments
  <2>3. Administer(r, a, "approve.read", args)
    BY <1>2 DEF Approve
  <2> HIDE DEF args
  <2> QED
    BY <2>1, <2>2, <2>3, AdminArrives
<1>3. ASSUME NEW c \in DOMAIN company, DeleteCompany(r, a, c) PROVE IInv'
  <2> DEFINE args == [Arguments("deleteCompany", a) EXCEPT !.target = c, !.late = company[c].deleted]
  <2>0. "deleteCompany" \in Ops /\ company[c].deleted \in BOOLEAN
    BY Types DEF Ops, IInv, CompaniesOK, CompanyProfile
  <2>1. args \in Call
    <3>1. Arguments("deleteCompany", a) \in Call
      BY <1>1, <2>0
    <3> QED
      BY <1>0, <2>0, <3>1 DEF Call
  <2>2. args.op = "deleteCompany" /\ args.user = a /\ args.target = c /\ args.late = company[c].deleted
    BY <1>0 DEF Arguments
  <2>3. Administer(r, a, "delete.read", args)
    BY <1>3 DEF DeleteCompany
  <2> HIDE DEF args
  <2> QED
    BY <2>1, <2>2, <2>3, AdminArrives
<1>4. ASSUME NEW u \in DOMAIN user, DeleteStudent(r, a, u) PROVE IInv'
  <2> DEFINE args == [Arguments("deleteStudent", a) EXCEPT !.target = u, !.late = user[u].deleted]
  <2>0. "deleteStudent" \in Ops /\ user[u].deleted \in BOOLEAN
    BY Types DEF Ops, IInv, UsersOK, User
  <2>1. args \in Call
    <3>1. Arguments("deleteStudent", a) \in Call
      BY <1>1, <2>0
    <3> QED
      BY <1>0, <2>0, <3>1 DEF Call
  <2>2. args.op = "deleteStudent" /\ args.user = a /\ args.target = u /\ args.late = user[u].deleted
    BY <1>0 DEF Arguments
  <2>3. Administer(r, a, "delete.read", args)
    BY <1>4 DEF DeleteStudent
  <2> HIDE DEF args
  <2> QED
    BY <2>1, <2>2, <2>3, AdminArrives
<1>5. CASE Diagnostic(r, a)
  <2> DEFINE args == Arguments("diagnostic", a)
  <2>1. args \in Call /\ args.op = "diagnostic" /\ args.user = a
    BY <1>1 DEF Ops
  <2>2. Administer(r, a, "diagnostic.send", args)
    BY <1>5 DEF Diagnostic
  <2> HIDE DEF args
  <2> QED
    BY <2>1, <2>2, AdminArrives
<1> QED
  BY <1>2, <1>3, <1>4, <1>5

LEMMA BoardArrives ==
  ASSUME IInv, Watch, NEW r \in Requests, NEW u \in sessions, NEW j \in Jobs, SaveJob(r, u, j) \/ UnsaveJob(r, u, j)
  PROVE  IInv'
<1>0. UNCHANGED tables
  BY DEF SaveJob, UnsaveJob
<1>1. ASSUME NEW op \in {"saveJob", "unsaveJob"}, NEW where \in {"job.visible", "job.delete"},
             Enter(r, where, [Arguments(op, u) EXCEPT !.target = j])
      PROVE  IInv'
  <2> DEFINE a == [Arguments(op, u) EXCEPT !.target = j]
  <2>1. u \in DOMAIN user /\ u \in Ids
    BY SessionsAreUsers
  <2>2. Arguments(op, u) \in Call
    BY <2>1, ArgumentsTyped DEF Ops
  <2>3. a \in Call
    BY <2>2 DEF Call
  <2>4. a.op = op /\ a.user = u /\ a.target = j /\ a.late = FALSE
    BY DEF Arguments
  <2> HIDE DEF a
  <2>5. ASSUME pc'[r] = where, call'[r] = a PROVE Remembers(r)'
    <3>1. user' = user
      BY <1>0 DEF tables
    <3> QED
      BY <2>1, <2>4, <2>5, <3>1
      DEF Remembers, Started, Found, SignupAt, BootstrapAt, SaveAt, LogoAt, ApproveAt, DeleteAt, JobAt, OnCompany
  <2>6. where \in Waiting
    BY DEF Waiting, PCs, Born, Results
  <2> QED
    BY <1>0, <1>1, <2>3, <2>5, <2>6, Enters DEF a
<1>2. CASE Return(r, "refused")
  BY <1>0, <1>2, Answers DEF Results
<1> QED
  BY <1>1, <1>2 DEF SaveJob, UnsaveJob

\* Every arrival preserves the invariant.
LEMMA Arrivals ==
  ASSUME IInv, Watch, NEW r \in Requests, NEW op \in Ops, Arrive(r, op) PROVE IInv'
<1> QED
  BY SignupArrives, LoginArrives, BootstrapArrives, SaveArrives, LogoArrives, ModerationArrives, BoardArrives
  DEF Arrive

-----------------------------------------------------------------------------
(* Statements that leave users, companies and decisions alone              *)

\* A request under way is typed and in order.
LEMMA UnderWay ==
  ASSUME IInv, NEW r \in Requests, pc[r] \notin Results \union {"idle"}
  PROVE  Busy(r) /\ call[r] \in Call /\ Started(r) /\ Found(r)
<1> QED
  BY Types DEF IInv, Busy, CallOK, RequestsRemember, Remembers

LEMMA SideTablesKept == ASSUME IInv, UNCHANGED tables PROVE SideTablesOK'
<1> QED
  BY Types DEF IInv, tables, SideTablesOK

\* A request that goes on within its operation.
LEMMA StaysStarted ==
  ASSUME IInv, UNCHANGED <<user, company>>, NEW r \in Requests, pc[r] \notin Results \union {"idle"},
         \A f \in {"op", "user", "target", "email", "role", "status", "late"} : call'[r][f] = call[r][f],
         \E G \in {BootstrapAt, SaveAt, LogoAt, ApproveAt, DeleteAt, JobAt} : pc[r] \in G /\ pc'[r] \in G
  PROVE  Started(r)'
<1>1. Started(r)
  BY UnderWay
<1>2. /\ call'[r].op = call[r].op /\ call'[r].user = call[r].user /\ call'[r].target = call[r].target
      /\ call'[r].email = call[r].email /\ call'[r].role = call[r].role
      /\ call'[r].status = call[r].status /\ call'[r].late = call[r].late
  OBVIOUS
<1> QED
  BY <1>1, <1>2
  DEF Started, SignupAt, BootstrapAt, SaveAt, LogoAt, ApproveAt, DeleteAt, JobAt, ensureAdmin, ActiveUsers

\* Goto within one operation, to a statement that relies on nothing more.
LEMMA GoesOn ==
  ASSUME IInv, Watch, UNCHANGED <<user, company, approvals>>, SideTablesOK',
         NEW r \in Requests, pc[r] \in Waiting, NEW where \in Waiting, Goto(r, where),
         \E G \in {BootstrapAt, SaveAt, LogoAt, ApproveAt, DeleteAt, JobAt} : pc[r] \in G /\ where \in G,
         where \in OnCompany => Subject(call[r]) \in DOMAIN company /\ ~call[r].late,
         where = "delete.write" =>
           ~call[r].late /\ (call[r].op = "deleteStudent" => user[call[r].target].role = "STUDENT"),
         where \notin {"approve.commit", "delete.event"},
         where \in {"job.existing", "job.create"} => r \in shown'
  PROVE  IInv'
<1>1. pc[r] \notin Results \union {"idle"} /\ r \notin DOMAIN user
  BY NotBorn DEF Waiting, Born
<1>2. Busy(r) /\ Started(r) /\ Found(r)
  BY <1>1, UnderWay
<1>3. pc'[r] = where /\ call'[r] = call[r]
  BY Types DEF IInv, Goto
<1>4. Started(r)'
  BY <1>1, <1>3, StaysStarted
<1>5. Found(r)'
  <2>1. pc[r] \in DeleteAt \/ pc'[r] \notin DeleteAt
    BY <1>3 DEF BootstrapAt, SaveAt, LogoAt, ApproveAt, DeleteAt, JobAt
  <2> QED
    BY <1>2, <1>3, <2>1 DEF Found, Subject
<1> QED
  BY <1>1, <1>2, <1>4, <1>5, GoOn DEF Remembers

\* The search for a slug goes on, or ends.
LEMMA SearchSlugOK ==
  ASSUME IInv, Watch, NEW r \in Requests,
         NEW where \in {"save.create", "logo.create"}, SearchSlug(r, where),
         pc[r] = IF where = "save.create" THEN "save.slug" ELSE "logo.slug"
  PROVE  IInv'
<1>0. UNCHANGED tables /\ SideTablesOK' /\ UNCHANGED <<user, company, approvals>>
  BY SideTablesKept DEF SearchSlug, tables
<1>1. pc[r] \in Waiting /\ where \in Waiting
  BY DEF Waiting, PCs, Born, Results
<1>2. Busy(r) /\ call[r] \in Call /\ Started(r) /\ Found(r)
  BY UnderWay DEF Results
<1>3. CASE Goto(r, where)
  <2>1. \E G \in {BootstrapAt, SaveAt, LogoAt, ApproveAt, DeleteAt, JobAt} : pc[r] \in G /\ where \in G
    BY DEF SaveAt, LogoAt
  <2> QED
    BY <1>0, <1>1, <1>3, <2>1, GoesOn DEF OnCompany
<1>4. CASE Return(r, "threw")
  BY <1>0, <1>4, Answers DEF Results
<1>5. CASE call[r].slug # MaxCandidates /\ call' = [call EXCEPT ![r].slug = @ + 1] /\ UNCHANGED pc
  <2> DEFINE c == [call[r] EXCEPT !.slug = @ + 1]
  <2>1. c \in Call
    <3>1. call[r].slug \in 1..MaxCandidates
      BY <1>2 DEF Call, Slugs
    <3>2. call[r].slug + 1 \in 1..MaxCandidates
      BY <1>5, <3>1, BoundsAssumption
    <3> QED
      BY <1>2, <3>2 DEF Call, Slugs
  <2>2. \A f \in {"op", "user", "target", "email", "role", "status", "late", "seen"} : c[f] = call[r][f]
    BY <1>2 DEF Call
  <2>3. call' = [call EXCEPT ![r] = c] /\ pc' = [pc EXCEPT ![r] = pc[r]]
    BY <1>5, Types DEF IInv
  <2> HIDE DEF c
  <2>4. call'[r] = c /\ pc'[r] = pc[r]
    BY <2>3, Types DEF IInv
  <2>5. Started(r)'
    <3>1. \E G \in {BootstrapAt, SaveAt, LogoAt, ApproveAt, DeleteAt, JobAt} : pc[r] \in G /\ pc'[r] \in G
      BY <2>4 DEF SaveAt, LogoAt
    <3> QED
      BY <1>0, <2>2, <2>4, <3>1, StaysStarted DEF Results
  <2>6. Found(r)'
    <3>1. c.op = call[r].op /\ c.user = call[r].user /\ c.target = call[r].target /\ c.late = call[r].late
      BY <2>2
    <3> QED
      BY <1>0, <1>2, <2>4, <3>1 DEF Found, Subject, OnCompany, DeleteAt
  <2>7. r \notin DOMAIN user
    BY <1>1, NotBorn
  <2> QED
    BY <1>0, <1>1, <2>1, <2>3, <2>5, <2>6, <2>7, MoveOn DEF Remembers
<1> QED
  BY <1>3, <1>4, <1>5 DEF SearchSlug

LEMMA SignupStatements ==
  ASSUME IInv, Watch, NEW r \in Requests, SignupRecord(r) \/ SignupWelcome(r) \/ SignupSignIn(r) PROVE IInv'
<1> DEFINE At == {"signup.event", "signup.mail", "signup.signin"}
<1>1. pc[r] \in At /\ r \in DOMAIN user /\ r \in Ids
  BY DEF SignupRecord, SignupWelcome, SignupSignIn, IInv, Bookkeeping, Ids
<1>2. Busy(r) /\ call[r] \in Call /\ Started(r) /\ Found(r)
  BY <1>1, UnderWay DEF Results
<1>3. UNCHANGED <<user, company, approvals>>
  BY DEF SignupRecord, SignupWelcome, SignupSignIn
<1>4. ASSUME NEW where \in At, Goto(r, where), SideTablesOK' PROVE IInv'
  <2>1. OnlyCallOf(r) /\ pc'[r] = where /\ call'[r] = call[r]
    BY <1>4, Types DEF IInv, Goto, OnlyCallOf, PCs
  <2>2. CallOK(r)' /\ where \in Born
    BY <1>2, <2>1 DEF CallOK, Results, Born
  <2>3. Remembers(r)'
    BY <1>1, <1>2, <1>3, <2>1
    DEF Remembers, Started, Found, SignupAt, BootstrapAt, SaveAt, LogoAt, ApproveAt, DeleteAt, JobAt, OnCompany
  <2> QED
    BY <1>1, <1>3, <1>4, <2>1, <2>2, <2>3, SideStep
<1>5. CASE SignupRecord(r)
  <2>1. SideTablesOK'
    <3>1. SignupType(call[r].role) \in {"STUDENT_SIGNUP", "COMPANY_SIGNUP"}
      BY DEF SignupType
    <3> QED
      BY <1>1, <1>5, <3>1, Types DEF IInv, SignupRecord, SideTablesOK, Record, Event
  <2> QED
    BY <1>4, <1>5, <2>1 DEF SignupRecord
<1>6. CASE SignupWelcome(r)
  <2>1. SideTablesOK'
    BY <1>1, <1>6, Types DEF IInv, SignupWelcome, SideTablesOK, dispatchEmail, Mail
  <2> QED
    BY <1>4, <1>6, <2>1 DEF SignupWelcome
<1>7. CASE SignupSignIn(r)
  <2>1. SideTablesOK'
    BY <1>1, <1>7, Types DEF IInv, SignupSignIn, SideTablesOK
  <2>2. PICK result \in Results : Return(r, result)
    BY <1>7 DEF SignupSignIn, Results
  <2> QED
    BY <1>3, <2>1, <2>2, ReturnOK
<1> QED
  BY <1>5, <1>6, <1>7

LEMMA AccountRequery == ASSUME IInv, Watch, NEW r \in Requests, BootstrapRequery(r) PROVE IInv'
<1>1. UNCHANGED tables
  BY DEF BootstrapRequery
<1>2. PICK result \in Results : Return(r, result)
  BY DEF BootstrapRequery, Disambiguated, Results
<1> QED
  BY <1>1, <1>2, Answers

\* The report of a new profile, and the mails about it.
LEMMA SaveReports ==
  ASSUME IInv, Watch, NEW r \in Requests, SaveRecord(r) \/ SaveNotifyAdmins(r) PROVE IInv'
<1>1. pc[r] \in {"save.event", "save.mails"} /\ UNCHANGED <<user, company, approvals>>
  BY DEF SaveRecord, SaveNotifyAdmins
<1>2. Started(r) /\ Found(r)
  BY <1>1, UnderWay DEF Results
<1>3. call[r].user \in Ids /\ ActiveUsers \subseteq Ids
  BY <1>1, <1>2, Types DEF Started, SaveAt, IInv, UsersOK, ActiveUsers
<1>4. CASE SaveRecord(r)
  <2>1. SideTablesOK'
    BY <1>3, <1>4, Types DEF IInv, SaveRecord, SideTablesOK, Record, Event
  <2>2. "save.event" \in Waiting /\ "save.mails" \in Waiting /\ pc[r] = "save.event" /\ Goto(r, "save.mails")
    BY <1>4 DEF SaveRecord, Waiting, PCs, Born, Results
  <2>3. \E G \in {BootstrapAt, SaveAt, LogoAt, ApproveAt, DeleteAt, JobAt} : pc[r] \in G /\ "save.mails" \in G
    BY <2>2 DEF SaveAt
  <2>4. Subject(call[r]) \in DOMAIN company /\ ~call[r].late
    BY <1>2, <2>2 DEF Found, OnCompany
  <2> QED
    BY <1>1, <2>1, <2>2, <2>3, <2>4, GoesOn
<1>5. CASE SaveNotifyAdmins(r)
  <2>1. SideTablesOK'
    <3>1. {[template |-> "adminCompanyPending", to |-> u, by |-> r] :
             u \in {u \in ActiveUsers : user[u].role = "ADMIN"}} \subseteq Mail
      BY <1>3 DEF Mail
    <3> QED
      BY <1>5, <3>1, Types DEF IInv, SaveNotifyAdmins, SideTablesOK, dispatchEmail
  <2> QED
    BY <1>1, <1>5, <2>1, ReturnOK DEF SaveNotifyAdmins, Results
<1> QED
  BY <1>4, <1>5

\* The statements about logo files, and the read of the row.
LEMMA LogoFiles ==
  ASSUME IInv, Watch, NEW r \in Requests, LogoPut(r) \/ LogoRemove(r) \/ LogoRead(r) \/ LogoCleanup(r)
  PROVE  IInv'
<1>1. pc[r] \in {"logo.put", "logo.remove", "logo.read", "logo.cleanup"}
      /\ UNCHANGED <<user, company, approvals>>
  BY DEF LogoPut, LogoRemove, LogoRead, LogoCleanup, tables
<1>2. pc[r] \in Waiting
  BY <1>1 DEF Waiting, PCs, Born, Results
<1>3. Started(r) /\ Found(r)
  BY <1>1, UnderWay DEF Results
<1>4. SideTablesOK'
  <2>1. files' \subseteq Ids
    BY Types DEF IInv, SideTablesOK, LogoPut, LogoRemove, LogoRead, LogoCleanup, tables, Ids
  <2> QED
    BY <2>1, Types DEF IInv, SideTablesOK, LogoPut, LogoRemove, LogoRead, LogoCleanup, tables
<1>5. ASSUME NEW where \in {"logo.read", "logo.update", "logo.slug"}, Goto(r, where),
             where = "logo.update" => HasProfile(call[r].user)
      PROVE  IInv'
  <2>1. where \in Waiting
    BY DEF Waiting, PCs, Born, Results
  <2>2. \E G \in {BootstrapAt, SaveAt, LogoAt, ApproveAt, DeleteAt, JobAt} : pc[r] \in G /\ where \in G
    BY <1>1 DEF LogoAt
  <2>3. where \in OnCompany => Subject(call[r]) \in DOMAIN company /\ ~call[r].late
    BY <1>1, <1>3, <1>5 DEF Started, Found, Subject, LogoAt, OnCompany, HasProfile, ActiveCompanies
  <2> QED
    BY <1>1, <1>2, <1>4, <1>5, <2>1, <2>2, <2>3, GoesOn
<1>6. ASSUME NEW result \in Results, Return(r, result) PROVE IInv'
  BY <1>1, <1>4, <1>6, ReturnOK
<1> QED
  BY <1>5, <1>6 DEF LogoPut, LogoRemove, LogoRead, LogoCleanup, Results

\* The reads of an admin's request, and what it reports at its end.
LEMMA AdminReads ==
  ASSUME IInv, Watch, NEW r \in Requests, ApproveRead(r) \/ DeleteRead(r) PROVE IInv'
<1>0. UNCHANGED tables /\ SideTablesOK' /\ UNCHANGED <<user, company, approvals>>
  BY SideTablesKept DEF ApproveRead, DeleteRead, tables
<1>1. pc[r] \in {"approve.read", "delete.read"}
  BY DEF ApproveRead, DeleteRead
<1>2. pc[r] \in Waiting
  BY <1>1 DEF Waiting, PCs, Born, Results
<1>3. call[r] \in Call /\ Started(r) /\ Found(r)
  BY <1>1, UnderWay DEF Results
<1>4. ASSUME NEW result \in Results, Return(r, result) PROVE IInv'
  BY <1>0, <1>4, Answers
<1>5. CASE DeleteRead(r) /\ Deletable(call[r]) /\ Goto(r, "delete.write")
  <2>1. "delete.write" \in Waiting
    BY DEF Waiting, PCs, Born, Results
  <2>2. \E G \in {BootstrapAt, SaveAt, LogoAt, ApproveAt, DeleteAt, JobAt} : pc[r] \in G /\ "delete.write" \in G
    BY <1>5 DEF DeleteRead, DeleteAt
  <2>3. ~call[r].late /\ (call[r].op = "deleteStudent" => user[call[r].target].role = "STUDENT")
    BY <1>3, <1>5
    DEF DeleteRead, Deletable, Started, Found, Subject, DeleteAt, HasProfile, ActiveCompanies, ActiveUsers, Call
  <2> QED
    BY <1>0, <1>2, <1>5, <2>1, <2>2, <2>3, GoesOn DEF OnCompany
<1>6. CASE /\ ApproveRead(r)
           /\ HasProfile(call[r].target) /\ company[call[r].target].approval # call[r].status
           /\ pc' = [pc EXCEPT ![r] = "approve.commit"]
           /\ call' = [call EXCEPT ![r].seen = company[call[r].target].approval]
  <2> DEFINE t == call[r].target
             c == [call[r] EXCEPT !.seen = company[t].approval]
  <2>1. t \in DOMAIN company /\ ~company[t].deleted /\ pc[r] = "approve.read"
    BY <1>6 DEF ApproveRead, HasProfile, ActiveCompanies
  <2>2. company[t].approval \in CompanyApprovalStatus /\ t \in Ids
    <3>1. company[t] \in CompanyProfile /\ t \in Ids
      BY <2>1, Types DEF IInv, CompaniesOK, UsersOK
    <3> QED
      BY <3>1 DEF CompanyProfile
  <2>3. c \in Call
    BY <1>3, <2>2 DEF Call
  <2>4. \A f \in {"op", "user", "target", "email", "role", "status", "late"} : c[f] = call[r][f]
    BY <1>3 DEF Call
  <2>5. c.seen = company[t].approval
    BY <1>3 DEF Call
  <2>6. call' = [call EXCEPT ![r] = c]
    BY <1>6
  <2> HIDE DEF c
  <2>7. call'[r] = c /\ pc'[r] = "approve.commit"
    BY <1>6, <2>6, Types DEF IInv
  <2>8. Started(r)'
    <3>1. \E G \in {BootstrapAt, SaveAt, LogoAt, ApproveAt, DeleteAt, JobAt} : pc[r] \in G /\ pc'[r] \in G
      BY <2>1, <2>7 DEF ApproveAt
    <3> QED
      BY <1>0, <1>1, <2>4, <2>7, <3>1, StaysStarted DEF Results
  <2>9. Known(t, company[t].approval)
    <3>1. company[t].approval =
            IF approvals[t] = <<>> THEN "PENDING" ELSE approvals[t][Len(approvals[t])].to
      BY <2>1 DEF IInv, ApprovalsTell
    <3>2. approvals[t] \in Seq(ApprovalEvent)
      BY <2>2, Types DEF IInv
    <3>3. approvals[t] # <<>> => Len(approvals[t]) \in DOMAIN approvals[t]
      BY <3>2
    <3> QED
      BY <3>1, <3>3 DEF Known
  <2>10. Found(r)'
    <3>1. c.op = "approve" /\ c.op = call[r].op /\ c.target = t /\ c.late = call[r].late /\ c.status = call[r].status
      BY <1>3, <2>1, <2>4 DEF Started, ApproveAt
    <3>2. ~call[r].late
      BY <1>3, <2>1, <3>1 DEF Found, Subject, Call
    <3> QED
      BY <1>0, <1>6, <2>1, <2>2, <2>5, <2>7, <2>9, <3>1, <3>2 DEF Found, Subject, DeleteAt, OnCompany, Known
  <2>11. r \notin DOMAIN user /\ "approve.commit" \in Waiting
    BY <1>2, NotBorn DEF Waiting, PCs, Born, Results
  <2> QED
    BY <1>0, <1>6, <2>3, <2>6, <2>8, <2>10, <2>11, MoveOn DEF Remembers
<1> QED
  BY <1>4, <1>5, <1>6 DEF ApproveRead, DeleteRead, Results

LEMMA AdminReports ==
  ASSUME IInv, Watch, NEW r \in Requests, ApproveMail(r) \/ DeleteRecord(r) \/ DiagnosticSend(r) PROVE IInv'
<1>1. pc[r] \in {"approve.mail", "delete.event", "diagnostic.send"} /\ UNCHANGED <<user, company, approvals>>
  BY DEF ApproveMail, DeleteRecord, DiagnosticSend
<1>2. Started(r) /\ Found(r)
  BY <1>1, UnderWay DEF Results
<1>3. call[r].user \in Ids /\ (pc[r] \in {"approve.mail", "delete.event"} => call[r].target \in Ids)
  BY <1>1, <1>2, Types DEF Started, ApproveAt, DeleteAt, IInv, UsersOK, CompaniesOK, ensureAdmin, ActiveUsers
<1>4. SideTablesOK'
  <2>1. CASE ApproveMail(r)
    BY <1>3, <2>1, Types DEF IInv, ApproveMail, SideTablesOK, dispatchEmail, Mail
  <2>2. CASE DeleteRecord(r)
    <3>1. DeletionType(call[r].op) \in {"COMPANY_SOFT_DELETED", "STUDENT_SOFT_DELETED"}
      BY DEF DeletionType
    <3> QED
      BY <1>3, <2>2, <3>1, Types DEF IInv, DeleteRecord, SideTablesOK, Record, Event
  <2>3. CASE DiagnosticSend(r)
    BY <1>3, <2>3, Types DEF IInv, DiagnosticSend, SideTablesOK, dispatchEmail, Mail
  <2> QED
    BY <2>1, <2>2, <2>3
<1>5. PICK result \in Results : Return(r, result)
  BY DEF ApproveMail, DeleteRecord, DiagnosticSend, Results
<1> QED
  BY <1>1, <1>4, <1>5, ReturnOK

LEMMA BoardStatements == ASSUME IInv, Watch, NEW r \in Requests, AdvanceBoard(r) PROVE IInv'
<1>1. pc[r] \in JobAt /\ UNCHANGED <<user, company, approvals>>
  BY DEF AdvanceBoard, SaveJobGate, SaveJobExisting, SaveJobCreate, UnsaveJobDelete, JobAt, tables
<1>2. pc[r] \in Waiting
  BY <1>1 DEF JobAt, Waiting, PCs, Born, Results
<1>3. Started(r) /\ Found(r)
  BY <1>1, UnderWay DEF JobAt, Results
<1>4. call[r].user \in Ids /\ call[r].target \in Jobs
  BY <1>1, <1>3, Types DEF Started, IInv, UsersOK
<1>5. SideTablesOK'
  BY <1>4, Types
  DEF IInv, AdvanceBoard, SaveJobGate, SaveJobExisting, SaveJobCreate, UnsaveJobDelete, tables, SideTablesOK
<1>6. ASSUME NEW where \in {"job.existing", "job.create"}, Goto(r, where), r \in shown' PROVE IInv'
  <2>1. where \in Waiting
    BY DEF Waiting, PCs, Born, Results
  <2>2. \E G \in {BootstrapAt, SaveAt, LogoAt, ApproveAt, DeleteAt, JobAt} : pc[r] \in G /\ where \in G
    BY <1>1 DEF JobAt
  <2> QED
    BY <1>1, <1>2, <1>5, <1>6, <2>1, <2>2, GoesOn DEF OnCompany
<1>7. ASSUME NEW result \in Results, Return(r, result) PROVE IInv'
  BY <1>1, <1>5, <1>7, ReturnOK
<1>8. CASE SaveJobGate(r) /\ Savable(call[r].target) /\ Goto(r, "job.existing")
  <2>1. PubliclyVisible(call[r].target)'
    BY <1>8 DEF SaveJobGate, Savable, Goto, PubliclyVisible, ActiveCompanies, tables
  <2>2. r \in shown'
    BY <1>8, <2>1, Types DEF IInv, Watch, Goto
  <2> QED
    BY <1>6, <1>8, <2>2
<1>9. CASE SaveJobExisting(r) /\ Goto(r, "job.create")
  <2>1. r \in shown'
    BY <1>3, <1>9, Types DEF IInv, Watch, Goto, Found, SaveJobExisting
  <2> QED
    BY <1>6, <1>9, <2>1
<1> QED
  BY <1>7, <1>8, <1>9
  DEF AdvanceBoard, SaveJobGate, SaveJobExisting, SaveJobCreate, UnsaveJobDelete, Results

-----------------------------------------------------------------------------
(* Statements that write a user, a company or a decision                   *)

\* A step of r preserves the invariant as soon as the tables are in order, r is, and
\* nothing is undone on which the others rely.
LEMMA StepOK ==
  ASSUME IInv, Watch, Grows, SideTablesOK', UsersOK', CompaniesOK', (approvals \in [Ids -> Seq(ApprovalEvent)])',
         KeysUnique', ApprovalsTell', Bookkeeping',
         NEW r \in Requests, OnlyCallOf(r), CallOK(r)', (Busy(r) => Remembers(r))'
  PROVE  IInv'
<1>1. \A q \in Requests : CallOK(q)' /\ (Busy(q) => Remembers(q))'
  BY OthersRemember
<1>2. TypeOK'
  BY <1>1 DEF TypeOK, SideTablesOK, UsersOK, CompaniesOK, CallOK, OnlyCallOf
<1>3. RequestsRemember'
  BY <1>1 DEF RequestsRemember
<1> QED
  BY <1>2, <1>3 DEF IInv

\* A request inserts its user, whose address no active user has.
LEMMA UserInserted ==
  ASSUME IInv, Watch, NEW r \in Requests, pc[r] \in Waiting, NEW row \in User, ~EmailCollision(row.email),
         user' = Insert(row, r, user),
         UNCHANGED <<student, company, posting, saved, files, approvals, log, mails, sessions>>,
         OnlyCallOf(r), pc'[r] \in Born, CallOK(r)', (Busy(r) => Remembers(r))'
  PROVE  IInv'
<1>1. r \notin DOMAIN user /\ r \in Ids
  BY NotBorn DEF Ids
<1>2. /\ DOMAIN user' = DOMAIN user \union {r} /\ user'[r] = row
      /\ \A u \in DOMAIN user : user'[u] = user[u]
  BY <1>1 DEF Insert
<1>3. UsersOK'
  <2>1. user' \in [DOMAIN user' -> User]
    <3>1. user' = [x \in DOMAIN user \union {r} |-> IF x = r THEN row ELSE user[x]]
      BY DEF Insert
    <3> QED
      BY <1>2, <3>1, Types DEF IInv, UsersOK
  <2> QED
    BY <1>1, <1>2, <2>1, Types DEF IInv, UsersOK
<1>4. SideTablesOK' /\ CompaniesOK' /\ (approvals \in [Ids -> Seq(ApprovalEvent)])'
  BY <1>2, Types DEF IInv, SideTablesOK, CompaniesOK
<1>5. Grows
  BY <1>2 DEF Grows
<1>6. KeysUnique'
  BY <1>2 DEF IInv, KeysUnique, EmailCollision, ActiveUsers, ActiveCompanies
<1>7. ApprovalsTell'
  BY DEF IInv, ApprovalsTell
<1>8. Bookkeeping'
  BY <1>2 DEF IInv, Bookkeeping, OnlyCallOf
<1> QED
  BY <1>3, <1>4, <1>5, <1>6, <1>7, <1>8, StepOK

\* A sign-up or a bootstrap inserts its account, or the index refuses it.
LEMMA AccountCreates ==
  ASSUME IInv, Watch, NEW r \in Requests, SignupCreate(r) \/ BootstrapCreate(r) PROVE IInv'
<1>1. pc[r] \in {"signup.create", "bootstrap.create"}
  BY DEF SignupCreate, BootstrapCreate
<1>2. pc[r] \in Waiting
  BY <1>1 DEF Waiting, PCs, Born, Results
<1>3. call[r] \in Call /\ Started(r) /\ Found(r)
  BY <1>1, UnderWay DEF Results
<1>4. UNCHANGED <<student, company, posting, saved, files, approvals, log, mails, sessions>>
  BY DEF SignupCreate, BootstrapCreate
<1>5. CASE SignupCreate(r) /\ EmailCollision(call[r].email)
  BY <1>4, <1>5, Answers DEF SignupCreate, tables, Results
<1>6. CASE BootstrapCreate(r) /\ EmailCollision(call[r].email)
  <2>1. UNCHANGED tables /\ Goto(r, "bootstrap.requery") /\ UNCHANGED <<user, company, approvals>>
    BY <1>4, <1>6 DEF BootstrapCreate, tables
  <2>2. \E G \in {BootstrapAt, SaveAt, LogoAt, ApproveAt, DeleteAt, JobAt} :
          pc[r] \in G /\ "bootstrap.requery" \in G
    BY <1>6 DEF BootstrapCreate, BootstrapAt
  <2>3. "bootstrap.requery" \in Waiting /\ SideTablesOK'
    BY <2>1, SideTablesKept DEF Waiting, PCs, Born, Results
  <2> QED
    BY <1>2, <2>1, <2>2, <2>3, GoesOn DEF OnCompany
<1>7. CASE SignupCreate(r) /\ ~EmailCollision(call[r].email)
  <2> DEFINE row == NewUser(call[r].role, call[r].email)
  <2>1. user' = Insert(row, r, user) /\ Goto(r, "signup.event") /\ pc[r] = "signup.create"
    BY <1>7 DEF SignupCreate
  <2>2. row \in User /\ row.email = call[r].email
    BY <1>3, <2>1 DEF Started, SignupAt, NewUser, User, UserRole
  <2>3. OnlyCallOf(r) /\ pc'[r] = "signup.event" /\ call'[r] = call[r]
    BY <2>1, Types DEF IInv, Goto, OnlyCallOf, PCs
  <2>4. CallOK(r)' /\ pc'[r] \in Born
    BY <1>3, <2>3 DEF CallOK, Born, Results
  <2>5. Remembers(r)'
    BY <1>3, <2>1, <2>3
    DEF Remembers, Started, Found, SignupAt, BootstrapAt, SaveAt, LogoAt, ApproveAt, DeleteAt, JobAt, OnCompany
  <2> HIDE DEF row
  <2> QED
    BY <1>2, <1>4, <1>7, <2>1, <2>2, <2>3, <2>4, <2>5, UserInserted
<1>8. CASE BootstrapCreate(r) /\ ~EmailCollision(call[r].email)
  <2> DEFINE row == NewUser("ADMIN", call[r].email)
  <2>1. user' = Insert(row, r, user) /\ Return(r, "ok") /\ pc[r] = "bootstrap.create"
    BY <1>8 DEF BootstrapCreate
  <2>2. row \in User /\ row.email = call[r].email
    BY <1>3, <2>1 DEF Started, BootstrapAt, NewUser, User, UserRole
  <2>3. OnlyCallOf(r) /\ pc'[r] = "ok" /\ call'[r] = NoCall
    BY <2>1, Types DEF IInv, Return, OnlyCallOf, PCs, Results
  <2>4. CallOK(r)' /\ pc'[r] \in Born /\ ~Busy(r)'
    BY <2>3 DEF CallOK, Born, Results, Busy
  <2> HIDE DEF row
  <2> QED
    BY <1>2, <1>4, <1>8, <2>1, <2>2, <2>3, <2>4, UserInserted
<1> QED
  BY <1>5, <1>6, <1>7, <1>8

\* A company profile is inserted, pending, with a slug of its own.
LEMMA CompanyInserted ==
  ASSUME IInv, Watch, NEW r \in Requests, pc[r] \in Waiting, NEW u \in DOMAIN user, NEW row \in CompanyProfile,
         ~row.deleted, row.approval = "PENDING", ~CompanyCollision(u, row.slug),
         company' = Insert(row, u, company),
         UNCHANGED <<user, student, posting, saved, files, approvals, log, mails, sessions>>,
         OnlyCallOf(r), pc'[r] \notin {"signup.event", "signup.mail", "signup.signin"},
         CallOK(r)', (Busy(r) => Remembers(r))'
  PROVE  IInv'
<1>1. u \notin DOMAIN company /\ u \in Ids /\ r \notin DOMAIN user
  BY Types, NotBorn DEF CompanyCollision, IInv, UsersOK
<1>2. /\ DOMAIN company' = DOMAIN company \union {u} /\ company'[u] = row
      /\ \A c \in DOMAIN company : company'[c] = company[c]
  BY <1>1 DEF Insert
<1>3. CompaniesOK'
  <2>1. company' = [x \in DOMAIN company \union {u} |-> IF x = u THEN row ELSE company[x]]
    BY DEF Insert
  <2> QED
    BY <1>2, <2>1, Types DEF IInv, CompaniesOK
<1>4. SideTablesOK' /\ UsersOK' /\ (approvals \in [Ids -> Seq(ApprovalEvent)])'
  BY Types DEF IInv, SideTablesOK, UsersOK
<1>5. Grows
  BY <1>2 DEF Grows
<1>6. KeysUnique'
  BY <1>2 DEF IInv, KeysUnique, CompanyCollision, SlugFree, ActiveUsers, ActiveCompanies
<1>7. ApprovalsTell'
  <2>1. approvals[u] = <<>>
    BY <1>1 DEF IInv, Bookkeeping
  <2> QED
    BY <1>2, <2>1 DEF IInv, ApprovalsTell
<1>8. Bookkeeping'
  BY <1>1, <1>2 DEF IInv, Bookkeeping, OnlyCallOf
<1> QED
  BY <1>3, <1>4, <1>5, <1>6, <1>7, <1>8, StepOK

\* An upload or a deletion of a logo is done, or removes the file that it replaced.
LEMMA AfterSetTyped ==
  ASSUME IInv, NEW r \in Requests, pc[r] \in LogoAt, AfterSet(r)
  PROVE  /\ OnlyCallOf(r) /\ CallOK(r)'
         /\ \/ pc'[r] = "logo.cleanup" /\ call'[r] = call[r]
            \/ pc'[r] = "ok"
<1>1. call[r] \in Call
  BY UnderWay DEF LogoAt, Results
<1>2. CASE Goto(r, "logo.cleanup")
  <2>1. OnlyCallOf(r) /\ pc'[r] = "logo.cleanup" /\ call'[r] = call[r]
    BY <1>2, Types DEF IInv, Goto, OnlyCallOf, PCs
  <2> QED
    BY <1>1, <2>1 DEF CallOK, Results
<1>3. CASE Return(r, "ok")
  <2>1. OnlyCallOf(r) /\ pc'[r] = "ok" /\ call'[r] = NoCall
    BY <1>3, Types DEF IInv, Return, OnlyCallOf, PCs, Results
  <2> QED
    BY <2>1 DEF CallOK, Results
<1> QED
  BY <1>2, <1>3 DEF AfterSet

\* The first save of a company inserts its profile, retries or gives up.
LEMMA SaveCreates == ASSUME IInv, Watch, NEW r \in Requests, SaveCreate(r) PROVE IInv'
<1> DEFINE c == call[r]
<1>1. /\ pc[r] = "save.create"
      /\ UNCHANGED <<user, student, posting, saved, files, approvals, log, mails, sessions>>
  BY DEF SaveCreate
<1>2. pc[r] \in Waiting /\ pc[r] \notin Results \union {"idle"}
  BY <1>1 DEF Waiting, PCs, Born, Results
<1>3. c \in Call /\ Started(r) /\ Found(r)
  BY <1>2, UnderWay
<1>4. c.op = "save" /\ c.user \in DOMAIN user
  BY <1>1, <1>3 DEF Started, SaveAt
<1>5. CASE ~CompanyCollision(c.user, c.slug)
  <2> DEFINE row == NewCompany(c.slug, c.complete, None, "save")
  <2>1. company' = Insert(row, c.user, company) /\ Goto(r, "save.event")
    BY <1>5 DEF SaveCreate
  <2>2. row \in CompanyProfile /\ ~row.deleted /\ row.approval = "PENDING" /\ row.slug = c.slug
    BY <1>3 DEF NewCompany, CompanyProfile, Call, CompanyApprovalStatus
  <2>3. OnlyCallOf(r) /\ pc'[r] = "save.event" /\ call'[r] = call[r]
    BY <2>1, Types DEF IInv, Goto, OnlyCallOf, PCs
  <2>4. CallOK(r)'
    BY <1>3, <2>3 DEF CallOK, Results
  <2>5. ~c.late /\ Subject(c) = c.user
    BY <1>3, <1>4, <1>5 DEF Found, Subject, CompanyCollision, Call
  <2>6. c.user \in DOMAIN company'
    BY <2>1 DEF Insert
  <2>7. Remembers(r)'
    <3>1. Started(r)'
      BY <1>1, <1>4, <2>3
      DEF Started, SignupAt, BootstrapAt, SaveAt, LogoAt, ApproveAt, DeleteAt, JobAt
    <3>2. Found(r)'
      BY <2>3, <2>5, <2>6 DEF Found, Subject, DeleteAt
    <3> QED
      BY <3>1, <3>2 DEF Remembers
  <2> HIDE DEF row
  <2> QED
    BY <1>1, <1>2, <1>4, <1>5, <2>1, <2>2, <2>3, <2>4, <2>7, CompanyInserted
<1>6. CASE CompanyCollision(c.user, c.slug) /\ Return(r, "taken")
  BY <1>1, <1>6, Answers DEF SaveCreate, tables, Results
<1>7. CASE /\ CompanyCollision(c.user, c.slug) /\ ~SaveRetriesSpent(c.attempt + 1)
           /\ call' = [call EXCEPT ![r].slug = 1, ![r].attempt = @ + 1]
           /\ pc' = [pc EXCEPT ![r] = "save.slug"]
  <2> DEFINE d == [c EXCEPT !.slug = 1, !.attempt = @ + 1]
  <2>1. d \in Call
    <3>1. 1 \in Slugs
      BY BoundsAssumption DEF Slugs
    <3>2. c.attempt + 1 \in 0..(MaxRetries - 1)
      BY <1>3, <1>7, BoundsAssumption DEF SaveRetriesSpent, Call
    <3> QED
      BY <1>3, <3>1, <3>2 DEF Call
  <2>2. \A f \in {"op", "user", "target", "email", "role", "status", "late"} : d[f] = c[f]
    BY <1>3 DEF Call
  <2>3. call' = [call EXCEPT ![r] = d]
    BY <1>7
  <2>4. UNCHANGED <<user, company, approvals>> /\ SideTablesOK'
    BY <1>1, <1>7, SideTablesKept DEF SaveCreate, tables
  <2> HIDE DEF d
  <2>5. call'[r] = d /\ pc'[r] = "save.slug"
    BY <1>7, <2>3, Types DEF IInv
  <2>6. Started(r)'
    <3>1. \E G \in {BootstrapAt, SaveAt, LogoAt, ApproveAt, DeleteAt, JobAt} : pc[r] \in G /\ pc'[r] \in G
      BY <1>1, <2>5 DEF SaveAt
    <3> QED
      BY <1>2, <2>2, <2>4, <2>5, <3>1, StaysStarted
  <2>7. Found(r)'
    BY <1>3, <2>2, <2>4, <2>5 DEF Found, Subject, OnCompany, DeleteAt
  <2>8. r \notin DOMAIN user /\ "save.slug" \in Waiting
    BY <1>2, NotBorn DEF Waiting, PCs, Born, Results
  <2> QED
    BY <1>7, <2>1, <2>3, <2>4, <2>6, <2>7, <2>8, MoveOn DEF Remembers
<1> QED
  BY <1>5, <1>6, <1>7 DEF SaveCreate

\* A logo that comes first inserts a placeholder profile, or the index refuses it.
LEMMA LogoCreates == ASSUME IInv, Watch, NEW r \in Requests, LogoCreate(r) PROVE IInv'
<1> DEFINE c == call[r]
<1>1. /\ pc[r] = "logo.create"
      /\ UNCHANGED <<user, student, posting, saved, files, approvals, log, mails, sessions>>
  BY DEF LogoCreate
<1>2. pc[r] \in Waiting /\ pc[r] \notin Results \union {"idle"}
  BY <1>1 DEF Waiting, PCs, Born, Results
<1>3. c \in Call /\ Started(r) /\ Found(r)
  BY <1>2, UnderWay
<1>4. c.op \in {"uploadLogo", "deleteLogo"} /\ c.user \in DOMAIN user
  BY <1>1, <1>3 DEF Started, LogoAt
<1>5. CASE CompanyCollision(c.user, c.slug)
  BY <1>1, <1>5, Answers DEF LogoCreate, tables, Results
<1>6. CASE ~CompanyCollision(c.user, c.slug)
  <2> DEFINE row == NewCompany(c.slug, FALSE, NewKey(r), "logo")
  <2>1. company' = Insert(row, c.user, company) /\ AfterSet(r)
    BY <1>6 DEF LogoCreate
  <2>2. row \in CompanyProfile /\ ~row.deleted /\ row.approval = "PENDING" /\ row.slug = c.slug
    BY <1>3 DEF NewCompany, NewKey, CompanyProfile, Call, CompanyApprovalStatus, Ids
  <2>3. /\ OnlyCallOf(r) /\ CallOK(r)'
        /\ \/ pc'[r] = "logo.cleanup" /\ call'[r] = call[r]
           \/ pc'[r] = "ok"
    BY <1>1, <2>1, AfterSetTyped DEF LogoAt
  <2>4. ~c.late /\ Subject(c) = c.user
    BY <1>3, <1>4, <1>6 DEF Found, Subject, CompanyCollision, Call
  <2>5. c.user \in DOMAIN company'
    BY <2>1 DEF Insert
  <2>6. (Busy(r) => Remembers(r))'
    <3> SUFFICES ASSUME Busy(r)' PROVE Started(r)' /\ Found(r)'
      BY DEF Remembers
    <3>1. pc'[r] = "logo.cleanup" /\ call'[r] = call[r]
      BY <2>3 DEF Busy, Results
    <3>2. Started(r)'
      BY <1>1, <1>4, <3>1
      DEF Started, SignupAt, BootstrapAt, SaveAt, LogoAt, ApproveAt, DeleteAt, JobAt
    <3>3. Found(r)'
      BY <2>4, <2>5, <3>1 DEF Found, Subject, DeleteAt
    <3> QED
      BY <3>2, <3>3
  <2>7. pc'[r] \notin {"signup.event", "signup.mail", "signup.signin"}
    BY <2>3
  <2> HIDE DEF row
  <2> QED
    BY <1>1, <1>2, <1>4, <1>6, <2>1, <2>2, <2>3, <2>6, <2>7, CompanyInserted
<1> QED
  BY <1>5, <1>6

\* The row of a company is written: its slug stays, and a deleted one stays deleted.
LEMMA CompanyWritten ==
  ASSUME IInv, Watch, NEW r \in Requests, r \notin DOMAIN user, NEW t \in DOMAIN company, NEW row \in CompanyProfile,
         row.slug = company[t].slug, company[t].deleted => row.deleted,
         company' = [company EXCEPT ![t] = row], UNCHANGED user, SideTablesOK',
         (approvals \in [Ids -> Seq(ApprovalEvent)])', ApprovalsTell',
         \A d \in Ids \ {t} : approvals'[d] = approvals[d],
         \A m \in DOMAIN approvals[t] : m \in DOMAIN approvals'[t] /\ approvals'[t][m].to = approvals[t][m].to,
         OnlyCallOf(r), pc'[r] \notin {"signup.event", "signup.mail", "signup.signin"},
         CallOK(r)', (Busy(r) => Remembers(r))'
  PROVE  IInv'
<1>1. /\ DOMAIN company' = DOMAIN company /\ company'[t] = row
      /\ \A c \in DOMAIN company \ {t} : company'[c] = company[c]
  BY Types DEF IInv, CompaniesOK
<1>2. CompaniesOK' /\ UsersOK'
  BY <1>1, Types DEF IInv, CompaniesOK, UsersOK
<1>3. Grows
  BY <1>1 DEF Grows
<1>4. KeysUnique'
  BY <1>1 DEF IInv, KeysUnique, ActiveUsers, ActiveCompanies
<1>5. Bookkeeping'
  BY <1>1 DEF IInv, Bookkeeping, OnlyCallOf
<1> QED
  BY <1>2, <1>3, <1>4, <1>5, StepOK

\* A save or a logo is written to the profile that was found.
LEMMA CompanyUpdates ==
  ASSUME IInv, Watch, NEW r \in Requests, SaveUpdate(r) \/ LogoUpdate(r) PROVE IInv'
<1> DEFINE c == call[r]
           u == call[r].user
<1>1. /\ pc[r] \in {"save.update", "logo.update"}
      /\ UNCHANGED <<user, student, posting, saved, files, approvals, log, mails, sessions>>
  BY DEF SaveUpdate, LogoUpdate
<1>2. pc[r] \in Waiting /\ pc[r] \notin Results \union {"idle"}
  BY <1>1 DEF Waiting, PCs, Born, Results
<1>3. c \in Call /\ Started(r) /\ Found(r) /\ r \notin DOMAIN user
  BY <1>2, UnderWay, NotBorn
<1>4. u \in DOMAIN user /\ u \in DOMAIN company /\ Subject(c) = u /\ ~c.late /\ company[u] \in CompanyProfile
  <2>1. u \in DOMAIN user /\ Subject(c) = u
    BY <1>1, <1>3 DEF Started, SaveAt, LogoAt, Subject
  <2>2. Subject(c) \in DOMAIN company /\ ~c.late
    BY <1>1, <1>3 DEF Found, OnCompany
  <2> QED
    BY <2>1, <2>2, Types DEF IInv, CompaniesOK
<1>5. ASSUME NEW row \in CompanyProfile, company' = [company EXCEPT ![u] = row],
             row.slug = company[u].slug, row.approval = company[u].approval, row.deleted = company[u].deleted,
             OnlyCallOf(r), pc'[r] \notin {"signup.event", "signup.mail", "signup.signin"},
             CallOK(r)', (Busy(r) => Remembers(r))'
      PROVE  IInv'
  <2>1. DOMAIN company' = DOMAIN company /\ \A d \in DOMAIN company : company'[d].approval = company[d].approval
    BY <1>5, Types DEF IInv, CompaniesOK
  <2>2. ApprovalsTell'
    BY <1>1, <2>1 DEF IInv, ApprovalsTell
  <2>3. SideTablesOK' /\ (approvals \in [Ids -> Seq(ApprovalEvent)])'
    BY <1>1, Types DEF IInv, SideTablesOK
  <2> QED
    BY <1>1, <1>3, <1>4, <1>5, <2>2, <2>3, CompanyWritten
<1>6. CASE SaveUpdate(r)
  <2> DEFINE row == [company[u] EXCEPT !.complete = c.complete]
  <2>1. /\ row \in CompanyProfile /\ row.slug = company[u].slug
        /\ row.approval = company[u].approval /\ row.deleted = company[u].deleted
    BY <1>3, <1>4 DEF CompanyProfile, Call
  <2>2. company' = [company EXCEPT ![u] = row] /\ Return(r, "ok")
    BY <1>6 DEF SaveUpdate
  <2>3. OnlyCallOf(r) /\ pc'[r] = "ok" /\ call'[r] = NoCall
    BY <2>2, Types DEF IInv, Return, OnlyCallOf, PCs, Results
  <2>4. CallOK(r)' /\ ~Busy(r)'
    BY <2>3 DEF CallOK, Busy, Results
  <2> HIDE DEF row
  <2> QED
    BY <1>5, <2>1, <2>2, <2>3, <2>4
<1>7. CASE LogoUpdate(r)
  <2> DEFINE row == [company[u] EXCEPT !.logo = NewKey(r)]
  <2>1. /\ row \in CompanyProfile /\ row.slug = company[u].slug
        /\ row.approval = company[u].approval /\ row.deleted = company[u].deleted
    BY <1>4 DEF CompanyProfile, NewKey, Ids
  <2>2. company' = [company EXCEPT ![u] = row] /\ AfterSet(r) /\ pc[r] = "logo.update"
    BY <1>7 DEF LogoUpdate
  <2>3. /\ OnlyCallOf(r) /\ CallOK(r)'
        /\ \/ pc'[r] = "logo.cleanup" /\ call'[r] = call[r]
           \/ pc'[r] = "ok"
    BY <2>2, AfterSetTyped DEF LogoAt
  <2>4. DOMAIN company' = DOMAIN company
    BY <2>2, Types DEF IInv, CompaniesOK
  <2>5. (Busy(r) => Remembers(r))'
    <3> SUFFICES ASSUME Busy(r)' PROVE Started(r)' /\ Found(r)'
      BY DEF Remembers
    <3>1. pc'[r] = "logo.cleanup" /\ call'[r] = call[r]
      BY <2>3 DEF Busy, Results
    <3>2. Started(r)'
      BY <1>1, <1>3, <2>2, <3>1
      DEF Started, SignupAt, BootstrapAt, SaveAt, LogoAt, ApproveAt, DeleteAt, JobAt
    <3>3. Found(r)'
      BY <1>4, <2>4, <3>1 DEF Found, Subject, DeleteAt
    <3> QED
      BY <3>2, <3>3
  <2> HIDE DEF row
  <2> QED
    BY <1>5, <2>1, <2>2, <2>3, <2>5
<1> QED
  BY <1>6, <1>7

\* Every decision of the history h starts from PENDING or from what an earlier one left.
Follows(h) ==
  \A n \in DOMAIN h :
    /\ h[n].from # h[n].to
    /\ h[n].from = "PENDING" \/ \E m \in 1..(n - 1) : h[m].to = h[n].from

\* A history grows by a decision that starts from PENDING or from what one of it left.
LEMMA HistoryGrows ==
  ASSUME NEW old \in Seq(ApprovalEvent), Follows(old), NEW e \in ApprovalEvent, e.from # e.to,
         e.from = "PENDING" \/ \E m \in DOMAIN old : old[m].to = e.from
  PROVE  LET h == Append(old, e) IN
           /\ Follows(h) /\ h # <<>> /\ h[Len(h)] = e
           /\ \A m \in DOMAIN old : m \in DOMAIN h /\ h[m] = old[m]
<1> DEFINE h == Append(old, e)
<1>1. /\ Len(old) \in Nat /\ DOMAIN old = 1..Len(old) /\ DOMAIN h = 1..(Len(old) + 1)
      /\ Len(h) = Len(old) + 1 /\ h[Len(old) + 1] = e
      /\ \A m \in 1..Len(old) : h[m] = old[m]
  OBVIOUS
<1> HIDE DEF h
<1>2. ASSUME NEW n \in 1..Len(old)
      PROVE  h[n].from # h[n].to /\ (h[n].from = "PENDING" \/ \E m \in 1..(n - 1) : h[m].to = h[n].from)
  <2>1. old[n].from # old[n].to /\ (old[n].from = "PENDING" \/ \E m \in 1..(n - 1) : old[m].to = old[n].from)
    BY <1>1 DEF Follows
  <2>2. \A m \in 1..(n - 1) : m \in 1..Len(old)
    BY <1>1
  <2>3. h[n] = old[n]
    BY <1>1
  <2>4. \A m \in 1..(n - 1) : h[m] = old[m]
    BY <1>1, <2>2
  <2> QED
    BY <2>1, <2>3, <2>4
<1>3. e.from = "PENDING" \/ \E m \in 1..Len(old) : h[m].to = e.from
  BY <1>1
<1>4. \A n \in DOMAIN h : n \in 1..Len(old) \/ (n = Len(old) + 1 /\ n - 1 = Len(old))
  BY <1>1
<1>5. Follows(h)
  <2> SUFFICES ASSUME NEW n \in DOMAIN h
               PROVE  h[n].from # h[n].to /\ (h[n].from = "PENDING" \/ \E m \in 1..(n - 1) : h[m].to = h[n].from)
    BY DEF Follows
  <2>1. CASE n \in 1..Len(old)
    BY <1>2, <2>1
  <2>2. CASE n = Len(old) + 1 /\ n - 1 = Len(old)
    BY <1>1, <1>3, <2>2
  <2> QED
    BY <1>4, <2>1, <2>2
<1>6. h # <<>> /\ h[Len(h)] = e /\ \A m \in DOMAIN old : m \in DOMAIN h /\ h[m] = old[m]
  BY <1>1
<1> QED
  BY <1>5, <1>6 DEF h

\* A decision is written with its event.
LEMMA Decides == ASSUME IInv, Watch, NEW r \in Requests, ApproveCommit(r) PROVE IInv'
<1> DEFINE c == call[r]
           t == call[r].target
           e == ApprovalEventOf(c)
           row == [company[t] EXCEPT !.approval = c.status]
<1>1. /\ pc[r] = "approve.commit" /\ Goto(r, "approve.mail")
      /\ company' = [company EXCEPT ![t] = row]
      /\ approvals' = [approvals EXCEPT ![t] = Append(@, e)]
      /\ UNCHANGED <<user, student, posting, saved, files, log, mails, sessions>>
  BY DEF ApproveCommit
<1>2. pc[r] \in Waiting /\ pc[r] \notin Results \union {"idle"}
  BY <1>1 DEF Waiting, PCs, Born, Results
<1>3. c \in Call /\ Started(r) /\ Found(r) /\ r \notin DOMAIN user
  BY <1>2, UnderWay, NotBorn
<1>4. /\ c.op = "approve" /\ ensureAdmin(c.user) /\ c.status \in CompanyApprovalStatus
      /\ t \in DOMAIN company /\ Subject(c) = t /\ ~c.late
      /\ c.seen \in CompanyApprovalStatus /\ c.seen # c.status /\ Known(t, c.seen)
  BY <1>1, <1>3 DEF Started, Found, ApproveAt, OnCompany, Subject
<1>5. t \in Ids /\ c.user \in Ids /\ company[t] \in CompanyProfile
  BY <1>4, Types DEF IInv, CompaniesOK, UsersOK, ensureAdmin, ActiveUsers
<1>6. /\ row \in CompanyProfile /\ row.slug = company[t].slug /\ row.deleted = company[t].deleted
      /\ row.approval = c.status
  BY <1>4, <1>5 DEF CompanyProfile
<1>7. e \in ApprovalEvent /\ e.from = c.seen /\ e.to = c.status
  BY <1>4, <1>5 DEF ApprovalEventOf, ApprovalEvent
<1>8. approvals \in [Ids -> Seq(ApprovalEvent)] /\ approvals[t] \in Seq(ApprovalEvent)
  BY <1>5, Types DEF IInv
<1> HIDE DEF e, row
<1>9. /\ approvals' \in [Ids -> Seq(ApprovalEvent)]
      /\ \A d \in Ids \ {t} : approvals'[d] = approvals[d]
      /\ approvals'[t] = Append(approvals[t], e)
  BY <1>1, <1>5, <1>7, <1>8
<1>10. /\ Follows(approvals'[t]) /\ approvals'[t] # <<>> /\ approvals'[t][Len(approvals'[t])] = e
       /\ \A m \in DOMAIN approvals[t] : m \in DOMAIN approvals'[t] /\ approvals'[t][m] = approvals[t][m]
  <2>1. Follows(approvals[t])
    BY <1>5 DEF IInv, ApprovalsTell, Follows
  <2>2. e.from # e.to /\ (e.from = "PENDING" \/ \E m \in DOMAIN approvals[t] : approvals[t][m].to = e.from)
    BY <1>4, <1>7 DEF Known
  <2>3. approvals[t] \in Seq(ApprovalEvent) /\ e \in ApprovalEvent /\ approvals'[t] = Append(approvals[t], e)
    BY <1>7, <1>8, <1>9
  <2> QED
    BY <2>1, <2>2, <2>3, HistoryGrows
<1>11. ApprovalsTell'
  <2>1. /\ DOMAIN company' = DOMAIN company /\ company'[t] = row
        /\ \A d \in DOMAIN company \ {t} : company'[d] = company[d]
    BY <1>1, <1>4, Types DEF IInv, CompaniesOK
  <2>2. DOMAIN company \subseteq Ids
    BY Types DEF IInv, CompaniesOK, UsersOK
  <2>3. ASSUME NEW d \in DOMAIN company
        PROVE  company'[d].approval =
                 IF approvals'[d] = <<>> THEN "PENDING" ELSE approvals'[d][Len(approvals'[d])].to
    <3>1. CASE d = t
      BY <1>6, <1>7, <1>10, <2>1, <3>1
    <3>2. CASE d # t
      BY <1>9, <2>1, <2>2, <3>2 DEF IInv, ApprovalsTell
    <3> QED
      BY <3>1, <3>2
  <2>4. ASSUME NEW d \in Ids PROVE Follows(approvals'[d])
    <3>1. CASE d = t
      BY <1>10, <3>1
    <3>2. CASE d # t
      BY <1>9, <3>2 DEF IInv, ApprovalsTell, Follows
    <3> QED
      BY <3>1, <3>2
  <2> QED
    BY <2>1, <2>3, <2>4 DEF ApprovalsTell, Follows
<1>12. OnlyCallOf(r) /\ pc'[r] = "approve.mail" /\ call'[r] = call[r]
  BY <1>1, Types DEF IInv, Goto, OnlyCallOf, PCs
<1>13. CallOK(r)'
  BY <1>3, <1>12 DEF CallOK, Results
<1>14. Remembers(r)'
  <2>1. Started(r)'
    <3>1. t \in DOMAIN company' /\ ensureAdmin(c.user)'
      BY <1>1, <1>4, <1>12, Types DEF IInv, CompaniesOK, ensureAdmin, ActiveUsers
    <3> QED
      BY <1>1, <1>4, <1>12, <3>1
      DEF Started, SignupAt, BootstrapAt, SaveAt, LogoAt, ApproveAt, DeleteAt, JobAt, ensureAdmin, ActiveUsers
  <2>2. Found(r)'
    <3>1. t \in DOMAIN company'
      BY <1>1, <1>4, Types DEF IInv, CompaniesOK
    <3> QED
      BY <1>4, <1>12, <3>1 DEF Found, Subject, DeleteAt
  <2> QED
    BY <2>1, <2>2 DEF Remembers
<1>15. SideTablesOK'
  BY <1>1, Types DEF IInv, SideTablesOK
<1>16. \A m \in DOMAIN approvals[t] : m \in DOMAIN approvals'[t] /\ approvals'[t][m].to = approvals[t][m].to
  BY <1>10
<1> QED
  BY <1>1, <1>3, <1>4, <1>6, <1>9, <1>11, <1>12, <1>13, <1>14, <1>15, <1>16, CompanyWritten

\* A soft deletion is written to the row that was found.
LEMMA Deletes == ASSUME IInv, Watch, NEW r \in Requests, DeleteWrite(r) PROVE IInv'
<1> DEFINE c == call[r]
           t == call[r].target
<1>1. /\ pc[r] = "delete.write" /\ Goto(r, "delete.event")
      /\ UNCHANGED <<student, posting, saved, files, approvals, log, mails, sessions>>
  BY DEF DeleteWrite
<1>2. pc[r] \in Waiting /\ pc[r] \notin Results \union {"idle"}
  BY <1>1 DEF Waiting, PCs, Born, Results
<1>3. c \in Call /\ Started(r) /\ Found(r) /\ r \notin DOMAIN user
  BY <1>2, UnderWay, NotBorn
<1>4. /\ c.op \in {"deleteCompany", "deleteStudent"} /\ ensureAdmin(c.user) /\ ~c.late
      /\ t \in IF c.op = "deleteCompany" THEN DOMAIN company ELSE DOMAIN user
  BY <1>1, <1>3 DEF Started, Found, DeleteAt
<1>5. OnlyCallOf(r) /\ pc'[r] = "delete.event" /\ call'[r] = call[r]
  BY <1>1, Types DEF IInv, Goto, OnlyCallOf, PCs
<1>6. CallOK(r)' /\ pc'[r] \notin {"signup.event", "signup.mail", "signup.signin"}
  BY <1>3, <1>5 DEF CallOK, Results
<1>7. ASSUME ensureAdmin(c.user)', t \in IF c.op = "deleteCompany" THEN DOMAIN company' ELSE DOMAIN user'
      PROVE  Remembers(r)'
  <2>1. Started(r)'
    BY <1>1, <1>4, <1>5, <1>7
    DEF Started, SignupAt, BootstrapAt, SaveAt, LogoAt, ApproveAt, DeleteAt, JobAt, ensureAdmin, ActiveUsers
  <2>2. Found(r)'
    BY <1>4, <1>5 DEF Found, OnCompany
  <2> QED
    BY <2>1, <2>2 DEF Remembers
<1>8. CASE c.op = "deleteCompany"
  <2> DEFINE row == [company[t] EXCEPT !.deleted = TRUE]
  <2>1. company' = [company EXCEPT ![t] = row] /\ UNCHANGED user
    BY <1>8 DEF DeleteWrite
  <2>2. t \in DOMAIN company /\ company[t] \in CompanyProfile
    BY <1>4, <1>8, Types DEF IInv, CompaniesOK
  <2>3. row \in CompanyProfile /\ row.slug = company[t].slug /\ row.approval = company[t].approval /\ row.deleted
    BY <2>2 DEF CompanyProfile
  <2> HIDE DEF row
  <2>4. /\ DOMAIN company' = DOMAIN company
        /\ \A d \in DOMAIN company : company'[d].approval = company[d].approval
    BY <2>1, <2>2, <2>3, Types DEF IInv, CompaniesOK
  <2>5. ApprovalsTell'
    BY <1>1, <2>4 DEF IInv, ApprovalsTell
  <2>6. SideTablesOK' /\ (approvals \in [Ids -> Seq(ApprovalEvent)])'
    BY <1>1, <2>1, Types DEF IInv, SideTablesOK
  <2>7. Remembers(r)'
    <3>1. ensureAdmin(c.user)'
      BY <1>4, <1>5, <2>1 DEF ensureAdmin, ActiveUsers
    <3> QED
      BY <1>5, <1>7, <1>8, <2>2, <2>4, <3>1
  <2> QED
    BY <1>1, <1>3, <1>5, <1>6, <2>1, <2>2, <2>3, <2>5, <2>6, <2>7, CompanyWritten
<1>9. CASE c.op = "deleteStudent"
  <2> DEFINE row == [user[t] EXCEPT !.deleted = TRUE]
  <2>1. user' = [user EXCEPT ![t] = row] /\ UNCHANGED company
    BY <1>9 DEF DeleteWrite
  <2>2. t \in DOMAIN user /\ user[t] \in User /\ user[t].role = "STUDENT"
    BY <1>1, <1>3, <1>4, <1>9, Types DEF IInv, UsersOK, Found
  <2>3. row \in User /\ row.role = user[t].role /\ row.email = user[t].email /\ row.deleted
    BY <2>2 DEF User
  <2> HIDE DEF row
  <2>4. /\ DOMAIN user' = DOMAIN user /\ user'[t] = row
        /\ \A u \in DOMAIN user \ {t} : user'[u] = user[u]
    BY <2>1, <2>2, Types DEF IInv, UsersOK
  <2>5. UsersOK' /\ SideTablesOK' /\ CompaniesOK' /\ (approvals \in [Ids -> Seq(ApprovalEvent)])'
    BY <1>1, <2>1, <2>3, <2>4, Types DEF IInv, UsersOK, SideTablesOK, CompaniesOK
  <2>6. Grows
    BY <1>1, <2>1, <2>2, <2>3, <2>4 DEF Grows
  <2>7. KeysUnique' /\ ApprovalsTell'
    BY <1>1, <2>1, <2>3, <2>4 DEF IInv, KeysUnique, ApprovalsTell, ActiveUsers, ActiveCompanies
  <2>8. Bookkeeping'
    BY <1>1, <1>3, <1>5, <2>1, <2>4 DEF IInv, Bookkeeping, OnlyCallOf
  <2>9. Remembers(r)'
    <3>1. ensureAdmin(c.user)'
      <4>1. c.user \in DOMAIN user \ {t}
        BY <1>4, <2>2 DEF ensureAdmin, ActiveUsers
      <4> QED
        BY <1>4, <1>5, <2>4, <4>1 DEF ensureAdmin, ActiveUsers
    <3> QED
      BY <1>5, <1>7, <1>9, <2>2, <2>4, <3>1
  <2> QED
    BY <1>5, <1>6, <2>5, <2>6, <2>7, <2>8, <2>9, StepOK
<1> QED
  BY <1>4, <1>8, <1>9

\* Every statement of a request preserves the invariant.
LEMMA Advances == ASSUME IInv, Watch, NEW r \in Requests, Advance(r) PROVE IInv'
<1>1. CASE AdvanceAccount(r)
  BY <1>1, AccountCreates, SignupStatements, AccountRequery DEF AdvanceAccount
<1>2. CASE AdvanceCompany(r)
  <2>1. CASE SaveSearchSlug(r) \/ LogoSearchSlug(r)
    BY <2>1, SearchSlugOK DEF SaveSearchSlug, LogoSearchSlug
  <2>2. CASE SaveCreate(r) \/ LogoCreate(r)
    BY <2>2, SaveCreates, LogoCreates
  <2>3. CASE SaveUpdate(r) \/ LogoUpdate(r)
    BY <2>3, CompanyUpdates
  <2>4. CASE SaveRecord(r) \/ SaveNotifyAdmins(r)
    BY <2>4, SaveReports
  <2>5. CASE LogoPut(r) \/ LogoRemove(r) \/ LogoRead(r) \/ LogoCleanup(r)
    BY <2>5, LogoFiles
  <2> QED
    BY <1>2, <2>1, <2>2, <2>3, <2>4, <2>5 DEF AdvanceCompany
<1>3. CASE AdvanceAdministration(r)
  BY <1>3, AdminReads, AdminReports, Decides, Deletes DEF AdvanceAdministration
<1>4. CASE AdvanceBoard(r)
  BY <1>4, BoardStatements
<1> QED
  BY <1>1, <1>2, <1>3, <1>4 DEF Advance

\* A step that leaves the locals of the requests alone.
LEMMA QuietStep ==
  ASSUME IInv, SideTablesOK', UNCHANGED <<user, company, approvals, pc, call>>,
         Watch \/ UNCHANGED shown
  PROVE  IInv'
<1>1. \A r \in Requests : CallOK(r)'
  BY Types DEF IInv, CallOK
<1>2. UsersOK' /\ CompaniesOK' /\ (approvals \in [Ids -> Seq(ApprovalEvent)])'
      /\ pc' \in [Requests -> PCs] /\ DOMAIN call' = Requests
  BY Types DEF IInv, UsersOK, CompaniesOK
<1>3. TypeOK'
  BY <1>1, <1>2 DEF TypeOK, SideTablesOK, UsersOK, CompaniesOK, CallOK
<1>4. KeysUnique' /\ ApprovalsTell' /\ Bookkeeping'
  BY DEF IInv, KeysUnique, ApprovalsTell, Bookkeeping, ActiveUsers, ActiveCompanies
<1>5. RequestsRemember'
  <2> SUFFICES ASSUME NEW r \in Requests, Busy(r) PROVE Remembers(r)'
    BY DEF RequestsRemember, Busy
  <2>1. Started(r) /\ Found(r)
    BY DEF IInv, RequestsRemember, Remembers
  <2>2. Started(r)'
    BY <2>1 DEF Started, ensureAdmin, ActiveUsers
  <2>3. Found(r)'
    BY <2>1 DEF Found, Subject, Known, Watch
  <2> QED
    BY <2>2, <2>3 DEF Remembers
<1> QED
  BY <1>3, <1>4, <1>5 DEF IInv

LEMMA OthersStep == ASSUME IInv, Watch, OtherServices PROVE IInv'
<1>1. UNCHANGED <<user, company, approvals, pc, call>>
  BY DEF OtherServices, Logout, SaveStudentProfile, SetPosting
<1>2. ASSUME NEW u \in sessions, Logout(u) PROVE SideTablesOK'
  BY <1>2, Types DEF IInv, Logout, SideTablesOK
<1>3. ASSUME NEW u \in sessions, NEW complete \in BOOLEAN, SaveStudentProfile(u, complete) PROVE SideTablesOK'
  <2>1. u \in DOMAIN user
    BY SessionsAreUsers
  <2>2. student' = [x \in DOMAIN student \union {u} |-> IF x = u THEN [complete |-> complete] ELSE student[x]]
    BY <1>3 DEF SaveStudentProfile, Insert
  <2>3. [complete |-> complete] \in StudentProfile
    BY DEF StudentProfile
  <2>4. DOMAIN student \subseteq DOMAIN user /\ student \in [DOMAIN student -> StudentProfile]
    BY Types DEF IInv, SideTablesOK
  <2>5. DOMAIN student' \subseteq DOMAIN user /\ student' \in [DOMAIN student' -> StudentProfile]
    BY <2>1, <2>2, <2>3, <2>4
  <2> QED
    BY <1>3, <2>5, Types DEF IInv, SaveStudentProfile, SideTablesOK
<1>4. ASSUME NEW j \in Jobs, NEW row \in JobPosting, SetPosting(j, row) PROVE SideTablesOK'
  BY <1>4, Types DEF IInv, SetPosting, SideTablesOK
<1>5. SideTablesOK'
  BY <1>2, <1>3, <1>4 DEF OtherServices
<1> QED
  BY <1>1, <1>5, QuietStep

LEMMA StepIInv == IInv /\ [Next]_allvars => IInv'
<1> SUFFICES ASSUME IInv, [Next]_allvars PROVE IInv'
  OBVIOUS
<1>1. ASSUME Watch, NEW r \in Requests, Advance(r) \/ \E op \in Ops : Arrive(r, op) PROVE IInv'
  BY <1>1, Advances, Arrivals
<1>2. CASE OtherServices /\ Watch
  BY <1>2, OthersStep
<1>3. CASE UNCHANGED allvars
  <2>1. UNCHANGED tables /\ UNCHANGED <<user, company, approvals, pc, call, shown>>
    BY <1>3 DEF allvars, vars, tables
  <2> QED
    BY <2>1, SideTablesKept, QuietStep
<1> QED
  BY <1>1, <1>2, <1>3 DEF Next

-----------------------------------------------------------------------------
(* Theorems                                                                *)

\* The invariant holds in every behaviour.
THEOREM Invariance == Spec => []IInv
<1> QED
  BY InitIInv, StepIInv, PTL DEF Spec

\* The tables and the locals of the requests keep their types; the slugs that a search
\* tries and the attempts of a save stay within the bounds of their loops.
THEOREM TypeCorrect == Spec => []TypeOK
<1>1. IInv => TypeOK
  BY DEF IInv
<1> QED
  BY <1>1, Invariance, PTL

\* An address names one active account, a public URL one active company, whatever sign-ups,
\* bootstraps, first saves and placeholders race (auth-service.ts:32-48, company-service.ts:135-183).
THEOREM UniqueKeys == Spec => []KeysUnique
<1>1. IInv => KeysUnique
  BY DEF IInv
<1> QED
  BY <1>1, Invariance, PTL

\* The decisions about a company end in the status it has, and each starts from a status that
\* an earlier one left (admin-service.ts:70-97).
THEOREM DecisionsTold == Spec => []ApprovalsTell
<1>1. IInv => ApprovalsTell
  BY DEF IInv
<1> QED
  BY <1>1, Invariance, PTL

-----------------------------------------------------------------------------
(* Writes                                                                  *)

\* What WritesAreBacked says of a step.
Backed ==
  /\ \A c \in DOMAIN company' :
       c \notin DOMAIN company \/ company'[c] # company[c] =>
         \E r \in Requests : StepOf(r) /\ MayWrite(r, c)
  /\ \A c \in DOMAIN company : company'[c].slug = company[c].slug
  /\ \A u \in DOMAIN user : user'[u] # user[u] =>
       \E r \in Requests : StepOf(r) /\ call[r].op = "deleteStudent" /\ call[r].target = u
  /\ \A row \in saved' \ saved :
       \E r \in shown : StepOf(r) /\ <<call[r].user, call[r].target>> = row
  /\ log' # log \/ approvals' # approvals => \E r \in Requests : StepOf(r)
  /\ sessions' \ sessions \subseteq ActiveUsers

\* A step that only reads, mails or touches files.
LEMMA ReadBacked ==
  ASSUME UNCHANGED <<user, company, saved, log, approvals>>, sessions' \subseteq sessions \union ActiveUsers
  PROVE  Backed
<1> QED
  BY DEF Backed

LEMMA ArrivalBacked == ASSUME NEW r \in Requests, NEW op \in Ops, Arrive(r, op) PROVE Backed
<1>1. UNCHANGED <<user, company, saved, log, approvals>> /\ sessions' \subseteq sessions \union ActiveUsers
  <2>1. UNCHANGED tables => UNCHANGED <<user, company, saved, log, approvals>> /\ sessions' = sessions
    BY DEF tables
  <2>2. ASSUME NEW u \in DOMAIN user, Login(r, u)
        PROVE  UNCHANGED <<user, company, saved, log, approvals>> /\ sessions' \subseteq sessions \union ActiveUsers
    BY <2>2 DEF Login, Authenticates, findActiveUserByEmail
  <2>3. UNCHANGED tables \/ \E u \in DOMAIN user : Login(r, u)
    BY DEF Arrive, Signup, Bootstrap, Save, UploadLogo, DeleteLogo, Approve, DeleteCompany, DeleteStudent,
           Diagnostic, Administer, SaveJob, UnsaveJob
  <2> QED
    BY <2>1, <2>2, <2>3
<1> QED
  BY <1>1, ReadBacked

LEMMA AccountBacked == ASSUME IInv, NEW r \in Requests, AdvanceAccount(r) PROVE Backed
<1>1. CASE SignupCreate(r) \/ BootstrapCreate(r)
  <2>1. UNCHANGED <<company, saved, log, approvals, sessions>>
    BY <1>1 DEF SignupCreate, BootstrapCreate
  <2>2. r \notin DOMAIN user
    BY <1>1, NotBorn DEF SignupCreate, BootstrapCreate, Waiting, PCs, Born, Results
  <2>3. \A u \in DOMAIN user : user'[u] = user[u]
    BY <1>1, <2>2 DEF SignupCreate, BootstrapCreate, Insert
  <2> QED
    BY <2>1, <2>3 DEF Backed
<1>2. CASE SignupRecord(r)
  <2>1. StepOf(r)
    <3>1. Started(r) /\ pc[r] = "signup.event"
      BY <1>2, UnderWay DEF SignupRecord, Results
    <3>2. pc'[r] = "signup.mail"
      BY <1>2, Types DEF IInv, SignupRecord, Goto
    <3> QED
      BY <3>1, <3>2 DEF StepOf, Started, SignupAt
  <2> QED
    BY <1>2, <2>1 DEF SignupRecord, Backed
<1>3. CASE SignupWelcome(r) \/ SignupSignIn(r) \/ BootstrapRequery(r)
  <2>1. UNCHANGED <<user, company, saved, log, approvals>> /\ sessions' \subseteq sessions \union ActiveUsers
    BY <1>3 DEF SignupWelcome, SignupSignIn, BootstrapRequery, Authenticates, findActiveUserByEmail, tables
  <2> QED
    BY <2>1, ReadBacked
<1> QED
  BY <1>1, <1>2, <1>3 DEF AdvanceAccount

\* A step of a request that writes one company profile, its own.
LEMMA OwnRowBacked ==
  ASSUME NEW r \in Requests, NEW c, StepOf(r), MayWrite(r, c),
         UNCHANGED <<user, saved, log, sessions>>,
         DOMAIN company' \subseteq DOMAIN company \union {c},
         \A d \in DOMAIN company : company'[d].slug = company[d].slug /\ (d # c => company'[d] = company[d])
  PROVE  Backed
<1> QED
  BY DEF Backed

LEMMA CompanyBacked == ASSUME IInv, NEW r \in Requests, AdvanceCompany(r) PROVE Backed
<1> DEFINE u == call[r].user
<1>1. CASE \/ SaveSearchSlug(r) \/ LogoSearchSlug(r) \/ SaveNotifyAdmins(r)
           \/ LogoPut(r) \/ LogoRemove(r) \/ LogoRead(r) \/ LogoCleanup(r)
  <2>1. UNCHANGED <<user, company, saved, log, approvals, sessions>>
    BY <1>1 DEF SaveSearchSlug, LogoSearchSlug, SearchSlug, SaveNotifyAdmins, LogoPut, LogoRemove, LogoRead,
                LogoCleanup, tables
  <2> QED
    BY <2>1, ReadBacked
<1>2. CASE (SaveCreate(r) \/ LogoCreate(r)) /\ UNCHANGED company
  <2>1. UNCHANGED <<user, company, saved, log, approvals, sessions>>
    BY <1>2 DEF SaveCreate, LogoCreate
  <2> QED
    BY <2>1, ReadBacked
<1>3. CASE (SaveCreate(r) \/ LogoCreate(r)) /\ ~CompanyCollision(u, call[r].slug)
  <2>1. pc[r] \in {"save.create", "logo.create"} /\ Started(r) /\ Found(r) /\ call[r] \in Call
    BY <1>3, UnderWay DEF SaveCreate, LogoCreate, Results
  <2>2. call[r].op \in {"save", "uploadLogo", "deleteLogo"}
    BY <2>1 DEF Started, SaveAt, LogoAt
  <2>3. u \notin DOMAIN company /\ ~call[r].late
    BY <1>3, <2>1, <2>2 DEF CompanyCollision, Found, Subject, Call
  <2>4. pc'[r] # pc[r]
    BY <1>3, <2>1, Types DEF IInv, SaveCreate, LogoCreate, AfterSet, Goto, Return
  <2>5. DOMAIN company' = DOMAIN company \union {u} /\ \A d \in DOMAIN company : company'[d] = company[d]
    BY <1>3, <2>3 DEF SaveCreate, LogoCreate, Insert
  <2>6. UNCHANGED <<user, saved, log, sessions>>
    BY <1>3 DEF SaveCreate, LogoCreate
  <2> QED
    BY <2>2, <2>3, <2>4, <2>5, <2>6, OwnRowBacked DEF StepOf, MayWrite
<1>4. CASE SaveUpdate(r) \/ LogoUpdate(r)
  <2>1. pc[r] \in {"save.update", "logo.update"} /\ Started(r) /\ Found(r)
    BY <1>4, UnderWay DEF SaveUpdate, LogoUpdate, Results
  <2>2. call[r].op \in {"save", "uploadLogo", "deleteLogo"} /\ u \in DOMAIN company /\ ~call[r].late
    BY <2>1 DEF Started, Found, SaveAt, LogoAt, OnCompany, Subject
  <2>3. pc'[r] # pc[r]
    BY <1>4, <2>1, Types DEF IInv, SaveUpdate, LogoUpdate, AfterSet, Goto, Return
  <2>4. company[u] \in CompanyProfile /\ company \in [DOMAIN company -> CompanyProfile]
    BY <2>2, Types DEF IInv, CompaniesOK
  <2>5. /\ DOMAIN company' = DOMAIN company
        /\ \A d \in DOMAIN company : company'[d].slug = company[d].slug /\ (d # u => company'[d] = company[d])
    BY <1>4, <2>4 DEF SaveUpdate, LogoUpdate, CompanyProfile
  <2>6. UNCHANGED <<user, saved, log, sessions>>
    BY <1>4 DEF SaveUpdate, LogoUpdate
  <2> QED
    BY <2>2, <2>3, <2>5, <2>6, OwnRowBacked DEF StepOf, MayWrite
<1>5. CASE SaveRecord(r)
  <2>1. Found(r) /\ pc[r] = "save.event"
    BY <1>5, UnderWay DEF SaveRecord, Results
  <2>2. pc'[r] = "save.mails"
    BY <1>5, Types DEF IInv, SaveRecord, Goto
  <2>3. StepOf(r)
    BY <2>1, <2>2 DEF StepOf, Found, OnCompany
  <2> QED
    BY <1>5, <2>3 DEF SaveRecord, Backed
<1> QED
  BY <1>1, <1>2, <1>3, <1>4, <1>5 DEF AdvanceCompany, SaveCreate, LogoCreate

LEMMA AdministrationBacked == ASSUME IInv, NEW r \in Requests, AdvanceAdministration(r) PROVE Backed
<1> DEFINE c == call[r]
           t == call[r].target
<1>1. CASE ApproveRead(r) \/ ApproveMail(r) \/ DeleteRead(r) \/ DiagnosticSend(r)
  <2>1. UNCHANGED <<user, company, saved, log, approvals, sessions>>
    BY <1>1 DEF ApproveRead, ApproveMail, DeleteRead, DiagnosticSend, tables
  <2> QED
    BY <2>1, ReadBacked
<1>2. CASE ApproveCommit(r)
  <2>1. pc[r] = "approve.commit" /\ Started(r) /\ Found(r)
    BY <1>2, UnderWay DEF ApproveCommit, Results
  <2>2. StepOf(r) /\ MayWrite(r, t)
    <3>1. pc'[r] = "approve.mail"
      BY <1>2, Types DEF IInv, ApproveCommit, Goto
    <3> QED
      BY <2>1, <3>1 DEF Started, Found, ApproveAt, OnCompany, StepOf, MayWrite
  <2>3. company \in [DOMAIN company -> CompanyProfile]
    BY Types DEF IInv, CompaniesOK
  <2>4. /\ DOMAIN company' = DOMAIN company
        /\ \A d \in DOMAIN company : company'[d].slug = company[d].slug /\ (d # t => company'[d] = company[d])
    BY <1>2, <2>3 DEF ApproveCommit, CompanyProfile
  <2>5. UNCHANGED <<user, saved, log, sessions>>
    BY <1>2 DEF ApproveCommit
  <2> QED
    BY <2>2, <2>4, <2>5, OwnRowBacked
<1>3. CASE DeleteWrite(r)
  <2>1. pc[r] = "delete.write" /\ Started(r) /\ Found(r)
    BY <1>3, UnderWay DEF DeleteWrite, Results
  <2>2. StepOf(r) /\ c.op \in {"deleteCompany", "deleteStudent"} /\ ensureAdmin(c.user)
    <3>1. pc'[r] = "delete.event"
      BY <1>3, Types DEF IInv, DeleteWrite, Goto
    <3> QED
      BY <2>1, <3>1 DEF Started, Found, DeleteAt, StepOf
  <2>3. UNCHANGED <<saved, log, approvals, sessions>>
    BY <1>3 DEF DeleteWrite
  <2>4. CASE c.op = "deleteCompany"
    <3>1. company \in [DOMAIN company -> CompanyProfile] /\ UNCHANGED user
      BY <1>3, <2>4, Types DEF IInv, CompaniesOK, DeleteWrite
    <3>2. /\ DOMAIN company' = DOMAIN company
          /\ \A d \in DOMAIN company : company'[d].slug = company[d].slug /\ (d # t => company'[d] = company[d])
      BY <1>3, <2>4, <3>1 DEF DeleteWrite, CompanyProfile
    <3> QED
      BY <2>2, <2>3, <2>4, <3>1, <3>2, OwnRowBacked DEF MayWrite
  <2>5. CASE c.op = "deleteStudent"
    <3>1. UNCHANGED company /\ \A u \in DOMAIN user : u # t => user'[u] = user[u]
      BY <1>3, <2>5, Types DEF IInv, UsersOK, DeleteWrite
    <3> QED
      BY <2>2, <2>3, <2>5, <3>1 DEF Backed
  <2> QED
    BY <2>2, <2>4, <2>5
<1>4. CASE DeleteRecord(r)
  <2>1. pc[r] = "delete.event" /\ Found(r)
    BY <1>4, UnderWay DEF DeleteRecord, Results
  <2>2. pc'[r] = "ok"
    BY <1>4, Types DEF IInv, DeleteRecord, Return
  <2>3. StepOf(r)
    BY <2>1, <2>2 DEF StepOf, Found
  <2> QED
    BY <1>4, <2>3 DEF DeleteRecord, Backed
<1> QED
  BY <1>1, <1>2, <1>3, <1>4 DEF AdvanceAdministration

LEMMA BoardBacked == ASSUME IInv, Watch, NEW r \in Requests, AdvanceBoard(r) PROVE Backed
<1>1. CASE SaveJobGate(r) \/ SaveJobExisting(r)
  <2>1. UNCHANGED <<user, company, saved, log, approvals, sessions>>
    BY <1>1 DEF SaveJobGate, SaveJobExisting, tables
  <2> QED
    BY <2>1, ReadBacked
<1>2. CASE SaveJobCreate(r)
  <2>1. pc[r] = "job.create" /\ Started(r) /\ Found(r)
    BY <1>2, UnderWay DEF SaveJobCreate, Results
  <2>2. r \in shown /\ ~call[r].late
    BY <2>1 DEF Started, Found, JobAt
  <2>3. pc'[r] # pc[r]
    BY <1>2, <2>1, Types DEF IInv, SaveJobCreate, Return
  <2>4. saved' \ saved \subseteq {<<call[r].user, call[r].target>>}
    BY <1>2 DEF SaveJobCreate
  <2> QED
    BY <1>2, <2>2, <2>3, <2>4 DEF SaveJobCreate, Backed, StepOf
<1>3. CASE UnsaveJobDelete(r)
  BY <1>3 DEF UnsaveJobDelete, Backed
<1> QED
  BY <1>1, <1>2, <1>3 DEF AdvanceBoard

LEMMA StepBacked == IInv /\ [Next]_allvars => [Backed]_allvars
<1> SUFFICES ASSUME IInv, Next PROVE Backed
  OBVIOUS
<1>1. ASSUME NEW r \in Requests, Advance(r) PROVE Backed
  BY <1>1, AccountBacked, CompanyBacked, AdministrationBacked, BoardBacked DEF Advance, Next
<1>2. ASSUME NEW r \in Requests, NEW op \in Ops, Arrive(r, op) PROVE Backed
  BY <1>2, ArrivalBacked
<1>3. CASE OtherServices
  <2>1. UNCHANGED <<user, company, saved, log, approvals>> /\ sessions' \subseteq sessions
    BY <1>3 DEF OtherServices, Logout, SaveStudentProfile, SetPosting
  <2> QED
    BY <2>1, ReadBacked
<1> QED
  BY <1>1, <1>2, <1>3 DEF Next

\* No request writes a profile, an account or a report of what was deleted before it arrived,
\* moves a public URL, or signs a deleted account in, and a posting enters a saved list only if
\* it was public meanwhile (admin-repository.ts:139-152, saved-job-service.ts:42-62).
THEOREM BackedWrites == Spec => WritesAreBacked
<1>1. IInv /\ [Next]_allvars => [Backed]_allvars
  BY StepBacked
<1> QED
  BY <1>1, Invariance, PTL DEF Spec, WritesAreBacked, Backed

-----------------------------------------------------------------------------
(* What a step moves                                                       *)

Stepping(r) == Advance(r) \/ \E op \in Ops : Arrive(r, op)

\* A step of a request moves its own locals only.
LEMMA OneStep ==
  ASSUME IInv, Watch, NEW r \in Requests, Stepping(r)
  PROVE  IInv' /\ OnlyCallOf(r)
<1> USE DEF Goto, Return, Enter
<1> DEFINE Moves == /\ UNCHANGED pc \/ \E where : pc' = [pc EXCEPT ![r] = where]
                    /\ UNCHANGED call \/ \E c : call' = [call EXCEPT ![r] = c]
<1>1. Moves
  <2>1. CASE \E op \in Ops : Arrive(r, op)
    BY <2>1 DEF Arrive, Signup, Login, Bootstrap, Save, UploadLogo, DeleteLogo, Approve, DeleteCompany, DeleteStudent,
       Diagnostic, Administer, SaveJob, UnsaveJob
  <2>2. CASE AdvanceAccount(r)
    BY <2>2 DEF AdvanceAccount, SignupCreate, SignupRecord, SignupWelcome, SignupSignIn, BootstrapCreate,
       BootstrapRequery
  <2>3. CASE SaveSearchSlug(r) \/ SaveCreate(r) \/ SaveUpdate(r) \/ SaveRecord(r) \/ SaveNotifyAdmins(r)
    BY <2>3 DEF SaveSearchSlug, SearchSlug, SaveCreate, SaveUpdate, SaveRecord, SaveNotifyAdmins
  <2>4. CASE LogoPut(r) \/ LogoRemove(r) \/ LogoRead(r) \/ LogoSearchSlug(r) \/ LogoCreate(r) \/ LogoUpdate(r)
             \/ LogoCleanup(r)
    BY <2>4 DEF LogoPut, LogoRemove, LogoRead, LogoSearchSlug, SearchSlug, LogoCreate, LogoUpdate, LogoCleanup, AfterSet
  <2>5. CASE AdvanceAdministration(r)
    BY <2>5 DEF AdvanceAdministration, ApproveRead, ApproveCommit, ApproveMail, DeleteRead, DeleteWrite, DeleteRecord,
       DiagnosticSend
  <2>6. CASE AdvanceBoard(r)
    BY <2>6 DEF AdvanceBoard, SaveJobGate, SaveJobExisting, SaveJobCreate, UnsaveJobDelete
  <2> HIDE DEF Moves
  <2> QED
    BY <2>1, <2>2, <2>3, <2>4, <2>5, <2>6 DEF Stepping, Advance, AdvanceCompany
<1>2. IInv'
  BY Advances, Arrivals DEF Stepping
<1>3. pc' \in [Requests -> PCs] /\ DOMAIN call' = Requests
  BY <1>2 DEF IInv, TypeOK
<1>4. DOMAIN pc = Requests /\ DOMAIN call = Requests
  BY Types DEF IInv
<1> QED
  BY <1>1, <1>2, <1>3, <1>4 DEF OnlyCallOf

\* An arrival is an answer, or the first statement of an operation.
LEMMA ArrivalMoves ==
  ASSUME IInv, NEW r \in Requests, NEW op \in Ops, Arrive(r, op)
  PROVE  /\ UNCHANGED <<user, company, files, approvals, log, mails>>
         /\ pc[r] = "idle"
         /\ pc'[r] \in Results \union {"signup.create", "bootstrap.create", "save.update", "save.slug", "logo.put",
                                      "logo.remove", "logo.read", "approve.read", "delete.read", "diagnostic.send",
                                      "job.visible", "job.delete"}
<1>1. /\ pc[r] = "idle" /\ pc \in [Requests -> PCs]
      /\ UNCHANGED <<user, company, files, approvals, log, mails>>
  BY Types DEF IInv, Arrive, Signup, Login, Bootstrap, Save, UploadLogo, DeleteLogo, Approve, DeleteCompany,
     DeleteStudent, Diagnostic, Administer, SaveJob, UnsaveJob, Enter, tables
<1>2. CASE op \in {"signup", "login", "bootstrap", "save"}
  BY <1>1, <1>2 DEF Arrive, Signup, Login, Bootstrap, Save, Enter, Return, Results, Disambiguated
<1>3. CASE op \in {"uploadLogo", "deleteLogo"}
  BY <1>1, <1>3 DEF Arrive, UploadLogo, DeleteLogo, Enter, Return, Results
<1>4. CASE op \notin {"signup", "login", "bootstrap", "save", "uploadLogo", "deleteLogo"}
  BY <1>1, <1>4 DEF Arrive, Approve, DeleteCompany, DeleteStudent, Diagnostic, Administer, SaveJob, UnsaveJob, Enter,
     Return, Results
<1> QED
  BY <1>1, <1>2, <1>3, <1>4

\* Rows stay, with what does not change of them, and are deleted for good.
LEMMA RowsStay ==
  ASSUME IInv, NEW r \in Requests, Stepping(r)
  PROVE  /\ \A c \in DOMAIN company :
              /\ c \in DOMAIN company'
              /\ company'[c].slug = company[c].slug /\ company'[c].by = company[c].by
              /\ company[c].deleted => company'[c].deleted
         /\ \A u \in DOMAIN user :
              /\ u \in DOMAIN user'
              /\ user'[u].role = user[u].role
              /\ user[u].deleted => user'[u].deleted
<1>1. company \in [DOMAIN company -> CompanyProfile] /\ user \in [DOMAIN user -> User]
  BY Types DEF IInv, CompaniesOK, UsersOK
<1>2. CASE \E op \in Ops : Arrive(r, op)
  BY <1>2, ArrivalMoves
<1>3. CASE SignupCreate(r) \/ BootstrapCreate(r)
  <2>1. r \notin DOMAIN user
    BY <1>3, NotBorn DEF SignupCreate, BootstrapCreate, Waiting, PCs, Born, Results
  <2> QED
    BY <1>3, <2>1 DEF SignupCreate, BootstrapCreate, Insert
<1>4. CASE SignupRecord(r) \/ SignupWelcome(r) \/ SignupSignIn(r) \/ BootstrapRequery(r)
  BY <1>4 DEF SignupRecord, SignupWelcome, SignupSignIn, BootstrapRequery, tables
<1>5. CASE SaveCreate(r) \/ LogoCreate(r)
  <2>1. UNCHANGED user /\ (UNCHANGED company \/ ~CompanyCollision(call[r].user, call[r].slug))
    BY <1>5 DEF SaveCreate, LogoCreate
  <2> QED
    BY <1>5, <2>1 DEF SaveCreate, LogoCreate, Insert, CompanyCollision
<1>6. CASE SaveUpdate(r) \/ LogoUpdate(r)
  BY <1>1, <1>6 DEF SaveUpdate, LogoUpdate, CompanyProfile
<1>7. CASE \/ SaveSearchSlug(r) \/ SaveRecord(r) \/ SaveNotifyAdmins(r) \/ LogoPut(r) \/ LogoRemove(r)
           \/ LogoRead(r) \/ LogoSearchSlug(r) \/ LogoCleanup(r)
  BY <1>7 DEF SaveSearchSlug, SaveRecord, SaveNotifyAdmins, LogoPut, LogoRemove, LogoRead, LogoSearchSlug, LogoCleanup,
     SearchSlug, tables
<1>8. CASE ApproveCommit(r)
  BY <1>1, <1>8 DEF ApproveCommit, CompanyProfile
<1>9. CASE DeleteWrite(r)
  BY <1>1, <1>9 DEF DeleteWrite, CompanyProfile, User
<1>10. CASE ApproveRead(r) \/ ApproveMail(r) \/ DeleteRead(r) \/ DeleteRecord(r) \/ DiagnosticSend(r)
  BY <1>10 DEF ApproveRead, ApproveMail, DeleteRead, DeleteRecord, DiagnosticSend, tables
<1>11. CASE AdvanceBoard(r)
  BY <1>11 DEF AdvanceBoard, SaveJobGate, SaveJobExisting, SaveJobCreate, UnsaveJobDelete, tables
<1> QED
  BY <1>2, <1>3, <1>4, <1>5, <1>6, <1>7, <1>8, <1>9, <1>10, <1>11
  DEF Stepping, Advance, AdvanceAccount, AdvanceCompany, AdvanceAdministration

\* What the others do leaves the tables of users and companies, the files and the reports alone.
LEMMA OthersMove ==
  ASSUME OtherServices PROVE UNCHANGED <<user, company, files, log, mails, pc, call>>
<1> QED
  BY DEF OtherServices, Logout, SaveStudentProfile, SetPosting

-----------------------------------------------------------------------------
(* Logos                                                                   *)

\* Before an upload has set its key, that is before it begins or until it writes the row.
Uploading == {"logo.put", "logo.read", "logo.slug", "logo.create", "logo.update"}
Unset(r) == pc[r] = "idle" \/ (pc[r] \in Uploading /\ call[r].op = "uploadLogo")

\* Nobody knows the key of r yet.
Unknown(r) ==
  /\ \A c \in DOMAIN company : company[c].logo # r
  /\ \A q \in Requests : pc[q] \in LogoAt => call[q].old # r

\* Only the profile of the user names the file that r has found, and once r has replaced
\* it none does.
OldIsOwn(r) ==
  \A c \in DOMAIN company : company[c].logo = call[r].old => c = call[r].user /\ pc[r] # "logo.cleanup"

LogoStep(r) ==
  /\ pc[r] \in {"logo.put", "logo.cleanup"} => call[r].op = "uploadLogo"
  /\ pc[r] = "logo.remove" => call[r].op = "deleteLogo"
  /\ pc[r] \in Uploading \ {"logo.put"} /\ call[r].op = "uploadLogo" => r \in files

LogoInv ==
  /\ \A c, d \in DOMAIN company : company[c].logo = company[d].logo /\ company[c].logo # None => c = d
  /\ \A r \in Requests : (Unset(r) => Unknown(r)) /\ LogoStep(r)
  /\ \A r \in Requests : pc[r] \in LogoAt /\ call[r].old # None => OldIsOwn(r)
  /\ LogoDanglesOnlyInDelete

LEMMA InitLogo == Init => LogoInv
<1> SUFFICES ASSUME Init PROVE LogoInv
  OBVIOUS
<1>1. /\ \A c \in DOMAIN company : c \in Members /\ company[c].logo \in {None, c}
      /\ \A r \in Requests : pc[r] = "idle" /\ r \notin Members /\ r # None
  <2>1. DOMAIN company \subseteq DOMAIN user /\ DOMAIN user = Members
    BY InitIInv, Types DEF IInv, CompaniesOK, Init
  <2> QED
    BY <2>1, DistinctAssumption DEF Init
<1>2. LogoDanglesOnlyInDelete
  BY DEF Init, LogoDanglesOnlyInDelete, ActiveCompanies
<1> QED
  BY <1>1, <1>2 DEF LogoInv, Unset, Unknown, LogoStep, LogoAt, Uploading

\* A deletion of the logo of c has removed the file and not yet cleared the row.
Removing(r, c) ==
  /\ pc[r] \in {"logo.read", "logo.update"} /\ call[r].op = "deleteLogo"
  /\ call[r].user = c /\ call[r].old = company[c].logo

\* What a step of r may do to rows and files without leaving a row that dangles.
LEMMA LogoNext ==
  ASSUME IInv, LogoInv, NEW r \in Requests, OnlyCallOf(r), Unset(r)' => Unset(r), LogoStep(r)',
         files \ files' \subseteq {call[r].old}, files' # files => pc[r] \in LogoAt,
         \A c \in DOMAIN company' :
           \/ c \in DOMAIN company /\ company'[c].logo = company[c].logo
           \/ company'[c].logo = None
           \/ company'[c].logo = r /\ c = call[r].user /\ Unset(r) /\ ~Unset(r)' /\ r \in files',
         ActiveCompanies' \intersect DOMAIN company \subseteq ActiveCompanies,
         pc'[r] \in LogoAt => \/ pc[r] \in LogoAt /\ call'[r].old = call[r].old
                              \/ \E c \in DOMAIN company : call'[r].old = company[c].logo
                              \/ call'[r].old = None,
         pc'[r] \in LogoAt /\ call'[r].old # None => OldIsOwn(r)',
         \A c \in ActiveCompanies' \intersect DOMAIN company :
           /\ company'[c].logo = company[c].logo /\ company[c].logo # None
           /\ Removing(r, c) \/ company[c].logo \in files \ files'
           => Removing(r, c)'
  PROVE  LogoInv'
<1>1. \A q \in Requests \ {r} : pc'[q] = pc[q] /\ call'[q] = call[q]
  BY DEF OnlyCallOf
<1>2. \A q \in Requests : q # None
  BY DistinctAssumption
<1>3. \A c, d \in DOMAIN company' : company'[c].logo = company'[d].logo /\ company'[c].logo # None => c = d
  BY DEF LogoInv, Unknown
<1>4. \A q \in Requests : Unset(q)' => Unset(q)
  BY <1>1 DEF Unset
<1>5. ASSUME NEW q \in Requests, Unset(q)' PROVE Unknown(q)'
  <2>1. Unknown(q) /\ q # None
    BY <1>2, <1>4, <1>5 DEF LogoInv
  <2>2. \A c \in DOMAIN company' : company'[c].logo # q
    BY <1>5, <2>1 DEF Unknown
  <2>3. \A p \in Requests : pc'[p] \in LogoAt => call'[p].old # q
    BY <1>1, <2>1 DEF Unknown
  <2> QED
    BY <2>2, <2>3 DEF Unknown
<1>6. ASSUME NEW q \in Requests \ {r} PROVE LogoStep(q)'
  <2>1. LogoStep(q) /\ pc'[q] = pc[q] /\ call'[q] = call[q]
    BY <1>1, <1>6 DEF LogoInv
  <2>2. pc[q] \in Uploading \ {"logo.put"} /\ call[q].op = "uploadLogo" => q \in files'
    <3>1. SUFFICES ASSUME pc[q] \in Uploading \ {"logo.put"}, call[q].op = "uploadLogo", q \notin files'
                   PROVE  FALSE
      OBVIOUS
    <3>2. Unknown(q) /\ q \in files
      BY <2>1, <3>1 DEF LogoInv, Unset, LogoStep
    <3>3. q = call[r].old /\ q # None
      BY <1>2, <3>1, <3>2
    <3>4. pc[r] \in LogoAt
      BY <3>1, <3>2, <3>3 DEF LogoAt
    <3> QED
      BY <3>2, <3>3, <3>4 DEF Unknown
  <2> QED
    BY <2>1, <2>2 DEF LogoStep
<1>7. ASSUME NEW q \in Requests \ {r}, pc'[q] \in LogoAt, call'[q].old # None PROVE OldIsOwn(q)'
  <2>1. OldIsOwn(q) /\ pc[q] \in LogoAt /\ pc'[q] = pc[q] /\ call'[q] = call[q] /\ call[q].old # None
    BY <1>1, <1>7 DEF LogoInv
  <2>2. Unset(r) => call[q].old # r
    BY <2>1 DEF LogoInv, Unknown
  <2> QED
    BY <2>1, <2>2 DEF OldIsOwn
<1>8. ASSUME NEW c \in ActiveCompanies', company'[c].logo \notin files' \union {None}
      PROVE  \E q \in Requests : Removing(q, c)'
  <2>1. c \in DOMAIN company' /\ c \in DOMAIN company /\ company'[c].logo = company[c].logo
    BY <1>8 DEF ActiveCompanies
  <2>2. c \in ActiveCompanies
    BY <1>8, <2>1
  <2>3. CASE company[c].logo \in files
    BY <1>8, <2>1, <2>3
  <2>4. CASE company[c].logo \notin files
    <3>1. PICK q \in Requests : Removing(q, c)
      BY <1>8, <2>1, <2>2, <2>4 DEF LogoInv, LogoDanglesOnlyInDelete, Removing
    <3>2. CASE q = r
      BY <1>8, <2>1, <3>1, <3>2
    <3>3. CASE q # r
      BY <1>1, <2>1, <3>1, <3>3 DEF Removing
    <3> QED
      BY <3>2, <3>3
  <2> QED
    BY <2>3, <2>4
<1>9. LogoDanglesOnlyInDelete'
  BY <1>8 DEF LogoDanglesOnlyInDelete, Removing
<1> QED
  BY <1>3, <1>5, <1>6, <1>7, <1>9 DEF LogoInv

\* Steps of the requests that are not about logos: a row keeps its logo, a new one has none.
LEMMA LogoElsewhere ==
  ASSUME IInv, LogoInv, NEW r \in Requests, Stepping(r), OnlyCallOf(r), files' = files,
         pc[r] \notin LogoAt, pc'[r] \notin LogoAt \union {"idle"},
         \A c \in DOMAIN company' :
           company'[c].logo = None \/ (c \in DOMAIN company /\ company'[c].logo = company[c].logo)
  PROVE  LogoInv'
<1>1. ActiveCompanies' \intersect DOMAIN company \subseteq ActiveCompanies
  BY RowsStay DEF ActiveCompanies
<1>2. LogoStep(r)' /\ ~Unset(r)'
  BY DEF LogoStep, Unset, LogoAt, Uploading
<1>3. \A c : ~Removing(r, c)
  BY DEF Removing, LogoAt
<1> QED
  BY <1>1, <1>2, <1>3, LogoNext

LEMMA ElsewhereKeepsLogos ==
  ASSUME IInv, LogoInv, Watch, NEW r \in Requests,
         \/ AdvanceAccount(r) \/ AdvanceAdministration(r) \/ AdvanceBoard(r)
         \/ SaveSearchSlug(r) \/ SaveCreate(r) \/ SaveUpdate(r) \/ SaveRecord(r) \/ SaveNotifyAdmins(r)
  PROVE  LogoInv'
<1> USE DEF Goto, Return, Results, LogoAt
<1> DEFINE RowsKeepLogos == \A c \in DOMAIN company' :
      company'[c].logo = None \/ (c \in DOMAIN company /\ company'[c].logo = company[c].logo)
<1>1. Stepping(r) /\ OnlyCallOf(r)
  BY OneStep DEF Stepping, Advance, AdvanceCompany
<1>2. pc \in [Requests -> PCs] /\ company \in [DOMAIN company -> CompanyProfile]
  BY Types DEF IInv, CompaniesOK
<1>3. ASSUME files' = files, pc[r] \notin LogoAt, pc'[r] \notin LogoAt \union {"idle"}, RowsKeepLogos PROVE LogoInv'
  BY <1>1, <1>3, LogoElsewhere
<1>4. CASE AdvanceAccount(r)
  <2>1. files' = files /\ company' = company
    BY <1>4 DEF AdvanceAccount, SignupCreate, SignupRecord, SignupWelcome, SignupSignIn, BootstrapCreate,
       BootstrapRequery, tables
  <2>2. pc[r] \notin LogoAt /\ pc'[r] \notin LogoAt \union {"idle"}
    BY <1>2, <1>4 DEF AdvanceAccount, SignupCreate, SignupRecord, SignupWelcome, SignupSignIn, BootstrapCreate,
       BootstrapRequery, Disambiguated
  <2> QED
    BY <1>3, <2>1, <2>2
<1>5. CASE AdvanceAdministration(r)
  <2>1. files' = files /\ RowsKeepLogos
    BY <1>2, <1>5 DEF AdvanceAdministration, ApproveRead, ApproveCommit, ApproveMail, DeleteRead, DeleteWrite,
       DeleteRecord, DiagnosticSend, tables, CompanyProfile
  <2>2. pc[r] \notin LogoAt /\ pc'[r] \notin LogoAt \union {"idle"}
    BY <1>2, <1>5 DEF AdvanceAdministration, ApproveRead, ApproveCommit, ApproveMail, DeleteRead, DeleteWrite,
       DeleteRecord, DiagnosticSend
  <2> QED
    BY <1>3, <2>1, <2>2
<1>6. CASE AdvanceBoard(r)
  <2>1. files' = files /\ company' = company
    BY <1>6 DEF AdvanceBoard, SaveJobGate, SaveJobExisting, SaveJobCreate, UnsaveJobDelete, tables
  <2>2. pc[r] \notin LogoAt /\ pc'[r] \notin LogoAt \union {"idle"}
    BY <1>2, <1>6 DEF AdvanceBoard, SaveJobGate, SaveJobExisting, SaveJobCreate, UnsaveJobDelete
  <2> QED
    BY <1>3, <2>1, <2>2
<1>7. CASE SaveSearchSlug(r) \/ SaveRecord(r) \/ SaveNotifyAdmins(r)
  <2>1. files' = files /\ company' = company
    BY <1>7 DEF SaveSearchSlug, SearchSlug, SaveRecord, SaveNotifyAdmins, tables
  <2>2. pc[r] \notin LogoAt /\ pc'[r] \notin LogoAt \union {"idle"}
    BY <1>2, <1>7 DEF SaveSearchSlug, SearchSlug, SaveRecord, SaveNotifyAdmins
  <2> QED
    BY <1>3, <2>1, <2>2
<1>8. CASE SaveCreate(r) \/ SaveUpdate(r)
  <2>1. files' = files /\ RowsKeepLogos
    BY <1>2, <1>8 DEF SaveCreate, SaveUpdate, Insert, NewCompany, CompanyProfile
  <2>2. pc[r] \notin LogoAt /\ pc'[r] \notin LogoAt \union {"idle"}
    BY <1>2, <1>8 DEF SaveCreate, SaveUpdate
  <2> QED
    BY <1>3, <2>1, <2>2
<1> QED
  BY <1>4, <1>5, <1>6, <1>7, <1>8

\* What an upload or a deletion starts from.
LEMMA LogoArrivalFinds ==
  ASSUME IInv, LogoInv, NEW r \in Requests, NEW op \in Ops, Arrive(r, op), pc'[r] \in LogoAt
  PROVE  /\ call'[r].op = op /\ op \in {"uploadLogo", "deleteLogo"}
         /\ op = "uploadLogo" <=> pc'[r] = "logo.put"
         /\ pc'[r] = "logo.put" \/ pc'[r] = "logo.remove" \/ pc'[r] = "logo.read"
         /\ \/ call'[r].old = None
            \/ \E c \in DOMAIN company : call'[r].user = c /\ call'[r].old = company[c].logo
<1>1. pc \in [Requests -> PCs] /\ DOMAIN call = Requests
  BY Types DEF IInv
<1>2. op \in {"uploadLogo", "deleteLogo"}
  <2>1. CASE op \in {"signup", "login", "bootstrap", "save"}
    BY <1>1, <2>1 DEF Arrive, Signup, Login, Bootstrap, Save, Enter, Return, Results, Disambiguated, LogoAt
  <2>2. CASE op \notin {"signup", "login", "bootstrap", "save", "uploadLogo", "deleteLogo"}
    BY <1>1, <2>2 DEF Arrive, Approve, DeleteCompany, DeleteStudent, Diagnostic, Administer, SaveJob, UnsaveJob, Enter,
       Return, Results, LogoAt
  <2> QED
    BY <2>1, <2>2
<1>3. PICK u \in sessions : (op = "uploadLogo" /\ UploadLogo(r, u)) \/ (op = "deleteLogo" /\ DeleteLogo(r, u))
  BY <1>2 DEF Arrive
<1>4. call'[r] = [Arguments(op, u) EXCEPT !.old = LogoOf(u), !.late = WasDeleted(u)]
  BY <1>1, <1>3 DEF UploadLogo, DeleteLogo, Enter, Return, Results, LogoAt
<1>5. call'[r].op = op /\ call'[r].user = u /\ call'[r].old = LogoOf(u)
  BY <1>4 DEF Arguments
<1>6. IF op = "uploadLogo" THEN pc'[r] = "logo.put" ELSE pc'[r] \in {"logo.remove", "logo.read"}
  BY <1>1, <1>3 DEF UploadLogo, DeleteLogo, Enter, Return, Results, LogoAt
<1>7. LogoOf(u) = None \/ (u \in DOMAIN company /\ LogoOf(u) = company[u].logo)
  BY DEF LogoOf, HasProfile, ActiveCompanies
<1> QED
  BY <1>2, <1>5, <1>6, <1>7

LEMMA LogoArrivals ==
  ASSUME IInv, LogoInv, Watch, NEW r \in Requests, NEW op \in Ops, Arrive(r, op)
  PROVE  LogoInv'
<1>1. Stepping(r) /\ OnlyCallOf(r)
  BY OneStep DEF Stepping
<1>2. UNCHANGED <<user, company, files>> /\ pc[r] = "idle" /\ pc'[r] # "idle"
  BY ArrivalMoves DEF Results
<1>3. CASE pc'[r] \notin LogoAt
  <2>1. pc[r] \notin LogoAt
    BY <1>2 DEF LogoAt
  <2> QED
    BY <1>1, <1>2, <1>3, <2>1, LogoElsewhere
<1>4. CASE pc'[r] \in LogoAt
  <2>1. LogoStep(r)'
    BY <1>4, LogoArrivalFinds DEF LogoStep, Uploading
  <2>2. Unset(r) /\ \A c : ~Removing(r, c)
    BY <1>2 DEF Unset, Removing
  <2>3. call'[r].old # None => OldIsOwn(r)'
    BY <1>2, <1>4, LogoArrivalFinds DEF OldIsOwn, LogoInv
  <2>4. ActiveCompanies' = ActiveCompanies
    BY <1>2 DEF ActiveCompanies
  <2>5. call'[r].old = None \/ \E c \in DOMAIN company : call'[r].old = company[c].logo
    BY <1>4, LogoArrivalFinds
  <2> QED
    BY <1>1, <1>2, <2>1, <2>2, <2>3, <2>4, <2>5, LogoNext
<1> QED
  BY <1>3, <1>4

\* Reads of the row, and what storage does.
LEMMA LogoFilesMove ==
  ASSUME IInv, LogoInv, Watch, NEW r \in Requests,
         LogoPut(r) \/ LogoRemove(r) \/ LogoRead(r) \/ LogoSearchSlug(r) \/ LogoCleanup(r)
  PROVE  LogoInv'
<1> USE DEF Goto, Return, Results
<1>1. Stepping(r) /\ OnlyCallOf(r) /\ pc[r] \in LogoAt
  BY OneStep DEF Stepping, Advance, AdvanceCompany, LogoPut, LogoRemove, LogoRead, LogoSearchSlug, LogoCleanup, LogoAt
<1>2. /\ call[r] \in Call /\ DOMAIN call = Requests /\ pc \in [Requests -> PCs] /\ LogoStep(r)
      /\ Unset(r) => Unknown(r)
      /\ call[r].old # None => OldIsOwn(r)
      /\ company' = company
      /\ call[r].op \in {"uploadLogo", "deleteLogo"}
  BY <1>1, UnderWay, Types DEF IInv, LogoInv, LogoAt, LogoPut, LogoRemove, LogoRead, LogoSearchSlug, SearchSlug,
     LogoCleanup, tables, Started
<1>3. ActiveCompanies' = ActiveCompanies
  BY <1>2 DEF ActiveCompanies
<1>4. CASE pc'[r] \in Results
  <2>1. LogoStep(r)' /\ ~Unset(r)' /\ pc'[r] \notin LogoAt
    BY <1>4 DEF LogoStep, Unset, Uploading, LogoAt
  <2>2. files \ files' \subseteq {call[r].old} /\ \A c : ~Removing(r, c)
    BY <1>2, <1>4 DEF LogoPut, LogoRemove, LogoRead, LogoSearchSlug, SearchSlug, LogoCleanup, Removing, tables
  <2>3. \A c \in DOMAIN company : company[c].logo \notin files \ files' \/ company[c].logo = None
    BY <1>2, <1>4 DEF LogoPut, LogoRemove, LogoRead, LogoSearchSlug, SearchSlug, LogoCleanup, OldIsOwn, tables
  <2> QED
    BY <1>1, <1>2, <1>3, <2>1, <2>2, <2>3, LogoNext
<1>5. CASE pc'[r] \notin Results
  <2>1. /\ pc'[r] \in {"logo.read", "logo.update", "logo.slug", "logo.create"}
        /\ call'[r].op = call[r].op /\ call'[r].user = call[r].user /\ call'[r].old = call[r].old
    BY <1>2, <1>5 DEF LogoPut, LogoRemove, LogoRead, LogoSearchSlug, SearchSlug, LogoCleanup, Call
  <2>2. files' = files \union {r} \/ files' = files \/ files' = files \ {call[r].old}
    BY <1>2, <1>5 DEF LogoPut, LogoRemove, LogoRead, LogoSearchSlug, SearchSlug, LogoCleanup, tables
  <2>3. Unset(r)' => Unset(r)
    BY <1>2, <2>1 DEF Unset, Uploading, LogoPut, LogoRemove, LogoRead, LogoSearchSlug, LogoCleanup, LogoStep, LogoAt
  <2>4. LogoStep(r)'
    <3>1. CASE call[r].op = "uploadLogo"
      BY <1>2, <1>5, <2>1, <3>1 DEF LogoStep, Uploading, LogoPut, LogoRemove, LogoRead, LogoSearchSlug, SearchSlug,
         LogoCleanup, tables
    <3>2. CASE call[r].op # "uploadLogo"
      BY <2>1, <3>2 DEF LogoStep, Uploading
    <3> QED
      BY <3>1, <3>2
  <2>5. call'[r].old # None => OldIsOwn(r)'
    BY <1>2, <2>1 DEF OldIsOwn
  <2>6. ASSUME NEW c \in ActiveCompanies, Removing(r, c) \/ company[c].logo \in files \ files' PROVE Removing(r, c)'
    <3>1. CASE Removing(r, c)
      <4>1. LogoRead(r) /\ c = call[r].user
        BY <1>2, <3>1 DEF Removing, LogoPut, LogoRemove, LogoRead, LogoSearchSlug, LogoCleanup
      <4>2. pc'[r] = "logo.update"
        BY <1>2, <2>6, <4>1 DEF LogoRead, HasProfile
      <4> QED
        BY <1>2, <2>1, <3>1, <4>2 DEF Removing
    <3>2. CASE company[c].logo \in files \ files'
      <4>1. LogoRemove(r) /\ company[c].logo = call[r].old
        BY <1>2, <1>5, <2>1, <3>2 DEF LogoPut, LogoRemove, LogoRead, LogoSearchSlug, SearchSlug, LogoCleanup, tables
      <4>2. call[r].old # None
        <5>1. files \subseteq Ids
          BY Types DEF IInv, SideTablesOK
        <5> QED
          BY <3>2, <4>1, <5>1, DistinctAssumption DEF Ids
      <4>3. c = call[r].user /\ c \in DOMAIN company
        BY <1>2, <2>6, <4>1, <4>2 DEF OldIsOwn, ActiveCompanies
      <4>4. pc'[r] = "logo.read" /\ call[r].op = "deleteLogo"
        BY <1>2, <4>1 DEF LogoRemove, LogoStep
      <4> QED
        BY <1>2, <2>1, <4>1, <4>3, <4>4 DEF Removing
    <3> QED
      BY <2>6, <3>1, <3>2
  <2>7. files \ files' \subseteq {call[r].old}
    BY <2>2
  <2> QED
    BY <1>1, <1>2, <1>3, <2>1, <2>3, <2>4, <2>5, <2>6, <2>7, LogoNext
<1> QED
  BY <1>4, <1>5

\* The row gets the new key.
LEMMA LogoWritten ==
  ASSUME IInv, LogoInv, Watch, NEW r \in Requests, LogoCreate(r) \/ LogoUpdate(r)
  PROVE  LogoInv'
<1> USE DEF Goto, Return, Results
<1>1. Stepping(r) /\ OnlyCallOf(r) /\ pc[r] \in {"logo.create", "logo.update"}
  BY OneStep DEF Stepping, Advance, AdvanceCompany, LogoCreate, LogoUpdate
<1>2. /\ call[r] \in Call /\ DOMAIN call = Requests /\ pc \in [Requests -> PCs] /\ LogoStep(r)
      /\ call[r].op \in {"uploadLogo", "deleteLogo"} /\ company \in [DOMAIN company -> CompanyProfile]
      /\ files' = files
  BY <1>1, UnderWay, Types DEF IInv, LogoInv, LogoAt, LogoCreate, LogoUpdate, Started, CompaniesOK
<1>3. ActiveCompanies' \intersect DOMAIN company \subseteq ActiveCompanies
  BY <1>1, RowsStay DEF ActiveCompanies
<1>4. pc'[r] \in Results \/ (pc'[r] = "logo.cleanup" /\ call'[r] = call[r] /\ call[r].op = "uploadLogo")
  BY <1>1, <1>2 DEF LogoCreate, LogoUpdate, AfterSet
<1>5. ~Unset(r)' /\ LogoStep(r)'
  BY <1>4 DEF Unset, LogoStep, Uploading
<1>6. \A c \in DOMAIN company' :
        \/ c \in DOMAIN company /\ company'[c].logo = company[c].logo
        \/ c = call[r].user /\ company'[c].logo = NewKey(r)
  BY <1>2 DEF LogoCreate, LogoUpdate, Insert, NewCompany, CompanyProfile
<1>7. NewKey(r) = None \/ (NewKey(r) = r /\ Unset(r) /\ r \in files)
  BY <1>1, <1>2 DEF NewKey, Unset, LogoStep, Uploading
<1>8. ASSUME pc'[r] = "logo.cleanup", call'[r].old # None PROVE OldIsOwn(r)'
  <2>1. company'[call[r].user].logo = r
    <3>1. call[r].user \in DOMAIN company \/ LogoCreate(r)
      BY <1>1, <1>2, UnderWay DEF LogoUpdate, Found, OnCompany, Subject
    <3>2. NewKey(r) = r
      BY <1>4, <1>8 DEF NewKey
    <3>3. CASE LogoCreate(r)
      BY <1>1, <1>2, <1>8, <3>2, <3>3 DEF LogoCreate, Insert, NewCompany
    <3>4. CASE LogoUpdate(r) /\ call[r].user \in DOMAIN company
      BY <1>2, <3>2, <3>4 DEF LogoUpdate, CompanyProfile
    <3> QED
      BY <1>1, <3>1, <3>3, <3>4
  <2>2. OldIsOwn(r) /\ call[r].old # r
    <3>1. pc[r] \in LogoAt /\ call[r].old = call'[r].old /\ Unset(r)
      BY <1>1, <1>4, <1>8 DEF LogoAt, Unset, Uploading
    <3> QED
      BY <1>8, <3>1 DEF LogoInv, Unknown
  <2> QED
    BY <1>4, <1>6, <1>8, <2>1, <2>2 DEF OldIsOwn
<1>9. ASSUME NEW c \in DOMAIN company, company'[c].logo = company[c].logo, company[c].logo # None, Removing(r, c)
      PROVE  FALSE
  <2>1. LogoUpdate(r) /\ c = call[r].user /\ NewKey(r) = None
    BY <1>1, <1>2, <1>9 DEF Removing, LogoCreate, LogoUpdate, NewKey
  <2> QED
    BY <1>2, <1>9, <2>1 DEF LogoUpdate, CompanyProfile
<1> QED
  <2>1. pc[r] \in LogoAt /\ (pc'[r] \in LogoAt => pc'[r] = "logo.cleanup" /\ call'[r].old = call[r].old)
    BY <1>1, <1>4 DEF LogoAt
  <2> QED
    BY <1>1, <1>2, <1>3, <1>5, <1>6, <1>7, <1>8, <1>9, <2>1, LogoNext

LEMMA NextLogo ==
  ASSUME IInv, LogoInv, [Next]_allvars
  PROVE  LogoInv'
<1>1. CASE Watch /\ \E r \in Requests : Advance(r)
  BY <1>1, ElsewhereKeepsLogos, LogoFilesMove, LogoWritten DEF Advance, AdvanceCompany
<1>2. CASE Watch /\ \E r \in Requests, op \in Ops : Arrive(r, op)
  BY <1>2, LogoArrivals
<1>3. CASE OtherServices \/ UNCHANGED allvars
  <2>1. UNCHANGED <<company, files, pc, call>>
    BY <1>3, OthersMove DEF allvars, vars
  <2> QED
    BY <2>1 DEF LogoInv, Unset, Unknown, LogoStep, OldIsOwn, LogoDanglesOnlyInDelete, ActiveCompanies
<1> QED
  BY <1>1, <1>2, <1>3 DEF Next

\* The file that an active profile names is in storage, however uploads and deletions overlap,
\* but for a deletion under way: only the profile of its user names the file that a request
\* will remove, and no longer once its upload has set another (features/companies/actions.ts).
THEOREM LogoStored == Spec => []LogoDanglesOnlyInDelete
<1>1. LogoInv => LogoDanglesOnlyInDelete
  BY DEF LogoInv
<1> QED
  BY <1>1, InitIInv, StepIInv, InitLogo, NextLogo, PTL DEF Spec

-----------------------------------------------------------------------------
(* Which step does what                                                    *)

\* The statement that a request executes.
LEMMA ByStatement ==
  ASSUME IInv, NEW r \in Requests, Stepping(r)
  PROVE  /\ pc[r] = "signup.event" => SignupRecord(r)
         /\ pc[r] = "signup.mail" => SignupWelcome(r)
         /\ pc[r] = "save.event" => SaveRecord(r)
         /\ pc[r] = "save.mails" => SaveNotifyAdmins(r)
         /\ pc[r] = "delete.event" => DeleteRecord(r)
<1>1. CASE \E op \in Ops : Arrive(r, op)
  BY <1>1, ArrivalMoves
<1>2. CASE AdvanceAccount(r)
  BY <1>2 DEF AdvanceAccount, SignupCreate, SignupRecord, SignupWelcome, SignupSignIn, BootstrapCreate, BootstrapRequery
<1>3. CASE AdvanceCompany(r)
  BY <1>3 DEF AdvanceCompany, SaveSearchSlug, SaveCreate, SaveUpdate, SaveRecord, SaveNotifyAdmins, LogoPut, LogoRemove,
     LogoRead, LogoSearchSlug, LogoCreate, LogoUpdate, LogoCleanup
<1>4. CASE AdvanceAdministration(r)
  BY <1>4 DEF AdvanceAdministration, ApproveRead, ApproveCommit, ApproveMail, DeleteRead, DeleteWrite, DeleteRecord,
     DiagnosticSend
<1>5. CASE AdvanceBoard(r)
  BY <1>5 DEF AdvanceBoard, SaveJobGate, SaveJobExisting, SaveJobCreate, UnsaveJobDelete
<1> QED
  BY <1>1, <1>2, <1>3, <1>4, <1>5 DEF Stepping, Advance

\* The statement that took it where it is.
LEMMA ByNextStatement ==
  ASSUME IInv, NEW r \in Requests, Stepping(r)
  PROVE  /\ pc'[r] = "signup.event" => SignupCreate(r)
         /\ pc'[r] = "signup.mail" => SignupRecord(r)
         /\ pc'[r] = "save.event" => SaveCreate(r)
         /\ pc'[r] = "save.mails" => SaveRecord(r)
         /\ pc'[r] = "delete.event" => DeleteWrite(r)
         /\ pc'[r] \in {"save.create", "taken"} => SaveSearchSlug(r) \/ SaveCreate(r) \/ pc[r] = "idle"
         /\ pc'[r] = "save.slug" => SaveSearchSlug(r) \/ SaveCreate(r) \/ pc[r] = "idle"
<1> USE DEF Goto, Return, Results
<1>1. pc \in [Requests -> PCs]
  BY Types DEF IInv
<1>2. CASE \E op \in Ops : Arrive(r, op)
  BY <1>2, ArrivalMoves
<1>3. CASE AdvanceAccount(r)
  BY <1>1, <1>3 DEF AdvanceAccount, SignupCreate, SignupRecord, SignupWelcome, SignupSignIn, BootstrapCreate,
     BootstrapRequery, Disambiguated
<1>4. CASE AdvanceCompany(r)
  <2>1. CASE SaveSearchSlug(r)
    BY <1>1, <2>1 DEF SaveSearchSlug, SearchSlug
  <2>2. CASE SaveCreate(r)
    <3>1. pc'[r] \in {"save.event", "taken", "save.slug"}
      BY <1>1, <2>2 DEF SaveCreate
    <3> QED
      BY <2>2, <3>1
  <2>3. CASE SaveUpdate(r) \/ SaveRecord(r) \/ SaveNotifyAdmins(r)
    BY <1>1, <2>3 DEF SaveUpdate, SaveRecord, SaveNotifyAdmins
  <2>4. CASE LogoPut(r) \/ LogoRemove(r) \/ LogoRead(r) \/ LogoSearchSlug(r)
    BY <1>1, <2>4 DEF LogoPut, LogoRemove, LogoRead, LogoSearchSlug, SearchSlug
  <2>5. CASE LogoCreate(r) \/ LogoUpdate(r) \/ LogoCleanup(r)
    BY <1>1, <2>5 DEF LogoCreate, LogoUpdate, LogoCleanup, AfterSet
  <2> QED
    BY <1>4, <2>1, <2>2, <2>3, <2>4, <2>5 DEF AdvanceCompany
<1>5. CASE AdvanceAdministration(r)
  BY <1>1, <1>5 DEF AdvanceAdministration, ApproveRead, ApproveCommit, ApproveMail, DeleteRead, DeleteWrite,
     DeleteRecord, DiagnosticSend
<1>6. CASE AdvanceBoard(r)
  BY <1>1, <1>6 DEF AdvanceBoard, SaveJobGate, SaveJobExisting, SaveJobCreate, UnsaveJobDelete
<1> QED
  BY <1>2, <1>3, <1>4, <1>5, <1>6 DEF Stepping, Advance

\* The steps that insert or delete rows, and those that report.
LEMMA TablesMove ==
  ASSUME IInv, NEW r \in Requests, Stepping(r)
  PROVE  /\ log' = log \/ SignupRecord(r) \/ SaveRecord(r) \/ DeleteRecord(r)
         /\ mails \subseteq mails'
         /\ user' = user \/ SignupCreate(r) \/ BootstrapCreate(r) \/ DeleteWrite(r)
         /\ \/ DOMAIN company' = DOMAIN company
            \/ (SaveCreate(r) \/ LogoCreate(r)) /\ ~CompanyCollision(call[r].user, call[r].slug)
         /\ DeleteWrite(r) \/ \A c \in DOMAIN company' : company'[c].deleted =>
              c \in DOMAIN company /\ company[c].deleted
<1> USE DEF tables, dispatchEmail
<1>1. company \in [DOMAIN company -> CompanyProfile]
  BY Types DEF IInv, CompaniesOK
<1>2. CASE \E op \in Ops : Arrive(r, op)
  BY <1>2, ArrivalMoves
<1>3. CASE AdvanceAccount(r)
  BY <1>3 DEF AdvanceAccount, SignupCreate, SignupRecord, SignupWelcome, SignupSignIn, BootstrapCreate, BootstrapRequery
<1>4. CASE SaveCreate(r) \/ LogoCreate(r)
  <2>1. /\ UNCHANGED <<user, log, mails>>
        /\ company' = company \/ ~CompanyCollision(call[r].user, call[r].slug)
    BY <1>4 DEF SaveCreate, LogoCreate
  <2>2. \A c \in DOMAIN company' : company'[c].deleted => c \in DOMAIN company /\ company[c].deleted
    BY <1>4, <2>1 DEF SaveCreate, LogoCreate, Insert, NewCompany
  <2> QED
    BY <1>4, <2>1, <2>2
<1>5. CASE SaveUpdate(r) \/ LogoUpdate(r)
  BY <1>1, <1>5 DEF SaveUpdate, LogoUpdate, CompanyProfile
<1>6. CASE \/ SaveSearchSlug(r) \/ SaveRecord(r) \/ SaveNotifyAdmins(r) \/ LogoPut(r) \/ LogoRemove(r)
           \/ LogoRead(r) \/ LogoSearchSlug(r) \/ LogoCleanup(r)
  BY <1>6 DEF SaveSearchSlug, SaveRecord, SaveNotifyAdmins, LogoPut, LogoRemove, LogoRead, LogoSearchSlug, LogoCleanup,
     SearchSlug
<1>7. CASE AdvanceAdministration(r)
  BY <1>1, <1>7 DEF AdvanceAdministration, ApproveRead, ApproveCommit, ApproveMail, DeleteRead, DeleteWrite,
     DeleteRecord, DiagnosticSend, CompanyProfile
<1>8. CASE AdvanceBoard(r)
  BY <1>8 DEF AdvanceBoard, SaveJobGate, SaveJobExisting, SaveJobCreate, UnsaveJobDelete
<1> QED
  BY <1>2, <1>3, <1>4, <1>5, <1>6, <1>7, <1>8 DEF Stepping, Advance, AdvanceCompany

-----------------------------------------------------------------------------
(* Giving up a name                                                        *)

\* The profiles that requests have created.
Newer == {c \in DOMAIN company : company[c].by # "before"}

\* Every retry of a save was caused by another insert, or its user has a profile.
Retried(r) ==
  \/ call[r].user \in DOMAIN company
  \/ /\ call[r].attempt <= Cardinality(Newer)
     /\ pc[r] = "save.create" /\ ~SlugFree(call[r].slug) => call[r].attempt + 1 <= Cardinality(Newer)

TakenInv ==
  /\ IsFiniteSet(Newer)
  /\ \A r \in Requests : pc[r] \in {"save.slug", "save.create"} => Retried(r)

LEMMA InitTaken == Init => TakenInv
<1> SUFFICES ASSUME Init PROVE TakenInv
  OBVIOUS
<1>1. Newer = {}
  BY DEF Init, Newer
<1> QED
  BY <1>1, FS_EmptySet DEF Init, TakenInv

\* A step inserts at most the profile of its user: only then is a slug taken.
LEMMA NewerGrows ==
  ASSUME IInv, TakenInv, NEW r \in Requests, Stepping(r)
  PROVE  /\ IsFiniteSet(Newer')
         /\ Cardinality(Newer) \in Nat /\ Cardinality(Newer') \in Nat
         /\ Cardinality(Newer) <= Cardinality(Newer')
         /\ \A slug : SlugFree(slug) /\ ~SlugFree(slug)' => Cardinality(Newer') = Cardinality(Newer) + 1
<1>1. IsFiniteSet(Newer) /\ Cardinality(Newer) \in Nat
  BY FS_CardinalityType DEF TakenInv
<1>2. CASE DOMAIN company' = DOMAIN company
  <2>1. Newer' = Newer
    BY <1>2, RowsStay DEF Newer
  <2>2. \A slug : SlugFree(slug) => SlugFree(slug)'
    BY <1>2, RowsStay DEF SlugFree, ActiveCompanies
  <2> QED
    BY <1>1, <2>1, <2>2
<1>3. CASE (SaveCreate(r) \/ LogoCreate(r)) /\ ~CompanyCollision(call[r].user, call[r].slug)
  <2>1. PICK u : u = call[r].user
    OBVIOUS
  <2>2. u \notin DOMAIN company /\ DOMAIN company' = DOMAIN company \union {u} /\ company'[u].by # "before"
    BY <1>3, <2>1 DEF SaveCreate, LogoCreate, CompanyCollision, Insert, NewCompany
  <2>3. Newer' = Newer \union {u} /\ u \notin Newer
    BY <2>2, RowsStay DEF Newer
  <2>4. IsFiniteSet(Newer \union {u}) /\ Cardinality(Newer \union {u}) = Cardinality(Newer) + 1
    BY <1>1, <2>3, FS_AddElement
  <2> QED
    BY <1>1, <2>3, <2>4
<1> QED
  BY <1>2, <1>3, TablesMove

\* Retried in the next state, by the slug of that state.
LEMMA RetriedNext ==
  ASSUME NEW q, NEW slug, slug = call'[q].slug,
         \/ call'[q].user \in DOMAIN company'
         \/ /\ call'[q].attempt <= Cardinality(Newer')
            /\ pc'[q] = "save.create" /\ ~SlugFree(slug)' => call'[q].attempt + 1 <= Cardinality(Newer')
  PROVE  Retried(q)'
<1> QED
  BY DEF Retried, SlugFree

LEMMA OthersRetried ==
  ASSUME IInv, TakenInv, NEW r \in Requests, Stepping(r), OnlyCallOf(r),
         NEW q \in Requests \ {r}, pc'[q] \in {"save.slug", "save.create"}
  PROVE  Retried(q)'
<1>1. pc'[q] = pc[q] /\ call'[q] = call[q] /\ Retried(q)
  BY DEF OnlyCallOf, TakenInv
<1>2. call[q].attempt \in Nat
  BY <1>1, UnderWay, BoundsAssumption DEF Results, Call
<1>3. CASE call[q].user \in DOMAIN company
  BY <1>1, <1>3, RowsStay DEF Retried
<1>4. CASE call[q].user \notin DOMAIN company
  <2>1. PICK slug : slug = call[q].slug
    OBVIOUS
  <2>2. call'[q].attempt <= Cardinality(Newer')
    BY <1>1, <1>2, <1>4, NewerGrows DEF Retried
  <2>3. pc'[q] = "save.create" /\ ~SlugFree(slug)' => call'[q].attempt + 1 <= Cardinality(Newer')
    BY <1>1, <1>2, <1>4, <2>1, NewerGrows DEF Retried
  <2> QED
    BY <1>1, <2>1, <2>2, <2>3, RetriedNext
<1> QED
  BY <1>3, <1>4

LEMMA SearchRetried ==
  ASSUME IInv, TakenInv, Watch, NEW r \in Requests, SaveSearchSlug(r), pc'[r] \in {"save.slug", "save.create"}
  PROVE  Retried(r)'
<1>1. /\ call[r] \in Call /\ DOMAIN call = Requests /\ pc \in [Requests -> PCs] /\ Retried(r)
      /\ company' = company /\ pc[r] = "save.slug"
  BY UnderWay, Types DEF IInv, SaveSearchSlug, SearchSlug, Results, TakenInv, tables
<1>2. Newer' = Newer /\ \A slug : SlugFree(slug)' <=> SlugFree(slug)
  BY <1>1 DEF Newer, SlugFree, ActiveCompanies
<1>3. call'[r].attempt = call[r].attempt /\ call'[r].user = call[r].user
  BY <1>1 DEF SaveSearchSlug, SearchSlug, Goto, Return, Results, Call
<1>4. PICK slug : slug = call'[r].slug
  OBVIOUS
<1>5. pc'[r] = "save.create" => SlugFree(slug)
  BY <1>1, <1>4 DEF SaveSearchSlug, SearchSlug, Goto, Return, Results
<1> QED
  BY <1>1, <1>2, <1>3, <1>4, <1>5, RetriedNext DEF Retried

LEMMA CreateRetried ==
  ASSUME IInv, TakenInv, Watch, NEW r \in Requests, SaveCreate(r)
  PROVE  /\ pc'[r] \in {"save.slug", "save.create"} => Retried(r)'
         /\ pc'[r] = "taken" => call[r].user \in DOMAIN company \/ Cardinality(Newer) >= MaxRetries
<1>1. /\ call[r] \in Call /\ DOMAIN call = Requests /\ pc \in [Requests -> PCs] /\ Retried(r)
      /\ pc[r] = "save.create"
  BY UnderWay, Types DEF IInv, SaveCreate, Results, TakenInv
<1>2. call[r].attempt \in Nat /\ Cardinality(Newer) \in Nat
  BY <1>1, FS_CardinalityType, BoundsAssumption DEF TakenInv, Call
<1>3. CASE ~CompanyCollision(call[r].user, call[r].slug)
  BY <1>1, <1>3 DEF SaveCreate, Goto
<1>4. CASE CompanyCollision(call[r].user, call[r].slug)
  <2>1. call[r].user \in DOMAIN company \/ call[r].attempt + 1 <= Cardinality(Newer)
    BY <1>1, <1>4 DEF Retried, CompanyCollision
  <2>2. CASE SaveRetriesSpent(call[r].attempt + 1)
    <3>1. pc'[r] = "taken"
      BY <1>1, <1>4, <2>2 DEF SaveCreate, Return
    <3>2. call[r].attempt + 1 >= MaxRetries
      BY <2>2 DEF SaveRetriesSpent
    <3> QED
      BY <1>2, <2>1, <3>1, <3>2, BoundsAssumption
  <2>3. CASE ~SaveRetriesSpent(call[r].attempt + 1)
    <3>1. /\ pc'[r] = "save.slug" /\ company' = company
          /\ call'[r] = [call[r] EXCEPT !.slug = 1, !.attempt = @ + 1]
      BY <1>1, <1>4, <2>3 DEF SaveCreate
    <3>2. call'[r].attempt = call[r].attempt + 1 /\ call'[r].user = call[r].user
      BY <1>1, <3>1 DEF Call
    <3>3. Newer' = Newer
      BY <3>1 DEF Newer
    <3> QED
      BY <2>1, <3>1, <3>2, <3>3, RetriedNext
  <2> QED
    BY <2>2, <2>3
<1> QED
  BY <1>3, <1>4

\* A save begins with no retry.
LEMMA FirstAttempt ==
  ASSUME IInv, TakenInv, NEW r \in Requests, Stepping(r), pc[r] = "idle",
         pc'[r] \in {"save.slug", "save.create", "taken"}
  PROVE  pc'[r] = "save.slug" /\ Retried(r)'
<1>1. PICK op \in Ops : Arrive(r, op)
  BY DEF Stepping, Advance, AdvanceAccount, AdvanceCompany, AdvanceAdministration, AdvanceBoard, SignupCreate,
     SignupRecord, SignupWelcome, SignupSignIn, BootstrapCreate, BootstrapRequery, SaveSearchSlug, SaveCreate,
     SaveUpdate, SaveRecord, SaveNotifyAdmins, LogoPut, LogoRemove, LogoRead, LogoSearchSlug, LogoCreate, LogoUpdate,
     LogoCleanup, ApproveRead, ApproveCommit, ApproveMail, DeleteRead, DeleteWrite, DeleteRecord, DiagnosticSend,
     SaveJobGate, SaveJobExisting, SaveJobCreate, UnsaveJobDelete
<1>2. pc \in [Requests -> PCs] /\ DOMAIN call = Requests
  BY Types DEF IInv
<1>3. PICK u \in sessions, complete \in BOOLEAN : Save(r, u, complete)
  <2> USE DEF Enter, Return, Results
  <2>1. CASE op \in {"signup", "login", "bootstrap"}
    BY <1>1, <1>2, <2>1 DEF Arrive, Signup, Login, Bootstrap, Disambiguated
  <2>2. CASE op \in {"uploadLogo", "deleteLogo"}
    BY <1>1, <1>2, <2>2 DEF Arrive, UploadLogo, DeleteLogo
  <2>3. CASE op \notin {"signup", "login", "bootstrap", "save", "uploadLogo", "deleteLogo"}
    BY <1>1, <1>2, <2>3 DEF Arrive, Approve, DeleteCompany, DeleteStudent, Diagnostic, Administer, SaveJob, UnsaveJob
  <2>4. CASE op = "save"
    BY <1>1, <2>4 DEF Arrive
  <2> QED
    BY <2>1, <2>2, <2>3, <2>4
<1>4. pc'[r] = "save.slug" /\ call'[r].attempt = 0
  BY <1>2, <1>3 DEF Save, Enter, Arguments, Results
<1>5. Cardinality(Newer') \in Nat
  BY NewerGrows
<1> QED
  BY <1>4, <1>5, RetriedNext

\* What TakenOnlyWhenHeld says of a step.
Held ==
  \A r \in Requests : pc'[r] = "taken" /\ pc[r] # "taken" =>
    \/ call[r].user \in DOMAIN company
    \/ Cardinality(Newer) >= MaxRetries

LEMMA NextTaken ==
  ASSUME IInv, TakenInv, [Next]_allvars
  PROVE  TakenInv' /\ [Held]_allvars
<1>1. ASSUME Watch, NEW r \in Requests, Stepping(r) PROVE TakenInv' /\ Held
  <2>1. OnlyCallOf(r)
    BY <1>1, OneStep
  <2>2. pc'[r] \in {"save.slug", "save.create"} => Retried(r)'
    BY <1>1, ByNextStatement, SearchRetried, CreateRetried, FirstAttempt
  <2>3. \A q \in Requests : pc'[q] \in {"save.slug", "save.create"} => Retried(q)'
    BY <1>1, <2>1, <2>2, OthersRetried
  <2>4. ASSUME pc'[r] = "taken" PROVE call[r].user \in DOMAIN company \/ Cardinality(Newer) >= MaxRetries
    <3>1. pc \in [Requests -> PCs]
      BY Types DEF IInv
    <3>2. ~SaveSearchSlug(r)
      BY <2>4, <3>1 DEF SaveSearchSlug, SearchSlug, Goto, Return
    <3>3. pc[r] # "idle"
      BY <1>1, <2>4, FirstAttempt
    <3> QED
      BY <1>1, <2>4, <3>2, <3>3, ByNextStatement, CreateRetried
  <2>5. Held
    BY <2>1, <2>4 DEF Held, OnlyCallOf
  <2>6. IsFiniteSet(Newer')
    BY <1>1, NewerGrows
  <2> QED
    BY <2>3, <2>5, <2>6 DEF TakenInv
<1>2. CASE OtherServices \/ UNCHANGED allvars
  <2>1. UNCHANGED <<company, pc, call>>
    BY <1>2, OthersMove DEF allvars, vars
  <2> QED
    BY <2>1 DEF TakenInv, Retried, Newer, SlugFree, ActiveCompanies, Held
<1> QED
  BY <1>1, <1>2 DEF Next, Stepping

\* A save answers that the name is taken only when MAX_RETRIES profiles were created since the
\* history began, or when its user has a profile: each retry was caused by another insert.
THEOREM GivesUpLate == Spec => TakenOnlyWhenHeld
<1>1. Spec => [](IInv /\ TakenInv)
  BY InitIInv, StepIInv, InitTaken, NextTaken, PTL DEF Spec
<1>2. IInv /\ TakenInv /\ [Next]_allvars => [Held]_allvars
  BY NextTaken
<1>3. Spec => [][Held]_allvars
  BY <1>1, <1>2, PTL DEF Spec
<1> QED
  BY <1>3 DEF TakenOnlyWhenHeld, Held, Newer

-----------------------------------------------------------------------------
(* The audit log                                                           *)

SignupTypes == {"STUDENT_SIGNUP", "COMPANY_SIGNUP"}
SignupEvent(u) == [type |-> SignupType(user[u].role), entity |-> u, actor |-> u, by |-> u]
WelcomeMail(u) ==
  [template |-> IF user[u].role = "STUDENT" THEN "studentWelcome" ELSE "companyWelcome", to |-> u, by |-> u]

\* An account that signed up has its event and its mail, or its request is about to see to it.
SignupInv ==
  /\ \A e \in log : e.type \in SignupTypes =>
       e.entity \in DOMAIN user \ Members /\ user[e.entity].role # "ADMIN" /\ e = SignupEvent(e.entity)
  /\ \A u \in DOMAIN user \ Members : user[u].role # "ADMIN" =>
       /\ SignupEvent(u) \in log \/ pc[u] = "signup.event"
       /\ WelcomeMail(u) \in mails \/ pc[u] \in {"signup.event", "signup.mail"}
  /\ \A r \in Requests : pc[r] \in {"signup.event", "signup.mail"} => user[r].role = call[r].role

\* Every profile born of a save has its event, or its request is about to record it, and
\* every such event has been told to the admins, or its request is about to do that.
CreationInv ==
  /\ \A m \in Members : m \in DOMAIN user /\ user[m].role = RoleOf[m]
  /\ \A u \in DOMAIN user : user[u].deleted => user[u].role = "STUDENT"
  /\ \A e \in log : e.type = "COMPANY_PROFILE_CREATED" =>
       /\ e.entity \in DOMAIN company /\ company[e.entity].by = "save"
       /\ \A a \in Members : RoleOf[a] = "ADMIN" =>
            \/ [template |-> "adminCompanyPending", to |-> a, by |-> e.by] \in mails
            \/ pc[e.by] = "save.mails"
       /\ \A d \in log : d.type = e.type /\ d.entity = e.entity => d = e
  /\ \A c \in DOMAIN company : company[c].by = "save" =>
       Told("COMPANY_PROFILE_CREATED", c) # {} \/ \E r \in Requests : pc[r] = "save.event" /\ call[r].user = c
  /\ \A r \in Requests : pc[r] = "save.event" =>
       /\ call[r].user \in DOMAIN company /\ company[call[r].user].by = "save"
       /\ Told("COMPANY_PROFILE_CREATED", call[r].user) = {}
       /\ \A q \in Requests : pc[q] = "save.event" /\ call[q].user = call[r].user => q = r

Reporting(r, op, x) == pc[r] = "delete.event" /\ call[r].op = op /\ call[r].target = x

\* Every deletion has its report, or a request is about to record it.
DeletionInv ==
  /\ \A c \in DOMAIN company : company[c].deleted =>
       Told("COMPANY_SOFT_DELETED", c) # {} \/ \E r \in Requests : Reporting(r, "deleteCompany", c)
  /\ \A u \in DOMAIN user : user[u].deleted =>
       Told("STUDENT_SOFT_DELETED", u) # {} \/ \E r \in Requests : Reporting(r, "deleteStudent", u)
  /\ \A e \in log :
       /\ e.type = "COMPANY_SOFT_DELETED" => e.entity \in DOMAIN company /\ company[e.entity].deleted
       /\ e.type = "STUDENT_SOFT_DELETED" => e.entity \in DOMAIN user /\ user[e.entity].deleted
  /\ \A r \in Requests :
       /\ \A c \in Ids : Reporting(r, "deleteCompany", c) => company[c].deleted
       /\ \A u \in Ids : Reporting(r, "deleteStudent", u) => user[u].deleted

Audited == SignupInv /\ CreationInv /\ DeletionInv

LEMMA InitAudited == Init => Audited
<1> SUFFICES ASSUME Init PROVE Audited
  OBVIOUS
<1>1. DOMAIN user = Members /\ log = {} /\ \A r \in Requests : pc[r] = "idle"
  BY DEF Init
<1>2. \A m \in Members : user[m].role = RoleOf[m] /\ ~user[m].deleted
  BY DEF Init, NewUser
<1>3. \A c \in DOMAIN company : company[c].by = "before" /\ ~company[c].deleted
  BY DEF Init
<1> QED
  BY <1>1, <1>2, <1>3 DEF Audited, SignupInv, CreationInv, DeletionInv, Reporting

\* A step records at most the event of its request.
LEMMA LogMoves ==
  ASSUME IInv, NEW r \in Requests, Stepping(r)
  PROVE  /\ log \subseteq log'
         /\ \A e \in log' \ log :
              \/ SignupRecord(r) /\ e = [type |-> SignupType(call[r].role), entity |-> r, actor |-> r, by |-> r]
              \/ SaveRecord(r) /\ e = [type |-> "COMPANY_PROFILE_CREATED", entity |-> call[r].user,
                                       actor |-> call[r].user, by |-> r]
              \/ DeleteRecord(r) /\ e = [type |-> DeletionType(call[r].op), entity |-> call[r].target,
                                         actor |-> call[r].user, by |-> r]
<1> USE DEF Record
<1>1. CASE SignupRecord(r)
  BY <1>1 DEF SignupRecord
<1>2. CASE SaveRecord(r)
  BY <1>2 DEF SaveRecord
<1>3. CASE DeleteRecord(r)
  BY <1>3 DEF DeleteRecord
<1>4. CASE log' = log
  BY <1>4
<1> QED
  BY <1>1, <1>2, <1>3, <1>4, TablesMove

\* A step inserts at most the user of its request.
LEMMA UsersMove ==
  ASSUME IInv, NEW r \in Requests, Stepping(r)
  PROVE  \/ DOMAIN user' = DOMAIN user
         \/ /\ SignupCreate(r) /\ DOMAIN user' = DOMAIN user \union {r}
            /\ user'[r].role = call[r].role /\ ~user'[r].deleted
            /\ pc'[r] = "signup.event" /\ call' = call
         \/ /\ BootstrapCreate(r) /\ DOMAIN user' = DOMAIN user \union {r}
            /\ user'[r].role = "ADMIN" /\ ~user'[r].deleted
<1>1. pc \in [Requests -> PCs]
  BY Types DEF IInv
<1>2. CASE SignupCreate(r)
  BY <1>1, <1>2 DEF SignupCreate, Goto, Insert, NewUser
<1>3. CASE BootstrapCreate(r)
  BY <1>3 DEF BootstrapCreate, Insert, NewUser
<1>4. CASE DeleteWrite(r)
  BY <1>4, Types DEF DeleteWrite, IInv, UsersOK
<1>5. CASE user' = user
  BY <1>5
<1> QED
  BY <1>2, <1>3, <1>4, <1>5, TablesMove

\* The role of a signed-up account, and its event, are those its request began with.
LEMMA NextSignup ==
  ASSUME IInv, SignupInv, Watch, NEW r \in Requests, Stepping(r)
  PROVE  SignupInv'
<1>1. OnlyCallOf(r) /\ pc \in [Requests -> PCs] /\ DOMAIN user \subseteq Ids /\ r \notin Members
  BY OneStep, Types, DistinctAssumption DEF IInv, UsersOK
<1>2. \A u \in DOMAIN user : u \in DOMAIN user' /\ user'[u].role = user[u].role
  BY RowsStay
<1>3. ASSUME SignupRecord(r)
      PROVE  /\ r \in DOMAIN user \ Members /\ user[r].role = call[r].role /\ call[r].role \in {"STUDENT", "COMPANY"}
             /\ SignupEvent(r) \in log' /\ UNCHANGED user /\ pc'[r] = "signup.mail" /\ call' = call
             /\ SignupEvent(r) = [type |-> SignupType(call[r].role), entity |-> r, actor |-> r, by |-> r]
  <2>1. pc[r] = "signup.event"
    BY <1>3 DEF SignupRecord
  <2>2. Started(r)
    BY <2>1 DEF IInv, RequestsRemember, Remembers, Busy, Results
  <2>3. r \in DOMAIN user
    BY <2>1 DEF IInv, Bookkeeping
  <2>4. user[r].role = call[r].role /\ call[r].role \in {"STUDENT", "COMPANY"}
    BY <2>1, <2>2 DEF SignupInv, Started, SignupAt
  <2> QED
    BY <1>1, <1>3, <2>3, <2>4 DEF SignupRecord, Record, SignupEvent, Goto
<1>4. \A e \in log' : e.type \in SignupTypes =>
        e.entity \in DOMAIN user \ Members /\ user[e.entity].role # "ADMIN" /\ e = SignupEvent(e.entity)
  <2> SUFFICES ASSUME NEW e \in log', e.type \in SignupTypes
               PROVE  e.entity \in DOMAIN user \ Members /\ user[e.entity].role # "ADMIN" /\ e = SignupEvent(e.entity)
    OBVIOUS
  <2>1. CASE e \in log
    BY <2>1 DEF SignupInv
  <2>2. CASE SignupRecord(r) /\ e = [type |-> SignupType(call[r].role), entity |-> r, actor |-> r, by |-> r]
    <3>1. e = SignupEvent(r) /\ e.entity = r
      BY <1>3, <2>2
    <3> QED
      BY <1>3, <2>2, <3>1
  <2>3. \/ e \in log
        \/ SignupRecord(r) /\ e = [type |-> SignupType(call[r].role), entity |-> r, actor |-> r, by |-> r]
    BY LogMoves DEF SignupTypes, DeletionType
  <2> QED
    BY <2>1, <2>2, <2>3
<1>5. \A u \in DOMAIN user : SignupEvent(u)' = SignupEvent(u) /\ WelcomeMail(u)' = WelcomeMail(u)
  BY <1>2 DEF SignupEvent, WelcomeMail
<1>6. \A e \in log' : e.type \in SignupTypes =>
        /\ e.entity \in DOMAIN user' \ Members /\ user'[e.entity].role # "ADMIN"
        /\ \A u : u = e.entity => e = SignupEvent(u)'
  BY <1>2, <1>4, <1>5
<1>7. ASSUME NEW u \in DOMAIN user' \ Members, user'[u].role # "ADMIN"
      PROVE  /\ SignupEvent(u)' \in log' \/ pc'[u] = "signup.event"
             /\ WelcomeMail(u)' \in mails' \/ pc'[u] \in {"signup.event", "signup.mail"}
  <2>1. CASE u \in DOMAIN user
    <3>1. /\ SignupEvent(u) \in log \/ pc[u] = "signup.event"
          /\ WelcomeMail(u) \in mails \/ pc[u] \in {"signup.event", "signup.mail"}
          /\ u \in Requests
      BY <1>1, <1>2, <1>7, <2>1 DEF SignupInv, Ids
    <3>2. log \subseteq log' /\ mails \subseteq mails'
      BY LogMoves, TablesMove
    <3>3. CASE u # r
      <4>1. pc'[u] = pc[u]
        BY <1>1, <3>1, <3>3 DEF OnlyCallOf
      <4> QED
        BY <1>5, <2>1, <3>1, <3>2, <4>1
    <3>4. CASE u = r /\ pc[r] = "signup.event"
      BY <1>3, <1>5, <2>1, <3>4, ByStatement
    <3>5. CASE u = r /\ pc[r] = "signup.mail"
      <4>1. SignupWelcome(r) /\ user[r].role = call[r].role
        BY <3>5, ByStatement DEF SignupInv
      <4>2. WelcomeMail(r) \in mails'
        BY <4>1 DEF SignupWelcome, dispatchEmail, WelcomeMail
      <4> QED
        BY <1>5, <2>1, <3>1, <3>2, <3>5, <4>2
    <3>6. CASE pc[r] \notin {"signup.event", "signup.mail"} /\ u = r
      BY <1>5, <2>1, <3>1, <3>2, <3>6
    <3> QED
      BY <3>3, <3>4, <3>5, <3>6
  <2>2. CASE u \notin DOMAIN user
    BY <1>7, <2>2, UsersMove
  <2> QED
    BY <2>1, <2>2
<1>8. ASSUME NEW q \in Requests, pc'[q] \in {"signup.event", "signup.mail"} PROVE user'[q].role = call'[q].role
  <2>1. CASE q # r
    <3>1. pc'[q] = pc[q] /\ call'[q] = call[q]
      BY <1>1, <2>1 DEF OnlyCallOf
    <3>2. q \in DOMAIN user /\ user[q].role = call[q].role
      BY <1>8, <3>1 DEF IInv, Bookkeeping, SignupInv
    <3> QED
      BY <1>2, <3>1, <3>2
  <2>2. CASE q = r /\ pc'[r] = "signup.event"
    <3>1. SignupCreate(r)
      BY <2>2, ByNextStatement
    <3>2. ~EmailCollision(call[r].email)
      BY <1>1, <2>2, <3>1 DEF SignupCreate, Return
    <3> QED
      BY <2>2, <3>1, <3>2 DEF SignupCreate, Insert, NewUser, Goto
  <2>3. CASE q = r /\ pc'[r] = "signup.mail"
    BY <1>3, <2>3, ByNextStatement
  <2> QED
    BY <1>8, <2>1, <2>2, <2>3
<1> QED
  BY <1>6, <1>7, <1>8 DEF SignupInv

\* A profile is inserted by a save, which is about to record it, or with a logo.
LEMMA CompaniesMove ==
  ASSUME IInv, NEW r \in Requests, Stepping(r)
  PROVE  \A c \in DOMAIN company' \ DOMAIN company :
           /\ c = call[r].user /\ ~company'[c].deleted
           /\ company'[c].by = "logo" \/ (SaveCreate(r) /\ pc'[r] = "save.event" /\ call' = call)
<1> SUFFICES ASSUME NEW c \in DOMAIN company' \ DOMAIN company
             PROVE  /\ c = call[r].user /\ ~company'[c].deleted
                    /\ company'[c].by = "logo" \/ (SaveCreate(r) /\ pc'[r] = "save.event" /\ call' = call)
  OBVIOUS
<1>1. pc \in [Requests -> PCs] /\ ~CompanyCollision(call[r].user, call[r].slug) /\ (SaveCreate(r) \/ LogoCreate(r))
  BY TablesMove, Types DEF IInv
<1>2. CASE SaveCreate(r)
  BY <1>1, <1>2 DEF SaveCreate, Insert, NewCompany, Goto
<1>3. CASE LogoCreate(r)
  BY <1>1, <1>3 DEF LogoCreate, Insert, NewCompany
<1> QED
  BY <1>1, <1>2, <1>3

\* A save about to record its profile has just created it.
LEMMA CreatesFirst ==
  ASSUME IInv, NEW r \in Requests, Stepping(r), pc'[r] = "save.event"
  PROVE  /\ call[r].user \notin DOMAIN company /\ call[r].user \in DOMAIN company'
         /\ company'[call[r].user].by = "save" /\ UNCHANGED <<log, call>>
<1>1. SaveCreate(r) /\ pc \in [Requests -> PCs]
  BY ByNextStatement, Types DEF IInv
<1>2. ~CompanyCollision(call[r].user, call[r].slug)
  BY <1>1 DEF SaveCreate, Return
<1> QED
  BY <1>1, <1>2 DEF SaveCreate, CompanyCollision, Insert, NewCompany, Goto

\* The members keep their role, and only students are deleted.
LEMMA NextMembers ==
  ASSUME IInv, CreationInv, Watch, NEW r \in Requests, Stepping(r)
  PROVE  /\ \A m \in Members : m \in DOMAIN user' /\ user'[m].role = RoleOf[m]
         /\ \A u \in DOMAIN user' : user'[u].deleted => user'[u].role = "STUDENT"
<1>1. \A m \in Members : m \in DOMAIN user' /\ user'[m].role = RoleOf[m]
  BY RowsStay DEF CreationInv
<1>2. CASE DeleteWrite(r)
  <2>1. pc[r] = "delete.write"
    BY <1>2 DEF DeleteWrite
  <2>2. /\ call[r].op \in {"deleteCompany", "deleteStudent"}
        /\ call[r].op = "deleteStudent" => user[call[r].target].role = "STUDENT"
    BY <2>1 DEF IInv, RequestsRemember, Remembers, Busy, Results, Found, Started, DeleteAt
  <2>3. user \in [DOMAIN user -> User]
    BY Types DEF IInv, UsersOK
  <2>4. \A u \in DOMAIN user' : user'[u].deleted =>
          user[u].deleted \/ (u = call[r].target /\ call[r].op = "deleteStudent")
    BY <1>2, <2>2, <2>3 DEF DeleteWrite
  <2>5. DOMAIN user' = DOMAIN user
    BY <1>2, <2>3 DEF DeleteWrite
  <2>6. \A u \in DOMAIN user : user'[u].role = user[u].role /\ (user[u].deleted => user[u].role = "STUDENT")
    BY RowsStay DEF CreationInv
  <2> QED
    BY <1>1, <2>2, <2>4, <2>5, <2>6
<1>3. CASE ~DeleteWrite(r)
  <2>1. \A u \in DOMAIN user' : user'[u].deleted => u \in DOMAIN user /\ user[u].deleted
    <3>1. CASE user' = user
      BY <3>1
    <3>2. CASE SignupCreate(r)
      BY <3>2 DEF SignupCreate, Insert, NewUser
    <3>3. CASE BootstrapCreate(r)
      BY <3>3 DEF BootstrapCreate, Insert, NewUser
    <3> QED
      BY <1>3, <3>1, <3>2, <3>3, TablesMove
  <2> QED
    BY <1>1, <2>1, RowsStay DEF CreationInv
<1> QED
  BY <1>2, <1>3

\* What CreationInv says of an event.
CreationTold(e) ==
  /\ e.entity \in DOMAIN company /\ company[e.entity].by = "save"
  /\ \A a \in Members : RoleOf[a] = "ADMIN" =>
       \/ [template |-> "adminCompanyPending", to |-> a, by |-> e.by] \in mails
       \/ pc[e.by] = "save.mails"

\* An event of a creation stays the only one, and its mails are sent.
LEMMA NextCreationTold ==
  ASSUME IInv, CreationInv, Watch, NEW r \in Requests, Stepping(r)
  PROVE  \A e \in log' : e.type = "COMPANY_PROFILE_CREATED" =>
           CreationTold(e)' /\ \A d \in log' : d.type = e.type /\ d.entity = e.entity => d = e
<1>1. OnlyCallOf(r) /\ pc \in [Requests -> PCs] /\ log \subseteq Event /\ DOMAIN call = Requests
  BY OneStep, Types DEF IInv, SideTablesOK
<1>2. ASSUME NEW e \in log, e.type = "COMPANY_PROFILE_CREATED" PROVE CreationTold(e)'
  <2>1. CreationTold(e) /\ e.by \in Requests
    BY <1>1, <1>2 DEF CreationInv, CreationTold, Event
  <2>2. e.entity \in DOMAIN company' /\ company'[e.entity].by = "save"
    BY <2>1, RowsStay DEF CreationTold
  <2>3. ASSUME NEW a \in Members, RoleOf[a] = "ADMIN"
        PROVE  \/ [template |-> "adminCompanyPending", to |-> a, by |-> e.by] \in mails'
               \/ pc'[e.by] = "save.mails"
    <3>1. CASE [template |-> "adminCompanyPending", to |-> a, by |-> e.by] \in mails
      BY <3>1, TablesMove
    <3>2. CASE pc[e.by] = "save.mails" /\ e.by # r
      BY <1>1, <2>1, <3>2 DEF OnlyCallOf
    <3>3. CASE pc[e.by] = "save.mails" /\ e.by = r
      <4>1. SaveNotifyAdmins(r)
        BY <3>3, ByStatement
      <4>2. a \in ActiveUsers /\ user[a].role = "ADMIN"
        BY <2>3, Types DEF CreationInv, ActiveUsers, IInv, UsersOK, User
      <4> QED
        BY <3>3, <4>1, <4>2 DEF SaveNotifyAdmins, dispatchEmail
    <3> QED
      BY <2>1, <2>3, <3>1, <3>2, <3>3 DEF CreationTold
  <2> QED
    BY <2>2, <2>3 DEF CreationTold
<1>3. CASE SaveRecord(r)
  <2> DEFINE e0 == [type |-> "COMPANY_PROFILE_CREATED", entity |-> call[r].user, actor |-> call[r].user, by |-> r]
  <2>1. log' = log \union {e0} /\ UNCHANGED <<company, call>> /\ pc'[r] = "save.mails" /\ pc[r] = "save.event"
    BY <1>1, <1>3 DEF SaveRecord, Record, Goto
  <2>2. /\ call[r].user \in DOMAIN company /\ company[call[r].user].by = "save"
        /\ Told("COMPANY_PROFILE_CREATED", call[r].user) = {}
    BY <2>1 DEF CreationInv
  <2>3. \A d \in log : d.type = "COMPANY_PROFILE_CREATED" => d.entity # call[r].user
    BY <2>2 DEF Told
  <2>4. e0.type = "COMPANY_PROFILE_CREATED" /\ e0.entity = call[r].user /\ e0.by = r
    OBVIOUS
  <2> HIDE DEF e0
  <2>5. \A e \in log' : e.type = "COMPANY_PROFILE_CREATED" /\ e \notin log => CreationTold(e)'
    BY <2>1, <2>2, <2>4 DEF CreationTold
  <2>6. \A d, e \in log' : e.type = "COMPANY_PROFILE_CREATED" /\ d.type = e.type /\ d.entity = e.entity => d = e
    BY <2>1, <2>3, <2>4 DEF CreationInv
  <2> QED
    BY <1>2, <2>5, <2>6 DEF CreationTold
<1>4. CASE ~SaveRecord(r)
  <2>1. \A e \in log' : e.type = "COMPANY_PROFILE_CREATED" => e \in log
    BY <1>4, LogMoves DEF DeletionType, SignupType
  <2>2. \A d, e \in log' : e.type = "COMPANY_PROFILE_CREATED" /\ d.type = e.type /\ d.entity = e.entity => d = e
    BY <2>1 DEF CreationInv
  <2> QED
    BY <1>2, <2>1, <2>2
<1> QED
  BY <1>3, <1>4

\* A profile born of a save is told, or about to be, and by one request only.
LEMMA NextCreation ==
  ASSUME IInv, CreationInv, Watch, NEW r \in Requests, Stepping(r)
  PROVE  CreationInv'
<1>1. OnlyCallOf(r) /\ pc \in [Requests -> PCs] /\ log \subseteq log'
  BY OneStep, LogMoves, Types DEF IInv
<1>2. ASSUME NEW c \in DOMAIN company', company'[c].by = "save"
      PROVE  \/ Told("COMPANY_PROFILE_CREATED", c)' # {}
             \/ \E q \in Requests : pc'[q] = "save.event" /\ call'[q].user = c
  <2>1. CASE c \notin DOMAIN company
    BY <1>2, <2>1, CompaniesMove
  <2>2. CASE c \in DOMAIN company /\ Told("COMPANY_PROFILE_CREATED", c) # {}
    BY <1>1, <2>2 DEF Told
  <2>3. CASE c \in DOMAIN company /\ Told("COMPANY_PROFILE_CREATED", c) = {}
    <3>1. PICK q \in Requests : pc[q] = "save.event" /\ call[q].user = c
      BY <1>2, <2>3, RowsStay DEF CreationInv
    <3>2. CASE q # r
      BY <1>1, <3>1, <3>2 DEF OnlyCallOf
    <3>3. CASE q = r
      <4>1. [type |-> "COMPANY_PROFILE_CREATED", entity |-> c, actor |-> c, by |-> r] \in log'
        BY <3>1, <3>3, ByStatement DEF SaveRecord, Record
      <4> QED
        BY <4>1 DEF Told
    <3> QED
      BY <3>2, <3>3
  <2> QED
    BY <2>1, <2>2, <2>3
<1>3. ASSUME NEW q \in Requests \ {r}, pc'[q] = "save.event"
      PROVE  /\ pc[q] = "save.event" /\ call'[q] = call[q] /\ call[q].user \in DOMAIN company
             /\ company[call[q].user].by = "save" /\ Told("COMPANY_PROFILE_CREATED", call[q].user) = {}
  BY <1>1, <1>3 DEF OnlyCallOf, CreationInv
<1>4. ASSUME NEW q \in Requests, pc'[q] = "save.event", NEW c, c = call'[q].user
      PROVE  /\ c \in DOMAIN company' /\ company'[c].by = "save"
             /\ Told("COMPANY_PROFILE_CREATED", c)' = {}
             /\ \A p \in Requests : pc'[p] = "save.event" /\ call'[p].user = c => p = q
  <2>1. CASE q = r
    <3>1. c \notin DOMAIN company /\ c \in DOMAIN company' /\ company'[c].by = "save" /\ log' = log /\ call' = call
      BY <1>4, <2>1, CreatesFirst
    <3>2. Told("COMPANY_PROFILE_CREATED", c)' = {}
      BY <3>1 DEF Told, CreationInv
    <3> QED
      BY <1>3, <2>1, <3>1, <3>2
  <2>2. CASE q # r
    <3>1. /\ c = call[q].user /\ pc[q] = "save.event" /\ c \in DOMAIN company
          /\ company[c].by = "save" /\ Told("COMPANY_PROFILE_CREATED", c) = {}
      BY <1>3, <1>4, <2>2
    <3>2. \A p \in Requests : pc[p] = "save.event" /\ call[p].user = c => p = q
      BY <3>1 DEF CreationInv
    <3>3. SaveRecord(r) => call[r].user # c
      BY <2>2, <3>2 DEF SaveRecord
    <3>4. Told("COMPANY_PROFILE_CREATED", c)' = {}
      BY <3>1, <3>3, LogMoves DEF Told, SignupType, DeletionType
    <3>5. pc'[r] = "save.event" => call'[r].user # c
      BY <3>1, CreatesFirst
    <3> QED
      BY <1>3, <3>1, <3>2, <3>4, <3>5, RowsStay
  <2> QED
    BY <2>1, <2>2
<1>5. \A e \in log' : e.type = "COMPANY_PROFILE_CREATED" =>
        \A d \in log' : d.type = e.type /\ d.entity = e.entity => d = e
  BY NextCreationTold
<1>6. \A e \in log' : e.type = "COMPANY_PROFILE_CREATED" =>
        /\ e.entity \in DOMAIN company' /\ company'[e.entity].by = "save"
        /\ \A a \in Members : RoleOf[a] = "ADMIN" =>
             \/ [template |-> "adminCompanyPending", to |-> a, by |-> e.by] \in mails'
             \/ pc'[e.by] = "save.mails"
  BY NextCreationTold DEF CreationTold
<1>7. \A q \in Requests : pc'[q] = "save.event" =>
        /\ call'[q].user \in DOMAIN company' /\ company'[call'[q].user].by = "save"
        /\ \A c : c = call'[q].user => Told("COMPANY_PROFILE_CREATED", c)' = {}
        /\ \A p \in Requests : pc'[p] = "save.event" /\ call'[p].user = call'[q].user => p = q
  BY <1>4
<1> QED
  BY <1>2, <1>5, <1>6, <1>7, NextMembers DEF CreationInv, Told

\* The row that a deletion is about stays, and it is the one it deletes.
LEMMA DeletesTarget ==
  ASSUME IInv, NEW r \in Requests, DeleteWrite(r)
  PROVE  /\ pc[r] = "delete.write" /\ pc'[r] = "delete.event" /\ call' = call /\ log' = log
         /\ \/ /\ call[r].op = "deleteCompany" /\ call[r].target \in DOMAIN company
               /\ user' = user /\ DOMAIN company' = DOMAIN company /\ company'[call[r].target].deleted
               /\ \A c \in DOMAIN company \ {call[r].target} : company'[c] = company[c]
            \/ /\ call[r].op = "deleteStudent" /\ call[r].target \in DOMAIN user
               /\ company' = company /\ DOMAIN user' = DOMAIN user /\ user'[call[r].target].deleted
               /\ \A u \in DOMAIN user \ {call[r].target} : user'[u] = user[u]
<1>1. /\ pc \in [Requests -> PCs] /\ user \in [DOMAIN user -> User]
      /\ company \in [DOMAIN company -> CompanyProfile]
  BY Types DEF IInv, UsersOK, CompaniesOK
<1>2. pc[r] = "delete.write" /\ pc'[r] = "delete.event" /\ call' = call /\ log' = log
  BY <1>1 DEF DeleteWrite, Goto
<1>3. Started(r)
  BY <1>2 DEF IInv, RequestsRemember, Remembers, Busy, Results
<1>4. CASE call[r].op = "deleteCompany"
  BY <1>1, <1>2, <1>3, <1>4 DEF DeleteWrite, Started, DeleteAt, CompanyProfile
<1>5. CASE call[r].op = "deleteStudent"
  BY <1>1, <1>2, <1>3, <1>5 DEF DeleteWrite, Started, DeleteAt, User
<1> QED
  BY <1>3, <1>2, <1>4, <1>5 DEF Started, DeleteAt

\* A deletion is reported, or about to be, and nothing else is.
LEMMA NextDeletion ==
  ASSUME IInv, DeletionInv, Watch, NEW r \in Requests, Stepping(r)
  PROVE  DeletionInv'
<1>1. OnlyCallOf(r) /\ pc \in [Requests -> PCs] /\ log \subseteq log'
  BY OneStep, LogMoves, Types DEF IInv
<1>2. \A c \in DOMAIN company' : company'[c].deleted =>
        \/ c \in DOMAIN company /\ company[c].deleted
        \/ Reporting(r, "deleteCompany", c)'
  BY TablesMove, DeletesTarget DEF Reporting
<1>3. \A u \in DOMAIN user' : user'[u].deleted =>
        \/ u \in DOMAIN user /\ user[u].deleted
        \/ Reporting(r, "deleteStudent", u)'
  <2>1. CASE DeleteWrite(r)
    BY <2>1, DeletesTarget DEF Reporting
  <2>2. CASE SignupCreate(r)
    BY <2>2 DEF SignupCreate, Insert, NewUser
  <2>3. CASE BootstrapCreate(r)
    BY <2>3 DEF BootstrapCreate, Insert, NewUser
  <2>4. CASE user' = user
    BY <2>4
  <2> QED
    BY <2>1, <2>2, <2>3, <2>4, TablesMove
<1>4. ASSUME NEW op \in {"deleteCompany", "deleteStudent"}, NEW x,
             Told(DeletionType(op), x) # {} \/ \E q \in Requests : Reporting(q, op, x)
      PROVE  Told(DeletionType(op), x)' # {} \/ \E q \in Requests : Reporting(q, op, x)'
  <2>1. CASE Told(DeletionType(op), x) # {}
    BY <1>1, <2>1 DEF Told, DeletionType
  <2>2. ASSUME NEW q \in Requests, Reporting(q, op, x)
        PROVE  Told(DeletionType(op), x)' # {} \/ Reporting(q, op, x)'
    <3>1. CASE q # r
      BY <1>1, <2>2, <3>1 DEF OnlyCallOf, Reporting
    <3>2. CASE q = r
      <4>1. [type |-> DeletionType(op), entity |-> x, actor |-> call[r].user, by |-> r] \in log'
        BY <2>2, <3>2, ByStatement DEF Reporting, DeleteRecord, Record
      <4> QED
        BY <4>1 DEF Told, DeletionType
    <3> QED
      BY <3>1, <3>2
  <2> QED
    BY <1>4, <2>1, <2>2
<1>5. \A c \in DOMAIN company' : company'[c].deleted =>
        Told("COMPANY_SOFT_DELETED", c)' # {} \/ \E q \in Requests : Reporting(q, "deleteCompany", c)'
  <2>1. DeletionType("deleteCompany") = "COMPANY_SOFT_DELETED"
    BY DEF DeletionType
  <2> QED
    BY <1>2, <1>4, <2>1 DEF DeletionInv
<1>6. \A u \in DOMAIN user' : user'[u].deleted =>
        Told("STUDENT_SOFT_DELETED", u)' # {} \/ \E q \in Requests : Reporting(q, "deleteStudent", u)'
  <2>1. DeletionType("deleteStudent") = "STUDENT_SOFT_DELETED"
    BY DEF DeletionType
  <2> QED
    BY <1>3, <1>4, <2>1 DEF DeletionInv
<1>7. \A e \in log' :
        /\ e.type = "COMPANY_SOFT_DELETED" => e.entity \in DOMAIN company' /\ company'[e.entity].deleted
        /\ e.type = "STUDENT_SOFT_DELETED" => e.entity \in DOMAIN user' /\ user'[e.entity].deleted
  <2> SUFFICES ASSUME NEW e \in log'
               PROVE  /\ e.type = "COMPANY_SOFT_DELETED" => e.entity \in DOMAIN company' /\ company'[e.entity].deleted
                      /\ e.type = "STUDENT_SOFT_DELETED" => e.entity \in DOMAIN user' /\ user'[e.entity].deleted
    OBVIOUS
  <2>1. CASE e \in log
    BY <2>1, RowsStay DEF DeletionInv
  <2>2. CASE DeleteRecord(r) /\ e = [type |-> DeletionType(call[r].op), entity |-> call[r].target,
                                     actor |-> call[r].user, by |-> r]
    <3>1. pc[r] = "delete.event" /\ UNCHANGED <<user, company>> /\ Started(r)
      BY <2>2 DEF DeleteRecord, IInv, RequestsRemember, Remembers, Busy, Results
    <3>2. call[r].op = "deleteCompany" => call[r].target \in DOMAIN company
      BY <3>1 DEF Started, DeleteAt
    <3>3. call[r].op = "deleteStudent" => call[r].target \in DOMAIN user
      BY <3>1 DEF Started, DeleteAt
    <3>4. call[r].op \in {"deleteCompany", "deleteStudent"}
      BY <3>1 DEF Started, DeleteAt
    <3>5. DOMAIN company \subseteq Ids /\ DOMAIN user \subseteq Ids
      BY Types DEF IInv, CompaniesOK, UsersOK
    <3>6. call[r].op = "deleteCompany" => company[call[r].target].deleted
      BY <3>1, <3>2, <3>5 DEF DeletionInv, Reporting
    <3>7. call[r].op = "deleteStudent" => user[call[r].target].deleted
      BY <3>1, <3>3, <3>5 DEF DeletionInv, Reporting
    <3>8. e.type = DeletionType(call[r].op) /\ e.entity = call[r].target
      BY <2>2
    <3> QED
      BY <3>1, <3>2, <3>3, <3>4, <3>6, <3>7, <3>8 DEF DeletionType
  <2>3. CASE e.type \notin {"COMPANY_SOFT_DELETED", "STUDENT_SOFT_DELETED"}
    BY <2>3
  <2> QED
    BY <2>1, <2>2, <2>3, LogMoves DEF SignupType
<1>8. \A q \in Requests :
        /\ \A c \in Ids : Reporting(q, "deleteCompany", c)' => company'[c].deleted
        /\ \A u \in Ids : Reporting(q, "deleteStudent", u)' => user'[u].deleted
  <2> SUFFICES ASSUME NEW q \in Requests, NEW x \in Ids
               PROVE  /\ Reporting(q, "deleteCompany", x)' => company'[x].deleted
                      /\ Reporting(q, "deleteStudent", x)' => user'[x].deleted
    OBVIOUS
  <2>1. CASE q # r
    <3>1. pc'[q] = pc[q] /\ call'[q] = call[q]
      BY <1>1, <2>1 DEF OnlyCallOf
    <3>2. pc[q] = "delete.event" =>
            call[q].target \in IF call[q].op = "deleteCompany" THEN DOMAIN company ELSE DOMAIN user
      BY DEF IInv, RequestsRemember, Remembers, Busy, Results, Started, DeleteAt
    <3> QED
      BY <3>1, <3>2, RowsStay DEF DeletionInv, Reporting
  <2>2. CASE q = r
    <3>1. pc'[r] = "delete.event" => DeleteWrite(r)
      BY ByNextStatement
    <3> QED
      BY <2>2, <3>1, DeletesTarget DEF Reporting
  <2> QED
    BY <2>1, <2>2
<1> QED
  BY <1>5, <1>6, <1>7, <1>8 DEF DeletionInv

LEMMA NextAudited ==
  ASSUME IInv, Audited, [Next]_allvars
  PROVE  Audited'
<1>1. ASSUME Watch, NEW r \in Requests, Stepping(r) PROVE Audited'
  BY <1>1, NextSignup, NextCreation, NextDeletion DEF Audited
<1>2. CASE OtherServices \/ UNCHANGED allvars
  <2>1. UNCHANGED <<user, company, log, mails, pc, call>>
    BY <1>2, OthersMove DEF allvars, vars
  <2> QED
    BY <2>1 DEF Audited, SignupInv, CreationInv, DeletionInv, SignupEvent, WelcomeMail, Told, Reporting
<1> QED
  BY <1>1, <1>2 DEF Next, Stepping

\* At rest nothing is left for a request to report.
LEMMA AuditedAtRest ==
  ASSUME IInv, Audited PROVE AuditAtRest
<1> SUFFICES ASSUME AtRest PROVE AuditAtRest
  BY DEF AuditAtRest
<1>1. \A r \in Requests : pc[r] \notin {"signup.event", "signup.mail", "save.event", "save.mails", "delete.event"}
  BY DEF AtRest, Results
<1>2. ASSUME NEW u \in DOMAIN user \ Members
      PROVE  IF user[u].role = "ADMIN"
               THEN \A e \in log : e.entity = u => e.type \notin {"STUDENT_SIGNUP", "COMPANY_SIGNUP"}
               ELSE LET isStudent == user[u].role = "STUDENT" IN
                    /\ Cardinality(Told(IF isStudent THEN "STUDENT_SIGNUP" ELSE "COMPANY_SIGNUP", u)) = 1
                    /\ \E m \in mails :
                         m.to = u /\ m.template = IF isStudent THEN "studentWelcome" ELSE "companyWelcome"
  <2>1. \A e \in log : e.type \in SignupTypes /\ e.entity = u => user[u].role # "ADMIN" /\ e = SignupEvent(u)
    BY DEF Audited, SignupInv
  <2>2. CASE user[u].role = "ADMIN"
    BY <2>1, <2>2 DEF SignupTypes
  <2>3. CASE user[u].role # "ADMIN"
    <3>1. u \in Requests
      BY Types DEF IInv, UsersOK, Ids
    <3>2. SignupEvent(u) \in log /\ WelcomeMail(u) \in mails
      BY <1>1, <2>3, <3>1 DEF Audited, SignupInv
    <3>3. Told(SignupType(user[u].role), u) = {SignupEvent(u)}
      BY <2>1, <3>2 DEF Told, SignupEvent, SignupType, SignupTypes
    <3>4. Cardinality(Told(SignupType(user[u].role), u)) = 1
      BY <3>3, FS_Singleton
    <3>5. \E m \in mails :
            m.to = u /\ m.template = IF user[u].role = "STUDENT" THEN "studentWelcome" ELSE "companyWelcome"
      BY <3>2 DEF WelcomeMail
    <3> QED
      BY <2>3, <3>4, <3>5 DEF SignupType
  <2> QED
    BY <2>2, <2>3
<1>3. ASSUME NEW c \in DOMAIN company
      PROVE  LET told == Told("COMPANY_PROFILE_CREATED", c) IN
               /\ Cardinality(told) = IF company[c].by = "save" THEN 1 ELSE 0
               /\ \A e \in told, a \in Members : RoleOf[a] = "ADMIN" =>
                    [template |-> "adminCompanyPending", to |-> a, by |-> e.by] \in mails
               /\ company[c].deleted <=> Told("COMPANY_SOFT_DELETED", c) # {}
  <2> DEFINE told == Told("COMPANY_PROFILE_CREATED", c)
  <2>1. told # {} <=> company[c].by = "save"
    BY <1>1 DEF Audited, CreationInv, Told
  <2>2. \A d, e \in told : d = e
    BY DEF Audited, CreationInv, Told
  <2>3. told = {} => Cardinality(told) = 0
    BY FS_EmptySet
  <2>4. told # {} => Cardinality(told) = 1
    <3> SUFFICES ASSUME told # {} PROVE Cardinality(told) = 1
      OBVIOUS
    <3>1. PICK e : told = {e}
      <4> HIDE DEF told
      <4> QED
        BY <2>2
    <3>2. Cardinality({e}) = 1
      BY FS_Singleton
    <3> HIDE DEF told
    <3> QED
      BY <3>1, <3>2
  <2>5. \A e \in told : e.by \in Requests
    BY Types DEF IInv, SideTablesOK, Event, Told
  <2>6. \A e \in told, a \in Members : RoleOf[a] = "ADMIN" =>
          [template |-> "adminCompanyPending", to |-> a, by |-> e.by] \in mails
    BY <1>1, <2>5 DEF Audited, CreationInv, Told
  <2>7. company[c].deleted <=> Told("COMPANY_SOFT_DELETED", c) # {}
    BY <1>1 DEF Audited, DeletionInv, Told, Reporting
  <2> HIDE DEF told
  <2>8. Cardinality(told) = IF company[c].by = "save" THEN 1 ELSE 0
    BY <2>1, <2>3, <2>4
  <2> QED
    BY <2>6, <2>7, <2>8 DEF told
<1>4. \A u \in DOMAIN user : user[u].deleted <=> Told("STUDENT_SOFT_DELETED", u) # {}
  BY <1>1 DEF Audited, DeletionInv, Told, Reporting
<1> QED
  BY <1>2, <1>3, <1>4 DEF AuditAtRest

\* Once no request is under way the audit log and the mails tell what the requests did: each
\* sign-up once with its welcome, each profile born of a save once and to every admin, each
\* deletion, and nothing that did not happen (recordActivityEvent and dispatchEmail after the
\* writes of auth-service.ts, company-service.ts and admin-service.ts).
THEOREM NothingUntold == Spec => []AuditAtRest
<1> QED
  BY InitIInv, StepIInv, InitAudited, NextAudited, AuditedAtRest, PTL DEF Spec

-----------------------------------------------------------------------------
(* What the pages show                                                     *)

\* The companies that an admin has decided about.
Decided == {c \in Ids : approvals[c] # <<>>}

\* Only students have a student's profile, whoever posted has a company's, and the tables
\* have finitely many rows.
ShownInv ==
  /\ \A u \in DOMAIN student : user[u].role = "STUDENT"
  /\ \A j \in Jobs : PostedBy[j] \in DOMAIN company
  /\ IsFiniteSet(DOMAIN student) /\ IsFiniteSet(DOMAIN company)
  /\ IsFiniteSet(log) /\ IsFiniteSet(Decided)

LEMMA InitShown == Init => ShownInv
<1> SUFFICES ASSUME Init PROVE ShownInv
  OBVIOUS
<1>1. PICK S \in SUBSET {m \in Members : RoleOf[m] = "STUDENT"} : student \in [S -> StudentProfile]
  BY DEF Init
<1>2. IsFiniteSet(DOMAIN student)
  BY <1>1, FS_Subset, RowsAssumption
<1>3. \A u \in DOMAIN student : user[u].role = "STUDENT"
  BY <1>1 DEF Init, NewUser
<1>4. \A j \in Jobs : PostedBy[j] \in DOMAIN company
  BY DEF Init
<1>5. IsFiniteSet(DOMAIN company)
  <2>1. DOMAIN company \subseteq Members
    BY PostedByAssumption DEF Init, Rowless
  <2> QED
    BY <2>1, FS_Subset, RowsAssumption
<1>6. IsFiniteSet(log)
  BY FS_EmptySet DEF Init
<1>7. IsFiniteSet(Decided)
  <2>1. PICK a \in Members : approvals = [c \in Ids |->
          IF c \in DOMAIN company /\ company[c].approval # "PENDING"
            THEN <<[from |-> "PENDING", to |-> company[c].approval, actor |-> a]>>
            ELSE <<>>]
    BY DEF Init
  <2>2. \A c \in Ids : c \notin DOMAIN company => approvals[c] = <<>>
    BY <2>1
  <2>3. Decided \in SUBSET DOMAIN company
    BY <2>2 DEF Decided
  <2> QED
    BY <1>5, <2>3, FS_Subset
<1> QED
  BY <1>2, <1>3, <1>4, <1>5, <1>6, <1>7 DEF ShownInv

\* Only a decision is entered in the history of decisions.
LEMMA ApprovalsMove ==
  ASSUME IInv, NEW r \in Requests, Stepping(r) PROVE approvals' = approvals \/ ApproveCommit(r)
<1> USE DEF tables
<1>1. CASE \E op \in Ops : Arrive(r, op)
  BY <1>1, ArrivalMoves
<1>2. CASE AdvanceAccount(r)
  BY <1>2 DEF AdvanceAccount, SignupCreate, SignupRecord, SignupWelcome, SignupSignIn, BootstrapCreate, BootstrapRequery
<1>3. CASE AdvanceCompany(r)
  BY <1>3 DEF AdvanceCompany, SaveSearchSlug, SaveCreate, SaveUpdate, SaveRecord, SaveNotifyAdmins, LogoPut, LogoRemove,
     LogoRead, LogoSearchSlug, SearchSlug, LogoCreate, LogoUpdate, LogoCleanup
<1>4. CASE AdvanceAdministration(r)
  BY <1>4 DEF AdvanceAdministration, ApproveRead, ApproveMail, DeleteRead, DeleteWrite, DeleteRecord, DiagnosticSend
<1>5. CASE AdvanceBoard(r)
  BY <1>5 DEF AdvanceBoard, SaveJobGate, SaveJobExisting, SaveJobCreate, UnsaveJobDelete
<1> QED
  BY <1>1, <1>2, <1>3, <1>4, <1>5 DEF Stepping, Advance

\* A step adds at most one row to a table.
LEMMA TablesStayFinite ==
  ASSUME IInv, ShownInv, NEW r \in Requests, Stepping(r)
  PROVE  IsFiniteSet(DOMAIN company') /\ IsFiniteSet(log') /\ IsFiniteSet(Decided')
<1> USE DEF ShownInv
<1>1. DOMAIN company' = DOMAIN company \/ \E c : DOMAIN company' = DOMAIN company \union {c}
  <2>1. SaveCreate(r) \/ LogoCreate(r) =>
          DOMAIN company' = DOMAIN company \/ DOMAIN company' = DOMAIN company \union {call[r].user}
    BY DEF SaveCreate, LogoCreate, Insert
  <2> QED
    BY <2>1, TablesMove
<1>2. log' = log \/ \E e : log' = log \union {e}
  BY TablesMove DEF SignupRecord, SaveRecord, DeleteRecord, Record
<1>3. Decided' \subseteq Decided \/ \E c : Decided' \subseteq Decided \union {c}
  <2>1. CASE approvals' = approvals
    BY <2>1 DEF Decided
  <2>2. CASE ApproveCommit(r)
    <3>1. approvals \in [Ids -> Seq(ApprovalEvent)]
      BY Types DEF IInv
    <3>2. approvals' = [approvals EXCEPT ![call[r].target] = Append(@, ApprovalEventOf(call[r]))]
      BY <2>2 DEF ApproveCommit
    <3>3. \A c \in Ids : c # call[r].target => approvals'[c] = approvals[c]
      BY <3>1, <3>2
    <3> QED
      BY <3>3 DEF Decided
  <2> QED
    BY <2>1, <2>2, ApprovalsMove
<1>4. IsFiniteSet(DOMAIN company')
  BY <1>1, FS_AddElement
<1>5. IsFiniteSet(log')
  BY <1>2, FS_AddElement
<1>6. IsFiniteSet(Decided')
  BY <1>3, FS_AddElement, FS_Subset
<1> QED
  BY <1>4, <1>5, <1>6

\* No request writes the students' profiles.
LEMMA StudentsStay ==
  ASSUME NEW r \in Requests, Stepping(r) PROVE student' = student
<1> USE DEF tables
<1>1. CASE \E op \in Ops : Arrive(r, op)
  BY <1>1 DEF Arrive, Signup, Login, Bootstrap, Save, UploadLogo, DeleteLogo, Approve, DeleteCompany, DeleteStudent,
     Diagnostic, Administer, SaveJob, UnsaveJob
<1>2. CASE AdvanceAccount(r)
  BY <1>2 DEF AdvanceAccount, SignupCreate, SignupRecord, SignupWelcome, SignupSignIn, BootstrapCreate, BootstrapRequery
<1>3. CASE AdvanceCompany(r)
  BY <1>3 DEF AdvanceCompany, SaveSearchSlug, SaveCreate, SaveUpdate, SaveRecord, SaveNotifyAdmins, LogoPut, LogoRemove,
     LogoRead, LogoSearchSlug, SearchSlug, LogoCreate, LogoUpdate, LogoCleanup
<1>4. CASE AdvanceAdministration(r)
  BY <1>4 DEF AdvanceAdministration, ApproveRead, ApproveCommit, ApproveMail, DeleteRead, DeleteWrite, DeleteRecord,
     DiagnosticSend
<1>5. CASE AdvanceBoard(r)
  BY <1>5 DEF AdvanceBoard, SaveJobGate, SaveJobExisting, SaveJobCreate, UnsaveJobDelete
<1> QED
  BY <1>1, <1>2, <1>3, <1>4, <1>5 DEF Stepping, Advance

LEMMA NextShown ==
  ASSUME IInv, ShownInv, [Next]_allvars
  PROVE  ShownInv'
<1>1. DOMAIN student \subseteq DOMAIN user
  BY Types DEF IInv, SideTablesOK
<1>2. ASSUME NEW r \in Requests, Stepping(r) PROVE ShownInv'
  <2>1. student' = student
    BY <1>2, StudentsStay
  <2>2. \A u \in DOMAIN student : user'[u].role = "STUDENT"
    BY <1>1, <1>2, RowsStay DEF ShownInv
  <2>3. \A j \in Jobs : PostedBy[j] \in DOMAIN company'
    BY <1>2, RowsStay DEF ShownInv
  <2> QED
    BY <1>2, <2>1, <2>2, <2>3, TablesStayFinite DEF ShownInv
<1>3. CASE \E u \in sessions, complete \in BOOLEAN : SaveStudentProfile(u, complete)
  <2>1. PICK u, complete : SaveStudentProfile(u, complete)
    BY <1>3
  <2>2. DOMAIN student' = DOMAIN student \union {u} /\ user[u].role = "STUDENT"
       /\ UNCHANGED <<user, company, log, approvals>>
    BY <2>1 DEF SaveStudentProfile, requireRole, Insert
  <2>3. IsFiniteSet(DOMAIN student \union {u})
    BY FS_AddElement DEF ShownInv
  <2> QED
    BY <2>2, <2>3 DEF ShownInv, Decided
<1>4. CASE \/ \E u \in sessions : Logout(u)
           \/ \E j \in Jobs, row \in JobPosting : SetPosting(j, row)
           \/ UNCHANGED allvars
  <2>1. UNCHANGED <<user, student, company, log, approvals>>
    BY <1>4 DEF Logout, SetPosting, allvars, vars
  <2> QED
    BY <2>1 DEF ShownInv, Decided
<1> QED
  BY <1>2, <1>3, <1>4 DEF Next, Stepping, OtherServices

\* In every state the saved list, the company pages and the dashboard show the postings of the
\* public board, although each states the rule in its own words.
THEOREM RuleAgrees == Spec => []RuleStatedAlike
<1>1. ASSUME ShownInv PROVE RuleStatedAlike
  <2>1. \A j \in Jobs : PostedBy[j] \in DOMAIN company
    BY <1>1 DEF ShownInv
  <2>2. {j \in Jobs : isCurrentlyOpen(j)} = PublicBoard
    BY <2>1 DEF isCurrentlyOpen, PublicBoard, PubliclyVisible, ActiveCompanies
  <2>3. UNION {PublicPage(c) : c \in DOMAIN company} = PublicBoard
    <3>1. ASSUME NEW j \in PublicBoard PROVE j \in PublicPage(PostedBy[j])
      BY <3>1 DEF PublicBoard, PubliclyVisible, PublicPage, HasPublicPage
    <3>2. ASSUME NEW c \in DOMAIN company, NEW j \in PublicPage(c) PROVE j \in PublicBoard
      BY <3>2 DEF PublicBoard, PubliclyVisible, PublicPage, HasPublicPage
    <3> QED
      BY <2>1, <3>1, <3>2 DEF PublicBoard
  <2>4. OpenJobs(None) = PublicBoard
    BY <2>1 DEF OpenJobs, JobsIn, LiveJobs, On, PublicBoard, PubliclyVisible, ActiveCompanies
  <2> QED
    BY <2>2, <2>3, <2>4 DEF RuleStatedAlike
<1> QED
  BY <1>1, InitIInv, StepIInv, InitShown, NextShown, PTL DEF Spec

LEMMA CountsTotal ==
  ASSUME IInv, ShownInv, NEW tag PROVE CountsAreTotals(tag)
<1> USE DEF Admits, Mentions, On
<1>1. \A s \in CompanyApprovalStatus : CompaniesIn(tag, s) = CompanyWhere(CompanyFilter(s, tag))
  BY FilterAssumption DEF CompaniesIn, LiveCompanies, CompanyWhere, CompanyFilter
<1>2. On(tag, DOMAIN student) = StudentWhere(StudentFilter(None, tag))
  BY DEF StudentWhere, StudentFilter, ShownInv
<1>3. /\ IsFiniteSet(On(tag, DOMAIN student))
      /\ {u \in On(tag, DOMAIN student) : ~student[u].complete} = StudentWhere(StudentFilter(FALSE, tag))
  <2>1. student \in [DOMAIN student -> StudentProfile]
    BY Types DEF IInv, SideTablesOK
  <2>2. \A u \in DOMAIN student : student[u].complete \in BOOLEAN
    BY <2>1 DEF StudentProfile
  <2>3. IsFiniteSet(On(tag, DOMAIN student))
    BY FS_Subset DEF ShownInv
  <2> QED
    BY <2>2, <2>3, FilterAssumption DEF StudentWhere, StudentFilter, ShownInv
<1>4. Cardinality(On(tag, DOMAIN student)) - Cardinality({u \in On(tag, DOMAIN student) : student[u].complete})
        = Cardinality({u \in On(tag, DOMAIN student) : ~student[u].complete})
  <2> DEFINE S == On(tag, DOMAIN student)
             C == {u \in S : student[u].complete}
             D == {u \in S : ~student[u].complete}
  <2>1. IsFiniteSet(S) /\ C \in SUBSET S /\ D \in SUBSET S /\ C \union D = S /\ C \intersect D = {}
    BY <1>3
  <2> HIDE DEF S, C, D
  <2>2. IsFiniteSet(C) /\ IsFiniteSet(D)
    BY <2>1, FS_Subset
  <2>3. Cardinality(S) = Cardinality(C) + Cardinality(D) - Cardinality({})
    BY <2>1, <2>2, FS_Union
  <2>4. Cardinality({}) = 0 /\ Cardinality(C) \in Nat /\ Cardinality(D) \in Nat
    BY <2>2, FS_EmptySet, FS_CardinalityType
  <2>5. Cardinality(S) - Cardinality(C) = Cardinality(D)
    BY <2>3, <2>4
  <2> QED
    BY <2>5 DEF S, C, D
<1>5. \A s \in JobPostingStatus : JobsIn(tag, s) = JobWhere(JobFilter(s, tag))
  BY FilterAssumption DEF JobsIn, LiveJobs, JobWhere, JobFilter
<1>6. \A s \in ApplicationStatus :
        {a \in ApplicationsOn(tag) : a.status = s} = ApplicationWhere(ApplicationFilter(s, tag))
  BY FilterAssumption DEF ApplicationsOn, ApplicationWhere, ApplicationFilter
<1> HIDE DEF Admits, Mentions, On
<1> QED
  BY <1>1, <1>2, <1>3, <1>4, <1>5, <1>6 DEF CountsAreTotals, Overview

\* A posting is in one of the two sets only.
LEMMA AlertDisjoint ==
  ASSUME NEW tag PROVE AlertWithinFunnel(tag)
<1> DEFINE P == JobsIn(tag, "PUBLISHED")
           A == JobsWithApplicants(tag)
           Z == {j \in P : PublishedDaysAgo[j] >= 14 /\ ApplicationsTo(j) = {}}
<1>1. P \subseteq Jobs /\ A \subseteq P /\ Z \subseteq P /\ A \intersect Z = {}
  BY DEF JobsIn, LiveJobs, On, JobsWithApplicants
<1>2. /\ Funnel(tag, Overview(tag)).jobPostingsWithAtLeastOneApplicant = Cardinality(A)
      /\ Alerts(tag).jobPostingsZeroApplicantsAfter14Days = Cardinality(Z)
      /\ Funnel(tag, Overview(tag)).publishedJobPostings = Cardinality(P)
  BY DEF Funnel, Alerts, Overview, JobPostingStatus
<1> HIDE DEF P, A, Z
<1>3. IsFiniteSet(P) /\ IsFiniteSet(A) /\ IsFiniteSet(Z)
  BY <1>1, FS_Subset, RowsAssumption
<1>4. /\ Cardinality(A) \in Nat /\ Cardinality(Z) \in Nat /\ Cardinality(P) \in Nat /\ Cardinality({}) = 0
      /\ Cardinality(A \union Z) = Cardinality(A) + Cardinality(Z) - Cardinality({})
  BY <1>1, <1>3, FS_CardinalityType, FS_EmptySet, FS_Union
<1>5. Cardinality(A \union Z) <= Cardinality(P)
  BY <1>1, <1>3, FS_Subset
<1> QED
  BY <1>2, <1>4, <1>5 DEF AlertWithinFunnel

LEMMA ParticipationPublic ==
  ASSUME NEW tag PROVE ParticipationIsPublic(tag)
<1> SUFFICES ASSUME NEW row \in CompanyParticipation(tag), HasPublicPage(row.company)
             PROVE  row.openJobPostings = Cardinality(PublicPage(row.company))
  BY DEF ParticipationIsPublic
<1> DEFINE Open(c) == {j \in JobsIn(None, "PUBLISHED") : PostedBy[j] = c}
           Row(c) == [company |-> c, openJobPostings |-> Cardinality(Open(c)),
                      totalApplicants |-> Cardinality({a \in Applications : a.job \in Open(c)})]
<1>1. PICK c \in LiveCompanies(tag) : row.company = c /\ row.openJobPostings = Cardinality(Open(c))
  <2>1. CompanyParticipation(tag) = {Row(c) : c \in LiveCompanies(tag)}
    BY DEF CompanyParticipation
  <2>2. \A c : Row(c).company = c /\ Row(c).openJobPostings = Cardinality(Open(c))
    OBVIOUS
  <2> HIDE DEF Row
  <2>3. PICK c \in LiveCompanies(tag) : row = Row(c)
    BY <2>1
  <2> QED
    BY <2>2, <2>3
<1>2. Open(c) = PublicPage(c)
  BY <1>1 DEF JobsIn, LiveJobs, On, PublicPage
<1> QED
  BY <1>1, <1>2

\* A row is counted once, under its kind.
LEMMA TotalOfKinds ==
  ASSUME NEW S, IsFiniteSet(S), NEW K, NEW kind, \A x \in S : kind[x] \in K
  PROVE  Total([k \in K |-> Cardinality({x \in S : kind[x] = k})]) = Cardinality(S)
<1> DEFINE part(k) == {x \in S : kind[x] = k}
           n(k) == Cardinality(part(k))
           count == [k \in K |-> n(k)]
           D == UNION {{k} \X (1..count[k]) : k \in DOMAIN count}
           number == [k \in K |-> CHOOSE g : g \in Bijection(part(k), 1..n(k))]
           f == [x \in S |-> <<kind[x], number[kind[x]][x]>>]
<1>1. \A k \in K : number[k] \in Bijection(part(k), 1..n(k))
  <2> SUFFICES ASSUME NEW k \in K PROVE \E g : g \in Bijection(part(k), 1..n(k))
    OBVIOUS
  <2>1. IsFiniteSet(part(k))
    BY FS_Subset
  <2>2. n(k) \in Nat
    BY <2>1, FS_CardinalityType
  <2>3. IsFiniteSet(1..n(k)) /\ Cardinality(1..n(k)) = n(k)
    BY <2>2, FS_Interval
  <2>4. ExistsBijection(part(k), 1..n(k))
    BY <2>1, <2>3, FS_SameCardinalityBij
  <2> QED
    BY <2>4 DEF ExistsBijection
<1>2. \A d : d \in D <=> \E k \in K : \E i \in 1..n(k) : d = <<k, i>>
  <2>1. DOMAIN count = K /\ \A k \in K : count[k] = n(k)
    OBVIOUS
  <2> HIDE DEF n, count
  <2> QED
    BY <2>1
<1>3. \A x \in S : x \in part(kind[x])
  OBVIOUS
<1>4. \A k \in K : /\ \A x \in part(k) : x \in S /\ kind[x] = k /\ number[k][x] \in 1..n(k)
                   /\ \A x, y \in part(k) : number[k][x] = number[k][y] => x = y
                   /\ \A i \in 1..n(k) : \E x \in part(k) : number[k][x] = i
  <2> SUFFICES ASSUME NEW k \in K
               PROVE  /\ \A x \in part(k) : x \in S /\ kind[x] = k /\ number[k][x] \in 1..n(k)
                      /\ \A x, y \in part(k) : number[k][x] = number[k][y] => x = y
                      /\ \A i \in 1..n(k) : \E x \in part(k) : number[k][x] = i
    OBVIOUS
  <2>1. number[k] \in Bijection(part(k), 1..n(k)) /\ \A x \in part(k) : x \in S /\ kind[x] = k
    BY <1>1
  <2> HIDE DEF n, part, number
  <2> QED
    BY <2>1 DEF Bijection, Injection, Surjection, IsInjective
<1> HIDE DEF n, part, number
<1>5. f \in Bijection(S, D)
  <2>1. f \in [S -> D]
    BY <1>2, <1>3, <1>4
  <2>2. ASSUME NEW x \in S, NEW y \in S, f[x] = f[y] PROVE x = y
    <3>1. kind[x] = kind[y] /\ number[kind[x]][x] = number[kind[y]][y]
      <4>1. \A z \in S : f[z][1] = kind[z] /\ f[z][2] = number[kind[z]][z]
        OBVIOUS
      <4> HIDE DEF f
      <4> QED
        BY <2>2, <4>1
    <3> QED
      BY <1>3, <1>4, <3>1
  <2>3. ASSUME NEW d \in D PROVE \E x \in S : f[x] = d
    <3>1. PICK k \in K : \E i \in 1..n(k) : d = <<k, i>>
      BY <1>2, <2>3
    <3>2. PICK i \in 1..n(k) : d = <<k, i>>
      BY <3>1
    <3>3. PICK x \in part(k) : number[k][x] = i
      BY <1>4
    <3> QED
      BY <1>4, <3>2, <3>3
  <2> QED
    BY <2>1, <2>2, <2>3 DEF Bijection, Injection, IsInjective, Surjection
<1>6. Cardinality(D) = Cardinality(S)
  BY <1>5, FS_Bijection DEF ExistsBijection
<1> QED
  BY <1>6 DEF Total, n, part

\* A list is in the order asked for: some order of the rows is, so the one chosen is.
LEMMA InOrderSorts ==
  ASSUME NEW S, IsFiniteSet(S), NEW key, \A x \in S : key[x][1] \in Int /\ key[x][2] \in Int
  PROVE  /\ InOrder(S, key) \in [1..Cardinality(S) -> S]
         /\ IsInjective(InOrder(S, key))
         /\ \A i, j \in 1..Cardinality(S) : i < j => ~Less(key[InOrder(S, key)[j]], key[InOrder(S, key)[i]])
<1>1. PICK n : n = Cardinality(S) /\ n \in Nat
  BY FS_CardinalityType
<1>2. PICK found : found \in Bijection(1..n, S)
  BY <1>1, FS_CardinalityType DEF ExistsBijection
<1>3. found \in [1..n -> S] /\ \A i, j \in 1..n : found[i] = found[j] => i = j
  BY <1>2 DEF Bijection, Injection, IsInjective
<1> DEFINE Precedes(i, j) == \/ Less(key[found[i]], key[found[j]])
                             \/ ~Less(key[found[j]], key[found[i]]) /\ i <= j
           Until(j) == {i \in 1..n : Precedes(i, j)}
           place == [j \in 1..n |-> Cardinality(Until(j))]
<1>4. \A i, j \in 1..n : /\ Precedes(i, j) \/ Precedes(j, i)
                         /\ Precedes(i, j) /\ Precedes(j, i) => i = j
                         /\ \A k \in 1..n : Precedes(i, j) /\ Precedes(j, k) => Precedes(i, k)
  <2>1. \A i \in 1..n : key[found[i]][1] \in Int /\ key[found[i]][2] \in Int
    BY <1>3
  <2> QED
    BY <1>1, <2>1 DEF Less
<1> HIDE DEF Precedes
<1>5. \A j \in 1..n : /\ IsFiniteSet(Until(j)) /\ j \in Until(j) /\ Until(j) \subseteq 1..n
                      /\ Cardinality(Until(j)) \in 1..n
  <2> SUFFICES ASSUME NEW j \in 1..n
               PROVE  /\ IsFiniteSet(Until(j)) /\ j \in Until(j) /\ Until(j) \subseteq 1..n
                      /\ Cardinality(Until(j)) \in 1..n
    OBVIOUS
  <2>1. j \in Until(j) /\ Until(j) \subseteq 1..n
    BY <1>4
  <2> HIDE DEF Until
  <2>2. IsFiniteSet(1..n) /\ Cardinality(1..n) = n
    BY <1>1, FS_Interval
  <2>3. IsFiniteSet(Until(j)) /\ Cardinality(Until(j)) <= n
    BY <2>1, <2>2, FS_Subset
  <2>4. Cardinality(Until(j)) \in Nat /\ Cardinality(Until(j)) # 0
    BY <2>1, <2>3, FS_CardinalityType, FS_EmptySet
  <2> QED
    BY <1>1, <2>1, <2>3, <2>4
\* The place of a row tells its order.
<1>6. \A i, j \in 1..n : Precedes(i, j) /\ i # j => place[i] < place[j]
  <2> SUFFICES ASSUME NEW i \in 1..n, NEW j \in 1..n, Precedes(i, j), i # j
               PROVE  Cardinality(Until(i)) < Cardinality(Until(j))
    <3> HIDE DEF Until
    <3> QED
      OBVIOUS
  <2>1. Until(i) \subseteq Until(j)
    BY <1>4
  <2>2. j \notin Until(i) /\ j \in Until(j)
    BY <1>4, <1>5
  <2> HIDE DEF Until
  <2>3. IsFiniteSet(Until(j)) /\ Cardinality(Until(i)) \in Nat /\ Cardinality(Until(j)) \in Nat
    <3>1. IsFiniteSet(Until(i)) /\ IsFiniteSet(Until(j))
      BY <1>5
    <3> QED
      BY <3>1, FS_CardinalityType
  <2>4. Cardinality(Until(i)) <= Cardinality(Until(j)) /\ Cardinality(Until(i)) # Cardinality(Until(j))
    BY <2>1, <2>2, <2>3, FS_Subset
  <2> QED
    BY <2>3, <2>4
<1>7. place \in [1..n -> 1..n]
  BY <1>5
<1> HIDE DEF place
<1>8. \A m \in 1..n : \E i \in 1..n : place[i] = m
  <2>1. place \in Injection(1..n, 1..n)
    <3>1. \A i, j \in 1..n : place[i] = place[j] => i = j
      BY <1>4, <1>6, <1>7
    <3> QED
      BY <1>7, <3>1 DEF Injection, IsInjective
  <2>2. place \in Surjection(1..n, 1..n)
    BY <1>1, <2>1, FS_Injection, FS_Interval
  <2> QED
    BY <2>2 DEF Surjection
<1> DEFINE at == [m \in 1..n |-> CHOOSE i \in 1..n : place[i] = m]
           rows == [m \in 1..n |-> found[at[m]]]
<1>9. \A m \in 1..n : at[m] \in 1..n /\ place[at[m]] = m
  BY <1>8
<1> HIDE DEF at
<1>10. rows \in [1..n -> S]
  BY <1>3, <1>9
<1>11. IsInjective(rows)
  <2>1. \A l, m \in 1..n : found[at[l]] = found[at[m]] => l = m
    BY <1>3, <1>9
  <2> QED
    BY <2>1 DEF IsInjective
<1>12. \A l, m \in 1..n : l < m => ~Less(key[rows[m]], key[rows[l]])
  <2> SUFFICES ASSUME NEW l \in 1..n, NEW m \in 1..n, l < m, Less(key[found[at[m]]], key[found[at[l]]]) PROVE FALSE
    OBVIOUS
  <2>1. Precedes(at[m], at[l])
    BY DEF Precedes
  <2>2. m < l
    BY <1>6, <1>9, <2>1
  <2> QED
    BY <2>2
<1> HIDE DEF rows
<1>13. \E r \in [1..n -> S] : IsInjective(r) /\ \A i, j \in DOMAIN r : i < j => ~Less(key[r[j]], key[r[i]])
  <2>1. DOMAIN rows = 1..n
    BY <1>10
  <2> QED
    BY <1>10, <1>11, <1>12, <2>1
<1> DEFINE sorted == InOrder(S, key)
<1>14. sorted \in [1..n -> S] /\ IsInjective(sorted)
       /\ \A i, j \in DOMAIN sorted : i < j => ~Less(key[sorted[j]], key[sorted[i]])
  BY <1>1, <1>13 DEF InOrder
<1> HIDE DEF sorted
<1>15. DOMAIN sorted = 1..n
  BY <1>14
<1> QED
  BY <1>1, <1>14, <1>15 DEF sorted

\* What the m-th page of two rows shows of a list of n rows.
Shows(page, list, n, m) ==
  /\ page.total = n
  /\ Len(page.rows) = SmallerOf(2, LargerOf(0, n - 2 * (m - 1)))
  /\ \A x : x \in ToSet(page.rows) <=> \E i \in 1..n : i \in {2 * m - 1, 2 * m} /\ x = list[i]

LEMMA PageShows ==
  ASSUME NEW S, NEW n \in Nat, NEW list \in [1..n -> S], NEW m \in Nat \ {0}
  PROVE  Shows(Paged(list, PageOfTwo(m)), list, n, m)
<1>1. Len(list) = n
  OBVIOUS
<1> DEFINE p == Clamp(PageOfTwo(m))
<1>2. p.pageSize = 2 /\ Offset(p) = 2 * m - 2
  <2>1. p = [page |-> m, pageSize |-> 2]
    BY DEF Clamp, PageOfTwo, LargerOf, SmallerOf
  <2> QED
    BY <2>1 DEF Offset, LargerOf
<1> HIDE DEF p
<1>3. PICK last \in Int : last = SmallerOf(2 * m, n)
  BY DEF SmallerOf
<1> DEFINE taken == SubSeq(list, 2 * m - 1, last)
<1>4. Paged(list, PageOfTwo(m)) = [rows |-> taken, total |-> n]
  <2>1. Paged(list, PageOfTwo(m)) =
          [rows |-> SubSeq(list, Offset(p) + 1, SmallerOf(Offset(p) + p.pageSize, Len(list))), total |-> Len(list)]
    BY DEF Paged, p
  <2>2. Offset(p) + 1 = 2 * m - 1 /\ Offset(p) + p.pageSize = 2 * m
    BY <1>2
  <2> QED
    BY <1>1, <1>3, <2>1, <2>2
<1>5. /\ taken \in Seq(S)
      /\ Len(taken) = IF 2 * m - 1 <= last THEN last - (2 * m - 1) + 1 ELSE 0
      /\ \A i \in 1..(last - (2 * m - 1) + 1) : taken[i] = list[2 * m - 1 + i - 1]
  <2>1. \A i \in (2 * m - 1)..last : list[i] \in S
    BY <1>3 DEF SmallerOf
  <2> QED
    BY <2>1, SubSeqProperties
<1> HIDE DEF taken
<1>6. Len(taken) = SmallerOf(2, LargerOf(0, n - 2 * (m - 1)))
  BY <1>3, <1>5 DEF SmallerOf, LargerOf
<1>7. DOMAIN taken = 1..Len(taken)
  BY <1>5
<1>8. \A x : x \in ToSet(taken) <=> \E i \in 1..n : i \in {2 * m - 1, 2 * m} /\ x = list[i]
  <2>1. ASSUME NEW i \in DOMAIN taken
        PROVE  2 * m - 2 + i \in 1..n /\ 2 * m - 2 + i \in {2 * m - 1, 2 * m} /\ taken[i] = list[2 * m - 2 + i]
    BY <1>3, <1>5, <1>7 DEF SmallerOf
  <2>2. ASSUME NEW j \in 1..n, j \in {2 * m - 1, 2 * m}
        PROVE  j - (2 * m - 2) \in DOMAIN taken /\ taken[j - (2 * m - 2)] = list[j]
    BY <1>3, <1>5, <1>7, <2>2 DEF SmallerOf
  <2>3. \A x : x \in ToSet(taken) <=> \E i \in DOMAIN taken : x = taken[i]
    BY DEF ToSet
  <2> QED
    BY <2>1, <2>2, <2>3
<1> QED
  BY <1>4, <1>6, <1>8 DEF Shows

\* A page below the first is clamped to the first.
LEMMA BelowFirst ==
  ASSUME NEW list, NEW m \in Int, m < 1
  PROVE  Paged(list, PageOfTwo(m)) = Paged(list, PageOfTwo(1))
<1>1. Clamp(PageOfTwo(m)) = [page |-> 1, pageSize |-> 2] /\ Clamp(PageOfTwo(1)) = [page |-> 1, pageSize |-> 2]
  BY DEF Clamp, PageOfTwo, LargerOf, SmallerOf
<1> QED
  BY <1>1 DEF Paged

\* The pages of a list that has every row hold every row.
LEMMA PagesShowAll ==
  ASSUME NEW S, IsFiniteSet(S), NEW list \in [1..Cardinality(S) -> S], IsInjective(list),
         NEW pages, DOMAIN pages = PageNumbers(S),
         \A m \in PageNumbers(S) : pages[m] = Paged(list, PageOfTwo(m))
  PROVE  PagesCover(S, pages)
<1>1. PICK n : n = Cardinality(S) /\ n \in Nat
  BY FS_CardinalityType
<1>2. list \in [1..n -> S] /\ DOMAIN pages = -1..(n + 1) /\ \A m \in -1..(n + 1) : pages[m] = Paged(list, PageOfTwo(m))
  BY <1>1 DEF PageNumbers
<1>3. \A m \in 1..(n + 1) :
        /\ pages[m].total = n
        /\ Len(pages[m].rows) = SmallerOf(2, LargerOf(0, n - 2 * (m - 1)))
        /\ \A x : x \in ToSet(pages[m].rows) <=> \E i \in 1..n : i \in {2 * m - 1, 2 * m} /\ x = list[i]
  <2>1. \A m \in 1..(n + 1) : m \in Nat \ {0}
    BY <1>1
  <2>2. \A m \in 1..(n + 1) : Shows(pages[m], list, n, m)
    <3> SUFFICES ASSUME NEW m \in 1..(n + 1) PROVE Shows(pages[m], list, n, m)
      OBVIOUS
    <3>1. m \in -1..(n + 1)
      BY <1>1
    <3>2. pages[m] = Paged(list, PageOfTwo(m))
      BY <1>2, <3>1
    <3>3. Shows(Paged(list, PageOfTwo(m)), list, n, m)
      BY <1>1, <1>2, <2>1, PageShows
    <3> QED
      BY <3>2, <3>3
  <2> QED
    BY <2>2 DEF Shows
<1>first. \A m \in -1..(n + 1) : m < 1 => pages[m] = pages[1]
  <2> SUFFICES ASSUME NEW m \in -1..(n + 1), m < 1 PROVE pages[m] = pages[1]
    OBVIOUS
  <2>1. m \in Int /\ 1 \in -1..(n + 1)
    BY <1>1
  <2> QED
    BY <1>2, <2>1, BelowFirst
<1>4. \A x \in S : \E i \in 1..n : list[i] = x
  <2>1. list \in Injection(1..n, S)
    <3>1. DOMAIN list = 1..n
      BY <1>2
    <3> QED
      BY <1>2, <3>1 DEF Injection, IsInjective
  <2>2. list \in Surjection(1..n, S)
    BY <1>1, <2>1, FS_Injection, FS_Interval
  <2> QED
    BY <2>2 DEF Surjection
<1>5. \A i \in 1..n : \E m \in 1..(n + 1) : i \in {2 * m - 1, 2 * m}
  <2> SUFFICES ASSUME NEW i \in 1..n PROVE \E m \in 1..(n + 1) : i \in {2 * m - 1, 2 * m}
    OBVIOUS
  <2>1. PICK d \in Int : d = i \div 2
    BY <1>1
  <2>2. PICK k \in Int : k = i % 2
    BY <1>1
  <2>3. i = 2 * d + k /\ k \in 0..1
    BY <1>1, <2>1, <2>2
  <2>4. CASE k = 0
    <3>1. d \in 1..(n + 1) /\ i = 2 * d
      BY <1>1, <2>3, <2>4
    <3> QED
      BY <3>1
  <2>5. CASE k = 1
    <3>1. d + 1 \in 1..(n + 1) /\ i = 2 * (d + 1) - 1
      BY <1>1, <2>3, <2>5
    <3> QED
      BY <3>1
  <2> QED
    BY <2>3, <2>4, <2>5
<1>6. UNION {ToSet(pages[m].rows) : m \in DOMAIN pages} = S
  <2>1. ASSUME NEW m \in 1..(n + 1) PROVE ToSet(pages[m].rows) \subseteq S
    <3> SUFFICES ASSUME NEW x \in ToSet(pages[m].rows) PROVE x \in S
      OBVIOUS
    <3>1. PICK i \in 1..n : x = list[i]
      BY <1>3, Zenon
    <3> QED
      BY <1>2, <3>1
  <2>3. \A m \in -1..(n + 1) : ToSet(pages[m].rows) \subseteq S
    <3> SUFFICES ASSUME NEW m \in -1..(n + 1) PROVE ToSet(pages[m].rows) \subseteq S
      OBVIOUS
    <3>1. m \in 1..(n + 1) \/ (m < 1 /\ 1 \in 1..(n + 1))
      BY <1>1
    <3> QED
      BY <1>first, <2>1, <3>1
  <2>4. \A m \in 1..(n + 1) : m \in -1..(n + 1)
    BY <1>1
  <2>2. ASSUME NEW x \in S PROVE \E m \in 1..(n + 1) : x \in ToSet(pages[m].rows)
    <3>1. PICK i \in 1..n : list[i] = x
      BY <1>4
    <3>2. PICK m \in 1..(n + 1) : i \in {2 * m - 1, 2 * m}
      BY <1>5
    <3> QED
      BY <1>3, <3>1, <3>2
  <2> QED
    BY <1>2, <2>2, <2>3, <2>4
<1>7. \A m \in -1..(n + 1) :
        /\ pages[m].total = n
        /\ Len(pages[m].rows) = SmallerOf(2, LargerOf(0, n - 2 * (LargerOf(1, m) - 1)))
  <2> SUFFICES ASSUME NEW m \in -1..(n + 1)
               PROVE  /\ pages[m].total = n
                      /\ Len(pages[m].rows) = SmallerOf(2, LargerOf(0, n - 2 * (LargerOf(1, m) - 1)))
    OBVIOUS
  <2>1. CASE m < 1
    <3>1. 1 \in 1..(n + 1) /\ LargerOf(1, m) = 1
      BY <1>1, <2>1 DEF LargerOf
    <3> QED
      BY <1>3, <1>first, <2>1, <3>1
  <2>2. CASE ~(m < 1)
    <3>1. m \in 1..(n + 1) /\ LargerOf(1, m) = m
      BY <1>1, <2>2 DEF LargerOf
    <3> QED
      BY <1>3, <3>1
  <2> QED
    BY <2>1, <2>2
<1>8. \A m \in -1..(n + 1) : m < 1 => pages[m].rows = pages[1].rows
  BY <1>first
<1> QED
  BY <1>1, <1>2, <1>6, <1>7, <1>8 DEF PagesCover

\* The pages of a list in the order of some columns hold every row.
LEMMA SortedPages ==
  ASSUME NEW S, IsFiniteSet(S), NEW key, \A x \in S : key[x][1] \in Int /\ key[x][2] \in Int,
         NEW pages, DOMAIN pages = PageNumbers(S),
         \A m \in PageNumbers(S) : pages[m] = Paged(InOrder(S, key), PageOfTwo(m))
  PROVE  PagesCover(S, pages)
<1>1. InOrder(S, key) \in [1..Cardinality(S) -> S] /\ IsInjective(InOrder(S, key))
  BY InOrderSorts
<1> QED
  BY <1>1, PagesShowAll

\* The pages of a list in no order of their own hold every row too.
LEMMA UnsortedPages ==
  ASSUME NEW S, IsFiniteSet(S), NEW pages, DOMAIN pages = PageNumbers(S),
         \A m \in PageNumbers(S) : pages[m] = Paged(SetToSeq(S), PageOfTwo(m))
  PROVE  PagesCover(S, pages)
<1>1. PICK g : g \in Bijection(1..Cardinality(S), S)
  BY FS_CardinalityType DEF ExistsBijection
<1>2. g \in [1..Cardinality(S) -> S] /\ IsInjective(g)
  BY <1>1 DEF Bijection, Injection
<1>3. SetToSeq(S) \in [1..Cardinality(S) -> S] /\ IsInjective(SetToSeq(S))
  BY <1>2 DEF SetToSeq
<1> QED
  BY <1>3, PagesShowAll

\* The search takes the first rows of the board, sorted by their date.
LEMMA SearchNewest == SearchShowsNewest
<1> DEFINE key == [j \in Jobs |-> <<PublishedDaysAgo[j], 0>>]
           list == InOrder(PublicBoard, key)
           n == Cardinality(PublicBoard)
           last == SmallerOf(MaxListed, n)
           taken == SubSeq(list, 1, last)
<1>1. PublicBoard \subseteq Jobs /\ IsFiniteSet(PublicBoard) /\ n \in Nat
  <2>1. PublicBoard \subseteq Jobs
    BY DEF PublicBoard
  <2> QED
    BY <2>1, RowsAssumption, FS_Subset, FS_CardinalityType
<1>2. PublicWhere(None) = PublicBoard
  BY DEF PublicWhere, Mentions
<1>3. \A j \in Jobs : key[j] = <<PublishedDaysAgo[j], 0>> /\ PublishedDaysAgo[j] \in Nat
  BY DatesAssumption
<1>4. \A j \in PublicBoard : key[j][1] \in Int /\ key[j][2] \in Int
  BY <1>1, <1>3
<1>5. /\ list \in [1..n -> PublicBoard] /\ IsInjective(list)
      /\ \A i, j \in 1..n : i < j => ~Less(key[list[j]], key[list[i]])
  BY <1>1, <1>4, InOrderSorts
<1>6. searchPublicJobPostings(None) = taken /\ countPublicJobPostings(None) = n
  <2>1. Len(list) = n
    BY <1>1, <1>5
  <2> QED
    BY <1>2, <2>1 DEF searchPublicJobPostings, countPublicJobPostings
<1> HIDE DEF key, list, n
<1>7. last \in 0..n /\ last \in Int /\ \A i \in 1..last : i \in 1..n
  BY <1>1, MaxListedAssumption DEF SmallerOf
<1> HIDE DEF last
<1>8. /\ taken \in Seq(PublicBoard) /\ Len(taken) = last
      /\ \A i \in 1..last : taken[i] = list[i]
  <2>1. \A i \in 1..last : list[i] \in PublicBoard
    BY <1>5, <1>7
  <2>2. /\ taken \in Seq(PublicBoard)
        /\ Len(taken) = IF 1 <= last THEN last - 1 + 1 ELSE 0
        /\ \A i \in 1..(last - 1 + 1) : taken[i] = list[1 + i - 1]
    BY <1>7, <2>1, SubSeqProperties
  <2> QED
    BY <1>7, <2>2
<1> DEFINE listed == ToSet(taken)
<1>9. \A x : x \in listed <=> \E i \in 1..last : x = list[i]
  <2>1. DOMAIN taken = 1..last
    BY <1>8
  <2> QED
    BY <1>8, <2>1 DEF ToSet
<1> HIDE DEF taken, listed
<1>10. listed \subseteq PublicBoard
  BY <1>5, <1>7, <1>9
<1>11. Cardinality(listed) = last
  <2> DEFINE f == [i \in 1..last |-> list[i]]
  <2>1. f \in Bijection(1..last, listed)
    <3>1. \A i \in 1..last : i \in DOMAIN list
      BY <1>5, <1>7
    <3>2. \A i, j \in 1..last : f[i] = f[j] => i = j
      BY <1>5, <3>1 DEF IsInjective
    <3> QED
      BY <1>9, <3>2 DEF Bijection, Injection, Surjection, IsInjective
  <2>2. IsFiniteSet(1..last) /\ Cardinality(1..last) = last
    BY <1>7, FS_Interval
  <2> QED
    BY <2>1, <2>2, FS_Bijection DEF ExistsBijection
<1>12. ASSUME NEW i \in listed, NEW j \in PublicBoard, j \notin listed
       PROVE  PublishedDaysAgo[i] <= PublishedDaysAgo[j]
  <2>1. PICK a \in 1..last : i = list[a]
    BY <1>9
  <2>2. PICK b \in 1..n : j = list[b]
    <3>1. list \in Injection(1..n, PublicBoard)
      BY <1>5 DEF Injection
    <3>2. list \in Surjection(1..n, PublicBoard)
      BY <1>1, <3>1, FS_Injection, FS_Interval DEF n
    <3> QED
      BY <3>2 DEF Surjection
  <2>3. b \notin 1..last
    BY <1>9, <1>12, <2>2
  <2>4. a \in 1..n /\ a < b
    BY <1>1, <1>7, <2>3
  <2>5. ~Less(key[j], key[i])
    BY <1>5, <2>1, <2>2, <2>4
  <2>6. i \in Jobs /\ j \in Jobs
    BY <1>1, <1>10
  <2>7. ~Less(<<PublishedDaysAgo[j], 0>>, <<PublishedDaysAgo[i], 0>>)
    BY <1>3, <2>5, <2>6
  <2> QED
    BY <1>3, <2>6, <2>7 DEF Less
<1> QED
  BY <1>6, <1>10, <1>11, <1>12 DEF SearchShowsNewest, listed, last, n

\* The table of activity has finitely many rows: the log, and the decisions.
LEMMA ActivityFinite ==
  ASSUME IInv, ShownInv PROVE IsFiniteSet(Activity)
<1> DEFINE logged == [e \in log |-> [type |-> e.type, entity |-> e.entity, actor |-> e.actor, nth |-> e.by]]
           row(c, n) == [type |-> "COMPANY_APPROVAL_CHANGED", entity |-> c, actor |-> approvals[c][n].actor, nth |-> n]
           rows == [c \in Decided |-> {row(c, n) : n \in DOMAIN approvals[c]}]
<1>1. Activity = {logged[e] : e \in log} \union UNION {rows[c] : c \in Decided}
  <2>1. {logged[e] : e \in log} = {[type |-> e.type, entity |-> e.entity, actor |-> e.actor, nth |-> e.by] : e \in log}
    OBVIOUS
  <2>2. UNION {rows[c] : c \in Decided} = UNION {{row(c, n) : n \in DOMAIN approvals[c]} : c \in Ids}
    <3>1. \A c \in Ids \ Decided : DOMAIN approvals[c] = {}
      BY DEF Decided
    <3>2. \A c \in Decided : c \in Ids /\ rows[c] = {row(c, n) : n \in DOMAIN approvals[c]}
      BY DEF Decided
    <3> HIDE DEF row, rows
    <3> QED
      BY <3>1, <3>2
  <2> QED
    BY <2>1, <2>2 DEF Activity
<1>2. IsFiniteSet({logged[e] : e \in log})
  <2>1. logged \in Surjection(log, {logged[e] : e \in log})
    <3> HIDE DEF logged
    <3>1. DOMAIN logged = log /\ logged = [e \in log |-> logged[e]]
      BY DEF logged
    <3> QED
      BY <3>1 DEF Surjection
  <2> QED
    BY <2>1, FS_Surjection DEF ShownInv
<1>3. \A c \in Decided : IsFiniteSet(rows[c])
  <2> SUFFICES ASSUME NEW c \in Decided PROVE IsFiniteSet(rows[c])
    OBVIOUS
  <2> DEFINE f == [n \in DOMAIN approvals[c] |-> row(c, n)]
  <2>1. approvals[c] \in Seq(ApprovalEvent)
    BY Types DEF IInv, Decided
  <2>2. IsFiniteSet(DOMAIN approvals[c])
    BY <2>1, FS_Interval
  <2>3. f \in Surjection(DOMAIN approvals[c], rows[c])
    <3>1. rows[c] = {row(c, n) : n \in DOMAIN approvals[c]}
      OBVIOUS
    <3> HIDE DEF row, rows
    <3> QED
      BY <3>1 DEF Surjection
  <2> QED
    BY <2>2, <2>3, FS_Surjection
<1>4. IsFiniteSet(UNION {rows[c] : c \in Decided})
  <2>1. rows \in Surjection(Decided, {rows[c] : c \in Decided})
    <3> HIDE DEF rows
    <3>1. DOMAIN rows = Decided /\ rows = [c \in Decided |-> rows[c]]
      BY DEF rows
    <3> QED
      BY <3>1 DEF Surjection
  <2>2. IsFiniteSet({rows[c] : c \in Decided})
    BY <2>1, FS_Surjection DEF ShownInv
  <2> HIDE DEF rows
  <2> QED
    BY <1>3, <2>2, FS_UNION
<1> QED
  BY <1>1, <1>2, <1>4, FS_Union

\* The tables that the pages read are finite, and their columns compare as numbers.
LEMMA ColumnsTyped ==
  ASSUME IInv, ShownInv
  PROVE  /\ \A c \in DOMAIN company : company[c].approval \in CompanyApprovalStatus
         /\ \A u \in DOMAIN student : student[u].complete \in BOOLEAN
         /\ \A j \in Jobs : posting[j].status \in JobPostingStatus
         /\ \A s \in CompanyApprovalStatus : Rank[s] \in Int
         /\ \A s \in JobPostingStatus : StatusRank[s] \in Int
<1>1. \A c \in DOMAIN company : company[c].approval \in CompanyApprovalStatus
  BY Types DEF IInv, CompaniesOK, CompanyProfile
<1>2. \A u \in DOMAIN student : student[u].complete \in BOOLEAN
  BY Types DEF IInv, SideTablesOK, StudentProfile
<1>3. \A j \in Jobs : posting[j].status \in JobPostingStatus
  BY Types DEF IInv, SideTablesOK, JobPosting
<1>4. \A s \in CompanyApprovalStatus : Rank[s] \in Int
  BY DEF Rank, CompanyApprovalStatus
<1>5. \A s \in JobPostingStatus : StatusRank[s] \in Int
  BY DEF StatusRank, JobPostingStatus
<1> QED
  BY <1>1, <1>2, <1>3, <1>4, <1>5

LEMMA CompaniesCovered ==
  ASSUME IInv, ShownInv, NEW f
  PROVE  PagesCover(CompanyWhere(f), [m \in PageNumbers(CompanyWhere(f)) |-> pageCompaniesForAdmin(f, PageOfTwo(m))])
<1> DEFINE S == CompanyWhere(f)
           key == [c \in DOMAIN company |-> <<Rank[company[c].approval], 0>>]
           pages == [m \in PageNumbers(S) |-> pageCompaniesForAdmin(f, PageOfTwo(m))]
<1>1. S \in SUBSET DOMAIN company
  BY DEF CompanyWhere
<1>2. \A c \in S : key[c][1] \in Int /\ key[c][2] \in Int
  BY <1>1, ColumnsTyped
<1>3. \A m \in PageNumbers(S) : pages[m] = Paged(InOrder(S, key), PageOfTwo(m))
  BY DEF pageCompaniesForAdmin
<1>4. IsFiniteSet(S)
  BY <1>1, FS_Subset DEF ShownInv
<1>5. DOMAIN pages = PageNumbers(S)
  OBVIOUS
<1> HIDE DEF S, key, pages
<1>6. PagesCover(S, pages)
  BY <1>2, <1>3, <1>4, <1>5, SortedPages
<1> QED
  BY <1>6 DEF S, pages

LEMMA StudentsCovered ==
  ASSUME IInv, ShownInv, NEW f
  PROVE  PagesCover(StudentWhere(f), [m \in PageNumbers(StudentWhere(f)) |-> pageStudentsForAdmin(f, PageOfTwo(m))])
<1> DEFINE S == StudentWhere(f)
           key == [u \in DOMAIN student |-> <<IF student[u].complete THEN 1 ELSE 0, 0>>]
           pages == [m \in PageNumbers(S) |-> pageStudentsForAdmin(f, PageOfTwo(m))]
<1>1. S \in SUBSET DOMAIN student
  BY DEF StudentWhere
<1>2. \A u \in S : key[u][1] \in Int /\ key[u][2] \in Int
  BY <1>1
<1>3. \A m \in PageNumbers(S) : pages[m] = Paged(InOrder(S, key), PageOfTwo(m))
  BY DEF pageStudentsForAdmin
<1>4. IsFiniteSet(S)
  BY <1>1, FS_Subset DEF ShownInv
<1>5. DOMAIN pages = PageNumbers(S)
  OBVIOUS
<1> HIDE DEF S, key, pages
<1>6. PagesCover(S, pages)
  BY <1>2, <1>3, <1>4, <1>5, SortedPages
<1> QED
  BY <1>6 DEF S, pages

LEMMA JobsCovered ==
  ASSUME IInv, ShownInv, NEW f
  PROVE  PagesCover(JobWhere(f), [m \in PageNumbers(JobWhere(f)) |-> pageJobPostingsForAdmin(f, PageOfTwo(m))])
<1> DEFINE S == JobWhere(f)
           key == [j \in Jobs |-> <<StatusRank[posting[j].status], PublishedDaysAgo[j]>>]
           pages == [m \in PageNumbers(S) |-> pageJobPostingsForAdmin(f, PageOfTwo(m))]
<1>1. S \in SUBSET Jobs
  BY DEF JobWhere
<1>2. \A j \in S : key[j][1] \in Int /\ key[j][2] \in Int
  <2>1. \A j \in Jobs : PublishedDaysAgo[j] \in Int
    BY DatesAssumption
  <2> QED
    BY <1>1, <2>1, ColumnsTyped
<1>3. \A m \in PageNumbers(S) : pages[m] = Paged(InOrder(S, key), PageOfTwo(m))
  BY DEF pageJobPostingsForAdmin
<1>4. IsFiniteSet(S)
  BY <1>1, FS_Subset, RowsAssumption
<1>5. DOMAIN pages = PageNumbers(S)
  OBVIOUS
<1> HIDE DEF S, key, pages
<1>6. PagesCover(S, pages)
  BY <1>2, <1>3, <1>4, <1>5, SortedPages
<1> QED
  BY <1>6 DEF S, pages

LEMMA ApplicationsCovered ==
  ASSUME NEW f
  PROVE  PagesCover(ApplicationWhere(f),
                    [m \in PageNumbers(ApplicationWhere(f)) |-> pageApplicationsForAdmin(f, PageOfTwo(m))])
<1> DEFINE S == ApplicationWhere(f)
           key == [a \in Applications |-> <<a.daysAgo, 0>>]
           pages == [m \in PageNumbers(S) |-> pageApplicationsForAdmin(f, PageOfTwo(m))]
<1>1. S \in SUBSET Applications
  BY DEF ApplicationWhere
<1>2. \A a \in S : key[a][1] \in Int /\ key[a][2] \in Int
  BY <1>1, ApplicationsAssumption
<1>3. \A m \in PageNumbers(S) : pages[m] = Paged(InOrder(S, key), PageOfTwo(m))
  BY DEF pageApplicationsForAdmin
<1>4. IsFiniteSet(S)
  BY <1>1, FS_Subset, RowsAssumption
<1>5. DOMAIN pages = PageNumbers(S)
  OBVIOUS
<1> HIDE DEF S, key, pages
<1>6. PagesCover(S, pages)
  BY <1>2, <1>3, <1>4, <1>5, SortedPages
<1> QED
  BY <1>6 DEF S, pages

LEMMA ActivityCovered ==
  ASSUME IInv, ShownInv, NEW f
  PROVE  PagesCover(ActivityWhere(f), [m \in PageNumbers(ActivityWhere(f)) |-> pageActivityForAdmin(f, PageOfTwo(m))])
<1> DEFINE S == ActivityWhere(f)
           pages == [m \in PageNumbers(S) |-> pageActivityForAdmin(f, PageOfTwo(m))]
<1>1. S \in SUBSET Activity
  BY DEF ActivityWhere
<1>2. \A m \in PageNumbers(S) : pages[m] = Paged(SetToSeq(S), PageOfTwo(m))
  BY DEF pageActivityForAdmin
<1>3. IsFiniteSet(S)
  BY <1>1, ActivityFinite, FS_Subset
<1>4. DOMAIN pages = PageNumbers(S)
  OBVIOUS
<1> HIDE DEF S, pages
<1>5. PagesCover(S, pages)
  BY <1>2, <1>3, <1>4, UnsortedPages
<1> QED
  BY <1>5 DEF S, pages

LEMMA PartsTotal ==
  ASSUME IInv, ShownInv, NEW tag PROVE PartsAddUp(tag)
<1> DEFINE approval == [c \in DOMAIN company |-> company[c].approval]
           status == [j \in Jobs |-> posting[j].status]
           stage == [a \in Applications |-> a.status]
           companies == LiveCompanies(tag)
           jobs == LiveJobs(tag)
           applications == ApplicationsOn(tag)
<1>1. companies \in SUBSET DOMAIN company /\ jobs \in SUBSET Jobs /\ applications \in SUBSET Applications
  BY DEF LiveCompanies, LiveJobs, ApplicationsOn, On
<1>2. IsFiniteSet(companies) /\ IsFiniteSet(jobs) /\ IsFiniteSet(applications)
  BY <1>1, FS_Subset, RowsAssumption DEF ShownInv
<1>3. /\ \A c \in companies : approval[c] \in CompanyApprovalStatus
      /\ \A j \in jobs : status[j] \in JobPostingStatus
      /\ \A a \in applications : stage[a] \in ApplicationStatus
  BY <1>1, ColumnsTyped, ApplicationsAssumption
<1>4. /\ \A s : CompaniesIn(tag, s) = {c \in companies : approval[c] = s}
      /\ \A s : JobsIn(tag, s) = {j \in jobs : status[j] = s}
      /\ \A s : {a \in applications : a.status = s} = {a \in applications : stage[a] = s}
  BY <1>1 DEF CompaniesIn, JobsIn
<1> DEFINE byApproval == [s \in CompanyApprovalStatus |-> Cardinality({c \in companies : approval[c] = s})]
           byStatus == [s \in JobPostingStatus |-> Cardinality({j \in jobs : status[j] = s})]
           byStage == [s \in ApplicationStatus |-> Cardinality({a \in applications : stage[a] = s})]
<1>5. /\ Overview(tag).companiesByApproval = byApproval /\ Overview(tag).totalCompanies = Cardinality(companies)
      /\ Overview(tag).jobPostingsByStatus = byStatus /\ Overview(tag).totalJobPostings = Cardinality(jobs)
      /\ Overview(tag).applicationsByStatus = byStage /\ Overview(tag).totalApplications = Cardinality(applications)
  BY <1>4 DEF Overview
<1> HIDE DEF approval, status, stage, companies, jobs, applications
<1>6. Total(byApproval) = Cardinality(companies)
  BY <1>2, <1>3, TotalOfKinds
<1>7. Total(byStatus) = Cardinality(jobs)
  BY <1>2, <1>3, TotalOfKinds
<1>8. Total(byStage) = Cardinality(applications)
  BY <1>2, <1>3, TotalOfKinds
<1> QED
  BY <1>5, <1>6, <1>7, <1>8 DEF PartsAddUp

\* For every program tag the numbers of the dashboard are the totals of the lists they stand
\* above and add up, no posting is counted in the funnel and in its alert, the participation
\* table agrees with the public pages, and no page of a list, nor the search up to its limit,
\* skips or repeats a row (admin-metrics-service.ts, admin-repository.ts, public-job-search.ts).
THEOREM DashboardHolds == Spec => []DashboardAgrees
<1>1. ASSUME IInv, ShownInv, NEW tag PROVE ListsCovered(tag)
  BY <1>1, CompaniesCovered, StudentsCovered, JobsCovered, ApplicationsCovered, ActivityCovered DEF ListsCovered
<1>2. IInv /\ ShownInv => DashboardAgrees
  BY <1>1, CountsTotal, PartsTotal, AlertDisjoint, ParticipationPublic, SearchNewest DEF DashboardAgrees
<1> QED
  BY <1>2, InitIInv, StepIInv, InitShown, NextShown, PTL DEF Spec
=============================================================================
