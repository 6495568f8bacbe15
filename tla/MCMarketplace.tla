---------------------------- MODULE MCMarketplace ----------------------------
(* Small instances of Marketplace and Reports for TLC: one initial state    *)
(* per workload and choice of tables; the operations that arrive are those  *)
(* of the workload.                                                         *)
EXTENDS Marketplace, Reports

CONSTANTS a1, s1, c0, c1, c2, c3, new, j1, j2, t1, w1

MCRoleOf == [m \in Members |-> IF m = a1 THEN "ADMIN" ELSE IF m = s1 THEN "STUDENT" ELSE "COMPANY"]
MCEmailOf == [m \in Members |-> m]
MCPostedBy == [j \in Jobs |-> IF j = j1 THEN c0 ELSE c1]
MCTagOf == [x \in Ids \union Jobs |-> IF x \in {c0, s1, j1} THEN t1 ELSE None]
MCTextOf == [x \in Ids \union Jobs |-> {}]
MCPublishedDaysAgo == [j \in Jobs |-> IF j = j1 THEN 20 ELSE 3]
MCDeadlineInDays == [j \in Jobs |-> IF j = j1 THEN 2 ELSE -1]
MCApplications == {[student |-> s1, job |-> j2, status |-> "OFFER", daysAgo |-> 10]}

Workloads ==
  [accounts   |-> {"signup", "bootstrap", "login", "deleteStudent", "diagnostic"},
   companies  |-> {"save", "uploadLogo", "deleteLogo", "deleteCompany"},
   moderation |-> {"approve", "deleteCompany", "save"},
   board      |-> {"saveJob", "unsaveJob", "approve"}]

VARIABLE workload

Row(slug, approval, logo) ==
  [slug |-> slug, approval |-> approval, complete |-> TRUE, logo |-> logo, deleted |-> FALSE, by |-> "before"]
Companies0(w) ==
  LET owners == {PostedBy[j] : j \in Jobs} IN
    {[c \in owners |-> Row(IF c = c0 THEN 1 ELSE 2, approval, IF c = c0 THEN c0 ELSE None)] :
       approval \in IF w \in {"moderation", "board"} THEN {"PENDING", "APPROVED"} ELSE {"PENDING"}}
Students0(w) == IF w = "board" THEN [s \in {s1} |-> [complete |-> TRUE]] ELSE [s \in {} |-> 0]
Postings0(w) ==
  {[j \in Jobs |-> [status |-> IF j = j1 THEN status ELSE "PUBLISHED", deleted |-> FALSE]] :
     status \in IF w = "board" THEN {"PUBLISHED", "CLOSED"} ELSE {"PUBLISHED"}}

MCInit ==
  /\ workload \in DOMAIN Workloads
  /\ company \in Companies0(workload)
  /\ student = Students0(workload)
  /\ posting \in Postings0(workload)
  /\ Init
  /\ \A c \in DOMAIN company : approvals[c] # <<>> => approvals[c][1].actor = a1

MCNext ==
  /\ \/ \E r \in Requests : Advance(r) \/ \E op \in Workloads[workload] : Arrive(r, op)
     \/ workload = "accounts" /\ \E u \in sessions \ {a1, s1} : Logout(u)
     \/ workload = "board" /\ \E u \in sessions, complete \in BOOLEAN : SaveStudentProfile(u, complete)
     \/ workload = "board" /\ \E status \in {"PUBLISHED", "CLOSED"}, deleted \in BOOLEAN :
          SetPosting(j1, [status |-> status, deleted |-> deleted])
  /\ Watch
  /\ UNCHANGED workload

MCSpec == MCInit /\ [][MCNext]_<<allvars, workload>>

Symmetric == Permutations(Requests) \union Permutations({c2, c3})
=============================================================================
