-------------------------------- MODULE Reports --------------------------------
(***************************************************************************)
(* What pages show of the tables: the dashboard of                         *)
(* src/server/services/admin-metrics-service.ts, the filtered and paged    *)
(* lists of admin-repository.ts and activity-repository.ts, and the public *)
(* search. Pure reads, evaluated in the states that the marketplace        *)
(* reaches; tags, texts, dates and applications, which its requests do     *)
(* not write, are constants. Rows that an ORDER BY ties come in some order *)
(* that is the same for every page of a list.                              *)
(***************************************************************************)
EXTENDS Board, SequencesExt

CONSTANTS
  Tags, TagOf,        \* programTag of every user's profile and of every posting, or None
  Words, TextOf,      \* the words that the texts of a user, or of a posting, contain
  PublishedDaysAgo,   \* per posting
  DeadlineInDays,     \* per posting, or None; negative when it has passed
  Applications,       \* records [student, job, status, daysAgo]
  MaxListed           \* how many postings the public search takes, 50 in the code

ApplicationStatus == {"APPLIED", "IN_REVIEW", "INTERVIEWING", "OFFER", "REJECTED", "WITHDRAWN"}

ASSUME TagAssumption == TagOf \in [Ids \union Jobs -> Tags \union {None}] /\ None \notin Tags \union Words
ASSUME TextAssumption == TextOf \in [Ids \union Jobs -> SUBSET Words]
ASSUME DatesAssumption ==
  PublishedDaysAgo \in [Jobs -> Nat] /\ DeadlineInDays \in [Jobs -> Int \union {None}]
ASSUME ApplicationsAssumption ==
  \A a \in Applications :
    a.student \in Members /\ a.job \in Jobs /\ a.status \in ApplicationStatus /\ a.daysAgo \in Nat
ASSUME MaxListedAssumption == MaxListed \in Nat \ {0}
\* A table has finitely many rows, and a filter that is not given is no value of a column.
ASSUME RowsAssumption == IsFiniteSet(Members) /\ IsFiniteSet(Jobs) /\ IsFiniteSet(Applications)
ASSUME FilterAssumption ==
  None \notin CompanyApprovalStatus \union JobPostingStatus \union ApplicationStatus /\ None \notin BOOLEAN

-----------------------------------------------------------------------------
(* Pages                                                                   *)

SmallerOf(m, n) == IF m < n THEN m ELSE n
LargerOf(m, n) == IF m > n THEN m ELSE n

\* The pages asked for are integers, which the truncation of page | 0 leaves alone.
Clamp(p) == [page |-> LargerOf(1, p.page), pageSize |-> LargerOf(1, SmallerOf(100, p.pageSize))]

\* Mutant: the offset counts pages from 0.
OffsetFromZero(p) == p.page * p.pageSize

Offset(p) == LargerOf(0, (p.page - 1) * p.pageSize)

\* The rows of S in the order of their keys, pairs that compare by their first number and
\* then by their second, as two columns of an ORDER BY.
Less(k, l) == k[1] < l[1] \/ (k[1] = l[1] /\ k[2] < l[2])

InOrder(S, key) ==
  CHOOSE rows \in [1..Cardinality(S) -> S] :
    /\ IsInjective(rows)
    /\ \A i, j \in DOMAIN rows : i < j => ~Less(key[rows[j]], key[rows[i]])

\* findMany with skip and take beside count, on all rows in their order.
Paged(rows, pageInput) ==
  LET p == Clamp(pageInput) IN
    [rows |-> SubSeq(rows, Offset(p) + 1, SmallerOf(Offset(p) + p.pageSize, Len(rows))),
     total |-> Len(rows)]

\* Filters are records; a filter that is None is not applied.
Admits(filter, value) == filter = None \/ value = filter
Mentions(q, x) == q = None \/ q \in TextOf[x]

ApplicationsTo(j) == {a \in Applications : a.job = j}

-----------------------------------------------------------------------------
(* admin-repository.ts                                                     *)

CompanyWhere(f) ==
  {c \in DOMAIN company :
     /\ f.includeDeleted \/ ~company[c].deleted
     /\ Admits(f.approvalStatus, company[c].approval)
     /\ Admits(f.programTag, TagOf[c]) /\ Mentions(f.q, c)}

\* An enumeration is ordered as the schema lists it, FALSE comes before TRUE.
Rank == [PENDING |-> 1, APPROVED |-> 2, SUSPENDED |-> 3]
StatusRank == [DRAFT |-> 1, PUBLISHED |-> 2, PAUSED |-> 3, CLOSED |-> 4, ARCHIVED |-> 5]

pageCompaniesForAdmin(f, p) ==
  Paged(InOrder(CompanyWhere(f), [c \in DOMAIN company |-> <<Rank[company[c].approval], 0>>]), p)

StudentWhere(f) ==
  {u \in DOMAIN student :
     /\ user[u].role = "STUDENT" /\ (f.includeDeleted \/ ~user[u].deleted)
     /\ Admits(f.completeness, student[u].complete)
     /\ Admits(f.programTag, TagOf[u]) /\ Mentions(f.q, u)}

pageStudentsForAdmin(f, p) ==
  Paged(InOrder(StudentWhere(f), [u \in DOMAIN student |-> <<IF student[u].complete THEN 1 ELSE 0, 0>>]), p)

JobWhere(f) ==
  {j \in Jobs :
     /\ f.includeDeleted \/ ~posting[j].deleted
     /\ Admits(f.status, posting[j].status) /\ Admits(f.company, PostedBy[j])
     /\ Admits(f.programTag, TagOf[j])
     /\ Mentions(f.q, j) \/ Mentions(f.q, PostedBy[j])}

pageJobPostingsForAdmin(f, p) ==
  Paged(InOrder(JobWhere(f), [j \in Jobs |-> <<StatusRank[posting[j].status], PublishedDaysAgo[j]>>]), p)

ApplicationWhere(f) ==
  {a \in Applications :
     /\ Admits(f.status, a.status) /\ Admits(f.student, a.student) /\ Admits(f.job, a.job)
     /\ Admits(f.company, PostedBy[a.job]) /\ Admits(f.programTag, TagOf[a.job])
     /\ \E x \in {a.student, a.job, PostedBy[a.job]} : Mentions(f.q, x)}

pageApplicationsForAdmin(f, p) ==
  Paged(InOrder(ApplicationWhere(f), [a \in Applications |-> <<a.daysAgo, 0>>]), p)

listCompaniesForFilterDropdown == {c \in DOMAIN company : ~company[c].deleted}

-----------------------------------------------------------------------------
(* activity-repository.ts                                                  *)

EntityType(type) ==
  CASE type \in {"STUDENT_SIGNUP", "COMPANY_SIGNUP", "STUDENT_SOFT_DELETED"} -> "User"
    [] type \in {"COMPANY_PROFILE_CREATED", "COMPANY_SOFT_DELETED", "COMPANY_APPROVAL_CHANGED"} ->
         "CompanyProfile"

\* The ActivityEvents, each with its table position, so that equal events stay apart.
Activity ==
  {[type |-> e.type, entity |-> e.entity, actor |-> e.actor, nth |-> e.by] : e \in log}
  \union UNION {{[type |-> "COMPANY_APPROVAL_CHANGED", entity |-> c,
                  actor |-> approvals[c][n].actor, nth |-> n] : n \in DOMAIN approvals[c]} : c \in Ids}

\* The actor or the affected entity has a profile on the tag.
OnTag(e, tag) ==
  \/ e.actor \in DOMAIN student \union DOMAIN company /\ TagOf[e.actor] = tag
  \/ /\ e.entity \in IF EntityType(e.type) = "User" THEN DOMAIN student ELSE DOMAIN company
     /\ TagOf[e.entity] = tag

ActivityWhere(f) ==
  {e \in Activity :
     /\ Admits(f.eventType, e.type) /\ Admits(f.actor, e.actor) /\ Admits(f.entity, e.entity)
     /\ Admits(f.entityType, EntityType(e.type))
     /\ f.programTag = None \/ OnTag(e, f.programTag)
     /\ Mentions(f.q, e.actor) \/ Mentions(f.q, e.entity)}

pageActivityForAdmin(f, p) == Paged(SetToSeq(ActivityWhere(f)), p)

listActivityEntityTypes == {EntityType(e.type) : e \in Activity}

-----------------------------------------------------------------------------
(* admin-metrics-service.ts; each count is a statement of its own          *)

On(tag, S) == {x \in S : tag = None \/ TagOf[x] = tag}
LiveJobs(tag) == {j \in On(tag, Jobs) : ~posting[j].deleted}
JobsIn(tag, status) == {j \in LiveJobs(tag) : posting[j].status = status}
LiveCompanies(tag) == {c \in On(tag, DOMAIN company) : ~company[c].deleted}
CompaniesIn(tag, approval) == {c \in LiveCompanies(tag) : company[c].approval = approval}
ApplicationsOn(tag) == {a \in Applications : tag = None \/ TagOf[a.job] = tag}
Within(days, S) == {a \in S : a.daysAgo <= days}

\* Mutant: the count of open postings forgets the company.
OpenJobsOfAny(tag) == JobsIn(tag, "PUBLISHED")

\* The visibility rule, stated a third time.
OpenJobs(tag) ==
  {j \in JobsIn(tag, "PUBLISHED") :
     company[PostedBy[j]].approval = "APPROVED" /\ ~company[PostedBy[j]].deleted}

Overview(tag) ==
  LET students == On(tag, DOMAIN student)
      complete == {u \in students : student[u].complete}
      applications == ApplicationsOn(tag)
  IN  [totalStudents |-> Cardinality(students),
       studentsCompleteProfiles |-> Cardinality(complete),
       studentsIncompleteProfiles |-> Cardinality(students) - Cardinality(complete),
       totalCompanies |-> Cardinality(LiveCompanies(tag)),
       companiesByApproval |-> [s \in CompanyApprovalStatus |-> Cardinality(CompaniesIn(tag, s))],
       totalJobPostings |-> Cardinality(LiveJobs(tag)),
       jobPostingsByStatus |-> [s \in JobPostingStatus |-> Cardinality(JobsIn(tag, s))],
       openJobPostings |-> Cardinality(OpenJobs(tag)),
       totalApplications |-> Cardinality(applications),
       applicationsLast |-> [d \in {7, 30, 90} |-> Cardinality(Within(d, applications))],
       applicationsByStatus |->
         [s \in ApplicationStatus |-> Cardinality({a \in applications : a.status = s})]]

JobsWithApplicants(tag) == {j \in JobsIn(tag, "PUBLISHED") : ApplicationsTo(j) # {}}

Funnel(tag, overview) ==
  [publishedJobPostings |-> overview.jobPostingsByStatus["PUBLISHED"],
   jobPostingsWithAtLeastOneApplicant |-> Cardinality(JobsWithApplicants(tag)),
   totalApplications |-> overview.totalApplications,
   stages |-> [s \in {"IN_REVIEW", "INTERVIEWING", "OFFER", "REJECTED"} |->
                 overview.applicationsByStatus[s]]]

Alerts(tag) ==
  LET published == JobsIn(tag, "PUBLISHED") IN
    [pendingCompanies |-> Cardinality(CompaniesIn(tag, "PENDING")),
     draftJobPostings |-> Cardinality(JobsIn(tag, "DRAFT")),
     jobPostingsClosingIn7Days |->
       Cardinality({j \in published : DeadlineInDays[j] # None /\ DeadlineInDays[j] \in 0..7}),
     jobPostingsZeroApplicantsAfter14Days |->
       Cardinality({j \in published : PublishedDaysAgo[j] >= 14 /\ ApplicationsTo(j) = {}})]

MostApplicants == [j \in Jobs |-> <<-Cardinality(ApplicationsTo(j)), 0>>]

TopJobPostings(tag) ==
  LET rows == InOrder(LiveJobs(tag), MostApplicants) IN SubSeq(rows, 1, SmallerOf(10, Len(rows)))

\* openJobPostings is what the column is called: it counts published postings, whatever
\* the approval of their company.
CompanyParticipation(tag) ==
  {LET open == {j \in JobsIn(None, "PUBLISHED") : PostedBy[j] = c} IN
     [company |-> c, openJobPostings |-> Cardinality(open),
      totalApplicants |-> Cardinality({a \in Applications : a.job \in open})] : c \in LiveCompanies(tag)}

RecentActivity == LET rows == SetToSeq(Activity) IN SubSeq(rows, 1, SmallerOf(20, Len(rows)))

listProgramTags == {TagOf[x] : x \in LiveCompanies(None) \union LiveJobs(None)} \ {None}

getAdminDashboard(a, tag) ==
  IF ~ensureAdmin(a) THEN None
  ELSE [overview |-> Overview(tag), funnel |-> Funnel(tag, Overview(tag)), alerts |-> Alerts(tag),
        recentActivity |-> RecentActivity, topJobPostings |-> TopJobPostings(tag),
        companyParticipation |-> CompanyParticipation(tag)]

-----------------------------------------------------------------------------
(* public-job-search.ts                                                    *)

PublicWhere(q) == {j \in PublicBoard : Mentions(q, j)}

\* The newest MaxListed; the count beside the list counts the others too.
searchPublicJobPostings(q) ==
  LET rows == InOrder(PublicWhere(q), [j \in Jobs |-> <<PublishedDaysAgo[j], 0>>]) IN
    SubSeq(rows, 1, SmallerOf(MaxListed, Len(rows)))

countPublicJobPostings(q) == Cardinality(PublicWhere(q))

-----------------------------------------------------------------------------
(* Properties                                                              *)

\* The rule of visibility-service.ts ("Never inline the rule", line 18) is stated again by
\* the saved list, the company page and the dashboard: in every state they show the same
\* postings as the public board.
RuleStatedAlike ==
  /\ {j \in Jobs : isCurrentlyOpen(j)} = PublicBoard
  /\ UNION {PublicPage(c) : c \in DOMAIN company} = PublicBoard
  /\ OpenJobs(None) = PublicBoard

CompanyFilter(approval, tag) ==
  [includeDeleted |-> FALSE, approvalStatus |-> approval, programTag |-> tag, q |-> None]
StudentFilter(complete, tag) ==
  [includeDeleted |-> TRUE, completeness |-> complete, programTag |-> tag, q |-> None]
JobFilter(status, tag) ==
  [includeDeleted |-> FALSE, status |-> status, company |-> None, programTag |-> tag, q |-> None]
ApplicationFilter(status, tag) ==
  [status |-> status, student |-> None, job |-> None, company |-> None, programTag |-> tag, q |-> None]
ActivityFilter(tag) ==
  [eventType |-> None, actor |-> None, entity |-> None, entityType |-> None, programTag |-> tag, q |-> None]

\* Each number of the dashboard is the total of the list it stands above.
CountsAreTotals(tag) ==
  LET o == Overview(tag) IN
    /\ \A s \in CompanyApprovalStatus :
         o.companiesByApproval[s] = Cardinality(CompanyWhere(CompanyFilter(s, tag)))
    /\ o.totalStudents = Cardinality(StudentWhere(StudentFilter(None, tag)))
    /\ o.studentsIncompleteProfiles = Cardinality(StudentWhere(StudentFilter(FALSE, tag)))
    /\ \A s \in JobPostingStatus :
         o.jobPostingsByStatus[s] = Cardinality(JobWhere(JobFilter(s, tag)))
    /\ \A s \in ApplicationStatus :
         o.applicationsByStatus[s] = Cardinality(ApplicationWhere(ApplicationFilter(s, tag)))

\* The sum of the values of a function, a pair for each unit of a value.
Total(f) == Cardinality(UNION {{k} \X (1..f[k]) : k \in DOMAIN f})

PartsAddUp(tag) ==
  LET o == Overview(tag) IN
    /\ Total(o.companiesByApproval) = o.totalCompanies
    /\ Total(o.jobPostingsByStatus) = o.totalJobPostings
    /\ Total(o.applicationsByStatus) = o.totalApplications

\* The postings with applicants and those that the alert calls neglected are different ones.
AlertWithinFunnel(tag) ==
  LET funnel == Funnel(tag, Overview(tag)) IN
    funnel.jobPostingsWithAtLeastOneApplicant + Alerts(tag).jobPostingsZeroApplicantsAfter14Days
      <= funnel.publishedJobPostings

\* The participation table counts the postings that the company's public page shows.
ParticipationIsPublic(tag) ==
  \A row \in CompanyParticipation(tag) : HasPublicPage(row.company) =>
    row.openJobPostings = Cardinality(PublicPage(row.company))

\* The pages of one list hold every row once, and each tells the number of all rows.
PagesCover(S, pages) ==
  /\ UNION {ToSet(pages[n].rows) : n \in DOMAIN pages} = S
  /\ \A n \in DOMAIN pages :
       /\ pages[n].total = Cardinality(S)
       /\ Len(pages[n].rows) = SmallerOf(2, LargerOf(0, Cardinality(S) - 2 * (LargerOf(1, n) - 1)))
       /\ n < 1 => pages[n].rows = pages[1].rows

\* What a URL may ask for: a page below the first, which is the first, as many pages of two
\* rows as there can be, and the empty one after them.
PageNumbers(S) == -1..(Cardinality(S) + 1)
PageOfTwo(n) == [page |-> n, pageSize |-> 2]

ListsCovered(tag) ==
  /\ LET f == CompanyFilter(None, tag)  S == CompanyWhere(f) IN
       PagesCover(S, [n \in PageNumbers(S) |-> pageCompaniesForAdmin(f, PageOfTwo(n))])
  /\ LET f == StudentFilter(None, tag)  S == StudentWhere(f) IN
       PagesCover(S, [n \in PageNumbers(S) |-> pageStudentsForAdmin(f, PageOfTwo(n))])
  /\ LET f == JobFilter(None, tag)  S == JobWhere(f) IN
       PagesCover(S, [n \in PageNumbers(S) |-> pageJobPostingsForAdmin(f, PageOfTwo(n))])
  /\ LET f == ApplicationFilter(None, tag)  S == ApplicationWhere(f) IN
       PagesCover(S, [n \in PageNumbers(S) |-> pageApplicationsForAdmin(f, PageOfTwo(n))])
  /\ LET f == ActivityFilter(tag)  S == ActivityWhere(f) IN
       PagesCover(S, [n \in PageNumbers(S) |-> pageActivityForAdmin(f, PageOfTwo(n))])

\* The public list hides only what exceeds its limit, and none that is newer than one it shows.
SearchShowsNewest ==
  LET listed == ToSet(searchPublicJobPostings(None)) IN
    /\ listed \subseteq PublicBoard
    /\ Cardinality(listed) = SmallerOf(MaxListed, countPublicJobPostings(None))
    /\ \A i \in listed, j \in PublicBoard \ listed : PublishedDaysAgo[i] <= PublishedDaysAgo[j]

\* For every program tag the numbers of the dashboard (admin-metrics-service.ts:171-404) are
\* the totals of the admin lists they stand above: companies and postings without the deleted
\* ones, students with them; no part exceeds its whole, the participation table agrees with
\* the public pages, and paging (admin-repository.ts:37-46) neither skips nor repeats a row;
\* nor does the public search, up to its limit (public-job-search.ts).
DashboardAgrees ==
  /\ \A tag \in Tags \union {None} :
       /\ CountsAreTotals(tag) /\ PartsAddUp(tag) /\ AlertWithinFunnel(tag)
       /\ ParticipationIsPublic(tag) /\ ListsCovered(tag)
  /\ SearchShowsNewest
=============================================================================
