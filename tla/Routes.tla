------------------------------- MODULE Routes --------------------------------
(***************************************************************************)
(* Where a request for a page ends up: the proxy (proxy.ts, the authorized *)
(* callback of lib/auth/config.ts), the guards and redirects of the pages, *)
(* the onboarding decisions they rest on, and the redirects of the server  *)
(* actions. Pure functions of the session and of the profile rows of its   *)
(* user; a page that redirects nowhere is rendered.                        *)
(***************************************************************************)
EXTENDS Naturals, FiniteSets, FiniteSetTheorems, TLAPS

CONSTANT None

UserRole == {"STUDENT", "COMPANY", "ADMIN"}
Session == [role: UserRole] \union {None}

StudentPaths == {"/student/onboarding", "/student/dashboard", "/student/profile",
                 "/student/applications", "/student/saved-job-postings", "/student/messages"}
CompanyPaths == {"/company/onboarding", "/company/dashboard", "/company/profile", "/company/jobs",
                 "/company/jobs/new", "/company/applications", "/company/messages"}
AdminPaths == {"/admin", "/admin/companies", "/admin/students", "/admin/jobs",
               "/admin/applications", "/admin/activity"}
PublicPaths == {"/", "/login", "/signup", "/jobs"}
Paths == StudentPaths \union CompanyPaths \union AdminPaths \union PublicPaths \union {"/post-login"}

-----------------------------------------------------------------------------
(* completeness.ts of the companies, onboarding-service.ts                 *)

REQUIRED_FIELDS == {"companyName", "slug", "industry", "companySize", "headquarters",
                    "shortDescription", "description", "contactEmail"}

\* isFilled of a field is its membership in the set; Math.round rounds halves up.
calculateCompanyCompleteness(filled) ==
  LET satisfied == Cardinality(filled \intersect REQUIRED_FIELDS)
  IN [percent |-> (satisfied * 200 + 8) \div 16,
      missing |-> REQUIRED_FIELDS \ filled,
      isComplete |-> REQUIRED_FIELDS \ filled = {}]

\* The rows of the session's user: isProfileComplete of the student profile, and the filled
\* fields of the company profile that is not soft-deleted. None is no such row.
DB == [student: BOOLEAN \union {None}, company: SUBSET REQUIRED_FIELDS \union {None}]

needsStudentOnboarding(db) == IF db.student = None THEN TRUE ELSE db.student = FALSE
needsCompanyOnboarding(db) ==
  IF db.company = None THEN TRUE ELSE ~calculateCompanyCompleteness(db.company).isComplete

decideLandingFor(role, db) ==
  CASE role = "ADMIN" -> "/admin"
    [] role = "STUDENT" -> IF needsStudentOnboarding(db) THEN "/student/onboarding" ELSE "/student/dashboard"
    [] role = "COMPANY" -> IF needsCompanyOnboarding(db) THEN "/company/onboarding" ELSE "/company/dashboard"

-----------------------------------------------------------------------------
(* The proxy and the pages: where a request is sent, itself if nowhere.    *)

RoleOf(path) ==
  IF path \in StudentPaths THEN "STUDENT"
  ELSE IF path \in CompanyPaths THEN "COMPANY"
  ELSE IF path \in AdminPaths THEN "ADMIN" ELSE None

\* The same three outcomes, in the proxy as in requireRole of every page behind it.
requireRole(session, role, path) ==
  IF session = None THEN "/login" ELSE IF session.role # role THEN "/" ELSE path

authorized(session, path) ==
  IF RoleOf(path) = None THEN path ELSE requireRole(session, RoleOf(path), path)

\* The redirects of the dashboards, the onboarding pages and the new-posting page.
Onboard(db, path) ==
  CASE path = "/student/onboarding" /\ ~needsStudentOnboarding(db) -> "/student/dashboard"
    [] path = "/student/dashboard" /\ needsStudentOnboarding(db) -> "/student/onboarding"
    [] path = "/company/onboarding" /\ ~needsCompanyOnboarding(db) -> "/company/dashboard"
    [] path \in {"/company/dashboard", "/company/jobs/new"} /\ needsCompanyOnboarding(db)
         -> "/company/onboarding"
    [] OTHER -> path

Page(session, db, path) ==
  IF path = "/post-login"
    THEN IF session = None THEN "/login" ELSE decideLandingFor(session.role, db)
  ELSE IF RoleOf(path) # None /\ requireRole(session, RoleOf(path), path) # path
    THEN requireRole(session, RoleOf(path), path)
  ELSE Onboard(db, path)

Visit(session, db, path) ==
  IF authorized(session, path) # path THEN authorized(session, path) ELSE Page(session, db, path)

\* The redirects of the server actions that change who is signed in, or what is complete.
AfterSignup(role) == IF role = "STUDENT" THEN "/student/onboarding" ELSE "/company/onboarding"
AfterLogin == "/post-login"
AfterLogout == "/"
AfterFirstSave(filled) ==
  IF calculateCompanyCompleteness(filled).isComplete THEN "/company/dashboard" ELSE "/company/profile"

-----------------------------------------------------------------------------
(* No request is sent around                                               *)

LEMMA LandingIsOwn ==
  ASSUME NEW role \in UserRole, NEW db \in DB
  PROVE  /\ decideLandingFor(role, db) \in Paths \ {"/post-login"}
         /\ RoleOf(decideLandingFor(role, db)) = role
  BY DEF decideLandingFor, UserRole, RoleOf, Paths, StudentPaths, CompanyPaths, AdminPaths, PublicPaths

\* The pages that send a user on belong to the role of the user they send.
LEMMA OnboardingPaths ==
  /\ \A p \in {"/student/onboarding", "/student/dashboard"} : p \in Paths /\ RoleOf(p) = "STUDENT"
  /\ \A p \in {"/company/onboarding", "/company/dashboard", "/company/jobs/new"} :
        p \in Paths /\ RoleOf(p) = "COMPANY"
<1>1. {"/student/onboarding", "/student/dashboard"} \subseteq StudentPaths
  BY DEF StudentPaths
<1>2. {"/company/onboarding", "/company/dashboard", "/company/jobs/new"} \subseteq CompanyPaths
  BY DEF CompanyPaths
<1>3. \A p \in {"/company/onboarding", "/company/dashboard", "/company/jobs/new"} : p \notin StudentPaths
  BY DEF StudentPaths
<1>4. \A p \in StudentPaths : p \in Paths /\ RoleOf(p) = "STUDENT"
  BY DEF Paths, RoleOf
<1>5. \A p \in CompanyPaths : p \in Paths /\ (p \notin StudentPaths => RoleOf(p) = "COMPANY")
  BY DEF Paths, RoleOf
<1> QED
  BY <1>1, <1>2, <1>3, <1>4, <1>5

LEMMA OnboardOnce ==
  ASSUME NEW db \in DB, NEW path \in Paths, RoleOf(path) # None
  PROVE  /\ Onboard(db, path) \in Paths /\ RoleOf(Onboard(db, path)) = RoleOf(path)
         /\ Onboard(db, Onboard(db, path)) = Onboard(db, path)
<1>3. CASE path \in {"/student/onboarding", "/student/dashboard"}
  <2>1. /\ Onboard(db, path) \in {"/student/onboarding", "/student/dashboard"}
        /\ Onboard(db, Onboard(db, path)) = Onboard(db, path)
    BY <1>3 DEF Onboard
  <2> QED
    BY <1>3, <2>1, OnboardingPaths
<1>4. CASE path \in {"/company/onboarding", "/company/dashboard", "/company/jobs/new"}
  <2>1. /\ Onboard(db, path) \in {"/company/onboarding", "/company/dashboard", "/company/jobs/new"}
        /\ Onboard(db, Onboard(db, path)) = Onboard(db, path)
    BY <1>4 DEF Onboard
  <2> QED
    BY <1>4, <2>1, OnboardingPaths
<1>5. CASE path \notin {"/student/onboarding", "/student/dashboard",
                       "/company/onboarding", "/company/dashboard", "/company/jobs/new"}
  BY <1>5 DEF Onboard
<1> QED
  BY <1>3, <1>4, <1>5

\* A session visits the paths of its role freely, but for the onboarding.
LEMMA OwnPaths ==
  ASSUME NEW session, NEW db, NEW path \in Paths, session # None,
         RoleOf(path) # None, session.role = RoleOf(path)
  PROVE  Visit(session, db, path) = Onboard(db, path)
<1>1. path # "/post-login"
  BY DEF RoleOf, StudentPaths, CompanyPaths, AdminPaths
<1> QED
  BY <1>1 DEF Visit, authorized, requireRole, Page

\* Wherever a visit is sent, the page there renders: the proxy, the pages, the dispatcher and
\* the onboarding service agree, so no chain of redirects has a second hop, let alone a loop
\* (config.ts:29-52, guards.ts:34-50, onboarding-service.ts:34-96 and the pages).
THEOREM OneHop ==
  ASSUME NEW session \in Session, NEW db \in DB, NEW path \in Paths,
         None \notin UserRole, None \notin [role: UserRole]
  PROVE  /\ Visit(session, db, path) \in Paths
         /\ Visit(session, db, Visit(session, db, path)) = Visit(session, db, path)
<1>1. \A p \in {"/login", "/"} : p \in Paths /\ RoleOf(p) = None /\ Visit(session, db, p) = p
  BY DEF Visit, authorized, Page, Onboard, RoleOf,
         Paths, StudentPaths, CompanyPaths, AdminPaths, PublicPaths
<1>2. CASE path = "/post-login"
  <2>1. RoleOf(path) = None
    BY <1>2 DEF RoleOf, StudentPaths, CompanyPaths, AdminPaths
  <2>2. CASE session = None
    BY <1>1, <1>2, <2>1, <2>2 DEF Visit, authorized, Page
  <2>3. CASE session # None
    <3> DEFINE home == decideLandingFor(session.role, db)
    <3>1. session.role \in UserRole /\ session.role # None
      BY <2>3 DEF Session
    <3>2. home \in Paths /\ RoleOf(home) = session.role
      BY <3>1, LandingIsOwn
    <3>3. Visit(session, db, path) = home
      BY <1>2, <2>1, <2>3 DEF Visit, authorized, Page
    <3>4. Onboard(db, home) = home
      <4>1. CASE session.role = "ADMIN"
        BY <4>1 DEF decideLandingFor, Onboard
      <4>2. CASE session.role = "STUDENT"
        BY <4>2 DEF decideLandingFor, Onboard
      <4>3. CASE session.role = "COMPANY"
        BY <4>3 DEF decideLandingFor, Onboard
      <4> QED
        BY <3>1, <4>1, <4>2, <4>3 DEF UserRole
    <3>5. Visit(session, db, home) = home
      BY <2>3, <3>1, <3>2, <3>4, OwnPaths
    <3> QED
      BY <3>2, <3>3, <3>5
  <2> QED
    BY <2>2, <2>3
<1>3. CASE path # "/post-login" /\ RoleOf(path) = None
  <2>1. path \notin StudentPaths \union CompanyPaths
    BY <1>3, None \notin UserRole DEF RoleOf, UserRole
  <2>2. Onboard(db, path) = path
    BY <2>1 DEF Onboard, StudentPaths, CompanyPaths
  <2> QED
    BY <1>3, <2>2 DEF Visit, authorized, Page
<1>4. CASE RoleOf(path) # None /\ (session = None \/ session.role # RoleOf(path))
  <2>1. path \notin {"/login", "/", "/post-login"}
    BY <1>4 DEF RoleOf, StudentPaths, CompanyPaths, AdminPaths
  <2>2. Visit(session, db, path) \in {"/login", "/"}
    BY <1>4, <2>1 DEF Visit, authorized, requireRole
  <2> QED
    BY <1>1, <2>2
<1>5. CASE RoleOf(path) # None /\ session # None /\ session.role = RoleOf(path)
  BY <1>5, OnboardOnce, OwnPaths
<1> QED
  BY <1>2, <1>3, <1>4, <1>5

\* After signing in, a user is sent to the page of the role that fits the state of the
\* profile, and that page renders; a new user, who has no profile yet, is sent by signup to
\* the very page that signing in would choose, as the comment promises
\* (features/auth/actions.ts:15-24, 70, 104; post-login/page.tsx).
THEOREM SignedInLandsAtHome ==
  ASSUME NEW role \in UserRole, NEW db \in DB, None \notin UserRole, None \notin [role: UserRole]
  PROVE  LET session == [role |-> role]
         IN /\ Visit(session, db, AfterLogin) = decideLandingFor(role, db)
            /\ Visit(session, db, decideLandingFor(role, db)) = decideLandingFor(role, db)
            /\ role # "ADMIN" /\ db.student = None /\ db.company = None
                 => AfterSignup(role) = decideLandingFor(role, db)
<1> DEFINE session == [role |-> role]
<1>1. session \in Session /\ session # None /\ AfterLogin \in Paths
  BY DEF Session, AfterLogin, Paths
<1>2. RoleOf(AfterLogin) = None
  BY DEF AfterLogin, RoleOf, StudentPaths, CompanyPaths, AdminPaths
<1>3. Visit(session, db, AfterLogin) = decideLandingFor(role, db)
  BY <1>1, <1>2 DEF Visit, authorized, Page, AfterLogin
<1>4. Visit(session, db, decideLandingFor(role, db)) = decideLandingFor(role, db)
  BY <1>1, <1>3, OneHop
<1>5. role # "ADMIN" /\ db.student = None /\ db.company = None => AfterSignup(role) = decideLandingFor(role, db)
  BY DEF AfterSignup, decideLandingFor, needsStudentOnboarding, needsCompanyOnboarding, UserRole
<1> QED
  BY <1>3, <1>4, <1>5

\* The onboarding page of a company offers "Skip for now", a link to the dashboard
\* (features/companies/onboarding-welcome.tsx:98-100). It leads back to the onboarding page
\* whenever it is there to be clicked: the dashboard asks the same question.
THEOREM SkipForNowReturns ==
  ASSUME NEW db \in DB, None \notin UserRole, None \notin [role: UserRole],
         Visit([role |-> "COMPANY"], db, "/company/onboarding") = "/company/onboarding"
  PROVE  Visit([role |-> "COMPANY"], db, "/company/dashboard") = "/company/onboarding"
<1> DEFINE session == [role |-> "COMPANY"]
<1>1. \A p \in {"/company/onboarding", "/company/dashboard"} :
         p \in Paths /\ RoleOf(p) = "COMPANY"
  BY OnboardingPaths
<1>2. session # None /\ "COMPANY" # None /\ session.role = "COMPANY"
  BY DEF UserRole
<1>3. \A p \in {"/company/onboarding", "/company/dashboard"} : Visit(session, db, p) = Onboard(db, p)
  BY <1>1, <1>2, OwnPaths
<1>4. needsCompanyOnboarding(db)
  BY <1>3 DEF Onboard
<1> QED
  BY <1>3, <1>4 DEF Onboard

\* A redirect of a server action is not undone by the page it names: the first save that
\* completes a company profile, and the first that does not, end on the page that the action
\* chose, and logging out ends on the public front page
\* (features/companies/actions.ts:69-74, features/auth/actions.ts:102-110).
THEOREM ActionsLandWhereTheySay ==
  ASSUME NEW db \in DB, db.company # None, None \notin UserRole, None \notin [role: UserRole]
  PROVE  /\ Visit([role |-> "COMPANY"], db, AfterFirstSave(db.company)) = AfterFirstSave(db.company)
         /\ Visit(None, db, AfterLogout) = AfterLogout
<1> DEFINE session == [role |-> "COMPANY"]
<1>1. "/company/profile" \in Paths /\ RoleOf("/company/profile") = "COMPANY"
  BY DEF Paths, RoleOf, StudentPaths, CompanyPaths
<1>2. session # None /\ "COMPANY" # None /\ session.role = "COMPANY"
  BY DEF UserRole
<1>3. Visit(session, db, "/company/profile") = "/company/profile"
  BY <1>1, <1>2, OwnPaths DEF Onboard
<1>4. calculateCompanyCompleteness(db.company).isComplete
        => Visit(session, db, "/company/dashboard") = "/company/dashboard"
  BY <1>2, OnboardingPaths, OwnPaths DEF Onboard, needsCompanyOnboarding
<1>5. RoleOf(AfterLogout) = None /\ Visit(None, db, AfterLogout) = AfterLogout
  BY DEF AfterLogout, RoleOf, StudentPaths, CompanyPaths, AdminPaths, Visit, authorized, Page, Onboard
<1> QED
  BY <1>3, <1>4, <1>5 DEF AfterFirstSave

\* The meter of a company shows 100 percent exactly when the profile is complete: the rounding
\* of seven fields out of eight does not reach it (completeness.ts:56-76).
THEOREM MeterIsHonest ==
  ASSUME NEW filled \in SUBSET REQUIRED_FIELDS
  PROVE  LET meter == calculateCompanyCompleteness(filled)
         IN /\ meter.percent \in 0..100
            /\ meter.isComplete <=> meter.percent = 100
            /\ meter.isComplete <=> meter.missing = {}
<1> DEFINE k == Cardinality(filled \intersect REQUIRED_FIELDS)
           meter == calculateCompanyCompleteness(filled)
<1>1. IsFiniteSet(REQUIRED_FIELDS) /\ Cardinality(REQUIRED_FIELDS) = 8
  <2>1. IsFiniteSet({"companyName"}) /\ Cardinality({"companyName"}) = 1
    BY FS_Singleton
  <2> DEFINE
         S2 == {"companyName"} \union {"slug"}
         S3 == S2 \union {"industry"}
         S4 == S3 \union {"companySize"}
         S5 == S4 \union {"headquarters"}
         S6 == S5 \union {"shortDescription"}
         S7 == S6 \union {"description"}
         S8 == S7 \union {"contactEmail"}
  <2>2. IsFiniteSet(S2) /\ Cardinality(S2) = 2 /\ S2 = {"companyName", "slug"}
    BY <2>1, FS_AddElement
  <2>3. IsFiniteSet(S3) /\ Cardinality(S3) = 3 /\ S3 = {"companyName", "slug", "industry"}
    BY <2>2, FS_AddElement
  <2>4. IsFiniteSet(S4) /\ Cardinality(S4) = 4 /\ S4 = {"companyName", "slug", "industry", "companySize"}
    BY <2>3, FS_AddElement
  <2>5. IsFiniteSet(S5) /\ Cardinality(S5) = 5 /\ S5 = {"companyName", "slug", "industry", "companySize", "headquarters"}
    BY <2>4, FS_AddElement
  <2>6. IsFiniteSet(S6) /\ Cardinality(S6) = 6 /\ S6 = {"companyName", "slug", "industry", "companySize", "headquarters", "shortDescription"}
    BY <2>5, FS_AddElement
  <2>7. IsFiniteSet(S7) /\ Cardinality(S7) = 7 /\ S7 = {"companyName", "slug", "industry", "companySize", "headquarters", "shortDescription", "description"}
    BY <2>6, FS_AddElement
  <2>8. IsFiniteSet(S8) /\ Cardinality(S8) = 8 /\ S8 = {"companyName", "slug", "industry", "companySize", "headquarters", "shortDescription", "description", "contactEmail"}
    BY <2>7, FS_AddElement
  <2> QED
    BY <2>8 DEF REQUIRED_FIELDS
<1>2. k \in 0..8 /\ (k = 8 <=> REQUIRED_FIELDS \subseteq filled)
  <2>1. filled \intersect REQUIRED_FIELDS \subseteq REQUIRED_FIELDS
    OBVIOUS
  <2>2. k \in Nat /\ k <= 8
    BY <1>1, <2>1, FS_Subset, FS_CardinalityType
  <2>3. k = 8 <=> filled \intersect REQUIRED_FIELDS = REQUIRED_FIELDS
    BY <1>1, <2>1, FS_Subset
  <2> QED
    BY <2>2, <2>3
<1>3. meter.percent = (k * 200 + 8) \div 16 /\ meter.missing = REQUIRED_FIELDS \ filled
      /\ (meter.isComplete <=> REQUIRED_FIELDS \ filled = {})
  BY DEF calculateCompanyCompleteness
<1>4. (k * 200 + 8) \div 16 \in 0..100 /\ ((k * 200 + 8) \div 16 = 100 <=> k = 8)
  <2>1. k \in {0, 1, 2, 3, 4, 5, 6, 7, 8}
    BY <1>2
  <2> HIDE DEF k
  <2> QED
    BY <2>1
<1> HIDE DEF k, meter
<1> QED
  <2>1. REQUIRED_FIELDS \subseteq filled <=> REQUIRED_FIELDS \ filled = {}
    OBVIOUS
  <2>2. /\ meter.percent \in 0..100
        /\ meter.isComplete <=> meter.percent = 100
        /\ meter.isComplete <=> meter.missing = {}
    BY <1>2, <1>3, <1>4, <2>1
  <2> QED
    BY <2>2 DEF meter
=============================================================================
