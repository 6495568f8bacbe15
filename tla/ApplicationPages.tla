--------------------------- MODULE ApplicationPages ---------------------------
(***************************************************************************)
(* What the pages show of the tables of Applications: the applicants list  *)
(* of a company with its buttons, the list of a student with its links,    *)
(* the detail page of a posting with the bypass for applicants, and the    *)
(* call to apply. A page that is rendered in one read of the tables offers *)
(* what the services, asked in that state, would accept: ApplicationsProofs*)
(* has the theorems, for every reachable state. (A button pressed later    *)
(* meets the stale reads of Applications.) The slugs of a posting in an    *)
(* address stand for it: the unique indexes make that one row.             *)
(***************************************************************************)
EXTENDS Applications

\* Who looks: a user of some role, s the student where the role is STUDENT.
ViewerRole == {"GUEST", "STUDENT", "COMPANY", "ADMIN"}

IsActive(a) == apps[a].status \in ACTIVE_APPLICATION_STATUSES

-----------------------------------------------------------------------------
(* The company's applicants                                                *)

listApplicationsForCompany(c) ==
  {a \in DOMAIN apps : /\ ~company[c].deleted
                       /\ CompanyOf[apps[a].job] = c
                       /\ ~posting[apps[a].job].deleted
                       /\ ~student[apps[a].student].deleted}

NEXT_TARGETS == [APPLIED      |-> {"IN_REVIEW", "REJECTED"},
                 IN_REVIEW    |-> {"INTERVIEWING", "REJECTED"},
                 INTERVIEWING |-> {"OFFER", "REJECTED"},
                 OFFER        |-> {"REJECTED"},
                 REJECTED     |-> {"IN_REVIEW", "INTERVIEWING"},
                 WITHDRAWN    |-> {}]

STATUS_GROUPS == {{"APPLIED"}, {"IN_REVIEW"}, {"INTERVIEWING"}, {"OFFER"}, {"REJECTED", "WITHDRAWN"}}

ApplicantRows(c) ==
  {a \in listApplicationsForCompany(c) : \E group \in STATUS_GROUPS : apps[a].status \in group}

\* A button posts the id of the row and its target.
Buttons(c) == {b \in ApplicantRows(c) \X CompanyTransition : b[2] \in NEXT_TARGETS[apps[b[1]].status]}

-----------------------------------------------------------------------------
(* The student's applications                                              *)

listApplicationsForStudent(s) == {a \in DOMAIN apps : apps[a].student = s}

TitleLinked(a) == posting[apps[a].job].published \/ IsActive(a)
WithdrawOffered(s) == {a \in listApplicationsForStudent(s) : IsActive(a)}

-----------------------------------------------------------------------------
(* The page of a posting                                                   *)

getPublicJobPostingBySlugs(j) == IsOpen(j)
getJobPostingBySlugsForBypass(j) == ~posting[j].deleted /\ ~company[CompanyOf[j]].deleted

studentHasActiveApplication(s, j) ==
  \E a \in DOMAIN apps : apps[a].job = j /\ apps[a].student = s /\ IsActive(a)

JobDetailPage(role, s, j) ==
  IF getPublicJobPostingBySlugs(j) THEN "public"
  ELSE IF /\ role = "STUDENT"
          /\ getJobPostingBySlugsForBypass(j)
          /\ studentHasActiveApplication(s, j)
       THEN "bypass"
  ELSE "not found"

SaveToggleShown(role, s, j) == role = "STUDENT" /\ JobDetailPage(role, s, j) = "public"

ApplyCta(role, s, j) ==
  IF role = "GUEST" THEN "log in"
  ELSE IF role # "STUDENT" THEN "students only"
  ELSE IF ~student[s].complete THEN "finish profile"
  ELSE IF HasApplied(j, s) THEN "applied"
  ELSE IF student[s].resume = None THEN "upload resume"
  ELSE "form"

FormShown(role, s, j) == JobDetailPage(role, s, j) # "not found" /\ ApplyCta(role, s, j) = "form"

-----------------------------------------------------------------------------
(* Properties                                                              *)

\* Every button on a company's applicants page is a move the service accepts from that
\* company, and every such move on a listed application has its button: the two tables of
\* moves agree, and no status falls outside the groups of the page
\* (applicant-row.tsx:7-32, applications/page.tsx, application-service.ts:318-436).
ButtonsAreMoves ==
  \A c \in Companies, a \in DOMAIN apps, target \in CompanyTransition :
    <<a, target>> \in Buttons(c)
      <=> a \in listApplicationsForCompany(c) /\ MayTransition([company |-> c, target |-> target], apps[a])

\* The student is offered to withdraw exactly the applications whose withdrawal the service
\* accepts: the two restatements of "active" agree (student applications page:115-131,
\* application-service.ts:519-531).
WithdrawOfferedRight ==
  \A s \in Students, a \in DOMAIN apps : a \in WithdrawOffered(s) <=> MayWithdraw([student |-> s], apps[a])

\* A student who is not deleted sees the form on a posting's page exactly when a submission
\* would pass every read; above all never on the bypass surface, whose visitor has applied
\* (apply-cta.tsx, [jobSlug]/page.tsx:45-76, application-service.ts:92-160).
FormMeansAdmitted ==
  \A s \in Students, j \in Jobs :
    ~student[s].deleted => (FormShown("STUDENT", s, j) <=> MayApply(s) /\ IsOpen(j) /\ ~HasApplied(j, s))

\* Which title links of a student lead to a page: those of postings that still stand, whose
\* company is approved if the application is closed. The comment of the page counts on status
\* alone; a title links to a missing page otherwise. And no plain title hides a page that
\* the student could open, since the student has no second application to open it with
\* (student applications page:74-103, public-job-search.ts:188-201).
LinksLeadToPages ==
  \A s \in Students : \A a \in listApplicationsForStudent(s) :
    LET found == JobDetailPage("STUDENT", s, apps[a].job) # "not found"
        j == apps[a].job
    IN /\ TitleLinked(a) =>
            (found <=> /\ ~posting[j].deleted /\ ~company[CompanyOf[j]].deleted
                       /\ IsActive(a) \/ company[CompanyOf[j]].approved)
       /\ ~TitleLinked(a) => ~found

\* Two readers of the posting's page never see what is withheld from one of them: whoever is
\* not a student with an active application sees exactly the open postings, and whoever is
\* offered to save the posting sees it as the public does ([jobSlug]/page.tsx:52-85).
BypassIsForApplicants ==
  \A s \in Students, j \in Jobs, role \in ViewerRole :
    /\ role # "STUDENT" \/ ~studentHasActiveApplication(s, j)
         => (JobDetailPage(role, s, j) # "not found" <=> IsOpen(j))
    /\ SaveToggleShown(role, s, j) => IsOpen(j)
=============================================================================
