----------------------------- MODULE PostingPages -----------------------------
(***************************************************************************)
(* The pages on which a company manages its postings: the list with its    *)
(* buttons, the edit page, the form with its two ways to submit and its    *)
(* warning. Each is rendered from one read of the tables of JobPostings;   *)
(* the theorems of JobPostingsProofs compare what it offers, in every      *)
(* reachable state, with what the service would answer. (A button pressed  *)
(* later meets the stale reads of JobPostings.)                            *)
(***************************************************************************)
EXTENDS JobPostings

-----------------------------------------------------------------------------
(* Reads                                                                   *)

listJobPostingsForCompany(c) ==
  IF company[c].deleted THEN {}
  ELSE {p \in DOMAIN postings : postings[p].company = c /\ ~postings[p].deleted}

getJobPostingByIdForCompany(c, p) == ~company[c].deleted /\ Owns(c, p)

\* No status, for null, or the one of the profile.
getFreshCompanyApprovalStatus(c) ==
  IF company[c].deleted THEN {} ELSE {IF company[c].approved THEN "APPROVED" ELSE "OTHER"}

-----------------------------------------------------------------------------
(* Pages                                                                   *)

TRANSITIONS_BY_STATUS == [DRAFT     |-> {},
                          PUBLISHED |-> {"PAUSED", "CLOSED"},
                          PAUSED    |-> {"PUBLISHED", "CLOSED"},
                          CLOSED    |-> {"ARCHIVED"},
                          ARCHIVED  |-> {}]

\* The status buttons of the list: a posting and a target.
Buttons(c) ==
  {b \in listJobPostingsForCompany(c) \X TransitionTarget : b[2] \in TRANSITIONS_BY_STATUS[postings[b[1]].status]}

EditPage(c, p) ==
  IF ~getJobPostingByIdForCompany(c, p) THEN "not found"
  ELSE IF postings[p].status \notin {"DRAFT", "PUBLISHED"} THEN "notice"
  ELSE "form"

\* "Save as draft" and "Publish".
SubmitButtons == {"DRAFT", "PUBLISHED"}

PublishWarning(c) == \E status \in getFreshCompanyApprovalStatus(c) : status # "APPROVED"

\* What transitionJobPostingStatus answers when nothing happens between its statements.
Accepts(c, p, target) ==
  /\ ~company[c].deleted /\ Owns(c, p)
  /\ IsAllowed(postings[p].status, target)
  /\ target = "PUBLISHED" => GateOnPublish(c)

-----------------------------------------------------------------------------
(* Properties                                                              *)

\* Every move the service would accept has its button, and a button whose move it refuses,
\* in silence, is the Resume of a company that is not approved: the list does not ask, and
\* unlike the form it does not warn (jobs-list.tsx:12-30, job-posting-service.ts:345-385).
ButtonsAreMoves ==
  \A c \in Companies, p \in DOMAIN postings, target \in TransitionTarget :
    /\ Accepts(c, p, target) => <<p, target>> \in Buttons(c)
    /\ <<p, target>> \in Buttons(c) /\ ~Accepts(c, p, target)
         => target = "PUBLISHED" /\ postings[p].status = "PAUSED" /\ ~company[c].approved

\* A listed posting that is not archived always offers its company a way on, by a button of
\* the list or by the form; drafts have no button, so the form must take them, and paused and
\* closed ones have no form, although its notice sends the company to an admin for them
\* ([id]/edit/page.tsx:30-56, jobs-list.tsx:18-30).
NothingIsStuck ==
  \A c \in Companies : \A p \in listJobPostingsForCompany(c) :
    /\ EditPage(c, p) # "not found"
    /\ EditPage(c, p) = "form" \/ (\E target \in TransitionTarget : <<p, target>> \in Buttons(c))
         <=> postings[p].status # "ARCHIVED"

\* The warning of the form is there exactly when its Publish button would be refused, for
\* whoever can see a form of an existing posting (job-posting-form.tsx:90-98, 271-290,
\* company-approval.ts, job-posting-service.ts:183-190).
WarningIsTrue ==
  \A c \in Companies, p \in DOMAIN postings :
    EditPage(c, p) = "form" => (PublishWarning(c) <=> ~GateOnPublish(c))

\* Submitted in the state it was rendered from, the form never replaces a publication date by
\* another: it is shown for drafts, which have none, and for published postings, whose date an
\* edit keeps. Only a form that went stale can (PublishedAtIsFirst does break in JobPostings).
FreshFormKeepsDate ==
  \A r \in Requests, c \in Companies, p \in DOMAIN postings, status \in SubmitButtons :
    LET submitted == [status |-> status, seen |-> postings[p].status, seenAt |-> postings[p].publishedAt]
    IN EditPage(c, p) = "form" /\ postings[p].publishedAt # None
         => StampOfEdit(r, submitted) \in {postings[p].publishedAt, None}
=============================================================================
