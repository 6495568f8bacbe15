------------------------------ MODULE Companies ------------------------------
(***************************************************************************)
(* src/server/services/company-service.ts and the actions of               *)
(* src/features/companies/actions.ts: saving the company profile, and      *)
(* uploading or deleting its logo, whose file is written before, and       *)
(* removed after or before, the row that points at it.                     *)
(***************************************************************************)
EXTENDS Platform

NewCompany(slug, complete, logo, by) ==
  [slug |-> slug, approval |-> "PENDING", complete |-> complete, logo |-> logo,
   deleted |-> FALSE, by |-> by]

\* One query of ensureUniqueSlug: the slug is free, or the next is tried, or none is left.
SearchSlug(r, found) ==
  LET c == call[r] IN
    /\ IF SlugFree(c.slug)
         THEN Goto(r, found)
         ELSE IF c.slug = MaxCandidates
                THEN Return(r, "threw")
                ELSE call' = [call EXCEPT ![r].slug = @ + 1] /\ UNCHANGED pc
    /\ UNCHANGED tables

\* Whether the row of u was already deleted when a request of u arrived.
WasDeleted(u) == u \in DOMAIN company /\ company[u].deleted

-----------------------------------------------------------------------------
(* saveCompanyProfileAction, upsertCompanyProfile                          *)

Save(r, u, complete) ==
  /\ requireRole(u, "COMPANY")
  /\ Enter(r, IF HasProfile(u) THEN "save.update" ELSE "save.slug",
       [Arguments("save", u) EXCEPT !.complete = complete, !.late = WasDeleted(u)])
  /\ UNCHANGED tables

SaveSearchSlug(r) == pc[r] = "save.slug" /\ SearchSlug(r, "save.create")

\* Mutant: one retry fewer than MAX_RETRIES allows.
SaveRetriesSpentEarly(attempt) == attempt + 1 >= MaxRetries

SaveRetriesSpent(attempt) == attempt >= MaxRetries

\* The insert; on any P2002, which may also be about the userId, another slug is
\* searched for, MAX_RETRIES times.
SaveCreate(r) ==
  /\ pc[r] = "save.create"
  /\ LET c == call[r] IN
       IF ~CompanyCollision(c.user, c.slug)
         THEN /\ company' = Insert(NewCompany(c.slug, c.complete, None, "save"), c.user, company)
              /\ Goto(r, "save.event")
         ELSE /\ UNCHANGED company
              /\ IF SaveRetriesSpent(c.attempt + 1)
                   THEN Return(r, "taken")
                   ELSE /\ call' = [call EXCEPT ![r].slug = 1, ![r].attempt = @ + 1]
                        /\ pc' = [pc EXCEPT ![r] = "save.slug"]
  /\ UNCHANGED <<user, student, posting, saved, files, approvals, log, mails, sessions>>

\* Mutant: saving a profile puts it back to the moderation queue.
SaveUpdateRemoderates(r) ==
  /\ pc[r] = "save.update"
  /\ company' = [company EXCEPT ![call[r].user].approval = "PENDING"]
  /\ Return(r, "ok")
  /\ UNCHANGED <<user, student, posting, saved, files, approvals, log, mails, sessions>>

\* The update names the row by id, whatever became of it since the read; slug and
\* approval status are left alone.
SaveUpdate(r) ==
  /\ pc[r] = "save.update"
  /\ company' = [company EXCEPT ![call[r].user].complete = call[r].complete]
  /\ Return(r, "ok")
  /\ UNCHANGED <<user, student, posting, saved, files, approvals, log, mails, sessions>>

SaveRecord(r) ==
  /\ pc[r] = "save.event"
  /\ Record(r, "COMPANY_PROFILE_CREATED", call[r].user, call[r].user)
  /\ Goto(r, "save.mails")
  /\ UNCHANGED <<user, student, company, posting, saved, files, approvals, mails, sessions>>

SaveNotifyAdmins(r) ==
  /\ pc[r] = "save.mails"
  /\ dispatchEmail(r, "adminCompanyPending", {u \in ActiveUsers : user[u].role = "ADMIN"})
  /\ Return(r, "ok")
  /\ UNCHANGED <<user, student, company, posting, saved, files, approvals, log, sessions>>

-----------------------------------------------------------------------------
(* uploadLogoAction, deleteLogoAction                                      *)

LogoOf(u) == IF HasProfile(u) THEN company[u].logo ELSE None

\* The read of the old key; a file that is missing or too large is refused before.
UploadLogo(r, u) ==
  /\ requireRole(u, "COMPANY")
  /\ \/ pc[r] = "idle" /\ Return(r, "refused")
     \/ Enter(r, "logo.put",
          [Arguments("uploadLogo", u) EXCEPT !.old = LogoOf(u), !.late = WasDeleted(u)])
  /\ UNCHANGED tables

\* storage.put, which may fail: the action reports the error.
LogoPut(r) ==
  /\ pc[r] = "logo.put"
  /\ \/ files' = files \union {r} /\ Goto(r, "logo.read")
     \/ Return(r, "refused") /\ UNCHANGED files
  /\ UNCHANGED <<user, student, company, posting, saved, approvals, log, mails, sessions>>

DeleteLogo(r, u) ==
  /\ requireRole(u, "COMPANY")
  /\ Enter(r, IF LogoOf(u) = None THEN "logo.read" ELSE "logo.remove",
       [Arguments("deleteLogo", u) EXCEPT !.old = LogoOf(u), !.late = WasDeleted(u)])
  /\ UNCHANGED tables

\* storage.delete, whose failure is tolerated.
LogoRemove(r) ==
  /\ pc[r] = "logo.remove"
  /\ files' \in {files, files \ {call[r].old}}
  /\ Goto(r, "logo.read")
  /\ UNCHANGED <<user, student, company, posting, saved, approvals, log, mails, sessions>>

-----------------------------------------------------------------------------
(* setLogoStorageKey                                                       *)

NewKey(r) == IF call[r].op = "uploadLogo" THEN r ELSE None

\* What the caller does next: an upload removes the file it replaced.
AfterSet(r) ==
  IF call[r].op = "uploadLogo" /\ call[r].old # None THEN Goto(r, "logo.cleanup") ELSE Return(r, "ok")

LogoRead(r) ==
  /\ pc[r] = "logo.read"
  /\ Goto(r, IF HasProfile(call[r].user) THEN "logo.update" ELSE "logo.slug")
  /\ UNCHANGED tables

LogoSearchSlug(r) == pc[r] = "logo.slug" /\ SearchSlug(r, "logo.create")

\* The placeholder row. An exception of its unique indexes is not retried.
LogoCreate(r) ==
  /\ pc[r] = "logo.create"
  /\ LET c == call[r] IN
       IF CompanyCollision(c.user, c.slug)
         THEN Return(r, "threw") /\ UNCHANGED company
         ELSE /\ company' = Insert(NewCompany(c.slug, FALSE, NewKey(r), "logo"), c.user, company)
              /\ AfterSet(r)
  /\ UNCHANGED <<user, student, posting, saved, files, approvals, log, mails, sessions>>

LogoUpdate(r) ==
  /\ pc[r] = "logo.update"
  /\ company' = [company EXCEPT ![call[r].user].logo = NewKey(r)]
  /\ AfterSet(r)
  /\ UNCHANGED <<user, student, posting, saved, files, approvals, log, mails, sessions>>

\* Mutant: the file that the row names now is removed, not the one it named.
LogoCleanupNew(r) ==
  /\ pc[r] = "logo.cleanup"
  /\ files' = files \ {company[call[r].user].logo}
  /\ Return(r, "ok")
  /\ UNCHANGED <<user, student, company, posting, saved, approvals, log, mails, sessions>>

\* storage.delete of the old file; a failure leaves it orphaned.
LogoCleanup(r) ==
  /\ pc[r] = "logo.cleanup"
  /\ files' \in {files, files \ {call[r].old}}
  /\ Return(r, "ok")
  /\ UNCHANGED <<user, student, company, posting, saved, approvals, log, mails, sessions>>

-----------------------------------------------------------------------------

AdvanceCompany(r) ==
  \/ SaveSearchSlug(r) \/ SaveCreate(r) \/ SaveUpdate(r) \/ SaveRecord(r) \/ SaveNotifyAdmins(r)
  \/ LogoPut(r) \/ LogoRemove(r) \/ LogoRead(r) \/ LogoSearchSlug(r) \/ LogoCreate(r)
  \/ LogoUpdate(r) \/ LogoCleanup(r)
=============================================================================
