------------------------------- MODULE Accounts -------------------------------
(***************************************************************************)
(* src/server/services/auth-service.ts, src/features/auth/actions.ts,      *)
(* src/lib/auth and the admin bootstrap script: sign-up, log-in, log-out   *)
(* (Routes has where a signed-in user is sent). Every account has its own  *)
(* password, so a visitor that signs in names the account it belongs to.   *)
(***************************************************************************)
EXTENDS Platform

NewUser(role, email) == [role |-> role, email |-> email, deleted |-> FALSE]

\* authenticateCredentials, with the password of account u.
Authenticates(u, email) == u \in findActiveUserByEmail(email)

-----------------------------------------------------------------------------
(* signupAction, createUserWithCredentials                                 *)

Signup(r, email, role) ==
  /\ IF findActiveUserByEmail(email) # {}
       THEN pc[r] = "idle" /\ Return(r, "refused")
       ELSE Enter(r, "signup.create",
              [Arguments("signup", None) EXCEPT !.email = email, !.role = role])
  /\ UNCHANGED tables

\* The insert, or the exception of the unique index, which nothing catches.
SignupCreate(r) ==
  /\ pc[r] = "signup.create"
  /\ LET c == call[r] IN
       IF EmailCollision(c.email)
         THEN Return(r, "threw") /\ UNCHANGED user
         ELSE user' = Insert(NewUser(c.role, c.email), r, user) /\ Goto(r, "signup.event")
  /\ UNCHANGED <<student, company, posting, saved, files, approvals, log, mails, sessions>>

\* Mutant: every sign-up is logged as a student's.
SignupTypeStudent(role) == "STUDENT_SIGNUP"

SignupType(role) == IF role = "STUDENT" THEN "STUDENT_SIGNUP" ELSE "COMPANY_SIGNUP"

SignupRecord(r) ==
  /\ pc[r] = "signup.event"
  /\ Record(r, SignupType(call[r].role), r, r)
  /\ Goto(r, "signup.mail")
  /\ UNCHANGED <<user, student, company, posting, saved, files, approvals, mails, sessions>>

SignupWelcome(r) ==
  /\ pc[r] = "signup.mail"
  /\ dispatchEmail(r, IF call[r].role = "STUDENT" THEN "studentWelcome" ELSE "companyWelcome", {r})
  /\ Goto(r, "signup.signin")
  /\ UNCHANGED <<user, student, company, posting, saved, files, approvals, log, sessions>>

\* signIn: an account deleted meanwhile is created but not signed in.
SignupSignIn(r) ==
  /\ pc[r] = "signup.signin"
  /\ IF Authenticates(r, call[r].email)
       THEN sessions' = sessions \union {r} /\ Return(r, "ok")
       ELSE Return(r, "refused") /\ UNCHANGED sessions
  /\ UNCHANGED <<user, student, company, posting, saved, files, approvals, log, mails>>

-----------------------------------------------------------------------------
(* loginAction, logoutAction                                               *)

Login(r, u) ==
  /\ pc[r] = "idle"
  /\ IF Authenticates(u, user[u].email)
       THEN sessions' = sessions \union {u} /\ Return(r, "ok")
       ELSE Return(r, "refused") /\ UNCHANGED sessions
  /\ UNCHANGED <<user, student, company, posting, saved, files, approvals, log, mails>>

Logout(u) ==
  /\ u \in sessions
  /\ sessions' = sessions \ {u}
  /\ UNCHANGED <<user, student, company, posting, saved, files, approvals, log, mails, pc, call>>

-----------------------------------------------------------------------------
(* createAdminUser: the script runs beside the server, without a session   *)

Disambiguated(found) == IF \E u \in found : user[u].role = "ADMIN" THEN "ok" ELSE "refused"

Bootstrap(r, email) ==
  /\ LET found == findActiveUserByEmail(email) IN
       IF found # {}
         THEN pc[r] = "idle" /\ Return(r, Disambiguated(found))
         ELSE Enter(r, "bootstrap.create", [Arguments("bootstrap", None) EXCEPT !.email = email])
  /\ UNCHANGED tables

BootstrapCreate(r) ==
  /\ pc[r] = "bootstrap.create"
  /\ LET email == call[r].email IN
       IF EmailCollision(email)
         THEN Goto(r, "bootstrap.requery") /\ UNCHANGED user
         ELSE user' = Insert(NewUser("ADMIN", email), r, user) /\ Return(r, "ok")
  /\ UNCHANGED <<student, company, posting, saved, files, approvals, log, mails, sessions>>

\* The winner of the race may be deleted before it is found.
BootstrapRequery(r) ==
  /\ pc[r] = "bootstrap.requery"
  /\ LET found == findActiveUserByEmail(call[r].email) IN
       Return(r, IF found = {} THEN "threw" ELSE Disambiguated(found))
  /\ UNCHANGED tables

-----------------------------------------------------------------------------

AdvanceAccount(r) ==
  \/ SignupCreate(r) \/ SignupRecord(r) \/ SignupWelcome(r) \/ SignupSignIn(r)
  \/ BootstrapCreate(r) \/ BootstrapRequery(r)
=============================================================================
