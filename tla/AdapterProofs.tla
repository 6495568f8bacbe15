---------------------------- MODULE AdapterProofs ----------------------------
(***************************************************************************)
(* Proofs about the adapters: what Storage and its routes serve back, and  *)
(* what a green preflight of Deployment promises of the adapters the       *)
(* server then builds.                                                     *)
(***************************************************************************)
EXTENDS Storage, Deployment, TLAPS

-----------------------------------------------------------------------------
(* Storage: an upload and what the three routes make of it                 *)

\* extToContentType undoes inferExt for every type an upload may have.
LEMMA RoundTrip ==
  ASSUME NEW type \in ALLOWED_RESUME_TYPES \union ALLOWED_LOGO_TYPES
  PROVE  type \in Types /\ extOfType[type] \in KnownExts /\ extToContentType[extOfType[type]] = type
<1>1. type \in Types /\ extOfType[type] \in KnownExts
  BY DEF extOfType, Types, ALLOWED_RESUME_TYPES, ALLOWED_LOGO_TYPES, KnownExts
<1>2. extToContentType[extOfType[type]] = type
  BY <1>1 DEF extOfType, extToContentType, Types, ALLOWED_RESUME_TYPES, ALLOWED_LOGO_TYPES, KnownExts, SafeExts
<1> QED
  BY <1>1, <1>2

LEMMA KeysAreWellFormed ==
  ASSUME NEW driver \in Drivers, NEW prefix \in Prefixes, NEW id \in Ids, NEW file \in File
  PROVE  /\ KeyOf(driver, prefix, id, file) \in Key
         /\ driver # "noop" => inferExt(file) \in SafeExts
<1>1. extOfType \in [Types -> SafeExts]
  BY DEF extOfType, Types, SafeExts, KnownExts, ALLOWED_RESUME_TYPES, ALLOWED_LOGO_TYPES
<1>2. inferExt(file) \in SafeExts
  BY <1>1 DEF inferExt, File
<1> QED
  BY <1>2 DEF KeyOf, Key

\* An uploaded logo that was accepted is shown when the extension of its file name is that of
\* an image, or is one the adapter replaces. Stored on disk under another safe extension it
\* answers 404 although its type was allowed: inferExt prefers the name
\* (storage-keys.ts:43-46), the route the type that read derives from it (route.ts:77-82).
\* S3 redirects to every logo, and noop, without an extension, shows none.
THEOREM LogoShownAsNamed ==
  ASSUME NEW driver \in Drivers, NEW store, NEW id \in Ids, NEW file \in File,
         AllowedContentType("logos", file.type)
  PROVE  LET key == KeyOf(driver, "logos", id, file)
         IN LogoRoute(driver, put(store, key, file), key).status
              = CASE driver = "s3" -> 307
                  [] driver = "noop" -> 404
                  [] driver = "local" -> IF file.ext \in ImageExts \union {"unsafe"} THEN 200 ELSE 404
<1> DEFINE key == KeyOf(driver, "logos", id, file)
           stored == put(store, key, file)
<1>1. /\ key \in Key /\ key.prefix = "logos"
      /\ key.ext = IF driver = "noop" THEN "none" ELSE inferExt(file)
      /\ driver # "noop" => inferExt(file) \in SafeExts
  BY KeysAreWellFormed DEF KeyOf, Prefixes
<1>2. key \in DOMAIN stored /\ stored[key] = file
  BY DEF put
<1>3. file.type \in ALLOWED_LOGO_TYPES
  BY DEF AllowedContentType
<1>4. CASE driver = "noop"
  BY <1>1, <1>4 DEF LogoRoute, LogoKeyShape, Refused, SafeExts, KnownExts
<1>5. CASE driver = "s3"
  BY <1>1, <1>5 DEF LogoRoute, LogoKeyShape, read
<1>6. CASE driver = "local"
  <2>1. LogoRoute(driver, stored, key).status
          = IF extToContentType[inferExt(file)] \in ALLOWED_LOGO_TYPES THEN 200 ELSE 404
    BY <1>1, <1>2, <1>6 DEF LogoRoute, LogoKeyShape, read, Refused
  <2>2. CASE file.ext = "unsafe"
    <3>1. inferExt(file) = extOfType[file.type]
      BY <2>2 DEF inferExt, SafeExts, KnownExts
    <3> QED
      BY <1>3, <1>6, <2>1, <2>2, <3>1, RoundTrip
  <2>3. CASE file.ext # "unsafe"
    <3>1. file.ext \in SafeExts /\ inferExt(file) = file.ext
      BY <2>3 DEF inferExt, File
    <3>2. extToContentType[file.ext] \in ALLOWED_LOGO_TYPES <=> file.ext \in ImageExts
      BY <3>1 DEF extToContentType, SafeExts, KnownExts, ImageExts, ALLOWED_LOGO_TYPES
    <3> QED
      BY <1>6, <2>1, <2>3, <3>1, <3>2
  <2> QED
    BY <2>2, <2>3
<1> QED
  BY <1>4, <1>5, <1>6 DEF Drivers

\* Whoever can read a resume through its route after it was uploaded and pointed to is the
\* student who did it, as long as no other profile points at the fresh key
\* (api/files/resume/[key]/route.ts:23-37, student-service.ts:272-281).
THEOREM ResumeReadByOwner ==
  ASSUME NEW driver \in Drivers, NEW store, NEW db, DBOK(db), NEW u \in Users, NEW id \in Ids,
         NEW file \in File, Accepts(driver, "resumes", file), NEW session \in Session \union {None},
         None \notin Session,
         \A v \in Users : db.resumeOf[v] # KeyOf(driver, "resumes", id, file)
  PROVE  LET key == KeyOf(driver, "resumes", id, file)
             after == [db EXCEPT !.resumeOf[u] = key]
         IN ResumeRoute(driver, put(store, key, file), after, session, key).status \in {200, 307}
              <=> session # None /\ session.role = "STUDENT" /\ session.id = u
<1> DEFINE key == KeyOf(driver, "resumes", id, file)
           stored == put(store, key, file)
           after == [db EXCEPT !.resumeOf[u] = key]
<1>1. key \in Key
  BY KeysAreWellFormed DEF Prefixes
<1>2. key \in DOMAIN stored
  BY DEF put
<1>3. \A v \in Users : canStudentReadResume(after, v, key) <=> v = u
  <2>1. after.resumeOf = [db.resumeOf EXCEPT ![u] = key]
    BY DEF DBOK
  <2> QED
    BY <2>1 DEF canStudentReadResume, DBOK
<1>4. Serve(read(driver, stored, key)).status \in {200, 307}
  BY <1>2 DEF Serve, read
<1>5. session # None => session.id \in Users
  BY DEF Session
<1> QED
  BY <1>1, <1>3, <1>4, <1>5 DEF ResumeRoute, Refused

\* What a company sees of an application after the student replaced or deleted the resume it
\* was made with: nothing on disk, a redirect to a missing object on S3, although the
\* application "always sees the version that was applied with" (application-service.ts:23-24).
THEOREM ReplacedSnapshot ==
  ASSUME NEW driver \in Drivers, NEW store, NEW db, DBOK(db), NEW app \in DOMAIN db.apps,
         NEW session \in Session, None \notin Session \union Key \union Companies,
         session.role = "COMPANY",
         db.companyOf[session.id] = db.owner[db.apps[app].job],
         db.apps[app].snapshot \in DOMAIN store, db.apps[app].snapshot \in Key,
         db.apps[app].snapshot.prefix = "resumes"
  PROVE  /\ SnapshotRoute(driver, store, db, session, app).status = IF driver = "s3" THEN 307 ELSE 200
         /\ SnapshotRoute(driver, delete(store, db.apps[app].snapshot), db, session, app).status
              = IF driver = "s3" THEN 307 ELSE 404
<1> DEFINE key == db.apps[app].snapshot
           left == delete(store, key)
<1>1. session.id \in Users /\ db.owner[db.apps[app].job] \in Companies
  BY DEF Session, DBOK
<1>2. canCompanyReadApplicationSnapshot(db, session.id, app)
  BY <1>1 DEF canCompanyReadApplicationSnapshot
<1>3. \A s : SnapshotRoute(driver, s, db, session, app) = Serve(read(driver, s, key))
  BY <1>2 DEF SnapshotRoute
<1>4. key \notin DOMAIN left
  BY DEF delete
<1>5. Serve(read(driver, store, key)).status = IF driver = "s3" THEN 307 ELSE 200
  BY DEF Serve, read
<1>6. Serve(read(driver, left, key)).status = IF driver = "s3" THEN 307 ELSE 404
  BY <1>4 DEF Serve, read, Refused
<1> QED
  BY <1>3, <1>5, <1>6

\* Two adapters and one policy: a file that local storage serves carries the type that its
\* extension names, so an upload whose name has no safe extension comes back as the type it
\* was given, and only such an upload, or one named truthfully, does.
THEOREM ServedAsUploaded ==
  ASSUME NEW store, NEW prefix \in {"resumes", "logos"}, NEW id \in Ids, NEW file \in File,
         Accepts("local", prefix, file)
  PROVE  LET key == KeyOf("local", prefix, id, file)
         IN read("local", put(store, key, file), key).type = file.type
              <=> file.ext = "unsafe" \/ extToContentType[file.ext] = file.type
<1> DEFINE key == KeyOf("local", prefix, id, file)
           stored == put(store, key, file)
<1>1. key.ext = inferExt(file) /\ key \in DOMAIN stored
  BY DEF KeyOf, put
<1>2. read("local", stored, key).type = extToContentType[inferExt(file)]
  BY <1>1 DEF read
<1>3. file.type \in ALLOWED_RESUME_TYPES \union ALLOWED_LOGO_TYPES
  BY DEF Accepts, AllowedContentType
<1>4. CASE file.ext = "unsafe"
  <2>1. inferExt(file) = extOfType[file.type]
    BY <1>4 DEF inferExt, SafeExts, KnownExts
  <2> QED
    BY <1>2, <1>3, <1>4, <2>1, RoundTrip
<1>5. CASE file.ext # "unsafe"
  <2>1. inferExt(file) = file.ext
    BY <1>5 DEF inferExt, File
  <2> QED
    BY <1>2, <1>5, <2>1
<1> QED
  BY <1>4, <1>5

-----------------------------------------------------------------------------
(* Deployment: what a green preflight promises                             *)

\* Every check that has no failing result.
LEMMA NoFailure ==
  ASSUME NEW env \in Env, NEW world \in World, ExitCode(env, world) = 0
  PROVE  \A x \in validateEnv(env) : x.severity # "fail"
<1>1. OfSeverity("fail", Preflight(env, world)) = {}
  BY DEF ExitCode
<1> QED
  BY <1>1 DEF OfSeverity, Preflight

\* A preflight that exits 0 promises that the server boots: neither adapter throws in its
\* constructor (s3-adapter.ts:60-67, resend-adapter.ts:47-55, storage/index.ts:47-57).
THEOREM PreflightCoversBoot ==
  ASSUME NEW env \in Env, NEW world \in World, ExitCode(env, world) = 0
  PROVE  selectAdapter(env) # "throws" /\ selectEmailAdapter(env) # "throws"
<1>1. \A x \in CheckStorage(env) \union CheckEmail(env) : x.severity # "fail"
  BY NoFailure DEF validateEnv
<1>2. env.STORAGE_DRIVER \notin NoDriver
  <2>1. OkIf(env.STORAGE_DRIVER \notin NoDriver, "STORAGE_DRIVER").severity # "fail"
    BY <1>1 DEF CheckStorage
  <2> QED
    BY <2>1 DEF OkIf, Result
<1>3. env.STORAGE_DRIVER = "s3" => \A v \in REQUIRED_S3 : ~Falsy(env[v])
  <2> SUFFICES ASSUME env.STORAGE_DRIVER = "s3", NEW v \in REQUIRED_S3
               PROVE  ~Falsy(env[v])
    OBVIOUS
  <2>1. OkIf(~Blank(env[v]), v).severity # "fail"
    BY <1>1 DEF CheckStorage, CheckS3Env
  <2> QED
    BY <2>1 DEF OkIf, Result, Blank, Falsy
<1>4. env.EMAIL_DRIVER = "resend" => ~Falsy(env.RESEND_API_KEY) /\ ~Falsy(env.EMAIL_FROM)
  <2> SUFFICES ASSUME env.EMAIL_DRIVER = "resend"
               PROVE  ~Falsy(env.RESEND_API_KEY) /\ ~Falsy(env.EMAIL_FROM)
    OBVIOUS
  <2>1. /\ OkIf(~Blank(env.RESEND_API_KEY), "RESEND_API_KEY").severity # "fail"
        /\ OkIf(env.EMAIL_FROM = "address", "EMAIL_FROM").severity # "fail"
    BY <1>1 DEF CheckEmail, CheckResendEnv
  <2> QED
    BY <2>1 DEF OkIf, Result, Blank, Falsy
<1>5. selectAdapter(env) # "throws"
  BY <1>2, <1>3 DEF selectAdapter, S3Adapter, NoDriver, Env
<1>6. selectEmailAdapter(env) # "throws"
  BY <1>4 DEF selectEmailAdapter, ResendAdapter, REQUIRED_RESEND
<1> QED
  BY <1>5, <1>6

\* Without a warning, in production, mails are delivered and files outlive the server, unless
\* STORAGE_DRIVER is noop, which the checks take for a production driver
\* (preflight-checks-lib.ts:20, 89-99).
THEOREM SilentPreflightMeansDelivery ==
  ASSUME NEW env \in Env, NEW world \in World, ExitCode(env, world) = 0,
         IsProduction(env), OfSeverity("warn", validateEnv(env)) = {}
  PROVE  /\ selectEmailAdapter(env) = "resend"
         /\ selectAdapter(env) \in {"s3", "noop"}
         /\ env.AUTH_URL = "https"
<1>1. \A x \in validateEnv(env) : x.severity \notin {"fail", "warn"}
  BY NoFailure DEF OfSeverity
<1>2. Result("STORAGE_DRIVER", "warn").severity = "warn" /\ Result("EMAIL_DRIVER", "warn").severity = "warn"
  BY DEF Result
<1>3. env.STORAGE_DRIVER \notin {"local", "local-fs"}
  BY <1>1, <1>2 DEF validateEnv, CheckStorage
<1>4. env.EMAIL_DRIVER # "console"
  BY <1>1, <1>2 DEF validateEnv, CheckEmail
<1>5. env.STORAGE_DRIVER \notin NoDriver /\ env.EMAIL_DRIVER \notin NoDriver
  <2>1. /\ OkIf(env.STORAGE_DRIVER \notin NoDriver, "STORAGE_DRIVER").severity # "fail"
        /\ OkIf(env.EMAIL_DRIVER \notin NoDriver, "EMAIL_DRIVER").severity # "fail"
    BY <1>1 DEF validateEnv, CheckStorage, CheckEmail
  <2> QED
    BY <2>1 DEF OkIf, Result
<1>6. env.STORAGE_DRIVER \in {"s3", "noop"} /\ env.EMAIL_DRIVER = "resend"
  BY <1>3, <1>4, <1>5 DEF Env, NoDriver
<1>7. CheckAuthUrl(env).severity \notin {"fail", "warn"}
  BY <1>1 DEF validateEnv
<1>8. env.AUTH_URL = "https"
  BY <1>7 DEF CheckAuthUrl, Result
<1> QED
  BY <1>6, <1>8, PreflightCoversBoot DEF selectAdapter, S3Adapter, selectEmailAdapter, ResendAdapter

\* The signed URLs of a green s3 deployment live for a positive time, except when the
\* variable is set to "": the check skips it (line 210), the adapter parses it to NaN
\* (s3-adapter.ts:72-75).
THEOREM TtlPositiveUnlessEmpty ==
  ASSUME NEW env \in Env, NEW world \in World, ExitCode(env, world) = 0, env.STORAGE_DRIVER = "s3"
  PROVE  SignedUrlTtl(env) = "positive" <=> env.S3_SIGNED_URL_TTL_SECONDS # "empty"
<1>1. \A x \in CheckS3Ttl(env) : x.severity # "fail"
  BY NoFailure DEF validateEnv, CheckStorage, CheckS3Env
<1>2. env.S3_SIGNED_URL_TTL_SECONDS \in {"unset", "empty", "positive"}
  <2> SUFFICES ASSUME ~Falsy(env.S3_SIGNED_URL_TTL_SECONDS)
               PROVE  env.S3_SIGNED_URL_TTL_SECONDS = "positive"
    BY DEF Falsy
  <2>1. OkIf(env.S3_SIGNED_URL_TTL_SECONDS = "positive", "S3_SIGNED_URL_TTL_SECONDS").severity # "fail"
    BY <1>1 DEF CheckS3Ttl
  <2> QED
    BY <2>1 DEF OkIf, Result
<1> QED
  BY <1>2 DEF SignedUrlTtl
=============================================================================
