------------------------------ MODULE Deployment ------------------------------
(***************************************************************************)
(* How the program is configured: the checks of                            *)
(* scripts/preflight-production.ts, the adapters that the server then      *)
(* builds from the same environment when it boots, and the two scripts     *)
(* that an operator runs beside it. Pure functions of the environment,     *)
(* whose values are classes of strings: not set, "", white space only, and *)
(* what each variable's checks tell apart.                                 *)
(***************************************************************************)
EXTENDS Naturals, FiniteSets

Texts == {"unset", "empty", "blank", "text"}

\* A driver variable that names no adapter.
NoDriver == {"unset", "empty", "unknown"}

\* process.env; the driver names are in lower case already.
Env == [NODE_ENV: {"production", "development"},
        DATABASE_URL: Texts,
        AUTH_SECRET: {"unset", "empty", "short", "long"},
        AUTH_URL: {"unset", "empty", "malformed", "ftp", "http", "https"},
        STORAGE_DRIVER: NoDriver \union {"local", "local-fs", "noop", "s3"},
        S3_BUCKET: Texts, S3_REGION: Texts \union {"auto"},
        S3_ACCESS_KEY_ID: Texts, S3_SECRET_ACCESS_KEY: Texts,
        S3_SIGNED_URL_TTL_SECONDS: {"unset", "empty", "blank", "zero", "word", "positive"},
        S3_ENDPOINT: {"unset", "empty", "blank", "malformed", "url"},
        EMAIL_DRIVER: NoDriver \union {"console", "resend"},
        RESEND_API_KEY: Texts, EMAIL_FROM: Texts \union {"address"},
        EMAIL_REPLY_TO: Texts \union {"address"},
        PREFLIGHT_SEND_EMAIL: BOOLEAN, PREFLIGHT_STORAGE_WRITE: BOOLEAN, SMOKE_EMAIL_TO: Texts]

Falsy(v) == v \in {"unset", "empty"}
Blank(v) == v \in {"unset", "empty", "blank"}

-----------------------------------------------------------------------------
(* preflight-checks-lib.ts                                                 *)

Result(name, severity) == [name |-> name, severity |-> severity]
OkIf(cond, name) == Result(name, IF cond THEN "ok" ELSE "fail")

IsProduction(env) == env.NODE_ENV = "production"

CheckAuthUrl(env) ==
  Result("AUTH_URL",
    IF env.AUTH_URL = "https" THEN "ok"
    ELSE IF env.AUTH_URL = "http" /\ ~IsProduction(env) THEN "warn" ELSE "fail")

REQUIRED_S3 == {"S3_BUCKET", "S3_REGION", "S3_ACCESS_KEY_ID", "S3_SECRET_ACCESS_KEY"}
REQUIRED_RESEND == {"RESEND_API_KEY", "EMAIL_FROM"}

\* The endpoint is trimmed before it is parsed, and only missed when the region is auto.
CheckS3Endpoint(env) ==
  IF Blank(env.S3_ENDPOINT)
    THEN IF env.S3_REGION = "auto" THEN {Result("S3_ENDPOINT", "warn")} ELSE {}
    ELSE {OkIf(env.S3_ENDPOINT = "url", "S3_ENDPOINT")}

\* A time to live of "" is skipped like one that is not set.
CheckS3Ttl(env) ==
  IF Falsy(env.S3_SIGNED_URL_TTL_SECONDS)
    THEN {}
    ELSE {OkIf(env.S3_SIGNED_URL_TTL_SECONDS = "positive", "S3_SIGNED_URL_TTL_SECONDS")}

CheckS3Env(env) ==
  {OkIf(~Blank(env[v]), v) : v \in REQUIRED_S3} \union CheckS3Ttl(env) \union CheckS3Endpoint(env)

CheckResendEnv(env) ==
  {OkIf(~Blank(env.RESEND_API_KEY), "RESEND_API_KEY"), OkIf(env.EMAIL_FROM = "address", "EMAIL_FROM")}
  \union IF Blank(env.EMAIL_REPLY_TO)
           THEN {} ELSE {OkIf(env.EMAIL_REPLY_TO = "address", "EMAIL_REPLY_TO")}

CheckStorage(env) ==
  {OkIf(env.STORAGE_DRIVER \notin NoDriver, "STORAGE_DRIVER")}
  \union (IF env.STORAGE_DRIVER = "s3" THEN CheckS3Env(env) ELSE {})
  \union (IF env.STORAGE_DRIVER \in {"local", "local-fs"} /\ IsProduction(env)
            THEN {Result("STORAGE_DRIVER", "warn")} ELSE {})

CheckEmail(env) ==
  {OkIf(env.EMAIL_DRIVER \notin NoDriver, "EMAIL_DRIVER")}
  \union (IF env.EMAIL_DRIVER = "resend" THEN CheckResendEnv(env) ELSE {})
  \union (IF env.EMAIL_DRIVER = "console" /\ IsProduction(env)
            THEN {Result("EMAIL_DRIVER", "warn")} ELSE {})

validateEnv(env) ==
  {OkIf(~Blank(env.DATABASE_URL), "DATABASE_URL"),
   OkIf(env.AUTH_SECRET = "long", "AUTH_SECRET"), CheckAuthUrl(env)}
  \union CheckStorage(env) \union CheckEmail(env)

OfSeverity(severity, results) == {x \in results : x.severity = severity}
summarize(results) ==
  [passed |-> Cardinality(OfSeverity("ok", results)),
   warnings |-> Cardinality(OfSeverity("warn", results)),
   failures |-> Cardinality(OfSeverity("fail", results))]

-----------------------------------------------------------------------------
(* The adapters, as the server builds them: "throws" ends the boot         *)

\* driver ?? default: only an unset variable takes the default.
S3Adapter(env) == IF \E v \in REQUIRED_S3 : Falsy(env[v]) THEN "throws" ELSE "s3"

selectAdapter(env) ==
  IF env.STORAGE_DRIVER = "noop" THEN "noop"
  ELSE IF env.STORAGE_DRIVER = "s3" THEN S3Adapter(env)
  ELSE IF env.STORAGE_DRIVER \in {"empty", "unknown"} /\ IsProduction(env) THEN "throws"
  ELSE "local-fs"

ResendAdapter(env) == IF \E v \in REQUIRED_RESEND : Falsy(env[v]) THEN "throws" ELSE "resend"

\* An unknown driver falls back to the console in production too.
selectEmailAdapter(env) == IF env.EMAIL_DRIVER = "resend" THEN ResendAdapter(env) ELSE "console"

\* parseInt(ttl ?? "300", 10)
SignedUrlTtl(env) ==
  IF env.S3_SIGNED_URL_TTL_SECONDS \in {"unset", "positive"} THEN "positive"
  ELSE IF env.S3_SIGNED_URL_TTL_SECONDS = "zero" THEN "zero" ELSE "NaN"

-----------------------------------------------------------------------------
(* preflight-production.ts; the world is what its remote calls find        *)

World == [dbAnswers: BOOLEAN, adminCount: Nat, sendWorks: BOOLEAN, putAndReadWork: BOOLEAN]

\* The admin count is only asked of a database that answers.
CheckDb(env, world) ==
  IF Falsy(env.DATABASE_URL) THEN {}
  ELSE IF ~world.dbAnswers THEN {Result("DB connectivity", "fail")}
  ELSE {Result("DB connectivity", "ok"), OkIf(world.adminCount > 0, "Active ADMIN user")}

maybeSmokeEmail(env, world) ==
  IF ~env.PREFLIGHT_SEND_EMAIL THEN {}
  ELSE {OkIf(/\ env.EMAIL_DRIVER = "resend" /\ ~Falsy(env.SMOKE_EMAIL_TO)
             /\ ResendAdapter(env) # "throws" /\ world.sendWorks, "PREFLIGHT_SEND_EMAIL")}

maybeStorageRoundTrip(env, world) ==
  IF ~env.PREFLIGHT_STORAGE_WRITE THEN {}
  ELSE {OkIf(env.STORAGE_DRIVER = "s3" /\ S3Adapter(env) # "throws" /\ world.putAndReadWork,
             "PREFLIGHT_STORAGE_WRITE")}

Preflight(env, world) ==
  validateEnv(env) \union CheckDb(env, world)
  \union maybeSmokeEmail(env, world) \union maybeStorageRoundTrip(env, world)

ExitCode(env, world) == IF OfSeverity("fail", Preflight(env, world)) = {} THEN 0 ELSE 1

-----------------------------------------------------------------------------
(* admin-create.ts and smoke-email.ts                                      *)

\* The classes of ADMIN_EMAIL, ADMIN_PASSWORD and CREATE_ADMIN_CONFIRM.
BootstrapEnv == [email: Texts \union {"address"},
                 password: {"unset", "empty", "short", "fits", "tooLong"},
                 confirm: Texts \union {"same", "other"}]

parseAdminBootstrapEnv(b) ==
  /\ ~Falsy(b.email) /\ ~Falsy(b.password) /\ ~Falsy(b.confirm)
  /\ b.email = "address" /\ b.confirm = "same" /\ b.password = "fits"

\* result is createAdminUser's, or that it threw.
AdminCreateExit(b, result) ==
  IF parseAdminBootstrapEnv(b) /\ result \in {"created", "already_admin"} THEN 0 ELSE 1

SmokeEmailExit(env, sendWorks) ==
  IF ~Falsy(env.SMOKE_EMAIL_TO) /\ ResendAdapter(env) # "throws" /\ sendWorks THEN 0 ELSE 1
=============================================================================
