------------------------------- MODULE Storage -------------------------------
(***************************************************************************)
(* The files of the program: the storage adapters, which keep an upload    *)
(* under <prefix>/<uuid>.<extension>, and the three routes that serve it.  *)
(* Pure functions of the store and of the rows a route reads. An extension *)
(* or a content type is one the code names, or a representative of all     *)
(* others: "bin" of the other safe extensions, "unsafe" of the file names  *)
(* whose extension SAFE_EXT refuses, "none" for a key without one.         *)
(***************************************************************************)
CONSTANTS Ids, Users, Companies, Jobs, None

KnownExts == {"pdf", "doc", "docx", "png", "jpg", "jpeg", "webp", "svg"}
SafeExts == KnownExts \union {"bin"}
ImageExts == {"png", "jpg", "jpeg", "webp", "svg"}

ALLOWED_RESUME_TYPES == {"application/pdf", "application/msword", "application/docx"}
ALLOWED_LOGO_TYPES == {"image/png", "image/jpeg", "image/webp", "image/svg+xml"}
Types == ALLOWED_RESUME_TYPES \union ALLOWED_LOGO_TYPES \union {"application/octet-stream"}

Drivers == {"local", "s3", "noop"}
Prefixes == {"resumes", "logos", "other"}
Key == [prefix: Prefixes, id: Ids, ext: SafeExts \union {"none"}]

\* An upload: the extension of its file name in lower case, and the type the browser gave it.
File == [ext: SafeExts \union {"unsafe"}, type: Types]

-----------------------------------------------------------------------------
(* storage-keys.ts                                                         *)

AllowedContentType(prefix, type) ==
  /\ prefix = "resumes" => type \in ALLOWED_RESUME_TYPES
  /\ prefix = "logos" => type \in ALLOWED_LOGO_TYPES

extOfType ==
  [t \in Types |->
     CASE t = "application/pdf" -> "pdf" [] t = "application/msword" -> "doc"
       [] t = "application/docx" -> "docx" [] t = "image/png" -> "png" [] t = "image/jpeg" -> "jpg"
       [] t = "image/webp" -> "webp" [] t = "image/svg+xml" -> "svg" [] OTHER -> "bin"]

\* The file name decides; the content type only when the name has no safe extension.
inferExt(file) == IF file.ext \in SafeExts THEN file.ext ELSE extOfType[file.type]

extToContentType ==
  [e \in SafeExts |->
     CASE e = "pdf" -> "application/pdf" [] e = "doc" -> "application/msword"
       [] e = "docx" -> "application/docx" [] e = "png" -> "image/png"
       [] e \in {"jpg", "jpeg"} -> "image/jpeg" [] e = "webp" -> "image/webp"
       [] e = "svg" -> "image/svg+xml" [] OTHER -> "application/octet-stream"]

-----------------------------------------------------------------------------
(* The adapters; a store maps its keys to the files put under them.        *)

StoreOK(store) == DOMAIN store \subseteq Key /\ \A k \in DOMAIN store : store[k] \in File

\* noop checks no content type, and its keys carry no extension.
Accepts(driver, prefix, file) == driver = "noop" \/ AllowedContentType(prefix, file.type)

KeyOf(driver, prefix, id, file) ==
  [prefix |-> prefix, id |-> id, ext |-> IF driver = "noop" THEN "none" ELSE inferExt(file)]

put(store, key, file) == [k \in DOMAIN store \union {key} |-> IF k = key THEN file ELSE store[k]]

delete(store, key) == [k \in DOMAIN store \ {key} |-> store[k]]

\* A signed URL is handed out for any key. The file system knows only the key, so it reads the
\* type back from the extension; noop remembers the type of the upload.
read(driver, store, key) ==
  IF driver = "s3" THEN [kind |-> "redirect"]
  ELSE IF key \notin DOMAIN store THEN [kind |-> "throws"]
  ELSE [kind |-> "stream",
        type |-> IF driver = "local" THEN extToContentType[key.ext] ELSE store[key].type]

-----------------------------------------------------------------------------
(* The routes. A request names a key, or something no key decodes from.    *)

Refused(status) == [status |-> status, type |-> "application/json", cache |-> "default"]

\* What a resume route does with the result of read.
Serve(result) ==
  CASE result.kind = "throws" -> Refused(404)
    [] result.kind = "redirect" -> [status |-> 307, type |-> None, cache |-> "private"]
    [] result.kind = "stream" -> [status |-> 200, type |-> result.type, cache |-> "private"]

LogoKeyShape(key) == key.prefix = "logos" /\ key.ext \in SafeExts

LogoRoute(driver, store, key) ==
  IF key \notin Key \/ ~LogoKeyShape(key)
    THEN Refused(404)
    ELSE LET result == read(driver, store, key)
         IN CASE result.kind = "redirect" -> [status |-> 307, type |-> None, cache |-> "no-store"]
              [] result.kind = "stream" /\ result.type \in ALLOWED_LOGO_TYPES
                   -> [status |-> 200, type |-> result.type, cache |-> "public"]
              [] OTHER -> Refused(404)

\* The rows: resumeOf of the student profiles, the live company of each user that has one, the
\* company of a posting, and the applications with their posting and snapshot.
DBOK(db) ==
  /\ db.resumeOf \in [Users -> Key \union {None}] /\ db.companyOf \in [Users -> Companies \union {None}]
  /\ db.owner \in [Jobs -> Companies] /\ DOMAIN db.apps \subseteq Ids
  /\ \A a \in DOMAIN db.apps : db.apps[a] \in [job: Jobs, snapshot: Key \union {None}]

Session == [id: Users, role: {"STUDENT", "COMPANY", "ADMIN"}]

canStudentReadResume(db, user, key) == db.resumeOf[user] = key

\* The key of the URL is decoded outside of any try, unlike in the logo route.
ResumeRoute(driver, store, db, session, key) ==
  IF key \notin Key THEN Refused(500)
  ELSE IF session = None THEN Refused(401)
  ELSE IF session.role # "STUDENT" \/ ~canStudentReadResume(db, session.id, key) THEN Refused(403)
  ELSE Serve(read(driver, store, key))

canCompanyReadApplicationSnapshot(db, user, app) ==
  /\ db.companyOf[user] # None /\ app \in DOMAIN db.apps
  /\ db.owner[db.apps[app].job] = db.companyOf[user]

SnapshotRoute(driver, store, db, session, app) ==
  IF session = None THEN Refused(401)
  ELSE IF session.role # "COMPANY" \/ ~canCompanyReadApplicationSnapshot(db, session.id, app)
    THEN Refused(403)
  ELSE LET key == db.apps[app].snapshot
       IN IF key = None \/ key.prefix # "resumes" THEN Refused(404) ELSE Serve(read(driver, store, key))
=============================================================================
