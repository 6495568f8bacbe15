\* Three overlapping profile requests and an application request over one row
\* and one store that may fail.
SPECIFICATION Spec
CONSTANTS
  None = None
  TheStudent = s1
  Companies = {c1}
  Jobs = {j1}
  CompanyOf <- MCCompanyOf
  FirstResume = k0
  ProfileRequests = {p1, p2, p3}
  ApplicationRequests = {a1}
  Sections = {"skill"}
  Names = {e1}
  MaxInFlight = 3
  StorageFails = TRUE
SYMMETRY Symmetric
INVARIANTS DanglingOnlyInDelete FlagIsTruthful
PROPERTIES UploadKeepsCurrentFile ImplementsApplications
CHECK_DEADLOCK FALSE
