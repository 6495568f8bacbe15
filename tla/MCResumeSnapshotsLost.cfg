\* An upload replaces the resume an application was made with.
SPECIFICATION Spec
CONSTANTS
  None = None
  TheStudent = s1
  Companies = {c1}
  Jobs = {j1}
  CompanyOf <- MCCompanyOf
  FirstResume = k0
  ProfileRequests = {p1, p2}
  ApplicationRequests = {a1}
  Sections = {"skill"}
  Names = {e1}
  MaxInFlight = 2
  StorageFails = FALSE
SYMMETRY Symmetric
INVARIANTS SnapshotStaysReadable
CHECK_DEADLOCK FALSE
