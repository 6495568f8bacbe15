\* Two requests, of one student or of two, while every record their guards read
\* is being edited.
SPECIFICATION Spec
CONSTANTS
  s1 = s1
  s2 = s2
  j1 = j1
  c1 = c1
  c2 = c2
  k1 = k1
  k2 = k2
  r1 = r1
  r2 = r2
  r3 = r3
  r4 = r4
  None = None
  Students = {s1, s2}
  Jobs = {j1}
  Keys = {k1, k2}
  CompanyOf <- MCCompanyOf
  OwnerOf <- MCOwnerOf
  Companies = {c1}
  Requests = {r1, r2}
INVARIANTS TypeOK OneApplicationPerPosting SnapshotIsOwnResume
PROPERTIES SubmissionSettles
