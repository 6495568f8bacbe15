\* Two clicks on Start conversation.
SPECIFICATION Spec
CONSTANTS
  s1 = s1
  s2 = s2
  c1 = c1
  c2 = c2
  r1 = r1
  r2 = r2
  r3 = r3
  r4 = r4
  None = None
  Apps = {a1}
  Students = {s1}
  Companies = {c1}
  Requests = {r1, r2}
  StudentOf <- MCStudentOf
  CompanyOf <- MCCompanyOf
INVARIANTS OneThreadPerApplication
