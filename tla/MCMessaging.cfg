\* Three message requests, of the parties and of a stranger of each kind, while the application moves.
SPECIFICATION Spec
CONSTANTS
  s1 = s1
  s2 = s2
  c1 = c1
  c2 = c2
  r1 = r1
  r2 = r2
  r3 = r3
  r4 = r4
  None = None
  Apps = {a1}
  Students = {s1, s2}
  Companies = {c1, c2}
  Requests = {r1, r2, r3}
  StudentOf <- MCStudentOf
  CompanyOf <- MCCompanyOf
INVARIANTS TypeOK InboxAgrees ReadMeansShownToOther SendsAdmitted ReusedOnceThere
SYMMETRY Symmetric
