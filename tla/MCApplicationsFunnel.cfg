\* Four requests of two students and two companies race on one posting; the
\* other records stay as they are.  The requests end: no deadlock check.
SPECIFICATION QuietSpec
CONSTANTS
  s1 = s1
  s2 = s2
  j1 = j1
  c1 = c1
  c2 = c2
  k1 = k1
  k2 = k2
  r1 = r1
  r2 = r2
  r3 = r3
  r4 = r4
  None = None
  Students = {s1, s2}
  Jobs = {j1}
  Keys = {k1, k2}
  CompanyOf <- MCCompanyOf
  OwnerOf <- MCOwnerOf
  Companies = {c1, c2}
  Requests = {r1, r2, r3, r4}
SYMMETRY Symmetric
INVARIANTS LogTellsStatus EventsAreAuthentic StagesInOrder MailsAnnounceCommits
PROPERTIES WithdrawnUnlessRaced ImplementsFunnel
CHECK_DEADLOCK FALSE
