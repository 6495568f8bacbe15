\* Three requests of one workload at a time: accounts with one address in dispute,
\* first saves and logos of companies, moderation, and the saved list of a student.
SPECIFICATION MCSpec
CONSTANTS
  None = None
  a1 = a1
  s1 = s1
  c0 = c0
  c1 = c1
  c2 = c2
  c3 = c3
  new = new
  j1 = j1
  j2 = j2
  t1 = t1
  w1 = w1
  Requests = {r1, r2, r3}
  Members = {a1, s1, c0, c1, c2, c3}
  Emails = {a1, s1, c0, c1, c2, c3, new}
  RoleOf <- MCRoleOf
  EmailOf <- MCEmailOf
  Jobs = {j1, j2}
  PostedBy <- MCPostedBy
  MaxRetries = 2
  MaxCandidates = 4
  Tags = {t1}
  TagOf <- MCTagOf
  Words = {w1}
  TextOf <- MCTextOf
  PublishedDaysAgo <- MCPublishedDaysAgo
  DeadlineInDays <- MCDeadlineInDays
  Applications <- MCApplications
  MaxListed = 1
SYMMETRY Symmetric
INVARIANTS TypeOK KeysUnique ApprovalsTell AuditAtRest LogoDanglesOnlyInDelete
INVARIANTS RuleStatedAlike DashboardAgrees
PROPERTIES WritesAreBacked TakenOnlyWhenHeld
CHECK_DEADLOCK FALSE
