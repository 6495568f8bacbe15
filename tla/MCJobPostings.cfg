\* Three requests, of the owner, of a stranger and of admins, on one posting
\* and on those they create, while companies are approved, suspended, deleted.
SPECIFICATION Spec
CONSTANTS
  None = None
  c1 = c1
  c2 = c2
  Companies = {c1, c2}
  Requests = {r1, r2, r3}
  Existing = {e1}
  OwnerOf <- MCOwnerOf
  MaxRetries = 2
  MaxCandidates = 3
SYMMETRY Symmetric
INVARIANTS TypeOK SlugsUnique StampTellsDraft LifecycleInOrder GivesUpOnlyWhenCrowded AuditComplete
PROPERTIES WritesAreOwned PublishedUnderApproval
CHECK_DEADLOCK FALSE
