\* A paused posting is published again through the edit form.
SPECIFICATION Spec
CONSTANTS
  None = None
  c1 = c1
  c2 = c2
  Companies = {c1}
  Requests = {r1, r2}
  Existing = {e1}
  OwnerOf <- MCOwnerOf
  MaxRetries = 2
  MaxCandidates = 3
SYMMETRY Symmetric
PROPERTIES PublishedAtIsFirst
CHECK_DEADLOCK FALSE
