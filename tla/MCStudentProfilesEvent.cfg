\* Two requests complete the profile together.
SPECIFICATION Spec
CONSTANTS
  None = None
  FirstResume = k0
  Requests = {r1, r2}
  Sections = {"skill"}
  Names = {e1}
  MaxInFlight = 2
  StorageFails = FALSE
INVARIANTS OneEventPerRise
CHECK_DEADLOCK FALSE
