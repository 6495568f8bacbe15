\* One request at a time: the service against its sequential promise.
SPECIFICATION Spec
CONSTANTS
  None = None
  FirstResume = k0
  Requests = {r1, r2, r3}
  Sections = {"skill", "experience", "project"}
  Names = {e1}
  MaxInFlight = 1
  StorageFails = FALSE
INVARIANTS TypeOK OneEventPerRise NoDeadFiles
PROPERTIES FlagCatchesUp
CHECK_DEADLOCK FALSE
