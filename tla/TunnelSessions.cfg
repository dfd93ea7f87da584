SPECIFICATION FairTunnelSpec
CONSTANTS
  App = {"web", "api"}
  Name = {"web"}
  ServiceName = {"web"}
  Lease = 2
  MayFail = TRUE
  Clones = TRUE
  MaxExits = 1
INVARIANTS IntentJournaled SessionOwnsServices
PROPERTIES SessionEnds
CHECK_DEADLOCK FALSE
