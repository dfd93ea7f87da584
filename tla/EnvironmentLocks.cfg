SPECIFICATION FairSpec
CONSTANTS
  Client = {c1, c2, c3}
  Lock = {1, 2, 3}
INVARIANTS OnePermit
PROPERTIES NoBarging Served ImplementsService
