SPECIFICATION Spec
CONSTANTS
  Proc = {p1, p2}
  Nobody = nobody
  Dir = {1, 2}
  Version = {"a", "b"}
INVARIANTS OpensWhole
PROPERTIES ImplementsStore
