SPECIFICATION CloneSpec
CONSTANTS
  Service <- ServiceOrder
  Db = {"pg", "lite"}
  FileDb = {"lite"}
  Host = {"lite", "web"}
  Branch = {1, 2}
  MayFail = TRUE
  MaxExits = 2
INVARIANTS WritersAccounted
PROPERTIES CopiedAtRest StopSupersedes
