SPECIFICATION Spec
CONSTANTS
  Branches = {"main", "topic"}
  Main = "main"
  Digests = {"sha256"}
  MaxCommits = 5
INVARIANT ExceptionEndsAtTheFirstLock
CHECK_DEADLOCK FALSE
