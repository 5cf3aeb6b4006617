SPECIFICATION Spec
CONSTANTS
  Threads = {1, 2}
  Listeners = {"a", "b", "c", "d", "e", "f"}
  Clients <- NestingClient
  Algs = {"x", "y"}
  Procs = {"first", "last"}
INVARIANTS
  NobodyMissed
