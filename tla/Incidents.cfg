SPECIFICATION Spec
CONSTANTS
  Threads = {1, 2}
  Listeners = {"a", "b", "c", "d", "e", "f"}
  Clients <- MCClients
  Algs = {"x", "y"}
  Procs = {"first", "last"}
INVARIANTS
  PointersValid
  ListenersServed
  SilencedAfterShot
  
