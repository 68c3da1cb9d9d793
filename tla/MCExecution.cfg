SPECIFICATION WorkerSpec
CONSTANTS
  Jobs = {j1, j2}
  Streams = {s1}
  MaxRunning = 1
  Hosts <- SomeHosts
  Runs = {e1}
  MaxOutput = 1
INVARIANTS
  SlotsExact
  NothingLost
  StreamHears
  VerdictFaithful
  ProductionIsolates
PROPERTIES
  Finishes
  ExecutionEnds
  ComesUp
