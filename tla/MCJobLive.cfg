CONSTANTS
  Lines = {"b", "s"}
  Files = {"u1"}
  FileOf <- LiveFileOf
  Opt <- LiveOpt
  Pids = {p1, p2, p3}
  SerialMax = 1
  QueueMax = 2
  LavgMax = 2
  NumexeMax = 2
  Env = {"crash", "term", "suspend", "overrun"}
  MaxEvents = 1
  NoJob = NoJob
  Orphan = Orphan
SPECIFICATION FairSpec
PROPERTIES QueuedSerialStarts EveryChildIsReaped InterruptedRunsAgain DrainEnds
