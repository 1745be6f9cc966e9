CONSTANTS
  Lines = {"n", "s", "t"}
  Files = {"u1", "u2"}
  FileOf <- ReloadFileOf
  Opt <- PlainOpt
  Pids = {p1, p2, p3}
  SerialMax = 1
  QueueMax = 3
  LavgMax = 2
  NumexeMax = 2
  Env = {"usr1"}
  MaxEvents = 1
  NoJob = NoJob
  Orphan = Orphan
SPECIFICATION Spec
INVARIANT SerialRunningExact
