CONSTANTS
  Lines = {"b", "s", "t"}
  Files = {"u1"}
  FileOf <- ResumeFileOf
  Opt <- ResumeOpt
  Pids = {p1, p2, p3}
  SerialMax = 1
  QueueMax = 3
  LavgMax = 2
  NumexeMax = 2
  Env = {"suspend", "overrun"}
  MaxEvents = 1
  NoJob = NoJob
  Orphan = Orphan
SPECIFICATION Spec
INVARIANT SerialLinesLimit
