CONSTANTS
  Lines = {"s", "w", "b"}
  Files = {"u1", "u2"}
  FileOf <- QueuesFileOf
  Opt <- QueuesOpt
  Pids = {p1, p2, p3, p4, p5}
  SerialMax = 1
  QueueMax = 2
  LavgMax = 2
  NumexeMax = 2
  Env = {"edit", "crash", "suspend", "fcrondyn"}
  MaxEvents = 1
  NoJob = NoJob
  Orphan = Orphan
SPECIFICATION Spec
SYMMETRY PidSymmetry
INVARIANTS TypeOK NumexeExact SingleInstance SerialRunningExact LavgRunningExact SerialLimit LavgSerialLimit OncePending
