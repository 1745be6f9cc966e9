CONSTANTS
  Lines = {"n", "s", "t"}
  Files = {"u1", "u2"}
  FileOf <- ReloadFileOf
  Opt <- ReloadOpt
  Pids = {p1, p2, p3, p4}
  SerialMax = 1
  QueueMax = 3
  LavgMax = 2
  NumexeMax = 2
  Env = {"usr1", "crash", "suspend", "overrun", "fork_fails", "signal_window"}
  MaxEvents = 2
  NoJob = NoJob
  Orphan = Orphan
SPECIFICATION Spec
SYMMETRY PidSymmetry
INVARIANTS SingleInstance CfRunningExact
PROPERTIES DrainWaits DrainSavesExactly
