SPECIFICATION Spec
CONSTANTS
  Jobs = {1, 2}
  Kinds <- MCKinds
  Faults = {"pipe", "fork", "file", "user", "pam", "exec", "killed", "disk_full", "mailer"}
  Leavers = {1}
  MaxOutput = 1
  Foreground = TRUE
CHECK_DEADLOCK FALSE
INVARIANTS PidRight OutputMailed
PROPERTY DaemonReturns
