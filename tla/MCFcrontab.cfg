SPECIFICATION Spec
CONSTANTS
  Users = {"root", "bob", "ann"}
  MAXENTRIES = 2
  MAXENTRIES_ROOT = 3
  LONG_MAX = 2147483647
  UnsafeAddresses = {"-x", "-bob"}
  Files <- MCFiles
  Edits <- MCEdits
  Olds <- MCOlds
  Whos <- MCWhos
  Commands <- MCCommands
  Env = {"abnormal", "same_second", "disk_full"}
  MaxEdits = 2
CHECK_DEADLOCK FALSE
INVARIANTS FieldsMean Reported IntervalFound InstalledIsWanted RoundTrip
