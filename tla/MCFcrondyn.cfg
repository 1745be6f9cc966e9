SPECIFICATION Spec
CONSTANTS
  Clients = {1, 2}
  user_str <- MCUser
  ROOTNAME = "root"
  Lines = {"r"}
  Codes = {"ls", "run", "kill"}
  cf_user <- MCOwner
  PeerCred = {TRUE, FALSE}
  MaxFd = 4
  MaxCmds <- MCCmds
  MaxEntries = 1
  MAX_AUTH_FAIL = 1
  Faults = {"cut_end", "full_socket"}
INVARIANTS ListedIsWatched AnswersInStep
PROPERTY TalkReturns
