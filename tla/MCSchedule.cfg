CONSTANTS
  MAXYEAR_SCHEDULE_TIME = 10
  FirstSleep = 20
  Lines <- MCLines
  LineOf <- MCLineOf
  Versions <- MCVersions
  Starts <- MCStarts
  Duration = 6600
  SaveTime = 3600
  LAVG_SLEEP = 1500
  Late = {400}
  Pauses = {3000}
  Env = {"early", "late", "suspend", "stop", "boot", "hup", "hup_late", "crash"}
  MaxEvents = 1
  Draws = {0, 3}
  TIME_T_MAX = 2147483647
SPECIFICATION Spec
CHECK_DEADLOCK FALSE
INVARIANTS QueueExact NextMatches NoMatchSkipped WakesInTime UptimeCounts
PROPERTIES OncePerInterval StrictInside
