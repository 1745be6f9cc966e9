---------------------------- MODULE MCJobControl ----------------------------
(* Small fcrontabs on which JobControl is checked.                         *)
EXTENDS JobControl, TLC

(* Any of the jobs may run as any of the processes.                        *)
PidSymmetry == Permutations(Pids)

OneUser(L) == [l \in L |-> "u1"]

(* A serial job, a serial job which may be queued several times, waits for *)
(* the load average and may be given up, and a normal job of another user  *)
(* that is queued at boot.                                                 *)
QueuesFileOf == [s |-> "u1", w |-> "u1", b |-> "u2"]
QueuesOpt    == [s |-> {"serial"},
                 w |-> {"lavg", "serial", "lavg_sev", "drop"},
                 b |-> {"bootrun"}]

(* Two users: a normal job, which may run several times and is queued at   *)
(* boot or not, a serial job, and a job of the second user, which waits    *)
(* for the load average until it is late, or is serial.                    *)
ReloadFileOf == [n |-> "u1", s |-> "u1", t |-> "u2"]
ReloadOpt    == [n |-> {"exe_sev", "bootrun"}, s |-> {"serial"}, t |-> {"lavg", "late"}]
PlainOpt     == [n |-> {}, s |-> {"serial"}, t |-> {"serial"}]

(* A normal job that is queued when its time was missed, two serial jobs.  *)
ResumeFileOf == OneUser({"b", "s", "t"})
ResumeOpt    == [b |-> {"bootrun"}, s |-> {"serial"}, t |-> {"serial"}]

(* A bootrun job and a serial one.                                         *)
LiveFileOf == OneUser({"b", "s"})
LiveOpt    == [b |-> {"bootrun"}, s |-> {"serial"}]

=============================================================================
