---------------------------- MODULE RunJobProofs ----------------------------
(***************************************************************************)
(* Two theorems about RunJob, for any jobs and any faults: what fcron reads *)
(* from the pipe of a job is right, and what a job writes is mailed.        *)
(***************************************************************************)
EXTENDS RunJob, TLAPS

-----------------------------------------------------------------------------
(* The pid.  The argument for PidRight follows the write end of the pipe.   *)
(* As long as the pid is not written, the control process holds that end,   *)
(* so that fcron, which reads an end of file only when nobody holds it,     *)
(* gives up only after the control process has died or was killed; and a    *)
(* control process that has died has not forked the job.                    *)

CtrlPlaces ==
    {"none", "setup", "fork", "write", "copy", "wait", "end", "died", "failed", "killed"}

\* What the steps need to know of the types.
Typed ==
    /\ DOMAIN at = Procs /\ DOMAIN fds = Procs
    /\ DOMAIN pidpipe = Jobs /\ DOMAIN result = Jobs /\ DOMAIN job_pid = Jobs
    /\ \A j \in Jobs : at[Ctrl(j)] \in CtrlPlaces
    /\ cur \in Jobs \cup {0} /\ nopipe \subseteq Jobs

\* fcron reads the pipe of a job that it has forked, and whose read end it has.
Reading ==
    at[Fcron] \in {"forked", "read"} =>
        /\ cur \in Jobs
        /\ at[Ctrl(cur)] # "none" /\ result[cur] = "none"
        /\ cur \notin nopipe => PidR(cur) \in fds[Fcron]

\* The job exists once its control process has forked it, and not before.
HasCtrl(j) ==
    /\ at[Job(j)] # "none" => 
           at[Ctrl(j)] \in {"write", "copy", "wait", "end", "failed", "killed"}
    /\ at[Ctrl(j)] = "write" => at[Job(j)] # "none"

\* A control process that has not written the pid can still do it.
CanWrite(j) ==
    j \notin nopipe /\ at[Ctrl(j)] \in {"setup", "fork", "write"} =>
        PidW(j) \in fds[Ctrl(j)]

\* What is in the pipe is true.
PipeIsTrue(j) ==
    /\ pidpipe[j] \subseteq {Job(j), NoPid}
    /\ Job(j) \in pidpipe[j] => at[Job(j)] # "none"
    /\ NoPid \in pidpipe[j] => at[Ctrl(j)] = "died"

\* One that has gone past its write has written the pid.
HasWritten(j) ==
    j \notin nopipe /\ at[Ctrl(j)] \in {"copy", "wait", "end", "failed"} => pidpipe[j] # {}

\* PidRight, where the job was not forked and never will be.
PidKnown(j) ==
    result[j] = "OK" =>
        /\ at[Ctrl(j)] # "none"
        /\ \/ job_pid[j] = Job(j) /\ at[Job(j)] # "none"
           \/ job_pid[j] = NoPid /\ (j \in nopipe \/ at[Ctrl(j)] \in {"died", "killed"})

JobInv(j) == HasCtrl(j) /\ CanWrite(j) /\ PipeIsTrue(j) /\ HasWritten(j) /\ PidKnown(j)

PidInv == Typed /\ Reading /\ \A j \in Jobs : JobInv(j)

-----------------------------------------------------------------------------
\* Processes and ends of pipes have names of their own.
LEMMA Names ==
    \A j, k \in Jobs :
           /\ {Fcron, Ctrl(j), Job(j), Bg(j)} \subseteq Procs
           /\ Ctrl(j) # Fcron /\ Job(j) # Fcron /\ Bg(j) # Fcron
           /\ Ctrl(j) # Job(k) /\ Ctrl(j) # Bg(k) /\ Job(j) # Bg(k)
           /\ Ctrl(j) = Ctrl(k) => j = k
           /\ Job(j) = Job(k) => j = k
           /\ Job(j) # NoPid /\ Job(j) # Unset /\ NoPid # Unset
           /\ PidW(j) # PidR(k) /\ PidW(j) # OutR(k) /\ PidW(j) # OutW(k)
           /\ PidR(j) # OutR(k) /\ PidR(j) # OutW(k)
           /\ PidW(j) = PidW(k) => j = k
           /\ PidR(j) = PidR(k) => j = k
BY RunJobAssumption DEF Procs, Fcron, Ctrl, Job, Bg, NoPid, Unset, PidR, PidW, OutR, OutW

-----------------------------------------------------------------------------
\* A step of the processes of one job says nothing of the others, and leaves
\* fcron where it is.
LEMMA OwnStep ==
    ASSUME PidInv, NEW j \in Jobs, Typed',
           UNCHANGED <<nopipe, cur, result, job_pid>>,
           \A p \in Procs : p \notin {Ctrl(j), Job(j), Bg(j)} =>
                at'[p] = at[p] /\ fds'[p] = fds[p],
           \A k \in Jobs \ {j} : pidpipe'[k] = pidpipe[k],
           at[Ctrl(j)] # "none" => at'[Ctrl(j)] # "none", JobInv(j)'
    PROVE  PidInv'
<1>1. Reading'
  BY Names DEF PidInv, Reading
<1>2. ASSUME NEW k \in Jobs \ {j} PROVE JobInv(k)'
  <2>1. /\ at'[Ctrl(k)] = at[Ctrl(k)] /\ fds'[Ctrl(k)] = fds[Ctrl(k)]
        /\ at'[Job(k)] = at[Job(k)] /\ pidpipe'[k] = pidpipe[k]
    BY Names
  <2> QED  BY <2>1 DEF PidInv, JobInv, HasCtrl, CanWrite, PipeIsTrue, HasWritten, PidKnown
<1> QED  BY <1>1, <1>2 DEF PidInv

LEMMA Own ==
    ASSUME NEW j \in Jobs
    PROVE  /\ Fcron \in Procs /\ Ctrl(j) \in Procs /\ Job(j) \in Procs /\ Bg(j) \in Procs
           /\ Ctrl(j) # Fcron /\ Job(j) # Fcron /\ Bg(j) # Fcron
           /\ Ctrl(j) # Job(j) /\ Ctrl(j) # Bg(j) /\ Job(j) # Bg(j)
           /\ Job(j) # NoPid /\ Job(j) # Unset /\ NoPid # Unset
           /\ PidW(j) # PidR(j) /\ PidW(j) # OutR(j) /\ PidW(j) # OutW(j)
           /\ PidR(j) # OutR(j) /\ PidR(j) # OutW(j)
           /\ \A k \in Jobs : Ctrl(k) # Job(j) /\ Ctrl(k) # Bg(j) /\ (Ctrl(k) = Ctrl(j) => k = j)
           /\ \A k \in Jobs : Ctrl(k) \in Procs
<1>1. /\ Fcron \in Procs /\ Ctrl(j) \in Procs /\ Job(j) \in Procs /\ Bg(j) \in Procs
      /\ \A k \in Jobs : Ctrl(k) \in Procs
  BY DEF Procs
<1> QED  BY Names, <1>1

\* The steps of a control process.
LEMMA CtrlKeeps ==
    ASSUME PidInv, NEW j \in Jobs, CtrlNext(j) \/ Killed(j)
    PROVE  PidInv'
<1>1. CASE SetUp(j)
  <2>1. Typed'
    BY <1>1, Own DEF SetUp, Move, exe, PidInv, Typed, CtrlPlaces
  <2>2. JobInv(j)'
    BY <1>1, Own DEF SetUp, Move, exe, PidInv, Typed, JobInv, HasCtrl, CanWrite,
       PipeIsTrue, HasWritten, PidKnown
  <2> QED
    BY <1>1, <2>1, <2>2, Own, OwnStep DEF SetUp, Move, exe, PidInv, Typed, CtrlPlaces
<1>2. CASE Dies(j)
  <2>1. Typed'
    BY <1>2, Own DEF Dies, CtrlEnds, Move, exe, PidInv, Typed, CtrlPlaces
  <2>2. JobInv(j)'
    BY <1>2, Own DEF Dies, CtrlEnds, Move, exe, PidInv, Typed, JobInv, HasCtrl, CanWrite,
       PipeIsTrue, HasWritten, PidKnown
  <2> QED
    BY <1>2, <2>1, <2>2, Own, OwnStep DEF Dies, CtrlEnds, Move, exe, PidInv, Typed,
       CtrlPlaces
<1>3. CASE Fork2(j)
  <2>1. Typed'
    BY <1>3, Own DEF Fork2, exe, PidInv, Typed, CtrlPlaces
  <2>2. JobInv(j)'
    BY <1>3, Own DEF Fork2, exe, PidInv, Typed, JobInv, HasCtrl, CanWrite, PipeIsTrue,
       HasWritten, PidKnown
  <2> QED
    BY <1>3, <2>1, <2>2, Own, OwnStep DEF Fork2, exe, PidInv, Typed, CtrlPlaces
<1>4. CASE CannotFork2(j)
  <2>1. Typed'
    BY <1>4, Own DEF CannotFork2, CtrlEnds, Move, exe, PidInv, Typed, CtrlPlaces
  <2>2. JobInv(j)'
    BY <1>4, Own DEF CannotFork2, CtrlEnds, Move, exe, PidInv, Typed, JobInv, HasCtrl,
       CanWrite, PipeIsTrue, HasWritten, PidKnown
  <2> QED
    BY <1>4, <2>1, <2>2, Own, OwnStep DEF CannotFork2, CtrlEnds, Move, exe, PidInv,
       Typed, CtrlPlaces
<1>5. CASE WritePid(j)
  <2>1. Typed'
    BY <1>5, Own DEF WritePid, Move, exe, PidInv, Typed, CtrlPlaces
  <2>2. JobInv(j)'
    BY <1>5, Own DEF WritePid, Move, exe, PidInv, Typed, JobInv, HasCtrl, CanWrite,
       PipeIsTrue, HasWritten, PidKnown
  <2> QED
    BY <1>5, <2>1, <2>2, Own, OwnStep DEF WritePid, Move, exe, PidInv, Typed, CtrlPlaces
<1>6. CASE Copy(j)
  <2>1. Typed'
    BY <1>6, Own DEF Copy, exe, PidInv, Typed, CtrlPlaces
  <2>2. JobInv(j)'
    BY <1>6, Own DEF Copy, exe, PidInv, Typed, JobInv, HasCtrl, CanWrite, PipeIsTrue,
       HasWritten, PidKnown
  <2> QED
    BY <1>6, <2>1, <2>2, Own, OwnStep DEF Copy, exe, PidInv, Typed, CtrlPlaces
<1>7. CASE EndCopy(j)
  <2>1. Typed'
    BY <1>7, Own DEF EndCopy, Move, exe, PidInv, Typed, CtrlPlaces
  <2>2. JobInv(j)'
    BY <1>7, Own DEF EndCopy, Move, exe, PidInv, Typed, JobInv, HasCtrl, CanWrite,
       PipeIsTrue, HasWritten, PidKnown
  <2> QED
    BY <1>7, <2>1, <2>2, Own, OwnStep DEF EndCopy, Move, exe, PidInv, Typed, CtrlPlaces
<1>8. CASE end_job(j)
  <2>1. PICK how \in {"end", "failed"} : CtrlEnds(j, how)
    BY <1>8 DEF end_job
  <2>2. /\ at[Ctrl(j)] = "wait"
        /\ UNCHANGED <<nopipe, cur, pidpipe, result, job_pid>>
    BY <1>8 DEF end_job, exe
  <2>3. Typed'
    BY <2>1, <2>2, Own DEF CtrlEnds, Move, PidInv, Typed, CtrlPlaces
  <2>4. JobInv(j)'
    BY <2>1, <2>2, Own DEF CtrlEnds, Move, PidInv, Typed, JobInv, HasCtrl,
       CanWrite, PipeIsTrue, HasWritten, PidKnown
  <2> QED
    BY <2>1, <2>2, <2>3, <2>4, Own, OwnStep DEF CtrlEnds, Move, PidInv, Typed, CtrlPlaces
<1>9. CASE Killed(j)
  <2>1. Typed'
    BY <1>9, Own DEF Killed, CtrlEnds, Move, exe, PidInv, Typed, CtrlPlaces
  <2>2. JobInv(j)'
    BY <1>9, Own DEF Killed, CtrlEnds, Move, exe, PidInv, Typed, JobInv, HasCtrl,
       CanWrite, PipeIsTrue, HasWritten, PidKnown
  <2> QED
    BY <1>9, <2>1, <2>2, Own, OwnStep DEF Killed, CtrlEnds, Move, exe, PidInv, Typed,
       CtrlPlaces
<1>10. CASE CannotCopy(j)
  <2>1. Typed'
    BY <1>10, Own DEF CannotCopy, CtrlEnds, Move, exe, PidInv, Typed, CtrlPlaces
  <2>2. JobInv(j)'
    BY <1>10, Own DEF CannotCopy, CtrlEnds, Move, exe, PidInv, Typed, JobInv, HasCtrl,
       CanWrite, PipeIsTrue, HasWritten, PidKnown
  <2> QED
    BY <1>10, <2>1, <2>2, Own, OwnStep DEF CannotCopy, CtrlEnds, Move, exe, PidInv, Typed,
       CtrlPlaces
<1> QED
  BY <1>1, <1>2, <1>3, <1>4, <1>5, <1>6, <1>7, <1>8, <1>9, <1>10 DEF CtrlNext

\* The steps of a job and of what it leaves in the background.
LEMMA JobKeeps ==
    ASSUME PidInv, NEW j \in Jobs, 
           StartNext(j) \/ JobForks(j) \/ JobExits(j) \/ BgExits(j)
    PROVE  PidInv'
<1>1. CASE JobStarts(j)
  <2>1. Typed'
    BY <1>1, Own DEF JobStarts, Move, exe, PidInv, Typed, CtrlPlaces
  <2>2. JobInv(j)'
    BY <1>1, Own DEF JobStarts, Move, exe, PidInv, Typed, JobInv, HasCtrl, CanWrite,
       PipeIsTrue, HasWritten, PidKnown
  <2> QED
    BY <1>1, <2>1, <2>2, Own, OwnStep DEF JobStarts, Move, exe, PidInv, Typed,
       CtrlPlaces, JobInv, HasCtrl
<1>2. CASE Exec(j)
  <2>1. Typed'
    BY <1>2, Own DEF Exec, Move, exe, PidInv, Typed, CtrlPlaces
  <2>2. JobInv(j)'
    BY <1>2, Own DEF Exec, Move, exe, PidInv, Typed, JobInv, HasCtrl, CanWrite,
       PipeIsTrue, HasWritten, PidKnown
  <2> QED
    BY <1>2, <2>1, <2>2, Own, OwnStep DEF Exec, Move, exe, PidInv, Typed, CtrlPlaces,
       JobInv, HasCtrl
<1>3. CASE CannotExec(j)
  <2>1. Typed'
    BY <1>3, Own DEF CannotExec, Exits, exe, PidInv, Typed, CtrlPlaces
  <2>2. JobInv(j)'
    BY <1>3, Own DEF CannotExec, Exits, exe, PidInv, Typed, JobInv, HasCtrl, CanWrite,
       PipeIsTrue, HasWritten, PidKnown
  <2> QED
    BY <1>3, <2>1, <2>2, Own, OwnStep DEF CannotExec, Exits, exe, PidInv, Typed,
       CtrlPlaces, JobInv, HasCtrl
<1>4. CASE JobForks(j)
  <2>1. Typed'
    BY <1>4, Own DEF JobForks, Move, exe, PidInv, Typed, CtrlPlaces
  <2>2. JobInv(j)'
    BY <1>4, Own DEF JobForks, Move, exe, PidInv, Typed, JobInv, HasCtrl, CanWrite,
       PipeIsTrue, HasWritten, PidKnown
  <2> QED
    BY <1>4, <2>1, <2>2, Own, OwnStep DEF JobForks, Move, exe, PidInv, Typed, CtrlPlaces,
       JobInv, HasCtrl
<1>5. CASE JobExits(j)
  <2>1. Typed'
    BY <1>5, Own DEF JobExits, Exits, exe, PidInv, Typed, CtrlPlaces
  <2>2. JobInv(j)'
    BY <1>5, Own DEF JobExits, Exits, exe, PidInv, Typed, JobInv, HasCtrl, CanWrite,
       PipeIsTrue, HasWritten, PidKnown
  <2> QED
    BY <1>5, <2>1, <2>2, Own, OwnStep DEF JobExits, Exits, exe, PidInv, Typed,
       CtrlPlaces, JobInv, HasCtrl
<1>6. CASE BgExits(j)
  <2>1. Typed'
    BY <1>6, Own DEF BgExits, Move, exe, PidInv, Typed, CtrlPlaces
  <2>2. JobInv(j)'
    BY <1>6, Own DEF BgExits, Move, exe, PidInv, Typed, JobInv, HasCtrl, CanWrite,
       PipeIsTrue, HasWritten, PidKnown
  <2> QED
    BY <1>6, <2>1, <2>2, Own, OwnStep DEF BgExits, Move, exe, PidInv, Typed, CtrlPlaces,
       JobInv, HasCtrl
<1> QED
  BY <1>1, <1>2, <1>3, <1>4, <1>5, <1>6 DEF StartNext

\* What is written in the pipe of the output plays no part here.
LEMMA WritesKeep ==
    ASSUME PidInv, NEW j \in Jobs, \E p \in {Job(j), Bg(j)} : Writes(j, p)
    PROVE  PidInv'
<1>1. UNCHANGED <<at, nopipe, cur, fds, pidpipe, result, job_pid>>
  BY DEF Writes, exe
<1> QED
  BY <1>1 DEF PidInv, Typed, JobInv, HasCtrl, CanWrite, PipeIsTrue, HasWritten, PidKnown, Reading

-----------------------------------------------------------------------------
\* A step of fcron about j says nothing of the others either: it may start the
\* control process of j, close ends in fcron, and set the exe_t of j.
LEMMA FcronStep ==
    ASSUME PidInv, NEW j \in Jobs, Typed', Reading',
           UNCHANGED pidpipe,
           \A p \in Procs : p \notin {Ctrl(j), Fcron} => at'[p] = at[p] /\ fds'[p] = fds[p],
           \A k \in Jobs \ {j} : /\ result'[k] = result[k] /\ job_pid'[k] = job_pid[k]
                                 /\ k \in nopipe' <=> k \in nopipe,
           JobInv(j)'
    PROVE  PidInv'
<1>1. ASSUME NEW k \in Jobs \ {j} PROVE JobInv(k)'
  <2>1. /\ at'[Ctrl(k)] = at[Ctrl(k)] /\ fds'[Ctrl(k)] = fds[Ctrl(k)]
        /\ at'[Job(k)] = at[Job(k)]
    BY Names
  <2> QED  BY <2>1 DEF PidInv, JobInv, HasCtrl, CanWrite, PipeIsTrue, HasWritten, PidKnown
<1> QED  BY <1>1 DEF PidInv

LEMMA RunJobKeeps ==
    ASSUME PidInv, NEW j \in Jobs, run_job(j)
    PROVE  PidInv'
<1>1. PICK made \in BOOLEAN :
          /\ nopipe' = IF made THEN nopipe ELSE nopipe \cup {j}
          /\ job_pid' = [job_pid EXCEPT ![j] = IF made THEN @ ELSE NoPid]
          /\ Forks(j, made) \/ CannotFork(j, made)
  BY DEF run_job
<1>2. /\ at[Fcron] = "idle" /\ at[Ctrl(j)] = "none" /\ result[j] = "none"
      /\ UNCHANGED pidpipe
  BY DEF run_job
<1>3. CASE Forks(j, made)
  <2>1. Typed'
    BY <1>1, <1>2, <1>3, Own DEF Forks, PidInv, Typed, CtrlPlaces
  <2>2. JobInv(j)'
    BY <1>1, <1>2, <1>3, Own DEF Forks, PidInv, Typed, JobInv, HasCtrl, CanWrite,
       PipeIsTrue, HasWritten, PidKnown
  <2>3. Reading'
    BY <1>1, <1>2, <1>3, Own DEF Forks, PidInv, Typed, Reading
  <2> QED
    BY <1>1, <1>2, <1>3, <2>1, <2>2, <2>3, Own, FcronStep DEF Forks, PidInv, Typed
<1>4. CASE CannotFork(j, made)
  <2>1. Typed'
    BY <1>1, <1>2, <1>4, Own DEF CannotFork, PidInv, Typed, CtrlPlaces
  <2>2. JobInv(j)'
    BY <1>1, <1>2, <1>4, Own DEF CannotFork, PidInv, Typed, JobInv, HasCtrl, CanWrite,
       PipeIsTrue, HasWritten, PidKnown
  <2>3. Reading'
    BY <1>2, <1>4, Own DEF CannotFork, PidInv, Typed, Reading
  <2> QED
    BY <1>1, <1>2, <1>4, <2>1, <2>2, <2>3, Own, FcronStep DEF CannotFork, PidInv, Typed
<1> QED  BY <1>1, <1>3, <1>4

LEMMA ParentClosesKeeps ==
    ASSUME PidInv, ParentCloses
    PROVE  PidInv'
<1>1. cur \in Jobs
  BY DEF PidInv, Reading, ParentCloses
<1>2. Typed'
  BY <1>1, Own DEF ParentCloses, Move, PidInv, Typed, CtrlPlaces
<1>3. JobInv(cur)'
  BY <1>1, Own DEF ParentCloses, Move, PidInv, Typed, JobInv, HasCtrl, CanWrite,
     PipeIsTrue, HasWritten, PidKnown
<1>4. Reading'
  BY <1>1, Own DEF ParentCloses, ClosedByParent, Move, PidInv, Typed, Reading
<1> QED
  BY <1>1, <1>2, <1>3, <1>4, Own, FcronStep DEF ParentCloses, Move, PidInv, Typed

\* fcron leaves read_pipe() with a pid that PidKnown allows.
LEMMA ReturnsKeeps ==
    ASSUME PidInv, at[Fcron] = "read", NEW pid, Returns(pid), NEW j \in Jobs, j = cur,
           \/ pid = Job(j) /\ at[Job(j)] # "none"
           \/ pid = NoPid /\ (j \in nopipe \/ at[Ctrl(j)] \in {"died", "killed"})
    PROVE  PidInv'
<1>1. at[Ctrl(j)] # "none"
  BY DEF PidInv, Reading
<1>2. Typed'
  BY Own DEF Returns, Move, PidInv, Typed, CtrlPlaces
<1>3. JobInv(j)'
  <2>1. /\ result'[j] = "OK" /\ job_pid'[j] = pid
        /\ at'[Ctrl(j)] = at[Ctrl(j)] /\ at'[Job(j)] = at[Job(j)]
        /\ fds'[Ctrl(j)] = fds[Ctrl(j)]
        /\ UNCHANGED <<pidpipe, nopipe>>
    BY Own DEF Returns, PidRead, Move, PidInv, Typed
  <2>2. HasCtrl(j) /\ CanWrite(j) /\ PipeIsTrue(j) /\ HasWritten(j)
    BY DEF PidInv, JobInv
  <2> QED
    BY <1>1, <2>1, <2>2 DEF JobInv, HasCtrl, CanWrite, PipeIsTrue, HasWritten, PidKnown
<1>4. Reading'
  BY Own DEF Returns, Move, PidInv, Typed, Reading
<1> QED
  BY <1>2, <1>3, <1>4, Own, FcronStep DEF Returns, Move, PidInv, Typed

LEMMA ReadsKeep ==
    ASSUME PidInv, ReadPid \/ BadPipe \/ GiveUpRead
    PROVE  PidInv'
<1>1. PICK j \in Jobs : j = cur /\ at[Fcron] = "read" /\ at[Ctrl(j)] # "none"
                       /\ (j \notin nopipe => PidR(j) \in fds[Fcron])
  BY DEF PidInv, Reading, ReadPid, BadPipe, GiveUpRead, AtEnd
<1>2. JobInv(j)
  BY DEF PidInv
<1>3. CASE ReadPid
  <2>1. PICK pid \in pidpipe[j] : Returns(pid)
    BY <1>1, <1>3 DEF ReadPid
  <2> QED
    BY <1>1, <1>2, <2>1, ReturnsKeeps DEF JobInv, PipeIsTrue
<1>4. CASE BadPipe
  BY <1>1, <1>4, ReturnsKeeps DEF BadPipe
\* Nobody holds the write end: the control process is gone.
<1>5. CASE GiveUpRead
  <2>1. Returns(NoPid) /\ pidpipe[j] = {} /\ PidW(j) \notin fds[Ctrl(j)]
    BY <1>1, <1>5, Own DEF GiveUpRead, AtEnd, Closed
  <2>2. j \in nopipe \/ at[Ctrl(j)] \in {"died", "killed"}
    BY <1>1, <1>2, <2>1 DEF JobInv, CanWrite, HasWritten, PidInv, Typed, CtrlPlaces
  <2> QED
    BY <1>1, <2>1, <2>2, ReturnsKeeps
<1> QED  BY <1>3, <1>4, <1>5

-----------------------------------------------------------------------------

LEMMA PidInvInit == Init => PidInv
<1> SUFFICES ASSUME Init PROVE PidInv
  OBVIOUS
<1>1. Typed
  BY Own DEF Init, Typed, CtrlPlaces
<1>2. Reading
  BY DEF Init, Reading, Procs
<1>3. ASSUME NEW j \in Jobs PROVE JobInv(j)
  BY Own DEF Init, JobInv, HasCtrl, CanWrite, PipeIsTrue, HasWritten, PidKnown
<1> QED  BY <1>1, <1>2, <1>3 DEF PidInv

LEMMA PidInvNext == PidInv /\ [Next]_vars => PidInv'
<1> SUFFICES ASSUME PidInv, [Next]_vars PROVE PidInv'
  OBVIOUS
<1>1. CASE FcronNext
  <2>1. CASE \E j \in Jobs : run_job(j)
    BY <2>1, RunJobKeeps
  <2>2. CASE ParentCloses
    BY <2>2, ParentClosesKeeps
  <2>3. CASE ReadPid \/ BadPipe \/ GiveUpRead
    BY <2>3, ReadsKeep
  <2>4. CASE RetryRead
    BY <2>4 DEF RetryRead, exe, PidInv, Typed, Reading, JobInv, HasCtrl, CanWrite,
                PipeIsTrue, HasWritten, PidKnown
  <2> QED  BY <1>1, <2>1, <2>2, <2>3, <2>4 DEF FcronNext
<1>2. ASSUME NEW j \in Jobs, CtrlNext(j) \/ Killed(j) PROVE PidInv'
  BY <1>2, CtrlKeeps
<1>3. ASSUME NEW j \in Jobs, StartNext(j) \/ JobForks(j) \/ JobExits(j) \/ BgExits(j)
      PROVE PidInv'
  BY <1>3, JobKeeps
<1>4. ASSUME NEW j \in Jobs, \E p \in {Job(j), Bg(j)} : Writes(j, p) PROVE PidInv'
  BY <1>4, WritesKeep
<1>5. CASE UNCHANGED vars
  BY <1>5 DEF vars, PidInv, Typed, Reading, JobInv, HasCtrl, CanWrite,
              PipeIsTrue, HasWritten, PidKnown
<1> QED  BY <1>1, <1>2, <1>3, <1>4, <1>5 DEF Next

LEMMA PidInvRight == PidInv => PidRight
BY DEF PidInv, JobInv, HasCtrl, PidKnown, PidRight

\* fcron has the pid of the job that runs, or -1 when the job never was, when
\* its control process was killed or when there was no pipe: whatever fails,
\* and however the reads of fcron and the writes and the ends of the other
\* processes interleave (run_job() and read_write_pipe()).
THEOREM PidIsRight == Spec => []PidRight
BY PidInvInit, PidInvNext, PidInvRight, PTL DEF Spec

-----------------------------------------------------------------------------
(* The output.  Only the processes of a job may hold the pipe of its        *)
(* output, and the job holds its write end as long as it runs; what was     *)
(* written is in the pipe or in the file; and a control process that has    *)
(* left the copy has seen the pipe empty with nobody left to fill it.       *)

MailTyped ==
    /\ DOMAIN at = Procs /\ DOMAIN fds = Procs
    /\ DOMAIN output = Jobs /\ DOMAIN written = Jobs /\ DOMAIN mailf = Jobs
    /\ DOMAIN lost = Jobs /\ DOMAIN exited = Jobs /\ DOMAIN mailed = Jobs
    /\ \A j \in Jobs : /\ at[Ctrl(j)] \in CtrlPlaces
                        /\ output[j] \in Nat /\ written[j] \in Nat /\ lost[j] \in Nat
                        /\ mailf[j] \in Nat \cup {-1} /\ mailed[j] \in Int

\* Who may hold an end of the pipe of the output, once there is a mail file.
Holders(j) ==
    \A p \in Procs : OutW(j) \in fds[p] \/ OutR(j) \in fds[p] =>
        p \in {Ctrl(j), Job(j), Bg(j)} /\ mailf[j] >= 0

\* The job has the write end from its control process, and keeps it.
JobHolds(j) ==
    HasMail(j) =>
        /\ at[Ctrl(j)] = "fork" => OutW(j) \in fds[Ctrl(j)]
        /\ at[Job(j)] \in {"forked", "setup", "running"} => OutW(j) \in fds[Job(j)]

\* The mail file is there from create_mail() on, and it and the pipe have all
\* that was written, but for what could not be put in the file.
Counted(j) ==
    /\ IF mailf[j] >= 0 THEN HasMail(j) /\ written[j] = mailf[j] + output[j] + lost[j]
                        ELSE written[j] = 0 /\ output[j] = 0 /\ lost[j] = 0
    /\ lost[j] > 0 => "disk_full" \in Faults
    /\ HasMail(j) /\ at[Ctrl(j)] \in {"fork", "write", "copy", "wait", "end"} =>
          mailf[j] >= 0
    /\ at[Ctrl(j)] \in {"none", "setup"} => mailf[j] = -1

Drained(j) ==
    HasMail(j) /\ at[Ctrl(j)] \in {"wait", "end"} => output[j] = 0 /\ Closed(OutW(j))

\* The job was waited for, and its mail is what end_job() has sent.
WaitedFor(j) ==
    /\ at[Ctrl(j)] \notin {"end", "died"} => mailed[j] = -1
    /\ at[Ctrl(j)] = "end" =>
          /\ at[Job(j)] = "end" /\ mailed[j] \in {mailf[j], -1}
          /\ mailed[j] = -1 /\ lost[j] = 0 => ~mail_output(j, 0)
    /\ at[Ctrl(j)] = "failed" => "mailer" \in Faults /\ HasMail(j)

MailJob(j) == Holders(j) /\ JobHolds(j) /\ Counted(j) /\ Drained(j) /\ WaitedFor(j)

MailInv == MailTyped /\ \A j \in Jobs : MailJob(j)

-----------------------------------------------------------------------------
\* The ends of the two pipes of two jobs are all different.
LEMMA OutNames ==
    \A j, k \in Jobs :
           /\ OutW(j) # OutR(k) /\ (OutW(j) = OutW(k) => j = k) /\ (OutR(j) = OutR(k) => j = k)
           /\ OutW(j) # PidW(k) /\ OutW(j) # PidR(k) /\ OutR(j) # PidW(k) /\ OutR(j) # PidR(k)
BY RunJobAssumption DEF PidR, PidW, OutR, OutW

\* A step that changes nothing of the mail of k.
Same(k) ==
    /\ at'[Ctrl(k)] = at[Ctrl(k)] /\ at'[Job(k)] = at[Job(k)]
    /\ output'[k] = output[k] /\ written'[k] = written[k]
    /\ mailf'[k] = mailf[k] /\ lost'[k] = lost[k]
    /\ exited'[k] = exited[k] /\ mailed'[k] = mailed[k] /\ kind'[k] = kind[k]
    /\ \A p \in Procs : /\ OutW(k) \in fds'[p] <=> OutW(k) \in fds[p]
                        /\ OutR(k) \in fds'[p] <=> OutR(k) \in fds[p]

LEMMA SameKeeps ==
    ASSUME NEW k \in Jobs, MailJob(k), Same(k)
    PROVE  MailJob(k)'
<1>1. /\ HasMail(k)' <=> HasMail(k)
      /\ mail_output(k, 0)' <=> mail_output(k, 0)
      /\ Closed(OutW(k))' <=> Closed(OutW(k))
  BY DEF Same, HasMail, to_stdout, mail_output, Closed
<1>2. Ctrl(k) \in Procs /\ Job(k) \in Procs
  BY Own
<1>3. Holders(k)'
  BY DEF MailJob, Holders, Same
<1>4. JobHolds(k)'
  BY <1>1, <1>2 DEF MailJob, JobHolds, Same
<1>5. Counted(k)' /\ Drained(k)' /\ WaitedFor(k)'
  BY <1>1 DEF MailJob, Counted, Drained, WaitedFor, Same
<1> QED  BY <1>3, <1>4, <1>5 DEF MailJob

\* Neither fcron nor the processes of another job hold the pipe of the output.
LEMMA Foreign ==
    ASSUME MailInv, NEW k \in Jobs
    PROVE  /\ OutW(k) \notin fds[Fcron] /\ OutR(k) \notin fds[Fcron]
           /\ \A j \in Jobs \ {k} : \A p \in {Ctrl(j), Job(j), Bg(j)} :
                 OutW(k) \notin fds[p] /\ OutR(k) \notin fds[p]
<1>1. Holders(k)
  BY DEF MailInv, MailJob
<1>2. \A j \in Jobs \ {k} : {Ctrl(j), Job(j), Bg(j)} \cap {Ctrl(k), Job(k), Bg(k)} = {}
  BY RunJobAssumption DEF Ctrl, Job, Bg
<1> QED  BY <1>1, <1>2, Names DEF Holders

\* The steps of a control process.
LEMMA CtrlMails ==
    ASSUME MailInv, NEW j \in Jobs, CtrlNext(j) \/ Killed(j)
    PROVE  MailInv'
<1>1. CASE SetUp(j)
  <2>1. MailTyped'
    BY <1>1, Own DEF SetUp, Move, MailInv, MailTyped, CtrlPlaces
  <2>2. ASSUME NEW k \in Jobs \ {j} PROVE Same(k)
    BY <1>1, Own, Names, OutNames DEF SetUp, Move, MailInv, MailTyped, Same
  <2>3. MailJob(j)'
    BY <1>1, Own, OutNames DEF SetUp, Move, MailInv, MailTyped, MailJob,
       HasMail, to_stdout, Holders, JobHolds, Counted, Drained, WaitedFor, Closed, mail_output
  <2> QED  BY <2>1, <2>2, <2>3, SameKeeps DEF MailInv
<1>2. CASE Dies(j)
  <2>1. MailTyped'
    BY <1>2, Own DEF Dies, CtrlEnds, Move, MailInv, MailTyped, CtrlPlaces
  <2>2. ASSUME NEW k \in Jobs \ {j} PROVE Same(k)
    BY <1>2, Own, Names, OutNames, Foreign DEF Dies, CtrlEnds, Move, MailInv, MailTyped,
       Same
  <2>3. MailJob(j)'
    BY <1>2, Own, OutNames DEF Dies, CtrlEnds, Move, MailInv, MailTyped, MailJob,
       HasMail, to_stdout, Holders, JobHolds, Counted, Drained, WaitedFor, Closed, mail_output
  <2> QED  BY <2>1, <2>2, <2>3, SameKeeps DEF MailInv
<1>3. CASE Fork2(j)
  <2>1. MailTyped'
    BY <1>3, Own DEF Fork2, MailInv, MailTyped, CtrlPlaces
  <2>2. ASSUME NEW k \in Jobs \ {j} PROVE Same(k)
    BY <1>3, Own, Names, OutNames, Foreign DEF Fork2, MailInv, MailTyped, Same
  <2>3. MailJob(j)'
    BY <1>3, Own, OutNames DEF Fork2, MailInv, MailTyped, MailJob,
       HasMail, to_stdout, Holders, JobHolds, Counted, Drained, WaitedFor, Closed, mail_output
  <2> QED  BY <2>1, <2>2, <2>3, SameKeeps DEF MailInv
<1>4. CASE CannotFork2(j)
  <2>1. MailTyped'
    BY <1>4, Own DEF CannotFork2, CtrlEnds, Move, MailInv, MailTyped, CtrlPlaces
  <2>2. ASSUME NEW k \in Jobs \ {j} PROVE Same(k)
    BY <1>4, Own, Names, OutNames, Foreign DEF CannotFork2, CtrlEnds, Move, MailInv,
       MailTyped, Same
  <2>3. MailJob(j)'
    BY <1>4, Own, OutNames DEF CannotFork2, CtrlEnds, Move, MailInv, MailTyped, MailJob,
       HasMail, to_stdout, Holders, JobHolds, Counted, Drained, WaitedFor, Closed, mail_output
  <2> QED  BY <2>1, <2>2, <2>3, SameKeeps DEF MailInv
<1>5. CASE WritePid(j)
  <2>1. MailTyped'
    BY <1>5, Own DEF WritePid, Move, MailInv, MailTyped, CtrlPlaces
  <2>2. ASSUME NEW k \in Jobs \ {j} PROVE Same(k)
    BY <1>5, Own, Names, OutNames DEF WritePid, Move, MailInv, MailTyped, Same
  <2>3. MailJob(j)'
    BY <1>5, Own, OutNames DEF WritePid, Move, MailInv, MailTyped, MailJob,
       HasMail, to_stdout, Holders, JobHolds, Counted, Drained, WaitedFor, Closed, mail_output
  <2> QED  BY <2>1, <2>2, <2>3, SameKeeps DEF MailInv
<1>6. CASE Copy(j)
  <2>1. MailTyped'
    BY <1>6, Own DEF Copy, MailInv, MailTyped, CtrlPlaces
  <2>2. ASSUME NEW k \in Jobs \ {j} PROVE Same(k)
    BY <1>6, Own, Names, OutNames DEF Copy, MailInv, MailTyped, Same
  <2>3. MailJob(j)'
    BY <1>6, Own, OutNames DEF Copy, MailInv, MailTyped, MailJob,
       HasMail, to_stdout, Holders, JobHolds, Counted, Drained, WaitedFor, Closed, mail_output
  <2> QED  BY <2>1, <2>2, <2>3, SameKeeps DEF MailInv
<1>7. CASE EndCopy(j)
  <2>1. MailTyped'
    BY <1>7, Own DEF EndCopy, Copied, Move, MailInv, MailTyped, CtrlPlaces
  <2>2. ASSUME NEW k \in Jobs \ {j} PROVE Same(k)
    BY <1>7, Own, Names, OutNames DEF EndCopy, Copied, Move, MailInv, MailTyped, Same
  <2>3. MailJob(j)'
    BY <1>7, Own, OutNames DEF EndCopy, Copied, Move, MailInv, MailTyped, MailJob,
       HasMail, to_stdout, Holders, JobHolds, Counted, Drained, WaitedFor, Closed, mail_output
  <2> QED  BY <2>1, <2>2, <2>3, SameKeeps DEF MailInv
<1>8. CASE end_job(j)
  <2>1. PICK n \in Unflushed(j) :
            /\ lost' = [lost EXCEPT ![j] = @ + n] /\ mailf' = [mailf EXCEPT ![j] = @ - n]
            /\ IF mail_output(j, n)
               THEN \/ mailed' = [mailed EXCEPT ![j] = mailf[j] - n] /\ CtrlEnds(j, "end")
                    \/ "mailer" \in Faults /\ CtrlEnds(j, "failed") /\ UNCHANGED mailed
               ELSE CtrlEnds(j, "end") /\ UNCHANGED mailed
    BY <1>8 DEF end_job
  <2>2. /\ at[Ctrl(j)] = "wait" /\ at[Job(j)] = "end"
        /\ UNCHANGED <<kind, output, written, exited>>
    BY <1>8 DEF end_job
  <2>3. PICK how \in {"end", "failed"} : CtrlEnds(j, how)
    BY <2>1
  <2>4. /\ mailf[j] \in Nat \cup {-1} /\ lost[j] \in Nat /\ n \in Nat
        /\ n > 0 => "disk_full" \in Faults /\ n <= mailf[j]
    BY DEF Unflushed, MailInv, MailTyped
  <2>5. /\ mailf'[j] = mailf[j] - n /\ lost'[j] = lost[j] + n
        /\ mailf'[j] \in Nat \cup {-1} /\ lost'[j] \in Nat
        /\ mailed'[j] \in {mailf'[j], mailed[j]} /\ mailed'[j] \in Int
    BY <2>1, <2>4 DEF MailInv, MailTyped
  <2>6. MailTyped'
    BY <2>1, <2>2, <2>3, <2>5, Own DEF CtrlEnds, Move, MailInv, MailTyped, CtrlPlaces
  <2>7. ASSUME NEW k \in Jobs \ {j} PROVE Same(k)
    BY <2>1, <2>2, <2>3, Own, Names, OutNames, Foreign DEF CtrlEnds, Move, MailInv,
       MailTyped, Same
  <2>8. Holders(j)' /\ JobHolds(j)' /\ Drained(j)'
    BY <2>2, <2>3, <2>4, <2>5, Own, OutNames DEF CtrlEnds, Move, MailInv, MailTyped, MailJob,
       HasMail, to_stdout, Holders, JobHolds, Drained, Closed
  <2>9. Counted(j)'
    BY <2>2, <2>3, <2>4, <2>5, Own DEF CtrlEnds, Move, MailInv, MailTyped, MailJob,
       HasMail, to_stdout, Counted
  <2>10. WaitedFor(j)'
    BY <2>1, <2>2, <2>3, <2>4, <2>5, Own DEF CtrlEnds, Move, MailInv, MailTyped, MailJob,
       HasMail, to_stdout, WaitedFor, Counted, mail_output
  <2> QED  BY <2>6, <2>7, <2>8, <2>9, <2>10, SameKeeps DEF MailInv, MailJob
<1>9. CASE Killed(j)
  <2>1. MailTyped'
    BY <1>9, Own DEF Killed, CtrlEnds, Move, MailInv, MailTyped, CtrlPlaces
  <2>2. ASSUME NEW k \in Jobs \ {j} PROVE Same(k)
    BY <1>9, Own, Names, OutNames, Foreign DEF Killed, CtrlEnds, Move, MailInv,
       MailTyped, Same
  <2>3. MailJob(j)'
    BY <1>9, Own, OutNames DEF Killed, CtrlEnds, Move, MailInv, MailTyped, MailJob,
       HasMail, to_stdout, Holders, JobHolds, Counted, Drained, WaitedFor, Closed, mail_output
  <2> QED  BY <2>1, <2>2, <2>3, SameKeeps DEF MailInv
<1>10. CASE CannotCopy(j)
  <2>1. MailTyped'
    BY <1>10, Own DEF CannotCopy, CtrlEnds, Move, MailInv, MailTyped, CtrlPlaces
  <2>2. ASSUME NEW k \in Jobs \ {j} PROVE Same(k)
    BY <1>10, Own, Names, OutNames, Foreign DEF CannotCopy, CtrlEnds, Move, MailInv,
       MailTyped, Same
  <2>3. MailJob(j)'
    BY <1>10, Own, OutNames DEF CannotCopy, CtrlEnds, Move, MailInv, MailTyped, MailJob,
       HasMail, to_stdout, Holders, JobHolds, Counted, Drained, WaitedFor, Closed, mail_output
  <2> QED  BY <2>1, <2>2, <2>3, SameKeeps DEF MailInv
<1> QED
  BY <1>1, <1>2, <1>3, <1>4, <1>5, <1>6, <1>7, <1>8, <1>9, <1>10 DEF CtrlNext

\* The steps of a job and of what it leaves in the background.
LEMMA JobMails ==
    ASSUME MailInv, NEW j \in Jobs, 
           StartNext(j) \/ JobForks(j) \/ JobExits(j) \/ BgExits(j)
    PROVE  MailInv'
<1>1. CASE JobStarts(j)
  <2>1. MailTyped'
    BY <1>1, Own DEF JobStarts, Move, MailInv, MailTyped, CtrlPlaces
  <2>2. ASSUME NEW k \in Jobs \ {j} PROVE Same(k)
    BY <1>1, Own, Names, OutNames DEF JobStarts, Move, MailInv, MailTyped, Same
  <2>3. MailJob(j)'
    BY <1>1, Own, OutNames DEF JobStarts, Move, MailInv, MailTyped, MailJob,
       HasMail, to_stdout, Holders, JobHolds, Counted, Drained, WaitedFor, Closed, mail_output
  <2> QED  BY <2>1, <2>2, <2>3, SameKeeps DEF MailInv
<1>2. CASE Exec(j)
  <2>1. MailTyped'
    BY <1>2, Own DEF Exec, Move, MailInv, MailTyped, CtrlPlaces
  <2>2. ASSUME NEW k \in Jobs \ {j} PROVE Same(k)
    BY <1>2, Own, Names, OutNames DEF Exec, Move, MailInv, MailTyped, Same
  <2>3. MailJob(j)'
    BY <1>2, Own, OutNames DEF Exec, Move, MailInv, MailTyped, MailJob,
       HasMail, to_stdout, Holders, JobHolds, Counted, Drained, WaitedFor, Closed, mail_output
  <2> QED  BY <2>1, <2>2, <2>3, SameKeeps DEF MailInv
<1>3. CASE CannotExec(j)
  <2>1. MailTyped'
    BY <1>3, Own DEF CannotExec, Exits, MailInv, MailTyped, CtrlPlaces
  <2>2. ASSUME NEW k \in Jobs \ {j} PROVE Same(k)
    BY <1>3, Own, Names, OutNames, Foreign DEF CannotExec, Exits, MailInv, MailTyped, Same
  <2>3. MailJob(j)'
    BY <1>3, Own, OutNames DEF CannotExec, Exits, MailInv, MailTyped, MailJob,
       HasMail, to_stdout, Holders, JobHolds, Counted, Drained, WaitedFor, Closed, mail_output
  <2> QED  BY <2>1, <2>2, <2>3, SameKeeps DEF MailInv
<1>4. CASE JobForks(j)
  <2>1. MailTyped'
    BY <1>4, Own DEF JobForks, Move, MailInv, MailTyped, CtrlPlaces
  <2>2. ASSUME NEW k \in Jobs \ {j} PROVE Same(k)
    BY <1>4, Own, Names, OutNames, Foreign DEF JobForks, Move, MailInv, MailTyped, Same
  <2>3. MailJob(j)'
    BY <1>4, Own, OutNames DEF JobForks, Move, MailInv, MailTyped, MailJob,
       HasMail, to_stdout, Holders, JobHolds, Counted, Drained, WaitedFor, Closed, mail_output
  <2> QED  BY <2>1, <2>2, <2>3, SameKeeps DEF MailInv
<1>5. CASE JobExits(j)
  <2>1. MailTyped'
    BY <1>5, Own DEF JobExits, Exits, MailInv, MailTyped, CtrlPlaces
  <2>2. ASSUME NEW k \in Jobs \ {j} PROVE Same(k)
    BY <1>5, Own, Names, OutNames, Foreign DEF JobExits, Exits, MailInv, MailTyped, Same
  <2>3. MailJob(j)'
    BY <1>5, Own, OutNames DEF JobExits, Exits, MailInv, MailTyped, MailJob,
       HasMail, to_stdout, Holders, JobHolds, Counted, Drained, WaitedFor, Closed, mail_output
  <2> QED  BY <2>1, <2>2, <2>3, SameKeeps DEF MailInv
<1>6. CASE BgExits(j)
  <2>1. MailTyped'
    BY <1>6, Own DEF BgExits, Move, MailInv, MailTyped, CtrlPlaces
  <2>2. ASSUME NEW k \in Jobs \ {j} PROVE Same(k)
    BY <1>6, Own, Names, OutNames, Foreign DEF BgExits, Move, MailInv, MailTyped, Same
  <2>3. MailJob(j)'
    BY <1>6, Own, OutNames DEF BgExits, Move, MailInv, MailTyped, MailJob,
       HasMail, to_stdout, Holders, JobHolds, Counted, Drained, WaitedFor, Closed, mail_output
  <2> QED  BY <2>1, <2>2, <2>3, SameKeeps DEF MailInv
<1> QED
  BY <1>1, <1>2, <1>3, <1>4, <1>5, <1>6 DEF StartNext

\* What is written fills the pipe.
LEMMA WritesMails ==
    ASSUME MailInv, NEW j \in Jobs, NEW p \in {Job(j), Bg(j)}, Writes(j, p)
    PROVE  MailInv'
<1>1. MailTyped'
  BY DEF Writes, MailInv, MailTyped
<1>2. ASSUME NEW k \in Jobs \ {j} PROVE Same(k)
  BY <1>1 DEF Writes, MailInv, MailTyped, Same
<1>3. MailJob(j)'
  BY Own DEF Writes, MailInv, MailTyped, MailJob,
     HasMail, to_stdout, Holders, JobHolds, Counted, Drained, WaitedFor, Closed, mail_output
<1> QED  BY <1>1, <1>2, <1>3, SameKeeps DEF MailInv

\* fcron starts a control process, which has from it no end of a pipe of
\* another job's output.
LEMMA RunJobMails ==
    ASSUME MailInv, NEW j \in Jobs, run_job(j)
    PROVE  MailInv'
<1>1. PICK made \in BOOLEAN : Forks(j, made) \/ CannotFork(j, made)
  BY DEF run_job
<1>2. at[Ctrl(j)] = "none" /\ UNCHANGED <<kind, output, written, mailf, lost, exited, mailed>>
  BY DEF run_job
<1>3. MailTyped'
  BY <1>1, <1>2, Own DEF Forks, CannotFork, MailInv, MailTyped, CtrlPlaces
<1>4. ASSUME NEW k \in Jobs PROVE /\ \A p \in Procs : OutW(k) \in fds'[p] => OutW(k) \in fds[p]
                                  /\ \A p \in Procs : OutR(k) \in fds'[p] => OutR(k) \in fds[p]
  BY <1>1, Own, OutNames, Foreign DEF Forks, CannotFork, MailInv, MailTyped
<1>5. ASSUME NEW k \in Jobs \ {j} PROVE Same(k)
  BY <1>1, <1>2, Own, Names, OutNames, Foreign DEF Forks, CannotFork, MailInv, MailTyped,
     Same
<1>6. MailJob(j)'
  BY <1>1, <1>2, <1>4, Own DEF Forks, CannotFork, MailInv, MailTyped, MailJob,
     HasMail, to_stdout, Holders, JobHolds, Counted, Drained, WaitedFor, Closed, mail_output
<1> QED  BY <1>3, <1>5, <1>6, SameKeeps DEF MailInv

\* The other steps of fcron leave the mail alone.
LEMMA FcronMails ==
    ASSUME MailInv, ParentCloses \/ ReadPid \/ BadPipe \/ RetryRead \/ GiveUpRead,
           cur \in Jobs
    PROVE  MailInv'
<1>1. /\ UNCHANGED <<kind, output, written, mailf, lost, exited, mailed>>
      /\ \/ UNCHANGED at
         \/ \E place : at' = [at EXCEPT ![Fcron] = place]
      /\ \/ UNCHANGED fds
         \/ fds' = [fds EXCEPT ![Fcron] = @ \ {PidW(cur)}]
         \/ fds' = [fds EXCEPT ![Fcron] = @ \ {PidR(cur)}]
  BY DEF ParentCloses, ReadPid, BadPipe, RetryRead, GiveUpRead, Returns, ClosedByParent,
     Move
<1>2. MailTyped'
  BY <1>1, Own DEF MailInv, MailTyped
<1>3. ASSUME NEW k \in Jobs PROVE Same(k)
  BY <1>1, Own, OutNames DEF MailInv, MailTyped, Same
<1> QED  BY <1>2, <1>3, SameKeeps DEF MailInv

-----------------------------------------------------------------------------

LEMMA MailInvInit == Init => MailInv
<1> SUFFICES ASSUME Init PROVE MailInv
  OBVIOUS
<1>1. MailTyped
  BY Own DEF Init, MailTyped, CtrlPlaces
<1>2. ASSUME NEW j \in Jobs PROVE MailJob(j)
  BY Own DEF Init, MailJob,
     HasMail, to_stdout, Holders, JobHolds, Counted, Drained, WaitedFor, Closed, mail_output
<1> QED  BY <1>1, <1>2 DEF MailInv

LEMMA MailInvNext == PidInv /\ MailInv /\ [Next]_vars => MailInv'
<1> SUFFICES ASSUME PidInv, MailInv, [Next]_vars PROVE MailInv'
  OBVIOUS
<1>1. CASE FcronNext
  <2>1. CASE \E j \in Jobs : run_job(j)
    BY <2>1, RunJobMails
  <2>2. CASE ParentCloses \/ ReadPid \/ BadPipe \/ RetryRead \/ GiveUpRead
    <3>1. cur \in Jobs
      BY <2>2 DEF PidInv, Reading, ParentCloses, ReadPid, BadPipe, RetryRead, GiveUpRead,
         AtEnd
    <3> QED  BY <2>2, <3>1, FcronMails
  <2> QED  BY <1>1, <2>1, <2>2 DEF FcronNext
<1>2. ASSUME NEW j \in Jobs, CtrlNext(j) \/ Killed(j) PROVE MailInv'
  BY <1>2, CtrlMails
<1>3. ASSUME NEW j \in Jobs, StartNext(j) \/ JobForks(j) \/ JobExits(j) \/ BgExits(j)
      PROVE MailInv'
  BY <1>3, JobMails
<1>4. ASSUME NEW j \in Jobs, NEW p \in {Job(j), Bg(j)}, Writes(j, p) PROVE MailInv'
  BY <1>4, WritesMails
<1>5. CASE UNCHANGED vars
  <2>1. MailTyped'
    BY <1>5 DEF vars, MailInv, MailTyped
  <2>2. \A k \in Jobs : Same(k)
    BY <1>5 DEF vars, Same
  <2> QED  BY <2>1, <2>2, SameKeeps DEF MailInv
<1> QED  BY <1>1, <1>2, <1>3, <1>4, <1>5 DEF Next

LEMMA MailInvMailed == MailInv => OutputMailed
BY DEF MailInv, MailTyped, MailJob, Counted, Drained, WaitedFor, OutputMailed,
   mail_output, HasMail

\* A control process that ends without an error of its own has waited for its
\* job and for all who could still write, and has mailed what they have
\* written, however long a process that the job has left goes on writing: all
\* of it if no write to the mail file has failed, and the rest otherwise, when
\* it mails at all (the copy and end_job() in run_job()).
THEOREM OutputIsMailed == Spec => []OutputMailed
BY PidInvInit, PidInvNext, MailInvInit, MailInvNext, MailInvMailed, PTL DEF Spec
=============================================================================
