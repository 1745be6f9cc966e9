------------------------------- MODULE RunJob -------------------------------
(***************************************************************************)
(* How a job is started (run_job() in job.c).  fcron forks a control        *)
(* process, which forks the job.  The control process writes the pid of the *)
(* job in a pipe that fcron reads, copies what the job writes from a second *)
(* pipe to a mail file, waits for the end of the job and mails the file.    *)
(* fcron does nothing else as long as it waits for the pid.  A read of a    *)
(* pipe sees its end once every process that held its write end, by fork()  *)
(* too, has closed it: this is what the variable fds is for.                *)
(***************************************************************************)
EXTENDS Integers, FiniteSets

CONSTANTS Jobs,         \* the jobs, a set of positive numbers
          Kinds,        \* the lines they may be run for, functions from Jobs to KindSet
          Faults,       \* what may go wrong: a subset of FaultKinds
          Leavers,      \* the jobs that may leave a process in the background
          MaxOutput,    \* how many times a job writes
          Foreground    \* fcron -f

KindSet == [mail : BOOLEAN, zerolength : BOOLEAN, erroronly : BOOLEAN, stdout : BOOLEAN]

\* pipe(), fork() or a temporary file fails; the user or PAM refuses the job;
\* its shell cannot be run; the control process is killed; a write to the mail
\* file fails; the mailer cannot be run, or the pipe of the output not be read.
FaultKinds == {"pipe", "fork", "file", "user", "pam", "exec", "killed", "disk_full", "mailer"}

ASSUME RunJobAssumption ==
    /\ Jobs \subseteq Nat \ {0} /\ Leavers \subseteq Jobs
    /\ Kinds \subseteq [Jobs -> KindSet]
    /\ \A k \in Kinds, j \in Jobs : k[j].zerolength => k[j].mail
    /\ Faults \subseteq FaultKinds /\ MaxOutput \in Nat /\ Foreground \in BOOLEAN

Fcron   == <<"fcron", 0>>
Ctrl(j) == <<"ctrl", j>>
Job(j)  == <<"job", j>>
Bg(j)   == <<"bg", j>>      \* a process the job has left in the background
Procs   == {Fcron} \cup UNION {{Ctrl(j), Job(j), Bg(j)} : j \in Jobs}
NoPid   == <<"pid", -1>>
Unset   == <<"pid", 0>>

\* The ends of the pipe of the pid, and of the pipe of the output.
PidR(j) == <<"pid_r", j>>
PidW(j) == <<"pid_w", j>>
OutR(j) == <<"out_r", j>>
OutW(j) == <<"out_w", j>>

VARIABLES
    kind,       \* the line of a job
    at,         \* where a process is; "none" before it is, then "end", or "died"
                \* when it stops by itself before there is a job, "failed" when
                \* it does after, or "killed"
    nopipe,     \* the jobs whose first pipe could not be made
    cur,        \* the job that fcron is starting, or 0
    tries,      \* num_retry in read_write_pipe()
    fds,        \* the ends of pipes a process holds
    pidpipe,    \* what is in the pipe of the pid: a set of at most one pid
    result,     \* what run_job() has returned, or "none"
    ctrl_pid, job_pid,      \* of the exe_t
    output,     \* the writes that are in the pipe of the output
    written,    \* the writes of the job so far
    mailf,      \* the writes that are in the mail file, -1 when there is none
    lost,       \* the writes that could not be put in the mail file
    exited,     \* how a job has ended: "none", "ok", or "failed", by its exit
                \* status or by a signal
    mailed      \* the writes that have been mailed, -1 when none was; -2 for the
                \* mail that says that the job could not run

vars == <<kind, at, nopipe, cur, tries, fds, pidpipe, result, ctrl_pid, job_pid, output, written,
          mailf, lost, exited, mailed>>
exe == <<result, ctrl_pid, job_pid>>

Init ==
    /\ kind \in Kinds
    /\ at = [p \in Procs |-> IF p = Fcron THEN "idle" ELSE "none"]
    /\ nopipe = {} /\ cur = 0 /\ tries = 0
    /\ fds = [p \in Procs |-> {}]
    /\ pidpipe = [j \in Jobs |-> {}]
    /\ result = [j \in Jobs |-> "none"]
    /\ ctrl_pid = [j \in Jobs |-> Unset] /\ job_pid = [j \in Jobs |-> Unset]
    /\ output = [j \in Jobs |-> 0] /\ written = [j \in Jobs |-> 0]
    /\ mailf = [j \in Jobs |-> -1] /\ lost = [j \in Jobs |-> 0] /\ mailed = [j \in Jobs |-> -1]
    /\ exited = [j \in Jobs |-> "none"]

to_stdout(j) == Foreground /\ kind[j].stdout
HasMail(j)   == kind[j].mail /\ ~to_stdout(j)

\* Nobody holds the end w of a pipe any more.
Closed(w) == \A p \in Procs : w \notin fds[p]

Move(p, place) == at' = [at EXCEPT ![p] = place]

-----------------------------------------------------------------------------
(* fcron                                                                    *)

\* A pipe that could not be made has no ends, and its pid is -1.
Forks(j, made) ==
    LET ends == IF made THEN {PidR(j), PidW(j)} ELSE {}
    IN  /\ at' = [at EXCEPT ![Fcron] = "forked", ![Ctrl(j)] = "setup"]
        /\ fds' = [fds EXCEPT ![Fcron] = @ \cup ends, ![Ctrl(j)] = fds[Fcron] \cup ends]
        /\ cur' = j
        /\ UNCHANGED result

\* The two ends of the pipe stay open in fcron, and in all that it forks later.
CannotFork(j, made) ==
    /\ "fork" \in Faults
    /\ fds' = [fds EXCEPT ![Fcron] = @ \cup (IF made THEN {PidR(j), PidW(j)} ELSE {})]
    /\ result' = [result EXCEPT ![j] = "ERR"]
    /\ UNCHANGED <<at, cur>>

run_job(j) ==
    /\ at[Fcron] = "idle" /\ at[Ctrl(j)] = "none" /\ result[j] = "none"
    /\ \E made \in {TRUE} \cup (IF "pipe" \in Faults THEN {FALSE} ELSE {}) :
          /\ nopipe' = IF made THEN nopipe ELSE nopipe \cup {j}
          /\ job_pid' = [job_pid EXCEPT ![j] = IF made THEN @ ELSE NoPid]
          /\ Forks(j, made) \/ CannotFork(j, made)
    /\ UNCHANGED <<kind, tries, pidpipe, ctrl_pid, output, written, mailf, lost, exited, mailed>>

\* Mutant: fcron keeps its own write end.
ClosedByParent_not(j) == {}

ClosedByParent(j) == {PidW(j)}

ParentCloses ==
    /\ at[Fcron] = "forked"
    /\ fds' = [fds EXCEPT ![Fcron] = @ \ ClosedByParent(cur)]
    /\ ctrl_pid' = [ctrl_pid EXCEPT ![cur] = Ctrl(cur)]
    /\ Move(Fcron, "read") /\ tries' = 0
    /\ UNCHANGED <<kind, nopipe, cur, pidpipe, result, job_pid, output, written, mailf, lost, exited,
                   mailed>>

\* Mutant: the entry is left as it was when nothing could be read.
PidRead_kept(j, pid) == IF pid = NoPid THEN job_pid[j] ELSE pid

PidRead(j, pid) == pid

Returns(pid) ==
    /\ job_pid' = [job_pid EXCEPT ![cur] = PidRead(cur, pid)]
    /\ result' = [result EXCEPT ![cur] = "OK"]
    /\ fds' = [fds EXCEPT ![Fcron] = @ \ {PidR(cur)}]
    /\ Move(Fcron, "idle") /\ cur' = 0
    /\ UNCHANGED <<kind, nopipe, tries, pidpipe, ctrl_pid, output, written, mailf, lost, exited,
                   mailed>>

\* read_pipe(): the pid, an invalid descriptor, or the end of the pipe, which
\* is read again three times, a second later.
ReadPid == at[Fcron] = "read" /\ \E pid \in pidpipe[cur] : Returns(pid)

BadPipe == at[Fcron] = "read" /\ PidR(cur) \notin fds[Fcron] /\ Returns(NoPid)

AtEnd == /\ at[Fcron] = "read" /\ PidR(cur) \in fds[Fcron]
         /\ pidpipe[cur] = {} /\ Closed(PidW(cur))

RetryRead ==
    /\ AtEnd /\ tries < 3
    /\ tries' = tries + 1
    /\ UNCHANGED <<kind, at, nopipe, cur, fds, pidpipe, exe, output, written, mailf, lost, exited,
                   mailed>>

GiveUpRead == AtEnd /\ tries = 3 /\ Returns(NoPid)

-----------------------------------------------------------------------------
(* The control process                                                      *)

CtrlEnds(j, how) ==
    /\ Move(Ctrl(j), how)
    /\ fds' = [fds EXCEPT ![Ctrl(j)] = {}]

\* setup_user_and_env() and become_user(): an unknown user, or a refusal of
\* PAM, of which the user is told by mail.
Dies(j) ==
    /\ at[Ctrl(j)] = "setup"
    /\ \/ "user" \in Faults /\ UNCHANGED mailed
       \/ "pam" \in Faults
            /\ \/ mailed' = [mailed EXCEPT ![j] = IF kind[j].mail THEN -2 ELSE @]
               \/ {"file", "mailer"} \cap Faults # {} /\ UNCHANGED mailed
       \/ {"pipe", "file"} \cap Faults # {} /\ HasMail(j) /\ UNCHANGED mailed
    /\ CtrlEnds(j, "died")
    /\ UNCHANGED <<kind, nopipe, cur, tries, pidpipe, exe, output, written, mailf, lost, exited>>

\* create_mail() and the pipe of the output.
SetUp(j) ==
    /\ at[Ctrl(j)] = "setup"
    /\ fds' = [fds EXCEPT ![Ctrl(j)] = (@ \ {PidR(j)})
                  \cup (IF HasMail(j) THEN {OutR(j), OutW(j)} ELSE {})]
    /\ mailf' = [mailf EXCEPT ![j] = IF HasMail(j) THEN 0 ELSE @]
    /\ Move(Ctrl(j), "fork")
    /\ UNCHANGED <<kind, nopipe, cur, tries, pidpipe, exe, output, written, lost, exited, mailed>>

Fork2(j) ==
    /\ at[Ctrl(j)] = "fork"
    /\ at' = [at EXCEPT ![Ctrl(j)] = "write", ![Job(j)] = "forked"]
    /\ fds' = [fds EXCEPT ![Job(j)] = fds[Ctrl(j)]]
    /\ UNCHANGED <<kind, nopipe, cur, tries, pidpipe, exe, output, written, mailf, lost, exited,
                   mailed>>

\* The pid that is written is the -1 of fork().
CannotFork2(j) ==
    /\ at[Ctrl(j)] = "fork" /\ "fork" \in Faults
    /\ pidpipe' = [pidpipe EXCEPT ![j] = IF PidW(j) \in fds[Ctrl(j)] THEN {NoPid} ELSE @]
    /\ CtrlEnds(j, "died")
    /\ UNCHANGED <<kind, nopipe, cur, tries, exe, output, written, mailf, lost, exited, mailed>>

WritePid(j) ==
    /\ at[Ctrl(j)] = "write"
    /\ pidpipe' = [pidpipe EXCEPT ![j] = IF PidW(j) \in fds[Ctrl(j)] THEN {Job(j)} ELSE @]
    /\ IF HasMail(j)
       THEN /\ fds' = [fds EXCEPT ![Ctrl(j)] = @ \ {OutW(j)}]
            /\ Move(Ctrl(j), "copy")
       ELSE /\ fds' = [fds EXCEPT ![Ctrl(j)] = @ \ {OutW(j), PidW(j)}]
            /\ Move(Ctrl(j), "wait")
    /\ UNCHANGED <<kind, nopipe, cur, tries, exe, output, written, mailf, lost, exited, mailed>>

\* fputs(), whose failure is logged and no more.
Copy(j) ==
    /\ at[Ctrl(j)] = "copy" /\ output[j] > 0
    /\ \/ mailf' = [mailf EXCEPT ![j] = @ + output[j]] /\ UNCHANGED lost
       \/ /\ "disk_full" \in Faults
          /\ lost' = [lost EXCEPT ![j] = @ + output[j]] /\ UNCHANGED mailf
    /\ output' = [output EXCEPT ![j] = 0]
    /\ UNCHANGED <<kind, at, nopipe, cur, tries, fds, pidpipe, exe, written, exited, mailed>>

\* fdopen() fails: the job goes on, with nobody to read what it writes.
CannotCopy(j) ==
    /\ at[Ctrl(j)] = "copy" /\ "mailer" \in Faults
    /\ mailf[j] = 0 /\ lost[j] = 0
    /\ CtrlEnds(j, "failed")
    /\ UNCHANGED <<kind, nopipe, cur, tries, pidpipe, exe, output, written, mailf, lost, exited,
                   mailed>>

\* Mutant: the copy ends with the job.
Copied_with_job(j) == output[j] = 0 /\ at[Job(j)] = "end"

\* The end of the pipe: neither the job nor any process it has left holds it.
Copied(j) == output[j] = 0 /\ Closed(OutW(j))

EndCopy(j) ==
    /\ at[Ctrl(j)] = "copy" /\ Copied(j)
    /\ fds' = [fds EXCEPT ![Ctrl(j)] = @ \ {OutR(j), PidW(j)}]
    /\ Move(Ctrl(j), "wait")
    /\ UNCHANGED <<kind, nopipe, cur, tries, pidpipe, exe, output, written, mailf, lost, exited,
                   mailed>>

\* How many of the writes that the copy has buffered fseek() cannot flush: they
\* are lost, and the file is taken for an empty one.
Unflushed(j) ==
    {0} \cup (IF "disk_full" \in Faults /\ ~kind[j].zerolength THEN 1 .. mailf[j] ELSE {})

mail_output(j, unflushed) ==
    /\ mailf[j] >= 0
    /\ \/ kind[j].zerolength
       \/ /\ kind[j].mail
          /\ \/ unflushed = 0 /\ mailf[j] > 0 /\ ~kind[j].erroronly
             \/ exited[j] # "ok"

\* waitpid() and end_job(), which becomes the mailer or exits.  Nothing is
\* mailed when launch_mailer() fails.
end_job(j) ==
    /\ at[Ctrl(j)] = "wait" /\ at[Job(j)] = "end"
    /\ \E n \in Unflushed(j) :
          /\ lost' = [lost EXCEPT ![j] = @ + n] /\ mailf' = [mailf EXCEPT ![j] = @ - n]
          /\ IF mail_output(j, n)
             THEN \/ mailed' = [mailed EXCEPT ![j] = mailf[j] - n] /\ CtrlEnds(j, "end")
                  \/ "mailer" \in Faults /\ CtrlEnds(j, "failed") /\ UNCHANGED mailed
             ELSE CtrlEnds(j, "end") /\ UNCHANGED mailed
    /\ UNCHANGED <<kind, nopipe, cur, tries, pidpipe, exe, output, written, exited>>

Killed(j) ==
    /\ "killed" \in Faults
    /\ at[Ctrl(j)] \notin {"none", "end", "died", "failed", "killed"}
    /\ CtrlEnds(j, "killed")
    /\ UNCHANGED <<kind, nopipe, cur, tries, pidpipe, exe, output, written, mailf, lost, exited,
                   mailed>>

-----------------------------------------------------------------------------
(* The job                                                                  *)

\* It keeps the write end of the pipe as its standard output.
JobStarts(j) ==
    /\ at[Job(j)] = "forked"
    /\ fds' = [fds EXCEPT ![Job(j)] = @ \ {PidW(j), OutR(j)}]
    /\ Move(Job(j), "setup")
    /\ UNCHANGED <<kind, nopipe, cur, tries, pidpipe, exe, output, written, mailf, lost, exited,
                   mailed>>

Exits(j, s) ==
    /\ at' = [at EXCEPT ![Job(j)] = "end"]
    /\ fds' = [fds EXCEPT ![Job(j)] = {}]
    /\ exited' = [exited EXCEPT ![j] = s]

Exec(j) ==
    /\ at[Job(j)] = "setup"
    /\ Move(Job(j), "running")
    /\ UNCHANGED <<kind, nopipe, cur, tries, fds, pidpipe, exe, output, written, mailf, lost, exited,
                   mailed>>

\* The error is part of the output of the job, which has no reader when the
\* control process is not there any more.
CannotExec(j) ==
    /\ at[Job(j)] = "setup" /\ "exec" \in Faults
    /\ IF HasMail(j) /\ ~Closed(OutR(j))
       THEN /\ output' = [output EXCEPT ![j] = @ + 1]
            /\ written' = [written EXCEPT ![j] = @ + 1]
       ELSE UNCHANGED <<output, written>>
    /\ Exits(j, "failed")
    /\ UNCHANGED <<kind, nopipe, cur, tries, pidpipe, exe, mailf, lost, mailed>>

\* p is the job or the process it has left.
Writes(j, p) ==
    /\ at[p] = "running" /\ OutW(j) \in fds[p] /\ written[j] < MaxOutput
    /\ ~Closed(OutR(j))
    /\ output' = [output EXCEPT ![j] = @ + 1]
    /\ written' = [written EXCEPT ![j] = @ + 1]
    /\ UNCHANGED <<kind, at, nopipe, cur, tries, fds, pidpipe, exe, mailf, lost, exited, mailed>>

JobForks(j) ==
    /\ at[Job(j)] = "running" /\ at[Bg(j)] = "none" /\ j \in Leavers
    /\ Move(Bg(j), "running")
    /\ fds' = [fds EXCEPT ![Bg(j)] = fds[Job(j)]]
    /\ UNCHANGED <<kind, nopipe, cur, tries, pidpipe, exe, output, written, mailf, lost, exited,
                   mailed>>

\* By itself, or when it writes and the control process is gone.
JobExits(j) ==
    /\ at[Job(j)] = "running"
    /\ \E s \in {"ok", "failed"} : Exits(j, s)
    /\ UNCHANGED <<kind, nopipe, cur, tries, pidpipe, exe, output, written, mailf, lost, mailed>>

BgExits(j) ==
    /\ at[Bg(j)] = "running"
    /\ Move(Bg(j), "end")
    /\ fds' = [fds EXCEPT ![Bg(j)] = {}]
    /\ UNCHANGED <<kind, nopipe, cur, tries, pidpipe, exe, output, written, mailf, lost, exited,
                   mailed>>

-----------------------------------------------------------------------------

FcronNext == (\E j \in Jobs : run_job(j)) \/ ParentCloses \/ ReadPid \/ BadPipe
             \/ RetryRead \/ GiveUpRead

\* The steps that are a process' own, once it runs.
CtrlNext(j) == Dies(j) \/ SetUp(j) \/ Fork2(j) \/ CannotFork2(j) \/ WritePid(j)
               \/ Copy(j) \/ CannotCopy(j) \/ EndCopy(j) \/ end_job(j)
StartNext(j) == JobStarts(j) \/ Exec(j) \/ CannotExec(j)

Next ==
    \/ FcronNext
    \/ \E j \in Jobs :
          \/ CtrlNext(j) \/ StartNext(j) \/ Killed(j)
          \/ (\E p \in {Job(j), Bg(j)} : Writes(j, p))
          \/ JobForks(j) \/ JobExits(j) \/ BgExits(j)

\* The system runs every process.  Nothing says that a job ends, or that what
\* it has left in the background does.
Fairness ==
    /\ WF_vars(FcronNext)
    /\ \A j \in Jobs : WF_vars(CtrlNext(j)) /\ WF_vars(StartNext(j))

Spec == Init /\ [][Next]_vars /\ Fairness

-----------------------------------------------------------------------------

\* fcron gets the pid of the job, or -1 when there is none to get: the job was
\* not forked, or its control process was killed, or there was no pipe
\* (read_pipe() in run_job()).  cmd_send_signal() and cmd_renice() use it.
PidRight ==
    \A j \in Jobs : result[j] = "OK" =>
        \/ job_pid[j] = Job(j) /\ at[Job(j)] # "none"
        \/ /\ job_pid[j] = NoPid
           /\ at[Job(j)] = "none" \/ at[Ctrl(j)] = "killed" \/ j \in nopipe

\* A control process that ends without an error of its own, after its job was
\* forked, has waited for it and for all who could still write to its mail, and
\* what they have written is mailed: all of it, but for what could not be
\* written to the mail file, of which the user is not told.  No mail is sent
\* only if there is nothing to send, if the line asks for mail on error and
\* the job has succeeded, or if such a write has failed (the copy and end_job()
\* in run_job()).  One whose mailer cannot be run ends with an error in the log.
OutputMailed ==
    \A j \in Jobs :
        /\ lost[j] > 0 => "disk_full" \in Faults
        /\ at[Ctrl(j)] = "end" =>
              /\ at[Job(j)] = "end" /\ (HasMail(j) => Closed(OutW(j)))
              /\ mailed[j] >= 0 => mailed[j] = written[j] - lost[j]
              /\ HasMail(j) /\ written[j] > 0 /\ mailed[j] < 0 /\ lost[j] = 0 =>
                    kind[j].erroronly /\ exited[j] = "ok"
        /\ at[Ctrl(j)] = "failed" => "mailer" \in Faults /\ HasMail(j)

\* fcron gets out of read_pipe(), whatever becomes of the control process, even
\* if the job never ends: a daemon that waits there starts no other job.
DaemonReturns == (at[Fcron] = "read") ~> (at[Fcron] = "idle")
=============================================================================
