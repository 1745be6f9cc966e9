----------------------------- MODULE JobControl -----------------------------
(***************************************************************************)
(* The life of a job inside the fcron daemon: from the moment its line is  *)
(* due (or a user asks fcrondyn to run it) until the control process that  *)
(* ran it has been waited for.  The daemon is one thread that walks        *)
(* through the labels of main_loop(); the jobs are processes which exit    *)
(* when they want; signals only set a flag that check_signal() reads.      *)
(*                                                                         *)
(* A line is counted in cl_numexe once per entry it has in the serial      *)
(* queue, in the lavg queue or in exe_list.  Three more counters sum the   *)
(* same entries in another way: serial_running, lavg_serial_running and,   *)
(* per file, cf_running.  Keeping the four of them in agreement with the   *)
(* lists over every path (end of a job, fcrontab edited, SIGUSR1, SIGTERM, *)
(* crash and restart) is what the module is about.                         *)
(*                                                                         *)
(* Abstracted: time (a loaded line may be due at any wake up, and a queued *)
(* lavg job may be late at any check), the load average (a boolean), the   *)
(* array behind the serial queue, and the mail sent when a job could not   *)
(* be queued (lines without option noticenotrun).                          *)
(***************************************************************************)
EXTENDS Integers, Sequences, FiniteSets, KeptOrder

CONSTANTS
  Lines,      (* fcrontab lines (cl_t)                                     *)
  Files,      (* fcrontab files, one per user (cf_t)                       *)
  FileOf,     (* cl_file: the file of each line                            *)
  Opt,        (* cl_option: the set of options of each line, see OptNames  *)
  Pids,       (* process ids; enough of them for every job that may run    *)
  SerialMax,  (* serial_max_running                                        *)
  QueueMax,   (* length at which the serial queue refuses a job            *)
  LavgMax,    (* lavg_list->max_entries                                    *)
  NumexeMax,  (* UCHAR_MAX, the largest value of cl_numexe                 *)
  Env,        (* which events of the environment happen, see EnvNames      *)
  MaxEvents,  (* bound on the number of those events                       *)
  NoJob,      (* an unused process id                                      *)
  Orphan      (* e_line = NULL: a job whose line has been freed            *)

(* bootrun .. runatreboot are the options of the same name; exe_sev,       *)
(* serial_sev and lavg_sev are exesev, serialonce(no) and lavgonce(no).    *)
(* "late": the wait in the lavg queue has a limit and the job then runs    *)
(* (until); "drop": it is then given up (strict %-line).  A bootrun line   *)
(* with runatresume is due at once at a resume: it has no "bootrun" there. *)
OptNames == {"serial", "lavg", "strict", "bootrun", "runatreboot",
             "exe_sev", "serial_sev", "lavg_sev", "late", "drop"}

EnvNames == {"fork_fails",    (* fork() fails                              *)
             "fcrondyn",      (* a user runs a job with fcrondyn           *)
             "edit",          (* fcrontab installs or removes a file       *)
             "usr1", "term",  (* SIGUSR1, SIGTERM                          *)
             "crash",         (* the machine goes down and boots again     *)
             "suspend",       (* the machine sleeps, and fcron notices it  *)
             "overrun",       (* a job that still runs when the machine    *)
                              (* resumes has missed its next time          *)
             "signal_window"} (* a job may end between the last waitpid()  *)
                              (* of wait_chld() and sig_chld = false       *)

ASSUME JobControlAssumption ==
  /\ IsFiniteSet(Lines) /\ IsFiniteSet(Pids)
  /\ FileOf \in [Lines -> Files]
  /\ Opt \in [Lines -> SUBSET OptNames]
  /\ Env \subseteq EnvNames
  /\ SerialMax \in Nat \ {0}
  /\ QueueMax \in Nat \ {0} /\ LavgMax \in Nat \ {0}
  /\ NumexeMax \in Nat \ {0} /\ MaxEvents \in Nat
  /\ NoJob \notin Lines /\ Orphan \notin Lines /\ NoJob # Orphan

VARIABLES
  pc,        (* where the daemon is in main_loop()                         *)
  ret,       (* where check_signal() returns to                            *)
  goal,      (* why files are being drained or (re)read                    *)
  cur,       (* the file (wait_all) or the line (bootrun) being handled    *)
  todo,      (* lines of the files being read, still to be added           *)
  asleep,    (* lines reschedule_all_on_resume() has still to look at      *)
  loaded,    (* file_base: the files in memory                             *)
  numexe,    (* cl_numexe                                                  *)
  once,      (* lines with serial_once set in cl_option                    *)
  serialQ,   (* serial_array from serial_array_index on                    *)
  lavgQ,     (* lavg_list: number of entries of each line                  *)
  exe,       (* exe_list: line of each control process                     *)
  serial_running, lavg_serial_running, cf_running,
  zombies,   (* control processes that have exited, not yet waited for     *)
  sigChld, sigHup, sigUsr1, sigTerm,   (* the flags sig_xxx                *)
  spool,     (* files in the spool directory                               *)
  pending,   (* which of rm.user and new.user are in the spool directory   *)
  listed,    (* what synchronize_dir() found there, still to be handled    *)
  saved,     (* cl_numexe and serial_once as saved in the spool directory  *)
  events     (* number of environment events so far                        *)

queues   == <<numexe, once, serialQ, lavgQ>>
running  == <<exe, serial_running, lavg_serial_running, cf_running>>
signals  == <<sigChld, sigHup, sigUsr1, sigTerm>>
disk     == <<spool, pending, listed, saved>>
control  == <<pc, ret, goal, cur, todo, asleep>>
vars     == <<control, loaded, queues, running, zombies, signals, disk, events>>

is_serial(l)   == "serial" \in Opt[l]
is_lavg(l)     == "lavg" \in Opt[l]
LinesOf(f)     == {l \in Lines : FileOf[l] = f}
LoadedLines    == {l \in Lines : FileOf[l] \in loaded}
InSerialQ(l)   == \E i \in 1..Len(serialQ) : serialQ[i] = l
lavg_entries   == {e \in Lines \X (1..NumexeMax) : e[2] <= lavgQ[e[1]]}
FreePids       == {p \in Pids : exe[p] = NoJob}
NotSaved       == [num |-> 0, once |-> FALSE]

(* Mutant: the end of a job that was serial for once is not counted.       *)
CountedSerial_option(l) == is_serial(l) /\ ~is_lavg(l)

(* A job that wait_chld() and delete_file() count in serial_running.       *)
CountedSerial(l) == l \in once \/ (is_serial(l) /\ ~is_lavg(l))
CountedLavg(l)   == is_serial(l) /\ is_lavg(l)

Goto(label) == pc' = label

-----------------------------------------------------------------------------
(* Running and queueing jobs.                                              *)

(* Mutant: cf_running is incremented before the fork.                      *)
run_queue_job_early(l) ==
  /\ cf_running' = [cf_running EXCEPT ![FileOf[l]] = @ + 1]
  /\ \/ /\ \E p \in FreePids : exe' = [exe EXCEPT ![p] = l]
        /\ UNCHANGED events
     \/ /\ "fork_fails" \in Env /\ events < MaxEvents
        /\ events' = events + 1
        /\ UNCHANGED exe

(* run_job() and run_queue_job(): the entry is added to exe_list, and the  *)
(* file's cf_running incremented, only when the first fork() succeeds.     *)
run_queue_job(l) ==
  \/ \E p \in FreePids :
       /\ exe' = [exe EXCEPT ![p] = l]
       /\ cf_running' = [cf_running EXCEPT ![FileOf[l]] = @ + 1]
       /\ UNCHANGED events
  \/ /\ "fork_fails" \in Env /\ events < MaxEvents
     /\ events' = events + 1
     /\ UNCHANGED <<exe, cf_running>>

run_serial_job ==
  /\ serialQ # <<>>
  /\ run_queue_job(Head(serialQ))
  /\ serialQ' = Tail(serialQ)
  /\ serial_running' = serial_running + 1
  /\ UNCHANGED <<numexe, once, lavgQ, lavg_serial_running>>

(* Mutant: a serial job takes a slot of the serial queue.                  *)
run_lavg_job_slot(l) ==
  /\ run_queue_job(l)
  /\ lavgQ' = [lavgQ EXCEPT ![l] = @ - 1]
  /\ serial_running' = IF is_serial(l) THEN serial_running + 1
                                       ELSE serial_running
  /\ UNCHANGED <<numexe, once, serialQ, lavg_serial_running>>

run_lavg_job(l) ==
  /\ run_queue_job(l)
  /\ lavgQ' = [lavgQ EXCEPT ![l] = @ - 1]
  /\ lavg_serial_running' = IF is_serial(l) THEN lavg_serial_running + 1
                                            ELSE lavg_serial_running
  /\ UNCHANGED <<numexe, once, serialQ, serial_running>>

(* Mutant: off by one.                                                     *)
MayEnter_twice(l, n, sev) == IF sev \in Opt[l] THEN n < NumexeMax ELSE n <= 1

(* A line is refused a second entry, unless it has the "sev" option of the *)
(* list it is to enter.                                                    *)
MayEnter(l, n, sev) == IF sev \in Opt[l] THEN n < NumexeMax ELSE n = 0

run_normal_job(l) ==
  IF MayEnter(l, numexe[l], "exe_sev")
    THEN /\ numexe' = [numexe EXCEPT ![l] = @ + 1]
         /\ run_queue_job(l)
         /\ UNCHANGED <<once, serialQ, lavgQ, serial_running,
                        lavg_serial_running>>
    ELSE UNCHANGED <<queues, running, events>>

(* add_serial_job() on a line whose cl_numexe is n.                        *)
add_serial_job(l, n) ==
  IF MayEnter(l, n, "serial_sev") /\ Len(serialQ) < QueueMax
    THEN /\ serialQ' = Append(serialQ, l)
         /\ numexe' = [numexe EXCEPT ![l] = n + 1]
    ELSE /\ numexe' = [numexe EXCEPT ![l] = n]
         /\ UNCHANGED serialQ

add_lavg_job(l, n) ==
  IF MayEnter(l, n, "lavg_sev") /\ Cardinality(lavg_entries) < LavgMax
    THEN /\ lavgQ' = [lavgQ EXCEPT ![l] = @ + 1]
         /\ numexe' = [numexe EXCEPT ![l] = n + 1]
    ELSE /\ numexe' = [numexe EXCEPT ![l] = n]
         /\ UNCHANGED lavgQ

(* The three-way choice of test_jobs() and cmd_run().                      *)
Dispatch(l) ==
  \/ /\ is_lavg(l)
     /\ add_lavg_job(l, numexe[l])
     /\ UNCHANGED <<once, serialQ, running, events>>
  \/ /\ ~is_lavg(l) /\ is_serial(l)
     /\ add_serial_job(l, numexe[l])
     /\ UNCHANGED <<once, lavgQ, running, events>>
  \/ /\ ~is_lavg(l) /\ ~is_serial(l)
     /\ run_normal_job(l)

-----------------------------------------------------------------------------
(* Files.                                                                  *)

SaveFile(F) ==
  saved' = [l \in Lines |->
              IF FileOf[l] \in F
                THEN [num |-> numexe[l], once |-> l \in once]
                ELSE saved[l]]

(* delete_file(): jobs of the file that are running lose their line, and   *)
(* are no longer counted; the queues lose the lines of the file.           *)
RunningOf(f) == {p \in Pids : exe[p] \in LinesOf(f)}

(* Mutant: delete_file() leaves the lines it frees in the queue.           *)
Without_nothing(q, f) == q

(* The queue q without the lines of file f, in the same order.             *)
Without(q, f) == Keep(q, {i \in 1..Len(q) : FileOf[q[i]] # f})

delete_file(f) ==
  /\ exe' = [p \in Pids |-> IF p \in RunningOf(f) THEN Orphan ELSE exe[p]]
  /\ serial_running' = serial_running
       - Cardinality({p \in RunningOf(f) : CountedSerial(exe[p]) /\ ~is_lavg(exe[p])})
  /\ lavg_serial_running' = lavg_serial_running
       - Cardinality({p \in RunningOf(f) : CountedLavg(exe[p])})
  /\ serialQ' = Without(serialQ, f)
  /\ lavgQ' = [l \in Lines |-> IF FileOf[l] = f THEN 0 ELSE lavgQ[l]]
  /\ numexe' = [l \in Lines |-> IF FileOf[l] = f THEN 0 ELSE numexe[l]]
  /\ once' = {l \in once : FileOf[l] # f}
  /\ cf_running' = [cf_running EXCEPT ![f] = 0]

-----------------------------------------------------------------------------
(* The environment.                                                        *)

(* A job, and the process that controls it, ends.                          *)
JobExit(p) ==
  /\ exe[p] # NoJob /\ p \notin zombies
  /\ pc = "clear_chld" => "signal_window" \in Env
  /\ zombies' = zombies \cup {p}
  /\ sigChld' = TRUE
  /\ UNCHANGED <<control, loaded, queues, running, sigHup, sigUsr1, sigTerm,
                 disk, events>>

EnvEvent(name) ==
  /\ name \in Env /\ events < MaxEvents
  /\ events' = events + 1

(* fcrontab writes new.user, or removes it and writes rm.user, and has     *)
(* SIGHUP sent to the daemon.                                              *)
Edit(f, kind) ==
  /\ EnvEvent("edit")
  /\ kind = "rm" => f \in spool
  /\ pending' = [pending EXCEPT ![f] = IF kind = "rm" THEN {"rm"}
                                                   ELSE @ \cup {"new"}]
  /\ sigHup' = TRUE
  /\ UNCHANGED <<control, loaded, queues, running, zombies, sigChld, sigUsr1,
                 sigTerm, spool, listed, saved>>

Usr1 ==
  /\ EnvEvent("usr1") /\ sigUsr1' = TRUE
  /\ UNCHANGED <<control, loaded, queues, running, zombies, sigChld, sigHup,
                 sigTerm, disk>>

Term ==
  /\ EnvEvent("term") /\ sigTerm' = TRUE
  /\ UNCHANGED <<control, loaded, queues, running, zombies, sigChld, sigHup,
                 sigUsr1, disk>>

(* main(): a daemon that starts has nothing but the spool directory.       *)
Boot ==
  /\ Goto("scan") /\ goal' = "boot"
  /\ ret' = "select" /\ cur' = NoJob /\ todo' = {} /\ asleep' = {}
  /\ loaded' = {} /\ once' = {} /\ serialQ' = <<>>
  /\ numexe' = [l \in Lines |-> 0] /\ lavgQ' = [l \in Lines |-> 0]
  /\ exe' = [p \in Pids |-> NoJob] /\ zombies' = {}
  /\ serial_running' = 0 /\ lavg_serial_running' = 0
  /\ cf_running' = [f \in Files |-> 0]
  /\ sigChld' = FALSE /\ sigHup' = FALSE /\ sigUsr1' = FALSE /\ sigTerm' = FALSE

Crash == EnvEvent("crash") /\ Boot /\ UNCHANGED disk

-----------------------------------------------------------------------------
(* Waiting for children.                                                   *)

(* Mutant: the entry leaves exe_list, and only cl_numexe is told.          *)
Waited_num(p) ==
  /\ zombies' = zombies \ {p}
  /\ exe' = [exe EXCEPT ![p] = NoJob]
  /\ numexe' = IF exe[p] \in Lines THEN [numexe EXCEPT ![exe[p]] = @ - 1]
                                   ELSE numexe
  /\ UNCHANGED <<cf_running, once>>

(* What wait_chld() and wait_all() have in common when the child they      *)
(* waited for is found in exe_list.                                        *)
Waited(p) ==
  /\ zombies' = zombies \ {p}
  /\ exe' = [exe EXCEPT ![p] = NoJob]
  /\ IF exe[p] \in Lines
       THEN /\ numexe' = [numexe EXCEPT ![exe[p]] = @ - 1]
            /\ cf_running' = [cf_running EXCEPT ![FileOf[exe[p]]] = @ - 1]
            /\ once' = once \ {exe[p]}
       ELSE UNCHANGED <<numexe, cf_running, once>>

(* One turn of the loop of wait_chld(); the serial job it may start next   *)
(* is the step RunNextSerial.                                              *)
wait_chld(p) ==
  /\ pc = "wait_chld" /\ p \in zombies
  /\ Waited(p)
  /\ IF exe[p] \in Lines /\ CountedSerial(exe[p])
       THEN /\ serial_running' = serial_running - 1
            /\ Goto(IF serial_running' < SerialMax /\ serialQ # <<>>
                      THEN "next_serial" ELSE "wait_chld")
            /\ UNCHANGED lavg_serial_running
       ELSE /\ lavg_serial_running' =
                 IF exe[p] \in Lines /\ CountedLavg(exe[p])
                   THEN lavg_serial_running - 1 ELSE lavg_serial_running
            /\ UNCHANGED <<pc, serial_running>>
  /\ UNCHANGED <<ret, goal, cur, todo, asleep, loaded, serialQ, lavgQ, signals,
                 disk, events>>

RunNextSerial ==
  /\ pc = "next_serial"
  /\ run_serial_job
  /\ Goto("wait_chld")
  /\ UNCHANGED <<ret, goal, cur, todo, asleep, loaded, zombies, signals, disk>>

(* Mutant: one child is waited for per SIGCHLD.                            *)
EndWaitChld_one ==
  /\ pc = "wait_chld" /\ Goto("clear_chld")
  /\ UNCHANGED <<ret, goal, cur, todo, asleep, loaded, queues, running, zombies,
                 signals, disk, events>>

EndWaitChld ==
  /\ pc = "wait_chld" /\ zombies = {}
  /\ Goto("clear_chld")
  /\ UNCHANGED <<ret, goal, cur, todo, asleep, loaded, queues, running, zombies,
                 signals, disk, events>>

ClearChld ==
  /\ pc = "clear_chld" /\ sigChld' = FALSE
  /\ Goto("check_term")
  /\ UNCHANGED <<ret, goal, cur, todo, asleep, loaded, queues, running, zombies,
                 sigHup, sigUsr1, sigTerm, disk, events>>

(* One turn of the loop of wait_all(&f->cf_running).                       *)
wait_all(p) ==
  /\ pc = "wait_all" /\ cf_running[cur] > 0 /\ p \in zombies
  /\ Waited(p)
  /\ UNCHANGED <<control, loaded, serialQ, lavgQ, serial_running,
                 lavg_serial_running, signals, disk, events>>

-----------------------------------------------------------------------------
(* check_signal(), called after the sleep and at the end of the loop.      *)

check_signal(label) ==
  /\ Goto(IF sigChld THEN "wait_chld" ELSE "check_term")
  /\ ret' = label

CheckTerm ==
  /\ pc = "check_term"
  /\ IF sigTerm THEN /\ Goto("drain") /\ goal' = "term"
                     /\ sigTerm' = FALSE
                     /\ SaveFile(loaded)        \* xexit(): save_file(NULL)
                ELSE /\ Goto("check_hup")
                     /\ UNCHANGED <<goal, sigTerm, saved>>
  /\ UNCHANGED <<ret, cur, todo, asleep, loaded, queues, running, zombies,
                 sigChld, sigHup, sigUsr1, spool, pending, listed, events>>

CheckHup ==
  /\ pc = "check_hup"
  /\ IF sigHup THEN Goto("scan") /\ goal' = "hup"
               ELSE Goto("check_usr1") /\ UNCHANGED goal
  /\ UNCHANGED <<ret, cur, todo, asleep, loaded, queues, running, zombies,
                 signals, disk, events>>

CheckUsr1 ==
  /\ pc = "check_usr1"
  /\ IF sigUsr1 THEN Goto("drain") /\ goal' = "usr1"
                ELSE Goto(ret) /\ UNCHANGED goal
  /\ UNCHANGED <<ret, cur, todo, asleep, loaded, queues, running, zombies,
                 signals, disk, events>>

-----------------------------------------------------------------------------
(* reload_all() and xexit(): empty the memory, file after file.            *)

(* Mutant: the jobs of the file are not waited for.                        *)
DrainFile_now(f) ==
  /\ pc = "drain" /\ f \in loaded
  /\ cur' = f /\ Goto("drop_file")
  /\ UNCHANGED <<ret, goal, todo, asleep, loaded, queues, running, zombies,
                 signals, disk, events>>

DrainFile(f) ==
  /\ pc = "drain" /\ f \in loaded
  /\ cur' = f
  /\ Goto(IF cf_running[f] > 0 THEN "wait_all" ELSE "drop_file")
  /\ UNCHANGED <<ret, goal, todo, asleep, loaded, queues, running, zombies,
                 signals, disk, events>>

(* The loop ends when no job of the file runs any more, or when waitpid()  *)
(* fails because the daemon has no child left.  xexit() saves the file     *)
(* again only if it had to wait for jobs of it.                            *)
EndWaitAll ==
  /\ pc = "wait_all"
  /\ cf_running[cur] <= 0 \/ \A p \in Pids : exe[p] = NoJob
  /\ Goto("drop_file")
  /\ IF goal = "term" THEN SaveFile({cur}) ELSE UNCHANGED saved
  /\ UNCHANGED <<ret, goal, cur, todo, asleep, loaded, queues, running, zombies,
                 signals, spool, pending, listed, events>>

(* Mutant: reload_all() counts on the last save.                           *)
DropFile_unsaved ==
  /\ pc = "drop_file"
  /\ delete_file(cur)
  /\ loaded' = loaded \ {cur}
  /\ Goto("drain") /\ cur' = NoJob
  /\ UNCHANGED <<ret, goal, todo, asleep, zombies, signals, disk, events>>

(* Mutant: the file is freed and stays in file_base.                       *)
DropFile_stays ==
  /\ pc = "drop_file"
  /\ IF goal = "usr1" THEN SaveFile({cur}) ELSE UNCHANGED saved
  /\ delete_file(cur)
  /\ Goto("drain") /\ cur' = NoJob
  /\ UNCHANGED <<ret, goal, todo, asleep, loaded, zombies, signals, spool,
                 pending, listed, events>>

DropFile ==
  /\ pc = "drop_file"
  /\ IF goal = "usr1" THEN SaveFile({cur}) ELSE UNCHANGED saved
  /\ delete_file(cur)
  /\ loaded' = loaded \ {cur}
  /\ Goto("drain") /\ cur' = NoJob
  /\ UNCHANGED <<ret, goal, todo, asleep, zombies, signals, spool, pending,
                 listed, events>>

EndDrain ==
  /\ pc = "drain" /\ loaded = {}
  /\ IF goal = "term"
       THEN Boot        \* exit(); what follows is the next start of fcron
       ELSE /\ Goto("scan")
            /\ UNCHANGED <<ret, goal, cur, todo, asleep, loaded, queues,
                           running, zombies, signals>>
  /\ UNCHANGED <<disk, events>>

-----------------------------------------------------------------------------
(* synchronize_dir(): removed files, then the files of the spool directory *)
(* if none is in memory, then new files.                                   *)

(* The directory is read once.  What fcrontab writes there from now on     *)
(* waits for the next SIGHUP, which must come after EndSync.               *)
Scan ==
  /\ pc = "scan" /\ Goto("sync_rm")
  /\ listed' = [f \in Files |->
                  IF f \in spool /\ loaded = {} THEN pending[f] \cup {"file"}
                                               ELSE pending[f]]
  /\ UNCHANGED <<ret, goal, cur, todo, asleep, loaded, queues, running, zombies,
                 signals, spool, pending, saved, events>>

SyncRm(f) ==
  /\ pc = "sync_rm" /\ "rm" \in listed[f]
  /\ IF f \in loaded THEN delete_file(f)
                     ELSE UNCHANGED <<queues, running>>
  /\ loaded' = loaded \ {f}
  /\ spool' = spool \ {f}
  /\ pending' = [pending EXCEPT ![f] = @ \ {"rm"}]
  /\ listed' = [listed EXCEPT ![f] = @ \ {"rm"}]
  /\ UNCHANGED <<control, zombies, signals, saved, events>>

EndSyncRm ==
  /\ pc = "sync_rm" /\ \A f \in Files : "rm" \notin listed[f]
  /\ Goto("load")
  /\ LET read == {f \in spool : "file" \in listed[f]}
     IN  /\ loaded' = loaded \cup read
         /\ todo' = {l \in Lines : FileOf[l] \in read}
  /\ UNCHANGED <<ret, goal, cur, asleep, queues, running, zombies, signals,
                 disk, events>>

(* Mutant: cl_numexe is read back, and nothing is queued again.            *)
LoadLine_idle(l) ==
  /\ pc = "load" /\ l \in todo
  /\ todo' = todo \ {l}
  /\ numexe' = [numexe EXCEPT ![l] = saved[l].num]
  /\ UNCHANGED <<pc, ret, goal, cur, asleep, loaded, once, serialQ, lavgQ,
                 running, zombies, signals, disk, events>>

(* read_file(), add_line_to_file(), set_next_exe_startup(): a job that was *)
(* queued or running when the line was saved is queued again.              *)
LoadLine(l) ==
  /\ pc = "load" /\ l \in todo
  /\ todo' = todo \ {l}
  /\ IF saved[l].num > 0 /\ "runatreboot" \notin Opt[l]
       THEN IF is_lavg(l)
              THEN /\ IF "strict" \in Opt[l]
                        THEN UNCHANGED <<numexe, lavgQ>>
                        ELSE add_lavg_job(l, 0)
                   /\ once' = IF saved[l].once THEN once \cup {l} ELSE once
                   /\ UNCHANGED serialQ
              ELSE /\ add_serial_job(l, 0)
                   /\ once' = IF saved[l].once \/ ~is_serial(l)
                                THEN once \cup {l} ELSE once
                   /\ UNCHANGED lavgQ
       ELSE /\ numexe' = [numexe EXCEPT ![l] = saved[l].num]
            /\ once' = IF saved[l].once THEN once \cup {l} ELSE once
            /\ UNCHANGED <<serialQ, lavgQ>>
  /\ IF "bootrun" \in Opt[l] THEN Goto("bootrun") /\ cur' = l
                             ELSE UNCHANGED <<pc, cur>>
  /\ UNCHANGED <<ret, goal, asleep, loaded, running, zombies, signals, disk,
                 events>>

(* The end of set_next_exe_startup(): a bootrun line which should have run *)
(* while fcron was down, or the machine asleep, is queued, as a serial job *)
(* for this once.  serial_once is set before add_serial_job() looks at     *)
(* cl_numexe: it stays when the line is refused.                           *)
BootrunJob(l, missed) ==
  IF ~missed THEN UNCHANGED queues
  ELSE IF is_lavg(l)
    THEN /\ add_lavg_job(l, numexe[l])
         /\ UNCHANGED <<once, serialQ>>
    ELSE /\ add_serial_job(l, numexe[l])
         /\ once' = once \cup {l}
         /\ UNCHANGED lavgQ

(* Mutant: the line is forgotten while it is still handled.                *)
Bootrun_again(missed) ==
  /\ pc = "bootrun" /\ missed
  /\ cur' = NoJob
  /\ UNCHANGED <<pc, ret, goal, todo, asleep, loaded, queues, running, zombies,
                 signals, disk, events>>

Bootrun(missed) ==
  /\ pc = "bootrun"
  /\ BootrunJob(cur, missed)
  /\ Goto("load") /\ cur' = NoJob
  /\ UNCHANGED <<ret, goal, todo, asleep, loaded, running, zombies, signals,
                 disk, events>>

EndLoad ==
  /\ pc = "load" /\ todo = {}
  /\ Goto("sync_new")
  /\ UNCHANGED <<ret, goal, cur, todo, asleep, loaded, queues, running, zombies,
                 signals, disk, events>>

(* synchronize_file() on new.user: the lines of the new file start with    *)
(* nothing queued, those of the old one are freed, the new file is saved.  *)
SyncNew(f) ==
  /\ pc = "sync_new" /\ "new" \in listed[f]
  /\ listed' = [listed EXCEPT ![f] = @ \ {"new"}]
  /\ IF "new" \notin pending[f]       \* fcrontab has removed it meanwhile
       THEN UNCHANGED <<queues, running, loaded, spool, saved, pending>>
       ELSE /\ IF f \in loaded THEN delete_file(f)
                               ELSE UNCHANGED <<queues, running>>
            /\ loaded' = loaded \cup {f}
            /\ spool' = spool \cup {f}
            /\ saved' = [l \in Lines |->
                           IF FileOf[l] = f THEN NotSaved ELSE saved[l]]
            /\ pending' = [pending EXCEPT ![f] = @ \ {"new"}]
  /\ UNCHANGED <<control, zombies, signals, events>>

EndSync ==
  /\ pc = "sync_new" /\ \A f \in Files : "new" \notin listed[f]
  /\ \/ goal = "boot" /\ Goto("select") /\ UNCHANGED <<sigHup, sigUsr1>>
     \/ goal = "hup" /\ Goto("check_usr1") /\ sigHup' = FALSE
                     /\ UNCHANGED sigUsr1
     \/ goal = "usr1" /\ Goto(ret) /\ sigUsr1' = FALSE /\ UNCHANGED sigHup
  /\ UNCHANGED <<ret, goal, cur, todo, asleep, loaded, queues, running, zombies,
                 sigChld, sigTerm, disk, events>>

-----------------------------------------------------------------------------
(* The rest of main_loop().                                                *)

(* select() returns: a time has come, or something else woke fcron up.     *)
Wake ==
  /\ pc = "select"
  /\ check_signal("check_suspend")
  /\ UNCHANGED <<goal, cur, todo, asleep, loaded, queues, running, zombies,
                 signals, disk, events>>

(* check_suspend(): nothing, or the machine was suspended and              *)
(* reschedule_all_on_resume() walks through the lines in memory.           *)
CheckSuspend ==
  /\ pc = "check_suspend"
  /\ \/ Goto("test_jobs") /\ UNCHANGED <<asleep, events>>
     \/ /\ EnvEvent("suspend")
        /\ Goto("resume")
        /\ asleep' = {l \in LoadedLines : "bootrun" \in Opt[l]}
  /\ UNCHANGED <<ret, goal, cur, todo, loaded, queues, running, zombies,
                 signals, disk>>

(* Mutant: a bootrun line is marked at a resume whether or not it was due. *)
ResumeLine_marked(l, missed) ==
  /\ pc = "resume" /\ l \in asleep
  /\ asleep' = asleep \ {l}
  /\ BootrunJob(l, TRUE)
  /\ UNCHANGED <<pc, ret, goal, cur, todo, loaded, running, zombies, signals,
                 disk, events>>

(* set_next_exe_startup(CONTEXT_RESUME): jobs that still run are left to   *)
(* finish, but nothing asks whether the line of the missed time runs.      *)
ResumeLine(l, missed) ==
  /\ pc = "resume" /\ l \in asleep
  /\ missed => "overrun" \in Env \/ \A p \in Pids : exe[p] # l
  /\ asleep' = asleep \ {l}
  /\ BootrunJob(l, missed)
  /\ UNCHANGED <<pc, ret, goal, cur, todo, loaded, running, zombies, signals,
                 disk, events>>

EndResume ==
  /\ pc = "resume" /\ asleep = {}
  /\ Goto("test_jobs")
  /\ UNCHANGED <<ret, goal, cur, todo, asleep, loaded, queues, running, zombies,
                 signals, disk, events>>

test_jobs(l) ==
  /\ pc = "test_jobs" /\ l \in LoadedLines
  /\ Dispatch(l)
  /\ UNCHANGED <<control, loaded, zombies, signals, disk>>

(* Mutant: off by one.                                                     *)
RunSerial_one_more ==
  /\ pc = "serial" /\ serial_running <= SerialMax
  /\ run_serial_job
  /\ UNCHANGED <<control, loaded, zombies, signals, disk>>

RunSerial ==
  /\ pc = "serial" /\ serial_running < SerialMax
  /\ run_serial_job
  /\ UNCHANGED <<control, loaded, zombies, signals, disk>>

Save ==
  /\ pc = "save" /\ Goto("fcrondyn")
  /\ SaveFile(loaded)
  /\ UNCHANGED <<ret, goal, cur, todo, asleep, loaded, queues, running, zombies,
                 signals, spool, pending, listed, events>>

(* cmd_run(): the commands run and runnow of fcrondyn.                     *)
cmd_run(l) ==
  /\ pc = "fcrondyn" /\ "fcrondyn" \in Env /\ l \in LoadedLines
  /\ Dispatch(l)
  /\ UNCHANGED <<control, loaded, zombies, signals, disk>>

(* First pass of check_lavg(): entries whose wait has lasted too long.     *)
LavgLate(l) ==
  /\ pc = "lavg_late" /\ lavgQ[l] > 0
  /\ \/ /\ "late" \in Opt[l]
        /\ run_lavg_job(l)
     \/ /\ "drop" \in Opt[l]
        /\ lavgQ' = [lavgQ EXCEPT ![l] = @ - 1]
        /\ numexe' = [numexe EXCEPT ![l] = @ - 1]
        /\ UNCHANGED <<once, serialQ, running, events>>
  /\ UNCHANGED <<control, loaded, zombies, signals, disk>>

(* Mutant: the limit on serial jobs is not looked at.                      *)
LavgAllowed_unlimited(l) ==
  /\ pc = "lavg_load" /\ lavgQ[l] > 0
  /\ run_lavg_job(l)
  /\ UNCHANGED <<control, loaded, zombies, signals, disk>>

(* Second pass: the load average allows the job.                           *)
LavgAllowed(l) ==
  /\ pc = "lavg_load" /\ lavgQ[l] > 0
  /\ is_serial(l) => lavg_serial_running < SerialMax
  /\ run_lavg_job(l)
  /\ UNCHANGED <<control, loaded, zombies, signals, disk>>

(* From one part of the loop to the next.                                  *)
EndOfPart(from, to) ==
  /\ pc = from /\ Goto(to)
  /\ UNCHANGED <<ret, goal, cur, todo, asleep, loaded, queues, running, zombies,
                 signals, disk, events>>

EndSerial ==
  /\ serialQ = <<>> \/ serial_running >= SerialMax
  /\ EndOfPart("serial", "save")

EndLoop ==
  /\ pc = "lavg_load"
  /\ check_signal("select")
  /\ UNCHANGED <<goal, cur, todo, asleep, loaded, queues, running, zombies,
                 signals, disk, events>>

MainLoop ==
  \/ Wake \/ CheckSuspend
  \/ \E l \in Lines, missed \in BOOLEAN : ResumeLine(l, missed)
  \/ EndResume
  \/ \E l \in Lines : test_jobs(l)
  \/ EndOfPart("test_jobs", "serial")
  \/ RunSerial \/ EndSerial
  \/ Save \/ EndOfPart("save", "fcrondyn")
  \/ \E l \in Lines : cmd_run(l)
  \/ EndOfPart("fcrondyn", "lavg_late")
  \/ \E l \in Lines : LavgLate(l)
  \/ EndOfPart("lavg_late", "lavg_load")
  \/ \E l \in Lines : LavgAllowed(l)
  \/ EndLoop

CheckSignal ==
  \/ \E p \in Pids : wait_chld(p)
  \/ RunNextSerial \/ EndWaitChld \/ ClearChld
  \/ CheckTerm \/ CheckHup \/ CheckUsr1

Reload ==
  \/ \E f \in Files : DrainFile(f)
  \/ \E p \in Pids : wait_all(p)
  \/ EndWaitAll \/ DropFile \/ EndDrain

Synchronize ==
  \/ Scan
  \/ \E f \in Files : SyncRm(f)
  \/ EndSyncRm
  \/ \E l \in Lines : LoadLine(l)
  \/ \E missed \in BOOLEAN : Bootrun(missed)
  \/ EndLoad
  \/ \E f \in Files : SyncNew(f)
  \/ EndSync

Daemon == MainLoop \/ CheckSignal \/ Reload \/ Synchronize

Environment ==
  \/ \E p \in Pids : JobExit(p)
  \/ \E f \in Files, kind \in {"new", "rm"} : Edit(f, kind)
  \/ Usr1 \/ Term \/ Crash

Init ==
  /\ pc = "scan" /\ ret = "select" /\ goal = "boot"
  /\ cur = NoJob /\ todo = {} /\ asleep = {} /\ loaded = {}
  /\ numexe = [l \in Lines |-> 0] /\ once = {}
  /\ serialQ = <<>> /\ lavgQ = [l \in Lines |-> 0]
  /\ exe = [p \in Pids |-> NoJob] /\ zombies = {}
  /\ serial_running = 0 /\ lavg_serial_running = 0
  /\ cf_running = [f \in Files |-> 0]
  /\ sigChld = FALSE /\ sigHup = FALSE /\ sigUsr1 = FALSE /\ sigTerm = FALSE
  /\ spool = Files
  /\ pending = [f \in Files |-> {}] /\ listed = [f \in Files |-> {}]
  /\ saved = [l \in Lines |-> NotSaved] /\ events = 0

Next == Daemon \/ Environment

Spec == Init /\ [][Next]_vars

(* The daemon is never stuck in user code, and every job ends one day.     *)
FairSpec ==
  /\ Spec
  /\ WF_vars(Daemon)
  /\ \A p \in Pids : WF_vars(JobExit(p))

-----------------------------------------------------------------------------
(* Properties.                                                             *)

Labels == {"select", "wait_chld", "next_serial", "clear_chld", "check_term",
           "check_hup", "check_usr1", "drain", "wait_all", "drop_file",
           "scan", "sync_rm", "load", "bootrun", "sync_new", "test_jobs",
           "serial", "save", "fcrondyn", "lavg_late", "lavg_load",
           "check_suspend", "resume"}

(* The types of the variables.  The counters are integers: nothing in the  *)
(* code itself keeps them from becoming negative.                          *)
TypeOK ==
  /\ pc \in Labels /\ ret \in {"select", "check_suspend"}
  /\ goal \in {"boot", "hup", "usr1", "term"}
  /\ cur \in Lines \cup Files \cup {NoJob}
  /\ pc \in {"wait_all", "drop_file"} => cur \in Files
  /\ pc = "bootrun" => cur \in Lines
  /\ todo \subseteq Lines /\ asleep \subseteq Lines /\ loaded \subseteq Files
  /\ numexe \in [Lines -> Int] /\ once \subseteq Lines
  /\ serialQ \in Seq(Lines) /\ lavgQ \in [Lines -> Int]
  /\ exe \in [Pids -> Lines \cup {NoJob, Orphan}] /\ zombies \subseteq Pids
  /\ serial_running \in Int /\ lavg_serial_running \in Int
  /\ cf_running \in [Files -> Int]
  /\ sigChld \in BOOLEAN /\ sigHup \in BOOLEAN
  /\ sigUsr1 \in BOOLEAN /\ sigTerm \in BOOLEAN
  /\ spool \subseteq Files /\ pending \in [Files -> SUBSET {"new", "rm"}]
  /\ listed \in [Files -> SUBSET {"new", "rm", "file"}]
  /\ saved \in [Lines -> [num : Int, once : BOOLEAN]]
  /\ events \in Nat

ProcsOf(l)     == {p \in Pids : exe[p] = l}
SerialProcs    == {p \in Pids : exe[p] \in Lines /\ CountedSerial(exe[p])}
LavgProcs      == {p \in Pids : exe[p] \in Lines /\ CountedLavg(exe[p])}
Entries(l)     == Cardinality({i \in 1..Len(serialQ) : serialQ[i] = l})
                    + lavgQ[l] + Cardinality(ProcsOf(l))

(* cl_numexe is, at any time, the number of entries of the line in the two *)
(* queues and in exe_list: the guards of run_normal_job(), add_serial_job()*)
(* and add_lavg_job() depend on it.                                        *)
NumexeExact == \A l \in Lines : numexe[l] = Entries(l)

(* A line without exesev, serialonce(no) or lavgonce(no) is never queued   *)
(* or running twice, whichever of test_jobs(), cmd_run(), bootrun and the  *)
(* restart after a crash asked for it.                                     *)
SingleInstance ==
  \A l \in Lines :
    {"exe_sev", "serial_sev", "lavg_sev"} \cap Opt[l] = {} => Entries(l) <= 1

(* serial_running counts the serial jobs that have an entry in exe_list:   *)
(* if it is too high the serial queue stops, if it is too low the limit is *)
(* passed.  Not so when "overrun" is in Env: a bootrun line that runs at a *)
(* resume and has missed its time is marked serial_once, add_serial_job()  *)
(* refuses it, and the end of the running job counts down a slot that it   *)
(* never took.                                                             *)
SerialRunningExact == serial_running = Cardinality(SerialProcs)

(* The same for the serial jobs that went through the lavg queue.          *)
LavgRunningExact == lavg_serial_running = Cardinality(LavgProcs)

(* cf_running is what reload_all() and xexit() block on: were it too high  *)
(* they would wait for the jobs of all the other files too, were it too    *)
(* low they would free the line of a running job.                          *)
CfRunningExact == \A f \in Files : cf_running[f] = Cardinality(RunningOf(f))

(* At most serial_max_running serial jobs run at the same time (but for    *)
(* "overrun", see SerialRunningExact).                                     *)
SerialLimit == Cardinality(SerialProcs) <= SerialMax

(* The manual's words: at most so many jobs of lines with option serial    *)
(* run at the same time (lines that wait for the load average aside).      *)
SerialLinesLimit ==
  Cardinality({p \in Pids : exe[p] \in Lines /\ is_serial(exe[p])
                              /\ ~is_lavg(exe[p])}) <= SerialMax

(* At most serial_max_running serial jobs of the lavg queue run at the     *)
(* same time.                                                              *)
LavgSerialLimit == Cardinality(LavgProcs) <= SerialMax

(* The temporary option serial_once is set on a line that is not serial    *)
(* only while the line waits in the serial queue or runs from it.  Left    *)
(* set, it would make the end of a normal run free a slot nobody held.     *)
OncePending == \A l \in once : ~is_serial(l) => Entries(l) > 0

(* reload_all() and xexit() free a file only when none of its jobs runs.   *)
DrainWaits ==
  [][pc = "drop_file" /\ pc' = "drain" => RunningOf(cur) = {}]_vars

(* What the spool directory says of a line when its file is freed is what  *)
(* the line was: the jobs that were queued, and no others, are queued      *)
(* again when the file is read back.  Not so of xexit(): a job that ends   *)
(* while it waits for those of another file stays saved as running.        *)
DrainSavesExactly ==
  [][pc = "drop_file" /\ pc' = "drain" =>
       \A l \in LinesOf(cur) : saved'[l].num = numexe[l]]_vars

(* A serial job that waits is started one day, or its file is removed.     *)
QueuedSerialStarts ==
  \A l \in Lines : InSerialQ(l) ~> ~InSerialQ(l)

(* Every control process that has ended is waited for.                     *)
EveryChildIsReaped == \A p \in Pids : p \in zombies ~> p \notin zombies

(* reload_all() and xexit() come to an end, whatever was running.          *)
DrainEnds == pc = "drain" ~> pc # "drain" /\ loaded = {}

(* A job (not a lavg one) recorded as queued or running when fcron stopped *)
(* runs again after the restart.                                           *)
InterruptedRunsAgain ==
  \A l \in Lines :
    (goal = "boot" /\ pc = "scan" /\ FileOf[l] \in spool
       /\ saved[l].num > 0 /\ ~is_lavg(l) /\ "runatreboot" \notin Opt[l])
    ~> (\E p \in Pids : exe[p] = l)

=============================================================================
