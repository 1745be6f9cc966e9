# fcron in TLA+

fcron is a cron daemon that also runs jobs by elapsed uptime, one by one (serial
queue) or when the load average allows (lavg queue), and that resumes after the
machine was down. The daemon is one thread; what makes it hard is everything
around that thread: jobs that end when they want, signals that only set a flag,
users who run `fcrontab` and `fcrondyn` at any time, and machines that stop.

These modules model that program from its source. Paths below are relative to
the repository; line numbers are in `PROJECT.json` ("map"), definition by
definition, and names are those of the source wherever TLA+ allows it.

## 1. Inventory

| Component | State | Operations | Talks to | What is hard |
|---|---|---|---|---|
| Main loop and signals (`fcron.c`) | `sig_chld` ... `sig_usr2`, `file_base`, wake time | `main_loop`, `check_signal`, `xexit`, `get_lock` | everything below | flags are cleared after the work they ask for; two calls of `check_signal()` per turn |
| Job control (`database.c`, `exe_list.c`, `lavg_list.c`) | serial array, lavg list, exe list, `cl_numexe`, `serial_running`, `lavg_serial_running`, `cf_running` | `test_jobs`, `run_normal_job`, `add_serial_job`, `run_serial_job`, `add_lavg_job`, `run_lavg_job`, `check_lavg`, `wait_chld`, `wait_all` | `run_job`, files, fcrondyn | four counters over three lists; children that end in any order; lines freed while they are queued or run |
| Serial array (`database.c`, `conf.c`) | `serial_array`, its size, index and length | add, run, delete the lines of a file | job control | circular, grows when full, rebuilt by `delete_file()` |
| Files in memory (`conf.c`) | `file_base`, the lines | `reload_all`, `synchronize_dir`, `synchronize_file`, `read_file`, `add_line_to_file`, `delete_file`, `save_file` | spool directory, job control | SIGUSR1 and SIGTERM wait for running jobs in the middle of a walk over the files |
| Spool directory (`conf.c`, `save.c`, `fcrontab.c`) | `user`, `new.user`, `rm.user`, `user.orig`, temporary files | install, remove, reinstall, synchronize, save | fcrontab, daemon | no lock: system calls of several processes interleave, and may be cut short |
| fcrontab, fcronsighup | `fcrontab.sig`, its lock, the pid file | write, `sig_daemon` | spool, daemon | of several waiting processes only one signals, for all |
| Schedule (`database.c`, `bitstring.h`) | `cl_nextexe`, `queue_base` | `set_next_exe`, `set_next_exe_notrun`, `insert_nextexe`, `job_queue_remove`, `switch_timezone` | main loop | calendars, daylight saving, jitter, an ordered list changed from many places |
| `run_job` (`job.c`, `mail.c`) | two pipes, pid of the job | fork, fork, exec, mail | job control | three processes, a daemon that blocks in `read_pipe()` |
| fcrondyn (`fcrondyn_svr.c`, `fcrondyn.c`) | `fcrondyn_cl_base`, select set | connect, authenticate, command | job control | list of clients changed while it is walked |
| Suspend and select (`suspend.c`, `select.c`) | suspend duration, descriptor sets | `check_suspend`, `select_call` | main loop, schedule | time that jumps |
| Parser (`fileconf.c`) | default line, current file, line number, need of a correction | `read_file`, `read_opt`, `read_freq`, `read_arys`, `read_period`, `read_field` | fcrontab | errors that drop a line in the middle of its reading; five fields of different ranges read by one loop |
| Saved form (`save.c`, `conf.c`) | typed fields | `write_file_to_disk`, `read_strings`/`read_file`, `add_line_to_file` | fcrontab, daemon | two pieces of code that must agree on defaults |
| Lists (`u_list.c` and its users) | arrays with an iteration cursor | add, del, iterate | all of the above | removal during iteration |
| Configuration (`fcronconf.c`), converter, logging, allocation, temporary files, access lists | - | - | - | sequential; no interaction |

What makes each of them correct:

- **Job control**: `cl_numexe` and the three other counters agree with the lists
  at all times; a line that may not run twice does not; no more than
  `serial_max_running` serial jobs run; a queued job starts; a child is waited
  for; an interrupted job runs again.
- **Serial array**: it is a queue.
- **Files in memory**: a file is freed only when none of its jobs runs; what is
  saved is what was true when it was freed; a drain ends.
- **Spool directory**: whatever is cut short, the last version of each fcrontab is
  there to be read by the next start, a removed one is not; what runs is what
  is saved.
- **fcronsighup**: every change is announced by somebody.
- **Schedule**: the next time is the least that matches the line; a %-line runs once in
  an interval; elapsed time is uptime; the list is sorted and holds a line once; the
  daemon wakes in time.
- **fcrontab and its parser**: what the daemon reads back is what the user wrote; what
  is left out has been told; success means that all of it is in place.
- **run_job**: the daemon gets the pid of the job or an end of file, never neither;
  what is mailed is all that could be put in the mail file.
- **fcrondyn**: the list of clients and the select set agree at every step of a walk;
  the answer a user reads is that of the last command.

## 2. Modules

| Module | Models |
|---|---|
| `JobControl` | the daemon's loop, the queues, running jobs, signals, reload, shutdown, startup, and the lines' side of `synchronize_dir()` |
| `JobControlProofs` | twelve theorems about it: types and `cf_running`, `cl_numexe`, the serial slots |
| `MCJobControl` | the small fcrontabs TLC checks it on |
| `SerialFifo` | abstract: what the rest of fcron may expect of the serial queue |
| `SerialQueue` | the circular array, with the refinement to `SerialFifo` |
| `SerialQueueProofs` | two theorems about it: the jobs are contiguous, the array implements the queue |
| `KeptOrder`, `KeptOrderProofs` | what is left, in order, when entries are taken out of a list; the lemmas about it that several proofs share |
| `Spool` | the spool directory, fcrontab, fcronsighup and `synchronize_dir()`, one system call per action |
| `SpoolProofs` | four theorems about it |
| `Calendar` | dates, `localtime()`, `mktime()` and `mktime_no_dst()` |
| `NextExe` | the walks of `set_next_exe()` and `move_time_to()` through a calendar, and what they should find |
| `Schedule` | the daemon in time: due times, `queue_base`, sleeping, suspends, restarts and new fcrontabs |
| `ScheduleProofs` | three theorems about it: the order and the lines of `queue_base`, the time to wake, uptime |
| `FileConf` | how a fcrontab is understood, line by line |
| `SaveFormat` | what is saved of it, and how that is read back |
| `Fcrontab` | a session of fcrontab around the two |
| `FcrontabProofs` | four theorems about it: what is installed is wanted, what is left out was told, intervals end, what is saved is read back |
| `RunJob` | the three processes and two pipes of `run_job()` |
| `RunJobProofs` | two theorems about it: the pid, and the mail |
| `Fcrondyn` | fcrondyn, its connections, and their part of the daemon |
| `FcrondynProofs` | two theorems about it: the list of clients and select(), the answers |
| `MCSerialQueue`, `MCSpool`, `MCSchedule`, `MCFcrontab`, `MCRunJob`, `MCFcrondyn` | instances of these |

`Schedule` is built on `NextExe` on `Calendar`; `Fcrontab` on `SaveFormat` on `FileConf`.
`JobControl`, `Spool`, `Schedule`, `RunJob` and `Fcrondyn` are five views of one daemon: each
has in detail what the others take as one step. `JobControl` has a job as one process
and a command of fcrondyn as one action; `RunJob` and `Fcrondyn` open these up.
`Schedule` has real times and runs a job in no time; `JobControl` has jobs that last
and lets a line be due whenever it is not queued.

### JobControl

`pc` is the place of the daemon in `main_loop()`: one label per part of the loop
(`test_jobs`, `serial`, `save`, `fcrondyn`, `lavg_late`, `lavg_load`, `select`),
per test of `check_signal()` (`wait_chld`, `clear_chld`, `check_term`, ...) and per phase of
`reload_all()`/`xexit()` (`drain`, `wait_all`, `drop_file`) and `synchronize_dir()`
(`scan`, `sync_rm`, `load`, `bootrun`, `sync_new`). `ret` and `goal` are the return address of
`check_signal()` and the reason of a drain or synchronization. A job and the
process that controls it are one process (`exe`), which becomes a zombie in
`JobExit` at any moment, even between two turns of `wait_chld()`; `signal_window`
adds the moment between its last `waitpid()` and `sig_chld = false`.

`Dispatch` is the three-way choice that `test_jobs()` and `cmd_run()` share.
`delete_file` frees lines: running jobs lose theirs (`Orphan`) and their slots, the
queues lose their entries. `saved` is what `save_file()` last wrote (`cl_numexe`,
`serial_once`); `LoadLine` and `Bootrun` are what `set_next_exe_startup()` makes of
it.

Abstracted: time (a loaded line may be due at any turn, a lavg entry may be late at
any check), the load average, the array behind the queue (see `SerialQueue`), and
the mails about jobs that were not run. Fields of unchanged lines kept by `synchronize_file()` are times only
and are left out. SIGUSR2 changes nothing that is modelled, and SIGCONT only sends the daemon to
`check_suspend()`, to which it comes in every turn.

After `select()` (`Wake`) and `check_signal()`, the daemon is at `check_suspend`: `CheckSuspend` goes on, or finds that the
machine has slept, and then `ResumeLine` walks through the bootrun lines as `reschedule_all_on_resume()` does, each
missed or not. A line that still runs can have missed its next time meanwhile: it is then marked `serial_once`, refused by
`add_serial_job()`, and its end counts down `serial_running`, which it never counted up. That case is in the
model behind the name `overrun` of `Env`; the properties about the serial slots are checked and proved without it and
fail with it (run `job_resume_slot`). `EndWaitAll` is the exit of `wait_all()` when the counter of the file is 0, or when
`waitpid()` finds no child left.

### SerialQueue and SerialFifo

`SerialQueue` has the four variables of the C code. `Queue` is the sequence the array stands for; under `queue <- Queue` every
step of the array is a step of `SerialFifo`, whose constant `Reorders` holds the lengths at which an
addition may permute the queue. `FifoUnlessFull` is the refinement with the
lengths at which the array grows: there the code does permute it (section 5).

### Spool

One action per system call on a shared file. `run[c]` is where one run of fcrontab,
and the fcronsighup it starts, is; versions are named after the run that wrote
them. `Launch ... Install` are `remove_fcrontab()` and `write_file()` (options: install, `-n`,
`-r`); `ReadPid ... Kill` are `fcronsighup`: an inode of `fcrontab.sig` is named by its
creator, so that a lock on a file that was unlinked is still a lock. `Scan ...
EndSync` are `synchronize_dir()` and `synchronize_file()`. Every process may be
killed between any two steps (`Interrupt`, `Killed`, `PowerOff`), and the disk may be full for
fcrontab (`InstallFails`).

`wanted` and `unannounced` are history variables. The constant `Races` names three
things that the code does not prevent and that lose a version: with `{}` they do
not happen. They are not excluded because they are rare, but in order to show
that they are the only ones: `SpoolHoldsLatest` holds without them, for every
number of users and runs (proved), and fails with each of them alone:

- `overwrite`: see finding 1 (run `spool_overwrite`);
- `behind_rm`: `synchronize_dir()` has listed `new.user`; then fcrontab removes the
  file and installs another (`-n`, or `-r` and an installation). The new version is
  read as if it were the old `new.user`, and the mark `rm.user`, which was not listed,
  removes it at the next synchronization;
- `disk_full`: `save_file()` fails in the daemon and `new.user` is removed anyway. The
  version survives in memory, until the next save or the next crash.

Two fcrontab of one user at the same time share `new.user.tmp` and `user.orig`; the
module has at most one per user writing (any number may be waiting in
fcronsighup). A read of the directory is atomic. SIGUSR1 is not in this module: for the directory
it is an `Exit` followed by a `Start`.

### Calendar, NextExe and Schedule

`Calendar` counts seconds from 2000-01-01 UTC, the origin of `set_wday()`. A broken-down time is a
`struct tm`, a zone the two instants of its summer time; `WallTime` is what the clocks
show. `localtime()` and `mktime()` are the C library's, as the code uses them;
`mktime_no_dst` is translated, with its test for the hour that clocks skip.

In `NextExe` a walk of `set_next_exe()` is a record (label of the function, how much has been
put back, date), and `SetMonth`, `SetDayAnd`, `SetDayOr`, `SetHour` are the parts of the function
between two labels; `FirstMatch` follows them. `StepMinute ... StepMonth` are the nested
increments of `move_time_to()`, `LeaveInterval` its loop. The reference they are compared with,
`FirstMatchFrom`, is the least matching minute, by quantifiers.

`Schedule` is `main_loop()`: `Wake...` or `Suspend`, then the top `check_signal()` (`Hup`,
`CheckSuspend` and the rescheduling that follows), `TestJob` per line that is due, `EndTest`
(serial jobs, save), `LavgLate` and `LavgRun`, then the second `check_signal()` (`HupLate`)
and `Sleep`. `StartLine` is `set_next_exe_startup()`, one line of the file at a time,
one action per branch (`SkipRunOnce`, `StartTdAtOnce`, `StartTdMissed`, `StartBootrun`, `StartTdValid`,
`StartFreq`), in its three contexts. `line` has what changes in a line (`nextexe`, `remain`,
`hasrun`), `LineOf` its constant part. History variables: `away` and `up` for uptime, `ran` for the
last run, `behind` for a file loaded after the time to wake was computed.
`rand()` is one of the `Draws`, as a share out of 4.

### FileConf, SaveFormat and Fcrontab

`FileConf` takes a line as the words it is made of. An accumulator goes through the options and
fields of a line (`cl` so far, `ok`, `nc` for need_correction), since an error in the middle
leaves behind what was read before it. `ReadItem` is one turn of the loop of `read_field()`
on sets of bits; `Kept` and `Skipped` are the two ways out of reading a line.

`write_file_to_disk` gives the sequence of fields of `save.c`, where a field is written only
if `When` says so, and `ReadAll` is the daemon's `read_file()` over them, field by field.

`Fcrontab` is one run: `StartFile`, `StartReinstall`, `StartEdit`, `List` or `RemoveFcrontab`, then `ReadNext`
and `EndRead` until the file is read, `Edited`, `SaveFast`, `Correct` and `Ignore` around the editor, and
`write_file` with its two failures. `file_base` keeps every file that was read and not freed:
`save_file()` writes them all under one name.

### RunJob

`fds[p]` are the ends of pipes a process holds, copied by every fork: a read sees the
end of a pipe when no process has its write end. Fcron's side is `run_job`, `ParentCloses` and
`read_pipe()` (`ReadPid`, `BadPipe`, `RetryRead`, `GiveUpRead`); the control process is
`SetUp ... Fork2 ... WritePid ... Copy ... EndCopy ... end_job`; the job is `JobStarts` and `Exec`, and
then does what it likes (`Writes`, `JobForks`, `JobExits`); what it leaves in the background may
outlive it. `Faults` names what may fail, and `Killed` ends a control process anywhere. A write to the mail file
that fails (`disk_full`) is counted in `lost`, whether it is `fputs()` in the copy, which goes on, or the flush in
`end_job()`, after which the file looks empty. A control process that cannot copy into its file or run its mailer (`mailer`) ends
at `failed`: that is an error in the log and no mail.

### Fcrondyn

A socket is two sequences of messages; `Send` and `Recv` move any number of them, and an answer
ends with an `END_STR` or does not. `recv()` cuts a sequence between two messages or, with `cut_end` among the `Faults`, in
an `END_STR`, which `talk_fcron()` then does not see (`SeesEnd`); with `full_socket`, what `send()` cannot
write without waiting is lost. `unheard` remembers the fcrondyn whose `END_STR` was cut or lost. `base` and `next` are the linked list, `master`, `fd_max` and
`readfds` the select set. A walk is `Accept` or `NoAccept`, then for each client one of `IdleClosed`,
`NothingToDo`, `PeerClosed`, `RecvError`, `auth_client_password`, `Command`, and `EndWalk`. The
commands give the answers they may have, message by message; whether a line or an entry
is there is nondeterministic. `fcrondyn` is `connect_fcron`, `authenticate_user_password`, `Ask`,
`talk_fcron` (`Recv`, `Disconnected`, `TimesOut`) and `Quit`. A command that fails on one of several
entries is recorded in `crossed`, because its answer has two ends.

## 3. Runs

| Run | Bounds | Shows |
|---|---|---|
| `job_queues` | 3 lines, 2 users, 5 processes, 1 event among fcrontab, crash, suspend; fcrondyn unbounded | all counters exact, no limit passed, no double instance, `serial_once` set only while needed |
| `job_reload` | 3 lines, 2 users, 4 processes, 2 events among SIGUSR1, crash, suspend (with `overrun`), failed fork | `cf_running` exact, drains wait, what is freed has been saved |
| `job_live` | 2 lines, 3 processes, 1 event among crash, SIGTERM, suspend (with `overrun`); fairness | queued jobs start, children are reaped, interrupted jobs run again, drains end |
| `serial_queue` | 3 lines, array of 3 growing to 5 | the array is a queue, except when it grows |
| `spool` | 1 user, 3 runs, 1 crash | the directory holds the last version, memory is disk, changes are announced |
| `schedule` | 8 lines in 3 fcrontabs, 110 minutes from each of 4 instants, 1 event among early, late, suspend, stop, boot, hup, hup_late, crash | lines wait for the right time, %-lines run once in an interval, the daemon does not oversleep |
| `fcrontab` | files of 1 or 2 lines out of 48, and some of 3; 3 callers, 2 edits | what is installed is what was written, what is dropped was told |
| `run_job` | 2 jobs, 4 pairs of kinds of line, every fault, 1 background process | right pid or none, what could be put in the mail file is mailed, the daemon returns |
| `fcrondyn` | 2 clients with 1 and 2 commands, 3 descriptors, passwords or not; END_STR cut, messages lost | list and select set agree, answers are in step, `talk_fcron()` returns unless an END_STR was cut or lost |
| `spool_overwrite`, `job_usr1_leak`, `job_resume_slot` | as small as the counterexample needs | findings, section 5 |

Why these bounds are enough. Lines interact only through the queues, the limits and
the file they share, so one line per kind of path and two files cover the
combinations; two entries of one line need `NumexeMax = 2`, and a limit of one
serial job makes the second one wait. There are as many processes as jobs that
may exist at once, those of deleted lines (up to one per instance) included: with fewer, a
start would be blocked by the model instead of the code. `serial_queue` needs an array
that grows once and wraps at every index. In `spool` a third run is the first that can install
after a removal of what another installed; users only meet in the lock, which runs of one
user exercise as well.

`schedule` starts an hour and a half before the clocks go forward or back (Europe, 2024), and 80
minutes before February 29th and before the new year: the places where a field
carries or an hour repeats. 110 minutes see each hourly line twice, a pause of 50 minutes
may miss an interval, a delay of 400 s a minute. The lines have one option or shape each of
those the schedule depends on: dates with a jitter, days of the month or of the week (`dayor`, not in January: section 5), days of the week with
`bootrun` and a runfreq, `%hourly` with a load average and `strict`, an interval over midnight at
random, a `%nightly`, an @-line, a `runonce` line on resume. `SeasonChange` takes out the hour after a
change of the season, where the code has rules of its own (section 5).
In `fcrontab` an error in one line can only reach the next ones through the default line, the environment
and the need of a correction, all of which two lines show; three lines reach the limit on entries.
In `run_job` the second job inherits the ends of pipes of the first, which is what
keeps a pipe open. In `fcrondyn` two clients are the fewest for which removing the
first, the last, or the one before the current one differ.

`MaxEvents` and `MaxCrashes` bound only the environment. `NumexeMax` stands for 255, the limit in
`run_normal_job()` and the two `add_` functions, and is small so that it is reached. `QueueMax` is the length at which the
serial queue refuses: the code refuses only when its array is full and as long as
`serial_queue_max`, which `SerialQueue` has in detail.

Jobs and processes are symmetric in `job_queues` and `job_reload`, runs of fcrontab and users in
`spool`; `job_live` and the other runs with liveness use none. `schedule`, `fcrontab` and `run_job`
do not check for deadlock: time is up, the session is over or the jobs have ended.

**Fairness** (`FairSpec`). `WF(Daemon)`: the daemon is one process that never blocks
except in `select()`, which has a timeout, and in `waitpid()`, where `wait_all` waits until a child ends or none
is left. It does not say which job is next: whatever order the loop takes,
the parts of `main_loop()` follow each other. `WF(JobExit(p))`: every job ends; without it a serial queue
rightly waits for ever. Users are not fair: they may never come. A daemon that
dispatches jobs in `test_jobs` for ever is possible in principle, but a line is
refused while it is queued or running, and the processes are finitely many.
`RunJob`: fcron, control processes and the start of a job are scheduled by the system; nothing says
that a job or what it leaves behind ends, and `DaemonReturns` does not need it. `Fcrondyn`: the daemon's loop and
`talk_fcron()`, which never wait for a user; users may never ask, and may stay for ever. That `talk_fcron()` always
takes what has come is fair; that it sees each `END_STR` is not, hence `unheard` in `TalkReturns`.

## 4. Proofs

TLC checks the small instances; the following hold for all fcrontabs, options,
limits, users, processes and environments that satisfy the assumptions
(`JobControlAssumption`, `SerialQueueAssumption`, `SpoolAssumption`, `ScheduleAssumption`,
`RunJobAssumption`, `FcrondynAssumption`, `FcrontabAssumption`, `LongAssumption`, `TextsAssumption`: finitely many lines and
processes, positive limits, distinct null values, texts that are sequences of lines of a known kind, in which a number
is not negative where the parser reads digits only).

`KeptOrderProofs` has what several of these proofs need: a finite set of numbers has a k-th
element (`NthExists`), the k-th element grows with k (`NthIncreases`), and what is kept of a sequence
is a sequence of its entries in their order (`KeepType`). The recursive functions
behind them (`Nth`) are reached through the uniqueness of a k-th element and the least number of a set
(`LeastNumber`), without an induction schema.

`JobControlProofs`

- `TypeCorrect`. The substance is what is not immediate: `delete_file()` leaves a
  queue of lines. The code's loop is the operator `Without`; that its result is a sequence of lines is
  `KeepType`.
- `CfRunningIsExact`: `cf_running` of each file is the number of its jobs in
  `exe_list`.
- `DrainsWait`: a file is freed only when none of its jobs runs;
- `OneInstance`: `SingleInstance`, for any options and any `Env`;
- `NumexeIsExact`: `NumexeExact`, if no `fork()` fails and no line is `runatreboot`.

For the first three the inductive invariant is `CfInv == Typed /\ CfRunningExact /\ DropReady`. `CfRunningExact` alone is
inductive only with the types (a cardinality of a finite set changes by one when
one process is added or removed); for `DrainsWait`, `DropReady` (at `drop_file` the counter of
the file is at most 0) carries what `wait_all()` tested to the step that frees the file.

For the other two it is `CountInv`. Its heart is `AllCounted`: `cl_numexe` is never *below* the number of entries
of a line, and equal to it unless one of the two things happens that make the code count too much
(`NumExact`). The inequality is what the guards of the queues need: a line that is let in with `cl_numexe = 0` has no
entry. `run_normal_job()` and `add_serial_job()` test `cl_numexe` and not the lists, so that a restart may not begin with a
line whose counter is too low: `SavedCounts` (what is on disk of `cl_numexe` is at least 0) and `LoadReady` (a line that is about to be read,
or to be looked at for bootrun, has no entry) carry that through `synchronize_dir()`. What the lists do to
the number of entries are the lemmas `PlacesAppend`, `PlacesTail` and `PlacesWithout`.

On top of that, about the serial slots

- `LavgLimitHolds`: `LavgSerialLimit`, if no serial line of the lavg queue has an `until`;
- `LavgRunningIsExact`: `LavgRunningExact` until `xexit()` waits for jobs, without failed forks and SIGUSR1;
- `ReloadSavesExactly`: `DrainSavesExactly` without SIGTERM;
- `SerialLimitHolds`, `SerialRunningIsExact`, `OnceIsPending`: `SerialLimit`, `SerialRunningExact` and
  `OncePending` of the behaviours that satisfy `RoomForOnce`, the first two without `overrun`;
- `SerialLimitFits`: `SerialLimit` of all behaviours, if the lines of the serial queue fit in it, without `overrun`.

The steps are first classed by what they do to the queues and the jobs, whoever takes them (`AnyStep`). `SlotsInv` adds to `CountInv` that the
counter of serial lavg jobs is never below their number (`LavgCounts`), that the counters do not pass the limit
(`LavgSlots`, `SerialSlots`: `run_queue_job()` is reached only after the test, or from `wait_chld()`, which
has just freed a slot), and what SIGTERM and SIGUSR1 still have to do (`DrainGoal`). `OnceInv` is for lines that are
not serial but are queued as such by bootrun or a restart (`Temporary`): while one waits or runs, `serial_once` says so, because
`wait_chld()` frees a slot only then. That needs `OnceCounted` (a line with `serial_once` has an entry) and
`QueuedOnce` (a queued line has `serial_once`) besides `SerialCounts`.

Each hypothesis is a place where the code loses count, and each is recorded in section 5: a `fork()` that
fails, a `runatreboot` line that is read back as running, a lavg job that is late, SIGUSR1 and SIGTERM, which do
not count off the jobs they wait for, a `serial_once` line that may run several times, a missed bootrun line that still runs
when the machine resumes (`overrun`), a queue that refuses a line whose `serial_once` is already set. The fcrontabs of `job_queues` satisfy all of them (`QueueFits` included). TLC
checked `CountInv`, `SlotsInv` and `OnceInv` on the fcrontabs of the runs, with every event, before they were proved.

`SerialQueueProofs`

- `JobsAreContiguous`: `Contiguous`; the jobs are in the `num` cells from `index` on, around the end of the
  array, and no other cell has one;
- `ArrayIsQueue`: `FifoUnlessFull`, the refinement: the array implements `SerialFifo`.

`IInv` is `TypeOK /\ Contiguous`, and there is one lemma per operation (`AddStep`, `RunStep`, `DeleteStep`,
`GrowStep`) that has both what it does to `IInv` and which step of `SerialFifo` it is. `CellBijective` (going round the array from
`index` meets each cell once) carries them all. `DeleteStep` is the long one: the loop of
`delete_file()` copies the jobs it keeps to the front, and what it leaves must be
the kept jobs in their order; `GrowStep` shows that the copy is a queue with the same jobs, and the same
queue when `index` is 0.

`SpoolProofs`

- `TypeCorrect`;
- `LatestIsOnDisk`, `RestartChangesNothing` (assuming `Races = {}`): `SpoolHoldsLatest` and
  `LoadedIsSaved`. The invariant `IInv` adds what the daemon knows between two
  system calls: `MarksAreSeen` (every mark that matters was in the listing, and was
  handled before any new version), `ReadIsUnlinked` (the version about to be
  unlinked is the one that was read, unless fcrontab withdrew it),
  `MemoryIsDisk` (where memory and disk may differ, step by step), and, for fcrontab,
  `OneRunPerUser` and `MarkAfterUnlink`. TLC checked `IInv` before it was proved;
- `SignalsAreSent` (any `Races`): `SignalSent`, with `SignalInv`, which adds that a daemon that
  has no pid in the pid file has still to read the directory.

`ScheduleProofs`, for any lines, fcrontabs, pauses and delays

- `QueueIsExact`: `QueueExact`, if no line is at once `runonce`, `lavg`, `strict` and a %-line (`NoneGivenUp`;
  `check_lavg()` puts such a line back in `queue_base` although it has run, section 5);
- `DaemonWakesInTime`: `WakesInTime`;
- `UptimeIsCounted`: `UptimeCounts`, if the @-lines without options have a period (`Periodic`: the parser sets
  `timefreq` to `LONG_MAX` only in lines that run once).

All three are of the behaviours that satisfy `TimesAreNumbers`: what `set_next_exe()` finds for an &-line or
a %-line is a number. The walks that find it are recursive, so that this cannot be
proved (they may be lost in a calendar without a match, and nothing says that they end); it is all the proofs need to know
about them. That the times of @-lines are numbers is proved (`FreqNext`).

`Base` (types, `Sorted`, `ToLoad`) is common to the three. Its heart is `InsertKeeps`: whatever position the line
had, and whether its time grew or shrank, `insert_nextexe()` leaves a sorted queue that has each line once, since the place the search starts from
is never after the one the line has to go to. The comment in the code says that a job can
only be moved back; the proof does without it, because the search starts at the old place only if the line before it is due no later.
`InsertAllIs` is the same for the lines of a fcrontab that is read again. On it:

- `QueueHeld` says which lines are in the queue while a start has still some to insert;
- `InTime` follows `save` and `nwt` through a turn: the save is never in the past after
  `test_jobs()`, and `check_lavg()` never sets a time later than `next_wake_time()` does;
- `Uptime` says, for each @-line, by how much it has still to be put off (`Owed`: the time slept, from the moment the machine
  wakes or the daemon starts until the line has had its turn), so that its time without the absence stays at least
  one period after its last run, in the middle of a reschedule too. `Absence` has what `PutOff` needs to take none of its
  error branches: the time slept is not negative and began after time 0.

`RunJobProofs`, for any set of jobs, any lines and any faults

- `PidIsRight`: `PidRight`. The invariant `PidInv` follows the write end of the pipe: a control process
  that has not written the pid holds it (`CanWrite`), one that has gone past its write has written
  (`HasWritten`), and what is in the pipe is true (`PipeIsTrue`). So fcron, which gives up only at the end of
  the file, does so only when the control process is gone before its write. `PidRight` says -1 only for a
  job that does not exist; to stay true it needs the stronger `PidKnown`: that the job never will.
- `OutputIsMailed`: `OutputMailed`, which is about the control processes that end without an error of their own: what they
  mail is all that was written to their pipe but what the mail file could not take, and nothing is lost but on a full disk. In `MailInv` only the processes of a job hold the pipe of its output
  (`Holders`; the ends that fcron's forks inherit are those of other pipes), the job holds its write end as
  long as it runs (`JobHolds`), what was written is in the pipe, in the file or in `lost` (`Counted`), and from
  the end of the copy on nobody is left to write (`Drained`).

Both go job by job: a step of the processes of one job, or of fcron about it, leaves what the
invariant says of the others as it is (`OwnStep`, `FcronStep`, `SameKeeps`). TLC checked both invariants before
they were proved.

`FcrondynProofs`, for any clients, any backlog and any limit of descriptors

- `ListAndSelectAgree`: `ListedIsWatched`. The linked list is known by a path: `OneList` says that the
  descriptors of `fcrondyn_cl_base` and the links behind it are the open connections, each once (`Chain`).
  `Listed`, the recursive function of the model, is that path because there is only one function with its
  equations. `Place` has where the walk of `fcrondyn_socket_check()` stands in the list, which is what the
  removal of the client it stands on could break; `OnePlace` that a connection has one
  descriptor. That `accept()` finds a free one is counted (`SomeFdIsFree`).
- `AnswersStayInStep`: `AnswersInStep`. `InStep` says for each client what is still to come (`Coming`: what is sent and not read yet,
  and what the daemon is about to send): the rest of the answer to its last command, with the end mark last
  if at all (`Whole`, which a lost message leaves true: `OneIsLost`), and nothing while its command is unread. A connection that is not accepted has no answer (`Waits`), one that
  the daemon has closed is nowhere any more (`Ended`). The induction needs the list: the daemon answers the client its walk stands on, and
  reads what that one wrote, because the list has the right descriptors.

`FcrontabProofs`, for any texts, users, commands and failures

- `WhatIsWantedIsInstalled`: `InstalledIsWanted`. `InstallInv` follows the text: from the start or the end of the
  editor until it is written, what the user wants is in `temp` (`StartInv`, `ReadInv`), what has been understood is what
  `read_file()` gives for the lines before the one it is at (`ReadUpTo`), and the list of files has the file just read
  and no other (which `delete_file()` has to see to when the user corrects, since `save_file()` saves all of them
  under one name). `StopsThere` says that the loop, once it has stopped at a limit or a crash, would not take it up again.
- `WhatIsNotInstalledIsTold`: `Reported`, which is about every path through the parser. `ReportInv` says, line by line, that an
  entry that was read is in the list, or `need_correction` is set, or its error is one of the two that are known to be
  silent (`Silent`: a step of 0, and a number with two dots); what it says of the lines in memory serves the next two. Its heart is `LineTells`, one lemma per kind of line (`FreqTells`, `ArysTells`, `PeriodTells`...), which rests on what
  the options do (`ReadOptTells`: they set `need_correction`, stop, or crash, and never take a word back) and on the errors of
  fields (`FieldsErrors`).

- `IntervalsEnd`: `IntervalFound`. `ReportInv` says of each line in memory that some line of the text has made it (`Made`):
  it has its types (`IsCl`), an @-line has a period, and a %-line passed the test for an end of its interval (`Bounded`).
  The test looks for a free bit; `LeftOut` goes from there to a date of the calendar, which takes that Sunday is
  0 and 7 or neither: the parser keeps it so (`Week`) in whatever it reads, wrapped ranges and `~` included.
- `SavedIsReadBack`: `RoundTrip`. `SavedInv` says that a run that ends well has written the fields of its only file, in which all
  lines are fit to run. Reading a sequence of fields put together is reading one after the other
  (`ReadBoth`, `ReadFlat`), so that a file is read back line by line (`LineReads`). In a line each field gives its part
  back if it was written and had its default if not; `Half` is the line as far as it has been read. The variables
  are a set, written in any order (`VariablesRead`), and the lines come back in the order of the text because both
  sides put each new line first (`AfterThree`, `SavedReads`). `BackIs` says what comes of each field that makes a line run: its
  value, but for the user a file is read for and for addresses that are not safe.

The loops of `read_file()`, `read_opt()`, `read_field()`, `read_arys()` and of the daemon's `read_file()` are recursive functions over the length
of their input. That a function with their equations exists is proved for each (`ReadUpToIs`, `ReadOptIs`, `ReadFieldIs`,
`ReadFieldsIs`, `ReadAllIs`), and inductions go through the least number at which a claim would fail. TLC checked the three invariants
before they were proved.

Only model-checked: the liveness properties (beyond what the prover handles); that a field holds the values its text
means (`FieldsMean`), and of `Schedule` the properties that say which minute a walk through the calendar finds
(`NextMatches`, `NoMatchSkipped`, `OncePerInterval`, `StrictInside`): loops whose result needs an induction over data.

## 5. Findings

Each of these is a run that TLC fails, and a line of the repository it contradicts.

1. `spool_overwrite`: `synchronize_file()` removes `new.user` by name, long after it opened
   it; a version installed in between disappears unread, for good.
2. `job_usr1_leak`: `wait_all()` does not decrement `serial_running`. After a SIGUSR1
   while a serial job runs, a slot is lost until fcron restarts; with the default of one
   slot no serial job ever runs again.
3. `job_resume_slot`: on resume, a bootrun line that has missed its time and still runs is marked `serial_once` and refused by
   `add_serial_job()`; its end frees a slot it never took, and one serial job too many is started.

Met while modelling, without a run of their own. The modules behave as the code
does in all of these; where that would break a property, its definition names
the exception, or the instance leaves the case out, as said here.

Jobs and files:

- a job that ends while `xexit()` waits for the jobs of another file stays saved as running, although `xexit()` means to
  save each file again after the wait (`fcron.c:206-219`): the next fcron runs it again. `DrainSavesExactly` fails with
  `term` in `Env`;
- `synchronize_dir()` may take in a new version before the mark `rm.user` that was left before it, and remove it at the next
  synchronization; it removes `new.user` although `save_file()` has failed (`behind_rm` and `disk_full` in section 2);
- a `runatreboot` line saved with `cl_numexe > 0` is neither queued nor reset, and is refused as
  already running from then on (`database.c:1453`);
- the two `memcpy()` of `add_serial_job()` swap their offsets: the order of the queue
  changes when the array grows with its first job elsewhere than at 0 (`database.c:424`), hence
  the name `FifoUnlessFull`;
- a SIGHUP that arrives during `synchronize_dir()` is forgotten when `sig_hup` is cleared
  afterwards (`fcron.c:794-799`): the change stays in the directory, unread, until the next
  SIGHUP. In the same way a child that ends between the last `waitpid()` and `sig_chld = false` is
  waited for only when another one ends: `job_live` is without `signal_window`, with which
  `EveryChildIsReaped` fails;
- a `fork()` that fails in `run_job()` leaves `cl_numexe` and the serial counters incremented, and
  both ends of the pipe open;
- `check_lavg()` starts late serial jobs without looking at `lavg_serial_running`: the late lavg job of
  `job_reload` is not serial, and `LavgSerialLimit` fails for one that is;
- a line queued for one serial run (`serial_once`) that may have several instances loses the
  flag when any of them ends, and the serial limit can be passed;
- `fcrondyn run` on a serial job fills the queue after the loop that starts serial
  jobs, so a free slot stays idle until the next wake-up;
- the serial array may grow past `serial_queue_max`, which is compared with its size only
  when it is full, and `serial_once` is set even when `add_serial_job()` refuses the line;
- `synchronize_file()` keeps the schedule of a line whose text has changed in a field it does
  not compare; `save_file()` writes every file of its list under one name.

Schedule:

- the loop of `dayor` tests bit i of `cl_days` before it compares i with the last day of the month (`database.c:1174`): from
  January 31st it reads January in `cl_mons`, which follows in memory, and takes February 1st for one of the line's
  days. `NextMatches` fails for a line with `dayor` that may run in January, and the one of the run may not;
- an `@resume` line also runs when it is installed and at the first start (the manual,
  `fcrontab.5.sgml:416-418`, says on resume); `runatreboot` moves the regular schedule of the line;
- `mail_notrun_time_t()` reports the next time of a line as the one that was missed;
- a strict %-line with `runonce` that is given up in the lavg queue is put back in `queue_base` by the
  `set_next_exe()` of `check_lavg()`, although it counts as one that has run (`database.c:1791-1801`);
- a strict %-line whose `until` is shorter than what remains of its interval is run late
  instead of given up;
- the hour that repeats when summer time ends is skipped or run once, depending on the
  walk; the second `check_signal()` of a turn may load a line that is due before the time to
  wake that was just computed;
- `get_nb_mdays()` is called with `tm_year` in one place and with `tm_year + 1900` in the others.

fcrontab and its parser:

- names of months are taken one too low, and `jan` or month 0 sets bit 31 of the days; `5-5` fills the
  whole field; `*/n` counts the days from 0; a wrapped range with a step is off after the wrap; a step
  of 0 (`fileconf.c:1952`) and a number with two dots (`fileconf.c:1851`) drop the line without setting
  `need_correction` (`Silent` in `Reported`);
- the test that a %-line has an end of its interval takes the days `1-31` for one; an unknown
  option on a %-line is ignored; `reset` sets `first` to 0 and loses the runfreq of a %-line;
- `tzdiff` on a line of its own, not after `!`, goes through `cl_file`, which is NULL there: fcrontab
  crashes (`crashed`); an invalid `mailto` leaves the line without one; `runas` of a line is dropped when an earlier line had an error
  (`fileconf.c:1065-1071`); entries beyond the limit of a user are cut without an error;
- `fcrontab -e` takes a file that was changed within the second in which it was written for
  unchanged (`unseen`), and asks for ever when its input is closed;
- `write_file()` replaces `user.orig` before it writes `new.user`: when the second
  fails, what `fcrontab -l` shows is not what runs; with `-n` a failure leaves the user
  without a fcrontab.

run_job:

- when a write to the mail file fails (a full disk), `run_job()` warns in the log and goes on copying (`job.c:721`), and
  when the flush in `end_job()` fails the file is taken for an empty one (`job.c:800`): the user gets part of the output or no
  mail, and is not told (`lost`);
- `launch_mailer()` ends with an error in the log when it cannot rewind the file or run the mailer
  (`job.c:887-906`): the output goes with the file (`failed`).

fcrondyn:

- `select_rm_read()` leaves in `__fd_max` the lowest descriptor that remains (`select.c:59`): a client
  with a higher one is not heard until another connects;
- `cmd_on_exeq()` ends its answer twice when one of several entries fails: from then on each
  answer is that of the command before (`crossed` in `AnswersInStep`);
- `talk_fcron()` sees `END_STR` only when all of it is at the end of what one `recv()` gives (`fcrondyn.c:618-622`): that of
  an answer longer than the buffer may be cut in two, which `dyncom.h:43-44` thinks a short string avoids, and that of
  an answer a non-blocking `send()` could not write never comes. fcrondyn then waits for ever (`unheard` in `TalkReturns`);
- an idle client is closed only when another one does something; `fcrondyn_socket_close()` takes
  its descriptor out of the select set after it has set it to -1; `fcrondyn run` cannot find a
  `runonce` line that has run; `talk_fcron()` reports success when `recv()` fails.

## 6. Not modelled, and why

- `fcronconf.c`, the converter, logging, allocation, temporary files, access lists and the
  installation scripts: sequential code without interaction; their results are constants here.
- The cutting of a text into words, quotes and numbers (`get_string()`, `get_line()`,
  `get_time()`), the bytes of a saved field, the text of answers and mails: data no property tells apart.
- Permissions, changes of user and PAM in fcrontab; the arguments of `parse_cmd()`.
- Several changes of season a year; two runs of fcrontab of one user at one time;
  the measure of a suspend, an input here.
- The cursor of `u_list.c` during removal: the lists are functions and sequences.

`components` in `PROJECT.json` has every part with its status, `hazards` every hazard with the
properties that cover it or the reason why none does.

## 7. Plan

Done: `JobControl`, `SerialQueue` implementing `SerialFifo`, `Spool`, `Schedule` on `NextExe` and
`Calendar`, `Fcrontab` on `SaveFormat` and `FileConf`, `RunJob`, `Fcrondyn`.

Next:

1. The composition of `RunJob` with `JobControl`, of which it refines `run_queue_job` and `JobExit`.
2. Of `Fcrontab`, that the values the parser puts in a line are those its fields mean (`FieldsMean`).
