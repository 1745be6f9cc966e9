------------------------------ MODULE Schedule ------------------------------
(***************************************************************************)
(* The clock of the daemon: queue_base, the times at which lines are due,   *)
(* the main loop that sleeps until the first of them, and what a restart, a *)
(* suspended machine or a new fcrontab do to the schedule (database.c,      *)
(* main_loop() of fcron.c, suspend.c, synchronize_file() of conf.c).        *)
(*                                                                         *)
(* A job that is run is over before the next turn of the loop: the limits on*)
(* running jobs and the serial queue are the subject of JobControl.  The    *)
(* load average wanted by a job is there or not, at each turn.              *)
(***************************************************************************)
EXTENDS NextExe, KeptOrder, SequencesExt

CONSTANTS Lines,        \* the lines users may write
          LineOf,       \* Lines -> their static part, see NextExe; opt is the
                        \* set of their options, first and timefreq the delays
                        \* of an @-line, until the timeout of a lavg line
          Versions,     \* the fcrontabs, as sets of lines
          Starts,       \* instants at which the daemon is first started
          Duration,     \* the number of seconds the model looks at
          SaveTime, LAVG_SLEEP,
          Late,         \* by how many seconds select() may overrun
          Pauses,       \* how long the machine may be down or suspended
          Env,          \* the events that may happen, see below
          MaxEvents,    \* how many of them
          Draws,        \* what rand() may give, out of 4
          TIME_T_MAX    \* global.h; also LONG_MAX in a first or a timefreq

EnvKinds == {"early", "late", "suspend", "crash", "stop", "boot", "hup", "hup_late"}

ASSUME ScheduleAssumption ==
    /\ IsFiniteSet(Lines) /\ Versions \subseteq SUBSET Lines
    /\ Env \subseteq EnvKinds
    /\ {SaveTime, LAVG_SLEEP, Duration} \cup Starts \subseteq Nat \ {0}
    /\ {FirstSleep, TIME_T_MAX} \cup Late \cup Pauses \subseteq Nat
    /\ \A l \in Lines : {LineOf[l].first, LineOf[l].timefreq, LineOf[l].runfreq} \subseteq Nat

VARIABLES
    now,        \* the time, as read at the last turn of the loop
    at,         \* where the daemon is in main_loop()
    loaded,     \* the lines of file_base
    line,       \* the changing part of each line: nextexe, remain, hasrun
    queue,      \* queue_base
    todo,       \* lines still to load, or to reschedule after a resume
    context,    \* the context and the duration these are rescheduled for
    lavgq,      \* lavg_list: entries [line, until, late]
    serialq,    \* bootrun lines in the serial queue
    save,       \* when to save next
    nwt,        \* when to wake next
    disk,       \* the saved file: loaded, line, and t_save
    ran,        \* Lines -> the due time of the last run that was on schedule
    mails,      \* reports of lines that have not run, in this turn
    events,     \* events so far
    start,      \* when the daemon was first started
    away,       \* for how long the daemon or the machine has been away
    up,         \* Lines -> the uptime at the last run, that is now - away
    behind      \* a fcrontab was loaded after the time to wake was computed

vars == <<now, at, loaded, line, queue, todo, context, lavgq, serialq, save,
          nwt, disk, ran, mails, events, start, away, up, behind>>

Is(l, o) == o \in LineOf[l].opt
Percent(l) == LineOf[l].runfreq = 1
Td(l) == Is(l, "td")

NewLine(l) == [nextexe |-> 0, remain |-> LineOf[l].runfreq, hasrun |-> FALSE]

-----------------------------------------------------------------------------
(* queue_base                                                               *)

job_queue_remove(q, l) == Keep(q, {i \in 1 .. Len(q) : q[i] # l})

\* Mutant: "a job can only be moved back" is taken at its word.
insert_nextexe_back(q, s, l) ==
    LET rest == job_queue_remove(q, l)
        from == IF Contains(q, l) THEN Min({i \in 1 .. Len(q) : q[i] = l}) ELSE 1
        pos  == Min({Len(rest) + 1} \cup
                    {i \in from .. Len(rest) : s[l].nextexe < s[rest[i]].nextexe})
    IN  InsertAt(rest, pos, l)

\* The line goes after those that are due no later than it is.  The search
\* starts at the entry that was before the line if that one is due no later.
insert_nextexe(q, s, l) ==
    LET rest == job_queue_remove(q, l)
        prev == IF Contains(q, l) THEN Min({i \in 1 .. Len(q) : q[i] = l}) - 1 ELSE 0
        from == IF prev > 0 /\ s[l].nextexe >= s[rest[prev]].nextexe THEN prev ELSE 1
        pos  == Min({Len(rest) + 1} \cup
                    {i \in from .. Len(rest) : s[l].nextexe < s[rest[i]].nextexe})
    IN  IF q = <<>> THEN <<l>> ELSE InsertAt(rest, pos, l)

\* These lines, one after the other.
InsertAll(s, ls) ==
    LET q[i \in 0 .. Len(ls)] ==
            IF i = 0 THEN <<>> ELSE insert_nextexe(q[i - 1], s, ls[i])
    IN  q[Len(ls)]

next_wake_time(lim, q, s) ==
    Max({now, IF q # <<>> /\ s[Head(q)].nextexe < lim THEN s[Head(q)].nextexe ELSE lim})

-----------------------------------------------------------------------------
(* set_next_exe() and set_next_exe_notrun(): the new cl_nextexe             *)

AfterNow(t) == IF t <= now THEN now + 5 ELSE t

NextExeOf(l, option, nextexe, draw) ==
    LET base == IF option = FROM_CUR_NEXTEXE THEN nextexe ELSE now
    IN  CASE Td(l) -> AfterNow(Candidate(LineOf[l], option, base, now, draw))
          [] ~Td(l) /\ LineOf[l].timefreq = TIME_T_MAX -> TIME_T_MAX
          [] OTHER -> base + LineOf[l].timefreq

\* The beginning of the first period after t.
PeriodAfter(l, t) ==
    LET rec   == LineOf[l]
        ftime == [localtime(rec.zone, t - Hour * rec.tzdiff) EXCEPT !.sec = 0]
    IN  mktime_no_dst(rec.zone, move_time_to(BEGIN_NEXT_PERIOD, rec, now, ftime))
        + Hour * rec.tzdiff

NotRun(l, why, since) == {[line |-> l, why |-> why, since |-> since]}

\* The mail of a %-line that has missed a whole period.
MailIfMissed(l, why, since, nextexe) ==
    IF nextexe >= PeriodAfter(l, since) THEN NotRun(l, why, since) ELSE {}

-----------------------------------------------------------------------------
(* add_lavg_job(): an entry with the time until which it waits              *)

IntervalEnd(l, t) ==
    LET shift == Hour * LineOf[l].tzdiff
    IN  EndOfInterval(LineOf[l], now, t - shift) + shift

\* Mutant: the end of the interval is put in the entry, but the job is run late.
LavgEntry_late(l, nextexe) ==
    [line |-> l, until |-> IntervalEnd(l, nextexe), late |-> TRUE]

LavgEntry(l, nextexe) ==
    LET until == LineOf[l].until
        end   == IntervalEnd(l, nextexe)
    IN  IF Is(l, "strict") /\ Percent(l)
        THEN IF until > 0 /\ until + now < end
             THEN [line |-> l, until |-> until + now, late |-> TRUE]
             ELSE [line |-> l, until |-> end, late |-> FALSE]
        ELSE [line |-> l, until |-> IF until > 0 THEN now + until ELSE 0, late |-> TRUE]

InLavgq(l) == \E i \in 1 .. Len(lavgq) : lavgq[i].line = l

add_lavg_job(l, nextexe) ==
    IF InLavgq(l) THEN lavgq ELSE Append(lavgq, LavgEntry(l, nextexe))

-----------------------------------------------------------------------------
(* set_next_exe_startup(): the lines of todo are scheduled one at a time, as*)
(* the daemon starts ("default", or "boot" when the machine does) or after  *)
(* the machine resumed ("resume"), having been away for context.slept.      *)

Init ==
    /\ now \in Starts
    /\ start = now
    /\ \E v \in Versions, kind \in {"default", "boot"} :
        /\ loaded = v
        /\ todo = SetToSeq(v)
        /\ context = [kind |-> kind, slept |-> now]
        /\ disk = [loaded |-> v, line |-> [l \in Lines |-> NewLine(l)], t_save |-> 0]
    /\ line = disk.line
    /\ at = "load"
    /\ queue = <<>> /\ lavgq = <<>> /\ serialq = <<>>
    /\ save = now /\ nwt = now
    /\ ran = [l \in Lines |-> 0]
    /\ mails = {} /\ events = 0
    /\ away = 0 /\ up = ran /\ behind = FALSE

\* clear_hasrun(), and the lines that are not scheduled again.
HasRun(l) ==
    /\ line[l].hasrun
    /\ ~ \/ context.kind = "boot"
         \/ context.kind = "default" /\ Is(l, "volatile")
         \/ context.kind = "resume" /\ Is(l, "runatresume")

RunAtOnce(l) ==
    \/ context.kind = "boot" /\ Is(l, "runatreboot")
    \/ context.kind = "resume" /\ Is(l, "runatresume")

IsNewFile == context.slept = now

Loading(l) ==
    /\ at \in {"load", "resume"} /\ todo # <<>> /\ l = Head(todo)
    /\ todo' = Tail(todo)
    /\ UNCHANGED <<now, at, loaded, context, save, nwt, disk, ran, events, start,
                   away, up, behind>>

Insert(l, s) ==
    /\ line' = [line EXCEPT ![l] = [s EXCEPT !.hasrun = HasRun(l)]]
    /\ queue' = insert_nextexe(queue, line', l)

SkipRunOnce(l) ==
    /\ Loading(l) /\ Is(l, "runonce") /\ HasRun(l)
    /\ UNCHANGED <<line, queue, lavgq, serialq, mails>>

Scheduled(l) == Loading(l) /\ ~(Is(l, "runonce") /\ HasRun(l))

StartTdAtOnce(l) ==
    /\ Scheduled(l) /\ Td(l) /\ RunAtOnce(l)
    /\ Insert(l, [line[l] EXCEPT !.nextexe = now])
    /\ mails' = mails \cup
        CASE ~Is(l, "notice_notrun") -> {}
          [] Is(l, "notice_notrun") /\ Percent(l) ->
                MailIfMissed(l, "sysdown", line[l].nextexe, now)
          [] OTHER -> NotRun(l, "sysdown", now)
    /\ UNCHANGED <<lavgq, serialq>>

Overdue(l) == Scheduled(l) /\ Td(l) /\ ~RunAtOnce(l) /\ line[l].nextexe <= now

IsBootrun(l) ==
    /\ line[l].nextexe # 0
    /\ Is(l, "bootrun") /\ ~IsNewFile /\ ~Percent(l)

\* The time a line was due at has passed: it is scheduled again, and its user
\* told.  mail_notrun_time_t() tells the new time, not the one it is given.
StartTdMissed(l) ==
    /\ Overdue(l) /\ ~IsBootrun(l)
    /\ \E next \in {NextExeOf(l, NO_GOTO, 0, d) : d \in Draws} :
        LET old == line[l].nextexe
        IN  /\ Insert(l, [line[l] EXCEPT !.nextexe = next])
            /\ mails' = mails \cup
                CASE ~Is(l, "notice_notrun") \/ old = 0 -> {}
                  [] Is(l, "notice_notrun") /\ old # 0 /\ Percent(l) ->
                        MailIfMissed(l, "sysdown", old, next)
                  [] OTHER -> NotRun(l, "sysdown", next)
    /\ UNCHANGED <<lavgq, serialq>>

Countdown(l) == line[l].remain > 1

StartBootrun(l) ==
    /\ Overdue(l) /\ IsBootrun(l)
    /\ \E d \in Draws :
        Insert(l, [line[l] EXCEPT
            !.nextexe = NextExeOf(l, STD, 0, d),
            !.remain  = IF Countdown(l) THEN @ - 1 ELSE LineOf[l].runfreq])
    /\ lavgq' = IF Is(l, "lavg") /\ ~Countdown(l)
                THEN add_lavg_job(l, line[l].nextexe) ELSE lavgq
    /\ serialq' = IF ~Is(l, "lavg") /\ ~Countdown(l)
                  THEN Append(serialq, l) ELSE serialq
    /\ UNCHANGED mails

\* After a resume the line is in the queue already.
StartTdValid(l) ==
    /\ Scheduled(l) /\ Td(l) /\ ~RunAtOnce(l) /\ line[l].nextexe > now
    /\ IF context.kind = "resume"
       THEN /\ line' = [line EXCEPT ![l].hasrun = HasRun(l)]
            /\ UNCHANGED queue
       ELSE Insert(l, line[l])
    /\ UNCHANGED <<lavgq, serialq, mails>>

\* The first time of an @-line, which counts from now.
FirstTime(l) ==
    IF LineOf[l].first = TIME_T_MAX THEN TIME_T_MAX ELSE now + LineOf[l].first

FromFirst(l) ==
    \/ IsNewFile
    \/ Is(l, "volatile")
    \/ context.kind = "boot" /\ (Is(l, "rebootreset") \/ Is(l, "runonce"))

\* Mutant: the time slept is not added.
PutOff_not(l) == Max({line[l].nextexe, now})

\* An @-line counts the time the system is up: it is put off by the time slept.
\* What is past TIME_T_MAX, or before now when the daemon starts, is an error.
PutOff(l) ==
    LET t == line[l].nextexe
    IN  CASE t < now - context.slept /\ context.kind = "resume" -> now
          [] t < now - context.slept /\ context.kind # "resume" -> now + LineOf[l].timefreq
          [] t >= now - context.slept /\ t > TIME_T_MAX - context.slept ->
                now + LineOf[l].timefreq
          [] OTHER -> t + context.slept

StartFreq(l) ==
    /\ Scheduled(l) /\ ~Td(l)
    /\ Insert(l, [line[l] EXCEPT
        !.nextexe = CASE RunAtOnce(l) -> now
                      [] ~RunAtOnce(l) /\ FromFirst(l) -> FirstTime(l)
                      [] OTHER -> PutOff(l)])
    /\ UNCHANGED <<lavgq, serialq, mails>>

StartLine(l) ==
    \/ SkipRunOnce(l) \/ StartTdAtOnce(l) \/ StartTdMissed(l)
    \/ StartBootrun(l) \/ StartTdValid(l) \/ StartFreq(l)

Saved == [loaded |-> loaded, line |-> line, t_save |-> now]

\* The daemon is ready.  It does not run a job before FirstSleep.
EndLoad ==
    /\ at = "load" /\ todo = <<>>
    /\ at' = "select"
    /\ save' = now + SaveTime
    /\ nwt' = IF serialq # <<>> THEN now + FirstSleep
              ELSE Max({next_wake_time(save', queue, line), now + FirstSleep})
    /\ disk' = IF IsNewFile THEN Saved ELSE disk
    /\ context' = [kind |-> "default", slept |-> 0]
    /\ mails' = {}
    /\ UNCHANGED <<now, loaded, line, queue, todo, lavgq, serialq, ran, events, start,
                   away, up, behind>>

-----------------------------------------------------------------------------
(* main_loop()                                                              *)

\* The jobs of these lines are run.
Run(ls) ==
    /\ ran' = [l \in Lines |-> IF l \in ls THEN now ELSE ran[l]]
    /\ up'  = [l \in Lines |-> IF l \in ls THEN now - away ELSE up[l]]

Happens(e) == e \in Env /\ events < MaxEvents /\ events' = events + 1

Wake(t, slept) ==
    /\ at = "select" /\ t <= start + Duration
    /\ at' = "signal"
    /\ now' = t
    /\ context' = [kind |-> "resume", slept |-> slept]
    /\ away' = away + slept
    /\ mails' = {}
    /\ UNCHANGED <<loaded, line, queue, todo, lavgq, serialq, save, nwt, disk,
                   ran, start,
                   up, behind>>

\* select() returns in time, late, or before its timeout (a signal, a
\* connection).
WakeOnTime  == Wake(Max({now, nwt}), 0) /\ UNCHANGED events
WakeLate    == Happens("late") /\ \E d \in Late : Wake(Max({now, nwt}) + d, 0)
WakeEarly   == nwt > now + 1 /\ Happens("early") /\ Wake(now + (nwt - now) \div 2, 0)

\* The machine is suspended: the clock jumps as it resumes, the timer fd of
\* init_suspend() wakes the daemon, and the boot time clock tells how long it
\* was away.
Suspend == Happens("suspend") /\ \E d \in Pauses : Wake(now + d, d)

\* synchronize_file(): a version of the fcrontab replaces the one in memory.
\* Each of its lines is scheduled as new, then takes back the schedule it had;
\* delete_file() removes the old lines from the queues.
Taken(v, d) ==
    [l \in Lines |->
        CASE l \in v /\ l \in loaded ->
                [line[l] EXCEPT !.hasrun = @ /\ Is(l, "runonce")]
          [] l \in v /\ l \notin loaded ->
                [NewLine(l) EXCEPT !.nextexe = IF Td(l) THEN NextExeOf(l, NO_GOTO, 0, d)
                                               ELSE FirstTime(l)]
          [] OTHER -> line[l]]

Synchronize(v) ==
    \E s \in {Taken(v, d) : d \in Draws} :
        /\ loaded' = v
        /\ line' = s
        /\ queue' = InsertAll(s, SetToSeq({l \in v : ~(Is(l, "runonce") /\ s[l].hasrun)}))
        /\ lavgq' = <<>> /\ serialq' = <<>>
        /\ disk' = [loaded |-> v, line |-> s, t_save |-> now]
        /\ ran' = [l \in Lines |-> IF l \in v \cap loaded THEN ran[l] ELSE 0]
        /\ up' = [l \in Lines |-> IF l \in v \cap loaded THEN up[l] ELSE 0]

\* SIGHUP is served by the check_signal() at the top of the loop, or by the
\* one at its end, after the time to wake at is known.
ServeHup ==
    /\ \E v \in Versions : Synchronize(v)
    /\ UNCHANGED <<now, at, todo, context, save, nwt, mails, start, away>>

Hup     == at = "signal" /\ Happens("hup") /\ ServeHup /\ UNCHANGED behind
HupLate == at = "sleep" /\ Happens("hup_late") /\ ServeHup /\ behind' = TRUE

\* check_suspend(), reschedule_all_on_resume()
CheckSuspend ==
    /\ at = "signal"
    /\ at' = "resume"
    /\ todo' = IF context.slept > 0 THEN SetToSeq(loaded) ELSE <<>>
    /\ UNCHANGED <<now, loaded, line, queue, context, lavgq, serialq, save, nwt,
                   disk, ran, mails, events, start,
                   away, up, behind>>

EndResume ==
    /\ at = "resume" /\ todo = <<>>
    /\ at' = "test"
    /\ context' = [kind |-> "default", slept |-> 0]
    /\ UNCHANGED <<now, loaded, line, queue, todo, lavgq, serialq, save, nwt,
                   disk, ran, mails, events, start,
                   away, up, behind>>

\* test_jobs(): the line that is due first is counted down, or run, and
\* scheduled again unless it runs once.
TestJob ==
    /\ at = "test" /\ queue # <<>>
    /\ LET l    == Head(queue)
           runs == ~Countdown(l)
           over == Is(l, "runonce") /\ (runs \/ line[l].hasrun)
       IN  /\ line[l].nextexe <= now
           /\ \E d \in Draws :
                line' = [line EXCEPT ![l] =
                    [nextexe |-> IF over THEN @.nextexe ELSE NextExeOf(l, STD, 0, d),
                     remain  |-> IF runs THEN LineOf[l].runfreq ELSE @.remain - 1,
                     hasrun  |-> @.hasrun \/ runs]]
           /\ queue' = IF over THEN job_queue_remove(queue, l)
                       ELSE insert_nextexe(queue, line', l)
           /\ lavgq' = IF runs /\ Is(l, "lavg")
                       THEN add_lavg_job(l, line[l].nextexe) ELSE lavgq
           /\ Run(IF runs /\ ~Is(l, "lavg") THEN {l} ELSE {})
    /\ UNCHANGED <<now, at, loaded, todo, context, serialq, save, nwt, disk, mails,
                   events, start, away, behind>>

\* The serial jobs of the bootrun lines, then the save.
EndTest ==
    /\ at = "test"
    /\ queue # <<>> => line[Head(queue)].nextexe > now
    /\ at' = "lavg"
    /\ serialq' = <<>>
    /\ Run(ToSet(serialq))
    /\ save' = IF save <= now THEN now + SaveTime ELSE save
    /\ disk' = IF save <= now THEN Saved ELSE disk
    /\ UNCHANGED <<now, loaded, line, queue, todo, context, lavgq, nwt, mails,
                   events, start, away, behind>>

\* check_lavg(): a job that has waited too long is given up or run late.
Exceeded(e) == (LineOf[e.line].until > 0 \/ Percent(e.line)) /\ e.until < now

LavgLate ==
    /\ at = "lavg"
    /\ \E i \in 1 .. Len(lavgq) :
        LET e == lavgq[i]
            l == e.line
        IN  /\ Exceeded(e) /\ \A k \in 1 .. i - 1 : ~Exceeded(lavgq[k])
            /\ lavgq' = RemoveAt(lavgq, i)
            /\ IF e.late
               THEN /\ Run({l})
                    /\ UNCHANGED <<line, queue, mails>>
               ELSE \E next \in {NextExeOf(l, NO_GOTO_LOG, 0, d) : d \in Draws} :
                        /\ line' = [line EXCEPT ![l].nextexe = next]
                        /\ queue' = insert_nextexe(queue, line', l)
                        /\ mails' = mails \cup
                             IF Td(l) /\ Is(l, "notice_notrun")
                             THEN MailIfMissed(l, "lavg", now, next) ELSE {}
                        /\ Run({})
    /\ UNCHANGED <<now, at, loaded, todo, context, serialq, save, nwt, disk, events,
                   start, away, behind>>

\* Mutant: while a job waits for the load average, no line wakes the daemon.
LavgRun_sleeps ==
    /\ at = "lavg"
    /\ \A i \in 1 .. Len(lavgq) : ~Exceeded(lavgq[i])
    /\ \E low \in SUBSET {lavgq[i].line : i \in 1 .. Len(lavgq)} :
        LET left == Keep(lavgq, {i \in 1 .. Len(lavgq) : lavgq[i].line \notin low})
        IN  /\ lavgq' = left
            /\ Run(low)
            /\ nwt' = IF left = <<>> THEN next_wake_time(save, queue, line)
                      ELSE now + LAVG_SLEEP
    /\ at' = "sleep"
    /\ behind' = FALSE
    /\ UNCHANGED <<now, loaded, line, queue, todo, context, serialq, save, disk,
                   mails, events, start, away>>

\* The jobs whose load average is low enough are run, and the time to wake at
\* is set.
LavgRun ==
    /\ at = "lavg"
    /\ \A i \in 1 .. Len(lavgq) : ~Exceeded(lavgq[i])
    /\ \E low \in SUBSET {lavgq[i].line : i \in 1 .. Len(lavgq)} :
        LET left == Keep(lavgq, {i \in 1 .. Len(lavgq) : lavgq[i].line \notin low})
            wake == next_wake_time(save, queue, line)
        IN  /\ lavgq' = left
            /\ Run(low)
            /\ nwt' = IF left = <<>> THEN wake ELSE Min({now + LAVG_SLEEP, wake})
    /\ at' = "sleep"
    /\ behind' = FALSE
    /\ UNCHANGED <<now, loaded, line, queue, todo, context, serialq, save, disk,
                   mails, events, start, away>>

Sleep ==
    /\ at = "sleep"
    /\ at' = "select"
    /\ UNCHANGED <<now, loaded, line, queue, todo, context, lavgq, serialq, save,
                   nwt, disk, ran, mails, events, start,
                   away, up, behind>>

\* The daemon stops, saving its fcrontabs, or dies; and is started again, by
\* the startup of the machine or not.
Restart(how) ==
    /\ at = "select" /\ Happens(how)
    /\ \E d \in Pauses, kind \in {"default"} \cup (Env \cap {"boot"}) :
        LET d0 == IF how = "stop" THEN Saved ELSE disk
        IN  /\ now + d <= start + Duration
            /\ now' = now + d
            /\ disk' = d0 /\ loaded' = d0.loaded /\ line' = d0.line
            /\ todo' = SetToSeq(d0.loaded)
            /\ context' = [kind |-> kind, slept |-> now' - d0.t_save]
            /\ away' = away + d
    /\ at' = "load"
    /\ queue' = <<>> /\ lavgq' = <<>> /\ serialq' = <<>>
    /\ ran' = IF how = "stop" THEN ran ELSE [l \in Lines |-> 0]
    /\ up' = IF how = "stop" THEN up ELSE [l \in Lines |-> 0]
    /\ mails' = {} /\ behind' = FALSE
    /\ UNCHANGED <<save, nwt, start>>

Next ==
    \/ \E l \in Lines : StartLine(l)
    \/ EndLoad
    \/ WakeOnTime \/ WakeLate \/ WakeEarly \/ Suspend
    \/ Hup \/ HupLate \/ CheckSuspend \/ EndResume
    \/ TestJob \/ EndTest \/ LavgLate \/ LavgRun \/ Sleep
    \/ Restart("stop") \/ Restart("crash")

Spec == Init /\ [][Next]_vars

-----------------------------------------------------------------------------
(* Properties                                                               *)

\* queue_base is sorted by due time, and holds each line of the fcrontab once,
\* but for the lines with runonce that have run (insert_nextexe(): "a job can
\* only be moved back", while lines are also moved forward by a resume, a
\* restart or a new fcrontab).
QueueExact ==
    /\ \A i \in 1 .. Len(queue) - 1 : line[queue[i]].nextexe <= line[queue[i + 1]].nextexe
    /\ at # "load" =>
        /\ ToSet(queue) = {l \in loaded : ~(Is(l, "runonce") /\ line[l].hasrun)}
        /\ Len(queue) = Cardinality(ToSet(queue))

\* The first hour of a season repeats or follows one the clocks skip.
SeasonChange(l, t) ==
    LET z == LineOf[l].zone
    IN  \E change \in {z.dst_from, z.dst_to} : change <= t /\ t < change + Hour

ShownTo(l, t) == localtime(LineOf[l].zone, t - Hour * LineOf[l].tzdiff)

\* The time a line waits for is one its fields allow, up to its jitter:
\* set_next_exe() has not taken its "BUG ???" way out to now + 5 s.
NextMatches ==
    at = "select" =>
        \A l \in ToSet(queue) :
            Td(l) /\ line[l].nextexe > now /\ ~SeasonChange(l, line[l].nextexe) =>
                \E j \in 0 .. LineOf[l].jitter :
                    Matches(LineOf[l], {}, ShownTo(l, line[l].nextexe - j))

\* The daemon does not skip a time: from the next minute on, an &-line waits
\* for the first minute of the clock that its fields allow.
NoMatchSkipped ==
    at = "select" =>
        \A l \in ToSet(queue) :
            Td(l) /\ ~Percent(l) /\ ~SeasonChange(l, now) =>
                LET tm   == [ShownTo(l, now) EXCEPT !.min = @ + 1, !.sec = 0]
                    wall == FirstMatchFrom(LineOf[l], tm, 40)
                IN  line[l].nextexe <=
                        mktime_no_dst(LineOf[l].zone, [Shown(wall) EXCEPT !.isdst = tm.isdst])
                        + Hour * LineOf[l].tzdiff + LineOf[l].jitter

\* The number of the period of a line with a keyword such as %nightly, which
\* goes from middle to middle of the hour, day, week or month.
PeriodOf(l, t) ==
    LET rec  == LineOf[l]
        tm   == ShownTo(l, t)
        wall == WallTime(tm)
    IN  CASE "hrs" \in rec.limits  -> (IF rec.mid THEN wall - 30 * Minute ELSE wall) \div Hour
          [] "days" \in rec.limits -> (IF rec.mid THEN wall - 12 * Hour ELSE wall) \div Day
          [] "dow" \in rec.limits  -> (wall - (IF rec.mid THEN 5 ELSE 2) * Day) \div (7 * Day)
          [] "mons" \in rec.limits -> 12 * tm.year + tm.mon
                                      - (IF rec.mid /\ tm.mday < 15 THEN 1 ELSE 0)

\* A %-line runs at most once in each of its intervals ("run this command once
\* during EACH time interval specified"), whatever the delays, the suspends and
\* the restarts that follow a save: between two runs there is a time that is out
\* of the interval.  A crash is not covered, as fcron forgets what has run since
\* the last save; nor is a line that was removed in between.
OncePerInterval ==
    [][\A l \in Lines :
        Percent(l) /\ ran[l] # 0 /\ ran'[l] \notin {0, ran[l]} =>
            IF LineOf[l].periodical
            THEN PeriodOf(l, ran[l]) # PeriodOf(l, ran'[l])
            ELSE \E k \in 1 .. (ran'[l] - ran[l]) \div Minute :
                    ~Matches(LineOf[l], LineOf[l].limits, ShownTo(l, ran[l] + Minute * k))]_vars

\* A strict %-line that waits for a low load is run inside of its interval of
\* execution, or not at all.  The lines it is checked on have no until: one that
\* ends before the interval makes check_lavg() run the line late.
StrictInside ==
    [][\A l \in Lines :
        Percent(l) /\ Is(l, "lavg") /\ Is(l, "strict") /\ ran'[l] \notin {0, ran[l]} =>
            Matches(LineOf[l], {}, ShownTo(l, now))]_vars

\* The daemon never sleeps past the time the first line is due at, but for the
\* delay before its first job.  A fcrontab that is loaded once the time to wake
\* is known may wait for longer, though no longer than until the next save.
WakesInTime ==
    at = "select" /\ queue # <<>> =>
        nwt <= IF behind THEN save ELSE Max({line[Head(queue)].nextexe, now + FirstSleep})

\* An @-line runs every timefreq seconds of uptime: the time the machine is
\* suspended, or the daemon stopped, does not count, whatever happens between
\* the save of the line and its next run.
UptimeCounts ==
    at = "select" =>
        \A l \in ToSet(queue) :
            ~Td(l) /\ LineOf[l].opt = {} /\ up[l] # 0 =>
                line[l].nextexe - away >= up[l] + LineOf[l].timefreq

=============================================================================
