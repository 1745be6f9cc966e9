------------------------------- MODULE NextExe -------------------------------
(***************************************************************************)
(* When a line based on time and date is to run next: the walk through the  *)
(* calendar of set_next_exe() and move_time_to() (database.c), and what it  *)
(* should find.                                                             *)
(*                                                                         *)
(* A line has the sets mins, hrs, days, mons and dow of the times it        *)
(* matches, the options dayor, random and mid, its runfreq (1 for a %-line),*)
(* the fields "limits" whose is_freq_ bit is set, periodical when these     *)
(* bits come from a keyword such as %hourly, a jitter in seconds, a zone,   *)
(* and the tzdiff of its file, in hours.                                    *)
(***************************************************************************)
EXTENDS Calendar

CONSTANTS MAXYEAR_SCHEDULE_TIME,    \* config.h
          FirstSleep                \* option --firstsleep, in seconds

STD == 0
NO_GOTO == 1
NO_GOTO_LOG == 2
FROM_CUR_NEXTEXE == 4

Fields == {"mins", "hrs", "days", "mons", "dow"}

Tm == [year : Int, mon : Int, mday : Int, hour : Int, min : Int, sec : Int,
       wday : Int, isdst : BOOLEAN]

-----------------------------------------------------------------------------
(* goto_beginning_next_period_periodical()                                  *)

ToMonday(tm)   == IF tm.wday = 0 THEN 1 ELSE 8 - tm.wday
ToThursday(tm) == IF tm.wday >= 4 THEN 11 - tm.wday ELSE 4 - tm.wday

\* The month that bounds the move is read with tm_year, not tm_year + 1900.
AddDays(tm, n) ==
    LET max == get_nb_mdays(tm.year - 1900, tm.mon)
    IN  IF tm.mday + n > max
        THEN [tm EXCEPT !.mon = @ + 1, !.mday = @ + n - max]
        ELSE [tm EXCEPT !.mday = @ + n]

\* The first field that is a limit decides.
StartOfPeriod(limits, tm) ==
    CASE "hrs" \in limits  -> [tm EXCEPT !.min = 0, !.hour = @ + 1]
      [] "hrs" \notin limits /\ "days" \in limits ->
            [tm EXCEPT !.min = 0, !.hour = 0, !.mday = @ + 1]
      [] limits \cap {"hrs", "days"} = {} /\ "dow" \in limits ->
            AddDays([tm EXCEPT !.min = 0, !.hour = 0], ToMonday(tm))
      [] limits \cap {"hrs", "days", "dow"} = {} ->
            [tm EXCEPT !.min = 0, !.hour = 0, !.mday = 1,
                       !.mon = IF "mons" \in limits THEN @ + 1 ELSE @]

MiddleOfPeriod(limits, tm) ==
    CASE "hrs" \in limits ->
            [tm EXCEPT !.hour = IF tm.min >= 30 THEN @ + 1 ELSE @, !.min = 30]
      [] "hrs" \notin limits /\ "days" \in limits ->
            [tm EXCEPT !.mday = IF tm.hour >= 12 THEN @ + 1 ELSE @,
                       !.hour = 12, !.min = 0]
      [] limits \cap {"hrs", "days"} = {} /\ "dow" \in limits ->
            AddDays([tm EXCEPT !.min = 0, !.hour = 0], ToThursday(tm))
      [] limits \cap {"hrs", "days", "dow"} = {} /\ "mons" \in limits ->
            [tm EXCEPT !.min = 0, !.hour = 0,
                       !.mon = IF tm.mday >= 15 THEN @ + 1 ELSE @, !.mday = 15]
      [] limits \cap {"hrs", "days", "dow", "mons"} = {} ->
            [tm EXCEPT !.hour = 0, !.min = 1]

CarryHour(tm) == IF tm.min >= 60 THEN [tm EXCEPT !.min = 0, !.hour = @ + 1] ELSE tm
CarryDay(tm)  == IF tm.hour >= 24 THEN [tm EXCEPT !.hour = 0, !.mday = @ + 1] ELSE tm
CarryMonth(tm) ==
    IF tm.mday > get_nb_mdays(tm.year, tm.mon)
    THEN [tm EXCEPT !.mday = 1, !.mon = @ + 1]
    ELSE tm
CarryYear(tm) == IF tm.mon >= 12 THEN [tm EXCEPT !.mon = 0, !.year = @ + 1] ELSE tm

goto_beginning_next_period_periodical(line, tm) ==
    IF "mins" \in line.limits THEN tm
    ELSE LET start == IF line.mid
                      THEN MiddleOfPeriod(line.limits, tm)
                      ELSE StartOfPeriod(line.limits, tm)
         IN  CarryYear(CarryMonth(CarryDay(CarryHour([start EXCEPT !.sec = 0]))))

-----------------------------------------------------------------------------
(* move_time_to()                                                           *)

\* The line may run at tm, the fields in "ignored" put aside.
Matches(line, ignored, tm) ==
    LET days == "days" \in ignored \/ tm.mday \in line.days
        dow  == "dow" \in ignored \/ tm.wday \in line.dow
    IN  /\ "mins" \in ignored \/ tm.min \in line.mins
        /\ "hrs" \in ignored \/ tm.hour \in line.hrs
        /\ IF line.dayor THEN days \/ dow ELSE days /\ dow
        /\ "mons" \in ignored \/ tm.mon \in line.mons

StepMonth(ignored, tm) ==
    IF ignored = Fields \/ tm.mon + 1 >= 12
    THEN [tm EXCEPT !.mon = 0, !.year = @ + 1]
    ELSE [tm EXCEPT !.mon = @ + 1]

StepDay(ignored, tm) ==
    IF \/ {"mins", "hrs", "days", "dow"} \subseteq ignored
       \/ tm.mday + 1 > get_nb_mdays(tm.year, tm.mon)
    THEN StepMonth(ignored, [tm EXCEPT !.mday = 1])
    ELSE [tm EXCEPT !.mday = @ + 1]

StepHour(ignored, tm) ==
    IF {"mins", "hrs"} \subseteq ignored \/ tm.hour + 1 >= 24
    THEN StepDay(ignored, [tm EXCEPT !.hour = 0])
    ELSE [tm EXCEPT !.hour = @ + 1]

\* To the next minute that does not match, or to the next hour.
StepMinute(line, ignored, tm) ==
    LET free == {m \in tm.min + 1 .. 59 : m \notin line.mins}
    IN  IF "mins" \in ignored \/ free = {}
        THEN StepHour(ignored, [tm EXCEPT !.min = 0, !.sec = 0])
        ELSE [tm EXCEPT !.min = Min(free), !.sec = 0]

BEGIN_NEXT_PERIOD == "begin"
END_OF_INTERVAL == "end"

\* The first instant from tm on that is out of the line's interval, or past
\* "last"; "lost" when there is none for MAXYEAR_SCHEDULE_TIME years.
LeaveInterval(line, ignored, tm, last) ==
    LET leave[ftime \in Tm] ==
            LET t    == mktime_no_dst(line.zone, ftime)
                date == localtime(line.zone, t)
            IN  IF ftime.year >= tm.year + MAXYEAR_SCHEDULE_TIME
                THEN [t |-> t, lost |-> TRUE]
                ELSE IF ~Matches(line, ignored, date) \/ t >= last
                THEN [t |-> t, lost |-> FALSE]
                ELSE leave[StepMinute(line, ignored, date)]
    IN  leave[tm]

Shown(wall) == Date(wall, FALSE)

\* One minute less on the clock, the season unchanged.
BackOneMinute(tm) == [Shown(WallTime(tm) - Minute) EXCEPT !.isdst = tm.isdst]

\* How far a move may go.
LastMove(line, now, tm) ==
    IF line.periodical
    THEN mktime_no_dst(line.zone, goto_beginning_next_period_periodical(line, tm))
    ELSE now + 10 * 365 * Day

\* Where the move ends, once it has left the interval.
MovedTo(where, line, left, last) ==
    IF left.lost THEN localtime(line.zone, left.t)
    ELSE LET ftime == localtime(line.zone, Min({left.t, last}))
         IN  IF where = END_OF_INTERVAL THEN BackOneMinute(ftime) ELSE ftime

move_time_to(where, line, now, tm) ==
    IF where = BEGIN_NEXT_PERIOD /\ line.periodical
    THEN goto_beginning_next_period_periodical(line, tm)
    ELSE LET ignored == IF where = BEGIN_NEXT_PERIOD THEN line.limits ELSE {}
             last    == LastMove(line, now, tm)
         IN  MovedTo(where, line, LeaveInterval(line, ignored, tm, last), last)

-----------------------------------------------------------------------------
(* set_next_exe(): a walk is at one of the labels of the function, with the *)
(* date reached so far and how much of it was already put back to its start *)
(* (has_changed).                                                           *)

FirstFrom(bits, i, n) == Min({n} \cup {k \in bits : i <= k /\ k < n})

\* tm becomes the date of the walk, the fields under it put back once.
Move(w, at, level, tm) ==
    IF w.changed >= level
    THEN [w EXCEPT !.at = at, !.tm = tm]
    ELSE [w EXCEPT !.at = at, !.changed = level,
                   !.tm = [tm EXCEPT !.mday = IF level >= 2 THEN 1 ELSE @,
                                     !.hour = 0, !.min = 0]]

SetMonth(line, year, w) ==
    LET i == FirstFrom(line.mons, w.tm.mon, 12)
    IN  CASE i = 12 /\ w.tm.year + 1 >= year + MAXYEAR_SCHEDULE_TIME ->
                [w EXCEPT !.at = "done", !.tm.year = @ + 1]
          [] i = 12 /\ w.tm.year + 1 < year + MAXYEAR_SCHEDULE_TIME ->
                Move(w, "month", 3, [w.tm EXCEPT !.year = @ + 1, !.mon = 0])
          [] i < 12 /\ i # w.tm.mon ->
                Move(w, "day", 2, [w.tm EXCEPT !.mon = i])
          [] OTHER -> [w EXCEPT !.at = "day"]

NextMonth(w) == Move(w, "month", 2, [w.tm EXCEPT !.mon = @ + 1, !.mday = 1])
ToMday(w, i) == IF i = w.tm.mday THEN [w EXCEPT !.at = "hour"]
                ELSE Move(w, "hour", 1, [w.tm EXCEPT !.mday = i])

\* dayand: the day of the month first, then the day of the week.
SetDayAnd(line, w) ==
    LET max == get_nb_mdays(w.tm.year, w.tm.mon)
        i   == FirstFrom(line.days, w.tm.mday, max + 1)
        day == ToMday(w, i)
    IN  IF i > max THEN NextMonth(w)
        ELSE IF set_wday(day.tm).wday \in line.dow THEN day
        ELSE [day EXCEPT !.at = "day",
                         !.tm = [@ EXCEPT !.mday = @ + 1, !.hour = 0, !.min = 0]]

\* The bits of cl_days are followed in memory by those of cl_mons, and the
\* loop of dayor tests a bit before it compares it with the end of the month.
DaysBit(line, i) == IF i < 32 THEN i \in line.days ELSE i - 32 \in line.mons

\* Bits 0 and 7 of cl_dow are both Sunday.
DowBit(line, wday, n) == (IF n = 0 THEN wday ELSE 1 + ((wday + n - 1) % 7)) \in line.dow

SetDayOr(line, w) ==
    LET max   == get_nb_mdays(w.tm.year, w.tm.mon)
        wday  == set_wday(w.tm).wday
        found == {i \in w.tm.mday .. Max({max + 1, w.tm.mday}) :
                    DaysBit(line, i) \/ DowBit(line, wday, i - w.tm.mday)}
    IN  IF found = {} THEN NextMonth(w) ELSE ToMday(w, Min(found))

SetDay(line, w) == IF line.dayor THEN SetDayOr(line, w) ELSE SetDayAnd(line, w)

\* Mutant: the minutes are not searched again in a later hour.
SetHour_minute_zero(line, w) ==
    LET i == FirstFrom(line.hrs, w.tm.hour, 24)
        m == IF i = w.tm.hour THEN FirstFrom(line.mins, w.tm.min, 60) ELSE 0
    IN  CASE i = 24 -> Move(w, "day", 1, [w.tm EXCEPT !.mday = @ + 1, !.hour = 0])
          [] i < 24 /\ m = 60 ->
                [w EXCEPT !.tm = [@ EXCEPT !.hour = i + 1, !.min = 0]]
          [] OTHER -> [w EXCEPT !.at = "done", !.tm = [@ EXCEPT !.hour = i, !.min = m]]

\* Mutant: nor put back to the first of the hour.
SetHour_same_minute(line, w) ==
    LET i == FirstFrom(line.hrs, w.tm.hour, 24)
        m == FirstFrom(line.mins, w.tm.min, 60)
    IN  CASE i = 24 -> Move(w, "day", 1, [w.tm EXCEPT !.mday = @ + 1, !.hour = 0])
          [] i < 24 /\ m = 60 ->
                [w EXCEPT !.tm = [@ EXCEPT !.hour = i + 1, !.min = 0]]
          [] OTHER -> [w EXCEPT !.at = "done", !.tm = [@ EXCEPT !.hour = i, !.min = m]]

SetHour(line, w) ==
    LET i == FirstFrom(line.hrs, w.tm.hour, 24)
        m == FirstFrom(line.mins, IF i = w.tm.hour THEN w.tm.min ELSE 0, 60)
    IN  CASE i = 24 -> Move(w, "day", 1, [w.tm EXCEPT !.mday = @ + 1, !.hour = 0])
          [] i < 24 /\ m = 60 ->
                [w EXCEPT !.tm = [@ EXCEPT !.hour = i + 1, !.min = 0]]
          [] OTHER -> [w EXCEPT !.at = "done", !.tm = [@ EXCEPT !.hour = i, !.min = m]]

FirstMatch(line, tm) ==
    LET walk[w \in [at : {"month", "day", "hour", "done"}, changed : 0 .. 3, tm : Tm]] ==
            CASE w.at = "month" -> walk[SetMonth(line, tm.year, w)]
              [] w.at = "day"   -> walk[SetDay(line, w)]
              [] w.at = "hour"  -> walk[SetHour(line, w)]
              [] w.at = "done"  -> w.tm
    IN  walk[[at |-> "month", changed |-> 0, tm |-> tm]]

\* Mutant: a %-line is not moved to its next period.
SearchFrom_this_period(line, option, base, now) ==
    [localtime(line.zone, base - Hour * line.tzdiff) EXCEPT !.min = @ + 1, !.sec = 0]

\* The local time the search starts from.
SearchFrom(line, option, base, now) ==
    LET ft    == localtime(line.zone, base - Hour * line.tzdiff)
        ftime == IF FirstSleep > 0 \/ option = STD \/ line.runfreq # 1
                 THEN [ft EXCEPT !.min = @ + 1, !.sec = 0]
                 ELSE ft
    IN  IF line.runfreq = 1 /\ option \notin {NO_GOTO, NO_GOTO_LOG}
        THEN move_time_to(BEGIN_NEXT_PERIOD, line, now, ftime)
        ELSE ftime

EndOfInterval(line, now, t) ==
    mktime_no_dst(line.zone,
                  move_time_to(END_OF_INTERVAL, line, now, localtime(line.zone, t)))

\* The draw is the share (out of 4) of the interval, or of the jitter, that
\* rand() adds.
Delayed(line, now, draw, begin) ==
    begin + CASE line.random ->
                    (Max({EndOfInterval(line, now, begin) - begin, 0}) * draw) \div 4
              [] ~line.random /\ line.runfreq # 1 -> (line.jitter * draw) \div 4
              [] OTHER -> 0

\* The time a line of time and date is given, before it is checked.
Candidate(line, option, base, now, draw) ==
    LET from == FirstMatch(line, SearchFrom(line, option, base, now))
    IN  Delayed(line, now, draw, mktime_no_dst(line.zone, from)) + Hour * line.tzdiff

-----------------------------------------------------------------------------
(* What the search should find: the first minute shown by the clocks, from  *)
(* that of tm on, at which the line may run, within Horizon days; as a      *)
(* WallTime.                                                                *)

FirstMatchFrom(line, tm, Horizon) ==
    LET from  == WallTime(tm)
        times == {Hour * h + Minute * m : h \in line.hrs, m \in line.mins}
        ok(d) == /\ Matches(line, {"mins", "hrs"}, Shown(Day * d))
                 /\ \E s \in times : Day * d + s >= from
        today == from \div Day
        d     == Min({n \in today .. today + Horizon : ok(n)})
    IN  Min({t \in {Day * d + s : s \in times} : t >= from})

=============================================================================
