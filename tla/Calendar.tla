------------------------------ MODULE Calendar ------------------------------
(***************************************************************************)
(* Dates as fcron computes them (database.c): month lengths, days of the    *)
(* week, and the conversions between a time_t and a broken-down local time. *)
(*                                                                         *)
(* A time_t is a number of seconds since 2000-01-01 00:00 UTC: the origin  *)
(* set_wday() counts from, which keeps the dates of this century within     *)
(* TLC's integers.  A broken-down time is a struct tm: year (in full, where *)
(* C keeps year - 1900), mon in 0..11, mday, hour, min, sec, wday with 0    *)
(* for Sunday, and isdst.  A zone gives the two instants between which its  *)
(* clocks are one hour ahead of UTC; outside of them they show UTC.         *)
(***************************************************************************)
EXTENDS Integers, FiniteSets, FiniteSetsExt

Minute == 60
Hour == 60 * Minute
Day == 24 * Hour

is_leap_year(year) == year % 4 = 0 /\ (year % 100 # 0 \/ year % 400 = 0)

get_nb_mdays(year, mon) ==
    CASE mon = 1 -> IF is_leap_year(year) THEN 29 ELSE 28
      [] mon # 1 /\ mon <= 6 -> IF mon % 2 = 0 THEN 31 ELSE 30
      [] OTHER -> IF mon % 2 = 0 THEN 30 ELSE 31

\* The years whose times fit in TLC's integers.
Years == 2000 .. 2067

\* The days from 2000-01-01 to the first day of a month, or of the month past
\* December: set_wday()'s two counting loops.
DaysBefore ==
    [year \in Years, mon \in 0 .. 12 |->
        365 * (year - 2000)
        + Cardinality({y \in 2000 .. year - 1 : is_leap_year(y)})
        + MapThenSumSet(LAMBDA m : get_nb_mdays(year, m), 0 .. mon - 1)]

\* 2000-01-01 was a Saturday.
set_wday(tm) ==
    [tm EXCEPT !.wday = (DaysBefore[tm.year, tm.mon] + tm.mday - 1 + 6) % 7]

InDst(zone, t) == zone.dst_from <= t /\ t < zone.dst_to

\* The year and the month of the day that has this number.
YearOf(days) == Max({y \in 2000 + days \div 366 .. 2000 + days \div 365 :
                        DaysBefore[y, 0] <= days})
MonthOf(year, days) == Max({m \in 0 .. 11 : DaysBefore[year, m] <= days})

\* What the clocks show, wall seconds after 2000-01-01 00:00.
DateOf(year, mon, days, wall, dst) ==
    set_wday([year  |-> year,
              mon   |-> mon,
              mday  |-> days - DaysBefore[year, mon] + 1,
              hour  |-> (wall % Day) \div Hour,
              min   |-> (wall % Hour) \div Minute,
              sec   |-> wall % Minute,
              wday  |-> 0,
              isdst |-> dst])
DateIn(year, days, wall, dst) == DateOf(year, MonthOf(year, days), days, wall, dst)
Date(wall, dst) == DateIn(YearOf(wall \div Day), wall \div Day, wall, dst)

localtime(zone, t) == Date(IF InDst(zone, t) THEN t + Hour ELSE t, InDst(zone, t))

\* What the clocks show, as seconds since 2000-01-01 00:00.  The fields may
\* exceed their range (minute 60, day 32): mktime() carries them over.
WallTime(tm) ==
    Day * (DaysBefore[tm.year, tm.mon] + tm.mday - 1)
    + Hour * tm.hour + Minute * tm.min + tm.sec

\* mktime() takes isdst at its word: a time of the other season, or of the
\* hour the clocks skip, comes out one hour off.
mktime(tm) == IF tm.isdst THEN WallTime(tm) - Hour ELSE WallTime(tm)

\* mktime(), corrected when the season is not the one tm.isdst says.  The C
\* function also normalizes *t: its callers here continue from localtime() of
\* the result.
Corrected(zone, tm, ti1, ti2) ==
    IF localtime(zone, ti2).hour = tm.hour \/ ti1 < ti2 THEN ti2 ELSE ti1

mktime_no_dst(zone, tm) ==
    IF InDst(zone, mktime(tm)) = tm.isdst THEN mktime(tm)
    ELSE Corrected(zone, tm, mktime(tm), mktime([tm EXCEPT !.isdst = ~tm.isdst]))
=============================================================================
