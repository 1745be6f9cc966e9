----------------------------- MODULE MCSchedule -----------------------------
(* Fcrontabs and instants on which Schedule is checked.                    *)
EXTENDS Schedule

Utc    == [dst_from |-> 0, dst_to |-> 0]
\* Summer time of 2024: from March 31, 01:00 to October 27, 01:00 UTC.
Europe == [dst_from |-> 765162000, dst_to |-> 783306000]

Every == [mins |-> 0 .. 59, hrs |-> 0 .. 23, days |-> 1 .. 31, mons |-> 0 .. 11,
          dow |-> 0 .. 7, dayor |-> FALSE, runfreq |-> 0, limits |-> {},
          periodical |-> FALSE, mid |-> FALSE, random |-> FALSE, jitter |-> 0,
          zone |-> Utc, tzdiff |-> 0, opt |-> {"td"}, first |-> 0, timefreq |-> 0,
          until |-> 0]
At(m, h)  == [Every EXCEPT !.mins = m, !.hrs = h]
Freq(s)   == [Every EXCEPT !.opt = {}, !.first = s, !.timefreq = s]
Keyword(f, m) == [Every EXCEPT !.runfreq = 1, !.periodical = TRUE, !.limits = f, !.mid = m]

\* In January a line with dayor may wait for a "32nd" (SetDayOr).
NotJanuary == 1 .. 11

MCLineOf ==
  [date    |-> [At({0, 40}, {1, 3, 23}) EXCEPT !.days = {1, 29, 31}, !.zone = Europe,
                      !.jitter = 4, !.opt = {"td", "runatreboot", "notice_notrun"}],
   dow     |-> [At({20, 50}, 0 .. 23) EXCEPT !.dow = {0, 3, 7}, !.runfreq = 2,
                                             !.opt = {"td", "bootrun"}],
   hourly  |-> [Keyword({"hrs"}, FALSE) EXCEPT !.mins = 5 .. 20 \cup {50},
                      !.opt = {"td", "lavg", "strict", "notice_notrun"}],
   evening |-> [At(0 .. 59, {22, 23, 1}) EXCEPT !.runfreq = 1, !.limits = {"mins"},
                      !.random = TRUE, !.opt = {"td", "notice_notrun"}],
   nightly |-> [Keyword({"days"}, TRUE) EXCEPT !.mins = {30}, !.hrs = {1, 13, 23}],
   uptime  |-> Freq(1700),
   dayor   |-> [At({10, 40}, {0, 1, 23}) EXCEPT !.days = {29}, !.dow = {1}, !.dayor = TRUE,
                                                !.mons = NotJanuary],
   resume  |-> [Freq(TIME_T_MAX) EXCEPT !.first = 0, !.opt = {"runatresume", "runonce"}]]
MCLines == DOMAIN MCLineOf
MCVersions == {{"date", "hourly", "dayor"}, {"dow", "evening", "uptime", "resume"}, {"nightly", "hourly", "dow"}}
MCStarts == {765156617, 783300617, 762475217, 789000017}
=============================================================================
