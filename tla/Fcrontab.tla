------------------------------ MODULE Fcrontab ------------------------------
(***************************************************************************)
(* A session of fcrontab (fcrontab.c): a user installs a file, edits or     *)
(* reinstalls the fcrontab, lists or removes it.  What fcrontab does to the *)
(* spool directory while the daemon and other fcrontabs run is the subject  *)
(* of Spool; here is what it makes of the text it is given, and what the    *)
(* daemon will read back.                                                   *)
(***************************************************************************)
EXTENDS SaveFormat

CONSTANTS Files,        \* the texts a user may give, as sequences of lines
          Edits,        \* the texts an editor may leave
          Olds,         \* the texts that may be installed before
          Whos,         \* who runs fcrontab, and for whom: [runas, privileged]
          Commands,     \* what it is run for, and its option -n: [name, n]
          Env,          \* what else may happen: a subset of EnvKinds
          MaxEdits      \* how many times the editor is run

EnvKinds == {"abnormal", "same_second", "disk_full"}

ASSUME FcrontabAssumption ==
    /\ Env \subseteq EnvKinds /\ MaxEdits \in Nat
    /\ \A w \in Whos : w.runas \in Users /\ (w.runas = ROOTNAME => w.privileged)
    /\ Commands \subseteq [name : {"file", "edit", "reinstall", "list", "remove"},
                           n : BOOLEAN]

ASSUME TextsAssumption == \A f \in Files \cup Edits \cup Olds : IsText(f)

VARIABLES
    who, cmd,
    at,         \* where fcrontab is
    temp,       \* the text it works on
    todo,       \* the lines that read_file() has still to read
    conf,       \* what it has understood so far
    file_base,  \* the files it has read, the last one first
    correction,
    edits,
    wanted,     \* the text the user wants to be installed, as {text}, or {}
    unseen,     \* the user has changed it and fcrontab could not see it
    dir,        \* the user's files in the spool directory, by kind
    need_sig,   \* fcronsighup is to be run
    status      \* the exit status

session == <<who, cmd>>
reading == <<temp, todo, conf, file_base>>
editing == <<correction, edits, wanted, unseen>>
spool   == <<dir, need_sig>>
vars == <<session, at, reading, editing, spool, status>>

\* Files of the directory.
Put(files, name, contents) ==
    [n \in DOMAIN files \cup {name} |-> IF n = name THEN contents ELSE files[n]]
Drop(files, name) == [n \in DOMAIN files \ {name} |-> files[n]]

Saved(c) == write_file_to_disk(who.runas, c)

\* The daemon has not yet taken what was last installed, or it has.
Init ==
    /\ who \in Whos /\ cmd \in Commands
    /\ at = "start"
    /\ temp = <<>> /\ todo = <<>> /\ conf = NewConf(who) /\ file_base = <<>>
    /\ correction = FALSE /\ edits = 0 /\ unseen = FALSE
    /\ \/ dir = <<>> /\ wanted = {}
       \/ \E old \in Olds :
            /\ wanted = {old}
            /\ dir \in {[orig |-> old], [orig |-> old, new |-> Saved(read_file(who, old))]}
    /\ need_sig = FALSE /\ status = "none"

Exit(s) == at' = "exit" /\ status' = s

-----------------------------------------------------------------------------
(* read_file() on the text of temp                                          *)

StartRead(file) ==
    /\ temp' = file /\ todo' = file
    /\ conf' = NewConf(who)
    /\ at' = "read"
    /\ UNCHANGED <<file_base, status>>

ReadNext ==
    /\ at = "read" /\ todo # <<>> /\ GoesOn(who, conf)
    /\ conf' = ReadLine(who, conf, Head(todo))
    /\ todo' = Tail(todo)
    /\ IF conf'.crashed THEN Exit("SIGSEGV") ELSE UNCHANGED <<at, status>>
    /\ UNCHANGED <<session, temp, file_base, editing, spool>>

\* With errors, only an edition lets the user choose.
EndRead ==
    /\ at = "read"
    /\ todo = <<>> \/ ~GoesOn(who, conf)
    /\ file_base' = <<conf>> \o file_base
    /\ at' = IF cmd.name = "edit" /\ conf.nc THEN "ask" ELSE "write"
    /\ UNCHANGED <<session, temp, todo, conf, editing, spool, status>>

-----------------------------------------------------------------------------
(* make_file(), install_stdin(), reinstall(), list_file()                   *)

StartFile ==
    /\ at = "start" /\ cmd.name = "file"
    /\ \E f \in Files : StartRead(f) /\ wanted' = {f}
    /\ UNCHANGED <<session, correction, edits, unseen, spool>>

\* The fcrontab is copied to stdin, and installed from there.
StartReinstall ==
    /\ at = "start" /\ cmd.name = "reinstall"
    /\ IF "orig" \in DOMAIN dir THEN StartRead(dir.orig)
       ELSE Exit("ERR") /\ UNCHANGED reading
    /\ UNCHANGED <<session, editing, spool>>

List ==
    /\ at = "start" /\ cmd.name = "list"
    /\ Exit("OK")
    /\ UNCHANGED <<session, reading, editing, spool>>

\* remove_fcrontab(), which keeps the source file when rm_orig is 0.
WithoutPrevious(files) == Put(Drop(files, "new"), "rm", <<>>)

RemoveFcrontab ==
    /\ at = "start" /\ cmd.name = "remove"
    /\ dir' = Drop(WithoutPrevious(dir), "orig")
    /\ wanted' = {} /\ need_sig' = TRUE
    /\ Exit("OK")
    /\ UNCHANGED <<session, reading, correction, edits, unseen>>

-----------------------------------------------------------------------------
(* edit_file()                                                              *)

StartEdit ==
    /\ at = "start" /\ cmd.name = "edit"
    /\ at' = "editor"
    /\ temp' = IF "orig" \in DOMAIN dir THEN dir.orig ELSE <<>>
    /\ UNCHANGED <<session, todo, conf, file_base, editing, spool, status>>

\* The editor has ended.  The file counts as changed when its modification
\* time, in seconds, is later than when the editor was started.
Reads(later) == later \/ correction

Edited(file, later) ==
    /\ at = "editor" /\ edits < MaxEdits
    /\ edits' = edits + 1
    /\ wanted' = IF later \/ file # temp THEN {file} ELSE wanted
    /\ IF Reads(later)
       THEN StartRead(file) /\ correction' = FALSE /\ UNCHANGED unseen
       ELSE /\ Exit("OK")
            /\ unseen' = (file # temp)
            /\ UNCHANGED <<reading, correction>>
    /\ UNCHANGED <<session, spool>>

Save      == \E f \in Edits : Edited(f, TRUE)
Quit      == Edited(temp, FALSE)
SaveFast  == "same_second" \in Env /\ \E f \in Edits : Edited(f, FALSE)

EditorFails ==
    /\ at = "editor" /\ "abnormal" \in Env
    /\ Exit("ERR")
    /\ UNCHANGED <<session, reading, editing, spool>>

\* "Ignore [i] or Correct [c] ?"
Ignore ==
    /\ at = "ask"
    /\ at' = "write"
    /\ UNCHANGED <<session, reading, editing, spool, status>>

\* Mutant: the file with the errors is left in the list.
delete_file_not(base) == base

delete_file(base) == Tail(base)

Correct ==
    /\ at = "ask" /\ edits < MaxEdits
    /\ at' = "editor"
    /\ correction' = TRUE
    /\ file_base' = delete_file(file_base)
    /\ UNCHANGED <<session, temp, todo, conf, edits, wanted, unseen, spool, status>>

-----------------------------------------------------------------------------
(* write_file()                                                             *)

ignore_prev == cmd.n \/ cmd.name = "reinstall"

\* save_file() saves every file of the list under the same name.
save_file(files) == Put(files, "new", Saved(Last(file_base)))

\* The text is copied first, then what the daemon is to read is saved; each may
\* fail, and what was done before stays.
Written(copied, saved) ==
    LET empty == Head(file_base).lines = <<>>
        dir1  == IF ignore_prev THEN WithoutPrevious(dir) ELSE dir
        dir2  == IF copied THEN Put(dir1, "orig", temp) ELSE dir1
        ok    == copied /\ (empty \/ saved)
    IN  /\ dir' = CASE ~ok            -> dir2
                    [] ok /\ empty    -> WithoutPrevious(dir2)
                    [] ok /\ ~empty   -> save_file(dir2)
        /\ need_sig' = (ok \/ ignore_prev)
        /\ Exit(IF ok THEN "OK" ELSE "ERR")
        /\ UNCHANGED <<session, reading, editing>>

write_file == at = "write" /\ Written(TRUE, TRUE)
CopyFails  == at = "write" /\ "disk_full" \in Env /\ Written(FALSE, FALSE)
SaveFails  == at = "write" /\ "disk_full" \in Env /\ Head(file_base).lines # <<>>
                /\ Written(TRUE, FALSE)

Next ==
    \/ StartFile \/ StartReinstall \/ List \/ RemoveFcrontab
    \/ StartEdit \/ Save \/ Quit \/ SaveFast \/ EditorFails \/ Ignore \/ Correct
    \/ ReadNext \/ EndRead
    \/ write_file \/ CopyFails \/ SaveFails

Spec == Init /\ [][Next]_vars

-----------------------------------------------------------------------------
(* What the documentation says of a line.  A line of the text is known by   *)
(* its command.                                                             *)

LineOf(cl) == CHOOSE l \in ToSet(temp) : l.cmd = cl.shell
Last_conf  == Head(file_base)

\* The values of a field, as one writes them.
Values == [mins |-> 0 .. 59, hrs |-> 0 .. 23, days |-> 1 .. 31, mons |-> 1 .. 12,
           dow |-> 0 .. 6]

\* Those a line has, as one writes them.
Has(cl, f) ==
    IF f = "mons" THEN {m + 1 : m \in cl.mons} ELSE cl[f] \cap Values[f]

Same(f, v, n) == v = n \/ (f = "dow" /\ v = n % 7)

\* v is of the item: a range includes its ends, goes upwards and starts again
\* after the last value.
IsOf(v, item, f) ==
    LET n == Cardinality(Values[f])
        first == IF f \in {"days", "mons"} THEN 1 ELSE 0
    IN  /\ CASE item.shape = "one" -> Same(f, v, item.from)
             [] item.shape = "all" -> (v - first) % item.step = 0
             [] item.shape = "range" /\ item.from <= item.to ->
                    \E k \in item.from .. item.to :
                        Same(f, v, k) /\ (k - item.from) % item.step = 0
             [] item.shape = "range" /\ item.from > item.to ->
                    /\ (v - item.from) % n <= (item.to - item.from) % n
                    /\ ((v - item.from) % n) % item.step = 0
        /\ item.shape # "one" => \A k \in DOMAIN item.rm : ~Same(f, v, item.rm[k])

\* What the code is known to read in another way: the name of a month, month 0,
\* a range from a number to itself, and skips in the days or over the end of
\* the week.
Plain(item, f) ==
    /\ f = "mons" => ~item.named /\ 0 \notin Ends(item)
    /\ item.shape = "range" =>
          /\ item.from # item.to
          /\ item.step > 1 /\ f \in {"days", "dow"} => item.from < item.to
    /\ f = "days" /\ item.shape = "all" => item.step = 1

\* The fields of a line that are taken as fields, and not as a piece of the
\* command.
Given(l, cl) ==
    IF l.kind = "arys" THEN 1 .. 5
    ELSE IF l.kind = "period" THEN 1 .. Needed(cl)
    ELSE {}

\* Every installed line runs at the minutes, hours, days and months that its
\* fields name, and a field that is not given leaves nothing out
\* (fcrontab.5.sgml:175-238, read_field() and R_field()).
FieldsMean ==
    at = "write" =>
        \A j \in DOMAIN Last_conf.lines :
            LET cl == Last_conf.lines[j]
                l  == LineOf(cl)
            IN  l.kind \in {"arys", "period"} =>
                  \A k \in 1 .. 5 :
                    LET f == FieldNames[k]
                    IN  IF k \in Given(l, cl)
                        THEN (\A i \in DOMAIN l.fields[k] : Plain(l.fields[k][i], f))
                                => Has(cl, f) = {v \in Values[f] : \E i \in DOMAIN l.fields[k] :
                                                    IsOf(v, l.fields[k][i], f)}
                        ELSE Has(cl, f) = Values[f]

\* Two errors are known not to be told: a number with two dots, a step of 0.
Untold(item) ==
    \/ item.shape \in {"one", "range"} /\ Dotted \in Ends(item)
    \/ /\ item.shape \in {"all", "range"}
       /\ item.step \in {0, Dotted} \/ Dotted \in ToSet(item.rm)

Silent(l) == \E k \in DOMAIN l.fields : \E i \in DOMAIN l.fields[k] : Untold(l.fields[k][i])

\* A file that is read up to its end without need_correction being set has all
\* its jobs installed: an entry is never lost unless the user was told to
\* correct the file, but for the two errors above (read_freq(), read_arys(),
\* read_period(), read_shortcut()).
Reported ==
    at = "write" /\ todo = <<>> /\ ~Last_conf.nc =>
        \A l \in ToSet(temp) :
            IsEntry(l) /\ ~(l.kind \in {"arys", "period"} /\ Silent(l)) =>
                \E j \in DOMAIN Last_conf.lines : Last_conf.lines[j].shell = l.cmd

\* The day of the month d and the day of the week w are in the intervals.
DayIn(cl, d, w) ==
    LET day  == "days" \in cl.limits \/ d \in cl.days
        wday == "dow" \in cl.limits \/ w \in cl.dow
    IN  IF "dayand" \in cl.opt THEN day /\ wday ELSE day \/ wday

\* The line can only come from a %-line.
FromPeriod(cl) == \A l \in ToSet(temp) : l.cmd = cl.shell => l.kind = "period"

\* A %-line is to run once in every interval that its fields describe: one that
\* is installed has an end to its intervals, or the daemon would never find the
\* next one.  The days "1-31" are known to be taken for an interval.
IntervalFound ==
    at = "write" =>
        \A j \in DOMAIN Last_conf.lines :
            LET cl == Last_conf.lines[j]
            IN  FromPeriod(cl) /\ ~cl.periodical =>
                    \/ \E f \in {"mins", "hrs", "mons"} \ cl.limits : Has(cl, f) # Values[f]
                    \/ \E d \in 1 .. 31, w \in 0 .. 6 : ~DayIn(cl, d, w)
                    \/ cl.days = 1 .. 31

\* When fcrontab says that all went well, the text the user wanted is the one
\* that is kept, the daemon is told to read again, and what it will read is
\* what that text says, however many times it was corrected; a change that the
\* file's time does not show is the one that is lost.
InstalledIsWanted ==
    status = "OK" /\ cmd.name # "list" /\ ~unseen =>
        /\ wanted = IF "orig" \in DOMAIN dir THEN {dir.orig} ELSE {}
        /\ need_sig =>
              \/ /\ "new" \in DOMAIN dir
                 /\ dir.new = Saved(read_file(who, dir.orig))
              \/ /\ "new" \notin DOMAIN dir /\ "rm" \in DOMAIN dir
                 /\ "orig" \in DOMAIN dir => read_file(who, dir.orig).lines = <<>>

\* The parts of a line that are used.
InUse(cl) ==
    {"shell", "opt", "limits", "periodical", "mid", "runas", "mailfrom", "mailto", "until",
     "nice", "jitter", "tz", "runfreq"}
    \cup (IF "lavg" \in cl.opt THEN {"lavg"} ELSE {})
    \cup (IF cl.runfreq > 0 THEN {"remain"} ELSE {})
    \cup (IF "td" \in cl.opt THEN {"mins", "hrs", "days", "mons", "dow"}
          ELSE {"first", "timefreq"})

\* The daemon reads back every line, variable and time difference that fcrontab
\* has understood, in the order of the text, but for the user and the addresses
\* that it does not trust (save.c and conf.c agree).
RoundTrip ==
    "new" \in DOMAIN dir /\ status = "OK" /\ need_sig =>
        LET r == ReadSaved(who.runas, dir.new)
            c == Last_conf
            given(cl) == [cl EXCEPT
                !.runas    = IF who.runas = ROOTNAME THEN @ ELSE who.runas,
                !.mailfrom = IF @ \in UnsafeAddresses THEN "" ELSE @,
                !.mailto   = IF @ \in UnsafeAddresses THEN who.runas ELSE @]
        IN  /\ ~r.ignored /\ r.user = who.runas /\ r.env = c.env /\ r.tzdiff = c.tzdiff
            /\ Len(r.lines) = Len(c.lines)
            /\ \A j \in DOMAIN c.lines :
                  LET cl == c.lines[Len(c.lines) + 1 - j]
                  IN  \A p \in InUse(cl) : r.lines[j][p] = given(cl)[p]

=============================================================================
