------------------------------ MODULE FileConf ------------------------------
(***************************************************************************)
(* How fcrontab understands a fcrontab (fileconf.c).  A line is given by    *)
(* what its words say, whatever their wording:                              *)
(*   kind     "comment", "toolong", "env", "opts" (a line that begins by !),*)
(*            "shortcut", "freq" (@), "arys" (& or none) or "period" (%)    *)
(*   extra    the lines it goes on over, each after a "\"                   *)
(*   opts     its options, as [name, arg, valid, closed]: arg has the values*)
(*            between the brackets, if any, valid says that they can be     *)
(*            read, closed that the bracket is closed                       *)
(*   num      the first delay or the runfreq, as <<>> or <<n>>              *)
(*   freq     the delay of an @-line in seconds, 0 if it cannot be read     *)
(*   fields   up to five lists of items, see read_field                     *)
(*   user     the user it names before its command, or ""                   *)
(*   cmd      its command, or what follows the options of a "!", or ""      *)
(* and, for kind "env", name, val and form; for "shortcut", word and space. *)
(***************************************************************************)
EXTENDS Integers, Sequences, FiniteSets, SequencesExt

CONSTANTS Users,        \* the names of the passwd file
          MAXENTRIES,   \* config.h
          MAXENTRIES_ROOT,
          LONG_MAX

ASSUME LongAssumption == LONG_MAX \in Nat \ {0}

ROOTNAME == "root"
USHRT_MAX == 65535
UCHAR_MAX == 255

\* A loop: what comes of first by the steps 1, 2, ... n, after each of them.
Loop(Step(_, _), first, n) ==
    LET after[k \in 0 .. n] == IF k = 0 THEN first ELSE Step(after[k - 1], k)
    IN  after

-----------------------------------------------------------------------------
(* read_field(): an item is "*", a single number or a range, with a step,   *)
(* less the numbers of rm; or "bad".                                        *)

MaxOf == [mins |-> 59, hrs |-> 23, days |-> 31, mons |-> 12, dow |-> 7]
FieldNames == <<"mins", "hrs", "days", "mons", "dow">>

\* Months go from 1 to 12 in a fcrontab, and from 0 to 11 in memory.
Shift(max)   == IF max = 12 THEN 1 ELSE 0
HighBit(max) == IF max = 12 THEN 11 ELSE max

\* The index get_num() finds for a name is that of an array, from 0: a month
\* that is written by its name is one too low once shifted.
get_num(n, named, max) == n - Shift(max)

\* A number with two dots, such as 1.2.3: get_num() fails at the second one
\* without setting need_correction.
Dotted == -1

\* An error is "told" when need_correction is set, "silent" when it is not.
NumError(n, max) == IF n = Dotted THEN "silent" ELSE IF n > max THEN "told" ELSE "no"

Steps(start, stop, step, last) ==
    LET high == IF start < stop THEN stop ELSE stop + last + 1
    IN  {IF i > last /\ start >= stop THEN i - (last + 1) ELSE i :
            i \in {j \in start .. high : (j - start) % step = 0}}

\* Both 0 and 7 are Sunday.
Sundays(b) == IF b \cap {0, 7} # {} THEN {0, 7} ELSE {}

\* Mutant: the other Sunday is kept.
Removed_one_sunday(item, max) ==
    {get_num(item.rm[k], item.named, max) : k \in 1 .. Len(item.rm)}

Removed(item, max) ==
    LET rm == {get_num(item.rm[k], item.named, max) : k \in 1 .. Len(item.rm)}
    IN  IF max = 7 THEN rm \cup Sundays(rm) ELSE rm

Ends(item) == (IF item.shape = "all" THEN {} ELSE {item.from})
              \cup (IF item.shape = "range" THEN {item.to} ELSE {})

\* The values to remove are read up to the first error.
RmError(rm, max) ==
    IF \A k \in DOMAIN rm : NumError(rm[k], max) = "no" THEN "no"
    ELSE IF \E k \in DOMAIN rm : rm[k] = Dotted /\ \A j \in 1 .. k : rm[j] <= max
    THEN "silent"
    ELSE "told"

First(error, next) == IF error # "no" THEN error ELSE next

\* The first error of an item.  A step of 0 is not told either.
ItemError(item, max) ==
    LET step == IF item.step = 0 THEN "silent" ELSE NumError(item.step, max)
        rest == First(step, RmError(item.rm, max))
        from == NumError(item.from, max)
    IN  CASE item.shape = "bad"   -> "told"
          [] item.shape = "one"   -> from
          [] item.shape = "all"   -> rest
          [] item.shape = "range" -> First(from, First(NumError(item.to, max), rest))

ReadItem(bits, item, max) ==
    LET start == IF item.shape = "all" THEN 0 ELSE get_num(item.from, item.named, max)
        stop  == IF item.shape = "all" THEN HighBit(max)
                 ELSE get_num(item.to, item.named, max)
    IN  IF item.shape = "one" THEN bits \cup {start}
        ELSE (bits \cup Steps(start, stop, item.step, HighBit(max))) \ Removed(item, max)

\* The first item that cannot be read ends the field.
OneItem(acc, item, max) ==
    IF acc.error # "no" THEN acc
    ELSE IF ItemError(item, max) # "no" THEN [acc EXCEPT !.error = ItemError(item, max)]
    ELSE [acc EXCEPT !.bits = ReadItem(@, item, max)]

read_field(bits, items, max) ==
    LET r == Loop(LAMBDA acc, k : OneItem(acc, items[k], max),
                  [bits |-> bits, error |-> "no"], Len(items))[Len(items)]
    IN  IF max = 7 THEN [r EXCEPT !.bits = @ \cup Sundays(@)] ELSE r

\* R_field(): bit -1 of the months is the last bit of the days, which come
\* before them in memory.
R_field(acc, name, items) ==
    LET cl   == acc.cl
        low  == IF name = "mons" /\ 31 \in cl.days THEN {-1} ELSE {}
        r    == read_field(cl[name] \cup low, items, MaxOf[name])
        days == (cl.days \ {31}) \cup (IF -1 \in r.bits THEN {31} ELSE {})
    IN  IF acc.error # "no" THEN acc
        ELSE [error |-> r.error,
              cl    |-> IF name = "mons"
                        THEN [cl EXCEPT !.mons = r.bits \ {-1}, !.days = days]
                        ELSE [cl EXCEPT ![name] = r.bits]]

\* The needed fields are read, an absent one being a piece of the command.
OneField(acc, fields, k) ==
    IF k > Len(fields) THEN [acc EXCEPT !.error = IF @ = "no" THEN "told" ELSE @]
    ELSE R_field(acc, FieldNames[k], fields[k])

ReadFields(cl, fields, needed) ==
    Loop(LAMBDA acc, k : OneField(acc, fields, k), [cl |-> cl, error |-> "no"], needed)[needed]

-----------------------------------------------------------------------------
(* Options                                                                  *)

\* The options of a line, as the is_...() tests of option.h give them.
DefaultOpt == {"td", "land", "dayand", "mail", "serial_sev", "strict"}

init_default_line(who) ==
    [shell |-> "", opt |-> DefaultOpt, limits |-> {}, periodical |-> FALSE, mid |-> FALSE,
     runfreq |-> 0, remain |-> 0, first |-> 0, timefreq |-> 0, until |-> 0,
     nice |-> 0, jitter |-> 0, lavg |-> <<0, 0, 0>>, tz |-> "", mailfrom |-> "",
     mailto |-> who.runas, runas |-> who.runas,
     mins |-> {}, hrs |-> {}, days |-> {}, mons |-> {}, dow |-> {}]

With(opt, flag, v) == IF v THEN opt \cup {flag} ELSE opt \ {flag}

Straight ==
    [serial |-> "serial", exesev |-> "exe_sev", bootrun |-> "bootrun",
     rebootreset |-> "rebootreset", runatreboot |-> "runatreboot",
     runatresume |-> "runatresume", runonce |-> "runonce", strict |-> "strict",
     noticenotrun |-> "notice_notrun", lavgand |-> "land", nolog |-> "nolog",
     erroronlymail |-> "erroronlymail", dayand |-> "dayand", random |-> "random",
     volatile |-> "volatile", stdout |-> "stdout"]
Reversed ==
    [serialonce |-> "serial_sev", lavgonce |-> "lavg_sev", lavgor |-> "land",
     dayor |-> "dayand"]
Booleans == DOMAIN Straight \cup DOMAIN Reversed \cup {"mail", "forcemail"}

SetBoolean(opt, name, v) ==
    CASE name \in DOMAIN Straight -> With(opt, Straight[name], v)
      [] name \in DOMAIN Reversed -> With(opt, Reversed[name], ~v)
      [] name = "mail" -> IF v THEN opt \cup {"mail"}
                          ELSE opt \ {"mail", "mailzerolength"}
      [] name = "forcemail" -> IF v THEN opt \cup {"mail", "mailzerolength"}
                               ELSE opt \ {"mailzerolength"}

\* An option with a number: whether the number is accepted.
NumberOk(name, n) ==
    CASE name = "tzdiff"  -> n \in -24 .. 24
      [] name = "first"   -> TRUE
      [] name = "until"   -> n > 0
      [] name = "runfreq" -> n \in 2 .. USHRT_MAX
      [] name = "nice"    -> n \in -20 .. 20
      [] OTHER            -> n <= UCHAR_MAX      \* jitter, lavg1, lavg5, lavg15

LavgIndex == [lavg1 |-> 1, lavg5 |-> 2, lavg15 |-> 3]
Numeric == {"tzdiff", "first", "until", "runfreq", "nice", "jitter"}
             \cup DOMAIN LavgIndex
Strings  == {"timezone", "mailfrom", "mailto", "runas"}

\* Keywords of a %-line: the fields below the limit, or the period.
Limits == [mins |-> {}, hours |-> {"mins"}, days |-> {"mins", "hrs"},
           mons |-> {"mins", "hrs", "days"}, dow |-> {"mins", "hrs", "days", "mons"}]
Period == [hourly |-> "hrs", daily |-> "days", monthly |-> "mons", weekly |-> "dow",
           midhourly |-> "hrs", middaily |-> "days", nightly |-> "days",
           midmonthly |-> "mons", midweekly |-> "dow"]
Mids   == {"midhourly", "middaily", "nightly", "midmonthly", "midweekly"}

Handle_err(acc) == [acc EXCEPT !.nc = TRUE, !.ok = FALSE]

SetLavg(cl, lavg) ==
    [cl EXCEPT !.lavg = lavg, !.opt = With(@, "lavg", lavg # <<0, 0, 0>>)]

IntegerOption(who, acc, o) ==
    LET n  == o.arg[1]
        cl == acc.cl
    IN  IF (o.name = "runfreq" /\ cl.runfreq = 1) \/ o.arg = <<>> THEN Handle_err(acc)
        ELSE IF ~(o.valid /\ NumberOk(o.name, n))
        THEN Handle_err(IF o.name \in {"first", "until"} THEN [acc EXCEPT !.cl[o.name] = 0]
                        ELSE acc)
        ELSE CASE o.name = "tzdiff" ->
                    \* dups_cl() has not kept cl_file: only the default line has one.
                    IF acc.own THEN [acc EXCEPT !.crashed = TRUE, !.ok = FALSE]
                    ELSE [acc EXCEPT !.tzdiff = n]
               [] o.name = "nice" /\ n < 0 /\ ~who.privileged ->
                    [acc EXCEPT !.nc = TRUE, !.cl.nice = 0]
               [] o.name \in DOMAIN LavgIndex ->
                    [acc EXCEPT !.cl = SetLavg(cl, [cl.lavg EXCEPT ![LavgIndex[o.name]] = n])]
               [] OTHER -> [acc EXCEPT !.cl[o.name] = n]

\* "lavg" has three values, which are set one after the other.
LavgOption(acc, o) ==
    LET lavg == [k \in 1 .. 3 |-> IF k <= Len(o.arg) THEN o.arg[k] ELSE acc.cl.lavg[k]]
    IN  IF o.valid /\ Len(o.arg) = 3
        THEN [acc EXCEPT !.cl = SetLavg(acc.cl, lavg)]
        ELSE Handle_err([acc EXCEPT !.cl.lavg = lavg])

\* need_correction may have been set long before this option was read.
RunasOption(who, acc, o) ==
    LET nc == acc.nc \/ ~who.privileged \/ o.arg[1] \notin Users
    IN  IF o.arg = <<>> \/ ~o.valid \/ o.arg = <<"">> THEN Handle_err(acc)
        ELSE [acc EXCEPT !.nc = nc, !.cl.runas = IF nc THEN @ ELSE o.arg[1]]

StringField(name) == IF name = "timezone" THEN "tz" ELSE name

SetString(cl, field, v) ==
    [cl EXCEPT ![field] = v, !.opt = IF field = "mailto" THEN @ \cup {"mail"} ELSE @]

\* assign_option_string() frees the old value before it looks at the new one.
StringOption(who, acc, o) ==
    LET field == StringField(o.name)
    IN  CASE o.name = "runas" -> RunasOption(who, acc, o)
          [] o.name # "runas" /\ o.arg = <<>> -> Handle_err(acc)
          [] o.name = "mailto" /\ o.valid /\ o.arg = <<"">> ->
                [acc EXCEPT !.cl.opt = @ \ {"mail", "mailzerolength"}]
          [] o.name # "runas" /\ o.arg # <<>> /\ ~o.valid ->
                Handle_err([acc EXCEPT !.cl[field] = ""])
          [] OTHER ->
                [acc EXCEPT !.cl = SetString(@, field, o.arg[1])]

SetPeriod(cl, name) ==
    [cl EXCEPT !.limits = @ \cup {Period[name]}, !.periodical = TRUE,
               !.mid = @ \/ name \in Mids]

\* A word that is no keyword is let pass in a %-line.
Keyword(acc, name) ==
    CASE name \in DOMAIN Limits -> [acc EXCEPT !.cl.limits = @ \cup Limits[name]]
      [] name \in DOMAIN Period -> [acc EXCEPT !.cl = SetPeriod(@, name)]
      [] OTHER -> acc

ReadOption(who, acc, o) ==
    LET v == o.arg = <<>> \/ o.arg[1] = TRUE
    IN  CASE o.name \in Booleans \cup {"reset"} /\ o.arg # <<>> /\ ~o.valid -> Handle_err(acc)
          [] o.name \in Booleans /\ (o.arg = <<>> \/ o.valid) ->
                [acc EXCEPT !.cl.opt = SetBoolean(@, o.name, v)]
          [] o.name = "reset" /\ (o.arg = <<>> \/ o.valid) ->
                [acc EXCEPT !.cl = IF v THEN init_default_line(who) ELSE @]
          [] o.name = "lavg"       -> LavgOption(acc, o)
          [] o.name \in Numeric  -> IntegerOption(who, acc, o)
          [] o.name \in Strings    -> StringOption(who, acc, o)
          [] OTHER -> IF acc.cl.runfreq = 1 THEN Keyword(acc, o.name)
                      ELSE [acc EXCEPT !.nc = TRUE]

\* read_opt(): own says that cl is that of a line, and not default_line.
OneOption(who, acc, o) ==
    LET r == ReadOption(who, acc, o)
    IN  IF ~acc.ok THEN acc ELSE IF r.ok /\ ~o.closed THEN Handle_err(r) ELSE r

read_opt(who, conf, cl, own, opts) ==
    Loop(LAMBDA acc, k : OneOption(who, acc, opts[k]),
         [cl |-> cl, tzdiff |-> conf.tzdiff, nc |-> conf.nc, ok |-> TRUE,
          crashed |-> FALSE, own |-> own], Len(opts))[Len(opts)]

-----------------------------------------------------------------------------
(* What a text is made of.  get_num() and get_time() read digits; only       *)
(* tzdiff and get_nice() take a minus sign.                                  *)

LineKinds == {"comment", "toolong", "env", "opts", "shortcut", "freq", "arys", "period"}

IsSeq(s) == s \in Seq(ToSet(s))

IsItem(i) == /\ i.shape \in {"bad", "one", "all", "range"}
             /\ {i.from, i.to, i.step} \subseteq Nat \cup {Dotted}
             /\ IsSeq(i.rm) /\ ToSet(i.rm) \subseteq Nat \cup {Dotted}

IsOption(o) == /\ IsSeq(o.arg)
               /\ o.name \in Numeric \ {"tzdiff", "nice"} => ToSet(o.arg) \subseteq Nat

IsLine(l) == /\ l.kind \in LineKinds
             /\ IsSeq(l.opts) /\ \A o \in ToSet(l.opts) : IsOption(o)
             /\ IsSeq(l.num) /\ ToSet(l.num) \subseteq Nat /\ l.freq \in Nat
             /\ IsSeq(l.fields)
             /\ \A k \in DOMAIN l.fields :
                   IsSeq(l.fields[k]) /\ \A i \in ToSet(l.fields[k]) : IsItem(i)
             /\ l.kind = "env" => l.form \in {"ok", "syntax", "quotes"}

IsText(f) == IsSeq(f) /\ \A l \in ToSet(f) : IsLine(l)

-----------------------------------------------------------------------------
(* Lines.  conf is the file as read so far: lines (the last one first),     *)
(* def (default_line), env, tzdiff, nc (need_correction), line (the number  *)
(* of the line) and entries.                                                *)

NewConf(who) ==
    [lines |-> <<>>, def |-> init_default_line(who), env |-> {}, tzdiff |-> 0,
     nc |-> FALSE, line |-> 1, entries |-> 0, crashed |-> FALSE]

\* What read_opt() leaves behind, whether or not the line is kept.
After(conf, acc) ==
    [conf EXCEPT !.nc = acc.nc, !.tzdiff = acc.tzdiff, !.crashed = acc.crashed]

\* Mutant: a skipped line is not told.
Skipped_untold(conf) == conf

Skipped(conf) == [conf EXCEPT !.nc = TRUE]

\* check_username() and get_command().
Kept(who, conf, cl, l) ==
    LET runas == IF l.user \in Users /\ who.privileged THEN l.user ELSE cl.runas
    IN  IF l.cmd = "" THEN Skipped(conf)
        ELSE [conf EXCEPT !.lines = <<[cl EXCEPT !.runas = runas, !.shell = l.cmd]>> \o @]

WithFields(who, conf, r, l) ==
    CASE r.error = "no"     -> Kept(who, conf, r.cl, l)
      [] r.error = "told"   -> Skipped(conf)
      [] r.error = "silent" -> conf

read_env(who, conf, l) ==
    LET def == conf.def
    IN  CASE l.form \in {"syntax", "quotes"} -> Skipped(conf)
          [] l.form = "ok" /\ l.name \in {"USER", "LOGNAME"} -> conf
          [] l.form = "ok" /\ l.name = "MAILFROM" -> [conf EXCEPT !.def.mailfrom = l.val]
          [] l.form = "ok" /\ l.name = "MAILTO" ->
                IF l.val = ""
                THEN [conf EXCEPT !.def.opt = @ \ {"mail", "mailzerolength"}]
                ELSE [conf EXCEPT !.def.mailto = l.val, !.def.opt = @ \cup {"mail"}]
          [] OTHER -> [conf EXCEPT !.env = {e \in @ : e[1] # l.name} \cup {<<l.name, l.val>>}]

\* A line that begins by "!" changes default_line, up to its first error; what
\* follows its options is ignored, and told.
ReadDefault(who, conf, l) ==
    LET acc == read_opt(who, conf, conf.def, FALSE, l.opts)
        r   == [After(conf, acc) EXCEPT !.def = acc.cl]
    IN  IF acc.ok /\ l.cmd # "" THEN Skipped(r) ELSE r

\* The words that set a date; the other two are @reboot and @resume.
Date(mins, hrs, days, mons, dow) ==
    [mins |-> mins, hrs |-> hrs, days |-> days, mons |-> mons, dow |-> dow]
Shortcuts ==
    [yearly  |-> Date({0}, {0}, {1}, {0}, 0 .. 7),
     monthly |-> Date({0}, {0}, {1}, 0 .. 11, 0 .. 7),
     weekly  |-> Date({0}, {0}, 0 .. 31, 0 .. 11, {0, 7}),
     daily   |-> Date({0}, {0}, 0 .. 31, 0 .. 11, 0 .. 7),
     hourly  |-> Date({0}, 0 .. 23, 0 .. 31, 0 .. 11, 0 .. 7)]

ShortcutLine(def, word) ==
    IF word \in DOMAIN Shortcuts
    THEN [def EXCEPT !.opt = @ \cup {"td"}, !.remain = def.runfreq,
                     !.mins = Shortcuts[word].mins, !.hrs = Shortcuts[word].hrs,
                     !.days = Shortcuts[word].days, !.mons = Shortcuts[word].mons,
                     !.dow = Shortcuts[word].dow]
    ELSE [def EXCEPT !.opt = (@ \ {"td", "volatile"}) \cup {"runonce",
                        IF word = "reboot" THEN "runatreboot" ELSE "runatresume"},
                     !.remain = def.runfreq, !.runfreq = 0, !.first = 0,
                     !.timefreq = LONG_MAX]

read_shortcut(who, conf, l) ==
    IF l.space THEN Kept(who, conf, ShortcutLine(conf.def, l.word), l)
    ELSE Skipped(conf)

read_freq(who, conf, l) ==
    LET cl0 == [conf.def EXCEPT !.first = IF l.num = <<>> THEN -1 ELSE l.num[1]]
        acc == read_opt(who, conf, cl0, TRUE, l.opts)
        cl  == [acc.cl EXCEPT !.runfreq = 0, !.opt = @ \ {"td"}, !.timefreq = l.freq,
                              !.first = IF @ = -1 THEN l.freq ELSE @]
    IN  IF acc.ok /\ l.freq >= 1 THEN Kept(who, After(conf, acc), cl, l)
        ELSE Skipped(After(conf, acc))

read_arys(who, conf, l) ==
    LET cl0 == [conf.def EXCEPT !.runfreq = IF l.num = <<>> THEN @ ELSE l.num[1]]
        acc == read_opt(who, conf, cl0, TRUE, l.opts)
        cl  == [acc.cl EXCEPT !.remain = acc.cl.runfreq, !.opt = @ \cup {"td"}]
    IN  IF (l.num = <<>> \/ l.num[1] \in 2 .. USHRT_MAX) /\ acc.ok
        THEN WithFields(who, After(conf, acc), ReadFields(cl, l.fields, 5), l)
        ELSE Skipped(After(conf, acc))

\* How many fields follow: those below the period.
Needed(cl) ==
    CASE ~cl.periodical -> 5
      [] cl.periodical /\ "mins" \in cl.limits -> 0
      [] cl.periodical /\ "mins" \notin cl.limits /\ "hrs" \in cl.limits -> 1
      [] cl.periodical /\ cl.limits \cap {"mins", "hrs"} = {} /\ "days" \in cl.limits -> 2
      [] cl.periodical /\ cl.limits \cap {"mins", "hrs", "days"} = {} /\ "mons" \in cl.limits -> 3
      [] OTHER -> 2

Unread == Date(0 .. 59, 0 .. 23, 1 .. 31, 0 .. 11, 0 .. 7)

\* The bits of a field, with those that no date uses (bit 0 of the days).
BitsOf == Date(0 .. 59, 0 .. 23, 0 .. 31, 0 .. 11, 0 .. 7)

\* Mutant: the bit after the last one is looked at.
HasInterval_one_too_far(cl) == \E f \in {"mins", "hrs", "mons"} : f \notin cl.limits

\* Some field that is not below the limit leaves a value out.
HasInterval(cl) ==
    LET free(f) == f \notin cl.limits /\ BitsOf[f] \ cl[f] # {}
    IN  \/ free("mins") \/ free("hrs") \/ free("mons")
        \/ free("days") /\ ("dayand" \in cl.opt \/ free("dow"))
        \/ free("dow") /\ "dayand" \in cl.opt

read_period(who, conf, l) ==
    LET acc    == read_opt(who, conf, [conf.def EXCEPT !.runfreq = 1, !.remain = 1],
                           TRUE, l.opts)
        cl     == [acc.cl EXCEPT !.opt = @ \cup {"td"}]
        needed == Needed(cl)
        full   == [cl EXCEPT !.mins = IF needed < 1 THEN Unread.mins ELSE @,
                             !.hrs  = IF needed < 2 THEN Unread.hrs ELSE @,
                             !.days = IF needed < 3 THEN Unread.days ELSE @,
                             !.mons = IF needed < 4 THEN Unread.mons ELSE @,
                             !.dow  = IF needed < 5 THEN Unread.dow ELSE @]
        r      == ReadFields(full, l.fields, needed)
    IN  IF ~acc.ok THEN Skipped(After(conf, acc))
        ELSE IF r.error = "no" /\ ~cl.periodical /\ ~HasInterval(r.cl)
        THEN Skipped(After(conf, acc))
        ELSE WithFields(who, After(conf, acc), r, l)

IsEntry(l) == l.kind \in {"shortcut", "freq", "arys", "period"}

ReadContents(who, conf, l) ==
    CASE l.kind = "comment"  -> conf
      [] l.kind = "env"      -> read_env(who, conf, l)
      [] l.kind = "opts"     -> ReadDefault(who, conf, l)
      [] l.kind = "shortcut" -> read_shortcut(who, conf, l)
      [] l.kind = "freq"     -> read_freq(who, conf, l)
      [] l.kind = "arys"     -> read_arys(who, conf, l)
      [] l.kind = "period"   -> read_period(who, conf, l)

\* A turn of the loop of read_file().
ReadLine(who, conf, l) ==
    IF l.kind = "toolong"
    THEN [conf EXCEPT !.nc = TRUE, !.line = @ + l.extra + 1]
    ELSE LET r == ReadContents(who, [conf EXCEPT !.line = @ + l.extra], l)
         IN  [r EXCEPT !.line = @ + 1, !.entries = IF IsEntry(l) THEN @ + 1 ELSE @]

max_entries(who) == IF who.runas = ROOTNAME THEN MAXENTRIES_ROOT ELSE MAXENTRIES
max_lines(who)   == max_entries(who) * 10 + 10

\* The loop goes on.
GoesOn(who, conf) ==
    ~conf.crashed /\ conf.entries < max_entries(who) /\ conf.line <= max_lines(who)

Turn(who, conf, l) == IF GoesOn(who, conf) THEN ReadLine(who, conf, l) ELSE conf

\* The file as it is read up to each of its lines.
ReadUpTo(who, file) ==
    Loop(LAMBDA conf, k : Turn(who, conf, file[k]), NewConf(who), Len(file))

read_file(who, file) == ReadUpTo(who, file)[Len(file)]
=============================================================================
