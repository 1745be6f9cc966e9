----------------------------- MODULE SaveFormat -----------------------------
(***************************************************************************)
(* The file in which fcrontab and fcron save a fcrontab: a sequence of      *)
(* fields with a type and a value, written by write_file_to_disk() (save.c) *)
(* and read by read_file() of the daemon (conf.c).  A field is written only *)
(* when it is needed, and a line that is read starts from zero.             *)
(***************************************************************************)
EXTENDS FileConf

CONSTANT UnsafeAddresses    \* that begin by "-" or have a blank, ";" or "|"

S_FILEVERSION == 100

Field(type, value) == <<[type |-> type, value |-> value]>>
When(needed, fields) == IF needed THEN fields ELSE <<>>

\* The order is the one of write_file_to_disk(); nextexe and numexe, which
\* fcrontab leaves at 0, are the subject of other modules.
LineFields(cl) ==
    Field("shell", cl.shell) \o Field("runas", cl.runas) \o Field("mailto", cl.mailto)
    \o Field("option", [opt |-> cl.opt, limits |-> cl.limits,
                        periodical |-> cl.periodical, mid |-> cl.mid])
    \o When("lavg" \in cl.opt, Field("lavg", cl.lavg))
    \o When(cl.until > 0, Field("until", cl.until))
    \o When(cl.nice # 0, Field("nice", cl.nice))
    \o When(cl.runfreq > 0, Field("runfreq", cl.runfreq) \o Field("remain", cl.remain))
    \o When(cl.tz # "", Field("tz", cl.tz))
    \o When(cl.jitter > 0, Field("jitter", cl.jitter))
    \o When(cl.mailfrom # "", Field("mailfrom", cl.mailfrom))
    \o (IF "td" \notin cl.opt
        THEN Field("first", cl.first) \o Field("timefreq", cl.timefreq)
        ELSE Field("mins", cl.mins) \o Field("hrs", cl.hrs) \o Field("days", cl.days)
             \o Field("mons", cl.mons) \o Field("dow", cl.dow))
    \o Field("endline", 0)

write_file_to_disk(user, conf) ==
    Field("header", S_FILEVERSION) \o Field("user", user) \o Field("timedate", 0)
    \o When(conf.tzdiff # 0, Field("tzdiff", conf.tzdiff))
    \o FlattenSeq([k \in 1 .. Cardinality(conf.env) |->
                        Field("envvar", SetToSeq(conf.env)[k])])
    \o FlattenSeq([k \in 1 .. Len(conf.lines) |-> LineFields(conf.lines[k])])

-----------------------------------------------------------------------------

ZeroLine == [init_default_line([runas |-> "", privileged |-> FALSE]) EXCEPT !.mailto = ""]

\* add_line_to_file(): what the daemon does not take from the file.
add_line_to_file(cl, user, owner) ==
    [cl EXCEPT !.runas    = IF owner = ROOTNAME THEN @ ELSE owner,
               !.mailfrom = IF @ \in UnsafeAddresses THEN "" ELSE @,
               !.mailto   = IF @ \in UnsafeAddresses THEN user ELSE @,
               !.timefreq = IF "td" \notin cl.opt /\ @ < 1 THEN 24 * 3600 ELSE @]

\* acc is the file read so far, and cl the line being read.
Add(owner, acc) ==
    IF acc.cl.shell = "" THEN acc.lines
    ELSE <<add_line_to_file(acc.cl, acc.user, owner)>> \o acc.lines

\* Mutant: the next line is read into the one just added.
EndLine_no_alloc(owner, acc) == [acc EXCEPT !.lines = Add(owner, acc)]

EndLine(owner, acc) == [acc EXCEPT !.lines = Add(owner, acc), !.cl = ZeroLine]

ReadField(owner, acc, f) ==
    CASE f.type = "tzdiff" -> [acc EXCEPT !.tzdiff = f.value]
      [] f.type = "envvar" ->
            IF f.value[1] \in {"USER", "LOGNAME"} THEN acc
            ELSE [acc EXCEPT !.env = {e \in @ : e[1] # f.value[1]} \cup {f.value}]
      [] f.type = "option" ->
            [acc EXCEPT !.cl.opt = f.value.opt, !.cl.limits = f.value.limits,
                        !.cl.periodical = f.value.periodical, !.cl.mid = f.value.mid]
      [] f.type = "endline" -> EndLine(owner, acc)
      [] f.type \in DOMAIN ZeroLine \ {"opt", "limits", "periodical", "mid"} ->
            [acc EXCEPT !.cl[f.type] = f.value]
      [] OTHER -> [acc EXCEPT !.cl = ZeroLine]       \* an unknown type

ReadAll(owner, acc, fields) ==
    Loop(LAMBDA a, k : ReadField(owner, a, fields[k]), acc, Len(fields))[Len(fields)]

\* The name of the user is the one the file gives when root owns it, or else
\* its owner's.  The result is "ignored" when the three fields of the head are
\* not there.
ReadSaved(owner, fields) ==
    LET user == IF owner = ROOTNAME THEN fields[2].value ELSE owner
        head == /\ Len(fields) >= 3
                /\ fields[1] = Field("header", S_FILEVERSION)[1]
                /\ fields[2].type = "user" /\ fields[3].type = "timedate"
    IN  IF ~head THEN [ignored |-> TRUE]
        ELSE LET r == ReadAll(owner,
                              [user |-> user, lines |-> <<>>, env |-> {}, tzdiff |-> 0,
                               cl |-> ZeroLine],
                              SubSeq(fields, 4, Len(fields)))
             IN  [ignored |-> FALSE, user |-> r.user, lines |-> r.lines, env |-> r.env,
                  tzdiff |-> r.tzdiff]
=============================================================================
