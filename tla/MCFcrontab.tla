----------------------------- MODULE MCFcrontab -----------------------------
(***************************************************************************)
(* Instances of Fcrontab: fcrontabs of one, two or three lines out of a     *)
(* pool that has every kind of line, of item and of option, and a line with *)
(* each error that fcrontab can find.                                       *)
(***************************************************************************)
EXTENDS Fcrontab, TLC

All        == [shape |-> "all", from |-> 0, to |-> 0, step |-> 1, rm |-> <<>>, named |-> FALSE]
One(a)     == [All EXCEPT !.shape = "one", !.from = a]
Rng(a, b)  == [All EXCEPT !.shape = "range", !.from = a, !.to = b]
By(i, s)   == [i EXCEPT !.step = s]
But(i, r)  == [i EXCEPT !.rm = r]
Named(i)   == [i EXCEPT !.named = TRUE]
Bad        == [All EXCEPT !.shape = "bad"]

Opt(name, arg) == [name |-> name, arg |-> arg, valid |-> TRUE, closed |-> TRUE]
Invalid(o)     == [o EXCEPT !.valid = FALSE]
Unclosed(o)    == [o EXCEPT !.closed = FALSE]

Line(kind, c) ==
    [kind |-> kind, extra |-> 0, opts |-> <<>>, num |-> <<>>, freq |-> 1800, fields |-> <<>>,
     user |-> "", cmd |-> c]
Arys(c, m, h, d, mo, w) == [Line("arys", c) EXCEPT !.fields = <<m, h, d, mo, w>>]
Every(c)                == Arys(c, <<All>>, <<All>>, <<All>>, <<All>>, <<All>>)
Freq(c, opts)           == [Line("freq", c) EXCEPT !.opts = opts]
Percent(c, opts, fs)    == [Line("period", c) EXCEPT !.opts = opts, !.fields = fs]
EnvLine(name, val, form)  == Line("env", "") @@ [name |-> name, val |-> val, form |-> form]
Default(opts)             == [Line("opts", "") EXCEPT !.opts = opts]
Short(word, space)        == Line("shortcut", word) @@ [word |-> word, space |-> space]
Comment(n)                == [Line("comment", "") EXCEPT !.extra = n]

Good ==
  { Arys("lists", <<One(5), By(Rng(10, 40), 15)>>, <<But(Rng(8, 12), <<9, 10>>)>>, <<By(Rng(2, 31), 7)>>,
         <<One(1), But(Rng(5, 8), <<6>>)>>, <<But(All, <<7>>)>>),
    Arys("wraps", <<By(Rng(50, 10), 7)>>, <<Rng(22, 3)>>, <<Rng(30, 2)>>, <<Rng(11, 2)>>,
         <<Named(Rng(5, 1))>>),
    [Every("options") EXCEPT !.num = <<5>>, !.opts = <<Opt("lavg", <<10, 0, 5>>),
        Opt("until", <<3600>>), Opt("nice", <<-5>>), Opt("jitter", <<9>>), Opt("timezone", <<"UTC">>),
        Opt("mailfrom", <<"-x">>), Opt("serialonce", <<TRUE>>), Opt("bootrun", <<>>)>>],
    [Every("inline") EXCEPT !.user = "bob", !.opts = <<Opt("lavg15", <<2>>), Opt("runfreq", <<3>>)>>],
    Freq("freq", <<Opt("first", <<60>>), Opt("forcemail", <<TRUE>>)>>),
    [Freq("delay", <<>>) EXCEPT !.num = <<0>>, !.freq = 1],
    Percent("hours", <<Opt("hours", <<>>)>>, <<<<All>>, <<Rng(1, 5)>>, <<All>>, <<All>>, <<All>>>>),
    Percent("dayor", <<Opt("dayor", <<>>)>>,
            <<<<All>>, <<All>>, <<Rng(1, 15)>>, <<All>>, <<Rng(1, 5)>>>>),
    Percent("each day", <<Opt("daily", <<>>), Opt("strict", <<FALSE>>)>>, <<<<One(0)>>, <<Rng(21, 23)>>>>),
    Percent("nightly", <<Opt("nightly", <<>>)>>, <<<<One(0)>>, <<Rng(21, 5)>>>>),
    Percent("each hour", <<Opt("hourly", <<>>)>>, <<<<Rng(10, 20)>>>>),
    Percent("each month", <<Opt("monthly", <<>>)>>, <<<<One(0)>>, <<One(3)>>, <<Rng(1, 5)>>>>),
    Percent("each week", <<Opt("weekly", <<>>)>>, <<<<One(0)>>, <<One(3)>>>>),
    Short("daily", TRUE), Short("reboot", TRUE) }

Wrong ==
  { Arys("high", <<One(75)>>, <<All>>, <<All>>, <<All>>, <<All>>),
    Arys("step0", <<All>>, <<By(All, 0)>>, <<All>>, <<All>>, <<All>>),
    Arys("dots", <<But(By(Rng(5, 10), 2), <<7, Dotted, 61>>)>>, <<All>>, <<All>>, <<All>>, <<All>>),
    Arys("1.2.3", <<One(Dotted)>>, <<All>>, <<All>>, <<All>>, <<All>>),
    Arys("badrm", <<But(All, <<61, Dotted>>)>>, <<All>>, <<All>>, <<All>>, <<Bad>>),
    Arys("months", <<One(0)>>, <<One(0)>>, <<Rng(4, 4)>>, <<One(0), Named(One(2))>>, <<All>>),
    [Every("") EXCEPT !.num = <<2>>],
    [Every("runfreq") EXCEPT !.num = <<1>>],
    [Line("arys", "short") EXCEPT !.fields = <<<<All>>, <<All>>>>],
    Freq("unclosed", <<Unclosed(Opt("nolog", <<TRUE>>))>>),
    [Freq("never", <<>>) EXCEPT !.freq = 0],
    Freq("tzdiff", <<Opt("tzdiff", <<2>>)>>),
    Freq("runas", <<Opt("runas", <<"bob">>)>>),
    Freq("nobody", <<Opt("runas", <<"nobody">>)>>),
    Percent("no interval", <<>>, <<<<All>>, <<All>>, <<All>>, <<All>>, <<All>>>>),
    Percent("1-31", <<Opt("mins", <<>>)>>, <<<<All>>, <<All>>, <<Rng(1, 31)>>, <<All>>, <<All>>>>),
    Percent("runfreq 1", <<Opt("runfreq", <<2>>)>>, <<>>),
    Short("weekly", FALSE) }

Others ==
  { EnvLine("MAILTO", "-bob", "ok"), EnvLine("MAILTO", "", "ok"), EnvLine("MAILFROM", "cron", "ok"),
    EnvLine("FOO", "a", "ok"), EnvLine("FOO", "b", "ok"), EnvLine("USER", "bob", "ok"),
    EnvLine("FOO", "c", "quotes"),
    Default(<<Opt("serial", <<TRUE>>), Opt("mailto", <<"bob">>), Opt("tzdiff", <<2>>)>>),
    Default(<<Opt("mailto", <<"">>), Opt("runas", <<"bob">>), Opt("nice", <<50>>), Opt("random", <<>>)>>),
    [Default(<<Opt("stdout", <<>>)>>) EXCEPT !.cmd = "text"],
    Default(<<Opt("lavg", <<1, 2>>)>>), Default(<<Invalid(Opt("mailfrom", <<"x">>))>>),
    Default(<<Opt("dayor", <<>>), Opt("reset", <<>>), Opt("word", <<>>)>>),
    Comment(25), Line("toolong", "") }

Lines == Good \cup Wrong \cup Others

A == Short("daily", TRUE)
B == Freq("freq", <<>>)

MCFiles ==
    {<<>>} \cup {<<l>> : l \in Lines} \cup {<<k, l>> : k \in Lines, l \in Lines}
    \cup {<<A, B, l>> : l \in Lines}
MCEdits ==
    { <<>>, <<Comment(0)>>, <<A>>, <<B, A>>, <<A, [Every("high") EXCEPT !.num = <<1>>]>>,
      <<EnvLine("FOO", "a", "quotes")>> }
MCOlds == { <<A>>, <<Comment(0)>> }

MCWhos == { [runas |-> "root", privileged |-> TRUE], [runas |-> "bob", privileged |-> FALSE],
            [runas |-> "ann", privileged |-> TRUE] }
MCCommands ==
    [name : {"file", "edit"}, n : BOOLEAN]
    \cup [name : {"reinstall", "list", "remove"}, n : {FALSE}]
=============================================================================
