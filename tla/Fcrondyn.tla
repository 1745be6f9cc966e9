------------------------------ MODULE Fcrondyn ------------------------------
(***************************************************************************)
(* fcrondyn and the part of fcron that answers it (fcrondyn.c,              *)
(* fcrondyn_svr.c, select.c).  A connection is a stream: nothing but its     *)
(* END_STR separates the answer of a command from the next one.  fcron      *)
(* serves every connection from its main loop, keeps them in a linked list  *)
(* which it changes as it walks it, and learns from select() which ones to  *)
(* read.  What the commands do to the jobs is in JobControl.                *)
(***************************************************************************)
EXTENDS Integers, FiniteSets, SequencesExt

CONSTANTS Clients,      \* runs of fcrondyn
          user_str,     \* who runs each of them
          ROOTNAME,     \* the user who may see and do everything
          Lines, cf_user,       \* lines of fcrontabs, and whose they are
          Codes,        \* the commands they use
          PeerCred,     \* is the peer of a socket known, or are passwords asked?
                        \* a subset of BOOLEAN
          MaxFd,        \* descriptors are 1 .. MaxFd
          MaxCmds,      \* how many commands each sends
          MaxEntries,   \* entries of a line in exe_list
          MAX_AUTH_FAIL,
          Faults        \* what may go wrong on the way: a subset of FaultKinds

Users == {user_str[c] : c \in Clients} \cup {cf_user[l] : l \in Lines} \cup {ROOTNAME}

NoUser == "no user"
ALL    == "all"
NULL   == 0
listen_fd == 1

\* The buffer of fcrondyn ends within an END_STR; a socket is full when fcron
\* sends, which it does without waiting.
FaultKinds == {"cut_end", "full_socket"}

ASSUME FcrondynAssumption ==
    /\ IsFiniteSet(Clients) /\ NULL \notin Clients
    /\ MaxFd \in Nat /\ MaxFd > Cardinality(Clients) /\ MaxCmds \in [Clients -> Nat]
    /\ MaxEntries \in Nat /\ MAX_AUTH_FAIL \in Nat \ {0} /\ PeerCred \subseteq BOOLEAN
    /\ {NoUser, ALL} \cap Users = {} /\ Faults \subseteq FaultKinds

VARIABLES
    peercred,
    \* fcron
    at,         \* where it is: "select", "accept", "walk", "answer", "stopped"
    base, next,             \* fcrondyn_cl_base and fcl_next, by descriptor
    peer,       \* the client at the other end of a descriptor
    fcl_user, idle,         \* idle: 1 for more than MAX_AUTH_TIME, 2 for MAX_IDLE_TIME
    client, prev_client, avoid_fd,
    out,        \* what is still to be sent to client
    master, fd_max, readfds,        \* select_instance
    auth_fail, cooled,      \* cooled: AUTH_WAIT has passed since the last failure
    \* sockets, by client
    backlog,    \* connections that are not accepted yet
    to_fcron, to_client,    \* what was sent and is not read yet
    closed,     \* fcron has closed its end
    reset,      \* <<c, end>>: the other end closed with something unread, so the
                \* next read at this end, once its queue is empty, is an error
    \* fcrondyn
    st,         \* "new", "auth", "prompt", "sent", "reading", "gone"
    num,        \* the number of its last command
    answer,     \* the commands whose answers it has read since then
    crossed,    \* a command failed on one of several entries of exe_list
    unheard     \* an END_STR was cut or lost since the last command

fcron == <<at, base, next, peer, fcl_user, idle, client, prev_client, avoid_fd, out,
           master, fd_max, readfds, auth_fail, cooled>>
socks == <<backlog, to_fcron, to_client, closed, reset>>
users == <<st, num, answer, crossed, unheard>>
vars  == <<peercred, fcron, socks, users>>

Fds == listen_fd + 1 .. MaxFd

fcrondyn_socket_init ==
    /\ at = "select" /\ base = NULL
    /\ next = [fd \in Fds |-> NULL] /\ peer = [fd \in Fds |-> NULL]
    /\ fcl_user = [fd \in Fds |-> NoUser] /\ idle = [fd \in Fds |-> 0]
    /\ client = NULL /\ prev_client = NULL /\ avoid_fd = NULL /\ out = <<>>
    /\ master = {listen_fd} /\ fd_max = listen_fd /\ readfds = {}
    /\ auth_fail = 0 /\ cooled = TRUE

Init ==
    /\ peercred \in PeerCred
    /\ fcrondyn_socket_init
    /\ backlog = <<>> /\ closed = {} /\ reset = {}
    /\ to_fcron = [c \in Clients |-> <<>>] /\ to_client = [c \in Clients |-> <<>>]
    /\ st = [c \in Clients |-> "new"] /\ num = [c \in Clients |-> 0]
    /\ answer = [c \in Clients |-> {}] /\ crossed = {} /\ unheard = {}

-----------------------------------------------------------------------------
(* Messages.  One entry stands for all that is printed before the next END_STR *)
(* or error.                                                                *)

Text(n) == [cmd |-> n, what |-> "text"]
End(n)  == [cmd |-> n, what |-> "end"]
Send_err_msg_end(n) == <<Text(n), End(n)>>

\* A command as fcrondyn sends it: its code, and the user or the line it is about.
JobCodes == {"detail", "runnow", "run", "kill", "renice"}
ListCodes == {"ls", "ls_lavgq", "ls_serialq", "ls_exeq"}

\* What user u can make fcrondyn send: without argument ls is about all for root,
\* and about the caller for everybody else.  help, quit and what is not
\* understood are dealt with on the spot.
parse_cmd(u) ==
    {[code |-> x, arg |-> l] : x \in Codes \cap JobCodes, l \in Lines} \cup
    {[code |-> x, arg |-> v] : x \in Codes \cap ListCodes,
                               v \in Users \cup (IF u = ROOTNAME THEN {ALL} ELSE {})}

is_root(u) == u = ROOTNAME
Allowed(u, l) == is_root(u) \/ u = cf_user[l]

\* An answer, and did the command fail on an entry of exe_list.
Plain(msgs) == [msgs |-> msgs, failed |-> FALSE]

print_line(n)   == <<Text(n)>>
print_fields(n) == <<Text(n)>>

\* The lines that are found are any number of those the caller may see.
cmd_ls(u, cmd, n) ==
    IF ~is_root(u) /\ cmd.code \in ListCodes /\ cmd.arg # u
    THEN {Plain(Send_err_msg_end(n))}
    ELSE {Plain(print_fields(n) \o shown \o <<End(n)>>) : shown \in {<<>>, print_line(n)}}

\* setpriority() and kill() fail when the process has just ended.
cmd_renice(n)      == {Send_err_msg_end(n), <<Text(n)>>}
cmd_send_signal(n) == {Send_err_msg_end(n), <<Text(n)>>}

OnEntry(u, cmd, n) ==
    IF ~Allowed(u, cmd.arg) THEN {Send_err_msg_end(n)}
    ELSE IF cmd.code = "kill" THEN cmd_send_signal(n) ELSE cmd_renice(n)

\* One answer for each entry of the line in exe_list, and the end.
cmd_on_exeq(u, cmd, n) ==
    {Plain(Send_err_msg_end(n))} \cup
    {[msgs |-> FlattenSeq(es) \o <<End(n)>>,
      failed |-> Send_err_msg_end(n) \in Range(es)] :
         es \in UNION {[1 .. k -> OnEntry(u, cmd, n)] : k \in 1 .. MaxEntries}}

\* Mutant: no return once the job has been found.
cmd_run_goes_on(u, cmd, n) ==
    {Plain(Send_err_msg_end(n))} \cup
    (IF Allowed(u, cmd.arg) THEN {Plain(<<Text(n), End(n), Text(n), End(n)>>)} ELSE {})

\* Mutant: the end is not sent.
cmd_run_no_end(u, cmd, n) ==
    {Plain(Send_err_msg_end(n))} \cup
    (IF Allowed(u, cmd.arg) THEN {Plain(<<Text(n)>>)} ELSE {})

\* The line may be in queue_base or not.  add_lavg_job() and add_serial_job() only
\* say something when debugging.
cmd_run(u, cmd, n) ==
    {Plain(Send_err_msg_end(n))} \cup
    (IF Allowed(u, cmd.arg) THEN {Plain(<<Text(n), End(n)>>), Plain(<<End(n)>>)} ELSE {})

exe_cmd(u, cmd, n) ==
    CASE cmd.code \in {"kill", "renice"}  -> cmd_on_exeq(u, cmd, n)
      [] cmd.code \in ListCodes \cup {"detail"} -> cmd_ls(u, cmd, n)
      [] cmd.code \in {"run", "runnow"}   -> cmd_run(u, cmd, n)

-----------------------------------------------------------------------------
(* select.c                                                                 *)

select_add_read(fd) ==
    /\ master' = master \cup {fd}
    /\ fd_max' = IF fd > fd_max THEN fd ELSE fd_max

\* The loop does not stop at the first descriptor it finds.
select_rm_read(fd) ==
    LET left == {i \in master \ {fd} : i <= fd}
    IN  /\ master' = master \ {fd}
        /\ fd_max' = IF fd >= fd_max /\ left # {} THEN Min(left) ELSE fd_max

\* A peer that has gone counts: its end of file is there to be read.
Readable(fd) ==
    IF fd = listen_fd THEN backlog # <<>>
    ELSE to_fcron[peer[fd]] # <<>> \/ st[peer[fd]] = "gone"

\* With nothing to read select() times out, and fcrondyn_socket_check() returns.
select_call ==
    /\ at = "select"
    /\ readfds' = {fd \in master : fd <= fd_max /\ Readable(fd)}
    /\ at' = IF readfds' = {} THEN "select" ELSE "accept"
    /\ UNCHANGED <<peercred, base, next, peer, fcl_user, idle, client, prev_client, avoid_fd,
                   out, master, fd_max, auth_fail, cooled, socks, users>>

-----------------------------------------------------------------------------
(* fcrondyn_socket_check()                                                  *)

StartWalk(first, avoid) ==
    /\ at' = "walk" /\ client' = first /\ prev_client' = NULL /\ avoid_fd' = avoid

auth_client_so_peercred(c) == IF peercred THEN user_str[c] ELSE NoUser

\* accept() gives the lowest free descriptor.
Accept ==
    /\ at = "accept" /\ listen_fd \in readfds
    /\ LET fd == Min({i \in Fds : peer[i] = NULL})
           c  == Head(backlog)
       IN  /\ peer' = [peer EXCEPT ![fd] = c]
           /\ next' = [next EXCEPT ![fd] = base]
           /\ base' = fd
           /\ idle' = [idle EXCEPT ![fd] = 0]
           /\ fcl_user' = [fcl_user EXCEPT ![fd] = auth_client_so_peercred(c)]
           /\ select_add_read(fd)
           /\ StartWalk(fd, fd)
    /\ backlog' = Tail(backlog)
    /\ UNCHANGED <<peercred, out, readfds, auth_fail, cooled, to_fcron, to_client, closed,
                   reset, users>>

NoAccept ==
    /\ at = "accept" /\ listen_fd \notin readfds
    /\ StartWalk(base, NULL)
    /\ UNCHANGED <<peercred, base, next, peer, fcl_user, idle, out, master, fd_max, readfds,
                   auth_fail, cooled, socks, users>>

ToNext == client' = next[client] /\ prev_client' = client

\* Closing with commands unread is what makes the other end's next read fail.
Closes(cs) ==
    /\ closed' = closed \cup cs
    /\ reset' = reset \cup {<<c, "fcrondyn">> : c \in {d \in cs : to_fcron[d] # <<>>}}
    /\ to_fcron' = [c \in Clients |-> IF c \in cs THEN <<>> ELSE to_fcron[c]]

\* Mutant: the first entry is always taken for the one before.
Unlink_base == base' = next[client] /\ UNCHANGED next

Unlink ==
    IF prev_client = NULL
    THEN base' = next[client] /\ next' = [next EXCEPT ![client] = NULL]
    ELSE next' = [next EXCEPT ![prev_client] = next[client], ![client] = NULL] /\ UNCHANGED base

remove_connection ==
    /\ Closes({peer[client]})
    /\ select_rm_read(client)
    /\ Unlink
    /\ client' = next[client]
    /\ peer' = [peer EXCEPT ![client] = NULL]
    /\ fcl_user' = [fcl_user EXCEPT ![client] = NoUser]
    /\ idle' = [idle EXCEPT ![client] = 0]
    /\ UNCHANGED <<peercred, at, prev_client, avoid_fd, out, readfds, auth_fail, cooled,
                   backlog, to_client, users>>

Walking == at = "walk" /\ client # NULL
Skipped == client \notin readfds \/ client = avoid_fd
IdleTooLong == idle[client] > (IF fcl_user[client] = NoUser THEN 0 ELSE 1)

IdleClosed == Walking /\ Skipped /\ IdleTooLong /\ remove_connection

NothingToDo ==
    /\ Walking /\ Skipped /\ ~IdleTooLong
    /\ ToNext
    /\ UNCHANGED <<peercred, at, base, next, peer, fcl_user, idle, avoid_fd, out, master, fd_max,
                   readfds, auth_fail, cooled, socks, users>>

PeerClosed ==
    /\ Walking /\ ~Skipped
    /\ to_fcron[peer[client]] = <<>> /\ <<peer[client], "fcron">> \notin reset
    /\ remove_connection

RecvError ==
    /\ Walking /\ ~Skipped
    /\ to_fcron[peer[client]] = <<>> /\ <<peer[client], "fcron">> \in reset
    /\ reset' = reset \ {<<peer[client], "fcron">>}
    /\ ToNext
    /\ UNCHANGED <<peercred, at, base, next, peer, fcl_user, idle, avoid_fd, out, master, fd_max,
                   readfds, auth_fail, cooled, backlog, to_fcron, to_client, closed, users>>

\* A password is a command without number.  recv() takes all there is; only the
\* first of what was sent is looked at.
Replies(ok) == <<[cmd |-> 0, what |-> IF ok THEN "1" ELSE "0"]>>

auth_client_password ==
    /\ Walking /\ ~Skipped /\ fcl_user[client] = NoUser
    /\ to_fcron[peer[client]] # <<>>
    /\ LET c     == peer[client]
           fails == IF auth_fail > 0 /\ cooled THEN 0 ELSE auth_fail
           right == Head(to_fcron[c]).good
           full  == fails >= MAX_AUTH_FAIL
       IN  /\ auth_fail' = CASE full -> 0
                             [] ~full /\ right -> fails
                             [] ~full /\ ~right -> fails + 1
           /\ cooled' = IF ~full /\ ~right THEN FALSE ELSE cooled \/ full
           /\ fcl_user' = IF ~full /\ right THEN [fcl_user EXCEPT ![client] = user_str[c]]
                          ELSE fcl_user
           /\ to_fcron' = [to_fcron EXCEPT ![c] = <<>>]
           /\ out' = Replies(~full /\ right)
    /\ at' = "answer"
    /\ UNCHANGED <<peercred, base, next, peer, idle, client, prev_client, avoid_fd, master,
                   fd_max, readfds, backlog, to_client, closed, reset, users>>

Command ==
    /\ Walking /\ ~Skipped /\ fcl_user[client] # NoUser
    /\ LET c == peer[client]
       IN  /\ to_fcron[c] # <<>>
           /\ \E a \in exe_cmd(fcl_user[client], Head(to_fcron[c]).cmd, Head(to_fcron[c]).num) :
                 /\ out' = a.msgs
                 /\ crossed' = IF a.failed /\ st[c] # "gone" THEN crossed \cup {c} ELSE crossed
           /\ to_fcron' = [to_fcron EXCEPT ![c] = <<>>]
    /\ idle' = [idle EXCEPT ![client] = 0]
    /\ at' = "answer"
    /\ UNCHANGED <<peercred, base, next, peer, fcl_user, client, prev_client, avoid_fd, master,
                   fd_max, readfds, auth_fail, cooled, backlog, to_client, closed, reset,
                   st, num, answer, unheard>>

AtEnd(chunk) == Last(chunk).what = "end"

\* SIGPIPE is ignored: what is sent to a fcrondyn that has gone is lost.  So is
\* what a full socket has no room for.
Send ==
    /\ at = "answer" /\ out # <<>>
    /\ LET c == peer[client]
       IN  \/ /\ to_client' = IF st[c] = "gone" THEN to_client
                              ELSE [to_client EXCEPT ![c] = Append(@, Head(out))]
              /\ UNCHANGED unheard
           \/ /\ "full_socket" \in Faults /\ st[c] # "gone" /\ UNCHANGED to_client
              /\ unheard' = IF AtEnd(<<Head(out)>>) THEN unheard \cup {c} ELSE unheard
    /\ out' = Tail(out)
    /\ UNCHANGED <<peercred, at, base, next, peer, fcl_user, idle, client, prev_client, avoid_fd,
                   master, fd_max, readfds, auth_fail, cooled, backlog, to_fcron, closed, reset,
                   st, num, answer, crossed>>

Answered ==
    /\ at = "answer" /\ out = <<>>
    /\ at' = "walk" /\ ToNext
    /\ UNCHANGED <<peercred, base, next, peer, fcl_user, idle, avoid_fd, out, master, fd_max,
                   readfds, auth_fail, cooled, socks, users>>

\* readfds is not read again before the next call of select().
EndWalk ==
    /\ at = "walk" /\ client = NULL
    /\ at' = "select" /\ client' = NULL /\ prev_client' = NULL /\ avoid_fd' = NULL
    /\ readfds' = {}
    /\ UNCHANGED <<peercred, base, next, peer, fcl_user, idle, out, master, fd_max, auth_fail,
                   cooled, socks, users>>

fcrondyn_socket_check ==
    Accept \/ NoAccept \/ IdleClosed \/ NothingToDo \/ PeerClosed \/ RecvError
    \/ auth_client_password \/ Command \/ Send \/ Answered \/ EndWalk

\* now only changes between two calls.  MAX_AUTH_TIME means nothing to those who are
\* authenticated.
TimePasses ==
    /\ at = "select"
    /\ \/ \E fd \in Fds : /\ peer[fd] # NULL /\ idle[fd] < 2
                          /\ idle' = [idle EXCEPT ![fd] =
                                         IF fcl_user[fd] = NoUser THEN @ + 1 ELSE 2]
                          /\ UNCHANGED cooled
       \/ ~cooled /\ cooled' = TRUE /\ UNCHANGED idle
    /\ UNCHANGED <<peercred, at, base, next, peer, fcl_user, client, prev_client, avoid_fd, out,
                   master, fd_max, readfds, auth_fail, socks, users>>

\* fcron exits (fcrondyn_socket_close()), or is killed, which does the same to the
\* connections.
Stops ==
    /\ at # "stopped" /\ at' = "stopped"
    /\ Closes({peer[fd] : fd \in {f \in Fds : peer[f] # NULL}} \cup Range(backlog))
    /\ backlog' = <<>>
    /\ base' = NULL /\ next' = [fd \in Fds |-> NULL] /\ peer' = [fd \in Fds |-> NULL]
    /\ fcl_user' = [fd \in Fds |-> NoUser] /\ idle' = [fd \in Fds |-> 0]
    /\ client' = NULL /\ prev_client' = NULL /\ avoid_fd' = NULL /\ out' = <<>>
    /\ master' = {} /\ fd_max' = -1 /\ readfds' = {}
    /\ auth_fail' = 0 /\ cooled' = TRUE
    /\ UNCHANGED <<peercred, to_client, users>>

\* fcrondyn_socket_init() again.
Starts ==
    /\ at = "stopped" /\ at' = "select"
    /\ master' = {listen_fd} /\ fd_max' = listen_fd
    /\ UNCHANGED <<peercred, base, next, peer, fcl_user, idle, client, prev_client, avoid_fd, out,
                   readfds, auth_fail, cooled, socks, users>>

-----------------------------------------------------------------------------
(* fcrondyn                                                                 *)

\* What it knew goes with it.
Leave(c) ==
    /\ st' = [st EXCEPT ![c] = "gone"]
    /\ reset' = (reset \ {<<c, "fcrondyn">>})
                 \cup (IF to_client[c] # <<>> THEN {<<c, "fcron">>} ELSE {})
    /\ to_client' = [to_client EXCEPT ![c] = <<>>]
    /\ num' = [num EXCEPT ![c] = 0] /\ answer' = [answer EXCEPT ![c] = {}]
    /\ crossed' = crossed \ {c} /\ unheard' = unheard \ {c}

\* Without fcron there is nothing to connect to.
connect_fcron(c) ==
    /\ st[c] = "new"
    /\ IF at = "stopped"
       THEN st' = [st EXCEPT ![c] = "gone"] /\ UNCHANGED <<backlog, to_fcron>>
       ELSE /\ backlog' = Append(backlog, c)
            /\ \/ peercred /\ st' = [st EXCEPT ![c] = "prompt"] /\ UNCHANGED to_fcron
               \/ /\ ~peercred /\ st' = [st EXCEPT ![c] = "auth"]
                  /\ \E good \in BOOLEAN :
                        to_fcron' = [to_fcron EXCEPT ![c] = Append(@, [num |-> 0, good |-> good])]
    /\ UNCHANGED <<peercred, fcron, to_client, closed, reset, num, answer, crossed, unheard>>

authenticate_user_password(c) ==
    /\ st[c] = "auth" /\ to_client[c] # <<>>
    /\ IF Head(to_client[c]).what = "1"
       THEN /\ st' = [st EXCEPT ![c] = "prompt"]
            /\ to_client' = [to_client EXCEPT ![c] = Tail(@)] /\ UNCHANGED reset
            /\ UNCHANGED <<num, answer, crossed, unheard>>
       ELSE Leave(c)
    /\ UNCHANGED <<peercred, fcron, backlog, to_fcron, closed>>

\* talk_fcron() sends a command.  On a connection that fcron has closed it gets a
\* SIGPIPE, which ends it.
Ask(c) ==
    /\ st[c] = "prompt" /\ num[c] < MaxCmds[c]
    /\ IF c \in closed
       THEN Leave(c) /\ UNCHANGED to_fcron
       ELSE /\ num' = [num EXCEPT ![c] = @ + 1]
            /\ answer' = [answer EXCEPT ![c] = {}] /\ unheard' = unheard \ {c}
            /\ \E cmd \in parse_cmd(user_str[c]) :
                  to_fcron' = [to_fcron EXCEPT ![c] = Append(@, [num |-> num'[c], cmd |-> cmd])]
            /\ st' = [st EXCEPT ![c] = "sent"]
            /\ UNCHANGED <<to_client, reset, crossed>>
    /\ UNCHANGED <<peercred, fcron, backlog, closed>>

\* END_STR is seen only when the bytes that recv() has given end with the whole
\* of it.  The rest of one that was cut is not an end, and prints as nothing.
SeesEnd(chunk) == {AtEnd(chunk)} \cup (IF "cut_end" \in Faults THEN {FALSE} ELSE {})

\* recv() takes what is there, up to LINE_LEN.
Recv(c) ==
    /\ st[c] \in {"sent", "reading"} /\ to_client[c] # <<>>
    /\ \E k \in 1 .. Len(to_client[c]) :
          LET chunk == SubSeq(to_client[c], 1, k)
          IN  /\ answer' = [answer EXCEPT ![c] = @ \cup {m.cmd : m \in Range(chunk)}]
              /\ \E seen \in SeesEnd(chunk) :
                    /\ st' = [st EXCEPT ![c] = IF seen THEN "prompt" ELSE "reading"]
                    /\ unheard' = IF AtEnd(chunk) /\ ~seen THEN unheard \cup {c} ELSE unheard
              /\ to_client' = [to_client EXCEPT ![c] = SubSeq(@, k + 1, Len(@))]
    /\ UNCHANGED <<peercred, fcron, backlog, to_fcron, closed, reset, num, crossed>>

\* The end of the connection is an error, but a failing recv() is not.
Disconnected(c) ==
    /\ st[c] \in {"auth", "sent", "reading"} /\ to_client[c] = <<>> /\ c \in closed
    /\ IF <<c, "fcrondyn">> \in reset /\ st[c] # "auth"
       THEN /\ st' = [st EXCEPT ![c] = "prompt"] /\ reset' = reset \ {<<c, "fcrondyn">>}
            /\ UNCHANGED <<to_client, num, answer, crossed, unheard>>
       ELSE Leave(c)
    /\ UNCHANGED <<peercred, fcron, backlog, to_fcron, closed>>

\* Nothing came for MAX_WAIT_TIME.  Only the first wait has a limit.
TimesOut(c) ==
    /\ st[c] \in {"auth", "sent"} /\ to_client[c] = <<>> /\ c \notin closed
    /\ Leave(c)
    /\ UNCHANGED <<peercred, fcron, backlog, to_fcron, closed>>

\* quit, the end of the input, or control-C.
Quit(c) ==
    /\ st[c] \notin {"new", "gone"}
    /\ Leave(c)
    /\ UNCHANGED <<peercred, fcron, backlog, to_fcron, closed>>

talk_fcron(c) == Recv(c) \/ Disconnected(c) \/ TimesOut(c) \/ authenticate_user_password(c)

-----------------------------------------------------------------------------
Daemon == select_call \/ fcrondyn_socket_check

Next ==
    \/ Daemon \/ TimePasses \/ Stops \/ Starts
    \/ \E c \in Clients : connect_fcron(c) \/ Ask(c) \/ talk_fcron(c) \/ Quit(c)

Fairness == WF_vars(Daemon) /\ \A c \in Clients : WF_vars(talk_fcron(c))

Spec == Init /\ [][Next]_vars /\ Fairness

-----------------------------------------------------------------------------
\* The descriptors in the list of clients.
Listed ==
    LET nth[i \in 0 .. MaxFd] ==
            IF i = 0 THEN base ELSE IF nth[i - 1] = NULL THEN NULL ELSE next[nth[i - 1]]
    IN  {nth[i] : i \in 0 .. MaxFd} \ {NULL}

\* Whatever order connections come and go in while the list is walked, the list
\* holds the open ones, select() watches these and the listening socket and no
\* other, and the walk stands on one of them, next to the one it has just left
\* (fcrondyn_svr.c:864-1003, select.c:41-68).
ListedIsWatched ==
    at # "stopped" =>
        /\ Listed = {fd \in Fds : peer[fd] # NULL}
        /\ master = Listed \cup {listen_fd}
        /\ at \in {"walk", "answer"} =>
              /\ client \in Listed \cup {NULL}
              /\ prev_client # NULL => prev_client \in Listed /\ next[prev_client] = client

\* What fcrondyn takes for the answer of a command is that of this command,
\* wherever recv() cuts what it gets, in an END_STR too, whatever a full socket
\* has lost, and whoever is faster, unless a command failed on one of the
\* entries of exe_list, as its answer then has two ends
\* (fcrondyn.c:582-625, fcrondyn_svr.c:654-720).
AnswersInStep ==
    \A c \in Clients \ crossed : answer[c] \subseteq {num[c]}

\* talk_fcron() returns, each time it is called: with the answer, because the
\* connection is closed, or because nothing came, although only its first wait
\* has a limit (fcrondyn.c:571-625).  As it is called finitely often, again and
\* again nobody waits.  Not so if an END_STR is cut, which dyncom.h:43-44 thinks a
\* short string avoids, or lost: fcrondyn then waits for ever.
TalkReturns ==
    []<>(\A c \in Clients : st[c] \in {"auth", "sent", "reading"} => c \in unheard)
=============================================================================
