--------------------------- MODULE FcrondynProofs ---------------------------
(***************************************************************************)
(* Two theorems about Fcrondyn: fcron's list of clients, its select set    *)
(* and the walk agree, and the answers that fcrondyn reads are those of    *)
(* its last command.                                                       *)
(***************************************************************************)
EXTENDS Fcrondyn, KeptOrderProofs

-----------------------------------------------------------------------------
(* The list of clients.                                                    *)

Open == {fd \in Fds : peer[fd] # NULL}

(* The list goes through q[1], ..., q[n], which are the open descriptors.  *)
Chain(n, q) ==
  /\ \A i, j \in 1..n : q[i] = q[j] => i = j
  /\ \A fd \in Fds : peer[fd] # NULL <=> \E i \in 1..n : q[i] = fd
  /\ base = IF n = 0 THEN NULL ELSE q[1]
  /\ \A i \in 1..n : next[q[i]] = IF i = n THEN NULL ELSE q[i + 1]

OneList == \E n \in 0..MaxFd : \E q \in [1..n -> Fds] : Chain(n, q)

(* The walk is on an open connection or at the end, and has just left the  *)
(* one before it.                                                          *)
Place ==
  at \in {"walk", "answer"} =>
    /\ client \in Open \cup {NULL}
    /\ at = "answer" => client # NULL
    /\ IF prev_client = NULL THEN client = base
       ELSE prev_client \in Open /\ next[prev_client] = client

(* A run of fcrondyn connects once: it is in one place of the backlog, or  *)
(* at the other end of one descriptor, or nowhere.                         *)
OnePlace ==
  /\ \A i, j \in 1..Len(backlog) : backlog[i] = backlog[j] => i = j
  /\ \A fd, fe \in Open : peer[fd] = peer[fe] => fd = fe
  /\ \A i \in 1..Len(backlog), fd \in Open : backlog[i] # peer[fd]
  /\ \A i \in 1..Len(backlog) : st[backlog[i]] # "new"
  /\ \A fd \in Open : st[peer[fd]] # "new"

Places == {"select", "accept", "walk", "answer", "stopped"}

States == {"new", "auth", "prompt", "sent", "reading", "gone"}

ListTypes ==
  /\ at \in Places
  /\ peer \in [Fds -> Clients \cup {NULL}] /\ DOMAIN next = Fds
  /\ backlog \in Seq(Clients) /\ st \in [Clients -> States]
  /\ master \subseteq Fds \cup {listen_fd}
  /\ readfds \subseteq Fds \cup {listen_fd}

Watched == at # "stopped" => master = Open \cup {listen_fd}

Called == at = "accept" /\ listen_fd \in readfds => backlog # <<>>

Idle == at = "stopped" => backlog = <<>> /\ Open = {}

ListInv ==
  /\ ListTypes /\ OneList /\ Place /\ OnePlace /\ Watched /\ Called /\ Idle

-----------------------------------------------------------------------------
(* The messages on their way.                                              *)

Message == [cmd : Nat, what : {"text", "end", "0", "1"}]

Mine(c) == at = "answer" /\ peer[client] = c

(* What fcrondyn has still to read: what was sent, and what will be.       *)
ToSend(c) == IF Mine(c) THEN out ELSE <<>>
Coming(c) == to_client[c] \o ToSend(c)

(* A piece of the answer to command n: if the end is in it, it is last.    *)
Whole(s, n) ==
  \A i \in 1..Len(s) : s[i].cmd = n /\ (s[i].what = "end" => i = Len(s))

Known(c) == \A fd \in Fds : peer[fd] = c => fcl_user[fd] # NoUser
Unknown(c) == \A fd \in Fds : peer[fd] = c => fcl_user[fd] = NoUser

(* One question at a time: what was asked is not read yet, or all that is  *)
(* on its way answers it.                                                  *)
InStep(c) ==
  /\ to_client[c] \in Seq(Message) /\ ToSend(c) \in Seq(Message)
  /\ to_fcron[c] # <<>> => Coming(c) = <<>>
  /\ answer[c] \subseteq {num[c]}
  /\ st[c] = "new" => to_fcron[c] = <<>> /\ Coming(c) = <<>>
  /\ st[c] = "auth" =>
       /\ to_fcron[c] # <<>> => Unknown(c)
       /\ Coming(c) # <<>> =>
            Len(Coming(c)) = 1 /\ (Head(Coming(c)).what = "1" => Known(c))
  /\ st[c] = "prompt" => to_fcron[c] = <<>> /\ Coming(c) = <<>> /\ Known(c)
  /\ st[c] \in {"sent", "reading"} =>
       /\ Known(c) /\ Whole(Coming(c), num[c])
       /\ to_fcron[c] # <<>> => /\ Head(to_fcron[c]).num = num[c]
                                /\ Head(to_fcron[c]).cmd.code \in JobCodes \cup ListCodes

(* A connection that is not accepted yet.                                  *)
Waits(c) ==
  /\ st[c] # "gone" => to_client[c] = <<>>
  /\ st[c] \in IF peercred THEN {"prompt", "sent", "gone"} ELSE {"auth", "gone"}

AllWait == \A i \in 1..Len(backlog) : Waits(backlog[i])

Ended(c) ==
  /\ to_fcron[c] = <<>> /\ st[c] # "new"
  /\ \A i \in 1..Len(backlog) : backlog[i] # c
  /\ \A fd \in Fds : peer[fd] # c

StepTypes ==
  /\ DOMAIN to_fcron = Clients /\ DOMAIN to_client = Clients
  /\ DOMAIN answer = Clients /\ num \in [Clients -> Nat]
  /\ DOMAIN fcl_user = Fds /\ closed \subseteq Clients /\ peercred \in BOOLEAN

StepInv ==
  /\ StepTypes /\ AllWait
  /\ \A c \in closed : Ended(c)
  /\ \A c \in Clients \ crossed : st[c] # "gone" => InStep(c)
  /\ \A c \in Clients : st[c] \in {"new", "gone"} => answer[c] = {} /\ c \notin crossed

-----------------------------------------------------------------------------
(* Descriptors, and how many of them are open.                             *)

LEMMA FdsAre ==
  /\ Fds \subseteq Nat /\ NULL \notin Fds /\ listen_fd \notin Fds
  /\ IsFiniteSet(Fds) /\ Cardinality(Fds) \in Nat /\ Cardinality(Fds) <= MaxFd
  /\ MaxFd > 0 => Cardinality(Fds) = MaxFd - 1
<1>1. MaxFd \in Nat
  BY FcrondynAssumption DEF FcrondynAssumption
<1>2. IsFiniteSet(2..MaxFd) /\ Cardinality(2..MaxFd) = IF 2 > MaxFd THEN 0 ELSE MaxFd - 2 + 1
  BY <1>1, FS_Interval
<1>3. Fds = 2..MaxFd
  BY DEF Fds, listen_fd
<1> QED  BY <1>1, <1>2, <1>3 DEF NULL, listen_fd

LEMMA ChainIsShort ==
  ASSUME NEW n \in Nat, NEW q \in [1..n -> Fds],
         \A i, j \in 1..n : q[i] = q[j] => i = j
  PROVE  n \in 0..MaxFd
<1>1. MaxFd \in Nat
  BY FcrondynAssumption DEF FcrondynAssumption
<1>2. IsFiniteSet(1..n) /\ Cardinality(1..n) = n
  BY FS_Interval
<1>3. q \in Injection(1..n, Fds)
  BY DEF Injection, IsInjective
<1>4. Cardinality(1..n) <= Cardinality(Fds)
  BY <1>3, FS_Injection, FdsAre
<1> QED  BY <1>1, <1>2, <1>4, FdsAre

(* accept() finds a descriptor: there are more of them than clients, and   *)
(* the one that connects has none.                                         *)
LEMMA SomeFdIsFree ==
  ASSUME ListInv, backlog # <<>>
  PROVE  \E fd \in Fds : peer[fd] = NULL
<1> DEFINE Others == Clients \ {Head(backlog)}
<1>1. backlog \in Seq(Clients) /\ peer \in [Fds -> Clients \cup {NULL}]
  BY DEF ListInv, ListTypes
<1>2. Len(backlog) \in Nat \ {0} /\ Head(backlog) = backlog[1] /\ Head(backlog) \in Clients
  BY <1>1, EmptySeq, HeadTailProperties
<1> SUFFICES ASSUME \A fd \in Fds : peer[fd] # NULL PROVE FALSE
  OBVIOUS
<1>3. Open = Fds
  BY DEF Open
<1>4. \A fd \in Fds : peer[fd] \in Others
  BY <1>1, <1>2, <1>3 DEF ListInv, OnePlace
<1>5. peer \in Injection(Fds, Others)
  <2>1. peer \in [Fds -> Others]
    BY <1>1, <1>4
  <2>2. \A fd, fe \in Fds : peer[fd] = peer[fe] => fd = fe
    BY <1>3 DEF ListInv, OnePlace
  <2> HIDE DEF Others
  <2> QED  BY <2>1, <2>2 DEF Injection, IsInjective
<1>6. IsFiniteSet(Clients) /\ Cardinality(Clients) \in Nat /\ Clients # {}
      /\ MaxFd \in Nat /\ MaxFd > Cardinality(Clients)
  BY <1>2, FcrondynAssumption, FS_CardinalityType DEF FcrondynAssumption
<1>7. IsFiniteSet(Others) /\ Cardinality(Others) = Cardinality(Clients) - 1
  BY <1>2, <1>6, FS_RemoveElement
<1>8. Cardinality(Fds) <= Cardinality(Others)
  <2> HIDE DEF Others
  <2> QED  BY <1>5, <1>7, FS_Injection
<1> QED  BY <1>6, <1>7, <1>8, FdsAre

LEMMA MinIs ==
  ASSUME NEW S \in SUBSET Nat, S # {}
  PROVE  Min(S) \in S
BY LeastNumber DEF Min

(* Walking the list from base finds each open descriptor.                  *)
LEMMA ListedIsOpen ==
  ASSUME OneList
  PROVE  Listed = Open
<1>1. PICK n \in 0..MaxFd : \E q \in [1..n -> Fds] : Chain(n, q)
  BY DEF OneList
<1>2. PICK q \in [1..n -> Fds] : Chain(n, q)
  BY <1>1
<1>3. MaxFd \in Nat
  BY FcrondynAssumption DEF FcrondynAssumption
<1> DEFINE Of(f) == [i \in 0..MaxFd |->
                       IF i = 0 THEN base
                       ELSE IF f[i - 1] = NULL THEN NULL ELSE next[f[i - 1]]]
           nth == CHOOSE f : f = Of(f)
           g == [i \in 0..MaxFd |-> IF i < n THEN q[i + 1] ELSE NULL]
<1>4. Listed = {nth[i] : i \in 0..MaxFd} \ {NULL}
  BY DEF Listed
<1>5. \A i \in 0..MaxFd : g[i] = Of(g)[i]
  <2> TAKE i \in 0..MaxFd
  <2>1. CASE i = 0
    BY <2>1, <1>2, <1>3 DEF Chain
  <2>2. CASE i # 0 /\ i <= n
    <3>1. i - 1 \in 0..MaxFd /\ i - 1 < n /\ i \in 1..n
      BY <2>2, <1>3
    <3>2. g[i - 1] = q[i] /\ q[i] \in Fds
      BY <3>1
    <3>3. Of(g)[i] = next[q[i]]
      BY <2>2, <3>2, FdsAre
    <3>4. next[q[i]] = IF i = n THEN NULL ELSE q[i + 1]
      BY <3>1, <1>2 DEF Chain
    <3> QED  BY <2>2, <3>1, <3>3, <3>4
  <2>3. CASE i > n /\ i # 0
    <3>1. i - 1 \in 0..MaxFd /\ ~(i - 1 < n) /\ ~(i < n)
      BY <2>3, <1>3
    <3> QED  BY <3>1, <2>3
  <2> QED  BY <2>1, <2>2, <2>3, <1>3
<1>6. g = Of(g)
  BY <1>5
<1>7. nth = Of(nth)
  <2> HIDE DEF Of, g
  <2> QED  BY <1>6
<1>8. \A i \in 0..MaxFd : nth[i] = g[i]
  <2> DEFINE Bad == {i \in 0..MaxFd : nth[i] # g[i]}
  <2> SUFFICES ASSUME Bad # {} PROVE FALSE
    OBVIOUS
  <2>1. PICK i \in Bad : \A j \in Bad : i <= j
    <3>1. Bad \in SUBSET Nat
      OBVIOUS
    <3> HIDE DEF Bad
    <3> QED  BY <3>1, LeastNumber
  <2>2. i \in 0..MaxFd /\ nth[i] # g[i]
    OBVIOUS
  <2> HIDE DEF nth, g
  <2>3. CASE i = 0
    BY <2>2, <2>3, <1>6, <1>7
  <2>4. CASE i # 0
    <3>1. i - 1 \in 0..MaxFd /\ ~(i <= i - 1)
      BY <2>2, <2>4, <1>3
    <3>2. nth[i - 1] = g[i - 1]
      BY <3>1, <2>1
    <3>3. \A f : f = Of(f) => f[i] = IF f[i - 1] = NULL THEN NULL ELSE next[f[i - 1]]
      BY <2>2, <2>4, <3>1
    <3> HIDE DEF Of
    <3>4. /\ nth[i] = IF nth[i - 1] = NULL THEN NULL ELSE next[nth[i - 1]]
          /\ g[i] = IF g[i - 1] = NULL THEN NULL ELSE next[g[i - 1]]
      BY <3>3, <1>6, <1>7
    <3> QED  BY <3>2, <3>4, <2>2
  <2> QED  BY <2>3, <2>4
<1>9. {g[i] : i \in 0..MaxFd} \ {NULL} = Open
  <2>1. \A i \in 0..MaxFd : g[i] # NULL => g[i] \in Open
    <3> SUFFICES ASSUME NEW i \in 0..MaxFd, i < n PROVE q[i + 1] \in Open
      OBVIOUS
    <3>1. i + 1 \in 1..n
      BY <1>3
    <3> QED  BY <1>2, <3>1 DEF Chain, Open
  <2>2. ASSUME NEW fd \in Open PROVE \E i \in 0..MaxFd : g[i] = fd
    <3>1. PICK i \in 1..n : q[i] = fd
      BY <1>2 DEF Chain, Open
    <3>2. i - 1 \in 0..MaxFd /\ i - 1 < n /\ (i - 1) + 1 = i
      BY <1>3
    <3> QED  BY <3>1, <3>2
  <2>3. NULL \notin Open
    BY FdsAre DEF Open
  <2> HIDE DEF g
  <2> QED  BY <2>1, <2>2, <2>3
<1> QED
  <2> HIDE DEF nth, g
  <2> QED  BY <1>4, <1>8, <1>9

-----------------------------------------------------------------------------
(* The steps that leave the list as it is.                                 *)

list == <<base, next, peer, master>>

LEMMA SameList ==
  ASSUME UNCHANGED list
  PROVE  /\ OneList => OneList'
         /\ Open' = Open
<1>1. base' = base /\ next' = next /\ peer' = peer
  BY DEF list
<1>2. \A n, q : Chain(n, q) => Chain(n, q)'
  BY <1>1 DEF Chain
<1> QED  BY <1>1, <1>2 DEF OneList, Open

LEMMA LinksAreOpen ==
  ASSUME OneList
  PROVE  /\ base \in Open \cup {NULL}
         /\ \A fd \in Open : next[fd] \in Open \cup {NULL}
<1>1. PICK n \in 0..MaxFd : \E q \in [1..n -> Fds] : Chain(n, q)
  BY DEF OneList
<1>2. PICK q \in [1..n -> Fds] : Chain(n, q)
  BY <1>1
<1>3. MaxFd \in Nat
  BY FcrondynAssumption DEF FcrondynAssumption
<1>4. \A i \in 1..n : q[i] \in Open
  BY <1>2 DEF Chain, Open
<1>5. base \in Open \cup {NULL}
  <2>1. n # 0 => 1 \in 1..n
    BY <1>3
  <2> QED  BY <2>1, <1>2, <1>4 DEF Chain
<1>6. ASSUME NEW fd \in Open
      PROVE  next[fd] \in Open \cup {NULL}
  <2>1. PICK i \in 1..n : q[i] = fd
    BY <1>2 DEF Chain, Open
  <2>2. i # n => i + 1 \in 1..n
    BY <1>3
  <2>3. next[q[i]] = IF i = n THEN NULL ELSE q[i + 1]
    BY <1>2 DEF Chain
  <2> QED  BY <2>1, <2>2, <2>3, <1>4
<1> QED  BY <1>5, <1>6

(* What a run of fcrondyn does once it is connected.                       *)
LEMMA UserKeeps ==
  ASSUME ListInv, UNCHANGED <<fcron, backlog>>, st' \in [Clients -> States],
         \A c \in Clients : st'[c] = "new" => st[c] = "new"
  PROVE  ListInv'
<1>1. UNCHANGED list /\ OneList' /\ Open' = Open
  BY SameList DEF fcron, list, ListInv
<1>2. UNCHANGED <<at, client, prev_client, readfds>>
  BY DEF fcron
<1>3. ListTypes' /\ Place' /\ Watched' /\ Called' /\ Idle'
  BY <1>1, <1>2 DEF ListInv, ListTypes, Place, Watched, Called, Idle, list
<1>4. OnePlace'
  <2>1. \A i \in 1..Len(backlog) : backlog[i] \in Clients
    BY ElementOfSeq DEF ListInv, ListTypes
  <2>2. \A fd \in Open : peer[fd] \in Clients
    BY DEF ListInv, ListTypes, Open
  <2> QED  BY <2>1, <2>2, <1>1 DEF ListInv, OnePlace, list
<1> QED  BY <1>1, <1>3, <1>4 DEF ListInv

(* What fcron does between two changes of the list.                        *)
LEMMA FcronKeeps ==
  ASSUME ListInv, UNCHANGED <<list, backlog, st>>, at # "stopped",
         at' \in Places \ {"stopped"}, Place', Called',
         readfds' \subseteq Fds \cup {listen_fd}
  PROVE  ListInv'
<1>1. OneList' /\ Open' = Open
  BY SameList DEF ListInv
<1>2. ListTypes' /\ Watched' /\ Idle'
  BY <1>1 DEF ListInv, ListTypes, Watched, Idle, list
<1>3. OnePlace'
  BY <1>1 DEF ListInv, OnePlace, list
<1> QED  BY <1>1, <1>2, <1>3 DEF ListInv

LEMMA SelectStep ==
  ASSUME ListInv, select_call
  PROVE  ListInv'
<1>1. UNCHANGED <<list, backlog, st>> /\ at = "select" /\ at' \in {"select", "accept"}
  BY DEF select_call, list, socks, users
<1>2. Place'
  BY <1>1 DEF Place
<1>3. listen_fd \in readfds' => backlog # <<>>
  BY DEF select_call, Readable
<1>4. readfds' \subseteq Fds \cup {listen_fd}
  BY DEF select_call, ListInv, ListTypes
<1> QED  BY <1>1, <1>2, <1>3, <1>4, FcronKeeps DEF Places, Called

LEMMA NoAcceptStep ==
  ASSUME ListInv, NoAccept
  PROVE  ListInv'
<1>1. UNCHANGED <<list, backlog, st>> /\ at = "accept" /\ at' = "walk"
      /\ client' = base /\ prev_client' = NULL /\ UNCHANGED readfds
  BY DEF NoAccept, StartWalk, list, socks, users
<1>2. Place'
  <2>1. Open' = Open /\ base \in Open \cup {NULL}
    BY <1>1, SameList, LinksAreOpen DEF ListInv
  <2> QED  BY <1>1, <2>1 DEF Place, list
<1> QED  BY <1>1, <1>2, FcronKeeps DEF Places, Called, ListInv, ListTypes

(* To the next connection.                                                 *)
LEMMA MoveStep ==
  ASSUME ListInv, UNCHANGED <<list, backlog, st, readfds>>, ToNext,
         at \in {"walk", "answer"}, client # NULL, at' = "walk"
  PROVE  ListInv'
<1>1. Place'
  <2>1. Open' = Open /\ client \in Open /\ next[client] \in Open \cup {NULL}
    BY SameList, LinksAreOpen DEF ListInv, Place
  <2>2. client \in Fds /\ NULL \notin Fds
    BY <2>1, FdsAre DEF Open
  <2> QED  BY <2>1, <2>2 DEF Place, ToNext, list
<1> QED  BY <1>1, FcronKeeps DEF Places, Called, ListInv, ListTypes

(* A command or a password has been read.                                  *)
LEMMA ReadStep ==
  ASSUME ListInv, Walking, UNCHANGED <<list, backlog, st, readfds, client, prev_client>>,
         at' = "answer"
  PROVE  ListInv'
<1>1. Place'
  <2>1. Open' = Open
    BY SameList
  <2> QED  BY <2>1 DEF Place, Walking, ListInv, list
<1> QED  BY <1>1, FcronKeeps DEF Places, Called, ListInv, ListTypes, Walking

LEMMA EndWalkStep ==
  ASSUME ListInv, EndWalk
  PROVE  ListInv'
<1>1. UNCHANGED <<list, backlog, st>> /\ at = "walk" /\ at' = "select" /\ readfds' = {}
  BY DEF EndWalk, list, socks, users
<1> QED  BY <1>1, FcronKeeps DEF Places, Called, Place

-----------------------------------------------------------------------------
(* The steps that change the list.                                         *)

LEMMA InitStep == Init => ListInv
<1> SUFFICES ASSUME Init PROVE ListInv
  OBVIOUS
<1> USE DEF Init, fcrondyn_socket_init
<1>1. MaxFd \in Nat
  BY FcrondynAssumption DEF FcrondynAssumption
<1>2. Open = {}
  BY DEF Open
<1>3. OneList
  <2>1. 0 \in 0..MaxFd /\ [i \in 1..0 |-> NULL] \in [1..0 -> Fds]
    BY <1>1
  <2>2. Chain(0, [i \in 1..0 |-> NULL])
    BY DEF Chain
  <2> QED  BY <2>1, <2>2 DEF OneList
<1>4. ListTypes
  BY EmptySeq DEF ListTypes, Places, States, listen_fd
<1>5. OnePlace
  BY <1>2, EmptySeq DEF OnePlace
<1> QED
  BY <1>2, <1>3, <1>4, <1>5 DEF ListInv, Place, Watched, Called, Idle

(* accept() gives a free descriptor, fd, to the first client of the        *)
(* backlog, c, and puts it first in the list.                              *)
LEMMA AcceptIs ==
  ASSUME ListInv, Accept
  PROVE  \E fd \in Fds, c \in Clients :
           /\ peer[fd] = NULL /\ Len(backlog) \in Nat \ {0} /\ c = backlog[1]
           /\ backlog' \in Seq(Clients) /\ Len(backlog') = Len(backlog) - 1
           /\ \A i \in 1..Len(backlog') : backlog'[i] = backlog[i + 1]
           /\ peer' = [peer EXCEPT ![fd] = c] /\ next' = [next EXCEPT ![fd] = base]
           /\ fcl_user' = [fcl_user EXCEPT ![fd] = auth_client_so_peercred(c)]
           /\ base' = fd /\ master' = master \cup {fd}
           /\ at = "accept" /\ at' = "walk" /\ client' = fd /\ prev_client' = NULL
           /\ UNCHANGED <<readfds, peercred, to_fcron, to_client, closed, st, num, answer,
                          crossed>>
<1>1. backlog \in Seq(Clients) /\ backlog # <<>>
  BY DEF Accept, ListInv, ListTypes, Called
<1>2. PICK fd \in Fds : peer[fd] = NULL /\ fd = Min({i \in Fds : peer[i] = NULL})
  <2> DEFINE S == {i \in Fds : peer[i] = NULL}
  <2>1. S \in SUBSET Nat /\ S # {}
    BY <1>1, SomeFdIsFree, FdsAre
  <2> HIDE DEF S
  <2>2. Min(S) \in S
    BY <2>1, MinIs
  <2> QED  BY <2>2 DEF S
<1>3. PICK c : c = Head(backlog)
  OBVIOUS
<1>4. /\ Len(backlog) \in Nat \ {0} /\ c \in Clients /\ c = backlog[1]
      /\ Tail(backlog) \in Seq(Clients) /\ Len(Tail(backlog)) = Len(backlog) - 1
      /\ \A i \in 1..Len(Tail(backlog)) : Tail(backlog)[i] = backlog[i + 1]
  BY <1>1, <1>3, EmptySeq, HeadTailProperties
<1>5. /\ peer' = [peer EXCEPT ![fd] = c] /\ next' = [next EXCEPT ![fd] = base]
      /\ fcl_user' = [fcl_user EXCEPT ![fd] = auth_client_so_peercred(c)]
      /\ base' = fd /\ backlog' = Tail(backlog) /\ master' = master \cup {fd}
      /\ at = "accept" /\ at' = "walk" /\ client' = fd /\ prev_client' = NULL
      /\ UNCHANGED <<readfds, peercred, to_fcron, to_client, closed, st, num, answer, crossed>>
  BY <1>2, <1>3 DEF Accept, StartWalk, select_add_read, users
<1> QED  BY <1>2, <1>4, <1>5

(* The new connection becomes the first of the list.                       *)
LEMMA AcceptStep ==
  ASSUME ListInv, Accept
  PROVE  ListInv'
<1>1. PICK fd \in Fds, c \in Clients :
        /\ peer[fd] = NULL /\ Len(backlog) \in Nat \ {0} /\ c = backlog[1]
        /\ backlog' \in Seq(Clients) /\ Len(backlog') = Len(backlog) - 1
        /\ \A i \in 1..Len(backlog') : backlog'[i] = backlog[i + 1]
        /\ peer' = [peer EXCEPT ![fd] = c] /\ next' = [next EXCEPT ![fd] = base]
        /\ base' = fd /\ master' = master \cup {fd}
        /\ at = "accept" /\ at' = "walk" /\ client' = fd /\ prev_client' = NULL
        /\ UNCHANGED <<readfds, st>>
  BY AcceptIs
<1>2. c # NULL /\ NULL \notin Fds /\ fd \in Nat
  BY <1>1, FdsAre, FcrondynAssumption DEF FcrondynAssumption
<1>3. peer \in [Fds -> Clients \cup {NULL}] /\ DOMAIN next = Fds
  BY DEF ListInv, ListTypes
<1>4. Open' = Open \cup {fd}
  BY <1>1, <1>2, <1>3 DEF Open
<1>5. ListTypes'
  <2>1. peer' \in [Fds -> Clients \cup {NULL}] /\ DOMAIN next' = Fds
    BY <1>1, <1>3
  <2>2. backlog' \in Seq(Clients) /\ master' \subseteq Fds \cup {listen_fd}
    BY <1>1 DEF ListInv, ListTypes
  <2> QED  BY <1>1, <2>1, <2>2 DEF ListInv, ListTypes, Places
<1>6. OneList'
  <2>1. PICK n \in 0..MaxFd : \E q \in [1..n -> Fds] : Chain(n, q)
    BY DEF ListInv, OneList
  <2>2. PICK q \in [1..n -> Fds] : Chain(n, q)
    BY <2>1
  <2> DEFINE r == [i \in 1..n + 1 |-> IF i = 1 THEN fd ELSE q[i - 1]]
  <2>3. n \in Nat /\ n + 1 \in Nat
    BY FcrondynAssumption DEF FcrondynAssumption
  <2>4. \A i \in 1..n : q[i] \in Fds /\ q[i] # fd
    BY <2>2, <1>1 DEF Chain
  <2>5. r \in [1..n + 1 -> Fds] /\ r[1] = fd /\ \A i \in 1..n : r[i + 1] = q[i]
    <3>1. \A i \in 1..n + 1 : i # 1 => i - 1 \in 1..n
      BY <2>3
    <3>2. 1 \in 1..n + 1 /\ \A i \in 1..n : i + 1 \in 1..n + 1 /\ i + 1 # 1 /\ (i + 1) - 1 = i
      BY <2>3
    <3> QED  BY <3>1, <3>2, <2>4, <1>1
  <2>6. \A i \in 1..n + 1 : i = 1 \/ (i - 1 \in 1..n /\ r[i] = q[i - 1])
    BY <2>3
  <2> HIDE DEF r
  <2>7. \A i, j \in 1..n + 1 : r[i] = r[j] => i = j
    <3> SUFFICES ASSUME NEW i \in 1..n + 1, NEW j \in 1..n + 1, r[i] = r[j], i # j
                 PROVE FALSE
      OBVIOUS
    <3>1. CASE i = 1 \/ j = 1
      BY <3>1, <2>4, <2>5, <2>6
    <3>2. CASE i # 1 /\ j # 1
      <4>1. i - 1 \in 1..n /\ j - 1 \in 1..n /\ q[i - 1] = q[j - 1] /\ i - 1 # j - 1
        BY <3>2, <2>3, <2>6
      <4> QED  BY <4>1, <2>2 DEF Chain
    <3> QED  BY <3>1, <3>2
  <2>8. n + 1 \in 0..MaxFd
    BY <2>3, <2>5, <2>7, ChainIsShort
  <2>9. Chain(n + 1, r)'
    <3>1. \A fe \in Fds : peer'[fe] # NULL <=> \E i \in 1..n + 1 : r[i] = fe
      <4> TAKE fe \in Fds
      <4>1. CASE fe = fd
        <5>1. peer'[fe] # NULL
          BY <4>1, <1>1, <1>2, <1>3
        <5>2. 1 \in 1..n + 1
          BY <2>3
        <5> QED  BY <4>1, <5>1, <5>2, <2>5
      <4>2. CASE fe # fd
        <5>1. peer'[fe] # NULL <=> \E i \in 1..n : q[i] = fe
          BY <4>2, <1>1, <1>3, <2>2 DEF Chain
        <5>2. \A i \in 1..n : i + 1 \in 1..n + 1
          BY <2>3
        <5> QED  BY <4>2, <5>1, <5>2, <2>5, <2>6
      <4> QED  BY <4>1, <4>2
    <3>2. base' = IF n + 1 = 0 THEN NULL ELSE r[1]
      BY <2>3, <2>5, <1>1
    <3>3. \A i \in 1..n + 1 : next'[r[i]] = IF i = n + 1 THEN NULL ELSE r[i + 1]
      <4> TAKE i \in 1..n + 1
      <4>1. CASE i = 1
        <5>1. next'[r[1]] = IF n = 0 THEN NULL ELSE q[1]
          BY <1>1, <1>3, <2>2, <2>5 DEF Chain
        <5>2. n # 0 => 1 \in 1..n /\ r[1 + 1] = q[1]
          BY <2>3, <2>5
        <5> QED  BY <4>1, <5>1, <5>2, <2>3
      <4>2. CASE i # 1
        <5>1. i - 1 \in 1..n /\ r[i] = q[i - 1]
          BY <4>2, <2>6
        <5>2. next'[r[i]] = next[q[i - 1]]
          BY <5>1, <1>1, <1>3, <2>4
        <5>3. next[q[i - 1]] = IF i - 1 = n THEN NULL ELSE q[(i - 1) + 1]
          BY <5>1, <2>2 DEF Chain
        <5>4. i - 1 # n => i \in 1..n /\ (i - 1) + 1 = i /\ r[i + 1] = q[i]
          BY <5>1, <2>3, <2>5
        <5> QED  BY <5>2, <5>3, <5>4, <2>3
      <4> QED  BY <4>1, <4>2
    <3> QED  BY <2>7, <3>1, <3>2, <3>3 DEF Chain
  <2> QED  BY <2>5, <2>8, <2>9 DEF OneList
<1>7. OnePlace'
  <2>1. \A i \in 1..Len(backlog') : i + 1 \in 1..Len(backlog) /\ i + 1 # 1
    BY <1>1
  <2>2. \A i, j \in 1..Len(backlog') : i + 1 = j + 1 => i = j
    BY <1>1
  <2>3. 1 \in 1..Len(backlog)
    BY <1>1
  <2>4. OnePlace
    BY DEF ListInv
  <2>5. /\ peer'[fd] = c /\ \A fe \in Open : peer'[fe] = peer[fe] /\ fe # fd
    BY <1>1, <1>3 DEF Open
  <2>6. \A i \in 1..Len(backlog'), fe \in Open' : backlog'[i] # peer'[fe]
    BY <1>1, <1>4, <2>1, <2>3, <2>4, <2>5 DEF OnePlace
  <2>7. \A fe, ff \in Open' : peer'[fe] = peer'[ff] => fe = ff
    BY <1>1, <1>4, <2>3, <2>4, <2>5 DEF OnePlace
  <2>8. \A i, j \in 1..Len(backlog') : backlog'[i] = backlog'[j] => i = j
    BY <1>1, <2>1, <2>2, <2>4 DEF OnePlace
  <2>9. /\ \A i \in 1..Len(backlog') : st'[backlog'[i]] # "new"
        /\ \A fe \in Open' : st'[peer'[fe]] # "new"
    BY <1>1, <1>4, <2>1, <2>3, <2>4, <2>5 DEF OnePlace
  <2> QED  BY <2>6, <2>7, <2>8, <2>9 DEF OnePlace
<1>8. Place' /\ Watched' /\ Called' /\ Idle'
  BY <1>1, <1>4 DEF ListInv, Place, Watched, Called, Idle
<1> QED  BY <1>5, <1>6, <1>7, <1>8 DEF ListInv

(* The entry before, or the first, takes the place of the one that leaves. *)
LEMMA RemoveStep ==
  ASSUME ListInv, Walking, remove_connection
  PROVE  ListInv'
<1>1. client \in Fds /\ peer[client] # NULL /\ client \in Open
  BY DEF Walking, ListInv, Place, Open
<1>2. PICK n \in 0..MaxFd : \E q \in [1..n -> Fds] : Chain(n, q)
  BY DEF ListInv, OneList
<1>3. PICK q \in [1..n -> Fds] : Chain(n, q)
  BY <1>2
<1>4. n \in Nat /\ n - 1 \in Int
  BY FcrondynAssumption DEF FcrondynAssumption
<1>5. PICK k \in 1..n : q[k] = client
  BY <1>1, <1>3 DEF Chain
<1>6. peer \in [Fds -> Clients \cup {NULL}] /\ DOMAIN next = Fds
  BY DEF ListInv, ListTypes
<1>7. /\ peer' = [peer EXCEPT ![client] = NULL]
      /\ master' = master \ {client} /\ Unlink /\ client' = next[client]
      /\ UNCHANGED <<at, prev_client, readfds, backlog, st>>
  BY DEF remove_connection, select_rm_read, users
<1>8. Open' = Open \ {client}
  BY <1>1, <1>6, <1>7 DEF Open
<1>9. \A i, j \in 1..n : q[i] = q[j] => i = j
  BY <1>3 DEF Chain
(* prev_client is the entry before, if there is one. *)
<1>10. IF k = 1 THEN prev_client = NULL ELSE prev_client = q[k - 1]
  <2>1. CASE prev_client = NULL
    <3>1. client = base /\ n # 0 /\ 1 \in 1..n
      BY <2>1, <1>4, <1>5 DEF ListInv, Place, Walking
    <3> QED  BY <3>1, <2>1, <1>3, <1>5, <1>9 DEF Chain
  <2>2. CASE prev_client # NULL
    <3>1. prev_client \in Open /\ next[prev_client] = client
      BY <2>2 DEF ListInv, Place, Walking
    <3>2. PICK j \in 1..n : q[j] = prev_client
      BY <3>1, <1>3 DEF Chain, Open
    <3>3. next[q[j]] = IF j = n THEN NULL ELSE q[j + 1]
      BY <1>3 DEF Chain
    <3>4. j # n /\ q[j + 1] = client
      BY <3>1, <3>2, <3>3, <1>1, FdsAre
    <3>5. j + 1 \in 1..n /\ j + 1 # 1 /\ (j + 1) - 1 = j
      BY <3>4, <1>4
    <3>6. k = j + 1
      BY <3>4, <3>5, <1>5, <1>9
    <3> QED  BY <3>2, <3>5, <3>6
  <2> QED  BY <2>1, <2>2
<1>11. NULL \notin Fds /\ \A i \in 1..n : q[i] \in Fds /\ (q[i] = client <=> i = k)
  BY <1>5, <1>9, FdsAre
<1>12. \A i \in 1..n : next[q[i]] = IF i = n THEN NULL ELSE q[i + 1]
  BY <1>3 DEF Chain
<1>13. k # 1 => k - 1 \in 1..n /\ k - 1 # k /\ prev_client \in Fds /\ prev_client # NULL
               /\ prev_client # client /\ prev_client \in Open
  <2> SUFFICES ASSUME k # 1
               PROVE  k - 1 \in 1..n /\ k - 1 # k /\ prev_client \in Fds
                      /\ prev_client # NULL /\ prev_client # client /\ prev_client \in Open
    OBVIOUS
  <2>1. k - 1 \in 1..n /\ k - 1 # k
    BY <1>4
  <2>2. prev_client = q[k - 1]
    BY <1>10
  <2>3. prev_client \in Fds /\ prev_client # client /\ prev_client # NULL
    BY <2>1, <2>2, <1>11
  <2>4. prev_client \in Open
    BY <2>3 DEF ListInv, Place, Walking
  <2> QED  BY <2>1, <2>3, <2>4
(* What the entries of the list point to afterwards. *)
<1>14. /\ base' = IF k = 1 THEN next[client] ELSE base
       /\ DOMAIN next' = Fds
       /\ \A i \in 1..n : i # k =>
            next'[q[i]] = IF k # 1 /\ i = k - 1 THEN next[client] ELSE next[q[i]]
  <2>1. CASE k = 1
    <3>1. base' = next[client] /\ next' = [next EXCEPT ![client] = NULL]
      BY <2>1, <1>7, <1>10 DEF Unlink
    <3> QED  BY <2>1, <3>1, <1>6, <1>11
  <2>2. CASE k # 1
    <3>1. UNCHANGED base
          /\ next' = [next EXCEPT ![prev_client] = next[client], ![client] = NULL]
      BY <2>2, <1>7, <1>13 DEF Unlink
    <3>2. \A i \in 1..n : q[i] = prev_client <=> i = k - 1
      BY <2>2, <1>9, <1>10, <1>13
    <3> QED  BY <2>2, <3>1, <3>2, <1>6, <1>11, <1>13
  <2> QED  BY <2>1, <2>2
<1>15. OneList'
  <2> DEFINE r == [i \in 1..n - 1 |-> IF i < k THEN q[i] ELSE q[i + 1]]
             Old(i) == IF i < k THEN i ELSE i + 1
  <2>1. n - 1 \in Nat /\ \A i \in 1..n - 1 : i \in 1..n /\ i + 1 \in 1..n
    BY <1>4
  <2>2. \A i \in 1..n - 1 : Old(i) \in 1..n /\ Old(i) # k /\ r[i] = q[Old(i)]
    BY <2>1
  <2>3. \A i, j \in 1..n - 1 : Old(i) = Old(j) => i = j
    BY <2>1
  <2>4. \A i \in 1..n : i # k => \E j \in 1..n - 1 : Old(j) = i
    <3> TAKE i \in 1..n
    <3> HAVE i # k
    <3>1. CASE i < k
      <4>1. i \in 1..n - 1
        BY <3>1, <1>4
      <4> QED  BY <3>1, <4>1
    <3>2. CASE i > k
      <4>1. i - 1 \in 1..n - 1 /\ ~(i - 1 < k) /\ (i - 1) + 1 = i
        BY <3>2, <1>4
      <4> QED  BY <4>1
    <3> QED  BY <3>1, <3>2, <1>4
  <2>5. \A i \in 1..n - 1 : IF i = n - 1 THEN Old(i) = n \/ (k = n /\ Old(i) = n - 1)
                            ELSE Old(i + 1) = IF Old(i) + 1 = k THEN k + 1 ELSE Old(i) + 1
    BY <2>1
  <2>6. r \in [1..n - 1 -> Fds]
    <3>1. \A i \in 1..n - 1 : r[i] \in Fds
      BY <2>2, <1>11
    <3> QED  BY <3>1
  <2>7. \A i, j \in 1..n - 1 : r[i] = r[j] => i = j
    BY <2>2, <2>3, <1>9
  <2>8. n - 1 \in 0..MaxFd
    <3> HIDE DEF r
    <3> QED  BY <2>1, <2>6, <2>7, ChainIsShort
  <2>9. \A fd \in Fds : peer'[fd] # NULL <=> \E i \in 1..n - 1 : r[i] = fd
    <3> TAKE fd \in Fds
    <3>1. peer'[fd] # NULL <=> fd # client /\ peer[fd] # NULL
      BY <1>1, <1>6, <1>7
    <3>2. peer[fd] # NULL <=> \E i \in 1..n : q[i] = fd
      BY <1>3 DEF Chain
    <3>3. ASSUME NEW i \in 1..n, q[i] = fd, fd # client
          PROVE  \E j \in 1..n - 1 : r[j] = fd
      BY <3>3, <1>11, <2>2, <2>4
    <3>4. ASSUME NEW j \in 1..n - 1, r[j] = fd
          PROVE  fd # client /\ \E i \in 1..n : q[i] = fd
      BY <3>4, <1>11, <2>2
    <3> HIDE DEF r
    <3> QED  BY <3>1, <3>2, <3>3, <3>4
  <2>10. base' = IF n - 1 = 0 THEN NULL ELSE r[1]
    <3>1. CASE k = 1
      <4>1. base' = IF n = 1 THEN NULL ELSE q[2]
        BY <3>1, <1>5, <1>12, <1>14
      <4>2. n # 1 => 1 \in 1..n - 1 /\ r[1] = q[2]
        BY <3>1, <1>4
      <4> QED  BY <4>1, <4>2, <1>4
    <3>2. CASE k # 1
      <4>1. base' = q[1] /\ 1 \in 1..n - 1 /\ 1 < k
        BY <3>2, <1>3, <1>4, <1>14 DEF Chain
      <4> QED  BY <4>1, <1>4
    <3> QED  BY <3>1, <3>2
  <2>11. \A i \in 1..n - 1 : next'[r[i]] = IF i = n - 1 THEN NULL ELSE r[i + 1]
    <3> TAKE i \in 1..n - 1
    <3>1. Old(i) \in 1..n /\ Old(i) # k /\ r[i] = q[Old(i)]
      BY <2>2
    <3>2. next'[r[i]] = IF k # 1 /\ Old(i) = k - 1 THEN next[client] ELSE next[q[Old(i)]]
      BY <3>1, <1>14
    <3>3. next[client] = IF k = n THEN NULL ELSE q[k + 1]
      BY <1>5, <1>12
    <3>4. next[q[Old(i)]] = IF Old(i) = n THEN NULL ELSE q[Old(i) + 1]
      BY <3>1, <1>12
    <3>5. i # n - 1 => i + 1 \in 1..n - 1 /\ r[i + 1] = q[Old(i + 1)]
      BY <2>1, <2>2
    <3>6. k \in Nat /\ Old(i) \in Nat /\ k <= n /\ k >= 1
      BY <3>1, <1>4
    <3>7. CASE Old(i) = k - 1
      <4>1. k # 1 /\ next'[r[i]] = next[client] /\ i = k - 1
        BY <3>1, <3>2, <3>6, <3>7
      <4>2. i = n - 1 <=> k = n
        BY <4>1, <1>4
      <4>3. i # n - 1 => Old(i + 1) = k + 1
        BY <4>1, <1>4
      <4> HIDE DEF r, Old
      <4> QED  BY <4>1, <4>2, <4>3, <3>3, <3>5
    <3>8. CASE Old(i) # k - 1
      <4>1. next'[r[i]] = next[q[Old(i)]]
        BY <3>2, <3>8
      <4>2. Old(i) = n <=> i = n - 1
        BY <3>1, <3>8, <1>4
      <4>3. i # n - 1 => Old(i + 1) = Old(i) + 1
        BY <3>1, <3>8, <1>4
      <4> HIDE DEF r, Old
      <4> QED  BY <4>1, <4>2, <4>3, <3>4, <3>5
    <3> QED  BY <3>7, <3>8
  <2> HIDE DEF r
  <2>12. Chain(n - 1, r)'
    BY <2>7, <2>9, <2>10, <2>11 DEF Chain
  <2> QED  BY <2>6, <2>8, <2>12 DEF OneList
<1>16. Place'
  <2>1. next[client] \in Open \cup {NULL} /\ next[client] # client
    <3>1. next[client] \in Open \cup {NULL}
      BY <1>1, LinksAreOpen DEF ListInv
    <3>2. next[client] = IF k = n THEN NULL ELSE q[k + 1]
      BY <1>5, <1>12
    <3>3. k # n => k + 1 \in 1..n /\ k + 1 # k
      BY <1>4
    <3> QED  BY <3>1, <3>2, <3>3, <1>1, <1>11
  <2>2. CASE k = 1
    BY <2>1, <2>2, <1>7, <1>8, <1>10, <1>14 DEF Place, Walking
  <2>3. CASE k # 1
    <3>1. k - 1 \in 1..n /\ k - 1 # k /\ q[k - 1] = prev_client
      BY <2>3, <1>10, <1>13
    <3>2. next'[prev_client] = next[client]
      BY <2>3, <3>1, <1>14
    <3>3. prev_client \in Open' /\ prev_client # NULL
      BY <2>3, <1>8, <1>13
    <3> QED  BY <2>1, <3>2, <3>3, <1>7, <1>8 DEF Place, Walking
  <2> QED  BY <2>2, <2>3
<1>17. ListTypes'
  <2>1. peer' \in [Fds -> Clients \cup {NULL}]
    BY <1>6, <1>7
  <2>2. master' \subseteq Fds \cup {listen_fd}
    BY <1>7 DEF ListInv, ListTypes
  <2> QED  BY <2>1, <2>2, <1>7, <1>14 DEF ListInv, ListTypes
<1>18. OnePlace'
  <2>1. \A fd \in Open' : fd \in Open /\ peer'[fd] = peer[fd]
    BY <1>6, <1>7, <1>8 DEF Open
  <2> QED  BY <2>1, <1>7 DEF ListInv, OnePlace
<1>19. Watched' /\ Called' /\ Idle'
  <2>1. listen_fd # client
    BY <1>1, FdsAre
  <2> QED  BY <2>1, <1>7, <1>8 DEF ListInv, Watched, Called, Idle, Walking
<1> QED  BY <1>15, <1>16, <1>17, <1>18, <1>19 DEF ListInv

LEMMA StopsStep ==
  ASSUME ListInv, Stops
  PROVE  ListInv'
<1>1. /\ at' = "stopped" /\ backlog' = <<>> /\ base' = NULL /\ master' = {} /\ readfds' = {}
      /\ next' = [fd \in Fds |-> NULL] /\ peer' = [fd \in Fds |-> NULL] /\ st' = st
  BY DEF Stops, users
<1>2. MaxFd \in Nat
  BY FcrondynAssumption DEF FcrondynAssumption
<1>3. Open' = {}
  BY <1>1 DEF Open
<1>4. OneList'
  <2>1. 0 \in 0..MaxFd /\ [i \in 1..0 |-> NULL] \in [1..0 -> Fds]
    BY <1>2
  <2>2. Chain(0, [i \in 1..0 |-> NULL])'
    BY <1>1 DEF Chain
  <2> QED  BY <2>1, <2>2 DEF OneList
<1>5. ListTypes'
  BY <1>1, EmptySeq DEF ListInv, ListTypes, Places
<1>6. OnePlace'
  BY <1>1, <1>3, EmptySeq DEF OnePlace
<1> QED
  BY <1>1, <1>3, <1>4, <1>5, <1>6 DEF ListInv, Place, Watched, Called, Idle

LEMMA StartsStep ==
  ASSUME ListInv, Starts
  PROVE  ListInv'
<1>1. /\ at = "stopped" /\ at' = "select" /\ master' = {listen_fd}
      /\ UNCHANGED <<base, next, peer, readfds, backlog, st>>
  BY DEF Starts, socks, users
<1>2. Open' = Open /\ Open = {} /\ OneList'
  BY <1>1 DEF ListInv, Idle, Open, OneList, Chain
<1>3. ListTypes' /\ OnePlace'
  BY <1>1, <1>2 DEF ListInv, ListTypes, OnePlace, Places
<1> QED
  BY <1>1, <1>2, <1>3 DEF ListInv, Place, Watched, Called, Idle

LEMMA ConnectStep ==
  ASSUME ListInv, NEW c \in Clients, connect_fcron(c)
  PROVE  ListInv'
<1>1. /\ st[c] = "new" /\ st \in [Clients -> States] /\ backlog \in Seq(Clients)
      /\ UNCHANGED fcron
  BY DEF ListInv, ListTypes, connect_fcron
<1>2. /\ st' \in [Clients -> States]
      /\ \A d \in Clients : st'[d] = "new" => st[d] = "new"
      /\ st'[c] # "new"
  BY <1>1 DEF connect_fcron, States
<1>3. CASE at = "stopped"
  <2>1. UNCHANGED backlog
    BY <1>3 DEF connect_fcron
  <2> QED  BY <2>1, <1>1, <1>2, UserKeeps
<1>4. CASE at # "stopped"
  <2>1. backlog' = Append(backlog, c)
    BY <1>4 DEF connect_fcron
  <2>2. /\ Len(backlog) \in Nat
        /\ backlog' \in Seq(Clients) /\ Len(backlog') = Len(backlog) + 1
        /\ \A i \in 1..Len(backlog) : backlog'[i] = backlog[i]
        /\ backlog'[Len(backlog) + 1] = c
        /\ backlog' # <<>>
    BY <1>1, <2>1, AppendProperties, LenProperties
  <2>3. UNCHANGED <<at, base, next, peer, client, prev_client, master, readfds>>
        /\ Open' = Open /\ OneList'
    <3>1. UNCHANGED <<at, base, next, peer, client, prev_client, master, readfds>>
      BY <1>1 DEF fcron
    <3>2. UNCHANGED list /\ OneList
      BY <3>1 DEF list, ListInv
    <3> QED  BY <3>1, <3>2, SameList
  <2>4. OnePlace'
    <3>1. \A i \in 1..Len(backlog') :
            \/ i = Len(backlog) + 1 /\ backlog'[i] = c
            \/ i \in 1..Len(backlog) /\ backlog'[i] = backlog[i]
      BY <2>2
    <3>2. \A i \in 1..Len(backlog) : backlog[i] \in Clients
      BY <1>1, ElementOfSeq
    <3>3. \A fd \in Open : peer[fd] \in Clients
      BY DEF ListInv, ListTypes, Open
    <3>4. OnePlace
      BY DEF ListInv
    <3>5. \A i \in 1..Len(backlog) : backlog[i] # c
      BY <3>4, <1>1 DEF OnePlace
    <3>6. \A fd \in Open : peer[fd] # c
      BY <3>4, <1>1 DEF OnePlace
    <3>7. \A i, j \in 1..Len(backlog') : backlog'[i] = backlog'[j] => i = j
      BY <3>1, <3>4, <3>5 DEF OnePlace
    <3>8. \A i \in 1..Len(backlog'), fd \in Open : backlog'[i] # peer[fd]
      BY <3>1, <3>4, <3>6 DEF OnePlace
    <3>9. \A i \in 1..Len(backlog') : st'[backlog'[i]] # "new"
      BY <3>1, <3>2, <3>4, <1>2 DEF OnePlace
    <3>10. \A fd \in Open : st'[peer[fd]] # "new"
      BY <3>3, <3>4, <1>2 DEF OnePlace
    <3> QED  BY <3>4, <3>7, <3>8, <3>9, <3>10, <2>3 DEF OnePlace
  <2>5. ListTypes'
    BY <1>2, <2>2, <2>3 DEF ListInv, ListTypes
  <2>6. Place' /\ Watched' /\ Called' /\ Idle'
    BY <1>4, <2>2, <2>3 DEF ListInv, Place, Watched, Called, Idle
  <2> QED  BY <2>3, <2>4, <2>5, <2>6 DEF ListInv
<1> QED  BY <1>3, <1>4

-----------------------------------------------------------------------------
(* The first theorem.                                                      *)

LEMMA DaemonStep ==
  ASSUME ListInv, Daemon
  PROVE  ListInv'
<1> USE DEF list, socks, users
<1>1. CASE select_call
  BY <1>1, SelectStep
<1>2. CASE Accept
  BY <1>2, AcceptStep
<1>3. CASE NoAccept
  BY <1>3, NoAcceptStep
<1>4. CASE IdleClosed
  BY <1>4, RemoveStep DEF IdleClosed
<1>5. CASE NothingToDo
  BY <1>5, MoveStep DEF NothingToDo, Walking
<1>6. CASE PeerClosed
  BY <1>6, RemoveStep DEF PeerClosed
<1>7. CASE RecvError
  BY <1>7, MoveStep DEF RecvError, Walking
<1>8. CASE auth_client_password
  <2>1. Walking /\ at' = "answer"
        /\ UNCHANGED <<list, backlog, st, readfds, client, prev_client>>
    BY <1>8 DEF auth_client_password
  <2> QED  BY <2>1, ReadStep
<1>9. CASE Command
  <2>1. Walking /\ at' = "answer"
        /\ UNCHANGED <<list, backlog, st, readfds, client, prev_client>>
    BY <1>9 DEF Command
  <2> QED  BY <2>1, ReadStep
<1>10. CASE Send
  <2>1. UNCHANGED <<list, backlog, st, readfds, at, client, prev_client>> /\ at = "answer"
    BY <1>10 DEF Send
  <2>2. Place'
    BY <2>1, SameList DEF ListInv, Place
  <2> QED  BY <2>1, <2>2, FcronKeeps DEF Called, Places, ListInv, ListTypes
<1>11. CASE Answered
  BY <1>11, MoveStep DEF Answered, ListInv, Place
<1>12. CASE EndWalk
  BY <1>12, EndWalkStep
<1> QED  BY <1>1, <1>2, <1>3, <1>4, <1>5, <1>6, <1>7, <1>8, <1>9, <1>10, <1>11, <1>12
         DEF Daemon, fcrondyn_socket_check

LEMMA ListNext ==
  ASSUME ListInv, [Next]_vars
  PROVE  ListInv'
<1>0. st \in [Clients -> States]
  BY DEF ListInv, ListTypes
<1>1. CASE UNCHANGED vars
  BY <1>1, <1>0, UserKeeps DEF vars, socks, users
<1>2. CASE Daemon
  BY <1>2, DaemonStep
<1>3. CASE TimePasses
  <2>1. UNCHANGED <<list, backlog, st, readfds, at, client, prev_client>> /\ at = "select"
    BY <1>3 DEF TimePasses, list, socks, users
  <2>2. Place' /\ Called'
    BY <2>1 DEF Place, Called
  <2> QED  BY <2>1, <2>2, FcronKeeps DEF Places, ListInv, ListTypes
<1>4. CASE Stops
  BY <1>4, StopsStep
<1>5. CASE Starts
  BY <1>5, StartsStep
<1>6. ASSUME NEW c \in Clients, connect_fcron(c)
      PROVE  ListInv'
  BY <1>6, ConnectStep
<1>7. ASSUME NEW c \in Clients, Ask(c) \/ talk_fcron(c) \/ Quit(c)
      PROVE  ListInv'
  <2>1. UNCHANGED <<fcron, backlog>>
    BY <1>7 DEF Ask, talk_fcron, Recv, Disconnected, TimesOut, Quit,
                authenticate_user_password
  <2>2. st[c] # "new" /\ \E s \in States \ {"new"} : st' = [st EXCEPT ![c] = s]
    BY <1>7 DEF Ask, talk_fcron, Recv, Disconnected, TimesOut, Quit,
                authenticate_user_password, Leave, States
  <2> QED  BY <2>1, <2>2, <1>0, UserKeeps DEF States
<1> QED  BY <1>1, <1>2, <1>3, <1>4, <1>5, <1>6, <1>7 DEF Next

(* For any number of clients and descriptors, and any order in which       *)
(* connections come, go and are walked over, the list holds the open       *)
(* connections and no other, select() watches these and the listening      *)
(* socket, and the walk stands next to the one that it has just left.      *)
THEOREM ListAndSelectAgree == Spec => []ListedIsWatched
<1>1. ListInv /\ [Next]_vars => ListInv'
  BY ListNext
<1>2. ListInv => ListedIsWatched
  <2> SUFFICES ASSUME ListInv PROVE ListedIsWatched
    OBVIOUS
  <2>1. Listed = Open
    BY ListedIsOpen DEF ListInv
  <2>2. at \in {"walk", "answer"} /\ prev_client # NULL =>
          prev_client \in Open /\ next[prev_client] = client
    BY DEF ListInv, Place
  <2>3. at \in {"walk", "answer"} => client \in Open \cup {NULL}
    BY DEF ListInv, Place
  <2>4. at # "stopped" => master = Open \cup {listen_fd}
    BY DEF ListInv, Watched
  <2>5. Open = {fd \in Fds : peer[fd] # NULL}
    BY DEF Open
  <2> HIDE DEF Open
  <2> QED  BY <2>1, <2>2, <2>3, <2>4, <2>5 DEF ListedIsWatched
<1> QED  BY <1>1, <1>2, InitStep, PTL DEF Spec

-----------------------------------------------------------------------------
(* The answers.                                                            *)

LEMMA MessagesAre ==
  ASSUME NEW n \in Nat
  PROVE  Text(n) \in Message /\ End(n) \in Message
         /\ Text(n).what = "text" /\ Text(n).cmd = n /\ End(n).cmd = n
BY DEF Text, End, Message

LEMMA TextsAndEnd ==
  ASSUME NEW n \in Nat, NEW s \in Seq({Text(n)})
  PROVE  s \o <<End(n)>> \in Seq(Message) /\ Whole(s \o <<End(n)>>, n)
<1> DEFINE e == <<End(n)>>
<1>1. s \in Seq(Message) /\ e \in Seq(Message) /\ Len(e) = 1 /\ e[1] = End(n)
  <2>1. {Text(n)} \subseteq Message
    BY MessagesAre
  <2> QED  BY <2>1, SeqMonotonic, MessagesAre
<1>2. Len(s) \in Nat /\ \A i \in 1..Len(s) : s[i] = Text(n)
  BY LenProperties, ElementOfSeq
<1> HIDE DEF e
<1>3. /\ s \o e \in Seq(Message) /\ Len(s \o e) = Len(s) + 1
      /\ \A i \in 1..Len(s) + 1 : (s \o e)[i] = IF i <= Len(s) THEN s[i] ELSE e[i - Len(s)]
  BY <1>1, ConcatProperties
<1>4. \A i \in 1..Len(s) + 1 :
        (s \o e)[i] = Text(n) \/ ((s \o e)[i] = End(n) /\ i = Len(s) + 1)
  <2> TAKE i \in 1..Len(s) + 1
  <2>1. CASE i <= Len(s)
    BY <2>1, <1>2, <1>3
  <2>2. CASE ~(i <= Len(s))
    <3>1. i = Len(s) + 1 /\ i - Len(s) = 1
      BY <2>2, <1>2
    <3> QED  BY <2>2, <3>1, <1>1, <1>3
  <2> QED  BY <2>1, <2>2
<1>5. Whole(s \o e, n)
  BY <1>3, <1>4, MessagesAre DEF Whole
<1> QED  BY <1>3, <1>5 DEF e

LEMMA FlattenTexts ==
  ASSUME NEW x, NEW k \in Nat \ {0}, NEW es, es = [i \in 1..k |-> <<x>>]
  PROVE  FlattenSeq(es) \in Seq({x})
<1> DEFINE Of(f) == [i \in 1..Len(es) |-> IF i = 1 THEN es[i] ELSE f[i - 1] \o es[i]]
           flatten == CHOOSE f : f = Of(f)
           g == [i \in 1..k |-> [j \in 1..i |-> x]]
<1>1. Len(es) = k /\ \A i \in 1..k : es[i] = <<x>>
  OBVIOUS
<1>2. FlattenSeq(es) = flatten[k]
  BY <1>1 DEF FlattenSeq
<1>3. \A i \in 1..k : g[i] \in Seq({x}) /\ Len(g[i]) = i /\ \A j \in 1..i : g[i][j] = x
  OBVIOUS
<1>4. \A i \in 1..k : g[i] = Of(g)[i]
  <2> TAKE i \in 1..k
  <2>1. CASE i = 1
    <3>1. g[1] = <<x>>
      OBVIOUS
    <3> QED  BY <2>1, <3>1, <1>1
  <2>2. CASE i # 1
    <3>1. i - 1 \in 1..k
      BY <2>2
    <3> DEFINE l == g[i - 1]
               r == <<x>>
    <3>2. /\ l \in Seq({x}) /\ r \in Seq({x}) /\ Len(l) = i - 1 /\ Len(r) = 1
          /\ g[i] \in Seq({x}) /\ Len(g[i]) = i
      BY <3>1, <1>3
    <3> HIDE DEF l, r, g
    <3>3. l \o r \in Seq({x}) /\ Len(l \o r) = Len(l) + Len(r)
      BY <3>2, ConcatProperties
    <3>4. \A j \in 1..i : g[i][j] = x /\ (l \o r)[j] = x
      BY <3>2, <3>3, ElementOfSeq
    <3>5. g[i] = l \o r
      BY <3>2, <3>3, <3>4, SeqEqual
    <3> QED  BY <3>5, <2>2, <1>1 DEF l, r
  <2> QED  BY <2>1, <2>2
<1>5. g = Of(g)
  BY <1>1, <1>4
<1>6. flatten = Of(flatten)
  <2> HIDE DEF Of, g
  <2> QED  BY <1>5
<1>7. \A i \in 1..k : flatten[i] = g[i]
  <2> DEFINE Bad == {i \in 1..k : flatten[i] # g[i]}
  <2> SUFFICES ASSUME Bad # {} PROVE FALSE
    OBVIOUS
  <2>1. PICK i \in Bad : \A j \in Bad : i <= j
    <3>1. Bad \in SUBSET Nat
      OBVIOUS
    <3> HIDE DEF Bad
    <3> QED  BY <3>1, LeastNumber
  <2>2. i \in 1..k /\ flatten[i] # g[i]
    OBVIOUS
  <2> HIDE DEF flatten, g
  <2>3. \A f : f = Of(f) => f[i] = IF i = 1 THEN es[i] ELSE f[i - 1] \o es[i]
    BY <2>2, <1>1
  <2> HIDE DEF Of
  <2>4. CASE i = 1
    BY <2>2, <2>3, <2>4, <1>5, <1>6
  <2>5. CASE i # 1
    <3>1. i - 1 \in 1..k /\ ~(i <= i - 1)
      BY <2>2, <2>5
    <3>2. flatten[i - 1] = g[i - 1]
      BY <3>1, <2>1
    <3> QED  BY <3>2, <2>2, <2>3, <2>5, <1>5, <1>6
  <2> QED  BY <2>4, <2>5
<1> QED
  <2> HIDE DEF flatten, g
  <2>1. k \in 1..k
    OBVIOUS
  <2> QED  BY <2>1, <1>2, <1>3, <1>7

(* The answer of a command that has not failed has one end, which is last, *)
(* and all of it bears its number.                                         *)
LEMMA AnswersAreWhole ==
  ASSUME NEW n \in Nat, NEW u, NEW cmd, cmd.code \in JobCodes \cup ListCodes,
         NEW a \in exe_cmd(u, cmd, n), ~a.failed
  PROVE  a.msgs \in Seq(Message) /\ Whole(a.msgs, n)
<1>1. /\ <<>> \in Seq({Text(n)}) /\ <<Text(n)>> \in Seq({Text(n)})
      /\ <<Text(n)>> \o <<>> \in Seq({Text(n)})
      /\ <<Text(n)>> \o <<Text(n)>> \in Seq({Text(n)})
  BY EmptySeq
<1>2. /\ <<>> \o <<End(n)>> = <<End(n)>>
      /\ <<Text(n)>> \o <<End(n)>> = <<Text(n), End(n)>>
  <2> DEFINE t == <<Text(n)>>
             e == <<End(n)>>
             te == <<Text(n), End(n)>>
  <2>1. /\ <<>> \in Seq(Message) /\ t \in Seq(Message) /\ e \in Seq(Message)
        /\ te \in Seq(Message) /\ Len(t) = 1 /\ Len(e) = 1 /\ Len(te) = 2
        /\ t[1] = te[1] /\ e[1] = te[2]
    BY MessagesAre, EmptySeq
  <2> HIDE DEF t, e, te
  <2>2. /\ t \o e \in Seq(Message) /\ Len(t \o e) = 2
        /\ (t \o e)[1] = t[1] /\ (t \o e)[2] = e[1]
    <3>1. /\ t \o e \in Seq(Message) /\ Len(t \o e) = Len(t) + Len(e)
          /\ \A i \in 1..Len(t) + Len(e) :
               (t \o e)[i] = IF i <= Len(t) THEN t[i] ELSE e[i - Len(t)]
      BY <2>1, ConcatProperties
    <3> QED  BY <2>1, <3>1
  <2>3. t \o e = te
    BY <2>1, <2>2, SeqEqual
  <2>4. <<>> \o e = e
    BY <2>1, ConcatEmptySeq
  <2> QED  BY <2>3, <2>4 DEF t, e, te
<1>3. SUFFICES \E s \in Seq({Text(n)}) : a.msgs = s \o <<End(n)>>
  BY TextsAndEnd
<1>4. Send_err_msg_end(n) = <<Text(n), End(n)>>
  BY DEF Send_err_msg_end
<1>5. CASE a \in cmd_ls(u, cmd, n)
  <2>1. \/ a.msgs = <<Text(n), End(n)>>
        \/ a.msgs = (<<Text(n)>> \o <<>>) \o <<End(n)>>
        \/ a.msgs = (<<Text(n)>> \o <<Text(n)>>) \o <<End(n)>>
    BY <1>5, <1>4 DEF cmd_ls, Plain, print_fields, print_line
  <2> QED  BY <2>1, <1>1, <1>2
<1>6. CASE a \in cmd_run(u, cmd, n)
  <2>1. a.msgs = <<Text(n), End(n)>> \/ a.msgs = <<End(n)>>
    BY <1>6, <1>4 DEF cmd_run, Plain
  <2> QED  BY <2>1, <1>1, <1>2
<1>7. CASE a \in cmd_on_exeq(u, cmd, n)
  <2>1. CASE a = Plain(Send_err_msg_end(n))
    BY <2>1, <1>1, <1>2, <1>4 DEF Plain
  <2>2. CASE a # Plain(Send_err_msg_end(n))
    <3>1. PICK k \in 1..MaxEntries : \E es \in [1..k -> OnEntry(u, cmd, n)] :
             a = [msgs |-> FlattenSeq(es) \o <<End(n)>>,
                  failed |-> Send_err_msg_end(n) \in Range(es)]
      BY <1>7, <2>2 DEF cmd_on_exeq
    <3>2. PICK es \in [1..k -> OnEntry(u, cmd, n)] :
             a = [msgs |-> FlattenSeq(es) \o <<End(n)>>,
                  failed |-> Send_err_msg_end(n) \in Range(es)]
      BY <3>1
    <3>3. a.failed = (Send_err_msg_end(n) \in Range(es))
          /\ a.msgs = FlattenSeq(es) \o <<End(n)>>
      BY <3>2, Zenon
    <3>4. \A i \in 1..k : es[i] = <<Text(n)>>
      <4> TAKE i \in 1..k
      <4>1. es[i] \in {Send_err_msg_end(n), <<Text(n)>>}
        BY DEF OnEntry, cmd_send_signal, cmd_renice
      <4>2. es[i] \in Range(es)
        BY DEF Range
      <4> QED  BY <4>1, <4>2, <3>3
    <3>5. es = [i \in 1..k |-> <<Text(n)>>]
      BY <3>4
    <3>6. k \in Nat \ {0}
      BY FcrondynAssumption DEF FcrondynAssumption
    <3> QED  BY <3>3, <3>5, <3>6, FlattenTexts
  <2> QED  BY <2>1, <2>2
<1> QED  BY <1>5, <1>6, <1>7 DEF exe_cmd, JobCodes, ListCodes

-----------------------------------------------------------------------------
(* What is on its way, t of it sent and s not yet.                         *)

LEMMA ComingIs ==
  ASSUME NEW t \in Seq(Message), NEW s \in Seq(Message)
  PROVE  /\ t \o s \in Seq(Message)
         /\ Len(t) \in Nat /\ Len(s) \in Nat /\ Len(t \o s) = Len(t) + Len(s)
         /\ t \o s = <<>> <=> t = <<>> /\ s = <<>>
         /\ \A i \in 1..Len(t) + Len(s) :
              (t \o s)[i] = IF i <= Len(t) THEN t[i] ELSE s[i - Len(t)]
BY ConcatProperties, ConcatEqualIffEmpty, LenProperties

(* fcron stops, or the connection is closed: s is never sent.              *)
LEMMA SentOnly ==
  ASSUME NEW t \in Seq(Message), NEW s \in Seq(Message)
  PROVE  /\ t \o s = <<>> => t = <<>>
         /\ Len(t \o s) = 1 /\ t # <<>> => Len(t) = 1 /\ Head(t) = Head(t \o s)
         /\ \A n : Whole(t \o s, n) => Whole(t, n)
<1>0. Len(t) \in Nat /\ Len(s) \in Nat /\ Len(t \o s) = Len(t) + Len(s)
  BY ComingIs
<1>1. t # <<>> => Len(t) # 0
  BY EmptySeq
<1>2. Len(t \o s) = 1 /\ t # <<>> => Len(t) = 1 /\ Head(t) = Head(t \o s)
  <2> SUFFICES ASSUME Len(t \o s) = 1, t # <<>>
               PROVE  Len(t) = 1 /\ Head(t) = Head(t \o s)
    OBVIOUS
  <2>1. Len(t) = 1
    <3>1. Len(t) + Len(s) = 1 /\ Len(t) # 0
      BY <1>0, <1>1
    <3>2. \A x, y \in Nat : x + y = 1 /\ x # 0 => x = 1
      OBVIOUS
    <3>3. Len(t) \in Nat /\ Len(s) \in Nat
      BY <1>0
    <3> QED  BY <3>1, <3>2, <3>3, Zenon
  <2>2. (t \o s)[1] = t[1]
    <3>1. 1 \in 1..Len(t) + Len(s) /\ 1 <= Len(t)
      BY <2>1, ComingIs
    <3> QED  BY <3>1, ComingIs
  <2>3. Head(t) = t[1] /\ Head(t \o s) = (t \o s)[1]
    BY <2>1, ComingIs
  <2> QED  BY <2>1, <2>2, <2>3
<1>3. ASSUME NEW n, Whole(t \o s, n)
      PROVE  Whole(t, n)
  <2> SUFFICES ASSUME NEW i \in 1..Len(t)
               PROVE  t[i].cmd = n /\ (t[i].what = "end" => i = Len(t))
    BY DEF Whole
  <2>1. i \in 1..Len(t) + Len(s) /\ i <= Len(t) /\ (t \o s)[i] = t[i]
    BY ComingIs
  <2>2. i = Len(t) + Len(s) => i = Len(t)
    BY ComingIs
  <2> QED  BY <1>3, <2>1, <2>2, ComingIs DEF Whole
<1> QED  BY <1>2, <1>3, ComingIs

(* One message goes from s to t.                                           *)
LEMMA OneIsSent ==
  ASSUME NEW t \in Seq(Message), NEW s \in Seq(Message), s # <<>>
  PROVE  /\ Append(t, Head(s)) \in Seq(Message) /\ Tail(s) \in Seq(Message)
         /\ Append(t, Head(s)) \o Tail(s) = t \o s
<1>1. /\ Head(s) \in Message /\ Tail(s) \in Seq(Message) /\ Len(Tail(s)) = Len(s) - 1
      /\ \A i \in 1..Len(s) - 1 : Tail(s)[i] = s[i + 1]
      /\ Len(s) \in Nat /\ Len(t) \in Nat /\ Len(s) # 0 /\ Head(s) = s[1]
  BY HeadTailProperties, EmptySeq, LenProperties
<1> DEFINE a == Append(t, Head(s))
           b == Tail(s)
<1>2. /\ a \in Seq(Message) /\ Len(a) = Len(t) + 1 /\ a[Len(t) + 1] = s[1]
      /\ \A i \in 1..Len(t) : a[i] = t[i]
  BY <1>1, AppendProperties
<1>3. b \in Seq(Message) /\ Len(b) = Len(s) - 1 /\ \A i \in 1..Len(s) - 1 : b[i] = s[i + 1]
  BY <1>1
<1> HIDE DEF a, b
<1>4. a \o b \in Seq(Message) /\ Len(a \o b) = Len(t \o s)
  <2>1. a \o b \in Seq(Message) /\ Len(a \o b) = Len(a) + Len(b)
    BY <1>2, <1>3, ComingIs
  <2>2. Len(t \o s) = Len(t) + Len(s)
    BY ComingIs
  <2> QED  BY <2>1, <2>2, <1>1, <1>2, <1>3
<1>5. ASSUME NEW i \in 1..Len(t \o s)
      PROVE  (a \o b)[i] = (t \o s)[i]
  <2>1. i \in 1..Len(t) + Len(s) /\ i \in 1..Len(a) + Len(b)
    BY <1>4, <1>2, <1>3, ComingIs
  <2>2. /\ (t \o s)[i] = IF i <= Len(t) THEN t[i] ELSE s[i - Len(t)]
        /\ (a \o b)[i] = IF i <= Len(a) THEN a[i] ELSE b[i - Len(a)]
    BY <2>1, <1>2, <1>3, ComingIs
  <2>3. CASE i <= Len(t)
    BY <2>2, <2>3, <1>1, <1>2
  <2>4. CASE i = Len(t) + 1
    <3>1. i - Len(t) = 1 /\ ~(i <= Len(t)) /\ i <= Len(a)
      BY <2>4, <1>1, <1>2
    <3> QED  BY <3>1, <2>2, <2>4, <1>2
  <2>5. CASE i > Len(t) + 1
    <3>1. /\ ~(i <= Len(t)) /\ ~(i <= Len(a))
          /\ i - Len(a) \in 1..Len(s) - 1 /\ (i - Len(a)) + 1 = i - Len(t)
      BY <2>1, <2>5, <1>1, <1>2
    <3>2. b[i - Len(a)] = s[(i - Len(a)) + 1]
      BY <3>1, <1>3
    <3> QED  BY <3>1, <3>2, <2>2
  <2>6. i <= Len(t) \/ i = Len(t) + 1 \/ i > Len(t) + 1
    BY <2>1, <1>1
  <2> QED  BY <2>3, <2>4, <2>5, <2>6
<1>6. a \o b = t \o s
  <2>1. t \o s \in Seq(Message)
    BY ComingIs
  <2> QED  BY <1>4, <1>5, <2>1, SeqEqual
<1> QED  BY <1>2, <1>3, <1>6 DEF a, b

(* The first message of s is lost.                                         *)
LEMMA OneIsLost ==
  ASSUME NEW t \in Seq(Message), NEW s \in Seq(Message), s # <<>>
  PROVE  /\ Tail(s) \in Seq(Message)
         /\ t \o s # <<>>
         /\ Len(t \o s) = 1 => t \o Tail(s) = <<>>
         /\ \A n : Whole(t \o s, n) => Whole(t \o Tail(s), n)
<1> DEFINE b == Tail(s)
<1>1. /\ b \in Seq(Message) /\ Len(b) = Len(s) - 1 /\ Len(b) \in Nat
      /\ \A i \in 1..Len(s) - 1 : b[i] = s[i + 1]
      /\ Len(s) \in Nat /\ Len(t) \in Nat /\ Len(s) # 0
  BY HeadTailProperties, EmptySeq, LenProperties
<1> HIDE DEF b
<1>2. /\ Len(t \o s) = Len(t) + Len(s) /\ Len(t \o b) = Len(t) + Len(b)
      /\ t \o b = <<>> <=> t = <<>> /\ b = <<>>
  BY <1>1, ComingIs
<1>3. Len(t \o s) = 1 => t \o b = <<>>
  <2> SUFFICES ASSUME Len(t \o s) = 1 PROVE t \o b = <<>>
    OBVIOUS
  <2>1. Len(t) = 0 /\ Len(b) = 0
    BY <1>1, <1>2
  <2> QED  BY <2>1, <1>1, <1>2, EmptySeq
<1>4. ASSUME NEW n, Whole(t \o s, n)
      PROVE  Whole(t \o b, n)
  <2> SUFFICES ASSUME NEW i \in 1..Len(t) + Len(b)
               PROVE  /\ (t \o b)[i].cmd = n
                      /\ (t \o b)[i].what = "end" => i = Len(t) + Len(b)
    BY <1>2 DEF Whole
  <2>1. (t \o b)[i] = IF i <= Len(t) THEN t[i] ELSE b[i - Len(t)]
    BY <1>1, ComingIs
  <2>2. \A j \in 1..Len(t) + Len(s) :
           /\ (t \o s)[j] = IF j <= Len(t) THEN t[j] ELSE s[j - Len(t)]
           /\ (t \o s)[j].cmd = n /\ ((t \o s)[j].what = "end" => j = Len(t) + Len(s))
    BY <1>2, <1>4, ComingIs DEF Whole
  <2>3. CASE i <= Len(t)
    <3>1. i \in 1..Len(t) + Len(s) /\ i # Len(t) + Len(s)
      BY <2>3, <1>1
    <3> QED  BY <3>1, <2>1, <2>2, <2>3
  <2>4. CASE ~(i <= Len(t))
    <3>1. /\ i + 1 \in 1..Len(t) + Len(s) /\ ~(i + 1 <= Len(t))
          /\ i - Len(t) \in 1..Len(s) - 1 /\ (i + 1) - Len(t) = (i - Len(t)) + 1
          /\ i + 1 = Len(t) + Len(s) => i = Len(t) + Len(b)
      BY <2>4, <1>1
    <3>2. (t \o b)[i] = (t \o s)[i + 1]
      <4>1. (t \o s)[i + 1] = s[(i + 1) - Len(t)]
        BY <3>1, <2>2
      <4>2. b[i - Len(t)] = s[(i - Len(t)) + 1]
        BY <3>1, <1>1
      <4> QED  BY <4>1, <4>2, <3>1, <2>1, <2>4
    <3> QED  BY <3>1, <3>2, <2>2
  <2> QED  BY <2>3, <2>4
<1>5. t \o s # <<>>
  BY ComingIs
<1> QED  BY <1>1, <1>3, <1>4, <1>5 DEF b

(* The first k messages of t are read.                                     *)
LEMMA SomeAreRead ==
  ASSUME NEW t \in Seq(Message), NEW s \in Seq(Message), NEW k \in 1..Len(t),
         NEW n, Whole(t \o s, n)
  PROVE  LET chunk == SubSeq(t, 1, k)
             left  == SubSeq(t, k + 1, Len(t))
         IN  /\ {m.cmd : m \in Range(chunk)} \subseteq {n}
             /\ left \in Seq(Message) /\ Whole(left \o s, n)
             /\ AtEnd(chunk) => left \o s = <<>>
<1> DEFINE chunk == SubSeq(t, 1, k)
           left  == SubSeq(t, k + 1, Len(t))
<1>0. Len(t) \in Nat /\ Len(s) \in Nat /\ \A i \in 1..Len(t) : t[i] \in Message
  BY LenProperties, ElementOfSeq
<1>1. chunk \in Seq(Message) /\ Len(chunk) = k /\ \A i \in 1..k : chunk[i] = t[i]
  <2>1. \A i \in 1..k : t[i] \in Message
    BY <1>0
  <2>2. /\ SubSeq(t, 1, k) \in Seq(Message)
        /\ Len(SubSeq(t, 1, k)) = IF 1 <= k THEN k - 1 + 1 ELSE 0
        /\ \A i \in 1..k - 1 + 1 : SubSeq(t, 1, k)[i] = t[1 + i - 1]
    BY <1>0, <2>1, SubSeqProperties
  <2> QED  BY <2>2, <1>0
<1>2. /\ left \in Seq(Message) /\ Len(left) = Len(t) - k
      /\ \A i \in 1..Len(t) - k : left[i] = t[k + i]
  <2>1. \A i \in k + 1..Len(t) : t[i] \in Message
    BY <1>0
  <2>2. /\ SubSeq(t, k + 1, Len(t)) \in Seq(Message)
        /\ Len(SubSeq(t, k + 1, Len(t))) =
             IF k + 1 <= Len(t) THEN Len(t) - (k + 1) + 1 ELSE 0
        /\ \A i \in 1..Len(t) - (k + 1) + 1 :
             SubSeq(t, k + 1, Len(t))[i] = t[(k + 1) + i - 1]
    BY <1>0, <2>1, SubSeqProperties
  <2> QED  BY <2>2, <1>0
<1> HIDE DEF chunk, left
<1>3. \A i \in 1..Len(t) : i \in 1..Len(t) + Len(s) /\ (t \o s)[i] = t[i]
  BY <1>0, ComingIs
<1>4. \A i \in 1..Len(t) + Len(s) :
        (t \o s)[i].cmd = n /\ ((t \o s)[i].what = "end" => i = Len(t) + Len(s))
  BY ComingIs DEF Whole
<1>5. {m.cmd : m \in Range(chunk)} \subseteq {n}
  <2>1. \A m \in Range(chunk) : \E i \in 1..k : m = t[i]
    BY <1>1, RangeEquality
  <2>2. \A i \in 1..k : t[i].cmd = n
    BY <1>0, <1>3, <1>4
  <2> QED  BY <2>1, <2>2
<1>6. \A i \in 1..Len(left) + Len(s) :
        /\ k + i \in 1..Len(t) + Len(s)
        /\ (left \o s)[i] = (t \o s)[k + i]
  <2> TAKE i \in 1..Len(left) + Len(s)
  <2>1. k + i \in 1..Len(t) + Len(s)
    BY <1>0, <1>2
  <2>2. /\ (t \o s)[k + i] = IF k + i <= Len(t) THEN t[k + i] ELSE s[(k + i) - Len(t)]
        /\ (left \o s)[i] = IF i <= Len(left) THEN left[i] ELSE s[i - Len(left)]
    BY <2>1, <1>2, ComingIs
  <2>3. (k + i) - Len(t) = i - Len(left) /\ (k + i <= Len(t) <=> i <= Len(left))
    BY <1>0, <1>2
  <2>4. i <= Len(left) => left[i] = t[k + i]
    BY <1>0, <1>2
  <2> QED  BY <2>1, <2>2, <2>3, <2>4
<1>7. left \o s \in Seq(Message) /\ Len(left \o s) = Len(left) + Len(s)
  BY <1>2, ComingIs
<1>8. Whole(left \o s, n)
  <2>1. \A i \in 1..Len(left) + Len(s) : k + i = Len(t) + Len(s) => i = Len(left) + Len(s)
    BY <1>0, <1>2
  <2> QED  BY <2>1, <1>4, <1>6, <1>7 DEF Whole
<1>9. AtEnd(chunk) => left \o s = <<>>
  <2> SUFFICES ASSUME AtEnd(chunk) PROVE left \o s = <<>>
    OBVIOUS
  <2>1. k \in 1..k /\ chunk[k] = t[k] /\ t[k].what = "end"
    BY <1>1 DEF AtEnd, Last
  <2>2. k = Len(t) + Len(s)
    BY <2>1, <1>3, <1>4
  <2>3. Len(left) = 0 /\ Len(s) = 0
    BY <2>2, <1>0, <1>2
  <2> QED  BY <2>3, <1>7, EmptySeq
<1> QED  BY <1>2, <1>5, <1>8, <1>9 DEF chunk, left

-----------------------------------------------------------------------------
(* What fcron does leaves everybody in step.                               *)

(* A client that has only lost what was not read or sent yet.              *)
LEMMA StillInStep ==
  ASSUME NEW c \in Clients, InStep(c),
         UNCHANGED <<to_client[c], answer[c], num[c], st[c]>>,
         to_fcron'[c] = to_fcron[c] \/ to_fcron'[c] = <<>>,
         ToSend(c)' = ToSend(c) \/ ToSend(c)' = <<>>,
         Known(c) => Known(c)',
         to_fcron'[c] # <<>> /\ Unknown(c) => Unknown(c)'
  PROVE  InStep(c)'
<1> DEFINE t == to_client[c]
           s == ToSend(c)
<1>1. t \in Seq(Message) /\ s \in Seq(Message) /\ Coming(c) = t \o s
  BY DEF InStep, Coming
<1>2. Coming(c)' = t \o s \/ Coming(c)' = t
  <2>1. t \o <<>> = t
    BY <1>1, ConcatEmptySeq
  <2> QED  BY <2>1 DEF Coming
<1>3. ToSend(c)' \in Seq(Message) /\ to_client'[c] \in Seq(Message)
  BY <1>1, EmptySeq
<1> HIDE DEF t, s
<1>4. /\ Coming(c) = <<>> => Coming(c)' = <<>>
      /\ Len(Coming(c)) = 1 /\ Coming(c)' # <<>> =>
           Len(Coming(c)') = 1 /\ Head(Coming(c)') = Head(Coming(c))
      /\ \A n : Whole(Coming(c), n) => Whole(Coming(c)', n)
  <2>1. CASE Coming(c)' = t \o s
    BY <2>1, <1>1
  <2>2. CASE Coming(c)' = t
    BY <2>2, <1>1, SentOnly
  <2> QED  BY <2>1, <2>2, <1>2
<1> HIDE DEF Whole
<1>5. Whole(Coming(c), num[c]) => Whole(Coming(c), num[c])'
  <2>1. Whole(Coming(c)', num[c]) => Whole(Coming(c), num[c])'
    BY DEF Whole
  <2> QED  BY <2>1, <1>4
<1>6. st[c] = "new" => to_fcron[c] = <<>> /\ Coming(c) = <<>>
  BY DEF InStep
<1> QED  BY <1>3, <1>4, <1>5, <1>6 DEF InStep

LEMMA NoneMine ==
  ASSUME at # "answer", NEW c
  PROVE  ToSend(c) = <<>>
BY DEF ToSend, Mine

(* The steps that neither read, nor send, nor open or close.               *)
LEMMA QuietStep ==
  ASSUME StepInv,
         UNCHANGED <<peercred, peer, fcl_user, backlog, to_fcron, to_client, closed, users>>,
         at' # "answer" \/ UNCHANGED <<at, client, out>>
  PROVE  StepInv'
<1>1. /\ UNCHANGED <<st, num, answer, crossed>>
      /\ StepTypes'
  BY DEF users, StepInv, StepTypes
<1>2. ASSUME NEW c \in Clients \ crossed', st'[c] # "gone"
      PROVE  InStep(c)'
  <2>1. InStep(c)
    BY <1>1, <1>2 DEF StepInv
  <2>2. ToSend(c)' = ToSend(c) \/ ToSend(c)' = <<>>
    BY <1>1 DEF ToSend, Mine
  <2>3. (Known(c) => Known(c)') /\ (Unknown(c) => Unknown(c)')
    BY DEF Known, Unknown
  <2> QED  BY <1>1, <2>1, <2>2, <2>3, StillInStep
<1>3. \A c : Waits(c) => Waits(c)'
  BY <1>1 DEF Waits
<1>4. \A c : Ended(c) => Ended(c)'
  BY <1>1 DEF Ended
<1>5. AllWait'
  BY <1>3 DEF StepInv, AllWait
<1> QED  BY <1>1, <1>2, <1>4, <1>5 DEF StepInv

LEMMA UserNames == \A c \in Clients : user_str[c] # NoUser
BY FcrondynAssumption DEF FcrondynAssumption, Users

LEMMA AcceptInStep ==
  ASSUME ListInv, StepInv, Accept
  PROVE  StepInv'
<1>1. PICK fd \in Fds, c \in Clients :
        /\ peer[fd] = NULL /\ Len(backlog) \in Nat \ {0} /\ c = backlog[1]
        /\ backlog' \in Seq(Clients) /\ Len(backlog') = Len(backlog) - 1
        /\ \A i \in 1..Len(backlog') : backlog'[i] = backlog[i + 1]
        /\ peer' = [peer EXCEPT ![fd] = c]
        /\ fcl_user' = [fcl_user EXCEPT ![fd] = auth_client_so_peercred(c)]
        /\ at = "accept" /\ at' = "walk"
        /\ UNCHANGED <<peercred, to_fcron, to_client, closed, st, num, answer, crossed>>
  BY AcceptIs
<1>2. /\ \A i \in 1..Len(backlog') : i + 1 \in 1..Len(backlog)
      /\ 1 \in 1..Len(backlog)
  BY <1>1
<1>3. DOMAIN peer = Fds /\ DOMAIN fcl_user = Fds
  BY DEF ListInv, ListTypes, StepInv, StepTypes
<1>4. \A fe \in Fds : IF fe = fd
                      THEN peer'[fe] = c /\ fcl_user'[fe] = IF peercred THEN user_str[c] ELSE NoUser
                      ELSE peer'[fe] = peer[fe] /\ fcl_user'[fe] = fcl_user[fe]
  BY <1>1, <1>3 DEF auth_client_so_peercred
<1>5. \A fe \in Fds : peer[fe] # c
  <2> SUFFICES ASSUME NEW fe \in Fds, peer[fe] = c PROVE FALSE
    OBVIOUS
  <2>1. c # NULL
    BY FcrondynAssumption DEF FcrondynAssumption
  <2> QED  BY <2>1, <1>1, <1>2 DEF ListInv, OnePlace, Open
<1>6. ASSUME NEW d \in Clients \ crossed', st'[d] # "gone"
      PROVE  InStep(d)'
  <2>1. InStep(d)
    BY <1>1, <1>6 DEF StepInv
  <2>2. ToSend(d) = <<>> /\ ToSend(d)' = <<>>
    BY <1>1, NoneMine DEF ToSend, Mine
  <2>3. CASE d # c
    <3>1. (Known(d) => Known(d)') /\ (Unknown(d) => Unknown(d)')
      BY <2>3, <1>4 DEF Known, Unknown
    <3> QED  BY <1>1, <2>1, <2>2, <3>1, StillInStep
  <2>4. CASE d = c
    <3>1. Waits(c) /\ st[c] # "gone"
      BY <2>4, <1>1, <1>2, <1>6 DEF StepInv, AllWait
    <3>2. Coming(c) = <<>> /\ Coming(c)' = <<>>
      BY <2>2, <2>4, <3>1, <1>1, ConcatEmptySeq, EmptySeq DEF Coming, Waits
    <3>3. peercred \in BOOLEAN
      BY DEF StepInv, StepTypes
    <3>4. CASE peercred
      <4>1. Known(c)' /\ st[c] \in {"prompt", "sent"}
        BY <3>1, <3>4, <1>4, <1>5, UserNames DEF Known, Waits
      <4> QED  BY <4>1, <1>1, <2>1, <2>2, <2>4, StillInStep, <3>2 DEF InStep, Whole
    <3>5. CASE ~peercred
      <4>1. Unknown(c)' /\ st[c] = "auth"
        BY <3>1, <3>5, <1>4, <1>5 DEF Unknown, Waits
      <4> QED  BY <4>1, <1>1, <2>1, <2>2, <2>4, <3>2 DEF InStep
    <3> QED  BY <3>3, <3>4, <3>5
  <2> QED  BY <2>3, <2>4
<1>7. AllWait'
  <2>1. ASSUME NEW i \in 1..Len(backlog'), NEW d, d = backlog[i + 1]
        PROVE  Waits(d)'
    <3>1. Waits(d)
      BY <1>2, <2>1 DEF StepInv, AllWait
    <3> QED  BY <3>1, <1>1 DEF Waits
  <2> QED  BY <2>1, <1>1 DEF AllWait
<1>8. ASSUME NEW d \in closed'
      PROVE  Ended(d)'
  <2>1. Ended(d) /\ d # c
    BY <1>1, <1>2, <1>8 DEF StepInv, Ended
  <2> QED  BY <2>1, <1>1, <1>2, <1>4 DEF Ended
<1>9. StepTypes'
  BY <1>1 DEF StepInv, StepTypes
<1> QED  BY <1>1, <1>6, <1>7, <1>8, <1>9 DEF StepInv

(* Some connections are closed, that of every client in cs at least.       *)
LEMMA ClosingStep ==
  ASSUME ListInv, StepInv, NEW cs \in SUBSET Clients, Closes(cs), at' # "answer",
         \A fd \in Fds : peer'[fd] \in {NULL, peer[fd]} /\ peer'[fd] \notin cs
                         /\ (peer'[fd] # NULL => fcl_user'[fd] = fcl_user[fd]),
         DOMAIN fcl_user' = Fds,
         \A c \in cs : st[c] # "new",
         backlog' = <<>> \/ (backlog' = backlog /\ \A i \in 1..Len(backlog) : backlog[i] \notin cs),
         UNCHANGED <<peercred, to_client, users>>
  PROVE  StepInv'
<1>1. /\ UNCHANGED <<st, num, answer, crossed>>
      /\ closed' = closed \cup cs
      /\ to_fcron' = [c \in Clients |-> IF c \in cs THEN <<>> ELSE to_fcron[c]]
  BY DEF users, Closes
<1>2. StepTypes'
  BY <1>1 DEF StepInv, StepTypes
<1>3. \A c \in Clients : c # NULL
  BY FcrondynAssumption DEF FcrondynAssumption
<1>4. ASSUME NEW c \in Clients \ crossed', st'[c] # "gone"
      PROVE  InStep(c)'
  <2>1. InStep(c)
    BY <1>1, <1>4 DEF StepInv
  <2>2. ToSend(c)' = <<>>
    BY DEF ToSend, Mine
  <2>3. (Known(c) => Known(c)') /\ (Unknown(c) => Unknown(c)')
    BY <1>3 DEF Known, Unknown
  <2> QED  BY <1>1, <2>1, <2>2, <2>3, StillInStep
<1>5. \A i \in 1..Len(backlog') : i \in 1..Len(backlog) /\ backlog'[i] = backlog[i]
                                  /\ backlog[i] \notin cs
  BY EmptySeq
<1>6. AllWait'
  BY <1>1, <1>5 DEF StepInv, AllWait, Waits
<1>7. ASSUME NEW c \in closed'
      PROVE  Ended(c)'
  <2>1. c \in Clients
    BY <1>1, <1>7 DEF StepInv, StepTypes
  <2>2. CASE c \in cs
    BY <2>1, <2>2, <1>1, <1>5 DEF Ended
  <2>3. CASE c \notin cs
    <3>1. Ended(c)
      BY <2>3, <1>1, <1>7 DEF StepInv
    <3> QED  BY <2>1, <3>1, <1>1, <1>3, <1>5 DEF Ended
  <2> QED  BY <2>2, <2>3
<1> QED  BY <1>1, <1>2, <1>4, <1>6, <1>7 DEF StepInv

LEMMA RemoveInStep ==
  ASSUME ListInv, StepInv, Walking, remove_connection
  PROVE  StepInv'
<1>1. client \in Fds /\ peer[client] # NULL /\ client \in Open
  BY DEF Walking, ListInv, Place, Open
<1>2. peer \in [Fds -> Clients \cup {NULL}] /\ DOMAIN fcl_user = Fds
  BY DEF ListInv, ListTypes, StepInv, StepTypes
<1>3. PICK c \in Clients : c = peer[client] /\ c # NULL
  BY <1>1, <1>2
<1>4. /\ Closes({c}) /\ peer' = [peer EXCEPT ![client] = NULL]
      /\ fcl_user' = [fcl_user EXCEPT ![client] = NoUser]
      /\ UNCHANGED <<at, backlog, peercred, to_client, users>>
  BY <1>3 DEF remove_connection
<1>5. \A fd \in Fds : peer'[fd] \in {NULL, peer[fd]} /\ peer'[fd] \notin {c}
                      /\ (peer'[fd] # NULL => fcl_user'[fd] = fcl_user[fd])
  <2> TAKE fd \in Fds
  <2>1. CASE fd = client
    BY <2>1, <1>2, <1>3, <1>4
  <2>2. CASE fd # client
    <3>1. peer'[fd] = peer[fd] /\ fcl_user'[fd] = fcl_user[fd]
      BY <2>2, <1>2, <1>4
    <3>2. peer[fd] # c
      BY <2>2, <1>1, <1>3 DEF ListInv, OnePlace, Open
    <3> QED  BY <3>1, <3>2
  <2> QED  BY <2>1, <2>2
<1>6. st[c] # "new" /\ \A i \in 1..Len(backlog) : backlog[i] # c
  BY <1>1, <1>3 DEF ListInv, OnePlace
<1>7. at' # "answer" /\ DOMAIN fcl_user' = Fds
  BY <1>2, <1>4 DEF Walking
<1> QED
  <2>1. {c} \in SUBSET Clients
    OBVIOUS
  <2> QED  BY <2>1, <1>4, <1>5, <1>6, <1>7, ClosingStep

LEMMA StopsInStep ==
  ASSUME ListInv, StepInv, Stops
  PROVE  StepInv'
<1> DEFINE cs == {peer[fd] : fd \in {f \in Fds : peer[f] # NULL}} \cup Range(backlog)
<1>1. peer \in [Fds -> Clients \cup {NULL}] /\ backlog \in Seq(Clients)
  BY DEF ListInv, ListTypes
<1>2. /\ Closes(cs) /\ at' = "stopped" /\ backlog' = <<>>
      /\ peer' = [fd \in Fds |-> NULL] /\ fcl_user' = [fd \in Fds |-> NoUser]
      /\ UNCHANGED <<peercred, to_client, users>>
  BY DEF Stops
<1>3. \A c \in cs : (\E fd \in Open : c = peer[fd]) \/ (\E i \in 1..Len(backlog) : c = backlog[i])
  BY <1>1, RangeEquality DEF Open
<1>4. cs \in SUBSET Clients
  <2>1. \A fd \in Open : peer[fd] \in Clients
    BY <1>1 DEF Open
  <2>2. \A i \in 1..Len(backlog) : backlog[i] \in Clients
    BY <1>1, ElementOfSeq
  <2> HIDE DEF cs
  <2> QED  BY <2>1, <2>2, <1>3
<1> HIDE DEF cs
<1>5. \A c \in cs : st[c] # "new"
  BY <1>3 DEF ListInv, OnePlace
<1>6. \A fd \in Fds : peer'[fd] = NULL
  BY <1>2
<1>7. NULL \notin cs
  BY <1>4, FcrondynAssumption DEF FcrondynAssumption
<1>8. DOMAIN fcl_user' = Fds
  BY <1>2
<1> QED  BY <1>2, <1>4, <1>5, <1>6, <1>7, <1>8, ClosingStep

(* The client that fcron is answering, or about to.                        *)
LEMMA PeerIs ==
  ASSUME ListInv, StepInv, client \in Open
  PROVE  \E c \in Clients :
           /\ client \in Fds /\ peer[client] = c /\ st[c] # "new"
           /\ \A fd \in Fds : peer[fd] = c <=> fd = client
           /\ \A i \in 1..Len(backlog) : backlog[i] # c
           /\ c \notin closed
<1>1. client \in Fds /\ peer[client] # NULL /\ peer \in [Fds -> Clients \cup {NULL}]
  BY DEF Open, ListInv, ListTypes
<1>2. PICK c \in Clients : c = peer[client] /\ c # NULL
  BY <1>1
<1>3. st[c] # "new" /\ \A i \in 1..Len(backlog) : backlog[i] # c
  BY <1>2 DEF ListInv, OnePlace
<1>4. \A fd \in Fds : peer[fd] = c <=> fd = client
  BY <1>1, <1>2 DEF ListInv, OnePlace, Open
<1>5. c \notin closed
  BY <1>1, <1>2 DEF StepInv, Ended
<1> QED  BY <1>1, <1>2, <1>3, <1>4, <1>5

(* fcron answers one client: the others see nothing of it.                 *)
LEMMA AnswerOne ==
  ASSUME ListInv, StepInv, NEW c \in Clients, client \in Fds,
         \A fd \in Fds : peer[fd] = c <=> fd = client,
         \A i \in 1..Len(backlog) : backlog[i] # c, c \notin closed,
         UNCHANGED <<peercred, peer, client, backlog, closed, st, num, answer>>,
         crossed' = crossed \/ (crossed' = crossed \cup {c} /\ st[c] \notin {"new", "gone"}),
         DOMAIN to_fcron' = Clients, DOMAIN to_client' = Clients, DOMAIN fcl_user' = Fds,
         \A d \in Clients \ {c} : UNCHANGED <<to_fcron[d], to_client[d]>>,
         \A fd \in Fds \ {client} : UNCHANGED fcl_user[fd],
         st[c] # "gone" /\ c \notin crossed' => InStep(c)'
  PROVE  StepInv'
<1>1. StepTypes'
  BY DEF StepInv, StepTypes
<1>2. ASSUME NEW d \in Clients \ crossed', st'[d] # "gone"
      PROVE  InStep(d)'
  <2>1. CASE d = c
    BY <2>1, <1>2
  <2>2. CASE d # c
    <3>1. InStep(d)
      BY <1>2 DEF StepInv
    <3>2. ToSend(d)' = <<>>
      BY <2>2 DEF ToSend, Mine
    <3>3. (Known(d) => Known(d)') /\ (Unknown(d) => Unknown(d)')
      BY <2>2 DEF Known, Unknown
    <3> QED  BY <2>2, <3>1, <3>2, <3>3, StillInStep
  <2> QED  BY <2>1, <2>2
<1>3. AllWait'
  <2> SUFFICES ASSUME NEW i \in 1..Len(backlog), NEW d \in Clients, d = backlog[i]
               PROVE  Waits(d)'
    BY ElementOfSeq DEF AllWait, ListInv, ListTypes
  <2>1. Waits(d) /\ d # c
    BY DEF StepInv, AllWait
  <2> QED  BY <2>1 DEF Waits
<1>4. ASSUME NEW d \in closed'
      PROVE  Ended(d)'
  <2>1. Ended(d) /\ d # c /\ d \in Clients
    BY <1>4 DEF StepInv, StepTypes
  <2> QED  BY <2>1 DEF Ended
<1>5. \A d \in Clients : st'[d] \in {"new", "gone"} => answer'[d] = {} /\ d \notin crossed'
  BY DEF StepInv
<1> QED  BY <1>1, <1>2, <1>3, <1>4, <1>5 DEF StepInv

LEMMA PasswordInStep ==
  ASSUME ListInv, StepInv, auth_client_password
  PROVE  StepInv'
<1>1. client \in Open /\ at = "walk"
  BY DEF auth_client_password, Walking, ListInv, Place
<1>2. PICK c \in Clients :
        /\ client \in Fds /\ peer[client] = c /\ st[c] # "new"
        /\ \A fd \in Fds : peer[fd] = c <=> fd = client
        /\ \A i \in 1..Len(backlog) : backlog[i] # c
        /\ c \notin closed
  BY <1>1, PeerIs
<1>3. DOMAIN to_fcron = Clients /\ DOMAIN to_client = Clients /\ DOMAIN fcl_user = Fds
  BY DEF StepInv, StepTypes
<1>4. PICK ok \in BOOLEAN :
        /\ fcl_user' = IF ok THEN [fcl_user EXCEPT ![client] = user_str[c]] ELSE fcl_user
        /\ out' = Replies(ok)
        /\ to_fcron' = [to_fcron EXCEPT ![c] = <<>>]
        /\ fcl_user[client] = NoUser /\ to_fcron[c] # <<>> /\ at' = "answer"
        /\ UNCHANGED <<peercred, peer, client, backlog, closed, to_client, st, num, answer,
                       crossed>>
  <2> DEFINE fails == IF auth_fail > 0 /\ cooled THEN 0 ELSE auth_fail
             full  == fails >= MAX_AUTH_FAIL
  <2>1. PICK b \in BOOLEAN : b = (~full /\ Head(to_fcron[c]).good)
    OBVIOUS
  <2>2. /\ fcl_user' = IF b THEN [fcl_user EXCEPT ![client] = user_str[c]] ELSE fcl_user
        /\ out' = Replies(b)
    BY <2>1, <1>2 DEF auth_client_password
  <2> QED  BY <2>2, <1>2 DEF auth_client_password, users
<1>5. ASSUME st[c] # "gone", c \notin crossed'
      PROVE  InStep(c)'
  <2>1. InStep(c) /\ ~Known(c)
    BY <1>2, <1>4, <1>5 DEF StepInv, Known
  <2>2. st[c] = "auth" /\ to_client[c] = <<>>
    <3>1. st[c] \in States
      BY DEF ListInv, ListTypes
    <3>2. Coming(c) = <<>> /\ to_client[c] \in Seq(Message) /\ ToSend(c) \in Seq(Message)
      BY <1>4, <2>1 DEF InStep
    <3>3. to_client[c] = <<>>
      BY <3>2, ComingIs DEF Coming
    <3> QED  BY <1>2, <1>5, <2>1, <3>1, <3>3 DEF InStep, States
  <2>3. ToSend(c)' = Replies(ok) /\ to_client'[c] = <<>> /\ to_fcron'[c] = <<>>
    BY <1>2, <1>3, <1>4, <2>2 DEF ToSend, Mine
  <2> DEFINE s == Replies(ok)
  <2>4. s \in Seq(Message) /\ Len(s) = 1 /\ Head(s).what = IF ok THEN "1" ELSE "0"
    BY DEF Replies, Message
  <2>5. Coming(c)' = s
    <3> HIDE DEF s
    <3>1. <<>> \o s = s
      BY <2>4, ConcatEmptySeq
    <3> QED  BY <3>1, <2>3 DEF Coming, s
  <2>6. ok => Known(c)'
    BY <1>2, <1>3, <1>4, UserNames DEF Known
  <2>7. ToSend(c)' \in Seq(Message) /\ to_client'[c] \in Seq(Message)
    BY <2>3, <2>4, EmptySeq
  <2>8. Head(s).what = "1" => Known(c)'
    BY <2>4, <2>6
  <2>9. answer[c] \subseteq {num[c]}
    BY <2>1 DEF InStep
  <2> HIDE DEF s
  <2> QED  BY <2>2, <2>3, <2>4, <2>5, <2>7, <2>8, <2>9, <1>4 DEF InStep
<1>6. /\ DOMAIN to_fcron' = Clients /\ DOMAIN to_client' = Clients /\ DOMAIN fcl_user' = Fds
      /\ \A d \in Clients \ {c} : UNCHANGED <<to_fcron[d], to_client[d]>>
      /\ \A fd \in Fds \ {client} : UNCHANGED fcl_user[fd]
  BY <1>3, <1>4
<1> QED  BY <1>2, <1>4, <1>5, <1>6, AnswerOne

LEMMA CommandInStep ==
  ASSUME ListInv, StepInv, Command
  PROVE  StepInv'
<1>1. client \in Open /\ at = "walk"
  BY DEF Command, Walking, ListInv, Place
<1>2. PICK c \in Clients :
        /\ client \in Fds /\ peer[client] = c /\ st[c] # "new"
        /\ \A fd \in Fds : peer[fd] = c <=> fd = client
        /\ \A i \in 1..Len(backlog) : backlog[i] # c
        /\ c \notin closed
  BY <1>1, PeerIs
<1>3. DOMAIN to_fcron = Clients /\ DOMAIN to_client = Clients /\ DOMAIN fcl_user = Fds
  BY DEF StepInv, StepTypes
<1>4. PICK a \in exe_cmd(fcl_user[client], Head(to_fcron[c]).cmd, Head(to_fcron[c]).num) :
        /\ out' = a.msgs
        /\ crossed' = IF a.failed /\ st[c] # "gone" THEN crossed \cup {c} ELSE crossed
  BY <1>2 DEF Command
<1>5. /\ fcl_user[client] # NoUser /\ to_fcron[c] # <<>> /\ at' = "answer"
      /\ to_fcron' = [to_fcron EXCEPT ![c] = <<>>]
      /\ UNCHANGED <<peercred, peer, client, fcl_user, backlog, closed, to_client, st, num,
                     answer>>
  BY <1>2 DEF Command
<1>6. ASSUME st[c] # "gone", c \notin crossed'
      PROVE  InStep(c)'
  <2>1. InStep(c) /\ ~a.failed
    BY <1>4, <1>6 DEF StepInv
  <2>2. st[c] \in {"sent", "reading"}
    <3>1. st[c] \in States
      BY DEF ListInv, ListTypes
    <3>2. ~Unknown(c)
      BY <1>2, <1>5 DEF Unknown
    <3> QED  BY <1>2, <1>5, <1>6, <2>1, <3>1, <3>2 DEF InStep, States
  <2>3. /\ Head(to_fcron[c]).num = num[c] /\ Known(c)
        /\ Head(to_fcron[c]).cmd.code \in JobCodes \cup ListCodes
    BY <1>5, <2>1, <2>2 DEF InStep
  <2>4. to_client[c] = <<>>
    <3>1. Coming(c) = <<>> /\ to_client[c] \in Seq(Message) /\ ToSend(c) \in Seq(Message)
      BY <1>5, <2>1 DEF InStep
    <3> QED  BY <3>1, ComingIs DEF Coming
  <2>5. num[c] \in Nat
    BY DEF StepInv, StepTypes
  <2>6. a.msgs \in Seq(Message) /\ Whole(a.msgs, num[c])
    BY <2>1, <2>3, <2>5, AnswersAreWhole
  <2>7. ToSend(c)' = a.msgs /\ to_client'[c] = <<>> /\ to_fcron'[c] = <<>>
    BY <1>2, <1>3, <1>4, <1>5, <2>4 DEF ToSend, Mine
  <2>8. Coming(c)' = a.msgs
    <3>1. <<>> \o a.msgs = a.msgs
      BY <2>6, ConcatEmptySeq
    <3> QED  BY <3>1, <2>7 DEF Coming
  <2>9. Whole(Coming(c), num[c])' /\ Known(c)'
    BY <1>5, <2>3, <2>6, <2>8 DEF Whole, Known
  <2>10. ToSend(c)' \in Seq(Message) /\ to_client'[c] \in Seq(Message)
    BY <2>6, <2>7, EmptySeq
  <2>11. answer[c] \subseteq {num[c]}
    BY <2>1 DEF InStep
  <2> QED  BY <1>5, <2>2, <2>7, <2>9, <2>10, <2>11 DEF InStep
<1>7. /\ DOMAIN to_fcron' = Clients /\ DOMAIN to_client' = Clients /\ DOMAIN fcl_user' = Fds
      /\ \A d \in Clients \ {c} : UNCHANGED <<to_fcron[d], to_client[d]>>
      /\ \A fd \in Fds \ {client} : UNCHANGED fcl_user[fd]
  BY <1>3, <1>5
<1>8. crossed' = crossed \/ (crossed' = crossed \cup {c} /\ st[c] \notin {"new", "gone"})
  BY <1>2, <1>4
<1> QED  BY <1>2, <1>5, <1>6, <1>7, <1>8, AnswerOne

LEMMA SendInStep ==
  ASSUME ListInv, StepInv, Send
  PROVE  StepInv'
<1>1. client \in Open /\ at = "answer"
  BY DEF Send, ListInv, Place
<1>2. PICK c \in Clients :
        /\ client \in Fds /\ peer[client] = c /\ st[c] # "new"
        /\ \A fd \in Fds : peer[fd] = c <=> fd = client
        /\ \A i \in 1..Len(backlog) : backlog[i] # c
        /\ c \notin closed
  BY <1>1, PeerIs
<1>3. DOMAIN to_fcron = Clients /\ DOMAIN to_client = Clients /\ DOMAIN fcl_user = Fds
  BY DEF StepInv, StepTypes
<1>4. /\ out # <<>> /\ out' = Tail(out)
      /\ \/ to_client' = IF st[c] = "gone" THEN to_client
                          ELSE [to_client EXCEPT ![c] = Append(@, Head(out))]
         \/ UNCHANGED to_client
      /\ UNCHANGED <<at, peercred, peer, client, fcl_user, backlog, closed, to_fcron, st, num,
                     answer, crossed>>
  BY <1>2 DEF Send, users
<1>5. ASSUME st[c] # "gone", c \notin crossed'
      PROVE  InStep(c)'
  <2>1. InStep(c)
    BY <1>4, <1>5 DEF StepInv
  <2>2. ToSend(c) = out /\ ToSend(c)' = Tail(out)
    BY <1>1, <1>2, <1>4 DEF ToSend, Mine
  <2>3. \/ to_client'[c] = Append(to_client[c], Head(out))
        \/ to_client'[c] = to_client[c]
    BY <1>3, <1>4, <1>5
  <2>4. /\ to_client'[c] \in Seq(Message) /\ ToSend(c)' \in Seq(Message)
        /\ Coming(c) # <<>>
        /\ Coming(c)' # <<>> /\ Len(Coming(c)) = 1 => Coming(c)' = Coming(c)
        /\ \A n : Whole(Coming(c), n) => Whole(Coming(c)', n)
    <3>1. to_client[c] \in Seq(Message) /\ out \in Seq(Message)
      BY <2>1, <2>2 DEF InStep
    <3>2. /\ Append(to_client[c], Head(out)) \in Seq(Message) /\ Tail(out) \in Seq(Message)
          /\ Append(to_client[c], Head(out)) \o Tail(out) = to_client[c] \o out
      BY <1>4, <3>1, OneIsSent
    <3>3. Coming(c)' = to_client'[c] \o ToSend(c)' /\ Coming(c) = to_client[c] \o ToSend(c)
      BY DEF Coming
    <3>4. /\ to_client[c] \o out # <<>>
          /\ Len(to_client[c] \o out) = 1 => to_client[c] \o Tail(out) = <<>>
          /\ \A n : Whole(to_client[c] \o out, n) => Whole(to_client[c] \o Tail(out), n)
      BY <1>4, <3>1, OneIsLost
    <3>5. CASE to_client'[c] = Append(to_client[c], Head(out))
      BY <2>2, <3>2, <3>3, <3>4, <3>5
    <3>6. CASE to_client'[c] = to_client[c]
      BY <2>2, <3>1, <3>2, <3>3, <3>4, <3>6
    <3> QED  BY <2>3, <3>5, <3>6
  <2>5. (Known(c) => Known(c)') /\ (Unknown(c) => Unknown(c)')
    BY <1>4 DEF Known, Unknown
  <2>6. Whole(Coming(c), num[c]) => Whole(Coming(c), num[c])'
    BY <1>4, <2>4 DEF Whole
  <2>7. UNCHANGED <<st, num, answer, to_fcron>>
    BY <1>4
  <2> QED  BY <2>1, <2>4, <2>5, <2>6, <2>7 DEF InStep
<1>6. /\ DOMAIN to_client' = Clients
      /\ \A d \in Clients \ {c} : UNCHANGED to_client[d]
  BY <1>3, <1>4
<1> QED  BY <1>2, <1>3, <1>4, <1>5, <1>6, AnswerOne

-----------------------------------------------------------------------------
(* What fcrondyn does leaves everybody in step.                            *)

(* One fcrondyn does something that only concerns itself.                  *)
LEMMA OnlyOne ==
  ASSUME ListInv, StepInv, NEW c \in Clients, UNCHANGED <<peercred, fcron, backlog, closed>>,
         DOMAIN to_fcron' = Clients, DOMAIN to_client' = Clients,
         DOMAIN answer' = Clients, num' \in [Clients -> Nat],
         \A d \in Clients \ {c} :
           UNCHANGED <<to_fcron[d], to_client[d], st[d], num[d], answer[d]>>,
         \A d \in Clients \ {c} : d \in crossed' <=> d \in crossed,
         st'[c] # "gone" /\ c \notin crossed' => InStep(c)',
         st'[c] \in {"new", "gone"} => answer'[c] = {} /\ c \notin crossed',
         Waits(c) => Waits(c)',
         c \in closed => to_fcron'[c] = <<>> /\ st'[c] # "new"
  PROVE  StepInv'
<1>1. UNCHANGED <<at, peer, client, fcl_user, out>>
  BY DEF fcron
<1>2. StepTypes'
  BY <1>1 DEF StepInv, StepTypes
<1>3. ASSUME NEW d \in Clients \ crossed', st'[d] # "gone"
      PROVE  InStep(d)'
  <2>1. CASE d = c
    BY <2>1, <1>3
  <2>2. CASE d # c
    <3>1. InStep(d)
      BY <2>2, <1>3 DEF StepInv
    <3>2. ToSend(d)' = ToSend(d)
      BY <1>1 DEF ToSend, Mine
    <3>3. (Known(d) => Known(d)') /\ (Unknown(d) => Unknown(d)')
      BY <1>1 DEF Known, Unknown
    <3> QED  BY <2>2, <3>1, <3>2, <3>3, StillInStep
  <2> QED  BY <2>1, <2>2
<1>4. AllWait'
  <2> SUFFICES ASSUME NEW i \in 1..Len(backlog), NEW d \in Clients, d = backlog[i]
               PROVE  Waits(d)'
    BY ElementOfSeq DEF AllWait, ListInv, ListTypes
  <2>1. Waits(d)
    BY DEF StepInv, AllWait
  <2> QED  BY <2>1 DEF Waits
<1>5. ASSUME NEW d \in closed'
      PROVE  Ended(d)'
  <2>1. Ended(d) /\ d \in Clients
    BY <1>5 DEF StepInv, StepTypes
  <2> QED  BY <1>1, <1>5, <2>1 DEF Ended
<1>6. \A d \in Clients : st'[d] \in {"new", "gone"} => answer'[d] = {} /\ d \notin crossed'
  BY DEF StepInv
<1> QED  BY <1>2, <1>3, <1>4, <1>5, <1>6 DEF StepInv

LEMMA LeaveInStep ==
  ASSUME ListInv, StepInv, NEW c \in Clients, st[c] # "new", Leave(c),
         UNCHANGED <<peercred, fcron, backlog, to_fcron, closed>>
  PROVE  StepInv'
<1>1. /\ DOMAIN to_fcron = Clients /\ DOMAIN to_client = Clients /\ DOMAIN answer = Clients
      /\ num \in [Clients -> Nat] /\ DOMAIN st = Clients
  BY DEF StepInv, StepTypes, ListInv, ListTypes
<1>2. /\ st' = [st EXCEPT ![c] = "gone"] /\ to_client' = [to_client EXCEPT ![c] = <<>>]
      /\ num' = [num EXCEPT ![c] = 0] /\ answer' = [answer EXCEPT ![c] = {}]
      /\ crossed' = crossed \ {c}
  BY DEF Leave
<1>3. st'[c] = "gone" /\ answer'[c] = {} /\ c \notin crossed'
  BY <1>1, <1>2
<1>4. Waits(c)'
  BY <1>3 DEF Waits
<1>5. c \in closed => to_fcron'[c] = <<>>
  BY DEF StepInv, Ended
<1>6. /\ DOMAIN to_fcron' = Clients /\ DOMAIN to_client' = Clients
      /\ DOMAIN answer' = Clients /\ num' \in [Clients -> Nat]
      /\ \A d \in Clients \ {c} :
           UNCHANGED <<to_fcron[d], to_client[d], st[d], num[d], answer[d]>>
      /\ \A d \in Clients \ {c} : d \in crossed' <=> d \in crossed
  BY <1>1, <1>2
<1> QED  BY <1>3, <1>4, <1>5, <1>6, OnlyOne

(* A run of fcrondyn that is nowhere yet.                                  *)
LEMMA NewIsNowhere ==
  ASSUME ListInv, NEW c \in Clients, st[c] = "new"
  PROVE  \A fd \in Fds : peer[fd] # c
<1>1. c # NULL
  BY FcrondynAssumption DEF FcrondynAssumption
<1> QED  BY <1>1 DEF ListInv, OnePlace, Open

LEMMA ConnectInStep ==
  ASSUME ListInv, StepInv, NEW c \in Clients, connect_fcron(c)
  PROVE  StepInv'
<1>1. /\ DOMAIN to_fcron = Clients /\ DOMAIN to_client = Clients /\ DOMAIN answer = Clients
      /\ num \in [Clients -> Nat] /\ DOMAIN st = Clients
  BY DEF StepInv, StepTypes, ListInv, ListTypes
<1>2. /\ st[c] = "new"
      /\ UNCHANGED <<peercred, fcron, to_client, closed, num, answer, crossed>>
  BY DEF connect_fcron
<1>3. /\ c \notin closed /\ answer[c] = {} /\ c \notin crossed /\ InStep(c)
  <2>1. c \notin closed
    BY <1>2 DEF StepInv, Ended
  <2> QED  BY <2>1, <1>2 DEF StepInv
<1>4. UNCHANGED <<at, peer, client, fcl_user, out>>
  BY <1>2 DEF fcron
<1>5. CASE at = "stopped"
  <2>1. st' = [st EXCEPT ![c] = "gone"] /\ UNCHANGED <<backlog, to_fcron>>
    BY <1>5 DEF connect_fcron
  <2>2. st'[c] = "gone" /\ \A d \in Clients \ {c} : st'[d] = st[d]
    BY <1>1, <2>1
  <2>3. Waits(c)'
    BY <2>2 DEF Waits
  <2> QED  BY <1>1, <1>2, <1>3, <2>1, <2>2, <2>3, OnlyOne
<1>6. CASE at # "stopped"
  <2>1. backlog' = Append(backlog, c)
        /\ \/ peercred /\ st' = [st EXCEPT ![c] = "prompt"] /\ UNCHANGED to_fcron
           \/ /\ ~peercred /\ st' = [st EXCEPT ![c] = "auth"]
              /\ \E good \in BOOLEAN :
                    to_fcron' = [to_fcron EXCEPT ![c] = Append(@, [num |-> 0, good |-> good])]
    BY <1>6 DEF connect_fcron
  <2>2. /\ st'[c] = (IF peercred THEN "prompt" ELSE "auth")
        /\ (peercred => to_fcron'[c] = to_fcron[c]) /\ DOMAIN to_fcron' = Clients
        /\ \A d \in Clients \ {c} : st'[d] = st[d] /\ to_fcron'[d] = to_fcron[d]
    BY <1>1, <2>1
  <2>3. /\ Len(backlog) \in Nat /\ Len(backlog') = Len(backlog) + 1
        /\ \A i \in 1..Len(backlog) : backlog'[i] = backlog[i]
        /\ backlog'[Len(backlog) + 1] = c
    BY <2>1, AppendProperties, LenProperties DEF ListInv, ListTypes
  <2>4. \A i \in 1..Len(backlog') :
          (i = Len(backlog) + 1 /\ backlog'[i] = c)
          \/ (i \in 1..Len(backlog) /\ backlog'[i] = backlog[i])
    BY <2>3
  <2>5. \A fd \in Fds : peer'[fd] # c
    BY <1>2, <1>4, NewIsNowhere
  <2>6. to_fcron[c] = <<>> /\ Coming(c) = <<>> /\ to_client[c] = <<>>
    <3>1. /\ to_fcron[c] = <<>> /\ Coming(c) = <<>>
          /\ to_client[c] \in Seq(Message) /\ ToSend(c) \in Seq(Message)
      BY <1>2, <1>3 DEF InStep
    <3> QED  BY <3>1, ComingIs DEF Coming
  <2>7. InStep(c)'
    <3>1. Coming(c)' = Coming(c) /\ ToSend(c)' = ToSend(c)
      BY <1>2, <1>4 DEF Coming, ToSend, Mine
    <3>2. Known(c)' /\ Unknown(c)'
      BY <2>5 DEF Known, Unknown
    <3>3. /\ to_client[c] \in Seq(Message) /\ ToSend(c) \in Seq(Message)
          /\ answer[c] \subseteq {num[c]}
      BY <1>3 DEF InStep
    <3>4. peercred => st'[c] = "prompt" /\ to_fcron'[c] = <<>>
      BY <2>2, <2>6
    <3>5. ~peercred => st'[c] = "auth"
      BY <2>2
    <3> QED  BY <1>2, <2>6, <3>1, <3>2, <3>3, <3>4, <3>5 DEF InStep
  <2>8. ASSUME NEW d \in Clients \ crossed', st'[d] # "gone"
        PROVE  InStep(d)'
    <3>1. CASE d = c
      BY <3>1, <2>7
    <3>2. CASE d # c
      <4>1. InStep(d)
        BY <3>2, <1>2, <2>2, <2>8 DEF StepInv
      <4>2. ToSend(d)' = ToSend(d)
        BY <1>4 DEF ToSend, Mine
      <4>3. (Known(d) => Known(d)') /\ (Unknown(d) => Unknown(d)')
        BY <1>4 DEF Known, Unknown
      <4> QED  BY <3>2, <1>2, <2>2, <4>1, <4>2, <4>3, StillInStep
    <3> QED  BY <3>1, <3>2
  <2>9. AllWait'
    <3>1. Waits(c)'
      BY <1>2, <2>2, <2>6 DEF Waits
    <3>2. ASSUME NEW i \in 1..Len(backlog), NEW d \in Clients, d = backlog[i]
          PROVE  Waits(d)'
      <4>1. Waits(d) /\ d # c
        BY <1>2, <3>2 DEF StepInv, AllWait, ListInv, OnePlace
      <4> QED  BY <4>1, <1>2, <2>2 DEF Waits
    <3>3. \A i \in 1..Len(backlog) : backlog[i] \in Clients
      BY ElementOfSeq DEF ListInv, ListTypes
    <3> QED  BY <2>4, <3>1, <3>2, <3>3 DEF AllWait
  <2>10. ASSUME NEW d \in closed'
         PROVE  Ended(d)'
    <3>1. Ended(d) /\ d \in Clients /\ d # c
      BY <1>2, <1>3, <2>10 DEF StepInv, StepTypes
    <3> QED  BY <1>4, <2>2, <2>4, <3>1 DEF Ended
  <2>11. StepTypes'
    BY <1>2, <1>4, <2>2 DEF StepInv, StepTypes
  <2>12. \A d \in Clients : st'[d] \in {"new", "gone"} => answer'[d] = {} /\ d \notin crossed'
    BY <1>2, <2>2 DEF StepInv
  <2> QED  BY <2>8, <2>9, <2>10, <2>11, <2>12 DEF StepInv
<1> QED  BY <1>5, <1>6

(* The types that the steps of a fcrondyn need.                            *)
LEMMA Domains ==
  ASSUME ListInv, StepInv
  PROVE  /\ DOMAIN to_fcron = Clients /\ DOMAIN to_client = Clients /\ DOMAIN answer = Clients
         /\ num \in [Clients -> Nat] /\ st \in [Clients -> States]
BY DEF StepInv, StepTypes, ListInv, ListTypes

LEMMA LoggedInStep ==
  ASSUME ListInv, StepInv, NEW c \in Clients, authenticate_user_password(c)
  PROVE  StepInv'
<1>1. st[c] = "auth" /\ to_client[c] # <<>> /\ UNCHANGED <<peercred, fcron, backlog, to_fcron, closed>>
  BY DEF authenticate_user_password
<1>2. CASE Head(to_client[c]).what # "1"
  <2>1. Leave(c)
    BY <1>2 DEF authenticate_user_password
  <2> QED  BY <2>1, <1>1, LeaveInStep
<1>3. CASE Head(to_client[c]).what = "1"
  <2>1. /\ st' = [st EXCEPT ![c] = "prompt"] /\ to_client' = [to_client EXCEPT ![c] = Tail(@)]
        /\ UNCHANGED <<num, answer, crossed>>
    BY <1>3 DEF authenticate_user_password
  <2>2. st'[c] = "prompt" /\ to_client'[c] = Tail(to_client[c])
    BY <2>1, Domains
  <2>3. ASSUME c \notin crossed
        PROVE  InStep(c)'
    <3>1. InStep(c)
      BY <1>1, <2>3 DEF StepInv
    <3> DEFINE t == to_client[c]
               s == ToSend(c)
    <3>2. t \in Seq(Message) /\ s \in Seq(Message) /\ Coming(c) = t \o s
      BY <3>1 DEF InStep, Coming
    <3>3. /\ to_fcron[c] # <<>> => t \o s = <<>>
          /\ t \o s # <<>> => Len(t \o s) = 1 /\ (Head(t \o s).what = "1" => Known(c))
          /\ answer[c] \subseteq {num[c]} /\ t # <<>> /\ Head(t).what = "1"
      BY <3>1, <3>2, <1>1, <1>3 DEF InStep
    <3>4. ToSend(c)' = s /\ to_client'[c] = Tail(t)
      BY <1>1, <2>2 DEF fcron, ToSend, Mine
    <3> HIDE DEF t, s
    <3>5. t \o s # <<>> /\ Len(t) = 1 /\ Head(t) = Head(t \o s)
      BY <3>2, <3>3, ComingIs, SentOnly
    <3>6. Known(c) /\ to_fcron[c] = <<>>
      BY <3>3, <3>5
    <3>7. s = <<>>
      <4>1. Len(s) \in Nat /\ 1 = 1 + Len(s)
        BY <3>2, <3>3, <3>5, ComingIs
      <4>2. Len(s) = 0
        BY <4>1
      <4> QED  BY <4>2, <3>2, EmptySeq
    <3>8. Tail(t) = <<>>
      <4>1. Tail(t) \in Seq(Message) /\ Len(Tail(t)) = 0
        BY <3>2, <3>3, <3>5, HeadTailProperties
      <4> QED  BY <4>1, EmptySeq
    <3>9. Coming(c)' = <<>> /\ ToSend(c)' = <<>> /\ to_client'[c] = <<>>
      BY <3>4, <3>7, <3>8, ConcatEmptySeq, EmptySeq DEF Coming
    <3>10. Known(c)' /\ to_fcron'[c] = <<>> /\ answer'[c] \subseteq {num'[c]}
      BY <3>3, <3>6, <1>1, <2>1 DEF Known, fcron
    <3>11. <<>> \in Seq(Message)
      BY EmptySeq
    <3> QED  BY <2>2, <3>9, <3>10, <3>11 DEF InStep
  <2>4. ~Waits(c)
    BY <1>1 DEF Waits
  <2>5. c \in closed => to_fcron'[c] = <<>>
    BY <1>1 DEF StepInv, Ended
  <2>6. /\ DOMAIN to_fcron' = Clients /\ DOMAIN to_client' = Clients
        /\ DOMAIN answer' = Clients /\ num' \in [Clients -> Nat]
        /\ \A d \in Clients \ {c} :
             UNCHANGED <<to_fcron[d], to_client[d], st[d], num[d], answer[d]>>
    BY <1>1, <2>1, Domains
  <2> QED  BY <1>1, <2>1, <2>2, <2>3, <2>4, <2>5, <2>6, OnlyOne
<1> QED  BY <1>2, <1>3

LEMMA AskInStep ==
  ASSUME ListInv, StepInv, NEW c \in Clients, Ask(c)
  PROVE  StepInv'
<1>1. st[c] = "prompt" /\ UNCHANGED <<peercred, fcron, backlog, closed>>
  BY DEF Ask
<1>2. CASE c \in closed
  BY <1>1, <1>2, LeaveInStep DEF Ask
<1>3. CASE c \notin closed
  <2>1. PICK cmd \in parse_cmd(user_str[c]) :
          to_fcron' = [to_fcron EXCEPT ![c] = Append(@, [num |-> num'[c], cmd |-> cmd])]
    BY <1>3 DEF Ask
  <2>2. /\ num' = [num EXCEPT ![c] = @ + 1] /\ answer' = [answer EXCEPT ![c] = {}]
        /\ st' = [st EXCEPT ![c] = "sent"] /\ UNCHANGED <<to_client, crossed>>
    BY <1>3 DEF Ask
  <2> DEFINE m == [num |-> num'[c], cmd |-> cmd]
  <2>3. st'[c] = "sent" /\ answer'[c] = {} /\ to_fcron'[c] = Append(to_fcron[c], m)
    BY <2>1, <2>2, Domains
  <2>4. ASSUME c \notin crossed
        PROVE  InStep(c)'
    <3>1. InStep(c)
      BY <1>1, <2>4 DEF StepInv
    <3>2. /\ to_client[c] \in Seq(Message) /\ ToSend(c) \in Seq(Message)
          /\ to_fcron[c] = <<>> /\ Coming(c) = <<>> /\ Known(c)
      BY <1>1, <3>1 DEF InStep
    <3>3. to_fcron'[c] # <<>> /\ Head(to_fcron'[c]) = m
      BY <2>3, <3>2
    <3>4. Head(to_fcron'[c]).num = num'[c] /\ Head(to_fcron'[c]).cmd = cmd
      BY <3>3
    <3>5. cmd.code \in JobCodes \cup ListCodes
      BY DEF parse_cmd
    <3>6. ToSend(c)' = ToSend(c) /\ Known(c)'
      BY <1>1, <3>2 DEF fcron, ToSend, Mine, Known
    <3>7. Coming(c)' = <<>>
      BY <2>2, <3>2, <3>6 DEF Coming
    <3>8. Whole(Coming(c), num[c])'
      BY <3>7 DEF Whole
    <3> QED  BY <2>2, <2>3, <3>2, <3>4, <3>5, <3>6, <3>7, <3>8 DEF InStep
  <2>5. Waits(c) => Waits(c)'
    BY <1>1, <2>2, <2>3 DEF Waits
  <2>6. /\ DOMAIN to_fcron' = Clients /\ DOMAIN to_client' = Clients
        /\ DOMAIN answer' = Clients /\ num' \in [Clients -> Nat]
        /\ \A d \in Clients \ {c} :
             UNCHANGED <<to_fcron[d], to_client[d], st[d], num[d], answer[d]>>
    BY <2>1, <2>2, Domains
  <2> QED  BY <1>1, <1>3, <2>2, <2>3, <2>4, <2>5, <2>6, OnlyOne
<1> QED  BY <1>2, <1>3

LEMMA RecvInStep ==
  ASSUME ListInv, StepInv, NEW c \in Clients, Recv(c)
  PROVE  StepInv'
<1>1. /\ st[c] \in {"sent", "reading"} /\ to_client[c] # <<>>
      /\ UNCHANGED <<peercred, fcron, backlog, to_fcron, closed, num, crossed>>
  BY DEF Recv
<1> DEFINE t == to_client[c]
           s == ToSend(c)
<1>2. PICK k \in 1..Len(t) :
        /\ answer' = [answer EXCEPT ![c] = @ \cup {m.cmd : m \in Range(SubSeq(t, 1, k))}]
        /\ \E seen \in SeesEnd(SubSeq(t, 1, k)) :
              st' = [st EXCEPT ![c] = IF seen THEN "prompt" ELSE "reading"]
        /\ to_client' = [to_client EXCEPT ![c] = SubSeq(@, k + 1, Len(@))]
  BY DEF Recv
<1>3. /\ answer'[c] = answer[c] \cup {m.cmd : m \in Range(SubSeq(t, 1, k))}
      /\ st'[c] = "reading" \/ (st'[c] = "prompt" /\ AtEnd(SubSeq(t, 1, k)))
      /\ to_client'[c] = SubSeq(t, k + 1, Len(t))
  BY <1>2, Domains DEF SeesEnd
<1>4. ASSUME c \notin crossed
      PROVE  InStep(c)'
  <2>1. InStep(c)
    BY <1>1, <1>4 DEF StepInv
  <2>2. t \in Seq(Message) /\ s \in Seq(Message) /\ Coming(c) = t \o s
    BY <2>1 DEF InStep, Coming
  <2>3. /\ Known(c) /\ Whole(t \o s, num[c]) /\ answer[c] \subseteq {num[c]}
        /\ to_fcron[c] # <<>> => t \o s = <<>>
    BY <1>1, <2>1, <2>2 DEF InStep
  <2>4. to_fcron[c] = <<>>
    <3>1. t \o s # <<>>
      BY <1>1, <2>2, ComingIs
    <3> QED  BY <3>1, <2>3
  <2>5. ToSend(c)' = s /\ Known(c)' /\ to_fcron'[c] = <<>> /\ num'[c] = num[c]
    BY <1>1, <2>3, <2>4 DEF fcron, ToSend, Mine, Known
  <2> DEFINE chunk == SubSeq(t, 1, k)
             left  == SubSeq(t, k + 1, Len(t))
  <2>6. /\ {m.cmd : m \in Range(chunk)} \subseteq {num[c]}
        /\ left \in Seq(Message) /\ Whole(left \o s, num[c])
        /\ AtEnd(chunk) => left \o s = <<>>
    <3> HIDE DEF t, s
    <3> QED  BY <2>2, <2>3, SomeAreRead
  <2>7. Coming(c)' = left \o s
    BY <1>3, <2>5 DEF Coming
  <2>8. answer'[c] \subseteq {num'[c]}
    BY <1>3, <2>3, <2>5, <2>6
  <2>9. Whole(Coming(c), num[c])'
    BY <2>5, <2>6, <2>7 DEF Whole
  <2>10. to_client'[c] \in Seq(Message) /\ ToSend(c)' \in Seq(Message)
    BY <1>3, <2>2, <2>5, <2>6
  <2>11. \/ st'[c] = "prompt" /\ Coming(c)' = <<>>
         \/ st'[c] = "reading"
    BY <1>3, <2>6, <2>7
  <2> QED  BY <2>5, <2>8, <2>9, <2>10, <2>11 DEF InStep
<1>5. ~Waits(c)
  BY <1>1 DEF Waits
<1>6. c \in closed => to_fcron'[c] = <<>>
  BY <1>1 DEF StepInv, Ended
<1>7. /\ DOMAIN to_fcron' = Clients /\ DOMAIN to_client' = Clients
      /\ DOMAIN answer' = Clients /\ num' \in [Clients -> Nat]
      /\ \A d \in Clients \ {c} :
           UNCHANGED <<to_fcron[d], to_client[d], st[d], num[d], answer[d]>>
  BY <1>1, <1>2, Domains
<1>8. st'[c] \in {"prompt", "reading"}
  BY <1>3
<1> QED  BY <1>1, <1>4, <1>5, <1>6, <1>7, <1>8, OnlyOne

(* recv() fails once when the connection is reset: nothing is on its way.  *)
LEMMA DisconnectedInStep ==
  ASSUME ListInv, StepInv, NEW c \in Clients, Disconnected(c)
  PROVE  StepInv'
<1>1. /\ st[c] \in {"auth", "sent", "reading"} /\ to_client[c] = <<>> /\ c \in closed
      /\ UNCHANGED <<peercred, fcron, backlog, to_fcron, closed>>
  BY DEF Disconnected
<1>2. CASE Leave(c)
  BY <1>1, <1>2, LeaveInStep
<1>3. CASE ~Leave(c)
  <2>1. /\ st[c] # "auth" /\ st' = [st EXCEPT ![c] = "prompt"]
        /\ UNCHANGED <<to_client, num, answer, crossed>>
    BY <1>3 DEF Disconnected
  <2>2. st'[c] = "prompt"
    BY <2>1, Domains
  <2>3. Ended(c)
    BY <1>1 DEF StepInv
  <2>4. ToSend(c) = <<>>
    BY <2>3 DEF ToSend, Mine, Ended, ListInv, Place, Open
  <2>5. ASSUME c \notin crossed
        PROVE  InStep(c)'
    <3>1. answer[c] \subseteq {num[c]}
      BY <1>1, <2>5 DEF StepInv, InStep
    <3>2. ToSend(c)' = <<>> /\ to_client'[c] = <<>> /\ to_fcron'[c] = <<>>
      BY <1>1, <2>1, <2>3, <2>4 DEF fcron, ToSend, Mine, Ended
    <3>3. Coming(c)' = <<>> /\ <<>> \in Seq(Message)
      BY <3>2, ConcatEmptySeq, EmptySeq DEF Coming
    <3>4. Known(c)'
      BY <1>1, <2>3 DEF Known, Ended, fcron
    <3> QED  BY <2>1, <2>2, <3>1, <3>2, <3>3, <3>4 DEF InStep
  <2>6. Waits(c) => Waits(c)'
    BY <1>1, <2>1, <2>2 DEF Waits
  <2>7. to_fcron'[c] = <<>>
    BY <1>1, <2>3 DEF Ended
  <2>8. /\ DOMAIN to_fcron' = Clients /\ DOMAIN to_client' = Clients
        /\ DOMAIN answer' = Clients /\ num' \in [Clients -> Nat]
        /\ \A d \in Clients \ {c} :
             UNCHANGED <<to_fcron[d], to_client[d], st[d], num[d], answer[d]>>
    BY <1>1, <2>1, Domains
  <2> QED  BY <1>1, <2>1, <2>2, <2>5, <2>6, <2>7, <2>8, OnlyOne
<1> QED  BY <1>2, <1>3

-----------------------------------------------------------------------------
LEMMA StepInit == Init => StepInv
<1> SUFFICES ASSUME Init PROVE StepInv
  OBVIOUS
<1>1. /\ peercred \in BOOLEAN /\ backlog = <<>> /\ closed = {} /\ crossed = {}
      /\ to_fcron = [c \in Clients |-> <<>>] /\ to_client = [c \in Clients |-> <<>>]
      /\ st = [c \in Clients |-> "new"] /\ num = [c \in Clients |-> 0]
      /\ answer = [c \in Clients |-> {}] /\ at = "select"
      /\ fcl_user = [fd \in Fds |-> NoUser]
  BY FcrondynAssumption DEF FcrondynAssumption, Init, fcrondyn_socket_init
<1>2. StepTypes /\ AllWait
  BY <1>1, EmptySeq DEF StepTypes, AllWait
<1>3. ASSUME NEW c \in Clients
      PROVE  InStep(c)
  <2>1. to_client[c] = <<>> /\ ToSend(c) = <<>> /\ <<>> \in Seq(Message)
    BY <1>1, NoneMine, EmptySeq
  <2>2. Coming(c) = <<>>
    BY <2>1, ConcatEmptySeq DEF Coming
  <2> QED  BY <1>1, <2>1, <2>2 DEF InStep
<1> QED  BY <1>1, <1>2, <1>3 DEF StepInv

LEMMA StepNext ==
  ASSUME ListInv, StepInv, [Next]_vars
  PROVE  StepInv'
<1>1. CASE UNCHANGED vars
  BY <1>1, QuietStep DEF vars, fcron, socks, users
<1>2. CASE select_call
  BY <1>2, QuietStep DEF select_call, socks, users
<1>3. CASE Accept
  BY <1>3, AcceptInStep
<1>4. CASE NoAccept
  BY <1>4, QuietStep DEF NoAccept, StartWalk, socks, users
<1>5. CASE IdleClosed \/ PeerClosed
  BY <1>5, RemoveInStep DEF IdleClosed, PeerClosed
<1>6. CASE NothingToDo
  BY <1>6, QuietStep DEF NothingToDo, Walking, socks, users
<1>7. CASE RecvError
  BY <1>7, QuietStep DEF RecvError, Walking, socks, users
<1>8. CASE auth_client_password
  BY <1>8, PasswordInStep
<1>9. CASE Command
  BY <1>9, CommandInStep
<1>10. CASE Send
  BY <1>10, SendInStep
<1>11. CASE Answered
  BY <1>11, QuietStep DEF Answered, socks, users
<1>12. CASE EndWalk
  BY <1>12, QuietStep DEF EndWalk, socks, users
<1>13. CASE TimePasses
  BY <1>13, QuietStep DEF TimePasses, socks, users
<1>14. CASE Stops
  BY <1>14, StopsInStep
<1>15. CASE Starts
  BY <1>15, QuietStep DEF Starts, socks, users
<1>16. ASSUME NEW c \in Clients, connect_fcron(c)
       PROVE  StepInv'
  BY <1>16, ConnectInStep
<1>17. ASSUME NEW c \in Clients, Ask(c)
       PROVE  StepInv'
  BY <1>17, AskInStep
<1>18. ASSUME NEW c \in Clients, talk_fcron(c)
       PROVE  StepInv'
  <2>1. CASE TimesOut(c)
    BY <2>1, LeaveInStep DEF TimesOut
  <2> QED  BY <1>18, <2>1, RecvInStep, DisconnectedInStep, LoggedInStep DEF talk_fcron
<1>19. ASSUME NEW c \in Clients, Quit(c)
       PROVE  StepInv'
  BY <1>19, LeaveInStep DEF Quit
<1> QED
  BY <1>1, <1>2, <1>3, <1>4, <1>5, <1>6, <1>7, <1>8, <1>9, <1>10, <1>11, <1>12, <1>13, <1>14,
     <1>15, <1>16, <1>17, <1>18, <1>19 DEF Next, Daemon, fcrondyn_socket_check

(* For any number of clients and commands, wherever recv() cuts what it    *)
(* reads, whatever is lost on a full socket, and whenever connections are  *)
(* closed, reset or timed out, what fcrondyn takes for the answer of a     *)
(* command is that of this command, unless a command failed on an entry of *)
(* exe_list.                                                               *)
THEOREM AnswersStayInStep == Spec => []AnswersInStep
<1>1. StepInv /\ ListInv /\ [Next]_vars => StepInv'
  BY StepNext
<1>2. ListInv /\ [Next]_vars => ListInv'
  BY ListNext
<1>3. StepInv => AnswersInStep
  BY DEF StepInv, InStep, AnswersInStep
<1> QED  BY <1>1, <1>2, <1>3, InitStep, StepInit, PTL DEF Spec
=============================================================================
