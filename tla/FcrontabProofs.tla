--------------------------- MODULE FcrontabProofs ---------------------------
(***************************************************************************)
(* Proofs about Fcrontab: what is installed is what the user wants, what   *)
(* is not installed has been told, intervals end, and the daemon reads     *)
(* back what was saved.                                                    *)
(***************************************************************************)
EXTENDS Fcrontab, KeptOrderProofs

-----------------------------------------------------------------------------
(* The text.                                                                *)

(* Every line of a text is read into what the lines before it have given:   *)
(* the least number of lines for which there were no such function would   *)
(* have one, that of one line less with one more value.                     *)
LEMMA ReadUpToIs ==
  ASSUME NEW w, NEW file, Len(file) \in Nat
  PROVE  LET f == ReadUpTo(w, file)
         IN  /\ f[0] = NewConf(w)
             /\ \A n \in 1..Len(file) : f[n] = Turn(w, f[n - 1], file[n])
<1> DEFINE Of(n, f) == [i \in 0..n |-> IF i = 0 THEN NewConf(w)
                                       ELSE Turn(w, f[i - 1], file[i])]
<1>1. \A n \in Nat : \E f : f = Of(n, f)
  <2> DEFINE Bad == {n \in Nat : ~ \E f : f = Of(n, f)}
  <2> SUFFICES ASSUME Bad # {} PROVE FALSE
    OBVIOUS
  <2>1. PICK n \in Bad : \A j \in Bad : n <= j
    <3>1. Bad \in SUBSET Nat
      OBVIOUS
    <3> HIDE DEF Bad
    <3> QED  BY <3>1, LeastNumber
  <2>2. n \in Nat /\ ~ \E f : f = Of(n, f)
    OBVIOUS
  <2>3. CASE n = 0
    <3> DEFINE f == [i \in 0..0 |-> NewConf(w)]
    <3>1. f = Of(0, f)
      OBVIOUS
    <3> QED  BY <3>1, <2>2, <2>3
  <2>4. CASE n # 0
    <3>1. n - 1 \in Nat /\ ~(n <= n - 1)
      BY <2>2, <2>4
    <3>2. PICK g : g = Of(n - 1, g)
      BY <3>1, <2>1
    <3> DEFINE f == [i \in 0..n |-> IF i < n THEN g[i] ELSE Turn(w, g[n - 1], file[n])]
    <3>3. ASSUME NEW i \in 0..n
          PROVE  f[i] = Of(n, f)[i]
      <4>1. CASE i = 0
        <5>1. f[i] = g[i] /\ i \in 0..n - 1
          BY <4>1, <2>2, <2>4
        <5>2. g[i] = NewConf(w)
          BY <5>1, <4>1, <3>2
        <5> HIDE DEF f
        <5> QED  BY <5>1, <5>2, <4>1
      <4>2. CASE i # 0
        <5>1. i - 1 \in 0..n /\ i - 1 < n
          BY <4>2, <2>2
        <5>2. f[i - 1] = g[i - 1]
          BY <5>1
        <5>3. Of(n, f)[i] = Turn(w, g[i - 1], file[i])
          BY <5>2, <4>2
        <5>4. CASE i < n
          <6>1. i \in 0..n - 1 /\ f[i] = g[i]
            BY <5>4, <2>2
          <6>2. g[i] = Turn(w, g[i - 1], file[i])
            BY <6>1, <4>2, <3>2
          <6> QED  BY <5>3, <6>1, <6>2
        <5>5. CASE ~(i < n)
          <6>1. i = n
            BY <5>5, <2>2
          <6> QED  BY <5>3, <5>5, <6>1
        <5> QED  BY <5>4, <5>5
      <4> QED  BY <4>1, <4>2
    <3>4. f = Of(n, f)
      BY <3>3
    <3> QED  BY <3>4, <2>2
  <2> QED  BY <2>3, <2>4
<1> DEFINE F == CHOOSE f : f = Of(Len(file), f)
<1>2. F = Of(Len(file), F)
  <2>1. \E f : f = Of(Len(file), f)
    BY <1>1
  <2> HIDE DEF Of
  <2> QED  BY <2>1
<1>3. ReadUpTo(w, file) = F
  BY DEF ReadUpTo, Loop
<1> HIDE DEF F
<1>4. 0 \in 0..Len(file) /\ \A i \in 1..Len(file) : i \in 0..Len(file) /\ i # 0
  OBVIOUS
<1>5. \A f : f = Of(Len(file), f) =>
         /\ f[0] = NewConf(w)
         /\ \A n \in 1..Len(file) : f[n] = Turn(w, f[n - 1], file[n])
  BY <1>4
<1> HIDE DEF Of
<1> QED  BY <1>2, <1>3, <1>5

(* Where the loop of read_file() stops, it stays.                           *)
LEMMA StopsThere ==
  ASSUME NEW w, NEW file, Len(file) \in Nat, NEW k \in 0..Len(file),
         ~GoesOn(w, ReadUpTo(w, file)[k])
  PROVE  read_file(w, file) = ReadUpTo(w, file)[k]
<1> DEFINE upto(n) == ReadUpTo(w, file)[n]
           Bad == {n \in k..Len(file) : upto(n) # upto(k)}
<1> SUFFICES ASSUME Bad # {} PROVE FALSE
  BY DEF read_file
<1>1. PICK n \in Bad : \A j \in Bad : n <= j
  <2>1. Bad \in SUBSET Nat
    OBVIOUS
  <2> HIDE DEF Bad
  <2> QED  BY <2>1, LeastNumber
<1>2. n \in k..Len(file) /\ upto(n) # upto(k) /\ n # k
  OBVIOUS
<1>3. n \in 1..Len(file) /\ n - 1 \in k..Len(file) /\ ~(n <= n - 1)
  BY <1>2
<1>4. upto(n - 1) = upto(k)
  BY <1>1, <1>3
<1>5. upto(n) = Turn(w, upto(n - 1), file[n])
  BY <1>3, ReadUpToIs
<1>6. upto(n) = upto(n - 1)
  BY <1>4, <1>5 DEF Turn
<1> QED  BY <1>2, <1>4, <1>6

(* A list of one file.                                                      *)
LEMMA OneFile ==
  ASSUME NEW c
  PROVE  /\ <<c>> \o <<>> = <<c>> /\ Head(<<c>>) = c /\ Last(<<c>>) = c
         /\ Tail(<<c>>) = <<>>
<1>1. <<c>> \in Seq({c}) /\ Len(<<c>>) = 1
  OBVIOUS
<1>2. <<c>> \o <<>> = <<c>>
  BY <1>1
<1>3. Head(<<c>>) = c /\ Last(<<c>>) = c
  BY <1>1 DEF Last
<1>4. Tail(<<c>>) = <<>>
  BY <1>1
<1> QED  BY <1>2, <1>3, <1>4

(* The first line that is left, and those after it.                         *)
LEMMA RestOf ==
  ASSUME NEW s, IsSeq(s), s # <<>>
  PROVE  /\ IsSeq(Tail(s)) /\ Len(s) \in Nat /\ Len(s) > 0 /\ Head(s) = s[1]
         /\ Len(Tail(s)) = Len(s) - 1
         /\ \A i \in 1..Len(Tail(s)) : Tail(s)[i] = s[i + 1]
<1> DEFINE S == ToSet(s)
<1>1. s \in Seq(S)
  BY DEF IsSeq
<1> HIDE DEF S
<1>2. /\ Len(s) \in Nat /\ Len(s) > 0 /\ Head(s) = s[1] /\ Len(Tail(s)) = Len(s) - 1
      /\ Tail(s) \in Seq(S) /\ \A i \in 1..Len(Tail(s)) : Tail(s)[i] = s[i + 1]
  BY <1>1
<1>3. IsSeq(Tail(s))
  <2>1. \A T, q : q \in Seq(T) => q \in Seq(ToSet(q))
    BY DEF ToSet
  <2> QED  BY <2>1, <1>2 DEF IsSeq
<1> QED  BY <1>2, <1>3

-----------------------------------------------------------------------------
(* What is true at each point of a session.                                 *)

Installed(files) == IF "orig" \in DOMAIN files THEN {files.orig} ELSE {}

(* How many lines have been read.                                           *)
Done == Len(temp) - Len(todo)

Places == {"start", "editor", "read", "ask", "write", "exit"}

FilesInv ==
  /\ at \in Places /\ IsText(temp)
  /\ "orig" \in DOMAIN dir => IsText(dir.orig)
  /\ at # "exit" => status = "none" /\ ~need_sig /\ ~unseen

(* The file is still to be read, and no other one is kept in the list.      *)
StartInv ==
  /\ at = "start" => ~correction
  /\ at \in {"start", "editor", "read"} => file_base = <<>>
  /\ at \in {"start", "editor"} =>
        wanted = IF correction THEN {temp} ELSE Installed(dir)

ReadInv ==
  /\ at \in {"read", "ask", "write"} => wanted = {temp}
  /\ at = "read" =>
        /\ IsSeq(todo) /\ Len(todo) <= Len(temp)
        /\ \A i \in 1..Len(todo) : todo[i] = temp[Done + i]
        /\ conf = ReadUpTo(who, temp)[Done]
  /\ at \in {"ask", "write"} => file_base = <<conf>> /\ conf = read_file(who, temp)

InstallInv == FilesInv /\ StartInv /\ ReadInv /\ InstalledIsWanted

LEMMA EmptyText == IsText(<<>>)
BY DEF IsText, IsSeq, ToSet

LEMMA InstallInit == Init => InstallInv
<1> SUFFICES ASSUME Init PROVE InstallInv
  OBVIOUS
<1> USE DEF Init
<1>1. IsText(temp)
  BY EmptyText
<1>2. CASE dir = <<>> /\ wanted = {}
  <2>1. "orig" \notin DOMAIN dir
    BY <1>2
  <2> QED  BY <1>1, <1>2, <2>1 DEF InstallInv, FilesInv, StartInv, ReadInv, Places,
                                   Installed, InstalledIsWanted
<1>3. ASSUME NEW old \in Olds, wanted = {old},
             dir \in {[orig |-> old], [orig |-> old, new |-> Saved(read_file(who, old))]}
      PROVE  InstallInv
  <2>1. "orig" \in DOMAIN dir /\ dir.orig = old
    BY <1>3
  <2>2. IsText(old)
    BY TextsAssumption
  <2> QED  BY <1>1, <1>3, <2>1, <2>2 DEF InstallInv, FilesInv, StartInv, ReadInv, Places,
                                         Installed, InstalledIsWanted
<1> QED  BY <1>2, <1>3

(* read_file() starts on a text: nothing of it has been read.               *)
LEMMA StartReadInstall ==
  ASSUME NEW f, IsText(f), InstallInv, StartRead(f), who' = who, UNCHANGED spool,
         wanted' = {f}, UNCHANGED unseen, at # "exit", file_base = <<>>
  PROVE  InstallInv'
<1>1. Len(f) \in Nat /\ IsSeq(f)
  BY DEF IsText, IsSeq
<1>2. conf' = ReadUpTo(who, f)[0]
  BY <1>1, ReadUpToIs DEF StartRead
<1>3. temp' = f /\ todo' = f /\ at' = "read" /\ UNCHANGED <<file_base, status>>
  BY DEF StartRead
<1>4. Done' = 0
  BY <1>1, <1>3 DEF Done
<1>5. FilesInv'
  BY <1>3 DEF InstallInv, FilesInv, Places, spool
<1>6. StartInv' /\ InstalledIsWanted'
  BY <1>3, <1>5 DEF StartInv, InstalledIsWanted, FilesInv
<1>7. ReadInv'
  BY <1>1, <1>2, <1>3, <1>4 DEF ReadInv
<1> QED  BY <1>5, <1>6, <1>7 DEF InstallInv

(* Nothing is written, and the session ends with an error.                  *)
LEMMA FailureInstall ==
  ASSUME InstallInv, at' = "exit", status' # "OK", UNCHANGED <<temp, dir>>
  PROVE  InstallInv'
BY DEF InstallInv, FilesInv, StartInv, ReadInv, Places, InstalledIsWanted

LEMMA ReadNextInstall == InstallInv /\ ReadNext => InstallInv'
<1> SUFFICES ASSUME InstallInv, ReadNext PROVE InstallInv'
  OBVIOUS
<1> USE DEF ReadNext, Exit, session, editing, spool
<1>1. CASE conf'.crashed
  BY <1>1, FailureInstall
<1>2. CASE ~conf'.crashed
  <2>1. /\ at = "read" /\ at' = "read" /\ todo # <<>> /\ todo' = Tail(todo)
        /\ conf' = Turn(who, conf, Head(todo))
        /\ UNCHANGED <<who, temp, file_base, correction, wanted, unseen, dir, need_sig, status>>
    BY <1>2 DEF Turn
  <2>2. /\ IsText(temp) /\ IsSeq(todo) /\ Len(todo) <= Len(temp)
        /\ \A i \in 1..Len(todo) : todo[i] = temp[Done + i]
        /\ conf = ReadUpTo(who, temp)[Done]
    BY <2>1 DEF InstallInv, FilesInv, ReadInv
  <2>3. Len(temp) \in Nat
    BY <2>2 DEF IsText, IsSeq
  <2>4. /\ IsSeq(Tail(todo)) /\ Len(todo) \in Nat /\ Len(todo) > 0 /\ Head(todo) = todo[1]
        /\ Len(Tail(todo)) = Len(todo) - 1
        /\ \A i \in 1..Len(Tail(todo)) : Tail(todo)[i] = todo[i + 1]
    BY <2>1, <2>2, RestOf
  <2>5. Done \in Nat /\ Done' = Done + 1 /\ Done + 1 \in 1..Len(temp)
    BY <2>1, <2>2, <2>3, <2>4 DEF Done
  <2>6. Head(todo) = temp[Done + 1]
    BY <2>2, <2>4
  <2>7. conf' = ReadUpTo(who, temp)[Done + 1]
    <3>1. ReadUpTo(who, temp)[Done + 1]
            = Turn(who, ReadUpTo(who, temp)[Done + 1 - 1], temp[Done + 1])
      BY <2>3, <2>5, ReadUpToIs
    <3> QED  BY <3>1, <2>1, <2>2, <2>5, <2>6
  <2>8. \A i \in 1..Len(todo') : todo'[i] = temp[Done + 1 + i]
    <3> SUFFICES ASSUME NEW i \in 1..Len(Tail(todo))
                 PROVE  Tail(todo)[i] = temp[Done + 1 + i]
      BY <2>1
    <3>1. i + 1 \in 1..Len(todo) /\ Done + (i + 1) = Done + 1 + i
      BY <2>4, <2>5
    <3> QED  BY <3>1, <2>2, <2>4
  <2>9. ReadInv'
    BY <2>1, <2>2, <2>3, <2>4, <2>5, <2>7, <2>8 DEF ReadInv, InstallInv
  <2>10. FilesInv' /\ StartInv' /\ InstalledIsWanted'
    BY <2>1 DEF InstallInv, FilesInv, StartInv, InstalledIsWanted
  <2> QED  BY <2>9, <2>10 DEF InstallInv
<1> QED  BY <1>1, <1>2

LEMMA EndReadInstall == InstallInv /\ EndRead => InstallInv'
<1> SUFFICES ASSUME InstallInv, EndRead PROVE InstallInv'
  OBVIOUS
<1>1. /\ at = "read" /\ at' \in {"ask", "write"} /\ file_base' = <<conf>> \o file_base
      /\ todo = <<>> \/ ~GoesOn(who, conf)
      /\ UNCHANGED <<who, temp, todo, conf, correction, wanted, unseen, dir, need_sig, status>>
  BY DEF EndRead, session, editing, spool
<1>2. /\ IsText(temp) /\ IsSeq(todo) /\ Len(todo) <= Len(temp) /\ file_base = <<>>
      /\ conf = ReadUpTo(who, temp)[Done] /\ wanted = {temp}
  BY <1>1 DEF InstallInv, FilesInv, StartInv, ReadInv
<1>3. Len(temp) \in Nat /\ Len(todo) \in Nat
  BY <1>2 DEF IsText, IsSeq
<1>4. Done \in 0..Len(temp)
  BY <1>2, <1>3 DEF Done
<1>5. conf = read_file(who, temp)
  <2>1. CASE todo = <<>>
    <3>1. Done = Len(temp)
      BY <1>3, <2>1 DEF Done
    <3> QED  BY <3>1, <1>2 DEF read_file
  <2>2. CASE ~GoesOn(who, conf)
    BY <2>2, <1>2, <1>3, <1>4, StopsThere
  <2> QED  BY <2>1, <2>2, <1>1
<1>6. file_base' = <<conf>>
  BY <1>1, <1>2, OneFile
<1> QED  BY <1>1, <1>2, <1>5, <1>6 DEF InstallInv, FilesInv, StartInv, ReadInv, Places,
                                       InstalledIsWanted

LEMMA RemoveInstall == InstallInv /\ RemoveFcrontab => InstallInv'
<1> SUFFICES ASSUME InstallInv, RemoveFcrontab PROVE InstallInv'
  OBVIOUS
<1>1. /\ at' = "exit" /\ wanted' = {} /\ dir' = Drop(WithoutPrevious(dir), "orig")
      /\ UNCHANGED <<who, cmd, temp, unseen>>
  BY DEF RemoveFcrontab, Exit, session, reading
<1>2. "orig" \notin DOMAIN dir' /\ "new" \notin DOMAIN dir' /\ "rm" \in DOMAIN dir'
  BY <1>1 DEF Drop, Put, WithoutPrevious
<1> QED  BY <1>1, <1>2 DEF InstallInv, FilesInv, StartInv, ReadInv, Places, InstalledIsWanted

LEMMA EditedInstall ==
  ASSUME NEW f, IsText(f), NEW later \in BOOLEAN, InstallInv, Edited(f, later)
  PROVE  InstallInv'
<1>1. /\ at = "editor" /\ wanted' = IF later \/ f # temp THEN {f} ELSE wanted
      /\ UNCHANGED <<who, cmd, dir, need_sig>>
      /\ IF later \/ correction
         THEN StartRead(f) /\ correction' = FALSE /\ UNCHANGED unseen
         ELSE Exit("OK") /\ unseen' = (f # temp) /\ UNCHANGED <<reading, correction>>
  BY DEF Edited, Reads, session, spool
<1>2. /\ file_base = <<>> /\ wanted = IF correction THEN {temp} ELSE Installed(dir)
      /\ ~need_sig /\ ~unseen
  BY <1>1 DEF InstallInv, StartInv, FilesInv
<1>3. CASE later \/ correction
  <2>1. wanted' = {f}
    <3>1. CASE later \/ f # temp
      BY <3>1, <1>1
    <3>2. CASE ~(later \/ f # temp)
      BY <3>2, <1>1, <1>2, <1>3
    <3> QED  BY <3>1, <3>2
  <2>2. StartRead(f) /\ UNCHANGED unseen
    BY <1>1, <1>3
  <2> QED  BY <1>1, <1>2, <2>1, <2>2, StartReadInstall DEF spool
<1>4. CASE ~(later \/ correction)
  <2>1. at' = "exit" /\ unseen' = (f # temp) /\ UNCHANGED <<temp, dir, need_sig>>
    BY <1>1, <1>4 DEF Exit, reading
  <2>2. ~unseen' => wanted' = Installed(dir)
    BY <1>1, <1>2, <1>4, <2>1
  <2> QED  BY <2>1, <2>2, <1>1, <1>2 DEF InstallInv, FilesInv, StartInv, ReadInv, Places,
                                        InstalledIsWanted, Installed
<1> QED  BY <1>3, <1>4

LEMMA StartsInstall ==
  InstallInv /\ (StartFile \/ StartReinstall \/ List \/ StartEdit) => InstallInv'
<1> SUFFICES ASSUME InstallInv PROVE StartFile \/ StartReinstall \/ List \/ StartEdit
                                      => InstallInv'
  OBVIOUS
<1> USE DEF session, spool, editing, reading
<1>1. CASE StartFile
  <2>1. PICK f \in Files : StartRead(f) /\ wanted' = {f}
    BY <1>1 DEF StartFile
  <2>2. /\ at = "start" /\ UNCHANGED <<who, unseen, spool>>
    BY <1>1 DEF StartFile
  <2>3. file_base = <<>> /\ IsText(f)
    BY <2>2, TextsAssumption DEF InstallInv, StartInv
  <2> QED  BY <2>1, <2>2, <2>3, StartReadInstall
<1>2. CASE StartReinstall
  <2>1. /\ at = "start" /\ UNCHANGED <<who, wanted, unseen, spool>>
    BY <1>2 DEF StartReinstall
  <2>2. CASE "orig" \in DOMAIN dir
    <3>1. StartRead(dir.orig)
      BY <1>2, <2>2 DEF StartReinstall
    <3>2. wanted' = {dir.orig} /\ IsText(dir.orig) /\ file_base = <<>>
      BY <2>1, <2>2 DEF InstallInv, FilesInv, StartInv, Installed
    <3> QED  BY <3>1, <3>2, <2>1, StartReadInstall
  <2>3. CASE "orig" \notin DOMAIN dir
    <3>1. at' = "exit" /\ status' = "ERR" /\ UNCHANGED <<temp, dir>>
      BY <1>2, <2>3 DEF StartReinstall, Exit
    <3> QED  BY <3>1, FailureInstall
  <2> QED  BY <2>2, <2>3
<1>3. CASE List
  <2>1. at' = "exit" /\ cmd'.name = "list" /\ UNCHANGED <<temp, dir>>
    BY <1>3 DEF List, Exit
  <2> QED  BY <2>1 DEF InstallInv, FilesInv, StartInv, ReadInv, Places, InstalledIsWanted
<1>4. CASE StartEdit
  <2>1. /\ at = "start" /\ at' = "editor"
        /\ temp' = IF "orig" \in DOMAIN dir THEN dir.orig ELSE <<>>
        /\ UNCHANGED <<correction, wanted, unseen, file_base, dir, need_sig, status>>
    BY <1>4 DEF StartEdit
  <2>2. IsText(temp')
    BY <2>1, EmptyText DEF InstallInv, FilesInv
  <2> QED  BY <2>1, <2>2 DEF InstallInv, FilesInv, StartInv, ReadInv, Places,
                             InstalledIsWanted, Installed
<1> QED  BY <1>1, <1>2, <1>3, <1>4

LEMMA AskInstall == InstallInv /\ (Ignore \/ Correct) => InstallInv'
<1> SUFFICES ASSUME InstallInv PROVE Ignore \/ Correct => InstallInv'
  OBVIOUS
<1> USE DEF session, spool, editing, reading
<1>1. CASE Ignore
  BY <1>1 DEF Ignore, InstallInv, FilesInv, StartInv, ReadInv, Places, InstalledIsWanted
<1>2. CASE Correct
  <2>1. /\ at = "ask" /\ at' = "editor" /\ correction' = TRUE /\ file_base' = Tail(file_base)
        /\ UNCHANGED <<temp, wanted, unseen, dir, need_sig, status>>
    BY <1>2 DEF Correct, delete_file
  <2>2. file_base = <<conf>> /\ wanted = {temp}
    BY <2>1 DEF InstallInv, ReadInv
  <2>3. file_base' = <<>>
    BY <2>1, <2>2, OneFile
  <2> QED  BY <2>1, <2>2, <2>3 DEF InstallInv, FilesInv, StartInv, ReadInv, Places,
                                   InstalledIsWanted
<1> QED  BY <1>1, <1>2

(* write_file(): what is saved is what has been read of the text copied.    *)
LEMMA WrittenInstall ==
  ASSUME NEW copied \in BOOLEAN, NEW saved \in BOOLEAN, InstallInv, at = "write",
         Written(copied, saved)
  PROVE  InstallInv'
<1> DEFINE empty == Head(file_base).lines = <<>>
           dir1 == IF ignore_prev THEN WithoutPrevious(dir) ELSE dir
           dir2 == IF copied THEN Put(dir1, "orig", temp) ELSE dir1
           ok == copied /\ (empty \/ saved)
<1>1. /\ ~ok => dir' = dir2
      /\ ok /\ empty => dir' = WithoutPrevious(dir2)
      /\ ok /\ ~empty => dir' = save_file(dir2)
      /\ at' = "exit" /\ status' = IF ok THEN "OK" ELSE "ERR"
      /\ UNCHANGED <<who, cmd, temp, wanted, unseen>>
  BY DEF Written, Exit, session, reading, editing
<1>2. /\ file_base = <<conf>> /\ conf = read_file(who, temp) /\ wanted = {temp}
      /\ IsText(temp) /\ ("orig" \in DOMAIN dir => IsText(dir.orig))
  BY DEF InstallInv, ReadInv, FilesInv
<1>3. Head(file_base) = conf /\ Last(file_base) = conf
  BY <1>2, OneFile
<1>4. "orig" \in DOMAIN dir2 => IsText(dir2.orig)
  <2>1. "orig" \in DOMAIN dir1 => IsText(dir1.orig)
    BY <1>2 DEF WithoutPrevious, Put, Drop
  <2> QED  BY <2>1, <1>2 DEF Put
<1>5. copied => "orig" \in DOMAIN dir2 /\ dir2.orig = temp
  BY DEF Put
<1> HIDE DEF dir2, dir1, empty
<1>6. CASE ~ok
  BY <1>6, <1>1, <1>2, <1>4 DEF InstallInv, FilesInv, StartInv, ReadInv, Places,
                                InstalledIsWanted
<1>7. CASE ok /\ empty
  <2>1. /\ "orig" \in DOMAIN dir' /\ dir'.orig = temp /\ "new" \notin DOMAIN dir'
        /\ "rm" \in DOMAIN dir'
    BY <1>1, <1>5, <1>7 DEF WithoutPrevious, Put, Drop
  <2>2. read_file(who, temp).lines = <<>>
    BY <1>2, <1>3, <1>7 DEF empty
  <2> QED  BY <2>1, <2>2, <1>1, <1>2 DEF InstallInv, FilesInv, StartInv, ReadInv, Places,
                                        InstalledIsWanted
<1>8. CASE ok /\ ~empty
  <2>1. /\ "orig" \in DOMAIN dir' /\ dir'.orig = temp /\ "new" \in DOMAIN dir'
        /\ dir'.new = Saved(conf)
    BY <1>1, <1>3, <1>5, <1>8 DEF save_file, Put
  <2>2. dir'.new = Saved(read_file(who, dir.orig))'
    BY <2>1, <1>1, <1>2 DEF Saved
  <2> QED  BY <2>1, <2>2, <1>1, <1>2 DEF InstallInv, FilesInv, StartInv, ReadInv, Places,
                                        InstalledIsWanted
<1> QED  BY <1>6, <1>7, <1>8

LEMMA InstallNext == InstallInv /\ [Next]_vars => InstallInv'
<1> SUFFICES ASSUME InstallInv, [Next]_vars PROVE InstallInv'
  OBVIOUS
<1>1. CASE Save \/ SaveFast
  <2>1. PICK f \in Edits, later \in BOOLEAN : Edited(f, later)
    BY <1>1 DEF Save, SaveFast
  <2> QED  BY <2>1, TextsAssumption, EditedInstall
<1>2. CASE Quit
  BY <1>2, EditedInstall DEF Quit, InstallInv, FilesInv
<1>3. CASE EditorFails
  BY <1>3, FailureInstall DEF EditorFails, Exit, reading, spool
<1>4. CASE write_file \/ CopyFails \/ SaveFails
  BY <1>4, WrittenInstall DEF write_file, CopyFails, SaveFails
<1>5. CASE UNCHANGED vars
  BY <1>5 DEF vars, session, reading, editing, spool, InstallInv, FilesInv, StartInv, ReadInv,
              InstalledIsWanted, Done, Saved
<1> QED  BY <1>1, <1>2, <1>3, <1>4, <1>5, ReadNextInstall, EndReadInstall, RemoveInstall,
            StartsInstall, AskInstall DEF Next

(* What is installed is what the user wants, whatever the texts and however *)
(* many times they are corrected; see InstalledIsWanted.                    *)
THEOREM WhatIsWantedIsInstalled == Spec => []InstalledIsWanted
<1>1. InstallInv => InstalledIsWanted
  BY DEF InstallInv
<1> QED  BY <1>1, InstallInit, InstallNext, PTL DEF Spec

-----------------------------------------------------------------------------
(* What fcrontab says of a line it cannot read.                             *)

(* A line as it is in memory.                                               *)
Parts == {"shell", "opt", "limits", "periodical", "mid", "runfreq", "remain", "first", "timefreq",
          "until", "nice", "jitter", "lavg", "tz", "mailfrom", "mailto", "runas",
          "mins", "hrs", "days", "mons", "dow"}

PartOk(f, v) ==
  /\ f \in {"until", "jitter", "runfreq"} => v \in Nat
  /\ f \in {"mins", "hrs", "mons", "dow"} => v \subseteq Int
  /\ f = "days" => v \subseteq 0..31

IsCl(cl) == DOMAIN cl = Parts /\ \A f \in Parts : PartOk(f, cl[f])

LEMMA SetPart ==
  ASSUME NEW cl, IsCl(cl), NEW f, NEW v, PartOk(f, v)
  PROVE  IsCl([cl EXCEPT ![f] = v])
<1>1. PICK r : r = [cl EXCEPT ![f] = v]
  OBVIOUS
<1>2. DOMAIN r = Parts /\ \A p \in Parts : r[p] = IF p = f THEN v ELSE cl[p]
  BY <1>1 DEF IsCl
<1> QED  BY <1>1, <1>2 DEF IsCl

LEMMA SetOther ==
  ASSUME NEW cl, IsCl(cl), NEW f \in {"shell", "opt", "limits", "periodical", "mid", "remain",
            "first", "timefreq", "nice", "lavg", "tz", "mailfrom", "mailto", "runas"}, NEW v
  PROVE  IsCl([cl EXCEPT ![f] = v])
<1>1. PartOk(f, v)
  BY DEF PartOk
<1> QED  BY <1>1, SetPart

LEMMA DefaultLine ==
  ASSUME NEW w
  PROVE  IsCl(init_default_line(w))
<1>1. PICK cl : cl = init_default_line(w)
  OBVIOUS
<1>2. DOMAIN cl = Parts
  BY <1>1 DEF init_default_line, Parts
<1>3. /\ cl.until = 0 /\ cl.jitter = 0 /\ cl.runfreq = 0 /\ cl.mins = {} /\ cl.hrs = {}
      /\ cl.days = {} /\ cl.mons = {} /\ cl.dow = {}
  BY <1>1 DEF init_default_line
<1>4. \A f \in Parts : PartOk(f, cl[f])
  BY <1>3 DEF PartOk
<1> QED  BY <1>1, <1>2, <1>4 DEF IsCl

LEMMA FirstOf ==
  ASSUME NEW s, IsSeq(s), s # <<>>
  PROVE  s[1] \in ToSet(s)
<1>1. Len(s) \in Nat /\ Len(s) > 0 /\ DOMAIN s = 1..Len(s)
  BY RestOf DEF IsSeq
<1> QED  BY <1>1 DEF ToSet

(* The options.  Where read_opt() stops, the error has been told or the     *)
(* program has crashed.                                                     *)
IsAcc(acc) == /\ {"cl", "nc", "ok", "crashed", "tzdiff"} \subseteq DOMAIN acc
              /\ acc.nc \in BOOLEAN /\ acc.ok \in BOOLEAN /\ acc.crashed \in BOOLEAN
              /\ IsCl(acc.cl)
Heard(acc) == acc.ok \/ acc.nc \/ acc.crashed
Told(acc, r) == /\ IsAcc(r) /\ (acc.nc => r.nc) /\ (acc.crashed => r.crashed)
                /\ Heard(acc) => Heard(r)

LEMMA ChangesTell ==
  ASSUME NEW acc, IsAcc(acc)
  PROVE  /\ Told(acc, Handle_err(acc)) /\ Told(acc, [acc EXCEPT !.nc = TRUE])
         /\ \A cl : IsCl(cl) => /\ Told(acc, [acc EXCEPT !.cl = cl])
                                /\ Told(acc, [acc EXCEPT !.nc = TRUE, !.cl = cl])
                                /\ Told(acc, Handle_err([acc EXCEPT !.cl = cl]))
<1>1. Told(acc, Handle_err(acc)) /\ Told(acc, [acc EXCEPT !.nc = TRUE])
  BY DEF Told, IsAcc, Heard, Handle_err
<1>2. ASSUME NEW cl, IsCl(cl)
      PROVE  /\ Told(acc, [acc EXCEPT !.cl = cl])
             /\ Told(acc, [acc EXCEPT !.nc = TRUE, !.cl = cl])
             /\ Told(acc, Handle_err([acc EXCEPT !.cl = cl]))
  BY <1>2 DEF Told, IsAcc, Heard, Handle_err
<1> QED  BY <1>1, <1>2

(* Where one part of the line changes.                                      *)
LEMMA PartTells ==
  ASSUME NEW acc, IsAcc(acc), NEW f, NEW v, PartOk(f, v)
  PROVE  /\ Told(acc, [acc EXCEPT !.cl[f] = v])
         /\ Told(acc, [acc EXCEPT !.nc = TRUE, !.cl[f] = v])
         /\ Told(acc, Handle_err([acc EXCEPT !.cl[f] = v]))
<1>1. PICK cl : cl = [acc.cl EXCEPT ![f] = v]
  OBVIOUS
<1>2. IsCl(cl)
  BY <1>1, SetPart DEF IsAcc
<1>3. /\ [acc EXCEPT !.cl[f] = v] = [acc EXCEPT !.cl = cl]
      /\ [acc EXCEPT !.nc = TRUE, !.cl[f] = v] = [acc EXCEPT !.nc = TRUE, !.cl = cl]
  BY <1>1
<1> QED  BY <1>2, <1>3, ChangesTell

LEMMA LavgSet ==
  ASSUME NEW cl, IsCl(cl), NEW lavg
  PROVE  IsCl(SetLavg(cl, lavg))
<1>1. PICK a : a = [cl EXCEPT !.lavg = lavg]
  OBVIOUS
<1>2. IsCl(a)
  BY <1>1, SetOther
<1>3. SetLavg(cl, lavg) = [a EXCEPT !.opt = With(cl.opt, "lavg", lavg # <<0, 0, 0>>)]
  BY <1>1 DEF SetLavg
<1> QED  BY <1>2, <1>3, SetOther

LEMMA IntegerTells ==
  ASSUME NEW w, NEW acc, IsAcc(acc), NEW o, IsOption(o), o.name \in Numeric
  PROVE  Told(acc, IntegerOption(w, acc, o))
<1> DEFINE n == o.arg[1]
           lavg == [acc.cl.lavg EXCEPT ![LavgIndex[o.name]] = n]
           r1 == Handle_err(acc)
           r2 == Handle_err([acc EXCEPT !.cl[o.name] = 0])
           r3 == [acc EXCEPT !.crashed = TRUE, !.ok = FALSE]
           r4 == [acc EXCEPT !.tzdiff = n]
           r5 == [acc EXCEPT !.nc = TRUE, !.cl.nice = 0]
           r6 == [acc EXCEPT !.cl = SetLavg(acc.cl, lavg)]
           r7 == [acc EXCEPT !.cl[o.name] = n]
<1>1. LET r == IntegerOption(w, acc, o)
      IN  \/ r = r1 \/ r = r2 \/ r = r3 \/ r = r4 \/ r = r5 \/ r = r6
          \/ r = r7 /\ o.arg # <<>>
  BY DEF IntegerOption
<1>2. Told(acc, r1)
  BY ChangesTell
<1>3. Told(acc, r3)
  BY DEF Told, IsAcc, Heard
<1>4. Told(acc, r4)
  BY DEF Told, IsAcc, Heard
<1>5. Told(acc, r5)
  <2>1. PartOk("nice", 0)
    BY DEF PartOk
  <2> QED  BY <2>1, PartTells
<1>6. Told(acc, r6)
  <2> HIDE DEF lavg
  <2>1. IsCl(SetLavg(acc.cl, lavg))
    BY LavgSet DEF IsAcc
  <2> QED  BY <2>1, ChangesTell
<1>7. o.name \notin {"mins", "hrs", "days", "mons", "dow"}
  BY DEF Numeric, LavgIndex
<1>8. Told(acc, r2)
  <2>1. PartOk(o.name, 0)
    BY <1>7 DEF PartOk
  <2> QED  BY <2>1, PartTells
<1>9. ASSUME o.arg # <<>>
      PROVE  Told(acc, r7)
  <2>1. n \in ToSet(o.arg)
    BY <1>9, FirstOf DEF IsOption
  <2>2. o.name \in {"until", "jitter", "runfreq"} => n \in Nat
    BY <2>1 DEF IsOption, Numeric
  <2> HIDE DEF n
  <2>3. PartOk(o.name, n)
    BY <1>7, <2>2 DEF PartOk
  <2> QED  BY <2>3, PartTells
<1> HIDE DEF r1, r2, r3, r4, r5, r6, r7
<1> QED  BY <1>1, <1>2, <1>3, <1>4, <1>5, <1>6, <1>8, <1>9

LEMMA LavgTells ==
  ASSUME NEW acc, IsAcc(acc), NEW o
  PROVE  Told(acc, LavgOption(acc, o))
<1> DEFINE lavg == [k \in 1 .. 3 |-> IF k <= Len(o.arg) THEN o.arg[k] ELSE acc.cl.lavg[k]]
<1>1. \/ LavgOption(acc, o) = [acc EXCEPT !.cl = SetLavg(acc.cl, lavg)]
      \/ LavgOption(acc, o) = Handle_err([acc EXCEPT !.cl.lavg = lavg])
  BY DEF LavgOption
<1> HIDE DEF lavg
<1>2. Told(acc, [acc EXCEPT !.cl = SetLavg(acc.cl, lavg)])
  <2>1. IsCl(SetLavg(acc.cl, lavg))
    BY LavgSet DEF IsAcc
  <2> QED  BY <2>1, ChangesTell
<1>3. Told(acc, Handle_err([acc EXCEPT !.cl.lavg = lavg]))
  <2>1. PartOk("lavg", lavg)
    BY DEF PartOk
  <2> QED  BY <2>1, PartTells
<1> QED  BY <1>1, <1>2, <1>3, Zenon

LEMMA RunasTells ==
  ASSUME NEW w, NEW acc, IsAcc(acc), NEW o
  PROVE  Told(acc, RunasOption(w, acc, o))
<1> DEFINE nc == acc.nc \/ ~w.privileged \/ o.arg[1] \notin Users
           runas == IF nc THEN acc.cl.runas ELSE o.arg[1]
           cl == [acc.cl EXCEPT !.runas = runas]
           r == [acc EXCEPT !.nc = nc, !.cl = cl]
<1>1. \/ RunasOption(w, acc, o) = Handle_err(acc)
      \/ RunasOption(w, acc, o) = r
  BY DEF RunasOption
<1>2. nc \in BOOLEAN /\ (acc.nc => nc)
  OBVIOUS
<1>3. IsCl(cl)
  <2> HIDE DEF runas
  <2> QED  BY SetOther DEF IsAcc
<1> HIDE DEF nc, runas, cl
<1>4. Told(acc, r)
  BY <1>2, <1>3 DEF Told, IsAcc, Heard
<1> QED  BY <1>1, <1>4, ChangesTell

LEMMA StringTells ==
  ASSUME NEW w, NEW acc, IsAcc(acc), NEW o, o.name \in Strings
  PROVE  Told(acc, StringOption(w, acc, o))
<1> DEFINE field == StringField(o.name)
           opt == acc.cl.opt \ {"mail", "mailzerolength"}
           r1 == RunasOption(w, acc, o)
           r2 == Handle_err(acc)
           r3 == [acc EXCEPT !.cl.opt = opt]
           r4 == Handle_err([acc EXCEPT !.cl[field] = ""])
           r5 == [acc EXCEPT !.cl = SetString(acc.cl, field, o.arg[1])]
<1>1. LET r == StringOption(w, acc, o)
      IN  r = r1 \/ r = r2 \/ r = r3 \/ r = r4 \/ r = r5
  <2>1. CASE o.name = "runas"
    BY <2>1 DEF StringOption
  <2>2. CASE o.name # "runas" /\ o.arg = <<>>
    BY <2>2 DEF StringOption
  <2>3. CASE o.name # "runas" /\ o.arg # <<>> /\ ~o.valid
    BY <2>3 DEF StringOption
  <2>4. CASE o.name = "mailto" /\ o.arg # <<>> /\ o.valid /\ o.arg = <<"">>
    BY <2>4 DEF StringOption
  <2>5. CASE /\ o.name # "runas" /\ o.arg # <<>> /\ o.valid
             /\ ~(o.name = "mailto" /\ o.arg = <<"">>)
    BY <2>5 DEF StringOption
  <2> QED  BY <2>1, <2>2, <2>3, <2>4, <2>5
<1>2. Told(acc, r1) /\ Told(acc, r2)
  BY RunasTells, ChangesTell
<1>3. Told(acc, r3)
  <2> HIDE DEF opt
  <2>1. PartOk("opt", opt)
    BY DEF PartOk
  <2> QED  BY <2>1, PartTells
<1>4. field \in {"tz", "mailfrom", "mailto", "runas"}
  BY DEF StringField, Strings
<1> HIDE DEF field
<1>5. Told(acc, r4)
  <2>1. PartOk(field, "")
    BY <1>4 DEF PartOk
  <2> QED  BY <2>1, PartTells
<1>6. Told(acc, r5)
  <2>1. PICK v : v = o.arg[1]
    OBVIOUS
  <2>2. PICK a : a = [acc.cl EXCEPT ![field] = v]
    OBVIOUS
  <2>3. IsCl(a)
    BY <1>4, <2>2, SetOther DEF IsAcc
  <2>4. SetString(acc.cl, field, v)
          = [a EXCEPT !.opt = IF field = "mailto" THEN acc.cl.opt \cup {"mail"} ELSE acc.cl.opt]
    BY <1>4, <2>2 DEF SetString
  <2>5. IsCl(SetString(acc.cl, field, v))
    BY <2>3, <2>4, SetOther
  <2> QED  BY <2>1, <2>5, ChangesTell
<1> HIDE DEF r1, r2, r3, r4, r5
<1> QED  BY <1>1, <1>2, <1>3, <1>5, <1>6

LEMMA PeriodSet ==
  ASSUME NEW cl, IsCl(cl), NEW name
  PROVE  IsCl(SetPeriod(cl, name))
<1>1. PICK r : r = SetPeriod(cl, name)
  OBVIOUS
<1>2. /\ DOMAIN r = Parts
      /\ \A p \in Parts \ {"limits", "periodical", "mid"} : r[p] = cl[p]
  BY <1>1 DEF SetPeriod, IsCl
<1>3. \A p \in Parts : PartOk(p, r[p])
  BY <1>2 DEF IsCl, PartOk
<1> QED  BY <1>1, <1>2, <1>3 DEF IsCl

LEMMA KeywordTells ==
  ASSUME NEW acc, IsAcc(acc), NEW name
  PROVE  Told(acc, Keyword(acc, name))
<1> DEFINE limits == acc.cl.limits \cup Limits[name]
<1>1. \/ Keyword(acc, name) = [acc EXCEPT !.cl.limits = limits]
      \/ Keyword(acc, name) = [acc EXCEPT !.cl = SetPeriod(acc.cl, name)]
      \/ Keyword(acc, name) = acc
  <2>1. CASE name \in DOMAIN Limits /\ name \notin DOMAIN Period
    BY <2>1 DEF Keyword
  <2>2. CASE name \notin DOMAIN Limits /\ name \in DOMAIN Period
    BY <2>2 DEF Keyword
  <2>3. CASE name \in DOMAIN Limits /\ name \in DOMAIN Period
    BY <2>3 DEF Limits, Period
  <2>4. CASE name \notin DOMAIN Limits /\ name \notin DOMAIN Period
    BY <2>4 DEF Keyword
  <2> QED  BY <2>1, <2>2, <2>3, <2>4
<1> HIDE DEF limits
<1>2. Told(acc, [acc EXCEPT !.cl.limits = limits])
  <2>1. PartOk("limits", limits)
    BY DEF PartOk
  <2> QED  BY <2>1, PartTells
<1>3. Told(acc, [acc EXCEPT !.cl = SetPeriod(acc.cl, name)])
  <2>1. IsCl(SetPeriod(acc.cl, name))
    BY PeriodSet DEF IsAcc
  <2> QED  BY <2>1, ChangesTell
<1>4. Told(acc, acc)
  BY DEF Told
<1> QED  BY <1>1, <1>2, <1>3, <1>4

LEMMA ReadOptionTells ==
  ASSUME NEW w, NEW acc, IsAcc(acc), NEW o, IsOption(o)
  PROVE  Told(acc, ReadOption(w, acc, o))
<1> DEFINE v == o.arg = <<>> \/ o.arg[1] = TRUE
           opt == SetBoolean(acc.cl.opt, o.name, v)
           def == IF v THEN init_default_line(w) ELSE acc.cl
           r1 == Handle_err(acc)
           r2 == [acc EXCEPT !.cl.opt = opt]
           r3 == [acc EXCEPT !.cl = def]
           r4 == LavgOption(acc, o)
           r5 == IntegerOption(w, acc, o)
           r6 == StringOption(w, acc, o)
           r7 == Keyword(acc, o.name)
           r8 == [acc EXCEPT !.nc = TRUE]
<1>1. LET r == ReadOption(w, acc, o)
      IN  \/ r = r1 \/ r = r2 \/ r = r3 \/ r = r4
          \/ r = r5 /\ o.name \in Numeric
          \/ r = r6 /\ o.name \in Strings
          \/ r = r7 \/ r = r8
  BY DEF ReadOption
<1>2. Told(acc, r1) /\ Told(acc, r8)
  BY ChangesTell
<1>3. Told(acc, r2)
  <2> HIDE DEF opt
  <2>1. PartOk("opt", opt)
    BY DEF PartOk
  <2> QED  BY <2>1, PartTells
<1>4. Told(acc, r3)
  <2>1. IsCl(def)
    BY DefaultLine DEF IsAcc
  <2> HIDE DEF def
  <2> QED  BY <2>1, ChangesTell
<1>5. /\ Told(acc, r4) /\ Told(acc, r7)
      /\ o.name \in Numeric => Told(acc, r5)
      /\ o.name \in Strings => Told(acc, r6)
  BY LavgTells, IntegerTells, StringTells, KeywordTells
<1> HIDE DEF r1, r2, r3, r4, r5, r6, r7, r8
<1> QED  BY <1>1, <1>2, <1>3, <1>4, <1>5

LEMMA OptionTells ==
  ASSUME NEW w, NEW acc, IsAcc(acc), NEW o, IsOption(o)
  PROVE  Told(acc, OneOption(w, acc, o))
<1>1. PICK r : r = ReadOption(w, acc, o) /\ Told(acc, r)
  BY ReadOptionTells
<1>2. \/ OneOption(w, acc, o) = acc \/ OneOption(w, acc, o) = r
      \/ OneOption(w, acc, o) = Handle_err(r)
  BY <1>1 DEF OneOption
<1> QED  BY <1>1, <1>2 DEF Told, IsAcc, Heard, Handle_err
(* What read_opt() starts from.                                             *)
StartAcc(c, cl, own) ==
  [cl |-> cl, tzdiff |-> c.tzdiff, nc |-> c.nc, ok |-> TRUE, crashed |-> FALSE, own |-> own]

(* The options of a line, one after the other.                              *)
OptionsRead(f, w, c, cl, own, opts) ==
  /\ f[0] = StartAcc(c, cl, own)
  /\ \A n \in 1..Len(opts) : f[n] = OneOption(w, f[n - 1], opts[n])
  /\ read_opt(w, c, cl, own, opts) = f[Len(opts)]

LEMMA ReadOptIs ==
  ASSUME NEW w, NEW c, NEW cl, NEW own, NEW opts, Len(opts) \in Nat
  PROVE  \E f : OptionsRead(f, w, c, cl, own, opts)
<1> DEFINE Of(n, f) == [i \in 0..n |-> IF i = 0 THEN StartAcc(c, cl, own)
                                       ELSE OneOption(w, f[i - 1], opts[i])]
<1>1. \A n \in Nat : \E f : f = Of(n, f)
  <2> DEFINE Bad == {n \in Nat : ~ \E f : f = Of(n, f)}
  <2> SUFFICES ASSUME Bad # {} PROVE FALSE
    OBVIOUS
  <2>1. PICK n \in Bad : \A j \in Bad : n <= j
    <3>1. Bad \in SUBSET Nat
      OBVIOUS
    <3> HIDE DEF Bad
    <3> QED  BY <3>1, LeastNumber
  <2>2. n \in Nat /\ ~ \E f : f = Of(n, f)
    OBVIOUS
  <2>3. CASE n = 0
    <3> DEFINE f == [i \in 0..0 |-> StartAcc(c, cl, own)]
    <3>1. f = Of(0, f)
      OBVIOUS
    <3> QED  BY <3>1, <2>2, <2>3
  <2>4. CASE n # 0
    <3>1. n - 1 \in Nat /\ ~(n <= n - 1)
      BY <2>2, <2>4
    <3>2. PICK g : g = Of(n - 1, g)
      BY <3>1, <2>1
    <3> DEFINE f == [i \in 0..n |-> IF i < n THEN g[i] ELSE OneOption(w, g[n - 1], opts[n])]
    <3>3. ASSUME NEW i \in 0..n
          PROVE  f[i] = Of(n, f)[i]
      <4>1. CASE i = 0
        <5>1. f[i] = g[i] /\ i \in 0..n - 1
          BY <4>1, <2>2, <2>4
        <5>2. g[i] = StartAcc(c, cl, own)
          BY <5>1, <4>1, <3>2
        <5> HIDE DEF f
        <5> QED  BY <5>1, <5>2, <4>1
      <4>2. CASE i # 0
        <5>1. i - 1 \in 0..n /\ i - 1 < n
          BY <4>2, <2>2
        <5>2. f[i - 1] = g[i - 1]
          BY <5>1
        <5>3. Of(n, f)[i] = OneOption(w, g[i - 1], opts[i])
          BY <5>2, <4>2
        <5>4. CASE i < n
          <6>1. i \in 0..n - 1 /\ f[i] = g[i]
            BY <5>4, <2>2
          <6>2. g[i] = OneOption(w, g[i - 1], opts[i])
            BY <6>1, <4>2, <3>2
          <6> QED  BY <5>3, <6>1, <6>2
        <5>5. CASE ~(i < n)
          <6>1. i = n
            BY <5>5, <2>2
          <6> QED  BY <5>3, <5>5, <6>1
        <5> QED  BY <5>4, <5>5
      <4> QED  BY <4>1, <4>2
    <3>4. f = Of(n, f)
      BY <3>3
    <3> QED  BY <3>4, <2>2
  <2> QED  BY <2>3, <2>4
<1> DEFINE F == CHOOSE f : f = Of(Len(opts), f)
<1>2. F = Of(Len(opts), F)
  <2>1. \E f : f = Of(Len(opts), f)
    BY <1>1
  <2> HIDE DEF Of
  <2> QED  BY <2>1
<1>3. read_opt(w, c, cl, own, opts) = F[Len(opts)]
  BY DEF read_opt, StartAcc, Loop
<1> HIDE DEF F
<1>4. 0 \in 0..Len(opts) /\ \A i \in 1..Len(opts) : i \in 0..Len(opts) /\ i # 0
  OBVIOUS
<1>5. \A f : f = Of(Len(opts), f) =>
         /\ f[0] = StartAcc(c, cl, own)
         /\ \A n \in 1..Len(opts) : f[n] = OneOption(w, f[n - 1], opts[n])
  BY <1>4
<1> HIDE DEF Of
<1> QED  BY <1>2, <1>3, <1>5 DEF OptionsRead

LEMMA ReadOptTells ==
  ASSUME NEW w, NEW c, c.nc \in BOOLEAN, NEW cl, IsCl(cl), NEW own,
         NEW opts, IsSeq(opts), \A o \in ToSet(opts) : IsOption(o)
  PROVE  LET acc == read_opt(w, c, cl, own, opts)
         IN  IsAcc(acc) /\ Heard(acc) /\ (c.nc => acc.nc)
<1>0. Len(opts) \in Nat /\ \A k \in 1..Len(opts) : IsOption(opts[k])
  BY DEF IsSeq, ToSet
<1>1. PICK f : OptionsRead(f, w, c, cl, own, opts)
  BY <1>0, ReadOptIs
<1> DEFINE Good(acc) == IsAcc(acc) /\ Heard(acc) /\ (c.nc => acc.nc)
           Bad == {n \in 0..Len(opts) : ~Good(f[n])}
<1> SUFFICES ASSUME Bad # {} PROVE FALSE
  BY <1>0, <1>1 DEF OptionsRead
<1>2. PICK n \in Bad : \A j \in Bad : n <= j
  <2>1. Bad \in SUBSET Nat
    OBVIOUS
  <2> HIDE DEF Bad
  <2> QED  BY <2>1, LeastNumber
<1>3. n \in 0..Len(opts) /\ ~Good(f[n])
  OBVIOUS
<1>4. Good(f[0])
  BY <1>1 DEF StartAcc, IsAcc, Heard, OptionsRead
<1>5. n # 0
  BY <1>3, <1>4
<1>6. n \in 1..Len(opts) /\ n - 1 \in 0..Len(opts) /\ ~(n <= n - 1)
  BY <1>3, <1>5
<1>7. Good(f[n - 1])
  BY <1>2, <1>6
<1>8. f[n] = OneOption(w, f[n - 1], opts[n])
  BY <1>1, <1>6 DEF OptionsRead
<1>9. Told(f[n - 1], f[n])
  BY <1>0, <1>6, <1>7, <1>8, OptionTells
<1> QED  BY <1>3, <1>7, <1>9 DEF Told

(* The fields.  The only errors that are not told are those of Untold.      *)
UntoldIn(items) == \E i \in DOMAIN items : Untold(items[i])
Errors == {"no", "told", "silent"}

(* The items of a field, one after the other.                               *)
ItemsRead(f, bits, items, max) ==
  /\ f[0] = [bits |-> bits, error |-> "no"]
  /\ \A n \in 1..Len(items) : f[n] = OneItem(f[n - 1], items[n], max)
  /\ read_field(bits, items, max)
       = IF max = 7 THEN [f[Len(items)] EXCEPT !.bits = @ \cup Sundays(@)]
         ELSE f[Len(items)]

LEMMA ReadFieldIs ==
  ASSUME NEW bits, NEW items, NEW max, Len(items) \in Nat
  PROVE  \E f : ItemsRead(f, bits, items, max)
<1> DEFINE Of(n, f) == [i \in 0..n |-> IF i = 0 THEN [bits |-> bits, error |-> "no"]
                                       ELSE OneItem(f[i - 1], items[i], max)]
<1>1. \A n \in Nat : \E f : f = Of(n, f)
  <2> DEFINE Bad == {n \in Nat : ~ \E f : f = Of(n, f)}
  <2> SUFFICES ASSUME Bad # {} PROVE FALSE
    OBVIOUS
  <2>1. PICK n \in Bad : \A j \in Bad : n <= j
    <3>1. Bad \in SUBSET Nat
      OBVIOUS
    <3> HIDE DEF Bad
    <3> QED  BY <3>1, LeastNumber
  <2>2. n \in Nat /\ ~ \E f : f = Of(n, f)
    OBVIOUS
  <2>3. CASE n = 0
    <3> DEFINE f == [i \in 0..0 |-> [bits |-> bits, error |-> "no"]]
    <3>1. f = Of(0, f)
      OBVIOUS
    <3> QED  BY <3>1, <2>2, <2>3
  <2>4. CASE n # 0
    <3>1. n - 1 \in Nat /\ ~(n <= n - 1)
      BY <2>2, <2>4
    <3>2. PICK g : g = Of(n - 1, g)
      BY <3>1, <2>1
    <3> DEFINE f == [i \in 0..n |-> IF i < n THEN g[i] ELSE OneItem(g[n - 1], items[n], max)]
    <3>3. ASSUME NEW i \in 0..n
          PROVE  f[i] = Of(n, f)[i]
      <4>1. CASE i = 0
        <5>1. f[i] = g[i] /\ i \in 0..n - 1
          BY <4>1, <2>2, <2>4
        <5>2. g[i] = [bits |-> bits, error |-> "no"]
          BY <5>1, <4>1, <3>2
        <5> HIDE DEF f
        <5> QED  BY <5>1, <5>2, <4>1
      <4>2. CASE i # 0
        <5>1. i - 1 \in 0..n /\ i - 1 < n
          BY <4>2, <2>2
        <5>2. f[i - 1] = g[i - 1]
          BY <5>1
        <5>3. Of(n, f)[i] = OneItem(g[i - 1], items[i], max)
          BY <5>2, <4>2
        <5>4. CASE i < n
          <6>1. i \in 0..n - 1 /\ f[i] = g[i]
            BY <5>4, <2>2
          <6>2. g[i] = OneItem(g[i - 1], items[i], max)
            BY <6>1, <4>2, <3>2
          <6> QED  BY <5>3, <6>1, <6>2
        <5>5. CASE ~(i < n)
          <6>1. i = n
            BY <5>5, <2>2
          <6> QED  BY <5>3, <5>5, <6>1
        <5> QED  BY <5>4, <5>5
      <4> QED  BY <4>1, <4>2
    <3>4. f = Of(n, f)
      BY <3>3
    <3> QED  BY <3>4, <2>2
  <2> QED  BY <2>3, <2>4
<1> DEFINE F == CHOOSE f : f = Of(Len(items), f)
<1>2. F = Of(Len(items), F)
  <2>1. \E f : f = Of(Len(items), f)
    BY <1>1
  <2> HIDE DEF Of
  <2> QED  BY <2>1
<1>3. read_field(bits, items, max)
                    = IF max = 7 THEN [F[Len(items)] EXCEPT !.bits = @ \cup Sundays(@)]
                      ELSE F[Len(items)]
  BY DEF read_field, Loop
<1> HIDE DEF F
<1>4. 0 \in 0..Len(items) /\ \A i \in 1..Len(items) : i \in 0..Len(items) /\ i # 0
  OBVIOUS
<1>5. \A f : f = Of(Len(items), f) =>
         /\ f[0] = [bits |-> bits, error |-> "no"]
         /\ \A n \in 1..Len(items) : f[n] = OneItem(f[n - 1], items[n], max)
  BY <1>4
<1> HIDE DEF Of
<1> QED  BY <1>2, <1>3, <1>5 DEF ItemsRead

LEMMA ItemErrors ==
  ASSUME NEW item, IsItem(item), NEW max
  PROVE  /\ ItemError(item, max) \in Errors
         /\ ItemError(item, max) = "silent" => Untold(item)
<1>1. \A n : NumError(n, max) \in Errors /\ (NumError(n, max) = "silent" => n = Dotted)
  BY DEF NumError, Errors
<1>2. PICK r : r = RmError(item.rm, max)
  OBVIOUS
<1>3. r \in Errors /\ (r = "silent" => Dotted \in ToSet(item.rm))
  BY <1>2 DEF RmError, Errors, ToSet
<1>4. PICK from, to, step : /\ from = NumError(item.from, max) /\ to = NumError(item.to, max)
                            /\ step = IF item.step = 0 THEN "silent"
                                      ELSE NumError(item.step, max)
  OBVIOUS
<1>5. /\ {from, to, step} \subseteq Errors
      /\ from = "silent" => item.from = Dotted
      /\ to = "silent" => item.to = Dotted
      /\ step = "silent" => item.step \in {0, Dotted}
  BY <1>1, <1>4 DEF Errors
<1>6. PICK rest : rest = First(step, r)
  OBVIOUS
<1>7. /\ rest \in Errors
      /\ rest = "silent"
           => item.step \in {0, Dotted} \/ Dotted \in ToSet(item.rm)
  BY <1>3, <1>5, <1>6 DEF First
<1>8. PICK e : e = ItemError(item, max)
  OBVIOUS
<1>9. \/ e = "told"
      \/ item.shape = "one" /\ e = from
      \/ item.shape = "all" /\ e = rest
      \/ item.shape = "range" /\ e = First(from, First(to, rest))
  BY <1>2, <1>4, <1>6, <1>8 DEF ItemError, IsItem
<1> QED  BY <1>5, <1>7, <1>8, <1>9 DEF First, Untold, Ends, Errors

(* The values of a field: only bit 0 of the days is kept besides theirs, and *)
(* a month that is written as 0 is one too low.                             *)
InField(max) == IF max = 31 THEN 0..31 ELSE Int

LEMMA StepsIn ==
  ASSUME NEW start \in Int, NEW stop \in Int, NEW step \in Int, NEW last \in Int
  PROVE  /\ Steps(start, stop, step, last) \subseteq Int
         /\ start \in 0..last /\ stop \in 0..last
              => Steps(start, stop, step, last) \subseteq 0..last
<1> DEFINE high == IF start < stop THEN stop ELSE stop + last + 1
           Of(i) == IF i > last /\ start >= stop THEN i - (last + 1) ELSE i
<1>1. \A v \in Steps(start, stop, step, last) : \E i \in start..high : v = Of(i)
  BY DEF Steps
<1>2. high \in Int /\ start..high \subseteq Int
  OBVIOUS
<1>3. \A i \in start..high : Of(i) \in Int
  OBVIOUS
<1>4. start \in 0..last /\ stop \in 0..last => \A i \in start..high : Of(i) \in 0..last
  OBVIOUS
<1> HIDE DEF high, Of
<1> QED  BY <1>1, <1>3, <1>4

(* Sunday is one day.                                                       *)
Week(bits) == 0 \in bits <=> 7 \in bits

Maxima == {59, 23, 31, 12, 7}

LEMMA SundaysAdded ==
  ASSUME NEW b
  PROVE  /\ b \subseteq Int => b \cup Sundays(b) \subseteq Int
         /\ Week(b \cup Sundays(b))
<1>1. CASE b \cap {0, 7} # {}
  <2>1. Sundays(b) = {0, 7}
    BY <1>1 DEF Sundays
  <2> QED  BY <2>1 DEF Week
<1>2. CASE b \cap {0, 7} = {}
  <2>1. Sundays(b) = {} /\ 0 \notin b /\ 7 \notin b
    BY <1>2 DEF Sundays
  <2> QED  BY <2>1 DEF Week
<1> QED  BY <1>1, <1>2

LEMMA ItemBits ==
  ASSUME NEW max \in Maxima, NEW bits, bits \subseteq InField(max), NEW item, IsItem(item),
         ItemError(item, max) = "no"
  PROVE  ReadItem(bits, item, max) \subseteq InField(max)
<1> DEFINE start == IF item.shape = "all" THEN 0 ELSE get_num(item.from, item.named, max)
           stop  == IF item.shape = "all" THEN HighBit(max)
                    ELSE get_num(item.to, item.named, max)
<1>1. /\ HighBit(max) \in Nat /\ Shift(max) \in Int
      /\ max = 31 => HighBit(max) = 31 /\ Shift(max) = 0
  BY DEF HighBit, Shift, Maxima
<1>2. item.shape \in {"one", "all", "range"}
  BY DEF IsItem, ItemError
<1>3. item.from \in Int /\ item.to \in Int /\ item.step \in Int
  BY DEF IsItem, Dotted
<1>4. \A n \in Ends(item) : n \in Nat /\ ~(n > max)
  <2>1. \A n \in Ends(item) : NumError(n, max) = "no"
    BY <1>2 DEF ItemError, First, Ends
  <2>2. \A n \in Ends(item) : n \in Nat \cup {Dotted}
    BY DEF IsItem, Ends
  <2> QED  BY <2>1, <2>2 DEF NumError
<1>5. start \in Int /\ stop \in Int
  BY <1>1, <1>3 DEF get_num
<1>6. max = 31 => start \in 0..31
  BY <1>1, <1>2, <1>4 DEF get_num, Ends
<1>7. max = 31 /\ item.shape # "one" => stop \in 0..31
  BY <1>1, <1>2, <1>4 DEF get_num, Ends
<1> DEFINE steps == Steps(start, stop, item.step, HighBit(max))
<1>8. \/ ReadItem(bits, item, max) = bits \cup {start} /\ item.shape = "one"
      \/ ReadItem(bits, item, max) \subseteq bits \cup steps /\ item.shape # "one"
  <2>1. ReadItem(bits, item, max) = IF item.shape = "one" THEN bits \cup {start}
                                    ELSE (bits \cup steps) \ Removed(item, max)
    BY DEF ReadItem
  <2> HIDE DEF steps, start
  <2> QED  BY <2>1
<1> HIDE DEF start, stop
<1>9. CASE item.shape = "one"
  BY <1>5, <1>6, <1>8, <1>9 DEF InField
<1>10. CASE item.shape # "one"
  <2>1. PICK step, last : step = item.step /\ last = HighBit(max)
    OBVIOUS
  <2>2. step \in Int /\ last \in Int /\ (max = 31 => last = 31)
    BY <1>1, <1>3, <2>1
  <2>3. /\ Steps(start, stop, step, last) \subseteq Int
        /\ start \in 0..last /\ stop \in 0..last
              => Steps(start, stop, step, last) \subseteq 0..last
    BY <1>5, <2>2, StepsIn
  <2>4. steps \subseteq Int /\ (max = 31 => steps \subseteq 0..31)
    BY <1>6, <1>7, <1>10, <2>1, <2>2, <2>3
  <2> HIDE DEF steps
  <2> QED  BY <2>4, <1>8, <1>10 DEF InField
<1> QED  BY <1>9, <1>10

LEMMA FieldErrors ==
  ASSUME NEW max \in Maxima, NEW bits, bits \subseteq InField(max),
         NEW items, IsSeq(items), \A i \in ToSet(items) : IsItem(i)
  PROVE  LET r == read_field(bits, items, max)
         IN  /\ r.error \in Errors /\ (r.error = "silent" => UntoldIn(items))
             /\ r.bits \subseteq InField(max) /\ (max = 7 => Week(r.bits))
<1>1. /\ Len(items) \in Nat /\ DOMAIN items = 1..Len(items)
      /\ \A k \in 1..Len(items) : IsItem(items[k])
  BY DEF IsSeq, ToSet
<1>2. PICK f : ItemsRead(f, bits, items, max)
  BY <1>1, ReadFieldIs
<1> DEFINE Good(r) == /\ {"bits", "error"} \subseteq DOMAIN r /\ r.error \in Errors
                      /\ r.error = "silent" => UntoldIn(items)
                      /\ r.bits \subseteq InField(max)
           Bad == {n \in 0..Len(items) : ~Good(f[n])}
<1>3. SUFFICES ASSUME Bad # {} PROVE FALSE
  <2>1. Bad = {} => Good(f[Len(items)])
    BY <1>1
  <2> HIDE DEF Bad
  <2>2. max = 7 => \A b : /\ b \subseteq InField(max) => b \cup Sundays(b) \subseteq InField(max)
                          /\ Week(b \cup Sundays(b))
    BY SundaysAdded DEF InField
  <2>3. PICK a : a = f[Len(items)] /\ Good(a)
    BY <1>3, <2>1
  <2>4. PICK b : b = a.bits \cup Sundays(a.bits)
    OBVIOUS
  <2>5. PICK r : r = read_field(bits, items, max)
    OBVIOUS
  <2>6. CASE max = 7
    <3>1. r = [a EXCEPT !.bits = b]
      BY <1>2, <2>3, <2>4, <2>5, <2>6 DEF ItemsRead
    <3>2. r.error = a.error /\ r.bits = b
      BY <2>3, <3>1
    <3>3. b \subseteq InField(max) /\ Week(b)
      BY <2>2, <2>3, <2>4, <2>6
    <3> QED  BY <2>3, <2>5, <3>2, <3>3
  <2>7. CASE max # 7
    <3>1. r = a
      BY <1>2, <2>3, <2>5, <2>7 DEF ItemsRead
    <3> QED  BY <2>3, <2>5, <2>7, <3>1
  <2> QED  BY <2>6, <2>7
<1>4. PICK n \in Bad : \A j \in Bad : n <= j
  <2>1. Bad \in SUBSET Nat
    BY <1>1
  <2> HIDE DEF Bad
  <2> QED  BY <1>3, <2>1, LeastNumber
<1>5. n \in 0..Len(items) /\ ~Good(f[n])
  OBVIOUS
<1>6. Good(f[0])
  BY <1>2 DEF Errors, ItemsRead
<1>7. n \in 1..Len(items) /\ n - 1 \in 0..Len(items) /\ ~(n <= n - 1)
  BY <1>1, <1>5, <1>6
<1>8. Good(f[n - 1])
  BY <1>4, <1>7
<1>9. f[n] = OneItem(f[n - 1], items[n], max)
  BY <1>2, <1>7 DEF ItemsRead
<1>10. \/ f[n] = f[n - 1]
       \/ f[n] = [f[n - 1] EXCEPT !.error = ItemError(items[n], max)]
       \/ /\ f[n] = [f[n - 1] EXCEPT !.bits = ReadItem(@, items[n], max)]
          /\ ItemError(items[n], max) = "no"
  BY <1>9 DEF OneItem
<1>11. ItemError(items[n], max) = "silent" => UntoldIn(items)
  BY <1>1, <1>7, ItemErrors DEF UntoldIn
<1>12. ItemError(items[n], max) \in Errors
  BY <1>1, <1>7, ItemErrors
<1>13. ItemError(items[n], max) = "no"
         => ReadItem(f[n - 1].bits, items[n], max) \subseteq InField(max)
  BY <1>1, <1>7, <1>8, ItemBits
<1>14. Good(f[n])
  <2> HIDE DEF Bad
  <2> QED  BY <1>8, <1>10, <1>11, <1>13, <1>12
<1> QED  BY <1>5, <1>14

LEMMA RFieldErrors ==
  ASSUME NEW acc, IsCl(acc.cl), acc.error = "no", NEW name \in ToSet(FieldNames),
         NEW items, IsSeq(items), \A i \in ToSet(items) : IsItem(i)
  PROVE  LET r == R_field(acc, name, items)
         IN  /\ {"cl", "error"} \subseteq DOMAIN r /\ IsCl(r.cl) /\ r.error \in Errors
             /\ r.error = "silent" => UntoldIn(items)
             /\ r.cl.opt = acc.cl.opt /\ r.cl.periodical = acc.cl.periodical
             /\ name = "dow" => Week(r.cl.dow)
<1> DEFINE low == IF name = "mons" /\ 31 \in acc.cl.days THEN {-1} ELSE {}
           r == read_field(acc.cl[name] \cup low, items, MaxOf[name])
           mons == r.bits \ {-1}
           days == (acc.cl.days \ {31}) \cup (IF -1 \in r.bits THEN {31} ELSE {})
           a == [acc.cl EXCEPT !.mons = mons]
           cl == IF name = "mons" THEN [a EXCEPT !.days = days]
                 ELSE [acc.cl EXCEPT ![name] = r.bits]
<1>1. name \in {"mins", "hrs", "days", "mons", "dow"}
  BY DEF ToSet, FieldNames
<1>2. MaxOf[name] \in Maxima /\ (MaxOf[name] = 31 <=> name = "days")
  BY <1>1 DEF MaxOf, Maxima
<1>3. acc.cl[name] \cup low \subseteq InField(MaxOf[name])
  <2>1. acc.cl[name] \subseteq InField(MaxOf[name])
    BY <1>1, <1>2 DEF IsCl, PartOk, Parts, InField
  <2> QED  BY <1>2, <2>1 DEF InField
<1>4. /\ r.error \in Errors /\ (r.error = "silent" => UntoldIn(items))
      /\ r.bits \subseteq InField(MaxOf[name]) /\ (name = "dow" => Week(r.bits))
  <2>1. name = "dow" => MaxOf[name] = 7
    BY DEF MaxOf
  <2> HIDE DEF low
  <2> QED  BY <1>2, <1>3, <2>1, FieldErrors
<1>5. R_field(acc, name, items) = [error |-> r.error, cl |-> cl]
  BY DEF R_field
<1>6. IsCl(cl)
  <2>1. PartOk("mons", mons) /\ PartOk(name, r.bits)
    BY <1>1, <1>2, <1>4 DEF PartOk, InField
  <2>2. PartOk("days", days)
    BY DEF IsCl, PartOk, Parts
  <2> HIDE DEF r, days, mons
  <2>3. IsCl(a)
    BY <2>1, SetPart
  <2> HIDE DEF a
  <2>4. IsCl([a EXCEPT !.days = days]) /\ IsCl([acc.cl EXCEPT ![name] = r.bits])
    BY <2>1, <2>2, <2>3, SetPart
  <2> QED  BY <2>4
<1>7. /\ cl.opt = acc.cl.opt /\ cl.periodical = acc.cl.periodical
      /\ name = "dow" => cl.dow = r.bits
  <2> HIDE DEF r, mons, days
  <2> QED  BY <1>1 DEF IsCl, Parts
<1> HIDE DEF r, cl
<1> QED  BY <1>4, <1>5, <1>6, <1>7

(* The fields of a line, one after the other.                               *)
FieldsRead(f, cl, fields, needed) ==
  /\ f[0] = [cl |-> cl, error |-> "no"]
  /\ \A n \in 1..needed : f[n] = OneField(f[n - 1], fields, n)
  /\ ReadFields(cl, fields, needed) = f[needed]

LEMMA ReadFieldsIs ==
  ASSUME NEW cl, NEW fields, NEW needed, needed \in Nat
  PROVE  \E f : FieldsRead(f, cl, fields, needed)
<1> DEFINE Of(n, f) == [i \in 0..n |-> IF i = 0 THEN [cl |-> cl, error |-> "no"]
                                       ELSE OneField(f[i - 1], fields, i)]
<1>1. \A n \in Nat : \E f : f = Of(n, f)
  <2> DEFINE Bad == {n \in Nat : ~ \E f : f = Of(n, f)}
  <2> SUFFICES ASSUME Bad # {} PROVE FALSE
    OBVIOUS
  <2>1. PICK n \in Bad : \A j \in Bad : n <= j
    <3>1. Bad \in SUBSET Nat
      OBVIOUS
    <3> HIDE DEF Bad
    <3> QED  BY <3>1, LeastNumber
  <2>2. n \in Nat /\ ~ \E f : f = Of(n, f)
    OBVIOUS
  <2>3. CASE n = 0
    <3> DEFINE f == [i \in 0..0 |-> [cl |-> cl, error |-> "no"]]
    <3>1. f = Of(0, f)
      OBVIOUS
    <3> QED  BY <3>1, <2>2, <2>3
  <2>4. CASE n # 0
    <3>1. n - 1 \in Nat /\ ~(n <= n - 1)
      BY <2>2, <2>4
    <3>2. PICK g : g = Of(n - 1, g)
      BY <3>1, <2>1
    <3> DEFINE f == [i \in 0..n |-> IF i < n THEN g[i] ELSE OneField(g[n - 1], fields, n)]
    <3>3. ASSUME NEW i \in 0..n
          PROVE  f[i] = Of(n, f)[i]
      <4>1. CASE i = 0
        <5>1. f[i] = g[i] /\ i \in 0..n - 1
          BY <4>1, <2>2, <2>4
        <5>2. g[i] = [cl |-> cl, error |-> "no"]
          BY <5>1, <4>1, <3>2
        <5> HIDE DEF f
        <5> QED  BY <5>1, <5>2, <4>1
      <4>2. CASE i # 0
        <5>1. i - 1 \in 0..n /\ i - 1 < n
          BY <4>2, <2>2
        <5>2. f[i - 1] = g[i - 1]
          BY <5>1
        <5>3. Of(n, f)[i] = OneField(g[i - 1], fields, i)
          BY <5>2, <4>2
        <5>4. CASE i < n
          <6>1. i \in 0..n - 1 /\ f[i] = g[i]
            BY <5>4, <2>2
          <6>2. g[i] = OneField(g[i - 1], fields, i)
            BY <6>1, <4>2, <3>2
          <6> QED  BY <5>3, <6>1, <6>2
        <5>5. CASE ~(i < n)
          <6>1. i = n
            BY <5>5, <2>2
          <6> QED  BY <5>3, <5>5, <6>1
        <5> QED  BY <5>4, <5>5
      <4> QED  BY <4>1, <4>2
    <3>4. f = Of(n, f)
      BY <3>3
    <3> QED  BY <3>4, <2>2
  <2> QED  BY <2>3, <2>4
<1> DEFINE F == CHOOSE f : f = Of(needed, f)
<1>2. F = Of(needed, F)
  <2>1. \E f : f = Of(needed, f)
    BY <1>1
  <2> HIDE DEF Of
  <2> QED  BY <2>1
<1>3. ReadFields(cl, fields, needed) = F[needed]
  BY DEF ReadFields, Loop
<1> HIDE DEF F
<1>4. 0 \in 0..needed /\ \A i \in 1..needed : i \in 0..needed /\ i # 0
  OBVIOUS
<1>5. \A f : f = Of(needed, f) =>
         /\ f[0] = [cl |-> cl, error |-> "no"]
         /\ \A n \in 1..needed : f[n] = OneField(f[n - 1], fields, n)
  BY <1>4
<1> HIDE DEF Of
<1> QED  BY <1>2, <1>3, <1>5 DEF FieldsRead

AreFields(fields) ==
  /\ IsSeq(fields)
  /\ \A k \in DOMAIN fields : IsSeq(fields[k]) /\ \A i \in ToSet(fields[k]) : IsItem(i)

(* What the first m fields make of cl.                                      *)
FieldsGood(cl, fields, m, r) ==
  /\ {"cl", "error"} \subseteq DOMAIN r /\ IsCl(r.cl) /\ r.error \in Errors
  /\ r.error = "silent" => \E k \in DOMAIN fields : UntoldIn(fields[k])
  /\ r.cl.opt = cl.opt /\ r.cl.periodical = cl.periodical
  /\ m = 5 /\ r.error = "no" => Week(r.cl.dow)

LEMMA FieldsErrors ==
  ASSUME NEW cl, IsCl(cl), NEW fields, AreFields(fields), NEW needed \in 0..5
  PROVE  FieldsGood(cl, fields, needed, ReadFields(cl, fields, needed))
<1> SUFFICES
      ASSUME IsSeq(fields),
             \A k \in DOMAIN fields : IsSeq(fields[k]) /\ \A i \in ToSet(fields[k]) : IsItem(i)
      PROVE  LET r == ReadFields(cl, fields, needed)
             IN  /\ {"cl", "error"} \subseteq DOMAIN r /\ IsCl(r.cl) /\ r.error \in Errors
                 /\ r.error = "silent" => \E k \in DOMAIN fields : UntoldIn(fields[k])
                 /\ r.cl.opt = cl.opt /\ r.cl.periodical = cl.periodical
                 /\ needed = 5 /\ r.error = "no" => Week(r.cl.dow)
  BY DEF AreFields, FieldsGood
<1>1. Len(fields) \in Nat /\ DOMAIN fields = 1..Len(fields)
  BY DEF IsSeq
<1>2. PICK f : FieldsRead(f, cl, fields, needed)
  BY ReadFieldsIs
<1> DEFINE Good(m, r) ==
                      /\ {"cl", "error"} \subseteq DOMAIN r /\ IsCl(r.cl)
                      /\ r.error \in Errors
                      /\ r.error = "silent" => \E k \in DOMAIN fields : UntoldIn(fields[k])
                      /\ r.cl.opt = cl.opt /\ r.cl.periodical = cl.periodical
                      /\ m = 5 /\ r.error = "no" => Week(r.cl.dow)
           Bad == {n \in 0..needed : ~Good(n, f[n])}
<1>3. SUFFICES ASSUME Bad # {} PROVE FALSE
  <2>1. Bad = {} => Good(needed, f[needed])
    OBVIOUS
  <2> HIDE DEF Bad
  <2>2. PICK r : r = ReadFields(cl, fields, needed)
    OBVIOUS
  <2>3. Good(needed, r)
    BY <1>2, <1>3, <2>1, <2>2 DEF FieldsRead
  <2> QED  BY <2>2, <2>3
<1>4. PICK n \in Bad : \A j \in Bad : n <= j
  <2>1. Bad \in SUBSET Nat
    OBVIOUS
  <2> HIDE DEF Bad
  <2> QED  BY <1>3, <2>1, LeastNumber
<1>5. n \in 0..needed /\ ~Good(n, f[n])
  OBVIOUS
<1>6. Good(0, f[0])
  BY <1>2 DEF Errors, FieldsRead
<1>7. n \in 1..needed /\ n - 1 \in 0..needed /\ ~(n <= n - 1)
  BY <1>5, <1>6
<1>8. Good(n - 1, f[n - 1])
  BY <1>4, <1>7
<1>9. f[n] = OneField(f[n - 1], fields, n)
  BY <1>2, <1>7 DEF FieldsRead
<1> HIDE DEF Bad
<1>10. CASE n > Len(fields)
  <2>1. f[n] = [f[n - 1] EXCEPT !.error = IF @ = "no" THEN "told" ELSE @]
    BY <1>9, <1>10 DEF OneField
  <2>2. Good(n, f[n])
    BY <2>1, <1>8 DEF Errors
  <2> QED  BY <1>5, <2>2
<1>11. CASE ~(n > Len(fields))
  <2>1. f[n] = R_field(f[n - 1], FieldNames[n], fields[n])
    BY <1>9, <1>11 DEF OneField
  <2>2. n \in DOMAIN fields
    BY <1>1, <1>7, <1>11
  <2>3. CASE f[n - 1].error = "no"
    <3>0. FieldNames[n] \in ToSet(FieldNames) /\ (n = 5 => FieldNames[n] = "dow")
      BY <1>7 DEF FieldNames, ToSet
    <3>1. /\ {"cl", "error"} \subseteq DOMAIN f[n] /\ IsCl(f[n].cl)
          /\ f[n].error \in Errors /\ (f[n].error = "silent" => UntoldIn(fields[n]))
          /\ f[n].cl.opt = cl.opt /\ f[n].cl.periodical = cl.periodical
          /\ n = 5 => Week(f[n].cl.dow)
      <4>1. PICK acc, name, items :
               acc = f[n - 1] /\ name = FieldNames[n] /\ items = fields[n]
        OBVIOUS
      <4>2. IsCl(acc.cl) /\ acc.error = "no" /\ IsSeq(items) /\ \A i \in ToSet(items) : IsItem(i)
        <5>1. IsCl(acc.cl) /\ acc.error = "no"
          BY <1>8, <2>3, <4>1
        <5>2. IsSeq(items) /\ \A i \in ToSet(items) : IsItem(i)
          BY <2>2, <4>1
        <5> QED  BY <5>1, <5>2
      <4>3. LET r == R_field(acc, name, items)
            IN  /\ {"cl", "error"} \subseteq DOMAIN r /\ IsCl(r.cl) /\ r.error \in Errors
                /\ r.error = "silent" => UntoldIn(items)
                /\ r.cl.opt = acc.cl.opt /\ r.cl.periodical = acc.cl.periodical
                /\ name = "dow" => Week(r.cl.dow)
        BY <3>0, <4>1, <4>2, RFieldErrors
      <4>4. PICK r : r = R_field(acc, name, items) /\ r = f[n]
        BY <2>1, <4>1
      <4>5. acc.cl.opt = cl.opt /\ acc.cl.periodical = cl.periodical
        BY <1>8, <4>1
      <4>6. /\ {"cl", "error"} \subseteq DOMAIN r /\ IsCl(r.cl) /\ r.error \in Errors
            /\ r.error = "silent" => UntoldIn(items)
            /\ r.cl.opt = acc.cl.opt /\ r.cl.periodical = acc.cl.periodical
            /\ name = "dow" => Week(r.cl.dow)
        BY <4>3, <4>4
      <4> QED  BY <3>0, <4>1, <4>4, <4>5, <4>6
    <3> QED  BY <1>5, <2>2, <3>1
  <2>4. CASE f[n - 1].error # "no"
    <3>1. f[n] = f[n - 1]
      BY <2>1, <2>4 DEF R_field
    <3>2. PICK a : a = f[n - 1]
      OBVIOUS
    <3>3. Good(n - 1, a) /\ a.error # "no"
      BY <1>8, <2>4, <3>2
    <3>4. Good(n, a)
      BY <3>3
    <3> HIDE DEF Good
    <3> QED  BY <1>5, <3>1, <3>2, <3>4
  <2> QED  BY <2>3, <2>4
<1> QED  BY <1>10, <1>11

-----------------------------------------------------------------------------
(* The lines.                                                               *)

(* Each variable has one value, and the two that are the user's are not set. *)
IsEnv(env) ==
  /\ IsFiniteSet(env)
  /\ \A e \in env : e[1] \notin {"USER", "LOGNAME"}
  /\ \A e, g \in env : e[1] = g[1] => e = g

(* The file as it has been read up to some line.                            *)
IsConf(c) ==
  /\ {"lines", "def", "nc", "line", "entries", "crashed", "tzdiff", "env"} \subseteq DOMAIN c
  /\ c.nc \in BOOLEAN /\ c.crashed \in BOOLEAN
  /\ IsSeq(c.lines) /\ IsCl(c.def) /\ IsEnv(c.env)

Holds(c, command) == \E j \in DOMAIN c.lines : c.lines[j].shell = command

(* Nothing is told of a number with two dots or of a step of 0.             *)
Quiet(l) == l.kind \in {"arys", "period"} /\ Silent(l)

(* An interval of cl has an end, and Sunday is one day.                     *)
Bounded(cl) == HasInterval(cl) /\ (0 \in cl.dow <=> 7 \in cl.dow)

(* What line l makes of the default line.                                   *)
Fit(l, cl) ==
  /\ IsCl(cl)
  /\ "td" \notin cl.opt => cl.timefreq \in Nat \ {0}
  /\ l.kind = "period" /\ ~cl.periodical => Bounded(cl)

Made(l, cl) == Fit(l, cl) /\ cl.shell = l.cmd /\ l.cmd # ""

(* A line is put before those that were read.                               *)
Before(x, s) == <<x>> \o s

(* Line l adds at most a line.                                              *)
Added(l, c, r) == r.lines = c.lines \/ \E x : Made(l, x) /\ r.lines = Before(x, c.lines)

(* What was installed or told stays so.                                     *)
Follows(c, r) ==
  /\ IsConf(r) /\ (c.nc => r.nc)
  /\ \A command : Holds(c, command) => Holds(r, command)

(* Line l is installed, or told.                                            *)
Answered(l, r) == IsEntry(l) /\ ~Quiet(l) => r.nc \/ r.crashed \/ Holds(r, l.cmd)

LEMMA FollowsSame ==
  ASSUME NEW c, IsConf(c)
  PROVE  Follows(c, c)
BY DEF Follows

LEMMA FollowsOn ==
  ASSUME NEW c, NEW r, Follows(c, r), NEW s, Follows(r, s)
  PROVE  Follows(c, s)
BY DEF Follows

(* Only these parts of a file are looked at.                                *)
LEMMA FollowsAs ==
  ASSUME NEW c, IsConf(c), NEW r, DOMAIN r = DOMAIN c, r.lines = c.lines,
         IsCl(r.def), IsEnv(r.env), r.nc \in BOOLEAN, c.nc => r.nc, r.crashed \in BOOLEAN
  PROVE  Follows(c, r)
BY DEF Follows, IsConf, Holds

LEMMA SkippedTells ==
  ASSUME NEW c, IsConf(c), NEW l
  PROVE  Follows(c, Skipped(c)) /\ Answered(l, Skipped(c)) /\ Skipped(c).lines = c.lines
<1>1. /\ DOMAIN Skipped(c) = DOMAIN c /\ Skipped(c).lines = c.lines /\ Skipped(c).def = c.def
      /\ Skipped(c).env = c.env
      /\ Skipped(c).nc = TRUE /\ Skipped(c).crashed = c.crashed
  BY DEF Skipped, IsConf
<1>2. Follows(c, Skipped(c))
  BY <1>1, FollowsAs DEF IsConf
<1> QED  BY <1>1, <1>2 DEF Answered

LEMMA PutBefore ==
  ASSUME NEW s, IsSeq(s), NEW x, NEW t, t = Before(x, s)
  PROVE  /\ IsSeq(t) /\ 1 \in DOMAIN t /\ t[1] = x
         /\ \A j \in DOMAIN s : j + 1 \in DOMAIN t /\ t[j + 1] = s[j]
         /\ Len(s) \in Nat /\ Len(t) = Len(s) + 1
         /\ \A j \in DOMAIN t : j = 1 \/ (j - 1 \in DOMAIN s /\ t[j] = s[j - 1])
<1> DEFINE S == ToSet(s) \cup {x}
<1>1. s \in Seq(S) /\ <<x>> \in Seq(S)
  <2>1. s \in Seq(ToSet(s)) /\ ToSet(s) \subseteq S /\ x \in S
    BY DEF IsSeq
  <2> HIDE DEF S
  <2>2. \A T : s \in Seq(T) /\ T \subseteq S => s \in Seq(S)
    OBVIOUS
  <2>3. <<x>> \in Seq(S)
    BY <2>1
  <2> QED  BY <2>1, <2>2, <2>3
<1> HIDE DEF S
<1>2. t \in Seq(S) /\ Len(s) \in Nat /\ Len(t) = Len(s) + 1
  BY <1>1 DEF Before
<1>3. t[1] = x /\ \A j \in 1..Len(s) : t[j + 1] = s[j]
  BY <1>1, <1>2 DEF Before
<1>4. DOMAIN s = 1..Len(s) /\ DOMAIN t = 1..Len(t)
  BY <1>1, <1>2
<1>5. IsSeq(t)
  <2>1. \A T, q : q \in Seq(T) => q \in Seq(ToSet(q))
    BY DEF ToSet
  <2> QED  BY <2>1, <1>2 DEF IsSeq
<1>6. 1 \in DOMAIN t /\ \A j \in DOMAIN s : j + 1 \in DOMAIN t /\ t[j + 1] = s[j]
  BY <1>2, <1>3, <1>4
<1>7. ASSUME NEW j \in DOMAIN t, j # 1
      PROVE  j - 1 \in DOMAIN s /\ t[j] = s[j - 1]
  <2>1. j - 1 \in 1..Len(s) /\ (j - 1) + 1 = j
    BY <1>2, <1>4, <1>7
  <2> QED  BY <2>1, <1>3, <1>4
<1> QED  BY <1>2, <1>3, <1>5, <1>6, <1>7

LEMMA KeptTells ==
  ASSUME NEW w, NEW c, IsConf(c), NEW l, NEW cl, Fit(l, cl)
  PROVE  LET r == Kept(w, c, cl, l)
         IN  Follows(c, r) /\ Answered(l, r) /\ Added(l, c, r)
<1> DEFINE runas == IF l.user \in Users /\ w.privileged THEN l.user ELSE cl.runas
<1>1. CASE l.cmd = ""
  BY <1>1, SkippedTells DEF Kept, Added
<1>2. CASE l.cmd # ""
  <2>1. PICK x : x = [cl EXCEPT !.runas = runas, !.shell = l.cmd]
    OBVIOUS
  <2>2. x.shell = l.cmd /\ Made(l, x)
    <3>1. /\ DOMAIN x = Parts /\ x.shell = l.cmd
          /\ \A p \in Parts \ {"shell", "runas"} : x[p] = cl[p]
      BY <2>1 DEF Fit, IsCl, Parts
    <3>2. IsCl(x)
      BY <3>1 DEF Fit, IsCl, PartOk
    <3>3. /\ x.opt = cl.opt /\ x.timefreq = cl.timefreq /\ x.periodical = cl.periodical
          /\ x.dow = cl.dow /\ x.mins = cl.mins /\ x.hrs = cl.hrs /\ x.days = cl.days
          /\ x.mons = cl.mons /\ x.limits = cl.limits
      BY <3>1 DEF Parts
    <3>4. HasInterval(cl) => HasInterval(x)
      <4>1. \A f \in {"mins", "hrs", "days", "mons", "dow"} : x[f] = cl[f]
        BY <3>3
      <4> QED  BY <3>3, <4>1 DEF HasInterval
    <3> QED  BY <1>2, <3>1, <3>2, <3>3, <3>4 DEF Made, Fit, Bounded
  <2>3. PICK t : t = Before(x, c.lines)
    OBVIOUS
  <2>4. PICK r : r = [c EXCEPT !.lines = t]
    OBVIOUS
  <2>5. Kept(w, c, cl, l) = r
    BY <1>2, <2>1, <2>3, <2>4 DEF Kept, Before
  <2>6. /\ IsSeq(t) /\ 1 \in DOMAIN t /\ t[1] = x
        /\ \A j \in DOMAIN c.lines : j + 1 \in DOMAIN t /\ t[j + 1] = c.lines[j]
    <3>1. IsSeq(c.lines)
      BY DEF IsConf
    <3> QED  BY <3>1, <2>3, PutBefore
  <2>7. /\ DOMAIN r = DOMAIN c /\ r.lines = t /\ r.def = c.def /\ r.nc = c.nc
        /\ r.crashed = c.crashed /\ r.env = c.env
    BY <2>4 DEF IsConf
  <2>8. Holds(r, l.cmd)
    BY <2>2, <2>6, <2>7 DEF Holds
  <2>9. \A command : Holds(c, command) => Holds(r, command)
    BY <2>6, <2>7 DEF Holds
  <2>10. Added(l, c, r)
    BY <2>2, <2>3, <2>7 DEF Added
  <2> QED  BY <2>5, <2>6, <2>7, <2>8, <2>9, <2>10 DEF Follows, Answered, IsConf
<1> QED  BY <1>1, <1>2

LEMMA AfterFollows ==
  ASSUME NEW c, IsConf(c), NEW acc, IsAcc(acc), c.nc => acc.nc
  PROVE  Follows(c, After(c, acc)) /\ After(c, acc).lines = c.lines
<1> DEFINE r == After(c, acc)
<1>1. /\ DOMAIN r = DOMAIN c /\ r.lines = c.lines /\ r.def = c.def /\ r.nc = acc.nc
      /\ r.crashed = acc.crashed /\ r.env = c.env
  BY DEF After, IsConf
<1> HIDE DEF r
<1>2. Follows(c, r)
  BY <1>1, FollowsAs DEF IsConf, IsAcc
<1> QED  BY <1>1, <1>2 DEF r

(* A line whose options were read, and that is skipped.                     *)
LEMMA NotTakenTells ==
  ASSUME NEW c, IsConf(c), NEW acc, IsAcc(acc), c.nc => acc.nc, NEW l
  PROVE  LET r == Skipped(After(c, acc))
         IN  Follows(c, r) /\ Answered(l, r) /\ Added(l, c, r)
<1>1. PICK a : a = After(c, acc)
  OBVIOUS
<1>2. Follows(c, a) /\ IsConf(a) /\ a.lines = c.lines
  BY <1>1, AfterFollows DEF Follows
<1>3. Follows(a, Skipped(a)) /\ Answered(l, Skipped(a)) /\ Skipped(a).lines = a.lines
  BY <1>2, SkippedTells
<1> QED  BY <1>1, <1>2, <1>3, FollowsOn DEF Added

(* A line whose options were read, and that is kept.                        *)
LEMMA TakenTells ==
  ASSUME NEW c, IsConf(c), NEW acc, IsAcc(acc), c.nc => acc.nc, NEW l,
         NEW w, NEW cl, Fit(l, cl)
  PROVE  LET r == Kept(w, After(c, acc), cl, l)
         IN  Follows(c, r) /\ Answered(l, r) /\ Added(l, c, r)
<1>1. PICK a : a = After(c, acc)
  OBVIOUS
<1>2. Follows(c, a) /\ IsConf(a) /\ a.lines = c.lines
  BY <1>1, AfterFollows DEF Follows
<1>3. /\ Follows(a, Kept(w, a, cl, l)) /\ Answered(l, Kept(w, a, cl, l))
      /\ Added(l, a, Kept(w, a, cl, l))
  BY <1>2, KeptTells
<1> QED  BY <1>1, <1>2, <1>3, FollowsOn DEF Added

LEMMA WithFieldsTells ==
  ASSUME NEW c, IsConf(c), NEW acc, IsAcc(acc), c.nc => acc.nc, NEW l, NEW w,
         NEW r, r.error = "no" => Fit(l, r.cl), r.error \in Errors,
         r.error = "silent" => Quiet(l)
  PROVE  LET s == WithFields(w, After(c, acc), r, l)
         IN  Follows(c, s) /\ Answered(l, s) /\ Added(l, c, s)
<1>1. CASE r.error = "no"
  <2>1. WithFields(w, After(c, acc), r, l) = Kept(w, After(c, acc), r.cl, l)
    BY <1>1 DEF WithFields
  <2> QED  BY <1>1, <2>1, TakenTells
<1>2. CASE r.error = "told"
  <2>1. WithFields(w, After(c, acc), r, l) = Skipped(After(c, acc))
    BY <1>2 DEF WithFields
  <2> QED  BY <2>1, NotTakenTells
<1>3. CASE r.error = "silent"
  <2>1. WithFields(w, After(c, acc), r, l) = After(c, acc)
    BY <1>3 DEF WithFields
  <2> QED  BY <2>1, <1>3, AfterFollows DEF Answered, Added
<1> QED  BY <1>1, <1>2, <1>3 DEF Errors

(* The fields of a line.  Those of a period are only looked at when they    *)
(* have been read.                                                          *)
LEMMA LineFieldsTell ==
  ASSUME NEW c, IsConf(c), NEW acc, IsAcc(acc), c.nc => acc.nc, NEW w,
         NEW l, IsLine(l), l.kind \in {"arys", "period"},
         NEW cl, IsCl(cl), "td" \in cl.opt, NEW needed \in 0..5,
         NEW r, r = ReadFields(cl, l.fields, needed),
         r.error = "no" /\ l.kind = "period" /\ ~r.cl.periodical => Bounded(r.cl)
  PROVE  LET s == WithFields(w, After(c, acc), r, l)
         IN  Follows(c, s) /\ Answered(l, s) /\ Added(l, c, s)
<1>1. AreFields(l.fields)
  BY DEF IsLine, AreFields
<1>2. /\ IsCl(r.cl) /\ r.error \in Errors /\ r.cl.opt = cl.opt
      /\ r.error = "silent" => \E k \in DOMAIN l.fields : UntoldIn(l.fields[k])
  <2>1. FieldsGood(cl, l.fields, needed, r)
    BY <1>1, FieldsErrors
  <2> QED  BY <2>1 DEF FieldsGood
<1>3. r.error = "silent" => Quiet(l)
  <2> SUFFICES ASSUME r.error = "silent" PROVE Silent(l)
    BY DEF Quiet
  <2>1. PICK k \in DOMAIN l.fields : UntoldIn(l.fields[k])
    BY <1>2
  <2> QED  BY <2>1 DEF Silent, UntoldIn
<1>4. r.error = "no" => Fit(l, r.cl)
  BY <1>2 DEF Fit
<1> QED  BY <1>2, <1>3, <1>4, WithFieldsTells

(* What read_opt() gives for the options of a line.                         *)
LEMMA LineOptionsTell ==
  ASSUME NEW w, NEW c, IsConf(c), NEW l, IsLine(l), NEW cl, IsCl(cl), NEW own
  PROVE  LET acc == read_opt(w, c, cl, own, l.opts)
         IN  IsAcc(acc) /\ (c.nc => acc.nc) /\ IsCl(acc.cl)
<1>1. /\ IsSeq(l.opts) /\ (\A o \in ToSet(l.opts) : IsOption(o)) /\ c.nc \in BOOLEAN
  BY DEF IsLine, IsConf
<1>2. LET acc == read_opt(w, c, cl, own, l.opts)
      IN  IsAcc(acc) /\ (c.nc => acc.nc)
  BY <1>1, ReadOptTells
<1> QED  BY <1>2 DEF IsAcc

LEMMA ShortcutIs ==
  ASSUME NEW def, IsCl(def), NEW l, l.kind = "shortcut"
  PROVE  Fit(l, ShortcutLine(def, l.word))
<1>1. CASE l.word \in DOMAIN Shortcuts
  <2>1. PICK d : d = Shortcuts[l.word]
    OBVIOUS
  <2>2. /\ d.mins \subseteq Int /\ d.hrs \subseteq Int /\ d.days \subseteq 0..31
        /\ d.mons \subseteq Int /\ d.dow \subseteq Int
    BY <1>1, <2>1 DEF Shortcuts, Date
  <2>3. PICK r : r = ShortcutLine(def, l.word)
    OBVIOUS
  <2>4. /\ DOMAIN r = Parts /\ "td" \in r.opt
        /\ r.mins = d.mins /\ r.hrs = d.hrs /\ r.days = d.days /\ r.mons = d.mons /\ r.dow = d.dow
        /\ \A p \in {"until", "jitter", "runfreq"} : r[p] = def[p]
    BY <1>1, <2>1, <2>3 DEF ShortcutLine, IsCl, Parts
  <2>5. \A p \in Parts : PartOk(p, r[p])
    BY <2>2, <2>4 DEF IsCl, Parts, PartOk
  <2> QED  BY <2>3, <2>4, <2>5 DEF Fit, IsCl
<1>2. CASE l.word \notin DOMAIN Shortcuts
  <2>1. PICK r : r = ShortcutLine(def, l.word)
    OBVIOUS
  <2>2. /\ DOMAIN r = Parts /\ r.runfreq = 0 /\ r.timefreq = LONG_MAX
        /\ \A p \in {"until", "jitter", "mins", "hrs", "days", "mons", "dow"} : r[p] = def[p]
    BY <1>2, <2>1 DEF ShortcutLine, IsCl, Parts
  <2>3. \A p \in Parts : PartOk(p, r[p])
    BY <2>2 DEF IsCl, Parts, PartOk
  <2> QED  BY <2>1, <2>2, <2>3, LongAssumption DEF Fit, IsCl
<1> QED  BY <1>1, <1>2

LEMMA ShortcutTells ==
  ASSUME NEW w, NEW c, IsConf(c), NEW l, l.kind = "shortcut"
  PROVE  LET r == read_shortcut(w, c, l)
         IN  Follows(c, r) /\ Answered(l, r) /\ Added(l, c, r)
<1>1. Fit(l, ShortcutLine(c.def, l.word))
  BY ShortcutIs DEF IsConf
<1>2. CASE l.space
  <2>1. read_shortcut(w, c, l) = Kept(w, c, ShortcutLine(c.def, l.word), l)
    BY <1>2 DEF read_shortcut
  <2> QED  BY <1>1, <2>1, KeptTells
<1>3. CASE ~l.space
  BY <1>3, SkippedTells DEF read_shortcut, Added
<1> QED  BY <1>2, <1>3

LEMMA FreqTells ==
  ASSUME NEW w, NEW c, IsConf(c), NEW l, IsLine(l), l.kind = "freq"
  PROVE  LET r == read_freq(w, c, l)
         IN  Follows(c, r) /\ Answered(l, r) /\ Added(l, c, r)
<1> DEFINE cl0 == [c.def EXCEPT !.first = IF l.num = <<>> THEN -1 ELSE l.num[1]]
           acc == read_opt(w, c, cl0, TRUE, l.opts)
           cl  == [acc.cl EXCEPT !.runfreq = 0, !.opt = @ \ {"td"}, !.timefreq = l.freq,
                                 !.first = IF @ = -1 THEN l.freq ELSE @]
<1>1. IsCl(cl0)
  BY SetOther DEF IsConf
<1> HIDE DEF cl0
<1>2. IsAcc(acc) /\ (c.nc => acc.nc) /\ IsCl(acc.cl)
  BY <1>1, LineOptionsTell
<1>3. \/ read_freq(w, c, l) = Kept(w, After(c, acc), cl, l) /\ l.freq >= 1
      \/ read_freq(w, c, l) = Skipped(After(c, acc))
  BY DEF read_freq, cl0
<1> HIDE DEF acc
<1>4. IsCl(cl) /\ cl.timefreq = l.freq
  <2>1. PICK x : x = cl
    OBVIOUS
  <2>2. /\ DOMAIN x = Parts /\ x.runfreq = 0 /\ x.timefreq = l.freq
        /\ \A p \in {"until", "jitter", "mins", "hrs", "days", "mons", "dow"} : x[p] = acc.cl[p]
    BY <1>2, <2>1 DEF IsCl, Parts
  <2>3. \A p \in Parts : PartOk(p, x[p])
    BY <1>2, <2>2 DEF IsCl, Parts, PartOk
  <2> QED  BY <2>1, <2>2, <2>3 DEF IsCl
<1> HIDE DEF cl
<1>5. l.freq >= 1 => Fit(l, cl)
  BY <1>4 DEF Fit, IsLine
<1> QED  BY <1>2, <1>3, <1>5, TakenTells, NotTakenTells

LEMMA ArysTells ==
  ASSUME NEW w, NEW c, IsConf(c), NEW l, IsLine(l), l.kind = "arys"
  PROVE  LET r == read_arys(w, c, l)
         IN  Follows(c, r) /\ Answered(l, r) /\ Added(l, c, r)
<1> DEFINE runfreq == IF l.num = <<>> THEN c.def.runfreq ELSE l.num[1]
           cl0 == [c.def EXCEPT !.runfreq = runfreq]
           acc == read_opt(w, c, cl0, TRUE, l.opts)
           cl  == [acc.cl EXCEPT !.remain = acc.cl.runfreq, !.opt = @ \cup {"td"}]
<1>1. IsCl(cl0)
  <2>1. l.num # <<>> => l.num[1] \in Nat
    BY FirstOf DEF IsLine
  <2>2. runfreq \in Nat
    BY <2>1 DEF IsConf, IsCl, Parts, PartOk
  <2> HIDE DEF runfreq
  <2>3. PartOk("runfreq", runfreq)
    BY <2>2 DEF PartOk
  <2> QED  BY <2>3, SetPart DEF IsConf
<1> HIDE DEF cl0
<1>2. IsAcc(acc) /\ (c.nc => acc.nc) /\ IsCl(acc.cl)
  BY <1>1, LineOptionsTell
<1>3. \/ read_arys(w, c, l) = WithFields(w, After(c, acc), ReadFields(cl, l.fields, 5), l)
      \/ read_arys(w, c, l) = Skipped(After(c, acc))
  BY DEF read_arys, cl0
<1> HIDE DEF acc
<1>4. IsCl(cl) /\ "td" \in cl.opt
  <2>1. PICK x : x = [acc.cl EXCEPT !.remain = acc.cl.runfreq]
    OBVIOUS
  <2>2. IsCl(x)
    BY <1>2, <2>1, SetOther
  <2>3. PICK y : y = [x EXCEPT !.opt = acc.cl.opt \cup {"td"}]
    OBVIOUS
  <2>4. IsCl(y) /\ "td" \in y.opt
    <3>1. "opt" \in DOMAIN x
      BY <2>2 DEF IsCl, Parts
    <3>2. "td" \in y.opt
      BY <3>1, <2>3
    <3> QED  BY <3>2, <2>2, <2>3, SetOther
  <2>5. cl = y
    BY <2>1, <2>3
  <2> QED  BY <2>4, <2>5
<1> HIDE DEF cl
<1>5. PICK r : r = ReadFields(cl, l.fields, 5)
  OBVIOUS
<1>6. LET s == WithFields(w, After(c, acc), r, l)
      IN  Follows(c, s) /\ Answered(l, s) /\ Added(l, c, s)
  <2>1. 5 \in 0..5 /\ l.kind # "period"
    OBVIOUS
  <2> QED  BY <2>1, <1>2, <1>4, <1>5, LineFieldsTell
<1> QED  BY <1>2, <1>3, <1>5, <1>6, NotTakenTells

LEMMA NeededIs ==
  ASSUME NEW cl
  PROVE  Needed(cl) \in 0..5 /\ (~cl.periodical => Needed(cl) = 5)
<1>1. Needed(cl) \in {0, 1, 2, 3, 5}
  BY DEF Needed
<1>2. ~cl.periodical => Needed(cl) = 5
  BY DEF Needed
<1> QED  BY <1>1, <1>2

LEMMA PeriodTells ==
  ASSUME NEW w, NEW c, IsConf(c), NEW l, IsLine(l), l.kind = "period"
  PROVE  LET r == read_period(w, c, l)
         IN  Follows(c, r) /\ Answered(l, r) /\ Added(l, c, r)
<1> DEFINE cl0    == [c.def EXCEPT !.runfreq = 1, !.remain = 1]
           acc    == read_opt(w, c, cl0, TRUE, l.opts)
           cl     == [acc.cl EXCEPT !.opt = @ \cup {"td"}]
           needed == Needed(cl)
           full   == [cl EXCEPT !.mins = IF needed < 1 THEN Unread.mins ELSE @,
                                !.hrs  = IF needed < 2 THEN Unread.hrs ELSE @,
                                !.days = IF needed < 3 THEN Unread.days ELSE @,
                                !.mons = IF needed < 4 THEN Unread.mons ELSE @,
                                !.dow  = IF needed < 5 THEN Unread.dow ELSE @]
           r      == ReadFields(full, l.fields, needed)
<1>1. IsCl(cl0)
  <2>1. PICK x : x = [c.def EXCEPT !.runfreq = 1]
    OBVIOUS
  <2>2. IsCl(x)
    <3>1. PartOk("runfreq", 1)
      BY DEF PartOk
    <3> QED  BY <2>1, <3>1, SetPart DEF IsConf
  <2>3. cl0 = [x EXCEPT !.remain = 1]
    BY <2>1
  <2> QED  BY <2>2, <2>3, SetOther
<1> HIDE DEF cl0
<1>2. IsAcc(acc) /\ (c.nc => acc.nc) /\ IsCl(acc.cl)
  BY <1>1, LineOptionsTell
<1>3. \/ /\ read_period(w, c, l) = WithFields(w, After(c, acc), r, l)
         /\ ~(r.error = "no" /\ ~cl.periodical /\ ~HasInterval(r.cl))
      \/ read_period(w, c, l) = Skipped(After(c, acc))
  BY DEF read_period, cl0
<1> HIDE DEF acc
<1>4. IsCl(cl) /\ "td" \in cl.opt
  <2>1. "opt" \in DOMAIN acc.cl
    BY <1>2 DEF IsCl, Parts
  <2>2. "td" \in cl.opt
    BY <2>1
  <2>3. cl = [acc.cl EXCEPT !.opt = acc.cl.opt \cup {"td"}]
    OBVIOUS
  <2>4. PICK x : x = cl
    OBVIOUS
  <2> HIDE DEF cl
  <2>5. IsCl(x)
    BY <1>2, <2>3, <2>4, SetOther
  <2> QED  BY <2>2, <2>4, <2>5
<1> HIDE DEF cl
<1>5. needed \in 0..5 /\ (~cl.periodical => needed = 5)
  BY NeededIs
<1> HIDE DEF needed
<1>6. IsCl(full) /\ "td" \in full.opt /\ full.periodical = cl.periodical
  <2>1. PICK x : x = full
    OBVIOUS
  <2>2. /\ DOMAIN x = Parts /\ x.opt = cl.opt /\ x.periodical = cl.periodical
        /\ \A p \in {"until", "jitter", "runfreq"} : x[p] = cl[p]
    BY <1>4, <2>1 DEF IsCl, Parts
  <2>3. /\ x.mins \in {cl.mins, Unread.mins} /\ x.hrs \in {cl.hrs, Unread.hrs}
        /\ x.days \in {cl.days, Unread.days} /\ x.mons \in {cl.mons, Unread.mons}
        /\ x.dow \in {cl.dow, Unread.dow}
    BY <1>4, <2>1 DEF IsCl, Parts
  <2>4. /\ Unread.mins \subseteq Int /\ Unread.hrs \subseteq Int /\ Unread.days \subseteq 0..31
        /\ Unread.mons \subseteq Int /\ Unread.dow \subseteq Int
    BY DEF Unread, Date
  <2>5. \A p \in Parts : PartOk(p, x[p])
    BY <1>4, <2>2, <2>3, <2>4 DEF IsCl, Parts, PartOk
  <2> QED  BY <1>4, <2>1, <2>2, <2>5 DEF IsCl
<1> HIDE DEF full
<1>7. /\ r.cl.periodical = full.periodical
      /\ needed = 5 /\ r.error = "no" => Week(r.cl.dow)
  <2>1. AreFields(l.fields)
    BY DEF IsLine, AreFields
  <2>2. FieldsGood(full, l.fields, needed, r)
    BY <1>5, <1>6, <2>1, FieldsErrors
  <2> HIDE DEF r
  <2> QED  BY <2>2 DEF FieldsGood
<1> HIDE DEF r
<1>8. ASSUME ~(r.error = "no" /\ ~cl.periodical /\ ~HasInterval(r.cl))
      PROVE  LET s == WithFields(w, After(c, acc), r, l)
             IN  Follows(c, s) /\ Answered(l, s) /\ Added(l, c, s)
  <2>1. r.error = "no" /\ ~r.cl.periodical => Bounded(r.cl)
    BY <1>5, <1>6, <1>7, <1>8 DEF Bounded, Week
  <2>2. PICK q : q = r
    OBVIOUS
  <2>3. q = ReadFields(full, l.fields, needed)
    BY <2>2 DEF r
  <2> QED  BY <1>2, <1>5, <1>6, <2>1, <2>2, <2>3, LineFieldsTell
<1> QED  BY <1>2, <1>3, <1>8, NotTakenTells

(* A variable takes the place of that of the same name.                     *)
LEMMA EnvPut ==
  ASSUME NEW env, IsEnv(env), NEW name, name \notin {"USER", "LOGNAME"}, NEW val
  PROVE  IsEnv({e \in env : e[1] # name} \cup {<<name, val>>})
<1> DEFINE old == {e \in env : e[1] # name}
           new == {<<name, val>>}
<1>1. IsFiniteSet(old) /\ IsFiniteSet(new)
  <2>1. old \subseteq env /\ IsFiniteSet(env)
    BY DEF IsEnv
  <2> HIDE DEF old
  <2> QED  BY <2>1, FS_Subset, FS_Singleton
<1>2. IsFiniteSet(old \cup new)
  <2> HIDE DEF old, new
  <2> QED  BY <1>1, FS_Union
<1>3. \A e \in old : e \in env /\ e[1] # name
  OBVIOUS
<1>4. \A e \in new : e = <<name, val>> /\ e[1] = name
  OBVIOUS
<1> HIDE DEF old, new
<1>5. \A e, g \in old \cup new : e[1] = g[1] => e = g
  BY <1>3, <1>4 DEF IsEnv
<1>6. \A e \in old \cup new : e[1] \notin {"USER", "LOGNAME"}
  BY <1>3, <1>4 DEF IsEnv
<1>7. IsEnv(old \cup new)
  BY <1>2, <1>5, <1>6 DEF IsEnv
<1> QED  BY <1>7 DEF old, new

(* Such a line changes default_line or the variables.                       *)
LEMMA EnvFollows ==
  ASSUME NEW w, NEW c, IsConf(c), NEW l, IsLine(l), l.kind = "env"
  PROVE  Follows(c, read_env(w, c, l)) /\ read_env(w, c, l).lines = c.lines
<1>1. PICK r : r = read_env(w, c, l)
  OBVIOUS
<1>2. /\ DOMAIN r = DOMAIN c /\ r.lines = c.lines /\ r.nc \in {c.nc, TRUE}
      /\ r.crashed = c.crashed /\ IsCl(r.def) /\ IsEnv(r.env)
  <2>1. IsCl(c.def) /\ IsEnv(c.env)
    BY DEF IsConf
  <2>2. CASE l.form # "ok"
    <3>1. r = [c EXCEPT !.nc = TRUE]
      BY <1>1, <2>2 DEF read_env, Skipped, IsLine
    <3> QED  BY <2>1, <3>1 DEF IsConf
  <2>3. CASE l.form = "ok" /\ l.name \in {"USER", "LOGNAME"}
    <3>1. r = c
      BY <1>1, <2>3 DEF read_env
    <3> QED  BY <2>1, <3>1 DEF IsConf
  <2>4. CASE l.form = "ok" /\ l.name = "MAILFROM"
    <3>1. PICK d : d = [c.def EXCEPT !.mailfrom = l.val]
      OBVIOUS
    <3>2. r = [c EXCEPT !.def = d]
      BY <1>1, <2>4, <3>1 DEF read_env
    <3>3. IsCl(d)
      BY <2>1, <3>1, SetOther
    <3> QED  BY <2>1, <3>2, <3>3 DEF IsConf
  <2>5. CASE l.form = "ok" /\ l.name = "MAILTO" /\ l.val = ""
    <3>1. PICK d : d = [c.def EXCEPT !.opt = @ \ {"mail", "mailzerolength"}]
      OBVIOUS
    <3>2. r = [c EXCEPT !.def = d]
      BY <1>1, <2>5, <3>1 DEF read_env
    <3>3. d = [c.def EXCEPT !.opt = c.def.opt \ {"mail", "mailzerolength"}]
      BY <3>1
    <3>4. IsCl(d)
      BY <2>1, <3>3, SetOther
    <3> QED  BY <2>1, <3>2, <3>4 DEF IsConf
  <2>6. CASE l.form = "ok" /\ l.name = "MAILTO" /\ l.val # ""
    <3>1. PICK a : a = [c.def EXCEPT !.mailto = l.val]
      OBVIOUS
    <3>2. IsCl(a)
      BY <2>1, <3>1, SetOther
    <3>3. PICK d : d = [a EXCEPT !.opt = a.opt \cup {"mail"}]
      OBVIOUS
    <3>4. IsCl(d)
      BY <3>2, <3>3, SetOther
    <3>5. r = [c EXCEPT !.def = d]
      <4>1. r = [c EXCEPT !.def.mailto = l.val, !.def.opt = @ \cup {"mail"}]
        BY <1>1, <2>6 DEF read_env
      <4> QED  BY <4>1, <3>1, <3>3 DEF IsConf
    <3> QED  BY <2>1, <3>4, <3>5 DEF IsConf
  <2>7. CASE l.form = "ok" /\ l.name \notin {"USER", "LOGNAME", "MAILFROM", "MAILTO"}
    <3>1. PICK env : env = {e \in c.env : e[1] # l.name} \cup {<<l.name, l.val>>}
      OBVIOUS
    <3>2. r = [c EXCEPT !.env = env]
      BY <1>1, <2>7, <3>1 DEF read_env
    <3>3. l.name \notin {"USER", "LOGNAME"}
      BY <2>7
    <3>4. IsEnv(env)
      BY <2>1, <3>1, <3>3, EnvPut
    <3> QED  BY <2>1, <3>2, <3>4 DEF IsConf
  <2> QED  BY <2>2, <2>3, <2>4, <2>5, <2>6, <2>7
<1>3. Follows(c, r)
  BY <1>2, FollowsAs DEF IsConf
<1> QED  BY <1>1, <1>2, <1>3

LEMMA DefaultFollows ==
  ASSUME NEW w, NEW c, IsConf(c), NEW l, IsLine(l)
  PROVE  Follows(c, ReadDefault(w, c, l)) /\ ReadDefault(w, c, l).lines = c.lines
<1>1. PICK acc : acc = read_opt(w, c, c.def, FALSE, l.opts)
  OBVIOUS
<1>2. IsAcc(acc) /\ (c.nc => acc.nc) /\ IsCl(acc.cl)
  BY <1>1, LineOptionsTell DEF IsConf
<1>3. PICK a : a = After(c, acc)
  OBVIOUS
<1>4. Follows(c, a) /\ IsConf(a) /\ a.lines = c.lines
  BY <1>2, <1>3, AfterFollows DEF Follows
<1>5. PICK r : r = [a EXCEPT !.def = acc.cl]
  OBVIOUS
<1>6. ReadDefault(w, c, l) \in {r, Skipped(r)}
  BY <1>1, <1>3, <1>5 DEF ReadDefault
<1>7. /\ DOMAIN r = DOMAIN a /\ r.lines = a.lines /\ r.nc = a.nc /\ r.crashed = a.crashed
      /\ r.def = acc.cl /\ r.env = a.env
  BY <1>4, <1>5 DEF IsConf
<1>8. Follows(a, r)
  BY <1>2, <1>4, <1>7, FollowsAs DEF IsConf
<1>9. Follows(c, r) /\ r.lines = c.lines /\ IsConf(r)
  BY <1>4, <1>7, <1>8, FollowsOn DEF Follows
<1>10. Follows(c, Skipped(r)) /\ Skipped(r).lines = c.lines
  BY <1>9, SkippedTells, FollowsOn
<1> QED  BY <1>6, <1>9, <1>10

LEMMA ContentsTell ==
  ASSUME NEW w, NEW c, IsConf(c), NEW l, IsLine(l), l.kind # "toolong"
  PROVE  LET r == ReadContents(w, c, l)
         IN  Follows(c, r) /\ Answered(l, r) /\ Added(l, c, r)
<1>1. CASE l.kind = "comment"
  <2>1. ReadContents(w, c, l) = c
    BY <1>1 DEF ReadContents
  <2> QED  BY <1>1, <2>1, FollowsSame DEF Answered, IsEntry, Added
<1>2. CASE l.kind = "env"
  <2>1. ReadContents(w, c, l) = read_env(w, c, l)
    BY <1>2 DEF ReadContents
  <2> QED  BY <1>2, <2>1, EnvFollows DEF Answered, IsEntry, Added
<1>3. CASE l.kind = "opts"
  <2>1. ReadContents(w, c, l) = ReadDefault(w, c, l)
    BY <1>3 DEF ReadContents
  <2> QED  BY <1>3, <2>1, DefaultFollows DEF Answered, IsEntry, Added
<1>4. CASE l.kind = "shortcut"
  <2>1. ReadContents(w, c, l) = read_shortcut(w, c, l)
    BY <1>4 DEF ReadContents
  <2> QED  BY <1>4, <2>1, ShortcutTells
<1>5. CASE l.kind = "freq"
  <2>1. ReadContents(w, c, l) = read_freq(w, c, l)
    BY <1>5 DEF ReadContents
  <2> QED  BY <1>5, <2>1, FreqTells
<1>6. CASE l.kind = "arys"
  <2>1. ReadContents(w, c, l) = read_arys(w, c, l)
    BY <1>6 DEF ReadContents
  <2> QED  BY <1>6, <2>1, ArysTells
<1>7. CASE l.kind = "period"
  <2>1. ReadContents(w, c, l) = read_period(w, c, l)
    BY <1>7 DEF ReadContents
  <2> QED  BY <1>7, <2>1, PeriodTells
<1> QED  BY <1>1, <1>2, <1>3, <1>4, <1>5, <1>6, <1>7 DEF IsLine, LineKinds

(* A turn of read_file(): a line that is to run something is installed, or  *)
(* the user is told, unless its error is a step of 0; no line that was      *)
(* installed before is lost, and one that is added comes from it.           *)
LEMMA LineTells ==
  ASSUME NEW w, NEW c, IsConf(c), NEW l, IsLine(l)
  PROVE  LET r == ReadLine(w, c, l)
         IN  Follows(c, r) /\ Answered(l, r) /\ Added(l, c, r)
<1>1. CASE l.kind = "toolong"
  <2>1. PICK r : r = [c EXCEPT !.nc = TRUE, !.line = @ + l.extra + 1]
    OBVIOUS
  <2>2. ReadLine(w, c, l) = r
    BY <1>1, <2>1 DEF ReadLine
  <2>3. /\ DOMAIN r = DOMAIN c /\ r.lines = c.lines /\ r.nc = TRUE /\ r.crashed = c.crashed
        /\ r.def = c.def /\ r.env = c.env
    BY <2>1 DEF IsConf
  <2>4. Follows(c, r)
    BY <2>3, FollowsAs DEF IsConf
  <2> QED  BY <1>1, <2>2, <2>3, <2>4 DEF Answered, IsEntry, Added
<1>2. CASE l.kind # "toolong"
  <2>1. PICK a : a = [c EXCEPT !.line = @ + l.extra]
    OBVIOUS
  <2>2. /\ DOMAIN a = DOMAIN c /\ a.lines = c.lines /\ a.nc = c.nc /\ a.crashed = c.crashed
        /\ a.def = c.def /\ a.env = c.env
    BY <2>1 DEF IsConf
  <2>3. Follows(c, a) /\ IsConf(a)
    BY <2>2, FollowsAs DEF IsConf, Follows
  <2>4. PICK b : b = ReadContents(w, a, l)
    OBVIOUS
  <2>5. Follows(a, b) /\ IsConf(b) /\ Answered(l, b) /\ Added(l, a, b)
    BY <1>2, <2>3, <2>4, ContentsTell DEF Follows
  <2>6. PICK r : r = [b EXCEPT !.line = @ + 1,
                               !.entries = IF IsEntry(l) THEN @ + 1 ELSE @]
    OBVIOUS
  <2>7. ReadLine(w, c, l) = r
    BY <1>2, <2>1, <2>4, <2>6 DEF ReadLine
  <2>8. /\ DOMAIN r = DOMAIN b /\ r.lines = b.lines /\ r.nc = b.nc /\ r.crashed = b.crashed
        /\ r.def = b.def /\ r.env = b.env
    BY <2>5, <2>6 DEF IsConf
  <2>9. Follows(b, r) /\ Answered(l, r)
    BY <2>5, <2>8, FollowsAs DEF IsConf, Answered, Holds
  <2>10. Added(l, c, r)
    BY <2>2, <2>5, <2>8 DEF Added
  <2> QED  BY <2>3, <2>5, <2>7, <2>9, <2>10, FollowsOn
<1> QED  BY <1>1, <1>2

-----------------------------------------------------------------------------
(* What is not installed has been told.                                     *)

ReportInv ==
  at \in {"read", "ask", "write"} =>
    /\ IsConf(conf) /\ ~conf.crashed
    /\ ~conf.nc => \A i \in 1..Done : IsEntry(temp[i]) /\ ~Quiet(temp[i])
                                        => Holds(conf, temp[i].cmd)
    /\ \A j \in DOMAIN conf.lines : \E l \in ToSet(temp) : Made(l, conf.lines[j])

LEMMA NothingRead ==
  ASSUME NEW w
  PROVE  IsConf(NewConf(w)) /\ ~NewConf(w).crashed /\ NewConf(w).lines = <<>>
<1>1. IsSeq(<<>>)
  BY DEF IsSeq, ToSet
<1>2. IsCl(init_default_line(w))
  BY DefaultLine
<1>3. IsEnv({})
  BY FS_EmptySet DEF IsEnv
<1>4. PICK c : c = NewConf(w)
  OBVIOUS
<1>5. /\ DOMAIN c = {"lines", "def", "env", "tzdiff", "nc", "line", "entries", "crashed"}
      /\ c.lines = <<>> /\ c.def = init_default_line(w) /\ c.env = {} /\ c.nc = FALSE
      /\ c.crashed = FALSE
  BY <1>4 DEF NewConf
<1> QED  BY <1>1, <1>2, <1>3, <1>4, <1>5 DEF IsConf

LEMMA ReportInit == Init => ReportInv
BY DEF Init, ReportInv

LEMMA StartReadReport ==
  ASSUME NEW f, IsText(f), StartRead(f)
  PROVE  ReportInv'
<1>1. at' = "read" /\ temp' = f /\ todo' = f /\ conf' = NewConf(who)
  BY DEF StartRead
<1>2. Len(f) \in Nat
  BY DEF IsText, IsSeq
<1>3. Done' = 0
  BY <1>1, <1>2 DEF Done
<1>4. IsConf(conf') /\ ~conf'.crashed /\ conf'.lines = <<>>
  BY <1>1, NothingRead
<1>5. \A i \in 1..Done' : FALSE
  BY <1>3
<1>6. DOMAIN conf'.lines = {}
  BY <1>4
<1> QED  BY <1>4, <1>5, <1>6 DEF ReportInv

LEMMA ReadNextReport == InstallInv /\ ReportInv /\ ReadNext => ReportInv'
<1> SUFFICES ASSUME InstallInv, ReportInv, ReadNext PROVE ReportInv'
  OBVIOUS
<1>1. /\ at = "read" /\ todo # <<>> /\ UNCHANGED temp /\ todo' = Tail(todo)
      /\ conf' = ReadLine(who, conf, Head(todo))
      /\ IF conf'.crashed THEN at' = "exit" ELSE at' = "read"
  BY DEF ReadNext, Exit
<1>2. /\ IsText(temp) /\ IsSeq(todo) /\ Len(todo) <= Len(temp)
      /\ \A i \in 1..Len(todo) : todo[i] = temp[Done + i]
  BY <1>1 DEF InstallInv, FilesInv, ReadInv
<1>3. Len(temp) \in Nat /\ DOMAIN temp = 1..Len(temp)
  BY <1>2 DEF IsText, IsSeq
<1>4. Len(todo) \in Nat /\ Len(todo) > 0 /\ Head(todo) = todo[1]
      /\ Len(Tail(todo)) = Len(todo) - 1
  BY <1>1, <1>2, RestOf
<1>5. Done \in Nat /\ Done' = Done + 1 /\ Done + 1 \in 1..Len(temp)
  BY <1>1, <1>2, <1>3, <1>4 DEF Done
<1>6. Head(todo) = temp[Done + 1]
  BY <1>2, <1>4
<1>7. PICK l : l = temp[Done + 1]
  OBVIOUS
<1>8. IsLine(l)
  BY <1>2, <1>3, <1>5, <1>7 DEF IsText, ToSet
<1>9. /\ IsConf(conf)
      /\ ~conf.nc => \A i \in 1..Done : IsEntry(temp[i]) /\ ~Quiet(temp[i])
                                        => Holds(conf, temp[i].cmd)
      /\ \A j \in DOMAIN conf.lines : \E k \in ToSet(temp) : Made(k, conf.lines[j])
  BY <1>1 DEF ReportInv
<1>10. Follows(conf, conf') /\ Answered(l, conf') /\ Added(l, conf, conf')
  BY <1>1, <1>6, <1>7, <1>8, <1>9, LineTells
<1>11. IsConf(conf')
  BY <1>10 DEF Follows
<1>12. ASSUME ~conf'.nc, ~conf'.crashed, NEW i \in 1..Done + 1, IsEntry(temp[i]),
              ~Quiet(temp[i])
       PROVE  Holds(conf', temp[i].cmd)
  <2>1. CASE i = Done + 1
    BY <2>1, <1>7, <1>10, <1>12 DEF Answered
  <2>2. CASE i # Done + 1
    <3>1. i \in 1..Done
      BY <2>2, <1>5
    <3>2. ~conf.nc
      BY <1>10, <1>12 DEF Follows
    <3>3. Holds(conf, temp[i].cmd)
      BY <3>1, <3>2, <1>9, <1>12
    <3> QED  BY <3>3, <1>10 DEF Follows
  <2> QED  BY <2>1, <2>2
<1>13. \A j \in DOMAIN conf'.lines : \E k \in ToSet(temp) : Made(k, conf'.lines[j])
  <2>1. CASE conf'.lines = conf.lines
    BY <2>1, <1>9
  <2>2. ASSUME NEW x, Made(l, x), conf'.lines = Before(x, conf.lines)
        PROVE  \A j \in DOMAIN conf'.lines : \E k \in ToSet(temp) : Made(k, conf'.lines[j])
    <3>1. PICK t : t = conf'.lines
      OBVIOUS
    <3>2. IsSeq(conf.lines) /\ t = Before(x, conf.lines)
      BY <2>2, <3>1, <1>9 DEF IsConf
    <3>3. /\ t[1] = x
          /\ \A j \in DOMAIN t :
                j = 1 \/ (j - 1 \in DOMAIN conf.lines /\ t[j] = conf.lines[j - 1])
      BY <3>2, PutBefore
    <3>4. l \in ToSet(temp)
      BY <1>3, <1>5, <1>7 DEF ToSet
    <3> QED  BY <2>2, <3>1, <3>3, <3>4, <1>9
  <2> QED  BY <2>1, <2>2, <1>10 DEF Added
<1>14. ReportInv'
  <2> SUFFICES ASSUME at' \in {"read", "ask", "write"}
               PROVE  /\ IsConf(conf') /\ ~conf'.crashed
                      /\ ~conf'.nc => \A i \in 1..Done' :
                            IsEntry(temp[i]) /\ ~Quiet(temp[i]) => Holds(conf', temp[i].cmd)
                      /\ \A j \in DOMAIN conf'.lines :
                            \E k \in ToSet(temp) : Made(k, conf'.lines[j])
    BY <1>1 DEF ReportInv
  <2>1. ~conf'.crashed
    BY <1>1
  <2> QED  BY <2>1, <1>5, <1>11, <1>12, <1>13
<1> QED  BY <1>14

LEMMA ReportNext == InstallInv /\ ReportInv /\ [Next]_vars => ReportInv'
<1> SUFFICES ASSUME InstallInv, ReportInv, [Next]_vars PROVE ReportInv'
  OBVIOUS
<1>1. ASSUME NEW f, IsText(f), NEW later \in BOOLEAN, Edited(f, later)
      PROVE  ReportInv'
  <2>1. StartRead(f) \/ at' = "exit"
    BY <1>1 DEF Edited, Exit
  <2> QED  BY <1>1, <2>1, StartReadReport DEF ReportInv
<1>2. CASE Save \/ SaveFast
  <2>1. PICK f \in Edits, later \in BOOLEAN : Edited(f, later)
    BY <1>2 DEF Save, SaveFast
  <2> QED  BY <1>1, <2>1, TextsAssumption
<1>3. CASE Quit
  BY <1>1, <1>3 DEF Quit, InstallInv, FilesInv
<1>4. CASE StartFile
  <2>1. PICK f \in Files : StartRead(f)
    BY <1>4 DEF StartFile
  <2> QED  BY <2>1, TextsAssumption, StartReadReport
<1>5. CASE StartReinstall
  <2>1. CASE "orig" \in DOMAIN dir
    BY <2>1, <1>5, StartReadReport DEF StartReinstall, InstallInv, FilesInv
  <2>2. CASE "orig" \notin DOMAIN dir
    BY <2>2, <1>5 DEF StartReinstall, Exit, ReportInv
  <2> QED  BY <2>1, <2>2
<1>6. CASE List \/ RemoveFcrontab \/ EditorFails \/ StartEdit \/ Correct
  BY <1>6 DEF List, RemoveFcrontab, EditorFails, StartEdit, Correct, Exit, ReportInv
<1>7. CASE write_file \/ CopyFails \/ SaveFails
  BY <1>7 DEF write_file, CopyFails, SaveFails, Written, Exit, ReportInv
<1>8. CASE EndRead \/ Ignore
  <2>1. at \in {"read", "ask"} /\ UNCHANGED <<temp, todo, conf>>
    BY <1>8 DEF EndRead, Ignore, reading
  <2> QED  BY <2>1 DEF ReportInv, Done
<1>9. CASE UNCHANGED vars
  BY <1>9 DEF vars, reading, ReportInv, Done
<1> QED  BY <1>2, <1>3, <1>4, <1>5, <1>6, <1>7, <1>8, <1>9, ReadNextReport DEF Next

(* A file that is read up to its end without a word has all its jobs        *)
(* installed, whatever its lines, options and fields; see Reported.         *)
THEOREM WhatIsNotInstalledIsTold == Spec => []Reported
<1>1. InstallInv /\ ReportInv => Reported
  <2> SUFFICES ASSUME InstallInv, ReportInv, at = "write", todo = <<>>, ~Last_conf.nc,
                      NEW l \in ToSet(temp), IsEntry(l),
                      ~(l.kind \in {"arys", "period"} /\ Silent(l))
               PROVE  \E j \in DOMAIN Last_conf.lines : Last_conf.lines[j].shell = l.cmd
    BY DEF Reported
  <2>1. Last_conf = conf
    BY OneFile DEF InstallInv, ReadInv, Last_conf
  <2>2. Len(temp) \in Nat /\ DOMAIN temp = 1..Len(temp)
    BY DEF InstallInv, FilesInv, IsText, IsSeq
  <2>3. Done = Len(temp)
    BY <2>2 DEF Done
  <2>4. PICK i \in 1..Len(temp) : l = temp[i]
    BY <2>2 DEF ToSet
  <2>5. Holds(conf, l.cmd)
    BY <2>1, <2>3, <2>4 DEF ReportInv, Quiet
  <2> QED  BY <2>1, <2>5 DEF Holds
<1> QED  BY <1>1, InstallInit, InstallNext, ReportInit, ReportNext, PTL DEF Spec

(* An interval that leaves a value out has an end.                          *)
LEMMA LeftOut ==
  ASSUME NEW cl, IsCl(cl), Bounded(cl)
  PROVE  \/ \E f \in {"mins", "hrs", "mons"} \ cl.limits : Has(cl, f) # Values[f]
         \/ \E d \in 1..31, w \in 0..6 : ~DayIn(cl, d, w)
         \/ cl.days = 1..31
<1> DEFINE free(f) == f \notin cl.limits /\ BitsOf[f] \ cl[f] # {}
<1>1. \/ free("mins") \/ free("hrs") \/ free("mons")
      \/ free("days") /\ ("dayand" \in cl.opt \/ free("dow"))
      \/ free("dow") /\ "dayand" \in cl.opt
  BY DEF Bounded, HasInterval
<1>2. /\ BitsOf["mins"] = 0..59 /\ BitsOf["hrs"] = 0..23 /\ BitsOf["days"] = 0..31
      /\ BitsOf["mons"] = 0..11 /\ BitsOf["dow"] = 0..7
      /\ Values["mins"] = 0..59 /\ Values["hrs"] = 0..23 /\ Values["mons"] = 1..12
      /\ Values["dow"] = 0..6
  BY DEF BitsOf, Values, Date
<1>3. /\ cl.mins \subseteq Int /\ cl.hrs \subseteq Int /\ cl.mons \subseteq Int
      /\ cl.dow \subseteq Int /\ cl.days \subseteq 0..31
  BY DEF IsCl, Parts, PartOk
<1>4. CASE free("mins") \/ free("hrs")
  <2>1. PICK f \in {"mins", "hrs"} : free(f)
    BY <1>4
  <2>2. Values[f] \ cl[f] # {} /\ Has(cl, f) = cl[f] \cap Values[f]
    BY <1>2, <2>1 DEF Has
  <2>3. f \notin cl.limits
    BY <2>1
  <2> QED  BY <2>2, <2>3
<1>5. CASE free("mons")
  <2>1. PICK m \in 0..11 : m \notin cl.mons
    BY <1>2, <1>5
  <2>2. m + 1 \in 1..12 /\ m + 1 \notin {n + 1 : n \in cl.mons}
    BY <1>3, <2>1
  <2>3. Has(cl, "mons") # Values["mons"]
    BY <1>2, <2>2 DEF Has
  <2> QED  BY <1>5, <2>3
<1>6. free("dow") => \E w \in 0..6 : w \notin cl.dow
  <2> SUFFICES ASSUME free("dow") PROVE \E w \in 0..6 : w \notin cl.dow
    OBVIOUS
  <2>1. PICK w \in 0..7 : w \notin cl.dow
    BY <1>2
  <2>2. CASE w = 7
    BY <2>1, <2>2 DEF Bounded
  <2> QED  BY <2>1, <2>2
<1>7. CASE free("dow") /\ "dayand" \in cl.opt
  <2>1. PICK w \in 0..6 : w \notin cl.dow
    BY <1>6, <1>7
  <2>2. ~DayIn(cl, 1, w)
    BY <1>7, <2>1 DEF DayIn
  <2>3. 1 \in 1..31
    OBVIOUS
  <2> QED  BY <2>2, <2>3
<1>8. CASE free("days") /\ ("dayand" \in cl.opt \/ free("dow"))
  <2>1. CASE \E d \in 1..31 : d \notin cl.days
    <3>1. PICK d \in 1..31 : d \notin cl.days
      BY <2>1
    <3>2. PICK w \in 0..6 : "dayand" \in cl.opt \/ (w \notin cl.dow /\ "dow" \notin cl.limits)
      <4>1. CASE "dayand" \in cl.opt
        <5>1. 0 \in 0..6
          OBVIOUS
        <5> QED  BY <4>1, <5>1
      <4>2. CASE free("dow")
        BY <4>2, <1>6
      <4> QED  BY <4>1, <4>2, <1>8
    <3>3. ~DayIn(cl, d, w)
      BY <3>1, <3>2, <1>8 DEF DayIn
    <3> QED  BY <3>3
  <2>2. CASE ~ \E d \in 1..31 : d \notin cl.days
    <3>1. PICK d \in 0..31 : d \notin cl.days
      BY <1>2, <1>8
    <3>2. d = 0
      BY <2>2, <3>1
    <3>3. cl.days = 1..31
      BY <1>3, <2>2, <3>1, <3>2
    <3> QED  BY <3>3
  <2> QED  BY <2>1, <2>2
<1> HIDE DEF free
<1> QED  BY <1>1, <1>4, <1>5, <1>7, <1>8

(* A %-line that is installed runs once in intervals that have an end,      *)
(* whatever its options and fields; see IntervalFound.                      *)
THEOREM IntervalsEnd == Spec => []IntervalFound
<1>1. InstallInv /\ ReportInv => IntervalFound
  <2> SUFFICES ASSUME InstallInv, ReportInv, at = "write", NEW j \in DOMAIN Last_conf.lines,
                      FromPeriod(Last_conf.lines[j]), ~Last_conf.lines[j].periodical
               PROVE  LET cl == Last_conf.lines[j]
                      IN  \/ \E f \in {"mins", "hrs", "mons"} \ cl.limits : Has(cl, f) # Values[f]
                          \/ \E d \in 1..31, w \in 0..6 : ~DayIn(cl, d, w)
                          \/ cl.days = 1..31
    BY DEF IntervalFound
  <2>1. PICK cl : cl = Last_conf.lines[j]
    OBVIOUS
  <2>2. Last_conf = conf
    BY OneFile DEF InstallInv, ReadInv, Last_conf
  <2>3. PICK l \in ToSet(temp) : Made(l, cl)
    BY <2>1, <2>2 DEF ReportInv
  <2>4. l.kind = "period"
    BY <2>1, <2>3 DEF Made, FromPeriod
  <2>5. IsCl(cl) /\ Bounded(cl)
    BY <2>1, <2>3, <2>4 DEF Made, Fit
  <2> QED  BY <2>1, <2>5, LeftOut
<1> QED  BY <1>1, InstallInit, InstallNext, ReportInit, ReportNext, PTL DEF Spec

-----------------------------------------------------------------------------
(* Sequences of fields.                                                     *)

LEMMA OfSeq ==
  ASSUME NEW T, NEW q \in Seq(T)
  PROVE  IsSeq(q)
BY DEF IsSeq, ToSet

LEMMA Together ==
  ASSUME NEW s, IsSeq(s), NEW t, IsSeq(t)
  PROVE  \E S : s \in Seq(S) /\ t \in Seq(S)
<1> DEFINE S == ToSet(s) \cup ToSet(t)
<1>1. s \in Seq(ToSet(s)) /\ t \in Seq(ToSet(t))
  BY DEF IsSeq
<1>2. ToSet(s) \subseteq S /\ ToSet(t) \subseteq S
  OBVIOUS
<1> HIDE DEF S
<1>3. s \in Seq(S) /\ t \in Seq(S)
  BY <1>1, <1>2, SeqMonotonic
<1> QED  BY <1>3

Join(s, t) == s \o t

(* u is s, and then t.                                                      *)
Joins(u, s, t) ==
  /\ IsSeq(u) /\ Len(s) \in Nat /\ Len(t) \in Nat /\ Len(u) = Len(s) + Len(t)
  /\ \A i \in 1..Len(s) : u[i] = s[i]
  /\ \A i \in 1..Len(t) : u[Len(s) + i] = t[i]

LEMMA Joined ==
  ASSUME NEW s, IsSeq(s), NEW t, IsSeq(t), NEW u, u = Join(s, t)
  PROVE  Joins(u, s, t)
<1>1. PICK S : s \in Seq(S) /\ t \in Seq(S)
  BY Together
<1>2. /\ u \in Seq(S) /\ Len(u) = Len(s) + Len(t) /\ Len(s) \in Nat /\ Len(t) \in Nat
      /\ \A i \in 1..Len(s) + Len(t) : u[i] = IF i <= Len(s) THEN s[i] ELSE t[i - Len(s)]
  BY <1>1, ConcatProperties, LenProperties DEF Join
<1>3. \A i \in 1..Len(t) : u[Len(s) + i] = t[i]
  <2> SUFFICES ASSUME NEW i \in 1..Len(t) PROVE u[Len(s) + i] = t[i]
    OBVIOUS
  <2>1. Len(s) + i \in 1..Len(s) + Len(t) /\ ~(Len(s) + i <= Len(s)) /\ (Len(s) + i) - Len(s) = i
    BY <1>2
  <2> QED  BY <2>1, <1>2
<1> QED  BY <1>2, <1>3, OfSeq DEF Joins

LEMMA SameSeq ==
  ASSUME NEW s, IsSeq(s), NEW t, IsSeq(t), Len(s) = Len(t), \A i \in 1..Len(s) : s[i] = t[i]
  PROVE  s = t
<1>1. PICK S : s \in Seq(S) /\ t \in Seq(S)
  BY Together
<1> QED  BY <1>1, SeqEqual

LEMMA OneSeq ==
  ASSUME NEW x
  PROVE  IsSeq(<<x>>) /\ Len(<<x>>) = 1 /\ <<x>>[1] = x
<1>1. <<x>> \in Seq({x}) /\ Len(<<x>>) = 1 /\ <<x>>[1] = x
  OBVIOUS
<1> QED  BY <1>1, OfSeq

LEMMA NoSeq == IsSeq(<<>>) /\ Len(<<>>) = 0
BY EmptyText DEF IsText

(* The fields that follow the first three.                                  *)
IsRest(q, s) == q = SubSeq(s, 4, Len(s))

AfterTheFirst(q, s, S) == /\ q \in Seq(S) /\ Len(q) = Len(s) - 3
                          /\ \A i \in 1..Len(s) - 3 : q[i] = s[3 + i]

LEMMA TailOf ==
  ASSUME NEW S, NEW s \in Seq(S), Len(s) >= 3, NEW q, IsRest(q, s)
  PROVE  AfterTheFirst(q, s, S)
<1>1. PICK n \in Nat : n = Len(s)
  OBVIOUS
<1>2. n >= 3 /\ \A i \in 4..n : s[i] \in S
  BY <1>1, ElementOfSeq
<1>3. /\ q \in Seq(S)
      /\ Len(q) = IF 4 <= n THEN n - 4 + 1 ELSE 0
      /\ \A i \in 1..n - 4 + 1 : q[i] = s[4 + i - 1]
  <2>1. 4 \in Int /\ n \in Int /\ q = SubSeq(s, 4, n)
    BY <1>1 DEF IsRest
  <2> QED  BY <1>2, <2>1, SubSeqProperties
<1>4. Len(q) = n - 3
  BY <1>2, <1>3
<1>5. ASSUME NEW i \in 1..n - 3
      PROVE  q[i] = s[3 + i]
  <2>1. i \in 1..n - 4 + 1 /\ 4 + i - 1 = 3 + i
    OBVIOUS
  <2>2. q[i] = s[4 + i - 1]
    BY <1>3, <2>1
  <2> QED  BY <2>1, <2>2
<1>6. Len(q) = Len(s) - 3
  BY <1>1, <1>4, Zenon
<1>7. \A i \in 1..Len(s) - 3 : q[i] = s[3 + i]
  BY <1>1, <1>5, Zenon
<1> QED  BY <1>3, <1>6, <1>7 DEF AfterTheFirst

LEMMA AfterThree ==
  ASSUME NEW s, IsSeq(s), Len(s) >= 3, NEW t, IsSeq(t), NEW u, u = Join(s, t),
         NEW q, IsRest(q, s), NEW v, IsRest(v, u),
         NEW w, w = Join(q, t)
  PROVE  IsSeq(q) /\ v = w
<1>1. /\ IsSeq(u) /\ Len(s) \in Nat /\ Len(t) \in Nat /\ Len(u) = Len(s) + Len(t)
      /\ \A i \in 1..Len(s) : u[i] = s[i]
      /\ \A i \in 1..Len(t) : u[Len(s) + i] = t[i]
  <2>1. Joins(u, s, t)
    BY Joined
  <2> QED  BY <2>1 DEF Joins
<1>2. PICK S : s \in Seq(S) /\ u \in Seq(S)
  BY <1>1, Together
<1>3. /\ q \in Seq(S) /\ Len(q) = Len(s) - 3
      /\ \A i \in 1..Len(s) - 3 : q[i] = s[3 + i]
  <2>1. AfterTheFirst(q, s, S)
    BY <1>2, TailOf
  <2> QED  BY <2>1 DEF AfterTheFirst
<1>4. /\ v \in Seq(S) /\ Len(v) = Len(u) - 3
      /\ \A i \in 1..Len(u) - 3 : v[i] = u[3 + i]
  <2>1. Len(u) >= 3
    BY <1>1
  <2>2. AfterTheFirst(v, u, S)
    BY <1>2, <2>1, TailOf
  <2> QED  BY <2>2 DEF AfterTheFirst
<1>5. IsSeq(q) /\ IsSeq(v)
  BY <1>3, <1>4, OfSeq
<1>6. /\ IsSeq(w) /\ Len(w) = Len(q) + Len(t)
      /\ \A i \in 1..Len(q) : w[i] = q[i]
      /\ \A i \in 1..Len(t) : w[Len(q) + i] = t[i]
  <2>1. Joins(w, q, t)
    BY <1>5, Joined
  <2> QED  BY <2>1 DEF Joins
<1>7. Len(w) = Len(v)
  BY <1>1, <1>3, <1>4, <1>6
<1>8. ASSUME NEW i \in 1..Len(v)
      PROVE  v[i] = w[i]
  <2>1. i \in Int /\ i <= Len(s) + Len(t) - 3 /\ v[i] = u[3 + i]
    BY <1>1, <1>4
  <2>2. CASE i <= Len(s) - 3
    <3>1. i \in 1..Len(s) - 3 /\ 3 + i \in 1..Len(s)
      BY <1>1, <1>4, <2>2
    <3> QED  BY <3>1, <2>1, <1>1, <1>3, <1>6
  <2>3. CASE ~(i <= Len(s) - 3)
    <3>1. PICK k : k = i - (Len(s) - 3)
      OBVIOUS
    <3>2. k \in 1..Len(t) /\ 3 + i = Len(s) + k
      BY <1>1, <2>1, <2>3, <3>1
    <3>3. i = Len(q) + k
      BY <1>1, <1>3, <2>1, <3>1
    <3>4. v[i] = t[k]
      BY <3>2, <2>1, <1>1
    <3>5. w[i] = t[k]
      BY <3>2, <3>3, <1>6
    <3> QED  BY <3>4, <3>5
  <2> QED  BY <2>2, <2>3
<1>9. v = w
  BY <1>5, <1>6, <1>7, <1>8, SameSeq
<1> QED  BY <1>5, <1>9

-----------------------------------------------------------------------------
(* How the daemon reads fields.                                             *)

(* The fields s, one after the other.                                       *)
AllRead(f, o, acc, s) ==
  f[0] = acc /\ \A n \in 1..Len(s) : f[n] = ReadField(o, f[n - 1], s[n])

LEMMA ReadAllIs ==
  ASSUME NEW o, NEW acc, NEW s, Len(s) \in Nat
  PROVE  \E f : AllRead(f, o, acc, s) /\ ReadAll(o, acc, s) = f[Len(s)]
<1> DEFINE Of(n, f) == [i \in 0..n |-> IF i = 0 THEN acc
                                       ELSE ReadField(o, f[i - 1], s[i])]
<1>1. \A n \in Nat : \E f : f = Of(n, f)
  <2> DEFINE Bad == {n \in Nat : ~ \E f : f = Of(n, f)}
  <2> SUFFICES ASSUME Bad # {} PROVE FALSE
    OBVIOUS
  <2>1. PICK n \in Bad : \A j \in Bad : n <= j
    <3>1. Bad \in SUBSET Nat
      OBVIOUS
    <3> HIDE DEF Bad
    <3> QED  BY <3>1, LeastNumber
  <2>2. n \in Nat /\ ~ \E f : f = Of(n, f)
    OBVIOUS
  <2>3. CASE n = 0
    <3> DEFINE f == [i \in 0..0 |-> acc]
    <3>1. f = Of(0, f)
      OBVIOUS
    <3> QED  BY <3>1, <2>2, <2>3
  <2>4. CASE n # 0
    <3>1. n - 1 \in Nat /\ ~(n <= n - 1)
      BY <2>2, <2>4
    <3>2. PICK g : g = Of(n - 1, g)
      BY <3>1, <2>1
    <3> DEFINE f == [i \in 0..n |-> IF i < n THEN g[i] ELSE ReadField(o, g[n - 1], s[n])]
    <3>3. ASSUME NEW i \in 0..n
          PROVE  f[i] = Of(n, f)[i]
      <4>1. CASE i = 0
        <5>1. f[i] = g[i] /\ i \in 0..n - 1
          BY <4>1, <2>2, <2>4
        <5>2. g[i] = acc
          BY <5>1, <4>1, <3>2
        <5> HIDE DEF f
        <5> QED  BY <5>1, <5>2, <4>1
      <4>2. CASE i # 0
        <5>1. i - 1 \in 0..n /\ i - 1 < n
          BY <4>2, <2>2
        <5>2. f[i - 1] = g[i - 1]
          BY <5>1
        <5>3. Of(n, f)[i] = ReadField(o, g[i - 1], s[i])
          BY <5>2, <4>2
        <5>4. CASE i < n
          <6>1. i \in 0..n - 1 /\ f[i] = g[i]
            BY <5>4, <2>2
          <6>2. g[i] = ReadField(o, g[i - 1], s[i])
            BY <6>1, <4>2, <3>2
          <6> QED  BY <5>3, <6>1, <6>2
        <5>5. CASE ~(i < n)
          <6>1. i = n
            BY <5>5, <2>2
          <6> QED  BY <5>3, <5>5, <6>1
        <5> QED  BY <5>4, <5>5
      <4> QED  BY <4>1, <4>2
    <3>4. f = Of(n, f)
      BY <3>3
    <3> QED  BY <3>4, <2>2
  <2> QED  BY <2>3, <2>4
<1> DEFINE F == CHOOSE f : f = Of(Len(s), f)
<1>2. F = Of(Len(s), F)
  <2>1. \E f : f = Of(Len(s), f)
    BY <1>1
  <2> HIDE DEF Of
  <2> QED  BY <2>1
<1>3. ReadAll(o, acc, s) = F[Len(s)]
  BY DEF ReadAll, Loop
<1> HIDE DEF F
<1>4. 0 \in 0..Len(s) /\ \A i \in 1..Len(s) : i \in 0..Len(s) /\ i # 0
  OBVIOUS
<1>5. \A f : f = Of(Len(s), f) =>
         /\ f[0] = acc
         /\ \A n \in 1..Len(s) : f[n] = ReadField(o, f[n - 1], s[n])
  BY <1>4
<1> HIDE DEF Of
<1> QED  BY <1>2, <1>3, <1>5 DEF AllRead

(* There is one way to read them.                                           *)
LEMMA OneReading ==
  ASSUME NEW o, NEW acc, NEW s, Len(s) \in Nat, NEW g, AllRead(g, o, acc, s)
  PROVE  ReadAll(o, acc, s) = g[Len(s)]
<1>1. PICK f : AllRead(f, o, acc, s) /\ ReadAll(o, acc, s) = f[Len(s)]
  BY ReadAllIs
<1> DEFINE Bad == {n \in 0..Len(s) : f[n] # g[n]}
<1> SUFFICES ASSUME Bad # {} PROVE FALSE
  BY <1>1
<1>2. PICK n \in Bad : \A j \in Bad : n <= j
  <2>1. Bad \in SUBSET Nat
    OBVIOUS
  <2> HIDE DEF Bad
  <2> QED  BY <2>1, LeastNumber
<1>3. n \in 0..Len(s) /\ f[n] # g[n]
  OBVIOUS
<1>4. n # 0
  BY <1>1, <1>3 DEF AllRead
<1>5. n \in 1..Len(s) /\ n - 1 \in 0..Len(s) /\ ~(n <= n - 1)
  BY <1>3, <1>4
<1>6. f[n - 1] = g[n - 1]
  BY <1>2, <1>5
<1>7. f[n] = ReadField(o, f[n - 1], s[n]) /\ g[n] = ReadField(o, g[n - 1], s[n])
  BY <1>1, <1>5 DEF AllRead
<1> QED  BY <1>3, <1>6, <1>7

LEMMA ReadNone ==
  ASSUME NEW o, NEW acc
  PROVE  ReadAll(o, acc, <<>>) = acc
<1> DEFINE f == [i \in {0} |-> acc]
<1>1. PICK s : s = <<>>
  OBVIOUS
<1>2. Len(s) = 0 /\ Len(s) \in Nat
  BY <1>1, NoSeq
<1>3. AllRead(f, o, acc, s)
  BY <1>2 DEF AllRead
<1> HIDE DEF f
<1>4. ReadAll(o, acc, s) = f[Len(s)]
  BY <1>2, <1>3, OneReading
<1>5. f[0] = acc
  BY DEF f
<1> QED  BY <1>1, <1>2, <1>4, <1>5

LEMMA ReadOne ==
  ASSUME NEW o, NEW acc, NEW x
  PROVE  ReadAll(o, acc, <<x>>) = ReadField(o, acc, x)
<1> DEFINE f == [i \in {0, 1} |-> IF i = 0 THEN acc ELSE ReadField(o, acc, x)]
<1>1. PICK s : s = <<x>>
  OBVIOUS
<1>2. Len(s) = 1 /\ Len(s) \in Nat /\ s[1] = x
  BY <1>1, OneSeq
<1>3. AllRead(f, o, acc, s)
  BY <1>2 DEF AllRead
<1> HIDE DEF f
<1>4. ReadAll(o, acc, s) = f[Len(s)]
  BY <1>2, <1>3, OneReading
<1>5. f[1] = ReadField(o, acc, x)
  BY DEF f
<1> QED  BY <1>1, <1>2, <1>4, <1>5

(* One sequence, and then another.                                          *)
LEMMA ReadBoth ==
  ASSUME NEW o, NEW acc, NEW s, IsSeq(s), NEW t, IsSeq(t), NEW u, u = Join(s, t)
  PROVE  ReadAll(o, acc, u) = ReadAll(o, ReadAll(o, acc, s), t)
<1>1. /\ IsSeq(u) /\ Len(s) \in Nat /\ Len(t) \in Nat /\ Len(u) = Len(s) + Len(t)
      /\ \A i \in 1..Len(s) : u[i] = s[i]
      /\ \A i \in 1..Len(t) : u[Len(s) + i] = t[i]
  <2>1. Joins(u, s, t)
    BY Joined
  <2> QED  BY <2>1 DEF Joins
<1>2. PICK f : AllRead(f, o, acc, s) /\ ReadAll(o, acc, s) = f[Len(s)]
  BY <1>1, ReadAllIs
<1>3. PICK g : AllRead(g, o, f[Len(s)], t) /\ ReadAll(o, f[Len(s)], t) = g[Len(t)]
  BY <1>1, ReadAllIs
<1> DEFINE h == [i \in 0..Len(u) |-> IF i <= Len(s) THEN f[i] ELSE g[i - Len(s)]]
<1>4. h[0] = acc
  BY <1>1, <1>2 DEF AllRead
<1>5. ASSUME NEW n \in 1..Len(u)
      PROVE  h[n] = ReadField(o, h[n - 1], u[n])
  <2>1. n \in 0..Len(u) /\ n - 1 \in 0..Len(u) /\ n \in Int
    BY <1>1
  <2>2. CASE n <= Len(s)
    <3>1. n \in 1..Len(s) /\ n - 1 <= Len(s)
      BY <1>1, <2>1, <2>2
    <3>2. h[n] = f[n] /\ h[n - 1] = f[n - 1] /\ u[n] = s[n]
      BY <1>1, <2>1, <2>2, <3>1
    <3>3. f[n] = ReadField(o, f[n - 1], s[n])
      BY <3>1, <1>2 DEF AllRead
    <3> HIDE DEF h
    <3> QED  BY <3>2, <3>3
  <2>3. CASE ~(n <= Len(s))
    <3>1. PICK k : k = n - Len(s)
      OBVIOUS
    <3>2. k \in 1..Len(t) /\ n = Len(s) + k /\ k - 1 = (n - 1) - Len(s)
      BY <1>1, <2>1, <2>3, <3>1
    <3>3. h[n] = g[k] /\ u[n] = t[k]
      BY <1>1, <2>1, <2>3, <3>1, <3>2
    <3>4. h[n - 1] = g[k - 1]
      <4>1. CASE k = 1
        <5>1. n - 1 = Len(s) /\ h[n - 1] = f[Len(s)]
          BY <1>1, <2>1, <3>2, <4>1
        <5>2. g[k - 1] = f[Len(s)]
          BY <1>3, <4>1 DEF AllRead
        <5> QED  BY <5>1, <5>2
      <4>2. CASE k # 1
        <5>1. ~(n - 1 <= Len(s))
          BY <1>1, <3>2, <4>2
        <5> QED  BY <5>1, <2>1, <3>2
      <4> QED  BY <4>1, <4>2
    <3>5. g[k] = ReadField(o, g[k - 1], t[k])
      BY <3>2, <1>3 DEF AllRead
    <3> HIDE DEF h
    <3> QED  BY <3>3, <3>4, <3>5
  <2> QED  BY <2>2, <2>3
<1>6. h[Len(u)] = g[Len(t)]
  <2>1. Len(u) \in 0..Len(u)
    BY <1>1
  <2>2. CASE Len(t) = 0
    <3>1. Len(u) = Len(s) /\ h[Len(u)] = f[Len(s)]
      BY <1>1, <2>1, <2>2
    <3> QED  BY <3>1, <2>2, <1>3 DEF AllRead
  <2>3. CASE Len(t) # 0
    <3>1. ~(Len(u) <= Len(s)) /\ Len(u) - Len(s) = Len(t)
      BY <1>1, <2>3
    <3> QED  BY <2>1, <3>1
  <2> QED  BY <2>2, <2>3
<1> HIDE DEF h
<1>7. AllRead(h, o, acc, u)
  BY <1>4, <1>5 DEF AllRead
<1>8. Len(u) \in Nat
  BY <1>1
<1>9. ReadAll(o, acc, u) = h[Len(u)]
  BY <1>7, <1>8, OneReading
<1> QED  BY <1>2, <1>3, <1>6, <1>9

(* Many sequences: acc becomes h[k] once the first k have been read.        *)
EachRead(h, o, acc, ss) ==
  /\ h[0] = acc
  /\ \A k \in 1..Len(ss) : IsSeq(ss[k]) /\ h[k] = ReadAll(o, h[k - 1], ss[k])

LEMMA ReadFlat ==
  ASSUME NEW o, NEW acc, NEW ss, IsSeq(ss), NEW h, EachRead(h, o, acc, ss)
  PROVE  IsSeq(FlattenSeq(ss)) /\ ReadAll(o, acc, FlattenSeq(ss)) = h[Len(ss)]
<1>0. /\ h[0] = acc
      /\ \A k \in 1..Len(ss) : IsSeq(ss[k]) /\ h[k] = ReadAll(o, h[k - 1], ss[k])
  BY DEF EachRead
<1>1. Len(ss) \in Nat
  BY DEF IsSeq
<1>2. CASE Len(ss) = 0
  <2>1. FlattenSeq(ss) = ss
    BY <1>2 DEF FlattenSeq
  <2>2. ss = <<>>
    BY <1>2, NoSeq, SameSeq
  <2> QED  BY <2>1, <2>2, <1>0, <1>2, NoSeq, ReadNone
<1>3. CASE Len(ss) # 0
  <2> DEFINE Of(n, f) == [i \in 1..n |-> IF i = 1 THEN ss[i] ELSE Join(f[i - 1], ss[i])]
  <2>1. \A n \in Nat \ {0} : \E f : f = Of(n, f)
    <3> DEFINE Bad == {n \in Nat \ {0} : ~ \E f : f = Of(n, f)}
    <3> SUFFICES ASSUME Bad # {} PROVE FALSE
      OBVIOUS
    <3>1. PICK n \in Bad : \A j \in Bad : n <= j
      <4>1. Bad \in SUBSET Nat
        OBVIOUS
      <4> HIDE DEF Bad
      <4> QED  BY <4>1, LeastNumber
    <3>2. n \in Nat \ {0} /\ ~ \E f : f = Of(n, f)
      OBVIOUS
    <3>3. CASE n = 1
      <4> DEFINE f == [i \in 1..1 |-> ss[1]]
      <4>1. f = Of(1, f)
        OBVIOUS
      <4> QED  BY <4>1, <3>2, <3>3
    <3>4. CASE n # 1
      <4>1. n - 1 \in Nat \ {0} /\ ~(n <= n - 1)
        BY <3>2, <3>4
      <4>2. PICK g : g = Of(n - 1, g)
        BY <4>1, <3>1
      <4> DEFINE f == [i \in 1..n |-> IF i < n THEN g[i] ELSE Join(g[n - 1], ss[n])]
      <4>3. ASSUME NEW i \in 1..n
            PROVE  f[i] = Of(n, f)[i]
        <5>1. CASE i = 1
          <6>1. f[i] = g[i] /\ i \in 1..n - 1
            BY <5>1, <3>2, <3>4
          <6>2. g[i] = ss[i]
            BY <6>1, <5>1, <4>2
          <6> HIDE DEF f
          <6> QED  BY <6>1, <6>2, <5>1
        <5>2. CASE i # 1
          <6>1. i - 1 \in 1..n /\ i - 1 < n
            BY <5>2, <3>2
          <6>2. f[i - 1] = g[i - 1]
            BY <6>1
          <6>3. Of(n, f)[i] = Join(g[i - 1], ss[i])
            BY <6>2, <5>2
          <6>4. CASE i < n
            <7>1. i \in 1..n - 1 /\ f[i] = g[i]
              BY <6>4, <3>2
            <7>2. g[i] = Join(g[i - 1], ss[i])
              BY <7>1, <5>2, <4>2
            <7> QED  BY <6>3, <7>1, <7>2
          <6>5. CASE ~(i < n)
            <7>1. i = n
              BY <6>5, <3>2
            <7> QED  BY <6>3, <6>5, <7>1
          <6> QED  BY <6>4, <6>5
        <5> QED  BY <5>1, <5>2
      <4>4. f = Of(n, f)
        BY <4>3
      <4> QED  BY <4>4, <3>2
    <3> QED  BY <3>3, <3>4
  <2> DEFINE F == CHOOSE f : f = Of(Len(ss), f)
  <2>2. F = Of(Len(ss), F)
    <3>1. \E f : f = Of(Len(ss), f)
      BY <1>1, <1>3, <2>1
    <3> HIDE DEF Of
    <3> QED  BY <3>1
  <2>3. FlattenSeq(ss) = F[Len(ss)]
    BY <1>3 DEF FlattenSeq, Join
  <2> HIDE DEF F
  <2>4. \A f : f = Of(Len(ss), f) =>
           /\ f[1] = ss[1]
           /\ \A i \in 2..Len(ss) : f[i] = Join(f[i - 1], ss[i])
    BY <1>1, <1>3
  <2>5. /\ F[1] = ss[1]
        /\ \A i \in 2..Len(ss) : F[i] = Join(F[i - 1], ss[i])
    <3> HIDE DEF Of
    <3> QED  BY <2>2, <2>4
  <2> HIDE DEF Of
  <2> DEFINE Bad == {n \in 1..Len(ss) : ~(IsSeq(F[n]) /\ ReadAll(o, acc, F[n]) = h[n])}
  <2>6. Bad = {}
    <3> SUFFICES ASSUME Bad # {} PROVE FALSE
      OBVIOUS
    <3>1. PICK n \in Bad : \A j \in Bad : n <= j
      <4>1. Bad \in SUBSET Nat
        OBVIOUS
      <4> HIDE DEF Bad
      <4> QED  BY <4>1, LeastNumber
    <3>2. n \in 1..Len(ss) /\ ~(IsSeq(F[n]) /\ ReadAll(o, acc, F[n]) = h[n])
      OBVIOUS
    <3>3. n # 1
      <4>1. 1 \in 1..Len(ss) /\ 1 - 1 = 0
        BY <1>1, <1>3
      <4>2. IsSeq(ss[1]) /\ h[1] = ReadAll(o, h[0], ss[1])
        BY <1>0, <4>1
      <4> QED  BY <1>0, <4>2, <3>2, <2>5
    <3>4. n \in 2..Len(ss) /\ n - 1 \in 1..Len(ss) /\ ~(n <= n - 1)
      BY <3>2, <3>3
    <3>5. IsSeq(F[n - 1]) /\ ReadAll(o, acc, F[n - 1]) = h[n - 1]
      BY <3>1, <3>4
    <3>6. F[n] = Join(F[n - 1], ss[n]) /\ IsSeq(ss[n]) /\ h[n] = ReadAll(o, h[n - 1], ss[n])
      BY <1>0, <3>2, <3>4, <2>5
    <3>7. IsSeq(F[n])
      <4>1. Joins(F[n], F[n - 1], ss[n])
        BY <3>5, <3>6, Joined
      <4> QED  BY <4>1 DEF Joins
    <3>8. ReadAll(o, acc, F[n]) = ReadAll(o, ReadAll(o, acc, F[n - 1]), ss[n])
      BY <3>5, <3>6, ReadBoth
    <3> QED  BY <3>2, <3>5, <3>6, <3>7, <3>8
  <2> QED  BY <1>1, <1>3, <2>3, <2>6
<1> QED  BY <1>2, <1>3

-----------------------------------------------------------------------------
(* A line.                                                                  *)

(* The parts S of cl have been read.                                        *)
Half(cl, S) == [p \in Parts |-> IF p \in S THEN cl[p] ELSE ZeroLine[p]]

Mid(acc, cl, S) == [acc EXCEPT !.cl = Half(cl, S)]

(* Fields s are read into the parts S of cl, which become T.                *)
Fills(o, acc, cl, s, S, T) ==
  IsSeq(s) /\ ReadAll(o, Mid(acc, cl, S), s) = Mid(acc, cl, T)

LEMMA ZeroParts ==
  /\ DOMAIN ZeroLine = Parts
  /\ ZeroLine.until = 0 /\ ZeroLine.nice = 0 /\ ZeroLine.runfreq = 0 /\ ZeroLine.remain = 0
  /\ ZeroLine.tz = "" /\ ZeroLine.jitter = 0 /\ ZeroLine.mailfrom = ""
<1>1. PICK d : d = init_default_line([runas |-> "", privileged |-> FALSE])
  OBVIOUS
<1>2. /\ DOMAIN d = Parts
      /\ d.until = 0 /\ d.nice = 0 /\ d.runfreq = 0 /\ d.remain = 0 /\ d.tz = ""
      /\ d.jitter = 0 /\ d.mailfrom = ""
  BY <1>1 DEF init_default_line, Parts
<1>3. ZeroLine = [d EXCEPT !.mailto = ""]
  BY <1>1 DEF ZeroLine
<1>4. /\ "until" \in Parts /\ "nice" \in Parts /\ "runfreq" \in Parts /\ "remain" \in Parts
      /\ "tz" \in Parts /\ "jitter" \in Parts /\ "mailfrom" \in Parts
  BY DEF Parts
<1> QED  BY <1>2, <1>3, <1>4

(* A field sets its part of the line.                                       *)
LEMMA FieldSets ==
  ASSUME NEW o, NEW acc, "cl" \in DOMAIN acc, NEW cl, NEW S,
         NEW t \in Parts \ {"opt", "limits", "periodical", "mid"}
  PROVE  Fills(o, acc, cl, Field(t, cl[t]), S, S \cup {t})
<1>1. PICK f : f = [type |-> t, value |-> cl[t]]
  OBVIOUS
<1>2. f.type = t /\ f.value = cl[t] /\ Field(t, cl[t]) = <<f>>
  BY <1>1 DEF Field
<1>3. PICK a : a = Mid(acc, cl, S)
  OBVIOUS
<1>4. ReadField(o, a, f) = [a EXCEPT !.cl[t] = cl[t]]
  <2>1. t \notin {"tzdiff", "envvar", "option", "endline"}
    BY DEF Parts
  <2>2. t \in DOMAIN ZeroLine \ {"opt", "limits", "periodical", "mid"}
    BY ZeroParts
  <2> QED  BY <1>2, <2>1, <2>2 DEF ReadField
<1>5. [Half(cl, S) EXCEPT ![t] = cl[t]] = Half(cl, S \cup {t})
  BY DEF Half
<1>6. [a EXCEPT !.cl[t] = cl[t]] = [a EXCEPT !.cl = [a.cl EXCEPT ![t] = cl[t]]]
  OBVIOUS
<1>7. a.cl = Half(cl, S) /\ \A x : [a EXCEPT !.cl = x] = [acc EXCEPT !.cl = x]
  BY <1>3 DEF Mid
<1>8. ReadField(o, a, f) = Mid(acc, cl, S \cup {t})
  BY <1>4, <1>5, <1>6, <1>7 DEF Mid
<1> QED  BY <1>2, <1>3, <1>8, OneSeq, ReadOne DEF Fills

LEMMA ReadsThen ==
  ASSUME NEW o, NEW acc, NEW cl, NEW s, NEW S, NEW T, NEW t, NEW U,
         Fills(o, acc, cl, s, S, T), Fills(o, acc, cl, t, T, U)
  PROVE  Fills(o, acc, cl, Join(s, t), S, U)
<1>1. PICK u : u = Join(s, t)
  OBVIOUS
<1>2. IsSeq(s) /\ IsSeq(t)
  BY DEF Fills
<1>3. Joins(u, s, t)
  BY <1>1, <1>2, Joined
<1>4. ReadAll(o, Mid(acc, cl, S), u) = ReadAll(o, ReadAll(o, Mid(acc, cl, S), s), t)
  BY <1>1, <1>2, ReadBoth
<1> QED  BY <1>1, <1>3, <1>4 DEF Joins, Fills

LEMMA ReadsNone ==
  ASSUME NEW o, NEW acc, NEW cl, NEW S, NEW q, q = <<>>
  PROVE  Fills(o, acc, cl, q, S, S)
BY NoSeq, ReadNone DEF Fills

(* A field that is not written because its part is zero.                    *)
LEMMA WhenSets ==
  ASSUME NEW o, NEW acc, "cl" \in DOMAIN acc, NEW cl, NEW S,
         NEW t \in Parts \ {"opt", "limits", "periodical", "mid"}, NEW q,
         q = Field(t, cl[t]) \/ (q = <<>> /\ cl[t] = ZeroLine[t])
  PROVE  Fills(o, acc, cl, q, S, S \cup {t})
<1>1. CASE q = Field(t, cl[t])
  BY <1>1, FieldSets
<1>2. CASE q = <<>> /\ cl[t] = ZeroLine[t]
  <2>1. Half(cl, S) = Half(cl, S \cup {t})
    BY <1>2 DEF Half
  <2>2. Mid(acc, cl, S) = Mid(acc, cl, S \cup {t})
    BY <2>1 DEF Mid
  <2>3. Fills(o, acc, cl, q, S, S)
    BY <1>2, ReadsNone
  <2> QED  BY <2>2, <2>3 DEF Fills
<1> QED  BY <1>1, <1>2

(* The options are read together.                                           *)
LEMMA OptionSets ==
  ASSUME NEW o, NEW acc, "cl" \in DOMAIN acc, NEW cl, NEW S
  PROVE  Fills(o, acc, cl, Field("option", [opt |-> cl.opt, limits |-> cl.limits,
                                            periodical |-> cl.periodical, mid |-> cl.mid]),
               S, S \cup {"opt", "limits", "periodical", "mid"})
<1>1. PICK v : v = [opt |-> cl.opt, limits |-> cl.limits, periodical |-> cl.periodical,
                    mid |-> cl.mid]
  OBVIOUS
<1>2. v.opt = cl.opt /\ v.limits = cl.limits /\ v.periodical = cl.periodical /\ v.mid = cl.mid
  BY <1>1
<1>3. PICK f : f = [type |-> "option", value |-> v]
  OBVIOUS
<1>4. f.type = "option" /\ f.value = v /\ Field("option", v) = <<f>>
  BY <1>3 DEF Field
<1>5. PICK a : a = Mid(acc, cl, S)
  OBVIOUS
<1>6. ReadField(o, a, f) = [a EXCEPT !.cl.opt = v.opt, !.cl.limits = v.limits,
                                     !.cl.periodical = v.periodical, !.cl.mid = v.mid]
  <2>1. f.type \notin DOMAIN ZeroLine
    BY <1>4, ZeroParts DEF Parts
  <2> QED  BY <1>4, <2>1 DEF ReadField
<1>7. PICK h : h = Half(cl, S)
  OBVIOUS
<1>8. PICK k : k = [h EXCEPT !.opt = cl.opt, !.limits = cl.limits,
                             !.periodical = cl.periodical, !.mid = cl.mid]
  OBVIOUS
<1>9. a.cl = h /\ "cl" \in DOMAIN a /\ \A x : [a EXCEPT !.cl = x] = [acc EXCEPT !.cl = x]
  BY <1>5, <1>7 DEF Mid
<1>10. ReadField(o, a, f) = [a EXCEPT !.cl = k]
  BY <1>2, <1>6, <1>8, <1>9
<1>11. k = Half(cl, S \cup {"opt", "limits", "periodical", "mid"})
  BY <1>7, <1>8 DEF Half
<1>12. ReadField(o, a, f) = Mid(acc, cl, S \cup {"opt", "limits", "periodical", "mid"})
  BY <1>9, <1>10, <1>11 DEF Mid
<1> QED  BY <1>1, <1>4, <1>5, <1>12, OneSeq, ReadOne DEF Fills

(* All the fields of a line but the last, which ends it.                    *)
LEMMA LineReads ==
  ASSUME NEW o, NEW acc, "cl" \in DOMAIN acc, NEW cl, IsCl(cl)
  PROVE  \E s : /\ Fills(o, acc, cl, s, {}, InUse(cl))
                /\ LineFields(cl) = Join(s, Field("endline", 0))
<1>1. /\ cl.until \in Nat /\ cl.runfreq \in Nat /\ cl.jitter \in Nat
      /\ Parts = {"opt", "limits", "periodical", "mid"}
                   \cup (Parts \ {"opt", "limits", "periodical", "mid"})
  BY DEF IsCl, Parts, PartOk
<1>2. {"shell", "runas", "mailto", "lavg", "until", "nice", "runfreq", "remain", "tz", "jitter",
       "mailfrom", "first", "timefreq", "mins", "hrs", "days", "mons", "dow"}
        \subseteq Parts \ {"opt", "limits", "periodical", "mid"}
  BY DEF Parts
(* The first four. *)
<1>3. PICK q1, q2, q3, q4 :
         /\ q1 = Field("shell", cl.shell) /\ q2 = Field("runas", cl.runas)
         /\ q3 = Field("mailto", cl.mailto)
         /\ q4 = Field("option", [opt |-> cl.opt, limits |-> cl.limits,
                                  periodical |-> cl.periodical, mid |-> cl.mid])
  OBVIOUS
<1>4. PICK q5, q6, q7, q8 :
         /\ q5 = When("lavg" \in cl.opt, Field("lavg", cl.lavg))
         /\ q6 = When(cl.until > 0, Field("until", cl.until))
         /\ q7 = When(cl.nice # 0, Field("nice", cl.nice))
         /\ q8 = When(cl.runfreq > 0,
                      Join(Field("runfreq", cl.runfreq), Field("remain", cl.remain)))
  OBVIOUS
<1>5. PICK q9, q10, q11, q12 :
         /\ q9 = When(cl.tz # "", Field("tz", cl.tz))
         /\ q10 = When(cl.jitter > 0, Field("jitter", cl.jitter))
         /\ q11 = When(cl.mailfrom # "", Field("mailfrom", cl.mailfrom))
         /\ q12 = IF "td" \notin cl.opt
                  THEN Join(Field("first", cl.first), Field("timefreq", cl.timefreq))
                  ELSE Join(Join(Join(Join(Field("mins", cl.mins), Field("hrs", cl.hrs)),
                                      Field("days", cl.days)),
                                 Field("mons", cl.mons)), Field("dow", cl.dow))
  OBVIOUS
<1> DEFINE R(q, S, T) == Fills(o, acc, cl, q, S, T)
<1>6. \A S : /\ R(q1, S, S \cup {"shell"}) /\ R(q2, S, S \cup {"runas"})
             /\ R(q3, S, S \cup {"mailto"})
             /\ R(q4, S, S \cup {"opt", "limits", "periodical", "mid"})
  BY <1>2, <1>3, FieldSets, OptionSets
<1>7. \A S : R(q5, S, S \cup (IF "lavg" \in cl.opt THEN {"lavg"} ELSE {}))
  <2>1. CASE "lavg" \in cl.opt
    BY <2>1, <1>2, <1>4, FieldSets DEF When
  <2>2. CASE "lavg" \notin cl.opt
    <3>1. q5 = <<>>
      BY <2>2, <1>4 DEF When
    <3> QED  BY <2>2, <3>1, ReadsNone
  <2> QED  BY <2>1, <2>2
<1>8. \A S : R(q6, S, S \cup {"until"})
  <2>1. q6 = Field("until", cl.until) \/ (q6 = <<>> /\ cl.until = ZeroLine.until)
    <3>1. cl.until = 0 \/ cl.until > 0
      BY <1>1
    <3>2. CASE cl.until > 0
      BY <3>2, <1>4 DEF When
    <3>3. CASE ~(cl.until > 0)
      BY <3>1, <3>3, <1>4, ZeroParts DEF When
    <3> QED  BY <3>2, <3>3
  <2> QED  BY <1>2, <2>1, WhenSets
<1>9. \A S : R(q7, S, S \cup {"nice"})
  <2>1. q7 = Field("nice", cl.nice) \/ (q7 = <<>> /\ cl.nice = ZeroLine.nice)
    BY <1>4, ZeroParts DEF When
  <2> QED  BY <1>2, <2>1, WhenSets
<1>10. \A S : R(q8, S, S \cup {"runfreq"} \cup (IF cl.runfreq > 0 THEN {"remain"} ELSE {}))
  <2>1. CASE cl.runfreq > 0
    <3>1. q8 = Join(Field("runfreq", cl.runfreq), Field("remain", cl.remain))
      BY <2>1, <1>4 DEF When
    <3>2. \A S : /\ R(Field("runfreq", cl.runfreq), S, S \cup {"runfreq"})
                 /\ R(Field("remain", cl.remain), S \cup {"runfreq"},
                      S \cup {"runfreq"} \cup {"remain"})
      BY <1>2, FieldSets
    <3>3. \A S : R(q8, S, S \cup {"runfreq"} \cup {"remain"})
      BY <3>1, <3>2, ReadsThen
    <3> QED  BY <2>1, <3>3
  <2>2. CASE ~(cl.runfreq > 0)
    <3>1. q8 = <<>> /\ cl.runfreq = ZeroLine.runfreq
      <4>1. cl.runfreq = 0
        BY <2>2, <1>1
      <4> QED  BY <2>2, <4>1, <1>4, ZeroParts DEF When
    <3>2. \A S : R(q8, S, S \cup {"runfreq"})
      BY <1>2, <3>1, WhenSets
    <3> QED  BY <2>2, <3>2
  <2> QED  BY <2>1, <2>2
<1>11. \A S : /\ R(q9, S, S \cup {"tz"}) /\ R(q10, S, S \cup {"jitter"})
              /\ R(q11, S, S \cup {"mailfrom"})
  <2>1. q9 = Field("tz", cl.tz) \/ (q9 = <<>> /\ cl.tz = ZeroLine.tz)
    BY <1>5, ZeroParts DEF When
  <2>2. q10 = Field("jitter", cl.jitter) \/ (q10 = <<>> /\ cl.jitter = ZeroLine.jitter)
    <3>1. cl.jitter = 0 \/ cl.jitter > 0
      BY <1>1
    <3>2. CASE cl.jitter > 0
      BY <3>2, <1>5 DEF When
    <3>3. CASE ~(cl.jitter > 0)
      BY <3>1, <3>3, <1>5, ZeroParts DEF When
    <3> QED  BY <3>2, <3>3
  <2>3. q11 = Field("mailfrom", cl.mailfrom) \/ (q11 = <<>> /\ cl.mailfrom = ZeroLine.mailfrom)
    BY <1>5, ZeroParts DEF When
  <2> QED  BY <1>2, <2>1, <2>2, <2>3, WhenSets
<1> DEFINE Dates == IF "td" \in cl.opt THEN {"mins", "hrs", "days", "mons", "dow"}
                    ELSE {"first", "timefreq"}
<1>12. \A S : R(q12, S, S \cup Dates)
  <2>1. CASE "td" \notin cl.opt
    <3>1. q12 = Join(Field("first", cl.first), Field("timefreq", cl.timefreq))
      BY <2>1, <1>5
    <3>2. \A S : /\ R(Field("first", cl.first), S, S \cup {"first"})
                 /\ R(Field("timefreq", cl.timefreq), S \cup {"first"},
                      S \cup {"first"} \cup {"timefreq"})
      BY <1>2, FieldSets
    <3>3. \A S : R(q12, S, S \cup {"first"} \cup {"timefreq"})
      BY <3>1, <3>2, ReadsThen
    <3>4. \A S : S \cup {"first"} \cup {"timefreq"} = S \cup Dates
      BY <2>1
    <3> QED  BY <3>3, <3>4
  <2>2. CASE "td" \in cl.opt
    <3>1. PICK d1, d2, d3, d4, d5 :
             /\ d1 = Field("mins", cl.mins) /\ d2 = Field("hrs", cl.hrs)
             /\ d3 = Field("days", cl.days) /\ d4 = Field("mons", cl.mons)
             /\ d5 = Field("dow", cl.dow)
      OBVIOUS
    <3>2. q12 = Join(Join(Join(Join(d1, d2), d3), d4), d5)
      BY <2>2, <3>1, <1>5
    <3>3. \A S : /\ R(d1, S, S \cup {"mins"}) /\ R(d2, S, S \cup {"hrs"})
                 /\ R(d3, S, S \cup {"days"}) /\ R(d4, S, S \cup {"mons"})
                 /\ R(d5, S, S \cup {"dow"})
      BY <1>2, <3>1, FieldSets
    <3>4. PICK e2, e3, e4 : e2 = Join(d1, d2) /\ e3 = Join(e2, d3) /\ e4 = Join(e3, d4)
      OBVIOUS
    <3>5. q12 = Join(e4, d5)
      BY <3>2, <3>4
    <3>6. ASSUME NEW S
          PROVE  R(q12, S, S \cup Dates)
      <4>1. PICK T1, T2, T3, T4, T5 :
               /\ T1 = S \cup {"mins"} /\ T2 = T1 \cup {"hrs"} /\ T3 = T2 \cup {"days"}
               /\ T4 = T3 \cup {"mons"} /\ T5 = T4 \cup {"dow"}
        OBVIOUS
      <4>2. R(d1, S, T1) /\ R(d2, T1, T2) /\ R(d3, T2, T3) /\ R(d4, T3, T4) /\ R(d5, T4, T5)
        BY <3>3, <4>1
      <4>3. R(e2, S, T2)
        BY <3>4, <4>2, ReadsThen
      <4>4. R(e3, S, T3)
        BY <3>4, <4>2, <4>3, ReadsThen
      <4>5. R(e4, S, T4)
        BY <3>4, <4>2, <4>4, ReadsThen
      <4>6. R(q12, S, T5)
        BY <3>5, <4>2, <4>5, ReadsThen
      <4>7. T5 = S \cup Dates
        BY <2>2, <4>1
      <4> QED  BY <4>6, <4>7
    <3> QED  BY <3>6
  <2> QED  BY <2>1, <2>2
(* One after the other. *)
<1>13. PICK S1, S2, S3, S4, S5, S6 :
          /\ S1 = {} \cup {"shell"} /\ S2 = S1 \cup {"runas"} /\ S3 = S2 \cup {"mailto"}
          /\ S4 = S3 \cup {"opt", "limits", "periodical", "mid"}
          /\ S5 = S4 \cup (IF "lavg" \in cl.opt THEN {"lavg"} ELSE {})
          /\ S6 = S5 \cup {"until"}
  OBVIOUS
<1>14. PICK S7, S8, S9, S10, S11, S12 :
          /\ S7 = S6 \cup {"nice"}
          /\ S8 = S7 \cup {"runfreq"} \cup (IF cl.runfreq > 0 THEN {"remain"} ELSE {})
          /\ S9 = S8 \cup {"tz"} /\ S10 = S9 \cup {"jitter"} /\ S11 = S10 \cup {"mailfrom"}
          /\ S12 = S11 \cup Dates
  OBVIOUS
<1>15. /\ R(q1, {}, S1) /\ R(q2, S1, S2) /\ R(q3, S2, S3) /\ R(q4, S3, S4) /\ R(q5, S4, S5)
       /\ R(q6, S5, S6)
  BY <1>6, <1>7, <1>8, <1>13
<1>16. /\ R(q7, S6, S7) /\ R(q8, S7, S8) /\ R(q9, S8, S9) /\ R(q10, S9, S10)
       /\ R(q11, S10, S11) /\ R(q12, S11, S12)
  BY <1>9, <1>10, <1>11, <1>12, <1>14
<1>17. PICK s2, s3, s4, s5, s6 :
          /\ s2 = Join(q1, q2) /\ s3 = Join(s2, q3) /\ s4 = Join(s3, q4) /\ s5 = Join(s4, q5)
          /\ s6 = Join(s5, q6)
  OBVIOUS
<1>18. PICK s7, s8, s9, s10, s11, s12 :
          /\ s7 = Join(s6, q7) /\ s8 = Join(s7, q8) /\ s9 = Join(s8, q9)
          /\ s10 = Join(s9, q10) /\ s11 = Join(s10, q11) /\ s12 = Join(s11, q12)
  OBVIOUS
<1>19. R(s6, {}, S6)
  <2>1. R(s2, {}, S2)
    BY <1>15, <1>17, ReadsThen
  <2>2. R(s3, {}, S3)
    BY <2>1, <1>15, <1>17, ReadsThen
  <2>3. R(s4, {}, S4)
    BY <2>2, <1>15, <1>17, ReadsThen
  <2>4. R(s5, {}, S5)
    BY <2>3, <1>15, <1>17, ReadsThen
  <2> QED  BY <2>4, <1>15, <1>17, ReadsThen
<1>20. R(s12, {}, S12)
  <2>1. R(s7, {}, S7)
    BY <1>16, <1>18, <1>19, ReadsThen
  <2>2. R(s8, {}, S8)
    BY <2>1, <1>16, <1>18, ReadsThen
  <2>3. R(s9, {}, S9)
    BY <2>2, <1>16, <1>18, ReadsThen
  <2>4. R(s10, {}, S10)
    BY <2>3, <1>16, <1>18, ReadsThen
  <2>5. R(s11, {}, S11)
    BY <2>4, <1>16, <1>18, ReadsThen
  <2> QED  BY <2>5, <1>16, <1>18, ReadsThen
<1>21. S12 = InUse(cl)
  BY <1>13, <1>14 DEF InUse
<1>22. LineFields(cl) = Join(s12, Field("endline", 0))
  BY <1>3, <1>4, <1>5, <1>17, <1>18 DEF LineFields, Join
<1> QED  BY <1>20, <1>21, <1>22

(* What the daemon has read, between two lines.                             *)
Got(u, ls, es, dt) ==
  [user |-> u, lines |-> ls, env |-> es, tzdiff |-> dt, cl |-> ZeroLine]

(* A line as the daemon has it.                                             *)
Back(cl, u, o) == add_line_to_file(Half(cl, InUse(cl)), u, o)

LEMMA NothingHalf == \A cl : Half(cl, {}) = ZeroLine
<1>1. PICK d : d = init_default_line([runas |-> "", privileged |-> FALSE])
  OBVIOUS
<1>2. ZeroLine = [d EXCEPT !.mailto = ""]
  BY <1>1 DEF ZeroLine
<1>3. PICK z : z = [d EXCEPT !.mailto = ""]
  OBVIOUS
<1>4. z = [p \in DOMAIN d |-> z[p]]
  BY <1>3
<1>5. DOMAIN d = Parts
  BY <1>1 DEF init_default_line, Parts
<1> QED  BY <1>2, <1>3, <1>4, <1>5 DEF Half

(* A line that can be run.                                                  *)
Runs(cl) == /\ IsCl(cl) /\ cl.shell # ""
            /\ "td" \notin cl.opt => cl.timefreq \in Nat \ {0}

LEMMA LineEnds ==
  ASSUME NEW o, NEW u, NEW ls, NEW es, NEW dt, NEW cl, Runs(cl)
  PROVE  /\ IsSeq(LineFields(cl))
         /\ ReadAll(o, Got(u, ls, es, dt), LineFields(cl))
              = Got(u, Before(Back(cl, u, o), ls), es, dt)
<1>1. PICK acc : acc = Got(u, ls, es, dt)
  OBVIOUS
<1>2. "cl" \in DOMAIN acc
  BY <1>1 DEF Got
<1>3. PICK s : /\ Fills(o, acc, cl, s, {}, InUse(cl))
               /\ LineFields(cl) = Join(s, Field("endline", 0))
  <2>1. IsCl(cl)
    BY DEF Runs
  <2> QED  BY <1>2, <2>1, LineReads
<1>4. PICK e : e = [type |-> "endline", value |-> 0]
  OBVIOUS
<1>5. e.type = "endline" /\ Field("endline", 0) = <<e>>
  BY <1>4 DEF Field
<1>6. PICK q : q = <<e>>
  OBVIOUS
<1>7. PICK f : f = Join(s, q)
  OBVIOUS
<1>8. IsSeq(s) /\ IsSeq(q)
  BY <1>3, <1>6, OneSeq DEF Fills
<1>9. IsSeq(f)
  <2>1. Joins(f, s, q)
    BY <1>7, <1>8, Joined
  <2> QED  BY <2>1 DEF Joins
<1>10. Mid(acc, cl, {}) = acc
  BY <1>1, NothingHalf DEF Mid, Got
<1>11. PICK h : h = Half(cl, InUse(cl))
  OBVIOUS
<1>12. PICK m : m = Mid(acc, cl, InUse(cl))
  OBVIOUS
<1>13. ReadAll(o, acc, f) = ReadAll(o, m, q)
  <2>1. ReadAll(o, acc, s) = m
    BY <1>3, <1>10, <1>12 DEF Fills
  <2> QED  BY <2>1, <1>7, <1>8, ReadBoth
<1>14. m = [user |-> u, lines |-> ls, env |-> es, tzdiff |-> dt, cl |-> h]
  BY <1>1, <1>11, <1>12 DEF Mid, Got
<1>15. h.shell = cl.shell
  BY <1>11 DEF Half, InUse, Parts
<1>16. Add(o, m) = Before(Back(cl, u, o), ls)
  <2>1. m.cl = h /\ m.user = u /\ m.lines = ls
    BY <1>14
  <2>2. m.cl.shell # ""
    BY <1>15, <2>1 DEF Runs
  <2> QED  BY <1>11, <2>1, <2>2 DEF Add, Back, Before
<1>17. ReadField(o, m, e) = EndLine(o, m)
  <2>1. e.type \notin DOMAIN ZeroLine
    BY <1>5, ZeroParts DEF Parts
  <2> QED  BY <1>5, <2>1 DEF ReadField
<1>18. EndLine(o, m) = Got(u, Before(Back(cl, u, o), ls), es, dt)
  <2>1. PICK b : b = Before(Back(cl, u, o), ls)
    OBVIOUS
  <2>2. EndLine(o, m) = [m EXCEPT !.lines = b, !.cl = ZeroLine]
    BY <1>16, <2>1 DEF EndLine
  <2>3. [m EXCEPT !.lines = b, !.cl = ZeroLine] = Got(u, b, es, dt)
    <3>1. PICK z : z = ZeroLine
      OBVIOUS
    <3>2. PICK a : a = [m EXCEPT !.lines = b]
      OBVIOUS
    <3>3. a = [user |-> u, lines |-> b, env |-> es, tzdiff |-> dt, cl |-> h]
      BY <1>14, <3>2
    <3>4. [a EXCEPT !.cl = z] = [user |-> u, lines |-> b, env |-> es, tzdiff |-> dt, cl |-> z]
      BY <3>3
    <3>5. [m EXCEPT !.lines = b, !.cl = z] = [a EXCEPT !.cl = z]
      BY <3>2
    <3> QED  BY <3>1, <3>4, <3>5 DEF Got
  <2> QED  BY <2>1, <2>2, <2>3
<1>19. ReadAll(o, m, q) = EndLine(o, m)
  BY <1>6, <1>17, ReadOne
<1>20. LineFields(cl) = f
  BY <1>3, <1>5, <1>6, <1>7
<1> QED  BY <1>1, <1>9, <1>13, <1>18, <1>19, <1>20

(* A function on 1..n is a sequence.                                        *)
LEMMA Listed ==
  ASSUME NEW n \in Nat, NEW f, f = [i \in 1..n |-> f[i]]
  PROVE  IsSeq(f) /\ Len(f) = n /\ (n = 0 => f = <<>>)
<1> DEFINE S == {f[i] : i \in 1..n}
<1>1. f \in [1..n -> S]
  OBVIOUS
<1> HIDE DEF S
<1>2. f \in Seq(S) /\ Len(f) = n
  BY <1>1
<1>3. IsSeq(f)
  BY <1>2, OfSeq
<1>4. n = 0 => f = <<>>
  BY <1>2, <1>3, NoSeq, SameSeq
<1> QED  BY <1>2, <1>3, <1>4

(* The lines k, k - 1, ... 1.                                               *)
Backwards(ls, k, u, o) == [j \in 1..k |-> Back(ls[k + 1 - j], u, o)]

LEMMA LinesEnd ==
  ASSUME NEW o, NEW u, NEW es, NEW dt, NEW ls, IsSeq(ls),
         \A k \in 1..Len(ls) : Runs(ls[k]),
         NEW ss, ss = [k \in 1..Len(ls) |-> LineFields(ls[k])]
  PROVE  /\ IsSeq(FlattenSeq(ss))
         /\ ReadAll(o, Got(u, <<>>, es, dt), FlattenSeq(ss))
              = Got(u, Backwards(ls, Len(ls), u, o), es, dt)
<1>1. Len(ls) \in Nat
  BY DEF IsSeq
<1>2. IsSeq(ss) /\ Len(ss) = Len(ls) /\ \A k \in 1..Len(ls) : ss[k] = LineFields(ls[k])
  <2>1. ss = [k \in 1..Len(ls) |-> ss[k]]
    OBVIOUS
  <2> QED  BY <1>1, <2>1, Listed
<1>3. \A k \in 1..Len(ss) : IsSeq(ss[k])
  BY <1>2, LineEnds
<1> DEFINE h == [k \in 0..Len(ls) |-> Got(u, Backwards(ls, k, u, o), es, dt)]
<1>4. \A k \in 0..Len(ls) :
         IsSeq(Backwards(ls, k, u, o)) /\ Len(Backwards(ls, k, u, o)) = k
  <2> SUFFICES ASSUME NEW k \in 0..Len(ls)
               PROVE  IsSeq(Backwards(ls, k, u, o)) /\ Len(Backwards(ls, k, u, o)) = k
    OBVIOUS
  <2>1. PICK b : b = Backwards(ls, k, u, o)
    OBVIOUS
  <2>2. b = [j \in 1..k |-> b[j]] /\ k \in Nat
    BY <1>1, <2>1 DEF Backwards
  <2> QED  BY <2>1, <2>2, Listed
<1>5. h[0] = Got(u, <<>>, es, dt)
  <2>1. 0 \in 0..Len(ls)
    BY <1>1
  <2>2. Backwards(ls, 0, u, o) = <<>>
    <3>1. PICK b : b = Backwards(ls, 0, u, o)
      OBVIOUS
    <3>2. IsSeq(b) /\ Len(b) = 0
      BY <2>1, <3>1, <1>4
    <3>3. b = <<>>
      BY <3>2, NoSeq, SameSeq
    <3> QED  BY <3>1, <3>3
  <2> QED  BY <2>1, <2>2
<1>6. ASSUME NEW k \in 1..Len(ls)
      PROVE  h[k] = ReadAll(o, h[k - 1], ss[k])
  <2>1. k \in 0..Len(ls) /\ k - 1 \in 0..Len(ls)
    BY <1>1
  <2>2. PICK b : b = Backwards(ls, k - 1, u, o)
    OBVIOUS
  <2>3. PICK t : t = Before(Back(ls[k], u, o), b)
    OBVIOUS
  <2>4. IsSeq(b) /\ Len(b) = k - 1
    BY <1>4, <2>1, <2>2
  <2>5. /\ IsSeq(t) /\ t[1] = Back(ls[k], u, o) /\ Len(t) = k
        /\ \A j \in DOMAIN t : j = 1 \/ (j - 1 \in DOMAIN b /\ t[j] = b[j - 1])
    <3>1. k - 1 + 1 = k
      BY <1>1
    <3> QED  BY <3>1, <2>3, <2>4, PutBefore
  <2>6. PICK r : r = Backwards(ls, k, u, o)
    OBVIOUS
  <2>7. IsSeq(r) /\ Len(r) = k
    BY <1>4, <2>1, <2>6
  <2>8. ASSUME NEW j \in 1..k
        PROVE  t[j] = r[j]
    <3>1. r[j] = Back(ls[k + 1 - j], u, o)
      BY <2>6 DEF Backwards
    <3>2. CASE j = 1
      <4>1. k + 1 - j = k
        BY <1>1, <3>2
      <4> QED  BY <3>1, <3>2, <4>1, <2>5
    <3>3. CASE j # 1
      <4>1. j \in DOMAIN t
        BY <2>5 DEF IsSeq
      <4>2. j - 1 \in DOMAIN b /\ t[j] = b[j - 1]
        BY <3>3, <4>1, <2>5
      <4>3. j - 1 \in 1..(k - 1) /\ (k - 1) + 1 - (j - 1) = k + 1 - j
        BY <1>1, <3>3
      <4>4. b[j - 1] = Back(ls[(k - 1) + 1 - (j - 1)], u, o)
        BY <2>2, <4>3 DEF Backwards
      <4> QED  BY <3>1, <4>2, <4>3, <4>4
    <3> QED  BY <3>2, <3>3
  <2>9. t = r
    BY <2>5, <2>7, <2>8, SameSeq
  <2>10. ReadAll(o, Got(u, b, es, dt), ss[k]) = Got(u, t, es, dt)
    BY <1>2, <2>3, LineEnds
  <2> QED  BY <2>1, <2>2, <2>6, <2>9, <2>10
<1>7. PICK g : g = h
  OBVIOUS
<1>8. g[0] = Got(u, <<>>, es, dt) /\ \A k \in 1..Len(ss) : g[k] = ReadAll(o, g[k - 1], ss[k])
  BY <1>2, <1>5, <1>6, <1>7
<1>9. g[Len(ss)] = Got(u, Backwards(ls, Len(ls), u, o), es, dt)
  BY <1>1, <1>2, <1>7
<1>10. PICK acc : acc = Got(u, <<>>, es, dt)
  OBVIOUS
<1>11. g[0] = acc /\ IsSeq(ss)
  BY <1>2, <1>8, <1>10
<1> HIDE DEF h
<1>12. EachRead(g, o, acc, ss)
  BY <1>3, <1>8, <1>11 DEF EachRead
<1>13. IsSeq(FlattenSeq(ss)) /\ ReadAll(o, acc, FlattenSeq(ss)) = g[Len(ss)]
  BY <1>11, <1>12, ReadFlat
<1> QED  BY <1>9, <1>10, <1>13


(* The variables, in some order.                                            *)
Once(q, n, S) == /\ n \in Nat /\ q \in [1..n -> S]
                 /\ \A i, j \in 1..n : q[i] = q[j] => i = j
                 /\ \A e \in S : \E i \in 1..n : q[i] = e

LEMMA InSomeOrder ==
  ASSUME NEW S, IsFiniteSet(S)
  PROVE  Once(SetToSeq(S), Cardinality(S), S)
<1>1. Cardinality(S) \in Nat /\ ExistsBijection(1..Cardinality(S), S)
  BY FS_CardinalityType
<1>2. PICK n : n = Cardinality(S)
  OBVIOUS
<1>3. n \in Nat
  BY <1>1, <1>2
<1>4. PICK b : b \in Bijection(1..n, S)
  BY <1>1, <1>2 DEF ExistsBijection
<1>5. b \in [1..n -> S] /\ IsInjective(b)
  BY <1>4 DEF Bijection, Injection
<1>6. PICK q : q = SetToSeq(S)
  OBVIOUS
<1>7. q \in [1..n -> S] /\ IsInjective(q)
  BY <1>2, <1>5, <1>6 DEF SetToSeq
<1>8. q \in Injection(1..n, S)
  BY <1>7 DEF Injection
<1>9. Cardinality(1..n) = n
  <2>1. 1 \in Int /\ n \in Int /\ n - 1 + 1 = n /\ (1 > n => n = 0)
    BY <1>3
  <2>2. Cardinality(1..n) = IF 1 > n THEN 0 ELSE n - 1 + 1
    BY <2>1, FS_Interval
  <2> QED  BY <2>1, <2>2
<1>10. q \in Surjection(1..n, S)
  BY <1>2, <1>8, <1>9, FS_Injection
<1>11. \A e \in S : \E i \in 1..n : q[i] = e
  BY <1>10 DEF Surjection
<1>12. \A i, j \in 1..n : q[i] = q[j] => i = j
  BY <1>7 DEF IsInjective
<1> QED  BY <1>2, <1>3, <1>6, <1>7, <1>11, <1>12 DEF Once

(* A variable whose name is not yet there.                                  *)
LEMMA VariableReads ==
  ASSUME NEW o, NEW u, NEW ls, NEW es, NEW dt, NEW e, e[1] \notin {"USER", "LOGNAME"},
         \A g \in es : g[1] # e[1]
  PROVE  /\ IsSeq(Field("envvar", e))
         /\ ReadAll(o, Got(u, ls, es, dt), Field("envvar", e)) = Got(u, ls, es \cup {e}, dt)
<1>1. PICK f : f = [type |-> "envvar", value |-> e]
  OBVIOUS
<1>2. f.type = "envvar" /\ f.value = e /\ Field("envvar", e) = <<f>>
  BY <1>1 DEF Field
<1>3. PICK acc : acc = Got(u, ls, es, dt)
  OBVIOUS
<1>4. PICK z : z = ZeroLine
  OBVIOUS
<1>5. acc = [user |-> u, lines |-> ls, env |-> es, tzdiff |-> dt, cl |-> z]
  BY <1>3, <1>4 DEF Got
<1>6. ReadField(o, acc, f) = [acc EXCEPT !.env = {g \in @ : g[1] # e[1]} \cup {e}]
  <2>1. f.type \notin DOMAIN ZeroLine
    BY <1>2, ZeroParts DEF Parts
  <2> QED  BY <1>2, <2>1 DEF ReadField
<1>7. {g \in es : g[1] # e[1]} \cup {e} = es \cup {e}
  OBVIOUS
<1>8. acc.env = es
  BY <1>5
<1>9. ReadField(o, acc, f) = [acc EXCEPT !.env = es \cup {e}]
  BY <1>6, <1>7, <1>8
<1>10. [acc EXCEPT !.env = es \cup {e}]
         = [user |-> u, lines |-> ls, env |-> es \cup {e}, tzdiff |-> dt, cl |-> z]
  BY <1>5
<1>11. ReadField(o, acc, f) = Got(u, ls, es \cup {e}, dt)
  BY <1>4, <1>9, <1>10 DEF Got
<1> QED  BY <1>2, <1>3, <1>11, OneSeq, ReadOne

LEMMA VariablesRead ==
  ASSUME NEW o, NEW u, NEW ls, NEW dt, NEW env, IsEnv(env), NEW n, n = Cardinality(env),
         NEW ss, ss = [k \in 1..n |-> Field("envvar", SetToSeq(env)[k])]
  PROVE  /\ IsSeq(FlattenSeq(ss))
         /\ ReadAll(o, Got(u, ls, {}, dt), FlattenSeq(ss)) = Got(u, ls, env, dt)
<1>1. PICK q : q = SetToSeq(env)
  OBVIOUS
<1>2. Once(q, n, env)
  BY <1>1, InSomeOrder DEF IsEnv
<1>3. n \in Nat
  BY <1>2 DEF Once
<1>4. IsSeq(ss) /\ Len(ss) = n /\ \A k \in 1..n : ss[k] = Field("envvar", q[k])
  <2>1. ss = [k \in 1..n |-> ss[k]]
    OBVIOUS
  <2> QED  BY <1>1, <1>3, <2>1, Listed
<1> DEFINE first(k) == {q[i] : i \in 1..k}
           h == [k \in 0..n |-> Got(u, ls, first(k), dt)]
<1>5. h[0] = Got(u, ls, {}, dt)
  <2>1. 0 \in 0..n /\ \A i \in 1..0 : FALSE
    BY <1>3
  <2>2. first(0) = {}
    BY <2>1
  <2> QED  BY <2>1, <2>2
<1>6. h[n] = Got(u, ls, env, dt)
  <2>1. first(n) = env
    BY <1>2 DEF Once
  <2>2. n \in 0..n
    BY <1>3
  <2> QED  BY <2>1, <2>2
<1>7. ASSUME NEW k \in 1..n
      PROVE  IsSeq(ss[k]) /\ h[k] = ReadAll(o, h[k - 1], ss[k])
  <2>1. k \in 0..n /\ k - 1 \in 0..n /\ k \in Int
    BY <1>3
  <2>2. \A i \in 1..(k - 1) : i \in 1..n /\ i # k
    BY <1>3
  <2>3. PICK e : e = q[k]
    OBVIOUS
  <2>4. e \in env /\ \A i \in 1..(k - 1) : q[i] \in env /\ q[i] # e
    BY <1>2, <2>2, <2>3 DEF Once
  <2>5. e[1] \notin {"USER", "LOGNAME"}
    BY <2>4 DEF IsEnv
  <2>6. PICK p : p = first(k - 1)
    OBVIOUS
  <2>7. \A g \in p : g[1] # e[1]
    BY <2>4, <2>6 DEF IsEnv
  <2>8. first(k) = p \cup {e}
    <3>1. \A i \in 1..k : i = k \/ i \in 1..(k - 1)
      BY <2>1
    <3>2. \A i \in 1..(k - 1) : i \in 1..k
      BY <2>1
    <3>3. k \in 1..k
      BY <2>1
    <3> QED  BY <2>3, <2>6, <3>1, <3>2, <3>3
  <2>9. h[k] = Got(u, ls, p \cup {e}, dt) /\ h[k - 1] = Got(u, ls, p, dt)
    BY <2>1, <2>6, <2>8
  <2>10. ss[k] = Field("envvar", e)
    BY <1>4, <2>3
  <2> HIDE DEF h
  <2> QED  BY <2>5, <2>7, <2>9, <2>10, VariableReads
<1> HIDE DEF h
<1>8. PICK acc : acc = Got(u, ls, {}, dt)
  OBVIOUS
<1>9. PICK g : g = h
  OBVIOUS
<1>10. EachRead(g, o, acc, ss)
  BY <1>4, <1>5, <1>7, <1>8, <1>9 DEF EachRead
<1>11. IsSeq(ss)
  BY <1>4
<1>12. IsSeq(FlattenSeq(ss)) /\ ReadAll(o, acc, FlattenSeq(ss)) = g[Len(ss)]
  BY <1>10, <1>11, ReadFlat
<1> QED  BY <1>4, <1>6, <1>8, <1>9, <1>12

Difference(dt) == When(dt # 0, Field("tzdiff", dt))

LEMMA DifferenceReads ==
  ASSUME NEW o, NEW u, NEW ls, NEW es, NEW dt, NEW q, q = Difference(dt),
         NEW acc, acc = Got(u, ls, es, 0)
  PROVE  IsSeq(q) /\ ReadAll(o, acc, q) = Got(u, ls, es, dt)
<1>1. CASE dt = 0
  <2>1. q = <<>>
    BY <1>1 DEF Difference, When
  <2> QED  BY <1>1, <2>1, NoSeq, ReadNone
<1>2. CASE dt # 0
  <2>1. PICK f : f = [type |-> "tzdiff", value |-> dt]
    OBVIOUS
  <2>2. f.type = "tzdiff" /\ f.value = dt /\ q = <<f>>
    BY <1>2, <2>1 DEF Difference, When, Field
  <2>3. ReadField(o, acc, f) = [acc EXCEPT !.tzdiff = dt]
    <3>1. f.type \notin DOMAIN ZeroLine
      BY <2>2, ZeroParts DEF Parts
    <3> QED  BY <2>2, <3>1 DEF ReadField
  <2>4. [acc EXCEPT !.tzdiff = dt] = Got(u, ls, es, dt)
    <3>1. PICK z : z = ZeroLine
      OBVIOUS
    <3>2. acc = [user |-> u, lines |-> ls, env |-> es, tzdiff |-> 0, cl |-> z]
      BY <3>1 DEF Got
    <3>3. [acc EXCEPT !.tzdiff = dt]
            = [user |-> u, lines |-> ls, env |-> es, tzdiff |-> dt, cl |-> z]
      BY <3>2
    <3> QED  BY <3>1, <3>3 DEF Got
  <2> QED  BY <2>2, <2>3, <2>4, OneSeq, ReadOne
<1> QED  BY <1>1, <1>2

(* The three fields of the head.                                            *)
Three(x, y, z) == Join(Join(<<x>>, <<y>>), <<z>>)

Begins(s, x, y, z) ==
  IsSeq(s) /\ Len(s) \in Nat /\ Len(s) >= 3 /\ s[1] = x /\ s[2] = y /\ s[3] = z

LEMMA HeadIs ==
  ASSUME NEW x, NEW y, NEW z, NEW a, a = Three(x, y, z)
  PROVE  Begins(a, x, y, z) /\ SubSeq(a, 4, Len(a)) = <<>>
<1>1. PICK p, q, r : p = <<x>> /\ q = <<y>> /\ r = <<z>>
  OBVIOUS
<1>2. /\ IsSeq(p) /\ IsSeq(q) /\ IsSeq(r) /\ Len(p) = 1 /\ Len(q) = 1 /\ Len(r) = 1
      /\ p[1] = x /\ q[1] = y /\ r[1] = z
  BY <1>1, OneSeq
<1>3. PICK b : b = Join(p, q)
  OBVIOUS
<1>4. Joins(b, p, q)
  BY <1>2, <1>3, Joined
<1>5. IsSeq(b) /\ Len(b) = 2 /\ b[1] = x /\ b[2] = y
  BY <1>2, <1>4 DEF Joins
<1>6. a = Join(b, r)
  BY <1>1, <1>3 DEF Three
<1>7. Joins(a, b, r)
  BY <1>2, <1>5, <1>6, Joined
<1>8. IsSeq(a) /\ Len(a) = 3 /\ a[1] = x /\ a[2] = y /\ a[3] = z
  BY <1>2, <1>5, <1>7 DEF Joins
<1>9. PICK S : a \in Seq(S)
  BY <1>8 DEF IsSeq
<1>10. PICK s : s = SubSeq(a, 4, Len(a))
  OBVIOUS
<1>11. s \in Seq(S) /\ Len(s) = 0
  <2>1. \A i \in 4..3 : a[i] \in S
    OBVIOUS
  <2>2. /\ s \in Seq(S)
        /\ Len(s) = IF 4 <= 3 THEN 3 - 4 + 1 ELSE 0
    BY <1>8, <1>9, <1>10, <2>1, SubSeqProperties
  <2> QED  BY <2>2
<1>12. IsSeq(s)
  BY <1>11, OfSeq
<1>13. s = <<>>
  BY <1>11, <1>12, NoSeq, SameSeq
<1> QED  BY <1>8, <1>10, <1>13 DEF Begins

(* What is read after the head.                                             *)
Rest(o, acc, s) == ReadAll(o, acc, SubSeq(s, 4, Len(s)))

LEMMA BeginsToo ==
  ASSUME NEW o, NEW acc, NEW x, NEW y, NEW z, NEW s, Begins(s, x, y, z), NEW t, IsSeq(t),
         NEW u, u = Join(s, t)
  PROVE  Begins(u, x, y, z) /\ Rest(o, acc, u) = ReadAll(o, Rest(o, acc, s), t)
<1>1. /\ IsSeq(s) /\ Len(s) \in Nat /\ Len(s) >= 3
      /\ s[1] = x /\ s[2] = y /\ s[3] = z
  BY DEF Begins
<1>2. Begins(u, x, y, z)
  <2>1. /\ IsSeq(u) /\ Len(t) \in Nat /\ Len(u) = Len(s) + Len(t)
        /\ \A i \in 1..Len(s) : u[i] = s[i]
    <3>1. Joins(u, s, t)
      BY <1>1, Joined
    <3> QED  BY <3>1 DEF Joins
  <2>2. 1 \in 1..Len(s) /\ 2 \in 1..Len(s) /\ 3 \in 1..Len(s)
    BY <1>1
  <2>3. Len(u) \in Nat /\ Len(u) >= 3
    BY <1>1, <2>1
  <2> QED  BY <1>1, <2>1, <2>2, <2>3 DEF Begins
<1>3. PICK q : IsRest(q, s)
  BY DEF IsRest
<1>4. PICK p : p = Join(q, t)
  OBVIOUS
<1>5. PICK v : IsRest(v, u)
  BY DEF IsRest
<1>6. IsSeq(q) /\ v = p
  BY <1>1, <1>3, <1>4, <1>5, AfterThree
<1>7. ReadAll(o, acc, p) = ReadAll(o, ReadAll(o, acc, q), t)
  BY <1>4, <1>6, ReadBoth
<1> QED  BY <1>2, <1>3, <1>5, <1>6, <1>7 DEF Rest, IsRest

LEMMA RestReads ==
  ASSUME NEW o, NEW acc, NEW x, NEW y, NEW z, NEW a, a = Three(x, y, z),
         NEW t, IsSeq(t), NEW e, IsSeq(e), NEW l, IsSeq(l),
         NEW f, f = Join(Join(Join(a, t), e), l)
  PROVE  /\ Begins(f, x, y, z)
         /\ Rest(o, acc, f) = ReadAll(o, ReadAll(o, ReadAll(o, acc, t), e), l)
<1>1. PICK b, d : b = Join(a, t) /\ d = Join(b, e)
  OBVIOUS
<1>2. f = Join(d, l)
  BY <1>1
<1>3. Begins(a, x, y, z) /\ SubSeq(a, 4, Len(a)) = <<>>
  BY HeadIs
<1>4. Rest(o, acc, a) = acc
  BY <1>3, ReadNone DEF Rest
<1>5. Begins(b, x, y, z) /\ Rest(o, acc, b) = ReadAll(o, Rest(o, acc, a), t)
  BY <1>1, <1>3, BeginsToo
<1>6. Begins(d, x, y, z) /\ Rest(o, acc, d) = ReadAll(o, Rest(o, acc, b), e)
  BY <1>1, <1>5, BeginsToo
<1>7. Begins(f, x, y, z) /\ Rest(o, acc, f) = ReadAll(o, Rest(o, acc, d), l)
  BY <1>2, <1>6, BeginsToo
<1> QED  BY <1>4, <1>5, <1>6, <1>7

(* The file is read back as it was written.                                 *)
Whole(c) == IsConf(c) /\ \A k \in 1..Len(c.lines) : Runs(c.lines[k])

LEMMA SavedReads ==
  ASSUME NEW u, NEW c, Whole(c), NEW f, f = write_file_to_disk(u, c)
  PROVE  ReadSaved(u, f) = [ignored |-> FALSE, user |-> u,
                            lines |-> Backwards(c.lines, Len(c.lines), u, u),
                            env |-> c.env, tzdiff |-> c.tzdiff]
<1>1. PICK ls, es, dt : ls = c.lines /\ es = c.env /\ dt = c.tzdiff
  OBVIOUS
<1>2. PICK n : n = Cardinality(es)
  OBVIOUS
<1>3. IsSeq(ls) /\ IsEnv(es) /\ \A k \in 1..Len(ls) : Runs(ls[k])
  BY <1>1 DEF Whole, IsConf
<1>4. PICK x, y, z : /\ x = [type |-> "header", value |-> S_FILEVERSION]
                     /\ y = [type |-> "user", value |-> u]
                     /\ z = [type |-> "timedate", value |-> 0]
  OBVIOUS
<1>5. PICK t, vs, lf : /\ t = Difference(dt)
                       /\ vs = [k \in 1..n |-> Field("envvar", SetToSeq(es)[k])]
                       /\ lf = [k \in 1..Len(ls) |-> LineFields(ls[k])]
  OBVIOUS
<1>6. PICK e, l : e = FlattenSeq(vs) /\ l = FlattenSeq(lf)
  OBVIOUS
<1>7. PICK a : a = Three(x, y, z)
  OBVIOUS
<1>8. f = Join(Join(Join(a, t), e), l)
  BY <1>1, <1>2, <1>4, <1>5, <1>6, <1>7 DEF write_file_to_disk, Difference, Field, Join, Three
<1>9. PICK g0, g1, g2 : g0 = Got(u, <<>>, {}, 0) /\ g1 = Got(u, <<>>, {}, dt)
                        /\ g2 = Got(u, <<>>, es, dt)
  OBVIOUS
<1>10. PICK bl : bl = Backwards(ls, Len(ls), u, u)
  OBVIOUS
<1>11. IsSeq(t) /\ ReadAll(u, g0, t) = g1
  BY <1>5, <1>9, DifferenceReads
<1>12. IsSeq(e) /\ ReadAll(u, g1, e) = g2
  BY <1>2, <1>3, <1>5, <1>6, <1>9, VariablesRead
<1>13. IsSeq(l) /\ ReadAll(u, g2, l) = Got(u, bl, es, dt)
  BY <1>3, <1>5, <1>6, <1>9, <1>10, LinesEnd
<1>14. /\ Begins(f, x, y, z)
       /\ Rest(u, g0, f) = ReadAll(u, ReadAll(u, ReadAll(u, g0, t), e), l)
  BY <1>7, <1>8, <1>11, <1>12, <1>13, RestReads
<1>15. PICK r : r = Rest(u, g0, f)
  OBVIOUS
<1>16. r.user = u /\ r.lines = bl /\ r.env = es /\ r.tzdiff = dt
  BY <1>11, <1>12, <1>13, <1>14, <1>15 DEF Got
<1>17. Len(f) >= 3 /\ f[1] = x /\ f[2] = y /\ f[3] = z
  BY <1>14 DEF Begins
<1>18. /\ f[1] = Field("header", S_FILEVERSION)[1] /\ f[2].type = "user" /\ f[2].value = u
       /\ f[3].type = "timedate"
  BY <1>4, <1>17, OneSeq DEF Field
<1>19. g0 = [user |-> u, lines |-> <<>>, env |-> {}, tzdiff |-> 0, cl |-> ZeroLine]
  BY <1>9 DEF Got
<1>20. ReadSaved(u, f) = [ignored |-> FALSE, user |-> r.user, lines |-> r.lines, env |-> r.env,
                          tzdiff |-> r.tzdiff]
  BY <1>15, <1>17, <1>18, <1>19 DEF Rest, ReadSaved
<1> QED  BY <1>1, <1>10, <1>16, <1>20

-----------------------------------------------------------------------------
(* What the daemon has is what fcrontab had.                                *)

(* A line of u, but for what is not trusted.                                *)
Trusted(cl, u) ==
  [cl EXCEPT !.runas    = IF u = ROOTNAME THEN @ ELSE u,
             !.mailfrom = IF @ \in UnsafeAddresses THEN "" ELSE @,
             !.mailto   = IF @ \in UnsafeAddresses THEN u ELSE @]

LEMMA BackIs ==
  ASSUME NEW u, NEW cl, Runs(cl), NEW p \in InUse(cl)
  PROVE  Back(cl, u, u)[p] = Trusted(cl, u)[p]
<1>1. PICK h : h = Half(cl, InUse(cl))
  OBVIOUS
<1>2. /\ DOMAIN h = Parts /\ DOMAIN cl = Parts /\ p \in Parts /\ h[p] = cl[p]
      /\ h.opt = cl.opt /\ h.runas = cl.runas /\ h.mailfrom = cl.mailfrom
      /\ h.mailto = cl.mailto
  BY <1>1 DEF Half, InUse, Parts, Runs, IsCl
<1>3. p = "timefreq" => ~("td" \notin h.opt /\ h.timefreq < 1)
  <2> SUFFICES ASSUME p = "timefreq" PROVE ~(h.timefreq < 1)
    OBVIOUS
  <2>1. "td" \notin cl.opt
    BY DEF InUse
  <2>2. h.timefreq \in Nat \ {0}
    BY <1>2, <2>1 DEF Runs
  <2> QED  BY <2>2
<1> DEFINE runas == IF u = ROOTNAME THEN h.runas ELSE u
           from  == IF h.mailfrom \in UnsafeAddresses THEN "" ELSE h.mailfrom
           to    == IF h.mailto \in UnsafeAddresses THEN u ELSE h.mailto
           freq  == IF "td" \notin h.opt /\ h.timefreq < 1 THEN 24 * 3600 ELSE h.timefreq
<1>4. add_line_to_file(h, u, u)
        = [h EXCEPT !.runas = runas, !.mailfrom = from, !.mailto = to, !.timefreq = freq]
  BY DEF add_line_to_file
<1>5. PICK ra, mf, mt : ra = runas /\ mf = from /\ mt = to
  OBVIOUS
<1>6. PICK tf : tf = freq
  OBVIOUS
<1>7. p = "timefreq" => tf = h.timefreq
  BY <1>3, <1>6
<1>8. PICK x : x = [h EXCEPT !.runas = ra, !.mailfrom = mf, !.mailto = mt, !.timefreq = tf]
  OBVIOUS
<1>9. Back(cl, u, u) = x
  <2> HIDE DEF runas, from, to, freq
  <2> QED  BY <1>1, <1>4, <1>5, <1>6, <1>8 DEF Back
<1>10. PICK y : y = [cl EXCEPT !.runas = ra, !.mailfrom = mf, !.mailto = mt]
  OBVIOUS
<1>11. Trusted(cl, u) = y
  BY <1>2, <1>5, <1>10 DEF Trusted
<1>12. /\ x.runas = ra /\ x.mailfrom = mf /\ x.mailto = mt /\ x.timefreq = tf
       /\ y.runas = ra /\ y.mailfrom = mf /\ y.mailto = mt /\ y.timefreq = cl.timefreq
       /\ \A k \in Parts \ {"runas", "mailfrom", "mailto", "timefreq"} :
             x[k] = h[k] /\ y[k] = cl[k]
  BY <1>2, <1>8, <1>10 DEF Parts
<1> HIDE DEF runas, from, to, freq
<1>13. p = "timefreq" => tf = cl.timefreq
  BY <1>2, <1>7
<1>14. x[p] = y[p]
  BY <1>2, <1>12, <1>13
<1> QED  BY <1>9, <1>11, <1>14

(* What is installed when fcrontab says that all went well.                 *)
SavedInv ==
  status = "OK" /\ need_sig /\ "new" \in DOMAIN dir =>
    file_base = <<conf>> /\ dir.new = Saved(conf) /\ Whole(conf)

LEMMA SavedInit == Init => SavedInv
BY DEF Init, SavedInv

LEMMA SavedNext == InstallInv /\ ReportInv /\ SavedInv /\ [Next]_vars => SavedInv'
<1> SUFFICES ASSUME InstallInv, ReportInv, SavedInv, [Next]_vars,
                    status' = "OK", need_sig', "new" \in DOMAIN dir'
             PROVE  file_base' = <<conf'>> /\ dir'.new = Saved(conf)' /\ Whole(conf)'
  BY DEF SavedInv
<1>1. CASE at = "exit"
  <2>1. UNCHANGED vars
    BY <1>1 DEF Next, StartFile, StartReinstall, List, RemoveFcrontab, StartEdit, Save, Quit,
                SaveFast, Edited, EditorFails, Ignore, Correct, ReadNext, EndRead, write_file,
                CopyFails, SaveFails
  <2> QED  BY <2>1 DEF SavedInv, vars, session, reading, spool, Saved, Whole
<1>2. CASE at # "exit"
  <2>1. status = "none" /\ ~need_sig
    BY <1>2 DEF InstallInv, FilesInv
  <2>2. RemoveFcrontab \/ write_file \/ CopyFails \/ SaveFails
    BY <2>1 DEF Next, StartFile, StartReinstall, List, StartEdit, Save, Quit, SaveFast,
                Edited, EditorFails, Ignore, Correct, ReadNext, EndRead, StartRead, Exit,
                vars, spool, editing
  <2>3. ~RemoveFcrontab
    BY DEF RemoveFcrontab, WithoutPrevious, Put, Drop
  <2>4. PICK copied, saved \in BOOLEAN : at = "write" /\ Written(copied, saved)
    BY <2>2, <2>3 DEF write_file, CopyFails, SaveFails
  <2>5. /\ file_base = <<conf>> /\ IsConf(conf)
        /\ \A j \in DOMAIN conf.lines : \E l \in ToSet(temp) : Made(l, conf.lines[j])
    BY <2>4 DEF InstallInv, ReadInv, ReportInv
  <2>6. Last(file_base) = conf
    BY <2>5, OneFile
  <2>7. UNCHANGED <<who, conf, file_base>>
    BY <2>4 DEF Written, session, reading
  <2>8. PICK d : dir' = WithoutPrevious(d) \/ dir' = save_file(d)
    BY <2>4 DEF Written, Exit
  <2>9. dir' = save_file(d)
    BY <2>8 DEF WithoutPrevious, Put, Drop
  <2>10. dir'.new = Saved(conf)
    BY <2>6, <2>9 DEF save_file, Put
  <2>11. Saved(conf)' = Saved(conf)
    BY <2>7 DEF Saved
  <2>12. Whole(conf)
    <3>1. IsSeq(conf.lines)
      BY <2>5 DEF IsConf
    <3>2. DOMAIN conf.lines = 1..Len(conf.lines)
      BY <3>1 DEF IsSeq
    <3> QED  BY <2>5, <3>2 DEF Whole, Made, Fit, Runs
  <2> QED  BY <2>5, <2>7, <2>10, <2>11, <2>12 DEF Whole
<1> QED  BY <1>1, <1>2

(* The daemon reads back what fcrontab has understood, whatever the lines,  *)
(* the variables and the options; see RoundTrip.                            *)
THEOREM SavedIsReadBack == Spec => []RoundTrip
<1>1. InstallInv /\ SavedInv => RoundTrip
  <2> SUFFICES ASSUME InstallInv, SavedInv, "new" \in DOMAIN dir, status = "OK", need_sig
               PROVE  RoundTrip
    BY DEF RoundTrip
  <2>1. Last_conf = conf /\ Whole(conf) /\ dir.new = write_file_to_disk(who.runas, conf)
    BY OneFile DEF SavedInv, Last_conf, Saved
  <2>2. PICK u, c : u = who.runas /\ c = conf
    OBVIOUS
  <2>3. PICK n : n = Len(c.lines)
    OBVIOUS
  <2>4. PICK r : r = ReadSaved(u, dir.new)
    OBVIOUS
  <2>5. r = [ignored |-> FALSE, user |-> u, lines |-> Backwards(c.lines, n, u, u),
             env |-> c.env, tzdiff |-> c.tzdiff]
    BY <2>1, <2>2, <2>3, <2>4, SavedReads
  <2>6. n \in Nat /\ DOMAIN c.lines = 1..n /\ \A k \in 1..n : Runs(c.lines[k])
    BY <2>1, <2>2, <2>3 DEF Whole, IsConf, IsSeq
  <2>7. PICK b : b = Backwards(c.lines, n, u, u)
    OBVIOUS
  <2>8. Len(b) = n
    <3>1. b = [j \in 1..n |-> b[j]]
      BY <2>7 DEF Backwards
    <3> QED  BY <2>6, <3>1, Listed
  <2>9. ASSUME NEW j \in 1..n, NEW cl, cl = c.lines[n + 1 - j], NEW p \in InUse(cl)
        PROVE  b[j][p] = Trusted(cl, u)[p]
    <3>1. n + 1 - j \in 1..n
      BY <2>6
    <3>2. Runs(cl)
      BY <2>6, <2>9, <3>1
    <3>3. b[j] = Back(cl, u, u)
      BY <2>7, <2>9 DEF Backwards
    <3> QED  BY <2>9, <3>2, <3>3, BackIs
  <2>10. /\ ~r.ignored /\ r.user = u /\ r.env = c.env /\ r.tzdiff = c.tzdiff
         /\ r.lines = b
    BY <2>5, <2>7
  <2>11. Len(r.lines) = Len(c.lines)
    BY <2>3, <2>8, <2>10
  <2>12. ASSUME NEW j \in DOMAIN c.lines, NEW p \in InUse(c.lines[Len(c.lines) + 1 - j])
         PROVE  r.lines[j][p] = Trusted(c.lines[Len(c.lines) + 1 - j], u)[p]
    <3>1. PICK cl : cl = c.lines[n + 1 - j]
      OBVIOUS
    <3>2. j \in 1..n /\ p \in InUse(cl) /\ cl = c.lines[Len(c.lines) + 1 - j]
      BY <2>3, <2>6, <2>12, <3>1
    <3>3. b[j][p] = Trusted(cl, u)[p]
      BY <2>9, <3>1, <3>2
    <3> QED  BY <2>10, <3>2, <3>3
  <2>13. /\ ~ReadSaved(who.runas, dir.new).ignored
         /\ ReadSaved(who.runas, dir.new).user = who.runas
         /\ ReadSaved(who.runas, dir.new).env = Last_conf.env
         /\ ReadSaved(who.runas, dir.new).tzdiff = Last_conf.tzdiff
         /\ Len(ReadSaved(who.runas, dir.new).lines) = Len(Last_conf.lines)
    BY <2>1, <2>2, <2>4, <2>10, <2>11
  <2>14. \A j \in DOMAIN Last_conf.lines :
            \A p \in InUse(Last_conf.lines[Len(Last_conf.lines) + 1 - j]) :
               ReadSaved(who.runas, dir.new).lines[j][p]
                 = Trusted(Last_conf.lines[Len(Last_conf.lines) + 1 - j], who.runas)[p]
    BY <2>1, <2>2, <2>4, <2>12
  <2> QED  BY <2>13, <2>14 DEF RoundTrip, Trusted
<1> QED  BY <1>1, InstallInit, InstallNext, ReportInit, ReportNext, SavedInit, SavedNext,
            PTL DEF Spec
=============================================================================
