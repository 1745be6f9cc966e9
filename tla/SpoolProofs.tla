----------------------------- MODULE SpoolProofs -----------------------------
(***************************************************************************)
(* Proofs about Spool, for all users, runs of fcrontab and crashes.        *)
(***************************************************************************)
EXTENDS Spool, TLAPS

Synchronizing == {"rm_file", "rm_mark", "save", "remove_new"}

(* A user is in at most one run: no version but its own can appear between *)
(* the system calls of one fcrontab.                                       *)
OneRunPerUser ==
  \A c, d \in Runs : User(c) # None /\ User(c) = User(d) => c = d

(* fcrontab puts its mark when new.u is gone.                              *)
MarkAfterUnlink == \A c \in Runs : At(c, "mk_rm") => new[User(c)] = None

(* The daemon has seen the mark of every user whose new.u it has still to  *)
(* read; a mark it has seen is there until it unlinks it itself, and this  *)
(* is done before it reads any new version.                                *)
MarksAreSeen ==
  \A u \in Users :
    /\ "new" \in listed[u] /\ u \in rm /\ new[u] # None => "rm" \in listed[u]
    /\ "rm" \in listed[u] => u \in rm
    /\ pc \in {"new", "save", "remove_new"} => "rm" \notin listed[u]

(* The version the daemon has read is the one it is about to unlink, or    *)
(* fcrontab has withdrawn it.                                              *)
ReadIsUnlinked ==
  /\ pc \in {"rm_file", "rm_mark"} => cur \in rm
  /\ pc = "rm_mark" => file[cur] = None
  /\ pc \in {"save", "remove_new"} =>
       /\ loaded[cur] # None
       /\ new[cur] # None => new[cur] = loaded[cur] /\ cur \notin rm
       /\ new[cur] = None /\ cur \notin rm => wanted[cur] = Unknown

(* What the daemon has in memory, where it is in synchronize_dir().        *)
MemoryIsDisk ==
  /\ pc \in {"down", "exit"} => \A u \in Users : loaded[u] = None
  /\ pc = "scan" => (\A u \in Users : loaded[u] = None) \/ loaded = file
  /\ pc \in {"rm", "rm_file", "rm_mark"} =>
       \A u \in Users :
         /\ "file" \in listed[u] => loaded[u] = None
         /\ \/ loaded[u] = file[u] \/ "file" \in listed[u]
            \/ pc = "rm_file" /\ u = cur
  /\ pc = "rm_file" => loaded[cur] = None
  /\ pc \in {"new", "remove_new", "idle"} => loaded = file
  /\ pc = "save" => \A u \in Users \ {cur} : loaded[u] = file[u]

IInv ==
  /\ TypeOK /\ OneRunPerUser /\ MarkAfterUnlink /\ MarksAreSeen
  /\ ReadIsUnlinked /\ MemoryIsDisk /\ SpoolHoldsLatest

-----------------------------------------------------------------------------
(* Types.                                                                  *)

LEMMA TypeInit == Init => TypeOK
<1> SUFFICES ASSUME Init PROVE TypeOK
  OBVIOUS
<1> USE SpoolAssumption DEF Init
<1>1. /\ file \in [Users -> Versions \cup {None}]
      /\ wanted \in [Users -> Versions \cup {None, Unknown}]
  BY DEF Versions
<1>2. run \in [Runs -> [pc : Writing \cup Signalling \cup {"new", "done"},
                       op : Ops \cup {None}, user : Users \cup {None},
                       fd : Runs \cup {None}]]
  BY DEF Idle
<1>3. \A c \in Runs : run[c].pc \notin Writing
  BY DEF Idle, Writing
<1> QED  BY <1>1, <1>2, <1>3 DEF TypeOK, Versions

(* What Goes() does to the runs, wherever it leads.                        *)
LEMMA GoesType ==
  ASSUME TypeOK, NEW c \in Runs,
         NEW label \in Writing \cup Signalling \cup {"new", "done"},
         label \in Writing => User(c) \in Users, Goes(c, label)
  PROVE  /\ run' \in [Runs -> [pc : Writing \cup Signalling \cup {"new", "done"},
                                op : Ops \cup {None}, user : Users \cup {None},
                                fd : Runs \cup {None}]]
         /\ \A d \in Runs : run'[d].pc \in Writing => run'[d].user \in Users
BY DEF TypeOK, Goes, Idle, User, Writing, Signalling

LEMMA TypeNext == TypeOK /\ [Next]_vars => TypeOK'
<1> SUFFICES ASSUME TypeOK, [Next]_vars PROVE TypeOK'
  OBVIOUS
<1> USE SpoolAssumption DEF TypeOK, Versions, Ops, Writing, Signalling, User,
        Step, daemon, spool, signal
<1>1. CASE \E c \in Runs, u \in Users, o \in Ops : Launch(c, u, o)
  BY <1>1 DEF Launch
<1>2. CASE \E c \in Runs : UnlinkNew(c)
  BY <1>2 DEF UnlinkNew, Goes, At, User
<1>3. CASE \E c \in Runs : MarkRemoved(c)
  BY <1>3 DEF MarkRemoved, Goes, At, User, Written, Idle
<1>4. CASE \E c \in Runs : Install(c)
  BY <1>4 DEF Install, Goes, At, User, Written, Idle
<1>5. CASE \E c \in Runs : InstallFails(c)
  BY <1>5 DEF InstallFails, Goes, At, User, Written, Idle
<1>6. CASE \E c \in Runs : Interrupt(c)
  BY <1>6 DEF Interrupt, Goes, At, User, Idle
<1>7. ASSUME NEW c \in Runs, Fcronsighup(c) PROVE TypeOK'
  <2>1. CASE OpenSigfile(c)
    <3>1. sigfile' \in Runs
      BY <2>1 DEF OpenSigfile
    <3>2. run' = [run EXCEPT ![c] = Opened(sigfile')]
      BY <2>1 DEF OpenSigfile
    <3>3. run' \in [Runs -> [pc : Writing \cup Signalling \cup {"new", "done"},
                            op : Ops \cup {None}, user : Users \cup {None},
                            fd : Runs \cup {None}]]
      BY <3>1, <3>2 DEF Opened
    <3>4. ASSUME NEW d \in Runs, run'[d].pc \in Writing
          PROVE  run'[d].user \in Users
      <4>1. CASE d = c
        BY <3>2, <3>4, <4>1 DEF Opened
      <4>2. CASE d # c
        <5>1. run'[d] = run[d]
          BY <3>2, <4>2
        <5> QED  BY <3>4, <5>1
      <4> QED  BY <4>1, <4>2
    <3> QED  BY <2>1, <3>1, <3>3, <3>4 DEF OpenSigfile
  <2>2. CASE Kill(c)
    <3>1. Goes(c, "done")
      BY <2>2 DEF Kill
    <3>2. /\ run' \in [Runs -> [pc : Writing \cup Signalling \cup {"new", "done"},
                               op : Ops \cup {None}, user : Users \cup {None},
                               fd : Runs \cup {None}]]
          /\ \A d \in Runs : run'[d].pc \in Writing => run'[d].user \in Users
      BY <3>1, GoesType
    <3> QED  BY <2>2, <3>2 DEF Kill
  <2>3. CASE UnlinkSigfile(c)
    <3>1. Goes(c, "kill")
      BY <2>3 DEF UnlinkSigfile
    <3>2. /\ run' \in [Runs -> [pc : Writing \cup Signalling \cup {"new", "done"},
                               op : Ops \cup {None}, user : Users \cup {None},
                               fd : Runs \cup {None}]]
          /\ \A d \in Runs : run'[d].pc \in Writing => run'[d].user \in Users
      BY <3>1, GoesType
    <3> QED  BY <2>3, <3>2 DEF UnlinkSigfile
  <2>4. CASE ReadPid(c) \/ Flock(c) \/ CloseSigfile(c)
    <3>1. \E to \in Signalling \cup {"done"} : Goes(c, to)
      BY <2>4 DEF ReadPid, Flock, CloseSigfile, Moves
    <3> QED  BY <2>4, <3>1, GoesType DEF ReadPid, Flock, CloseSigfile, Moves
  <2> QED  BY <1>7, <2>1, <2>2, <2>3, <2>4 DEF Fcronsighup
<1>8. CASE Scan
  BY <1>8 DEF Scan
<1>9. CASE \E u \in Users : DeleteFile(u)
  BY <1>9 DEF DeleteFile
<1>10. CASE UnlinkFile
  BY <1>10 DEF UnlinkFile
<1>11. CASE UnlinkMark
  BY <1>11 DEF UnlinkMark
<1>12. CASE ReadFiles
  BY <1>12 DEF ReadFiles
<1>13. CASE \E u \in Users : ReadNew(u)
  BY <1>13 DEF ReadNew
<1>14. CASE SaveNew
  BY <1>14 DEF SaveNew
<1>15. CASE RemoveNew
  BY <1>15 DEF RemoveNew
<1>16. CASE EndSync
  BY <1>16 DEF EndSync
<1>17. CASE CheckHup
  BY <1>17 DEF CheckHup
<1>18. CASE Start
  BY <1>18 DEF Start
<1>19. CASE Exit
  BY <1>19 DEF Exit, Forget
<1>20. CASE UnlinkPidfile
  BY <1>20 DEF UnlinkPidfile, Forget
<1>21. CASE Killed
  <2>1. crashes' \in Nat
    BY <1>21 DEF Killed, PowerOff, Dies
  <2>2. /\ loaded' \in [Users -> Versions \cup {None}]
        /\ listed' \in [Users -> SUBSET {"rm", "new", "file"}]
        /\ cur' = None /\ pc' = "down"
        /\ booting' \in BOOLEAN /\ sigHup' \in BOOLEAN
        /\ UNCHANGED <<file, new, rm, wanted, sigfile, pidfile>>
    BY <1>21 DEF Killed, PowerOff, Dies, Forget
  <2> QED  BY <1>21, <2>1, <2>2 DEF Killed
<1>22. CASE PowerOff
  <2>1. crashes' \in Nat
    BY <1>22 DEF Killed, PowerOff, Dies
  <2>2. /\ loaded' \in [Users -> Versions \cup {None}]
        /\ listed' \in [Users -> SUBSET {"rm", "new", "file"}]
        /\ cur' = None /\ pc' = "down"
        /\ booting' \in BOOLEAN /\ sigHup' \in BOOLEAN
        /\ UNCHANGED <<file, new, rm, wanted, sigfile, pidfile>>
    BY <1>22 DEF Killed, PowerOff, Dies, Forget
  <2>3. /\ unannounced' = {}
        /\ run' = [c \in Runs |-> IF At(c, "new") THEN run[c] ELSE Idle("done")]
    BY <1>22 DEF PowerOff
  <2> QED  BY <2>1, <2>2, <2>3 DEF Idle
<1>23. CASE UNCHANGED vars
  BY <1>23 DEF vars
<1> HIDE DEF TypeOK, Versions, Ops, Writing, Signalling, User, Step
<1>24. CASE \E c \in Runs : Fcrontab(c)
  BY <1>1, <1>2, <1>3, <1>4, <1>5, <1>6, <1>24 DEF Fcrontab
<1>25. CASE Daemon
  BY <1>8, <1>9, <1>10, <1>11, <1>12, <1>13, <1>14, <1>15, <1>16, <1>17,
    <1>18, <1>19, <1>20, <1>25 DEF Daemon, Synchronize
<1> QED  BY <1>7, <1>21, <1>22, <1>23, <1>24, <1>25 DEF Next

(* Every variable keeps its type, and the daemon and the runs of fcrontab  *)
(* always work for a user that exists.                                     *)
THEOREM TypeCorrect == Spec => []TypeOK
BY TypeInit, TypeNext, PTL DEF Spec

-----------------------------------------------------------------------------
(* The spool directory.                                                    *)

LEMMA SpoolInit == Init => IInv
<1> SUFFICES ASSUME Init PROVE IInv
  OBVIOUS
<1>1. OneRunPerUser /\ MarkAfterUnlink
  BY DEF Init, Idle, OneRunPerUser, MarkAfterUnlink, At, User
<1>2. MarksAreSeen /\ ReadIsUnlinked /\ MemoryIsDisk
  BY DEF Init, MarksAreSeen, ReadIsUnlinked, MemoryIsDisk
<1>3. SpoolHoldsLatest
  BY DEF Init, SpoolHoldsLatest, NextBoot
<1> QED  BY <1>1, <1>2, <1>3, TypeInit DEF IInv

LEMMA SpoolNext == Races = {} /\ IInv /\ [Next]_vars => IInv'
<1> SUFFICES ASSUME Races = {}, IInv, [Next]_vars,
                    TypeOK, TypeOK', OneRunPerUser, MarkAfterUnlink,
                    MarksAreSeen, ReadIsUnlinked, MemoryIsDisk,
                    SpoolHoldsLatest
             PROVE  /\ OneRunPerUser' /\ MarkAfterUnlink' /\ MarksAreSeen'
                    /\ ReadIsUnlinked' /\ MemoryIsDisk' /\ SpoolHoldsLatest'
  BY TypeNext DEF IInv
<1> USE SpoolAssumption DEF TypeOK, Versions, Ops, Writing
<1>1. CASE \E c \in Runs, u \in Users, o \in Ops : Launch(c, u, o)
  <2>0. PICK c \in Runs, u \in Users, o \in Ops : Launch(c, u, o)
    BY <1>1
  <2>1. OneRunPerUser'
    BY <2>0 DEF Launch, Step, daemon, spool, signal, OneRunPerUser, User
  <2>2. MarkAfterUnlink'
    BY <2>0 DEF Launch, Step, daemon, spool, signal, MarkAfterUnlink, At,
      User
  <2>3. MarksAreSeen'
    BY <2>0 DEF Launch, Step, daemon, spool, signal, MarksAreSeen
  <2>4. ReadIsUnlinked'
    BY <2>0 DEF Launch, Step, daemon, spool, signal, ReadIsUnlinked
  <2>5. MemoryIsDisk'
    BY <2>0 DEF Launch, Step, daemon, spool, signal, MemoryIsDisk
  <2>6. SpoolHoldsLatest'
    BY <2>0 DEF Launch, Step, daemon, spool, signal, SpoolHoldsLatest,
      NextBoot
  <2> QED  BY <2>1, <2>2, <2>3, <2>4, <2>5, <2>6
<1>2. CASE \E c \in Runs : UnlinkNew(c)
  <2>0. PICK c \in Runs : UnlinkNew(c)
    BY <1>2
  <2>1. OneRunPerUser'
    BY <2>0 DEF UnlinkNew, Goes, At, User, Step, daemon, spool, signal,
      OneRunPerUser
  <2>2. MarkAfterUnlink'
    BY <2>0 DEF UnlinkNew, Goes, At, User, Step, daemon, spool, signal,
      MarkAfterUnlink
  <2>3. MarksAreSeen'
    BY <2>0 DEF UnlinkNew, Goes, At, User, Step, daemon, spool, signal,
      MarksAreSeen
  <2>4. ReadIsUnlinked'
    BY <2>0 DEF UnlinkNew, Goes, At, User, Step, daemon, spool, signal,
      ReadIsUnlinked
  <2>5. MemoryIsDisk'
    BY <2>0 DEF UnlinkNew, Goes, At, User, Step, daemon, spool, signal,
      MemoryIsDisk
  <2>6. SpoolHoldsLatest'
    BY <2>0 DEF UnlinkNew, Goes, At, User, Step, daemon, spool, signal,
      SpoolHoldsLatest, NextBoot
  <2> QED  BY <2>1, <2>2, <2>3, <2>4, <2>5, <2>6
<1>3. CASE \E c \in Runs : MarkRemoved(c)
  <2>0. PICK c \in Runs : MarkRemoved(c)
    BY <1>3
  <2>1. OneRunPerUser'
    BY <2>0 DEF MarkRemoved, Goes, At, User, Written, Idle, Step, daemon,
      spool, signal, OneRunPerUser
  <2>2. MarkAfterUnlink'
    BY <2>0 DEF MarkRemoved, Goes, At, User, Written, Idle, Step, daemon,
      spool, signal, MarkAfterUnlink
  <2>3. MarksAreSeen'
    BY <2>0 DEF MarkRemoved, Goes, At, User, Written, Idle, Step, daemon,
      spool, signal, MarksAreSeen, MarkAfterUnlink
  <2>4. ReadIsUnlinked'
    BY <2>0 DEF MarkRemoved, Goes, At, User, Written, Idle, Step, daemon,
      spool, signal, ReadIsUnlinked, MarkAfterUnlink
  <2>5. MemoryIsDisk'
    BY <2>0 DEF MarkRemoved, Goes, At, User, Written, Idle, Step, daemon,
      spool, signal, MemoryIsDisk
  <2>6. SpoolHoldsLatest'
    BY <2>0 DEF MarkRemoved, Goes, At, User, Written, Idle, Step, daemon,
      spool, signal, SpoolHoldsLatest, MarkAfterUnlink, NextBoot
  <2> QED  BY <2>1, <2>2, <2>3, <2>4, <2>5, <2>6
<1>4. CASE \E c \in Runs : Install(c)
  <2>0. PICK c \in Runs : Install(c)
    BY <1>4
  <2>1. OneRunPerUser'
    BY <2>0 DEF Install, Goes, At, User, Written, Idle, Step, daemon,
      spool, signal, MayInstall, OneRunPerUser
  <2>2. MarkAfterUnlink'
    BY <2>0 DEF Install, Goes, At, User, Written, Idle, Step, daemon,
      spool, signal, MayInstall, MarkAfterUnlink, OneRunPerUser
  <2>3. MarksAreSeen'
    BY <2>0 DEF Install, Goes, At, User, Written, Idle, Step, daemon,
      spool, signal, MayInstall, MarksAreSeen
  <2>4. ReadIsUnlinked'
    BY <2>0 DEF Install, Goes, At, User, Written, Idle, Step, daemon,
      spool, signal, MayInstall, ReadIsUnlinked
  <2>5. MemoryIsDisk'
    BY <2>0 DEF Install, Goes, At, User, Written, Idle, Step, daemon,
      spool, signal, MayInstall, MemoryIsDisk
  <2>6. SpoolHoldsLatest'
    BY <2>0 DEF Install, Goes, At, User, Written, Idle, Step, daemon,
      spool, signal, MayInstall, SpoolHoldsLatest, NextBoot
  <2> QED  BY <2>1, <2>2, <2>3, <2>4, <2>5, <2>6
<1>5. CASE \E c \in Runs : InstallFails(c)
  <2>0. PICK c \in Runs : InstallFails(c)
    BY <1>5
  <2>1. OneRunPerUser'
    BY <2>0 DEF InstallFails, Goes, At, User, Written, Idle, Step, daemon,
      spool, signal, OneRunPerUser
  <2>2. MarkAfterUnlink'
    BY <2>0 DEF InstallFails, Goes, At, User, Written, Idle, Step, daemon,
      spool, signal, MarkAfterUnlink
  <2>3. MarksAreSeen'
    BY <2>0 DEF InstallFails, Goes, At, User, Written, Idle, Step, daemon,
      spool, signal, MarksAreSeen
  <2>4. ReadIsUnlinked'
    BY <2>0 DEF InstallFails, Goes, At, User, Written, Idle, Step, daemon,
      spool, signal, ReadIsUnlinked
  <2>5. MemoryIsDisk'
    BY <2>0 DEF InstallFails, Goes, At, User, Written, Idle, Step, daemon,
      spool, signal, MemoryIsDisk
  <2>6. SpoolHoldsLatest'
    BY <2>0 DEF InstallFails, Goes, At, User, Written, Idle, Step, daemon,
      spool, signal, SpoolHoldsLatest, NextBoot
  <2> QED  BY <2>1, <2>2, <2>3, <2>4, <2>5, <2>6
<1>6. CASE \E c \in Runs : Interrupt(c)
  <2>0. PICK c \in Runs : Interrupt(c)
    BY <1>6
  <2>1. OneRunPerUser'
    BY <2>0 DEF Interrupt, Goes, At, User, Idle, Step, daemon, spool,
      signal, OneRunPerUser
  <2>2. MarkAfterUnlink'
    BY <2>0 DEF Interrupt, Goes, At, User, Idle, Step, daemon, spool,
      signal, MarkAfterUnlink
  <2>3. MarksAreSeen'
    BY <2>0 DEF Interrupt, Goes, At, User, Idle, Step, daemon, spool,
      signal, MarksAreSeen
  <2>4. ReadIsUnlinked'
    BY <2>0 DEF Interrupt, Goes, At, User, Idle, Step, daemon, spool,
      signal, ReadIsUnlinked
  <2>5. MemoryIsDisk'
    BY <2>0 DEF Interrupt, Goes, At, User, Idle, Step, daemon, spool,
      signal, MemoryIsDisk
  <2>6. SpoolHoldsLatest'
    BY <2>0 DEF Interrupt, Goes, At, User, Idle, Step, daemon, spool,
      signal, SpoolHoldsLatest, NextBoot
  <2> QED  BY <2>1, <2>2, <2>3, <2>4, <2>5, <2>6
<1>7. CASE \E c \in Runs : Fcronsighup(c)
  <2>0. PICK c \in Runs : Fcronsighup(c)
    BY <1>7
  <2>1. OneRunPerUser'
    BY <2>0 DEF Fcronsighup, ReadPid, OpenSigfile, Flock, CloseSigfile,
      UnlinkSigfile, Kill, Moves, Goes, At, User, Idle, Step, daemon,
      spool, signal, Opened, Locked, Up, OneRunPerUser
  <2>2. MarkAfterUnlink'
    BY <2>0 DEF Fcronsighup, ReadPid, OpenSigfile, Flock, CloseSigfile,
      UnlinkSigfile, Kill, Moves, Goes, At, User, Idle, Step, daemon,
      spool, signal, Opened, Locked, Up, MarkAfterUnlink
  <2>3. MarksAreSeen'
    BY <2>0 DEF Fcronsighup, ReadPid, OpenSigfile, Flock, CloseSigfile,
      UnlinkSigfile, Kill, Moves, Goes, At, User, Idle, Step, daemon,
      spool, signal, Opened, Locked, Up, MarksAreSeen
  <2>4. ReadIsUnlinked'
    BY <2>0 DEF Fcronsighup, ReadPid, OpenSigfile, Flock, CloseSigfile,
      UnlinkSigfile, Kill, Moves, Goes, At, User, Idle, Step, daemon,
      spool, signal, Opened, Locked, Up, ReadIsUnlinked
  <2>5. MemoryIsDisk'
    BY <2>0 DEF Fcronsighup, ReadPid, OpenSigfile, Flock, CloseSigfile,
      UnlinkSigfile, Kill, Moves, Goes, At, User, Idle, Step, daemon,
      spool, signal, Opened, Locked, Up, MemoryIsDisk
  <2>6. SpoolHoldsLatest'
    BY <2>0 DEF Fcronsighup, ReadPid, OpenSigfile, Flock, CloseSigfile,
      UnlinkSigfile, Kill, Moves, Goes, At, User, Idle, Step, daemon,
      spool, signal, Opened, Locked, Up, SpoolHoldsLatest, NextBoot
  <2> QED  BY <2>1, <2>2, <2>3, <2>4, <2>5, <2>6
<1>8. CASE Scan
  <2>1. OneRunPerUser'
    BY <1>8 DEF Scan, Step, daemon, spool, signal, OneRunPerUser, User
  <2>2. MarkAfterUnlink'
    BY <1>8 DEF Scan, Step, daemon, spool, signal, MarkAfterUnlink, At,
      User
  <2>3. MarksAreSeen'
    BY <1>8 DEF Scan, Step, daemon, spool, signal, MarksAreSeen
  <2>4. ReadIsUnlinked'
    BY <1>8 DEF Scan, Step, daemon, spool, signal, ReadIsUnlinked
  <2>5. MemoryIsDisk'
    BY <1>8 DEF Scan, Step, daemon, spool, signal, MemoryIsDisk
  <2>6. SpoolHoldsLatest'
    BY <1>8 DEF Scan, Step, daemon, spool, signal, SpoolHoldsLatest,
      NextBoot
  <2> QED  BY <2>1, <2>2, <2>3, <2>4, <2>5, <2>6
<1>9. CASE \E u \in Users : DeleteFile(u)
  <2>0. PICK u \in Users : DeleteFile(u)
    BY <1>9
  <2>1. OneRunPerUser'
    BY <2>0 DEF DeleteFile, Step, daemon, spool, signal, OneRunPerUser,
      User
  <2>2. MarkAfterUnlink'
    BY <2>0 DEF DeleteFile, Step, daemon, spool, signal, MarkAfterUnlink,
      At, User
  <2>3. MarksAreSeen'
    BY <2>0 DEF DeleteFile, Step, daemon, spool, signal, MarksAreSeen
  <2>4. ReadIsUnlinked'
    BY <2>0 DEF DeleteFile, Step, daemon, spool, signal, ReadIsUnlinked,
      MarksAreSeen
  <2>5. MemoryIsDisk'
    BY <2>0 DEF DeleteFile, Step, daemon, spool, signal, MemoryIsDisk
  <2>6. SpoolHoldsLatest'
    BY <2>0 DEF DeleteFile, Step, daemon, spool, signal, SpoolHoldsLatest,
      NextBoot
  <2> QED  BY <2>1, <2>2, <2>3, <2>4, <2>5, <2>6
<1>10. CASE UnlinkFile
  <2>1. OneRunPerUser'
    BY <1>10 DEF UnlinkFile, Step, daemon, spool, signal, OneRunPerUser,
      User
  <2>2. MarkAfterUnlink'
    BY <1>10 DEF UnlinkFile, Step, daemon, spool, signal, MarkAfterUnlink,
      At, User
  <2>3. MarksAreSeen'
    BY <1>10 DEF UnlinkFile, Step, daemon, spool, signal, MarksAreSeen
  <2>4. ReadIsUnlinked'
    BY <1>10 DEF UnlinkFile, Step, daemon, spool, signal, ReadIsUnlinked
  <2>5. MemoryIsDisk'
    BY <1>10 DEF UnlinkFile, Step, daemon, spool, signal, MemoryIsDisk
  <2>6. SpoolHoldsLatest'
    BY <1>10 DEF UnlinkFile, Step, daemon, spool, signal, SpoolHoldsLatest,
      ReadIsUnlinked, NextBoot
  <2> QED  BY <2>1, <2>2, <2>3, <2>4, <2>5, <2>6
<1>11. CASE UnlinkMark
  <2>1. OneRunPerUser'
    BY <1>11 DEF UnlinkMark, Step, daemon, spool, signal, OneRunPerUser,
      User
  <2>2. MarkAfterUnlink'
    BY <1>11 DEF UnlinkMark, Step, daemon, spool, signal, MarkAfterUnlink,
      At, User
  <2>3. MarksAreSeen'
    BY <1>11 DEF UnlinkMark, Step, daemon, spool, signal, MarksAreSeen
  <2>4. ReadIsUnlinked'
    BY <1>11 DEF UnlinkMark, Step, daemon, spool, signal, ReadIsUnlinked
  <2>5. MemoryIsDisk'
    BY <1>11 DEF UnlinkMark, Step, daemon, spool, signal, MemoryIsDisk
  <2>6. SpoolHoldsLatest'
    BY <1>11 DEF UnlinkMark, Step, daemon, spool, signal, SpoolHoldsLatest,
      ReadIsUnlinked, NextBoot
  <2> QED  BY <2>1, <2>2, <2>3, <2>4, <2>5, <2>6
<1>12. CASE ReadFiles
  <2>1. OneRunPerUser'
    BY <1>12 DEF ReadFiles, Step, daemon, spool, signal, OneRunPerUser,
      User
  <2>2. MarkAfterUnlink'
    BY <1>12 DEF ReadFiles, Step, daemon, spool, signal, MarkAfterUnlink,
      At, User
  <2>3. MarksAreSeen'
    BY <1>12 DEF ReadFiles, Step, daemon, spool, signal, MarksAreSeen
  <2>4. ReadIsUnlinked'
    BY <1>12 DEF ReadFiles, Step, daemon, spool, signal, ReadIsUnlinked
  <2>5. MemoryIsDisk'
    BY <1>12 DEF ReadFiles, Step, daemon, spool, signal, MemoryIsDisk
  <2>6. SpoolHoldsLatest'
    BY <1>12 DEF ReadFiles, Step, daemon, spool, signal, SpoolHoldsLatest,
      NextBoot
  <2> QED  BY <2>1, <2>2, <2>3, <2>4, <2>5, <2>6
<1>13. CASE \E u \in Users : ReadNew(u)
  <2>0. PICK u \in Users : ReadNew(u)
    BY <1>13
  <2>1. OneRunPerUser'
    BY <2>0 DEF ReadNew, Step, daemon, spool, signal, OneRunPerUser, User
  <2>2. MarkAfterUnlink'
    BY <2>0 DEF ReadNew, Step, daemon, spool, signal, MarkAfterUnlink, At,
      User
  <2>3. MarksAreSeen'
    BY <2>0 DEF ReadNew, Step, daemon, spool, signal, MarksAreSeen
  <2>4. ReadIsUnlinked'
    BY <2>0 DEF ReadNew, Step, daemon, spool, signal, ReadIsUnlinked,
      MarksAreSeen
  <2>5. MemoryIsDisk'
    BY <2>0 DEF ReadNew, Step, daemon, spool, signal, MemoryIsDisk
  <2>6. SpoolHoldsLatest'
    BY <2>0 DEF ReadNew, Step, daemon, spool, signal, SpoolHoldsLatest,
      NextBoot
  <2> QED  BY <2>1, <2>2, <2>3, <2>4, <2>5, <2>6
<1>14. CASE SaveNew
  <2>1. OneRunPerUser'
    BY <1>14 DEF SaveNew, Step, daemon, spool, signal, OneRunPerUser, User
  <2>2. MarkAfterUnlink'
    BY <1>14 DEF SaveNew, Step, daemon, spool, signal, MarkAfterUnlink, At,
      User
  <2>3. MarksAreSeen'
    BY <1>14 DEF SaveNew, Step, daemon, spool, signal, MarksAreSeen
  <2>4. ReadIsUnlinked'
    BY <1>14 DEF SaveNew, Step, daemon, spool, signal, ReadIsUnlinked
  <2>5. MemoryIsDisk'
    BY <1>14 DEF SaveNew, Step, daemon, spool, signal, MemoryIsDisk
  <2>6. SpoolHoldsLatest'
    BY <1>14 DEF SaveNew, Step, daemon, spool, signal, SpoolHoldsLatest,
      ReadIsUnlinked, NextBoot
  <2> QED  BY <2>1, <2>2, <2>3, <2>4, <2>5, <2>6
<1>15. CASE RemoveNew
  <2>1. OneRunPerUser'
    BY <1>15 DEF RemoveNew, Step, daemon, spool, signal, OneRunPerUser,
      User
  <2>2. MarkAfterUnlink'
    BY <1>15 DEF RemoveNew, Step, daemon, spool, signal, MarkAfterUnlink,
      At, User
  <2>3. MarksAreSeen'
    BY <1>15 DEF RemoveNew, Step, daemon, spool, signal, MarksAreSeen
  <2>4. ReadIsUnlinked'
    BY <1>15 DEF RemoveNew, Step, daemon, spool, signal, ReadIsUnlinked
  <2>5. MemoryIsDisk'
    BY <1>15 DEF RemoveNew, Step, daemon, spool, signal, MemoryIsDisk
  <2>6. SpoolHoldsLatest'
    BY <1>15 DEF RemoveNew, Step, daemon, spool, signal, SpoolHoldsLatest,
      ReadIsUnlinked, MemoryIsDisk, NextBoot
  <2> QED  BY <2>1, <2>2, <2>3, <2>4, <2>5, <2>6
<1>16. CASE EndSync
  <2>1. OneRunPerUser'
    BY <1>16 DEF EndSync, Step, daemon, spool, signal, OneRunPerUser, User
  <2>2. MarkAfterUnlink'
    BY <1>16 DEF EndSync, Step, daemon, spool, signal, MarkAfterUnlink, At,
      User
  <2>3. MarksAreSeen'
    BY <1>16 DEF EndSync, Step, daemon, spool, signal, MarksAreSeen
  <2>4. ReadIsUnlinked'
    BY <1>16 DEF EndSync, Step, daemon, spool, signal, ReadIsUnlinked
  <2>5. MemoryIsDisk'
    BY <1>16 DEF EndSync, Step, daemon, spool, signal, MemoryIsDisk
  <2>6. SpoolHoldsLatest'
    BY <1>16 DEF EndSync, Step, daemon, spool, signal, SpoolHoldsLatest,
      NextBoot
  <2> QED  BY <2>1, <2>2, <2>3, <2>4, <2>5, <2>6
<1>17. CASE CheckHup
  <2>1. OneRunPerUser'
    BY <1>17 DEF CheckHup, Step, daemon, spool, signal, OneRunPerUser, User
  <2>2. MarkAfterUnlink'
    BY <1>17 DEF CheckHup, Step, daemon, spool, signal, MarkAfterUnlink,
      At, User
  <2>3. MarksAreSeen'
    BY <1>17 DEF CheckHup, Step, daemon, spool, signal, MarksAreSeen
  <2>4. ReadIsUnlinked'
    BY <1>17 DEF CheckHup, Step, daemon, spool, signal, ReadIsUnlinked
  <2>5. MemoryIsDisk'
    BY <1>17 DEF CheckHup, Step, daemon, spool, signal, MemoryIsDisk
  <2>6. SpoolHoldsLatest'
    BY <1>17 DEF CheckHup, Step, daemon, spool, signal, SpoolHoldsLatest,
      NextBoot
  <2> QED  BY <2>1, <2>2, <2>3, <2>4, <2>5, <2>6
<1>18. CASE Start
  <2>1. OneRunPerUser'
    BY <1>18 DEF Start, Step, daemon, spool, signal, OneRunPerUser, User
  <2>2. MarkAfterUnlink'
    BY <1>18 DEF Start, Step, daemon, spool, signal, MarkAfterUnlink, At,
      User
  <2>3. MarksAreSeen'
    BY <1>18 DEF Start, Step, daemon, spool, signal, MarksAreSeen
  <2>4. ReadIsUnlinked'
    BY <1>18 DEF Start, Step, daemon, spool, signal, ReadIsUnlinked
  <2>5. MemoryIsDisk'
    BY <1>18 DEF Start, Step, daemon, spool, signal, MemoryIsDisk
  <2>6. SpoolHoldsLatest'
    BY <1>18 DEF Start, Step, daemon, spool, signal, SpoolHoldsLatest,
      NextBoot
  <2> QED  BY <2>1, <2>2, <2>3, <2>4, <2>5, <2>6
<1>19. CASE Exit
  <2>1. OneRunPerUser'
    BY <1>19 DEF Exit, Forget, Step, daemon, spool, signal, OneRunPerUser,
      User
  <2>2. MarkAfterUnlink'
    BY <1>19 DEF Exit, Forget, Step, daemon, spool, signal,
      MarkAfterUnlink, At, User
  <2>3. MarksAreSeen'
    BY <1>19 DEF Exit, Forget, Step, daemon, spool, signal, MarksAreSeen
  <2>4. ReadIsUnlinked'
    BY <1>19 DEF Exit, Forget, Step, daemon, spool, signal, ReadIsUnlinked
  <2>5. MemoryIsDisk'
    BY <1>19 DEF Exit, Forget, Step, daemon, spool, signal, MemoryIsDisk
  <2>6. SpoolHoldsLatest'
    BY <1>19 DEF Exit, Forget, Step, daemon, spool, signal,
      SpoolHoldsLatest, MemoryIsDisk, NextBoot
  <2> QED  BY <2>1, <2>2, <2>3, <2>4, <2>5, <2>6
<1>20. CASE UnlinkPidfile
  <2>1. OneRunPerUser'
    BY <1>20 DEF UnlinkPidfile, Forget, Step, daemon, spool, signal,
      OneRunPerUser, User
  <2>2. MarkAfterUnlink'
    BY <1>20 DEF UnlinkPidfile, Forget, Step, daemon, spool, signal,
      MarkAfterUnlink, At, User
  <2>3. MarksAreSeen'
    BY <1>20 DEF UnlinkPidfile, Forget, Step, daemon, spool, signal,
      MarksAreSeen
  <2>4. ReadIsUnlinked'
    BY <1>20 DEF UnlinkPidfile, Forget, Step, daemon, spool, signal,
      ReadIsUnlinked
  <2>5. MemoryIsDisk'
    BY <1>20 DEF UnlinkPidfile, Forget, Step, daemon, spool, signal,
      MemoryIsDisk
  <2>6. SpoolHoldsLatest'
    BY <1>20 DEF UnlinkPidfile, Forget, Step, daemon, spool, signal,
      SpoolHoldsLatest, NextBoot
  <2> QED  BY <2>1, <2>2, <2>3, <2>4, <2>5, <2>6
<1>21. CASE Killed
  <2>1. OneRunPerUser'
    BY <1>21 DEF Killed, Dies, Forget, Step, daemon, spool, signal,
      OneRunPerUser, User
  <2>2. MarkAfterUnlink'
    BY <1>21 DEF Killed, Dies, Forget, Step, daemon, spool, signal,
      MarkAfterUnlink, At, User
  <2>3. MarksAreSeen'
    BY <1>21 DEF Killed, Dies, Forget, Step, daemon, spool, signal,
      MarksAreSeen
  <2>4. ReadIsUnlinked'
    BY <1>21 DEF Killed, Dies, Forget, Step, daemon, spool, signal,
      ReadIsUnlinked
  <2>5. MemoryIsDisk'
    BY <1>21 DEF Killed, Dies, Forget, Step, daemon, spool, signal,
      MemoryIsDisk
  <2>6. SpoolHoldsLatest'
    BY <1>21 DEF Killed, Dies, Forget, Step, daemon, spool, signal,
      SpoolHoldsLatest, NextBoot
  <2> QED  BY <2>1, <2>2, <2>3, <2>4, <2>5, <2>6
<1>22. CASE PowerOff
  <2>1. OneRunPerUser'
    BY <1>22 DEF PowerOff, Dies, Forget, Idle, At, Step, daemon, spool,
      signal, OneRunPerUser, User
  <2>2. MarkAfterUnlink'
    BY <1>22 DEF PowerOff, Dies, Forget, Idle, At, Step, daemon, spool,
      signal, MarkAfterUnlink, User
  <2>3. MarksAreSeen'
    BY <1>22 DEF PowerOff, Dies, Forget, Idle, At, Step, daemon, spool,
      signal, MarksAreSeen
  <2>4. ReadIsUnlinked'
    BY <1>22 DEF PowerOff, Dies, Forget, Idle, At, Step, daemon, spool,
      signal, ReadIsUnlinked
  <2>5. MemoryIsDisk'
    BY <1>22 DEF PowerOff, Dies, Forget, Idle, At, Step, daemon, spool,
      signal, MemoryIsDisk
  <2>6. SpoolHoldsLatest'
    BY <1>22 DEF PowerOff, Dies, Forget, Idle, At, Step, daemon, spool,
      signal, SpoolHoldsLatest, NextBoot
  <2> QED  BY <2>1, <2>2, <2>3, <2>4, <2>5, <2>6
<1>23. CASE UNCHANGED vars
  BY <1>23 DEF vars, daemon, spool, signal, OneRunPerUser, MarkAfterUnlink,
    MarksAreSeen, ReadIsUnlinked, MemoryIsDisk, SpoolHoldsLatest, User, At,
    NextBoot
<1>24. CASE \E c \in Runs : Fcrontab(c)
  BY <1>1, <1>2, <1>3, <1>4, <1>5, <1>6, <1>24 DEF Fcrontab
<1>25. CASE Daemon
  BY <1>8, <1>9, <1>10, <1>11, <1>12, <1>13, <1>14, <1>15, <1>16, <1>17,
    <1>18, <1>19, <1>20, <1>25 DEF Daemon, Synchronize
<1>26. CASE \E c \in Runs : Fcronsighup(c)
  BY <1>7, <1>26
<1> HIDE DEF TypeOK, Versions, Ops, Writing
<1> QED  BY <1>21, <1>22, <1>23, <1>24, <1>25, <1>26 DEF Next

(* At every moment, so at every crash, the spool directory holds the last  *)
(* version each user installed, provided that no fcrontab installs one     *)
(* in the two windows named in Races and that fcron can write the disk.    *)
THEOREM LatestIsOnDisk ==
  ASSUME Races = {}
  PROVE  Spec => []SpoolHoldsLatest
<1>1. IInv /\ [Next]_vars => IInv'
  BY SpoolNext
<1>2. IInv => SpoolHoldsLatest
  BY DEF IInv
<1> QED  BY <1>1, <1>2, SpoolInit, PTL DEF Spec

(* Under the same conditions what fcron runs is what it would read back.   *)
THEOREM RestartChangesNothing ==
  ASSUME Races = {}
  PROVE  Spec => []LoadedIsSaved
<1>1. IInv /\ [Next]_vars => IInv'
  BY SpoolNext
<1>2. IInv => LoadedIsSaved
  BY DEF IInv, MemoryIsDisk, LoadedIsSaved
<1> QED  BY <1>1, <1>2, SpoolInit, PTL DEF Spec

-----------------------------------------------------------------------------
(* The signals.                                                            *)

(* Without a pid there is no daemon that would have to be signalled.       *)
SignalInv == TypeOK /\ SignalSent /\ (~pidfile => pc = "down")

LEMMA SignalNext == SignalInv /\ [Next]_vars => SignalInv'
<1> SUFFICES ASSUME SignalInv, [Next]_vars, TypeOK'
             PROVE  SignalInv'
  BY TypeNext DEF SignalInv
<1> USE SpoolAssumption DEF SignalInv, SignalSent, TypeOK, Signalling, Writing,
        daemon, spool, signal
<1>1. CASE \E c \in Runs, u \in Users, o \in Ops : Launch(c, u, o)
  BY <1>1 DEF Launch, Step, At
<1>2. CASE \E c \in Runs : UnlinkNew(c)
  BY <1>2 DEF UnlinkNew, Goes, At, User, Step
<1>3. CASE \E c \in Runs : MarkRemoved(c)
  BY <1>3 DEF MarkRemoved, Goes, At, User, Written, Idle, Step
<1>4. CASE \E c \in Runs : Install(c)
  BY <1>4 DEF Install, Goes, At, User, Written, Idle, Step
<1>5. CASE \E c \in Runs : InstallFails(c)
  BY <1>5 DEF InstallFails, Goes, At, User, Written, Idle, Step
<1>6. CASE \E c \in Runs : Interrupt(c)
  BY <1>6 DEF Interrupt, Goes, At, User, Idle, Step
<1>7. ASSUME NEW c \in Runs, Fcronsighup(c) PROVE SignalInv'
  <2>1. CASE OpenSigfile(c) \/ UnlinkSigfile(c) \/ CloseSigfile(c)
    <3>1. run'[c].pc \in Signalling /\ UNCHANGED <<pc, pidfile>>
      BY <2>1 DEF OpenSigfile, UnlinkSigfile, CloseSigfile, Opened, Moves, Goes
    <3> QED  BY <3>1
  <2>2. CASE Flock(c)
    <3>1. CASE Locked(run[c].fd)
      <4>1. PICK d \in Runs : run[d].pc = "sleep"
        BY <3>1 DEF Locked, At
      <4>2. run'[d].pc \in Signalling /\ UNCHANGED <<pc, pidfile>>
        BY <2>2, <4>1 DEF Flock, Moves, Goes, At
      <4> QED  BY <4>2
    <3>2. CASE ~Locked(run[c].fd)
      <4>1. run'[c].pc \in Signalling /\ UNCHANGED <<pc, pidfile>>
        BY <2>2, <3>2 DEF Flock, Moves, Goes
      <4> QED  BY <4>1
    <3> QED  BY <3>1, <3>2
  <2>3. CASE ReadPid(c)
    <3>1. UNCHANGED <<pc, pidfile>>
      BY <2>3 DEF ReadPid, Moves
    <3>2. CASE ~pidfile
      BY <3>1, <3>2
    <3>3. CASE Moves(c, "signal", "open")
      <4>1. run'[c].pc = "open"
        BY <3>3 DEF Moves, Goes
      <4> QED  BY <3>1, <4>1
    <3>4. CASE Moves(c, "signal", "kill")
      <4>1. run'[c].pc = "kill"
        BY <3>4 DEF Moves, Goes
      <4> QED  BY <3>1, <4>1
    <3> QED  BY <2>3, <3>2, <3>3, <3>4 DEF ReadPid
  <2>4. CASE Kill(c)
    BY <2>4 DEF Kill, Up
  <2> QED  BY <1>7, <2>1, <2>2, <2>3, <2>4 DEF Fcronsighup
<1>8. CASE Scan
  BY <1>8 DEF Scan, Step
<1>9. CASE \E u \in Users : DeleteFile(u)
  BY <1>9 DEF DeleteFile, Step
<1>10. CASE UnlinkFile
  BY <1>10 DEF UnlinkFile, Step
<1>11. CASE UnlinkMark
  BY <1>11 DEF UnlinkMark, Step
<1>12. CASE ReadFiles
  BY <1>12 DEF ReadFiles, Step
<1>13. CASE \E u \in Users : ReadNew(u)
  BY <1>13 DEF ReadNew, Step
<1>14. CASE SaveNew
  BY <1>14 DEF SaveNew, Step
<1>15. CASE RemoveNew
  BY <1>15 DEF RemoveNew, Step
<1>16. CASE EndSync
  BY <1>16 DEF EndSync, Step
<1>17. CASE CheckHup
  BY <1>17 DEF CheckHup, Step
<1>18. CASE Start
  BY <1>18 DEF Start, Step
<1>19. CASE Exit
  BY <1>19 DEF Exit, Forget, Step
<1>20. CASE UnlinkPidfile
  BY <1>20 DEF UnlinkPidfile, Forget, Step
<1>21. CASE Killed
  BY <1>21 DEF Killed, Dies, Forget, Step
<1>22. CASE PowerOff
  BY <1>22 DEF PowerOff, Dies, Forget, Idle, At, Step
<1>23. CASE UNCHANGED vars
  BY <1>23 DEF vars
<1> HIDE DEF SignalInv, SignalSent, TypeOK, Signalling, Writing
<1>24. CASE \E c \in Runs : Fcrontab(c)
  BY <1>1, <1>2, <1>3, <1>4, <1>5, <1>6, <1>24 DEF Fcrontab
<1>25. CASE Daemon
  BY <1>8, <1>9, <1>10, <1>11, <1>12, <1>13, <1>14, <1>15, <1>16, <1>17,
    <1>18, <1>19, <1>20, <1>25 DEF Daemon, Synchronize
<1> QED  BY <1>7, <1>21, <1>22, <1>23, <1>24, <1>25 DEF Next

(* Whatever the races: no change waits in the spool directory without a    *)
(* signal sent to the daemon since, or a fcronsighup that will send one,   *)
(* or a daemon that has still to read the directory.                       *)
THEOREM SignalsAreSent == Spec => []SignalSent
<1>1. Init => SignalInv
  BY TypeInit DEF Init, SignalInv, SignalSent
<1>2. SignalInv => SignalSent
  BY DEF SignalInv
<1> QED  BY <1>1, <1>2, SignalNext, PTL DEF Spec

=============================================================================
