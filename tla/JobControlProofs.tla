-------------------------- MODULE JobControlProofs --------------------------
(***************************************************************************)
(* Proofs about JobControl, for all fcrontabs, limits and environments: the *)
(* types, cf_running and cl_numexe, then serial_running, lavg_serial_running*)
(* and serial_once, and the limits that depend on them.                     *)
(***************************************************************************)
EXTENDS JobControl, KeptOrderProofs

-----------------------------------------------------------------------------
(* The queue kept by delete_file().                                        *)

(* What delete_file() leaves of a queue is a queue.                        *)
LEMMA WithoutType ==
  ASSUME NEW q \in Seq(Lines), NEW f
  PROVE  Without(q, f) \in Seq(Lines)
<1> DEFINE kept == {i \in 1..Len(q) : FileOf[q[i]] # f}
<1>1. Len(q) \in Nat /\ kept \in SUBSET (1..Len(q)) /\ \A i \in kept : q[i] \in Lines
  BY LenProperties, ElementOfSeq
<1> HIDE DEF kept
<1>2. Keep(q, kept) \in Seq(Lines)
  BY <1>1, KeepType
<1> QED  BY <1>2 DEF Without, kept

-----------------------------------------------------------------------------
(* Type correctness, by groups of variables.                               *)

QueuesType ==
  /\ numexe \in [Lines -> Int] /\ once \subseteq Lines
  /\ serialQ \in Seq(Lines) /\ lavgQ \in [Lines -> Int]

RunningType ==
  /\ exe \in [Pids -> Lines \cup {NoJob, Orphan}]
  /\ serial_running \in Int /\ lavg_serial_running \in Int
  /\ cf_running \in [Files -> Int]

ControlType ==
  /\ pc \in Labels /\ ret \in {"select", "check_suspend"}
  /\ goal \in {"boot", "hup", "usr1", "term"}
  /\ cur \in Lines \cup Files \cup {NoJob}
  /\ pc \in {"wait_all", "drop_file"} => cur \in Files
  /\ pc = "bootrun" => cur \in Lines
  /\ todo \subseteq Lines /\ asleep \subseteq Lines /\ loaded \subseteq Files

SignalsType ==
  /\ sigChld \in BOOLEAN /\ sigHup \in BOOLEAN
  /\ sigUsr1 \in BOOLEAN /\ sigTerm \in BOOLEAN
  /\ zombies \subseteq Pids

DiskType ==
  /\ spool \subseteq Files /\ pending \in [Files -> SUBSET {"new", "rm"}]
  /\ listed \in [Files -> SUBSET {"new", "rm", "file"}]
  /\ saved \in [Lines -> [num : Int, once : BOOLEAN]]

Typed == QueuesType /\ RunningType /\ ControlType /\ SignalsType /\ DiskType
           /\ events \in Nat

LEMMA TypedIsTypeOK == Typed => TypeOK
BY DEF Typed, TypeOK, QueuesType, RunningType, ControlType, SignalsType,
       DiskType

(* run_queue_job() only touches exe_list and the counter of the file.      *)
LEMMA RunQueueJobType ==
  ASSUME RunningType, events \in Nat, NEW l \in Lines, run_queue_job(l)
  PROVE  /\ exe' \in [Pids -> Lines \cup {NoJob, Orphan}]
         /\ cf_running' \in [Files -> Int] /\ events' \in Nat
<1>1. FileOf[l] \in Files
  BY JobControlAssumption
<1> QED  BY <1>1 DEF run_queue_job, RunningType, FreePids

LEMMA RunSerialJobType ==
  ASSUME QueuesType, RunningType, events \in Nat, run_serial_job
  PROVE  QueuesType' /\ RunningType' /\ events' \in Nat
<1>1. Head(serialQ) \in Lines /\ Tail(serialQ) \in Seq(Lines)
  BY HeadTailProperties DEF QueuesType, run_serial_job
<1>2. /\ exe' \in [Pids -> Lines \cup {NoJob, Orphan}]
      /\ cf_running' \in [Files -> Int] /\ events' \in Nat
  BY <1>1, RunQueueJobType DEF run_serial_job
<1> QED  BY <1>1, <1>2 DEF run_serial_job, QueuesType, RunningType

LEMMA RunLavgJobType ==
  ASSUME QueuesType, RunningType, events \in Nat, NEW l \in Lines,
         run_lavg_job(l)
  PROVE  QueuesType' /\ RunningType' /\ events' \in Nat
<1>1. /\ exe' \in [Pids -> Lines \cup {NoJob, Orphan}]
      /\ cf_running' \in [Files -> Int] /\ events' \in Nat
  BY RunQueueJobType DEF run_lavg_job
<1> QED  BY <1>1 DEF run_lavg_job, QueuesType, RunningType

LEMMA RunNormalJobType ==
  ASSUME QueuesType, RunningType, events \in Nat, NEW l \in Lines,
         run_normal_job(l)
  PROVE  QueuesType' /\ RunningType' /\ events' \in Nat
<1>1. CASE MayEnter(l, numexe[l], "exe_sev")
  <2>1. /\ exe' \in [Pids -> Lines \cup {NoJob, Orphan}]
        /\ cf_running' \in [Files -> Int] /\ events' \in Nat
    BY <1>1, RunQueueJobType DEF run_normal_job
  <2> QED  BY <1>1, <2>1 DEF run_normal_job, QueuesType, RunningType
<1>2. CASE ~MayEnter(l, numexe[l], "exe_sev")
  BY <1>2 DEF run_normal_job, QueuesType, RunningType, queues, running
<1> QED  BY <1>1, <1>2

LEMMA AddSerialJobType ==
  ASSUME QueuesType, NEW l \in Lines, NEW n \in Int, add_serial_job(l, n)
  PROVE  numexe' \in [Lines -> Int] /\ serialQ' \in Seq(Lines)
<1>1. Append(serialQ, l) \in Seq(Lines)
  BY AppendProperties DEF QueuesType
<1>2. numexe' \in [Lines -> Int]
  BY DEF add_serial_job, QueuesType
<1>3. serialQ' = Append(serialQ, l) \/ serialQ' = serialQ
  BY DEF add_serial_job
<1> QED  BY <1>1, <1>2, <1>3 DEF QueuesType

LEMMA AddLavgJobType ==
  ASSUME QueuesType, NEW l \in Lines, NEW n \in Int, add_lavg_job(l, n)
  PROVE  numexe' \in [Lines -> Int] /\ lavgQ' \in [Lines -> Int]
BY DEF add_lavg_job, QueuesType

LEMMA DispatchType ==
  ASSUME QueuesType, RunningType, events \in Nat, NEW l \in Lines, Dispatch(l)
  PROVE  QueuesType' /\ RunningType' /\ events' \in Nat
<1>0. numexe[l] \in Int
  BY DEF QueuesType
<1>1. CASE /\ is_lavg(l)
           /\ add_lavg_job(l, numexe[l])
           /\ UNCHANGED <<once, serialQ, running, events>>
  <2>1. numexe' \in [Lines -> Int] /\ lavgQ' \in [Lines -> Int]
    BY <1>0, <1>1, AddLavgJobType
  <2> QED  BY <1>1, <2>1 DEF QueuesType, RunningType, running
<1>2. CASE /\ ~is_lavg(l) /\ is_serial(l)
           /\ add_serial_job(l, numexe[l])
           /\ UNCHANGED <<once, lavgQ, running, events>>
  <2>1. numexe' \in [Lines -> Int] /\ serialQ' \in Seq(Lines)
    BY <1>0, <1>2, AddSerialJobType
  <2> QED  BY <1>2, <2>1 DEF QueuesType, RunningType, running
<1>3. CASE run_normal_job(l)
  BY <1>3, RunNormalJobType
<1> QED  BY <1>1, <1>2, <1>3 DEF Dispatch

LEMMA BootrunJobType ==
  ASSUME QueuesType, NEW l \in Lines, NEW missed \in BOOLEAN,
         BootrunJob(l, missed)
  PROVE  QueuesType'
<1>1. numexe[l] \in Int
  BY DEF QueuesType
<1>2. CASE UNCHANGED queues
  BY <1>2 DEF queues, QueuesType
<1>3. CASE /\ add_lavg_job(l, numexe[l])
           /\ UNCHANGED <<once, serialQ>>
  BY <1>1, <1>3, AddLavgJobType DEF QueuesType
<1>4. CASE /\ add_serial_job(l, numexe[l])
           /\ once' = once \cup {l}
           /\ UNCHANGED lavgQ
  BY <1>1, <1>4, AddSerialJobType DEF QueuesType
<1> QED  BY <1>2, <1>3, <1>4 DEF BootrunJob

(* The jobs of a set of processes are a finite number.                     *)
LEMMA PidsFinite ==
  ASSUME NEW S \in SUBSET Pids
  PROVE  IsFiniteSet(S) /\ Cardinality(S) \in Nat
BY JobControlAssumption, FS_Subset, FS_CardinalityType

LEMMA DeleteFileType ==
  ASSUME QueuesType, RunningType, NEW f \in Files, delete_file(f)
  PROVE  QueuesType' /\ RunningType'
<1>1. serial_running' \in Int /\ lavg_serial_running' \in Int
  <2> DEFINE S == {p \in RunningOf(f) : CountedSerial(exe[p]) /\ ~is_lavg(exe[p])}
             L == {p \in RunningOf(f) : CountedLavg(exe[p])}
  <2>1. S \in SUBSET Pids /\ L \in SUBSET Pids
    BY DEF RunningOf
  <2>2. Cardinality(S) \in Nat /\ Cardinality(L) \in Nat
    BY <2>1, PidsFinite
  <2> HIDE DEF S, L
  <2>3. serial_running' = serial_running - Cardinality(S)
    BY DEF delete_file, S
  <2>4. lavg_serial_running' = lavg_serial_running - Cardinality(L)
    BY DEF delete_file, L
  <2> QED  BY <2>2, <2>3, <2>4 DEF RunningType
<1>2. serialQ' \in Seq(Lines)
  BY WithoutType DEF delete_file, QueuesType
<1>3. exe' \in [Pids -> Lines \cup {NoJob, Orphan}]
  BY DEF delete_file, RunningType
<1>4. cf_running' \in [Files -> Int]
  BY DEF delete_file, RunningType
<1>5. numexe' \in [Lines -> Int] /\ lavgQ' \in [Lines -> Int]
  BY DEF delete_file, QueuesType
<1>6. once' \subseteq Lines
  BY DEF delete_file, QueuesType
<1> QED  BY <1>1, <1>2, <1>3, <1>4, <1>5, <1>6 DEF QueuesType, RunningType

LEMMA WaitedType ==
  ASSUME QueuesType, RunningType, SignalsType, NEW p \in Pids, Waited(p)
  PROVE  /\ zombies' \subseteq Pids
         /\ exe' \in [Pids -> Lines \cup {NoJob, Orphan}]
         /\ numexe' \in [Lines -> Int] /\ once' \subseteq Lines
         /\ cf_running' \in [Files -> Int]
<1>1. CASE exe[p] \in Lines
  <2>1. FileOf[exe[p]] \in Files
    BY <1>1, JobControlAssumption
  <2> QED  BY <1>1, <2>1 DEF Waited, QueuesType, RunningType, SignalsType
<1>2. CASE exe[p] \notin Lines
  BY <1>2 DEF Waited, QueuesType, RunningType, SignalsType
<1> QED  BY <1>1, <1>2

LEMMA SaveFileType ==
  ASSUME QueuesType, DiskType, NEW F, SaveFile(F)
  PROVE  saved' \in [Lines -> [num : Int, once : BOOLEAN]]
BY DEF SaveFile, QueuesType, DiskType

-----------------------------------------------------------------------------
(* Type correctness.                                                       *)

LEMMA InitType == Init => Typed
<1> SUFFICES ASSUME Init PROVE Typed
  OBVIOUS
<1>1. <<>> \in Seq(Lines) /\ 0 \in Nat /\ 0 \in Int
  BY EmptySeq
<1>2. QueuesType /\ RunningType
  BY <1>1 DEF Init, QueuesType, RunningType
<1>3. ControlType /\ SignalsType
  BY DEF Init, ControlType, SignalsType, Labels
<1>4. DiskType /\ events \in Nat
  BY DEF Init, DiskType, NotSaved
<1> QED  BY <1>2, <1>3, <1>4 DEF Typed

LEMMA BootType ==
  ASSUME Boot
  PROVE  QueuesType' /\ RunningType' /\ ControlType' /\ SignalsType'
<1>1. <<>> \in Seq(Lines) /\ 0 \in Int
  BY EmptySeq
<1>2. QueuesType' /\ RunningType'
  BY <1>1 DEF Boot, QueuesType, RunningType
<1> QED  BY <1>2 DEF Boot, Goto, ControlType, SignalsType, Labels

LEMMA MainLoopType ==
  ASSUME Typed, MainLoop
  PROVE  Typed'
<1> USE DEF Typed
<1>a. QueuesType /\ RunningType /\ ControlType /\ SignalsType /\ DiskType
        /\ events \in Nat
  OBVIOUS
<1>b. ASSUME UNCHANGED <<control, loaded, zombies, signals, disk>>
      PROVE  ControlType' /\ SignalsType' /\ DiskType'
  BY <1>a, <1>b DEF control, signals, disk, ControlType, SignalsType, DiskType
<1>c. ASSUME UNCHANGED <<queues, running>>
      PROVE  QueuesType' /\ RunningType'
  BY <1>a, <1>c DEF queues, running, QueuesType, RunningType
<1>d. ASSUME UNCHANGED <<zombies, signals>>
      PROVE  SignalsType'
  BY <1>a, <1>d DEF signals, SignalsType
<1>e. ASSUME UNCHANGED disk
      PROVE  DiskType'
  BY <1>a, <1>e DEF disk, DiskType
<1>1. CASE Wake
  BY <1>1, <1>a, <1>c, <1>d, <1>e
     DEF Wake, check_signal, Goto, ControlType, Labels
<1>2. ASSUME NEW l \in Lines, test_jobs(l) PROVE Typed'
  BY <1>2, <1>a, <1>b, DispatchType DEF test_jobs
<1>3. ASSUME NEW from, NEW to \in Labels \ {"wait_all", "drop_file", "bootrun"},
             EndOfPart(from, to)
      PROVE  Typed'
  BY <1>3, <1>a, <1>c, <1>d, <1>e DEF EndOfPart, Goto, ControlType
<1>4. CASE RunSerial
  BY <1>4, <1>a, <1>b, RunSerialJobType DEF RunSerial
<1>5. CASE EndSerial
  BY <1>5, <1>3 DEF EndSerial, Labels
<1>6. CASE Save
  <2>1. saved' \in [Lines -> [num : Int, once : BOOLEAN]]
    BY <1>6, <1>a, SaveFileType DEF Save
  <2>2. ControlType' /\ DiskType'
    BY <1>6, <1>a, <2>1 DEF Save, Goto, ControlType, DiskType, Labels
  <2> QED  BY <1>6, <1>a, <1>c, <1>d, <2>2 DEF Save
<1>7. ASSUME NEW l \in Lines, cmd_run(l) PROVE Typed'
  BY <1>7, <1>a, <1>b, DispatchType DEF cmd_run
<1>8. ASSUME NEW l \in Lines, LavgLate(l) PROVE Typed'
  <2>1. CASE run_lavg_job(l)
    BY <1>8, <2>1, <1>a, <1>b, RunLavgJobType DEF LavgLate
  <2>2. CASE /\ lavgQ' = [lavgQ EXCEPT ![l] = @ - 1]
             /\ numexe' = [numexe EXCEPT ![l] = @ - 1]
             /\ UNCHANGED <<once, serialQ, running, events>>
    <3>1. QueuesType' /\ RunningType'
      BY <2>2, <1>a DEF QueuesType, RunningType, running
    <3> QED  BY <1>8, <2>2, <3>1, <1>a, <1>b DEF LavgLate
  <2> QED  BY <1>8, <2>1, <2>2 DEF LavgLate
<1>9. ASSUME NEW l \in Lines, LavgAllowed(l) PROVE Typed'
  BY <1>9, <1>a, <1>b, RunLavgJobType DEF LavgAllowed
<1>10. CASE EndLoop
  BY <1>10, <1>a, <1>c, <1>d, <1>e
     DEF EndLoop, check_signal, Goto, ControlType, Labels
<1>11. CASE CheckSuspend \/ EndResume
  <2>1. ControlType'
    BY <1>11, <1>a DEF CheckSuspend, EndResume, Goto, LoadedLines, ControlType,
                       Labels
  <2>2. events' \in Nat
    BY <1>11, <1>a DEF CheckSuspend, EndResume, EnvEvent
  <2> QED  BY <1>11, <1>c, <1>d, <1>e, <2>1, <2>2 DEF CheckSuspend, EndResume
<1>12. ASSUME NEW l \in Lines, NEW missed \in BOOLEAN, ResumeLine(l, missed)
       PROVE  Typed'
  <2>1. QueuesType'
    BY <1>12, <1>a, BootrunJobType DEF ResumeLine
  <2>2. RunningType'
    BY <1>12, <1>a DEF ResumeLine, running, RunningType
  <2>3. ControlType'
    BY <1>12, <1>a DEF ResumeLine, ControlType
  <2> QED  BY <1>12, <1>a, <1>d, <1>e, <2>1, <2>2, <2>3 DEF ResumeLine
<1> QED
  BY <1>1, <1>2, <1>3, <1>4, <1>5, <1>6, <1>7, <1>8, <1>9, <1>10, <1>11, <1>12
     DEF MainLoop, Labels

LEMMA CheckSignalType ==
  ASSUME Typed, CheckSignal
  PROVE  Typed'
<1> USE DEF Typed
<1>b. ASSUME UNCHANGED disk
      PROVE  DiskType'
  BY <1>b DEF disk, DiskType
<1>c. ASSUME UNCHANGED <<queues, running>>
      PROVE  QueuesType' /\ RunningType'
  BY <1>c DEF queues, running, QueuesType, RunningType
<1>1. ASSUME NEW p \in Pids, wait_chld(p) PROVE Typed'
  <2>1. /\ zombies' \subseteq Pids
        /\ exe' \in [Pids -> Lines \cup {NoJob, Orphan}]
        /\ numexe' \in [Lines -> Int] /\ once' \subseteq Lines
        /\ cf_running' \in [Files -> Int]
    BY <1>1, WaitedType DEF wait_chld
  <2>2. QueuesType'
    BY <1>1, <2>1 DEF wait_chld, QueuesType
  <2>3. RunningType'
    BY <1>1, <2>1 DEF wait_chld, RunningType
  <2>4. pc' \in {pc, "wait_chld", "next_serial"}
    BY <1>1 DEF wait_chld, Goto
  <2>5. ControlType' /\ SignalsType'
    BY <1>1, <2>1, <2>4
       DEF wait_chld, ControlType, SignalsType, signals, Labels
  <2> QED  BY <1>1, <1>b, <2>2, <2>3, <2>5 DEF wait_chld
<1>2. CASE RunNextSerial
  <2>1. QueuesType' /\ RunningType' /\ events' \in Nat
    BY <1>2, RunSerialJobType DEF RunNextSerial
  <2>2. ControlType' /\ SignalsType'
    BY <1>2 DEF RunNextSerial, Goto, ControlType, SignalsType, signals, Labels
  <2> QED  BY <1>2, <1>b, <2>1, <2>2 DEF RunNextSerial
<1>3. CASE EndWaitChld \/ ClearChld
  <2>1. ControlType' /\ SignalsType'
    BY <1>3 DEF EndWaitChld, ClearChld, Goto, ControlType, SignalsType,
                signals, Labels
  <2> QED  BY <1>3, <1>b, <1>c, <2>1 DEF EndWaitChld, ClearChld
<1>4. CASE CheckTerm
  <2>1. saved' \in [Lines -> [num : Int, once : BOOLEAN]]
    <3>1. CASE sigTerm
      BY <1>4, <3>1, SaveFileType DEF CheckTerm
    <3>2. CASE ~sigTerm
      BY <1>4, <3>2 DEF CheckTerm, DiskType
    <3> QED  BY <3>1, <3>2
  <2>2. ControlType' /\ SignalsType' /\ DiskType'
    BY <1>4, <2>1 DEF CheckTerm, Goto, ControlType, SignalsType, DiskType,
                      Labels
  <2> QED  BY <1>4, <1>c, <2>2 DEF CheckTerm
<1>5. CASE CheckHup \/ CheckUsr1
  <2>1. ControlType' /\ SignalsType'
    BY <1>5 DEF CheckHup, CheckUsr1, Goto, ControlType, SignalsType, signals,
                Labels
  <2> QED  BY <1>5, <1>b, <1>c, <2>1 DEF CheckHup, CheckUsr1
<1> QED  BY <1>1, <1>2, <1>3, <1>4, <1>5 DEF CheckSignal

LEMMA ReloadType ==
  ASSUME Typed, Reload
  PROVE  Typed'
<1> USE DEF Typed
<1>b. ASSUME UNCHANGED disk
      PROVE  DiskType'
  BY <1>b DEF disk, DiskType
<1>c. ASSUME UNCHANGED <<queues, running>>
      PROVE  QueuesType' /\ RunningType'
  BY <1>c DEF queues, running, QueuesType, RunningType
<1>1. ASSUME NEW f \in Files, DrainFile(f) PROVE Typed'
  <2>1. ControlType' /\ SignalsType'
    BY <1>1 DEF DrainFile, Goto, ControlType, SignalsType, signals, Labels
  <2> QED  BY <1>1, <1>b, <1>c, <2>1 DEF DrainFile
<1>2. ASSUME NEW p \in Pids, wait_all(p) PROVE Typed'
  <2>1. /\ zombies' \subseteq Pids
        /\ exe' \in [Pids -> Lines \cup {NoJob, Orphan}]
        /\ numexe' \in [Lines -> Int] /\ once' \subseteq Lines
        /\ cf_running' \in [Files -> Int]
    BY <1>2, WaitedType DEF wait_all
  <2>2. QueuesType' /\ RunningType'
    BY <1>2, <2>1 DEF wait_all, QueuesType, RunningType
  <2>3. ControlType' /\ SignalsType'
    BY <1>2, <2>1 DEF wait_all, control, ControlType, SignalsType, signals
  <2> QED  BY <1>2, <1>b, <2>2, <2>3 DEF wait_all
<1>3. CASE EndWaitAll
  <2>1. saved' \in [Lines -> [num : Int, once : BOOLEAN]]
    BY <1>3, SaveFileType DEF EndWaitAll, DiskType
  <2>2. ControlType' /\ SignalsType' /\ DiskType'
    BY <1>3, <2>1 DEF EndWaitAll, Goto, ControlType, SignalsType, DiskType,
                      signals, Labels
  <2> QED  BY <1>3, <1>c, <2>2 DEF EndWaitAll
<1>4. CASE DropFile
  <2>1. saved' \in [Lines -> [num : Int, once : BOOLEAN]]
    BY <1>4, SaveFileType DEF DropFile, DiskType
  <2>2. QueuesType' /\ RunningType'
    BY <1>4, DeleteFileType DEF DropFile, ControlType
  <2>3. ControlType' /\ SignalsType' /\ DiskType'
    BY <1>4, <2>1 DEF DropFile, Goto, ControlType, SignalsType, DiskType,
                      signals, Labels
  <2> QED  BY <1>4, <2>2, <2>3 DEF DropFile
<1>5. CASE EndDrain
  <2>1. CASE goal = "term"
    BY <1>5, <2>1, <1>b, BootType DEF EndDrain
  <2>2. CASE goal # "term"
    <3>1. ControlType' /\ SignalsType'
      BY <1>5, <2>2 DEF EndDrain, Goto, ControlType, SignalsType, signals,
                        Labels
    <3> QED  BY <1>5, <2>2, <1>b, <1>c, <3>1 DEF EndDrain
  <2> QED  BY <2>1, <2>2
<1> QED  BY <1>1, <1>2, <1>3, <1>4, <1>5 DEF Reload

LEMMA SynchronizeType ==
  ASSUME Typed, Synchronize
  PROVE  Typed'
<1> USE DEF Typed
<1>b. ASSUME UNCHANGED disk
      PROVE  DiskType'
  BY <1>b DEF disk, DiskType
<1>c. ASSUME UNCHANGED <<queues, running>>
      PROVE  QueuesType' /\ RunningType'
  BY <1>c DEF queues, running, QueuesType, RunningType
<1>d. ASSUME NEW f \in Files,
             IF f \in loaded THEN delete_file(f) ELSE UNCHANGED <<queues, running>>
      PROVE  QueuesType' /\ RunningType'
  BY <1>c, <1>d, DeleteFileType
<1>0. CASE Scan
  <2>1. ControlType' /\ SignalsType' /\ DiskType'
    BY <1>0 DEF Scan, Goto, ControlType, SignalsType, DiskType, signals, Labels
  <2> QED  BY <1>0, <1>c, <2>1 DEF Scan
<1>1. ASSUME NEW f \in Files, SyncRm(f) PROVE Typed'
  <2>1. QueuesType' /\ RunningType'
    BY <1>1, <1>d DEF SyncRm
  <2>2. ControlType' /\ SignalsType' /\ DiskType'
    BY <1>1 DEF SyncRm, control, signals, ControlType, SignalsType, DiskType
  <2> QED  BY <1>1, <2>1, <2>2 DEF SyncRm
<1>2. CASE EndSyncRm
  <2>1. ControlType' /\ SignalsType'
    BY <1>2 DEF EndSyncRm, Goto, ControlType, SignalsType, DiskType, signals,
                Labels
  <2> QED  BY <1>2, <1>b, <1>c, <2>1 DEF EndSyncRm
<1>3. ASSUME NEW l \in Lines, LoadLine(l) PROVE Typed'
  <2>1. QueuesType'
    <3>1. once' \subseteq Lines
      BY <1>3 DEF LoadLine, QueuesType
    <3>2. CASE add_lavg_job(l, 0) /\ UNCHANGED serialQ
      BY <3>1, <3>2, AddLavgJobType DEF QueuesType
    <3>3. CASE add_serial_job(l, 0) /\ UNCHANGED lavgQ
      BY <3>1, <3>3, AddSerialJobType DEF QueuesType
    <3>4. CASE UNCHANGED <<numexe, lavgQ, serialQ>>
      BY <3>1, <3>4 DEF QueuesType
    <3>5. CASE /\ numexe' = [numexe EXCEPT ![l] = saved[l].num]
               /\ UNCHANGED <<serialQ, lavgQ>>
      <4>1. saved[l].num \in Int
        BY DEF DiskType
      <4> QED  BY <3>1, <3>5, <4>1 DEF QueuesType
    <3> QED  BY <1>3, <3>2, <3>3, <3>4, <3>5 DEF LoadLine
  <2>2. RunningType'
    BY <1>3 DEF LoadLine, running, RunningType
  <2>3. ControlType' /\ SignalsType'
    BY <1>3 DEF LoadLine, Goto, ControlType, SignalsType, signals, Labels
  <2> QED  BY <1>3, <1>b, <2>1, <2>2, <2>3 DEF LoadLine
<1>4. ASSUME NEW missed \in BOOLEAN, Bootrun(missed) PROVE Typed'
  <2>1. cur \in Lines
    BY <1>4 DEF Bootrun, ControlType
  <2>2. QueuesType'
    BY <1>4, <2>1, BootrunJobType DEF Bootrun
  <2>3. RunningType'
    BY <1>4 DEF Bootrun, running, RunningType
  <2>4. ControlType' /\ SignalsType'
    BY <1>4 DEF Bootrun, Goto, ControlType, SignalsType, signals, Labels
  <2> QED  BY <1>4, <1>b, <2>2, <2>3, <2>4 DEF Bootrun
<1>5. CASE EndLoad
  <2>1. ControlType' /\ SignalsType'
    BY <1>5 DEF EndLoad, Goto, ControlType, SignalsType, signals, Labels
  <2> QED  BY <1>5, <1>b, <1>c, <2>1 DEF EndLoad
<1>6. ASSUME NEW f \in Files, SyncNew(f) PROVE Typed'
  <2>1. QueuesType' /\ RunningType'
    BY <1>6, <1>c, <1>d DEF SyncNew
  <2>2. ControlType' /\ SignalsType'
    BY <1>6 DEF SyncNew, control, signals, ControlType, SignalsType
  <2>3. DiskType'
    <3>1. listed' \in [Files -> SUBSET {"new", "rm", "file"}]
      BY <1>6 DEF SyncNew, DiskType
    <3>2. CASE "new" \notin pending[f]
      BY <1>6, <3>1, <3>2 DEF SyncNew, DiskType
    <3>3. CASE "new" \in pending[f]
      <4>1. saved' \in [Lines -> [num : Int, once : BOOLEAN]]
        <5>1. NotSaved \in [num : Int, once : BOOLEAN]
          BY DEF NotSaved
        <5>2. saved' = [l \in Lines |->
                         IF FileOf[l] = f THEN NotSaved ELSE saved[l]]
          BY <1>6, <3>3 DEF SyncNew
        <5> QED  BY <5>1, <5>2 DEF DiskType
      <4>2. pending' \in [Files -> SUBSET {"new", "rm"}]
        BY <1>6, <3>3 DEF SyncNew, DiskType
      <4> QED  BY <1>6, <3>1, <3>3, <4>1, <4>2 DEF SyncNew, DiskType
    <3> QED  BY <3>2, <3>3
  <2> QED  BY <1>6, <2>1, <2>2, <2>3 DEF SyncNew
<1>7. CASE EndSync
  <2>1. /\ pc' \in {"select", "check_suspend", "check_usr1"}
        /\ sigHup' \in BOOLEAN /\ sigUsr1' \in BOOLEAN
    <3>1. CASE goal = "boot"
      BY <1>7, <3>1 DEF EndSync, Goto, SignalsType
    <3>2. CASE goal = "hup"
      BY <1>7, <3>2 DEF EndSync, Goto, SignalsType
    <3>3. CASE goal = "usr1"
      BY <1>7, <3>3 DEF EndSync, Goto, SignalsType, ControlType
    <3>4. goal \in {"boot", "hup", "usr1"}
      BY <1>7 DEF EndSync
    <3> QED  BY <3>1, <3>2, <3>3, <3>4
  <2>2. ControlType'
    BY <1>7, <2>1 DEF EndSync, ControlType, Labels
  <2>3. SignalsType'
    BY <1>7, <2>1 DEF EndSync, SignalsType
  <2> QED  BY <1>7, <1>b, <1>c, <2>2, <2>3 DEF EndSync
<1> QED  BY <1>0, <1>1, <1>2, <1>3, <1>4, <1>5, <1>6, <1>7 DEF Synchronize

LEMMA EnvironmentType ==
  ASSUME Typed, Environment
  PROVE  Typed'
<1> USE DEF Typed
<1>b. ASSUME UNCHANGED disk
      PROVE  DiskType'
  BY <1>b DEF disk, DiskType
<1>c. ASSUME UNCHANGED <<control, loaded, queues, running>>
      PROVE  QueuesType' /\ RunningType' /\ ControlType'
  BY <1>c DEF control, queues, running, QueuesType, RunningType, ControlType
<1>d. ASSUME NEW name, EnvEvent(name)
      PROVE  events' \in Nat
  BY <1>d DEF EnvEvent
<1>1. ASSUME NEW p \in Pids, JobExit(p) PROVE Typed'
  <2>1. SignalsType'
    BY <1>1 DEF JobExit, SignalsType
  <2> QED  BY <1>1, <1>b, <1>c, <2>1 DEF JobExit
<1>2. ASSUME NEW f \in Files, NEW kind \in {"new", "rm"}, Edit(f, kind)
      PROVE  Typed'
  <2>1. SignalsType' /\ DiskType'
    BY <1>2 DEF Edit, SignalsType, DiskType
  <2> QED  BY <1>2, <1>c, <1>d, <2>1 DEF Edit
<1>3. CASE Usr1
  <2>1. SignalsType'
    BY <1>3 DEF Usr1, SignalsType
  <2> QED  BY <1>3, <1>b, <1>c, <1>d, <2>1 DEF Usr1
<1>4. CASE Term
  <2>1. SignalsType'
    BY <1>4 DEF Term, SignalsType
  <2> QED  BY <1>4, <1>b, <1>c, <1>d, <2>1 DEF Term
<1>5. CASE Crash
  BY <1>5, <1>b, <1>d, BootType DEF Crash
<1> QED  BY <1>1, <1>2, <1>3, <1>4, <1>5 DEF Environment

LEMMA NextType ==
  ASSUME Typed, [Next]_vars
  PROVE  Typed'
<1>1. CASE UNCHANGED vars
  BY <1>1 DEF vars, control, queues, running, signals, disk, Typed, QueuesType,
              RunningType, ControlType, SignalsType, DiskType
<1>2. CASE Next
  BY <1>2, MainLoopType, CheckSignalType, ReloadType, SynchronizeType,
     EnvironmentType DEF Next, Daemon
<1> QED  BY <1>1, <1>2

(* The variables keep their types, whatever the fcrontabs, the limits and  *)
(* the events: in particular delete_file() always leaves a queue of lines, *)
(* and no step of main_loop() handles a file or a line that does not exist.*)
THEOREM TypeCorrect == Spec => []TypeOK
<1>1. Spec => []Typed
  BY InitType, NextType, PTL DEF Spec
<1> QED  BY <1>1, TypedIsTypeOK, PTL

-----------------------------------------------------------------------------
(* cf_running counts the jobs of each file.                                *)

(* A job of the file of l enters exe_list.                                 *)
LEMMA RunQueueJobCf ==
  ASSUME RunningType, CfRunningExact, NEW l \in Lines, run_queue_job(l)
  PROVE  CfRunningExact'
<1>1. CASE UNCHANGED <<exe, cf_running>>
  BY <1>1 DEF CfRunningExact, RunningOf
<1>2. CASE \E p \in FreePids :
             /\ exe' = [exe EXCEPT ![p] = l]
             /\ cf_running' = [cf_running EXCEPT ![FileOf[l]] = @ + 1]
  <2>1. PICK p \in FreePids :
             /\ exe' = [exe EXCEPT ![p] = l]
             /\ cf_running' = [cf_running EXCEPT ![FileOf[l]] = @ + 1]
    BY <1>2
  <2>2. p \in Pids /\ exe[p] \notin Lines
    BY JobControlAssumption DEF FreePids
  <2>3. \A f \in Files : /\ RunningOf(f) \in SUBSET Pids
                         /\ IsFiniteSet(RunningOf(f))
                         /\ Cardinality(RunningOf(f)) \in Nat
    BY PidsFinite DEF RunningOf
  <2>4. ASSUME NEW f \in Files PROVE cf_running'[f] = Cardinality(RunningOf(f)')
    <3>1. CASE f = FileOf[l]
      <4>1. RunningOf(f)' = RunningOf(f) \cup {p} /\ p \notin RunningOf(f)
        BY <2>1, <2>2, <3>1 DEF RunningOf, LinesOf, RunningType
      <4>2. Cardinality(RunningOf(f)') = Cardinality(RunningOf(f)) + 1
        BY <2>3, <4>1, FS_AddElement
      <4> QED  BY <2>1, <3>1, <4>2 DEF CfRunningExact, RunningType
    <3>2. CASE f # FileOf[l]
      <4>1. RunningOf(f)' = RunningOf(f)
        BY <2>1, <2>2, <3>2 DEF RunningOf, LinesOf, RunningType
      <4> QED  BY <2>1, <3>2, <4>1 DEF CfRunningExact, RunningType
    <3> QED  BY <3>1, <3>2
  <2> QED  BY <2>4 DEF CfRunningExact
<1> QED  BY <1>1, <1>2 DEF run_queue_job

LEMMA DispatchCf ==
  ASSUME RunningType, CfRunningExact, NEW l \in Lines, Dispatch(l)
  PROVE  CfRunningExact'
<1>1. CASE UNCHANGED running
  BY <1>1 DEF running, CfRunningExact, RunningOf
<1>2. CASE run_normal_job(l)
  BY <1>1, <1>2, RunQueueJobCf DEF run_normal_job
<1> QED  BY <1>1, <1>2 DEF Dispatch

(* The jobs of the file lose their line, and it has no job left.           *)
LEMMA DeleteFileCf ==
  ASSUME RunningType, CfRunningExact, NEW f \in Files, delete_file(f)
  PROVE  CfRunningExact'
<1> SUFFICES ASSUME NEW g \in Files
             PROVE  cf_running'[g] = Cardinality(RunningOf(g)')
  BY DEF CfRunningExact
<1>1. CASE g = f
  <2>1. RunningOf(g)' = {}
    BY <1>1, JobControlAssumption
       DEF delete_file, RunningOf, LinesOf, RunningType
  <2> QED  BY <1>1, <2>1, FS_EmptySet DEF delete_file, RunningType
<1>2. CASE g # f
  <2>1. RunningOf(g)' = RunningOf(g)
    BY <1>2, JobControlAssumption
       DEF delete_file, RunningOf, LinesOf, RunningType
  <2> QED  BY <1>2, <2>1 DEF delete_file, RunningType, CfRunningExact
<1> QED  BY <1>1, <1>2

LEMMA WaitedCf ==
  ASSUME RunningType, CfRunningExact, NEW p \in Pids, Waited(p)
  PROVE  CfRunningExact'
<1> SUFFICES ASSUME NEW f \in Files
             PROVE  cf_running'[f] = Cardinality(RunningOf(f)')
  BY DEF CfRunningExact
<1>1. /\ IsFiniteSet(RunningOf(f)) /\ Cardinality(RunningOf(f)) \in Nat
      /\ cf_running[f] = Cardinality(RunningOf(f))
  BY PidsFinite DEF RunningOf, CfRunningExact
<1>2. CASE p \in RunningOf(f)
  <2>1. RunningOf(f)' = RunningOf(f) \ {p}
    BY <1>2, JobControlAssumption DEF Waited, RunningOf, LinesOf, RunningType
  <2>2. cf_running'[f] = cf_running[f] - 1
    BY <1>2 DEF Waited, RunningOf, LinesOf, RunningType
  <2> QED  BY <1>1, <1>2, <2>1, <2>2, FS_RemoveElement
<1>3. CASE p \notin RunningOf(f)
  <2>1. RunningOf(f)' = RunningOf(f)
    BY <1>3, JobControlAssumption DEF Waited, RunningOf, LinesOf, RunningType
  <2>2. cf_running'[f] = cf_running[f]
    BY <1>3 DEF Waited, RunningOf, LinesOf, RunningType
  <2> QED  BY <1>1, <2>1, <2>2
<1> QED  BY <1>2, <1>3

LEMMA BootCf ==
  ASSUME Boot
  PROVE  CfRunningExact'
<1>1. \A f \in Files : RunningOf(f)' = {}
  BY JobControlAssumption DEF Boot, RunningOf, LinesOf
<1> QED  BY <1>1, FS_EmptySet DEF Boot, CfRunningExact

(* A daemon that has no child runs no job of any file.                     *)
LEMMA NoChildNoJob ==
  ASSUME CfRunningExact, NEW f \in Files, \A p \in Pids : exe[p] = NoJob
  PROVE  cf_running[f] = 0
<1>1. RunningOf(f) = {}
  BY JobControlAssumption DEF RunningOf, LinesOf
<1> QED  BY <1>1, FS_EmptySet DEF CfRunningExact

(* When a file is about to be dropped, nothing of it is running.           *)
DropReady == pc = "drop_file" => cf_running[cur] <= 0

CfInv == Typed /\ CfRunningExact /\ DropReady

LEMMA CfInvInit == Init => CfInv
<1> SUFFICES ASSUME Init PROVE CfInv
  OBVIOUS
<1>1. \A f \in Files : RunningOf(f) = {}
  BY JobControlAssumption DEF Init, RunningOf, LinesOf
<1>2. CfRunningExact
  BY <1>1, FS_EmptySet DEF Init, CfRunningExact
<1> QED  BY <1>2, InitType DEF CfInv, DropReady, Init

LEMMA CfInvNext ==
  ASSUME CfInv, [Next]_vars
  PROVE  CfInv'
<1>a. RunningType /\ CfRunningExact /\ DropReady /\ ControlType
  BY DEF CfInv, Typed
<1>b. Typed'
  BY NextType DEF CfInv
<1>c. ASSUME UNCHANGED <<exe, cf_running>> PROVE CfRunningExact'
  BY <1>a, <1>c DEF CfRunningExact, RunningOf
<1>d. ASSUME UNCHANGED running PROVE CfRunningExact'
  BY <1>c, <1>d DEF running
<1>e. ASSUME pc' # "drop_file" PROVE DropReady'
  BY <1>e DEF DropReady
<1>1. CASE UNCHANGED vars
  BY <1>1, <1>a, <1>b, <1>d DEF vars, control, running, CfInv, DropReady
<1>2. CASE MainLoop
  <2>1. pc' # "drop_file"
    <3>1. ASSUME UNCHANGED control, pc # "drop_file" PROVE pc' # "drop_file"
      BY <3>1 DEF control
    <3>2. CASE \E l \in Lines : \/ test_jobs(l) \/ cmd_run(l)
                                \/ LavgLate(l) \/ LavgAllowed(l)
      BY <3>1, <3>2 DEF test_jobs, cmd_run, LavgLate, LavgAllowed
    <3>3. CASE RunSerial
      BY <3>1, <3>3 DEF RunSerial
    <3>4. CASE Wake \/ EndSerial \/ Save \/ EndLoop
      BY <3>4 DEF Wake, EndSerial, Save, EndLoop, EndOfPart, check_signal, Goto
    <3>6. CASE CheckSuspend \/ EndResume
      BY <3>6 DEF CheckSuspend, EndResume, Goto
    <3>7. CASE \E l \in Lines, missed \in BOOLEAN : ResumeLine(l, missed)
      BY <3>7 DEF ResumeLine
    <3>5. ASSUME NEW from, NEW to, to # "drop_file", EndOfPart(from, to)
          PROVE  pc' # "drop_file"
      BY <3>5 DEF EndOfPart, Goto
    <3> QED  BY <1>2, <3>2, <3>3, <3>4, <3>5, <3>6, <3>7 DEF MainLoop
  <2>2. CfRunningExact'
    <3>1. ASSUME NEW l \in Lines, test_jobs(l) \/ cmd_run(l)
          PROVE  CfRunningExact'
      BY <3>1, <1>a, DispatchCf DEF test_jobs, cmd_run
    <3>2. CASE RunSerial
      <4>1. Head(serialQ) \in Lines
        BY <3>2, HeadTailProperties
           DEF RunSerial, run_serial_job, CfInv, Typed, QueuesType
      <4> QED  BY <3>2, <4>1, <1>a, RunQueueJobCf
               DEF RunSerial, run_serial_job
    <3>3. ASSUME NEW l \in Lines, LavgLate(l) \/ LavgAllowed(l)
          PROVE  CfRunningExact'
      BY <3>3, <1>a, <1>d, RunQueueJobCf
         DEF LavgLate, LavgAllowed, run_lavg_job
    <3>4. CASE Wake \/ EndSerial \/ Save \/ EndLoop
      BY <3>4, <1>d DEF Wake, EndSerial, Save, EndLoop, EndOfPart
    <3>5. ASSUME NEW from, NEW to, EndOfPart(from, to)
          PROVE  CfRunningExact'
      BY <3>5, <1>d DEF EndOfPart
    <3>6. CASE CheckSuspend \/ EndResume
      BY <3>6, <1>d DEF CheckSuspend, EndResume
    <3>7. CASE \E l \in Lines, missed \in BOOLEAN : ResumeLine(l, missed)
      BY <3>7, <1>d DEF ResumeLine
    <3> QED  BY <1>2, <3>1, <3>2, <3>3, <3>4, <3>5, <3>6, <3>7 DEF MainLoop
  <2> QED  BY <1>b, <1>e, <2>1, <2>2 DEF CfInv
<1>3. CASE CheckSignal
  <2>1. pc' # "drop_file"
    BY <1>3, <1>a DEF CheckSignal, wait_chld, RunNextSerial, EndWaitChld,
       ClearChld, CheckTerm, CheckHup, CheckUsr1, Goto, ControlType
  <2>2. CfRunningExact'
    <3>1. ASSUME NEW p \in Pids, wait_chld(p) PROVE CfRunningExact'
      BY <3>1, <1>a, WaitedCf DEF wait_chld
    <3>2. CASE RunNextSerial
      <4>1. Head(serialQ) \in Lines
        BY <3>2, HeadTailProperties
           DEF RunNextSerial, run_serial_job, CfInv, Typed, QueuesType
      <4> QED  BY <3>2, <4>1, <1>a, RunQueueJobCf
               DEF RunNextSerial, run_serial_job
    <3>3. CASE EndWaitChld \/ ClearChld \/ CheckTerm \/ CheckHup \/ CheckUsr1
      BY <3>3, <1>d DEF EndWaitChld, ClearChld, CheckTerm, CheckHup, CheckUsr1
    <3> QED  BY <1>3, <3>1, <3>2, <3>3 DEF CheckSignal
  <2> QED  BY <1>b, <1>e, <2>1, <2>2 DEF CfInv
<1>4. CASE Reload
  <2>1. ASSUME NEW f \in Files, DrainFile(f) PROVE CfInv'
    <3>1. CfRunningExact'
      BY <2>1, <1>d DEF DrainFile
    <3>2. DropReady'
      BY <2>1, <1>a DEF DrainFile, DropReady, Goto, running, RunningType
    <3> QED  BY <1>b, <3>1, <3>2 DEF CfInv
  <2>2. ASSUME NEW p \in Pids, wait_all(p) PROVE CfInv'
    <3>1. CfRunningExact'
      BY <2>2, <1>a, WaitedCf DEF wait_all
    <3>2. pc' # "drop_file"
      BY <2>2 DEF wait_all, control
    <3> QED  BY <1>b, <1>e, <3>1, <3>2 DEF CfInv
  <2>3. CASE EndWaitAll
    <3>1. CfRunningExact'
      BY <2>3, <1>d DEF EndWaitAll
    <3>2. cur \in Files
      BY <2>3, <1>a DEF EndWaitAll, ControlType
    <3>3. cf_running[cur] <= 0
      BY <2>3, <1>a, <3>2, NoChildNoJob DEF EndWaitAll
    <3>4. DropReady'
      BY <2>3, <3>3 DEF EndWaitAll, DropReady, running
    <3> QED  BY <1>b, <3>1, <3>4 DEF CfInv
  <2>4. CASE DropFile
    <3>1. CfRunningExact'
      BY <2>4, <1>a, DeleteFileCf DEF DropFile, ControlType
    <3>2. pc' # "drop_file"
      BY <2>4 DEF DropFile, Goto
    <3> QED  BY <1>b, <1>e, <3>1, <3>2 DEF CfInv
  <2>5. CASE EndDrain
    <3>1. CfRunningExact'
      BY <2>5, <1>d, BootCf DEF EndDrain
    <3>2. pc' # "drop_file"
      BY <2>5 DEF EndDrain, Boot, Goto
    <3> QED  BY <1>b, <1>e, <3>1, <3>2 DEF CfInv
  <2> QED  BY <1>4, <2>1, <2>2, <2>3, <2>4, <2>5 DEF Reload
<1>5. CASE Synchronize
  <2>1. pc' # "drop_file"
    BY <1>5, <1>a DEF Synchronize, Scan, SyncRm, EndSyncRm, LoadLine, Bootrun,
       EndLoad, SyncNew, EndSync, Goto, control, ControlType
  <2>2. CfRunningExact'
    <3>1. ASSUME NEW f \in Files,
                 IF f \in loaded THEN delete_file(f)
                                 ELSE UNCHANGED <<queues, running>>
          PROVE  CfRunningExact'
      BY <3>1, <1>a, <1>d, DeleteFileCf
    <3>2. ASSUME NEW f \in Files, SyncRm(f) \/ SyncNew(f)
          PROVE  CfRunningExact'
      BY <3>1, <3>2, <1>d DEF SyncRm, SyncNew
    <3>3. CASE Scan \/ EndSyncRm \/ EndLoad \/ EndSync
      BY <3>3, <1>d DEF Scan, EndSyncRm, EndLoad, EndSync
    <3>4. CASE \E l \in Lines : LoadLine(l)
      BY <3>4, <1>d DEF LoadLine
    <3>5. CASE \E missed \in BOOLEAN : Bootrun(missed)
      BY <3>5, <1>d DEF Bootrun
    <3> QED  BY <1>5, <3>2, <3>3, <3>4, <3>5 DEF Synchronize
  <2> QED  BY <1>b, <1>e, <2>1, <2>2 DEF CfInv
<1>6. CASE Environment
  <2>1. ASSUME UNCHANGED <<control, loaded, queues, running>> PROVE CfInv'
    BY <2>1, <1>a, <1>b, <1>d DEF control, running, CfInv, DropReady
  <2>2. CASE Crash
    <3>1. pc' # "drop_file"
      BY <2>2 DEF Crash, Boot, Goto
    <3> QED  BY <2>2, <1>b, <1>e, <3>1, BootCf DEF Crash, CfInv
  <2>3. CASE Usr1 \/ Term
    BY <2>1, <2>3 DEF Usr1, Term
  <2>4. CASE \E p \in Pids : JobExit(p)
    BY <2>1, <2>4 DEF JobExit
  <2>5. CASE \E f \in Files, kind \in {"new", "rm"} : Edit(f, kind)
    BY <2>1, <2>5 DEF Edit
  <2> QED  BY <1>6, <2>2, <2>3, <2>4, <2>5 DEF Environment
<1> QED  BY <1>1, <1>2, <1>3, <1>4, <1>5, <1>6 DEF Next, Daemon

LEMMA CfInvHolds == Spec => []CfInv
BY CfInvInit, CfInvNext, PTL DEF Spec

(* cf_running of a file is the number of its jobs in exe_list, on every    *)
(* path: normal, serial and lavg starts, failed forks, ends seen by        *)
(* wait_chld() or wait_all(), fcrontabs edited, reloads and crashes.       *)
THEOREM CfRunningIsExact == Spec => []CfRunningExact
<1>1. CfInv => CfRunningExact
  BY DEF CfInv
<1> QED  BY <1>1, CfInvHolds, PTL

(* reload_all() and xexit() never free the line of a job that runs: when   *)
(* delete_file() is called, wait_all() has waited for every job of the     *)
(* file.                                                                   *)
THEOREM DrainsWait == Spec => DrainWaits
<1>1. CfInv => (pc = "drop_file" /\ pc' = "drain" => RunningOf(cur) = {})
  <2> SUFFICES ASSUME CfInv, pc = "drop_file" PROVE RunningOf(cur) = {}
    OBVIOUS
  <2>1. cur \in Files /\ cf_running[cur] <= 0
    BY DEF CfInv, Typed, ControlType, DropReady
  <2>2. IsFiniteSet(RunningOf(cur)) /\ Cardinality(RunningOf(cur)) \in Nat
    BY PidsFinite DEF RunningOf
  <2>3. Cardinality(RunningOf(cur)) = 0
    BY <2>1, <2>2 DEF CfInv, CfRunningExact
  <2> QED  BY <2>2, <2>3, FS_EmptySet
<1> QED  BY <1>1, CfInvHolds, PTL DEF DrainWaits

-----------------------------------------------------------------------------
(* cl_numexe is the number of entries that a line has in the serial queue, *)
(* in the lavg queue and in exe_list, and it keeps a line that must not run *)
(* twice from entering them twice.                                         *)

(* The positions of a line in a queue, and the processes that run a line   *)
(* of a set.                                                               *)
Places(q, l) == {i \in 1..Len(q) : q[i] = l}
RunIn(e, L)  == {p \in Pids : e[p] \in L}

-----------------------------------------------------------------------------
(* How often a line is in a queue.                                         *)

LEMMA PlacesFinite ==
  ASSUME NEW q \in Seq(Lines), NEW l
  PROVE  /\ IsFiniteSet(Places(q, l)) /\ Cardinality(Places(q, l)) \in Nat
         /\ Places(q, l) \in SUBSET Nat
<1>1. Len(q) \in Nat
  BY LenProperties
<1>2. IsFiniteSet(1..Len(q)) /\ Places(q, l) \in SUBSET (1..Len(q))
  BY <1>1, FS_Interval DEF Places
<1> QED  BY <1>1, <1>2, FS_Subset, FS_CardinalityType

LEMMA PlacesAppend ==
  ASSUME NEW q \in Seq(Lines), NEW x \in Lines, NEW l \in Lines
  PROVE  Cardinality(Places(Append(q, x), l))
           = Cardinality(Places(q, l)) + (IF l = x THEN 1 ELSE 0)
<1>1. /\ Len(q) \in Nat /\ Len(Append(q, x)) = Len(q) + 1
      /\ \A i \in 1..Len(q) : Append(q, x)[i] = q[i]
      /\ Append(q, x)[Len(q) + 1] = x
  BY LenProperties, AppendProperties
<1>2. IsFiniteSet(Places(q, l)) /\ Cardinality(Places(q, l)) \in Nat
  BY PlacesFinite
<1>3. CASE l = x
  <2>1. Places(Append(q, x), l) = Places(q, l) \cup {Len(q) + 1}
    BY <1>1, <1>3 DEF Places
  <2>2. Len(q) + 1 \notin Places(q, l)
    BY <1>1 DEF Places
  <2> QED  BY <1>2, <1>3, <2>1, <2>2, FS_AddElement
<1>4. CASE l # x
  <2>1. Places(Append(q, x), l) = Places(q, l)
    BY <1>1, <1>4 DEF Places
  <2> QED  BY <1>2, <1>4, <2>1
<1> QED  BY <1>3, <1>4

LEMMA PlacesTail ==
  ASSUME NEW q \in Seq(Lines), q # <<>>, NEW l \in Lines
  PROVE  Cardinality(Places(Tail(q), l))
           = Cardinality(Places(q, l)) - (IF l = Head(q) THEN 1 ELSE 0)
<1>1. /\ Len(q) \in Nat /\ Len(Tail(q)) = Len(q) - 1
      /\ \A i \in 1..Len(Tail(q)) : Tail(q)[i] = q[i + 1]
      /\ Head(q) = q[1] /\ Len(q) # 0
  BY LenProperties, HeadTailProperties, EmptySeq
<1> DEFINE rest == Places(q, l) \ {1}
           f == [i \in Places(Tail(q), l) |-> i + 1]
<1>2. Tail(q) \in Seq(Lines)
  BY HeadTailProperties
<1>3. IsFiniteSet(Places(Tail(q), l)) /\ Places(Tail(q), l) \in SUBSET Nat
  BY <1>2, PlacesFinite
<1>4. \A i \in Places(Tail(q), l) : i + 1 \in rest
  BY <1>1 DEF Places
<1>5. \A j \in rest : j - 1 \in Places(Tail(q), l) /\ j \in Nat
  BY <1>1 DEF Places
<1>6. Cardinality(rest) = Cardinality(Places(Tail(q), l))
  <2>1. f \in [Places(Tail(q), l) -> rest]
    BY <1>4
  <2>2. \A i, j \in Places(Tail(q), l) : f[i] = f[j] => i = j
    BY <1>3
  <2>3. \A j \in rest : \E i \in Places(Tail(q), l) : f[i] = j
    <3> TAKE j \in rest
    <3>1. j - 1 \in Places(Tail(q), l) /\ f[j - 1] = j
      BY <1>5
    <3> QED  BY <3>1
  <2> HIDE DEF rest, f
  <2> QED  BY <1>3, <2>1, <2>2, <2>3, SameSize
<1>7. IsFiniteSet(Places(q, l)) /\ Cardinality(Places(q, l)) \in Nat
  BY PlacesFinite
<1>8. 1 \in Places(q, l) <=> l = Head(q)
  BY <1>1 DEF Places
<1>9. Cardinality(rest) = IF 1 \in Places(q, l)
                            THEN Cardinality(Places(q, l)) - 1
                            ELSE Cardinality(Places(q, l))
  BY <1>7, FS_RemoveElement
<1> QED  BY <1>6, <1>7, <1>8, <1>9

(* delete_file() takes out the lines of the file and leaves the others.    *)
LEMMA PlacesWithout ==
  ASSUME NEW q \in Seq(Lines), NEW f, NEW l \in Lines
  PROVE  Cardinality(Places(Without(q, f), l))
           = IF FileOf[l] = f THEN 0 ELSE Cardinality(Places(q, l))
<1> DEFINE kept == {i \in 1..Len(q) : FileOf[q[i]] # f}
           P == Places(Without(q, f), l)
           g == [k \in P |-> Nth(kept, k)]
<1>1. Len(q) \in Nat
  BY LenProperties
<1>2. kept \in SUBSET Nat /\ IsFiniteSet(kept) /\ Cardinality(kept) \in Nat
  <2>1. IsFiniteSet(1..Len(q)) /\ kept \in SUBSET (1..Len(q))
    BY <1>1, FS_Interval
  <2> QED  BY <1>1, <2>1, FS_Subset, FS_CardinalityType
<1>3. /\ Len(Without(q, f)) = Cardinality(kept)
      /\ \A k \in 1..Cardinality(kept) : Without(q, f)[k] = q[Nth(kept, k)]
  BY <1>2 DEF Without, Keep
<1>4. /\ \A k \in 1..Cardinality(kept) :
           Nth(kept, k) \in kept /\ Cardinality({j \in kept : j <= Nth(kept, k)}) = k
      /\ \A i \in kept : \E k \in 1..Cardinality(kept) : Nth(kept, k) = i
  <2> HIDE DEF kept
  <2> QED  BY <1>2, NthProperties
<1>5. \A k \in P : k \in 1..Cardinality(kept) /\ q[Nth(kept, k)] = l
  BY <1>3 DEF Places
<1>6. CASE FileOf[l] = f
  <2>1. P = {}
    BY <1>4, <1>5, <1>6
  <2> QED  BY <2>1, <1>6, FS_EmptySet
<1>7. CASE FileOf[l] # f
  <2>1. Without(q, f) \in Seq(Lines)
    BY WithoutType
  <2>2. IsFiniteSet(P)
    BY <2>1, PlacesFinite
  <2>3. g \in [P -> Places(q, l)]
    BY <1>4, <1>5 DEF Places
  <2>4. \A j, k \in P : g[j] = g[k] => j = k
    BY <1>4, <1>5
  <2>5. \A i \in Places(q, l) : \E k \in P : g[k] = i
    <3> TAKE i \in Places(q, l)
    <3>1. i \in kept /\ q[i] = l
      BY <1>7 DEF Places
    <3>2. PICK k \in 1..Cardinality(kept) : Nth(kept, k) = i
      BY <3>1, <1>4
    <3>3. k \in P
      BY <3>1, <3>2, <1>3 DEF Places
    <3> QED  BY <3>2, <3>3
  <2> HIDE DEF P, g
  <2>6. Cardinality(Places(q, l)) = Cardinality(P)
    BY <2>2, <2>3, <2>4, <2>5, SameSize
  <2> QED  BY <2>6, <1>7 DEF P
<1> QED  BY <1>6, <1>7

-----------------------------------------------------------------------------
(* How many processes run a line of a set.                                 *)

LEMMA RunInFinite ==
  ASSUME NEW e, NEW L
  PROVE  /\ IsFiniteSet(RunIn(e, L)) /\ Cardinality(RunIn(e, L)) \in Nat
         /\ Cardinality(RunIn(e, L)) > 0 <=> \E p \in Pids : e[p] \in L
<1>1. RunIn(e, L) \in SUBSET Pids
  BY DEF RunIn
<1>2. IsFiniteSet(RunIn(e, L)) /\ Cardinality(RunIn(e, L)) \in Nat
  BY <1>1, PidsFinite
<1>3. Cardinality(RunIn(e, L)) = 0 <=> RunIn(e, L) = {}
  BY <1>2, FS_EmptySet
<1> QED  BY <1>2, <1>3 DEF RunIn

(* run_queue_job(l): one more, unless fork() fails.                        *)
LEMMA RunQueueJobCount ==
  ASSUME RunningType, NEW l \in Lines, run_queue_job(l)
  PROVE  \/ \A L \in SUBSET Lines :
              Cardinality(RunIn(exe', L))
                = Cardinality(RunIn(exe, L)) + (IF l \in L THEN 1 ELSE 0)
         \/ "fork_fails" \in Env /\ exe' = exe
<1>1. CASE \E p \in FreePids : exe' = [exe EXCEPT ![p] = l]
  <2>1. PICK p \in FreePids : exe' = [exe EXCEPT ![p] = l]
    BY <1>1
  <2>2. p \in Pids /\ exe[p] \notin Lines
    BY <2>1, JobControlAssumption DEF FreePids
  <2>3. ASSUME NEW L \in SUBSET Lines
        PROVE  Cardinality(RunIn(exe', L))
                 = Cardinality(RunIn(exe, L)) + (IF l \in L THEN 1 ELSE 0)
    <3>1. IsFiniteSet(RunIn(exe, L)) /\ Cardinality(RunIn(exe, L)) \in Nat
      BY RunInFinite
    <3>2. CASE l \in L
      <4>1. RunIn(exe', L) = RunIn(exe, L) \cup {p} /\ p \notin RunIn(exe, L)
        BY <2>1, <2>2, <3>2 DEF RunIn, RunningType
      <4> QED  BY <3>1, <3>2, <4>1, FS_AddElement
    <3>3. CASE l \notin L
      <4>1. RunIn(exe', L) = RunIn(exe, L)
        BY <2>1, <2>2, <3>3 DEF RunIn, RunningType
      <4> QED  BY <3>1, <3>3, <4>1
    <3> QED  BY <3>2, <3>3
  <2> QED  BY <2>3
<1>2. CASE "fork_fails" \in Env /\ UNCHANGED exe
  BY <1>2
<1> QED  BY <1>1, <1>2 DEF run_queue_job

(* Waited(p): one less.                                                    *)
LEMMA WaitedCount ==
  ASSUME RunningType, NEW p \in Pids, Waited(p), NEW L \in SUBSET Lines
  PROVE  Cardinality(RunIn(exe', L))
           = Cardinality(RunIn(exe, L)) - (IF exe[p] \in L THEN 1 ELSE 0)
<1>1. IsFiniteSet(RunIn(exe, L)) /\ Cardinality(RunIn(exe, L)) \in Nat
  BY RunInFinite
<1>2. exe' = [exe EXCEPT ![p] = NoJob] /\ NoJob \notin Lines
  BY JobControlAssumption DEF Waited
<1>3. RunIn(exe', L) = RunIn(exe, L) \ {p}
  BY <1>2 DEF RunIn, RunningType
<1>4. p \in RunIn(exe, L) <=> exe[p] \in L
  BY DEF RunIn
<1>5. Cardinality(RunIn(exe, L) \ {p})
        = IF p \in RunIn(exe, L) THEN Cardinality(RunIn(exe, L)) - 1
                                 ELSE Cardinality(RunIn(exe, L))
  BY <1>1, FS_RemoveElement
<1> QED  BY <1>1, <1>3, <1>4, <1>5

(* delete_file(f): those of file f are no longer found.                    *)
LEMMA DeleteFileCount ==
  ASSUME RunningType, NEW f, delete_file(f), NEW L \in SUBSET Lines
  PROVE  /\ RunIn(exe', L) = RunIn(exe, L \ LinesOf(f))
         /\ Cardinality(RunIn(exe', L))
              = Cardinality(RunIn(exe, L)) - Cardinality(RunIn(exe, L \cap LinesOf(f)))
<1>1. IsFiniteSet(RunIn(exe, L)) /\ Cardinality(RunIn(exe, L)) \in Nat
  BY RunInFinite
<1>2. RunIn(exe', L) = RunIn(exe, L \ LinesOf(f))
  BY JobControlAssumption DEF RunIn, delete_file, RunningOf
<1>3. RunIn(exe', L) = RunIn(exe, L) \ RunIn(exe, LinesOf(f))
  BY <1>2 DEF RunIn
<1>4. RunIn(exe, L) \cap RunIn(exe, LinesOf(f)) = RunIn(exe, L \cap LinesOf(f))
  BY DEF RunIn
<1>5. Cardinality(RunIn(exe, L) \ RunIn(exe, LinesOf(f)))
        = Cardinality(RunIn(exe, L))
            - Cardinality(RunIn(exe, L) \cap RunIn(exe, LinesOf(f)))
  BY <1>1, FS_Difference
<1> QED  BY <1>2, <1>3, <1>4, <1>5

-----------------------------------------------------------------------------
(* cl_numexe and the entries of a line.                                    *)

(* The entries of a line in the serial queue and in exe_list.              *)
Waits(l) == Cardinality(Places(serialQ, l))
Runs(l)  == Cardinality(RunIn(exe, {l}))

(* cl_numexe is never below the number of entries.  It stays above it once *)
(* a fork has failed, or when a runatreboot line is read back.             *)
NumExact(l) == "fork_fails" \notin Env /\ "runatreboot" \notin Opt[l]

(* What lets a line in a second time: option lavgonce(no) for the lines    *)
(* that go through the lavg queue, exesev or serialonce(no) for the others.*)
Multiple(l) == IF is_lavg(l) THEN "lavg_sev" \in Opt[l]
               ELSE {"exe_sev", "serial_sev"} \cap Opt[l] # {}

Counted(l) ==
  /\ lavgQ[l] >= 0 /\ Entries(l) <= numexe[l]
  /\ NumExact(l) => Entries(l) = numexe[l]
  /\ ~Multiple(l) => Entries(l) <= 1
  /\ lavgQ[l] > 0 => is_lavg(l)
  /\ Waits(l) > 0 => ~is_lavg(l)

AllCounted == \A l \in Lines : Counted(l)

LEMMA EntriesSum ==
  ASSUME NEW l \in Lines
  PROVE  /\ Entries(l) = Waits(l) + lavgQ[l] + Runs(l)
         /\ Entries(l)' = Waits(l)' + lavgQ'[l] + Runs(l)'
<1>1. ProcsOf(l) = RunIn(exe, {l}) /\ ProcsOf(l)' = RunIn(exe', {l})
  BY DEF ProcsOf, RunIn
<1> QED  BY <1>1 DEF Entries, Waits, Runs, Places

LEMMA CountTypes ==
  ASSUME QueuesType, NEW l \in Lines
  PROVE  /\ Waits(l) \in Nat /\ Runs(l) \in Nat /\ Runs(l)' \in Nat
         /\ numexe[l] \in Int /\ lavgQ[l] \in Int
BY PlacesFinite, RunInFinite DEF QueuesType, Waits, Runs

(* A step that leaves the four numbers of a line as they are.              *)
LEMMA CountedSame ==
  ASSUME NEW l \in Lines, Counted(l),
         numexe'[l] = numexe[l], lavgQ'[l] = lavgQ[l],
         Waits(l)' = Waits(l), Runs(l)' = Runs(l)
  PROVE  Counted(l)'
BY EntriesSum DEF Counted, NumExact, Multiple, is_lavg

LEMMA CountedGone ==
  ASSUME NEW l \in Lines, numexe'[l] = 0, lavgQ'[l] = 0,
         Waits(l)' = 0, Runs(l)' = 0
  PROVE  Counted(l)'
BY EntriesSum DEF Counted, NumExact

LEMMA CountedFrame ==
  ASSUME AllCounted, UNCHANGED <<numexe, lavgQ, serialQ, exe>>
  PROVE  AllCounted'
BY CountedSame DEF AllCounted, Waits, Runs

LEMMA RunsAfterStart ==
  ASSUME RunningType, NEW l \in Lines, run_queue_job(l)
  PROVE  \/ \A k \in Lines : Runs(k)' = Runs(k) + (IF k = l THEN 1 ELSE 0)
         \/ /\ "fork_fails" \in Env
            /\ \A k \in Lines : Runs(k)' = Runs(k)
<1>1. ASSUME NEW k \in Lines,
             \A L \in SUBSET Lines :
               Cardinality(RunIn(exe', L))
                 = Cardinality(RunIn(exe, L)) + (IF l \in L THEN 1 ELSE 0)
      PROVE  Runs(k)' = Runs(k) + (IF k = l THEN 1 ELSE 0)
  <2>1. {k} \in SUBSET Lines /\ (l \in {k} <=> k = l)
    OBVIOUS
  <2>2. Cardinality(RunIn(exe', {k}))
          = Cardinality(RunIn(exe, {k})) + (IF l \in {k} THEN 1 ELSE 0)
    BY <1>1, <2>1
  <2> QED  BY <2>1, <2>2 DEF Runs
<1> QED  BY <1>1, RunQueueJobCount DEF Runs

(* A job leaves the serial queue and enters exe_list: cl_numexe stays.     *)
LEMMA RunSerialJobCounted ==
  ASSUME QueuesType, RunningType, AllCounted, run_serial_job
  PROVE  AllCounted'
<1> DEFINE h == Head(serialQ)
<1>1. h \in Lines /\ serialQ # <<>> /\ serialQ \in Seq(Lines)
  BY HeadTailProperties DEF run_serial_job, QueuesType
<1> SUFFICES ASSUME NEW l \in Lines PROVE Counted(l)'
  BY DEF AllCounted
<1>2. Waits(l)' = Waits(l) - (IF l = h THEN 1 ELSE 0)
  BY <1>1, PlacesTail DEF run_serial_job, Waits
<1>3. \/ Runs(l)' = Runs(l) + (IF l = h THEN 1 ELSE 0)
      \/ "fork_fails" \in Env /\ Runs(l)' = Runs(l)
  BY <1>1, RunsAfterStart DEF run_serial_job
<1>4. numexe' = numexe /\ lavgQ' = lavgQ
  BY DEF run_serial_job
<1> QED
  BY <1>2, <1>3, <1>4, EntriesSum, CountTypes
     DEF AllCounted, Counted, NumExact, Multiple, is_lavg

(* A job leaves the lavg queue and enters exe_list.                        *)
LEMMA RunLavgJobCounted ==
  ASSUME QueuesType, RunningType, AllCounted, NEW k \in Lines, lavgQ[k] > 0,
         run_lavg_job(k)
  PROVE  AllCounted'
<1> SUFFICES ASSUME NEW l \in Lines PROVE Counted(l)'
  BY DEF AllCounted
<1>1. \/ Runs(l)' = Runs(l) + (IF l = k THEN 1 ELSE 0)
      \/ "fork_fails" \in Env /\ Runs(l)' = Runs(l)
  BY RunsAfterStart DEF run_lavg_job
<1>2. /\ numexe' = numexe /\ Waits(l)' = Waits(l)
      /\ lavgQ'[l] = lavgQ[l] - (IF l = k THEN 1 ELSE 0)
  BY DEF run_lavg_job, Waits, QueuesType
<1> QED
  BY <1>1, <1>2, EntriesSum, CountTypes
     DEF AllCounted, Counted, NumExact, Multiple, is_lavg

(* A job is given up: it leaves the lavg queue.                            *)
LEMMA DropLavgJobCounted ==
  ASSUME QueuesType, AllCounted, NEW k \in Lines, lavgQ[k] > 0,
         lavgQ' = [lavgQ EXCEPT ![k] = @ - 1],
         numexe' = [numexe EXCEPT ![k] = @ - 1],
         UNCHANGED <<serialQ, exe>>
  PROVE  AllCounted'
<1> SUFFICES ASSUME NEW l \in Lines PROVE Counted(l)'
  BY DEF AllCounted
<1>1. /\ Waits(l)' = Waits(l) /\ Runs(l)' = Runs(l)
      /\ lavgQ'[l] = lavgQ[l] - (IF l = k THEN 1 ELSE 0)
      /\ numexe'[l] = numexe[l] - (IF l = k THEN 1 ELSE 0)
  BY DEF Waits, Runs, QueuesType
<1> QED
  BY <1>1, EntriesSum, CountTypes
     DEF AllCounted, Counted, NumExact, Multiple, is_lavg

LEMMA RunNormalJobCounted ==
  ASSUME QueuesType, RunningType, AllCounted, NEW k \in Lines, ~is_lavg(k),
         run_normal_job(k)
  PROVE  AllCounted'
<1>1. CASE MayEnter(k, numexe[k], "exe_sev")
  <2> SUFFICES ASSUME NEW l \in Lines PROVE Counted(l)'
    BY DEF AllCounted
  <2>1. \/ Runs(l)' = Runs(l) + (IF l = k THEN 1 ELSE 0)
        \/ "fork_fails" \in Env /\ Runs(l)' = Runs(l)
    BY <1>1, RunsAfterStart DEF run_normal_job
  <2>2. /\ Waits(l)' = Waits(l) /\ lavgQ'[l] = lavgQ[l]
        /\ numexe'[l] = numexe[l] + (IF l = k THEN 1 ELSE 0)
    BY <1>1 DEF run_normal_job, Waits, QueuesType
  <2>3. l = k => Multiple(l) \/ numexe[l] = 0
    BY <1>1 DEF MayEnter, Multiple
  <2> QED
    BY <2>1, <2>2, <2>3, EntriesSum, CountTypes
       DEF AllCounted, Counted, NumExact, Multiple, is_lavg
<1>2. CASE ~MayEnter(k, numexe[k], "exe_sev")
  BY <1>2, CountedFrame DEF run_normal_job, queues, running
<1> QED  BY <1>1, <1>2

(* add_serial_job() on the cl_numexe that the line has.                    *)
LEMMA AddSerialJobCounted ==
  ASSUME QueuesType, AllCounted, NEW k \in Lines, ~is_lavg(k),
         add_serial_job(k, numexe[k]), UNCHANGED <<lavgQ, exe>>
  PROVE  AllCounted'
<1> SUFFICES ASSUME NEW l \in Lines PROVE Counted(l)'
  BY DEF AllCounted
<1>1. lavgQ'[l] = lavgQ[l] /\ Runs(l)' = Runs(l) /\ serialQ \in Seq(Lines)
  BY DEF Runs, QueuesType
<1>2. CASE MayEnter(k, numexe[k], "serial_sev") /\ Len(serialQ) < QueueMax
  <2>1. Waits(l)' = Waits(l) + (IF l = k THEN 1 ELSE 0)
    <3>1. serialQ' = Append(serialQ, k)
      BY <1>2 DEF add_serial_job
    <3>2. Cardinality(Places(Append(serialQ, k), l))
            = Cardinality(Places(serialQ, l)) + (IF l = k THEN 1 ELSE 0)
      BY <1>1, PlacesAppend
    <3> QED  BY <3>1, <3>2 DEF Waits
  <2>2. numexe'[l] = numexe[l] + (IF l = k THEN 1 ELSE 0)
    BY <1>2 DEF add_serial_job, QueuesType
  <2>3. l = k => Multiple(l) \/ numexe[l] = 0
    BY <1>2 DEF MayEnter, Multiple
  <2>4. Counted(l) /\ (l = k => ~is_lavg(l))
    BY DEF AllCounted
  <2>5. /\ Entries(l) = Waits(l) + lavgQ[l] + Runs(l)
        /\ Entries(l)' = Waits(l)' + lavgQ[l] + Runs(l)
    BY <1>1, EntriesSum
  <2>6. Waits(l) \in Nat /\ Runs(l) \in Nat /\ numexe[l] \in Int /\ lavgQ[l] \in Int
    BY CountTypes
  <2>7. Multiple(l)' = Multiple(l) /\ NumExact(l)' = NumExact(l) /\ is_lavg(l)' = is_lavg(l)
    BY DEF Multiple, NumExact, is_lavg
  <2>8. CASE l = k
    <3>1. /\ Entries(l)' = Entries(l) + 1 /\ numexe'[l] = numexe[l] + 1
          /\ Entries(l) \in Int
      BY <2>1, <2>2, <2>5, <2>6, <2>8
    <3>2. Multiple(l) \/ Entries(l)' <= 1
      BY <2>3, <2>4, <2>6, <2>8, <3>1 DEF Counted
    <3> QED  BY <1>1, <2>4, <2>6, <2>7, <2>8, <3>1, <3>2 DEF Counted
  <2>9. CASE l # k
    BY <1>1, <2>1, <2>2, <2>4, <2>5, <2>6, <2>7, <2>9 DEF Counted
  <2> QED  BY <2>8, <2>9
<1>3. CASE ~(MayEnter(k, numexe[k], "serial_sev") /\ Len(serialQ) < QueueMax)
  <2>1. numexe'[l] = numexe[l] /\ serialQ' = serialQ
    BY <1>3 DEF add_serial_job, QueuesType
  <2> QED  BY <1>1, <2>1, CountedSame DEF AllCounted, Waits
<1> QED  BY <1>2, <1>3

LEMMA AddLavgJobCounted ==
  ASSUME QueuesType, AllCounted, NEW k \in Lines, is_lavg(k),
         add_lavg_job(k, numexe[k]), UNCHANGED <<serialQ, exe>>
  PROVE  AllCounted'
<1> SUFFICES ASSUME NEW l \in Lines PROVE Counted(l)'
  BY DEF AllCounted
<1>1. Waits(l)' = Waits(l) /\ Runs(l)' = Runs(l)
  BY DEF Waits, Runs
<1>2. CASE /\ MayEnter(k, numexe[k], "lavg_sev")
           /\ Cardinality(lavg_entries) < LavgMax
  <2>1. /\ lavgQ'[l] = lavgQ[l] + (IF l = k THEN 1 ELSE 0)
        /\ numexe'[l] = numexe[l] + (IF l = k THEN 1 ELSE 0)
    BY <1>2 DEF add_lavg_job, QueuesType
  <2>2. l = k => Multiple(l) \/ numexe[l] = 0
    BY <1>2 DEF MayEnter, Multiple
  <2> QED
    BY <1>1, <2>1, <2>2, EntriesSum, CountTypes
       DEF AllCounted, Counted, NumExact, Multiple, is_lavg
<1>3. CASE ~(/\ MayEnter(k, numexe[k], "lavg_sev")
             /\ Cardinality(lavg_entries) < LavgMax)
  <2>1. numexe'[l] = numexe[l] /\ lavgQ' = lavgQ
    BY <1>3 DEF add_lavg_job, QueuesType
  <2> QED  BY <1>1, <2>1, CountedSame DEF AllCounted
<1> QED  BY <1>2, <1>3

LEMMA DispatchCounted ==
  ASSUME QueuesType, RunningType, AllCounted, NEW k \in Lines, Dispatch(k)
  PROVE  AllCounted'
<1>1. CASE /\ is_lavg(k)
           /\ add_lavg_job(k, numexe[k])
           /\ UNCHANGED <<once, serialQ, running, events>>
  BY <1>1, AddLavgJobCounted DEF running
<1>2. CASE /\ ~is_lavg(k) /\ is_serial(k)
           /\ add_serial_job(k, numexe[k])
           /\ UNCHANGED <<once, lavgQ, running, events>>
  BY <1>2, AddSerialJobCounted DEF running
<1>3. CASE /\ ~is_lavg(k) /\ ~is_serial(k)
           /\ run_normal_job(k)
  BY <1>3, RunNormalJobCounted
<1> QED  BY <1>1, <1>2, <1>3 DEF Dispatch

(* delete_file(): the lines of the file have no entry left, the others     *)
(* keep theirs.                                                            *)
LEMMA DeleteFileCounted ==
  ASSUME QueuesType, RunningType, AllCounted, NEW f \in Files, delete_file(f)
  PROVE  AllCounted'
<1> SUFFICES ASSUME NEW l \in Lines PROVE Counted(l)'
  BY DEF AllCounted
<1>1. Waits(l)' = IF FileOf[l] = f THEN 0 ELSE Waits(l)
  BY PlacesWithout DEF delete_file, Waits, QueuesType
<1>2. RunIn(exe', {l}) = RunIn(exe, {l} \ LinesOf(f))
  BY DeleteFileCount
<1>3. CASE FileOf[l] = f
  <2>1. RunIn(exe', {l}) = {}
    BY <1>2, <1>3 DEF RunIn, LinesOf
  <2>2. Runs(l)' = 0
    BY <2>1, FS_EmptySet DEF Runs
  <2> QED  BY <1>1, <1>3, <2>2, CountedGone DEF delete_file
<1>4. CASE FileOf[l] # f
  <2>1. RunIn(exe', {l}) = RunIn(exe, {l})
    BY <1>2, <1>4 DEF RunIn, LinesOf
  <2> QED
    BY <1>1, <1>4, <2>1, CountedSame DEF delete_file, AllCounted, Runs
<1> QED  BY <1>3, <1>4

(* A child has been waited for.                                            *)
LEMMA WaitedCounted ==
  ASSUME QueuesType, RunningType, AllCounted, NEW p \in Pids, Waited(p),
         UNCHANGED <<serialQ, lavgQ>>
  PROVE  AllCounted'
<1> SUFFICES ASSUME NEW l \in Lines PROVE Counted(l)'
  BY DEF AllCounted
<1>1. Runs(l)' = Runs(l) - (IF exe[p] = l THEN 1 ELSE 0)
  <2>1. {l} \in SUBSET Lines /\ (exe[p] \in {l} <=> exe[p] = l)
    OBVIOUS
  <2>2. Cardinality(RunIn(exe', {l}))
          = Cardinality(RunIn(exe, {l})) - (IF exe[p] \in {l} THEN 1 ELSE 0)
    BY <2>1, WaitedCount
  <2> QED  BY <2>1, <2>2 DEF Runs
<1>2. numexe'[l] = numexe[l] - (IF exe[p] = l THEN 1 ELSE 0)
  BY DEF Waited, QueuesType
<1>3. Waits(l)' = Waits(l) /\ lavgQ'[l] = lavgQ[l]
  BY DEF Waits
<1> QED
  BY <1>1, <1>2, <1>3, EntriesSum, CountTypes
     DEF AllCounted, Counted, NumExact, Multiple, is_lavg

(* main(): nothing is queued, nothing runs.                                *)
LEMMA NothingCounted ==
  ASSUME \A l \in Lines : numexe[l] = 0 /\ lavgQ[l] = 0,
         serialQ = <<>>, \A p \in Pids : exe[p] = NoJob
  PROVE  AllCounted
<1> SUFFICES ASSUME NEW l \in Lines PROVE Counted(l)
  BY DEF AllCounted
<1>1. Places(serialQ, l) = {} /\ RunIn(exe, {l}) = {}
  BY JobControlAssumption DEF Places, RunIn
<1>2. Waits(l) = 0 /\ Runs(l) = 0
  BY <1>1, FS_EmptySet DEF Waits, Runs
<1> QED  BY <1>2, EntriesSum DEF Counted, NumExact

LEMMA BootCounted ==
  ASSUME Boot
  PROVE  AllCounted'
<1> SUFFICES ASSUME NEW l \in Lines PROVE Counted(l)'
  BY DEF AllCounted
<1>1. Places(serialQ, l)' = {} /\ RunIn(exe', {l}) = {}
  BY JobControlAssumption DEF Boot, Places, RunIn
<1>2. Waits(l)' = 0 /\ Runs(l)' = 0
  BY <1>1, FS_EmptySet DEF Waits, Runs
<1> QED  BY <1>2, CountedGone DEF Boot

-----------------------------------------------------------------------------
(* The inductive invariant.                                                *)

(* Lines that are not in memory, or are there but still have to be handled *)
(* by set_next_exe_startup(), have not been counted yet.                   *)
NotYet(l) == FileOf[l] \notin loaded \/ l \in todo
Uncounted == \A l \in Lines : NotYet(l) => numexe[l] = 0

SavedCounts == \A l \in Lines : saved[l].num >= 0

(* Lines are being added only while files are read; a bootrun line is not  *)
(* running when it is looked at; no file in memory is about to be read.    *)
LoadReady ==
  /\ todo \subseteq LoadedLines
  /\ todo # {} => pc \in {"load", "bootrun"}
  /\ pc = "bootrun" => /\ cur \in LoadedLines \ todo
                       /\ \A p \in Pids : exe[p] # cur
  /\ pc = "sync_rm" => \A f \in Files : "file" \in listed[f] => f \notin loaded
  /\ pc = "resume" => asleep \subseteq LoadedLines

CountInv == Typed /\ AllCounted /\ Uncounted /\ SavedCounts /\ LoadReady

(* A line with an entry has been counted.                                  *)
LEMMA CountedNat ==
  ASSUME QueuesType, AllCounted, NEW l \in Lines
  PROVE  /\ numexe[l] \in Nat /\ lavgQ[l] \in Nat
         /\ numexe[l] = 0 => /\ Waits(l) = 0 /\ lavgQ[l] = 0 /\ Runs(l) = 0
                             /\ \A p \in Pids : exe[p] # l
<1>1. /\ lavgQ[l] >= 0 /\ Entries(l) <= numexe[l]
      /\ Waits(l) \in Nat /\ Runs(l) \in Nat
      /\ numexe[l] \in Int /\ lavgQ[l] \in Int
  BY CountTypes DEF AllCounted, Counted
<1>2. Entries(l) = Waits(l) + lavgQ[l] + Runs(l)
  BY EntriesSum
<1>3. Runs(l) = 0 => \A p \in Pids : exe[p] # l
  BY RunInFinite DEF Runs
<1> QED  BY <1>1, <1>2, <1>3

LEMMA DispatchNumexe ==
  ASSUME QueuesType, NEW k \in Lines, Dispatch(k), NEW l \in Lines, l # k
  PROVE  numexe'[l] = numexe[l]
BY DEF Dispatch, add_lavg_job, add_serial_job, run_normal_job, QueuesType,
       queues

LEMMA UncountedFrame ==
  ASSUME Uncounted, UNCHANGED <<numexe, loaded, todo>>
  PROVE  Uncounted'
BY DEF Uncounted, NotYet

LEMMA WaitedUncounted ==
  ASSUME QueuesType, AllCounted, Uncounted, NEW p \in Pids, Waited(p),
         UNCHANGED <<loaded, todo>>
  PROVE  Uncounted'
<1> SUFFICES ASSUME NEW l \in Lines, NotYet(l)' PROVE numexe'[l] = 0
  BY DEF Uncounted
<1>1. numexe[l] = 0
  BY DEF Uncounted, NotYet
<1>2. exe[p] # l
  BY <1>1, CountedNat
<1> QED  BY <1>1, <1>2 DEF Waited, QueuesType

LEMMA DeleteFileUncounted ==
  ASSUME QueuesType, Uncounted, NEW f \in Files, delete_file(f),
         loaded \ {f} \subseteq loaded', todo' = todo
  PROVE  Uncounted'
BY DEF Uncounted, NotYet, delete_file, QueuesType

LEMMA SavedFrame ==
  ASSUME SavedCounts, UNCHANGED saved
  PROVE  SavedCounts'
BY DEF SavedCounts

LEMMA SaveFileCounts ==
  ASSUME QueuesType, AllCounted, SavedCounts, NEW F, SaveFile(F)
  PROVE  SavedCounts'
BY CountedNat DEF SavedCounts, SaveFile

LEMMA LoadReadyElsewhere ==
  ASSUME todo' = {}, pc' \notin {"bootrun", "sync_rm", "resume"}
  PROVE  LoadReady'
BY DEF LoadReady

(* A bootrun line that is queued was counted and is counted again.         *)
LEMMA BootrunJobCount ==
  ASSUME QueuesType, AllCounted, Uncounted, NEW l \in Lines, ~NotYet(l),
         NEW missed \in BOOLEAN, BootrunJob(l, missed),
         UNCHANGED <<exe, loaded, todo>>
  PROVE  AllCounted' /\ Uncounted'
<1>1. AllCounted' /\ \A k \in Lines \ {l} : numexe'[k] = numexe[k]
  <2>1. CASE is_lavg(l) /\ add_lavg_job(l, numexe[l]) /\ UNCHANGED serialQ
    <3>1. AllCounted'
      BY <2>1, AddLavgJobCounted
    <3> QED  BY <3>1, <2>1 DEF add_lavg_job, QueuesType
  <2>2. CASE ~is_lavg(l) /\ add_serial_job(l, numexe[l]) /\ UNCHANGED lavgQ
    <3>1. AllCounted'
      BY <2>2, AddSerialJobCounted
    <3> QED  BY <3>1, <2>2 DEF add_serial_job, QueuesType
  <2>3. CASE UNCHANGED queues
    BY <2>3, CountedFrame DEF queues
  <2> QED  BY <2>1, <2>2, <2>3 DEF BootrunJob
<1> QED  BY <1>1 DEF Uncounted, NotYet

LEMMA MainLoopCount ==
  ASSUME CountInv, MainLoop
  PROVE  CountInv'
<1>a. /\ QueuesType /\ RunningType /\ AllCounted /\ Uncounted /\ SavedCounts
      /\ LoadReady
  BY DEF CountInv, Typed
<1>b. Typed'
  BY MainLoopType DEF CountInv
<1>c. pc \notin {"load", "bootrun", "sync_rm"} => todo = {}
  BY <1>a DEF LoadReady
<1>d. ASSUME AllCounted', Uncounted', UNCHANGED <<control, saved>>,
             pc \notin {"load", "bootrun", "sync_rm", "resume"}
      PROVE  CountInv'
  BY <1>a, <1>b, <1>c, <1>d, SavedFrame, LoadReadyElsewhere
     DEF control, CountInv
<1>e. ASSUME UNCHANGED <<todo, loaded, queues, running, saved>>, todo = {},
             pc' \notin {"bootrun", "sync_rm", "resume"}
      PROVE  CountInv'
  <2>1. UNCHANGED <<numexe, lavgQ, serialQ, exe>>
    BY <1>e DEF queues, running
  <2> QED
    BY <1>a, <1>b, <1>e, <2>1, CountedFrame, UncountedFrame, SavedFrame,
       LoadReadyElsewhere DEF CountInv
<1>1. CASE Wake
  BY <1>1, <1>c, <1>e DEF Wake, check_signal, Goto, disk
<1>2. ASSUME NEW l \in Lines, test_jobs(l) \/ cmd_run(l) PROVE CountInv'
  <2>1. /\ pc \in {"test_jobs", "fcrondyn"} /\ l \in LoadedLines /\ Dispatch(l)
        /\ UNCHANGED <<control, loaded, zombies, signals, disk>>
    BY <1>2 DEF test_jobs, cmd_run
  <2>2. AllCounted'
    BY <1>a, <2>1, DispatchCounted
  <2>3. Uncounted'
    <3> SUFFICES ASSUME NEW k \in Lines, NotYet(k)' PROVE numexe'[k] = 0
      BY DEF Uncounted
    <3>1. NotYet(k) /\ k # l
      BY <2>1, <1>c DEF NotYet, LoadedLines, control
    <3>2. numexe'[k] = numexe[k]
      BY <1>a, <2>1, <3>1, DispatchNumexe
    <3> QED  BY <1>a, <3>1, <3>2 DEF Uncounted
  <2> QED  BY <2>1, <2>2, <2>3, <1>d DEF disk
<1>3. ASSUME NEW from, NEW to, from \notin {"load", "bootrun", "sync_rm"},
             to \notin {"bootrun", "sync_rm", "resume"}, EndOfPart(from, to)
      PROVE  CountInv'
  BY <1>3, <1>c, <1>e DEF EndOfPart, Goto, disk
<1>4. CASE RunSerial
  <2>1. AllCounted'
    BY <1>4, <1>a, RunSerialJobCounted DEF RunSerial
  <2>2. Uncounted'
    BY <1>4, <1>a, UncountedFrame DEF RunSerial, run_serial_job, control
  <2> QED  BY <1>4, <1>d, <2>1, <2>2 DEF RunSerial, disk
<1>5. CASE EndSerial
  BY <1>5, <1>3 DEF EndSerial
<1>6. CASE Save
  <2>1. UNCHANGED <<numexe, lavgQ, serialQ, exe>>
    BY <1>6 DEF Save, queues, running
  <2>2. SavedCounts'
    BY <1>6, <1>a, SaveFileCounts DEF Save
  <2>3. LoadReady'
    BY <1>6, <1>c, LoadReadyElsewhere DEF Save, Goto
  <2> QED
    BY <1>6, <1>a, <1>b, <2>1, <2>2, <2>3, CountedFrame, UncountedFrame
       DEF Save, CountInv
<1>7. ASSUME NEW l \in Lines, LavgLate(l) \/ LavgAllowed(l) PROVE CountInv'
  <2>0. /\ pc \in {"lavg_late", "lavg_load"} /\ lavgQ[l] > 0
        /\ UNCHANGED <<control, loaded, zombies, signals, disk>>
    BY <1>7 DEF LavgLate, LavgAllowed
  <2>1. CASE run_lavg_job(l)
    <3>1. AllCounted'
      BY <1>a, <2>0, <2>1, RunLavgJobCounted
    <3>2. Uncounted'
      BY <1>a, <2>0, <2>1, UncountedFrame DEF run_lavg_job, control
    <3> QED  BY <1>d, <2>0, <3>1, <3>2 DEF disk
  <2>2. CASE /\ lavgQ' = [lavgQ EXCEPT ![l] = @ - 1]
             /\ numexe' = [numexe EXCEPT ![l] = @ - 1]
             /\ UNCHANGED <<once, serialQ, running, events>>
    <3>1. AllCounted'
      BY <1>a, <2>0, <2>2, DropLavgJobCounted DEF running
    <3>2. Uncounted'
      <4> SUFFICES ASSUME NEW k \in Lines, NotYet(k)' PROVE numexe'[k] = 0
        BY DEF Uncounted
      <4>1. numexe[k] = 0
        BY <1>a, <2>0 DEF Uncounted, NotYet, control
      <4>2. k # l
        BY <1>a, <2>0, <4>1, CountedNat
      <4> QED  BY <1>a, <2>2, <4>1, <4>2 DEF QueuesType
    <3> QED  BY <1>d, <2>0, <3>1, <3>2 DEF disk
  <2> QED  BY <1>7, <2>1, <2>2 DEF LavgLate, LavgAllowed
<1>8. CASE EndLoop
  BY <1>8, <1>c, <1>e DEF EndLoop, check_signal, Goto, disk
<1>9. CASE CheckSuspend
  <2>1. todo' = {} /\ UNCHANGED <<todo, loaded, queues, running, saved>>
    BY <1>9, <1>c DEF CheckSuspend, disk
  <2>2. UNCHANGED <<numexe, lavgQ, serialQ, exe>>
    BY <2>1 DEF queues, running
  <2>3. LoadReady'
    BY <1>9, <2>1 DEF CheckSuspend, LoadReady, LoadedLines, Goto
  <2> QED
    BY <1>a, <1>b, <2>1, <2>2, <2>3, CountedFrame, UncountedFrame, SavedFrame
       DEF CountInv
<1>10. CASE EndResume
  BY <1>10, <1>c, <1>e DEF EndResume, Goto, disk
<1>11. ASSUME NEW l \in Lines, NEW missed \in BOOLEAN, ResumeLine(l, missed)
       PROVE  CountInv'
  <2>1. /\ BootrunJob(l, missed) /\ pc' = "resume" /\ todo' = {}
        /\ UNCHANGED <<exe, loaded, todo, saved>>
    BY <1>11, <1>c DEF ResumeLine, running, disk
  <2>2. ~NotYet(l)
    BY <1>11, <1>a, <1>c DEF ResumeLine, LoadReady, NotYet, LoadedLines
  <2>3. AllCounted' /\ Uncounted'
    BY <1>a, <2>1, <2>2, BootrunJobCount
  <2>4. LoadReady'
    BY <1>11, <1>a, <2>1 DEF ResumeLine, LoadReady, LoadedLines
  <2> QED  BY <1>a, <1>b, <2>1, <2>3, <2>4, SavedFrame DEF CountInv
<1> QED
  BY <1>1, <1>2, <1>3, <1>4, <1>5, <1>6, <1>7, <1>8, <1>9, <1>10, <1>11
     DEF MainLoop

LEMMA CheckSignalCount ==
  ASSUME CountInv, CheckSignal
  PROVE  CountInv'
<1>a. /\ QueuesType /\ RunningType /\ ControlType /\ AllCounted /\ Uncounted
      /\ SavedCounts /\ LoadReady
  BY DEF CountInv, Typed
<1>b. Typed'
  BY CheckSignalType DEF CountInv
<1>c. todo' = {} /\ pc' \notin {"bootrun", "sync_rm", "resume"}
  <2>1. pc \notin {"load", "bootrun", "sync_rm"} /\ todo' = todo
    BY DEF CheckSignal, wait_chld, RunNextSerial, EndWaitChld, ClearChld,
           CheckTerm, CheckHup, CheckUsr1
  <2>2. pc' \notin {"bootrun", "sync_rm", "resume"}
    BY <1>a, <2>1 DEF CheckSignal, wait_chld, RunNextSerial, EndWaitChld,
       ClearChld, CheckTerm, CheckHup, CheckUsr1, Goto, ControlType
  <2> QED  BY <1>a, <2>1, <2>2 DEF LoadReady
<1>d. LoadReady'
  BY <1>c, LoadReadyElsewhere
<1>e. loaded' = loaded /\ todo' = todo
  BY DEF CheckSignal, wait_chld, RunNextSerial, EndWaitChld, ClearChld,
         CheckTerm, CheckHup, CheckUsr1
<1>1. ASSUME NEW p \in Pids, wait_chld(p) PROVE CountInv'
  <2>1. Waited(p) /\ UNCHANGED <<serialQ, lavgQ, disk>>
    BY <1>1 DEF wait_chld
  <2> QED
    BY <1>a, <1>b, <1>d, <1>e, <2>1, WaitedCounted, WaitedUncounted, SavedFrame
       DEF CountInv, disk
<1>2. CASE RunNextSerial
  <2>1. run_serial_job /\ UNCHANGED <<numexe, disk>>
    BY <1>2 DEF RunNextSerial, run_serial_job
  <2> QED
    BY <1>a, <1>b, <1>d, <1>e, <2>1, RunSerialJobCounted, UncountedFrame,
       SavedFrame DEF CountInv, disk
<1>3. CASE EndWaitChld \/ ClearChld \/ CheckTerm \/ CheckHup \/ CheckUsr1
  <2>1. UNCHANGED <<numexe, lavgQ, serialQ, exe>>
    BY <1>3 DEF EndWaitChld, ClearChld, CheckTerm, CheckHup, CheckUsr1,
       queues, running
  <2>2. SaveFile(loaded) \/ saved' = saved
    BY <1>3 DEF EndWaitChld, ClearChld, CheckTerm, CheckHup, CheckUsr1, disk
  <2> QED
    BY <1>a, <1>b, <1>d, <1>e, <2>1, <2>2, CountedFrame, UncountedFrame,
       SavedFrame, SaveFileCounts DEF CountInv
<1> QED  BY <1>1, <1>2, <1>3 DEF CheckSignal

LEMMA BootCount ==
  ASSUME Boot, Typed', SavedCounts'
  PROVE  CountInv'
<1>1. Uncounted' /\ LoadReady'
  BY LoadReadyElsewhere DEF Boot, Goto, Uncounted
<1> QED  BY <1>1, BootCounted DEF CountInv

LEMMA ReloadCount ==
  ASSUME CountInv, Reload
  PROVE  CountInv'
<1>a. /\ QueuesType /\ RunningType /\ ControlType /\ AllCounted /\ Uncounted
      /\ SavedCounts /\ LoadReady
  BY DEF CountInv, Typed
<1>b. Typed'
  BY ReloadType DEF CountInv
<1>c. LoadReady'
  <2>1. pc \notin {"load", "bootrun", "sync_rm"} /\ (todo' = todo \/ todo' = {})
    BY DEF Reload, DrainFile, wait_all, EndWaitAll, DropFile, EndDrain, Boot,
       control
  <2>2. pc' \notin {"bootrun", "sync_rm", "resume"}
    BY <2>1 DEF Reload, DrainFile, wait_all, EndWaitAll, DropFile, EndDrain,
       Boot, control, Goto
  <2> QED  BY <1>a, <2>1, <2>2, LoadReadyElsewhere DEF LoadReady
<1>1. ASSUME NEW p \in Pids, wait_all(p) PROVE CountInv'
  <2>1. Waited(p) /\ UNCHANGED <<serialQ, lavgQ, loaded, todo, saved>>
    BY <1>1 DEF wait_all, control, disk
  <2> QED
    BY <1>a, <1>b, <1>c, <2>1, WaitedCounted, WaitedUncounted, SavedFrame
       DEF CountInv
<1>2. CASE DropFile
  <2>1. /\ cur \in Files /\ delete_file(cur)
        /\ loaded' = loaded \ {cur} /\ todo' = todo
        /\ SaveFile({cur}) \/ saved' = saved
    BY <1>2, <1>a DEF DropFile, ControlType, disk
  <2> QED
    BY <1>a, <1>b, <1>c, <2>1, DeleteFileCounted, DeleteFileUncounted,
       SavedFrame, SaveFileCounts DEF CountInv
<1>3. ASSUME UNCHANGED <<queues, running, loaded, todo>>,
             SaveFile({cur}) \/ saved' = saved
      PROVE  CountInv'
  <2>1. UNCHANGED <<numexe, lavgQ, serialQ, exe>>
    BY <1>3 DEF queues, running
  <2> QED
    BY <1>a, <1>b, <1>c, <1>3, <2>1, CountedFrame, UncountedFrame, SavedFrame,
       SaveFileCounts DEF CountInv
<1>4. CASE (\E f \in Files : DrainFile(f)) \/ EndWaitAll
  BY <1>3, <1>4 DEF DrainFile, EndWaitAll, disk
<1>5. CASE EndDrain
  <2>1. saved' = saved
    BY <1>5 DEF EndDrain, disk
  <2>2. CASE Boot
    BY <2>1, <2>2, <1>a, <1>b, BootCount, SavedFrame
  <2>3. CASE UNCHANGED <<queues, running, loaded, todo>>
    BY <2>1, <2>3, <1>3
  <2> QED  BY <1>5, <2>2, <2>3 DEF EndDrain
<1> QED  BY <1>1, <1>2, <1>4, <1>5 DEF Reload

(* A file is removed from memory, unless it was not there.                 *)
LEMMA ForgetCount ==
  ASSUME QueuesType, RunningType, AllCounted, NEW f \in Files,
         IF f \in loaded THEN delete_file(f) ELSE UNCHANGED <<queues, running>>
  PROVE  AllCounted'
<1>1. CASE f \in loaded
  BY <1>1, DeleteFileCounted
<1>2. CASE f \notin loaded
  BY <1>2, CountedFrame DEF queues, running
<1> QED  BY <1>1, <1>2

LEMMA LoadLineCount ==
  ASSUME CountInv, NEW k \in Lines, LoadLine(k), Typed'
  PROVE  CountInv'
<1>a. /\ QueuesType /\ RunningType /\ AllCounted /\ Uncounted
      /\ SavedCounts /\ LoadReady
  BY DEF CountInv, Typed
<1>b. /\ pc = "load" /\ k \in todo /\ todo' = todo \ {k} /\ loaded' = loaded
      /\ exe' = exe /\ saved' = saved
  BY DEF LoadLine, running, disk
<1>c. numexe[k] = 0 /\ \A p \in Pids : exe[p] # k
  BY <1>a, <1>b, CountedNat DEF Uncounted, NotYet
<1>d. Waits(k) = 0 /\ lavgQ[k] = 0 /\ Runs(k) = 0
  BY <1>a, <1>c, CountedNat
<1>1. AllCounted' /\ \A l \in Lines \ {k} : numexe'[l] = numexe[l]
  <2>1. CASE /\ is_lavg(k) /\ add_lavg_job(k, 0)
             /\ UNCHANGED serialQ
    <3>1. AllCounted'
      BY <1>a, <1>b, <1>c, <2>1, AddLavgJobCounted
    <3> QED  BY <3>1, <1>a, <2>1 DEF add_lavg_job, QueuesType
  <2>2. CASE ~is_lavg(k) /\ add_serial_job(k, 0) /\ UNCHANGED lavgQ
    <3>1. AllCounted'
      BY <1>a, <1>b, <1>c, <2>2, AddSerialJobCounted
    <3> QED  BY <3>1, <1>a, <2>2 DEF add_serial_job, QueuesType
  <2>3. CASE UNCHANGED <<numexe, lavgQ, serialQ>>
    BY <1>a, <1>b, <2>3, CountedFrame
  <2>4. CASE /\ ~(saved[k].num > 0 /\ "runatreboot" \notin Opt[k])
             /\ numexe' = [numexe EXCEPT ![k] = saved[k].num]
             /\ UNCHANGED <<serialQ, lavgQ>>
    <3>1. saved[k].num >= 0 /\ (NumExact(k) => saved[k].num = 0)
      BY <1>a, <2>4 DEF SavedCounts, NumExact, CountInv, Typed, DiskType
    <3>2. \A l \in Lines : /\ Waits(l)' = Waits(l) /\ Runs(l)' = Runs(l)
                           /\ lavgQ'[l] = lavgQ[l]
                           /\ numexe'[l] = IF l = k THEN saved[k].num
                                                    ELSE numexe[l]
      BY <1>a, <1>b, <2>4 DEF Waits, Runs, QueuesType
    <3>3. Counted(k)'
      BY <1>d, <3>1, <3>2, EntriesSum DEF Counted, NumExact
    <3>4. \A l \in Lines \ {k} : Counted(l)'
      BY <1>a, <3>2, CountedSame DEF AllCounted
    <3> QED  BY <3>2, <3>3, <3>4 DEF AllCounted
  <2> QED  BY <2>1, <2>2, <2>3, <2>4 DEF LoadLine
<1>2. Uncounted'
  BY <1>a, <1>b, <1>1 DEF Uncounted, NotYet, LoadReady, LoadedLines
<1>3. LoadReady'
  BY <1>a, <1>b, <1>c DEF LoadReady, LoadLine, LoadedLines, Goto
<1> QED  BY <1>a, <1>b, <1>1, <1>2, <1>3, SavedFrame DEF CountInv

LEMMA BootrunCount ==
  ASSUME CountInv, NEW missed \in BOOLEAN, Bootrun(missed), Typed'
  PROVE  CountInv'
<1>a. /\ QueuesType /\ RunningType /\ AllCounted /\ Uncounted
      /\ SavedCounts /\ LoadReady
  BY DEF CountInv, Typed
<1>b. /\ pc = "bootrun" /\ pc' = "load" /\ todo' = todo /\ loaded' = loaded
      /\ exe' = exe /\ saved' = saved
  BY DEF Bootrun, running, disk, Goto
<1>c. cur \in Lines /\ ~NotYet(cur)
  BY <1>a, <1>b DEF LoadReady, NotYet, LoadedLines
<1>1. AllCounted' /\ Uncounted'
  BY <1>a, <1>b, <1>c, BootrunJobCount DEF Bootrun
<1>2. LoadReady'
  BY <1>a, <1>b DEF LoadReady, LoadedLines
<1> QED  BY <1>a, <1>b, <1>1, <1>2, SavedFrame DEF CountInv

LEMMA SynchronizeCount ==
  ASSUME CountInv, Synchronize
  PROVE  CountInv'
<1>a. /\ QueuesType /\ RunningType /\ ControlType /\ AllCounted /\ Uncounted
      /\ SavedCounts /\ LoadReady
  BY DEF CountInv, Typed
<1>b. Typed'
  BY SynchronizeType DEF CountInv
<1>c. ASSUME UNCHANGED <<queues, running>> PROVE AllCounted'
  BY <1>a, <1>c, CountedFrame DEF queues, running
<1>1. CASE Scan
  <2>1. AllCounted' /\ Uncounted' /\ SavedCounts'
    BY <1>1, <1>a, <1>c, UncountedFrame, SavedFrame DEF Scan, queues
  <2>2. \A f \in Files : "file" \in listed'[f] => f \notin loaded'
    BY <1>1 DEF Scan, CountInv, Typed, DiskType
  <2>3. LoadReady'
    BY <1>1, <1>a, <2>2 DEF Scan, LoadReady, Goto, LoadedLines
  <2> QED  BY <1>b, <2>1, <2>3 DEF CountInv
<1>2. ASSUME NEW f \in Files, SyncRm(f) PROVE CountInv'
  <2>1. AllCounted' /\ SavedCounts'
    BY <1>2, <1>a, ForgetCount, SavedFrame DEF SyncRm
  <2>2. todo = {} /\ pc' = "sync_rm" /\ todo' = {} /\ loaded' = loaded \ {f}
    BY <1>2, <1>a DEF SyncRm, LoadReady, control
  <2>3. \A g \in Files : "file" \in listed'[g] => g \notin loaded'
    BY <1>2, <1>a, <2>2 DEF SyncRm, LoadReady, CountInv, Typed, DiskType
  <2>4. LoadReady'
    BY <2>2, <2>3 DEF LoadReady
  <2>5. CASE f \in loaded
    <3>1. delete_file(f)
      BY <1>2, <2>5 DEF SyncRm
    <3>2. Uncounted'
      BY <1>a, <2>2, <3>1, DeleteFileUncounted
    <3> QED  BY <1>b, <2>1, <2>4, <3>2 DEF CountInv
  <2>6. CASE f \notin loaded
    <3>1. UNCHANGED <<numexe, loaded, todo>>
      BY <1>2, <2>2, <2>6 DEF SyncRm, queues
    <3> QED  BY <1>a, <1>b, <2>1, <2>4, <3>1, UncountedFrame DEF CountInv
  <2> QED  BY <2>5, <2>6
<1>3. CASE EndSyncRm
  <2> DEFINE read == {f \in spool : "file" \in listed[f]}
  <2>1. /\ pc = "sync_rm" /\ pc' = "load" /\ loaded' = loaded \cup read
        /\ todo' = {l \in Lines : FileOf[l] \in read}
        /\ UNCHANGED <<queues, running, saved>>
    BY <1>3 DEF EndSyncRm, Goto, disk
  <2>2. \A f \in read : f \notin loaded
    BY <1>a, <2>1 DEF LoadReady, CountInv, Typed, DiskType
  <2>3. Uncounted'
    BY <1>a, <2>1, <2>2 DEF Uncounted, NotYet, queues
  <2>4. LoadReady'
    BY <2>1 DEF LoadReady, LoadedLines
  <2> QED  BY <1>a, <1>b, <1>c, <2>1, <2>3, <2>4, SavedFrame DEF CountInv
<1>4. CASE \E l \in Lines : LoadLine(l)
  BY <1>4, <1>b, LoadLineCount
<1>5. CASE \E missed \in BOOLEAN : Bootrun(missed)
  BY <1>5, <1>b, BootrunCount
<1>6. CASE EndLoad \/ EndSync
  <2>1. /\ todo' = {} /\ pc' \notin {"bootrun", "sync_rm", "resume"}
        /\ UNCHANGED <<queues, running, loaded, todo, saved>>
    BY <1>6, <1>a DEF EndLoad, EndSync, Goto, disk, LoadReady, ControlType
  <2>2. LoadReady' /\ Uncounted'
    BY <1>a, <2>1, LoadReadyElsewhere, UncountedFrame DEF queues
  <2> QED  BY <1>a, <1>b, <1>c, <2>1, <2>2, SavedFrame DEF CountInv
<1>7. ASSUME NEW f \in Files, SyncNew(f) PROVE CountInv'
  <2>1. todo' = {} /\ todo' = todo /\ LoadReady'
    BY <1>7, <1>a, LoadReadyElsewhere DEF SyncNew, LoadReady, control
  <2>2. CASE "new" \notin pending[f]
    BY <1>7, <1>a, <1>b, <1>c, <2>1, <2>2, SavedFrame, UncountedFrame
       DEF SyncNew, CountInv, queues
  <2>3. CASE "new" \in pending[f]
    <3>1. /\ IF f \in loaded THEN delete_file(f) ELSE UNCHANGED <<queues, running>>
          /\ loaded' = loaded \cup {f}
          /\ saved' = [l \in Lines |->
                         IF FileOf[l] = f THEN NotSaved ELSE saved[l]]
      BY <1>7, <2>3 DEF SyncNew
    <3>2. AllCounted'
      BY <1>a, <3>1, ForgetCount
    <3>3. SavedCounts'
      BY <1>a, <3>1 DEF SavedCounts, NotSaved
    <3>4. Uncounted'
      <4>1. CASE f \in loaded
        BY <1>a, <2>1, <3>1, <4>1, DeleteFileUncounted
      <4>2. CASE f \notin loaded
        BY <1>a, <2>1, <3>1, <4>2 DEF Uncounted, NotYet, queues
      <4> QED  BY <4>1, <4>2
    <3> QED  BY <1>b, <2>1, <3>2, <3>3, <3>4 DEF CountInv
  <2> QED  BY <2>2, <2>3
<1> QED
  BY <1>1, <1>2, <1>3, <1>4, <1>5, <1>6, <1>7 DEF Synchronize

LEMMA EnvironmentCount ==
  ASSUME CountInv, Environment
  PROVE  CountInv'
<1>a. /\ QueuesType /\ RunningType /\ AllCounted /\ Uncounted
      /\ SavedCounts /\ LoadReady
  BY DEF CountInv, Typed
<1>b. Typed'
  BY EnvironmentType DEF CountInv
<1>1. ASSUME UNCHANGED <<control, loaded, queues, running, listed, saved>>
      PROVE  CountInv'
  <2>1. UNCHANGED <<numexe, lavgQ, serialQ, exe, todo>>
    BY <1>1 DEF control, queues, running
  <2>2. LoadReady'
    BY <1>1, <1>a, <2>1 DEF LoadReady, LoadedLines, control
  <2> QED
    BY <1>1, <1>a, <1>b, <2>1, <2>2, CountedFrame, UncountedFrame, SavedFrame
       DEF CountInv
<1>2. CASE Crash
  BY <1>2, <1>a, <1>b, BootCount, SavedFrame DEF Crash, disk
<1>3. CASE Environment /\ ~Crash
  BY <1>1, <1>3 DEF Environment, JobExit, Edit, Usr1, Term, disk
<1> QED  BY <1>2, <1>3

LEMMA CountInvInit == Init => CountInv
<1> SUFFICES ASSUME Init PROVE CountInv
  OBVIOUS
<1>1. AllCounted
  BY NothingCounted DEF Init
<1>2. Uncounted /\ SavedCounts /\ LoadReady
  BY DEF Init, Uncounted, SavedCounts, LoadReady, NotSaved
<1> QED  BY <1>1, <1>2, InitType DEF CountInv

LEMMA CountInvNext ==
  ASSUME CountInv, [Next]_vars
  PROVE  CountInv'
<1>1. CASE UNCHANGED vars
  <2>1. UNCHANGED <<numexe, lavgQ, serialQ, exe, todo, asleep, pc, cur, listed,
                    saved, loaded>>
    BY <1>1 DEF vars, control, queues, running, disk
  <2>2. LoadReady'
    BY <2>1 DEF CountInv, LoadReady, LoadedLines
  <2> QED
    BY <2>1, <2>2, NextType, CountedFrame, UncountedFrame, SavedFrame
       DEF CountInv
<1> QED
  BY <1>1, MainLoopCount, CheckSignalCount, ReloadCount, SynchronizeCount,
     EnvironmentCount DEF Next, Daemon

LEMMA CountInvHolds == Spec => []CountInv
BY CountInvInit, CountInvNext, PTL DEF Spec

(* A line without exesev, serialonce(no) or lavgonce(no) has one entry at  *)
(* most in the queues and in exe_list, whatever is queued by test_jobs(),  *)
(* fcrondyn, bootrun or a restart, and whatever fork() does.               *)
THEOREM OneInstance == Spec => []SingleInstance
<1>1. CountInv => SingleInstance
  BY DEF CountInv, AllCounted, Counted, Multiple, SingleInstance
<1> QED  BY <1>1, CountInvHolds, PTL

(* cl_numexe of every line is the number of its entries, as long as fork() *)
(* succeeds and no line is runatreboot: those are the two cases in which   *)
(* the code counts an entry that does not exist.                           *)
THEOREM NumexeIsExact ==
  ASSUME "fork_fails" \notin Env, \A l \in Lines : "runatreboot" \notin Opt[l]
  PROVE  Spec => []NumexeExact
<1>1. CountInv => NumexeExact
  BY DEF CountInv, AllCounted, Counted, NumExact, NumexeExact
<1> QED  BY <1>1, CountInvHolds, PTL

-----------------------------------------------------------------------------
(* What one step of the daemon or of its environment does to the jobs.     *)

(* A lavg job that has waited for too long is given up.                    *)
GiveUp(l) ==
  /\ lavgQ' = [lavgQ EXCEPT ![l] = @ - 1]
  /\ numexe' = [numexe EXCEPT ![l] = @ - 1]
  /\ UNCHANGED <<once, serialQ, running>>

(* The steps of Next, by what they do to the queues and to exe_list.       *)
JobStep ==
  \/ UNCHANGED <<queues, running>>
  \/ \E l \in Lines : Dispatch(l)
  \/ run_serial_job /\ (serial_running < SerialMax \/ pc = "next_serial")
  \/ \E l \in Lines : /\ lavgQ[l] > 0 /\ run_lavg_job(l)
                      /\ \/ "late" \in Opt[l]
                         \/ is_serial(l) => lavg_serial_running < SerialMax
  \/ \E l \in Lines : lavgQ[l] > 0 /\ GiveUp(l)
  \/ \E p \in Pids : wait_chld(p)
  \/ \E p \in Pids : wait_all(p)
  \/ \E f \in Files : delete_file(f)
  \/ \E l \in Lines : LoadLine(l)
  \/ \E missed \in BOOLEAN : Bootrun(missed)
  \/ \E l \in Lines, missed \in BOOLEAN : ResumeLine(l, missed)
  \/ Boot

(* What is on disk of a line is what was there, or what the line is.       *)
SavedStep ==
  \A l \in Lines : \/ saved'[l] = saved[l]
                   \/ saved'[l] = [num |-> numexe[l], once |-> l \in once]
                   \/ saved'[l] = NotSaved

(* reload_all() ends in the main loop, xexit() ends the daemon.            *)
Drains == {"drain", "wait_all", "drop_file"}
DrainStep == pc \in Drains => pc' \in Drains \/ goal # "term" \/ Boot

(* wait_chld() only goes on to a serial job when there is a free slot.     *)
NextStep ==
  pc' = "next_serial" => \/ serial_running' < SerialMax
                         \/ pc = "next_serial" /\ serial_running' = serial_running

AnyStep == JobStep /\ SavedStep /\ DrainStep /\ NextStep

LEMMA SavedKept ==
  ASSUME UNCHANGED saved
  PROVE  SavedStep
BY DEF SavedStep

LEMMA SavedNow ==
  ASSUME NEW F, SaveFile(F)
  PROVE  SavedStep
BY DEF SavedStep, SaveFile

LEMMA MainLoopStep ==
  ASSUME MainLoop
  PROVE  AnyStep
<1>1. ASSUME NEW l \in Lines, test_jobs(l) \/ cmd_run(l) PROVE AnyStep
  <2>1. JobStep
    BY <1>1 DEF test_jobs, cmd_run, JobStep
  <2> QED
    BY <1>1, <2>1, SavedKept DEF test_jobs, cmd_run, control, disk, AnyStep,
       DrainStep, NextStep, Drains
<1>2. CASE RunSerial
  <2>1. JobStep
    BY <1>2 DEF RunSerial, JobStep
  <2> QED
    BY <1>2, <2>1, SavedKept DEF RunSerial, control, disk, AnyStep, DrainStep,
       NextStep, Drains
<1>3. ASSUME NEW l \in Lines, LavgLate(l) \/ LavgAllowed(l) PROVE AnyStep
  <2>1. JobStep
    BY <1>3 DEF LavgLate, LavgAllowed, JobStep, GiveUp
  <2> QED
    BY <1>3, <2>1, SavedKept DEF LavgLate, LavgAllowed, control, disk, AnyStep,
       DrainStep, NextStep, Drains
<1>4. ASSUME NEW from \in Labels \ Drains, NEW to \in Labels \ {"next_serial"},
             EndOfPart(from, to)
      PROVE  AnyStep
  <2>1. JobStep
    BY <1>4 DEF EndOfPart, JobStep
  <2> QED
    BY <1>4, <2>1, SavedKept DEF EndOfPart, Goto, disk, AnyStep, DrainStep,
       NextStep, Drains
<1>5. CASE Wake \/ EndLoop \/ CheckSuspend \/ EndResume
  <2>1. JobStep
    BY <1>5 DEF Wake, EndLoop, CheckSuspend, EndResume, JobStep
  <2> QED
    BY <1>5, <2>1, SavedKept DEF Wake, EndLoop, CheckSuspend, EndResume,
       check_signal, Goto, disk, AnyStep, DrainStep, NextStep, Drains
<1>6. CASE Save
  <2>1. JobStep
    BY <1>6 DEF Save, JobStep
  <2> QED
    BY <1>6, <2>1, SavedNow DEF Save, Goto, AnyStep, DrainStep, NextStep, Drains
<1>7. CASE EndSerial
  BY <1>4, <1>7 DEF EndSerial, Labels, Drains
<1>8. ASSUME NEW l \in Lines, NEW missed \in BOOLEAN, ResumeLine(l, missed)
      PROVE  AnyStep
  <2>1. JobStep
    BY <1>8 DEF JobStep
  <2> QED
    BY <1>8, <2>1, SavedKept DEF ResumeLine, disk, AnyStep, DrainStep, NextStep,
       Drains
<1> QED
  BY <1>1, <1>2, <1>3, <1>4, <1>5, <1>6, <1>7, <1>8 DEF MainLoop, Labels, Drains

LEMMA CheckSignalStep ==
  ASSUME ControlType, CheckSignal
  PROVE  AnyStep
<1>1. ASSUME NEW p \in Pids, wait_chld(p) PROVE AnyStep
  <2>1. JobStep
    BY <1>1 DEF JobStep
  <2> QED
    BY <1>1, <2>1, SavedKept DEF wait_chld, Goto, disk, AnyStep, DrainStep,
       NextStep, Drains
<1>2. CASE RunNextSerial
  <2>1. JobStep
    BY <1>2 DEF RunNextSerial, JobStep
  <2> QED
    BY <1>2, <2>1, SavedKept DEF RunNextSerial, Goto, disk, AnyStep, DrainStep,
       NextStep, Drains
<1>3. CASE EndWaitChld \/ ClearChld \/ CheckTerm \/ CheckHup \/ CheckUsr1
  <2>1. JobStep
    BY <1>3 DEF EndWaitChld, ClearChld, CheckTerm, CheckHup, CheckUsr1, JobStep
  <2>2. SavedStep
    BY <1>3, SavedKept, SavedNow
       DEF EndWaitChld, ClearChld, CheckTerm, CheckHup, CheckUsr1, disk
  <2>3. DrainStep /\ NextStep
    BY <1>3 DEF EndWaitChld, ClearChld, CheckTerm, CheckHup, CheckUsr1, Goto,
       ControlType, DrainStep, NextStep, Drains
  <2> QED  BY <2>1, <2>2, <2>3 DEF AnyStep
<1> QED  BY <1>1, <1>2, <1>3 DEF CheckSignal

LEMMA ReloadStep ==
  ASSUME ControlType, Reload
  PROVE  AnyStep
<1>1. SavedStep
  BY SavedKept, SavedNow
     DEF Reload, DrainFile, wait_all, EndWaitAll, DropFile, EndDrain, disk
<1>2. NextStep
  BY DEF Reload, DrainFile, wait_all, EndWaitAll, DropFile, EndDrain, Boot,
     Goto, control, NextStep
<1>3. DrainStep
  BY DEF Reload, DrainFile, wait_all, EndWaitAll, DropFile, EndDrain, Goto,
     control, DrainStep, Drains
<1>4. JobStep
  <2>1. CASE (\E f \in Files : DrainFile(f)) \/ EndWaitAll
    BY <2>1 DEF DrainFile, EndWaitAll, JobStep
  <2>2. CASE \E p \in Pids : wait_all(p)
    BY <2>2 DEF JobStep
  <2>3. CASE DropFile
    BY <2>3 DEF DropFile, JobStep, ControlType
  <2>4. CASE EndDrain
    BY <2>4 DEF EndDrain, JobStep
  <2> QED  BY <2>1, <2>2, <2>3, <2>4 DEF Reload
<1> QED  BY <1>1, <1>2, <1>3, <1>4 DEF AnyStep

LEMMA SynchronizeStep ==
  ASSUME ControlType, Synchronize
  PROVE  AnyStep
<1>1. SavedStep
  <2>1. ASSUME NEW f \in Files, SyncNew(f) PROVE SavedStep
    BY <2>1 DEF SyncNew, SavedStep
  <2>2. CASE ~ \E f \in Files : SyncNew(f)
    BY <2>2, SavedKept DEF Synchronize, Scan, SyncRm, EndSyncRm, LoadLine,
       Bootrun, EndLoad, EndSync, disk
  <2> QED  BY <2>1, <2>2
<1>2. pc \notin Drains \cup {"next_serial"} /\ pc' # "next_serial"
  BY DEF Synchronize, Scan, SyncRm, EndSyncRm, LoadLine, Bootrun, EndLoad,
     EndSync, SyncNew, control, Goto, ControlType, Drains
<1>3. JobStep
  <2>1. ASSUME NEW f \in Files, SyncRm(f) \/ SyncNew(f) PROVE JobStep
    BY <2>1 DEF SyncRm, SyncNew, JobStep
  <2>2. CASE Scan \/ EndSyncRm \/ EndLoad \/ EndSync
    BY <2>2 DEF Scan, EndSyncRm, EndLoad, EndSync, JobStep
  <2>3. CASE (\E l \in Lines : LoadLine(l)) \/ (\E m \in BOOLEAN : Bootrun(m))
    BY <2>3 DEF JobStep
  <2> QED  BY <2>1, <2>2, <2>3 DEF Synchronize
<1> QED  BY <1>1, <1>2, <1>3 DEF AnyStep, DrainStep, NextStep

LEMMA EnvironmentStep ==
  ASSUME Environment
  PROVE  AnyStep
<1>1. CASE Crash
  <2>1. SavedStep
    BY <1>1, SavedKept DEF Crash, disk
  <2> QED
    BY <1>1, <2>1 DEF Crash, AnyStep, JobStep, DrainStep, NextStep, Boot, Goto
<1>2. CASE ~Crash
  <2>1. UNCHANGED <<queues, running, saved, pc>>
    BY <1>2 DEF Environment, JobExit, Edit, Usr1, Term, control, disk
  <2>2. NextStep
    BY <2>1 DEF NextStep, running
  <2> QED
    BY <2>1, <2>2, SavedKept DEF AnyStep, JobStep, DrainStep
<1> QED  BY <1>1, <1>2

LEMMA NextIsAnyStep ==
  ASSUME Typed, [Next]_vars
  PROVE  AnyStep
<1>1. ControlType
  BY DEF Typed
<1>2. CASE UNCHANGED vars
  <2>1. UNCHANGED <<queues, running, saved, pc>>
    BY <1>2 DEF vars, control, disk
  <2>2. NextStep
    BY <2>1 DEF NextStep, running
  <2> QED
    BY <2>1, <2>2, SavedKept DEF AnyStep, JobStep, DrainStep
<1> QED
  BY <1>1, <1>2, MainLoopStep, CheckSignalStep, ReloadStep, SynchronizeStep,
     EnvironmentStep DEF Next, Daemon

-----------------------------------------------------------------------------
(* Why a file is being drained.                                            *)

(* Only SIGUSR1 and SIGTERM drain files.                                   *)
DrainGoal ==
  /\ pc \in Drains => goal \in {"usr1", "term"} /\ goal \in Env
  /\ sigUsr1 => "usr1" \in Env
  /\ sigTerm => "term" \in Env

LEMMA DrainGoalInit == Init => DrainGoal
BY DEF Init, DrainGoal, Drains

LEMMA DrainGoalNext ==
  ASSUME Typed, DrainGoal, [Next]_vars
  PROVE  DrainGoal'
<1>a. ControlType
  BY DEF Typed
<1>b. ASSUME UNCHANGED <<control, signals>> PROVE DrainGoal'
  BY <1>b DEF DrainGoal, control, signals
<1>1. CASE UNCHANGED vars
  BY <1>1, <1>b DEF vars
<1>2. CASE MainLoop
  <2>1. UNCHANGED signals
    BY <1>2 DEF MainLoop, Wake, CheckSuspend, ResumeLine, EndResume, test_jobs,
       EndOfPart, RunSerial, EndSerial, Save, cmd_run, LavgLate, LavgAllowed,
       EndLoop
  <2>2. pc' \notin Drains
    BY <1>2 DEF MainLoop, Wake, CheckSuspend, ResumeLine, EndResume, test_jobs,
       EndOfPart, RunSerial, EndSerial, Save, cmd_run, LavgLate, LavgAllowed,
       EndLoop, check_signal, Goto,
       control, Drains
  <2> QED  BY <2>1, <2>2 DEF DrainGoal, signals
<1>3. CASE CheckSignal
  BY <1>3, <1>a DEF CheckSignal, wait_chld, RunNextSerial, EndWaitChld,
     ClearChld, CheckTerm, CheckHup, CheckUsr1, Goto, signals, DrainGoal,
     Drains, ControlType
<1>4. CASE Reload
  BY <1>4 DEF Reload, DrainFile, wait_all, EndWaitAll, DropFile, EndDrain,
     Boot, Goto, control, signals, DrainGoal, Drains
<1>5. CASE Synchronize
  <2>1. pc' \notin Drains
    BY <1>5, <1>a DEF Synchronize, Scan, SyncRm, EndSyncRm, LoadLine, Bootrun,
       EndLoad, EndSync, SyncNew, control, Goto, ControlType, Drains
  <2>2. sigTerm' = sigTerm /\ (sigUsr1' = sigUsr1 \/ sigUsr1' = FALSE)
    BY <1>5 DEF Synchronize, Scan, SyncRm, EndSyncRm, LoadLine, Bootrun,
       EndLoad, EndSync, SyncNew, signals
  <2> QED  BY <2>1, <2>2 DEF DrainGoal
<1>6. CASE Environment
  BY <1>6 DEF Environment, JobExit, Edit, Usr1, Term, Crash, EnvEvent, Boot,
     Goto, control, DrainGoal, Drains
<1> QED  BY <1>1, <1>2, <1>3, <1>4, <1>5, <1>6 DEF Next, Daemon

LEMMA DrainGoalHolds == Spec => []DrainGoal
<1>1. Spec => []CfInv
  BY CfInvHolds
<1>2. CfInv => Typed
  BY DEF CfInv
<1> QED  BY <1>1, <1>2, DrainGoalInit, DrainGoalNext, PTL DEF Spec

-----------------------------------------------------------------------------
(* serial_once, and the lines of the lavg queue.                           *)

(* The serial queue holds no line of the lavg queue, and the reverse.      *)
LEMMA HeadNotLavg ==
  ASSUME QueuesType, AllCounted, run_serial_job
  PROVE  Head(serialQ) \in Lines /\ ~is_lavg(Head(serialQ))
<1> DEFINE h == Head(serialQ)
<1>1. /\ serialQ # <<>> /\ serialQ \in Seq(Lines) /\ h \in Lines
      /\ Len(serialQ) \in Nat /\ Len(serialQ) # 0 /\ h = serialQ[1]
  BY HeadTailProperties, LenProperties, EmptySeq DEF run_serial_job, QueuesType
<1>2. 1 \in Places(serialQ, h)
  BY <1>1 DEF Places
<1>3. Waits(h) > 0
  BY <1>1, <1>2, PlacesFinite, FS_EmptySet DEF Waits
<1> QED  BY <1>1, <1>3 DEF AllCounted, Counted

LEMMA LavgEntry ==
  ASSUME AllCounted, NEW l \in Lines, lavgQ[l] > 0
  PROVE  is_lavg(l)
BY DEF AllCounted, Counted

(* serial_once is never set on a line that goes through the lavg queue.    *)
OnceNotLavg ==
  /\ \A l \in once : ~is_lavg(l)
  /\ \A l \in Lines : saved[l].once => ~is_lavg(l)

LEMMA OnceNotLavgNext ==
  ASSUME Typed, OnceNotLavg, AnyStep
  PROVE  OnceNotLavg'
<1>1. ASSUME NEW l \in Lines, saved'[l].once PROVE ~is_lavg(l)
  <2>1. CASE saved'[l] = saved[l]
    BY <1>1, <2>1 DEF OnceNotLavg
  <2>2. CASE saved'[l] = [num |-> numexe[l], once |-> l \in once]
    <3>1. saved'[l].once = (l \in once)
      BY <2>2
    <3> QED  BY <1>1, <3>1 DEF OnceNotLavg
  <2>3. CASE saved'[l] = NotSaved
    BY <1>1, <2>3 DEF NotSaved
  <2> QED  BY <2>1, <2>2, <2>3 DEF AnyStep, SavedStep
<1>2. CASE once' \subseteq once
  BY <1>1, <1>2 DEF OnceNotLavg, is_lavg
<1>3. CASE UNCHANGED queues \/ run_serial_job
           \/ (\E l \in Lines : Dispatch(l) \/ run_lavg_job(l) \/ GiveUp(l))
           \/ (\E p \in Pids : wait_chld(p) \/ wait_all(p))
           \/ (\E f \in Files : delete_file(f))
  <2>1. once' \subseteq once
    BY <1>3 DEF queues, run_serial_job, Dispatch, run_normal_job, run_lavg_job,
       GiveUp, wait_chld, wait_all, Waited, delete_file
  <2> QED  BY <2>1, <1>2
<1>4. ASSUME NEW l \in Lines, LoadLine(l) PROVE OnceNotLavg'
  <2>1. once' \subseteq once \cup {l} /\ (l \in once' /\ l \notin once => ~is_lavg(l))
    BY <1>4 DEF LoadLine, OnceNotLavg
  <2> QED  BY <1>1, <2>1 DEF OnceNotLavg, is_lavg
<1>5. ASSUME NEW missed \in BOOLEAN, Bootrun(missed) PROVE OnceNotLavg'
  <2>1. once' \subseteq once \cup {cur} /\ (is_lavg(cur) => once' = once)
    BY <1>5 DEF Bootrun, BootrunJob, queues
  <2> QED  BY <1>1, <2>1 DEF OnceNotLavg, is_lavg
<1>6. CASE Boot
  BY <1>2, <1>6 DEF Boot
<1>7. ASSUME NEW l \in Lines, NEW missed \in BOOLEAN, ResumeLine(l, missed)
      PROVE  OnceNotLavg'
  <2>1. once' \subseteq once \cup {l} /\ (is_lavg(l) => once' = once)
    BY <1>7 DEF ResumeLine, BootrunJob, queues
  <2> QED  BY <1>1, <2>1 DEF OnceNotLavg, is_lavg
<1> QED  BY <1>3, <1>4, <1>5, <1>6, <1>7 DEF AnyStep, JobStep

-----------------------------------------------------------------------------
(* lavg_serial_running.                                                    *)

(* Every start of a job succeeds, and wait_all() is only used on the way   *)
(* to exit(): it removes jobs from exe_list, but does not count them off.  *)
Reaped == "fork_fails" \notin Env /\ "usr1" \notin Env

LavgSet == {l \in Lines : CountedLavg(l)}

LavgCounts ==
  /\ Cardinality(LavgProcs) <= lavg_serial_running
  /\ Reaped => pc \in Drains \/ LavgRunningExact

LEMMA LavgProcsIs ==
  /\ LavgProcs = RunIn(exe, LavgSet) /\ LavgProcs' = RunIn(exe', LavgSet)
  /\ IsFiniteSet(LavgProcs) /\ Cardinality(LavgProcs) \in Nat
  /\ Cardinality(LavgProcs') \in Nat
<1>1. LavgProcs = RunIn(exe, LavgSet) /\ LavgProcs' = RunIn(exe', LavgSet)
  BY DEF LavgProcs, RunIn, LavgSet, CountedLavg, is_lavg, is_serial
<1> QED  BY <1>1, RunInFinite

(* Both numbers stay, or change by as much.                                *)
LEMMA LavgTogether ==
  ASSUME RunningType, LavgCounts, NEW d \in Int,
         lavg_serial_running' = lavg_serial_running + d,
         Cardinality(LavgProcs') = Cardinality(LavgProcs) + d,
         pc \in Drains => pc' \in Drains \/ ~Reaped
  PROVE  LavgCounts'
<1>1. Cardinality(LavgProcs) \in Nat
  BY LavgProcsIs
<1> QED  BY <1>1 DEF LavgCounts, LavgRunningExact, RunningType, Drains, Reaped

(* A start counted while fork() failed, an end that is not counted.        *)
LEMMA LavgApart ==
  ASSUME RunningType, LavgCounts, NEW d \in Nat, NEW e \in Nat,
         lavg_serial_running' = lavg_serial_running + d,
         Cardinality(LavgProcs') = Cardinality(LavgProcs) - e,
         Reaped => pc' \in Drains
  PROVE  LavgCounts'
<1>1. Cardinality(LavgProcs) \in Nat
  BY LavgProcsIs
<1> QED  BY <1>1 DEF LavgCounts, LavgRunningExact, RunningType, Reaped

(* A job that enters exe_list.                                             *)
LEMMA LavgStart ==
  ASSUME RunningType, LavgCounts, NEW l \in Lines, run_queue_job(l),
         lavg_serial_running' =
           lavg_serial_running + (IF l \in LavgSet THEN 1 ELSE 0),
         pc \in Drains => pc' \in Drains \/ ~Reaped
  PROVE  LavgCounts'
<1>1. LavgSet \in SUBSET Lines
  BY DEF LavgSet
<1>2. CASE \A L \in SUBSET Lines :
             Cardinality(RunIn(exe', L))
               = Cardinality(RunIn(exe, L)) + (IF l \in L THEN 1 ELSE 0)
  <2>1. Cardinality(LavgProcs')
          = Cardinality(LavgProcs) + (IF l \in LavgSet THEN 1 ELSE 0)
    BY <1>1, <1>2, LavgProcsIs
  <2> QED  BY <2>1, LavgTogether
<1>3. CASE "fork_fails" \in Env /\ exe' = exe
  <2>1. Cardinality(LavgProcs') = Cardinality(LavgProcs) - 0
    BY <1>3, LavgProcsIs
  <2> QED  BY <1>3, <2>1, LavgApart DEF Reaped
<1> QED  BY <1>2, <1>3, RunQueueJobCount

LEMMA LavgSame ==
  ASSUME RunningType, LavgCounts, UNCHANGED <<exe, lavg_serial_running>>,
         pc \in Drains => pc' \in Drains \/ ~Reaped
  PROVE  LavgCounts'
<1>1. LavgProcs' = LavgProcs
  BY LavgProcsIs
<1> QED  BY <1>1, LavgProcsIs, LavgTogether DEF RunningType

LEMMA LavgCountsNext ==
  ASSUME Typed, AllCounted, OnceNotLavg, DrainGoal, LavgCounts, AnyStep
  PROVE  LavgCounts'
<1>a. QueuesType /\ RunningType
  BY DEF Typed
<1>b. LavgSet \in SUBSET Lines
  BY DEF LavgSet
<1>c. CASE Boot
  <2>1. LavgProcs' = {}
    BY <1>c, JobControlAssumption DEF Boot, LavgProcs
  <2> QED
    BY <1>c, <2>1, FS_EmptySet DEF Boot, LavgCounts, LavgRunningExact
<1> SUFFICES ASSUME ~Boot PROVE LavgCounts'
  BY <1>c
<1>d. pc \in Drains => pc' \in Drains \/ ~Reaped
  BY DEF AnyStep, DrainStep, DrainGoal, Reaped
<1>1. CASE UNCHANGED <<queues, running>>
  BY <1>1, <1>a, <1>d, LavgSame DEF running
<1>2. ASSUME NEW l \in Lines, Dispatch(l) PROVE LavgCounts'
  <2>1. CASE UNCHANGED running
    BY <2>1, <1>a, <1>d, LavgSame DEF running
  <2>2. CASE ~is_lavg(l) /\ run_queue_job(l) /\ UNCHANGED lavg_serial_running
    <3>1. l \notin LavgSet /\ lavg_serial_running + 0 = lavg_serial_running
      BY <2>2, <1>a DEF LavgSet, CountedLavg, RunningType
    <3> QED  BY <2>2, <3>1, <1>a, <1>d, LavgStart
  <2> QED  BY <1>2, <2>1, <2>2 DEF Dispatch, run_normal_job
<1>3. CASE run_serial_job
  <2>1. Head(serialQ) \in Lines /\ ~is_lavg(Head(serialQ))
    BY <1>3, <1>a, HeadNotLavg
  <2>2. Head(serialQ) \notin LavgSet
    BY <2>1 DEF LavgSet, CountedLavg
  <2>3. /\ run_queue_job(Head(serialQ))
        /\ lavg_serial_running' = lavg_serial_running + 0
    BY <1>3, <1>a DEF run_serial_job, RunningType
  <2> QED  BY <2>1, <2>2, <2>3, <1>a, <1>d, LavgStart
<1>4. ASSUME NEW l \in Lines, lavgQ[l] > 0, run_lavg_job(l) PROVE LavgCounts'
  <2>1. l \in LavgSet <=> is_serial(l)
    BY <1>4, LavgEntry DEF LavgSet, CountedLavg
  <2> QED
    BY <1>4, <2>1, <1>a, <1>d, LavgStart DEF run_lavg_job, RunningType
<1>5. ASSUME NEW l \in Lines, GiveUp(l) PROVE LavgCounts'
  BY <1>5, <1>a, <1>d, LavgSame DEF GiveUp, running
<1>6. ASSUME NEW p \in Pids, Waited(p)
      PROVE  Cardinality(LavgProcs') = Cardinality(LavgProcs)
                                         - (IF exe[p] \in LavgSet THEN 1 ELSE 0)
  BY <1>6, <1>a, <1>b, WaitedCount, LavgProcsIs
<1>7. ASSUME NEW p \in Pids, wait_chld(p) PROVE LavgCounts'
  <2>1. exe[p] \in LavgSet => ~CountedSerial(exe[p])
    BY DEF LavgSet, CountedLavg, CountedSerial, OnceNotLavg
  <2>2. exe[p] \in LavgSet <=> exe[p] \in Lines /\ CountedLavg(exe[p])
    BY DEF LavgSet
  <2>3. lavg_serial_running'
          = lavg_serial_running - (IF exe[p] \in LavgSet THEN 1 ELSE 0)
    BY <1>7, <1>a, <2>1, <2>2 DEF wait_chld, RunningType
  <2>4. Cardinality(LavgProcs')
          = Cardinality(LavgProcs) - (IF exe[p] \in LavgSet THEN 1 ELSE 0)
    BY <1>6, <1>7 DEF wait_chld
  <2> DEFINE d == IF exe[p] \in LavgSet THEN -1 ELSE 0
  <2>5. /\ d \in Int /\ lavg_serial_running' = lavg_serial_running + d
        /\ Cardinality(LavgProcs') = Cardinality(LavgProcs) + d
    BY <2>3, <2>4, <1>a, LavgProcsIs DEF RunningType
  <2> HIDE DEF d
  <2> QED  BY <2>5, <1>a, <1>d, LavgTogether
<1>8. ASSUME NEW p \in Pids, wait_all(p) PROVE LavgCounts'
  <2>1. /\ lavg_serial_running' = lavg_serial_running + 0 /\ pc' \in Drains
        /\ Waited(p)
    BY <1>8, <1>a DEF wait_all, control, Drains, RunningType
  <2> DEFINE e == IF exe[p] \in LavgSet THEN 1 ELSE 0
  <2>2. e \in Nat /\ Cardinality(LavgProcs') = Cardinality(LavgProcs) - e
    BY <2>1, <1>6
  <2> HIDE DEF e
  <2> QED  BY <2>1, <2>2, <1>a, LavgApart
<1>9. ASSUME NEW f \in Files, delete_file(f) PROVE LavgCounts'
  <2> DEFINE gone == {p \in RunningOf(f) : CountedLavg(exe[p])}
  <2>1. gone = RunIn(exe, LavgSet \cap LinesOf(f))
    BY DEF RunningOf, RunIn, LavgSet, LinesOf
  <2>2. Cardinality(LavgProcs') = Cardinality(LavgProcs) - Cardinality(gone)
    BY <1>9, <1>a, <1>b, <2>1, DeleteFileCount, LavgProcsIs
  <2>3. lavg_serial_running' = lavg_serial_running - Cardinality(gone)
    BY <1>9 DEF delete_file
  <2>4. Cardinality(gone) \in Nat
    BY <2>1, RunInFinite
  <2> HIDE DEF gone
  <2> DEFINE d == 0 - Cardinality(gone)
  <2>5. /\ d \in Int /\ lavg_serial_running' = lavg_serial_running + d
        /\ Cardinality(LavgProcs') = Cardinality(LavgProcs) + d
    BY <2>2, <2>3, <2>4, <1>a, LavgProcsIs DEF RunningType
  <2> HIDE DEF d
  <2> QED  BY <2>5, <1>a, <1>d, LavgTogether
<1>10. CASE (\E l \in Lines : LoadLine(l)) \/ (\E m \in BOOLEAN : Bootrun(m))
             \/ (\E l \in Lines, m \in BOOLEAN : ResumeLine(l, m))
  BY <1>10, <1>a, <1>d, LavgSame DEF LoadLine, Bootrun, ResumeLine, running
<1> QED
  BY <1>1, <1>2, <1>3, <1>4, <1>5, <1>7, <1>8, <1>9, <1>10
     DEF AnyStep, JobStep

(* The test of check_lavg() bounds the counter, unless a job is run        *)
(* because it has waited for too long.                                     *)
LavgWaits == \A l \in Lines : CountedLavg(l) => "late" \notin Opt[l]

LavgSlots == LavgWaits => lavg_serial_running <= SerialMax

LEMMA LavgSlotsNext ==
  ASSUME Typed, AllCounted, LavgSlots, AnyStep
  PROVE  LavgSlots'
<1> SUFFICES ASSUME LavgWaits PROVE lavg_serial_running' <= SerialMax
  BY DEF LavgSlots, LavgWaits, CountedLavg, is_lavg, is_serial
<1>a. /\ lavg_serial_running \in Int /\ lavg_serial_running <= SerialMax
      /\ SerialMax \in Nat \ {0}
  BY JobControlAssumption DEF LavgSlots, Typed, RunningType
<1>1. CASE UNCHANGED lavg_serial_running
  BY <1>1, <1>a
<1>2. ASSUME NEW l \in Lines, lavgQ[l] > 0, run_lavg_job(l),
             "late" \in Opt[l] \/ (is_serial(l) => lavg_serial_running < SerialMax)
      PROVE  lavg_serial_running' <= SerialMax
  <2>1. is_serial(l) => "late" \notin Opt[l]
    BY <1>2, LavgEntry DEF LavgWaits, CountedLavg
  <2> QED  BY <1>2, <1>a, <2>1 DEF run_lavg_job
<1>3. ASSUME NEW p \in Pids, wait_chld(p)
      PROVE  lavg_serial_running' <= SerialMax
  BY <1>3, <1>a DEF wait_chld
<1>4. ASSUME NEW f \in Files, delete_file(f)
      PROVE  lavg_serial_running' <= SerialMax
  <2> DEFINE gone == {p \in RunningOf(f) : CountedLavg(exe[p])}
  <2>1. Cardinality(gone) \in Nat
    BY PidsFinite DEF RunningOf
  <2>2. lavg_serial_running' = lavg_serial_running - Cardinality(gone)
    BY <1>4 DEF delete_file
  <2> HIDE DEF gone
  <2> QED  BY <1>a, <2>1, <2>2
<1>5. CASE Boot
  BY <1>5, <1>a DEF Boot
<1>6. CASE UNCHANGED <<queues, running>> \/ run_serial_job
           \/ (\E l \in Lines : Dispatch(l) \/ GiveUp(l) \/ LoadLine(l))
           \/ (\E p \in Pids : wait_all(p))
           \/ (\E m \in BOOLEAN : Bootrun(m))
           \/ (\E l \in Lines, m \in BOOLEAN : ResumeLine(l, m))
  <2>1. UNCHANGED lavg_serial_running
    BY <1>6 DEF running, run_serial_job, Dispatch, run_normal_job, GiveUp,
       LoadLine, wait_all, Bootrun, ResumeLine
  <2> QED  BY <2>1, <1>1
<1> QED
  BY <1>2, <1>3, <1>4, <1>5, <1>6 DEF AnyStep, JobStep

(* The same for serial_running, without exception.                         *)
SerialSlots ==
  serial_running <= SerialMax
    /\ (pc = "next_serial" => serial_running < SerialMax)

LEMMA SerialSlotsNext ==
  ASSUME Typed, SerialSlots, AnyStep
  PROVE  SerialSlots'
<1>a. /\ serial_running \in Int /\ serial_running <= SerialMax
      /\ SerialMax \in Nat \ {0}
  BY JobControlAssumption DEF SerialSlots, Typed, RunningType
<1>b. pc' = "next_serial" => serial_running' < SerialMax
  BY DEF AnyStep, NextStep, SerialSlots
<1>1. CASE UNCHANGED serial_running
  BY <1>1, <1>a, <1>b DEF SerialSlots
<1>2. CASE run_serial_job /\ (serial_running < SerialMax \/ pc = "next_serial")
  BY <1>2, <1>a, <1>b DEF run_serial_job, SerialSlots
<1>3. ASSUME NEW p \in Pids, wait_chld(p) PROVE SerialSlots'
  BY <1>3, <1>a, <1>b DEF wait_chld, SerialSlots
<1>4. ASSUME NEW f \in Files, delete_file(f) PROVE SerialSlots'
  <2> DEFINE gone == {p \in RunningOf(f) : CountedSerial(exe[p]) /\ ~is_lavg(exe[p])}
  <2>1. Cardinality(gone) \in Nat
    BY PidsFinite DEF RunningOf
  <2>2. serial_running' = serial_running - Cardinality(gone)
    BY <1>4 DEF delete_file
  <2> HIDE DEF gone
  <2> QED  BY <1>a, <1>b, <2>1, <2>2 DEF SerialSlots
<1>5. CASE Boot
  BY <1>5, <1>a, <1>b DEF Boot, SerialSlots
<1>6. CASE UNCHANGED <<queues, running>>
           \/ (\E l \in Lines : Dispatch(l) \/ GiveUp(l) \/ LoadLine(l)
                                  \/ run_lavg_job(l))
           \/ (\E p \in Pids : wait_all(p))
           \/ (\E m \in BOOLEAN : Bootrun(m))
           \/ (\E l \in Lines, m \in BOOLEAN : ResumeLine(l, m))
  <2>1. UNCHANGED serial_running
    BY <1>6 DEF running, Dispatch, run_normal_job, GiveUp, run_lavg_job,
       LoadLine, wait_all, Bootrun, ResumeLine
  <2> QED  BY <2>1, <1>1
<1> QED
  BY <1>2, <1>3, <1>4, <1>5, <1>6 DEF AnyStep, JobStep

-----------------------------------------------------------------------------
(* What holds of every fcrontab and environment.                           *)

SlotsInv ==
  CountInv /\ DrainGoal /\ OnceNotLavg /\ LavgCounts /\ LavgSlots /\ SerialSlots

LEMMA SlotsInvInit == Init => SlotsInv
<1> SUFFICES ASSUME Init PROVE SlotsInv
  OBVIOUS
<1>1. LavgProcs = {}
  BY JobControlAssumption DEF Init, LavgProcs
<1>2. LavgCounts
  BY <1>1, FS_EmptySet DEF Init, LavgCounts, LavgRunningExact
<1>3. OnceNotLavg
  BY DEF Init, OnceNotLavg, NotSaved
<1>4. LavgSlots /\ SerialSlots
  BY JobControlAssumption DEF Init, LavgSlots, SerialSlots
<1> QED
  BY <1>2, <1>3, <1>4, CountInvInit, DrainGoalInit DEF SlotsInv

LEMMA SlotsInvNext ==
  ASSUME SlotsInv, [Next]_vars
  PROVE  SlotsInv'
<1>1. Typed /\ AllCounted
  BY DEF SlotsInv, CountInv
<1>2. AnyStep
  BY <1>1, NextIsAnyStep
<1> QED
  BY <1>1, <1>2, CountInvNext, DrainGoalNext, OnceNotLavgNext, LavgCountsNext,
     LavgSlotsNext, SerialSlotsNext DEF SlotsInv

LEMMA SlotsInvHolds == Spec => []SlotsInv
BY SlotsInvInit, SlotsInvNext, PTL DEF Spec

(* xexit() is on its way to exit().                                        *)
Stopping == goal = "term" /\ pc \in Drains

(* At most serial_max_running serial jobs of the lavg queue run at a time, *)
(* whatever ends, is removed or fails to start, as long as none of them    *)
(* has a limit to its wait (those start when it is over, whatever runs).   *)
THEOREM LavgLimitHolds ==
  ASSUME LavgWaits
  PROVE  Spec => []LavgSerialLimit
<1>1. SlotsInv => LavgSerialLimit
  <2> SUFFICES ASSUME SlotsInv PROVE LavgSerialLimit
    OBVIOUS
  <2>1. /\ Cardinality(LavgProcs) \in Nat /\ SerialMax \in Nat
        /\ lavg_serial_running \in Int
        /\ Cardinality(LavgProcs) <= lavg_serial_running
        /\ lavg_serial_running <= SerialMax
    BY LavgProcsIs, JobControlAssumption
       DEF SlotsInv, LavgCounts, LavgSlots, CountInv, Typed, RunningType
  <2> QED  BY <2>1 DEF LavgSerialLimit
<1> QED  BY <1>1, SlotsInvHolds, PTL

(* lavg_serial_running is the number of the serial jobs of the lavg queue  *)
(* in exe_list, until xexit() waits for them, as long as fork() succeeds   *)
(* and there is no SIGUSR1: those are the two cases in which the code      *)
(* loses count.                                                            *)
THEOREM LavgRunningIsExact ==
  ASSUME Reaped
  PROVE  Spec => [](Stopping \/ LavgRunningExact)
<1>1. SlotsInv => Stopping \/ LavgRunningExact
  BY DEF SlotsInv, LavgCounts, DrainGoal, Reaped, Stopping
<1> QED  BY <1>1, SlotsInvHolds, PTL

(* reload_all(): a file that SIGUSR1 makes the daemon read again is saved  *)
(* as it is when its lines are freed.  (With SIGTERM it need not be: what  *)
(* ended since the first save is not saved again.)                         *)
THEOREM ReloadSavesExactly ==
  ASSUME "term" \notin Env
  PROVE  Spec => DrainSavesExactly
<1>1. SlotsInv /\ [Next]_vars =>
        (pc = "drop_file" /\ pc' = "drain" =>
           \A l \in LinesOf(cur) : saved'[l].num = numexe[l])
  <2> SUFFICES ASSUME SlotsInv, [Next]_vars, pc = "drop_file", pc' = "drain"
               PROVE  \A l \in LinesOf(cur) : saved'[l].num = numexe[l]
    OBVIOUS
  <2>1. goal = "usr1"
    BY DEF SlotsInv, DrainGoal, Drains
  <2>2. DropFile
    <3>1. ~MainLoop
      BY DEF MainLoop, Wake, CheckSuspend, ResumeLine, EndResume, test_jobs,
         EndOfPart, RunSerial, EndSerial, Save, cmd_run, LavgLate, LavgAllowed,
         EndLoop
    <3>2. ~CheckSignal
      BY DEF CheckSignal, wait_chld, RunNextSerial, EndWaitChld,
         ClearChld, CheckTerm, CheckHup, CheckUsr1
    <3>3. ~Synchronize
      BY DEF Synchronize, Scan, SyncRm, EndSyncRm, LoadLine, Bootrun,
         EndLoad, EndSync, SyncNew
    <3>4. ~Environment
      BY DEF Environment, JobExit, Edit, Usr1, Term, Crash, Boot, Goto, control
    <3>5. Reload => DropFile
      BY DEF Reload, DrainFile, wait_all, EndWaitAll, EndDrain
    <3> QED
      BY <3>1, <3>2, <3>3, <3>4, <3>5 DEF Next, Daemon, vars, control
  <2> QED  BY <2>1, <2>2 DEF DropFile, SaveFile, LinesOf
<1> QED  BY <1>1, SlotsInvHolds, PTL DEF Spec, DrainSavesExactly

-----------------------------------------------------------------------------
(* Lines that are serial for once.                                         *)

(* A line that bootrun or a restart may queue as a serial job although it  *)
(* is not one.                                                             *)
Temporary(l) == ~is_serial(l) /\ ~is_lavg(l)

(* Such a line does not run several times at once, or is not even queued   *)
(* several times.                                                          *)
OnceSafe  == \A l \in Lines : Temporary(l) => "exe_sev" \notin Opt[l]
OnceAlone == \A l \in Lines : Temporary(l) => ~Multiple(l)

(* The serial queue takes the line when it is asked to.  (serial_once is   *)
(* set on the line even when the queue is full.)                           *)
RoomForOnce ==
  \A l \in Lines :
    /\ Temporary(l) /\ numexe[l] = 0
    /\ l \in todo \/ (pc = "bootrun" /\ l = cur) \/ (pc = "resume" /\ l \in asleep)
    => Len(serialQ) < QueueMax

(* serial_once is set, or saved, only together with an entry.              *)
OnceCounted ==
  \A l \in Lines : ~is_serial(l) =>
    /\ l \in once => numexe[l] > 0
    /\ saved[l].once => saved[l].num > 0

(* Lines that wait in the serial queue are serial, for once or for good.   *)
QueuedOnce ==
  \A l \in Lines : Waits(l) > 0 /\ ~is_serial(l) => l \in once

LEMMA MayEnterFirst ==
  ASSUME NEW l \in Lines, NEW sev
  PROVE  MayEnter(l, 0, sev)
BY JobControlAssumption DEF MayEnter

LEMMA DispatchOnce ==
  ASSUME QueuesType, NEW k \in Lines, Dispatch(k), NEW l \in Lines
  PROVE  once' = once /\ numexe'[l] >= numexe[l]
<1>1. numexe \in [Lines -> Int] /\ numexe[k] \in Int /\ numexe[l] \in Int
  BY DEF QueuesType
<1>2. once' = once
  BY DEF Dispatch, run_normal_job, queues
<1>3. \/ numexe' = [numexe EXCEPT ![k] = numexe[k] + 1]
      \/ numexe' = [numexe EXCEPT ![k] = numexe[k]]
      \/ numexe' = numexe
  BY DEF Dispatch, add_lavg_job, add_serial_job, run_normal_job, queues
<1> QED  BY <1>1, <1>2, <1>3

LEMMA AddSerialJobPlaces ==
  ASSUME QueuesType, NEW k \in Lines, NEW n \in Int, add_serial_job(k, n),
         NEW l \in Lines, l # k
  PROVE  Waits(l)' = Waits(l) /\ numexe'[l] = numexe[l]
<1>1. Cardinality(Places(Append(serialQ, k), l)) = Cardinality(Places(serialQ, l))
  <2>1. /\ serialQ \in Seq(Lines)
        /\ Cardinality(Places(serialQ, l)) \in Nat
    BY PlacesFinite DEF QueuesType
  <2>2. Cardinality(Places(Append(serialQ, k), l))
          = Cardinality(Places(serialQ, l)) + (IF l = k THEN 1 ELSE 0)
    BY <2>1, PlacesAppend
  <2> QED  BY <2>1, <2>2
<1>2. serialQ' = Append(serialQ, k) \/ serialQ' = serialQ
  BY DEF add_serial_job
<1>3. numexe'[l] = numexe[l]
  BY DEF add_serial_job, QueuesType
<1> QED  BY <1>1, <1>2, <1>3 DEF Waits

(* A line read back is queued with serial_once set, or is left alone.      *)
LEMMA LoadLineOnce ==
  ASSUME CountInv, OnceNotLavg, OnceCounted, RoomForOnce, NEW k \in Lines,
         LoadLine(k)
  PROVE  /\ OnceCounted' /\ once' \subseteq once \cup {k} /\ once \subseteq once'
         /\ \A l \in Lines \ {k} : Waits(l)' = Waits(l)
         /\ ~is_serial(k) => k \in once' \/ Waits(k)' = Waits(k)
<1>a. /\ QueuesType /\ Uncounted /\ SavedCounts
      /\ saved[k].num \in Int /\ saved'= saved /\ k \in todo
  BY DEF CountInv, Typed, DiskType, LoadLine, disk
<1>b. numexe[k] = 0
  BY <1>a DEF Uncounted, NotYet
<1>c. k \notin once \/ is_serial(k)
  BY <1>b DEF OnceCounted
<1>1. CASE is_lavg(k)
  <2>1. /\ once' = once /\ serialQ' = serialQ
        /\ \A l \in Lines \ {k} : numexe'[l] = numexe[l]
    BY <1>1, <1>a DEF LoadLine, OnceNotLavg, add_lavg_job, QueuesType
  <2>2. k \notin once
    BY <1>1 DEF OnceNotLavg
  <2> QED  BY <2>1, <2>2, <1>a DEF OnceCounted, Waits, is_serial
<1>2. CASE /\ ~is_lavg(k) /\ add_serial_job(k, 0)
           /\ once' = IF saved[k].once \/ ~is_serial(k)
                        THEN once \cup {k} ELSE once
  <2>1. \A l \in Lines \ {k} : Waits(l)' = Waits(l) /\ numexe'[l] = numexe[l]
    BY <1>2, <1>a, AddSerialJobPlaces
  <2>2. ~is_serial(k) => numexe'[k] = 1
    <3> SUFFICES ASSUME ~is_serial(k) PROVE numexe'[k] = 1
      OBVIOUS
    <3>1. Len(serialQ) < QueueMax
      BY <1>a, <1>b, <1>2 DEF RoomForOnce, Temporary
    <3>2. MayEnter(k, 0, "serial_sev")
      BY MayEnterFirst
    <3> QED  BY <1>2, <1>a, <3>1, <3>2 DEF add_serial_job, QueuesType
  <2>3. OnceCounted'
    BY <1>2, <1>a, <2>1, <2>2 DEF OnceCounted, is_serial
  <2> QED  BY <1>2, <2>1, <2>3
<1>3. CASE /\ numexe' = [numexe EXCEPT ![k] = saved[k].num]
           /\ once' = IF saved[k].once THEN once \cup {k} ELSE once
           /\ serialQ' = serialQ
  <2>1. \A l \in Lines : numexe'[l] = IF l = k THEN saved[k].num ELSE numexe[l]
    BY <1>3, <1>a DEF QueuesType
  <2>2. OnceCounted'
    BY <1>3, <1>a, <1>c, <2>1 DEF OnceCounted, is_serial
  <2> QED  BY <1>3, <2>2 DEF Waits
<1> QED  BY <1>1, <1>2, <1>3 DEF LoadLine

(* A bootrun line is queued with serial_once set, or is left alone.        *)
LEMMA BootrunJobOnce ==
  ASSUME QueuesType, AllCounted, OnceNotLavg, OnceCounted, NEW k \in Lines,
         NEW missed \in BOOLEAN, BootrunJob(k, missed), saved' = saved,
         Temporary(k) /\ numexe[k] = 0 => Len(serialQ) < QueueMax
  PROVE  /\ OnceCounted' /\ once' \subseteq once \cup {k} /\ once \subseteq once'
         /\ \A l \in Lines : l \in once' \/ Waits(l)' = Waits(l)
<1>a. QueuesType /\ AllCounted /\ saved'= saved /\ k \in Lines
  OBVIOUS
<1>1. CASE UNCHANGED queues
  BY <1>1, <1>a DEF queues, OnceCounted, is_serial, Waits
<1>2. CASE /\ is_lavg(k) /\ add_lavg_job(k, numexe[k])
           /\ UNCHANGED <<once, serialQ>>
  <2>1. \A l \in Lines \ {k} : numexe'[l] = numexe[l]
    BY <1>2, <1>a DEF add_lavg_job, QueuesType
  <2>2. k \notin once
    BY <1>2 DEF OnceNotLavg
  <2> QED  BY <1>2, <2>1, <2>2, <1>a DEF OnceCounted, Waits, is_serial
<1>3. CASE /\ ~is_lavg(k) /\ add_serial_job(k, numexe[k])
           /\ once' = once \cup {k}
  <2>1. \A l \in Lines \ {k} : Waits(l)' = Waits(l) /\ numexe'[l] = numexe[l]
    BY <1>3, <1>a, AddSerialJobPlaces DEF QueuesType
  <2>2. ~is_serial(k) => numexe'[k] > 0
    <3>1. numexe[k] \in Nat
      BY <1>a, CountedNat
    <3>2. CASE numexe[k] = 0 /\ ~is_serial(k)
      <4>1. Len(serialQ) < QueueMax
        BY <1>3, <3>2 DEF Temporary
      <4>2. MayEnter(k, numexe[k], "serial_sev")
        BY <1>a, <3>2, MayEnterFirst
      <4> QED  BY <1>3, <1>a, <3>2, <4>1, <4>2 DEF add_serial_job, QueuesType
    <3>3. CASE numexe[k] # 0
      BY <1>3, <1>a, <3>1, <3>3 DEF add_serial_job, QueuesType
    <3> QED  BY <3>2, <3>3
  <2>3. OnceCounted'
    BY <1>3, <1>a, <2>1, <2>2 DEF OnceCounted, is_serial
  <2> QED  BY <1>3, <2>1, <2>3
<1> QED  BY <1>1, <1>2, <1>3 DEF BootrunJob

LEMMA BootrunOnce ==
  ASSUME CountInv, OnceNotLavg, OnceCounted, RoomForOnce,
         NEW missed \in BOOLEAN, Bootrun(missed)
  PROVE  /\ OnceCounted' /\ once' \subseteq once \cup {cur} /\ once \subseteq once'
         /\ \A l \in Lines : l \in once' \/ Waits(l)' = Waits(l)
<1>1. /\ QueuesType /\ AllCounted /\ saved'= saved /\ cur \in Lines
      /\ pc = "bootrun" /\ BootrunJob(cur, missed)
  BY DEF CountInv, Typed, Bootrun, disk, LoadReady, LoadedLines
<1>2. Temporary(cur) /\ numexe[cur] = 0 => Len(serialQ) < QueueMax
  BY <1>1 DEF RoomForOnce
<1> QED  BY <1>1, <1>2, BootrunJobOnce

LEMMA ResumeOnce ==
  ASSUME CountInv, OnceNotLavg, OnceCounted, RoomForOnce, NEW k \in Lines,
         NEW missed \in BOOLEAN, ResumeLine(k, missed)
  PROVE  /\ OnceCounted' /\ once' \subseteq once \cup {k} /\ once \subseteq once'
         /\ \A l \in Lines : l \in once' \/ Waits(l)' = Waits(l)
<1>1. /\ QueuesType /\ AllCounted /\ saved'= saved
      /\ pc = "resume" /\ k \in asleep /\ BootrunJob(k, missed)
  BY DEF CountInv, Typed, ResumeLine, disk
<1>2. Temporary(k) /\ numexe[k] = 0 => Len(serialQ) < QueueMax
  BY <1>1 DEF RoomForOnce
<1> QED  BY <1>1, <1>2, BootrunJobOnce

LEMMA OnceCountedNext ==
  ASSUME CountInv, Typed', OnceNotLavg, OnceCounted, RoomForOnce, AnyStep
  PROVE  OnceCounted'
<1>a. QueuesType /\ AllCounted /\ QueuesType'
  BY DEF CountInv, Typed
<1>b. ASSUME NEW l \in Lines, ~is_serial(l), saved'[l].once
      PROVE  saved'[l].num > 0
  <2>1. CASE saved'[l] = saved[l]
    BY <1>b, <2>1 DEF OnceCounted
  <2>2. CASE saved'[l] = [num |-> numexe[l], once |-> l \in once]
    <3>1. saved'[l].once = (l \in once) /\ saved'[l].num = numexe[l]
      BY <2>2
    <3> QED  BY <1>b, <3>1 DEF OnceCounted
  <2>3. CASE saved'[l] = NotSaved
    BY <1>b, <2>3 DEF NotSaved
  <2> QED  BY <2>1, <2>2, <2>3 DEF AnyStep, SavedStep
<1>c. ASSUME \A l \in Lines : l \in once' => l \in once /\ numexe'[l] >= numexe[l]
      PROVE  OnceCounted'
  <2>1. \A l \in Lines : numexe[l] \in Int /\ numexe'[l] \in Int
    BY <1>a DEF QueuesType
  <2>2. ASSUME NEW l \in Lines, ~is_serial(l), l \in once' PROVE numexe'[l] > 0
    <3>1. numexe[l] > 0 /\ numexe'[l] >= numexe[l]
      BY <1>c, <2>2 DEF OnceCounted
    <3> QED  BY <2>1, <3>1
  <2> QED  BY <2>2, <1>b DEF OnceCounted, is_serial
<1>d. \A l \in Lines : numexe[l] \in Int /\ numexe[l] >= numexe[l]
  BY <1>a DEF QueuesType
<1>1. CASE UNCHANGED <<queues, running>>
  BY <1>1, <1>c, <1>d DEF queues
<1>2. ASSUME NEW k \in Lines, Dispatch(k) PROVE OnceCounted'
  BY <1>2, <1>a, <1>c, DispatchOnce
<1>3. CASE run_serial_job \/ (\E k \in Lines : run_lavg_job(k))
  BY <1>3, <1>c, <1>d DEF run_serial_job, run_lavg_job
<1>4. ASSUME NEW k \in Lines, lavgQ[k] > 0, GiveUp(k) PROVE OnceCounted'
  <2>1. k \notin once /\ once' = once
    BY <1>4, <1>a, LavgEntry DEF OnceNotLavg, GiveUp
  <2>2. \A l \in Lines \ {k} : numexe'[l] = numexe[l]
    BY <1>4, <1>a DEF GiveUp, QueuesType
  <2> QED  BY <2>1, <2>2, <1>c, <1>d
<1>5. ASSUME NEW p \in Pids, Waited(p) PROVE OnceCounted'
  BY <1>5, <1>a, <1>c, <1>d DEF Waited, QueuesType
<1>6. ASSUME NEW f \in Files, delete_file(f) PROVE OnceCounted'
  BY <1>6, <1>a, <1>c, <1>d DEF delete_file, QueuesType
<1>7. CASE \E k \in Lines : LoadLine(k)
  BY <1>7, LoadLineOnce
<1>8. CASE \E missed \in BOOLEAN : Bootrun(missed)
  BY <1>8, BootrunOnce
<1>9. CASE Boot
  BY <1>9, <1>c DEF Boot
<1>10. CASE \E k \in Lines, missed \in BOOLEAN : ResumeLine(k, missed)
  BY <1>10, ResumeOnce
<1> QED
  BY <1>1, <1>2, <1>3, <1>4, <1>5, <1>6, <1>7, <1>8, <1>9, <1>10
     DEF AnyStep, JobStep, wait_chld, wait_all

(* A line that is queued once only does not wait while it runs: the end of *)
(* its job may clear serial_once.                                          *)
LEMMA QueuedOnceNext ==
  ASSUME CountInv, OnceNotLavg, OnceCounted, RoomForOnce, OnceAlone,
         QueuedOnce, AnyStep
  PROVE  QueuedOnce'
<1>a. QueuesType /\ RunningType /\ AllCounted
  BY DEF CountInv, Typed
<1>b. \A l \in Lines : Waits(l) \in Nat
  BY <1>a, CountTypes
<1>c. ASSUME \A l \in Lines : ~is_serial(l) /\ Waits(l)' > 0
                                => l \in once' \/ (Waits(l) > 0 /\ once' = once)
      PROVE  QueuedOnce'
  BY <1>c DEF QueuedOnce, is_serial
<1>1. CASE UNCHANGED <<once, serialQ>>
  BY <1>1, <1>c DEF Waits
<1>2. ASSUME NEW k \in Lines, Dispatch(k) PROVE QueuedOnce'
  <2>1. CASE UNCHANGED <<once, serialQ>>
    BY <2>1, <1>1
  <2>2. CASE is_serial(k) /\ add_serial_job(k, numexe[k]) /\ UNCHANGED once
    <3>1. \A l \in Lines \ {k} : Waits(l)' = Waits(l)
      BY <2>2, <1>a, AddSerialJobPlaces DEF QueuesType
    <3> QED  BY <2>2, <3>1, <1>c
  <2> QED
    BY <1>2, <2>1, <2>2 DEF Dispatch, run_normal_job, queues
<1>3. CASE run_serial_job
  <2>1. serialQ # <<>> /\ serialQ \in Seq(Lines) /\ serialQ' = Tail(serialQ)
        /\ once' = once
    BY <1>3, <1>a DEF run_serial_job, QueuesType
  <2>2. \A l \in Lines : Waits(l)' > 0 => Waits(l) > 0
    <3> TAKE l \in Lines
    <3>1. Cardinality(Places(Tail(serialQ), l))
            = Cardinality(Places(serialQ, l)) - (IF l = Head(serialQ) THEN 1 ELSE 0)
      BY <2>1, PlacesTail
    <3> QED  BY <2>1, <3>1, <1>b DEF Waits
  <2> QED  BY <2>1, <2>2, <1>c
<1>4. CASE \E k \in Lines : run_lavg_job(k) \/ GiveUp(k)
  BY <1>4, <1>1 DEF run_lavg_job, GiveUp
<1>5. ASSUME NEW p \in Pids, Waited(p), serialQ' = serialQ PROVE QueuedOnce'
  <2> SUFFICES ASSUME NEW l \in Lines, Waits(l)' > 0, ~is_serial(l)
               PROVE  l \in once'
    BY DEF QueuedOnce, is_serial
  <2>1. Waits(l) > 0 /\ l \in once
    BY <1>5 DEF Waits, QueuedOnce
  <2>2. ~Multiple(l)
    BY <2>1 DEF OnceAlone, Temporary, OnceNotLavg
  <2>3. Runs(l) = 0
    <3>1. Entries(l) <= 1 /\ lavgQ[l] >= 0
      BY <1>a, <2>2 DEF AllCounted, Counted
    <3>2. Entries(l) = Waits(l) + lavgQ[l] + Runs(l)
      BY EntriesSum
    <3> QED  BY <2>1, <3>1, <3>2, <1>a, CountTypes
  <2>4. exe[p] # l
    BY <2>3, RunInFinite DEF Runs
  <2> QED  BY <1>5, <2>1, <2>4 DEF Waited
<1>6. ASSUME NEW f \in Files, delete_file(f) PROVE QueuedOnce'
  <2> SUFFICES ASSUME NEW l \in Lines, Waits(l)' > 0, ~is_serial(l)
               PROVE  l \in once'
    BY DEF QueuedOnce, is_serial
  <2>1. Cardinality(Places(Without(serialQ, f), l))
          = IF FileOf[l] = f THEN 0 ELSE Cardinality(Places(serialQ, l))
    BY <1>a, PlacesWithout DEF QueuesType
  <2>2. FileOf[l] # f /\ Waits(l) > 0
    BY <1>6, <2>1 DEF delete_file, Waits
  <2> QED  BY <1>6, <2>2 DEF delete_file, QueuedOnce
<1>7. ASSUME NEW k \in Lines, LoadLine(k) PROVE QueuedOnce'
  <2>1. /\ once \subseteq once'
        /\ \A l \in Lines \ {k} : Waits(l)' = Waits(l)
        /\ ~is_serial(k) => k \in once' \/ Waits(k)' = Waits(k)
    BY <1>7, LoadLineOnce
  <2> QED  BY <2>1 DEF QueuedOnce, is_serial
<1>8. ASSUME NEW missed \in BOOLEAN, Bootrun(missed) PROVE QueuedOnce'
  <2>1. /\ once \subseteq once'
        /\ \A l \in Lines : l \in once' \/ Waits(l)' = Waits(l)
    BY <1>8, BootrunOnce
  <2> QED  BY <2>1 DEF QueuedOnce, is_serial
<1>9. CASE Boot
  <2>1. \A l \in Lines : Waits(l)' = 0
    <3> TAKE l \in Lines
    <3>1. Places(serialQ, l)' = {}
      BY <1>9 DEF Boot, Places
    <3> QED  BY <3>1, FS_EmptySet DEF Waits
  <2> QED  BY <2>1 DEF QueuedOnce
<1>10. ASSUME NEW k \in Lines, NEW missed \in BOOLEAN, ResumeLine(k, missed)
       PROVE  QueuedOnce'
  <2>1. /\ once \subseteq once'
        /\ \A l \in Lines : l \in once' \/ Waits(l)' = Waits(l)
    BY <1>10, ResumeOnce
  <2> QED  BY <2>1 DEF QueuedOnce, is_serial
<1> QED
  BY <1>1, <1>2, <1>3, <1>4, <1>5, <1>6, <1>7, <1>8, <1>9, <1>10
     DEF AnyStep, JobStep, wait_chld, wait_all, queues

-----------------------------------------------------------------------------
(* serial_running.                                                         *)

SerialSet == {l \in Lines : CountedSerial(l)}

SerialCounts ==
  /\ Cardinality(SerialProcs) <= serial_running
  /\ Reaped /\ OnceAlone => pc \in Drains \/ SerialRunningExact

LEMMA SerialProcsIs ==
  /\ SerialProcs = RunIn(exe, SerialSet) /\ SerialProcs' = RunIn(exe', SerialSet')
  /\ Cardinality(SerialProcs) \in Nat /\ Cardinality(SerialProcs') \in Nat
<1>1. SerialProcs = RunIn(exe, SerialSet) /\ SerialProcs' = RunIn(exe', SerialSet')
  BY DEF SerialProcs, RunIn, SerialSet
<1> QED  BY <1>1, RunInFinite

LEMMA SerialSetSame ==
  ASSUME once' = once
  PROVE  SerialSet' = SerialSet /\ SerialSet \in SUBSET Lines
BY DEF SerialSet, CountedSerial, is_serial, is_lavg

LEMMA RunInSubset ==
  ASSUME NEW e, NEW L, NEW M, L \subseteq M
  PROVE  Cardinality(RunIn(e, L)) <= Cardinality(RunIn(e, M))
<1>1. RunIn(e, L) \in SUBSET RunIn(e, M)
  BY DEF RunIn
<1>2. IsFiniteSet(RunIn(e, M))
  BY RunInFinite
<1> QED  BY <1>1, <1>2, FS_Subset

(* Both numbers change by as much, or the number of jobs by less when      *)
(* nothing is said of their equality.                                      *)
LEMMA SerialMoves ==
  ASSUME RunningType, SerialCounts, NEW d \in Int,
         serial_running' = serial_running + d,
         Cardinality(SerialProcs') <= Cardinality(SerialProcs) + d,
         Reaped /\ OnceAlone /\ pc' \notin Drains
           => Cardinality(SerialProcs') = Cardinality(SerialProcs) + d,
         pc \in Drains => pc' \in Drains \/ ~Reaped
  PROVE  SerialCounts'
<1>1. Cardinality(SerialProcs) \in Nat /\ Cardinality(SerialProcs') \in Nat
  BY SerialProcsIs
<1>2. serial_running \in Int /\ Cardinality(SerialProcs) <= serial_running
  BY DEF RunningType, SerialCounts
<1>3. Cardinality(SerialProcs') <= serial_running'
  BY <1>1, <1>2
<1>4. ASSUME Reaped, OnceAlone, pc' \notin Drains
      PROVE  serial_running' = Cardinality(SerialProcs')
  <2>1. serial_running = Cardinality(SerialProcs)
    BY <1>4 DEF SerialCounts, SerialRunningExact
  <2> QED  BY <1>4, <2>1
<1> QED
  BY <1>3, <1>4 DEF SerialCounts, SerialRunningExact, Reaped, OnceAlone,
     Temporary, Multiple, is_serial, is_lavg, Drains

LEMMA SerialSame ==
  ASSUME RunningType, SerialCounts, UNCHANGED <<exe, serial_running>>,
         RunIn(exe, SerialSet') = RunIn(exe, SerialSet),
         pc \in Drains => pc' \in Drains \/ ~Reaped
  PROVE  SerialCounts'
<1>1. Cardinality(SerialProcs') = Cardinality(SerialProcs) + 0
        /\ Cardinality(SerialProcs) \in Nat
  BY SerialProcsIs
<1>2. serial_running' = serial_running + 0
  BY DEF RunningType
<1> QED  BY <1>1, <1>2, SerialMoves

(* A job that is not serial enters exe_list.                               *)
LEMMA SerialOther ==
  ASSUME RunningType, SerialCounts, NEW l \in Lines, run_queue_job(l),
         l \notin SerialSet, UNCHANGED <<once, serial_running>>,
         pc \in Drains => pc' \in Drains \/ ~Reaped
  PROVE  SerialCounts'
<1>1. SerialSet' = SerialSet /\ SerialSet \in SUBSET Lines
  BY SerialSetSame
<1>2. Cardinality(RunIn(exe', SerialSet)) = Cardinality(RunIn(exe, SerialSet)) + 0
  BY <1>1, RunQueueJobCount, RunInFinite
<1>3. Cardinality(SerialProcs') = Cardinality(SerialProcs) + 0
        /\ Cardinality(SerialProcs) \in Nat
  BY <1>1, <1>2, SerialProcsIs
<1>4. serial_running' = serial_running + 0
  BY DEF RunningType
<1> QED  BY <1>3, <1>4, SerialMoves

(* The job that ends is the only one of a line that was serial for once.   *)
LEMMA SerialWaited ==
  ASSUME CountInv, OnceNotLavg, NEW p \in Pids, Waited(p)
  PROVE  /\ Cardinality(SerialProcs')
              <= Cardinality(SerialProcs) - (IF exe[p] \in SerialSet THEN 1 ELSE 0)
         /\ OnceAlone =>
              Cardinality(SerialProcs')
                = Cardinality(SerialProcs) - (IF exe[p] \in SerialSet THEN 1 ELSE 0)
<1>a. QueuesType /\ RunningType /\ AllCounted
  BY DEF CountInv, Typed
<1>b. SerialSet \in SUBSET Lines /\ SerialSet' \in SUBSET SerialSet
  BY DEF SerialSet, CountedSerial, is_serial, is_lavg, Waited
<1>1. Cardinality(RunIn(exe', SerialSet))
        = Cardinality(SerialProcs) - (IF exe[p] \in SerialSet THEN 1 ELSE 0)
  BY <1>a, <1>b, WaitedCount, SerialProcsIs
<1>2. Cardinality(SerialProcs') <= Cardinality(RunIn(exe', SerialSet))
  BY <1>b, RunInSubset, SerialProcsIs
<1>3. ASSUME OnceAlone PROVE RunIn(exe', SerialSet') = RunIn(exe', SerialSet)
  <2>1. SerialSet \ SerialSet' \subseteq {exe[p]}
    BY DEF SerialSet, CountedSerial, is_serial, is_lavg, Waited
  <2>2. ASSUME exe[p] \in SerialSet \ SerialSet', NEW q \in Pids
        PROVE  exe'[q] # exe[p]
    <3> DEFINE l == exe[p]
    <3>1. l \in Lines /\ Temporary(l)
      BY <2>2 DEF SerialSet, CountedSerial, OnceNotLavg, Waited, Temporary,
         is_serial, is_lavg
    <3>2. Entries(l) <= 1 /\ lavgQ[l] >= 0
      BY <1>a, <1>3, <3>1 DEF OnceAlone, AllCounted, Counted
    <3>3. Runs(l) <= 1
      BY <3>1, <3>2, <1>a, EntriesSum, CountTypes
    <3>4. Cardinality(RunIn(exe', {l})) = Runs(l) - 1
      <4>1. {l} \in SUBSET Lines
        BY <3>1
      <4> HIDE DEF l
      <4>2. Cardinality(RunIn(exe', {l}))
              = Cardinality(RunIn(exe, {l})) - (IF exe[p] \in {l} THEN 1 ELSE 0)
        BY <4>1, <1>a, WaitedCount
      <4> QED  BY <4>2 DEF Runs, l
    <3>5. Cardinality(RunIn(exe', {l})) \in Nat /\ Runs(l) \in Nat
      BY RunInFinite DEF Runs
    <3>6. ~(Cardinality(RunIn(exe', {l})) > 0)
      BY <3>3, <3>4, <3>5
    <3> QED  BY <3>6, RunInFinite
  <2> QED  BY <1>b, <2>1, <2>2 DEF RunIn
<1> QED  BY <1>1, <1>2, <1>3, SerialProcsIs

LEMMA SerialCountsNext ==
  ASSUME CountInv, DrainGoal, OnceNotLavg, OnceCounted, RoomForOnce, OnceSafe,
         OnceAlone => QueuedOnce, SerialCounts, "overrun" \notin Env, AnyStep
  PROVE  SerialCounts'
<1>a. QueuesType /\ RunningType /\ AllCounted
  BY DEF CountInv, Typed
<1>c. CASE Boot
  <2>1. SerialProcs' = {}
    BY <1>c, JobControlAssumption DEF Boot, SerialProcs
  <2> QED
    BY <1>c, <2>1, FS_EmptySet DEF Boot, SerialCounts, SerialRunningExact
<1> SUFFICES ASSUME ~Boot PROVE SerialCounts'
  BY <1>c
<1>d. pc \in Drains => pc' \in Drains \/ ~Reaped
  BY DEF AnyStep, DrainStep, DrainGoal, Reaped
<1>e. ASSUME UNCHANGED <<once, exe, serial_running>> PROVE SerialCounts'
  BY <1>a, <1>d, <1>e, SerialSetSame, SerialSame
<1>1. CASE UNCHANGED <<queues, running>>
  BY <1>1, <1>e DEF queues, running
<1>2. ASSUME NEW l \in Lines, Dispatch(l) PROVE SerialCounts'
  <2>1. CASE UNCHANGED running
    BY <1>2, <2>1, <1>e, <1>a, DispatchOnce DEF running
  <2>2. CASE /\ Temporary(l) /\ MayEnter(l, numexe[l], "exe_sev")
             /\ run_queue_job(l) /\ UNCHANGED <<once, serial_running>>
    <3>1. numexe[l] = 0
      BY <2>2 DEF OnceSafe, MayEnter
    <3>2. l \notin SerialSet
      BY <2>2, <3>1 DEF SerialSet, CountedSerial, OnceCounted, Temporary
    <3> QED  BY <2>2, <3>2, <1>a, <1>d, SerialOther
  <2> QED  BY <1>2, <2>1, <2>2 DEF Dispatch, run_normal_job, Temporary
<1>3. CASE run_serial_job
  <2> DEFINE h == Head(serialQ)
             s == IF h \in SerialSet THEN 1 ELSE 0
  <2>1. h \in Lines /\ ~is_lavg(h)
    BY <1>3, <1>a, HeadNotLavg
  <2>2. SerialSet' = SerialSet /\ SerialSet \in SUBSET Lines
    BY <1>3, SerialSetSame DEF run_serial_job
  <2>3. run_queue_job(h) /\ serial_running' = serial_running + 1
    BY <1>3 DEF run_serial_job
  <2>4. Reaped /\ OnceAlone => h \in SerialSet
    <3> SUFFICES ASSUME OnceAlone PROVE h \in SerialSet
      OBVIOUS
    <3>1. Waits(h) > 0
      <4>1. /\ serialQ # <<>> /\ serialQ \in Seq(Lines)
            /\ Len(serialQ) \in Nat /\ Len(serialQ) # 0 /\ h = serialQ[1]
        BY <1>3, <1>a, HeadTailProperties, LenProperties, EmptySeq
           DEF run_serial_job, QueuesType
      <4>2. 1 \in Places(serialQ, h)
        BY <4>1 DEF Places
      <4> HIDE DEF h
      <4> QED  BY <4>1, <4>2, PlacesFinite, FS_EmptySet DEF Waits
    <3> QED  BY <2>1, <3>1 DEF QueuedOnce, SerialSet, CountedSerial
  <2>5. CASE \A L \in SUBSET Lines :
               Cardinality(RunIn(exe', L))
                 = Cardinality(RunIn(exe, L)) + (IF h \in L THEN 1 ELSE 0)
    <3>1. Cardinality(SerialProcs')
            = Cardinality(SerialProcs) + (IF h \in SerialSet THEN 1 ELSE 0)
      BY <2>2, <2>5, SerialProcsIs
    <3>2. Cardinality(SerialProcs) \in Nat
      BY SerialProcsIs
    <3>3. Cardinality(SerialProcs') <= Cardinality(SerialProcs) + 1
      BY <3>1, <3>2
    <3> QED  BY <2>3, <2>4, <3>1, <3>3, <1>a, <1>d, SerialMoves
  <2>6. CASE "fork_fails" \in Env /\ exe' = exe
    <3>1. ~Reaped /\ Cardinality(SerialProcs') <= Cardinality(SerialProcs) + 1
      BY <2>2, <2>6, SerialProcsIs DEF Reaped
    <3> QED  BY <2>3, <3>1, <1>a, <1>d, SerialMoves
  <2> HIDE DEF h
  <2> QED  BY <2>1, <2>3, <2>5, <2>6, <1>a, RunQueueJobCount
<1>4. ASSUME NEW l \in Lines, lavgQ[l] > 0, run_lavg_job(l) PROVE SerialCounts'
  <2>1. is_lavg(l) /\ l \notin once
    BY <1>4, <1>a, LavgEntry DEF OnceNotLavg
  <2>2. l \notin SerialSet
    BY <2>1 DEF SerialSet, CountedSerial
  <2> QED  BY <1>4, <2>2, <1>a, <1>d, SerialOther DEF run_lavg_job
<1>5. ASSUME NEW l \in Lines, GiveUp(l) PROVE SerialCounts'
  BY <1>5, <1>e DEF GiveUp, running
<1>6. ASSUME NEW p \in Pids, wait_chld(p) PROVE SerialCounts'
  <2>1. exe[p] \in SerialSet <=> exe[p] \in Lines /\ CountedSerial(exe[p])
    BY DEF SerialSet
  <2> DEFINE d == IF exe[p] \in SerialSet THEN -1 ELSE 0
  <2>2. d \in Int /\ serial_running' = serial_running + d
    BY <1>6, <1>a, <2>1 DEF wait_chld, RunningType
  <2>3. /\ Cardinality(SerialProcs') <= Cardinality(SerialProcs) + d
        /\ OnceAlone => Cardinality(SerialProcs') = Cardinality(SerialProcs) + d
    BY <1>6, SerialWaited, SerialProcsIs DEF wait_chld
  <2> HIDE DEF d
  <2> QED  BY <2>2, <2>3, <1>a, <1>d, SerialMoves
<1>7. ASSUME NEW p \in Pids, wait_all(p) PROVE SerialCounts'
  <2>1. /\ serial_running' = serial_running + 0 /\ pc' \in Drains /\ Waited(p)
    BY <1>7, <1>a DEF wait_all, control, Drains, RunningType
  <2>2. Cardinality(SerialProcs') <= Cardinality(SerialProcs) + 0
    BY <2>1, SerialWaited, SerialProcsIs
  <2> QED  BY <2>1, <2>2, <1>a, <1>d, SerialMoves
<1>8. ASSUME NEW f \in Files, delete_file(f) PROVE SerialCounts'
  <2> DEFINE gone == {p \in RunningOf(f) : CountedSerial(exe[p]) /\ ~is_lavg(exe[p])}
  <2>0. SerialSet \in SUBSET Lines
    BY DEF SerialSet
  <2>1. gone = RunIn(exe, SerialSet \cap LinesOf(f))
    BY DEF RunningOf, RunIn, SerialSet, LinesOf, CountedSerial, OnceNotLavg
  <2>2. RunIn(exe', SerialSet') = RunIn(exe', SerialSet)
    <3>1. \A l \in Lines : l \notin LinesOf(f) => (l \in SerialSet' <=> l \in SerialSet)
      BY <1>8 DEF delete_file, SerialSet, CountedSerial, LinesOf, is_serial, is_lavg
    <3>2. \A p \in Pids : exe'[p] \notin LinesOf(f)
      BY <1>8, JobControlAssumption DEF delete_file, RunningOf, LinesOf
    <3>3. SerialSet' \in SUBSET Lines
      BY DEF SerialSet
    <3> QED  BY <2>0, <3>1, <3>2, <3>3 DEF RunIn
  <2>3. Cardinality(SerialProcs') = Cardinality(SerialProcs) - Cardinality(gone)
    BY <1>8, <1>a, <2>0, <2>1, <2>2, DeleteFileCount, SerialProcsIs
  <2>4. serial_running' = serial_running - Cardinality(gone)
    BY <1>8 DEF delete_file
  <2>5. Cardinality(gone) \in Nat
    BY <2>1, RunInFinite
  <2> HIDE DEF gone
  <2> DEFINE d == 0 - Cardinality(gone)
  <2>6. /\ d \in Int /\ serial_running' = serial_running + d
        /\ Cardinality(SerialProcs') = Cardinality(SerialProcs) + d
        /\ Cardinality(SerialProcs') <= Cardinality(SerialProcs) + d
    BY <2>3, <2>4, <2>5, <1>a, SerialProcsIs DEF RunningType
  <2> HIDE DEF d
  <2> QED  BY <2>6, <1>a, <1>d, SerialMoves
<1>9. ASSUME NEW k, once \subseteq once', once' \subseteq once \cup {k},
             \A p \in Pids : exe[p] # k, UNCHANGED running
      PROVE  SerialCounts'
  <2>1. \A l \in Lines : l # k => (l \in SerialSet' <=> l \in SerialSet)
    BY <1>9 DEF SerialSet, CountedSerial, is_serial, is_lavg
  <2>2. SerialSet \in SUBSET Lines /\ SerialSet' \in SUBSET Lines
    BY DEF SerialSet
  <2>3. RunIn(exe, SerialSet') = RunIn(exe, SerialSet)
    BY <1>9, <2>1, <2>2 DEF RunIn
  <2> QED  BY <1>9, <2>3, <1>a, <1>d, SerialSame DEF running
<1>10. ASSUME NEW k \in Lines, LoadLine(k) PROVE SerialCounts'
  <2>1. \A p \in Pids : exe[p] # k
    BY <1>10, <1>a, CountedNat DEF LoadLine, CountInv, Uncounted, NotYet
  <2>2. once \subseteq once' /\ once' \subseteq once \cup {k} /\ UNCHANGED running
    BY <1>10, LoadLineOnce DEF LoadLine
  <2> QED  BY <2>1, <2>2, <1>9
<1>11. ASSUME NEW missed \in BOOLEAN, Bootrun(missed) PROVE SerialCounts'
  <2>1. \A p \in Pids : exe[p] # cur
    BY <1>11 DEF Bootrun, CountInv, LoadReady
  <2>2. once \subseteq once' /\ once' \subseteq once \cup {cur} /\ UNCHANGED running
    BY <1>11, BootrunOnce DEF Bootrun
  <2> QED  BY <2>1, <2>2, <1>9
<1>12. ASSUME NEW k \in Lines, NEW missed \in BOOLEAN, ResumeLine(k, missed)
       PROVE  SerialCounts'
  <2>1. CASE missed
    <3>1. \A p \in Pids : exe[p] # k
      BY <1>12, <2>1 DEF ResumeLine
    <3>2. once \subseteq once' /\ once' \subseteq once \cup {k} /\ UNCHANGED running
      BY <1>12, ResumeOnce DEF ResumeLine
    <3> QED  BY <3>1, <3>2, <1>9
  <2>2. CASE ~missed
    BY <1>12, <2>2, <1>1 DEF ResumeLine, BootrunJob
  <2> QED  BY <2>1, <2>2
<1> QED
  BY <1>1, <1>2, <1>3, <1>4, <1>5, <1>6, <1>7, <1>8, <1>10, <1>11, <1>12
     DEF AnyStep, JobStep

-----------------------------------------------------------------------------
(* The limit of the serial queue.                                          *)

OnceInv ==
  /\ SlotsInv /\ OnceCounted /\ (OnceAlone => QueuedOnce)
  /\ "overrun" \notin Env => SerialCounts

LEMMA OnceInvInit == Init => OnceInv
<1> SUFFICES ASSUME Init PROVE OnceInv
  OBVIOUS
<1>1. SerialProcs = {}
  BY JobControlAssumption DEF Init, SerialProcs
<1>2. SerialCounts
  BY <1>1, FS_EmptySet DEF Init, SerialCounts, SerialRunningExact
<1>3. OnceCounted
  BY DEF Init, OnceCounted, NotSaved
<1>4. QueuedOnce
  <2>1. \A l \in Lines : Waits(l) = 0
    <3> TAKE l \in Lines
    <3>1. Places(serialQ, l) = {}
      BY DEF Init, Places
    <3> QED  BY <3>1, FS_EmptySet DEF Waits
  <2> QED  BY <2>1 DEF QueuedOnce
<1> QED  BY <1>2, <1>3, <1>4, SlotsInvInit DEF OnceInv

LEMMA OnceInvNext ==
  ASSUME OnceSafe, OnceInv, RoomForOnce, [Next]_vars
  PROVE  OnceInv'
<1>1. /\ CountInv /\ Typed /\ DrainGoal /\ OnceNotLavg /\ OnceCounted
      /\ ("overrun" \notin Env => SerialCounts)
      /\ (OnceAlone => QueuedOnce) /\ SlotsInv
  BY DEF OnceInv, SlotsInv, CountInv
<1>2. AnyStep
  BY <1>1, NextIsAnyStep
<1>3. SlotsInv' /\ Typed'
  BY <1>1, SlotsInvNext, NextType
<1>4. OnceAlone => QueuedOnce'
  BY <1>1, <1>2, QueuedOnceNext
<1>5. OnceCounted' /\ ("overrun" \notin Env => SerialCounts')
  BY <1>1, <1>2, <1>3, OnceCountedNext, SerialCountsNext
<1> QED
  BY <1>3, <1>4, <1>5 DEF OnceInv, OnceAlone, Temporary, Multiple, is_serial,
     is_lavg

LEMMA OnceInvHolds ==
  ASSUME OnceSafe
  PROVE  Spec /\ []RoomForOnce => []OnceInv
<1>1. OnceInv /\ RoomForOnce /\ [Next]_vars => OnceInv'
  BY OnceInvNext
<1> QED  BY <1>1, OnceInvInit, PTL DEF Spec

(* At most serial_max_running serial jobs run at a time, those that are    *)
(* serial for once included, whatever ends, is removed or fails to start.  *)
(* The lines that can be serial for once must not have option exesev, and  *)
(* must find a place in the serial queue; and no bootrun line may still run *)
(* when the machine resumes after its next time: run job_resume_slot shows *)
(* that the limit is passed then.                                          *)
THEOREM SerialLimitHolds ==
  ASSUME OnceSafe, "overrun" \notin Env
  PROVE  Spec /\ []RoomForOnce => []SerialLimit
<1>1. OnceInv => SerialLimit
  <2> SUFFICES ASSUME OnceInv PROVE SerialLimit
    OBVIOUS
  <2>1. /\ Cardinality(SerialProcs) \in Nat /\ SerialMax \in Nat
        /\ serial_running \in Int
        /\ Cardinality(SerialProcs) <= serial_running
        /\ serial_running <= SerialMax
    BY SerialProcsIs, JobControlAssumption
       DEF OnceInv, SlotsInv, SerialCounts, SerialSlots, CountInv, Typed,
           RunningType
  <2> QED  BY <2>1 DEF SerialLimit
<1> QED  BY <1>1, OnceInvHolds, PTL

(* serial_running is the number of serial jobs in exe_list, until xexit()  *)
(* waits for them, as long as fork() succeeds, there is no SIGUSR1 and no  *)
(* bootrun line still runs at a resume after its next time.                *)
THEOREM SerialRunningIsExact ==
  ASSUME OnceAlone, Reaped, "overrun" \notin Env
  PROVE  Spec /\ []RoomForOnce => [](Stopping \/ SerialRunningExact)
<1>1. OnceInv => Stopping \/ SerialRunningExact
  BY DEF OnceInv, SlotsInv, SerialCounts, DrainGoal, Reaped, Stopping
<1>2. OnceSafe
  BY DEF OnceAlone, OnceSafe, Temporary, Multiple
<1> QED  BY <1>1, <1>2, OnceInvHolds, PTL

(* serial_once is set on a line that is not serial only while the line     *)
(* waits or runs, as long as fork() succeeds and no such line is           *)
(* runatreboot.                                                            *)
THEOREM OnceIsPending ==
  ASSUME OnceSafe, "fork_fails" \notin Env,
         \A l \in Lines : Temporary(l) => "runatreboot" \notin Opt[l]
  PROVE  Spec /\ []RoomForOnce => []OncePending
<1>1. OnceInv => OncePending
  <2> SUFFICES ASSUME OnceInv, NEW l \in once, ~is_serial(l)
               PROVE  Entries(l) > 0
    BY DEF OncePending
  <2>1. l \in Lines /\ Temporary(l) /\ numexe[l] > 0
    BY DEF OnceInv, SlotsInv, CountInv, Typed, QueuesType, OnceNotLavg,
       OnceCounted, Temporary
  <2>2. Entries(l) = numexe[l]
    BY <2>1 DEF OnceInv, SlotsInv, CountInv, AllCounted, Counted, NumExact
  <2> QED  BY <2>1, <2>2
<1> QED  BY <1>1, OnceInvHolds, PTL

-----------------------------------------------------------------------------
(* When the serial queue has room for every line.                          *)

(* No line is queued twice, and the queue is as long as there are lines.   *)
QueueLines == {l \in Lines : ~is_lavg(l)}
QueueFits  == /\ \A l \in QueueLines : ~Multiple(l)
              /\ Cardinality(QueueLines) <= QueueMax

(* A line that is queued once only has one place at most in the queue.     *)
LEMMA WaitsAlone ==
  ASSUME QueuesType, AllCounted, NEW l \in Lines, ~Multiple(l)
  PROVE  Waits(l) <= 1
<1>1. Entries(l) <= 1 /\ lavgQ[l] >= 0
  BY DEF AllCounted, Counted
<1> QED  BY <1>1, EntriesSum, CountTypes

LEMMA PairIsUnion ==
  ASSUME NEW x, NEW y
  PROVE  {x, y} = {x} \cup {y}
OBVIOUS

LEMMA RoomIsLeft ==
  ASSUME QueueFits, CountInv
  PROVE  RoomForOnce
<1> SUFFICES ASSUME NEW l \in Lines, Temporary(l), numexe[l] = 0
             PROVE  Len(serialQ) < QueueMax
  BY DEF RoomForOnce
<1>a. QueuesType /\ AllCounted /\ serialQ \in Seq(Lines) /\ Len(serialQ) \in Nat
  BY LenProperties DEF CountInv, Typed, QueuesType
<1> DEFINE D == 1..Len(serialQ)
           T == QueueLines \ {l}
           f == [i \in D |-> serialQ[i]]
<1>1. \A i \in D : serialQ[i] \in Lines
  BY <1>a, ElementOfSeq
<1>2. ASSUME NEW i \in D
      PROVE  i \in Places(serialQ, serialQ[i]) /\ Waits(serialQ[i]) > 0
  <2>1. i \in Places(serialQ, serialQ[i])
    BY DEF Places
  <2>2. Waits(serialQ[i]) # 0 /\ Waits(serialQ[i]) \in Nat
    BY <1>a, <2>1, PlacesFinite, FS_EmptySet DEF Waits
  <2> QED  BY <2>1, <2>2
<1>3. \A i \in D : serialQ[i] \in T
  <2> TAKE i \in D
  <2>1. ~is_lavg(serialQ[i])
    BY <1>a, <1>1, <1>2 DEF AllCounted, Counted
  <2>2. serialQ[i] # l
    BY <1>a, <1>2, CountedNat
  <2> QED  BY <1>1, <2>1, <2>2 DEF QueueLines
<1>4. ASSUME NEW i \in D, NEW j \in D, serialQ[i] = serialQ[j], i # j
      PROVE  FALSE
  <2> DEFINE k == serialQ[i]
  <2>1. k \in Lines /\ k \in QueueLines
    BY <1>1, <1>3
  <2>2. ~Multiple(k)
    BY <2>1 DEF QueueFits
  <2>3. Waits(k) <= 1
    <3> HIDE DEF k
    <3> QED  BY <1>a, <2>1, <2>2, WaitsAlone
  <2>4. {i, j} \in SUBSET Places(serialQ, k)
    BY <1>4 DEF Places
  <2>5. Cardinality({i, j}) = 2
    <3>1. IsFiniteSet({i}) /\ Cardinality({i}) = 1
      BY FS_Singleton
    <3>2. Cardinality({i} \cup {j}) = Cardinality({i}) + 1
      BY <3>1, <1>4, FS_AddElement
    <3> QED  BY <3>1, <3>2, PairIsUnion
  <2> HIDE DEF k
  <2>6. Cardinality({i, j}) <= Waits(k) /\ Waits(k) \in Nat
    BY <1>a, <2>4, PlacesFinite, FS_Subset DEF Waits
  <2> QED  BY <2>3, <2>5, <2>6
<1>5. l \in QueueLines /\ IsFiniteSet(QueueLines)
  <2>1. QueueLines \in SUBSET Lines /\ l \in QueueLines
    BY DEF QueueLines, Temporary
  <2> QED  BY <2>1, JobControlAssumption, FS_Subset
<1>6. IsFiniteSet(T) /\ Cardinality(T) = Cardinality(QueueLines) - 1
  BY <1>5, FS_RemoveElement
<1>7. f \in Injection(D, T)
  <2>1. f \in [D -> T]
    BY <1>3
  <2>2. \A i, j \in D : f[i] = f[j] => i = j
    BY <1>4
  <2> HIDE DEF f, D, T
  <2> QED  BY <2>1, <2>2 DEF Injection, IsInjective
<1>8. Cardinality(D) <= Cardinality(T)
  <2> HIDE DEF f, D, T
  <2> QED  BY <1>6, <1>7, FS_Injection
<1>9. Cardinality(D) = Len(serialQ)
  <2>1. \A n \in Nat : Cardinality(1..n) = n
    BY FS_Interval
  <2> QED  BY <1>a, <2>1
<1>10. Cardinality(QueueLines) \in Nat /\ QueueMax \in Nat
  BY <1>5, JobControlAssumption, FS_CardinalityType
<1> QED  BY <1>6, <1>8, <1>9, <1>10 DEF QueueFits

LEMMA RoomHolds ==
  ASSUME QueueFits
  PROVE  OnceSafe /\ OnceAlone /\ (Spec => []RoomForOnce)
<1>1. OnceAlone
  BY DEF QueueFits, QueueLines, OnceAlone, Temporary
<1>2. OnceSafe
  BY <1>1 DEF OnceAlone, OnceSafe, Temporary, Multiple
<1>3. CountInv => RoomForOnce
  BY RoomIsLeft
<1>4. Spec => []RoomForOnce
  BY <1>3, CountInvHolds, PTL
<1> QED  BY <1>1, <1>2, <1>4

(* With serial_queue_max no smaller than the number of lines that can be   *)
(* in the serial queue, and none of them queued several times, the limit   *)
(* of the serial queue holds of every behaviour in which no job of a       *)
(* bootrun line outlasts a suspension of the machine ("overrun").          *)
THEOREM SerialLimitFits ==
  ASSUME QueueFits, "overrun" \notin Env
  PROVE  Spec => []SerialLimit
<1>1. Spec /\ []RoomForOnce => []SerialLimit
  BY RoomHolds, SerialLimitHolds
<1> QED  BY <1>1, RoomHolds, PTL
=============================================================================
