-------------------------------- MODULE Spool --------------------------------
(***************************************************************************)
(* The spool directory: how a fcrontab written by the program fcrontab     *)
(* reaches the memory of the daemon and stays on the disk.                 *)
(*                                                                         *)
(* For a user u, fcrontab leaves new.u (a new version) or rm.u (a mark to  *)
(* remove the file), and has fcronsighup send SIGHUP.  synchronize_dir()   *)
(* reads the directory once, then removes and reads the files it has seen, *)
(* and saves what it has read as u.  No lock is taken on these files: each *)
(* action below is one system call, and the runs of fcrontab, the          *)
(* processes fcronsighup and the daemon interleave freely.                 *)
(*                                                                         *)
(* Abstracted: the contents of a fcrontab is the name of the run that      *)
(* wrote it; the temporary files u.tmp and new.u.tmp, which synchronize_dir*)
(* ignores, are not there: writing one and renaming it is one step which   *)
(* may fail; u.orig, which fcron never reads, is not there; a read of the  *)
(* directory is atomic.                                                    *)
(***************************************************************************)
EXTENDS Naturals, FiniteSets

CONSTANTS
  Users,
  Runs,        (* runs of fcrontab, and of the fcronsighup each starts     *)
  Races,       (* which of the races of RaceNames are possible             *)
  MaxCrashes,  (* bound on the number of crashes                           *)
  Old,         (* the version of a file before the first run               *)
  None,        (* no such file                                             *)
  Unknown      (* wanted: a removal has begun and has not ended            *)

(* "overwrite": a version is installed after the daemon has read new.u and *)
(* before it has removed it.  "behind_rm": a version is installed while    *)
(* the daemon is about to read a new.u it has seen in the directory, and   *)
(* there is a mark rm.u it has not seen.  "disk_full": the daemon cannot   *)
(* save a file.                                                            *)
RaceNames == {"overwrite", "behind_rm", "disk_full"}

Versions == Runs \cup {Old}

ASSUME SpoolAssumption ==
  /\ Races \subseteq RaceNames /\ MaxCrashes \in Nat
  /\ Old \notin Runs /\ None \notin Versions /\ Unknown \notin Versions
  /\ None # Unknown /\ None \notin Users

VARIABLES
  pc, cur,      (* where the daemon is, and the user it is working for     *)
  booting,      (* synchronize_dir() was called by main()                  *)
  loaded,       (* the version of each user's file in memory               *)
  file, new,    (* the files u and new.u                                   *)
  rm,           (* the users with a file rm.u                              *)
  listed,       (* the files seen by synchronize_dir(), still to be handled*)
  sigHup,       (* sig_hup                                                 *)
  pidfile,      (* there is a pid in the pid file                          *)
  run,          (* each run: where it is, what it was asked and for whom,  *)
                (* then the sigfile its fcronsighup has opened             *)
  sigfile,      (* fcrontab.sig: the run that created it                   *)
  crashes,
  wanted,       (* history: the last version each user asked for           *)
  unannounced   (* history: runs whose change no signal and no start of    *)
                (* the daemon has followed                                 *)

daemon == <<pc, cur, booting, loaded, listed>>
spool  == <<file, new, rm, wanted>>
signal == <<sigHup, pidfile, unannounced>>
vars   == <<daemon, spool, run, sigfile, signal, crashes>>

-----------------------------------------------------------------------------
(* fcrontab.                                                               *)

Ops == {"install", "reset", "remove"}

(* Where a run is in fcrontab, and in the fcronsighup it has started.      *)
Writing    == {"rm_new", "mk_rm", "install"}
Signalling == {"signal", "open", "flock", "sleep", "unlink", "kill"}

Idle(label) == [pc |-> label, op |-> None, user |-> None, fd |-> None]
At(c, label) == run[c].pc = label
User(c) == run[c].user

(* Of the request only fcrontab, of the descriptor only fcronsighup knows. *)
Goes(c, label) ==
  IF label \in {"signal", "done"} THEN run' = [run EXCEPT ![c] = Idle(label)]
                                  ELSE run' = [run EXCEPT ![c].pc = label]

(* One user has one fcrontab at work at a time: they would share new.u.tmp.*)
Launch(c, u, o) ==
  /\ At(c, "new")
  /\ \A d \in Runs : User(d) # u
  /\ run' = [run EXCEPT ![c] =
               [pc |-> IF o = "install" THEN "install" ELSE "rm_new",
                op |-> o, user |-> u, fd |-> None]]
  /\ UNCHANGED <<daemon, spool, sigfile, signal, crashes>>

(* remove_fcrontab(), also called first by write_file() with option -n.    *)
UnlinkNew(c) ==
  /\ At(c, "rm_new") /\ Goes(c, "mk_rm")
  /\ new' = [new EXCEPT ![User(c)] = None]
  /\ wanted' = [wanted EXCEPT ![User(c)] = Unknown]
  /\ UNCHANGED <<daemon, file, rm, sigfile, signal, crashes>>

(* need_sig: fcrontab will start fcronsighup.                              *)
Written(c) == unannounced' = unannounced \cup {c}

MarkRemoved(c) ==
  /\ At(c, "mk_rm")
  /\ rm' = rm \cup {User(c)}
  /\ wanted' = [wanted EXCEPT ![User(c)] = None]
  /\ IF run[c].op = "reset"
       THEN Goes(c, "install") /\ UNCHANGED unannounced
       ELSE Goes(c, "signal") /\ Written(c)
  /\ UNCHANGED <<daemon, file, new, sigfile, sigHup, pidfile, crashes>>

MayInstall(u) ==
  /\ "overwrite" \in Races \/ ~(pc \in {"save", "remove_new"} /\ cur = u)
  /\ "behind_rm" \in Races \/ ~(u \in rm /\ "new" \in listed[u])

(* copy_src() and save_file_safe() of new.u.                               *)
Install(c) ==
  /\ At(c, "install") /\ MayInstall(User(c)) /\ Goes(c, "signal")
  /\ new' = [new EXCEPT ![User(c)] = c]
  /\ wanted' = [wanted EXCEPT ![User(c)] = c]
  /\ Written(c)
  /\ UNCHANGED <<daemon, file, rm, sigfile, sigHup, pidfile, crashes>>

(* The disk is full: the previous version stays.  need_sig is set only     *)
(* when remove_fcrontab() was called before.                               *)
InstallFails(c) ==
  /\ At(c, "install")
  /\ IF run[c].op = "reset" THEN Goes(c, "signal") /\ Written(c)
                            ELSE Goes(c, "done") /\ UNCHANGED unannounced
  /\ UNCHANGED <<daemon, spool, sigfile, sigHup, pidfile, crashes>>

(* fcrontab is killed before it has started fcronsighup.                   *)
Interrupt(c) ==
  /\ run[c].pc \in Writing /\ Goes(c, "done")
  /\ UNCHANGED <<daemon, spool, sigfile, signal, crashes>>

-----------------------------------------------------------------------------
(* fcronsighup.                                                            *)

Moves(c, from, to) ==
  /\ At(c, from) /\ Goes(c, to)
  /\ UNCHANGED <<daemon, spool, sigfile, signal, crashes>>

(* main(): without a pid, the change waits for the next start of fcron;    *)
(* root signals at once, others after a delay.                             *)
ReadPid(c) ==
  \/ pidfile /\ (Moves(c, "signal", "open") \/ Moves(c, "signal", "kill"))
  \/ ~pidfile /\ Moves(c, "signal", "done")

Opened(s) == [pc |-> "flock", op |-> None, user |-> None, fd |-> s]

(* Mutant: the file is the lock, whether somebody holds it or not.         *)
OpenSigfile_excl(c) ==
  /\ At(c, "open")
  /\ IF sigfile = None
       THEN /\ sigfile' = c
            /\ run' = [run EXCEPT ![c] = Opened(c)]
       ELSE Goes(c, "done") /\ UNCHANGED sigfile
  /\ UNCHANGED <<daemon, spool, signal, crashes>>

OpenSigfile(c) ==
  /\ At(c, "open")
  /\ sigfile' = IF sigfile = None THEN c ELSE sigfile
  /\ run' = [run EXCEPT ![c] = Opened(sigfile')]
  /\ UNCHANGED <<daemon, spool, signal, crashes>>

Locked(s) == \E d \in Runs : At(d, "sleep") /\ run[d].fd = s

(* Another process that waits will signal the daemon for this one too.     *)
Flock(c) == Moves(c, "flock", IF Locked(run[c].fd) THEN "done" ELSE "sleep")

(* The end of sleep(): closing the file unlocks it.                        *)
CloseSigfile(c) == Moves(c, "sleep", "unlink")

UnlinkSigfile(c) ==
  /\ At(c, "unlink") /\ Goes(c, "kill")
  /\ sigfile' = None
  /\ UNCHANGED <<daemon, spool, signal, crashes>>

Up == pc # "down"

(* The pid is read again; a pid that is stale or gone is the end of it.    *)
Kill(c) ==
  /\ At(c, "kill") /\ Goes(c, "done")
  /\ IF pidfile /\ Up
       THEN sigHup' = TRUE /\ unannounced' = {}
       ELSE UNCHANGED <<sigHup, unannounced>>
  /\ UNCHANGED <<daemon, spool, sigfile, pidfile, crashes>>

-----------------------------------------------------------------------------
(* synchronize_dir() and synchronize_file().                               *)

Step(from, to) == pc = from /\ pc' = to

Scan ==
  /\ Step("scan", "rm")
  /\ listed' = [u \in Users |->
       {k \in {"rm", "new", "file"} :
          \/ k = "rm" /\ u \in rm
          \/ k = "new" /\ new[u] # None
          \/ k = "file" /\ file[u] # None /\ \A v \in Users : loaded[v] = None}]
  /\ unannounced' = {}
  /\ UNCHANGED <<cur, booting, loaded, spool, run, sigfile, sigHup, pidfile,
                 crashes>>

(* Mutant: the user is forgotten while the removal is still under way.     *)
DeleteFile_early(u) ==
  /\ Step("rm", "rm_file") /\ "rm" \in listed[u]
  /\ loaded' = [loaded EXCEPT ![u] = None]
  /\ cur' = None
  /\ UNCHANGED <<booting, listed, spool, run, sigfile, signal, crashes>>

DeleteFile(u) ==
  /\ Step("rm", "rm_file") /\ "rm" \in listed[u]
  /\ loaded' = [loaded EXCEPT ![u] = None]
  /\ cur' = u
  /\ UNCHANGED <<booting, listed, spool, run, sigfile, signal, crashes>>

(* Mutant: the saved file stays.                                           *)
UnlinkFile_not ==
  /\ Step("rm_file", "rm_mark")
  /\ UNCHANGED <<cur, booting, loaded, listed, spool, run, sigfile, signal,
                 crashes>>

UnlinkFile ==
  /\ Step("rm_file", "rm_mark")
  /\ file' = [file EXCEPT ![cur] = None]
  /\ UNCHANGED <<cur, booting, loaded, listed, new, rm, wanted, run, sigfile,
                 signal, crashes>>

UnlinkMark ==
  /\ Step("rm_mark", "rm")
  /\ rm' = rm \ {cur}
  /\ listed' = [listed EXCEPT ![cur] = @ \ {"rm"}]
  /\ cur' = None
  /\ UNCHANGED <<booting, loaded, file, new, wanted, run, sigfile, signal,
                 crashes>>

(* Only the daemon writes these files: they are read in one step.          *)
ReadFiles ==
  /\ Step("rm", "new") /\ \A u \in Users : "rm" \notin listed[u]
  /\ loaded' = [u \in Users |-> IF "file" \in listed[u] THEN file[u]
                                                       ELSE loaded[u]]
  /\ UNCHANGED <<cur, booting, listed, spool, run, sigfile, signal, crashes>>

(* Mutant: new.u is removed as soon as it has been read.                   *)
ReadNew_unlinks(u) ==
  /\ pc = "new" /\ "new" \in listed[u]
  /\ listed' = [listed EXCEPT ![u] = @ \ {"new"}]
  /\ IF new[u] = None
       THEN UNCHANGED <<pc, cur, loaded, new>>
       ELSE /\ loaded' = [loaded EXCEPT ![u] = new[u]]
            /\ new' = [new EXCEPT ![u] = None]
            /\ cur' = u /\ pc' = "save"
  /\ UNCHANGED <<booting, file, rm, wanted, run, sigfile, signal, crashes>>

(* A file that fcrontab has removed meanwhile leaves the old version.      *)
ReadNew(u) ==
  /\ pc = "new" /\ "new" \in listed[u]
  /\ listed' = [listed EXCEPT ![u] = @ \ {"new"}]
  /\ IF new[u] = None
       THEN UNCHANGED <<pc, cur, loaded>>
       ELSE /\ loaded' = [loaded EXCEPT ![u] = new[u]]
            /\ cur' = u /\ pc' = "save"
  /\ UNCHANGED <<booting, spool, run, sigfile, signal, crashes>>

(* save_file(): its result is not looked at.                               *)
SaveNew ==
  /\ Step("save", "remove_new")
  /\ \/ file' = [file EXCEPT ![cur] = loaded[cur]]
     \/ "disk_full" \in Races /\ UNCHANGED file
  /\ UNCHANGED <<cur, booting, loaded, listed, new, rm, wanted, run, sigfile,
                 signal, crashes>>

RemoveNew ==
  /\ Step("remove_new", "new")
  /\ new' = [new EXCEPT ![cur] = None]
  /\ cur' = None
  /\ UNCHANGED <<booting, loaded, listed, file, rm, wanted, run, sigfile,
                 signal, crashes>>

EndSync ==
  /\ Step("new", "idle") /\ \A u \in Users : "new" \notin listed[u]
  /\ listed' = [u \in Users |-> {}]
  /\ sigHup' = (sigHup /\ booting)
  /\ UNCHANGED <<cur, booting, loaded, spool, run, sigfile, pidfile,
                 unannounced, crashes>>

-----------------------------------------------------------------------------
(* The rest of the daemon.                                                 *)

CheckHup ==
  /\ Step("idle", "scan") /\ sigHup
  /\ booting' = FALSE
  /\ UNCHANGED <<cur, loaded, listed, spool, run, sigfile, signal, crashes>>

(* main(), with get_lock().                                                *)
Start ==
  /\ Step("down", "scan")
  /\ booting' = TRUE /\ pidfile' = TRUE
  /\ UNCHANGED <<cur, loaded, listed, spool, run, sigfile, sigHup, unannounced,
                 crashes>>

(* The memory of the process is gone.                                      *)
Forget ==
  /\ booting' = FALSE /\ sigHup' = FALSE
  /\ cur' = None
  /\ loaded' = [u \in Users |-> None]
  /\ listed' = [u \in Users |-> {}]

(* xexit() on SIGTERM: the files are saved, then the pid file is removed.  *)
Exit ==
  /\ Step("idle", "exit")
  /\ file' = [u \in Users |-> IF loaded[u] # None THEN loaded[u] ELSE file[u]]
  /\ Forget
  /\ UNCHANGED <<new, rm, wanted, run, sigfile, pidfile, unannounced, crashes>>

UnlinkPidfile ==
  /\ Step("exit", "down") /\ Forget
  /\ pidfile' = FALSE
  /\ UNCHANGED <<spool, run, sigfile, unannounced, crashes>>

Dies ==
  /\ Up /\ crashes < MaxCrashes
  /\ crashes' = crashes + 1
  /\ pc' = "down" /\ Forget
  /\ UNCHANGED <<spool, sigfile, pidfile>>

(* The daemon is killed; the pid file stays.                               *)
Killed == Dies /\ UNCHANGED <<run, unannounced>>

(* The machine goes down, with every process on it.                        *)
PowerOff ==
  /\ Dies /\ unannounced' = {}
  /\ run' = [c \in Runs |-> IF At(c, "new") THEN run[c] ELSE Idle("done")]

Fcrontab(c) ==
  \/ \E u \in Users, o \in Ops : Launch(c, u, o)
  \/ UnlinkNew(c) \/ MarkRemoved(c) \/ Install(c) \/ InstallFails(c)
  \/ Interrupt(c)

Fcronsighup(c) ==
  \/ ReadPid(c) \/ OpenSigfile(c) \/ Flock(c) \/ CloseSigfile(c)
  \/ UnlinkSigfile(c) \/ Kill(c)

Synchronize ==
  \/ Scan
  \/ \E u \in Users : DeleteFile(u)
  \/ UnlinkFile \/ UnlinkMark \/ ReadFiles
  \/ \E u \in Users : ReadNew(u)
  \/ SaveNew \/ RemoveNew \/ EndSync

Daemon == Synchronize \/ CheckHup \/ Start \/ Exit \/ UnlinkPidfile

Next ==
  \/ \E c \in Runs : Fcrontab(c) \/ Fcronsighup(c)
  \/ Daemon
  \/ Killed \/ PowerOff

Init ==
  /\ pc = "down" /\ cur = None /\ booting = FALSE
  /\ loaded = [u \in Users |-> None] /\ listed = [u \in Users |-> {}]
  /\ file \in [Users -> {None, Old}] /\ new = [u \in Users |-> None]
  /\ rm = {} /\ wanted = file
  /\ run = [c \in Runs |-> Idle("new")] /\ sigfile = None
  /\ sigHup = FALSE /\ pidfile = FALSE /\ unannounced = {} /\ crashes = 0

Spec == Init /\ [][Next]_vars

-----------------------------------------------------------------------------
(* Properties.                                                             *)

(* The types of the variables; the daemon works for a user whenever it is  *)
(* between two system calls on the files of one.                           *)
TypeOK ==
  /\ pc \in {"down", "scan", "rm", "rm_file", "rm_mark", "new", "save",
             "remove_new", "idle", "exit"}
  /\ cur \in Users \cup {None}
  /\ pc \in {"rm_file", "rm_mark", "save", "remove_new"} => cur \in Users
  /\ booting \in BOOLEAN
  /\ loaded \in [Users -> Versions \cup {None}]
  /\ file \in [Users -> Versions \cup {None}]
  /\ new \in [Users -> Runs \cup {None}]
  /\ rm \subseteq Users
  /\ listed \in [Users -> SUBSET {"rm", "new", "file"}]
  /\ sigHup \in BOOLEAN /\ pidfile \in BOOLEAN
  /\ run \in [Runs -> [pc : Writing \cup Signalling \cup {"new", "done"},
                      op : Ops \cup {None}, user : Users \cup {None},
                      fd : Runs \cup {None}]]
  /\ \A c \in Runs : run[c].pc \in Writing => User(c) \in Users
  /\ sigfile \in Runs \cup {None}
  /\ crashes \in Nat
  /\ wanted \in [Users -> Versions \cup {None, Unknown}]
  /\ unannounced \subseteq Runs

(* What a daemon started now would make of the directory.                  *)
NextBoot(u) ==
  IF new[u] # None THEN new[u] ELSE IF u \in rm THEN None ELSE file[u]

(* At every moment, so at every crash of the daemon, of fcrontab or of the *)
(* machine, the spool directory holds the last version the user installed, *)
(* and says that a removed file is removed.                                *)
SpoolHoldsLatest ==
  \A u \in Users : wanted[u] # Unknown => NextBoot(u) = wanted[u]

(* Outside synchronize_dir(), what runs is what is saved under the user's  *)
(* name: a restart changes nothing.                                        *)
LoadedIsSaved == pc = "idle" => loaded = file

(* When fcrontab has changed the directory, the daemon has been sent a     *)
(* signal since, or will be: by the fcronsighup of this run or by another  *)
(* one that held the lock, or it has still to read the directory.          *)
SignalSent ==
  unannounced # {} =>
    \/ pc \in {"scan", "exit", "down"}
    \/ \E c \in Runs : run[c].pc \in Signalling

=============================================================================
