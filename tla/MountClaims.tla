------------------------------ MODULE MountClaims ------------------------------
(***************************************************************************)
(* The mount points of the client's files (clipboard/inbound/mount.rs):    *)
(* private directories in the runtime directory, each claimed by an        *)
(* advisory lock on a file beside it, created, swept and removed by any    *)
(* number of hypr-rdp processes, which may die at any point.               *)
(*                                                                         *)
(* A step is one system call.  Names carry the pid and are not used twice. *)
(* The kernel (flock, mount table, FUSE) and fusermount3 are external.     *)
(***************************************************************************)
EXTENDS Naturals, FiniteSets

CONSTANTS
  Processes,   \* hypr-rdp processes of the user; one that died does not return
  MaxMounts    \* bound on the mounts a process makes

Nobody == "nobody"

ASSUME MountClaimsAssumption == MaxMounts \in Nat /\ Nobody \notin Processes

Names == Processes \X (1..MaxMounts)

VARIABLES
  dirs,        \* directories in the runtime directory
  lockFiles,   \* lock files beside them
  holder,        \* name -> the process whose open file holds the lock
  table,       \* the mount table: names our filesystem is mounted on
  proc         \* process -> [pc, name, next, todo, mine]: where it is in create
               \* or in drop, the sequence counter, the directories its sweep
               \* has still to look at, and the mounts it serves

claimVars == <<dirs, lockFiles, holder, table, proc>>

NoName == <<>>
IdleProcess == [pc |-> "idle", name |-> NoName, next |-> 1, todo |-> {}, mine |-> {}]

ClaimsInit ==
  /\ dirs = {} /\ lockFiles = {} /\ table = {}
  /\ holder = [n \in Names |-> Nobody]
  /\ proc = [p \in Processes |-> IdleProcess]

At(p, pc) == proc[p].pc = pc
Goto(p, pc) == proc' = [proc EXCEPT ![p].pc = pc]

-----------------------------------------------------------------------------
(* RemoteMount::create sweeps first: it lists the directories,             *)
BeginCreate(p) ==
  /\ At(p, "idle") /\ proc[p].next <= MaxMounts
  /\ proc' = [proc EXCEPT ![p].pc = "sweep", ![p].todo = dirs]
  /\ UNCHANGED <<dirs, lockFiles, holder, table>>

(* opens the lock file of each, if there is one,                           *)
SweepOpen(p) ==
  /\ At(p, "sweep")
  /\ \E n \in proc[p].todo :
       proc' = [proc EXCEPT ![p].pc = IF n \in lockFiles THEN "sweepFlock" ELSE "sweep",
                            ![p].name = n, ![p].todo = @ \ {n}]
  /\ UNCHANGED <<dirs, lockFiles, holder, table>>

(* Mutant: the sweep goes on without the claim.                            *)
SweepUnclaimed(n) == TRUE
(* The file that was opened may be gone by now; then nobody holds it.      *)
Claimable(n) == holder[n] = Nobody

(* takes the claim, or leaves the directory alone,                         *)
SweepFlock(p) ==
  /\ At(p, "sweepFlock")
  /\ IF Claimable(proc[p].name)
     THEN /\ Goto(p, "unmount")
          /\ holder' = IF proc[p].name \in lockFiles THEN [holder EXCEPT ![proc[p].name] = p] ELSE holder
     ELSE Goto(p, "sweep") /\ UNCHANGED holder
  /\ UNCHANGED <<dirs, lockFiles, table>>

Release(p) == holder' = [n \in Names |-> IF n = proc[p].name /\ holder[n] = p THEN Nobody ELSE holder[n]]

(* unmounts what is ours (unmount_owned, which refuses what is not ours    *)
(* and may fail or give up),                                               *)
SweepUnmount(p) ==
  /\ At(p, "unmount")
  /\ \/ /\ table' = table \ {proc[p].name}
        /\ Goto(p, "sweepRemoveDir") /\ UNCHANGED holder
     \/ /\ Goto(p, "sweep") /\ Release(p) /\ UNCHANGED table
  /\ UNCHANGED <<dirs, lockFiles>>

(* A directory that something is mounted on cannot be removed.             *)
Removable(n) == n \in dirs /\ n \notin table

(* Mutant: cleanup removes the lock file first.                            *)
CleanupLockFirst(p, done) ==
  /\ lockFiles' = lockFiles \ {proc[p].name}
  /\ Goto(p, IF done = "sweep" THEN "sweepRemoveLock" ELSE "removeLock")
  /\ UNCHANGED <<dirs, holder>>
(* cleanup: the claim outlives a directory that could not be removed.      *)
CleanupDirectory(p, done) ==
  IF Removable(proc[p].name)
  THEN /\ dirs' = dirs \ {proc[p].name}
       /\ Goto(p, IF done = "sweep" THEN "sweepRemoveLock" ELSE "removeLock")
       /\ UNCHANGED <<holder, lockFiles>>
  ELSE Goto(p, done) /\ Release(p) /\ UNCHANGED <<dirs, lockFiles>>

(* and removes the directory and then the lock file.                       *)
SweepCleanup(p) ==
  /\ \/ At(p, "sweepRemoveDir") /\ CleanupDirectory(p, "sweep")
     \/ /\ At(p, "sweepRemoveLock") /\ Goto(p, "sweep") /\ Release(p)
        /\ lockFiles' = lockFiles \ {proc[p].name} /\ UNCHANGED dirs
  /\ UNCHANGED table

(* claim_directory: the lock before the directory is visible.              *)
ClaimLock(p) ==
  /\ At(p, "sweep") /\ proc[p].todo = {}
  /\ LET n == <<p, proc[p].next>> IN
     /\ proc' = [proc EXCEPT ![p].pc = "flock", ![p].name = n, ![p].next = @ + 1]
     /\ lockFiles' = lockFiles \cup {n}
  /\ UNCHANGED <<dirs, holder, table>>

ClaimFlock(p) ==
  /\ At(p, "flock") /\ Goto(p, "mkdir")
  /\ holder' = [holder EXCEPT ![proc[p].name] = p]
  /\ UNCHANGED <<dirs, lockFiles, table>>

(* A directory that cannot be made costs the lock file again.              *)
ClaimDirectory(p) ==
  /\ At(p, "mkdir")
  /\ \/ Goto(p, "mount") /\ dirs' = dirs \cup {proc[p].name} /\ UNCHANGED <<lockFiles, holder>>
     \/ /\ Goto(p, "idle") /\ Release(p)
        /\ lockFiles' = lockFiles \ {proc[p].name} /\ UNCHANGED dirs
  /\ UNCHANGED table

(* spawn_mount; a failure is cleaned up.                                   *)
Mount(p) ==
  /\ At(p, "mount")
  /\ \/ /\ table' = table \cup {proc[p].name}
        /\ proc' = [proc EXCEPT ![p].pc = "idle", ![p].mine = @ \cup {proc[p].name}]
     \/ Goto(p, "removeDir") /\ UNCHANGED table
  /\ UNCHANGED <<dirs, lockFiles, holder>>

(* RemoteMount::drop: unmounted, though that may fail, and cleaned up.     *)
DropMount(p) ==
  /\ At(p, "idle")
  /\ \E n \in proc[p].mine :
       /\ table' \in {table, table \ {n}}
       /\ proc' = [proc EXCEPT ![p].pc = "removeDir", ![p].name = n, ![p].mine = @ \ {n}]
  /\ UNCHANGED <<dirs, lockFiles, holder>>

Cleanup(p) ==
  /\ \/ At(p, "removeDir") /\ CleanupDirectory(p, "idle")
     \/ /\ At(p, "removeLock") /\ Goto(p, "idle") /\ Release(p)
        /\ lockFiles' = lockFiles \ {proc[p].name} /\ UNCHANGED dirs
  /\ UNCHANGED table

(* A process dies: the kernel drops its locks, files and mounts stay.      *)
Crash(p) ==
  /\ ~At(p, "dead") /\ proc' = [proc EXCEPT ![p] = [IdleProcess EXCEPT !.pc = "dead"]]
  /\ holder' = [n \in Names |-> IF holder[n] = p THEN Nobody ELSE holder[n]]
  /\ UNCHANGED <<dirs, lockFiles, table>>

ClaimsNext ==
  \E p \in Processes :
       \/ BeginCreate(p) \/ SweepOpen(p) \/ SweepFlock(p) \/ SweepUnmount(p)
       \/ SweepCleanup(p) \/ ClaimLock(p) \/ ClaimFlock(p) \/ ClaimDirectory(p) \/ Mount(p)
       \/ DropMount(p) \/ Cleanup(p) \/ Crash(p)

ClaimsSpec == ClaimsInit /\ [][ClaimsNext]_claimVars

-----------------------------------------------------------------------------
(* A process that is alive keeps what it serves: a sweep of another        *)
(* process, or of its own, whatever it saw of the directory and however it *)
(* is interleaved with the claim, does not unmount or remove it.           *)
ServedMountKept ==
  \A p \in Processes : \A n \in proc[p].mine :
    n \in table /\ n \in dirs /\ n \in lockFiles /\ holder[n] = p

(* A directory never outlives its lock file, wherever a process died: a    *)
(* sweep touches no directory without one, so it would stay for ever.      *)
DirectoryHasClaim == dirs \subseteq lockFiles

(* Processes that sweep, claim and die in any order neither take a mount   *)
(* that is served nor leave one that no sweep would find.                  *)
MountsKept ==
  /\ ServedMountKept
  /\ DirectoryHasClaim
===============================================================================
