----------------------------- MODULE StandaloneProofs -----------------------------
(***************************************************************************)
(* TLAPS proofs about the parts that share no state with the rest:         *)
(* MountClaims, for any set of processes and any number of mounts each of  *)
(* them makes; SelectionSource, for any number of selections and pastes,   *)
(* any deadlines and any size limit; HyprlandIpc, for any lines that the   *)
(* compositor sends about other things.                                    *)
(***************************************************************************)
EXTENDS MountClaims, SelectionSource, HyprlandIpc, WellFoundedInduction,
        FiniteSetTheorems, TLAPS

-----------------------------------------------------------------------------
(* The claims on mount points.                                             *)

Sweeping == {"sweep", "sweepFlock", "unmount", "sweepRemoveDir", "sweepRemoveLock"}
Claiming == {"flock", "mkdir"}
Dropping == {"removeDir", "removeLock"}

ProcessRecord ==
  [pc : Sweeping \cup Claiming \cup Dropping \cup {"idle", "mount", "dead"},
   name : Names \cup {NoName}, next : 1..(MaxMounts + 1),
   todo : SUBSET Names, mine : SUBSET Names]

(* Types of the directories, the locks and the processes.                  *)
ClaimsTyped ==
  /\ dirs \subseteq Names /\ lockFiles \subseteq Names /\ table \subseteq Names
  /\ holder \in [Names -> Processes \cup {Nobody}]
  /\ proc \in [Processes -> ProcessRecord]
  /\ \A p \in Processes :
       /\ proc[p].pc \in Sweeping => proc[p].next <= MaxMounts
       /\ proc[p].pc \notin {"idle", "sweep", "dead"} => proc[p].name \in Names

(* A name that was used: its sequence number is below its process's next.  *)
Used(n) == proc[n[1]].pc = "dead" \/ n[2] < proc[n[1]].next

(* Nothing refers to a name that was not used yet.                         *)
NamesUsed ==
  /\ \A n \in Names : n \in dirs \cup lockFiles \cup table \/ holder[n] # Nobody => Used(n)
  /\ \A p \in Processes : \A n \in Names :
       n = proc[p].name \/ n \in proc[p].todo \cup proc[p].mine => Used(n)

(* Between the lock and the directory nobody else knows the name: a sweep  *)
(* finds directories.                                                      *)
ClaimIsPrivate ==
  \A p \in Processes : proc[p].pc \in Claiming =>
    /\ proc[p].name[1] = p
    /\ proc[p].name \in lockFiles /\ proc[p].name \notin dirs
    /\ holder[proc[p].name] = IF proc[p].pc = "flock" THEN Nobody ELSE p
    /\ \A q \in Processes : /\ proc[p].name \notin proc[q].todo \cup proc[q].mine
                            /\ q # p => proc[p].name # proc[q].name

(* A process in the middle of a mount or of a removal holds the claim; in  *)
(* a sweep it may instead have opened a lock file that is gone since.      *)
ClaimIsHeld ==
  \A p \in Processes :
    /\ proc[p].pc = "mount" => /\ proc[p].name \in dirs \cap lockFiles
                               /\ holder[proc[p].name] = p
    /\ proc[p].pc \in Dropping \cup {"sweepRemoveLock"} => holder[proc[p].name] = p
    /\ proc[p].pc \in {"unmount", "sweepRemoveDir"} =>
         holder[proc[p].name] = p \/ proc[p].name \notin lockFiles
    /\ proc[p].pc \in {"removeLock", "sweepRemoveLock"} => proc[p].name \notin dirs
    /\ proc[p].pc \notin {"idle", "sweep", "sweepFlock", "dead"} => proc[p].name \notin proc[p].mine

MountInv ==
  /\ ClaimsTyped /\ NamesUsed /\ ClaimIsPrivate /\ ClaimIsHeld
  /\ ServedMountKept /\ DirectoryHasClaim
--------------------------------------------------------------------------------
(* Names are pairs of a process and a number.                              *)
LEMMA NameFacts ==
  /\ NoName \notin Names
  /\ \A n \in Names : n[1] \in Processes /\ n[2] \in 1..MaxMounts
  /\ \A p \in Processes, k \in 1..MaxMounts :
       /\ <<p, k>> \in Names /\ <<p, k>>[1] = p /\ <<p, k>>[2] = k
<1>1. NoName \notin Names
  BY DEF NoName, Names
<1> QED BY <1>1 DEF Names

(* Records with a new control point and new sets are records again.        *)
LEMMA RecordsTyped ==
  ASSUME NEW r \in ProcessRecord, NEW todo \in SUBSET Names, NEW mine \in SUBSET Names
  PROVE  /\ [r EXCEPT !.pc = "sweep", !.todo = todo] \in ProcessRecord
         /\ [r EXCEPT !.pc = "idle", !.mine = mine] \in ProcessRecord
  BY DEF ProcessRecord, Sweeping, Claiming, Dropping

(* Goto moves one process and changes nothing else of it.                  *)
LEMMA GotoMoves ==
  ASSUME ClaimsTyped, NEW p \in Processes, NEW pc, Goto(p, pc)
  PROVE  \A q \in Processes :
           /\ proc'[q].pc = IF q = p THEN pc ELSE proc[q].pc
           /\ proc'[q].name = proc[q].name /\ proc'[q].next = proc[q].next
           /\ proc'[q].todo = proc[q].todo /\ proc'[q].mine = proc[q].mine
  BY DEF ClaimsTyped, ProcessRecord, Goto

(* Types are kept.                                                         *)
LEMMA TypedStep ==
  ASSUME MountInv, [ClaimsNext]_claimVars
  PROVE  ClaimsTyped'
<1> USE MountClaimsAssumption, NameFacts DEF MountInv, ClaimsTyped, ProcessRecord, Sweeping, Claiming, Dropping, IdleProcess
<1>1. ASSUME NEW p \in Processes, BeginCreate(p) PROVE ClaimsTyped'
  <2>1. [proc[p] EXCEPT !.pc = "sweep", !.todo = dirs] \in ProcessRecord
    <3>1. proc[p] \in ProcessRecord /\ dirs \in SUBSET Names
      OBVIOUS
    <3> QED BY ONLY <3>1, RecordsTyped
  <2>2. proc' = [proc EXCEPT ![p] = [proc[p] EXCEPT !.pc = "sweep", !.todo = dirs]]
    BY <1>1 DEF BeginCreate
  <2>3. proc' \in [Processes -> ProcessRecord]
    BY <2>1, <2>2
  <2> QED BY <1>1, <2>2, <2>3 DEF BeginCreate, At
<1>2. ASSUME NEW p \in Processes, SweepOpen(p) PROVE ClaimsTyped'
  BY <1>2 DEF SweepOpen, At, Goto
<1>3. ASSUME NEW p \in Processes, SweepFlock(p) PROVE ClaimsTyped'
  <2>1. proc' \in [Processes -> ProcessRecord]
    BY <1>3 DEF SweepFlock, At, Goto, Claimable
  <2>2. holder' \in [Names -> Processes \cup {Nobody}]
    BY <1>3 DEF SweepFlock, At, Goto, Claimable
  <2> QED BY <1>3, <2>1, <2>2, SMTT(30) DEF SweepFlock, At, Goto, Claimable
<1>4. ASSUME NEW p \in Processes, SweepUnmount(p) PROVE ClaimsTyped'
  BY <1>4, SMTT(30) DEF SweepUnmount, At, Goto, Release
<1>5. ASSUME NEW p \in Processes, SweepCleanup(p) PROVE ClaimsTyped'
  BY <1>5, SMTT(30) DEF SweepCleanup, At, Goto, Release, CleanupDirectory, Removable
<1>6. ASSUME NEW p \in Processes, ClaimLock(p) PROVE ClaimsTyped'
  BY <1>6 DEF ClaimLock, At
<1>7. ASSUME NEW p \in Processes, ClaimFlock(p) PROVE ClaimsTyped'
  BY <1>7 DEF ClaimFlock, At, Goto
<1>8. ASSUME NEW p \in Processes, ClaimDirectory(p) PROVE ClaimsTyped'
  BY <1>8 DEF ClaimDirectory, At, Goto, Release
<1>9. ASSUME NEW p \in Processes, Mount(p) PROVE ClaimsTyped'
  <2>1. CASE At(p, "mount") /\ Goto(p, "removeDir") /\ UNCHANGED table
    BY <1>9, <2>1 DEF Mount, At, Goto
  <2>2. CASE table' = table \cup {proc[p].name}
             /\ proc' = [proc EXCEPT ![p].pc = "idle", ![p].mine = @ \cup {proc[p].name}]
    <3>1. [proc[p] EXCEPT !.pc = "idle", !.mine = @ \cup {proc[p].name}] \in ProcessRecord
      <4>1. proc[p] \in ProcessRecord /\ proc[p].mine \cup {proc[p].name} \in SUBSET Names
        BY <1>9 DEF Mount, At
      <4> QED BY ONLY <4>1, RecordsTyped
    <3>2. proc' = [proc EXCEPT ![p] = [proc[p] EXCEPT !.pc = "idle", !.mine = @ \cup {proc[p].name}]]
      BY <2>2
    <3> QED BY <1>9, <2>2, <3>1, <3>2 DEF Mount, At
  <2> QED BY <1>9, <2>1, <2>2 DEF Mount
<1>10. ASSUME NEW p \in Processes, DropMount(p) PROVE ClaimsTyped'
  BY <1>10 DEF DropMount, At, Goto
<1>11. ASSUME NEW p \in Processes, Cleanup(p) PROVE ClaimsTyped'
  BY <1>11 DEF Cleanup, At, Goto, Release, CleanupDirectory, Removable
<1>12. ASSUME NEW p \in Processes, Crash(p) PROVE ClaimsTyped'
  BY <1>12 DEF Crash, At, IdleProcess
<1>13. CASE UNCHANGED claimVars
  BY <1>13 DEF claimVars
<1> QED BY <1>1, <1>2, <1>3, <1>4, <1>5, <1>6, <1>7, <1>8, <1>9, <1>10, <1>11, <1>12, <1>13 DEF ClaimsNext

(* A name is used once it is announced, and stays used.                    *)
LEMMA UsedStep ==
  ASSUME MountInv, [ClaimsNext]_claimVars
  PROVE  NamesUsed'
<1> USE MountClaimsAssumption, NameFacts DEF MountInv, ClaimsTyped, ProcessRecord, Sweeping, Claiming, Dropping, NamesUsed, Used, IdleProcess
<1>1. ASSUME NEW p \in Processes, BeginCreate(p) PROVE NamesUsed'
  BY <1>1 DEF BeginCreate, At, Goto
<1>2. ASSUME NEW p \in Processes, SweepOpen(p) PROVE NamesUsed'
  BY <1>2 DEF SweepOpen, At, Goto
<1>3. ASSUME NEW p \in Processes, SweepFlock(p) PROVE NamesUsed'
  <2>1. \A n \in Names : Used(n) => Used(n)'
    BY <1>3 DEF SweepFlock, At, Goto, Claimable
  <2>2. \A n \in Names : n \in (dirs \cup lockFiles \cup table)' \/ holder'[n] # Nobody => Used(n)
    BY <1>3 DEF SweepFlock, At, Goto, Claimable
  <2>3. \A q \in Processes : proc'[q].name = proc[q].name /\ proc'[q].todo = proc[q].todo
                             /\ proc'[q].mine \subseteq proc[q].mine \cup {proc[q].name}
    BY <1>3 DEF SweepFlock, At, Goto, Claimable
  <2> QED BY <2>1, <2>2, <2>3
<1>4. ASSUME NEW p \in Processes, SweepUnmount(p) PROVE NamesUsed'
  BY <1>4, SMTT(30) DEF SweepUnmount, At, Goto, Release
<1>5. ASSUME NEW p \in Processes, SweepCleanup(p) PROVE NamesUsed'
  <2>1. \A n \in Names : Used(n) => Used(n)'
    BY <1>5 DEF SweepCleanup, At, Goto, Release, CleanupDirectory, Removable
  <2>2. \A n \in Names : n \in (dirs \cup lockFiles \cup table)' \/ holder'[n] # Nobody => Used(n)
    BY <1>5 DEF SweepCleanup, At, Goto, Release, CleanupDirectory, Removable
  <2>3. \A q \in Processes : proc'[q].name = proc[q].name /\ proc'[q].todo = proc[q].todo
                             /\ proc'[q].mine \subseteq proc[q].mine \cup {proc[q].name}
    BY <1>5, SMTT(30) DEF SweepCleanup, At, Goto, Release, CleanupDirectory, Removable
  <2> QED BY <2>1, <2>2, <2>3
<1>6. ASSUME NEW p \in Processes, ClaimLock(p) PROVE NamesUsed'
  BY <1>6 DEF ClaimLock, At
<1>7. ASSUME NEW p \in Processes, ClaimFlock(p) PROVE NamesUsed'
  BY <1>7 DEF ClaimFlock, At, Goto
<1>8. ASSUME NEW p \in Processes, ClaimDirectory(p) PROVE NamesUsed'
  <2>1. \A n \in Names : Used(n) => Used(n)'
    BY <1>8 DEF ClaimDirectory, At, Goto, Release
  <2>2. \A n \in Names : n \in (dirs \cup lockFiles \cup table)' \/ holder'[n] # Nobody => Used(n)
    BY <1>8 DEF ClaimDirectory, At, Goto, Release
  <2>3. \A q \in Processes : proc'[q].name = proc[q].name /\ proc'[q].todo = proc[q].todo
                             /\ proc'[q].mine \subseteq proc[q].mine \cup {proc[q].name}
    BY <1>8 DEF ClaimDirectory, At, Goto, Release
  <2> QED BY <2>1, <2>2, <2>3
<1>9. ASSUME NEW p \in Processes, Mount(p) PROVE NamesUsed'
  <2>1. \A n \in Names : Used(n) => Used(n)'
    BY <1>9 DEF Mount, At, Goto
  <2>2. \A n \in Names : n \in (dirs \cup lockFiles \cup table)' \/ holder'[n] # Nobody => Used(n)
    BY <1>9 DEF Mount, At, Goto
  <2>3. \A q \in Processes : proc'[q].name = proc[q].name /\ proc'[q].todo = proc[q].todo
                             /\ proc'[q].mine \subseteq proc[q].mine \cup {proc[q].name}
    BY <1>9 DEF Mount, At, Goto
  <2> QED BY <2>1, <2>2, <2>3
<1>10. ASSUME NEW p \in Processes, DropMount(p) PROVE NamesUsed'
  BY <1>10 DEF DropMount, At, Goto
<1>11. ASSUME NEW p \in Processes, Cleanup(p) PROVE NamesUsed'
  <2>1. \A n \in Names : Used(n) => Used(n)'
    BY <1>11 DEF Cleanup, At, Goto, Release, CleanupDirectory, Removable
  <2>2. \A n \in Names : n \in (dirs \cup lockFiles \cup table)' \/ holder'[n] # Nobody => Used(n)
    BY <1>11 DEF Cleanup, At, Goto, Release, CleanupDirectory, Removable
  <2>3. \A q \in Processes : proc'[q].name = proc[q].name /\ proc'[q].todo = proc[q].todo
                             /\ proc'[q].mine \subseteq proc[q].mine \cup {proc[q].name}
    BY <1>11 DEF Cleanup, Goto, CleanupDirectory
  <2> QED BY <2>1, <2>2, <2>3
<1>12. ASSUME NEW p \in Processes, Crash(p) PROVE NamesUsed'
  BY <1>12 DEF Crash, At, IdleProcess
<1>13. CASE UNCHANGED claimVars
  BY <1>13 DEF claimVars
<1> QED BY <1>1, <1>2, <1>3, <1>4, <1>5, <1>6, <1>7, <1>8, <1>9, <1>10, <1>11, <1>12, <1>13 DEF ClaimsNext

(* Nobody learns of a name before its directory is made.                   *)
LEMMA PrivateStep ==
  ASSUME MountInv, [ClaimsNext]_claimVars
  PROVE  ClaimIsPrivate'
<1> USE MountClaimsAssumption, NameFacts DEF MountInv, ClaimsTyped, ProcessRecord, Sweeping, Claiming, Dropping, NamesUsed, Used, ClaimIsPrivate, ClaimIsHeld, ServedMountKept, DirectoryHasClaim, IdleProcess
<1>1. ASSUME NEW p \in Processes, BeginCreate(p) PROVE ClaimIsPrivate'
  BY <1>1 DEF BeginCreate, At, Goto
<1>2. ASSUME NEW p \in Processes, SweepOpen(p) PROVE ClaimIsPrivate'
  BY <1>2 DEF SweepOpen, At, Goto
<1>3. ASSUME NEW p \in Processes, SweepFlock(p) PROVE ClaimIsPrivate'
  <2>1. /\ proc[p].pc \notin Claiming /\ proc'[p].pc \notin Claiming
        /\ \A q \in Processes : q # p => proc'[q].pc = proc[q].pc
        /\ \A q \in Processes : /\ proc'[q].name = proc[q].name
                                 /\ proc'[q].todo = proc[q].todo /\ proc'[q].mine = proc[q].mine
    BY <1>3, GotoMoves DEF SweepFlock, At
  <2>2. lockFiles' = lockFiles /\ dirs' = dirs
        /\ \A n \in Names : n # proc[p].name => holder'[n] = holder[n]
    BY <1>3 DEF SweepFlock
  <2> QED
    <3> SUFFICES ASSUME NEW q \in Processes, proc'[q].pc \in Claiming, q # p
                 PROVE  ClaimIsPrivate!(q)'
      BY <2>1 DEF ClaimIsPrivate
    <3>1. proc[q].name # proc[p].name /\ proc[q].name \in Names
      BY <2>1
    <3> QED BY ONLY <2>1, <2>2, <3>1, ClaimIsPrivate DEF ClaimIsPrivate
<1>4. ASSUME NEW p \in Processes, SweepUnmount(p) PROVE ClaimIsPrivate'
  BY <1>4, SMTT(30) DEF SweepUnmount, At, Goto, Release
<1>5. ASSUME NEW p \in Processes, SweepCleanup(p) PROVE ClaimIsPrivate'
  BY <1>5, SMTT(30) DEF SweepCleanup, At, Goto, Release, CleanupDirectory, Removable
<1>6. ASSUME NEW p \in Processes, ClaimLock(p) PROVE ClaimIsPrivate'
  BY <1>6 DEF ClaimLock, At
<1>7. ASSUME NEW p \in Processes, ClaimFlock(p) PROVE ClaimIsPrivate'
  BY <1>7 DEF ClaimFlock, At, Goto
<1>8. ASSUME NEW p \in Processes, ClaimDirectory(p) PROVE ClaimIsPrivate'
  BY <1>8 DEF ClaimDirectory, At, Goto, Release
<1>9. ASSUME NEW p \in Processes, Mount(p) PROVE ClaimIsPrivate'
  <2>1. \A q \in Processes : /\ proc'[q].pc \in Claiming => proc'[q].pc = proc[q].pc
                              /\ proc'[q].name = proc[q].name /\ proc'[q].todo = proc[q].todo
                              /\ proc'[q].mine \subseteq proc[q].mine \cup {proc[q].name}
    BY <1>9 DEF Mount, At, Goto
  <2>2. \A q \in Processes : proc[q].pc \in Claiming /\ q # p => holder'[proc[q].name] = holder[proc[q].name]
    BY <1>9 DEF Mount, At, Goto
  <2> QED BY <1>9, <2>1, <2>2 DEF Mount, At, Goto
<1>10. ASSUME NEW p \in Processes, DropMount(p) PROVE ClaimIsPrivate'
  BY <1>10 DEF DropMount, At, Goto
<1>11. ASSUME NEW p \in Processes, Cleanup(p) PROVE ClaimIsPrivate'
  BY <1>11 DEF Cleanup, At, Goto, Release, CleanupDirectory, Removable
<1>12. ASSUME NEW p \in Processes, Crash(p) PROVE ClaimIsPrivate'
  BY <1>12 DEF Crash, At, IdleProcess
<1>13. CASE UNCHANGED claimVars
  BY <1>13 DEF claimVars
<1> QED BY <1>1, <1>2, <1>3, <1>4, <1>5, <1>6, <1>7, <1>8, <1>9, <1>10, <1>11, <1>12, <1>13 DEF ClaimsNext

(* A claim is kept through a mount and a removal, by nobody else.          *)
LEMMA HeldStep ==
  ASSUME MountInv, [ClaimsNext]_claimVars
  PROVE  ClaimIsHeld'
<1> USE MountClaimsAssumption, NameFacts DEF MountInv, ClaimsTyped, ProcessRecord, Sweeping, Claiming, Dropping, NamesUsed, Used, ClaimIsPrivate, ClaimIsHeld, ServedMountKept, DirectoryHasClaim, IdleProcess
<1>1. ASSUME NEW p \in Processes, BeginCreate(p) PROVE ClaimIsHeld'
  BY <1>1 DEF BeginCreate, At, Goto
<1>2. ASSUME NEW p \in Processes, SweepOpen(p) PROVE ClaimIsHeld'
  BY <1>2 DEF SweepOpen, At, Goto
<1>3. ASSUME NEW p \in Processes, SweepFlock(p) PROVE ClaimIsHeld'
  BY <1>3 DEF SweepFlock, At, Goto, Claimable
<1>4. ASSUME NEW p \in Processes, SweepUnmount(p) PROVE ClaimIsHeld'
  BY <1>4 DEF SweepUnmount, At, Goto, Release
<1>5. ASSUME NEW p \in Processes, SweepCleanup(p) PROVE ClaimIsHeld'
  BY <1>5 DEF SweepCleanup, At, Goto, Release, CleanupDirectory, Removable
<1>6. ASSUME NEW p \in Processes, ClaimLock(p) PROVE ClaimIsHeld'
  BY <1>6 DEF ClaimLock, At
<1>7. ASSUME NEW p \in Processes, ClaimFlock(p) PROVE ClaimIsHeld'
  BY <1>7 DEF ClaimFlock, At, Goto
<1>8. ASSUME NEW p \in Processes, ClaimDirectory(p) PROVE ClaimIsHeld'
  <2>1. CASE proc'[p].pc = "mount"
    BY <1>8, <2>1, GotoMoves DEF ClaimDirectory, At
  <2>2. CASE proc'[p].pc = "idle"
    BY <1>8, <2>2, GotoMoves DEF ClaimDirectory, At, Release
  <2> QED BY <1>8, <2>1, <2>2 DEF ClaimDirectory, At, Goto, Release
<1>9. ASSUME NEW p \in Processes, Mount(p) PROVE ClaimIsHeld'
  BY <1>9 DEF Mount, At, Goto
<1>10. ASSUME NEW p \in Processes, DropMount(p) PROVE ClaimIsHeld'
  BY <1>10 DEF DropMount, At, Goto
<1>11. ASSUME NEW p \in Processes, Cleanup(p) PROVE ClaimIsHeld'
  BY <1>11, SMTT(30) DEF Cleanup, At, Goto, Release, CleanupDirectory, Removable
<1>12. ASSUME NEW p \in Processes, Crash(p) PROVE ClaimIsHeld'
  BY <1>12 DEF Crash, At, IdleProcess
<1>13. CASE UNCHANGED claimVars
  BY <1>13 DEF claimVars
<1> QED BY <1>1, <1>2, <1>3, <1>4, <1>5, <1>6, <1>7, <1>8, <1>9, <1>10, <1>11, <1>12, <1>13 DEF ClaimsNext

(* What a living process serves stays claimed, mounted and in place.       *)
LEMMA ServedStep ==
  ASSUME MountInv, [ClaimsNext]_claimVars
  PROVE  ServedMountKept'
<1> USE MountClaimsAssumption, NameFacts DEF MountInv, ClaimsTyped, ProcessRecord, Sweeping, Claiming, Dropping, NamesUsed, Used, ClaimIsPrivate, ClaimIsHeld, ServedMountKept, DirectoryHasClaim, IdleProcess
<1>1. ASSUME NEW p \in Processes, BeginCreate(p) PROVE ServedMountKept'
  BY <1>1 DEF BeginCreate, At, Goto
<1>2. ASSUME NEW p \in Processes, SweepOpen(p) PROVE ServedMountKept'
  BY <1>2 DEF SweepOpen, At, Goto
<1>3. ASSUME NEW p \in Processes, SweepFlock(p) PROVE ServedMountKept'
  <2>1. \A q \in Processes : proc'[q].mine = proc[q].mine
    BY <1>3, GotoMoves DEF SweepFlock
  <2>2. \A q \in Processes : \A n \in proc[q].mine : n \in table' /\ holder'[n] = q
    BY <1>3 DEF SweepFlock, At, Goto, Claimable
  <2> QED BY <1>3, <2>1, <2>2 DEF SweepFlock, At, Goto, Claimable
<1>4. ASSUME NEW p \in Processes, SweepUnmount(p) PROVE ServedMountKept'
  <2>1. \A q \in Processes : proc'[q].mine = proc[q].mine
    BY <1>4, SMTT(30) DEF SweepUnmount, At, Goto, Release
  <2>2. \A q \in Processes : \A n \in proc[q].mine : n \in table' /\ holder'[n] = q
    BY <1>4 DEF SweepUnmount, At, Goto, Release
  <2> QED BY <1>4, <2>1, <2>2 DEF SweepUnmount, At, Goto, Release
<1>5. ASSUME NEW p \in Processes, SweepCleanup(p) PROVE ServedMountKept'
  BY <1>5 DEF SweepCleanup, At, Goto, Release, CleanupDirectory, Removable
<1>6. ASSUME NEW p \in Processes, ClaimLock(p) PROVE ServedMountKept'
  BY <1>6 DEF ClaimLock, At
<1>7. ASSUME NEW p \in Processes, ClaimFlock(p) PROVE ServedMountKept'
  BY <1>7 DEF ClaimFlock, At, Goto
<1>8. ASSUME NEW p \in Processes, ClaimDirectory(p) PROVE ServedMountKept'
  BY <1>8, SMTT(30) DEF ClaimDirectory, At, Goto, Release
<1>9. ASSUME NEW p \in Processes, Mount(p) PROVE ServedMountKept'
  BY <1>9 DEF Mount, At, Goto
<1>10. ASSUME NEW p \in Processes, DropMount(p) PROVE ServedMountKept'
  BY <1>10 DEF DropMount, At, Goto
<1>11. ASSUME NEW p \in Processes, Cleanup(p) PROVE ServedMountKept'
  BY <1>11 DEF Cleanup, At, Goto, Release, CleanupDirectory, Removable
<1>12. ASSUME NEW p \in Processes, Crash(p) PROVE ServedMountKept'
  BY <1>12 DEF Crash, At, IdleProcess
<1>13. CASE UNCHANGED claimVars
  BY <1>13 DEF claimVars
<1> QED BY <1>1, <1>2, <1>3, <1>4, <1>5, <1>6, <1>7, <1>8, <1>9, <1>10, <1>11, <1>12, <1>13 DEF ClaimsNext

(* A directory goes before its lock file.                                  *)
LEMMA DirectoryStep ==
  ASSUME MountInv, [ClaimsNext]_claimVars
  PROVE  DirectoryHasClaim'
<1> USE MountClaimsAssumption, NameFacts DEF MountInv, ClaimsTyped, ProcessRecord, Sweeping, Claiming, Dropping, ClaimIsPrivate, ClaimIsHeld, DirectoryHasClaim, IdleProcess
<1>1. ASSUME NEW p \in Processes, BeginCreate(p) PROVE DirectoryHasClaim'
  BY <1>1 DEF BeginCreate, At, Goto
<1>2. ASSUME NEW p \in Processes, SweepOpen(p) PROVE DirectoryHasClaim'
  BY <1>2 DEF SweepOpen, At, Goto
<1>3. ASSUME NEW p \in Processes, SweepFlock(p) PROVE DirectoryHasClaim'
  BY <1>3 DEF SweepFlock, At, Goto, Claimable
<1>4. ASSUME NEW p \in Processes, SweepUnmount(p) PROVE DirectoryHasClaim'
  BY <1>4 DEF SweepUnmount, At, Goto, Release
<1>5. ASSUME NEW p \in Processes, SweepCleanup(p) PROVE DirectoryHasClaim'
  BY <1>5 DEF SweepCleanup, At, Goto, Release, CleanupDirectory, Removable
<1>6. ASSUME NEW p \in Processes, ClaimLock(p) PROVE DirectoryHasClaim'
  BY <1>6 DEF ClaimLock, At
<1>7. ASSUME NEW p \in Processes, ClaimFlock(p) PROVE DirectoryHasClaim'
  BY <1>7 DEF ClaimFlock, At, Goto
<1>8. ASSUME NEW p \in Processes, ClaimDirectory(p) PROVE DirectoryHasClaim'
  BY <1>8 DEF ClaimDirectory, At, Goto, Release
<1>9. ASSUME NEW p \in Processes, Mount(p) PROVE DirectoryHasClaim'
  BY <1>9 DEF Mount, At, Goto
<1>10. ASSUME NEW p \in Processes, DropMount(p) PROVE DirectoryHasClaim'
  BY <1>10 DEF DropMount, At, Goto
<1>11. ASSUME NEW p \in Processes, Cleanup(p) PROVE DirectoryHasClaim'
  BY <1>11 DEF Cleanup, At, Goto, Release, CleanupDirectory, Removable
<1>12. ASSUME NEW p \in Processes, Crash(p) PROVE DirectoryHasClaim'
  BY <1>12 DEF Crash, At, IdleProcess
<1>13. CASE UNCHANGED claimVars
  BY <1>13 DEF claimVars
<1> QED BY <1>1, <1>2, <1>3, <1>4, <1>5, <1>6, <1>7, <1>8, <1>9, <1>10, <1>11, <1>12, <1>13 DEF ClaimsNext

(* The inductive invariant holds throughout.                               *)
LEMMA MountInvHolds == ClaimsSpec => []MountInv
<1>1. ClaimsInit => MountInv
  BY MountClaimsAssumption, NameFacts
     DEF ClaimsInit, MountInv, ClaimsTyped, ProcessRecord, NamesUsed, ClaimIsPrivate, ClaimIsHeld,
         ServedMountKept, DirectoryHasClaim, IdleProcess, Sweeping, Claiming, Dropping
<1>2. MountInv /\ [ClaimsNext]_claimVars => MountInv'
  BY TypedStep, UsedStep, PrivateStep, HeldStep, ServedStep, DirectoryStep DEF MountInv
<1> QED BY <1>1, <1>2, PTL DEF ClaimsSpec

-----------------------------------------------------------------------------
(* However many processes claim, sweep, drop and die, and in whatever      *)
(* order: what a living process serves is neither unmounted nor removed    *)
(* (RemoteMount::create, cleanup), and no directory is left that a sweep   *)
(* would pass over.                                                        *)
THEOREM MountsAreKept == ClaimsSpec => []MountsKept
<1>1. MountInv => MountsKept
  BY DEF MountInv, MountsKept
<1> QED BY <1>1, MountInvHolds, PTL

(* One claim at a time: a process that mounts or removes a name is the     *)
(* only one, and no other process serves it.                               *)
ClaimExclusive ==
  \A p, q \in Processes :
    p # q /\ proc[p].pc \in Dropping \cup {"mount"} =>
      /\ proc[p].name \notin proc[q].mine
      /\ proc[q].pc \in Dropping \cup {"mount", "sweepRemoveLock"} => proc[p].name # proc[q].name

(* Two processes never work on one mount point (the advisory lock of       *)
(* claim_directory and sweep).                                             *)
THEOREM ClaimsExclude == ClaimsSpec => []ClaimExclusive
<1>1. MountInv => ClaimExclusive
  BY DEF MountInv, ClaimsTyped, ClaimIsHeld, ServedMountKept, ClaimExclusive, Dropping
<1> QED BY <1>1, MountInvHolds, PTL

-----------------------------------------------------------------------------
(* The selection given to the desktop.                                     *)

Request == [type : {"set", "destroy"}, source : Nat \ {0}]
Event == [type : {"send", "cancelled"}, source : Nat \ {0}]
Results == {"none", "timedOut", "tooLarge", "done", "error"}

Elements(stream) == {stream[i] : i \in 1..Len(stream)}

(* Types of the streams and the sources.                                   *)
StreamTyped ==
  /\ writes \in Nat /\ pendingWrite \in Nat /\ owner \in Nat
  /\ active \in [source : Nat, content : Nat] /\ destroyed \subseteq Nat \ {0}
  /\ requests \in Seq(Request) /\ events \in Seq(Event)

(* A source number is used once: what waits to be written is newer than    *)
(* every source there was.                                                 *)
NumbersFresh ==
  /\ active.source <= writes /\ \A s \in destroyed : s <= writes
  /\ pendingWrite # 0 =>
       pendingWrite = writes /\ active.source < writes /\ \A s \in destroyed : s < writes

(* A source is the active one, with its own content, or it is destroyed;   *)
(* neither stream and no owner is about another.                           *)
OneActive ==
  /\ active.content = active.source /\ active.source \notin destroyed
  /\ \A r \in Elements(requests) : r.source \in destroyed \cup {active.source}
  /\ \A e \in Elements(events) : e.source \in destroyed \cup {active.source}
  /\ owner \in destroyed \cup {active.source, 0}

(* A destroyed source is the compositor's, or on its way to become that,   *)
(* only as long as its destroy request is on the way behind.               *)
DestroyFollows ==
  /\ owner \in destroyed => Destroy(owner) \in Elements(requests)
  /\ \A i \in 1..Len(requests) :
       requests[i].type = "set" /\ requests[i].source \in destroyed =>
         \E j \in i..Len(requests) : requests[j] = Destroy(requests[i].source)

(* The active source is what the last request sets, or once all requests   *)
(* are taken the owner, unless it is told otherwise.                       *)
ActiveIsOwner ==
  active.source # 0 =>
    \/ requests # <<>> /\ requests[Len(requests)] = SetSelection(active.source)
    \/ /\ requests = <<>>
       /\ \/ owner = active.source
          \/ [type |-> "cancelled", source |-> active.source] \in Elements(events)

StreamInv == StreamTyped /\ NumbersFresh /\ OneActive /\ DestroyFollows /\ ActiveIsOwner

Transfer ==
  [mode : {"none", "read", "write"}, source : Nat, size : Nat, want : Nat, idle : Nat, elapsed : Nat]

(* Types of the transfer and of the last one's outcome.                    *)
PipeTyped ==
  /\ pipe \in Transfer
  /\ outcome \in [mode : {"none", "read", "write"}, result : Results, source : Nat,
                  content : Nat, size : Nat, want : Nat]

(* While content is written the source it was asked of stays active, and   *)
(* a read never holds more than the limit.                                 *)
PipeInv ==
  /\ PipeTyped /\ PasteServesOwn /\ TransferBounded
  /\ pipe.mode = "write" => pipe.source = active.source
  /\ pipe.mode = "read" => pipe.size <= MaxSize

SelectionInv == StreamInv /\ PipeInv
-----------------------------------------------------------------------------
(* What is on a stream after it grew at its end or lost its head.          *)
LEMMA StreamGrows ==
  ASSUME NEW S, NEW stream \in Seq(S), NEW e \in S
  PROVE  /\ Append(stream, e) \in Seq(S) /\ Append(stream, e) # <<>>
         /\ Len(Append(stream, e)) = Len(stream) + 1
         /\ Append(stream, e)[Len(stream) + 1] = e
         /\ \A i \in 1..Len(stream) : Append(stream, e)[i] = stream[i]
         /\ Elements(Append(stream, e)) = Elements(stream) \cup {e}
<1>1. /\ Append(stream, e) \in Seq(S) /\ Append(stream, e) # <<>>
      /\ Len(Append(stream, e)) = Len(stream) + 1
      /\ Append(stream, e)[Len(stream) + 1] = e
      /\ \A i \in 1..Len(stream) : Append(stream, e)[i] = stream[i]
  OBVIOUS
<1> QED BY <1>1 DEF Elements

(* The first element of a stream, and what is left of it.                  *)
LEMMA StreamTaken ==
  ASSUME NEW S, NEW stream \in Seq(S), stream # <<>>
  PROVE  /\ Head(stream) \in S /\ Head(stream) = stream[1]
         /\ Tail(stream) \in Seq(S) /\ Len(stream) \in Nat /\ Len(Tail(stream)) = Len(stream) - 1
         /\ \A i \in 1..(Len(stream) - 1) : Tail(stream)[i] = stream[i + 1]
         /\ Elements(stream) = {Head(stream)} \cup Elements(Tail(stream))
         /\ Elements(stream) \subseteq S
<1>1. /\ Head(stream) \in S /\ Head(stream) = stream[1]
      /\ Tail(stream) \in Seq(S) /\ Len(stream) \in Nat /\ Len(Tail(stream)) = Len(stream) - 1
      /\ \A i \in 1..(Len(stream) - 1) : Tail(stream)[i] = stream[i + 1]
  OBVIOUS
<1>2. ASSUME NEW e \in Elements(stream) PROVE e \in {Head(stream)} \cup Elements(Tail(stream)) /\ e \in S
  <2>1. PICK i \in 1..Len(stream) : e = stream[i]
    BY DEF Elements
  <2>2. CASE i = 1
    BY <1>1, <2>1, <2>2
  <2>3. CASE i # 1
    <3>1. i - 1 \in 1..Len(Tail(stream)) /\ Tail(stream)[i - 1] = e
      BY <1>1, <2>1, <2>3
    <3> QED BY <2>1, <3>1 DEF Elements
  <2> QED BY <2>2, <2>3
<1>3. ASSUME NEW e \in {Head(stream)} \cup Elements(Tail(stream)) PROVE e \in Elements(stream)
  <2>1. CASE e = Head(stream)
    <3>1. 1 \in 1..Len(stream) /\ stream[1] = e
      BY <1>1, <2>1
    <3> QED BY <3>1 DEF Elements
  <2>2. CASE e \in Elements(Tail(stream))
    <3>1. PICK i \in 1..Len(Tail(stream)) : e = Tail(stream)[i]
      BY <2>2 DEF Elements
    <3>2. i + 1 \in 1..Len(stream) /\ stream[i + 1] = e
      BY <1>1, <3>1
    <3> QED BY <3>2 DEF Elements
  <2> QED BY <2>1, <2>2
<1> QED BY <1>1, <1>2, <1>3

(* Requests are of sources that exist.                                     *)
LEMMA RequestTyped ==
  ASSUME NEW s \in Nat \ {0}
  PROVE  /\ Destroy(s) \in Request /\ SetSelection(s) \in Request
         /\ Destroy(s).source = s /\ SetSelection(s).source = s
         /\ Destroy(s).type = "destroy" /\ SetSelection(s).type = "set"
         /\ [type |-> "cancelled", source |-> s] \in Event /\ [type |-> "send", source |-> s] \in Event
  BY DEF Destroy, SetSelection, Request, Event

-----------------------------------------------------------------------------
(* The streams: the steps of the watcher.                                  *)

(* Text of the client is posted to the watcher.                            *)
LEMMA WritePosted == StreamInv /\ PostWrite => StreamInv'
  BY DEF StreamInv, StreamTyped, NumbersFresh, OneActive, DestroyFollows, ActiveIsOwner, PostWrite

(* A write of the selection to the compositor keeps the stream in order.   *)
LEMMA SelectionWritten ==
  ASSUME StreamInv, WriteSelection
  PROVE  StreamInv'
<1> USE DEF StreamInv, WriteSelection
<1> DEFINE old == active.source
<1>1. old \in Nat /\ pendingWrite \in Nat \ {0} /\ pendingWrite = writes /\ old < pendingWrite
      /\ (\A s \in destroyed : s \in Nat \ {0} /\ s < pendingWrite) /\ requests \in Seq(Request)
  BY DEF StreamTyped, NumbersFresh
<1>2. /\ DestroyOld[2] \in Seq(Request) /\ destroyed' = destroyed \cup ({old} \ {0})
      /\ Len(DestroyOld[2]) \in Nat /\ Len(requests) \in Nat /\ Len(DestroyOld[2]) >= Len(requests)
      /\ \A i \in 1..Len(requests) : DestroyOld[2][i] = requests[i]
      /\ \A i \in 1..Len(DestroyOld[2]) : i \in 1..Len(requests) \/ DestroyOld[2][i] = Destroy(old)
      /\ Elements(DestroyOld[2]) = Elements(requests) \cup (IF old = 0 THEN {} ELSE {Destroy(old)})
      /\ old # 0 => DestroyOld[2][Len(DestroyOld[2])] = Destroy(old) /\ Len(DestroyOld[2]) > Len(requests)
  <2>1. CASE old = 0
    BY <1>1, <2>1 DEF DestroyOld
  <2>2. CASE old # 0
    <3>1. /\ DestroyOld = <<destroyed \cup {old}, Append(requests, Destroy(old))>>
          /\ Destroy(old) \in Request
      BY <1>1, <2>2, RequestTyped DEF DestroyOld
    <3> QED BY <1>1, <2>2, <3>1, StreamGrows
  <2> QED BY <2>1, <2>2
<1>3. /\ SetSelection(pendingWrite) \in Request
      /\ requests' = Append(DestroyOld[2], SetSelection(pendingWrite))
      /\ SetSelection(pendingWrite).source = pendingWrite
      /\ old # 0 => Destroy(old).source = old /\ Destroy(old).type = "destroy"
  BY <1>1, RequestTyped
<1>4. /\ requests' \in Seq(Request) /\ requests' # <<>> /\ Len(requests') = Len(DestroyOld[2]) + 1
      /\ requests'[Len(requests')] = SetSelection(pendingWrite)
      /\ \A i \in 1..Len(DestroyOld[2]) : requests'[i] = DestroyOld[2][i]
      /\ Elements(requests') = Elements(DestroyOld[2]) \cup {SetSelection(pendingWrite)}
  BY <1>2, <1>3, StreamGrows
<1>5. active' = [source |-> pendingWrite, content |-> pendingWrite]
  OBVIOUS
<1>6. StreamTyped'
  <2>1. destroyed' \subseteq Nat \ {0} /\ active' \in [source : Nat, content : Nat]
    BY <1>1, <1>2, <1>5
  <2> QED BY <1>4, <2>1 DEF StreamTyped
<1>7. NumbersFresh'
  BY <1>1, <1>2, <1>5 DEF NumbersFresh
<1>8. OneActive'
  <2>1. active'.content = active'.source /\ active'.source = pendingWrite /\ pendingWrite \notin destroyed'
    BY <1>1, <1>2, <1>5
  <2>2. ASSUME NEW r \in Elements(requests') PROVE r.source \in destroyed' \cup {pendingWrite}
    <3>1. r \in Elements(requests) \/ (r = Destroy(old) /\ old # 0) \/ r = SetSelection(pendingWrite)
      BY <1>2, <1>4
    <3>2. r \in Elements(requests) => r.source \in destroyed \cup {old}
      BY DEF OneActive
    <3>3. r \in Elements(requests) => r.source # 0
      <4>1. SUFFICES ASSUME NEW i \in 1..Len(requests) PROVE requests[i].source # 0
        BY DEF Elements
      <4>2. requests[i] \in Request
        BY <1>1
      <4> QED BY <4>2 DEF Request
    <3> QED BY <1>2, <1>3, <3>1, <3>2, <3>3
  <2>3. owner \in destroyed' \cup {0} /\ \A e \in Elements(events) : e.source \in destroyed' \cup {old}
    BY <1>2 DEF OneActive
  <2>4. \A e \in Elements(events) : e.source # 0
    <3>1. SUFFICES ASSUME NEW i \in 1..Len(events) PROVE events[i].source # 0
      BY DEF Elements
    <3>2. events[i] \in Event
      BY DEF StreamTyped
    <3> QED BY <3>2 DEF Event
  <2> QED BY <1>2, <2>1, <2>2, <2>3, <2>4 DEF OneActive
<1>9. DestroyFollows'
  <2>1. owner \in destroyed' => Destroy(owner) \in Elements(requests')
    BY <1>1, <1>2, <1>4 DEF DestroyFollows
  <2>2. ASSUME NEW i \in 1..Len(requests'), requests'[i].type = "set", requests'[i].source \in destroyed'
        PROVE  \E j \in i..Len(requests') : requests'[j] = Destroy(requests'[i].source)
    <3>1. i \in 1..Len(requests) /\ requests'[i] = requests[i]
      <4>1. i # Len(requests')
        BY <1>1, <1>2, <1>3, <1>4, <2>2
      <4>2. i \in 1..Len(DestroyOld[2]) /\ requests'[i] = DestroyOld[2][i]
        BY <1>2, <1>4, <4>1
      <4>3. i \notin 1..Len(requests) => old # 0
        BY <1>1, <1>2, <4>2 DEF DestroyOld
      <4> QED BY <1>2, <1>3, <2>2, <4>2, <4>3
    <3>2. CASE requests[i].source \in destroyed
      <4>1. PICK j \in i..Len(requests) : requests[j] = Destroy(requests[i].source)
        BY <2>2, <3>1, <3>2 DEF DestroyFollows
      <4> QED BY <1>2, <1>4, <3>1, <4>1
    <3>3. CASE requests[i].source = old /\ old # 0
      <4>1. Len(DestroyOld[2]) \in i..Len(requests') /\ requests'[Len(DestroyOld[2])] = Destroy(old)
        BY <1>2, <1>4, <3>1, <3>3
      <4> QED BY <3>1, <3>3, <4>1
    <3> QED BY <1>2, <2>2, <3>1, <3>2, <3>3
  <2> QED BY <2>1, <2>2 DEF DestroyFollows
<1>10. ActiveIsOwner'
  BY <1>4, <1>5 DEF ActiveIsOwner
<1> QED BY <1>6, <1>7, <1>8, <1>9, <1>10

(* The event the watcher looks at is of the active source or a destroyed   *)
(* one.                                                                    *)
LEMMA EventTaken ==
  ASSUME StreamInv, events # <<>>
  PROVE  /\ Head(events) \in Event /\ Tail(events) \in Seq(Event)
         /\ Elements(events) = {Head(events)} \cup Elements(Tail(events))
         /\ Head(events).source # 0
         /\ Head(events).source \in destroyed \cup {active.source}
<1>1. /\ Head(events) \in Event /\ Tail(events) \in Seq(Event)
      /\ Elements(events) = {Head(events)} \cup Elements(Tail(events))
  BY StreamTaken DEF StreamInv, StreamTyped
<1> QED BY <1>1 DEF StreamInv, OneActive, Event

(* An event of a source that is gone is dropped.                           *)
LEMMA EventDropped == StreamInv /\ DropEvent => StreamInv'
  BY EventTaken DEF StreamInv, StreamTyped, NumbersFresh, OneActive, DestroyFollows, ActiveIsOwner, DropEvent

(* A paste that reaches the watcher is dispatched.                         *)
LEMMA SendHandled == StreamInv /\ OnSend => StreamInv'
  BY EventTaken
     DEF StreamInv, StreamTyped, NumbersFresh, OneActive, DestroyFollows, ActiveIsOwner, OnSend, Dispatched

(* A cancelled source is forgotten by those who still name it.             *)
LEMMA CancelHandled ==
  ASSUME StreamInv, OnCancelled
  PROVE  StreamInv'
<1> USE DEF StreamInv, OnCancelled, Dispatched
<1> DEFINE gone == Head(events).source
<1>1. gone = active.source /\ gone \in Nat \ {0} /\ Tail(events) \in Seq(Event)
      /\ Elements(events') \subseteq Elements(events)
  BY EventTaken DEF StreamTyped
<1>2. /\ active' = NoSource /\ destroyed' = destroyed \cup {gone}
      /\ requests' = Append(requests, Destroy(gone))
  BY <1>1 DEF Forget
<1> HIDE DEF gone
<1>3. /\ requests \in Seq(Request) /\ Len(requests) \in Nat
      /\ Destroy(gone) \in Request /\ Destroy(gone).source = gone /\ Destroy(gone).type = "destroy"
  <2>1. requests \in Seq(Request) /\ Len(requests) \in Nat
    BY DEF StreamTyped
  <2>2. gone \in Nat \ {0}
    BY <1>1
  <2> QED BY ONLY <2>1, <2>2, RequestTyped
<1>4. /\ requests' \in Seq(Request) /\ Len(requests') = Len(requests) + 1
      /\ requests'[Len(requests')] = Destroy(gone)
      /\ \A i \in 1..Len(requests) : requests'[i] = requests[i]
      /\ Elements(requests') = Elements(requests) \cup {Destroy(gone)}
  BY <1>2, <1>3, StreamGrows
<1>5. StreamTyped'
  <2>1. destroyed' \subseteq Nat \ {0} /\ active' \in [source : Nat, content : Nat]
    <3>1. gone \in Nat \ {0} /\ destroyed \subseteq Nat \ {0}
      BY <1>1 DEF StreamTyped
    <3>2. active' = [source |-> 0, content |-> 0] /\ destroyed' = destroyed \cup {gone}
      BY <1>2 DEF NoSource
    <3> QED BY ONLY <3>1, <3>2
  <2> QED BY <1>1, <1>4, <2>1 DEF StreamTyped
<1>6. NumbersFresh'
  BY <1>1, <1>2 DEF NumbersFresh, NoSource, StreamTyped
<1>7. OneActive'
  BY <1>1, <1>2, <1>3, <1>4 DEF OneActive, NoSource, StreamTyped
<1>8. DestroyFollows'
  <2>1. owner \in destroyed' => Destroy(owner) \in Elements(requests')
    BY <1>2, <1>4 DEF DestroyFollows
  <2>2. ASSUME NEW i \in 1..Len(requests'), requests'[i].type = "set", requests'[i].source \in destroyed'
        PROVE  \E j \in i..Len(requests') : requests'[j] = Destroy(requests'[i].source)
    <3>1. i \in 1..Len(requests) /\ requests'[i] = requests[i]
      BY <1>3, <1>4, <2>2
    <3>2. CASE requests[i].source \in destroyed
      <4>1. PICK j \in i..Len(requests) : requests[j] = Destroy(requests[i].source)
        BY <2>2, <3>1, <3>2 DEF DestroyFollows
      <4> QED BY <1>3, <1>4, <3>1, <4>1
    <3>3. CASE requests[i].source = gone
      BY <1>3, <1>4, <3>1, <3>3
    <3> QED BY <1>2, <2>2, <3>1, <3>2, <3>3
  <2> QED BY <2>1, <2>2 DEF DestroyFollows
<1>9. ActiveIsOwner'
  BY <1>2 DEF ActiveIsOwner, NoSource
<1> QED BY <1>5, <1>6, <1>7, <1>8, <1>9

(* The streams: the compositor and the desktop.                            *)

(* The owner is told that it lost the selection.                           *)
LEMMA CancelSent ==
  ASSUME StreamInv
  PROVE  /\ Cancelled(owner) \in Seq(Event)
         /\ Elements(Cancelled(owner)) =
              IF owner = 0 THEN Elements(events)
              ELSE Elements(events) \cup {[type |-> "cancelled", source |-> owner]}
<1>1. CASE owner = 0
  BY <1>1 DEF Cancelled, StreamInv, StreamTyped
<1>2. CASE owner # 0
  <2>1. [type |-> "cancelled", source |-> owner] \in Event /\ events \in Seq(Event)
    BY <1>2 DEF Event, StreamInv, StreamTyped
  <2> QED BY <1>2, <2>1, StreamGrows DEF Cancelled
<1> QED BY <1>1, <1>2

(* Another application takes or asks for the selection.                    *)
LEMMA DesktopActs ==
  ASSUME StreamInv, DesktopPastes \/ DesktopTakesOver
  PROVE  StreamInv'
<1>1. CASE DesktopPastes
  <2>1. /\ [type |-> "send", source |-> owner] \in Event /\ events \in Seq(Event)
        /\ events' = Append(events, [type |-> "send", source |-> owner])
    BY <1>1 DEF Event, DesktopPastes, StreamInv, StreamTyped
  <2>2. /\ events' \in Seq(Event)
        /\ Elements(events') = Elements(events) \cup {[type |-> "send", source |-> owner]}
    BY <2>1, StreamGrows
  <2> QED BY <1>1, <2>2
          DEF StreamInv, StreamTyped, NumbersFresh, OneActive, DestroyFollows, ActiveIsOwner, DesktopPastes
<1>2. CASE DesktopTakesOver
  <2> USE DEF StreamInv, DesktopTakesOver
  <2>1. 0 \notin destroyed /\ owner' = 0 /\ owner # 0
    BY <1>2 DEF StreamTyped
  <2>2. /\ events' \in Seq(Event)
        /\ Elements(events') = Elements(events) \cup {[type |-> "cancelled", source |-> owner]}
    BY <1>2, <2>1, CancelSent
  <2>3. StreamTyped' /\ NumbersFresh'
    BY <1>2, <2>1, <2>2 DEF StreamTyped, NumbersFresh
  <2>4. OneActive'
    BY <1>2, <2>1, <2>2 DEF OneActive
  <2>5. DestroyFollows' /\ ActiveIsOwner'
    BY <1>2, <2>1, <2>2 DEF DestroyFollows, ActiveIsOwner
  <2> QED BY <2>3, <2>4, <2>5
<1> QED BY <1>1, <1>2

(* The compositor takes the next request of the watcher.                   *)
LEMMA RequestTaken ==
  ASSUME StreamInv, CompositorTakes
  PROVE  StreamInv'
<1> USE DEF StreamInv, CompositorTakes
<1> DEFINE r == Head(requests)
<1>1. /\ r \in Request /\ r = requests[1] /\ requests' \in Seq(Request)
      /\ Len(requests) \in Nat /\ Len(requests) >= 1 /\ Len(requests') = Len(requests) - 1
      /\ \A i \in 1..(Len(requests) - 1) : requests'[i] = requests[i + 1]
      /\ Elements(requests) = {r} \cup Elements(requests')
  BY StreamTaken DEF StreamTyped
<1>2. /\ events' \in Seq(Event) /\ Elements(events) \subseteq Elements(events')
      /\ Elements(events') \subseteq Elements(events) \cup {[type |-> "cancelled", source |-> owner]}
      /\ owner = 0 => Elements(events') = Elements(events)
      /\ owner' # owner /\ owner # 0 /\ r.type = "set" =>
           [type |-> "cancelled", source |-> owner] \in Elements(events')
  BY CancelSent DEF StreamTyped
<1>3. /\ owner' \in {r.source, owner, 0}
      /\ r.type = "set" => owner' = r.source
      /\ r.type = "destroy" => owner' # r.source /\ owner' \in {owner, 0}
      /\ r.type \in {"set", "destroy"} /\ r.source \in Nat \ {0}
  BY <1>1 DEF Request
<1> HIDE DEF r
<1>4. StreamTyped'
  BY <1>1, <1>2, <1>3 DEF StreamTyped
<1>5. NumbersFresh'
  BY DEF NumbersFresh
<1>6. OneActive'
  BY <1>1, <1>2, <1>3 DEF OneActive
<1>7. DestroyFollows'
  <2>1. ASSUME owner' \in destroyed PROVE Destroy(owner') \in Elements(requests')
    <3>1. CASE r.type = "set"
      <4>1. PICK j \in 1..Len(requests) : requests[j] = Destroy(r.source)
        BY <1>1, <1>3, <2>1, <3>1 DEF DestroyFollows
      <4>2. requests[j] # r
        BY <3>1, <4>1 DEF Destroy
      <4>3. j - 1 \in 1..Len(requests') /\ requests'[j - 1] = Destroy(owner')
        BY <1>1, <1>3, <3>1, <4>1, <4>2
      <4> QED BY <4>3 DEF Elements
    <3>2. CASE r.type = "destroy"
      <4>1. owner' = owner /\ Destroy(owner) # r
        BY <1>3, <2>1, <3>2 DEF Destroy, StreamTyped
      <4> QED BY <1>1, <2>1, <4>1 DEF DestroyFollows
    <3> QED BY <1>3, <3>1, <3>2
  <2>2. ASSUME NEW i \in 1..Len(requests'), requests'[i].type = "set", requests'[i].source \in destroyed
        PROVE  \E j \in i..Len(requests') : requests'[j] = Destroy(requests'[i].source)
    <3>1. i + 1 \in 1..Len(requests) /\ requests'[i] = requests[i + 1]
      BY <1>1, <2>2
    <3>2. PICK j \in (i + 1)..Len(requests) : requests[j] = Destroy(requests[i + 1].source)
      BY <2>2, <3>1 DEF DestroyFollows
    <3>3. j - 1 \in i..Len(requests') /\ requests'[j - 1] = requests[j]
      BY <1>1, <3>1, <3>2
    <3> QED BY <3>1, <3>2, <3>3
  <2> QED BY <2>1, <2>2 DEF DestroyFollows
<1>8. ActiveIsOwner'
  <2> SUFFICES ASSUME active.source # 0
               PROVE  ActiveIsOwner'
    BY DEF ActiveIsOwner
  <2>1. requests[Len(requests)] = SetSelection(active.source)
    BY DEF ActiveIsOwner
  <2>2. CASE Len(requests) = 1
    <3>1. r = SetSelection(active.source) /\ requests' = <<>>
      BY <1>1, <2>1, <2>2
    <3> QED BY <1>3, <3>1 DEF ActiveIsOwner, SetSelection
  <2>3. CASE Len(requests) > 1
    <3>1. requests'[Len(requests')] = SetSelection(active.source) /\ requests' # <<>>
      <4>1. Len(requests) - 1 \in 1..(Len(requests) - 1)
        BY <1>1, <2>3
      <4>2. requests'[Len(requests')] = requests[(Len(requests) - 1) + 1] /\ Len(requests') > 0
        BY <1>1, <4>1
      <4>3. (Len(requests) - 1) + 1 = Len(requests)
        BY <1>1
      <4>4. requests'[Len(requests')] = SetSelection(active.source)
        BY <2>1, <4>2, <4>3
      <4> QED BY <4>2, <4>4
    <3> QED BY <3>1 DEF ActiveIsOwner
  <2> QED BY <1>1, <2>2, <2>3
<1> QED BY <1>4, <1>5, <1>6, <1>7, <1>8

-----------------------------------------------------------------------------
(* The transfers.                                                          *)

(* The steps of a transfer touch neither stream nor source.                *)
LEMMA TransfersApart ==
  ASSUME StreamInv, PipeDeadline \/ PipeWaits \/ PipeMoves \/ ReadOffer
  PROVE  StreamInv'
<1>1. UNCHANGED <<pendingWrite, writes, active, destroyed, requests, events, owner>>
  BY DEF PipeDeadline, PipeWaits, PipeMoves, ReadOffer
<1> QED BY <1>1
        DEF StreamInv, StreamTyped, NumbersFresh, OneActive, DestroyFollows, ActiveIsOwner

(* Nor does the other side touch the transfer; the source in use changes   *)
(* between transfers only.                                                 *)
LEMMA StreamsApart ==
  ASSUME PipeInv, PostWrite \/ WriteSelection \/ DropEvent \/ OnCancelled \/ CompositorTakes
                  \/ DesktopPastes \/ DesktopTakesOver
  PROVE  PipeInv'
<1>1. UNCHANGED <<pipe, outcome>> /\ (active' = active \/ pipe.mode = "none")
  BY DEF PostWrite, WriteSelection, DropEvent, OnCancelled, Dispatched, Idle, CompositorTakes,
         DesktopPastes, DesktopTakesOver
<1> QED BY <1>1 DEF PipeInv, PipeTyped, PasteServesOwn, TransferBounded

(* A transfer begins with nothing moved; a paste is served from the active *)
(* selection, which is the one it was asked of.                            *)
LEMMA TransferBegins ==
  ASSUME StreamInv, PipeInv, OnSend \/ ReadOffer
  PROVE  PipeInv'
<1> USE SelectionSourceAssumption DEF PipeInv
<1>1. ASSUME NEW mode \in {"read", "write"}, NEW source \in Nat, NEW want \in Nat,
             pipe' = [mode |-> mode, source |-> source, size |-> 0, want |-> want, idle |-> 0, elapsed |-> 0],
             mode = "write" => source = active.source, UNCHANGED <<active, outcome>>
      PROVE  PipeInv'
  <2>1. pipe' \in Transfer /\ pipe'.mode = mode /\ pipe'.source = source /\ pipe'.size = 0
        /\ pipe'.elapsed = 0 /\ pipe'.idle = 0
    BY ONLY <1>1 DEF Transfer
  <2>2. PipeTyped' /\ PasteServesOwn'
    BY <1>1, <2>1 DEF PipeTyped, PasteServesOwn
  <2>3. 0 <= Total /\ 0 <= Stall /\ 0 <= MaxSize
    OBVIOUS
  <2>4. TransferBounded'
    BY ONLY TransferBounded, <1>1, <2>1, <2>3 DEF TransferBounded
  <2> QED BY <1>1, <2>1, <2>2, <2>3, <2>4
<1>2. CASE OnSend
  <2>1. /\ active.content # 0 => Head(events).source = active.source
        /\ Head(events).source \in Nat /\ UNCHANGED <<active, outcome>>
    BY <1>2, EventTaken DEF OnSend, Dispatched, Event, StreamInv, OneActive
  <2>2. PICK want \in 1..2 :
          \/ pipe' = pipe
          \/ /\ pipe' = [mode |-> "write", source |-> Head(events).source, size |-> 0, want |-> want,
                         idle |-> 0, elapsed |-> 0]
             /\ active.content # 0
    BY <1>2 DEF OnSend, NoPipe
  <2>3. CASE pipe' = pipe
    <3>1. PipeTyped' /\ PasteServesOwn' /\ TransferBounded'
      BY <2>1, <2>3 DEF PipeTyped, PasteServesOwn, TransferBounded
    <3> QED BY <2>1, <2>3, <3>1
  <2> QED BY <1>1, <2>1, <2>2, <2>3
<1>3. CASE ReadOffer
  <2>1. PICK want \in 1..(MaxSize + 1) :
          pipe' = [mode |-> "read", source |-> 0, size |-> 0, want |-> want, idle |-> 0, elapsed |-> 0]
    BY <1>3 DEF ReadOffer, NoPipe
  <2>2. UNCHANGED <<active, outcome>>
    BY <1>3 DEF ReadOffer
  <2>3. want \in Nat
    OBVIOUS
  <2> QED BY <1>1, <2>1, <2>2, <2>3
<1> QED BY <1>2, <1>3

(* A turn of the loop that waits, and one that moves a chunk.              *)
LEMMA TurnTyped ==
  ASSUME NEW p \in Transfer
  PROVE  /\ [p EXCEPT !.idle = @ + 1, !.elapsed = @ + 1] \in Transfer
         /\ [p EXCEPT !.size = @ + 1, !.idle = 0] \in Transfer
<1>1. \A i, j \in Nat : /\ [p EXCEPT !.idle = i, !.elapsed = j] \in Transfer
                         /\ [p EXCEPT !.size = i, !.idle = j] \in Transfer
  BY DEF Transfer
<1>2. p.idle + 1 \in Nat /\ p.elapsed + 1 \in Nat /\ p.size + 1 \in Nat
  BY DEF Transfer
<1> QED BY <1>1, <1>2

(* A transfer goes on below its deadlines and its limit, and ends with     *)
(* what was moved.                                                         *)
LEMMA TransferGoesOn ==
  ASSUME StreamInv, PipeInv, PipeDeadline \/ PipeWaits \/ PipeMoves
  PROVE  PipeInv'
<1> USE SelectionSourceAssumption DEF PipeInv, PipeTyped
<1>1. active.content = active.source /\ active' = active /\ active.content \in Nat
  BY DEF StreamInv, StreamTyped, OneActive, PipeDeadline, PipeWaits, PipeMoves
<1>2. ASSUME NEW result \in Results, End(result), ~Idle,
             result = "done" => pipe.size = pipe.want
      PROVE  PipeInv'
  BY <1>1, <1>2 DEF End, NoPipe, PasteServesOwn, TransferBounded, Idle, Transfer
<1>3. CASE PipeDeadline
  BY <1>2, <1>3 DEF PipeDeadline, Results
<1>4. CASE PipeWaits
  <2>1. /\ pipe' = [pipe EXCEPT !.idle = @ + 1, !.elapsed = @ + 1] /\ outcome' = outcome
        /\ pipe.elapsed < Total /\ pipe.idle < Stall
    BY <1>4 DEF PipeWaits, TimedOut, Transfer
  <2>2. pipe' \in Transfer /\ pipe'.elapsed = pipe.elapsed + 1 /\ pipe'.idle = pipe.idle + 1
        /\ pipe'.mode = pipe.mode /\ pipe'.source = pipe.source /\ pipe'.size = pipe.size
    <3>1. pipe \in Transfer
      BY DEF PipeTyped
    <3>2. pipe' \in Transfer
      BY ONLY <2>1, <3>1, TurnTyped
    <3> QED BY ONLY <2>1, <3>1, <3>2 DEF Transfer
  <2> QED BY <1>1, <2>1, <2>2 DEF PasteServesOwn, TransferBounded, Transfer
<1>5. CASE PipeMoves
  <2>1. CASE pipe.size < pipe.want /\ ~(pipe.mode = "read" /\ pipe.size + 1 > MaxSize)
             /\ pipe' = [pipe EXCEPT !.size = @ + 1, !.idle = 0] /\ UNCHANGED outcome
    <3>1. pipe' \in Transfer /\ pipe'.elapsed = pipe.elapsed /\ pipe'.idle = 0
          /\ pipe'.mode = pipe.mode /\ pipe'.source = pipe.source /\ pipe'.size = pipe.size + 1
      <4>1. pipe \in Transfer
        BY DEF PipeTyped
      <4>2. pipe' \in Transfer
        BY ONLY <2>1, <4>1, TurnTyped
      <4> QED BY ONLY <2>1, <4>1, <4>2 DEF Transfer
    <3> QED BY <1>1, <2>1, <3>1 DEF PasteServesOwn, TransferBounded, Transfer
  <2>2. CASE End("tooLarge") \/ End("error") \/ (pipe.size = pipe.want /\ End("done"))
    BY <1>2, <1>5, <2>2 DEF PipeMoves, Results
  <2> QED BY <1>5, <2>1, <2>2 DEF PipeMoves
<1> QED BY <1>3, <1>4, <1>5

(* The inductive invariant holds throughout.                               *)
LEMMA SelectionInvHolds == SourceSpec => []SelectionInv
<1>1. SourceInit => SelectionInv
  <2> SUFFICES ASSUME SourceInit PROVE SelectionInv
    OBVIOUS
  <2> USE SelectionSourceAssumption DEF SourceInit, NoSource, NoPipe, NoOutcome
  <2>1. Elements(requests) = {} /\ Elements(events) = {}
    BY DEF Elements
  <2>2. StreamInv
    BY <2>1 DEF StreamInv, StreamTyped, NumbersFresh, OneActive, DestroyFollows, ActiveIsOwner
  <2>3. PipeInv
    BY DEF PipeInv, PipeTyped, PasteServesOwn, TransferBounded, Transfer, Results
  <2> QED BY <2>2, <2>3 DEF SelectionInv
<1>2. SelectionInv /\ [SourceNext]_sourceVars => SelectionInv'
  <2> SUFFICES ASSUME StreamInv, PipeInv, [SourceNext]_sourceVars
               PROVE  StreamInv' /\ PipeInv'
    BY DEF SelectionInv
  <2>1. CASE UNCHANGED sourceVars
    BY <2>1 DEF sourceVars, StreamInv, StreamTyped, NumbersFresh, OneActive, DestroyFollows,
                ActiveIsOwner, PipeInv, PipeTyped, PasteServesOwn, TransferBounded
  <2>2. CASE PostWrite \/ WriteSelection \/ DropEvent \/ OnCancelled
    BY <2>2, WritePosted, SelectionWritten, EventDropped, CancelHandled, StreamsApart
  <2>3. CASE CompositorTakes \/ DesktopPastes \/ DesktopTakesOver
    BY <2>3, RequestTaken, DesktopActs, StreamsApart
  <2>4. CASE OnSend \/ ReadOffer
    BY <2>4, SendHandled, TransfersApart, TransferBegins
  <2>5. CASE PipeDeadline \/ PipeWaits \/ PipeMoves
    BY <2>5, TransfersApart, TransferGoesOn
  <2> QED BY <2>1, <2>2, <2>3, <2>4, <2>5 DEF SourceNext
<1> QED BY <1>1, <1>2, PTL DEF SourceSpec

(* Whatever crosses between the watcher and the compositor: a program is   *)
(* sent the content it pasted, the watcher serves exactly the selection    *)
(* the compositor has once both streams are drained (write_selection,      *)
(* Cancelled), and no peer of a pipe holds it beyond the deadlines         *)
(* (transfer_timed_out).                                                   *)
THEOREM SelectionsServed == SourceSpec => []SelectionServed
<1>1. SelectionInv => OwnedIsServed
  <2> SUFFICES ASSUME SelectionInv, requests = <<>>, events = <<>>
               PROVE  active.source = owner
    BY DEF OwnedIsServed
  <2>1. Elements(requests) = {} /\ Elements(events) = {}
    BY DEF Elements
  <2> QED BY <2>1 DEF SelectionInv, StreamInv, OneActive, DestroyFollows, ActiveIsOwner
<1>2. SelectionInv => SelectionServed
  BY <1>1 DEF SelectionInv, PipeInv, SelectionServed
<1> QED BY <1>2, SelectionInvHolds, PTL

-----------------------------------------------------------------------------
(* The creation of an output.                                              *)

Commands == {"monitors", "create", "eval", "keyword", "remove"}
Callers == {"connect", "register", "create", "wait", "scan", "rule", "legacy", "drop",
            "done", "failed"}

(* Types of the caller, the sockets and the compositor.                    *)
ControlTyped ==
  /\ caller \in Callers /\ answer \in {"none", "awaited", "ok", "", "error"}
  /\ subscription \in {"none", "pending", "accepted"}
  /\ ready \subseteq {"commands", "events"}
  /\ exists \in BOOLEAN /\ guard \in BOOLEAN /\ unanswered \in BOOLEAN

(* The characters of the lines, and texts of them.                         *)
Alphabet == Range(OwnLine) \cup UNION {Range(line) : line \in OtherLines}
Characters == Seq(Alphabet)

(* Types of the event stream.                                              *)
LinesTyped ==
  /\ others \subseteq OtherLines
  /\ sent \in Seq(Characters) /\ taken \in Seq(Characters)
  /\ wire \in Characters /\ buf \in Characters

(* The command of a caller, and a connection that waits for its answer or  *)
(* was given up.                                                           *)
Command ==
  CASE caller = "register" -> "monitors" [] caller = "create" -> "create"
    [] caller = "rule" -> "eval" [] caller = "legacy" -> "keyword" [] OTHER -> "remove"
Awaited(command) == [command |-> command, awaited |-> TRUE]
GivenUp(command) == [command |-> command, awaited |-> FALSE]

(* Connections wait for the compositor only if the caller awaits the last  *)
(* of them, or has given up: a command that timed out is followed by the   *)
(* removal of the output and nothing else.                                 *)
Backlogs == {<<>>, <<GivenUp("eval")>>, <<GivenUp("keyword")>>}
Removals(remove) ==
  {<<remove>>, <<GivenUp("eval"), remove>>, <<GivenUp("keyword"), remove>>}
ConnectionsKnown ==
  /\ answer \in {"ok", "", "error"} => connections = <<>>
  /\ answer # "none" => caller \in {"register", "create", "rule", "legacy", "drop"}
  /\ caller \notin {"drop", "failed"} =>
       connections = IF answer = "awaited" THEN <<Awaited(Command)>> ELSE <<>>
  /\ caller = "drop" =>
       connections \in IF answer = "awaited" THEN Removals(Awaited("remove")) ELSE Backlogs
  /\ caller = "failed" =>
       connections \in Backlogs \cup Removals(GivenUp("remove"))
                         \cup {<<GivenUp("monitors")>>, <<GivenUp("create")>>}

(* The subscription is accepted, or is the next thing the compositor does. *)
Registered == subscription = "accepted" \/ ("events" \in ready /\ "commands" \notin ready)

(* Once the answer to the first command is here, and then whenever a       *)
(* creation can be on its way, the subscription is as good as accepted.    *)
StreamRegistered ==
  /\ "commands" \in ready => connections # <<>>
  /\ "events" \in ready => subscription = "pending"
  /\ caller = "connect" => subscription = "none"
  /\ caller = "register" => subscription # "none"
  /\ caller = "register" /\ "commands" \in ready =>
       subscription = "accepted" \/ "events" \in ready
  /\ \/ caller \notin {"connect", "register", "failed"}
     \/ caller = "register" /\ answer \in {"ok", "", "error"}
     \/ caller = "failed" /\ connections = <<GivenUp("create")>>
     => Registered

(* What became of the output.                                              *)
OutputKnown ==
  /\ caller \in {"connect", "register"} => ~exists
  /\ caller = "create" /\ answer \notin {"ok", ""} => ~exists
  /\ caller \in {"connect", "register", "create", "wait", "scan"} => ~guard /\ ~unanswered
  /\ caller \in {"rule", "legacy", "drop", "done"} => guard
  /\ caller = "drop" /\ answer \in {"ok", "", "error"} => ~exists
  /\ caller = "failed" /\ ~guard /\ ~unanswered => ~exists /\ connections = <<>>
  /\ caller = "failed" /\ guard =>
       \/ ~exists /\ connections \in Backlogs
       \/ connections \in Removals(GivenUp("remove"))

(* The inductive invariant: of the control, and of the event stream.       *)
ControlInv == ControlTyped /\ ConnectionsKnown /\ StreamRegistered /\ OutputKnown
IpcInv == ControlInv /\ CreationHeard /\ LinesTyped /\ EventsInOrder

(* A set of numbers has a least one: induction without an operator.        *)
LEMMA LeastNumber ==
  ASSUME NEW T \in SUBSET Nat, T # {}
  PROVE  \E n \in T : \A m \in T : n <= m
<1>1. PICK n \in T : \A m \in T : ~(<<m, n>> \in OpToRel(<, Nat))
  BY NatLessThanWellFounded, WFMin, Zenon
<1>2. \A m \in T : ~(m < n)
  BY <1>1 DEF OpToRel
<1>3. n \in Nat /\ \A m \in T : m \in Nat
  OBVIOUS
<1>4. \A m \in T : n <= m
  BY <1>2, <1>3
<1> QED
  BY <1>4

(* f joins the sequences s[1], s[2] ... one by one.                        *)
JoinsTo(f, s, n) ==
  \A i \in 1..n : f[i] = IF i = 1 THEN s[i] ELSE f[i - 1] \o s[i]

(* The recursive function of FlattenSeq exists, by induction on its length.*)
LEMMA JoinExists ==
  ASSUME NEW S, NEW s \in Seq(Seq(S))
  PROVE  \E f \in [1..Len(s) -> Seq(S)] : JoinsTo(f, s, Len(s))
<1> DEFINE Joinable(n) == \E f \in [1..n -> Seq(S)] : JoinsTo(f, s, n)
           T == {n \in 0..Len(s) : ~Joinable(n)}
<1>1. SUFFICES T = {}
  BY DEF T
<1>2. SUFFICES ASSUME T # {}
               PROVE  FALSE
  OBVIOUS
<1>3. PICK n \in T : \A m \in T : n <= m
  <2>1. T \in SUBSET Nat
    OBVIOUS
  <2> HIDE DEF T
  <2> QED
    BY <1>2, <2>1, LeastNumber
<1>4. Joinable(0)
  <2> DEFINE e == [i \in 1..0 |-> <<>>]
  <2>1. e \in [1..0 -> Seq(S)]
    OBVIOUS
  <2>2. JoinsTo(e, s, 0)
    BY DEF JoinsTo
  <2> QED
    BY <2>1, <2>2
<1>5. n # 0 /\ n \in 1..Len(s) /\ Joinable(n - 1)
  <2> HIDE DEF Joinable
  <2> QED
    BY <1>3, <1>4
<1>6. PICK f \in [1..(n - 1) -> Seq(S)] : JoinsTo(f, s, n - 1)
  BY <1>5
<1> DEFINE last == IF n = 1 THEN s[1] ELSE f[n - 1] \o s[n]
           g == [i \in 1..n |-> IF i = n THEN last ELSE f[i]]
<1>7. g \in [1..n -> Seq(S)]
  <2>1. s[n] \in Seq(S)
    BY <1>5
  <2>2. n # 1 => f[n - 1] \in Seq(S)
    BY <1>5
  <2> QED
    BY <1>5, <2>1, <2>2
<1>8. JoinsTo(g, s, n)
  <2>1. g[n] = last
    BY <1>5
  <2>2. \A i \in 1..(n - 1) : g[i] = f[i]
    <3>1. \A i \in 1..(n - 1) : i \in 1..n /\ i # n
      BY <1>5
    <3> QED
      BY <3>1
  <2>3. \A i \in 1..(n - 1) : f[i] = IF i = 1 THEN s[i] ELSE f[i - 1] \o s[i]
    BY <1>6 DEF JoinsTo
  <2> HIDE DEF g
  <2>4. ASSUME NEW i \in 1..n
        PROVE  g[i] = IF i = 1 THEN s[i] ELSE g[i - 1] \o s[i]
    <3>1. CASE i = n
      BY <1>5, <2>1, <2>2, <3>1
    <3>2. CASE i # n
      <4>1. i \in 1..(n - 1) /\ (i # 1 => i - 1 \in 1..(n - 1))
        BY <1>5, <3>2
      <4> QED
        BY <2>2, <2>3, <4>1
    <3> QED
      BY <3>1, <3>2
  <2> QED
    BY <2>4 DEF JoinsTo
<1> QED
  BY <1>3, <1>7, <1>8

(* ... and is the only one.                                                *)
LEMMA JoinUnique ==
  ASSUME NEW n \in Nat, NEW s, NEW f, NEW g, JoinsTo(f, s, n), JoinsTo(g, s, n)
  PROVE  \A i \in 1..n : f[i] = g[i]
<1> DEFINE T == {i \in 1..n : f[i] # g[i]}
<1>1. SUFFICES ASSUME T # {}
               PROVE  FALSE
  OBVIOUS
<1>2. PICK i \in T : \A j \in T : i <= j
  <2>1. T \in SUBSET Nat
    OBVIOUS
  <2> HIDE DEF T
  <2> QED
    BY <1>1, <2>1, LeastNumber
<1>3. i = 1 \/ (i - 1 \in 1..n /\ f[i - 1] = g[i - 1])
  BY <1>2
<1> QED
  BY <1>2, <1>3 DEF JoinsTo

(* So FlattenSeq is what its definition says.                              *)
LEMMA FlattenIsJoin ==
  ASSUME NEW S, NEW s \in Seq(Seq(S)), Len(s) > 0
  PROVE  \E f : /\ JoinsTo(f, s, Len(s)) /\ FlattenSeq(s) = f[Len(s)]
                /\ FlattenSeq(s) \in Seq(S)
<1>1. PICK f \in [1..Len(s) -> Seq(S)] : JoinsTo(f, s, Len(s))
  BY JoinExists
<1> DEFINE Body(h) == [i \in 1..Len(s) |-> IF i = 1 THEN s[i] ELSE h[i - 1] \o s[i]]
           F == CHOOSE h : h = Body(h)
<1>2. f = Body(f)
  BY <1>1 DEF JoinsTo
<1>3. F = Body(F)
  BY <1>2, Zenon
<1>4. JoinsTo(F, s, Len(s))
  BY <1>3 DEF JoinsTo
<1>5. FlattenSeq(s) = F[Len(s)]
  BY DEF FlattenSeq
<1> HIDE DEF F
<1>6. \A i \in 1..Len(s) : F[i] = f[i]
  <2>1. Len(s) \in Nat
    OBVIOUS
  <2> QED
    BY <1>1, <1>4, <2>1, JoinUnique
<1>7. FlattenSeq(s) = f[Len(s)] /\ f[Len(s)] \in Seq(S)
  <2>1. Len(s) \in 1..Len(s)
    OBVIOUS
  <2>2. F[Len(s)] = f[Len(s)]
    BY <1>6, <2>1, Zenon
  <2>3. f[Len(s)] \in Seq(S)
    BY <1>1, <2>1
  <2> QED
    BY <1>5, <2>2, <2>3, Zenon
<1> QED
  BY <1>4, <1>5, <1>7

(* A line more is its characters more.                                     *)
LEMMA FlattenAppend ==
  ASSUME NEW S, NEW s \in Seq(Seq(S)), NEW x \in Seq(S)
  PROVE  /\ FlattenSeq(s) \in Seq(S)
         /\ FlattenSeq(Append(s, x)) = FlattenSeq(s) \o x
<1> DEFINE t == Append(s, x)
<1>1. /\ t \in Seq(Seq(S)) /\ Len(s) \in Nat /\ Len(t) = Len(s) + 1 /\ t[Len(s) + 1] = x
      /\ \A i \in 1..Len(s) : s[i] = t[i]
  OBVIOUS
<1> SUFFICES FlattenSeq(s) \in Seq(S) /\ FlattenSeq(t) = FlattenSeq(s) \o x
  OBVIOUS
<1> HIDE DEF t
<1>2. PICK g : JoinsTo(g, t, Len(t)) /\ FlattenSeq(t) = g[Len(t)]
  <2>1. t \in Seq(Seq(S)) /\ Len(t) > 0
    BY <1>1
  <2> QED
    BY <2>1, FlattenIsJoin, Zenon
<1>3. CASE Len(s) = 0
  <2>1. s = <<>> /\ FlattenSeq(s) = <<>>
    BY <1>3 DEF FlattenSeq
  <2>2. g[1] = x
    BY <1>1, <1>2, <1>3 DEF JoinsTo
  <2>3. <<>> \o x = x /\ <<>> \in Seq(S)
    OBVIOUS
  <2>4. FlattenSeq(t) = x
    BY <1>1, <1>2, <1>3, <2>2
  <2> QED
    BY <2>1, <2>3, <2>4
<1>4. CASE Len(s) > 0
  <2>1. PICK f : JoinsTo(f, s, Len(s)) /\ FlattenSeq(s) = f[Len(s)] /\ FlattenSeq(s) \in Seq(S)
    BY <1>4, FlattenIsJoin
  <2>2. JoinsTo(g, s, Len(s))
    <3>1. \A i \in 1..Len(s) : i \in 1..Len(t) /\ s[i] = t[i]
      BY <1>1
    <3> QED
      BY <1>2, <3>1 DEF JoinsTo
  <2>3. \A i \in 1..Len(s) : f[i] = g[i]
    <3>1. Len(s) \in Nat
      OBVIOUS
    <3>2. JoinsTo(f, s, Len(s))
      BY <2>1
    <3> QED
      BY <2>2, <3>1, <3>2, JoinUnique
  <2>4. g[Len(t)] = g[Len(s)] \o x
    <3>1. Len(t) \in 1..Len(t) /\ Len(t) # 1 /\ Len(t) - 1 = Len(s)
      BY <1>1, <1>4
    <3>2. g[Len(t)] = g[Len(t) - 1] \o t[Len(t)]
      BY <1>2, <3>1 DEF JoinsTo
    <3> QED
      BY <1>1, <3>1, <3>2
  <2>5. Len(s) \in 1..Len(s)
    BY <1>1, <1>4
  <2> QED
    BY <1>2, <2>1, <2>3, <2>4, <2>5
<1> QED
  BY <1>1, <1>3, <1>4

(* A sequence cut anywhere is its two parts.                               *)
LEMMA SplitAt ==
  ASSUME NEW S, NEW s \in Seq(S), NEW n \in 0..Len(s)
  PROVE  /\ SubSeq(s, 1, n) \in Seq(S) /\ SubSeq(s, n + 1, Len(s)) \in Seq(S)
         /\ SubSeq(s, 1, n) \o SubSeq(s, n + 1, Len(s)) = s
<1> DEFINE a == SubSeq(s, 1, n)
           b == SubSeq(s, n + 1, Len(s))
           t == a \o b
<1>1. Len(s) \in Nat /\ n \in Nat /\ n <= Len(s)
  OBVIOUS
<1>2. a \in Seq(S) /\ Len(a) = n
  BY <1>1
<1>3. \A i \in 1..n : a[i] = s[i]
  BY <1>1
<1>4. b \in Seq(S) /\ Len(b) = Len(s) - n
  BY <1>1
<1>5. \A i \in 1..(Len(s) - n) : b[i] = s[n + i]
  BY <1>1
<1> HIDE DEF a, b
<1>6. t \in Seq(S) /\ Len(t) = Len(s)
  BY <1>1, <1>2, <1>4
<1>7. \A i \in 1..Len(s) : t[i] = IF i <= n THEN a[i] ELSE b[i - n]
  BY <1>1, <1>2, <1>4
<1> HIDE DEF t
<1>8. ASSUME NEW i \in 1..Len(s)
      PROVE  t[i] = s[i]
  <2>1. CASE i <= n
    BY <1>1, <1>3, <1>7, <2>1
  <2>2. CASE i > n
    <3>1. i - n \in 1..(Len(s) - n) /\ n + (i - n) = i
      BY <1>1, <2>2
    <3> QED
      BY <1>1, <1>5, <1>7, <2>2, <3>1
  <2> QED
    BY <1>1, <2>1, <2>2
<1>9. t = s
  BY <1>6, <1>8
<1> QED
  BY <1>2, <1>4, <1>9 DEF a, b, t

(* Texts can be joined in any order of joining.                            *)
LEMMA CharactersJoin ==
  ASSUME NEW a \in Characters, NEW b \in Characters
  PROVE  /\ a \o b \in Characters
         /\ \A c \in Characters : (a \o b) \o c = a \o (b \o c)
  BY DEF Characters

(* The first line of a text that has one.                                  *)
LEMMA LineSplit ==
  ASSUME NEW S, NEW text \in Seq(S), HasLine(text)
  PROVE  /\ FirstLine(text) \in Seq(S) /\ AfterLine(text) \in Seq(S)
         /\ FirstLine(text) \o AfterLine(text) = text
<1> DEFINE T == {i \in 1..Len(text) : text[i] = "nl"}
<1>1. PICK i \in 1..Len(text) : text[i] = "nl"
  BY DEF HasLine, Range
<1>2. T \in SUBSET Nat /\ T # {}
  BY <1>1
<1>3. \E n \in T : \A m \in T : n <= m
  <2> HIDE DEF T
  <2> QED
    BY <1>2, LeastNumber
<1>4. LineEnd(text) = CHOOSE n \in T : \A m \in T : n <= m
  BY <1>2 DEF LineEnd, SelectInSeq, Min
<1>5. LineEnd(text) \in T
  <2> HIDE DEF T
  <2> QED
    BY <1>3, <1>4, Zenon
<1>6. LineEnd(text) \in 0..Len(text)
  BY <1>5
<1> QED
  BY <1>6, SplitAt DEF FirstLine, AfterLine

(* The lines on their way stay in order, whoever moves them.               *)
(* What the compositor writes are texts.                                   *)
LEMMA LinesInAlphabet == \A line \in OtherLines \cup {OwnLine} : line \in Characters
<1>1. ASSUME NEW S, NEW s \in Seq(S), S \subseteq Alphabet
      PROVE  s \in Characters
  BY <1>1 DEF Characters
<1>2. ASSUME NEW line \in OtherLines
      PROVE  line \in Characters
  <2>1. line \in Seq(Range(line)) /\ Range(line) \subseteq Alphabet
    BY IpcAssumption DEF Alphabet
  <2> QED
    BY <1>1, <2>1, Zenon
<1>3. ASSUME NEW a, NEW b, NEW c, NEW d
      PROVE  <<a, b, c, d>> \in Seq({a, b, c, d}) /\ {a, b, c, d} = Range(<<a, b, c, d>>)
  BY DEF Range
<1>4. OwnLine \in Seq(Range(OwnLine)) /\ Range(OwnLine) \subseteq Alphabet
  BY <1>3, Zenon DEF OwnLine, Alphabet
<1> QED
  BY <1>1, <1>2, <1>4, Zenon

LEMMA LinesStep ==
  ASSUME LinesTyped, EventsInOrder, IpcNext
  PROVE  LinesTyped' /\ EventsInOrder'
<1>1. /\ FlattenSeq(taken) \in Characters /\ FlattenSeq(sent) \in Characters
      /\ buf \in Characters /\ wire \in Characters
  <2>1. /\ sent \in Seq(Characters) /\ taken \in Seq(Characters)
        /\ buf \in Characters /\ wire \in Characters
    BY DEF LinesTyped
  <2>2. <<>> \in Characters
    BY DEF Characters
  <2> QED
    BY <2>1, <2>2, FlattenAppend DEF Characters
<1>2. ASSUME NEW line \in Characters, EmitLine(line), UNCHANGED <<buf, taken>>,
             others' \subseteq others
      PROVE  LinesTyped' /\ EventsInOrder'
  <2>1. CASE subscription = "accepted"
    <3>1. sent' = Append(sent, line) /\ wire' = wire \o line
      BY <1>2, <2>1 DEF EmitLine
    <3>2. FlattenSeq(sent') = FlattenSeq(sent) \o line
      <4>1. sent \in Seq(Characters)
        BY DEF LinesTyped
      <4> QED
        BY <3>1, <4>1, FlattenAppend DEF Characters
    <3> DEFINE taken1 == FlattenSeq(taken)
    <3>3. (taken1 \o buf) \o (wire \o line) = ((taken1 \o buf) \o wire) \o line
      <4>1. taken1 \o buf \in Characters
        BY <1>1, CharactersJoin, Zenon
      <4>2. wire \in Characters /\ line \in Characters
        BY <1>1
      <4> HIDE DEF taken1
      <4> QED
        BY <4>1, <4>2, CharactersJoin, Zenon
    <3>4. EventsInOrder'
      BY <1>2, <3>1, <3>2, <3>3 DEF EventsInOrder
    <3>5. wire \o line \in Characters /\ Append(sent, line) \in Seq(Characters)
      BY <1>1, <1>2, CharactersJoin DEF LinesTyped
    <3>6. LinesTyped'
      BY <1>2, <3>1, <3>5 DEF LinesTyped
    <3> QED
      BY <3>4, <3>6
  <2>2. CASE subscription # "accepted"
    BY <1>2, <2>2 DEF EmitLine, LinesTyped, EventsInOrder
  <2> QED
    BY <2>1, <2>2
<1>3. CASE TakeLine
  <2>1. HasLine(buf) /\ UNCHANGED <<wire, sent, others>>
    BY <1>3 DEF TakeLine, compositorVars
  <2>2. buf' = AfterLine(buf) /\ taken' = Append(taken, FirstLine(buf))
    BY <1>3 DEF TakeLine
  <2>3. /\ FirstLine(buf) \in Characters /\ AfterLine(buf) \in Characters
        /\ FirstLine(buf) \o AfterLine(buf) = buf
    BY <1>1, <2>1, LineSplit DEF Characters
  <2>4. FlattenSeq(taken') = FlattenSeq(taken) \o FirstLine(buf)
    <3>1. taken \in Seq(Characters)
      BY DEF LinesTyped
    <3> QED
      BY <2>2, <2>3, <3>1, FlattenAppend DEF Characters
  <2>5. FlattenSeq(taken') \o buf' = FlattenSeq(taken) \o buf
    <3> DEFINE front == FlattenSeq(taken)
    <3>1. (front \o FirstLine(buf)) \o AfterLine(buf) = front \o (FirstLine(buf) \o AfterLine(buf))
      <4>1. front \in Characters /\ FirstLine(buf) \in Characters /\ AfterLine(buf) \in Characters
        BY <1>1, <2>3
      <4> HIDE DEF front
      <4> QED
        BY <4>1, CharactersJoin, Zenon
    <3> QED
      BY <2>2, <2>3, <2>4, <3>1
  <2>6. EventsInOrder'
    BY <2>1, <2>5 DEF EventsInOrder
  <2>7. LinesTyped'
    BY <2>1, <2>2, <2>3 DEF LinesTyped
  <2> QED
    BY <2>6, <2>7
<1>4. CASE ReadEvents
  <2>1. UNCHANGED <<sent, others, taken>>
    BY <1>4 DEF ReadEvents, compositorVars
  <2>2. CASE UNCHANGED <<wire, buf>>
    BY <2>1, <2>2 DEF LinesTyped, EventsInOrder
  <2>3. ASSUME NEW n \in 0..Len(wire),
               buf' = buf \o SubSeq(wire, 1, n), wire' = SubSeq(wire, n + 1, Len(wire))
        PROVE  LinesTyped' /\ EventsInOrder'
    <3>1. buf' = buf \o SubSeq(wire, 1, n) /\ wire' = SubSeq(wire, n + 1, Len(wire))
      BY <2>3
    <3> DEFINE head == SubSeq(wire, 1, n)
               tail == SubSeq(wire, n + 1, Len(wire))
               front == FlattenSeq(taken)
    <3>2. head \in Characters /\ tail \in Characters /\ head \o tail = wire
      BY <1>1, SplitAt DEF Characters
    <3>3. (front \o (buf \o head)) \o tail = (front \o buf) \o wire
      <4>1. front \in Characters /\ buf \in Characters
        BY <1>1
      <4>2. head \in Characters
        BY <3>2
      <4>3. tail \in Characters
        BY <3>2
      <4> HIDE DEF head, tail, front
      <4>4. front \o buf \in Characters
        BY <4>1, CharactersJoin, Zenon
      <4>5. (front \o buf) \o head = front \o (buf \o head)
        BY <4>1, <4>2, CharactersJoin, Zenon
      <4>6. ((front \o buf) \o head) \o tail = (front \o buf) \o (head \o tail)
        BY <4>2, <4>3, <4>4, CharactersJoin, Zenon
      <4> QED
        BY <3>2, <4>5, <4>6
    <3>4. EventsInOrder'
      BY <2>1, <3>1, <3>3 DEF EventsInOrder
    <3>5. buf \o head \in Characters
      <4> HIDE DEF head
      <4> QED
        BY <1>1, <3>2, CharactersJoin, Zenon
    <3>6. LinesTyped'
      BY <2>1, <3>1, <3>2, <3>5 DEF LinesTyped
    <3> QED
      BY <3>4, <3>6
  <2> QED
    BY <1>4, <2>2, <2>3 DEF ReadEvents
<1>5. CASE ServeCommand
  <2>1. UNCHANGED <<others, buf, taken>>
    BY <1>5 DEF ServeCommand
  <2>2. EmitLine(OwnLine) \/ UNCHANGED <<sent, wire>>
    BY <1>5 DEF ServeCommand
  <2>3. OwnLine \in Characters
    BY LinesInAlphabet
  <2> QED
    BY <1>2, <2>1, <2>2, <2>3 DEF LinesTyped, EventsInOrder
<1>6. CASE SendOther
  <2>1. PICK line \in others : others' = others \ {line} /\ EmitLine(line)
    BY <1>6 DEF SendOther
  <2>2. line \in Characters /\ UNCHANGED <<buf, taken>>
    BY <1>6, LinesInAlphabet DEF SendOther, LinesTyped
  <2> QED
    BY <1>2, <2>1, <2>2
<1>7. CASE UNCHANGED <<streamVars, others, sent>>
  BY <1>7 DEF streamVars, LinesTyped, EventsInOrder
<1> QED
  BY <1>3, <1>4, <1>5, <1>6, <1>7 DEF IpcNext, Connect, EnsureRegistered, CreateHeadless, KeywordMonitor,
     LegacyMonitor, DropGuard, Send, Answered, CommandTimeout, WaitFor, Iterate, AcceptSubscription,
     compositorVars, streamVars

(* Short sequences of connections.                                         *)
LEMMA AppendedToOne ==
  ASSUME NEW S, NEW s \in Seq(S), NEW b \in S, Len(s) = 1
  PROVE  Append(s, b) = <<s[1], b>>
<1> DEFINE t == Append(s, b)
<1>1. /\ t \in Seq(S) /\ Len(t) = Len(s) + 1 /\ t[Len(s) + 1] = b
      /\ \A i \in 1..Len(s) : t[i] = s[i]
  OBVIOUS
<1> HIDE DEF t
<1>2. Len(t) = 2 /\ t[1] = s[1] /\ t[2] = b
  BY <1>1
<1>3. t = <<t[1], t[2]>>
  BY <1>1, <1>2
<1> QED
  BY <1>2, <1>3 DEF t

LEMMA ShortSequences ==
  ASSUME NEW a, NEW b
  PROVE  /\ Append(<<>>, a) = <<a>> /\ Append(<<a>>, b) = <<a, b>>
         /\ Head(<<a>>) = a /\ Tail(<<a>>) = <<>> /\ Head(<<a, b>>) = a /\ Tail(<<a, b>>) = <<b>>
         /\ <<a>> # <<>> /\ <<a, b>> # <<>>
<1> DEFINE s == <<a>>
           S == {a, b}
<1>1. s \in Seq(S) /\ Len(s) = 1 /\ s[1] = a /\ b \in S
  OBVIOUS
<1>2. Append(s, b) = <<a, b>>
  <2> HIDE DEF s, S
  <2>1. Append(s, b) = <<s[1], b>>
    BY <1>1, AppendedToOne, Zenon
  <2> QED
    BY <1>1, <2>1, Zenon
<1>3. /\ Append(<<>>, a) = <<a>> /\ Head(<<a>>) = a /\ Tail(<<a>>) = <<>> /\ Head(<<a, b>>) = a
      /\ Tail(<<a, b>>) = <<b>> /\ <<a>> # <<>> /\ <<a, b>> # <<>>
  OBVIOUS
<1> QED
  BY <1>2, <1>3, Zenon

(* send_command: the caller has no other connection, unless it gave up.    *)
LEMMA SendStep ==
  ASSUME ControlInv, EnsureRegistered \/ CreateHeadless \/ KeywordMonitor \/ LegacyMonitor \/ DropGuard
  PROVE  ControlInv'
<1>1. /\ caller \in {"register", "create", "rule", "legacy", "drop"} /\ answer = "none"
      /\ connections' = Append(connections, Awaited(Command)) /\ answer' = "awaited"
      /\ UNCHANGED <<caller, subscription, ready, exists, guard, unanswered>>
  BY DEF EnsureRegistered, CreateHeadless, KeywordMonitor, LegacyMonitor, DropGuard, Send, compositorVars,
         Awaited, Command
<1>2. Command' = Command
  BY <1>1 DEF Command
<1>3. CASE caller # "drop"
  <2>1. connections = <<>> /\ connections' = <<Awaited(Command)>> /\ connections' # <<>>
    BY <1>1, <1>3, ShortSequences DEF ControlInv, ConnectionsKnown
  <2>2. ControlTyped' /\ ConnectionsKnown'
    BY <1>1, <1>2, <1>3, <2>1 DEF ControlInv, ControlTyped, ConnectionsKnown
  <2>3. StreamRegistered'
    BY <1>1, <1>3, <2>1 DEF ControlInv, StreamRegistered, Registered
  <2>4. OutputKnown'
    BY <1>1, <1>3 DEF ControlInv, OutputKnown
  <2> QED
    BY <2>2, <2>3, <2>4 DEF ControlInv
<1>4. CASE caller = "drop"
  <2>1. Command = "remove"
    BY <1>4 DEF Command
  <2>2. connections \in Backlogs
    BY <1>1, <1>4 DEF ControlInv, ConnectionsKnown
  <2>3. connections' \in Removals(Awaited("remove")) /\ connections' # <<>>
    <3>1. connections' = Append(connections, Awaited("remove"))
      BY <1>1, <2>1
    <3>2. \/ connections' = <<Awaited("remove")>>
          \/ connections' = <<GivenUp("eval"), Awaited("remove")>>
          \/ connections' = <<GivenUp("keyword"), Awaited("remove")>>
      BY <2>2, <3>1, ShortSequences, Zenon DEF Backlogs
    <3>3. connections' # <<>>
      BY <3>2, ShortSequences, Zenon
    <3> QED
      BY <3>2, <3>3, Zenon DEF Removals
  <2>4. ControlTyped' /\ ConnectionsKnown'
    BY <1>1, <1>4, <2>3 DEF ControlInv, ControlTyped, ConnectionsKnown
  <2>5. StreamRegistered'
    BY <1>1, <1>4, <2>3 DEF ControlInv, StreamRegistered, Registered
  <2>6. OutputKnown'
    BY <1>1, <1>4 DEF ControlInv, OutputKnown
  <2> QED
    BY <2>4, <2>5, <2>6 DEF ControlInv
<1> QED
  BY <1>3, <1>4

(* The answer came, so no connection is left.                              *)
LEMMA AnsweredStep ==
  ASSUME ControlInv, Answered
  PROVE  ControlInv'
<1>1. /\ answer \in {"ok", "", "error"} /\ caller' = AfterAnswer /\ answer' = "none"
      /\ connections = <<>>
      /\ UNCHANGED <<connections, subscription, ready, exists, guard, unanswered>>
  BY DEF Answered, compositorVars, ControlInv, ConnectionsKnown
<1>2. caller \in {"register", "create", "rule", "legacy", "drop"}
  BY <1>1 DEF ControlInv, ConnectionsKnown
<1>3. \/ caller = "register" /\ caller' = "create" /\ answer = "ok"
      \/ caller = "register" /\ caller' = "failed"
      \/ caller = "create" /\ caller' = "wait"
      \/ caller = "create" /\ caller' = "failed" /\ answer = "error"
      \/ caller = "rule" /\ caller' \in {"done", "legacy"}
      \/ caller = "legacy" /\ caller' \in {"done", "drop"}
      \/ caller = "drop" /\ caller' = "failed"
  BY <1>1, <1>2 DEF AfterAnswer, SendActionAccepts, Failing, ControlInv, OutputKnown
<1>4. connections' = <<>> /\ connections' \in Backlogs /\ <<>> # <<GivenUp("create")>>
  BY <1>1 DEF Backlogs
<1>5. ControlTyped' /\ ConnectionsKnown'
  BY <1>1, <1>3, <1>4 DEF ControlInv, ControlTyped, ConnectionsKnown, Callers
<1>6. StreamRegistered'
  BY <1>1, <1>3, <1>4 DEF ControlInv, StreamRegistered, Registered
<1>7. OutputKnown'
  BY <1>1, <1>3, <1>4 DEF ControlInv, OutputKnown
<1> QED
  BY <1>5, <1>6, <1>7 DEF ControlInv

(* The command stays with the compositor and is never sent again.          *)
LEMMA TimeoutStep ==
  ASSUME ControlInv, CommandTimeout
  PROVE  ControlInv'
<1>1. /\ answer = "awaited" /\ caller' = Failing /\ answer' = "none" /\ unanswered' = TRUE
      /\ UNCHANGED <<subscription, ready, exists, guard>>
  BY DEF CommandTimeout, AfterTimeout, compositorVars
<1>2. caller \in {"register", "create", "rule", "legacy", "drop"}
  BY <1>1 DEF ControlInv, ConnectionsKnown
<1> DEFINE Unawaited(x) == [x EXCEPT !.awaited = FALSE]
<1>3. \A c \in Commands : Unawaited(Awaited(c)) = GivenUp(c) /\ Unawaited(GivenUp(c)) = GivenUp(c)
  <2>1. \A c, was, is : [[command |-> c, awaited |-> was] EXCEPT !.awaited = is]
                         = [command |-> c, awaited |-> is]
    OBVIOUS
  <2> QED
    BY <2>1, Zenon DEF Awaited, GivenUp
<1>4. connections' = [i \in DOMAIN connections |-> Unawaited(connections[i])]
  BY DEF CommandTimeout
<1> HIDE DEF Unawaited
<1>5. \A c \in Commands : connections = <<Awaited(c)>> => connections' = <<GivenUp(c)>>
  <2>1. \A a : connections = <<a>> => connections' = <<Unawaited(a)>>
    BY <1>4
  <2> QED
    BY <1>3, <2>1, Zenon
<1>6. \A c, d \in Commands :
        connections = <<GivenUp(c), Awaited(d)>> => connections' = <<GivenUp(c), GivenUp(d)>>
  <2>1. \A a, b : connections = <<a, b>> => connections' = <<Unawaited(a), Unawaited(b)>>
    BY <1>4
  <2> QED
    BY <1>3, <2>1, Zenon
<1>7. CASE caller \in {"register", "create"}
  <2>1. /\ connections' = <<GivenUp(Command)>> /\ connections' # <<>>
        /\ Command = IF caller = "register" THEN "monitors" ELSE "create"
    BY <1>1, <1>5, <1>7, ShortSequences DEF ControlInv, ConnectionsKnown, Command, Commands
  <2>2. caller' = "failed" /\ ~guard
    BY <1>1, <1>7 DEF Failing, ControlInv, OutputKnown
  <2>3. ControlTyped' /\ ConnectionsKnown'
    BY <1>1, <1>7, <2>1, <2>2 DEF ControlInv, ControlTyped, ConnectionsKnown, Callers
  <2>4. StreamRegistered'
    BY <1>1, <1>7, <2>1, <2>2, ShortSequences DEF ControlInv, StreamRegistered, Registered, GivenUp
  <2>5. OutputKnown'
    BY <1>1, <2>2 DEF ControlInv, OutputKnown
  <2> QED
    BY <2>3, <2>4, <2>5 DEF ControlInv
<1>8. CASE caller \in {"rule", "legacy"}
  <2>1. connections' \in Backlogs /\ connections' # <<>>
    BY <1>1, <1>5, <1>8, ShortSequences DEF ControlInv, ConnectionsKnown, Command, Commands, Backlogs
  <2>2. caller' = "drop" /\ guard
    BY <1>1, <1>8 DEF Failing, ControlInv, OutputKnown
  <2>3. ControlTyped' /\ ConnectionsKnown'
    BY <1>1, <1>8, <2>1, <2>2 DEF ControlInv, ControlTyped, ConnectionsKnown, Callers
  <2>4. StreamRegistered'
    BY <1>1, <1>8, <2>1, <2>2 DEF ControlInv, StreamRegistered, Registered
  <2>5. OutputKnown'
    BY <1>1, <2>2 DEF ControlInv, OutputKnown
  <2> QED
    BY <2>3, <2>4, <2>5 DEF ControlInv
<1>9. CASE caller = "drop"
  <2>1. /\ connections' \in Removals(GivenUp("remove"))
        /\ connections' # <<>> /\ connections' # <<GivenUp("create")>>
    <3>1. connections \in Removals(Awaited("remove"))
      BY <1>1, <1>9 DEF ControlInv, ConnectionsKnown
    <3>2. connections' \in Removals(GivenUp("remove"))
      BY <1>5, <1>6, <3>1 DEF Removals, Commands
    <3> QED
      BY <3>2, ShortSequences DEF Removals, GivenUp
  <2>2. caller' = "failed" /\ guard
    BY <1>1, <1>9 DEF Failing, ControlInv, OutputKnown
  <2>3. ControlTyped' /\ ConnectionsKnown'
    BY <1>1, <1>9, <2>1, <2>2 DEF ControlInv, ControlTyped, ConnectionsKnown, Callers
  <2>4. StreamRegistered'
    BY <1>1, <1>9, <2>1, <2>2 DEF ControlInv, StreamRegistered, Registered
  <2>5. OutputKnown'
    BY <1>1, <2>1, <2>2 DEF ControlInv, OutputKnown
  <2> QED
    BY <2>3, <2>4, <2>5 DEF ControlInv
<1> QED
  BY <1>2, <1>7, <1>8, <1>9

(* The caller before and while it waits for the event.                     *)
LEMMA StreamStep ==
  ASSUME ControlInv, Connect \/ WaitFor \/ TakeLine \/ ReadEvents
  PROVE  ControlInv'
<1>1. /\ caller \in {"connect", "wait", "scan"} /\ answer = "none" /\ connections = <<>>
      /\ UNCHANGED <<answer, connections, ready, exists>>
  BY DEF Connect, WaitFor, TakeLine, ReadEvents, compositorVars, ControlInv, ConnectionsKnown
<1>2. \/ /\ caller = "connect" /\ caller' = "register" /\ subscription' = "pending"
         /\ UNCHANGED <<guard, unanswered>>
      \/ /\ caller # "connect" /\ UNCHANGED subscription
         /\ \/ caller' \in {"wait", "scan"} /\ UNCHANGED <<guard, unanswered>>
            \/ caller' = "rule" /\ guard' /\ UNCHANGED unanswered
            \/ caller' = "failed" /\ unanswered' /\ UNCHANGED guard
  BY DEF Connect, WaitFor, TakeLine, ReadEvents, compositorVars, ControlInv, ControlTyped, OutputKnown,
         Failing, GuardNew
<1>3. connections' = <<>> /\ connections' \in Backlogs /\ <<>> # <<GivenUp("create")>>
  BY <1>1 DEF Backlogs
<1>4. ControlTyped' /\ ConnectionsKnown'
  BY <1>1, <1>2, <1>3 DEF ControlInv, ControlTyped, ConnectionsKnown, Callers
<1>5. StreamRegistered'
  BY <1>1, <1>2, <1>3 DEF ControlInv, StreamRegistered, Registered
<1>6. OutputKnown'
  BY <1>1, <1>2, <1>3 DEF ControlInv, OutputKnown
<1> QED
  BY <1>4, <1>5, <1>6 DEF ControlInv

(* The compositor looks for sockets that are ready.                        *)
LEMMA CompositorStep ==
  ASSUME ControlInv, Iterate \/ AcceptSubscription
  PROVE  ControlInv'
<1>1. UNCHANGED <<caller, answer, connections, exists, guard, unanswered>>
  BY DEF Iterate, AcceptSubscription
<1>2. ControlTyped'
  BY <1>1 DEF ControlInv, ControlTyped, Iterate, AcceptSubscription
<1>3. ConnectionsKnown'
  BY <1>1 DEF ControlInv, ConnectionsKnown, Command
<1>4. OutputKnown'
  BY <1>1 DEF ControlInv, OutputKnown
<1>5. StreamRegistered'
  <2>1. CASE Iterate
    BY <1>1, <2>1 DEF ControlInv, ControlTyped, StreamRegistered, Registered, Iterate
  <2>2. CASE AcceptSubscription
    BY <1>1, <2>2 DEF ControlInv, ControlTyped, StreamRegistered, Registered, AcceptSubscription
  <2> QED
    BY <2>1, <2>2
<1> QED
  BY <1>2, <1>3, <1>4, <1>5 DEF ControlInv

LEMMA PairSplit ==
  ASSUME NEW a, NEW b, NEW s, s = <<a, b>>
  PROVE  Head(s) = a /\ Tail(s) = <<b>> /\ <<b>> # <<>>
  OBVIOUS

LEMMA OneIsOne ==
  ASSUME NEW a, NEW b, NEW c
  PROVE  (<<a>> = <<b>> => a = b) /\ <<a>> # <<b, c>>
  OBVIOUS

LEMMA GivenUpOnce ==
  ASSUME NEW c \in Commands, NEW d \in Commands, GivenUp(c) = GivenUp(d)
  PROVE  c = d
  BY DEF GivenUp

(* The compositor serves a connection: the caller's, or one given up.      *)
LEMMA ServeStep ==
  ASSUME ControlInv, ServeCommand
  PROVE  ControlInv'
<1>1. /\ "commands" \in ready /\ ready' = ready \ {"commands"} /\ connections' = Tail(connections)
      /\ UNCHANGED <<caller, subscription, guard, unanswered>>
  BY DEF ServeCommand
<1>2. PICK result \in {"ok", "", "error"}, done \in BOOLEAN :
        /\ Head(connections).command = "remove" /\ exists => done
        /\ (result = "ok") => done
        /\ (result = "error") => ~done
        /\ answer' = IF Head(connections).awaited THEN result ELSE answer
        /\ IF Head(connections).command = "create" /\ done
           THEN exists' = TRUE /\ EmitLine(OwnLine)
           ELSE /\ exists' = (exists /\ ~(Head(connections).command = "remove" /\ done))
                /\ UNCHANGED <<sent, wire>>
  BY DEF ServeCommand
<1>3. connections # <<>>
  BY <1>1 DEF ControlInv, StreamRegistered
<1>4. \A c \in Commands : /\ Awaited(c).command = c /\ Awaited(c).awaited = TRUE
                          /\ GivenUp(c).command = c /\ GivenUp(c).awaited = FALSE
  BY DEF Awaited, GivenUp
<1>5. CASE caller \notin {"drop", "failed"}
  <2>1. answer = "awaited" /\ connections = <<Awaited(Command)>>
    BY <1>3, <1>5 DEF ControlInv, ConnectionsKnown
  <2>2. connections' = <<>> /\ Head(connections) = Awaited(Command)
    BY <1>1, <2>1, ShortSequences
  <2>3. caller \in {"register", "create", "rule", "legacy"}
    BY <1>5, <2>1 DEF ControlInv, ConnectionsKnown
  <2>4. /\ Command \in Commands /\ Command # "remove" /\ Command' = Command
        /\ (Command = "create") = (caller = "create")
    BY <1>1, <2>3 DEF Command, Commands
  <2>5. answer' = result /\ exists' = (exists \/ (caller = "create" /\ done))
    <3>1. Head(connections).command = Command /\ Head(connections).awaited = TRUE
      BY <1>4, <2>2, <2>4
    <3>2. answer' = result
      BY <1>2, <3>1
    <3>3. CASE caller = "create" /\ done
      BY <1>2, <2>4, <3>1, <3>2, <3>3
    <3>4. CASE ~(caller = "create" /\ done)
      <4>1. exists' = exists
        BY <1>2, <2>4, <3>1, <3>4 DEF ControlInv, ControlTyped
      <4> QED
        BY <3>2, <3>4, <4>1 DEF ControlInv, ControlTyped
    <3> QED
      BY <3>3, <3>4
  <2>6. ControlTyped' /\ ConnectionsKnown'
    BY <1>1, <1>2, <1>5, <2>2, <2>3, <2>5 DEF ControlInv, ControlTyped, ConnectionsKnown
  <2>7. StreamRegistered'
    BY <1>1, <1>5, <2>2, <2>3, <2>5 DEF ControlInv, StreamRegistered, Registered
  <2>8. OutputKnown'
    <3>1. caller = "register" => exists' = FALSE
      BY <2>3, <2>5 DEF ControlInv, ControlTyped, OutputKnown
    <3>2. caller = "create" /\ answer' \notin {"ok", ""} => exists' = FALSE
      BY <1>2, <2>1, <2>5 DEF ControlInv, ControlTyped, OutputKnown
    <3> QED
      BY <1>1, <1>5, <2>3, <3>1, <3>2 DEF ControlInv, OutputKnown
  <2> QED
    BY <2>6, <2>7, <2>8 DEF ControlInv
<1>6. ASSUME caller \in {"drop", "failed"}, answer = "none" \/ ~Head(connections).awaited,
             NEW c \in Commands \ {"remove"}, Head(connections) = GivenUp(c)
      PROVE  answer' = answer /\ exists' = (exists \/ (c = "create" /\ done))
  <2>1. Head(connections).command = c /\ Head(connections).awaited = FALSE
    BY <1>4, <1>6
  <2>2. answer' = answer
    BY <1>2, <2>1
  <2>3. CASE c = "create" /\ done
    BY <1>2, <2>1, <2>2, <2>3
  <2>4. CASE ~(c = "create" /\ done)
    <3>1. exists' = exists
      BY <1>2, <2>1, <2>4 DEF ControlInv, ControlTyped
    <3> QED
      BY <2>2, <2>4, <3>1 DEF ControlInv, ControlTyped
  <2> QED
    BY <2>3, <2>4
<1>7. CASE caller = "drop" /\ answer = "awaited"
  <2>1. \/ connections = <<Awaited("remove")>>
        \/ \E c \in {"eval", "keyword"} : connections = <<GivenUp(c), Awaited("remove")>>
    BY <1>7 DEF ControlInv, ConnectionsKnown, Removals
  <2>2. CASE connections = <<Awaited("remove")>>
    <3>1. connections' = <<>> /\ Head(connections) = Awaited("remove")
      BY <1>1, <2>2, ShortSequences
    <3>2. answer' = result /\ exists' = FALSE
      BY <1>2, <1>4, <3>1 DEF Commands
    <3>3. ControlTyped' /\ ConnectionsKnown'
      <4>1. result \in {"ok", "", "error"} /\ result # "awaited" /\ result # "none"
        BY <1>2
      <4> QED
        BY <1>1, <1>7, <3>1, <3>2, <4>1 DEF ControlInv, ControlTyped, ConnectionsKnown, Backlogs
    <3>4. StreamRegistered'
      BY <1>1, <1>7, <3>1, <3>2 DEF ControlInv, StreamRegistered, Registered
    <3>5. OutputKnown'
      BY <1>1, <1>7, <3>1, <3>2 DEF ControlInv, OutputKnown
    <3> QED
      BY <3>3, <3>4, <3>5 DEF ControlInv
  <2>3. ASSUME NEW c \in {"eval", "keyword"}, connections = <<GivenUp(c), Awaited("remove")>>
        PROVE  ControlInv'
    <3>1. connections' = <<Awaited("remove")>> /\ Head(connections) = GivenUp(c) /\ connections' # <<>>
      BY <1>1, <2>3, PairSplit
    <3>2. answer' = answer /\ exists' = exists
      BY <1>4, <1>6, <1>7, <3>1 DEF Commands, ControlInv, ControlTyped
    <3>3. ControlTyped' /\ ConnectionsKnown'
      BY <1>1, <1>7, <3>1, <3>2 DEF ControlInv, ControlTyped, ConnectionsKnown, Removals
    <3>4. StreamRegistered'
      BY <1>1, <1>7, <3>1, <3>2 DEF ControlInv, StreamRegistered, Registered
    <3>5. OutputKnown'
      BY <1>1, <1>7, <3>1, <3>2 DEF ControlInv, OutputKnown
    <3> QED
      BY <3>3, <3>4, <3>5 DEF ControlInv
  <2> QED
    BY <2>1, <2>2, <2>3
<1>8. CASE caller = "drop" /\ answer # "awaited"
  <2>1. PICK c \in {"eval", "keyword"} : connections = <<GivenUp(c)>>
    BY <1>3, <1>8 DEF ControlInv, ConnectionsKnown, Backlogs
  <2>2. answer = "none"
    BY <1>3, <1>8 DEF ControlInv, ControlTyped, ConnectionsKnown
  <2>3. connections' = <<>> /\ Head(connections) = GivenUp(c)
    BY <1>1, <2>1, ShortSequences
  <2>4. answer' = "none" /\ exists' = exists
    BY <1>6, <1>8, <2>2, <2>3 DEF Commands, ControlInv, ControlTyped
  <2>5. ControlTyped' /\ ConnectionsKnown'
    BY <1>1, <1>8, <2>3, <2>4 DEF ControlInv, ControlTyped, ConnectionsKnown, Backlogs
  <2>6. StreamRegistered'
    BY <1>1, <1>8, <2>3, <2>4 DEF ControlInv, StreamRegistered, Registered
  <2>7. OutputKnown'
    BY <1>1, <1>8, <2>3, <2>4 DEF ControlInv, OutputKnown
  <2> QED
    BY <2>5, <2>6, <2>7 DEF ControlInv
<1>9. CASE caller = "failed"
  <2>1. answer = "none"
    BY <1>9 DEF ControlInv, ConnectionsKnown
  <2>2. \/ \E c \in Commands \ {"remove"} : connections = <<GivenUp(c)>>
        \/ connections = <<GivenUp("remove")>>
        \/ \E c \in {"eval", "keyword"} : connections = <<GivenUp(c), GivenUp("remove")>>
    BY <1>3, <1>9 DEF ControlInv, ConnectionsKnown, Backlogs, Removals, Commands
  <2>3. ASSUME NEW c \in Commands \ {"remove"}, connections = <<GivenUp(c)>>
        PROVE  ControlInv'
    <3>1. connections' = <<>> /\ Head(connections) = GivenUp(c) /\ <<>> # <<GivenUp("create")>>
      BY <1>1, <2>3, ShortSequences
    <3>2. answer' = "none" /\ exists' = (exists \/ (c = "create" /\ done))
      BY <1>6, <1>9, <2>1, <3>1
    <3>3. (~guard => unanswered) /\ (guard => ~exists /\ c # "create")
      <4>1. ~guard => unanswered
        BY <1>3, <1>9 DEF ControlInv, OutputKnown
      <4>2. c \in {"eval", "keyword"} \/ connections \notin Backlogs
        BY <2>3, OneIsOne, GivenUpOnce, ShortSequences DEF Backlogs, Commands
      <4>3. connections \notin Removals(GivenUp("remove"))
        BY <2>3, OneIsOne, GivenUpOnce DEF Removals, Commands
      <4> QED
        BY <1>9, <4>1, <4>2, <4>3 DEF ControlInv, OutputKnown
    <3>4. ControlTyped' /\ ConnectionsKnown'
      BY <1>1, <1>9, <3>1, <3>2 DEF ControlInv, ControlTyped, ConnectionsKnown, Backlogs
    <3>5. StreamRegistered'
      BY <1>1, <1>9, <3>1, <3>2 DEF ControlInv, StreamRegistered, Registered
    <3>6. OutputKnown'
      BY <1>1, <1>9, <3>1, <3>2, <3>3 DEF ControlInv, OutputKnown, Backlogs
    <3> QED
      BY <3>4, <3>5, <3>6 DEF ControlInv
  <2>4. CASE connections = <<GivenUp("remove")>>
    <3>1. connections' = <<>> /\ Head(connections) = GivenUp("remove") /\ <<>> # <<GivenUp("create")>>
      BY <1>1, <2>4, ShortSequences
    <3>2. answer' = "none" /\ exists' = FALSE
      BY <1>2, <1>4, <2>1, <3>1 DEF Commands
    <3>3. ControlTyped' /\ ConnectionsKnown'
      BY <1>1, <1>9, <3>1, <3>2 DEF ControlInv, ControlTyped, ConnectionsKnown, Backlogs
    <3>4. StreamRegistered'
      BY <1>1, <1>9, <3>1, <3>2 DEF ControlInv, StreamRegistered, Registered
    <3>5. OutputKnown'
      BY <1>1, <1>9, <3>1, <3>2 DEF ControlInv, OutputKnown, Backlogs
    <3> QED
      BY <3>3, <3>4, <3>5 DEF ControlInv
  <2>5. ASSUME NEW c \in {"eval", "keyword"}, connections = <<GivenUp(c), GivenUp("remove")>>
        PROVE  ControlInv'
    <3>1. connections' = <<GivenUp("remove")>> /\ Head(connections) = GivenUp(c) /\ connections' # <<>>
      BY <1>1, <2>5, PairSplit
    <3>2. answer' = "none" /\ exists' = exists
      BY <1>6, <1>9, <2>1, <3>1 DEF Commands, ControlInv, ControlTyped
    <3>3. connections' \in Removals(GivenUp("remove")) /\ connections' # <<GivenUp("create")>>
      BY <3>1 DEF Removals, GivenUp
    <3>4. ~guard => unanswered
      BY <1>3, <1>9 DEF ControlInv, OutputKnown
    <3>5. ControlTyped' /\ ConnectionsKnown'
      BY <1>1, <1>9, <3>2, <3>3 DEF ControlInv, ControlTyped, ConnectionsKnown
    <3>6. StreamRegistered'
      BY <1>1, <1>9, <3>1, <3>2, <3>3 DEF ControlInv, StreamRegistered, Registered
    <3>7. OutputKnown'
      BY <1>1, <1>9, <3>2, <3>3, <3>4 DEF ControlInv, OutputKnown
    <3> QED
      BY <3>5, <3>6, <3>7 DEF ControlInv
  <2> QED
    BY <2>2, <2>3, <2>4, <2>5
<1> QED
  BY <1>5, <1>7, <1>8, <1>9

(* What was announced stays announced.                                     *)
LEMMA SentGrows ==
  ASSUME NEW S, NEW s \in Seq(S), NEW x \in S
  PROVE  \A y \in Range(s) : y \in Range(Append(s, x))
<1>1. ASSUME NEW i \in DOMAIN s
      PROVE  i \in DOMAIN Append(s, x) /\ Append(s, x)[i] = s[i]
  OBVIOUS
<1> QED
  BY <1>1 DEF Range

(* The creation is announced on a stream that is accepted.                 *)
LEMMA CreationStep ==
  ASSUME ControlInv, LinesTyped, CreationHeard, IpcNext
  PROVE  CreationHeard'
<1>1. CASE ServeCommand
  <2>1. "commands" \in ready /\ connections # <<>>
    BY <1>1 DEF ServeCommand, ControlInv, StreamRegistered
  <2>2. \A c \in Commands : Awaited(c).command = c /\ GivenUp(c).command = c
    BY DEF Awaited, GivenUp
  <2>3. Head(connections).command = "create" => subscription = "accepted"
    <3>1. CASE caller = "failed"
      <4>1. \/ connections \in Backlogs \cup Removals(GivenUp("remove"))
            \/ connections = <<GivenUp("monitors")>>
            \/ connections = <<GivenUp("create")>>
        BY <3>1 DEF ControlInv, ConnectionsKnown
      <4>2. CASE connections = <<GivenUp("create")>>
        BY <2>1, <3>1, <4>2 DEF ControlInv, StreamRegistered, Registered
      <4>3. CASE connections = <<GivenUp("monitors")>>
        BY <2>2, <4>3, ShortSequences DEF Commands
      <4>4. CASE connections \in Backlogs \cup Removals(GivenUp("remove"))
        <5>1. Head(connections) \in {GivenUp("eval"), GivenUp("keyword"), GivenUp("remove")}
          <6>1. \/ connections = <<GivenUp("eval")>> \/ connections = <<GivenUp("keyword")>>
                \/ connections = <<GivenUp("remove")>>
                \/ connections = <<GivenUp("eval"), GivenUp("remove")>>
                \/ connections = <<GivenUp("keyword"), GivenUp("remove")>>
            BY <2>1, <4>4 DEF Backlogs, Removals
          <6> QED
            BY <6>1, ShortSequences
        <5> QED
          BY <2>2, <5>1 DEF Commands
      <4> QED
        BY <4>1, <4>2, <4>3, <4>4
    <3>2. CASE caller = "register"
      BY <2>1, <2>2, <3>2, ShortSequences DEF ControlInv, ConnectionsKnown, Commands, Command
    <3>3. CASE caller \notin {"register", "failed"}
      BY <2>1, <3>3 DEF ControlInv, ConnectionsKnown, StreamRegistered, Registered
    <3> QED
      BY <3>1, <3>2, <3>3
  <2>4. CASE exists' /\ ~exists
    <3>1. sent' = Append(sent, OwnLine)
      BY <1>1, <2>3, <2>4 DEF ServeCommand, EmitLine
    <3>2. sent \in Seq(Characters) /\ OwnLine \in Characters
      BY LinesInAlphabet DEF LinesTyped
    <3>3. Len(sent) + 1 \in DOMAIN sent' /\ sent'[Len(sent) + 1] = OwnLine
      BY <3>1, <3>2
    <3> QED
      BY <3>3 DEF CreationHeard, Range
  <2>5. CASE exists /\ OwnLine \in Range(sent)
    <3>1. sent' = sent \/ sent' = Append(sent, OwnLine)
      BY <1>1 DEF ServeCommand, EmitLine
    <3>2. OwnLine \in Range(sent')
      <4>1. sent \in Seq(Characters) /\ OwnLine \in Characters
        BY LinesInAlphabet DEF LinesTyped
      <4>2. OwnLine \in Range(Append(sent, OwnLine))
        BY <2>5, <4>1, SentGrows, Zenon
      <4> QED
        BY <2>5, <3>1, <4>2
    <3> QED
      BY <3>2 DEF CreationHeard
  <2> QED
    BY <2>4, <2>5 DEF CreationHeard, ControlInv, ControlTyped
<1>2. CASE SendOther
  <2>1. UNCHANGED exists /\ \E line \in others : sent' = sent \/ sent' = Append(sent, line)
    BY <1>2 DEF SendOther, EmitLine
  <2>2. others \subseteq Characters
    BY LinesInAlphabet DEF LinesTyped
  <2> QED
    BY <2>1, <2>2, SentGrows DEF LinesTyped, CreationHeard
<1>3. CASE UNCHANGED <<exists, sent>>
  BY <1>3 DEF CreationHeard
<1> QED
  BY <1>1, <1>2, <1>3 DEF IpcNext, Connect, EnsureRegistered, CreateHeadless, KeywordMonitor,
     LegacyMonitor, DropGuard, Send, Answered, CommandTimeout, WaitFor, TakeLine, ReadEvents, Iterate,
     AcceptSubscription, compositorVars

(* A step of nobody the control depends on.                                *)
LEMMA ControlRests ==
  ASSUME ControlInv,
         UNCHANGED <<caller, answer, connections, subscription, ready, exists, guard, unanswered>>
  PROVE  ControlInv'
<1>1. ControlTyped'
  BY DEF ControlInv, ControlTyped
<1>2. ConnectionsKnown'
  <2>1. Command' = Command
    BY DEF Command
  <2> QED
    BY <2>1 DEF ControlInv, ConnectionsKnown
<1>3. StreamRegistered'
  BY DEF ControlInv, StreamRegistered, Registered
<1>4. OutputKnown'
  BY DEF ControlInv, OutputKnown
<1> QED
  BY <1>1, <1>2, <1>3, <1>4 DEF ControlInv

(* Every step keeps the invariant.                                         *)
LEMMA IpcStep == IpcInv /\ [IpcNext]_ipcVars => IpcInv'
<1> SUFFICES ASSUME IpcInv, [IpcNext]_ipcVars
             PROVE  IpcInv'
  OBVIOUS
<1>1. CASE IpcNext
  <2>1. CASE SendOther
    <3>1. UNCHANGED <<caller, answer, connections, subscription, ready, exists, guard, unanswered>>
      BY <2>1 DEF SendOther
    <3>2. ControlInv'
      BY <3>1, ControlRests DEF IpcInv
    <3> QED
      BY <1>1, <3>2, LinesStep, CreationStep DEF IpcInv
  <2>2. CASE ~SendOther
    <3>1. ControlInv'
      BY <1>1, <2>2, SendStep, AnsweredStep, TimeoutStep, StreamStep, CompositorStep, ServeStep
      DEF IpcInv, IpcNext
    <3> QED
      BY <1>1, <3>1, LinesStep, CreationStep DEF IpcInv
  <2> QED
    BY <2>1, <2>2
<1>2. CASE UNCHANGED ipcVars
  <2>1. ControlInv'
    BY <1>2, ControlRests DEF ipcVars, IpcInv
  <2> QED
    BY <1>2, <2>1 DEF ipcVars, IpcInv, LinesTyped, EventsInOrder, CreationHeard
<1> QED
  BY <1>1, <1>2

(* The invariant holds at the start.                                       *)
LEMMA IpcStart == IpcInit => IpcInv
<1> SUFFICES ASSUME IpcInit
             PROVE  IpcInv
  OBVIOUS
<1>1. ControlInv
  BY DEF IpcInit, ControlInv, ControlTyped, ConnectionsKnown, StreamRegistered, OutputKnown, Callers
<1>2. LinesTyped
  BY DEF IpcInit, LinesTyped, Characters
<1>3. EventsInOrder
  <2>1. FlattenSeq(<<>>) = <<>>
    BY DEF FlattenSeq
  <2> QED
    BY <2>1 DEF IpcInit, EventsInOrder
<1> QED
  BY <1>1, <1>2, <1>3 DEF IpcInit, IpcInv, CreationHeard

(* A rule is the caller's only command, or the first of those given up.    *)
LEMMA RulesKnown == ControlInv => RuleNotRepeated
<1> SUFFICES ASSUME ControlInv
             PROVE  RuleNotRepeated
  OBVIOUS
<1> DEFINE rules == {i \in DOMAIN connections : connections[i].command \in {"eval", "keyword"}}
<1>1. rules \subseteq {1}
  <2>1. \A a : DOMAIN <<a>> = {1}
    OBVIOUS
  <2>2. \A a, b : DOMAIN <<a, b>> = {1, 2} /\ <<a, b>>[2] = b
    OBVIOUS
  <2>3. Awaited("remove").command = "remove" /\ GivenUp("remove").command = "remove"
    BY DEF Awaited, GivenUp
  <2>4. \/ connections = <<>>
        \/ \E a : connections = <<a>>
        \/ \E a : connections = <<a, Awaited("remove")>> \/ connections = <<a, GivenUp("remove")>>
    BY DEF ControlInv, ConnectionsKnown, Backlogs, Removals
  <2>5. CASE connections = <<>>
    BY <2>5
  <2>6. ASSUME NEW a, connections = <<a>>
        PROVE  rules \subseteq {1}
    BY <2>1, <2>6
  <2>7. ASSUME NEW a, NEW b, connections = <<a, b>>, b.command = "remove"
        PROVE  rules \subseteq {1}
    <3>1. DOMAIN connections = {1, 2} /\ connections[2] = b
      BY <2>2, <2>7
    <3> QED
      BY <2>7, <3>1
  <2> QED
    BY <2>3, <2>4, <2>5, <2>6, <2>7, Zenon
<1>2. IsFiniteSet({1}) /\ Cardinality({1}) = 1
  BY FS_Singleton
<1>3. Cardinality(rules) \in Nat /\ Cardinality(rules) <= 1
  <2> HIDE DEF rules
  <2>1. IsFiniteSet(rules) /\ Cardinality(rules) <= Cardinality({1})
    BY <1>1, <1>2, FS_Subset
  <2> QED
    BY <1>2, <2>1, FS_CardinalityType
<1> QED
  BY <1>3 DEF RuleNotRepeated

(* An output is created once, announced on the stream that the caller      *)
(* reads, line by line in the order of the compositor, and removed after a *)
(* failure, in whichever order the sockets are served and wherever a read  *)
(* ends (create_headless_output, EventStream).                             *)
THEOREM OutputsCreated == IpcSpec => []CreationSound
<1>1. IpcInv => CreationSound
  <2> SUFFICES ASSUME IpcInv
               PROVE  CreationSound
    OBVIOUS
  <2>1. OutputCleaned
    <3> SUFFICES ASSUME caller = "failed", connections = <<>>, exists
                 PROVE  unanswered /\ ~guard
      BY DEF OutputCleaned
    <3>1. connections \notin Removals(GivenUp("remove"))
      BY ShortSequences DEF Removals
    <3> QED
      BY <3>1 DEF IpcInv, ControlInv, OutputKnown
  <2> QED
    BY <2>1, RulesKnown DEF IpcInv, CreationSound
<1> QED
  BY <1>1, IpcStart, IpcStep, PTL DEF IpcSpec
===============================================================================
