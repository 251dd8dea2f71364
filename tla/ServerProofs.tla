----------------------------- MODULE ServerProofs -----------------------------
(***************************************************************************)
(* TLAPS proofs about Server and the components it extends, for any        *)
(* features, any number of starting processes, validations, sessions and   *)
(* failures.                                                               *)
(***************************************************************************)
EXTENDS Server, FiniteSetTheorems, TLAPS

-----------------------------------------------------------------------------
(* TlsIdentity.                                                            *)

Locked == {"recheck", "writeKey", "writeCert", "renameKey", "renameCert"}
Generating == Locked \ {"recheck"}

StarterRecord ==
  [pc : Locked \cup {"check", "lock", "cert", "key", "up", "down"},
   pair : Nat, cert : Nat, key : Nat]

(* The holder of the lock is the one starter that may write the files, and *)
(* it writes only while there is no certificate; the certificate, renamed  *)
(* last, is made from the key in place; whoever loads the files found both *)
(* in place, where they stay.                                              *)
TlsInv ==
  /\ starter \in [Starters -> StarterRecord]
  /\ keyFile \in Nat /\ certFile \in Nat /\ tmpKey \in Nat /\ tmpCert \in Nat /\ pairs \in Nat
  /\ certFile # 0 => certFile = keyFile
  /\ \A p \in Starters :
       /\ starter[p].pc \in Locked <=> tlsLock = p
       /\ starter[p].pc \in Generating => starter[p].pair # 0 /\ certFile = 0
       /\ starter[p].pc \in {"writeCert", "renameKey"} => tmpKey = starter[p].pair
       /\ starter[p].pc \in {"renameKey", "renameCert"} => tmpCert = starter[p].pair
       /\ starter[p].pc = "renameCert" => keyFile = starter[p].pair
       /\ starter[p].pc \in {"cert", "key", "up"} => certFile # 0
       /\ starter[p].pc \in {"key", "up"} => starter[p].cert = certFile
       /\ starter[p].pc = "up" => starter[p].key = certFile

(* It holds at the start, with a generated identity or the user's own.     *)
LEMMA TlsInvInit == ServerTlsInit => TlsInv
  BY TlsAssumption DEF ServerTlsInit, TlsInit, AtStart, TlsInv, StarterRecord, Locked, Generating

(* Every step of a starter keeps it.                                       *)
LEMMA TlsInvStep == TlsInv /\ TlsNext => TlsInv'
<1> SUFFICES ASSUME TlsInv, NEW p \in Starters, TlsStep(p) \/ TlsFails(p) \/ TlsAgain(p)
             PROVE  TlsInv'
  BY DEF TlsNext
<1> USE TlsAssumption DEF TlsInv, StarterRecord, Locked, Generating, tlsFiles, Step
<1>1. CASE TlsCheck(p)
  BY <1>1 DEF TlsCheck, Present
<1>2. CASE TlsLock(p)
  BY <1>2 DEF TlsLock
<1>3. CASE TlsRecheck(p)
  BY <1>3 DEF TlsRecheck, PresentUnderLock, Present
<1>4. CASE TlsWriteKey(p)
  BY <1>4 DEF TlsWriteKey
<1>5. CASE TlsWriteCert(p)
  BY <1>5 DEF TlsWriteCert
<1>6. CASE TlsRenameKey(p)
  BY <1>6 DEF TlsRenameKey
<1>7. CASE TlsRenameCert(p)
  BY <1>7 DEF TlsRenameCert
<1>8. CASE TlsLoadCert(p)
  BY <1>8, ZenonT(40) DEF TlsLoadCert
<1>9. CASE TlsLoadKey(p)
  BY <1>9, ZenonT(40) DEF TlsLoadKey
<1>10. CASE TlsFails(p)
  BY <1>10 DEF TlsFails, Unlocked, AtStart
<1>11. CASE TlsAgain(p)
  BY <1>11 DEF TlsAgain, AtStart
<1> QED
  BY <1>1, <1>2, <1>3, <1>4, <1>5, <1>6, <1>7, <1>8, <1>9, <1>10, <1>11 DEF TlsStep

-----------------------------------------------------------------------------
(* PamValidator.                                                           *)

Busy == {"spawn", "wait", "kill", "reap"}
Codes == {"none", "signal", "0", "1", "2"}

AttemptPcs == Busy \cup {"idle", "decided"}
Decisions == {"none", "accept", "reject", "error", "dropped"}
Outcomes == {"none", "status", "timeout", "write"}

AttemptRecord == [pc : AttemptPcs, cred : Credentials, decision : Decisions, outcome : Outcomes]

HelperRecord == [leader : BOOLEAN, others : BOOLEAN, code : Codes]

(* The slot is held from before the helper is spawned until after its      *)
(* group was killed; an exit status is the one the helper's own checks     *)
(* lead to; only status 0 let anyone in.                                   *)
PamInv ==
  /\ attempt \in [Attempts -> AttemptRecord]
  /\ helper \in [Attempts -> HelperRecord]
  /\ \A a \in Attempts :
       /\ attempt[a].pc \in Busy <=> slot = a
       /\ helper[a].leader \/ helper[a].others => attempt[a].pc \in {"wait", "kill"}
       /\ helper[a].code \in {"none", "signal", HelperCode(attempt[a].cred)}
       /\ attempt[a].decision = "accept" => HelperCode(attempt[a].cred) = "0"

(* The helper's exit status.                                               *)
LEMMA HelperCodeFacts ==
  ASSUME NEW c \in Credentials
  PROVE  /\ HelperCode(c) \in Codes
         /\ HelperCode(c) = "0" => c.wellFormed /\ c.pam /\ c.user = "own" /\ c.final = "own"
  BY DEF HelperCode, AuthorisedUser, Codes, Credentials, Accounts

(* Records with some new fields are records again.                         *)
LEMMA AttemptsTyped ==
  ASSUME NEW f \in [Attempts -> AttemptRecord], NEW a \in Attempts,
         NEW pc \in AttemptPcs, NEW d \in Decisions, NEW o \in Outcomes
  PROVE  /\ [f EXCEPT ![a].pc = pc, ![a].decision = d] \in [Attempts -> AttemptRecord]
         /\ [f EXCEPT ![a].pc = pc, ![a].outcome = o] \in [Attempts -> AttemptRecord]
  BY DEF AttemptRecord

(* It holds at the start.                                                  *)
LEMMA PamInvInit == PamInit => PamInv
  BY PamAssumption
  DEF PamInit, NewAttempt, NoHelper, PamInv, AttemptRecord, HelperRecord, AttemptPcs,
      Decisions, Outcomes, Busy, Codes

(* What validations, clients and helpers do.                               *)
PamNext ==
  \E a \in Attempts : PamBegin(a) \/ PamDrop(a) \/ PamStep(a) \/ HelperNext(a)

(* Every step of a validation, its client or its helper keeps it.          *)
LEMMA PamInvStep == PamInv /\ PamNext => PamInv'
<1> SUFFICES ASSUME PamInv, NEW a \in Attempts,
                    PamBegin(a) \/ PamDrop(a) \/ PamStep(a) \/ HelperNext(a)
             PROVE  PamInv'
  BY DEF PamNext
<1>0. attempt[a].cred \in Credentials /\ HelperCode(attempt[a].cred) \in Codes
  BY HelperCodeFacts DEF PamInv, AttemptRecord
<1> "decided" \in AttemptPcs /\ "kill" \in AttemptPcs /\ "none" \in Decisions /\ "none" \in Outcomes
  BY DEF AttemptPcs, Busy, Decisions, Outcomes
<1>a. ASSUME NEW d \in Decisions PROVE Decide(a, d) \in [Attempts -> AttemptRecord]
  BY AttemptsTyped DEF PamInv, Decide
<1>b. ASSUME NEW o \in Outcomes
      PROVE  [attempt EXCEPT ![a].pc = "kill", ![a].outcome = o] \in [Attempts -> AttemptRecord]
  BY AttemptsTyped DEF PamInv
<1> USE PamAssumption DEF PamInv, AttemptPcs, Decisions, Outcomes, Busy, Codes
<1>1. CASE PamBegin(a)
  BY <1>1 DEF PamBegin, Decide, AttemptRecord, HelperRecord
<1>2. CASE PamDrop(a)
  <2>1. attempt' \in [Attempts -> AttemptRecord]
    BY <1>2, <1>a DEF PamDrop
  <2>2. helper' \in [Attempts -> HelperRecord]
    BY <1>2 DEF PamDrop, Decide, PermitAfterDrop, GroupKilled, Dead, HelperRecord
  <2>3. \A b \in Attempts : attempt'[b].pc \in Busy <=> slot' = b
    BY <1>2 DEF PamDrop, Decide, PermitAfterDrop, GroupKilled, Dead, AttemptRecord, HelperRecord
  <2>4. \A b \in Attempts : helper'[b].leader \/ helper'[b].others => attempt'[b].pc \in {"wait", "kill"}
    BY <1>2 DEF PamDrop, Decide, PermitAfterDrop, GroupKilled, Dead, AttemptRecord, HelperRecord
  <2>5. \A b \in Attempts : helper'[b].code \in {"none", "signal", HelperCode(attempt[b].cred)}
    BY <1>2 DEF PamDrop, Decide, PermitAfterDrop, GroupKilled, Dead, AttemptRecord, HelperRecord
  <2>6. \A b \in Attempts : attempt'[b].decision = "accept" => HelperCode(attempt[b].cred) = "0"
    BY <1>2 DEF PamDrop, Decide, PermitAfterDrop, GroupKilled, Dead, AttemptRecord, HelperRecord
  <2>7. \A b \in Attempts : attempt'[b].cred = attempt[b].cred
    BY <1>2 DEF PamDrop, Decide, PermitAfterDrop, GroupKilled, Dead, AttemptRecord, HelperRecord
  <2> QED BY <2>1, <2>2, <2>3, <2>4, <2>5, <2>6, <2>7
<1>3. CASE PamSpawn(a, TRUE)
  <2>1. attempt' = [attempt EXCEPT ![a].pc = "wait"] /\ helper' = [helper EXCEPT ![a].leader = TRUE]
    BY <1>3 DEF PamSpawn
  <2>2. attempt' \in [Attempts -> AttemptRecord]
    BY <2>1 DEF AttemptRecord
  <2>3. helper' \in [Attempts -> HelperRecord]
    BY <2>1 DEF HelperRecord
  <2> QED
    BY <1>3, <2>1, <2>2, <2>3 DEF PamSpawn, AttemptRecord, HelperRecord
<1>9. CASE PamSpawn(a, FALSE)
  <2>1. attempt' \in [Attempts -> AttemptRecord]
    BY <1>9, <1>a DEF PamSpawn
  <2> QED
    BY <1>9, <2>1 DEF PamSpawn, Decide, AttemptRecord, HelperRecord
<1>4. CASE \E o \in {"status", "timeout", "write"} : PamOutcome(a, o)
  <2>0. PICK o \in Outcomes : attempt' = [attempt EXCEPT ![a].pc = "kill", ![a].outcome = o]
    BY <1>4 DEF PamOutcome
  <2>1. attempt' \in [Attempts -> AttemptRecord]
    BY <2>0, <1>b
  <2>2. helper' \in [Attempts -> HelperRecord]
    BY <1>4 DEF PamOutcome, HelperRecord
  <2>3. \A b \in Attempts : attempt'[b].pc \in Busy <=> slot' = b
    BY <1>4 DEF PamOutcome, AttemptRecord, HelperRecord
  <2>4. \A b \in Attempts : helper'[b].leader \/ helper'[b].others => attempt'[b].pc \in {"wait", "kill"}
    BY <1>4 DEF PamOutcome, AttemptRecord, HelperRecord
  <2>5. \A b \in Attempts : helper'[b].code \in {"none", "signal", HelperCode(attempt[b].cred)}
    BY <1>4 DEF PamOutcome, AttemptRecord, HelperRecord
  <2>6. \A b \in Attempts : attempt'[b].decision = "accept" => HelperCode(attempt[b].cred) = "0"
    BY <1>4 DEF PamOutcome, AttemptRecord, HelperRecord
  <2>7. \A b \in Attempts : attempt'[b].cred = attempt[b].cred
    BY <1>4 DEF PamOutcome, AttemptRecord, HelperRecord
  <2> QED BY <2>1, <2>2, <2>3, <2>4, <2>5, <2>6, <2>7
<1>5. CASE PamKill(a)
  BY <1>5 DEF PamKill, GroupKilled, Dead, AttemptRecord, HelperRecord
<1>6. CASE PamReap(a)
  <2>1. attempt' \in [Attempts -> AttemptRecord]
    BY <1>6, <1>a DEF PamReap, Verdict
  <2>2. helper' \in [Attempts -> HelperRecord]
    BY <1>6 DEF PamReap, Decide, Verdict, HelperRecord
  <2>3. \A b \in Attempts : attempt'[b].pc \in Busy <=> slot' = b
    BY <1>6 DEF PamReap, Decide, Verdict, AttemptRecord, HelperRecord
  <2>4. \A b \in Attempts : helper'[b].leader \/ helper'[b].others => attempt'[b].pc \in {"wait", "kill"}
    BY <1>6 DEF PamReap, Decide, Verdict, AttemptRecord, HelperRecord
  <2>5. \A b \in Attempts : helper'[b].code \in {"none", "signal", HelperCode(attempt[b].cred)}
    BY <1>6 DEF PamReap, Decide, Verdict, AttemptRecord, HelperRecord
  <2>6. \A b \in Attempts : attempt'[b].decision = "accept" => HelperCode(attempt[b].cred) = "0"
    BY <1>6 DEF PamReap, Decide, Verdict, AttemptRecord, HelperRecord
  <2>7. \A b \in Attempts : attempt'[b].cred = attempt[b].cred
    BY <1>6 DEF PamReap, Decide, Verdict, AttemptRecord, HelperRecord
  <2> QED BY <2>1, <2>2, <2>3, <2>4, <2>5, <2>6, <2>7
<1>7. CASE HelperForks(a)
  BY <1>7, ZenonT(40) DEF HelperForks, AttemptRecord, HelperRecord
<1>8. CASE HelperExits(a, HelperCode(attempt[a].cred)) \/ HelperExits(a, "signal")
  <2>1. attempt' \in [Attempts -> AttemptRecord]
    BY <1>8, <1>0 DEF HelperExits
  <2>0. PICK c \in Codes : helper' = [helper EXCEPT ![a].leader = FALSE, ![a].code = c]
    BY <1>8, <1>0 DEF HelperExits
  <2>2. helper' \in [Attempts -> HelperRecord]
    BY ONLY <2>0, PamInv, a \in Attempts, ZenonT(40) DEF PamInv, HelperRecord, Codes
  <2>3. \A b \in Attempts : attempt'[b].pc \in Busy <=> slot' = b
    BY <1>8, <1>0 DEF HelperExits, AttemptRecord, HelperRecord
  <2>4. \A b \in Attempts : helper'[b].leader \/ helper'[b].others => attempt'[b].pc \in {"wait", "kill"}
    BY <1>8, <1>0 DEF HelperExits, AttemptRecord, HelperRecord
  <2>5. \A b \in Attempts : helper'[b].code \in {"none", "signal", HelperCode(attempt[b].cred)}
    BY <1>8, <1>0 DEF HelperExits, AttemptRecord, HelperRecord
  <2>6. \A b \in Attempts : attempt'[b].decision = "accept" => HelperCode(attempt[b].cred) = "0"
    BY <1>8, <1>0 DEF HelperExits, AttemptRecord, HelperRecord
  <2>7. \A b \in Attempts : attempt'[b].cred = attempt[b].cred
    BY <1>8, <1>0 DEF HelperExits, AttemptRecord, HelperRecord
  <2> QED BY <2>1, <2>2, <2>3, <2>4, <2>5, <2>6, <2>7
<1> QED
  BY <1>1, <1>2, <1>3, <1>4, <1>5, <1>6, <1>7, <1>8, <1>9
  DEF PamStep, PamTimely, HelperNext

-----------------------------------------------------------------------------
(* SessionHooks.                                                           *)

HookNames == {"start", "end"}
RunnerRecord == [pc : {"recv", "finish", "last", "reap", "ended"}, job : HookNames \cup {"none"}]
RunningRecord == [id : Nat, hook : HookNames \cup {"none"}, age : 0..HookDeadline]

(* Types, and what goes with a control point of the thread: it ends with   *)
(* the queue empty and closed, and no session is up then.                  *)
HookTyped ==
  /\ hookConfig \subseteq HookNames
  /\ hookActive \in BOOLEAN /\ jobsOpen \in BOOLEAN /\ hooksClosing \in BOOLEAN
  /\ jobs \in Seq(HookNames) /\ launched \in Seq(HookNames)
  /\ runner \in RunnerRecord /\ running \in RunningRecord
  /\ drain \in 0..NoDrain /\ stopTicks \in Nat
  /\ runner.pc = "finish" => runner.job \in HookNames
  /\ runner.pc \in {"last", "reap", "ended"} => jobs = <<>> /\ ~jobsOpen
  /\ hookConfig = {} => runner.pc = "ended"
  /\ ~jobsOpen => ~hookActive

(* A command that is alive was launched; it is past its deadline, or the   *)
(* one that is waited for.                                                 *)
HookOrder ==
  /\ hookAlive \subseteq 1..Len(launched)
  /\ hookAlive \ stragglers \subseteq {running.id}
  /\ running.hook = "none" => running = NoHook

Odd(n) == n % 2 = 1
Expected(n) == IF Odd(n) THEN "start" ELSE "end"

(* Commands that were launched or taken from the queue.                    *)
Taken == IF runner.pc = "finish" THEN Len(launched) + 1 ELSE Len(launched)

(* With both commands configured, what was launched, what was taken and    *)
(* what is queued alternate, and a session is up after an odd number.      *)
HookBalance ==
  hookConfig = HookNames =>
    /\ \A i \in 1..Len(launched) : launched[i] = Expected(i)
    /\ runner.pc = "finish" => runner.job = Expected(Len(launched) + 1)
    /\ \A k \in 1..Len(jobs) : jobs[k] = Expected(Taken + k)
    /\ hookActive <=> Odd(Taken + Len(jobs))

(* The ticks since shutdown began: first those of the command that was     *)
(* waited for when it did, then those spent of the shared budget, or, when *)
(* no job was left to start it, those of the last end command.             *)
HookStopping ==
  /\ ~hooksClosing => stopTicks = 0 /\ drain = NoDrain
  /\ stopTicks <= 2 * HookDeadline
  /\ drain = NoDrain /\ runner.pc = "finish" => stopTicks <= running.age
  /\ drain = NoDrain /\ runner.pc = "recv" => stopTicks <= HookDeadline
  /\ drain = NoDrain /\ runner.pc = "last" => stopTicks <= HookDeadline + running.age
  /\ drain # NoDrain => stopTicks <= 2 * HookDeadline - drain

HookInv == HookTyped /\ HookOrder /\ HookBalance /\ HookStopping

(* Commands alternate.                                                     *)
LEMMA OddFacts == ASSUME NEW n \in Nat PROVE Odd(n + 1) <=> ~Odd(n)
  BY DEF Odd

(* A queue with one more command.                                          *)
LEMMA AppendFacts ==
  ASSUME NEW q \in Seq(HookNames), NEW h \in HookNames
  PROVE  /\ Append(q, h) \in Seq(HookNames) /\ Len(Append(q, h)) = Len(q) + 1 /\ Len(q) \in Nat
         /\ \A k \in 1..(Len(q) + 1) : Append(q, h)[k] = IF k = Len(q) + 1 THEN h ELSE q[k]
  OBVIOUS

(* It holds at the start.                                                  *)
LEMMA HookInvInit == HookInit => HookInv
<1> SUFFICES ASSUME HookInit PROVE HookInv
  OBVIOUS
<1> USE HookAssumption DEF HookInit, HookNames, AtRecv, NoHook, NoDrain
<1>1. HookTyped
  <2>1. jobs \in Seq(HookNames) /\ launched \in Seq(HookNames)
    OBVIOUS
  <2>2. runner \in RunnerRecord
    BY DEF RunnerRecord
  <2>3. running \in RunningRecord
    BY DEF RunningRecord
  <2>4. hookConfig \subseteq HookNames /\ jobsOpen \in BOOLEAN /\ drain \in 0..NoDrain
    OBVIOUS
  <2>5. /\ runner.pc = "finish" => runner.job \in HookNames
        /\ runner.pc \in {"last", "reap", "ended"} => jobs = <<>> /\ ~jobsOpen
        /\ hookConfig = {} => runner.pc = "ended"
    OBVIOUS
  <2> QED BY <2>1, <2>2, <2>3, <2>4, <2>5 DEF HookTyped
<1>2. HookOrder
  BY DEF HookOrder
<1>3. HookBalance
  BY DEF HookBalance, Taken, Odd
<1>4. HookStopping
  BY DEF HookStopping
<1> QED BY <1>1, <1>2, <1>3, <1>4 DEF HookInv

(* A session begins only while the queue is open, and is not counted when  *)
(* no command is configured.                                               *)
HookHandler ==
  \/ HookSessionStarted /\ (jobsOpen \/ hookConfig = {})
  \/ HookSessionEnded \/ HooksFlag \/ HooksClose

(* What the connection handler and the shutdown do keeps it.               *)
LEMMA HookHandlerStep == HookInv /\ HookHandler => HookInv'
<1> SUFFICES ASSUME HookInv, HookHandler PROVE HookInv'
  OBVIOUS
<1> USE HookAssumption DEF HookInv
<1>0. /\ runner' = runner /\ running' = running /\ launched' = launched /\ drain' = drain
      /\ stopTicks' = stopTicks /\ hookConfig' = hookConfig /\ stragglers' = stragglers
      /\ hookAlive' = hookAlive
  BY DEF HookHandler, HookSessionStarted, HookSessionEnded, HooksFlag, HooksClose
<1>1. HookTyped'
  <2>1. "start" \in HookNames /\ "end" \in HookNames
    BY DEF HookNames
  <2>2. CASE HookSessionStarted /\ (jobsOpen \/ hookConfig = {})
    <3>1. CASE hookActive \/ hookConfig = {}
      BY <1>0, <2>2, <3>1 DEF HookTyped, HookSessionStarted, NoDrain
    <3>2. CASE ~(hookActive \/ hookConfig = {})
      <4>1. jobs' \in Seq(HookNames) /\ hookActive' = TRUE /\ jobsOpen' = jobsOpen /\ jobsOpen
            /\ hooksClosing' = hooksClosing
        <5>1. Append(jobs, "start") \in Seq(HookNames)
          BY <2>1, AppendFacts DEF HookTyped
        <5> QED BY <5>1, <2>2, <3>2 DEF HookSessionStarted
      <4> QED BY <1>0, <3>2, <4>1 DEF HookTyped, NoDrain
    <3> QED BY <3>1, <3>2
  <2>3. CASE HookSessionEnded
    <3>1. CASE ~hookActive
      BY <1>0, <2>3, <3>1 DEF HookTyped, HookSessionEnded, NoDrain
    <3>2. CASE hookActive
      <4>1. jobs' \in Seq(HookNames) /\ hookActive' = FALSE /\ jobsOpen' = jobsOpen /\ jobsOpen
            /\ hooksClosing' = hooksClosing
        BY <2>1, <2>3, <3>2, AppendFacts DEF HookTyped, HookSessionEnded
      <4> QED BY <1>0, <3>2, <4>1 DEF HookTyped, NoDrain
    <3> QED BY <3>1, <3>2
  <2>4. CASE HooksFlag
    BY <1>0, <2>4 DEF HookTyped, HooksFlag, NoDrain
  <2>5. CASE HooksClose
    BY <1>0, <2>1, <2>5, AppendFacts DEF HookTyped, HooksClose, JobsAtClose, NoDrain
  <2> QED BY <2>2, <2>3, <2>4, <2>5 DEF HookHandler
<1>2. HookOrder'
  BY <1>0 DEF HookOrder, NoHook
<1>3. HookBalance'
  <2>1. Taken \in Nat /\ Taken' = Taken
    BY <1>0 DEF Taken, HookTyped
  <2>2. CASE jobs' = jobs /\ hookActive' = hookActive
    BY <1>0, <2>1, <2>2 DEF HookBalance
  <2>3. CASE ~hookActive /\ hookActive' /\ jobs' = Append(jobs, "start")
    <3>1. /\ Len(jobs) \in Nat /\ Len(jobs') = Len(jobs) + 1
          /\ \A k \in 1..Len(jobs') : jobs'[k] = IF k = Len(jobs) + 1 THEN "start" ELSE jobs[k]
      BY <2>3, AppendFacts DEF HookTyped, HookNames
    <3>2. Odd(Taken + (Len(jobs) + 1)) <=> ~Odd(Taken + Len(jobs))
      BY <2>1, <3>1 DEF Odd
    <3> QED
      BY <1>0, <2>1, <2>3, <3>1, <3>2 DEF HookBalance, Expected
  <2>4. CASE hookActive /\ ~hookActive' /\ jobs' = Append(jobs, "end")
    <3>1. /\ Len(jobs) \in Nat /\ Len(jobs') = Len(jobs) + 1
          /\ \A k \in 1..Len(jobs') : jobs'[k] = IF k = Len(jobs) + 1 THEN "end" ELSE jobs[k]
      BY <2>4, AppendFacts DEF HookTyped, HookNames
    <3>2. Odd(Taken + (Len(jobs) + 1)) <=> ~Odd(Taken + Len(jobs))
      BY <2>1, <3>1 DEF Odd
    <3> QED
      BY <1>0, <2>1, <2>4, <3>1, <3>2 DEF HookBalance, Expected
  <2> QED
    BY <2>2, <2>3, <2>4 DEF HookHandler, HookSessionStarted, HookSessionEnded, HooksFlag,
           HooksClose, JobsAtClose, HookTyped
<1>4. HookStopping'
  BY <1>0 DEF HookStopping, HookHandler, HookSessionStarted, HookSessionEnded, HooksFlag, HooksClose,
           NoDrain, HookTyped, RunningRecord
<1> QED BY <1>1, <1>2, <1>3, <1>4

(* So do the thread that runs the commands, the commands and time.         *)
LEMMA HookThreadStep == HookInv /\ (HookThread \/ HookWorld) => HookInv'
<1> SUFFICES ASSUME HookInv, HookThread \/ HookWorld PROVE HookInv'
  OBVIOUS
<1> USE HookAssumption DEF HookInv
<1>1. CASE HookTake
  <2> USE <1>1 DEF HookTake, AtRecv
  <2>1. /\ Head(jobs) \in HookNames /\ Head(jobs) = jobs[1] /\ jobs' \in Seq(HookNames)
        /\ Len(jobs) \in Nat \ {0} /\ Len(jobs') = Len(jobs) - 1
        /\ \A k \in 1..Len(jobs') : jobs'[k] = jobs[k + 1]
    BY DEF HookTyped
  <2>2. HookTyped'
    <3>1. runner' \in RunnerRecord
      BY <2>1 DEF RunnerRecord
    <3>2. drain' \in 0..NoDrain
      BY DEF HookTyped, NoDrain
    <3> QED BY <2>1, <3>1, <3>2 DEF HookTyped, NoDrain
  <2>3. HookOrder'
    BY DEF HookOrder, Reaped, NoHook
  <2>4. HookBalance'
    <3> SUFFICES ASSUME hookConfig = HookNames PROVE HookBalance'
      BY DEF HookBalance
    <3>1. runner' = [pc |-> "finish", job |-> jobs[1]]
      BY <2>1
    <3>2. Len(launched) \in Nat /\ Taken = Len(launched) /\ Taken' = Len(launched) + 1
      BY <3>1 DEF Taken, HookTyped
    <3>3. Taken' + Len(jobs') = Taken + Len(jobs)
      BY <2>1, <3>2
    <3>4. ASSUME NEW k \in 1..Len(jobs') PROVE jobs'[k] = Expected(Taken' + k)
      <4>1. k + 1 \in 1..Len(jobs) /\ Taken + (k + 1) = Taken' + k
        <5>1. Len(jobs) \in Nat /\ Len(jobs') = Len(jobs) - 1
          BY <2>1
        <5> QED BY ONLY <5>1, <3>2, k \in 1..Len(jobs')
      <4> QED BY <2>1, <4>1 DEF HookBalance
    <3>5. jobs[1] = Expected(Len(launched) + 1)
      BY <2>1, <3>2 DEF HookBalance
    <3> QED BY <3>1, <3>3, <3>4, <3>5 DEF HookBalance
  <2>5. HookStopping'
    BY DEF HookStopping, HookTyped, RunnerRecord, RunningRecord, NoDrain
  <2> QED BY <2>2, <2>3, <2>4, <2>5
<1>2. CASE \E spawned \in BOOLEAN : HookSpawn(spawned)
  <2> PICK spawned \in BOOLEAN : HookSpawn(spawned)
    BY <1>2
  <2>1. /\ runner.pc = "finish" /\ runner.job \in HookNames /\ launched' = Append(launched, runner.job)
        /\ runner' = AtRecv
        /\ launched' \in Seq(HookNames) /\ Len(launched) \in Nat /\ Len(launched') = Len(launched) + 1
        /\ \A k \in 1..Len(launched') :
              launched'[k] = IF k = Len(launched) + 1 THEN runner.job ELSE launched[k]
    BY AppendFacts DEF HookSpawn, HookTyped
  <2>2. HookTyped'
    <3>1. running' \in RunningRecord
      BY <2>1 DEF HookSpawn, RunningRecord, NoHook
    <3>2. runner' \in RunnerRecord /\ runner'.pc = "recv"
      BY <2>1 DEF AtRecv, RunnerRecord
    <3> QED BY <2>1, <3>1, <3>2 DEF HookTyped, HookSpawn, NoDrain
  <2>3. HookOrder'
    <3>1. hookAlive \ stragglers' = {}
      BY DEF HookOrder, HookSpawn, Finished, Exited, Left, NoHook
    <3>2. /\ hookAlive' = IF spawned THEN hookAlive \cup {Len(launched) + 1} ELSE hookAlive
          /\ running' = IF spawned THEN [id |-> Len(launched) + 1, hook |-> runner.job, age |-> 0]
                        ELSE NoHook
      BY DEF HookSpawn
    <3>3. hookAlive' \subseteq 1..Len(launched')
      <4>1. Len(launched) \in Nat /\ Len(launched') = Len(launched) + 1
        BY <2>1
      <4>2. hookAlive \subseteq 1..Len(launched)
        BY DEF HookOrder
      <4>3. 1..Len(launched) \subseteq 1..Len(launched') /\ Len(launched) + 1 \in 1..Len(launched')
        BY ONLY <4>1
      <4> QED BY ONLY <3>2, <4>2, <4>3
    <3>4. hookAlive' \ stragglers' \subseteq {running'.id}
      BY <3>1, <3>2
    <3>5. running'.hook = "none" => running' = NoHook
      BY <2>1, <3>2 DEF HookNames
    <3> QED BY <3>3, <3>4, <3>5 DEF HookOrder, NoHook
  <2>4. HookBalance'
    BY <2>1 DEF HookBalance, HookSpawn, Taken, AtRecv
  <2>5. HookStopping'
    BY <2>1 DEF HookStopping, HookSpawn, HookTyped, RunningRecord, NoDrain, AtRecv
  <2> QED BY <2>2, <2>3, <2>4, <2>5
<1>3. CASE HookClosed
  <2> USE <1>3 DEF HookClosed, AtRecv
  <2>1. HookTyped'
    <3>1. runner' \in RunnerRecord
      BY DEF RunnerRecord
    <3>2. running' \in RunningRecord
      BY DEF HookTyped, RunningRecord, NoHook
    <3> QED BY <3>1, <3>2 DEF HookTyped, NoDrain
  <2>2. HookOrder'
    BY DEF HookOrder, HookTyped, RunningRecord, NoHook, HookNames
  <2>3. HookBalance'
    BY DEF HookBalance, Taken
  <2>4. HookStopping'
    BY DEF HookStopping, HookTyped, RunningRecord, NoDrain
  <2> QED BY <2>1, <2>2, <2>3, <2>4
<1>4. CASE HookLast \/ HookReap
  <2> USE <1>4 DEF HookLast, HookReap, AtRecv
  <2>1. HookTyped'
    <3>1. runner' \in RunnerRecord
      BY DEF RunnerRecord
    <3>2. running' \in RunningRecord
      BY DEF HookTyped, RunningRecord, NoHook
    <3> QED BY <3>1, <3>2 DEF HookTyped, NoDrain
  <2>2. HookOrder'
    BY DEF HookOrder, Finished, Exited, Left, Reaped, NoHook
  <2>3. HookBalance'
    BY DEF HookBalance, Taken
  <2>4. HookStopping'
    BY DEF HookStopping, HookTyped, RunningRecord, NoDrain
  <2> QED BY <2>1, <2>2, <2>3, <2>4
<1>5. CASE HookTick
  <2> USE <1>5 DEF HookTick
  <2>1. HookTyped' /\ running'.id = running.id /\ running'.hook = running.hook
    <3>1. running' \in RunningRecord /\ running'.id = running.id /\ running'.hook = running.hook
      <4>1. CASE running = NoHook
        BY <4>1 DEF RunningRecord, NoHook
      <4>2. CASE running # NoHook
        <5>1. PICK age \in 0..HookDeadline : running' = [running EXCEPT !.age = age]
          <6>1. running' = [running EXCEPT !.age = Least(running.age + 1, HookDeadline)]
            BY <4>2
          <6>2. Least(running.age + 1, HookDeadline) \in 0..HookDeadline
            BY DEF HookTyped, RunningRecord, Least
          <6> QED BY <6>1, <6>2
        <5> QED BY ONLY <5>1, HookTyped DEF HookTyped, RunningRecord
      <4> QED BY <4>1, <4>2
    <3>2. drain' \in 0..NoDrain /\ stopTicks' \in Nat
      BY DEF HookTyped, NoDrain, Least, StopCap
    <3> QED BY <3>1, <3>2 DEF HookTyped, NoDrain
  <2>2. HookOrder'
    BY <2>1 DEF HookOrder, NoHook
  <2>3. HookBalance'
    BY DEF HookBalance, Taken
  <2>4. HookStopping'
    <3>1. CASE ~hooksClosing
      BY <2>1, <3>1 DEF HookStopping, HookTyped, RunningRecord, NoDrain
    <3>2. CASE hooksClosing
      <4>1. /\ running # NoHook /\ running.age < HookDeadline /\ drain # 0
            /\ runner.pc \in {"finish", "last"}
        BY <3>2 DEF Blocked, Finished, Overdue, HookTyped, RunningRecord
      <4>2. running'.age = running.age + 1
        BY <4>1 DEF HookTyped, RunningRecord, Least
      <4>3. stopTicks' <= stopTicks + 1
        BY <3>2 DEF HookTyped, Least, StopCap
      <4>4. drain' = IF drain = NoDrain THEN NoDrain ELSE drain - 1
        BY <4>1
      <4>5. running.age \in 0..HookDeadline /\ drain \in 0..NoDrain /\ {stopTicks, stopTicks'} \subseteq Nat
        BY <2>1 DEF HookTyped, RunningRecord
      <4>6. runner' = runner /\ hooksClosing'
        BY <3>2
      <4>7. stopTicks <= 2 * HookDeadline - 1
        BY <4>1, <4>5 DEF HookStopping, NoDrain
      <4> QED
        BY <3>2, <4>1, <4>2, <4>3, <4>4, <4>5, <4>6, <4>7 DEF HookStopping, NoDrain
    <3> QED BY <3>1, <3>2
  <2> QED BY <2>1, <2>2, <2>3, <2>4
<1>6. CASE \E id \in 1..MaxHooks : HookExits(id)
  BY <1>6 DEF HookExits, HookTyped, HookOrder, HookBalance, HookStopping, Taken, NoDrain, NoHook
<1> QED
  BY <1>1, <1>2, <1>3, <1>4, <1>5, <1>6 DEF HookThread, HookWorld

-----------------------------------------------------------------------------
(* Audio: types.                                                           *)

AnySink == Hardware \cup OtherSinks \cup ((1..MaxAudioPid) \X (0..MaxSounds))

SomeSink == AnySink \cup {NoSink}
Restoring == {"rDefault", "rSet", "rFind", "rInputs", "rMove", "unload"}

(* The sound server always has the hardware, and its default and its       *)
(* streams are on sinks it has.                                            *)
PulseTyped ==
  /\ pulse = [sinks |-> pulse.sinks, default |-> pulse.default, route |-> pulse.route]
  /\ Hardware \cup OtherSinks \subseteq pulse.sinks /\ pulse.sinks \subseteq AnySink
  /\ pulse.default \in pulse.sinks
  /\ pulse.route \in [Inputs -> pulse.sinks \cup {Silent, Gone}]

WantTyped ==
  want \in [default : AnySink, route : [Inputs -> AnySink \cup {Silent, Gone, Follow}]]

SoundTyped ==
  /\ sound = [pc |-> sound.pc, n |-> sound.n, prev |-> sound.prev, cur |-> sound.cur,
              moved |-> sound.moved, todo |-> sound.todo, guard |-> sound.guard,
              handle |-> sound.handle, ending |-> sound.ending, spent |-> sound.spent]
  /\ sound.n \in 0..MaxSounds /\ sound.prev \in SomeSink /\ sound.cur \in SomeSink
  /\ sound.guard \in BOOLEAN
  /\ audioPid \in 1..MaxAudioPid
  /\ clean \in BOOLEAN
  /\ sound.pc # "idle" => sound.n # 0
  /\ sound.pc \in {"idle", "list", "orphans", "load", "spawn", "failed"} => ~sound.guard
  /\ sound.pc \in {"setDefault", "find", "inputs", "move"} \cup Restoring => sound.guard

(* No process has a sink that it did not come to load yet; every remote    *)
(* sink but the guarded one is accounted for; what is unloaded as an       *)
(* orphan is a sink of this process or of an earlier one.                  *)
SinksKnown ==
  /\ \A s \in pulse.sinks : s[1] \in 1..MaxAudioPid =>
       /\ s[1] <= audioPid
       /\ s[1] = audioPid => s[2] <= sound.n
       /\ s = Mine => sound.pc \notin {"list", "orphans", "load"}
       /\ s \in blamed \/ (s = Mine /\ sound.guard)
  /\ sound.pc = "orphans" => \A s \in sound.todo : s \in AnySink /\ s[1] \in 1..audioPid

(* Only the thread of the current handler records, and only while the      *)
(* handler waits for it to start or holds it.                              *)
ThreadsKnown ==
  /\ threads = [n \in 1..MaxSounds |-> threads[n]]
  /\ \A n \in 1..MaxSounds :
       /\ threads[n] = [reported |-> threads[n].reported, st |-> threads[n].st, stop |-> threads[n].stop]
       /\ n > sound.n => threads[n] = NoThread
       /\ threads[n].st \in {"starting", "capturing"} /\ (n # sound.n \/ sound.pc \notin {"startup", "on"})
            => threads[n].stop
  /\ sound.pc = "on" => sound.handle

-----------------------------------------------------------------------------
(* Audio: routes, while nothing failed and the user kept still.            *)

DefaultKept == Remote(want.default) \/ pulse.default = want.default

(* The user never chose the remote sink of the current handler.            *)
Elsewhere == \A i \in Inputs : want.route[i] # Mine

(* Without a guard the desktop is as the user wants it.                    *)
Untouched ==
  /\ Mine \notin pulse.sinks
  /\ Elsewhere
  /\ DefaultKept
  /\ \A i \in Inputs : GivenBack(i)

(* At the beginning of a session no stream follows the default yet.        *)
AsFound == \A i \in Inputs : want.route[i] # Follow

(* What is remembered as the default is what the user wanted, unless that  *)
(* was a remote sink; it is never the current handler's own.               *)
PreviousKnown == sound.prev # Mine /\ (Remote(want.default) \/ sound.prev = want.default)

(* The sink a stream was on is gone, unloaded as an orphan.                *)
Orphaned(i) == Remote(want.route[i]) /\ want.route[i] \notin pulse.sinks

(* A stream is where it should be, or on the remote sink: with its origin  *)
(* remembered, or because it began there.                                  *)
StreamKnown(i) ==
  IF pulse.route[i] = Mine
  THEN \/ want.route[i] = Follow /\ Origins(i) = {}
       \/ /\ Origins(i) # {} /\ Mine \notin Origins(i) /\ want.route[i] # Follow
          /\ Orphaned(i) \/ Origins(i) = {want.route[i]}
  ELSE \/ want.route[i] = pulse.route[i]
       \/ Orphaned(i)
       \/ want.route[i] = Follow /\ pulse.route[i] = pulse.default /\ sound.pc = "rMove"

(* The default is still the remote sink, and what it was is remembered, or *)
(* the user chose another.                                                 *)
DefaultKnown == IF pulse.default = Mine THEN PreviousKnown ELSE DefaultKept

(* What a stream without an origin goes back to.                           *)
FallbackKnown == Fallback = IF pulse.default = Mine THEN NoSink ELSE pulse.default

(* Inputs that are to be moved were listed where they are.                 *)
ToMove(r) ==
  /\ r = <<r[1], r[2]>> /\ r[1] \in Inputs /\ r[2] # Mine
  /\ pulse.route[r[1]] \in {r[2], Gone} /\ pulse.route[r[1]] # Silent
  /\ Origins(r[1]) = {}

(* So were those that are to be moved back; what is neither began on the   *)
(* remote sink and has nowhere to go.                                      *)
ToMoveBack(r) == r = <<r[1], FALSE>> /\ r[1] \in Inputs /\ pulse.route[r[1]] \in {Mine, Gone}

Stays(i) == want.route[i] = Follow /\ pulse.default = Mine

(* How far the handler has come.                                           *)
Stage ==
  /\ sound.pc = "setDefault" => pulse.default # Mine /\ PreviousKnown
  /\ sound.pc \in {"setDefault", "find", "inputs"} => sound.moved = {}
  /\ sound.pc = "move" => \A r \in sound.todo : ToMove(r)
  /\ sound.pc = "rSet" => sound.cur = pulse.default
  /\ sound.pc \in {"rFind", "rInputs", "rMove"} => FallbackKnown
  /\ sound.pc = "rMove" =>
       /\ \A r \in sound.todo : ToMoveBack(r)
       /\ \A i \in Inputs : pulse.route[i] = Mine /\ <<i, FALSE>> \notin sound.todo => Stays(i)
  /\ sound.pc # "unload"

Redirected ==
  /\ Mine \in pulse.sinks
  /\ Elsewhere
  /\ \A i \in Inputs : StreamKnown(i)
  /\ \A i \in Inputs : pulse.route[i] = Silent => Origins(i) = {}
  /\ DefaultKnown
  /\ Stage

RoutesKnown ==
  clean => /\ ~sound.guard => Untouched
           /\ sound.pc \in {"list", "orphans", "load"} => AsFound /\ sound.moved = {}
           /\ sound.pc = "load" => PreviousKnown
           /\ sound.guard => Redirected

AudioInv == PulseTyped /\ WantTyped /\ SoundTyped /\ SinksKnown /\ ThreadsKnown /\ RoutesKnown

-----------------------------------------------------------------------------
(* Audio: sinks and commands.                                              *)

(* Marks and sinks are told apart, and a sink by its owner.                *)
LEMMA SinkFacts ==
  /\ NoSink \notin AnySink /\ Silent \notin AnySink /\ Gone \notin AnySink /\ Follow \notin AnySink
  /\ Silent # Gone /\ Silent # Follow /\ Gone # Follow
  /\ Hardware \subseteq AnySink /\ OtherSinks \subseteq AnySink /\ Hardware # {}
  /\ \A s \in AnySink : /\ s[1] \in 0..(MaxAudioPid + 1) /\ s[2] \in Nat
                        /\ s \in Hardware <=> s[1] = 0
                        /\ s \in OtherSinks <=> s[1] = MaxAudioPid + 1
  /\ \A p \in 1..MaxAudioPid, n \in 0..MaxSounds :
       <<p, n>> \in AnySink /\ <<p, n>>[1] = p /\ <<p, n>>[2] = n
<1> USE AudioAssumption
<1>1. /\ NoSink \notin AnySink /\ Silent \notin AnySink /\ Gone \notin AnySink /\ Follow \notin AnySink
  BY DEF AnySink, NoSink, Silent, Gone, Follow
<1>2. Silent # Gone /\ Silent # Follow /\ Gone # Follow
  BY DEF Silent, Gone, Follow
<1>3. Hardware \subseteq AnySink /\ OtherSinks \subseteq AnySink /\ Hardware # {}
  BY DEF AnySink
<1>4. ASSUME NEW s \in AnySink
      PROVE  /\ s[1] \in 0..(MaxAudioPid + 1) /\ s[2] \in Nat
             /\ s \in Hardware <=> s[1] = 0
             /\ s \in OtherSinks <=> s[1] = MaxAudioPid + 1
  BY DEF AnySink
<1>5. \A p \in 1..MaxAudioPid, n \in 0..MaxSounds :
       <<p, n>> \in AnySink /\ <<p, n>>[1] = p /\ <<p, n>>[2] = n
  BY DEF AnySink
<1> QED BY <1>1, <1>2, <1>3, <1>4, <1>5

(* What a command may do to the sound server and to the history.           *)
LEMMA ReadDone ==
  ASSUME NEW b, NEW reply, Pactl(Read, b, reply)
  PROVE  /\ pulse' = pulse /\ want' = want /\ blamed' = blamed /\ audioPid' = audioPid
         /\ clean' = (clean /\ reply = "ok")
  BY DEF Pactl, Read, Effects

(* Setting the default sink.                                               *)
LEMMA SetDone ==
  ASSUME NEW s, NEW b, NEW reply, Pactl(Set(s), b, reply)
  PROVE  /\ want' = want /\ blamed' = blamed /\ audioPid' = audioPid
         /\ clean' = (clean /\ reply = "ok")
         /\ \/ pulse' = pulse /\ reply # "ok"
            \/ pulse' = [pulse EXCEPT !.default = s] /\ s \in pulse.sinks
  BY DEF Pactl, Set, Effects, Replies, Possible

(* Moving a stream.                                                        *)
LEMMA MoveDone ==
  ASSUME NEW i, NEW s, NEW b, NEW reply, Pactl(Move(i, s), b, reply)
  PROVE  /\ want' = want /\ blamed' = blamed /\ audioPid' = audioPid
         /\ clean' = (clean /\ reply = "ok")
         /\ \/ pulse' = pulse /\ reply # "ok"
            \/ /\ pulse' = [pulse EXCEPT !.route = [j \in Inputs |-> IF j = i THEN s ELSE pulse.route[j]]]
               /\ s \in pulse.sinks /\ i \in Playing
  BY DEF Pactl, Move, Effects, Replies, Possible

(* The same, seen field by field, of a move that is known to be done.      *)
LEMMA MoveView ==
  ASSUME PulseTyped, NEW i, NEW s, NEW b, NEW reply, Pactl(Move(i, s), b, reply), clean'
  PROVE  /\ want' = want /\ clean /\ reply = "ok" /\ i \in Playing /\ s \in pulse.sinks
         /\ pulse'.sinks = pulse.sinks /\ pulse'.default = pulse.default
         /\ \A j \in Inputs : pulse'.route[j] = IF j = i THEN s ELSE pulse.route[j]
<1>1. reply = "ok" /\ clean /\ want' = want /\ i \in Playing /\ s \in pulse.sinks
  BY DEF Pactl, Move, Replies, Possible
<1>2. pulse' = [pulse EXCEPT !.route = [j \in Inputs |-> IF j \in {i} THEN s ELSE pulse.route[j]]]
  BY <1>1 DEF Pactl, Move, Effects
<1> QED BY <1>1, <1>2 DEF PulseTyped

(* Loading a sink.                                                         *)
LEMMA LoadDone ==
  ASSUME NEW s, NEW b, NEW reply, Pactl(Load(s), b, reply)
  PROVE  /\ want' = want /\ audioPid' = audioPid
         /\ clean' = (clean /\ reply = "ok")
         /\ blamed' = IF reply = "ok" THEN blamed ELSE blamed \cup {s}
         /\ \/ pulse' = pulse /\ reply # "ok"
            \/ pulse' = [pulse EXCEPT !.sinks = pulse.sinks \cup {s}]
  BY DEF Pactl, Load, Effects, Replies, Possible

(* Unloading a sink: what was on it goes where the sound server decides.   *)
LEMMA UnloadDone ==
  ASSUME NEW s, NEW b, NEW reply, Pactl(Unload(s), b, reply)
  PROVE  /\ audioPid' = audioPid
         /\ clean' = (clean /\ reply = "ok")
         /\ blamed' = IF reply = "ok" THEN blamed ELSE blamed \cup {s}
         /\ want' = want
         /\ \/ pulse' = pulse /\ reply # "ok"
            \/ s \in pulse.sinks /\ \E d \in Hardware : pulse' = Unloaded(s, d)
  BY DEF Pactl, Unload, Effects, Replies, Possible

(* Commands that leave the hardware and the other process's sinks loaded.  *)
Harmless(c) ==
  \/ c = Read
  \/ \E sink \in SomeSink : c = Set(sink)
  \/ \E i \in Inputs, sink \in SomeSink : c = Move(i, sink)
  \/ \E sink \in AnySink : c = Load(sink)
  \/ \E sink \in AnySink : sink[1] \in 1..MaxAudioPid /\ c = Unload(sink)

(* They keep the types.                                                    *)
LEMMA CommandsTyped ==
  ASSUME PulseTyped, WantTyped, NEW c, Harmless(c), NEW b, NEW reply, Pactl(c, b, reply)
  PROVE  PulseTyped' /\ WantTyped'
<1>1. CASE pulse' = pulse /\ want' = want
  BY <1>1 DEF PulseTyped, WantTyped
<1>2. CASE \E sink : c = Set(sink)
  BY <1>1, <1>2, SetDone DEF PulseTyped, WantTyped
<1>3. CASE \E i \in Inputs : \E sink : c = Move(i, sink)
  BY <1>1, <1>3, MoveDone DEF PulseTyped, WantTyped
<1>4. CASE \E sink \in AnySink : c = Load(sink)
  BY <1>1, <1>4, LoadDone DEF PulseTyped, WantTyped
<1>5. CASE \E sink \in AnySink : sink[1] \in 1..MaxAudioPid /\ c = Unload(sink)
  <2>1. PICK sink \in AnySink : sink[1] \in 1..MaxAudioPid /\ Pactl(Unload(sink), b, reply)
    BY <1>5
  <2> SUFFICES ASSUME ~(pulse' = pulse /\ want' = want) PROVE PulseTyped' /\ WantTyped'
    BY <1>1
  <2>2. sink \notin Hardware /\ sink \notin OtherSinks
    BY <2>1, SinkFacts, AudioAssumption
  <2>3. PICK d \in Hardware : pulse' = Unloaded(sink, d) /\ want' = want
    BY <2>1, UnloadDone
  <2>4. PulseTyped'
    <3>1. d \in pulse.sinks \ {sink}
      BY <2>2 DEF PulseTyped
    <3> QED BY <2>2, <2>3, <3>1 DEF PulseTyped, Unloaded
  <2>5. WantTyped'
    BY <2>3 DEF WantTyped
  <2> QED BY <2>4, <2>5
<1> QED
  BY <1>1, <1>2, <1>3, <1>4, <1>5, ReadDone DEF Harmless

(* Every step of audio, as a call of the handler or by itself.             *)
AudioNext == AudioStart \/ AudioStop \/ AudioHandler \/ AudioWorld \/ AudioCrash

(* It is a command, or the user's act, or leaves the sound server alone.   *)
LEMMA AudioKinds ==
  ASSUME PulseTyped, SoundTyped, SinksKnown, AudioNext
  PROVE  \/ UNCHANGED <<pulse, want>>
         \/ AudioStart
         \/ \E c : Harmless(c) /\ \E b \in BOOLEAN, reply \in Answers : Pactl(c, b, reply)
         \/ Users
<1>1. Mine \in AnySink /\ Mine[1] \in 1..MaxAudioPid
  BY SinkFacts DEF Mine, SoundTyped
<1>2. sound.pc = "orphans" => \A s \in sound.todo : s \in AnySink /\ s[1] \in 1..MaxAudioPid
  BY AudioAssumption DEF SinksKnown, SoundTyped
<1>3. {sound.prev, sound.cur, Fallback} \subseteq SomeSink
  BY DEF SoundTyped, Fallback
<1>4. CASE AudioHandler
  <2>1. CASE RouteNext
    <3> PICK reply \in Answers :
           \/ ListModules(reply) \/ PreviousDefault(reply) \/ LoadSink(reply) \/ SetDefault(reply)
           \/ FindSink(reply) \/ ListInputs(reply)
           \/ \E s \in sound.todo : UnloadOrphan(s, reply)
           \/ \E r \in sound.todo : MoveInput(r, reply)
      BY <2>1 DEF RouteNext
    <3>1. CASE \/ ListModules(reply) \/ PreviousDefault(reply) \/ FindSink(reply) \/ ListInputs(reply)
      BY <3>1, ReadDone DEF ListModules, PreviousDefault, FindSink, ListInputs
    <3>2. CASE LoadSink(reply)
      BY <3>2, <1>1 DEF LoadSink, Harmless
    <3>3. CASE SetDefault(reply)
      BY <3>3, <1>1 DEF SetDefault, Harmless, SomeSink
    <3>4. CASE \E s \in sound.todo : UnloadOrphan(s, reply)
      BY <3>4, <1>2 DEF UnloadOrphan, Harmless
    <3>5. CASE \E r \in sound.todo : MoveInput(r, reply)
      <4>1. PICK r : sound.pc = "move" /\ Pactl(Move(r[1], Mine), FALSE, reply)
        BY <3>5 DEF MoveInput
      <4>2. CASE r[1] \in Inputs
        BY <1>1, <4>1, <4>2 DEF Harmless, SomeSink
      <4>3. CASE r[1] \notin Inputs
        <5>1. UNCHANGED <<pulse, want>>
          BY <4>1, <4>3, MoveDone DEF Playing
        <5> QED BY <5>1
      <4> QED BY <4>2, <4>3
    <3> QED BY <3>1, <3>2, <3>3, <3>4, <3>5
  <2>2. CASE StartNext \/ AudioJoin
    BY <2>2 DEF StartNext, SpawnCapture, AwaitStartup, AudioJoin
  <2>3. CASE RestoreNext
    <3> PICK reply \in Answers :
           \/ CurrentDefault(reply) \/ RestoreDefault(reply) \/ RestoreFind(reply)
           \/ RestoreInputs(reply) \/ UnloadSink(reply)
           \/ \E r \in sound.todo : RestoreMove(r, reply)
      BY <2>3 DEF RestoreNext
    <3>1. CASE CurrentDefault(reply) \/ RestoreFind(reply) \/ RestoreInputs(reply)
      BY <3>1, ReadDone DEF CurrentDefault, RestoreFind, RestoreInputs
    <3>2. CASE RestoreDefault(reply)
      BY <3>2, <1>3 DEF RestoreDefault, Harmless
    <3>3. CASE UnloadSink(reply)
      BY <3>3, <1>1 DEF UnloadSink, Harmless, UnloadSkipped
    <3>4. CASE \E r \in sound.todo : RestoreMove(r, reply)
      <4>1. CASE UNCHANGED <<pulse, want>>
        BY <4>1
      <4>2. CASE \E i, s : Pactl(Move(i, s), TRUE, reply)
        <5>1. PICK i, s : Pactl(Move(i, s), TRUE, reply)
          BY <4>2
        <5>2. CASE i \in Inputs /\ s \in AnySink
          BY <5>1, <5>2 DEF Harmless, SomeSink
        <5>3. CASE ~(i \in Inputs /\ s \in AnySink)
          <6>1. UNCHANGED <<pulse, want>>
            BY <5>1, <5>3, MoveDone DEF Playing, PulseTyped
          <6> QED BY <6>1
        <5> QED BY <5>2, <5>3
      <4> QED BY <3>4, <4>1, <4>2 DEF RestoreMove
    <3> QED BY <3>1, <3>2, <3>3, <3>4
  <2> QED BY <1>4, <2>1, <2>2, <2>3 DEF AudioHandler
<1>5. CASE AudioStop \/ AudioCrash \/ AudioThreads \/ BudgetSpent
  BY <1>5 DEF AudioStop, AudioCrash, AudioThreads, BudgetSpent, ThreadStarts, ThreadErrs, ThreadExits,
         ThreadOnly
<1> QED
  BY <1>4, <1>5 DEF AudioNext, AudioWorld

(* So every step keeps the types of the sound server and the user's choice.*)
LEMMA AudioTyped ==
  ASSUME PulseTyped, WantTyped, SoundTyped, SinksKnown, AudioNext
  PROVE  PulseTyped' /\ WantTyped'
<1>1. CASE UNCHANGED <<pulse, want>>
  BY <1>1 DEF PulseTyped, WantTyped
<1>2. CASE AudioStart
  <2>1. pulse' = pulse /\ want' = [default |-> pulse.default, route |-> pulse.route]
    BY <1>2 DEF AudioStart
  <2> QED BY <2>1 DEF PulseTyped, WantTyped
<1>3. CASE Users
  <2>1. Hardware \subseteq AnySink
    BY SinkFacts
  <2>2. ASSUME NEW d \in Hardware, UserSetsDefault(d) PROVE PulseTyped' /\ WantTyped'
    <3>1. pulse' = [pulse EXCEPT !.default = d] /\ want' = [default |-> d, route |-> [i \in Inputs |-> Settled(i)]]
      BY <2>2 DEF UserSetsDefault, UserActs
    <3>2. \A i \in Inputs : Settled(i) \in AnySink \cup {Silent, Gone, Follow}
      BY DEF Settled, PulseTyped, WantTyped
    <3> QED BY <2>1, <3>1, <3>2 DEF PulseTyped, WantTyped
  <2>3. ASSUME NEW d \in Hardware, NEW i \in Inputs, UserMoves(i, d) PROVE PulseTyped' /\ WantTyped'
    <3>1. pulse' = [pulse EXCEPT !.route[i] = d] /\ want' = [want EXCEPT !.route[i] = d]
      BY <2>3 DEF UserMoves, UserActs
    <3> QED BY <2>1, <3>1 DEF PulseTyped, WantTyped
  <2>4. ASSUME NEW i \in Inputs, PlayStarts(i) PROVE PulseTyped' /\ WantTyped'
    <3>1. PICK w \in AnySink \cup {Follow} :
            pulse' = [pulse EXCEPT !.route[i] = pulse.default] /\ want' = [want EXCEPT !.route[i] = w]
      BY <2>4 DEF PlayStarts, UserActs, PulseTyped
    <3> QED BY <3>1 DEF PulseTyped, WantTyped
  <2>5. ASSUME NEW i \in Inputs, PlayEnds(i) PROVE PulseTyped' /\ WantTyped'
    <3>1. pulse' = [pulse EXCEPT !.route[i] = Gone] /\ want' = [want EXCEPT !.route[i] = Gone]
      BY <2>5 DEF PlayEnds, UserActs
    <3> QED BY <3>1 DEF PulseTyped, WantTyped
  <2> QED BY <1>3, <2>2, <2>3, <2>4, <2>5 DEF Users
<1> QED BY <1>1, <1>2, <1>3, AudioKinds, CommandsTyped

(* And those of the handler.                                               *)
LEMMA SoundStep ==
  ASSUME PulseTyped, SoundTyped, SinksKnown, AudioNext
  PROVE  SoundTyped'
<1> USE DEF SoundTyped
<1>1. pulse.default \in SomeSink
  BY DEF PulseTyped, SomeSink
<1>2. NoSink \in SomeSink /\ MaxSounds \in Nat /\ MaxAudioPid \in Nat
  BY AudioAssumption DEF SomeSink
<1>4. ASSUME NEW b, NEW reply, NEW c, Pactl(c, b, reply)
      PROVE  clean' \in BOOLEAN /\ audioPid' = audioPid
  BY <1>4 DEF Pactl
<1>5. StartFailed = IF sound.guard THEN "rDefault" ELSE "failed"
  BY DEF StartFailed
<1> USE DEF Restoring
<1>6. CASE RouteNext
  <2> PICK reply \in Answers :
         \/ ListModules(reply) \/ PreviousDefault(reply) \/ LoadSink(reply) \/ SetDefault(reply)
         \/ FindSink(reply) \/ ListInputs(reply)
         \/ \E s \in sound.todo : UnloadOrphan(s, reply)
         \/ \E r \in sound.todo : MoveInput(r, reply)
    BY <1>6 DEF RouteNext
  <2>1. CASE ListModules(reply)
    BY <1>4, <2>1 DEF ListModules
  <2>2. CASE PreviousDefault(reply)
    <3>1. PICK sink \in SomeSink :
            sound' = [sound EXCEPT !.pc = IF reply = "ok" THEN "load" ELSE "failed", !.prev = sink]
      BY <1>1, <2>2 DEF PreviousDefault, SomeSink
    <3> QED BY <1>1, <1>4, <2>2, <3>1 DEF PreviousDefault
  <2>3. CASE LoadSink(reply)
    BY <1>1, <1>4, <2>3 DEF LoadSink
  <2>4. CASE SetDefault(reply) \/ FindSink(reply)
    BY <1>1, <1>4, <2>4 DEF SetDefault, FindSink, Goto
  <2>5. CASE ListInputs(reply)
    BY <1>4, <2>5 DEF ListInputs
  <2>6. CASE \E s \in sound.todo : UnloadOrphan(s, reply)
    BY <1>1, <1>4, <2>6 DEF UnloadOrphan
  <2>7. CASE \E r \in sound.todo : MoveInput(r, reply)
    BY <1>1, <1>4, <2>7 DEF MoveInput
  <2> QED BY <2>1, <2>2, <2>3, <2>4, <2>5, <2>6, <2>7
<1>7. CASE StartNext
  BY <1>1, <1>5, <1>7, ZenonT(40)
  DEF StartNext, SpawnCapture, AwaitStartup, Goto
<1>8. CASE AudioJoin
  BY <1>2, <1>8 DEF AudioJoin, AudioIdle
<1>9. CASE RestoreNext
  <2> PICK reply \in Answers :
         \/ CurrentDefault(reply) \/ RestoreDefault(reply) \/ RestoreFind(reply)
         \/ RestoreInputs(reply) \/ UnloadSink(reply)
         \/ \E r \in sound.todo : RestoreMove(r, reply)
    BY <1>9 DEF RestoreNext
  <2>1. CASE CurrentDefault(reply)
    BY <1>1, <1>4, <2>1 DEF CurrentDefault, SomeSink
  <2>2. CASE RestoreDefault(reply) \/ RestoreFind(reply)
    BY <1>1, <1>4, <2>2 DEF RestoreDefault, RestoreFind, Goto
  <2>3. CASE RestoreInputs(reply)
    BY <1>4, <2>3 DEF RestoreInputs
  <2>4. CASE UnloadSink(reply)
    BY <1>2, <1>4, <2>4
    DEF UnloadSink, UnloadSkipped, AudioIdle
  <2>5. CASE \E r \in sound.todo : RestoreMove(r, reply)
    BY <1>1, <1>4, <2>5 DEF RestoreMove
  <2> QED BY <2>1, <2>2, <2>3, <2>4, <2>5
<1>10. CASE AudioStart
  <2>1. PICK pc \in {"list", "spawn"} : sound' = [AudioIdle(sound.n + 1) EXCEPT !.pc = pc]
    BY <1>10 DEF AudioStart
  <2>2. clean' = TRUE /\ audioPid' = audioPid /\ sound.n < MaxSounds
    BY <1>10 DEF AudioStart
  <2>3. sound.n + 1 \in 0..MaxSounds /\ sound.n + 1 # 0
    BY <1>2, <2>2
  <2>4. PICK n \in 0..MaxSounds : n # 0 /\ sound' = [AudioIdle(n) EXCEPT !.pc = pc]
    BY <2>1, <2>3
  <2> QED BY <1>2, <2>2, <2>4 DEF AudioIdle
<1>11. CASE AudioStop
  BY <1>1, <1>11 DEF AudioStop
<1>12. CASE AudioWorld
  BY <1>1, <1>12
  DEF AudioWorld, AudioThreads, ThreadStarts, ThreadErrs, ThreadExits, ThreadOnly, Users, UserActs,
      UserSetsDefault, UserMoves, PlayStarts, PlayEnds, BudgetSpent
<1>13. CASE AudioCrash
  <2>1. /\ sound' = AudioIdle(sound.n) /\ audioPid' = audioPid + 1 /\ audioPid < MaxAudioPid
        /\ clean' = FALSE
    BY <1>13 DEF AudioCrash
  <2>2. audioPid' \in 1..MaxAudioPid
    BY <1>2, <2>1
  <2> QED BY <1>2, <2>1, <2>2 DEF AudioIdle
<1> QED
  BY <1>6, <1>7, <1>8, <1>9, <1>10, <1>11, <1>12, <1>13 DEF AudioNext, AudioHandler

(* The steps of routing and restoring, and the end of a join, are about    *)
(* neither threads nor other handlers.                                     *)
LEMMA RouteFrame ==
  ASSUME SoundTyped, RouteNext \/ RestoreNext \/ AudioJoin
  PROVE  /\ threads' = threads /\ audioPid' = audioPid /\ sound'.n = sound.n
         /\ sound.pc \notin {"idle", "startup", "on"} /\ sound'.pc \notin {"startup", "on"}
<1> USE DEF SoundTyped, Pactl
<1>1. ASSUME NEW reply \in Answers,
             \/ ListModules(reply) \/ PreviousDefault(reply) \/ LoadSink(reply) \/ SetDefault(reply)
             \/ FindSink(reply) \/ ListInputs(reply)
             \/ \E s \in sound.todo : UnloadOrphan(s, reply)
             \/ \E r \in sound.todo : MoveInput(r, reply)
      PROVE  /\ threads' = threads /\ audioPid' = audioPid /\ sound'.n = sound.n
             /\ sound.pc \notin {"idle", "startup", "on"} /\ sound'.pc \notin {"startup", "on"}
  <2>1. CASE ListModules(reply) \/ PreviousDefault(reply) \/ LoadSink(reply)
    BY <2>1 DEF ListModules, PreviousDefault, LoadSink
  <2>2. CASE SetDefault(reply) \/ FindSink(reply) \/ ListInputs(reply)
    BY <2>2 DEF SetDefault, FindSink, ListInputs, Goto
  <2>3. CASE \E s \in sound.todo : UnloadOrphan(s, reply)
    BY <2>3 DEF UnloadOrphan
  <2>4. CASE \E r \in sound.todo : MoveInput(r, reply)
    BY <2>4 DEF MoveInput
  <2> QED BY <1>1, <2>1, <2>2, <2>3, <2>4
<1>2. ASSUME NEW reply \in Answers,
             \/ CurrentDefault(reply) \/ RestoreDefault(reply) \/ RestoreFind(reply)
             \/ RestoreInputs(reply) \/ UnloadSink(reply)
             \/ \E r \in sound.todo : RestoreMove(r, reply)
      PROVE  /\ threads' = threads /\ audioPid' = audioPid /\ sound'.n = sound.n
             /\ sound.pc \notin {"idle", "startup", "on"} /\ sound'.pc \notin {"startup", "on"}
  <2>1. CASE CurrentDefault(reply) \/ RestoreDefault(reply) \/ RestoreFind(reply)
    BY <2>1 DEF CurrentDefault, RestoreDefault, RestoreFind, Goto
  <2>2. CASE RestoreInputs(reply)
    BY <2>2 DEF RestoreInputs
  <2>4. CASE UnloadSink(reply)
    <3>1. audioPid' = audioPid /\ threads' = threads /\ sound.pc \in {"unload", "rMove"}
      BY <2>4 DEF UnloadSink, UnloadSkipped
    <3>2. sound'.n = sound.n /\ sound'.pc \in {"idle", "failed"}
      BY <2>4 DEF UnloadSink, AudioIdle
    <3> QED BY <3>1, <3>2
  <2>3. CASE \E r \in sound.todo : RestoreMove(r, reply)
    BY <2>3 DEF RestoreMove
  <2> QED BY <1>2, <2>1, <2>2, <2>3, <2>4
<1>3. CASE AudioJoin
  BY <1>3 DEF AudioJoin, AudioIdle
<1> QED BY <1>1, <1>2, <1>3 DEF RouteNext, RestoreNext

(* The world outside the handler moves only its threads and the sound      *)
(* server, or spends the budget.                                           *)
LEMMA WorldFrame ==
  ASSUME PulseTyped, SoundTyped, AudioWorld
  PROVE  /\ audioPid' = audioPid /\ sound'.n = sound.n /\ sound'.pc = sound.pc
         /\ sound'.guard = sound.guard /\ sound'.handle = sound.handle /\ sound'.todo = sound.todo
         /\ blamed' = blamed /\ pulse'.sinks = pulse.sinks
         /\ AudioThreads \/ threads' = threads
<1>1. CASE AudioThreads
  BY <1>1 DEF AudioThreads, ThreadStarts, ThreadErrs, ThreadExits, ThreadOnly
<1>2. CASE Users
  BY <1>2 DEF Users, UserSetsDefault, UserMoves, PlayStarts, PlayEnds, UserActs, PulseTyped
<1>3. CASE BudgetSpent
  BY <1>3 DEF BudgetSpent, SoundTyped
<1> QED BY <1>1, <1>2, <1>3 DEF AudioWorld

(* A step builds the next handler, keeps the number of the handler, or     *)
(* starts the next process.                                                *)
LEMMA HandlerFrame ==
  ASSUME PulseTyped, SoundTyped, AudioNext
  PROVE  \/ AudioStart \/ AudioCrash
         \/ sound'.n = sound.n /\ audioPid' = audioPid /\ Mine' = Mine
<1>1. CASE StartNext \/ AudioStop
  BY <1>1 DEF StartNext, SpawnCapture, AwaitStartup, AudioStop, SoundTyped, Goto, Mine
<1>2. CASE RouteNext \/ RestoreNext \/ AudioJoin \/ AudioWorld
  BY <1>2, RouteFrame, WorldFrame DEF Mine
<1> QED BY <1>1, <1>2 DEF AudioNext, AudioHandler

ThreadShaped(t) == t = [reported |-> t.reported, st |-> t.st, stop |-> t.stop]

(* A thread with a new field is a thread.                                  *)
LEMMA ShapeKept ==
  ASSUME NEW t, ThreadShaped(t), NEW st, NEW reported, NEW stop
  PROVE  /\ ThreadShaped([t EXCEPT !.st = st]) /\ [t EXCEPT !.st = st].stop = t.stop
         /\ [t EXCEPT !.st = st].st = st
         /\ ThreadShaped([t EXCEPT !.stop = stop]) /\ [t EXCEPT !.stop = stop].stop = stop
         /\ ThreadShaped([t EXCEPT !.reported = reported])
         /\ [t EXCEPT !.reported = reported].stop = t.stop
<1>1. ThreadShaped([t EXCEPT !.st = st]) /\ [t EXCEPT !.st = st].stop = t.stop /\ [t EXCEPT !.st = st].st = st
  BY DEF ThreadShaped
<1>2. ThreadShaped([t EXCEPT !.stop = stop]) /\ [t EXCEPT !.stop = stop].stop = stop
  BY DEF ThreadShaped
<1>3. ThreadShaped([t EXCEPT !.reported = reported]) /\ [t EXCEPT !.reported = reported].stop = t.stop
  BY DEF ThreadShaped
<1> QED BY <1>1, <1>2, <1>3

(* One thread changes, in the current handler or with the handler at rest. *)
LEMMA OneThread ==
  ASSUME SoundTyped, ThreadsKnown,
         NEW k \in 1..MaxSounds, k <= sound.n, NEW t, ThreadShaped(t),
         threads' = [threads EXCEPT ![k] = t],
         sound'.n = sound.n, sound'.pc = "on" => sound'.handle,
         k = sound.n \/ sound'.pc = sound.pc,
         t.st \in {"starting", "capturing"} /\ (k # sound.n \/ sound'.pc \notin {"startup", "on"}) => t.stop
  PROVE  ThreadsKnown'
<1>1. threads' = [n \in 1..MaxSounds |-> threads'[n]] /\ threads'[k] = t
  BY DEF ThreadsKnown
<1>2. ASSUME NEW n \in 1..MaxSounds, n # k
      PROVE  threads'[n] = threads[n]
  BY <1>2 DEF ThreadsKnown
<1>3. ASSUME NEW n \in 1..MaxSounds
      PROVE  ThreadShaped(threads'[n])
  BY <1>1, <1>2 DEF ThreadsKnown, ThreadShaped
<1>4. ASSUME NEW n \in 1..MaxSounds, n > sound.n
      PROVE  threads'[n] = NoThread
  BY <1>2, <1>4, AudioAssumption DEF ThreadsKnown, SoundTyped
<1>5. ASSUME NEW n \in 1..MaxSounds, threads'[n].st \in {"starting", "capturing"},
             n # sound.n \/ sound'.pc \notin {"startup", "on"}
      PROVE  threads'[n].stop
  BY <1>1, <1>2, <1>5 DEF ThreadsKnown
<1> QED BY <1>1, <1>3, <1>4, <1>5 DEF ThreadsKnown, ThreadShaped

(* Every step leaves no thread recording that was not told to stop, but    *)
(* the current one.                                                        *)
LEMMA ThreadsStep ==
  ASSUME PulseTyped, SoundTyped, ThreadsKnown, AudioNext
  PROVE  ThreadsKnown'
<1>1. CASE /\ threads' = threads /\ sound'.n = sound.n
           /\ \/ sound'.pc \notin {"startup", "on"} /\ sound.pc \notin {"startup", "on"}
              \/ sound'.pc = sound.pc /\ sound'.handle = sound.handle
  BY <1>1 DEF ThreadsKnown
<1>2. CASE RouteNext \/ RestoreNext \/ AudioJoin \/ (AudioWorld /\ ~AudioThreads)
  BY <1>1, <1>2, RouteFrame, WorldFrame
<1>3. sound.pc # "idle" => sound.n \in 1..MaxSounds
  BY AudioAssumption DEF SoundTyped
<1>a. \A n \in 1..MaxSounds : ThreadShaped(threads[n])
  BY DEF ThreadShaped, ThreadsKnown
<1>b. ASSUME NEW n \in 1..MaxSounds
      PROVE  /\ threads[n].st \in {"starting", "capturing"} => n <= sound.n
  BY AudioAssumption DEF NoThread, SoundTyped, ThreadsKnown
<1>4. CASE \E spawned \in BOOLEAN : SpawnCapture(spawned)
  <2>1. /\ sound'.n = sound.n /\ sound'.pc \in {"startup", "rDefault", "failed"}
        /\ sound.pc \notin {"startup", "on"}
        /\ \/ threads' = threads
           \/ threads' = [threads EXCEPT ![sound.n].st = "starting"] /\ sound'.pc = "startup"
    BY <1>4 DEF SpawnCapture, SoundTyped, Goto, StartFailed
  <2>2. CASE threads' = threads
    BY <2>1, <2>2 DEF ThreadsKnown
  <2>3. CASE threads' = [threads EXCEPT ![sound.n].st = "starting"] /\ sound'.pc = "startup"
    <3>1. sound.n \in 1..MaxSounds
      BY <1>3, <1>4 DEF SpawnCapture
    <3> DEFINE t == [threads[sound.n] EXCEPT !.st = "starting"]
    <3>2. ThreadShaped(t) /\ threads' = [threads EXCEPT ![sound.n] = t]
      BY <1>a, <2>3, <3>1, ShapeKept
    <3>3. sound.n <= sound.n
      BY <3>1
    <3> HIDE DEF t
    <3> QED BY <2>1, <2>3, <3>1, <3>2, <3>3, OneThread
  <2> QED BY <2>1, <2>2, <2>3
<1>5. CASE AwaitStartup
  <2>1. sound'.n = sound.n /\ sound.n \in 1..MaxSounds /\ sound.pc = "startup"
    BY <1>3, <1>5 DEF AwaitStartup, SoundTyped, Goto
  <2>2. \/ threads' = threads /\ sound'.pc = "on" /\ sound'.handle = TRUE
        \/ /\ threads' = threads /\ threads[sound.n].st = "exited"
           /\ sound'.pc \in {"rDefault", "failed"}
        \/ /\ threads' = [threads EXCEPT ![sound.n].stop = TRUE]
           /\ sound'.pc \in {"rDefault", "failed"}
    BY <1>5 DEF AwaitStartup, SoundTyped, Goto, StartFailed, LateThreadStopped
  <2>3. CASE threads' = threads
    BY <2>1, <2>2, <2>3 DEF ThreadsKnown
  <2>4. CASE threads' = [threads EXCEPT ![sound.n].stop = TRUE] /\ sound'.pc \in {"rDefault", "failed"}
    <3> DEFINE t == [threads[sound.n] EXCEPT !.stop = TRUE]
    <3>1. ThreadShaped(t) /\ threads' = [threads EXCEPT ![sound.n] = t] /\ t.stop
      BY <1>a, <2>1, <2>4, ShapeKept
    <3>2. sound.n <= sound.n
      BY <2>1
    <3> HIDE DEF t
    <3> QED BY <2>1, <2>4, <3>1, <3>2, OneThread
  <2> QED BY <2>2, <2>3, <2>4
<1>6. CASE AudioThreads
  <2> PICK n \in 1..MaxSounds : ThreadStarts(n) \/ ThreadErrs(n) \/ ThreadExits(n)
    BY <1>6 DEF AudioThreads
  <2>1. sound' = sound /\ threads[n].st \in {"starting", "capturing"} /\ n <= sound.n
    BY <1>b DEF ThreadStarts, ThreadErrs, ThreadExits, ThreadOnly
  <2>2. PICK t : /\ threads' = [threads EXCEPT ![n] = t] /\ ThreadShaped(t)
                 /\ t.stop \/ (t.stop = threads[n].stop)
    <3>0. ThreadShaped(threads[n])
      BY <1>a
    <3>1. CASE ThreadErrs(n)
      <4>1. threads' = [threads EXCEPT ![n] = [threads[n] EXCEPT !.stop = TRUE]]
        BY <3>1 DEF ThreadErrs
      <4>2. /\ ThreadShaped([threads[n] EXCEPT !.stop = TRUE])
            /\ [threads[n] EXCEPT !.stop = TRUE].stop = TRUE
        BY ONLY <3>0, ShapeKept, Zenon
      <4> QED BY ONLY <4>1, <4>2, Zenon
    <3>2. CASE threads' = [threads EXCEPT ![n] = [threads[n] EXCEPT !.st = "exited"]]
      <4>1. /\ ThreadShaped([threads[n] EXCEPT !.st = "exited"])
            /\ [threads[n] EXCEPT !.st = "exited"].stop = threads[n].stop
        BY <3>0, ShapeKept
      <4> QED BY ONLY <3>2, <4>1, Zenon
    <3>3. CASE \E r \in {"ok", "err"}, st \in {"capturing", "exited"} :
                 threads' = [threads EXCEPT ![n] = [threads[n] EXCEPT !.st = st, !.reported = r]]
      <4>1. PICK r, st : threads' = [threads EXCEPT ![n] = [threads[n] EXCEPT !.st = st, !.reported = r]]
        BY <3>3
      <4>2. PICK u : u = [threads[n] EXCEPT !.st = st]
        OBVIOUS
      <4>3. ThreadShaped(u) /\ u.stop = threads[n].stop
        BY ONLY <3>0, <4>2, ShapeKept, Zenon
      <4>4. PICK v : v = [u EXCEPT !.reported = r]
        OBVIOUS
      <4>5. ThreadShaped(v) /\ v.stop = u.stop
        BY ONLY <4>3, <4>4, ShapeKept, Zenon
      <4>6. v = [threads[n] EXCEPT !.st = st, !.reported = r]
        BY ONLY <3>0, <4>2, <4>4 DEF ThreadShaped
      <4>7. threads' = [threads EXCEPT ![n] = v] /\ ThreadShaped(v) /\ v.stop = threads[n].stop
        BY <4>1, <4>3, <4>5, <4>6
      <4> QED BY ONLY <4>7, Zenon
    <3>4. CASE ThreadExits(n)
      BY <3>2, <3>4 DEF ThreadExits
    <3>5. CASE ThreadStarts(n)
      BY <3>2, <3>3, <3>5 DEF ThreadStarts
    <3> QED BY <3>1, <3>4, <3>5
  <2>3. n # sound.n \/ sound.pc \notin {"startup", "on"} => t.stop
    BY <2>1, <2>2 DEF ThreadsKnown
  <2>4. sound'.pc = "on" => sound'.handle
    BY <2>1 DEF ThreadsKnown
  <2> QED BY <2>1, <2>2, <2>3, <2>4, OneThread
<1>7. CASE AudioStart
  <2>1. threads' = threads /\ sound'.n = sound.n + 1 /\ sound'.pc \in {"list", "spawn"} /\ sound.pc = "idle"
    BY <1>7 DEF AudioStart, AudioIdle
  <2> QED BY <2>1, AudioAssumption DEF SoundTyped, NoThread, ThreadsKnown
<1>8. CASE AudioStop
  <2>1. /\ threads' \in {threads, [threads EXCEPT ![sound.n].stop = TRUE]}
        /\ sound'.n = sound.n /\ sound'.pc = "join" /\ sound.pc # "startup"
        /\ sound.pc = "on" => threads' = [threads EXCEPT ![sound.n].stop = TRUE]
    BY <1>8 DEF AudioStop, SoundTyped, ThreadsKnown
  <2>2. sound.n \in 1..MaxSounds
    BY <1>3, <1>8 DEF AudioStop
  <2>3. CASE threads' = threads
    BY <2>1, <2>2, <2>3 DEF ThreadsKnown
  <2>4. CASE threads' = [threads EXCEPT ![sound.n].stop = TRUE]
    <3> DEFINE t == [threads[sound.n] EXCEPT !.stop = TRUE]
    <3>1. ThreadShaped(t) /\ threads' = [threads EXCEPT ![sound.n] = t] /\ t.stop
      BY <1>a, <2>2, <2>4, ShapeKept
    <3>2. sound.n <= sound.n
      BY <2>2
    <3> HIDE DEF t
    <3> QED BY <2>1, <2>2, <3>1, <3>2, OneThread
  <2> QED BY <2>1, <2>3, <2>4
<1>9. CASE AudioCrash
  <2>1. /\ sound'.n = sound.n /\ sound'.pc = "idle"
        /\ threads' = [n \in 1..MaxSounds |->
                         IF n <= sound.n THEN [threads[n] EXCEPT !.st = "exited"] ELSE NoThread]
    BY <1>9 DEF AudioCrash, AudioIdle
  <2>2. ASSUME NEW n \in 1..MaxSounds
        PROVE  /\ ThreadShaped(threads'[n]) /\ threads'[n].st \notin {"starting", "capturing"}
               /\ n > sound.n => threads'[n] = NoThread
    <3>1. CASE n <= sound.n
      <4>1. threads'[n] = [threads[n] EXCEPT !.st = "exited"]
        BY <2>1, <3>1
      <4>2. ThreadShaped(threads[n])
        BY <1>a
      <4>3. ThreadShaped([threads[n] EXCEPT !.st = "exited"]) /\ [threads[n] EXCEPT !.st = "exited"].st = "exited"
        BY ONLY <4>2, ShapeKept
      <4> QED BY <3>1, <4>1, <4>3, AudioAssumption DEF SoundTyped
    <3>2. CASE ~(n <= sound.n)
      BY <2>1, <3>2 DEF NoThread, ThreadShaped
    <3> QED BY <3>1, <3>2
  <2>3. threads' = [n \in 1..MaxSounds |-> threads'[n]]
    BY <2>1
  <2> QED BY <2>1, <2>2, <2>3 DEF ThreadShaped, ThreadsKnown
<1> QED
  BY <1>2, <1>4, <1>5, <1>6, <1>7, <1>8, <1>9 DEF AudioNext, AudioHandler, StartNext

(* Commands but a load bring no sink, and what they drop or fail on is     *)
(* accounted for.                                                          *)
LEMMA SinksKept ==
  ASSUME SoundTyped, SinksKnown, audioPid' = audioPid, sound'.n = sound.n,
         pulse'.sinks \subseteq pulse.sinks, blamed \subseteq blamed',
         Mine \in pulse'.sinks => Mine \in blamed' \/ sound'.guard = sound.guard,
         sound'.pc \in {"list", "orphans", "load"} => sound.pc \in {"list", "orphans", "load"},
         sound'.pc = "orphans" => \A s \in sound'.todo : s \in AnySink /\ s[1] \in 1..audioPid
  PROVE  SinksKnown'
<1>1. Mine' = Mine
  BY DEF Mine
<1> QED BY <1>1 DEF SinksKnown

(* The same for a command that leaves sinks and history alone.             *)
LEMMA NoSinkTouched ==
  ASSUME SoundTyped, SinksKnown, audioPid' = audioPid, sound'.n = sound.n,
         pulse'.sinks = pulse.sinks, blamed' = blamed, sound'.guard = sound.guard,
         \/ sound'.pc \notin {"list", "orphans", "load"}
         \/ sound'.pc = sound.pc /\ sound'.todo = sound.todo
         \/ sound'.pc = "load" /\ sound.pc = "orphans"
  PROVE  SinksKnown'
<1>1. sound'.pc = "orphans" => \A s \in sound'.todo : s \in AnySink /\ s[1] \in 1..audioPid
  BY DEF SinksKnown
<1> QED BY <1>1, SinksKept

(* An unload drops the sink or takes the blame for it.                     *)
LEMMA UnloadSinks ==
  ASSUME NEW s, NEW b, NEW reply, Pactl(Unload(s), b, reply), PulseTyped
  PROVE  /\ pulse'.sinks \subseteq pulse.sinks /\ blamed \subseteq blamed'
         /\ s \in pulse'.sinks => s \in blamed'
<1>1. \A d : Unloaded(s, d).sinks = pulse.sinks \ {s}
  BY DEF Unloaded
<1>2. blamed' = IF reply = "ok" THEN blamed ELSE blamed \cup {s}
  BY UnloadDone
<1>3. \/ pulse' = pulse /\ reply # "ok"
      \/ pulse'.sinks = pulse.sinks \ {s}
  BY <1>1, UnloadDone
<1> QED BY ONLY <1>2, <1>3

(* Each sink stays accounted for: the guard owns the one it loaded, and a  *)
(* failed command or a dead process takes the blame for any other.         *)
LEMMA SinksStep ==
  ASSUME PulseTyped, SoundTyped, SinksKnown, AudioNext
  PROVE  SinksKnown'
<1>1. CASE RouteNext
  <2> PICK reply \in Answers :
         \/ ListModules(reply) \/ PreviousDefault(reply) \/ LoadSink(reply) \/ SetDefault(reply)
         \/ FindSink(reply) \/ ListInputs(reply)
         \/ \E s \in sound.todo : UnloadOrphan(s, reply)
         \/ \E r \in sound.todo : MoveInput(r, reply)
    BY <1>1 DEF RouteNext
  <2>0. audioPid' = audioPid /\ sound'.n = sound.n
    BY <1>1, RouteFrame
  <2>1. CASE ListModules(reply)
    <3>1. pulse' = pulse /\ blamed' = blamed /\ sound.pc = "list"
      BY <2>1, ReadDone DEF ListModules
    <3>2. sound'.pc = "orphans" /\ sound'.todo \subseteq Orphans /\ sound'.guard = sound.guard
      BY <2>1 DEF ListModules, SoundTyped
    <3>3. \A s \in Orphans : s \in AnySink /\ s[1] \in 1..audioPid
      BY SinkFacts, AudioAssumption DEF Orphans, Remote, PulseTyped, SoundTyped
    <3> QED BY <2>0, <3>1, <3>2, <3>3, SinksKept
  <2>2. CASE PreviousDefault(reply)
    <3>1. pulse' = pulse /\ blamed' = blamed /\ sound.pc = "orphans"
      BY <2>2, ReadDone DEF PreviousDefault
    <3>2. sound'.pc \in {"load", "failed"} /\ sound'.guard = sound.guard
      BY <2>2 DEF PreviousDefault, SoundTyped
    <3> QED BY <2>0, <3>1, <3>2, NoSinkTouched
  <2>3. CASE LoadSink(reply)
    <3>1. /\ pulse'.sinks \subseteq pulse.sinks \cup {Mine} /\ sound.pc = "load"
          /\ blamed' = IF reply = "ok" THEN blamed ELSE blamed \cup {Mine}
      BY <2>3, LoadDone DEF LoadSink, PulseTyped
    <3>2. sound'.pc \in {"setDefault", "failed"} /\ sound'.guard = (reply = "ok")
      BY <2>3 DEF LoadSink, SoundTyped
    <3>3. Mine' = Mine /\ Mine[1] = audioPid /\ Mine[2] = sound.n /\ sound.n <= sound.n /\ audioPid <= audioPid
      BY <2>0 DEF Mine, SoundTyped
    <3>4. ~sound.guard
      BY <3>1 DEF SoundTyped
    <3> QED BY <2>0, <3>1, <3>2, <3>3, <3>4 DEF SinksKnown
  <2>4. CASE SetDefault(reply)
    <3>1. pulse'.sinks = pulse.sinks /\ blamed' = blamed
      BY <2>4, SetDone DEF SetDefault, PulseTyped
    <3>2. sound'.pc \in {"find", "rDefault"} /\ sound'.guard = sound.guard
      BY <2>4 DEF SetDefault, Goto, SoundTyped
    <3> QED BY <2>0, <3>1, <3>2, NoSinkTouched
  <2>5. CASE FindSink(reply) \/ ListInputs(reply)
    <3>1. pulse' = pulse /\ blamed' = blamed
      BY <2>5, ReadDone DEF FindSink, ListInputs
    <3>2. sound'.pc \in {"inputs", "move", "rDefault"} /\ sound'.guard = sound.guard
      BY <2>5 DEF FindSink, ListInputs, Goto, SoundTyped
    <3> QED BY <2>0, <3>1, <3>2, NoSinkTouched
  <2>6. CASE \E s \in sound.todo : UnloadOrphan(s, reply)
    <3> PICK s \in sound.todo : UnloadOrphan(s, reply)
      BY <2>6
    <3>1. sound'.pc = "orphans" /\ sound.pc = "orphans" /\ sound'.todo \subseteq sound.todo /\ sound'.guard = sound.guard
      BY DEF UnloadOrphan, SoundTyped
    <3>2. pulse'.sinks \subseteq pulse.sinks /\ blamed \subseteq blamed'
      BY UnloadSinks DEF UnloadOrphan
    <3>3. \A u \in sound'.todo : u \in AnySink /\ u[1] \in 1..audioPid
      BY <3>1 DEF SinksKnown
    <3> QED BY <2>0, <3>1, <3>2, <3>3, SinksKept
  <2>7. CASE \E r \in sound.todo : MoveInput(r, reply)
    <3> PICK r \in sound.todo : MoveInput(r, reply)
      BY <2>7
    <3>1. pulse'.sinks = pulse.sinks /\ blamed' = blamed
      BY MoveDone DEF MoveInput, PulseTyped
    <3>2. sound'.pc \in {"move", "rDefault"} /\ sound'.guard = sound.guard
      BY DEF MoveInput, SoundTyped
    <3> QED BY <2>0, <3>1, <3>2, NoSinkTouched
  <2> QED BY <2>1, <2>2, <2>3, <2>4, <2>5, <2>6, <2>7
<1>2. CASE RestoreNext
  <2> PICK reply \in Answers :
         \/ CurrentDefault(reply) \/ RestoreDefault(reply) \/ RestoreFind(reply)
         \/ RestoreInputs(reply) \/ UnloadSink(reply)
         \/ \E r \in sound.todo : RestoreMove(r, reply)
    BY <1>2 DEF RestoreNext
  <2>0. audioPid' = audioPid /\ sound'.n = sound.n
    BY <1>2, RouteFrame
  <2>1. CASE CurrentDefault(reply) \/ RestoreFind(reply) \/ RestoreInputs(reply)
    <3>1. pulse' = pulse /\ blamed' = blamed
      BY <2>1, ReadDone DEF CurrentDefault, RestoreFind, RestoreInputs
    <3>2. sound'.pc \in Restoring /\ sound'.guard = sound.guard
      BY <2>1 DEF CurrentDefault, RestoreFind, RestoreInputs, Goto, SoundTyped, Restoring
    <3> QED BY <2>0, <3>1, <3>2, NoSinkTouched DEF Restoring
  <2>2. CASE RestoreDefault(reply)
    <3>1. pulse'.sinks = pulse.sinks /\ blamed' = blamed
      BY <2>2, SetDone DEF RestoreDefault, PulseTyped
    <3>2. sound'.pc = "rFind" /\ sound'.guard = sound.guard
      BY <2>2 DEF RestoreDefault, Goto, SoundTyped
    <3> QED BY <2>0, <3>1, <3>2, NoSinkTouched
  <2>3. CASE UnloadSink(reply)
    <3>1. /\ pulse'.sinks \subseteq pulse.sinks /\ blamed \subseteq blamed'
          /\ Mine \in pulse'.sinks => Mine \in blamed'
      BY <2>3, UnloadSinks DEF UnloadSink, UnloadSkipped
    <3>2. sound'.pc \in {"idle", "failed"}
      BY <2>3 DEF UnloadSink, AudioIdle, SoundTyped
    <3> QED BY <2>0, <3>1, <3>2, SinksKept
  <2>4. CASE \E r \in sound.todo : RestoreMove(r, reply)
    <3> PICK r \in sound.todo : RestoreMove(r, reply)
      BY <2>4
    <3>1. pulse'.sinks = pulse.sinks /\ blamed' = blamed
      BY MoveDone, ZenonT(40) DEF RestoreMove, PulseTyped
    <3>2. sound'.pc \in {"rMove", "unload"} /\ sound'.guard = sound.guard
      BY DEF RestoreMove, SoundTyped
    <3> QED BY <2>0, <3>1, <3>2, NoSinkTouched
  <2> QED BY <2>1, <2>2, <2>3, <2>4
<1>3. CASE StartNext \/ AudioStop
  <2>1. /\ pulse' = pulse /\ blamed' = blamed /\ audioPid' = audioPid /\ sound'.n = sound.n
        /\ sound'.pc \notin {"list", "orphans", "load"} /\ sound'.guard = sound.guard
    BY <1>3 DEF StartNext, SpawnCapture, AwaitStartup, StartFailed, AudioStop, SoundTyped, Goto
  <2> QED BY <2>1, NoSinkTouched
<1>4. CASE AudioJoin
  <2>1. /\ pulse' = pulse /\ blamed' = blamed /\ audioPid' = audioPid /\ sound'.n = sound.n
        /\ sound'.pc \notin {"list", "orphans", "load"} /\ sound'.guard = sound.guard
    BY <1>4 DEF AudioJoin, SoundTyped, AudioIdle
  <2> QED BY <2>1, NoSinkTouched
<1>5. CASE AudioWorld
  BY <1>5, WorldFrame, NoSinkTouched
<1>6. CASE AudioStart
  <2>1. /\ pulse' = pulse /\ blamed' = blamed /\ audioPid' = audioPid /\ sound'.n = sound.n + 1
        /\ sound'.pc # "orphans" /\ ~sound.guard
    BY <1>6 DEF AudioStart, AudioIdle, SoundTyped
  <2>2. Mine' = <<audioPid, sound.n + 1>> /\ Mine'[2] = sound.n + 1 /\ Mine'[1] = audioPid
    BY <2>1 DEF Mine
  <2>3. ASSUME NEW s \in pulse.sinks, s[1] \in 1..MaxAudioPid
        PROVE  s[1] <= audioPid /\ (s[1] = audioPid => s[2] <= sound.n + 1) /\ s # Mine' /\ s \in blamed
    <3>1. s[2] \in Nat /\ sound.n \in Nat /\ audioPid \in Nat
      BY SinkFacts, AudioAssumption DEF PulseTyped, SoundTyped
    <3>2. s[1] = audioPid => s[2] <= sound.n
      BY <2>3 DEF SinksKnown
    <3>3. s[1] = audioPid => s[2] # sound.n + 1 /\ s[2] <= sound.n + 1
      BY ONLY <3>1, <3>2
    <3> QED BY <2>1, <2>2, <2>3, <3>3 DEF SinksKnown
  <2> QED BY <2>1, <2>3 DEF SinksKnown
<1>7. CASE AudioCrash
  <2>1. /\ pulse' = pulse /\ blamed' = blamed \cup Orphans /\ audioPid' = audioPid + 1
        /\ sound'.pc = "idle" /\ sound'.n = sound.n
    BY <1>7 DEF AudioCrash, AudioIdle
  <2>2. ASSUME NEW s \in pulse.sinks, s[1] \in 1..MaxAudioPid
        PROVE  s[1] <= audioPid + 1 /\ s[1] # audioPid + 1 /\ s \in blamed'
    <3>1. s[1] <= audioPid /\ s[1] \in Nat /\ audioPid \in Nat /\ s[1] > 0
      BY <2>2, AudioAssumption DEF SinksKnown, SoundTyped
    <3> QED BY <2>1, <3>1 DEF Orphans, Remote
  <2> QED BY <2>1, <2>2 DEF SinksKnown
<1> QED
  BY <1>1, <1>2, <1>3, <1>4, <1>5, <1>6, <1>7 DEF AudioNext, AudioHandler

-----------------------------------------------------------------------------
(* Audio: the routes of a session nothing disturbs.                        *)

(* The handler's own sink is none of the marks and none of the hardware.   *)
LEMMA MineFacts ==
  ASSUME SoundTyped
  PROVE  /\ Mine \in AnySink /\ Remote(Mine) /\ Mine \notin Hardware
         /\ Mine \notin {NoSink, Silent, Gone, Follow}
  BY SinkFacts, AudioAssumption DEF SoundTyped, Mine, Remote

(* While the sound server and the user's choice stay, so does the view.    *)
LEMMA ViewHeld ==
  ASSUME pulse' = pulse, want' = want, Mine' = Mine
  PROVE  /\ (Untouched' <=> Untouched) /\ (AsFound' <=> AsFound)
         /\ sound'.prev = sound.prev => (PreviousKnown' <=> PreviousKnown)
  BY DEF Untouched, Elsewhere, DefaultKept, GivenBack, AsFound, PreviousKnown, Remote

(* A handler with a guard goes on to its next stage.                       *)
LEMMA GuardHeld ==
  ASSUME Redirected, pulse' = pulse, want' = want, Mine' = Mine,
         sound'.moved = sound.moved, sound'.prev = sound.prev,
         sound.pc = "rMove" => sound'.pc = "rMove", Stage'
  PROVE  Redirected'
<1>1. \A i : Origins(i)' = Origins(i)
  BY DEF Origins
<1>2. DefaultKnown'
  BY DEF Redirected, DefaultKnown, DefaultKept, PreviousKnown, Remote
<1>3. ASSUME NEW i \in Inputs PROVE StreamKnown(i)'
  BY <1>1 DEF Redirected, StreamKnown, Orphaned, Remote
<1> QED BY <1>1, <1>2, <1>3 DEF Redirected, Elsewhere

(* Building the remote sink, up to its load.                               *)
LEMMA BuildRoutes ==
  ASSUME PulseTyped, WantTyped, SoundTyped, SinksKnown, RoutesKnown, PulseTyped', clean', Mine' = Mine,
         NEW reply,
         \/ ListModules(reply) \/ PreviousDefault(reply) \/ LoadSink(reply)
         \/ \E s \in sound.todo : UnloadOrphan(s, reply)
  PROVE  RoutesKnown'
<1>1. CASE ListModules(reply)
  <2>1. pulse' = pulse /\ want' = want /\ clean
    BY <1>1, ReadDone DEF ListModules
  <2>2. sound.pc = "list" /\ sound'.pc = "orphans" /\ ~sound.guard /\ ~sound'.guard /\ sound'.moved = sound.moved
    BY <1>1 DEF ListModules, SoundTyped
  <2> QED BY <2>1, <2>2, ViewHeld DEF RoutesKnown
<1>2. CASE PreviousDefault(reply)
  <2>1. pulse' = pulse /\ want' = want /\ clean /\ reply = "ok"
    BY <1>2, ReadDone DEF PreviousDefault
  <2>2. /\ sound.pc = "orphans" /\ sound'.pc = "load" /\ ~sound.guard /\ ~sound'.guard
        /\ sound'.moved = sound.moved
        /\ sound'.prev = IF Remote(pulse.default) THEN NoSink ELSE pulse.default
    BY <1>2, <2>1 DEF PreviousDefault, SoundTyped
  <2>3. Untouched /\ AsFound /\ sound.moved = {}
    BY <2>1, <2>2 DEF RoutesKnown
  <2>4. PreviousKnown'
    BY <2>1, <2>2, <2>3, MineFacts DEF Untouched, DefaultKept, PreviousKnown, Remote
  <2> QED BY <2>1, <2>2, <2>3, <2>4, ViewHeld DEF RoutesKnown
<1>3. CASE LoadSink(reply)
  <2>1. pulse' = [pulse EXCEPT !.sinks = pulse.sinks \cup {Mine}] /\ want' = want /\ clean /\ reply = "ok"
    BY <1>3, LoadDone DEF LoadSink
  <2>2. /\ sound.pc = "load" /\ sound'.pc = "setDefault" /\ ~sound.guard /\ sound'.guard
        /\ sound'.moved = sound.moved /\ sound'.prev = sound.prev
    BY <1>3, <2>1 DEF LoadSink, SoundTyped
  <2>3. Untouched /\ AsFound /\ sound.moved = {} /\ PreviousKnown
    BY <2>1, <2>2 DEF RoutesKnown
  <2>4. Mine \in pulse'.sinks /\ pulse'.default = pulse.default /\ pulse'.route = pulse.route
    BY <2>1 DEF PulseTyped
  <2>5. pulse.default # Mine /\ \A i \in Inputs : pulse.route[i] # Mine
    BY <2>3, MineFacts DEF PulseTyped, Untouched
  <2>6. \A i : Origins(i)' = {}
    BY <2>2, <2>3 DEF Origins
  <2>7. PreviousKnown'
    BY <2>1, <2>2, <2>3 DEF PreviousKnown, Remote
  <2>8. ASSUME NEW i \in Inputs PROVE StreamKnown(i)'
    <3>1. want'.route[i] = want.route[i] /\ want.route[i] # Mine /\ want.route[i] # Follow
      BY <2>1, <2>3 DEF Untouched, Elsewhere, AsFound
    <3>2. pulse'.route[i] = pulse.route[i] /\ pulse.route[i] # Mine
      BY <2>4, <2>5
    <3>3. pulse.route[i] = want.route[i] \/ Orphaned(i)
      BY <2>3, <3>1 DEF Untouched, GivenBack, Orphaned
    <3>4. want.route[i] \notin pulse.sinks => want'.route[i] \notin pulse'.sinks
      BY <2>1, <3>1 DEF PulseTyped
    <3> QED BY <3>1, <3>2, <3>3, <3>4 DEF StreamKnown, Orphaned, Remote
  <2>9. DefaultKnown'
    BY <2>1, <2>3, <2>4, <2>5 DEF DefaultKnown, DefaultKept, Untouched, Remote
  <2>10. Stage'
    BY <2>2, <2>3, <2>4, <2>5, <2>7 DEF Stage
  <2>11. Redirected'
    BY <2>1, <2>3, <2>4, <2>6, <2>8, <2>9, <2>10 DEF Redirected, Untouched, Elsewhere
  <2> QED BY <2>2, <2>11 DEF RoutesKnown
<1>4. CASE \E s \in sound.todo : UnloadOrphan(s, reply)
  <2> PICK s \in sound.todo : UnloadOrphan(s, reply)
    BY <1>4
  <2>1. sound.pc = "orphans" /\ sound'.pc = "orphans" /\ ~sound.guard /\ ~sound'.guard /\ sound'.moved = sound.moved
    BY DEF UnloadOrphan, SoundTyped
  <2>2. PICK d \in Hardware : clean /\ pulse' = Unloaded(s, d) /\ s \in pulse.sinks /\ want' = want
    BY UnloadDone DEF UnloadOrphan
  <2>3. Untouched /\ AsFound /\ sound.moved = {}
    BY <2>1, <2>2 DEF RoutesKnown
  <2>4. Remote(s)
    BY <2>1, SinkFacts DEF SinksKnown, Remote
  <2>5. /\ pulse'.sinks = pulse.sinks \ {s}
        /\ pulse.default # s => pulse'.default = pulse.default
        /\ \A i \in Inputs : pulse.route[i] # s => pulse'.route[i] = pulse.route[i]
    BY <2>2 DEF Unloaded
  <2>6. Mine \notin pulse'.sinks /\ Elsewhere' /\ AsFound'
    BY <2>2, <2>3, <2>5 DEF Untouched, Elsewhere, AsFound
  <2>7. DefaultKept'
    BY <2>2, <2>3, <2>4, <2>5 DEF Untouched, DefaultKept, Remote
  <2>8. ASSUME NEW i \in Inputs PROVE GivenBack(i)'
    <3>1. want'.route[i] = want.route[i] /\ want.route[i] # Follow
      BY <2>2, <2>3 DEF AsFound
    <3>2. pulse.route[i] = want.route[i] \/ Orphaned(i)
      BY <2>3, <3>1 DEF Untouched, GivenBack, Orphaned
    <3> QED BY <2>4, <2>5, <3>1, <3>2 DEF GivenBack, Orphaned, Remote
  <2>9. Untouched'
    BY <2>6, <2>7, <2>8 DEF Untouched
  <2> QED BY <2>1, <2>3, <2>6, <2>9 DEF RoutesKnown
<1> QED BY <1>1, <1>2, <1>3, <1>4

(* Pointing the default and the streams at it.                             *)
LEMMA RedirectRoutes ==
  ASSUME PulseTyped, WantTyped, SoundTyped, RoutesKnown, clean', Mine' = Mine,
         NEW reply,
         \/ SetDefault(reply) \/ FindSink(reply) \/ ListInputs(reply)
         \/ \E r \in sound.todo : MoveInput(r, reply)
  PROVE  RoutesKnown'
<1>1. CASE SetDefault(reply)
  <2>1. pulse' = [pulse EXCEPT !.default = Mine] /\ want' = want /\ clean /\ reply = "ok"
    BY <1>1, SetDone DEF SetDefault
  <2>2. /\ sound.pc = "setDefault" /\ sound'.pc = "find" /\ sound.guard /\ sound'.guard
        /\ sound'.moved = sound.moved /\ sound'.prev = sound.prev
    BY <1>1, <2>1 DEF SetDefault, Goto, SoundTyped
  <2>3. Redirected
    BY <2>1, <2>2 DEF RoutesKnown
  <2>4. pulse'.sinks = pulse.sinks /\ pulse'.default = Mine /\ pulse'.route = pulse.route
    BY <2>1 DEF PulseTyped
  <2>5. \A i : Origins(i)' = Origins(i)
    BY <2>2 DEF Origins
  <2>6. PreviousKnown' /\ sound.moved = {}
    BY <2>1, <2>2, <2>3 DEF Redirected, Stage, PreviousKnown, Remote
  <2>7. ASSUME NEW i \in Inputs PROVE StreamKnown(i)'
    BY <2>1, <2>2, <2>3, <2>4, <2>5 DEF Redirected, StreamKnown, Orphaned, Remote
  <2>8. DefaultKnown' /\ Stage'
    BY <2>2, <2>4, <2>6 DEF DefaultKnown, Stage
  <2>9. Redirected'
    BY <2>1, <2>3, <2>4, <2>5, <2>7, <2>8 DEF Redirected, Elsewhere
  <2> QED BY <2>2, <2>9 DEF RoutesKnown
<1>2. CASE FindSink(reply)
  <2>1. pulse' = pulse /\ want' = want /\ clean /\ reply = "ok"
    BY <1>2, ReadDone DEF FindSink
  <2>2. /\ sound.pc = "find" /\ sound.guard /\ sound'.guard
        /\ sound'.pc = IF Mine \in pulse.sinks THEN "inputs" ELSE "rDefault"
        /\ sound'.moved = sound.moved /\ sound'.prev = sound.prev
    BY <1>2, <2>1 DEF FindSink, Goto, SoundTyped
  <2>3. Redirected
    BY <2>1, <2>2 DEF RoutesKnown
  <2>4. Stage'
    BY <2>2, <2>3 DEF Redirected, Stage
  <2>5. Redirected'
    BY <2>1, <2>2, <2>3, <2>4, GuardHeld
  <2> QED BY <2>2, <2>5 DEF RoutesKnown
<1>3. CASE ListInputs(reply)
  <2>1. pulse' = pulse /\ want' = want /\ clean /\ reply = "ok"
    BY <1>3, ReadDone DEF ListInputs
  <2>2. /\ sound.pc = "inputs" /\ sound.guard /\ sound'.guard /\ sound'.pc = "move"
        /\ sound'.moved = sound.moved /\ sound'.prev = sound.prev
        /\ sound'.todo = {<<i, pulse.route[i]>> : i \in {j \in Playing : pulse.route[j] # Mine}}
    BY <1>3, <2>1 DEF ListInputs, SoundTyped
  <2>3. Redirected
    BY <2>1, <2>2 DEF RoutesKnown
  <2>4. ASSUME NEW r \in sound'.todo PROVE ToMove(r)'
    <3>1. PICK i \in Inputs : pulse.route[i] \notin {Silent, Gone, Mine} /\ r = <<i, pulse.route[i]>>
      BY <2>2 DEF Playing
    <3>2. Origins(r[1])' = {}
      BY <2>2, <2>3 DEF Origins, Redirected, Stage
    <3> QED BY <2>1, <3>1, <3>2 DEF ToMove
  <2>5. Stage'
    BY <2>2, <2>4 DEF Stage
  <2>6. Redirected'
    BY <2>1, <2>2, <2>3, <2>5, GuardHeld
  <2> QED BY <2>2, <2>6 DEF RoutesKnown
<1>4. CASE \E r \in sound.todo : MoveInput(r, reply)
  <2> PICK r \in sound.todo : MoveInput(r, reply)
    BY <1>4
  <2>1. /\ want' = want /\ clean /\ reply = "ok" /\ r[1] \in Playing
        /\ pulse'.sinks = pulse.sinks /\ pulse'.default = pulse.default
        /\ \A j \in Inputs : pulse'.route[j] = IF j = r[1] THEN Mine ELSE pulse.route[j]
    <3>1. PICK i : i = r[1]
      OBVIOUS
    <3>2. PICK s : s = Mine
      OBVIOUS
    <3>3. PICK b : b = FALSE
      OBVIOUS
    <3>4. Pactl(Move(i, s), b, reply)
      BY <3>1, <3>2, <3>3 DEF MoveInput
    <3>5. /\ want' = want /\ clean /\ reply = "ok" /\ i \in Playing
          /\ pulse'.sinks = pulse.sinks /\ pulse'.default = pulse.default
          /\ \A j \in Inputs : pulse'.route[j] = IF j = i THEN s ELSE pulse.route[j]
      BY <3>4, MoveView
    <3> QED BY <3>1, <3>2, <3>5
  <2>2. /\ sound.pc = "move" /\ sound'.pc = "move" /\ sound.guard /\ sound'.guard
        /\ sound'.moved = sound.moved \cup {r} /\ sound'.prev = sound.prev
        /\ sound'.todo = sound.todo \ {r}
    BY <2>1 DEF MoveInput, SoundTyped, Remember
  <2>3. Redirected /\ \A m \in sound.todo : ToMove(m)
    BY <2>1, <2>2 DEF RoutesKnown, Redirected, Stage
  <2>4. /\ pulse'.sinks = pulse.sinks /\ pulse'.default = pulse.default /\ pulse'.route[r[1]] = Mine
        /\ \A j \in Inputs : j # r[1] => pulse'.route[j] = pulse.route[j]
    BY <2>1 DEF PulseTyped, Playing
  <2>5. r[1] \in Inputs /\ pulse.route[r[1]] = r[2] /\ r[2] \notin {Silent, Gone, Mine, Follow} /\ Origins(r[1]) = {}
    BY <2>1, <2>3, SinkFacts DEF ToMove, Playing, PulseTyped
  <2>6. want.route[r[1]] # Follow /\ (Orphaned(r[1]) \/ want.route[r[1]] = r[2])
    <3>1. StreamKnown(r[1]) /\ pulse.route[r[1]] # Mine /\ sound.pc # "rMove"
      BY <2>2, <2>3, <2>5 DEF Redirected
    <3>2. Orphaned(r[1]) => want.route[r[1]] # Follow
      BY DEF Orphaned, Remote, Follow
    <3> QED BY <2>5, <3>1, <3>2 DEF StreamKnown
  <2>7. Origins(r[1])' = {r[2]} /\ \A j : j # r[1] => Origins(j)' = Origins(j)
    <3>1. Origins(r[1])' = Origins(r[1]) \cup {r[2]}
      BY <2>2 DEF Origins
    <3>2. ASSUME NEW j, j # r[1] PROVE Origins(j)' = Origins(j)
      BY <2>2, <3>2 DEF Origins
    <3> QED BY <2>5, <3>1, <3>2
  <2>8. ASSUME NEW j \in Inputs PROVE StreamKnown(j)' /\ (pulse'.route[j] = Silent => Origins(j)' = {})
    <3>0. Orphaned(j)' <=> Orphaned(j)
      BY <2>1 DEF Orphaned, Remote
    <3>1. CASE j = r[1]
      BY <2>1, <2>4, <2>5, <2>6, <2>7, <3>0, <3>1, MineFacts DEF StreamKnown
    <3>2. CASE j # r[1]
      BY <2>1, <2>2, <2>3, <2>4, <2>7, <3>0, <3>2 DEF Redirected, StreamKnown
    <3> QED BY <3>1, <3>2
  <2>9. DefaultKnown'
    BY <2>1, <2>2, <2>3, <2>4 DEF Redirected, DefaultKnown, DefaultKept, PreviousKnown, Remote
  <2>10. ASSUME NEW m \in sound'.todo PROVE ToMove(m)'
    <3>1. ToMove(m) /\ ToMove(r) /\ m # r
      BY <2>2, <2>3
    <3>2. m[1] # r[1]
      BY <2>5, <3>1 DEF ToMove
    <3> QED BY <2>4, <2>7, <3>1, <3>2 DEF ToMove
  <2>11. Stage'
    BY <2>2, <2>10 DEF Stage
  <2>12. Redirected'
    BY <2>1, <2>3, <2>4, <2>8, <2>9, <2>11 DEF Redirected, Elsewhere
  <2> QED BY <2>2, <2>12 DEF RoutesKnown
<1> QED BY <1>1, <1>2, <1>3, <1>4

(* Restoring: the default first, then the streams, one by one.             *)
LEMMA RestoreRoutes ==
  ASSUME PulseTyped, WantTyped, SoundTyped, RoutesKnown, clean', Mine' = Mine,
         NEW reply,
         \/ CurrentDefault(reply) \/ RestoreDefault(reply) \/ RestoreFind(reply)
         \/ RestoreInputs(reply) \/ \E r \in sound.todo : RestoreMove(r, reply)
  PROVE  RoutesKnown'
<1>1. CASE CurrentDefault(reply)
  <2>1. pulse' = pulse /\ want' = want /\ clean /\ reply = "ok"
    BY <1>1, ReadDone DEF CurrentDefault
  <2>2. /\ sound.pc = "rDefault" /\ sound'.pc = "rSet" /\ sound.guard /\ sound'.guard
        /\ sound'.moved = sound.moved /\ sound'.prev = sound.prev /\ sound'.cur = pulse.default
    BY <1>1, <2>1 DEF CurrentDefault, SoundTyped, Restoring
  <2>3. Redirected
    BY <2>1, <2>2 DEF RoutesKnown
  <2>4. Stage'
    BY <2>1, <2>2 DEF Stage
  <2>5. Redirected'
    BY <2>1, <2>2, <2>3, <2>4, GuardHeld
  <2> QED BY <2>2, <2>5 DEF RoutesKnown
<1>2. CASE RestoreDefault(reply)
  <2>1. /\ sound.pc = "rSet" /\ sound'.pc = "rFind" /\ sound.guard /\ sound'.guard
        /\ sound'.moved = sound.moved /\ sound'.prev = sound.prev /\ sound'.cur = sound.cur
    BY <1>2 DEF RestoreDefault, Goto, SoundTyped, Restoring
  <2>2. clean /\ reply = "ok"
    BY <1>2, SetDone DEF RestoreDefault
  <2>3. Redirected /\ sound.cur = pulse.default
    BY <2>1, <2>2 DEF RoutesKnown, Redirected, Stage
  <2>4. sound.cur # NoSink /\ Fallback' = Fallback
    BY <2>1, <2>3, SinkFacts DEF PulseTyped, Fallback
  <2>5. CASE ShouldRestoreDefault
    <3>1. pulse' = [pulse EXCEPT !.default = sound.prev] /\ want' = want
      BY <1>2, <2>2, <2>5, SetDone DEF RestoreDefault
    <3>2. pulse'.sinks = pulse.sinks /\ pulse'.default = sound.prev /\ pulse'.route = pulse.route
      BY <3>1 DEF PulseTyped
    <3>3. pulse.default = Mine /\ sound.prev # NoSink /\ sound.cur = Mine
      BY <2>3, <2>4, <2>5 DEF ShouldRestoreDefault
    <3>4. PreviousKnown
      BY <2>3, <3>3 DEF Redirected, DefaultKnown
    <3>5. DefaultKept' /\ pulse'.default # Mine
      BY <3>1, <3>2, <3>4 DEF PreviousKnown, DefaultKept, Remote
    <3>6. \A i : Origins(i)' = Origins(i)
      BY <2>1 DEF Origins
    <3>7. ASSUME NEW i \in Inputs PROVE StreamKnown(i)'
      BY <2>1, <2>3, <3>1, <3>2, <3>6 DEF Redirected, StreamKnown, Orphaned, Remote
    <3>8. FallbackKnown'
      BY <2>4, <3>2, <3>3, <3>5 DEF FallbackKnown, Fallback
    <3>9. DefaultKnown' /\ Stage'
      BY <2>1, <3>5, <3>8 DEF DefaultKnown, Stage
    <3>10. Redirected'
      BY <2>3, <3>1, <3>2, <3>6, <3>7, <3>9 DEF Redirected, Elsewhere
    <3> QED BY <2>1, <3>10 DEF RoutesKnown
  <2>6. CASE ~ShouldRestoreDefault
    <3>1. pulse' = pulse /\ want' = want
      BY <1>2, <2>6 DEF RestoreDefault
    <3>2. FallbackKnown
      BY <2>3, <2>4, <2>6 DEF FallbackKnown, Fallback, ShouldRestoreDefault
    <3>3. FallbackKnown'
      BY <2>4, <3>1, <3>2 DEF FallbackKnown
    <3>4. Stage'
      BY <2>1, <3>3 DEF Stage
    <3>5. Redirected'
      BY <2>1, <2>3, <3>1, <3>4, GuardHeld
    <3> QED BY <2>1, <3>5 DEF RoutesKnown
  <2> QED BY <2>5, <2>6
<1>3. CASE RestoreFind(reply)
  <2>1. pulse' = pulse /\ want' = want /\ clean /\ reply = "ok"
    BY <1>3, ReadDone DEF RestoreFind
  <2>2. /\ sound.pc = "rFind" /\ sound.guard /\ sound'.guard
        /\ sound'.pc = IF Mine \in pulse.sinks THEN "rInputs" ELSE "unload"
        /\ sound'.moved = sound.moved /\ sound'.prev = sound.prev /\ sound'.cur = sound.cur
    BY <1>3, <2>1 DEF RestoreFind, Goto, SoundTyped, Restoring
  <2>3. Redirected /\ FallbackKnown /\ Mine \in pulse.sinks
    BY <2>1, <2>2 DEF RoutesKnown, Redirected, Stage
  <2>4. FallbackKnown'
    BY <2>1, <2>2, <2>3 DEF FallbackKnown, Fallback
  <2>5. Stage'
    BY <2>2, <2>3, <2>4 DEF Stage
  <2>6. Redirected'
    BY <2>1, <2>2, <2>3, <2>5, GuardHeld
  <2> QED BY <2>2, <2>3, <2>6 DEF RoutesKnown
<1>4. CASE RestoreInputs(reply)
  <2>1. pulse' = pulse /\ want' = want /\ clean /\ reply = "ok"
    BY <1>4, ReadDone DEF RestoreInputs
  <2>2. /\ sound.pc = "rInputs" /\ sound.guard /\ sound'.guard /\ sound'.pc = "rMove"
        /\ sound'.moved = sound.moved /\ sound'.prev = sound.prev /\ sound'.cur = sound.cur
        /\ sound'.todo = {<<i, FALSE>> : i \in {j \in Playing : pulse.route[j] = Mine}}
    BY <1>4, <2>1 DEF RestoreInputs, SoundTyped, Restoring
  <2>3. Redirected /\ FallbackKnown
    BY <2>1, <2>2 DEF RoutesKnown, Redirected, Stage
  <2>4. FallbackKnown'
    BY <2>1, <2>2, <2>3 DEF FallbackKnown, Fallback
  <2>5. ASSUME NEW r \in sound'.todo PROVE ToMoveBack(r)'
    <3>1. PICK i \in Inputs : pulse.route[i] = Mine /\ r = <<i, FALSE>>
      BY <2>2 DEF Playing
    <3> QED BY <2>1, <3>1 DEF ToMoveBack
  <2>6. ASSUME NEW i \in Inputs, pulse'.route[i] = Mine' PROVE <<i, FALSE>> \in sound'.todo
    BY <2>1, <2>2, <2>6, MineFacts DEF Playing
  <2>7. Stage'
    BY <2>2, <2>4, <2>5, <2>6 DEF Stage
  <2>8. Redirected'
    BY <2>1, <2>2, <2>3, <2>7, GuardHeld
  <2> QED BY <2>2, <2>8 DEF RoutesKnown
<1>5. CASE \E r \in sound.todo : RestoreMove(r, reply)
  <2> PICK r \in sound.todo : RestoreMove(r, reply)
    BY <1>5
  <2>1. sound.pc = "rMove" /\ sound.guard
    BY DEF RestoreMove, SoundTyped, Restoring
  <2>2. clean /\ reply = "ok"
    <3>1. \A c, b : Pactl(c, b, reply) => clean /\ reply = "ok"
      BY DEF Pactl
    <3> QED BY <3>1 DEF RestoreMove
  <2>3. /\ sound'.pc = "rMove" /\ sound'.guard /\ sound'.moved = sound.moved /\ sound'.prev = sound.prev
        /\ sound'.cur = sound.cur /\ sound'.todo = sound.todo \ {r}
    BY <2>1, <2>2 DEF RestoreMove, SoundTyped
  <2>4. Redirected /\ FallbackKnown /\ \A m \in sound.todo : ToMoveBack(m)
    BY <2>1, <2>2 DEF RoutesKnown, Redirected, Stage
  <2>5. \A i \in Inputs : pulse.route[i] = Mine /\ <<i, FALSE>> \notin sound.todo => Stays(i)
    BY <2>1, <2>4 DEF Redirected, Stage
  <2>6. PICK i \in Inputs : i = r[1] /\ r = <<i, FALSE>> /\ ~r[2] /\ pulse.route[i] \in {Mine, Gone} /\ StreamKnown(i)
    <3>1. r = <<r[1], FALSE>> /\ r[1] \in Inputs /\ pulse.route[r[1]] \in {Mine, Gone}
      BY <2>4 DEF ToMoveBack
    <3>2. StreamKnown(r[1])
      BY <2>4, <3>1 DEF Redirected
    <3>3. ~r[2]
      <4>1. \A x, y : <<x, y>>[2] = y
        OBVIOUS
      <4>2. r[2] = FALSE
        BY ONLY <3>1, <4>1, Zenon
      <4> QED BY ONLY <4>2, Zenon
    <3> QED BY ONLY <3>1, <3>2, <3>3, Zenon
  <2>7. \A j : Origins(j)' = Origins(j)
    BY <2>3 DEF Origins
  <2>8. CASE Origins(i) = {} /\ Fallback = NoSink
    <3>1. pulse' = pulse /\ want' = want
      BY <2>6, <2>8 DEF RestoreMove
    <3>2. pulse.default = Mine
      BY <2>4, <2>8, SinkFacts DEF FallbackKnown, PulseTyped
    <3>3. pulse.route[i] = Mine => want.route[i] = Follow
      BY <2>6, <2>8 DEF StreamKnown
    <3>4. FallbackKnown'
      BY <2>3, <2>4, <3>1 DEF FallbackKnown, Fallback
    <3>5. ASSUME NEW m \in sound'.todo PROVE ToMoveBack(m)'
      BY <2>3, <2>4, <3>1 DEF ToMoveBack
    <3>6. ASSUME NEW j \in Inputs, pulse.route[j] = Mine, <<j, FALSE>> \notin sound'.todo PROVE Stays(j)'
      <4>1. CASE j = i
        BY <3>1, <3>2, <3>3, <3>6, <4>1 DEF Stays
      <4>2. CASE j # i
        <5>1. <<j, FALSE>> # r
          BY <2>6, <4>2
        <5> QED BY <2>3, <2>5, <3>1, <3>6, <5>1 DEF Stays
      <4> QED BY <4>1, <4>2
    <3>7. Stage'
      BY <2>3, <3>1, <3>4, <3>5, <3>6 DEF Stage
    <3>8. Redirected'
      BY <2>1, <2>3, <2>4, <3>1, <3>7, GuardHeld
    <3> QED BY <2>3, <3>8 DEF RoutesKnown
  <2>9. CASE ~(Origins(i) = {} /\ Fallback = NoSink)
    <3>1. PICK s : /\ Pactl(Move(i, s), TRUE, reply)
                   /\ s \in IF Origins(i) # {} THEN Origins(i) ELSE {Fallback}
      BY <2>6, <2>9 DEF RestoreMove
    <3>2. PICK b : b = TRUE
      OBVIOUS
    <3>3. /\ want' = want /\ i \in Playing /\ s \in pulse.sinks
          /\ pulse'.sinks = pulse.sinks /\ pulse'.default = pulse.default
          /\ \A j \in Inputs : pulse'.route[j] = IF j = i THEN s ELSE pulse.route[j]
      BY <3>1, <3>2, MoveView
    <3>4. pulse.route[i] = Mine
      BY <2>6, <3>3 DEF Playing
    <3>5. /\ s # Mine
          /\ \/ s = want.route[i] \/ Orphaned(i)
             \/ want.route[i] = Follow /\ s = pulse.default
      <4>1. CASE want.route[i] = Follow /\ Origins(i) = {}
        <5>1. s = Fallback /\ s # NoSink
          BY <2>9, <3>1, <4>1
        <5>2. pulse.default # Mine /\ s = pulse.default
          BY <2>4, <5>1 DEF FallbackKnown
        <5> QED BY <4>1, <5>2
      <4>2. CASE Origins(i) # {} /\ Mine \notin Origins(i) /\ (Orphaned(i) \/ Origins(i) = {want.route[i]})
        BY <3>1, <4>2
      <4> QED BY <2>6, <3>4, <4>1, <4>2 DEF StreamKnown
    <3>6. FallbackKnown'
      BY <2>3, <2>4, <3>3 DEF FallbackKnown, Fallback
    <3>7. DefaultKnown'
      BY <2>3, <2>4, <3>3 DEF Redirected, DefaultKnown, DefaultKept, PreviousKnown, Remote
    <3>8. s # Silent
      BY <3>3, SinkFacts DEF PulseTyped
    <3>9. ASSUME NEW j \in Inputs PROVE StreamKnown(j)' /\ (pulse'.route[j] = Silent => Origins(j)' = {})
      <4>0. Orphaned(j)' <=> Orphaned(j)
        BY <3>3 DEF Orphaned, Remote
      <4>1. CASE j = i
        BY <2>3, <3>3, <3>5, <3>8, <4>0, <4>1 DEF StreamKnown
      <4>2. CASE j # i
        BY <2>1, <2>3, <2>4, <2>7, <3>3, <4>0, <4>2 DEF Redirected, StreamKnown
      <4> QED BY <4>1, <4>2
    <3>10. ASSUME NEW m \in sound'.todo PROVE ToMoveBack(m)'
      <4>1. ToMoveBack(m) /\ m # r
        BY <2>3, <2>4
      <4>2. m[1] # i
        BY <2>6, <4>1 DEF ToMoveBack
      <4> QED BY <3>3, <4>1, <4>2 DEF ToMoveBack
    <3>11. ASSUME NEW j \in Inputs, pulse'.route[j] = Mine, <<j, FALSE>> \notin sound'.todo PROVE Stays(j)'
      <4>1. j # i
        BY <3>3, <3>5, <3>11
      <4>2. <<j, FALSE>> # r
        BY <2>6, <4>1
      <4>3. <<j, FALSE>> \notin sound.todo /\ pulse.route[j] = Mine
        BY <2>3, <3>3, <3>11, <4>1, <4>2
      <4> QED BY <2>5, <3>3, <4>3 DEF Stays
    <3>12. Stage'
      BY <2>3, <3>6, <3>10, <3>11 DEF Stage
    <3>13. Redirected'
      BY <2>4, <3>3, <3>7, <3>9, <3>12 DEF Redirected, Elsewhere
    <3> QED BY <2>3, <3>13 DEF RoutesKnown
  <2> QED BY <2>8, <2>9
<1> QED BY <1>1, <1>2, <1>3, <1>4, <1>5

(* The remote sink goes last: what is still on it began there while there  *)
(* was no default to put back, and follows the sound server's.             *)
LEMMA UnloadRoutes ==
  ASSUME PulseTyped, WantTyped, SoundTyped, RoutesKnown, PulseTyped', clean', Mine' = Mine,
         NEW reply, UnloadSink(reply)
  PROVE  RoutesKnown'
<1>1. PICK d \in Hardware : clean /\ pulse' = Unloaded(Mine, d) /\ want' = want
  BY UnloadDone DEF UnloadSink, UnloadSkipped
<1>2. sound.guard /\ sound.pc \in {"rMove", "unload"} /\ (sound.pc = "rMove" => sound.todo = {})
  BY DEF UnloadSink, SoundTyped, Restoring
<1>3. ~sound'.guard /\ sound'.pc \in {"idle", "failed"}
  BY DEF UnloadSink, SoundTyped, AudioIdle
<1>4. Redirected /\ sound.pc = "rMove" /\ sound.todo = {}
  BY <1>1, <1>2 DEF UnloadSink, SoundTyped, Restoring, RoutesKnown, Redirected, Stage
<1>5. \A i \in Inputs : pulse.route[i] = Mine => Stays(i)
  BY <1>4 DEF Redirected, Stage
<1>6. /\ pulse'.sinks = pulse.sinks \ {Mine}
      /\ pulse.default # Mine => pulse'.default = pulse.default
      /\ \A i \in Inputs : pulse'.route[i] = IF pulse.route[i] = Mine THEN pulse'.default ELSE pulse.route[i]
  BY <1>1 DEF Unloaded
<1>7. ASSUME NEW i \in Inputs PROVE GivenBack(i)'
  <2>1. CASE pulse.route[i] = Mine
    BY <1>1, <1>5, <1>6, <2>1 DEF Stays, GivenBack
  <2>2. CASE pulse.route[i] # Mine
    <3>1. want'.route[i] = want.route[i] /\ pulse'.route[i] = pulse.route[i]
      BY <1>1, <1>6, <2>2
    <3>2. \/ want.route[i] = pulse.route[i] \/ Orphaned(i)
          \/ want.route[i] = Follow /\ pulse.route[i] = pulse.default /\ pulse.default # Mine
      BY <1>4, <2>2 DEF Redirected, StreamKnown
    <3> QED BY <1>6, <3>1, <3>2 DEF GivenBack, Orphaned, Remote
  <2> QED BY <2>1, <2>2
<1>9. DefaultKept'
  <2>1. CASE pulse.default = Mine
    <3>1. Fallback = NoSink /\ PreviousKnown
      BY <1>4, <2>1 DEF Redirected, Stage, FallbackKnown, DefaultKnown
    <3>2. sound.prev = NoSink
      BY <3>1 DEF Fallback
    <3>3. want.default # NoSink
      BY SinkFacts DEF WantTyped
    <3> QED BY <1>1, <3>1, <3>2, <3>3 DEF PreviousKnown, DefaultKept, Remote
  <2>2. CASE pulse.default # Mine
    BY <1>1, <1>4, <1>6, <2>2 DEF Redirected, DefaultKnown, DefaultKept, Remote
  <2> QED BY <2>1, <2>2
<1>8. Untouched'
  BY <1>1, <1>4, <1>6, <1>7, <1>9 DEF Untouched, Redirected, Elsewhere
<1> QED BY <1>3, <1>8 DEF RoutesKnown

(* Starting the thread, stopping and joining it are not about routes.      *)
LEMMA SessionRoutes ==
  ASSUME PulseTyped, WantTyped, SoundTyped, RoutesKnown, clean', Mine' = Mine,
         StartNext \/ AudioStop \/ AudioJoin
  PROVE  RoutesKnown'
<1>1. pulse' = pulse /\ want' = want /\ clean
  BY DEF StartNext, SpawnCapture, AwaitStartup, AudioStop, AudioJoin
<1>2. /\ sound'.guard = sound.guard /\ sound.pc # "rMove"
      /\ sound'.pc \in {"startup", "on", "join", "rDefault", "failed", "idle"}
      /\ sound.guard => sound'.moved = sound.moved /\ sound'.prev = sound.prev
  <2>1. CASE StartNext
    BY <2>1 DEF StartNext, SpawnCapture, AwaitStartup, Goto, StartFailed, SoundTyped
  <2>2. CASE AudioStop
    BY <2>2 DEF AudioStop, SoundTyped
  <2>3. CASE AudioJoin
    BY <2>3 DEF AudioJoin, AudioIdle, SoundTyped
  <2> QED BY <2>1, <2>2, <2>3
<1>3. CASE sound.guard
  <2>1. Redirected
    BY <1>1, <1>3 DEF RoutesKnown
  <2>2. Stage'
    BY <1>2 DEF Stage
  <2>3. Redirected'
    BY <1>1, <1>2, <1>3, <2>1, <2>2, GuardHeld
  <2> QED BY <1>2, <1>3, <2>3 DEF RoutesKnown
<1>4. CASE ~sound.guard
  BY <1>1, <1>2, <1>4, ViewHeld DEF RoutesKnown
<1> QED BY <1>3, <1>4

(* The user and the applications: a stream that changes is where it is due *)
(* afterwards, or begins on the remote sink.                               *)
LEMMA OneStream ==
  ASSUME PulseTyped, WantTyped, SoundTyped, RoutesKnown, clean, Mine' = Mine, sound' = sound,
         NEW i \in Inputs, NEW p, NEW w,
         pulse'.sinks = pulse.sinks, pulse'.default = pulse.default, want'.default = want.default,
         \A j \in Inputs : pulse'.route[j] = IF j = i THEN p ELSE pulse.route[j],
         \A j \in Inputs : want'.route[j] = IF j = i THEN w ELSE want.route[j],
         p # Silent,
         IF p = Mine THEN w = Follow /\ pulse.default = Mine /\ pulse.route[i] = Silent
         ELSE w = p /\ w # Follow,
         p = Gone \/ pulse.route[i] = Silent \/ sound.pc \in QuietPcs
  PROVE  RoutesKnown'
<1>1. \A j : Origins(j)' = Origins(j)
  BY DEF Origins
<1>2. PreviousKnown' <=> PreviousKnown
  BY DEF PreviousKnown, Remote
<1>0. Mine # Follow /\ w # Mine
  BY MineFacts
<1>3. CASE ~sound.guard
  <2>1. Untouched
    BY <1>3 DEF RoutesKnown
  <2>2. p # Mine
    BY <2>1 DEF PulseTyped, Untouched
  <2>3. Untouched'
    BY <1>0, <2>1, <2>2 DEF Untouched, Elsewhere, DefaultKept, GivenBack, Remote
  <2>4. AsFound => AsFound'
    BY <2>2 DEF AsFound
  <2> QED BY <1>2, <1>3, <2>3, <2>4 DEF RoutesKnown
<1>4. CASE sound.guard
  <2>1. Redirected
    BY <1>4 DEF RoutesKnown
  <2>2. ASSUME NEW j \in Inputs PROVE StreamKnown(j)' /\ (pulse'.route[j] = Silent => Origins(j)' = {})
    <3>1. CASE j = i
      BY <1>1, <2>1, <3>1 DEF Redirected, StreamKnown
    <3>2. CASE j # i
      BY <1>1, <2>1, <3>2 DEF Redirected, StreamKnown, Orphaned, Remote
    <3> QED BY <3>1, <3>2
  <2>3. DefaultKnown'
    BY <1>2, <2>1 DEF Redirected, DefaultKnown, DefaultKept, Remote
  <2>4. FallbackKnown => FallbackKnown'
    BY DEF FallbackKnown, Fallback
  <2>5. ASSUME sound.pc = "move", NEW r \in sound.todo PROVE ToMove(r)'
    <3>1. ToMove(r)
      BY <2>1, <2>5 DEF Redirected, Stage
    <3>2. r[1] = i => p = Gone
      BY <2>5, <3>1 DEF ToMove, QuietPcs
    <3> QED BY <1>1, <3>1, <3>2 DEF ToMove
  <2>6. ASSUME sound.pc = "rMove", NEW r \in sound.todo PROVE ToMoveBack(r)'
    <3>1. ToMoveBack(r)
      BY <2>1, <2>6 DEF Redirected, Stage
    <3>2. r[1] = i => p = Gone
      <4>1. pulse.route[r[1]] # Silent
        BY <3>1, MineFacts, SinkFacts DEF ToMoveBack
      <4> QED BY <2>6, <4>1 DEF QuietPcs
    <3> QED BY <3>1, <3>2 DEF ToMoveBack
  <2>7. ASSUME sound.pc = "rMove", NEW j \in Inputs, pulse'.route[j] = Mine, <<j, FALSE>> \notin sound.todo
        PROVE  Stays(j)'
    <3>1. CASE j = i
      BY <2>7, <3>1 DEF Stays
    <3>2. CASE j # i
      <4>1. pulse.route[j] = Mine
        BY <2>7, <3>2
      <4>2. Stays(j)
        BY <2>1, <2>7, <4>1 DEF Redirected, Stage
      <4> QED BY <3>2, <4>2 DEF Stays
    <3> QED BY <3>1, <3>2
  <2>8. Stage'
    BY <1>2, <2>1, <2>4, <2>5, <2>6, <2>7 DEF Redirected, Stage
  <2>9. Redirected'
    BY <1>0, <2>1, <2>2, <2>3, <2>8 DEF Redirected, Elsewhere
  <2> QED BY <1>4, <2>9 DEF RoutesKnown, SoundTyped
<1> QED BY <1>3, <1>4

(* A new default is the user's, and settles the streams that are off the   *)
(* remote sink.                                                            *)
LEMMA NewDefault ==
  ASSUME PulseTyped, WantTyped, SoundTyped, RoutesKnown, clean', Mine' = Mine, sound' = sound,
         NEW d \in Hardware, UserSetsDefault(d)
  PROVE  RoutesKnown'
<1>1. clean /\ sound.pc \in QuietPcs
  BY DEF UserSetsDefault, UserActs
<1>2. /\ pulse'.sinks = pulse.sinks /\ pulse'.default = d /\ pulse'.route = pulse.route
      /\ want'.default = d /\ \A i \in Inputs : want'.route[i] = Settled(i)
  BY DEF UserSetsDefault, UserActs, PulseTyped
<1>3. d # Mine
  BY MineFacts
<1>4. CASE ~sound.guard
  <2>1. Untouched
    BY <1>1, <1>4 DEF RoutesKnown
  <2>2. \A i \in Inputs : pulse.route[i] # Mine /\ pulse.route[i] # Follow
    BY <2>1, MineFacts, SinkFacts DEF PulseTyped, Untouched
  <2>3. Untouched'
    BY <1>2, <1>3, <2>1, <2>2, MineFacts DEF Untouched, Elsewhere, DefaultKept, GivenBack, Settled, Remote
  <2> QED BY <1>1, <1>4, <2>3 DEF RoutesKnown, QuietPcs
<1>5. CASE sound.guard
  <2>1. Redirected
    BY <1>1, <1>5 DEF RoutesKnown
  <2>2. \A i : Origins(i)' = Origins(i)
    BY DEF Origins
  <2>3. ASSUME NEW i \in Inputs PROVE Settled(i) = want.route[i] /\ StreamKnown(i)'
    <3>1. Settled(i) = want.route[i]
      <4>1. Orphaned(i) => want.route[i] # Follow
        BY DEF Orphaned, Remote, Follow
      <4> QED BY <1>1, <2>1, <4>1 DEF Redirected, StreamKnown, Settled, QuietPcs
    <3>2. StreamKnown(i)'
      BY <1>1, <1>2, <2>1, <2>2, <3>1 DEF Redirected, StreamKnown, Orphaned, Remote, QuietPcs
    <3> QED BY <3>1, <3>2
  <2>4. DefaultKnown' /\ Stage'
    BY <1>1, <1>2, <1>3 DEF DefaultKnown, DefaultKept, Stage, QuietPcs
  <2>5. Redirected'
    BY <1>2, <2>1, <2>2, <2>3, <2>4 DEF Redirected, Elsewhere
  <2> QED BY <1>1, <1>5, <2>5 DEF RoutesKnown, QuietPcs
<1> QED BY <1>4, <1>5

(* Whatever the user and the applications do.                              *)
LEMMA UserRoutes ==
  ASSUME PulseTyped, WantTyped, SoundTyped, RoutesKnown, clean', Mine' = Mine, Users
  PROVE  RoutesKnown'
<1>1. sound' = sound
  BY DEF Users, UserSetsDefault, UserMoves, PlayStarts, PlayEnds, UserActs
<1>2. CASE \E d \in Hardware : UserSetsDefault(d)
  BY <1>1, <1>2, NewDefault
<1>4. ASSUME NEW d \in Hardware, NEW i \in Inputs, UserMoves(i, d) PROVE RoutesKnown'
  <2>1. /\ clean /\ sound.pc \in QuietPcs
        /\ pulse' = [pulse EXCEPT !.route[i] = d] /\ want' = [want EXCEPT !.route[i] = d]
    BY <1>4 DEF UserMoves, UserActs
  <2>2. d # Mine /\ d # Silent /\ d # Follow
    BY MineFacts, SinkFacts
  <2>3. /\ pulse'.sinks = pulse.sinks /\ pulse'.default = pulse.default /\ want'.default = want.default
        /\ \A j \in Inputs : pulse'.route[j] = IF j = i THEN d ELSE pulse.route[j]
        /\ \A j \in Inputs : want'.route[j] = IF j = i THEN d ELSE want.route[j]
    BY <2>1 DEF PulseTyped, WantTyped
  <2> QED BY <1>1, <2>1, <2>2, <2>3, OneStream
<1>5. ASSUME NEW i \in Inputs, PlayStarts(i) PROVE RoutesKnown'
  <2> DEFINE p == pulse.default
             w == IF pulse.default = Mine THEN Follow ELSE pulse.default
  <2>1. /\ clean /\ pulse.route[i] = Silent
        /\ pulse' = [pulse EXCEPT !.route[i] = p] /\ want' = [want EXCEPT !.route[i] = w]
    BY <1>5 DEF PlayStarts, UserActs
  <2>2. p # Silent /\ p # Follow
    BY SinkFacts DEF PulseTyped
  <2>3. IF p = Mine THEN w = Follow /\ pulse.default = Mine ELSE w = p /\ w # Follow
    BY <2>2
  <2> HIDE DEF p, w
  <2>4. PICK x, y : x = p /\ y = w
    OBVIOUS
  <2>5. /\ pulse'.sinks = pulse.sinks /\ pulse'.default = pulse.default /\ want'.default = want.default
        /\ \A j \in Inputs : pulse'.route[j] = IF j = i THEN x ELSE pulse.route[j]
        /\ \A j \in Inputs : want'.route[j] = IF j = i THEN y ELSE want.route[j]
    BY <2>1, <2>4 DEF PulseTyped, WantTyped
  <2> QED BY <1>1, <2>1, <2>2, <2>3, <2>4, <2>5, OneStream
<1>6. ASSUME NEW i \in Inputs, PlayEnds(i) PROVE RoutesKnown'
  <2>1. /\ clean
        /\ pulse' = [pulse EXCEPT !.route[i] = Gone] /\ want' = [want EXCEPT !.route[i] = Gone]
    BY <1>6 DEF PlayEnds, UserActs
  <2>2. Gone # Mine /\ Gone # Silent /\ Gone # Follow
    BY MineFacts, SinkFacts
  <2>3. /\ pulse'.sinks = pulse.sinks /\ pulse'.default = pulse.default /\ want'.default = want.default
        /\ \A j \in Inputs : pulse'.route[j] = IF j = i THEN Gone ELSE pulse.route[j]
        /\ \A j \in Inputs : want'.route[j] = IF j = i THEN Gone ELSE want.route[j]
    BY <2>1 DEF PulseTyped, WantTyped
  <2> QED BY <1>1, <2>1, <2>2, <2>3, OneStream
<1> QED BY <1>2, <1>4, <1>5, <1>6 DEF Users

(* Every step of audio leaves the routes known.                            *)
LEMMA RoutesStep ==
  ASSUME PulseTyped, WantTyped, SoundTyped, SinksKnown, RoutesKnown, AudioNext
  PROVE  RoutesKnown'
<1> SUFFICES ASSUME clean' PROVE RoutesKnown'
  BY DEF RoutesKnown
<1>1. PulseTyped'
  BY AudioTyped
<1>2. CASE AudioStart
  <2>1. /\ pulse' = pulse /\ audioPid' = audioPid /\ sound'.n = sound.n + 1
        /\ want'.default = pulse.default /\ want'.route = pulse.route
        /\ sound'.pc \in {"list", "spawn"} /\ ~sound'.guard /\ sound'.moved = {}
    BY <1>2 DEF AudioStart, AudioIdle
  <2>2. \A i \in Inputs : pulse.route[i] # Follow
    BY SinkFacts DEF PulseTyped
  <2>3. AsFound'
    BY <2>1, <2>2 DEF AsFound
  <2>4. Mine' \notin pulse.sinks
    <3>1. Mine' = <<audioPid, sound.n + 1>> /\ Mine'[1] = audioPid /\ Mine'[2] = sound.n + 1
      BY <2>1 DEF Mine
    <3>2. \A s \in pulse.sinks : s[1] = audioPid => s[2] <= sound.n /\ s[2] \in Nat
      BY SinkFacts DEF SinksKnown, PulseTyped, SoundTyped
    <3>3. sound.n \in Nat
      BY AudioAssumption DEF SoundTyped
    <3> QED BY ONLY <3>1, <3>2, <3>3
  <2>6. Elsewhere'
    <3>1. SoundTyped'
      BY SoundStep
    <3>2. Mine' \in AnySink
      BY <3>1, SinkFacts DEF SoundTyped, Mine
    <3>3. Mine' \notin {Silent, Gone}
      BY <3>2, SinkFacts
    <3> QED BY <2>1, <2>4, <3>3 DEF Elsewhere, PulseTyped
  <2>5. Untouched'
    BY <2>1, <2>4, <2>6 DEF Untouched, DefaultKept, GivenBack
  <2> QED BY <2>1, <2>3, <2>5 DEF RoutesKnown
<1>3. CASE AudioCrash \/ BudgetSpent
  BY <1>3 DEF AudioCrash, BudgetSpent
<1>4. CASE AudioThreads
  <2>1. UNCHANGED <<pulse, want, sound, audioPid, clean>>
    BY <1>4 DEF AudioThreads, ThreadStarts, ThreadErrs, ThreadExits, ThreadOnly
  <2> QED
    BY <2>1
    DEF RoutesKnown, Redirected, Stage, Untouched, AsFound, Elsewhere, DefaultKept, GivenBack, PreviousKnown,
        Orphaned, StreamKnown, DefaultKnown, FallbackKnown, Fallback, ToMove, ToMoveBack, Stays, Origins,
        Mine, Remote
<1>5. ASSUME ~AudioStart, ~AudioCrash PROVE Mine' = Mine
  BY <1>5, HandlerFrame
<1>6. CASE Users
  <2>1. Mine' = Mine
    BY <1>6 DEF Users, UserSetsDefault, UserMoves, PlayStarts, PlayEnds, UserActs, Mine
  <2> QED BY <1>6, <2>1, UserRoutes
<1>7. CASE AudioHandler \/ AudioStop
  <2>1. CASE AudioStart \/ AudioCrash
    BY <1>2, <1>3, <2>1
  <2>2. CASE Mine' = Mine
    BY <1>1, <1>7, <2>2, BuildRoutes, RedirectRoutes, RestoreRoutes, UnloadRoutes, SessionRoutes
    DEF AudioHandler, RouteNext, RestoreNext
  <2> QED BY <1>5, <2>1, <2>2
<1> QED
  BY <1>2, <1>3, <1>4, <1>6, <1>7 DEF AudioNext, AudioWorld

(* The inductive invariant of audio.                                       *)
LEMMA AudioInvStep == AudioInv /\ AudioNext => AudioInv'
  BY AudioTyped, SoundStep, SinksStep, ThreadsStep, RoutesStep DEF AudioInv

(* It holds at the start, wherever the user has the streams.               *)
LEMMA AudioInvInit == AudioInit => AudioInv
<1> SUFFICES ASSUME AudioInit PROVE AudioInv
  OBVIOUS
<1>1. want \in SoundStarts
  BY AudioAssumption DEF AudioInit
<1>2. /\ want.default \in Hardware \cup OtherSinks
      /\ want.route \in [Inputs -> Hardware \cup OtherSinks \cup {Silent}]
      /\ want = [default |-> want.default, route |-> want.route]
  BY <1>1, AudioAssumption
<1>3. pulse = [sinks |-> Hardware \cup OtherSinks, default |-> want.default, route |-> want.route]
  BY DEF AudioInit
<1>4. PulseTyped
  BY <1>2, <1>3 DEF PulseTyped, AnySink
<1>5. WantTyped
  BY <1>2, SinkFacts DEF WantTyped
<1>6. sound = AudioIdle(0) /\ audioPid = 1 /\ clean = TRUE /\ blamed = {}
      /\ threads = [n \in 1..MaxSounds |-> NoThread]
  BY DEF AudioInit
<1>7. SoundTyped
  BY <1>6, AudioAssumption DEF SoundTyped, AudioIdle, SomeSink, Restoring
<1>8. \A s \in pulse.sinks : s[1] \notin 1..MaxAudioPid
  BY <1>3, SinkFacts, AudioAssumption
<1>9. SinksKnown
  BY <1>6, <1>8 DEF SinksKnown, AudioIdle
<1>10. ThreadsKnown
  BY <1>6, AudioAssumption DEF ThreadsKnown, AudioIdle, NoThread
<1>11. RoutesKnown
  <2>1. Mine \notin pulse.sinks
    BY <1>7, <1>8, AudioAssumption DEF Mine, SoundTyped
  <2>2. \A i \in Inputs : want.route[i] # Follow
    BY <1>2, SinkFacts
  <2>3. Untouched
    BY <1>2, <1>3, <1>7, <2>1, MineFacts DEF Untouched, Elsewhere, DefaultKept, GivenBack
  <2> QED BY <1>6, <2>3 DEF RoutesKnown, AudioIdle
<1> QED BY <1>4, <1>5, <1>7, <1>9, <1>10, <1>11 DEF AudioInv

(* What the invariant says of a session's end.                             *)
LEMMA AudioInvSound == AudioInv => AudioSound
<1> SUFFICES ASSUME AudioInv PROVE AudioSound
  OBVIOUS
<1>1. RoutesRestored
  BY DEF AudioInv, RoutesRestored, RoutesKnown, Untouched, DefaultKept, SoundTyped
<1>2. NoSinkLeaks
  BY AudioAssumption DEF AudioInv, NoSinkLeaks, SinksKnown, SoundTyped
<1>3. OthersKept
  BY DEF AudioInv, OthersKept, PulseTyped
<1>4. ThreadsToldToStop
  BY DEF AudioInv, ThreadsToldToStop, ThreadsKnown
<1> QED BY <1>1, <1>2, <1>3, <1>4 DEF AudioSound

-----------------------------------------------------------------------------
(* What each component does in a step of the server.                       *)

(* Every step of the server is a step of a component's own, a call of it,  *)
(* or leaves it alone.                                                     *)
LEMMA TlsTaken == [Next]_vars => TlsNext \/ UNCHANGED tlsVars
  BY DEF Next, vars, ServerStep, SetupDone, OnDisconnected, ServeDropped, DropHooks, Exit, OnlyServer,
         OnConnectionInfo, StartSound, EndSession, Signal, Killed, Validate, ClientLeaves,
         DropValidation, Pam, PamHelper, Tls, Hooks, HooksWorld, Sound, SoundWorld

(* The same for validations, which only helpers outlive once the server is *)
(* shutting down.                                                          *)
LEMMA PamTaken ==
  [Next]_vars => \/ PamNext /\ phase \notin {"shutdown", "exited"} /\ phase' = phase
                 \/ (\E a \in Attempts : HelperNext(a)) /\ phase' = phase
                 \/ UNCHANGED pamVars
  BY DEF Next, vars, serverVars, ServerStep, SetupDone, OnDisconnected, ServeDropped, DropHooks, Exit,
         OnlyServer, OnConnectionInfo, StartSound, EndSession, Signal, Killed, Validate, ClientLeaves,
         DropValidation, Pam, PamHelper, Tls, Hooks, HooksWorld, Sound, SoundWorld, Serving, PamNext
(* So is every step an audio step, or none.                                *)
LEMMA AudioTaken == [Next]_vars => AudioNext \/ UNCHANGED audioVars
  BY DEF Next, vars, ServerStep, SetupDone, OnDisconnected, ServeDropped, DropHooks, Exit, OnlyServer,
         OnConnectionInfo, StartSound, EndSession, Signal, Killed, DropChannels, Validate, ClientLeaves,
         DropValidation, Pam, PamHelper, Tls, Hooks, HooksWorld, Sound, SoundWorld, AudioNext

(* The session commands are shut down after everything else: no session    *)
(* begins, no validation runs and no sound is redirected from then on.     *)
PhasesKnown ==
  /\ hooksClosing \/ (~jobsOpen /\ hookConfig # {}) => phase \in {"shutdown", "exited"}
  /\ phase \in {"shutdown", "exited"} =>
       sound.pc = "idle" /\ \A a \in Attempts : attempt[a].pc \in {"idle", "decided"}
  /\ phase = "exited" => ~jobsOpen /\ runner.pc = "ended"

ServerInv == TlsInv /\ PamInv /\ HookInv /\ AudioInv /\ PhasesKnown

(* A session is announced to the hooks only while their queue is open.     *)
LEMMA HooksTaken ==
  [Next]_vars /\ PhasesKnown => HookHandler \/ HookThread \/ HookWorld \/ UNCHANGED hookVars
  BY DEF PhasesKnown, HookHandler, Next, vars, ServerStep, SetupDone, OnDisconnected, ServeDropped,
         DropHooks, Exit, OnlyServer, OnConnectionInfo, StartSound, EndSession, Signal, Killed, Validate,
         ClientLeaves, DropValidation, Pam, PamHelper, Tls, Hooks, HooksWorld, Sound, SoundWorld

(* Once the sound handler is at rest it takes no step of its own.          *)
LEMMA SoundAtRest ==
  ASSUME PulseTyped, SoundTyped, sound.pc = "idle", AudioHandler \/ AudioWorld
  PROVE  sound'.pc = "idle"
<1>1. ~(RouteNext \/ RestoreNext \/ AudioJoin)
  BY RouteFrame
<1>2. ~StartNext
  BY DEF StartNext, SpawnCapture, AwaitStartup
<1> QED BY <1>1, <1>2, WorldFrame DEF AudioHandler

(* The order of the shutdown is kept.                                      *)
LEMMA PhasesStep == ServerInv /\ [Next]_vars => PhasesKnown'
<1> SUFFICES ASSUME ServerInv, [Next]_vars PROVE PhasesKnown'
  OBVIOUS
<1>0. PhasesKnown /\ PulseTyped /\ SoundTyped
  BY DEF ServerInv, AudioInv
<1>1. CASE UNCHANGED vars
  BY <1>0, <1>1 DEF vars, serverVars, pamVars, hookVars, audioVars, PhasesKnown
<1>2. CASE SetupDone \/ ServeDropped \/ Exit
  BY <1>0, <1>2
  DEF SetupDone, ServeDropped, Exit, OnlyServer, pamVars, hookVars, audioVars, PhasesKnown
<1>3. CASE OnDisconnected \/ OnConnectionInfo
  BY <1>0, <1>3
  DEF OnDisconnected, OnConnectionInfo, HookSessionStarted, HookSessionEnded, pamVars, audioVars, PhasesKnown
<1>4. CASE DropHooks
  BY <1>0, <1>4 DEF DropHooks, HooksFlag, HooksClose, serverVars, pamVars, audioVars, PhasesKnown
<1>5. CASE StartSound \/ EndSession \/ Signal \/ Killed
  BY <1>0, <1>5
  DEF StartSound, EndSession, Signal, Killed, Serving, pamVars, hookVars, PhasesKnown
<1>6. CASE \E a \in Attempts : Validate(a) \/ ClientLeaves(a) \/ DropValidation(a) \/ Pam(a)
  BY <1>0, <1>6
  DEF Validate, ClientLeaves, DropValidation, Pam, Serving, serverVars, hookVars, audioVars, PhasesKnown
<1>7. CASE \E a \in Attempts : PamHelper(a)
  <2>1. attempt' = attempt
    BY <1>7 DEF PamHelper, HelperNext, HelperForks, HelperExits
  <2> QED BY <1>0, <1>7, <2>1 DEF PamHelper, serverVars, hookVars, audioVars, PhasesKnown
<1>8. CASE Tls
  BY <1>0, <1>8 DEF Tls, serverVars, pamVars, hookVars, audioVars, PhasesKnown
<1>9. CASE Hooks \/ HooksWorld
  <2>1. /\ hooksClosing' = hooksClosing /\ jobsOpen' = jobsOpen /\ hookConfig' = hookConfig
        /\ runner.pc = "ended" => runner' = runner
    BY <1>9 DEF Hooks, HooksWorld, HookThread, HookWorld, HookTake, HookSpawn, HookClosed, HookLast, HookReap,
           HookTick, HookExits
  <2> QED BY <1>0, <1>9, <2>1 DEF Hooks, HooksWorld, serverVars, pamVars, audioVars, PhasesKnown
<1>10. CASE Sound \/ SoundWorld
  <2>1. sound.pc = "idle" => sound'.pc = "idle"
    BY <1>0, <1>10, SoundAtRest DEF Sound, SoundWorld
  <2> QED BY <1>0, <1>10, <2>1 DEF Sound, SoundWorld, serverVars, pamVars, hookVars, PhasesKnown
<1> QED
  BY <1>1, <1>2, <1>3, <1>4, <1>5, <1>6, <1>7, <1>8, <1>9, <1>10 DEF Next, ServerStep

(* What a component's variables determine.                                 *)
LEMMA Unmoved ==
  /\ TlsInv /\ UNCHANGED tlsVars => TlsInv'
  /\ PamInv /\ UNCHANGED pamVars => PamInv'
  /\ HookInv /\ UNCHANGED hookVars => HookInv'
  /\ AudioInv /\ UNCHANGED audioVars => AudioInv'
<1>1. TlsInv /\ UNCHANGED tlsVars => TlsInv'
  BY DEF TlsInv, tlsVars
<1>2. PamInv /\ UNCHANGED pamVars => PamInv'
  BY DEF PamInv, pamVars
<1>3. HookInv /\ UNCHANGED hookVars => HookInv'
  BY DEF HookInv, HookTyped, HookOrder, HookBalance, HookStopping, Taken, hookVars
<1>4. ASSUME AudioInv, UNCHANGED audioVars PROVE AudioInv'
  <2>1. UNCHANGED <<pulse, sound, threads, audioPid, blamed, clean, want>>
    BY <1>4 DEF audioVars
  <2>2. PulseTyped' /\ WantTyped' /\ SoundTyped' /\ SinksKnown' /\ ThreadsKnown'
    BY <1>4, <2>1 DEF AudioInv, PulseTyped, WantTyped, SoundTyped, SinksKnown, ThreadsKnown, Mine
  <2>3. RoutesKnown'
    BY <1>4, <2>1
    DEF AudioInv, RoutesKnown, Redirected, Stage, Untouched, AsFound, Elsewhere, DefaultKept, GivenBack,
        PreviousKnown, Orphaned, StreamKnown, DefaultKnown, FallbackKnown, Fallback, ToMove, ToMoveBack,
        Stays, Origins, Mine, Remote
  <2> QED BY <2>2, <2>3 DEF AudioInv
<1> QED BY <1>1, <1>2, <1>3, <1>4

-----------------------------------------------------------------------------
(* The server.                                                             *)

(* The invariants of the components and of the shutdown hold at the start. *)
LEMMA ServerInvInit == Init => ServerInv
<1> SUFFICES ASSUME Init PROVE ServerInv
  OBVIOUS
<1>1. TlsInv /\ PamInv /\ HookInv /\ AudioInv
  BY TlsInvInit, PamInvInit, HookInvInit, AudioInvInit DEF Init
<1>2. PhasesKnown
  BY DEF Init, HookInit, PhasesKnown
<1> QED BY <1>1, <1>2 DEF ServerInv

(* Every step of the server keeps them.                                    *)
LEMMA ServerInvStep == ServerInv /\ [Next]_vars => ServerInv'
<1> SUFFICES ASSUME ServerInv, [Next]_vars PROVE ServerInv'
  OBVIOUS
<1>1. TlsInv'
  BY TlsTaken, TlsInvStep, Unmoved DEF ServerInv
<1>2. PamInv'
  BY PamTaken, PamInvStep, Unmoved DEF ServerInv, PamNext
<1>3. HookInv'
  BY HooksTaken, HookHandlerStep, HookThreadStep, Unmoved DEF ServerInv
<1>4. AudioInv'
  BY AudioTaken, AudioInvStep, Unmoved DEF ServerInv
<1> QED BY <1>1, <1>2, <1>3, <1>4, PhasesStep DEF ServerInv

(* The invariant holds throughout a run of the server.                     *)
THEOREM ServerKept == Spec => []ServerInv
<1>1. Init => ServerInv
  BY ServerInvInit
<1>2. ServerInv /\ [Next]_vars => ServerInv'
  BY ServerInvStep
<1> QED BY <1>1, <1>2, PTL DEF Spec

(* However many servers start at once, fail and start again, a loaded      *)
(* certificate belongs to the loaded key, and an identity that is complete *)
(* on disk is never replaced (TlsIdentity).                                *)
THEOREM IdentityKept == Spec => TlsSound
<1>1. ServerInv /\ [Next]_vars =>
        [TlsPairMatches' /\ (Present => UNCHANGED <<certFile, keyFile>>)]_tlsVars
  <2> SUFFICES ASSUME TlsInv, TlsInv', TlsNext
               PROVE  TlsPairMatches' /\ (Present => UNCHANGED <<certFile, keyFile>>)
    BY TlsTaken, ServerInvStep DEF ServerInv
  <2>1. TlsPairMatches'
    BY DEF TlsInv, TlsPairMatches
  <2>2. ASSUME certFile # 0 PROVE UNCHANGED <<certFile, keyFile>>
    <3> PICK p \in Starters : TlsStep(p) \/ TlsFails(p) \/ TlsAgain(p)
      BY DEF TlsNext
    <3>1. starter[p].pc \notin Generating
      BY <2>2 DEF TlsInv
    <3>2. ~(TlsWriteKey(p) \/ TlsWriteCert(p) \/ TlsRenameKey(p) \/ TlsRenameCert(p))
      BY <3>1 DEF Generating, Locked, Step, TlsWriteKey, TlsWriteCert, TlsRenameKey, TlsRenameCert
    <3> QED
      BY <3>2 DEF TlsStep, TlsCheck, TlsLock, TlsRecheck, TlsLoadCert, TlsLoadKey, TlsFails, TlsAgain, tlsFiles
  <2> QED BY <2>1, <2>2 DEF Present
<1> QED BY <1>1, ServerKept, PTL DEF Spec, TlsSound

(* A client gets in only as the desktop's own user, no process of a        *)
(* validation outlives it, and the server exits with nothing of a session  *)
(* left behind, for any number of validations, sessions and failures.      *)
THEOREM NobodyElseAdmitted == Spec => []PamSound
<1>1. ServerInv => PamSound
  <2> SUFFICES ASSUME ServerInv PROVE PamSound
    OBVIOUS
  <2>1. AcceptedIsOwn
    <3> SUFFICES ASSUME NEW a \in Attempts, attempt[a].decision = "accept"
                 PROVE  /\ attempt[a].cred.wellFormed /\ attempt[a].cred.pam
                        /\ attempt[a].cred.user = "own" /\ attempt[a].cred.final = "own"
      BY DEF AcceptedIsOwn
    <3>1. attempt[a].cred \in Credentials /\ HelperCode(attempt[a].cred) = "0"
      BY DEF ServerInv, PamInv, AttemptRecord
    <3> QED BY <3>1, HelperCodeFacts
  <2>2. GroupsGone
    BY DEF GroupsGone, ServerInv, PamInv, Busy
  <2>3. NothingLeftAtExit
    <3> SUFFICES ASSUME phase = "exited"
                 PROVE  /\ \A a \in Attempts : ~helper[a].leader /\ ~helper[a].others
                        /\ \A s \in pulse.sinks : s[1] \in 1..audioPid => s \in blamed
                        /\ jobs = <<>> /\ ~hookActive
      BY DEF NothingLeftAtExit
    <3>1. \A a \in Attempts : ~helper[a].leader /\ ~helper[a].others
      BY DEF ServerInv, PhasesKnown, PamInv
    <3>2. \A s \in pulse.sinks : s[1] \in 1..audioPid => s \in blamed
      BY AudioInvSound DEF ServerInv, PhasesKnown, AudioSound, NoSinkLeaks
    <3>3. jobs = <<>> /\ ~hookActive
      BY DEF ServerInv, PhasesKnown, HookInv, HookTyped
    <3> QED BY <3>1, <3>2, <3>3
  <2> QED BY <2>1, <2>2, <2>3 DEF PamSound
<1> QED BY <1>1, ServerKept, PTL

(* Session commands run one after the other, each start is followed by its *)
(* end, and shutdown waits for them no longer than two deadlines, for any  *)
(* number of sessions and any deadline.                                    *)
THEOREM HooksKept == Spec => []HooksSound
<1>1. ServerInv => HooksSound
  <2> SUFFICES ASSUME HookInv PROVE HooksSound
    BY DEF ServerInv
  <2>1. HooksInOrder
    <3>1. hookAlive \ stragglers \subseteq {running.id}
      BY DEF HookInv, HookOrder
    <3>2. IsFiniteSet({running.id}) /\ Cardinality({running.id}) = 1
      BY FS_Singleton
    <3>3. Cardinality(hookAlive \ stragglers) <= Cardinality({running.id})
      BY <3>1, <3>2, FS_Subset
    <3> QED BY <3>2, <3>3 DEF HooksInOrder
  <2>2. HooksBalanced
    <3> SUFFICES ASSUME hookConfig = HookNames
                 PROVE  /\ \A i \in DOMAIN launched : launched[i] = IF i % 2 = 1 THEN "start" ELSE "end"
                        /\ runner.pc = "ended" => Len(launched) % 2 = 0
      BY DEF HooksBalanced, HookNames
    <3>1. launched \in Seq(HookNames) /\ DOMAIN launched = 1..Len(launched) /\ Len(launched) \in Nat
      BY DEF HookInv, HookTyped
    <3>2. \A i \in 1..Len(launched) : launched[i] = Expected(i)
      BY DEF HookInv, HookBalance
    <3>3. ASSUME runner.pc = "ended" PROVE ~Odd(Len(launched))
      <4>1. jobs = <<>> /\ ~hookActive
        BY <3>3 DEF HookInv, HookTyped
      <4>2. ~Odd(Taken + Len(jobs)) /\ Len(jobs) = 0
        BY <4>1 DEF HookInv, HookBalance
      <4> QED BY <3>1, <3>3, <4>2 DEF Taken
    <3> QED BY <3>1, <3>2, <3>3 DEF Expected, Odd
  <2>3. HooksStopInTime
    BY DEF HookInv, HookStopping, HooksStopInTime
  <2> QED BY <2>1, <2>2, <2>3 DEF HooksSound
<1> QED BY <1>1, ServerKept, PTL

(* For any hardware, streams, handlers, processes and failures: after a    *)
(* session nobody disturbed, the default sink and every stream are where   *)
(* the session found them or the user put them meanwhile, but for a        *)
(* default that is a remote sink and streams of orphaned sinks; and after  *)
(* any session no sink is left that could have been unloaded and no thread *)
(* records without being told to stop (RedirectRouteGuard).                *)
THEOREM SoundGivenBack == Spec => []AudioSound
<1>1. ServerInv => AudioSound
  BY AudioInvSound DEF ServerInv
<1> QED BY <1>1, ServerKept, PTL
===============================================================================
