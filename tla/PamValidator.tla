----------------------------- MODULE PamValidator -----------------------------
(***************************************************************************)
(* PAM authentication (src/src/server/auth): validate runs a helper        *)
(* process per attempt, one at a time, kills the helper's process group    *)
(* when it has answered, is late, or the attempt is dropped, and turns its *)
(* exit status into a decision.                                            *)
(*                                                                         *)
(* A user name stands for the account it resolves to: "own" (the uid of    *)
(* this desktop), "other", "none" (no such account) or "error".  PAM and   *)
(* its modules, which may rename the user and leave processes behind in    *)
(* the helper's group, are external.                                       *)
(***************************************************************************)
EXTENDS Integers, FiniteSets

CONSTANTS
  Attempts,    \* credential validations, of one connection each
  NoAttempt,
  PamCredentials  \* the credentials tried

Accounts == {"own", "other", "none", "error"}

(* What a client sends, and what PAM will make of it.                      *)
Credentials == [wellFormed : BOOLEAN, user : Accounts, pam : BOOLEAN, final : Accounts]

ASSUME PamAssumption == NoAttempt \notin Attempts /\ PamCredentials \subseteq Credentials

VARIABLES
  attempt,   \* each attempt: [pc, cred, decision, outcome]
  slot,      \* the attempt that holds the one permit of slots
  helper,    \* each attempt's helper: [leader, others, code]
  pamOn       \* PAM authentication is configured

pamVars == <<attempt, slot, helper, pamOn>>

NoHelper == [leader |-> FALSE, others |-> FALSE, code |-> "none"]

NewAttempt(c) == [pc |-> "idle", cred |-> c, decision |-> "none", outcome |-> "none"]

PamInit ==
  /\ attempt \in [Attempts -> {NewAttempt(c) : c \in PamCredentials}]
  /\ slot = NoAttempt /\ helper = [a \in Attempts |-> NoHelper]

-----------------------------------------------------------------------------
(* The helper process.                                                     *)

(* Mutant: the account named by the client is the one authorised.          *)
FinalUser(c) == c.user

(* The account PAM ended with, after its modules renamed the user.         *)
AuthorisedUser(c) == c.final

(* authenticate, as the exit status of dispatch_helper.                    *)
HelperCode(c) ==
  CASE ~c.wellFormed -> "1"
    [] c.wellFormed /\ c.user = "error" -> "2"
    [] c.wellFormed /\ c.user \in {"other", "none"} -> "1"
    [] c.wellFormed /\ c.user = "own" /\ ~c.pam -> "1"
    [] OTHER -> CASE AuthorisedUser(c) = "own" -> "0"
                  [] AuthorisedUser(c) = "error" -> "2"
                  [] OTHER -> "1"

(* A module of PAM leaves a process behind.                                *)
HelperForks(a) ==
  /\ helper[a].leader /\ ~helper[a].others
  /\ helper' = [helper EXCEPT ![a].others = TRUE]
  /\ UNCHANGED <<attempt, slot, pamOn>>

(* It answers, or dies of a signal.  It may also do neither.               *)
HelperExits(a, code) ==
  /\ helper[a].leader
  /\ helper' = [helper EXCEPT ![a].leader = FALSE, ![a].code = code]
  /\ UNCHANGED <<attempt, slot, pamOn>>

-----------------------------------------------------------------------------
(* validate and run_helper.                                                *)

Decide(a, decision) ==
  [attempt EXCEPT ![a].pc = "decided", ![a].decision = decision]

PamBegin(a) ==
  /\ pamOn /\ attempt[a].pc = "idle"
  /\ IF ~attempt[a].cred.wellFormed \/ slot # NoAttempt
     THEN attempt' = Decide(a, "reject") /\ UNCHANGED slot
     ELSE attempt' = [attempt EXCEPT ![a].pc = "spawn"] /\ slot' = a
  /\ UNCHANGED <<helper, pamOn>>

(* spawn may fail, and writing the request may.                            *)
PamSpawn(a, spawned) ==
  /\ attempt[a].pc = "spawn"
  /\ IF spawned THEN /\ attempt' = [attempt EXCEPT ![a].pc = "wait"]
                     /\ helper' = [helper EXCEPT ![a].leader = TRUE]
                     /\ UNCHANGED slot
     ELSE attempt' = Decide(a, "error") /\ slot' = NoAttempt /\ UNCHANGED helper
  /\ UNCHANGED pamOn

(* Mutant: there is no deadline.                                           *)
NeverLate(a) == FALSE

Late(a) == helper[a].leader

PamOutcome(a, outcome) ==
  /\ attempt[a].pc = "wait"
  /\ \/ outcome = "status" /\ ~helper[a].leader
     \/ outcome = "timeout" /\ Late(a)
     \/ outcome = "write"
  /\ attempt' = [attempt EXCEPT ![a].pc = "kill", ![a].outcome = outcome]
  /\ UNCHANGED <<slot, helper, pamOn>>

Dead(h) == [leader |-> FALSE, others |-> FALSE,
            code |-> IF h.leader THEN "signal" ELSE h.code]

(* Mutant: only the helper itself is killed.                               *)
ChildKilled(h) == [Dead(h) EXCEPT !.others = h.others]

(* kill_group                                                              *)
GroupKilled(h) == Dead(h)

(* A helper that was killed, or whose request could not be written, gives  *)
(* no status.                                                              *)
Verdict(a) ==
  CASE attempt[a].outcome # "status" -> "error"
    [] helper[a].code = "0" -> "accept"
    [] helper[a].code = "1" -> "reject"
    [] OTHER -> "error"

PamKill(a) ==
  /\ attempt[a].pc = "kill"
  /\ helper' = [helper EXCEPT ![a] = GroupKilled(helper[a])]
  /\ attempt' = [attempt EXCEPT ![a].pc = "reap"]
  /\ UNCHANGED <<slot, pamOn>>

PamReap(a) ==
  /\ attempt[a].pc = "reap" /\ ~helper[a].leader
  /\ attempt' = Decide(a, Verdict(a)) /\ slot' = NoAttempt
  /\ UNCHANGED <<helper, pamOn>>

(* Mutant: the permit of a dropped attempt is not given back.              *)
PermitKept(a) == slot

PermitAfterDrop(a) == IF slot = a THEN NoAttempt ELSE slot

(* The connection is dropped: PamChild is dropped, then the permit.        *)
PamDrop(a) ==
  /\ attempt[a].pc \in {"spawn", "wait", "kill", "reap"}
  /\ helper' = [helper EXCEPT ![a] = GroupKilled(helper[a])]
  /\ attempt' = Decide(a, "dropped") /\ slot' = PermitAfterDrop(a)
  /\ UNCHANGED pamOn

(* What validate does without a failure to write the request.              *)
PamTimely(a) ==
  \/ \E ok \in BOOLEAN : PamSpawn(a, ok)
  \/ \E o \in {"status", "timeout"} : PamOutcome(a, o)
  \/ PamKill(a) \/ PamReap(a)

PamStep(a) == PamTimely(a) \/ PamOutcome(a, "write")

HelperNext(a) ==
  \/ HelperForks(a) \/ HelperExits(a, HelperCode(attempt[a].cred)) \/ HelperExits(a, "signal")

-----------------------------------------------------------------------------
(* "Authorization is on the final UID" (pam.rs:147), and on nothing but an *)
(* answer in time: only a helper that ran to its end under this uid lets a *)
(* client in.                                                              *)
AcceptedIsOwn ==
  \A a \in Attempts : attempt[a].decision = "accept" =>
    /\ attempt[a].cred.wellFormed /\ attempt[a].cred.pam
    /\ attempt[a].cred.user = "own" /\ attempt[a].cred.final = "own"

(* No process of a helper's group outlives the attempt, whether it ended   *)
(* with an answer, late, or because the connection was dropped; so at most *)
(* one group runs.                                                         *)
GroupsGone ==
  \A a \in Attempts : helper[a].leader \/ helper[a].others => slot = a

(* A validation that began ends, though PAM hangs: the one slot does not   *)
(* stay taken.                                                             *)
SlotComesBack == slot # NoAttempt ~> slot = NoAttempt

===============================================================================
