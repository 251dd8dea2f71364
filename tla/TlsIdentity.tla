----------------------------- MODULE TlsIdentity -----------------------------
(***************************************************************************)
(* The self-signed identity (src/src/server/tls.rs): servers that start at *)
(* the same time share one certificate and key, generated by whichever     *)
(* gets the file lock first.  A server that fails or is killed leaves the  *)
(* files as they are; the kernel releases its lock.                        *)
(*                                                                         *)
(* A file holds the number of the key pair it was made from; 0 is no file. *)
(***************************************************************************)
EXTENDS Integers

CONSTANTS
  Starters,   \* server processes that start
  NoStarter,
  MaxPairs    \* bound on the key pairs generated

ASSUME TlsAssumption == MaxPairs \in Nat \ {0} /\ NoStarter \notin Starters

VARIABLES
  starter,   \* each server: [pc, pair, cert, key]
  keyFile, certFile,  \* key.pem and cert.pem
  tmpKey, tmpCert,    \* .key.pem.tmp and .cert.pem.tmp
  tlsLock,   \* the server that holds .tls.lock
  pairs      \* the key pairs generated so far

tlsVars == <<starter, keyFile, certFile, tmpKey, tmpCert, tlsLock, pairs>>
tlsFiles == <<keyFile, certFile, tmpKey, tmpCert>>

AtStart == [pc |-> "check", pair |-> 0, cert |-> 0, key |-> 0]

TlsInit ==
  /\ starter = [p \in Starters |-> AtStart]
  /\ keyFile = 0 /\ certFile = 0 /\ tmpKey = 0 /\ tmpCert = 0
  /\ tlsLock = NoStarter /\ pairs = 0

Step(p, from, to) == starter[p].pc = from /\ starter' = [starter EXCEPT ![p].pc = to]
Unlocked(p) == IF tlsLock = p THEN NoStarter ELSE tlsLock

(* Mutant: one of the two files is enough.                                 *)
EitherPresent == certFile # 0 \/ keyFile # 0

Present == certFile # 0 /\ keyFile # 0

TlsCheck(p) ==
  /\ Step(p, "check", IF Present THEN "cert" ELSE "lock")
  /\ UNCHANGED <<tlsFiles, tlsLock, pairs>>

TlsLock(p) ==
  /\ Step(p, "lock", "recheck") /\ tlsLock = NoStarter /\ tlsLock' = p
  /\ UNCHANGED <<tlsFiles, pairs>>

(* Mutant: the answer from before the lock is trusted.                     *)
PresentBeforeLock == FALSE

PresentUnderLock == Present

(* The second look at the files; the pair exists, or is generated.         *)
TlsRecheck(p) ==
  /\ starter[p].pc = "recheck"
  /\ IF PresentUnderLock
     THEN /\ starter' = [starter EXCEPT ![p].pc = "cert"]
          /\ tlsLock' = NoStarter /\ UNCHANGED pairs
     ELSE /\ pairs < MaxPairs /\ pairs' = pairs + 1
          /\ starter' = [starter EXCEPT ![p].pc = "writeKey", ![p].pair = pairs + 1]
          /\ UNCHANGED tlsLock
  /\ UNCHANGED tlsFiles

TlsWriteKey(p) ==
  /\ Step(p, "writeKey", "writeCert") /\ tmpKey' = starter[p].pair
  /\ UNCHANGED <<keyFile, certFile, tmpCert, tlsLock, pairs>>

TlsWriteCert(p) ==
  /\ Step(p, "writeCert", "renameKey") /\ tmpCert' = starter[p].pair
  /\ UNCHANGED <<keyFile, certFile, tmpKey, tlsLock, pairs>>

TlsRenameKey(p) ==
  /\ Step(p, "renameKey", "renameCert") /\ keyFile' = tmpKey /\ tmpKey' = 0
  /\ UNCHANGED <<certFile, tmpCert, tlsLock, pairs>>

TlsRenameCert(p) ==
  /\ Step(p, "renameCert", "cert") /\ certFile' = tmpCert /\ tmpCert' = 0
  /\ tlsLock' = NoStarter
  /\ UNCHANGED <<keyFile, tmpKey, pairs>>

(* TlsIdentityCtx::init_from_paths (external) reads one file, then the     *)
(* other.                                                                  *)
TlsLoadCert(p) ==
  /\ starter[p].pc = "cert"
  /\ starter' = [starter EXCEPT ![p].pc = "key", ![p].cert = certFile]
  /\ UNCHANGED <<tlsFiles, tlsLock, pairs>>

TlsLoadKey(p) ==
  /\ starter[p].pc = "key"
  /\ starter' = [starter EXCEPT ![p].pc = "up", ![p].key = keyFile]
  /\ UNCHANGED <<tlsFiles, tlsLock, pairs>>

(* A write or rename fails, or the process is killed; it may be started    *)
(* again.                                                                  *)
TlsFails(p) ==
  /\ starter[p].pc \notin {"up", "down"} /\ starter' = [starter EXCEPT ![p] = [AtStart EXCEPT !.pc = "down"]]
  /\ tlsLock' = Unlocked(p) /\ UNCHANGED <<tlsFiles, pairs>>

TlsAgain(p) ==
  /\ starter[p].pc = "down" /\ pairs < MaxPairs
  /\ starter' = [starter EXCEPT ![p] = AtStart]
  /\ UNCHANGED <<tlsFiles, tlsLock, pairs>>

TlsStep(p) ==
  \/ TlsCheck(p) \/ TlsLock(p) \/ TlsRecheck(p) \/ TlsWriteKey(p) \/ TlsWriteCert(p)
  \/ TlsRenameKey(p) \/ TlsRenameCert(p) \/ TlsLoadCert(p) \/ TlsLoadKey(p)

TlsNext == \E p \in Starters : TlsStep(p) \/ TlsFails(p) \/ TlsAgain(p)

-----------------------------------------------------------------------------
(* A server serves a certificate made from its key, whatever other servers *)
(* were doing, and wherever one of them stopped, while it read the files.  *)
TlsPairMatches ==
  \A p \in Starters : starter[p].pc = "up" => starter[p].cert # 0 /\ starter[p].cert = starter[p].key

(* Servers that start together, or after one that was killed, serve one    *)
(* matching pair, and no step replaces a pair that is in place: clients    *)
(* pin it.                                                                 *)
TlsSound ==
  [][TlsPairMatches' /\ (Present => UNCHANGED <<certFile, keyFile>>)]_tlsVars
===============================================================================
