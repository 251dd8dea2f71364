---------------------------- MODULE OutboundProofs ----------------------------
(***************************************************************************)
(* TLAPS proofs about Outbound, for any copies, reads, locks and depth of  *)
(* the queue.                                                              *)
(***************************************************************************)
EXTENDS Outbound, FiniteSetTheorems, TLAPS

Ids == Nat \cup LockIds
Types == {"announce", "accepted", "bytes", "data", "lock", "unlock", "read", "copy", "list",
          "paste"}
Message == [type : Types, table : Nat, id : Ids, lock : Ids]
Read == [id : Ids, lock : Ids, table : Nat]

Announces == {m \in Message : m.type = "announce"}
Acceptances == {m \in Message : m.type = "accepted"}
Requests == {m \in Message : m.type = "read"}
Answers == {m \in Message : m.type = "bytes"}
RealReads == {r \in Read : r.id # 0}

(* How many elements of a queue are in a set.                              *)
Count(q, S) == Cardinality({i \in DOMAIN q : q[i] \in S})
Unit(e, S) == IF e \in S THEN 1 ELSE 0
NoneOf(q, S) == \A i \in 1..Len(q) : q[i] \notin S

(* The records, by their fields.                                           *)
FrozenOf(announced, confirmed, entries, gen, locked, locking, pending, stream) ==
  [announced |-> announced, confirmed |-> confirmed, entries |-> entries, gen |-> gen,
   locked |-> locked, locking |-> locking, pending |-> pending, stream |-> stream]
CacheOf(image, text) == [image |-> image, text |-> text]
SlotOf(gen, table) == [gen |-> gen, table |-> table]
WorkerOf(gen, pc, read, table) == [gen |-> gen, pc |-> pc, read |-> read, table |-> table]
DeskOf(formats, gen, pc, sel) == [formats |-> formats, gen |-> gen, pc |-> pc, sel |-> sel]
PeerOf(copies, locks, outstanding, reads, table) ==
  [copies |-> copies, locks |-> locks, outstanding |-> outstanding, reads |-> reads,
   table |-> table]

(* Types.                                                                  *)
FrozenTyped ==
  /\ frozen = FrozenOf(frozen.announced, frozen.confirmed, frozen.entries, frozen.gen,
                       frozen.locked, frozen.locking, frozen.pending, frozen.stream)
  /\ frozen.gen \in Nat /\ frozen.entries \in Nat /\ frozen.pending \in Nat
  /\ frozen.announced \in Nat /\ frozen.confirmed \in Nat

WorkTyped ==
  /\ cache = CacheOf(cache.image, cache.text) /\ cache.text \in Nat
  /\ slot = SlotOf(slot.gen, slot.table) /\ slot.gen \in Nat /\ slot.table \in Nat
  /\ worker = WorkerOf(worker.gen, worker.pc, worker.read, worker.table)
  /\ worker.gen \in Nat /\ worker.table \in Nat /\ worker.read \in Read
  /\ desk = DeskOf(desk.formats, desk.gen, desk.pc, desk.sel)
  /\ desk.gen \in Nat /\ desk.sel \in Nat
  /\ copied \in Nat /\ handled \in Nat

PeerTyped ==
  /\ peer = PeerOf(peer.copies, peer.locks, peer.outstanding, peer.reads, peer.table)
  /\ peer.table \in Nat /\ peer.reads \in Nat /\ peer.outstanding \in Int
  /\ DOMAIN peer.locks \subseteq LockIds
  /\ \A id \in DOMAIN peer.locks : peer.locks[id] \in Nat

QueuesTyped == commands \in Seq(Read) /\ up \in Seq(Message) /\ down \in Seq(Message)

OutboundTyped == FrozenTyped /\ WorkTyped /\ PeerTyped /\ QueuesTyped

(* The watcher works on the selection it handled last.  A selection handed *)
(* to the worker, or walked by it, for the present generation is that one; *)
(* no generation was given out that is yet to come.                        *)
WalkCurrent ==
  /\ desk.pc # "idle" => desk.sel = handled
  /\ desk.pc = "freeze" => desk.gen <= frozen.gen
  /\ slot # NoSlot => slot.gen <= frozen.gen /\ (slot.gen = frozen.gen => slot.table = handled)
  /\ worker.pc = "walk" =>
       worker.gen <= frozen.gen /\ (worker.gen = frozen.gen => worker.table = handled)

(* The drop of the worker: the watcher is gone, the flag is set, and after *)
(* the selection is cleared a walk is for an earlier generation.           *)
DropKnown ==
  /\ task \in {"clear", "wait", "ended"} => stopping /\ desk.pc = "idle"
  /\ task \in {"wait", "ended"} /\ worker.pc = "walk" => worker.gen < frozen.gen

(* An announcement is pending from when it is sent until its answer is     *)
(* taken; a table is confirmed only when nothing is pending.  f is the     *)
(* frozen selection, d and u are the channels, p is the client.            *)
PendingCounted(f, d, u) ==
  /\ f.pending = Count(d, Announces) + Count(u, Acceptances)
  /\ f.confirmed # 0 => f.pending = 0 /\ f.confirmed = f.announced

(* The last announcement on the way is of the announced table.             *)
LastAnnounced(d, t) ==
  \A i \in 1..Len(d) :
    d[i].type = "announce" /\ (\A j \in (i + 1)..Len(d) : d[j].type # "announce") => d[i].table = t

(* A lock on the way was made on the table the client had; one behind the  *)
(* answers to all announcements was made on the announced table.           *)
LocksMade(u, locks) ==
  \A i \in 1..Len(u) :
    u[i].type = "lock" => u[i].id \in DOMAIN locks /\ u[i].table = locks[u[i].id]

LocksCurrent(u, t) ==
  \A i \in 1..Len(u) :
    u[i].type = "lock" /\ (\A j \in (i + 1)..Len(u) : u[j].type # "accepted") => u[i].table = t

(* What is locked is what the client locked.                               *)
LockedOf(locked, locks) ==
  DOMAIN locked \subseteq DOMAIN locks /\ \A id \in DOMAIN locked : locked[id] = locks[id]

TablesKnown(f, d, u, p) ==
  /\ PendingCounted(f, d, u)
  /\ LastAnnounced(d, f.announced)
  /\ NoneOf(d, Announces) => p.table \in {0, f.announced} /\ LocksCurrent(u, f.announced)
  /\ LocksMade(u, p.locks)
  /\ LockedOf(f.locked, p.locks)

(* A read under a lock is resolved to the table of the lock, or refused:   *)
(* in the channel u, the queue c, with the worker w and answered in d.     *)
OfLock(r, locks) == r.lock # 0 => r.lock \in DOMAIN locks /\ r.table \in {0, locks[r.lock]}

Asking(u, locks) ==
  \A i \in 1..Len(u) :
    u[i].type = "read" => u[i].id \in Nat \ {0} /\ (u[i].lock # 0 => u[i].lock \in DOMAIN locks)
Queued(c, locks) == \A i \in 1..Len(c) : OfLock(c[i], locks)
Reading(w, locks) == w.pc = "read" => OfLock(w.read, locks)
Answering(d, locks) == \A i \in 1..Len(d) : d[i].type = "bytes" => OfLock(d[i], locks)

ReadsResolved(u, c, w, d, locks) ==
  Asking(u, locks) /\ Queued(c, locks) /\ Reading(w, locks) /\ Answering(d, locks)

(* The reads on their way.                                                 *)
Unanswered(u, c, w, d) ==
  Count(u, Requests) + Count(c, RealReads) + Count(d, Answers) + (IF w.pc = "read" THEN 1 ELSE 0)

ReadsCounted == ~stopping => peer.outstanding = Unanswered(up, commands, worker, down)

WalkInv == WalkCurrent /\ DropKnown /\ EntriesCurrent /\ TextCurrent

ChannelInv ==
  /\ TablesKnown(frozen, down, up, peer)
  /\ ReadsResolved(up, commands, worker, down, peer.locks) /\ AnswersMatch
  /\ ReadsCounted

OutboundInv == OutboundTyped /\ WalkInv /\ ChannelInv

-----------------------------------------------------------------------------
(* Queues.                                                                 *)

(* What is where after a queue grew at its end,                            *)
LEMMA QueueGrows ==
  ASSUME NEW T, NEW q \in Seq(T), NEW e \in T
  PROVE  /\ Append(q, e) \in Seq(T) /\ Len(Append(q, e)) = Len(q) + 1 /\ Len(q) \in Nat
         /\ \A i \in 1..(Len(q) + 1) : Append(q, e)[i] = IF i = Len(q) + 1 THEN e ELSE q[i]
  OBVIOUS

(* and after it lost its head.                                             *)
LEMMA QueueMoves ==
  ASSUME NEW T, NEW q \in Seq(T), q # <<>>
  PROVE  /\ Tail(q) \in Seq(T) /\ Len(Tail(q)) = Len(q) - 1 /\ Len(q) \in Nat \ {0}
         /\ Head(q) = q[1] /\ Head(q) \in T
         /\ \A i \in 1..(Len(q) - 1) : Tail(q)[i] = q[i + 1]
  OBVIOUS

(* The positions that are counted.                                         *)
LEMMA CountedFinite ==
  ASSUME NEW T, NEW q \in Seq(T), NEW S
  PROVE  /\ IsFiniteSet({i \in DOMAIN q : q[i] \in S})
         /\ Count(q, S) \in Nat
         /\ Count(q, S) = 0 <=> NoneOf(q, S)
<1> DEFINE A == {i \in DOMAIN q : q[i] \in S}
<1>1. DOMAIN q = 1..Len(q) /\ Len(q) \in Nat
  OBVIOUS
<1>2. IsFiniteSet(1..Len(q))
  BY <1>1, FS_Interval
<1>3. IsFiniteSet(A)
  BY <1>1, <1>2, FS_Subset
<1>4. Cardinality(A) \in Nat /\ (Cardinality(A) = 0 <=> A = {})
  BY <1>3, FS_CardinalityType, FS_EmptySet
<1> QED BY <1>1, <1>3, <1>4 DEF Count, NoneOf

(* A count after the queue grew.                                           *)
LEMMA CountGrows ==
  ASSUME NEW T, NEW q \in Seq(T), NEW e \in T, NEW S
  PROVE  Count(Append(q, e), S) = Count(q, S) + Unit(e, S)
<1> DEFINE A == {i \in DOMAIN q : q[i] \in S}
           B == {i \in DOMAIN Append(q, e) : Append(q, e)[i] \in S}
<1>1. /\ DOMAIN q = 1..Len(q) /\ Len(q) \in Nat /\ DOMAIN Append(q, e) = 1..(Len(q) + 1)
      /\ \A i \in 1..(Len(q) + 1) : Append(q, e)[i] = IF i = Len(q) + 1 THEN e ELSE q[i]
  OBVIOUS
<1>2. IsFiniteSet(A) /\ Cardinality(A) \in Nat
  BY CountedFinite DEF Count
<1>3. CASE e \in S
  <2>1. B = A \cup {Len(q) + 1} /\ Len(q) + 1 \notin A
    BY <1>1, <1>3
  <2>2. Cardinality(A \cup {Len(q) + 1}) = Cardinality(A) + 1
    BY <1>2, <2>1, FS_AddElement
  <2> QED BY <1>3, <2>1, <2>2 DEF Count, Unit
<1>4. CASE e \notin S
  <2>1. B = A
    BY <1>1, <1>4
  <2>2. Count(Append(q, e), S) = Count(q, S)
    BY <2>1 DEF Count
  <2>3. Count(q, S) \in Nat
    BY CountedFinite
  <2> QED BY <1>4, <2>2, <2>3 DEF Unit
<1> QED BY <1>3, <1>4

(* A count after the queue lost its head.                                  *)
LEMMA CountMoves ==
  ASSUME NEW T, NEW q \in Seq(T), q # <<>>, NEW S
  PROVE  Count(q, S) = Count(Tail(q), S) + Unit(Head(q), S)
<1> DEFINE A == {i \in DOMAIN q : q[i] \in S}
           B == {i \in DOMAIN Tail(q) : Tail(q)[i] \in S}
           f == [i \in B |-> i + 1]
<1>1. /\ DOMAIN q = 1..Len(q) /\ Len(q) \in Nat \ {0} /\ DOMAIN Tail(q) = 1..(Len(q) - 1)
      /\ Head(q) = q[1] /\ Tail(q) \in Seq(T)
      /\ \A i \in 1..(Len(q) - 1) : Tail(q)[i] = q[i + 1]
  OBVIOUS
<1>2. IsFiniteSet(A) /\ Cardinality(A) \in Nat
  BY CountedFinite DEF Count
<1>3. IsFiniteSet(B) /\ Cardinality(B) \in Nat
  BY <1>1, CountedFinite DEF Count
<1>4. f \in Bijection(B, A \ {1})
  <2>1. f \in [B -> A \ {1}]
    BY <1>1
  <2>2. \A x, y \in B : f[x] = f[y] => x = y
    BY <1>1
  <2>3. \A y \in A \ {1} : \E x \in B : f[x] = y
    <3> TAKE y \in A \ {1}
    <3>1. y - 1 \in B /\ (y - 1) + 1 = y
      BY <1>1
    <3> QED BY <3>1
  <2> HIDE DEF f, A, B
  <2> QED BY <2>1, <2>2, <2>3 DEF Bijection, Injection, Surjection, IsInjective
<1>5. Cardinality(A \ {1}) = Cardinality(B)
  <2> HIDE DEF f, A, B
  <2>1. ExistsBijection(B, A \ {1})
    BY <1>4 DEF ExistsBijection
  <2> QED BY <1>3, <2>1, FS_Bijection
<1>6. Cardinality(A \ {1}) = IF 1 \in A THEN Cardinality(A) - 1 ELSE Cardinality(A)
  BY <1>2, FS_RemoveElement
<1>7. 1 \in A <=> Head(q) \in S
  BY <1>1
<1>8. Count(q, S) = Cardinality(A) /\ Count(Tail(q), S) = Cardinality(B)
  BY DEF Count
<1> HIDE DEF A, B
<1> QED BY <1>2, <1>3, <1>5, <1>6, <1>7, <1>8 DEF Unit

-----------------------------------------------------------------------------
(* Messages and the two channels.                                          *)

(* A message has the fields it is made of.                                 *)
LEMMA PduFacts ==
  ASSUME NEW type \in Types, NEW table \in Nat, NEW id \in Ids, NEW lock \in Ids
  PROVE  /\ Pdu(type, table, id, lock) \in Message
         /\ Pdu(type, table, id, lock).type = type /\ Pdu(type, table, id, lock).table = table
         /\ Pdu(type, table, id, lock).id = id /\ Pdu(type, table, id, lock).lock = lock
  BY DEF Pdu, Message

(* An announcement.                                                        *)
LEMMA Announcement ==
  ASSUME NEW t \in Nat
  PROVE  \E m \in Message : m = Pdu("announce", t, 0, 0) /\ m.type = "announce" /\ m.table = t
<1>1. 0 \in Ids /\ "announce" \in Types
  BY DEF Ids, Types
<1>2. /\ Pdu("announce", t, 0, 0) \in Message
      /\ Pdu("announce", t, 0, 0).type = "announce" /\ Pdu("announce", t, 0, 0).table = t
  BY <1>1, PduFacts
<1> QED BY <1>2

(* Fields of any message, and what it counts as.                           *)
LEMMA MessageFacts ==
  ASSUME NEW m \in Message
  PROVE  /\ m.type \in Types /\ m.table \in Nat /\ m.id \in Ids /\ m.lock \in Ids
         /\ m \in Announces <=> m.type = "announce"
         /\ m \in Acceptances <=> m.type = "accepted"
         /\ m \in Requests <=> m.type = "read"
         /\ m \in Answers <=> m.type = "bytes"
  BY DEF Message, Announces, Acceptances, Requests, Answers

(* Nothing counted is on a channel.                                        *)
LEMMA NoneMeans ==
  ASSUME NEW q \in Seq(Message)
  PROVE  NoneOf(q, Announces) <=> \A i \in 1..Len(q) : q[i].type # "announce"
<1>1. \A i \in 1..Len(q) : q[i] \in Message
  OBVIOUS
<1> QED BY <1>1, MessageFacts DEF NoneOf

(* The channel to the client grows.                                        *)
LEMMA DownGrows ==
  ASSUME NEW d \in Seq(Message), NEW m \in Message, NEW t
  PROVE  /\ m.type # "announce" =>
              /\ NoneOf(Append(d, m), Announces) <=> NoneOf(d, Announces)
              /\ LastAnnounced(d, t) => LastAnnounced(Append(d, m), t)
         /\ m.type = "announce" =>
              /\ ~NoneOf(Append(d, m), Announces)
              /\ LastAnnounced(Append(d, m), m.table)
<1> DEFINE e == Append(d, m)
<1>1. /\ e \in Seq(Message) /\ Len(e) = Len(d) + 1 /\ Len(d) \in Nat
      /\ \A i \in 1..(Len(d) + 1) : e[i] = IF i = Len(d) + 1 THEN m ELSE d[i]
  BY QueueGrows
<1>2. /\ NoneOf(d, Announces) <=> \A i \in 1..Len(d) : d[i].type # "announce"
      /\ NoneOf(e, Announces) <=> \A i \in 1..Len(e) : e[i].type # "announce"
  BY <1>1, NoneMeans
<1> HIDE DEF e
<1>3. m.type # "announce" => (NoneOf(e, Announces) <=> NoneOf(d, Announces))
  BY <1>1, <1>2
<1>4. m.type = "announce" => ~NoneOf(e, Announces)
  BY <1>1, <1>2
<1>5. ASSUME m.type # "announce", LastAnnounced(d, t) PROVE LastAnnounced(e, t)
  BY <1>1, <1>5 DEF LastAnnounced
<1>6. m.type = "announce" => LastAnnounced(e, m.table)
  BY <1>1 DEF LastAnnounced
<1> QED BY <1>3, <1>4, <1>5, <1>6 DEF e

(* The client takes a message.                                             *)
LEMMA DownMoves ==
  ASSUME NEW d \in Seq(Message), d # <<>>, NEW t, LastAnnounced(d, t)
  PROVE  /\ LastAnnounced(Tail(d), t)
         /\ Head(d).type # "announce" => (NoneOf(Tail(d), Announces) <=> NoneOf(d, Announces))
         /\ Head(d).type = "announce" =>
              /\ ~NoneOf(d, Announces)
              /\ NoneOf(Tail(d), Announces) => Head(d).table = t
<1> DEFINE e == Tail(d)
<1>1. /\ e \in Seq(Message) /\ Len(e) = Len(d) - 1 /\ Len(d) \in Nat \ {0} /\ Head(d) = d[1]
      /\ \A i \in 1..(Len(d) - 1) : e[i] = d[i + 1]
  BY QueueMoves
<1>2. /\ NoneOf(d, Announces) <=> \A i \in 1..Len(d) : d[i].type # "announce"
      /\ NoneOf(e, Announces) <=> \A i \in 1..Len(e) : e[i].type # "announce"
  BY <1>1, NoneMeans
<1> HIDE DEF e
<1>3. \A j \in 2..Len(d) : j - 1 \in 1..Len(e) /\ d[j] = e[j - 1]
  BY <1>1
<1>4. LastAnnounced(e, t)
  <2> SUFFICES ASSUME NEW i \in 1..Len(e), e[i].type = "announce",
                      \A j \in (i + 1)..Len(e) : e[j].type # "announce"
               PROVE  e[i].table = t
    BY DEF LastAnnounced
  <2>1. i + 1 \in 1..Len(d) /\ d[i + 1] = e[i]
    BY <1>1
  <2>2. \A j \in ((i + 1) + 1)..Len(d) : j - 1 \in (i + 1)..Len(e) /\ d[j] = e[j - 1]
    BY <1>1, <1>3
  <2> QED BY <2>1, <2>2 DEF LastAnnounced
<1>5. Head(d).type # "announce" => (NoneOf(e, Announces) <=> NoneOf(d, Announces))
  BY <1>1, <1>2, <1>3
<1>6. Head(d).type = "announce" => ~NoneOf(d, Announces)
  BY <1>1, <1>2
<1>7. ASSUME Head(d).type = "announce", NoneOf(e, Announces) PROVE Head(d).table = t
  <2>1. \A j \in (1 + 1)..Len(d) : d[j].type # "announce"
    BY <1>2, <1>3, <1>7
  <2> QED BY <1>1, <1>7, <2>1 DEF LastAnnounced
<1> QED BY <1>4, <1>5, <1>6, <1>7 DEF e

(* The channel to the server grows: an answer to an announcement comes     *)
(* behind every lock, a new lock is on the table the client has.           *)
LEMMA UpGrows ==
  ASSUME NEW u \in Seq(Message), NEW m \in Message, NEW t
  PROVE  /\ LocksCurrent(u, t) /\ (m.type # "lock" \/ m.table = t) => LocksCurrent(Append(u, m), t)
         /\ m.type = "accepted" => LocksCurrent(Append(u, m), t)
<1> DEFINE e == Append(u, m)
<1>1. /\ e \in Seq(Message) /\ Len(e) = Len(u) + 1 /\ Len(u) \in Nat
      /\ \A i \in 1..(Len(u) + 1) : e[i] = IF i = Len(u) + 1 THEN m ELSE u[i]
  BY QueueGrows
<1> HIDE DEF e
<1>2. ASSUME LocksCurrent(u, t), m.type # "lock" \/ m.table = t PROVE LocksCurrent(e, t)
  BY <1>1, <1>2, SMTT(30) DEF LocksCurrent
<1>3. ASSUME m.type = "accepted" PROVE LocksCurrent(e, t)
  BY <1>1, <1>3 DEF LocksCurrent
<1> QED BY <1>2, <1>3 DEF e

(* The locks on the way, when the client sends something or locks.         *)
LEMMA LocksGrow ==
  ASSUME NEW u \in Seq(Message), NEW m \in Message, NEW locks, NEW more, LocksMade(u, locks),
         DOMAIN locks \subseteq DOMAIN more, \A id \in DOMAIN locks : more[id] = locks[id],
         m.type = "lock" => m.id \in DOMAIN more /\ m.table = more[m.id]
  PROVE  LocksMade(Append(u, m), more)
<1>1. /\ Len(Append(u, m)) = Len(u) + 1 /\ Len(u) \in Nat
      /\ \A i \in 1..(Len(u) + 1) : Append(u, m)[i] = IF i = Len(u) + 1 THEN m ELSE u[i]
  BY QueueGrows
<1> QED BY <1>1 DEF LocksMade

(* The server takes a message.                                             *)
LEMMA UpMoves ==
  ASSUME NEW u \in Seq(Message), u # <<>>, NEW t, NEW locks
  PROVE  /\ LocksCurrent(u, t) => LocksCurrent(Tail(u), t)
         /\ LocksMade(u, locks) => LocksMade(Tail(u), locks)
         /\ Head(u).type = "lock" /\ LocksMade(u, locks) =>
              Head(u).id \in DOMAIN locks /\ Head(u).table = locks[Head(u).id]
         /\ Head(u).type = "lock" /\ NoneOf(u, Acceptances) /\ LocksCurrent(u, t) =>
              Head(u).table = t
<1> DEFINE e == Tail(u)
<1>1. /\ e \in Seq(Message) /\ Len(e) = Len(u) - 1 /\ Len(u) \in Nat \ {0} /\ Head(u) = u[1]
      /\ \A i \in 1..(Len(u) - 1) : e[i] = u[i + 1]
  BY QueueMoves
<1> HIDE DEF e
<1>2. ASSUME LocksCurrent(u, t) PROVE LocksCurrent(e, t)
  <2> SUFFICES ASSUME NEW i \in 1..Len(e), e[i].type = "lock",
                      \A j \in (i + 1)..Len(e) : e[j].type # "accepted"
               PROVE  e[i].table = t
    BY DEF LocksCurrent
  <2>1. i + 1 \in 1..Len(u) /\ u[i + 1] = e[i]
    BY <1>1
  <2>2. \A j \in ((i + 1) + 1)..Len(u) : j - 1 \in (i + 1)..Len(e) /\ u[j] = e[j - 1]
    BY <1>1
  <2> QED BY <1>2, <2>1, <2>2 DEF LocksCurrent
<1>3. ASSUME LocksMade(u, locks) PROVE LocksMade(e, locks)
  BY <1>1, <1>3 DEF LocksMade
<1>4. ASSUME Head(u).type = "lock", LocksMade(u, locks)
      PROVE  Head(u).id \in DOMAIN locks /\ Head(u).table = locks[Head(u).id]
  BY <1>1, <1>4 DEF LocksMade
<1>5. ASSUME Head(u).type = "lock", NoneOf(u, Acceptances), LocksCurrent(u, t)
      PROVE  Head(u).table = t
  <2>1. \A i \in 1..Len(u) : u[i] \in Message
    OBVIOUS
  <2>2. \A i \in 1..Len(u) : u[i].type # "accepted"
    BY <2>1, <1>5, MessageFacts DEF NoneOf
  <2> QED BY <1>1, <1>5, <2>2 DEF LocksCurrent
<1> QED BY <1>2, <1>3, <1>4, <1>5 DEF e

-----------------------------------------------------------------------------
(* Records.                                                                *)

(* The fields of the records.                                              *)
LEMMA RecordFields ==
  /\ \A a, c, e, g, l, k, p, s :
       /\ FrozenOf(a, c, e, g, l, k, p, s).announced = a
       /\ FrozenOf(a, c, e, g, l, k, p, s).confirmed = c
       /\ FrozenOf(a, c, e, g, l, k, p, s).entries = e
       /\ FrozenOf(a, c, e, g, l, k, p, s).gen = g
       /\ FrozenOf(a, c, e, g, l, k, p, s).locked = l
       /\ FrozenOf(a, c, e, g, l, k, p, s).locking = k
       /\ FrozenOf(a, c, e, g, l, k, p, s).pending = p
       /\ FrozenOf(a, c, e, g, l, k, p, s).stream = s
  /\ \A i, t : CacheOf(i, t).image = i /\ CacheOf(i, t).text = t
  /\ \A g, t : SlotOf(g, t).gen = g /\ SlotOf(g, t).table = t
  /\ \A g, pc, r, t :
       /\ WorkerOf(g, pc, r, t).gen = g /\ WorkerOf(g, pc, r, t).pc = pc
       /\ WorkerOf(g, pc, r, t).read = r /\ WorkerOf(g, pc, r, t).table = t
  /\ \A f, g, pc, s :
       /\ DeskOf(f, g, pc, s).formats = f /\ DeskOf(f, g, pc, s).gen = g
       /\ DeskOf(f, g, pc, s).pc = pc /\ DeskOf(f, g, pc, s).sel = s
  /\ \A c, l, o, r, t :
       /\ PeerOf(c, l, o, r, t).copies = c /\ PeerOf(c, l, o, r, t).locks = l
       /\ PeerOf(c, l, o, r, t).outstanding = o /\ PeerOf(c, l, o, r, t).reads = r
       /\ PeerOf(c, l, o, r, t).table = t
  BY DEF FrozenOf, CacheOf, SlotOf, WorkerOf, DeskOf, PeerOf

(* The frozen selection after ClearSelection,                              *)
LEMMA FrozenCleared ==
  ASSUME FrozenTyped
  PROVE  [frozen EXCEPT !.gen = @ + 1, !.entries = 0] =
           FrozenOf(frozen.announced, frozen.confirmed, 0, frozen.gen + 1, frozen.locked,
                    frozen.locking, frozen.pending, frozen.stream)
<1>0. frozen = FrozenOf(frozen.announced, frozen.confirmed, frozen.entries, frozen.gen,
                        frozen.locked, frozen.locking, frozen.pending, frozen.stream)
  BY DEF FrozenTyped
<1>1. PICK v : v = frozen.gen + 1
  OBVIOUS
<1>2. PICK r : r = [frozen EXCEPT !.gen = v]
  OBVIOUS
<1>3. r = FrozenOf(frozen.announced, frozen.confirmed, frozen.entries, v, frozen.locked,
                 frozen.locking, frozen.pending, frozen.stream)
  BY <1>2, <1>0 DEF FrozenOf
<1>4. PICK s : s = [r EXCEPT !.entries = 0]
  OBVIOUS
<1>5. s = FrozenOf(frozen.announced, frozen.confirmed, 0, v, frozen.locked, frozen.locking,
                 frozen.pending, frozen.stream)
  BY <1>4, <1>3 DEF FrozenOf
<1>6. [frozen EXCEPT !.gen = @ + 1, !.entries = 0] = s
  BY <1>1, <1>2, <1>4
<1> QED BY <1>1, <1>5, <1>6

(* after an announcement,                                                  *)
LEMMA FrozenAnnounced ==
  ASSUME FrozenTyped, NEW x
  PROVE  Announced(x) =
           FrozenOf(x, 0, frozen.entries, frozen.gen, frozen.locked, frozen.locking,
                    frozen.pending + 1, frozen.stream)
<1>0. frozen = FrozenOf(frozen.announced, frozen.confirmed, frozen.entries, frozen.gen,
                        frozen.locked, frozen.locking, frozen.pending, frozen.stream)
  BY DEF FrozenTyped
<1>1. PICK v : v = frozen.pending + 1
  OBVIOUS
<1>2. PICK r : r = [frozen EXCEPT !.pending = v]
  OBVIOUS
<1>3. r = FrozenOf(frozen.announced, frozen.confirmed, frozen.entries, frozen.gen, frozen.locked,
                 frozen.locking, v, frozen.stream)
  BY <1>2, <1>0 DEF FrozenOf
<1>4. PICK s : s = [r EXCEPT !.announced = x]
  OBVIOUS
<1>5. s = FrozenOf(x, frozen.confirmed, frozen.entries, frozen.gen, frozen.locked,
                   frozen.locking, v, frozen.stream)
  BY <1>4, <1>3 DEF FrozenOf
<1>6. PICK t : t = [s EXCEPT !.confirmed = 0]
  OBVIOUS
<1>7. t = FrozenOf(x, 0, frozen.entries, frozen.gen, frozen.locked, frozen.locking, v,
                 frozen.stream)
  BY <1>6, <1>5 DEF FrozenOf
<1>8. Announced(x) = t
  BY <1>1, <1>2, <1>4, <1>6 DEF Announced
<1> QED BY <1>1, <1>7, <1>8

(* an announcement of what was walked,                                     *)
LEMMA FrozenPublished ==
  ASSUME FrozenTyped, NEW x
  PROVE  [Announced(x) EXCEPT !.entries = x] =
           FrozenOf(x, 0, x, frozen.gen, frozen.locked, frozen.locking, frozen.pending + 1,
                    frozen.stream)
<1>1. PICK r : r = Announced(x)
  OBVIOUS
<1>2. r = FrozenOf(x, 0, frozen.entries, frozen.gen, frozen.locked, frozen.locking,
                   frozen.pending + 1, frozen.stream)
  BY <1>1, FrozenAnnounced
<1>3. PICK v : v = frozen.pending + 1
  OBVIOUS
<1>4. [r EXCEPT !.entries = x] =
        FrozenOf(x, 0, x, frozen.gen, frozen.locked, frozen.locking, v, frozen.stream)
  BY <1>2, <1>3 DEF FrozenOf
<1> QED BY <1>1, <1>3, <1>4

(* a walk that found nothing,                                              *)
LEMMA FrozenEmptied ==
  ASSUME FrozenTyped
  PROVE  [frozen EXCEPT !.entries = 0] =
           FrozenOf(frozen.announced, frozen.confirmed, 0, frozen.gen, frozen.locked,
                    frozen.locking, frozen.pending, frozen.stream)
  BY DEF FrozenTyped, FrozenOf

(* after the answer to one,                                                *)
LEMMA FrozenConfirmed ==
  ASSUME FrozenTyped, NEW x
  PROVE  [frozen EXCEPT !.pending = @ - 1, !.confirmed = x] =
           FrozenOf(frozen.announced, x, frozen.entries, frozen.gen, frozen.locked, frozen.locking,
                    frozen.pending - 1, frozen.stream)
<1>0. frozen = FrozenOf(frozen.announced, frozen.confirmed, frozen.entries, frozen.gen,
                        frozen.locked, frozen.locking, frozen.pending, frozen.stream)
  BY DEF FrozenTyped
<1>1. PICK v : v = frozen.pending - 1
  OBVIOUS
<1>2. PICK r : r = [frozen EXCEPT !.pending = v]
  OBVIOUS
<1>3. r = FrozenOf(frozen.announced, frozen.confirmed, frozen.entries, frozen.gen, frozen.locked,
                 frozen.locking, v, frozen.stream)
  BY <1>2, <1>0 DEF FrozenOf
<1>4. PICK s : s = [r EXCEPT !.confirmed = x]
  OBVIOUS
<1>5. s = FrozenOf(frozen.announced, x, frozen.entries, frozen.gen, frozen.locked,
                   frozen.locking, v, frozen.stream)
  BY <1>4, <1>3 DEF FrozenOf
<1>6. [frozen EXCEPT !.pending = @ - 1, !.confirmed = x] = s
  BY <1>1, <1>2, <1>4
<1> QED BY <1>1, <1>5, <1>6

(* after a lock or an unlock,                                              *)
LEMMA FrozenLocked ==
  ASSUME FrozenTyped, NEW x
  PROVE  [frozen EXCEPT !.locked = x] =
           FrozenOf(frozen.announced, frozen.confirmed, frozen.entries, frozen.gen, x,
                    frozen.locking, frozen.pending, frozen.stream)
  BY DEF FrozenTyped, FrozenOf

(* and once the worker is dropped.                                         *)
LEMMA FrozenDropped ==
  ASSUME FrozenTyped
  PROVE  [frozen EXCEPT !.gen = @ + 1, !.entries = 0, !.locking = FALSE,
                          !.locked = NoTables, !.confirmed = 0] =
           FrozenOf(frozen.announced, 0, 0, frozen.gen + 1, NoTables, FALSE, frozen.pending,
                    frozen.stream)
<1>0. frozen = FrozenOf(frozen.announced, frozen.confirmed, frozen.entries, frozen.gen,
                        frozen.locked, frozen.locking, frozen.pending, frozen.stream)
  BY DEF FrozenTyped
<1>1. PICK v : v = frozen.gen + 1
  OBVIOUS
<1>2. PICK r : r = [frozen EXCEPT !.gen = v]
  OBVIOUS
<1>3. r = FrozenOf(frozen.announced, frozen.confirmed, frozen.entries, v, frozen.locked,
                 frozen.locking, frozen.pending, frozen.stream)
  BY <1>2, <1>0 DEF FrozenOf
<1>4. PICK s : s = [r EXCEPT !.entries = 0]
  OBVIOUS
<1>5. s = FrozenOf(frozen.announced, frozen.confirmed, 0, v, frozen.locked, frozen.locking,
                 frozen.pending, frozen.stream)
  BY <1>4, <1>3 DEF FrozenOf
<1>6. PICK t : t = [s EXCEPT !.locking = FALSE]
  OBVIOUS
<1>7. t = FrozenOf(frozen.announced, frozen.confirmed, 0, v, frozen.locked, FALSE, frozen.pending,
                 frozen.stream)
  BY <1>6, <1>5 DEF FrozenOf
<1>8. PICK u : u = [t EXCEPT !.locked = NoTables]
  OBVIOUS
<1>9. u = FrozenOf(frozen.announced, frozen.confirmed, 0, v, NoTables, FALSE, frozen.pending,
                 frozen.stream)
  BY <1>8, <1>7 DEF FrozenOf
<1>10. PICK w : w = [u EXCEPT !.confirmed = 0]
  OBVIOUS
<1>11. w = FrozenOf(frozen.announced, 0, 0, v, NoTables, FALSE, frozen.pending, frozen.stream)
  BY <1>10, <1>9 DEF FrozenOf
<1>12. [frozen EXCEPT !.gen = @ + 1, !.entries = 0, !.locking = FALSE,
                          !.locked = NoTables, !.confirmed = 0] = w
  BY <1>1, <1>2, <1>4, <1>6, <1>8, <1>10
<1> QED BY <1>1, <1>11, <1>12

-----------------------------------------------------------------------------
(* Tables on the channels: f and g are the frozen selection before and     *)
(* after, p and q the client.                                              *)

(* What the server forgets does no harm.                                   *)
LEMMA ForgetsTables ==
  ASSUME NEW f, NEW g, NEW d, NEW u, NEW p, TablesKnown(f, d, u, p),
         g.pending = f.pending, g.announced = f.announced, g.confirmed \in {f.confirmed, 0},
         DOMAIN g.locked \subseteq DOMAIN f.locked,
         \A id \in DOMAIN g.locked : g.locked[id] = f.locked[id]
  PROVE  TablesKnown(g, d, u, p)
  BY DEF TablesKnown, PendingCounted, LockedOf

(* The server takes a message that answers no announcement.                *)
LEMMA TakesOther ==
  ASSUME NEW f, NEW d, NEW u \in Seq(Message), u # <<>>, NEW p, TablesKnown(f, d, u, p),
         Head(u).type # "accepted"
  PROVE  TablesKnown(f, d, Tail(u), p)
<1>1. Count(u, Acceptances) = Count(Tail(u), Acceptances) + Unit(Head(u), Acceptances)
  BY CountMoves
<1>2. Head(u) \in Message /\ Tail(u) \in Seq(Message)
  BY QueueMoves
<1>3. Unit(Head(u), Acceptances) = 0
  BY <1>2, MessageFacts DEF Unit
<1>4. Count(Tail(u), Acceptances) \in Nat
  BY <1>2, CountedFinite
<1>5. PendingCounted(f, d, Tail(u))
  BY <1>1, <1>3, <1>4 DEF TablesKnown, PendingCounted
<1>6. LocksCurrent(u, f.announced) => LocksCurrent(Tail(u), f.announced)
  BY UpMoves
<1>7. LocksMade(Tail(u), p.locks)
  BY UpMoves DEF TablesKnown
<1> QED BY <1>5, <1>6, <1>7 DEF TablesKnown

(* The server takes the answer to an announcement.                         *)
LEMMA TakesAccepted ==
  ASSUME NEW f, NEW g, NEW d \in Seq(Message), NEW u \in Seq(Message), u # <<>>, NEW p,
         TablesKnown(f, d, u, p), Head(u).type = "accepted"
  PROVE  /\ f.pending \in Nat \ {0}
         /\ /\ g.pending = f.pending - 1 /\ g.announced = f.announced /\ g.locked = f.locked
            /\ g.confirmed = f.confirmed \/ (f.pending = 1 /\ g.confirmed = f.announced)
            => TablesKnown(g, d, Tail(u), p)
<1>1. Count(u, Acceptances) = Count(Tail(u), Acceptances) + Unit(Head(u), Acceptances)
  BY CountMoves
<1>2. Head(u) \in Message /\ Tail(u) \in Seq(Message)
  BY QueueMoves
<1>3. Unit(Head(u), Acceptances) = 1
  BY <1>2, MessageFacts DEF Unit
<1>4. Count(Tail(u), Acceptances) \in Nat /\ Count(d, Announces) \in Nat
  BY <1>2, CountedFinite
<1>5. f.pending \in Nat \ {0} /\ f.pending = Count(d, Announces) + Count(Tail(u), Acceptances) + 1
  BY <1>1, <1>3, <1>4 DEF TablesKnown, PendingCounted
<1>6. ASSUME g.pending = f.pending - 1, g.announced = f.announced, g.locked = f.locked,
             g.confirmed = f.confirmed \/ (f.pending = 1 /\ g.confirmed = f.announced)
      PROVE  TablesKnown(g, d, Tail(u), p)
  <2>1. PendingCounted(g, d, Tail(u))
    BY <1>4, <1>5, <1>6 DEF TablesKnown, PendingCounted
  <2>2. LocksCurrent(u, f.announced) => LocksCurrent(Tail(u), f.announced)
    BY UpMoves
  <2>3. LocksMade(Tail(u), p.locks)
    BY UpMoves DEF TablesKnown
  <2> QED BY <1>6, <2>1, <2>2, <2>3 DEF TablesKnown
<1> QED BY <1>5, <1>6

(* The server takes a lock: a confirmed table is the one the client had.   *)
LEMMA TakesLock ==
  ASSUME NEW f, NEW d \in Seq(Message), NEW u \in Seq(Message), u # <<>>, NEW p,
         TablesKnown(f, d, u, p), Head(u).type = "lock", f.confirmed # 0
  PROVE  Head(u).id \in DOMAIN p.locks /\ p.locks[Head(u).id] = f.confirmed
<1>1. Count(u, Acceptances) \in Nat /\ Count(d, Announces) \in Nat
  BY CountedFinite
<1>2. Count(u, Acceptances) = 0 /\ Count(d, Announces) = 0 /\ f.confirmed = f.announced
  BY <1>1 DEF TablesKnown, PendingCounted
<1>3. NoneOf(u, Acceptances) /\ NoneOf(d, Announces)
  BY <1>2, CountedFinite
<1>4. Head(u).table = f.announced
  BY <1>3, UpMoves DEF TablesKnown
<1>5. Head(u).id \in DOMAIN p.locks /\ Head(u).table = p.locks[Head(u).id]
  BY UpMoves DEF TablesKnown
<1> QED BY <1>2, <1>4, <1>5

(* The server sends something else than an announcement,                   *)
LEMMA SendsOther ==
  ASSUME NEW f, NEW d \in Seq(Message), NEW u, NEW p, TablesKnown(f, d, u, p),
         NEW m \in Message, m.type # "announce"
  PROVE  TablesKnown(f, Append(d, m), u, p)
<1>1. Count(Append(d, m), Announces) = Count(d, Announces) + Unit(m, Announces)
  BY CountGrows
<1>2. Unit(m, Announces) = 0 /\ Count(d, Announces) \in Nat
  BY MessageFacts, CountedFinite DEF Unit
<1>3. PendingCounted(f, Append(d, m), u)
  BY <1>1, <1>2 DEF TablesKnown, PendingCounted
<1>4. /\ NoneOf(Append(d, m), Announces) <=> NoneOf(d, Announces)
      /\ LastAnnounced(Append(d, m), f.announced)
  BY DownGrows DEF TablesKnown
<1> QED BY <1>3, <1>4 DEF TablesKnown

(* or announces: the new table is the announced one.                       *)
LEMMA SendsAnnounce ==
  ASSUME NEW f, NEW g, NEW d \in Seq(Message), NEW u \in Seq(Message), NEW p,
         TablesKnown(f, d, u, p), NEW m \in Message, m.type = "announce",
         g.pending = f.pending + 1, g.announced = m.table, g.confirmed = 0, g.locked = f.locked
  PROVE  TablesKnown(g, Append(d, m), u, p)
<1>1. Count(Append(d, m), Announces) = Count(d, Announces) + Unit(m, Announces)
  BY CountGrows
<1>2. Unit(m, Announces) = 1 /\ Count(d, Announces) \in Nat /\ Count(u, Acceptances) \in Nat
  BY MessageFacts, CountedFinite DEF Unit
<1>3. PendingCounted(g, Append(d, m), u)
  BY <1>1, <1>2 DEF TablesKnown, PendingCounted
<1>4. ~NoneOf(Append(d, m), Announces) /\ LastAnnounced(Append(d, m), m.table)
  BY DownGrows
<1> QED BY <1>3, <1>4 DEF TablesKnown

(* The client takes something else than an announcement,                   *)
LEMMA ReceivesOther ==
  ASSUME NEW f, NEW d \in Seq(Message), d # <<>>, NEW u, NEW p, NEW q, TablesKnown(f, d, u, p),
         Head(d).type # "announce", q.table = p.table, q.locks = p.locks
  PROVE  TablesKnown(f, Tail(d), u, q)
<1>1. Count(d, Announces) = Count(Tail(d), Announces) + Unit(Head(d), Announces)
  BY CountMoves
<1>2. Head(d) \in Message /\ Tail(d) \in Seq(Message)
  BY QueueMoves
<1>3. Unit(Head(d), Announces) = 0 /\ Count(Tail(d), Announces) \in Nat
  BY <1>2, MessageFacts, CountedFinite DEF Unit
<1>4. PendingCounted(f, Tail(d), u)
  BY <1>1, <1>3 DEF TablesKnown, PendingCounted
<1>5. /\ LastAnnounced(Tail(d), f.announced)
      /\ NoneOf(Tail(d), Announces) <=> NoneOf(d, Announces)
  BY DownMoves DEF TablesKnown
<1> QED BY <1>4, <1>5 DEF TablesKnown

(* or an announcement, which it answers.                                   *)
LEMMA ReceivesAnnounce ==
  ASSUME NEW f, NEW d \in Seq(Message), d # <<>>, NEW u \in Seq(Message), NEW p, NEW q,
         TablesKnown(f, d, u, p), Head(d).type = "announce", NEW m \in Message, m.type = "accepted",
         q.table = Head(d).table, q.locks = p.locks
  PROVE  TablesKnown(f, Tail(d), Append(u, m), q)
<1>1. /\ Count(d, Announces) = Count(Tail(d), Announces) + Unit(Head(d), Announces)
      /\ Count(Append(u, m), Acceptances) = Count(u, Acceptances) + Unit(m, Acceptances)
  BY CountMoves, CountGrows
<1>2. Head(d) \in Message /\ Tail(d) \in Seq(Message)
  BY QueueMoves
<1>3. /\ Unit(Head(d), Announces) = 1 /\ Unit(m, Acceptances) = 1
      /\ Count(Tail(d), Announces) \in Nat /\ Count(u, Acceptances) \in Nat
  BY <1>2, MessageFacts, CountedFinite DEF Unit
<1>4. PendingCounted(f, Tail(d), Append(u, m))
  BY <1>1, <1>3 DEF TablesKnown, PendingCounted
<1>5. /\ LastAnnounced(Tail(d), f.announced)
      /\ NoneOf(Tail(d), Announces) => Head(d).table = f.announced
  BY DownMoves DEF TablesKnown
<1>6. LocksCurrent(Append(u, m), f.announced)
  BY UpGrows
<1>7. LocksMade(Append(u, m), p.locks)
  BY LocksGrow DEF TablesKnown
<1> QED BY <1>4, <1>5, <1>6, <1>7 DEF TablesKnown

(* The client sends something else,                                        *)
LEMMA ClientSends ==
  ASSUME NEW f, NEW d, NEW u \in Seq(Message), NEW p, NEW q, TablesKnown(f, d, u, p),
         NEW m \in Message, m.type \notin {"accepted", "lock"},
         q.table \in {0, p.table}, q.locks = p.locks
  PROVE  TablesKnown(f, d, Append(u, m), q)
<1>1. Count(Append(u, m), Acceptances) = Count(u, Acceptances) + Unit(m, Acceptances)
  BY CountGrows
<1>2. Unit(m, Acceptances) = 0 /\ Count(u, Acceptances) \in Nat
  BY MessageFacts, CountedFinite DEF Unit
<1>3. PendingCounted(f, d, Append(u, m))
  BY <1>1, <1>2 DEF TablesKnown, PendingCounted
<1>4. LocksCurrent(u, f.announced) => LocksCurrent(Append(u, m), f.announced)
  BY UpGrows
<1>5. LocksMade(Append(u, m), p.locks)
  BY LocksGrow DEF TablesKnown
<1> QED BY <1>3, <1>4, <1>5 DEF TablesKnown

(* or a lock on the table it has.                                          *)
LEMMA ClientLocks ==
  ASSUME NEW f, NEW d, NEW u \in Seq(Message), NEW p, NEW q, TablesKnown(f, d, u, p),
         NEW m \in Message, m.type = "lock", m.table = p.table, p.table # 0, q.table = p.table,
         DOMAIN p.locks \subseteq DOMAIN q.locks,
         \A id \in DOMAIN p.locks : q.locks[id] = p.locks[id],
         m.id \in DOMAIN q.locks, q.locks[m.id] = m.table
  PROVE  TablesKnown(f, d, Append(u, m), q)
<1>1. Count(Append(u, m), Acceptances) = Count(u, Acceptances) + Unit(m, Acceptances)
  BY CountGrows
<1>2. Unit(m, Acceptances) = 0 /\ Count(u, Acceptances) \in Nat
  BY MessageFacts, CountedFinite DEF Unit
<1>3. PendingCounted(f, d, Append(u, m))
  BY <1>1, <1>2 DEF TablesKnown, PendingCounted
<1>4. LocksCurrent(u, f.announced) /\ m.table = f.announced =>
        LocksCurrent(Append(u, m), f.announced)
  BY UpGrows
<1>5. LocksMade(Append(u, m), q.locks)
  BY LocksGrow DEF TablesKnown
<1>6. LockedOf(f.locked, q.locks)
  BY DEF TablesKnown, LockedOf
<1> QED BY <1>3, <1>4, <1>5, <1>6 DEF TablesKnown

-----------------------------------------------------------------------------
(* Reads on the channels, in the queue and with the worker.                *)

(* A wake is no read.                                                      *)
LEMMA ReadFacts ==
  /\ NoRead \in Read /\ NoRead.id = 0 /\ NoRead.lock = 0
  /\ \A i \in Ids, l \in Ids, t \in Nat :
       LET r == [id |-> i, lock |-> l, table |-> t]
       IN  r \in Read /\ r.id = i /\ r.lock = l /\ r.table = t
  /\ \A r \in Read : /\ r.id \in Ids /\ r.lock \in Ids /\ r.table \in Nat
                     /\ r \in RealReads <=> r.id # 0
  BY DEF NoRead, Read, Ids, RealReads

(* A new lock leaves the others alone.                                     *)
LEMMA LocksStay ==
  ASSUME NEW u, NEW c, NEW w, NEW d, NEW locks, NEW more, ReadsResolved(u, c, w, d, locks),
         DOMAIN locks \subseteq DOMAIN more, \A id \in DOMAIN locks : more[id] = locks[id]
  PROVE  ReadsResolved(u, c, w, d, more)
  BY DEF ReadsResolved, Asking, Queued, Reading, Answering, OfLock

(* A message more from the client,                                         *)
LEMMA AskingGrows ==
  ASSUME NEW u \in Seq(Message), NEW m \in Message, NEW locks, Asking(u, locks),
         m.type = "read" => m.id \in Nat \ {0} /\ (m.lock # 0 => m.lock \in DOMAIN locks)
  PROVE  Asking(Append(u, m), locks)
<1>1. /\ Len(Append(u, m)) = Len(u) + 1 /\ Len(u) \in Nat
      /\ \A i \in 1..(Len(u) + 1) : Append(u, m)[i] = IF i = Len(u) + 1 THEN m ELSE u[i]
  BY QueueGrows
<1> QED BY <1>1 DEF Asking

(* a read more in the queue of the worker,                                 *)
LEMMA QueuedGrows ==
  ASSUME NEW c \in Seq(Read), NEW r \in Read, NEW locks, Queued(c, locks), OfLock(r, locks)
  PROVE  Queued(Append(c, r), locks)
<1>1. /\ Len(Append(c, r)) = Len(c) + 1 /\ Len(c) \in Nat
      /\ \A i \in 1..(Len(c) + 1) : Append(c, r)[i] = IF i = Len(c) + 1 THEN r ELSE c[i]
  BY QueueGrows
<1> QED BY <1>1 DEF Queued

(* a message more to the client.                                           *)
LEMMA AnsweringGrows ==
  ASSUME NEW d \in Seq(Message), NEW m \in Message, NEW locks, Answering(d, locks),
         m.type = "bytes" => OfLock(m, locks)
  PROVE  Answering(Append(d, m), locks)
<1>1. /\ Len(Append(d, m)) = Len(d) + 1 /\ Len(d) \in Nat
      /\ \A i \in 1..(Len(d) + 1) : Append(d, m)[i] = IF i = Len(d) + 1 THEN m ELSE d[i]
  BY QueueGrows
<1> QED BY <1>1 DEF Answering

(* A message less from the client,                                         *)
LEMMA AskingMoves ==
  ASSUME NEW u \in Seq(Message), u # <<>>, NEW locks, Asking(u, locks)
  PROVE  /\ Asking(Tail(u), locks)
         /\ Head(u).type = "read" =>
              Head(u).id \in Nat \ {0} /\ (Head(u).lock # 0 => Head(u).lock \in DOMAIN locks)
<1>1. /\ Len(Tail(u)) = Len(u) - 1 /\ Len(u) \in Nat \ {0} /\ Head(u) = u[1]
      /\ \A i \in 1..(Len(u) - 1) : Tail(u)[i] = u[i + 1]
  BY QueueMoves
<1> QED BY <1>1 DEF Asking

(* a read less in the queue,                                               *)
LEMMA QueuedMoves ==
  ASSUME NEW c \in Seq(Read), c # <<>>, NEW locks, Queued(c, locks)
  PROVE  Queued(Tail(c), locks) /\ OfLock(Head(c), locks)
<1>1. /\ Len(Tail(c)) = Len(c) - 1 /\ Len(c) \in Nat \ {0} /\ Head(c) = c[1]
      /\ \A i \in 1..(Len(c) - 1) : Tail(c)[i] = c[i + 1]
  BY QueueMoves
<1> QED BY <1>1 DEF Queued

(* a message less to the client.                                           *)
LEMMA AnsweringMoves ==
  ASSUME NEW d \in Seq(Message), d # <<>>, NEW locks, Answering(d, locks)
  PROVE  Answering(Tail(d), locks) /\ (Head(d).type = "bytes" => OfLock(Head(d), locks))
<1>1. /\ Len(Tail(d)) = Len(d) - 1 /\ Len(d) \in Nat \ {0} /\ Head(d) = d[1]
      /\ \A i \in 1..(Len(d) - 1) : Tail(d)[i] = d[i + 1]
  BY QueueMoves
<1> QED BY <1>1 DEF Answering

(* How many reads wait is a number.                                        *)
LEMMA UnansweredType ==
  ASSUME NEW u \in Seq(Message), NEW c \in Seq(Read), NEW w, NEW d \in Seq(Message)
  PROVE  /\ Unanswered(u, c, w, d) \in Nat
         /\ Count(u, Requests) \in Nat /\ Count(c, RealReads) \in Nat /\ Count(d, Answers) \in Nat
<1>1. Count(u, Requests) \in Nat /\ Count(c, RealReads) \in Nat /\ Count(d, Answers) \in Nat
  BY CountedFinite
<1> QED BY <1>1 DEF Unanswered

(* It changes as the client sends a message,                               *)
LEMMA UpGrown ==
  ASSUME NEW u \in Seq(Message), NEW c \in Seq(Read), NEW w, NEW d \in Seq(Message),
         NEW m \in Message
  PROVE  /\ m.type = "read" => Unanswered(Append(u, m), c, w, d) = Unanswered(u, c, w, d) + 1
         /\ m.type # "read" => Unanswered(Append(u, m), c, w, d) = Unanswered(u, c, w, d)
<1>1. Unit(m, Requests) = IF m.type = "read" THEN 1 ELSE 0
  BY MessageFacts DEF Unit
<1>2. Count(Append(u, m), Requests) = Count(u, Requests) + Unit(m, Requests)
  BY CountGrows
<1>3. Count(u, Requests) \in Nat /\ Count(c, RealReads) \in Nat /\ Count(d, Answers) \in Nat
  BY UnansweredType
<1>4. PICK k \in Nat : k = IF w.pc = "read" THEN 1 ELSE 0
  OBVIOUS
<1>5. /\ Unanswered(u, c, w, d) = Count(u, Requests) + Count(c, RealReads) + Count(d, Answers) + k
      /\ Unanswered(Append(u, m), c, w, d) =
           Count(Append(u, m), Requests) + Count(c, RealReads) + Count(d, Answers) + k
  BY <1>4 DEF Unanswered
<1> QED BY <1>1, <1>2, <1>3, <1>5, SMTT(30)

(* as the RDP task takes one,                                              *)
LEMMA UpTaken ==
  ASSUME NEW u \in Seq(Message), NEW c \in Seq(Read), NEW w, NEW d \in Seq(Message), u # <<>>
  PROVE  /\ Head(u).type = "read" => Unanswered(u, c, w, d) = Unanswered(Tail(u), c, w, d) + 1
         /\ Head(u).type # "read" => Unanswered(u, c, w, d) = Unanswered(Tail(u), c, w, d)
         /\ Unanswered(Tail(u), c, w, d) \in Nat
<1>1. Count(u, Requests) = Count(Tail(u), Requests) + Unit(Head(u), Requests)
  BY CountMoves
<1>2. Head(u) \in Message /\ Tail(u) \in Seq(Message)
  BY QueueMoves
<1>3. Unit(Head(u), Requests) = IF Head(u).type = "read" THEN 1 ELSE 0
  BY <1>2, MessageFacts DEF Unit
<1>4. Count(u, Requests) \in Nat /\ Count(c, RealReads) \in Nat /\ Count(d, Answers) \in Nat
  BY UnansweredType
<1>5. Count(Tail(u), Requests) \in Nat
  BY <1>2, CountedFinite
<1>6. PICK k \in Nat : k = IF w.pc = "read" THEN 1 ELSE 0
  OBVIOUS
<1>7. /\ Unanswered(u, c, w, d) = Count(u, Requests) + Count(c, RealReads) + Count(d, Answers) + k
      /\ Unanswered(Tail(u), c, w, d) =
           Count(Tail(u), Requests) + Count(c, RealReads) + Count(d, Answers) + k
  BY <1>6 DEF Unanswered
<1>8. /\ Head(u).type = "read" => Count(u, Requests) = Count(Tail(u), Requests) + 1
      /\ Head(u).type # "read" => Count(u, Requests) = Count(Tail(u), Requests)
  BY <1>1, <1>3, <1>5
<1>9. Unanswered(Tail(u), c, w, d) \in Nat
  BY <1>4, <1>5, <1>6, <1>7
<1>10. Head(u).type = "read" => Unanswered(u, c, w, d) = Unanswered(Tail(u), c, w, d) + 1
  <2>1. PICK n \in Nat : n = Count(Tail(u), Requests)
    BY <1>5
  <2> QED BY ONLY <1>4, <1>6, <1>7, <1>8, <2>1, n \in Nat, SMTT(30)
<1>11. Head(u).type # "read" => Unanswered(u, c, w, d) = Unanswered(Tail(u), c, w, d)
  BY ONLY <1>7, <1>8
<1> QED BY <1>9, <1>10, <1>11

(* as a read is queued,                                                    *)
LEMMA QueueGrown ==
  ASSUME NEW u \in Seq(Message), NEW c \in Seq(Read), NEW w, NEW d \in Seq(Message), NEW r \in Read
  PROVE  /\ r.id # 0 => Unanswered(u, Append(c, r), w, d) = Unanswered(u, c, w, d) + 1
         /\ r.id = 0 => Unanswered(u, Append(c, r), w, d) = Unanswered(u, c, w, d)
<1>1. Unit(r, RealReads) = IF r.id # 0 THEN 1 ELSE 0
  BY ReadFacts DEF Unit
<1>2. Count(Append(c, r), RealReads) = Count(c, RealReads) + Unit(r, RealReads)
  BY CountGrows
<1>3. Count(u, Requests) \in Nat /\ Count(c, RealReads) \in Nat /\ Count(d, Answers) \in Nat
  BY UnansweredType
<1>4. PICK k \in Nat : k = IF w.pc = "read" THEN 1 ELSE 0
  OBVIOUS
<1>5. /\ Unanswered(u, c, w, d) = Count(u, Requests) + Count(c, RealReads) + Count(d, Answers) + k
      /\ Unanswered(u, Append(c, r), w, d) =
           Count(u, Requests) + Count(Append(c, r), RealReads) + Count(d, Answers) + k
  BY <1>4 DEF Unanswered
<1> QED BY <1>1, <1>2, <1>3, <1>5, SMTT(30)

(* as the worker takes one,                                                *)
LEMMA QueueTaken ==
  ASSUME NEW u \in Seq(Message), NEW c \in Seq(Read), NEW w, NEW d \in Seq(Message), c # <<>>
  PROVE  /\ Head(c).id # 0 => Unanswered(u, c, w, d) = Unanswered(u, Tail(c), w, d) + 1
         /\ Head(c).id = 0 => Unanswered(u, c, w, d) = Unanswered(u, Tail(c), w, d)
         /\ Unanswered(u, Tail(c), w, d) \in Nat
<1>1. Count(c, RealReads) = Count(Tail(c), RealReads) + Unit(Head(c), RealReads)
  BY CountMoves
<1>2. Head(c) \in Read /\ Tail(c) \in Seq(Read)
  BY QueueMoves
<1>3. Unit(Head(c), RealReads) = IF Head(c).id # 0 THEN 1 ELSE 0
  BY <1>2, ReadFacts DEF Unit
<1>4. Count(u, Requests) \in Nat /\ Count(c, RealReads) \in Nat /\ Count(d, Answers) \in Nat
  BY UnansweredType
<1>5. Count(Tail(c), RealReads) \in Nat
  BY <1>2, CountedFinite
<1>6. PICK k \in Nat : k = IF w.pc = "read" THEN 1 ELSE 0
  OBVIOUS
<1>7. /\ Unanswered(u, c, w, d) = Count(u, Requests) + Count(c, RealReads) + Count(d, Answers) + k
      /\ Unanswered(u, Tail(c), w, d) =
           Count(u, Requests) + Count(Tail(c), RealReads) + Count(d, Answers) + k
  BY <1>6 DEF Unanswered
<1>8. /\ Head(c).id # 0 => Count(c, RealReads) = Count(Tail(c), RealReads) + 1
      /\ Head(c).id = 0 => Count(c, RealReads) = Count(Tail(c), RealReads)
  BY <1>1, <1>3, <1>5
<1>9. Unanswered(u, Tail(c), w, d) \in Nat
  BY <1>4, <1>5, <1>6, <1>7
<1>10. Head(c).id # 0 => Unanswered(u, c, w, d) = Unanswered(u, Tail(c), w, d) + 1
  BY ONLY <1>4, <1>5, <1>6, <1>7, <1>8, SMTT(30)
<1>11. Head(c).id = 0 => Unanswered(u, c, w, d) = Unanswered(u, Tail(c), w, d)
  BY ONLY <1>7, <1>8
<1> QED BY <1>9, <1>10, <1>11

(* as a message is sent to the client,                                     *)
LEMMA DownGrown ==
  ASSUME NEW u \in Seq(Message), NEW c \in Seq(Read), NEW w, NEW d \in Seq(Message),
         NEW m \in Message
  PROVE  /\ m.type = "bytes" => Unanswered(u, c, w, Append(d, m)) = Unanswered(u, c, w, d) + 1
         /\ m.type # "bytes" => Unanswered(u, c, w, Append(d, m)) = Unanswered(u, c, w, d)
<1>1. Unit(m, Answers) = IF m.type = "bytes" THEN 1 ELSE 0
  BY MessageFacts DEF Unit
<1>2. Count(Append(d, m), Answers) = Count(d, Answers) + Unit(m, Answers)
  BY CountGrows
<1>3. Count(u, Requests) \in Nat /\ Count(c, RealReads) \in Nat /\ Count(d, Answers) \in Nat
  BY UnansweredType
<1>4. PICK k \in Nat : k = IF w.pc = "read" THEN 1 ELSE 0
  OBVIOUS
<1>5. /\ Unanswered(u, c, w, d) = Count(u, Requests) + Count(c, RealReads) + Count(d, Answers) + k
      /\ Unanswered(u, c, w, Append(d, m)) =
           Count(u, Requests) + Count(c, RealReads) + Count(Append(d, m), Answers) + k
  BY <1>4 DEF Unanswered
<1> QED BY <1>1, <1>2, <1>3, <1>5

(* as the client takes one,                                                *)
LEMMA DownTaken ==
  ASSUME NEW u \in Seq(Message), NEW c \in Seq(Read), NEW w, NEW d \in Seq(Message), d # <<>>
  PROVE  /\ Head(d).type = "bytes" => Unanswered(u, c, w, d) = Unanswered(u, c, w, Tail(d)) + 1
         /\ Head(d).type # "bytes" => Unanswered(u, c, w, d) = Unanswered(u, c, w, Tail(d))
         /\ Unanswered(u, c, w, Tail(d)) \in Nat
<1>1. Count(d, Answers) = Count(Tail(d), Answers) + Unit(Head(d), Answers)
  BY CountMoves
<1>2. Head(d) \in Message /\ Tail(d) \in Seq(Message)
  BY QueueMoves
<1>3. Unit(Head(d), Answers) = IF Head(d).type = "bytes" THEN 1 ELSE 0
  BY <1>2, MessageFacts DEF Unit
<1>4. Count(u, Requests) \in Nat /\ Count(c, RealReads) \in Nat /\ Count(d, Answers) \in Nat
  BY UnansweredType
<1>5. Count(Tail(d), Answers) \in Nat
  BY <1>2, CountedFinite
<1>6. PICK k \in Nat : k = IF w.pc = "read" THEN 1 ELSE 0
  OBVIOUS
<1>7. /\ Unanswered(u, c, w, d) = Count(u, Requests) + Count(c, RealReads) + Count(d, Answers) + k
      /\ Unanswered(u, c, w, Tail(d)) =
           Count(u, Requests) + Count(c, RealReads) + Count(Tail(d), Answers) + k
  BY <1>6 DEF Unanswered
<1>8. /\ Head(d).type = "bytes" => Count(d, Answers) = Count(Tail(d), Answers) + 1
      /\ Head(d).type # "bytes" => Count(d, Answers) = Count(Tail(d), Answers)
  BY <1>1, <1>3, <1>5
<1>9. Unanswered(u, c, w, Tail(d)) \in Nat
  BY <1>4, <1>5, <1>6, <1>7
<1>10. Head(d).type = "bytes" => Unanswered(u, c, w, d) = Unanswered(u, c, w, Tail(d)) + 1
  BY ONLY <1>4, <1>5, <1>6, <1>7, <1>8
<1>11. Head(d).type # "bytes" => Unanswered(u, c, w, d) = Unanswered(u, c, w, Tail(d))
  BY ONLY <1>7, <1>8
<1> QED BY <1>9, <1>10, <1>11

(* and as the worker is done with a read.                                  *)
LEMMA WorkerCounted ==
  ASSUME NEW u \in Seq(Message), NEW c \in Seq(Read), NEW w, NEW v, NEW d \in Seq(Message)
  PROVE  w.pc = "read" /\ v.pc # "read" => Unanswered(u, c, w, d) = Unanswered(u, c, v, d) + 1
<1>1. Count(u, Requests) \in Nat /\ Count(c, RealReads) \in Nat /\ Count(d, Answers) \in Nat
  BY UnansweredType
<1> QED BY <1>1 DEF Unanswered

-----------------------------------------------------------------------------
(* The watcher.                                                            *)

(* The frozen selection is the same to the channels, or has forgotten.     *)
Forgets ==
  /\ frozen'.pending = frozen.pending /\ frozen'.announced = frozen.announced
  /\ frozen'.confirmed \in {frozen.confirmed, 0}
  /\ DOMAIN frozen'.locked \subseteq DOMAIN frozen.locked
  /\ \A id \in DOMAIN frozen'.locked : frozen'.locked[id] = frozen.locked[id]

(* What the client sent is u now: nothing was taken of it, or something    *)
(* without consequence.                                                    *)
Settles(u) ==
  /\ u \in Seq(Message) /\ TablesKnown(frozen, down, u, peer)
  /\ ReadsResolved(u, commands, worker, down, peer.locks)
  /\ Unanswered(u, commands, worker, down) = Unanswered(up, commands, worker, down)

(* Nothing was taken,                                                      *)
LEMMA NothingTaken == OutboundInv => Settles(up)
  BY DEF OutboundInv, OutboundTyped, QueuesTyped, ChannelInv, Settles

(* or a message that is neither an answer nor a read.                      *)
LEMMA OtherTaken ==
  ASSUME OutboundInv, up # <<>>, Head(up).type \notin {"accepted", "read"}
  PROVE  Settles(Tail(up))
<1>1. up \in Seq(Message) /\ commands \in Seq(Read) /\ down \in Seq(Message)
  BY DEF OutboundInv, OutboundTyped, QueuesTyped
<1>2. Tail(up) \in Seq(Message)
  BY <1>1, QueueMoves
<1>3. TablesKnown(frozen, down, Tail(up), peer)
  BY <1>1, TakesOther DEF OutboundInv, ChannelInv
<1>4. ReadsResolved(Tail(up), commands, worker, down, peer.locks)
  BY <1>1, AskingMoves DEF OutboundInv, ChannelInv, ReadsResolved
<1>5. Unanswered(Tail(up), commands, worker, down) = Unanswered(up, commands, worker, down)
  BY <1>1, UpTaken
<1> QED BY <1>2, <1>3, <1>4, <1>5 DEF Settles

(* Steps that send and ask nothing.                                        *)
LEMMA QuietKept ==
  ASSUME OutboundInv, Forgets, Settles(up'), UNCHANGED <<down, commands, peer, wrong>>,
         worker'.pc = "read" <=> worker.pc = "read",
         worker'.pc = "read" => worker'.read = worker.read,
         stopping => stopping'
  PROVE  ChannelInv'
<1>1. TablesKnown(frozen', down, up', peer)
  BY ForgetsTables DEF Forgets, Settles
<1>2. ReadsResolved(up', commands, worker', down, peer.locks)
  BY DEF Settles, ReadsResolved, Reading
<1>3. Unanswered(up', commands, worker', down) = Unanswered(up, commands, worker, down)
  BY DEF Settles, Unanswered
<1> QED BY <1>1, <1>2, <1>3 DEF OutboundInv, ChannelInv, ReadsCounted, AnswersMatch

(* The worker is woken.                                                    *)
LEMMA WakeKept ==
  ASSUME OutboundInv, Forgets, commands' = Woken, UNCHANGED <<down, up, worker, peer, wrong>>,
         stopping => stopping'
  PROVE  ChannelInv' /\ commands' \in Seq(Read)
<1>1. up \in Seq(Message) /\ commands \in Seq(Read) /\ down \in Seq(Message)
  BY DEF OutboundInv, OutboundTyped, QueuesTyped
<1>2. TablesKnown(frozen', down, up, peer)
  BY ForgetsTables DEF OutboundInv, ChannelInv, Forgets
<1>3. CASE commands' = commands
  BY <1>1, <1>2, <1>3 DEF OutboundInv, ChannelInv, ReadsCounted, AnswersMatch
<1>4. CASE commands' = Append(commands, NoRead)
  <2>1. commands' \in Seq(Read)
    BY <1>1, <1>4, ReadFacts, QueueGrows
  <2>2. OfLock(NoRead, peer.locks)
    BY ReadFacts DEF OfLock
  <2>3. Queued(commands', peer.locks)
    BY <1>1, <1>4, <2>2, ReadFacts, QueuedGrows DEF OutboundInv, ChannelInv, ReadsResolved
  <2>4. Unanswered(up, commands', worker, down) = Unanswered(up, commands, worker, down)
    BY <1>1, <1>4, ReadFacts, QueueGrown
  <2> QED BY <1>2, <2>1, <2>3, <2>4
          DEF OutboundInv, ChannelInv, ReadsResolved, ReadsCounted, AnswersMatch
<1> QED BY <1>3, <1>4 DEF Woken

(* A table is announced.                                                   *)
LEMMA AnnounceKept ==
  ASSUME OutboundInv, NEW t \in Nat, down' = Append(down, Pdu("announce", t, 0, 0)), Settles(up'),
         frozen'.pending = frozen.pending + 1, frozen'.announced = t, frozen'.confirmed = 0,
         frozen'.locked = frozen.locked, UNCHANGED <<commands, peer, wrong, stopping>>,
         worker' = worker \/ (worker.pc # "read" /\ worker'.pc # "read")
  PROVE  ChannelInv' /\ down' \in Seq(Message)
<1>1. up' \in Seq(Message) /\ commands \in Seq(Read) /\ down \in Seq(Message)
  BY DEF OutboundInv, OutboundTyped, QueuesTyped, Settles
<1>2. PICK m \in Message : m = Pdu("announce", t, 0, 0) /\ m.type = "announce" /\ m.table = t
  BY Announcement
<1>3. down' \in Seq(Message)
  BY <1>1, <1>2, QueueGrows
<1>4. TablesKnown(frozen', down', up', peer)
  BY <1>1, <1>2, SendsAnnounce DEF Settles
<1>5. Answering(down', peer.locks)
  BY <1>1, <1>2, AnsweringGrows DEF Settles, ReadsResolved
<1>6. ReadsResolved(up', commands, worker', down', peer.locks)
  BY <1>5 DEF Settles, ReadsResolved, Reading
<1>7. Unanswered(up', commands, worker, down') = Unanswered(up', commands, worker, down)
  <2>1. m.type # "bytes"
    BY <1>2
  <2>2. Unanswered(up', commands, worker, Append(down, m)) = Unanswered(up', commands, worker, down)
    BY ONLY <1>1, <2>1, m \in Message, DownGrown
  <2> QED BY <1>2, <2>2
<1>8. Unanswered(up', commands, worker', down') = Unanswered(up', commands, worker, down')
  BY DEF Unanswered
<1> QED BY <1>3, <1>4, <1>6, <1>7, <1>8
        DEF OutboundInv, ChannelInv, ReadsCounted, AnswersMatch, Settles

(* A selection begins.                                                     *)
LEMMA DesktopOffersKept == OutboundInv /\ DesktopOffers => OutboundInv'
<1> SUFFICES ASSUME OutboundInv, DesktopOffers PROVE OutboundInv'
  OBVIOUS
<1>1. frozen' = FrozenOf(frozen.announced, frozen.confirmed, 0, frozen.gen + 1, frozen.locked,
                         frozen.locking, frozen.pending, frozen.stream)
  BY FrozenCleared DEF OutboundInv, OutboundTyped, DesktopOffers, ClearSelection
<1>2. desk' = DeskOf({}, 0, "caches", copied + 1)
  BY DEF DesktopOffers, IdleDesk, DeskOf
<1>3. /\ copied' = copied + 1 /\ handled' = copied + 1 /\ task \in {"idle", "files"}
      /\ UNCHANGED <<cache, slot, worker, task, stopping>>
      /\ UNCHANGED <<down, up, commands, peer, wrong>>
  BY DEF DesktopOffers, workVars
<1>4. OutboundTyped'
  <2>1. FrozenTyped'
    BY <1>1, <1>2, <1>3, RecordFields DEF OutboundInv, OutboundTyped, FrozenTyped
  <2>2. WorkTyped'
    BY <1>1, <1>2, <1>3, RecordFields DEF OutboundInv, OutboundTyped, WorkTyped
  <2>3. PeerTyped' /\ QueuesTyped'
    BY <1>3 DEF OutboundInv, OutboundTyped, PeerTyped, QueuesTyped
  <2> QED BY <2>1, <2>2, <2>3 DEF OutboundTyped
<1>5. WalkInv'
  BY <1>1, <1>2, <1>3, RecordFields
  DEF OutboundInv, OutboundTyped, FrozenTyped, WorkTyped, WalkInv, WalkCurrent, DropKnown,
      EntriesCurrent, TextCurrent
<1>6. ChannelInv'
  BY <1>1, <1>3, RecordFields, NothingTaken, QuietKept DEF Forgets
<1> QED BY <1>4, <1>5, <1>6 DEF OutboundInv

(* It forgets the caches,                                                  *)
LEMMA ClearCachesKept == OutboundInv /\ ClearCaches => OutboundInv'
<1> SUFFICES ASSUME OutboundInv, ClearCaches PROVE OutboundInv'
  OBVIOUS
<1>1. PICK i : cache' = CacheOf(i, 0)
  BY DEF ClearCaches, ClearedCaches, CacheOf
<1>2. \/ /\ desk' = DeskOf({}, 0, "idle", 0)
         /\ frozen' = FrozenOf(frozen.announced, frozen.confirmed, 0, frozen.gen + 1, frozen.locked,
                               frozen.locking, frozen.pending, frozen.stream)
      \/ desk' = DeskOf(desk.formats, desk.gen, "text", desk.sel) /\ frozen' = frozen
  <2>1. CASE KindsOf(desk.sel) = {}
    BY <2>1, FrozenCleared
    DEF OutboundInv, OutboundTyped, ClearCaches, ClearSelection, IdleDesk, DeskOf
  <2>2. CASE KindsOf(desk.sel) # {}
    BY <2>2 DEF OutboundInv, OutboundTyped, WorkTyped, ClearCaches, DeskOf
  <2> QED BY <2>1, <2>2
<1>3. /\ desk.pc = "caches" /\ UNCHANGED <<copied, handled, slot, worker, task, stopping>>
      /\ UNCHANGED <<down, up, commands, peer, wrong>>
  BY DEF ClearCaches, workVars
<1>4. OutboundTyped'
  <2>1. FrozenTyped'
    BY <1>1, <1>2, <1>3, RecordFields DEF OutboundInv, OutboundTyped, FrozenTyped
  <2>2. WorkTyped'
    BY <1>1, <1>2, <1>3, RecordFields DEF OutboundInv, OutboundTyped, WorkTyped
  <2>3. PeerTyped' /\ QueuesTyped'
    BY <1>3 DEF OutboundInv, OutboundTyped, PeerTyped, QueuesTyped
  <2> QED BY <2>1, <2>2, <2>3 DEF OutboundTyped
<1>5. WalkInv'
  BY <1>1, <1>2, <1>3, RecordFields
  DEF OutboundInv, OutboundTyped, FrozenTyped, WorkTyped, WalkInv, WalkCurrent, DropKnown,
      EntriesCurrent, TextCurrent
<1>6. ChannelInv'
  BY <1>2, <1>3, RecordFields, NothingTaken, QuietKept DEF Forgets
<1> QED BY <1>4, <1>5, <1>6 DEF OutboundInv

(* reads the text,                                                         *)
LEMMA ReadTextKept == OutboundInv /\ ReadText => OutboundInv'
<1> SUFFICES ASSUME OutboundInv, ReadText PROVE OutboundInv'
  OBVIOUS
<1>1. cache' = cache \/ cache' = CacheOf(cache.image, desk.sel)
  BY DEF ReadText, OutboundInv, OutboundTyped, WorkTyped, CacheOf
<1>2. PICK f : desk' = DeskOf(f, desk.gen, "image", desk.sel)
  <2>1. \E f : desk' = [desk EXCEPT !.pc = "image", !.formats = f]
    <3>1. CASE desk' = [desk EXCEPT !.pc = "image"]
      <4>1. desk' = [desk EXCEPT !.pc = "image", !.formats = desk.formats]
        BY <3>1 DEF OutboundInv, OutboundTyped, WorkTyped, DeskOf
      <4> QED BY <4>1
    <3>2. CASE desk' = [desk EXCEPT !.pc = "image", !.formats = @ \cup {"text"}]
      BY <3>2
    <3> QED BY <3>1, <3>2 DEF ReadText
  <2> QED BY <2>1 DEF OutboundInv, OutboundTyped, WorkTyped, DeskOf
<1>3. /\ desk.pc = "text" /\ UNCHANGED <<frozen, copied, handled, slot, worker, task, stopping>>
      /\ UNCHANGED <<down, up, commands, peer, wrong>>
  BY DEF ReadText, workVars
<1>4. OutboundTyped'
  <2>1. FrozenTyped'
    BY <1>1, <1>2, <1>3, RecordFields DEF OutboundInv, OutboundTyped, FrozenTyped
  <2>2. WorkTyped'
    BY <1>1, <1>2, <1>3, RecordFields DEF OutboundInv, OutboundTyped, WorkTyped
  <2>3. PeerTyped' /\ QueuesTyped'
    BY <1>3 DEF OutboundInv, OutboundTyped, PeerTyped, QueuesTyped
  <2> QED BY <2>1, <2>2, <2>3 DEF OutboundTyped
<1>5. WalkInv'
  BY <1>1, <1>2, <1>3, RecordFields
  DEF OutboundInv, OutboundTyped, FrozenTyped, WorkTyped, WalkInv, WalkCurrent, DropKnown,
      EntriesCurrent, TextCurrent
<1>6. ChannelInv'
  BY <1>3, NothingTaken, QuietKept DEF Forgets
<1> QED BY <1>4, <1>5, <1>6 DEF OutboundInv

(* the image,                                                              *)
LEMMA ReadImageKept == OutboundInv /\ ReadImage => OutboundInv'
<1> SUFFICES ASSUME OutboundInv, ReadImage PROVE OutboundInv'
  OBVIOUS
<1>1. cache' = cache \/ cache' = CacheOf(desk.sel, cache.text)
  BY DEF ReadImage, OutboundInv, OutboundTyped, WorkTyped, CacheOf
<1>2. PICK f : desk' = DeskOf(f, desk.gen, "uris", desk.sel)
  <2>1. \E f : desk' = [desk EXCEPT !.pc = "uris", !.formats = f]
    <3>1. CASE desk' = [desk EXCEPT !.pc = "uris"]
      <4>1. desk' = [desk EXCEPT !.pc = "uris", !.formats = desk.formats]
        BY <3>1 DEF OutboundInv, OutboundTyped, WorkTyped, DeskOf
      <4> QED BY <4>1
    <3>2. CASE desk' = [desk EXCEPT !.pc = "uris", !.formats = @ \cup {"image"}]
      BY <3>2
    <3> QED BY <3>1, <3>2 DEF ReadImage
  <2> QED BY <2>1 DEF OutboundInv, OutboundTyped, WorkTyped, DeskOf
<1>3. /\ desk.pc = "image" /\ UNCHANGED <<frozen, copied, handled, slot, worker, task, stopping>>
      /\ UNCHANGED <<down, up, commands, peer, wrong>>
  BY DEF ReadImage, workVars
<1>4. OutboundTyped'
  <2>1. FrozenTyped'
    BY <1>1, <1>2, <1>3, RecordFields DEF OutboundInv, OutboundTyped, FrozenTyped
  <2>2. WorkTyped'
    BY <1>1, <1>2, <1>3, RecordFields DEF OutboundInv, OutboundTyped, WorkTyped
  <2>3. PeerTyped' /\ QueuesTyped'
    BY <1>3 DEF OutboundInv, OutboundTyped, PeerTyped, QueuesTyped
  <2> QED BY <2>1, <2>2, <2>3 DEF OutboundTyped
<1>5. WalkInv'
  BY <1>1, <1>2, <1>3, RecordFields
  DEF OutboundInv, OutboundTyped, FrozenTyped, WorkTyped, WalkInv, WalkCurrent, DropKnown,
      EntriesCurrent, TextCurrent
<1>6. ChannelInv'
  BY <1>3, NothingTaken, QuietKept DEF Forgets
<1> QED BY <1>4, <1>5, <1>6 DEF OutboundInv

(* the URIs: files get a generation of their own,                          *)
LEMMA ReadUrisKept == OutboundInv /\ ReadUris => OutboundInv'
<1> SUFFICES ASSUME OutboundInv, ReadUris PROVE OutboundInv'
  OBVIOUS
<1> DEFINE Cleared == FrozenOf(frozen.announced, frozen.confirmed, 0, frozen.gen + 1, frozen.locked,
                               frozen.locking, frozen.pending, frozen.stream)
<1>0. ClearSelection => frozen' = Cleared
  BY FrozenCleared DEF OutboundInv, OutboundTyped, ClearSelection
<1>1. cache' = cache \/ cache' = CacheOf(cache.image, desk.sel)
  BY DEF ReadUris, OutboundInv, OutboundTyped, WorkTyped, CacheOf
<1>2. \/ frozen' = Cleared /\ desk' = DeskOf(desk.formats, frozen.gen + 1, "freeze", desk.sel)
      \/ /\ frozen' \in {frozen, Cleared}
         /\ \E f : desk' = DeskOf(f, desk.gen, "announce", desk.sel)
  <2>1. PICK v : v = frozen.gen + 1
    OBVIOUS
  <2>2. CASE ClearSelection /\ desk' = [desk EXCEPT !.pc = "freeze", !.gen = v]
    <3>1. desk' = DeskOf(desk.formats, v, "freeze", desk.sel)
      BY <2>2 DEF OutboundInv, OutboundTyped, WorkTyped, DeskOf
    <3> QED BY <1>0, <2>1, <2>2, <3>1
  <2>3. CASE desk' = [desk EXCEPT !.pc = "announce"] /\ (ClearSelection \/ UNCHANGED frozen)
    <3>1. desk' = DeskOf(desk.formats, desk.gen, "announce", desk.sel)
      BY <2>3 DEF OutboundInv, OutboundTyped, WorkTyped, DeskOf
    <3> QED BY <1>0, <2>3, <3>1
  <2>4. CASE /\ desk' = [desk EXCEPT !.pc = "announce", !.formats = @ \cup {"text"}]
             /\ ClearSelection \/ UNCHANGED frozen
    <3>1. PICK f : f = desk.formats \cup {"text"}
      OBVIOUS
    <3>2. desk' = [desk EXCEPT !.pc = "announce", !.formats = f]
      BY <2>4, <3>1
    <3>3. desk' = DeskOf(f, desk.gen, "announce", desk.sel)
      BY <3>2 DEF OutboundInv, OutboundTyped, WorkTyped, DeskOf
    <3> QED BY <1>0, <2>4, <3>3
  <2> QED BY <2>1, <2>2, <2>3, <2>4 DEF ReadUris
<1>3. /\ desk.pc = "uris" /\ UNCHANGED <<copied, handled, slot, worker, task, stopping>>
      /\ UNCHANGED <<down, up, commands, peer, wrong>>
  BY DEF ReadUris, workVars
<1>4. OutboundTyped'
  <2>1. FrozenTyped'
    BY <1>1, <1>2, <1>3, RecordFields DEF OutboundInv, OutboundTyped, FrozenTyped
  <2>2. WorkTyped'
    <3>1. /\ desk' = DeskOf(desk'.formats, desk'.gen, desk'.pc, desk'.sel)
          /\ desk'.gen \in {desk.gen, frozen.gen + 1} /\ desk'.sel = desk.sel
      BY <1>2, RecordFields
    <3>2. frozen.gen + 1 \in Nat
      BY DEF OutboundInv, OutboundTyped, FrozenTyped
    <3> QED BY <1>1, <1>3, <3>1, <3>2, RecordFields DEF OutboundInv, OutboundTyped, WorkTyped
  <2>3. PeerTyped' /\ QueuesTyped'
    BY <1>3 DEF OutboundInv, OutboundTyped, PeerTyped, QueuesTyped
  <2> QED BY <2>1, <2>2, <2>3 DEF OutboundTyped
<1>5. WalkInv'
  BY <1>1, <1>2, <1>3, RecordFields
  DEF OutboundInv, OutboundTyped, FrozenTyped, WorkTyped, WalkInv, WalkCurrent, DropKnown,
      EntriesCurrent, TextCurrent
<1>6. ChannelInv'
  BY <1>2, <1>3, RecordFields, NothingTaken, QuietKept DEF Forgets
<1> QED BY <1>4, <1>5, <1>6 DEF OutboundInv

(* which are handed to the worker,                                         *)
LEMMA FreezeFilesKept == OutboundInv /\ FreezeFiles => OutboundInv'
<1> SUFFICES ASSUME OutboundInv, FreezeFiles PROVE OutboundInv'
  OBVIOUS
<1>1. slot' = SlotOf(desk.gen, desk.sel)
  BY DEF FreezeFiles, SlotOf
<1>2. desk' = DeskOf(desk.formats, desk.gen, "announce", desk.sel)
  BY DEF FreezeFiles, OutboundInv, OutboundTyped, WorkTyped, DeskOf
<1>3. /\ desk.pc = "freeze" /\ commands' = Woken
      /\ UNCHANGED <<frozen, cache, copied, handled, worker, task, stopping>>
      /\ UNCHANGED <<down, up, worker, peer, wrong>>
  BY DEF FreezeFiles
<1>6. ChannelInv' /\ commands' \in Seq(Read)
  BY <1>3, WakeKept DEF Forgets
<1>4. OutboundTyped'
  <2>1. FrozenTyped'
    BY <1>1, <1>2, <1>3, RecordFields DEF OutboundInv, OutboundTyped, FrozenTyped
  <2>2. WorkTyped'
    BY <1>1, <1>2, <1>3, RecordFields DEF OutboundInv, OutboundTyped, WorkTyped
  <2>3. PeerTyped' /\ QueuesTyped'
    BY <1>3, <1>6 DEF OutboundInv, OutboundTyped, PeerTyped, QueuesTyped
  <2> QED BY <2>1, <2>2, <2>3 DEF OutboundTyped
<1>5. WalkInv'
  BY <1>1, <1>2, <1>3, RecordFields
  DEF OutboundInv, OutboundTyped, FrozenTyped, WorkTyped, WalkInv, WalkCurrent, DropKnown,
      EntriesCurrent, TextCurrent
<1> QED BY <1>4, <1>5, <1>6 DEF OutboundInv

(* and what was read is announced.                                         *)
LEMMA AnnounceLocalKept == OutboundInv /\ AnnounceLocal => OutboundInv'
<1> SUFFICES ASSUME OutboundInv, AnnounceLocal PROVE OutboundInv'
  OBVIOUS
<1>1. desk' = DeskOf({}, 0, "idle", 0)
  BY DEF AnnounceLocal, IdleDesk, DeskOf
<1>2. \/ frozen' = frozen /\ down' = down
      \/ /\ frozen' = FrozenOf(0, 0, frozen.entries, frozen.gen, frozen.locked, frozen.locking,
                               frozen.pending + 1, frozen.stream)
         /\ down' = Append(down, Pdu("announce", 0, 0, 0))
  BY FrozenAnnounced DEF AnnounceLocal, Announce, OutboundInv, OutboundTyped
<1>3. /\ desk.pc = "announce" /\ UNCHANGED <<cache, copied, handled, slot, worker, task>>
      /\ UNCHANGED <<up, commands, peer, wrong, stopping>>
  BY DEF AnnounceLocal, workVars
<1>6. ChannelInv' /\ down' \in Seq(Message)
  <2>1. CASE frozen' = frozen /\ down' = down
    BY <1>3, <2>1, NothingTaken, QuietKept DEF Forgets, OutboundInv, OutboundTyped, QueuesTyped
  <2>2. CASE /\ frozen' = FrozenOf(0, 0, frozen.entries, frozen.gen, frozen.locked, frozen.locking,
                                   frozen.pending + 1, frozen.stream)
             /\ down' = Append(down, Pdu("announce", 0, 0, 0))
    BY <1>3, <2>2, RecordFields, NothingTaken, AnnounceKept
  <2> QED BY <1>2, <2>1, <2>2
<1>4. OutboundTyped'
  <2>1. FrozenTyped'
    BY <1>1, <1>2, <1>3, RecordFields DEF OutboundInv, OutboundTyped, FrozenTyped
  <2>2. WorkTyped'
    BY <1>1, <1>2, <1>3, RecordFields DEF OutboundInv, OutboundTyped, WorkTyped
  <2>3. PeerTyped' /\ QueuesTyped'
    BY <1>3, <1>6 DEF OutboundInv, OutboundTyped, PeerTyped, QueuesTyped
  <2> QED BY <2>1, <2>2, <2>3 DEF OutboundTyped
<1>5. WalkInv'
  BY <1>1, <1>2, <1>3, RecordFields
  DEF OutboundInv, OutboundTyped, FrozenTyped, WorkTyped, WalkInv, WalkCurrent, DropKnown,
      EntriesCurrent, TextCurrent
<1> QED BY <1>4, <1>5, <1>6 DEF OutboundInv

-----------------------------------------------------------------------------
(* The file worker.                                                        *)

(* It starts a walk, goes to its queue or ends,                            *)
LEMMA WorkerTopKept == OutboundInv /\ WorkerTop => OutboundInv'
<1> SUFFICES ASSUME OutboundInv, WorkerTop PROVE OutboundInv'
  OBVIOUS
<1>1. \/ /\ stopping /\ slot' = slot
         /\ worker' = WorkerOf(worker.gen, "ended", worker.read, worker.table)
      \/ /\ ~stopping /\ slot # NoSlot /\ slot' = NoSlot
         /\ worker' = WorkerOf(slot.gen, "walk", worker.read, slot.table)
      \/ worker' = WorkerOf(worker.gen, "recv", worker.read, worker.table) /\ slot' = slot
  <2>1. CASE stopping
    BY <2>1 DEF WorkerTop, OutboundInv, OutboundTyped, WorkTyped, WorkerOf
  <2>2. CASE ~stopping /\ slot # NoSlot
    <3>1. PICK g, t : g = slot.gen /\ t = slot.table
      OBVIOUS
    <3>2. worker' = [worker EXCEPT !.pc = "walk", !.table = t, !.gen = g] /\ slot' = NoSlot
      BY <2>2, <3>1 DEF WorkerTop
    <3>3. worker' = WorkerOf(g, "walk", worker.read, t)
      BY <3>2 DEF OutboundInv, OutboundTyped, WorkTyped, WorkerOf
    <3> QED BY <2>2, <3>1, <3>2, <3>3
  <2>3. CASE ~stopping /\ slot = NoSlot
    BY <2>3 DEF WorkerTop, OutboundInv, OutboundTyped, WorkTyped, WorkerOf
  <2> QED BY <2>1, <2>2, <2>3
<1>2. NoSlot = SlotOf(0, 0)
  BY DEF NoSlot, SlotOf
<1>3. /\ worker.pc = "top" /\ UNCHANGED <<frozen, cache, copied, handled, desk, task, stopping>>
      /\ UNCHANGED <<down, up, commands, peer, wrong>>
  BY DEF WorkerTop
<1>4. OutboundTyped'
  <2>1. FrozenTyped'
    BY <1>1, <1>2, <1>3, RecordFields DEF OutboundInv, OutboundTyped, FrozenTyped
  <2>2. WorkTyped'
    BY <1>1, <1>2, <1>3, RecordFields, ReadFacts DEF OutboundInv, OutboundTyped, WorkTyped
  <2>3. PeerTyped' /\ QueuesTyped'
    BY <1>3 DEF OutboundInv, OutboundTyped, PeerTyped, QueuesTyped
  <2> QED BY <2>1, <2>2, <2>3 DEF OutboundTyped
<1>5. WalkInv'
  BY <1>1, <1>2, <1>3, RecordFields
  DEF OutboundInv, OutboundTyped, FrozenTyped, WorkTyped, WalkInv, WalkCurrent, DropKnown,
      EntriesCurrent, TextCurrent
<1>6. ChannelInv'
  BY <1>1, <1>3, RecordFields, NothingTaken, QuietKept DEF Forgets
<1> QED BY <1>4, <1>5, <1>6 DEF OutboundInv

(* publishes what it walked, unless its generation is over,                *)
LEMMA PublishKept == OutboundInv /\ Publish => OutboundInv'
<1> SUFFICES ASSUME OutboundInv, Publish PROVE OutboundInv'
  OBVIOUS
<1>1. worker' = WorkerOf(0, "top", NoRead, 0)
  BY DEF Publish, IdleWorker, WorkerOf
<1>2. \/ /\ frozen.gen = worker.gen
         /\ frozen' = FrozenOf(worker.table, 0, worker.table, frozen.gen, frozen.locked,
                               frozen.locking, frozen.pending + 1, frozen.stream)
         /\ down' = Append(down, Pdu("announce", worker.table, 0, 0))
      \/ /\ frozen' = FrozenOf(frozen.announced, frozen.confirmed, 0, frozen.gen, frozen.locked,
                               frozen.locking, frozen.pending, frozen.stream)
         /\ down' = down
      \/ frozen' = frozen /\ down' = down
  BY FrozenPublished, FrozenEmptied DEF Publish, MayPublish, OutboundInv, OutboundTyped
<1>3. /\ worker.pc = "walk" /\ UNCHANGED <<cache, copied, handled, slot, desk, task, stopping>>
      /\ UNCHANGED <<up, commands, peer, wrong>>
  BY DEF Publish
<1>6. ChannelInv' /\ down' \in Seq(Message)
  <2>1. CASE down' = down
    BY <1>1, <1>2, <1>3, <2>1, RecordFields, NothingTaken, QuietKept
    DEF Forgets, OutboundInv, OutboundTyped, QueuesTyped
  <2>2. CASE /\ frozen' = FrozenOf(worker.table, 0, worker.table, frozen.gen, frozen.locked,
                                   frozen.locking, frozen.pending + 1, frozen.stream)
             /\ down' = Append(down, Pdu("announce", worker.table, 0, 0))
    <3>1. worker.table \in Nat
      BY DEF OutboundInv, OutboundTyped, WorkTyped
    <3> QED BY <1>1, <1>3, <2>2, <3>1, RecordFields, NothingTaken, AnnounceKept
  <2> QED BY <1>2, <2>1, <2>2
<1>4. OutboundTyped'
  <2>1. FrozenTyped'
    <3>1. /\ worker.table \in Nat /\ frozen.gen \in Nat /\ frozen.entries \in Nat
          /\ frozen.pending \in Nat /\ frozen.announced \in Nat /\ frozen.confirmed \in Nat
      BY DEF OutboundInv, OutboundTyped, FrozenTyped, WorkTyped
    <3>2. frozen = FrozenOf(frozen.announced, frozen.confirmed, frozen.entries, frozen.gen,
                            frozen.locked, frozen.locking, frozen.pending, frozen.stream)
      BY DEF OutboundInv, OutboundTyped, FrozenTyped
    <3>3. CASE frozen' = frozen
      BY <3>1, <3>2, <3>3 DEF FrozenTyped
    <3>4. CASE frozen' # frozen
      BY <1>2, <3>1, <3>4, RecordFields DEF FrozenTyped
    <3> QED BY <3>3, <3>4
  <2>2. WorkTyped'
    BY <1>1, <1>2, <1>3, RecordFields, ReadFacts DEF OutboundInv, OutboundTyped, WorkTyped
  <2>3. PeerTyped' /\ QueuesTyped'
    BY <1>3, <1>6 DEF OutboundInv, OutboundTyped, PeerTyped, QueuesTyped
  <2> QED BY <2>1, <2>2, <2>3 DEF OutboundTyped
<1>5. WalkInv'
  BY <1>1, <1>2, <1>3, RecordFields
  DEF OutboundInv, OutboundTyped, FrozenTyped, WorkTyped, WalkInv, WalkCurrent, DropKnown,
      EntriesCurrent, TextCurrent
<1> QED BY <1>4, <1>5, <1>6 DEF OutboundInv

(* takes a wake or a read from the queue,                                  *)
LEMMA WorkerRecvKept == OutboundInv /\ WorkerRecv => OutboundInv'
<1> SUFFICES ASSUME OutboundInv, WorkerRecv PROVE OutboundInv'
  OBVIOUS
<1>0. up \in Seq(Message) /\ commands \in Seq(Read) /\ down \in Seq(Message) /\ commands # <<>>
  BY DEF OutboundInv, OutboundTyped, QueuesTyped, WorkerRecv
<1>1. \/ Head(commands).id = 0 /\ worker' = WorkerOf(0, "top", NoRead, 0)
      \/ /\ Head(commands).id # 0
         /\ worker' = WorkerOf(worker.gen, "read", Head(commands), worker.table)
  <2>1. CASE Head(commands).id = 0
    BY <2>1 DEF WorkerRecv, IdleWorker, WorkerOf
  <2>2. CASE Head(commands).id # 0
    <3>1. PICK r : r = Head(commands)
      OBVIOUS
    <3>2. worker' = [worker EXCEPT !.pc = "read", !.read = r]
      BY <2>2, <3>1 DEF WorkerRecv
    <3>3. worker' = WorkerOf(worker.gen, "read", r, worker.table)
      BY <3>2 DEF OutboundInv, OutboundTyped, WorkTyped, WorkerOf
    <3> QED BY <2>2, <3>1, <3>3
  <2> QED BY <2>1, <2>2
<1>2. Head(commands) \in Read /\ Tail(commands) \in Seq(Read)
  BY <1>0, QueueMoves
<1>3. /\ worker.pc = "recv" /\ commands' = Tail(commands)
      /\ UNCHANGED <<frozen, cache, copied, handled, slot, desk, task, stopping>>
      /\ UNCHANGED <<down, up, peer, wrong>>
  BY DEF WorkerRecv
<1>4. OutboundTyped'
  <2>1. FrozenTyped'
    BY <1>1, <1>2, <1>3, RecordFields DEF OutboundInv, OutboundTyped, FrozenTyped
  <2>2. WorkTyped'
    BY <1>1, <1>2, <1>3, RecordFields, ReadFacts DEF OutboundInv, OutboundTyped, WorkTyped
  <2>3. PeerTyped' /\ QueuesTyped'
    BY <1>2, <1>3 DEF OutboundInv, OutboundTyped, PeerTyped, QueuesTyped
  <2> QED BY <2>1, <2>2, <2>3 DEF OutboundTyped
<1>5. WalkInv'
  BY <1>1, <1>2, <1>3, RecordFields
  DEF OutboundInv, OutboundTyped, FrozenTyped, WorkTyped, WalkInv, WalkCurrent, DropKnown,
      EntriesCurrent, TextCurrent
<1>6. ChannelInv'
  <2>1. Queued(Tail(commands), peer.locks) /\ OfLock(Head(commands), peer.locks)
    BY <1>0, QueuedMoves DEF OutboundInv, ChannelInv, ReadsResolved
  <2>2. ReadsResolved(up, Tail(commands), worker', down, peer.locks)
    BY <1>1, <2>1, RecordFields DEF OutboundInv, ChannelInv, ReadsResolved, Reading
  <2>3. PICK c, v : c \in Seq(Read) /\ c = Tail(commands) /\ v = worker'
    BY <1>2
  <2>4. /\ Head(commands).id # 0 =>
             Unanswered(up, commands, worker, down) = Unanswered(up, c, worker, down) + 1
        /\ Head(commands).id = 0 =>
             Unanswered(up, commands, worker, down) = Unanswered(up, c, worker, down)
    BY <1>0, <2>3, QueueTaken
  <2>5. worker.pc # "read" /\ (v.pc = "read" <=> Head(commands).id # 0)
    BY <1>1, <1>3, <2>3, RecordFields
  <2>6. v.pc = "read" => Unanswered(up, c, v, down) = Unanswered(up, c, worker, down) + 1
    <3>1. c \in Seq(Read) /\ worker.pc # "read"
      BY <2>3, <2>5
    <3> QED BY ONLY <1>0, <3>1, WorkerCounted
  <2>7. v.pc # "read" => Unanswered(up, c, v, down) = Unanswered(up, c, worker, down)
    BY <2>5 DEF Unanswered
  <2>8. Unanswered(up, Tail(commands), worker', down) = Unanswered(up, commands, worker, down)
    BY <2>3, <2>4, <2>5, <2>6, <2>7
  <2> QED BY <1>3, <2>2, <2>8 DEF OutboundInv, ChannelInv, ReadsCounted, AnswersMatch
<1> QED BY <1>4, <1>5, <1>6 DEF OutboundInv

(* and answers a read.                                                     *)
LEMMA AnswerReadKept == OutboundInv /\ AnswerRead => OutboundInv'
<1> SUFFICES ASSUME OutboundInv, AnswerRead PROVE OutboundInv'
  OBVIOUS
<1>0. /\ up \in Seq(Message) /\ commands \in Seq(Read) /\ down \in Seq(Message)
      /\ worker.read \in Read
  BY DEF OutboundInv, OutboundTyped, QueuesTyped, WorkTyped
<1>1. \/ /\ stopping /\ down' = down
         /\ worker' = WorkerOf(worker.gen, "ended", worker.read, worker.table)
      \/ /\ worker' = WorkerOf(0, "top", NoRead, 0)
         /\ \E table \in {0, worker.read.table} :
              down' = Append(down, Pdu("bytes", table, worker.read.id, worker.read.lock))
  BY DEF AnswerRead, IdleWorker, WorkerOf, OutboundInv, OutboundTyped, WorkTyped
<1>2. \/ stopping /\ down' = down
      \/ \E m \in Message : /\ down' = Append(down, m) /\ m.type = "bytes"
                            /\ m.lock = worker.read.lock /\ m.table \in {0, worker.read.table}
  <2>1. CASE stopping /\ down' = down
    BY <2>1
  <2>2. ASSUME NEW table \in {0, worker.read.table},
               down' = Append(down, Pdu("bytes", table, worker.read.id, worker.read.lock))
        PROVE  \E m \in Message : /\ down' = Append(down, m) /\ m.type = "bytes"
                                  /\ m.lock = worker.read.lock /\ m.table \in {0, worker.read.table}
    <3>1. /\ table \in Nat /\ worker.read.id \in Ids /\ worker.read.lock \in Ids
          /\ "bytes" \in Types
      BY <1>0, ReadFacts DEF Types
    <3>2. PICK m : m = Pdu("bytes", table, worker.read.id, worker.read.lock)
      OBVIOUS
    <3>3. m \in Message /\ m.type = "bytes" /\ m.lock = worker.read.lock /\ m.table = table
      BY <3>1, <3>2, PduFacts
    <3> QED BY <2>2, <3>2, <3>3
  <2> QED BY <1>1, <2>1, <2>2
<1>3. /\ worker.pc = "read" /\ UNCHANGED <<up, commands, peer, wrong>>
      /\ UNCHANGED <<frozen, cache, copied, handled, slot, desk, task, stopping>>
  BY DEF AnswerRead
<1>6. ChannelInv' /\ down' \in Seq(Message)
  <2>1. CASE stopping /\ down' = down
    BY <1>0, <1>1, <1>3, <2>1, RecordFields
    DEF OutboundInv, ChannelInv, ReadsResolved, Reading, ReadsCounted, AnswersMatch
  <2>2. ASSUME NEW m \in Message, down' = Append(down, m), m.type = "bytes",
               m.lock = worker.read.lock, m.table \in {0, worker.read.table}, worker'.pc = "top"
        PROVE  ChannelInv' /\ down' \in Seq(Message)
    <3>1. down' \in Seq(Message)
      BY <1>0, <2>2, QueueGrows
    <3>2. TablesKnown(frozen, down', up, peer)
      BY <1>0, <2>2, SendsOther DEF OutboundInv, ChannelInv
    <3>3. OfLock(m, peer.locks)
      BY <1>3, <2>2 DEF OutboundInv, ChannelInv, ReadsResolved, Reading, OfLock
    <3>4. Answering(down', peer.locks)
      BY <1>0, <2>2, <3>3, AnsweringGrows DEF OutboundInv, ChannelInv, ReadsResolved
    <3>5. ReadsResolved(up, commands, worker', down', peer.locks)
      BY <2>2, <3>4 DEF OutboundInv, ChannelInv, ReadsResolved, Reading
    <3>6. Unanswered(up, commands, worker, Append(down, m)) =
            Unanswered(up, commands, worker, down) + 1
      BY ONLY <1>0, m \in Message, m.type = "bytes", DownGrown
    <3>7. /\ worker.pc = "read" /\ worker'.pc # "read" =>
               Unanswered(up, commands, worker, down') =
                 Unanswered(up, commands, worker', down') + 1
          /\ Unanswered(up, commands, worker', down') \in Nat
          /\ Unanswered(up, commands, worker, down) \in Nat
      BY ONLY <1>0, <3>1, WorkerCounted, UnansweredType
    <3>8. Unanswered(up, commands, worker', down') = Unanswered(up, commands, worker, down)
      BY <1>3, <2>2, <3>6, <3>7
    <3> QED BY <1>3, <3>1, <3>2, <3>5, <3>8 DEF OutboundInv, ChannelInv, ReadsCounted, AnswersMatch
  <2> QED BY <1>1, <1>2, <2>1, <2>2, RecordFields
<1>4. OutboundTyped'
  <2>1. FrozenTyped'
    BY <1>3, RecordFields DEF OutboundInv, OutboundTyped, FrozenTyped
  <2>2. WorkTyped'
    BY <1>1, <1>3, RecordFields, ReadFacts DEF OutboundInv, OutboundTyped, WorkTyped
  <2>3. PeerTyped' /\ QueuesTyped'
    BY <1>3, <1>6 DEF OutboundInv, OutboundTyped, PeerTyped, QueuesTyped
  <2> QED BY <2>1, <2>2, <2>3 DEF OutboundTyped
<1>5. WalkInv'
  BY <1>1, <1>3, RecordFields
  DEF OutboundInv, OutboundTyped, FrozenTyped, WorkTyped, WalkInv, WalkCurrent, DropKnown,
      EntriesCurrent, TextCurrent
<1> QED BY <1>4, <1>5, <1>6 DEF OutboundInv

-----------------------------------------------------------------------------
(* The RDP task.                                                           *)

(* A step of it leaves the watcher and the worker alone.                   *)
LEMMA WalkKept ==
  ASSUME OutboundInv, UNCHANGED <<cache, slot, worker, desk, copied, handled, stopping>>,
         \/ frozen'.gen = frozen.gen /\ frozen'.entries = frozen.entries
         \/ frozen'.gen = frozen.gen + 1 /\ frozen'.entries = 0,
         task' = task \/ task' \in {"idle", "files"}
  PROVE  WorkTyped' /\ WalkInv'
  BY DEF OutboundInv, OutboundTyped, FrozenTyped, WorkTyped, WalkInv, WalkCurrent, DropKnown,
         EntriesCurrent, TextCurrent

(* It takes the answer to an announcement,                                 *)
LEMMA OnFormatListResponseKept == OutboundInv /\ OnFormatListResponse => OutboundInv'
<1> SUFFICES ASSUME OutboundInv, OnFormatListResponse PROVE OutboundInv'
  OBVIOUS
<1>0. up \in Seq(Message) /\ commands \in Seq(Read) /\ down \in Seq(Message) /\ up # <<>>
  BY DEF OutboundInv, OutboundTyped, QueuesTyped, OnFormatListResponse, Comes
<1>1. /\ Head(up).type = "accepted" /\ up' = Tail(up)
      /\ UNCHANGED <<cache, slot, worker, desk, copied, handled, stopping>>
      /\ UNCHANGED <<commands, task, down, peer, wrong>>
  BY DEF OnFormatListResponse, Comes, Take, workVars
<1>2. frozen.pending # 0 /\ frozen.pending \in Nat
  BY <1>0, <1>1, TakesAccepted DEF OutboundInv, ChannelInv
<1>3. PICK x : /\ x = frozen.confirmed \/ (frozen.pending = 1 /\ x = frozen.announced)
               /\ frozen' = [frozen EXCEPT !.pending = @ - 1, !.confirmed = x]
  <2>1. PICK x : x = IF frozen.pending = 1 /\ Head(up).id = 1
                     THEN frozen.announced ELSE frozen.confirmed
    OBVIOUS
  <2>2. frozen' = [frozen EXCEPT !.pending = @ - 1, !.confirmed = x]
    BY <1>2, <2>1 DEF OnFormatListResponse
  <2> QED BY <2>1, <2>2
<1>4. frozen' = FrozenOf(frozen.announced, x, frozen.entries, frozen.gen, frozen.locked,
                         frozen.locking, frozen.pending - 1, frozen.stream)
  BY <1>3, FrozenConfirmed DEF OutboundInv, OutboundTyped
<1>5. FrozenTyped'
  BY <1>2, <1>3, <1>4, RecordFields DEF OutboundInv, OutboundTyped, FrozenTyped
<1>6. WorkTyped' /\ WalkInv'
  BY <1>1, <1>4, RecordFields, WalkKept
<1>7. PeerTyped' /\ QueuesTyped'
  BY <1>0, <1>1, QueueMoves DEF OutboundInv, OutboundTyped, PeerTyped, QueuesTyped
<1>8. TablesKnown(frozen', down, Tail(up), peer)
  <2>1. TablesKnown(frozen, down, up, peer) /\ Head(up).type = "accepted"
    BY <1>1 DEF OutboundInv, ChannelInv
  <2>2. PICK g : g = frozen'
    OBVIOUS
  <2>3. /\ g.pending = frozen.pending - 1 /\ g.announced = frozen.announced
        /\ g.locked = frozen.locked /\ g.confirmed = x
    BY ONLY <1>4, <2>2, RecordFields
  <2>4. TablesKnown(g, down, Tail(up), peer)
    BY ONLY <1>0, <1>3, <2>1, <2>3, TakesAccepted
  <2> QED BY <2>2, <2>4
<1>9. ReadsResolved(Tail(up), commands, worker, down, peer.locks)
  BY <1>0, AskingMoves DEF OutboundInv, ChannelInv, ReadsResolved
<1>10. Unanswered(Tail(up), commands, worker, down) = Unanswered(up, commands, worker, down)
  BY <1>0, <1>1, UpTaken
<1>11. ChannelInv'
  BY <1>1, <1>8, <1>9, <1>10 DEF OutboundInv, ChannelInv, ReadsCounted, AnswersMatch
<1> QED BY <1>5, <1>6, <1>7, <1>11 DEF OutboundInv, OutboundTyped

(* a lock,                                                                 *)
LEMMA OnLockKept == OutboundInv /\ OnLock => OutboundInv'
<1> SUFFICES ASSUME OutboundInv, OnLock PROVE OutboundInv'
  OBVIOUS
<1>0. up \in Seq(Message) /\ commands \in Seq(Read) /\ down \in Seq(Message) /\ up # <<>>
  BY DEF OutboundInv, OutboundTyped, QueuesTyped, OnLock, Comes
<1>1. /\ Head(up).type = "lock" /\ up' = Tail(up)
      /\ UNCHANGED <<cache, slot, worker, desk, copied, handled, stopping>>
      /\ UNCHANGED <<commands, task, down, peer, wrong>>
  BY DEF OnLock, Comes, Take, workVars
<1>2. PICK l : /\ frozen' = FrozenOf(frozen.announced, frozen.confirmed, frozen.entries,
                                     frozen.gen, l, frozen.locking, frozen.pending, frozen.stream)
               /\ \/ l = frozen.locked
                  \/ frozen.confirmed # 0 /\ l = Put(frozen.locked, Head(up).id, frozen.confirmed)
  <2>1. CASE frozen' = frozen
    BY <2>1 DEF OutboundInv, OutboundTyped, FrozenTyped
  <2>2. CASE frozen' # frozen
    <3>1. /\ frozen.confirmed # 0
          /\ frozen' = [frozen EXCEPT !.locked = Put(frozen.locked, Head(up).id, frozen.confirmed)]
      BY <2>2 DEF OnLock, Lockable
    <3>2. PICK l : l = Put(frozen.locked, Head(up).id, frozen.confirmed)
      OBVIOUS
    <3> QED BY <3>1, <3>2, FrozenLocked DEF OutboundInv, OutboundTyped
  <2> QED BY <2>1, <2>2
<1>3. FrozenTyped'
  BY <1>2, RecordFields DEF OutboundInv, OutboundTyped, FrozenTyped
<1>4. WorkTyped' /\ WalkInv'
  BY <1>1, <1>2, RecordFields, WalkKept
<1>5. PeerTyped' /\ QueuesTyped'
  BY <1>0, <1>1, QueueMoves DEF OutboundInv, OutboundTyped, PeerTyped, QueuesTyped
<1>6. Settles(Tail(up))
  BY <1>0, <1>1, OtherTaken
<1>7. LockedOf(l, peer.locks)
  <2>1. LockedOf(frozen.locked, peer.locks)
    BY DEF OutboundInv, ChannelInv, TablesKnown
  <2>2. frozen.confirmed # 0 =>
          Head(up).id \in DOMAIN peer.locks /\ peer.locks[Head(up).id] = frozen.confirmed
    BY <1>0, <1>1, TakesLock DEF OutboundInv, ChannelInv
  <2> QED BY <1>2, <2>1, <2>2 DEF LockedOf, Put
<1>8. TablesKnown(frozen', down, Tail(up), peer)
  BY <1>2, <1>6, <1>7, RecordFields DEF Settles, TablesKnown, PendingCounted
<1>9. ChannelInv'
  BY <1>1, <1>6, <1>8 DEF OutboundInv, ChannelInv, ReadsCounted, AnswersMatch, Settles
<1> QED BY <1>3, <1>4, <1>5, <1>9 DEF OutboundInv, OutboundTyped

(* an unlock,                                                              *)
LEMMA OnUnlockKept == OutboundInv /\ OnUnlock => OutboundInv'
<1> SUFFICES ASSUME OutboundInv, OnUnlock PROVE OutboundInv'
  OBVIOUS
<1>0. up \in Seq(Message) /\ up # <<>>
  BY DEF OutboundInv, OutboundTyped, QueuesTyped, OnUnlock, Comes
<1>1. /\ Head(up).type = "unlock" /\ up' = Tail(up)
      /\ UNCHANGED <<cache, slot, worker, desk, copied, handled, stopping>>
      /\ UNCHANGED <<commands, task, down, peer, wrong>>
  BY DEF OnUnlock, Comes, Take, workVars
<1>2. PICK l : l = Drop(frozen.locked, Head(up).id) /\ frozen' = [frozen EXCEPT !.locked = l]
  BY DEF OnUnlock
<1>3. frozen' = FrozenOf(frozen.announced, frozen.confirmed, frozen.entries, frozen.gen, l,
                         frozen.locking, frozen.pending, frozen.stream)
  BY <1>2, FrozenLocked DEF OutboundInv, OutboundTyped
<1>4. FrozenTyped'
  BY <1>3, RecordFields DEF OutboundInv, OutboundTyped, FrozenTyped
<1>5. WorkTyped' /\ WalkInv'
  BY <1>1, <1>3, RecordFields, WalkKept
<1>6. PeerTyped' /\ QueuesTyped'
  BY <1>0, <1>1, QueueMoves DEF OutboundInv, OutboundTyped, PeerTyped, QueuesTyped
<1>7. Forgets
  BY <1>2, <1>3, RecordFields DEF Forgets, Drop
<1>8. ChannelInv'
  BY <1>0, <1>1, <1>7, OtherTaken, QuietKept
<1> QED BY <1>4, <1>5, <1>6, <1>8 DEF OutboundInv, OutboundTyped

(* a copy of the client's,                                                 *)
LEMMA OnClientCopyKept == OutboundInv /\ OnClientCopy => OutboundInv'
<1> SUFFICES ASSUME OutboundInv, OnClientCopy PROVE OutboundInv'
  OBVIOUS
<1>0. up \in Seq(Message) /\ up # <<>>
  BY DEF OutboundInv, OutboundTyped, QueuesTyped, OnClientCopy, Comes
<1>1. /\ Head(up).type = "copy" /\ up' = Tail(up)
      /\ UNCHANGED <<cache, slot, worker, desk, copied, handled, stopping>>
      /\ UNCHANGED <<commands, task, down, peer, wrong>>
  BY DEF OnClientCopy, Comes, Take, workVars
<1>2. frozen' = FrozenOf(frozen.announced, frozen.confirmed, 0, frozen.gen + 1, frozen.locked,
                         frozen.locking, frozen.pending, frozen.stream)
  BY FrozenCleared DEF OutboundInv, OutboundTyped, OnClientCopy, ClearSelection
<1>3. FrozenTyped'
  BY <1>2, RecordFields DEF OutboundInv, OutboundTyped, FrozenTyped
<1>4. WorkTyped' /\ WalkInv'
  BY <1>1, <1>2, RecordFields, WalkKept
<1>5. PeerTyped' /\ QueuesTyped'
  BY <1>0, <1>1, QueueMoves DEF OutboundInv, OutboundTyped, PeerTyped, QueuesTyped
<1>6. ChannelInv'
  BY <1>0, <1>1, <1>2, RecordFields, OtherTaken, QuietKept DEF Forgets
<1> QED BY <1>3, <1>4, <1>5, <1>6 DEF OutboundInv, OutboundTyped

(* a read, which is queued with the table it is of, or refused,            *)
LEMMA OnFileContentsRequestKept == OutboundInv /\ OnFileContentsRequest => OutboundInv'
<1> SUFFICES ASSUME OutboundInv, OnFileContentsRequest PROVE OutboundInv'
  OBVIOUS
<1>0. up \in Seq(Message) /\ commands \in Seq(Read) /\ down \in Seq(Message) /\ up # <<>>
  BY DEF OutboundInv, OutboundTyped, QueuesTyped, OnFileContentsRequest, Comes
<1>1. /\ Head(up).type = "read" /\ up' = Tail(up)
      /\ UNCHANGED <<cache, slot, worker, desk, copied, handled, stopping>>
      /\ UNCHANGED <<frozen, task, peer, wrong>>
  BY DEF OnFileContentsRequest, Comes, Take
<1>2. PICK m \in Message : m = Head(up) /\ Tail(up) \in Seq(Message)
  BY <1>0, QueueMoves
<1>3. /\ m.id \in Nat \ {0} /\ (m.lock # 0 => m.lock \in DOMAIN peer.locks)
      /\ m.id \in Ids /\ m.lock \in Ids
  BY <1>0, <1>1, <1>2, AskingMoves, MessageFacts DEF OutboundInv, ChannelInv, ReadsResolved
<1>4. PICK t \in Nat : t = SelectedTable(m.lock) /\ (m.lock # 0 => t \in {0, peer.locks[m.lock]})
  <2>1. LockedOf(frozen.locked, peer.locks)
    BY DEF OutboundInv, ChannelInv, TablesKnown
  <2>2. frozen.entries \in Nat /\ \A id \in DOMAIN peer.locks : peer.locks[id] \in Nat
    BY DEF OutboundInv, OutboundTyped, FrozenTyped, PeerTyped
  <2>3. CASE m.lock = 0
    BY <2>2, <2>3 DEF SelectedTable
  <2>4. CASE m.lock # 0 /\ SelectedTable(m.lock) = 0
    BY <2>4
  <2>5. CASE m.lock # 0 /\ SelectedTable(m.lock) # 0
    <3>1. m.lock \in DOMAIN frozen.locked /\ SelectedTable(m.lock) = frozen.locked[m.lock]
      BY <2>5 DEF SelectedTable
    <3>2. SelectedTable(m.lock) = peer.locks[m.lock] /\ m.lock \in DOMAIN peer.locks
      BY <2>1, <3>1 DEF LockedOf
    <3> QED BY <2>2, <3>2
  <2> QED BY <2>3, <2>4, <2>5
<1>5. FrozenTyped' /\ WorkTyped' /\ PeerTyped' /\ WalkInv'
  BY <1>1, WalkKept DEF OutboundInv, OutboundTyped, FrozenTyped, PeerTyped
<1>6. /\ TablesKnown(frozen, down, Tail(up), peer)
      /\ Asking(Tail(up), peer.locks)
      /\ Unanswered(up, commands, worker, down) = Unanswered(Tail(up), commands, worker, down) + 1
      /\ Unanswered(Tail(up), commands, worker, down) \in Nat
  <2>1. TablesKnown(frozen, down, Tail(up), peer)
    BY <1>0, <1>1, TakesOther DEF OutboundInv, ChannelInv
  <2>2. Asking(Tail(up), peer.locks)
    BY <1>0, AskingMoves DEF OutboundInv, ChannelInv, ReadsResolved
  <2>3. /\ Unanswered(up, commands, worker, down) = Unanswered(Tail(up), commands, worker, down) + 1
        /\ Unanswered(Tail(up), commands, worker, down) \in Nat
    BY ONLY <1>0, <1>1, UpTaken
  <2> QED BY <2>1, <2>2, <2>3
<1>7. CASE commands' = Append(commands, [id |-> m.id, lock |-> m.lock, table |-> t]) /\ down' = down
  <2>1. PICK r \in Read : /\ r = [id |-> m.id, lock |-> m.lock, table |-> t]
                          /\ r.id # 0 /\ OfLock(r, peer.locks)
    <3>1. PICK r : r = [id |-> m.id, lock |-> m.lock, table |-> t]
      OBVIOUS
    <3>2. r \in Read /\ r.id = m.id /\ r.lock = m.lock /\ r.table = t
      BY <1>3, <3>1, ReadFacts
    <3> QED BY <1>3, <1>4, <3>1, <3>2 DEF OfLock
  <2>2. commands' \in Seq(Read)
    BY <1>0, <1>7, <2>1, QueueGrows
  <2>3. Queued(commands', peer.locks)
    BY <1>0, <1>7, <2>1, QueuedGrows DEF OutboundInv, ChannelInv, ReadsResolved
  <2>4. Unanswered(Tail(up), Append(commands, r), worker, down) =
          Unanswered(Tail(up), commands, worker, down) + 1
    <3>1. PICK u \in Seq(Message) : u = Tail(up)
      BY <1>2
    <3>2. Unanswered(u, Append(commands, r), worker, down) =
            Unanswered(u, commands, worker, down) + 1
      BY <1>0, <2>1, QueueGrown
    <3> QED BY <3>1, <3>2
  <2>5. Unanswered(up', commands', worker', down') = Unanswered(up, commands, worker, down)
    BY <1>1, <1>6, <1>7, <2>1, <2>4
  <2>6. ChannelInv'
    BY <1>1, <1>6, <1>7, <2>3, <2>5
    DEF OutboundInv, ChannelInv, ReadsResolved, ReadsCounted, AnswersMatch
  <2> QED BY <1>0, <1>1, <1>2, <1>5, <1>7, <2>2, <2>6 DEF OutboundInv, OutboundTyped, QueuesTyped
<1>8. CASE down' = Append(down, Pdu("bytes", 0, m.id, m.lock)) /\ commands' = commands
  <2>1. PICK a \in Message : /\ a = Pdu("bytes", 0, m.id, m.lock)
                             /\ a.type = "bytes" /\ OfLock(a, peer.locks)
    <3>1. PICK a : a = Pdu("bytes", 0, m.id, m.lock)
      OBVIOUS
    <3>2. 0 \in Nat /\ "bytes" \in Types
      BY DEF Types
    <3>3. a \in Message /\ a.type = "bytes" /\ a.table = 0 /\ a.lock = m.lock
      BY <1>3, <3>1, <3>2, PduFacts
    <3> QED BY <1>3, <3>1, <3>3 DEF OfLock
  <2>2. down' \in Seq(Message)
    BY <1>0, <1>8, <2>1, QueueGrows
  <2>3. TablesKnown(frozen, down', Tail(up), peer)
    BY <1>0, <1>6, <1>8, <2>1, SendsOther
  <2>4. Answering(down', peer.locks)
    BY <1>0, <1>8, <2>1, AnsweringGrows DEF OutboundInv, ChannelInv, ReadsResolved
  <2>5. Unanswered(Tail(up), commands, worker, Append(down, a)) =
          Unanswered(Tail(up), commands, worker, down) + 1
    <3>1. PICK u \in Seq(Message) : u = Tail(up)
      BY <1>2
    <3>2. Unanswered(u, commands, worker, Append(down, a)) =
            Unanswered(u, commands, worker, down) + 1
      BY <1>0, <2>1, DownGrown
    <3> QED BY <3>1, <3>2
  <2>6. Unanswered(up', commands', worker', down') = Unanswered(up, commands, worker, down)
    BY <1>1, <1>6, <1>8, <2>1, <2>5
  <2>7. ChannelInv'
    BY <1>1, <1>6, <1>8, <2>3, <2>4, <2>6
    DEF OutboundInv, ChannelInv, ReadsResolved, ReadsCounted, AnswersMatch
  <2> QED BY <1>0, <1>1, <1>2, <1>5, <1>8, <2>2, <2>7 DEF OutboundInv, OutboundTyped, QueuesTyped
<1> QED BY <1>2, <1>4, <1>7, <1>8 DEF OnFileContentsRequest, Refuse

(* a request for the list, which is announced in two parts,                *)
LEMMA OnRequestFormatListKept == OutboundInv /\ OnRequestFormatList => OutboundInv'
<1> SUFFICES ASSUME OutboundInv, OnRequestFormatList PROVE OutboundInv'
  OBVIOUS
<1>0. up \in Seq(Message) /\ down \in Seq(Message) /\ up # <<>>
  BY DEF OutboundInv, OutboundTyped, QueuesTyped, OnRequestFormatList, Comes
<1>1. /\ Head(up).type = "list" /\ up' = Tail(up) /\ task' = "files"
      /\ UNCHANGED <<cache, slot, worker, desk, copied, handled, stopping>>
      /\ UNCHANGED <<commands, peer, wrong>>
  BY DEF OnRequestFormatList, Comes, Take, workVars
<1>2. \/ frozen' = frozen /\ down' = down
      \/ /\ frozen' = FrozenOf(0, 0, frozen.entries, frozen.gen, frozen.locked, frozen.locking,
                               frozen.pending + 1, frozen.stream)
         /\ down' = Append(down, Pdu("announce", 0, 0, 0))
  BY FrozenAnnounced DEF OnRequestFormatList, Announce, OutboundInv, OutboundTyped
<1>3. FrozenTyped'
  BY <1>2, RecordFields DEF OutboundInv, OutboundTyped, FrozenTyped
<1>4. WorkTyped' /\ WalkInv'
  BY <1>1, <1>2, RecordFields, WalkKept
<1>5. Settles(Tail(up))
  BY <1>0, <1>1, OtherTaken
<1>6. ChannelInv' /\ down' \in Seq(Message)
  <2>1. CASE frozen' = frozen /\ down' = down
    BY <1>0, <1>1, <1>5, <2>1, QuietKept DEF Forgets
  <2>2. CASE /\ frozen' = FrozenOf(0, 0, frozen.entries, frozen.gen, frozen.locked, frozen.locking,
                                   frozen.pending + 1, frozen.stream)
             /\ down' = Append(down, Pdu("announce", 0, 0, 0))
    BY <1>1, <1>5, <2>2, RecordFields, AnnounceKept
  <2> QED BY <1>2, <2>1, <2>2
<1>7. PeerTyped' /\ QueuesTyped'
  BY <1>0, <1>1, <1>6, QueueMoves DEF OutboundInv, OutboundTyped, PeerTyped, QueuesTyped
<1> QED BY <1>3, <1>4, <1>6, <1>7 DEF OutboundInv, OutboundTyped

(* the second of which is the files,                                       *)
LEMMA AnnounceFilesKept == OutboundInv /\ AnnounceFiles => OutboundInv'
<1> SUFFICES ASSUME OutboundInv, AnnounceFiles PROVE OutboundInv'
  OBVIOUS
<1>1. /\ task' = "idle" /\ UNCHANGED <<cache, slot, worker, desk, copied, handled, stopping>>
      /\ UNCHANGED <<up, commands, peer, wrong>>
  BY DEF AnnounceFiles, workVars
<1>2. \/ frozen' = frozen /\ down' = down
      \/ /\ frozen' = FrozenOf(frozen.entries, 0, frozen.entries, frozen.gen, frozen.locked,
                               frozen.locking, frozen.pending + 1, frozen.stream)
         /\ down' = Append(down, Pdu("announce", frozen.entries, 0, 0))
  BY FrozenAnnounced DEF AnnounceFiles, Announce, OutboundInv, OutboundTyped
<1>3. FrozenTyped'
  BY <1>2, RecordFields DEF OutboundInv, OutboundTyped, FrozenTyped
<1>4. WorkTyped' /\ WalkInv'
  BY <1>1, <1>2, RecordFields, WalkKept
<1>5. ChannelInv' /\ down' \in Seq(Message)
  <2>1. CASE frozen' = frozen /\ down' = down
    BY <1>1, <2>1, NothingTaken, QuietKept DEF Forgets, OutboundInv, OutboundTyped, QueuesTyped
  <2>2. CASE /\ frozen' = FrozenOf(frozen.entries, 0, frozen.entries, frozen.gen, frozen.locked,
                                   frozen.locking, frozen.pending + 1, frozen.stream)
             /\ down' = Append(down, Pdu("announce", frozen.entries, 0, 0))
    <3>1. frozen.entries \in Nat
      BY DEF OutboundInv, OutboundTyped, FrozenTyped
    <3> QED BY <1>1, <2>2, <3>1, RecordFields, NothingTaken, AnnounceKept
  <2> QED BY <1>2, <2>1, <2>2
<1>6. PeerTyped' /\ QueuesTyped'
  BY <1>1, <1>5 DEF OutboundInv, OutboundTyped, PeerTyped, QueuesTyped
<1> QED BY <1>3, <1>4, <1>5, <1>6 DEF OutboundInv, OutboundTyped

(* or a request for text.                                                  *)
LEMMA OnFormatDataRequestKept == OutboundInv /\ OnFormatDataRequest => OutboundInv'
<1> SUFFICES ASSUME OutboundInv, OnFormatDataRequest PROVE OutboundInv'
  OBVIOUS
<1>0. up \in Seq(Message) /\ commands \in Seq(Read) /\ down \in Seq(Message) /\ up # <<>>
  BY DEF OutboundInv, OutboundTyped, QueuesTyped, OnFormatDataRequest, Comes
<1>1. /\ Head(up).type = "paste" /\ up' = Tail(up)
      /\ UNCHANGED <<cache, slot, worker, desk, copied, handled, stopping>>
      /\ UNCHANGED <<frozen, commands, task, peer, wrong>>
  BY DEF OnFormatDataRequest, Comes, Take, workVars
<1>2. PICK m \in Message : m.type = "data" /\ down' = Append(down, m)
  <2>1. 0 \in Ids /\ cache.text \in Nat /\ "data" \in Types
    BY DEF Ids, Types, OutboundInv, OutboundTyped, WorkTyped
  <2>2. PICK m : m = Pdu("data", cache.text, 0, 0)
    OBVIOUS
  <2>3. m \in Message /\ m.type = "data"
    BY <2>1, <2>2, PduFacts
  <2> QED BY <2>2, <2>3 DEF OnFormatDataRequest
<1>3. FrozenTyped' /\ WorkTyped' /\ PeerTyped' /\ WalkInv'
  BY <1>1, WalkKept DEF OutboundInv, OutboundTyped, FrozenTyped, PeerTyped
<1>4. Settles(Tail(up))
  BY <1>0, <1>1, OtherTaken
<1>5. QueuesTyped'
  BY <1>0, <1>1, <1>2, <1>4, QueueGrows DEF QueuesTyped, Settles
<1>6. TablesKnown(frozen, down', Tail(up), peer)
  BY <1>0, <1>2, <1>4, SendsOther DEF Settles
<1>7. Answering(down', peer.locks)
  BY <1>0, <1>2, <1>4, AnsweringGrows DEF Settles, ReadsResolved
<1>8. Unanswered(Tail(up), commands, worker, down') = Unanswered(up, commands, worker, down)
  <2>1. m.type # "bytes" /\ Tail(up) \in Seq(Message)
    BY <1>2, <1>4 DEF Settles
  <2>2. PICK u \in Seq(Message) : u = Tail(up)
    BY <2>1
  <2>3. Unanswered(u, commands, worker, Append(down, m)) = Unanswered(u, commands, worker, down)
    BY <1>0, <2>1, DownGrown
  <2> QED BY <1>2, <1>4, <2>2, <2>3 DEF Settles
<1>9. ChannelInv'
  BY <1>1, <1>4, <1>6, <1>7, <1>8
  DEF OutboundInv, ChannelInv, ReadsResolved, ReadsCounted, AnswersMatch, Settles
<1> QED BY <1>3, <1>5, <1>9 DEF OutboundInv, OutboundTyped

(* It drops the worker, its selection and its locks.                       *)
LEMMA DropKept == OutboundInv /\ (DropWorker \/ DropSelection \/ WorkerGone) => OutboundInv'
<1>1. ASSUME OutboundInv, DropWorker \/ WorkerGone PROVE OutboundInv'
  <2>1. /\ UNCHANGED <<frozen, cache, slot, worker, desk, copied, handled>>
        /\ UNCHANGED <<down, up, commands, peer, wrong>>
        /\ \/ task' = "clear" /\ stopping' /\ desk.pc = "idle"
           \/ task = "wait" /\ task' = "ended" /\ stopping' = stopping
    BY <1>1 DEF DropWorker, WorkerGone, workVars
  <2>2. FrozenTyped' /\ WorkTyped' /\ PeerTyped' /\ QueuesTyped'
    BY <1>1, <2>1 DEF OutboundInv, OutboundTyped, FrozenTyped, WorkTyped, PeerTyped, QueuesTyped
  <2>3. WalkInv'
    BY <1>1, <2>1 DEF OutboundInv, WalkInv, WalkCurrent, DropKnown, EntriesCurrent, TextCurrent
  <2>4. ChannelInv'
    BY <1>1, <2>1, NothingTaken, QuietKept DEF Forgets
  <2> QED BY <2>2, <2>3, <2>4 DEF OutboundInv, OutboundTyped
<1>2. ASSUME OutboundInv, DropSelection PROVE OutboundInv'
  <2>1. PICK l, k : /\ frozen' = FrozenOf(frozen.announced, 0, 0, frozen.gen + 1, l, k,
                                           frozen.pending, frozen.stream)
                    /\ DOMAIN l = {}
    <3>1. PICK l, k : l = NoTables /\ k = FALSE
      OBVIOUS
    <3>2. DOMAIN l = {}
      BY <3>1 DEF NoTables
    <3>3. frozen' = FrozenOf(frozen.announced, 0, 0, frozen.gen + 1, l, k, frozen.pending,
                             frozen.stream)
      BY <1>2, <3>1, FrozenDropped DEF DropSelection, OutboundInv, OutboundTyped
    <3> QED BY <3>2, <3>3
  <2>2. /\ UNCHANGED <<cache, slot, worker, desk, copied, handled, stopping>>
        /\ UNCHANGED <<down, up, worker, peer, wrong>>
        /\ commands' = Woken /\ task = "clear" /\ task' = "wait"
    BY <1>2 DEF DropSelection
  <2>3. FrozenTyped'
    BY <1>2, <2>1, RecordFields DEF OutboundInv, OutboundTyped, FrozenTyped
  <2>4. WorkTyped' /\ WalkInv'
    <3>1. WorkTyped'
      BY <1>2, <2>2 DEF OutboundInv, OutboundTyped, WorkTyped
    <3>2. frozen'.gen = frozen.gen + 1 /\ frozen'.entries = 0
      BY <2>1, RecordFields
    <3>3. frozen.gen \in Nat /\ slot.gen \in Nat /\ worker.gen \in Nat /\ desk.gen \in Nat
      BY <1>2 DEF OutboundInv, OutboundTyped, FrozenTyped, WorkTyped
    <3>4. WalkInv'
      BY <1>2, <2>2, <3>2, <3>3
      DEF OutboundInv, WalkInv, WalkCurrent, DropKnown, EntriesCurrent, TextCurrent
    <3> QED BY <3>1, <3>4
  <2>5. Forgets
    BY <2>1, RecordFields DEF Forgets
  <2>6. ChannelInv' /\ commands' \in Seq(Read)
    BY <1>2, <2>2, <2>5, WakeKept
  <2>7. PeerTyped' /\ QueuesTyped'
    BY <1>2, <2>2, <2>6 DEF OutboundInv, OutboundTyped, PeerTyped, QueuesTyped
  <2> QED BY <2>3, <2>4, <2>6, <2>7 DEF OutboundInv, OutboundTyped
<1> QED BY <1>1, <1>2

-----------------------------------------------------------------------------
(* The client.                                                             *)

(* A step of it leaves the server alone.                                   *)
LEMMA ServerKept ==
  ASSUME OutboundInv, UNCHANGED ServerSide
  PROVE  /\ FrozenTyped' /\ WorkTyped' /\ WalkInv'
         /\ UNCHANGED <<frozen, commands, worker, stopping>>
<1>1. /\ UNCHANGED <<frozen, cache, slot, worker, desk, copied, handled, stopping>>
      /\ UNCHANGED <<commands, task>>
  BY DEF ServerSide, workVars
<1>2. FrozenTyped' /\ WorkTyped'
  BY <1>1 DEF OutboundInv, OutboundTyped, FrozenTyped, WorkTyped
<1>3. WalkInv'
  BY <1>1 DEF OutboundInv, WalkInv, WalkCurrent, DropKnown, EntriesCurrent, TextCurrent
<1> QED BY <1>1, <1>2, <1>3

(* The client's record, by its fields.                                     *)
LEMMA PeerFields ==
  ASSUME NEW c, NEW l, NEW o \in Int, NEW r \in Nat, NEW t \in Nat,
         peer' = PeerOf(c, l, o, r, t),
         DOMAIN l \subseteq LockIds, \A id \in DOMAIN l : l[id] \in Nat
  PROVE  PeerTyped' /\ peer'.locks = l /\ peer'.outstanding = o /\ peer'.table = t
  BY RecordFields DEF PeerTyped

(* It takes an announcement, and answers it,                               *)
LEMMA PeerReceivesAnnounce ==
  ASSUME OutboundInv, down # <<>>, down' = Tail(down), Head(down).type = "announce",
         NEW ok \in {0, 1}, up' = Append(up, Pdu("accepted", 0, ok, 0)),
         peer' = [peer EXCEPT !.table = Head(down).table], UNCHANGED ServerSide, UNCHANGED wrong
  PROVE  OutboundInv'
<1>0. up \in Seq(Message) /\ commands \in Seq(Read) /\ down \in Seq(Message)
  BY DEF OutboundInv, OutboundTyped, QueuesTyped
<1>1. FrozenTyped' /\ WorkTyped' /\ WalkInv' /\ UNCHANGED <<frozen, commands, worker, stopping>>
  BY ServerKept
<1>2. PICK m \in Message : m.type = "accepted" /\ up' = Append(up, m)
  <2>1. 0 \in Ids /\ 0 \in Nat /\ ok \in Ids /\ "accepted" \in Types
    BY DEF Ids, Types
  <2>2. PICK m : m = Pdu("accepted", 0, ok, 0)
    OBVIOUS
  <2>3. m \in Message /\ m.type = "accepted"
    BY ONLY <2>1, <2>2, PduFacts
  <2> QED BY <2>2, <2>3
<1>3. PICK e \in Seq(Message) : e = Tail(down) /\ Head(down) \in Message
  BY <1>0, QueueMoves
<1>4. PICK t \in Nat : t = Head(down).table
  BY <1>3, MessageFacts
<1>5. peer' = PeerOf(peer.copies, peer.locks, peer.outstanding, peer.reads, t)
  BY <1>4 DEF OutboundInv, OutboundTyped, PeerTyped, PeerOf
<1>6. /\ PeerTyped' /\ peer'.locks = peer.locks
      /\ peer'.outstanding = peer.outstanding /\ peer'.table = t
  <2>1. /\ peer.outstanding \in Int /\ peer.reads \in Nat /\ DOMAIN peer.locks \subseteq LockIds
        /\ \A id \in DOMAIN peer.locks : peer.locks[id] \in Nat
    BY DEF OutboundInv, OutboundTyped, PeerTyped
  <2> QED BY ONLY <1>5, <2>1, t \in Nat, PeerFields
<1>7. QueuesTyped'
  BY <1>0, <1>1, <1>2, <1>3, QueueGrows DEF QueuesTyped
<1>8. TablesKnown(frozen, down', up', peer')
  <2>1. TablesKnown(frozen, down, up, peer)
    BY DEF OutboundInv, ChannelInv
  <2>2. TablesKnown(frozen, Tail(down), Append(up, m), peer')
    BY ONLY <1>0, <1>2, <1>4, <1>6, <2>1, down # <<>>, Head(down).type = "announce", m \in Message,
            ReceivesAnnounce
  <2> QED BY <1>2, <2>2
<1>9. ReadsResolved(up', commands, worker, down', peer.locks)
  <2>1. Asking(up', peer.locks)
    BY <1>0, <1>2, AskingGrows DEF OutboundInv, ChannelInv, ReadsResolved
  <2>2. Answering(down', peer.locks)
    BY <1>0, AnsweringMoves DEF OutboundInv, ChannelInv, ReadsResolved
  <2> QED BY <2>1, <2>2 DEF OutboundInv, ChannelInv, ReadsResolved
<1>10. Unanswered(up', commands, worker, down') = Unanswered(up, commands, worker, down)
  <2>1. Unanswered(up, commands, worker, down) = Unanswered(up, commands, worker, e)
    BY <1>0, <1>3, DownTaken
  <2>2. m.type # "read"
    BY <1>2
  <2>3. Unanswered(Append(up, m), commands, worker, e) = Unanswered(up, commands, worker, e)
    BY ONLY <1>0, <2>2, m \in Message, e \in Seq(Message), UpGrown
  <2> QED BY <1>2, <1>3, <2>1, <2>3
<1>11. ChannelInv'
  BY <1>1, <1>6, <1>8, <1>9, <1>10 DEF OutboundInv, ChannelInv, ReadsCounted, AnswersMatch
<1> QED BY <1>1, <1>6, <1>7, <1>11 DEF OutboundInv, OutboundTyped

(* the answer to a read, which is of the table it locked,                  *)
LEMMA PeerReceivesBytes ==
  ASSUME OutboundInv, down # <<>>, down' = Tail(down), Head(down).type = "bytes",
         peer' = [peer EXCEPT !.outstanding = @ - 1],
         wrong' = (wrong \/ (/\ Head(down).lock # 0
                             /\ Head(down).table \notin {0, peer.locks[Head(down).lock]})),
         UNCHANGED ServerSide, UNCHANGED up
  PROVE  OutboundInv'
<1>0. up \in Seq(Message) /\ commands \in Seq(Read) /\ down \in Seq(Message)
  BY DEF OutboundInv, OutboundTyped, QueuesTyped
<1>1. FrozenTyped' /\ WorkTyped' /\ WalkInv' /\ UNCHANGED <<frozen, commands, worker, stopping>>
  BY ServerKept
<1>2. PICK o : o = peer.outstanding - 1
  OBVIOUS
<1>3. peer' = PeerOf(peer.copies, peer.locks, o, peer.reads, peer.table)
  BY <1>2 DEF OutboundInv, OutboundTyped, PeerTyped, PeerOf
<1>4. PeerTyped' /\ peer'.locks = peer.locks /\ peer'.outstanding = o /\ peer'.table = peer.table
  <2>1. /\ peer.table \in Nat /\ o \in Int /\ peer.reads \in Nat 
        /\ DOMAIN peer.locks \subseteq LockIds
        /\ \A id \in DOMAIN peer.locks : peer.locks[id] \in Nat
    BY <1>2 DEF OutboundInv, OutboundTyped, PeerTyped
  <2> QED BY ONLY <1>3, <2>1, PeerFields
<1>5. QueuesTyped'
  BY <1>0, <1>1, QueueMoves DEF QueuesTyped
<1>6. TablesKnown(frozen, down', up, peer')
  BY <1>0, <1>4, ReceivesOther DEF OutboundInv, ChannelInv
<1>7. Answering(down', peer.locks) /\ OfLock(Head(down), peer.locks)
  BY <1>0, AnsweringMoves DEF OutboundInv, ChannelInv, ReadsResolved
<1>8. ReadsResolved(up, commands, worker, down', peer.locks)
  BY <1>7 DEF OutboundInv, ChannelInv, ReadsResolved
<1>9. AnswersMatch'
  BY <1>7 DEF OutboundInv, ChannelInv, AnswersMatch, OfLock
<1>10. /\ Unanswered(up, commands, worker, down) = Unanswered(up, commands, worker, down') + 1
       /\ Unanswered(up, commands, worker, down') \in Nat
  BY <1>0, DownTaken
<1>11. ReadsCounted'
  BY <1>1, <1>2, <1>4, <1>10 DEF OutboundInv, ChannelInv, ReadsCounted
<1>12. ChannelInv'
  BY <1>1, <1>4, <1>6, <1>8, <1>9, <1>11 DEF ChannelInv
<1> QED BY <1>1, <1>4, <1>5, <1>12 DEF OutboundInv, OutboundTyped

(* or the text it pasted.                                                  *)
LEMMA PeerReceivesData ==
  ASSUME OutboundInv, down # <<>>, down' = Tail(down), Head(down).type = "data",
         UNCHANGED <<up, peer, wrong>>, UNCHANGED ServerSide
  PROVE  OutboundInv'
<1>0. up \in Seq(Message) /\ commands \in Seq(Read) /\ down \in Seq(Message)
  BY DEF OutboundInv, OutboundTyped, QueuesTyped
<1>1. FrozenTyped' /\ WorkTyped' /\ WalkInv' /\ UNCHANGED <<frozen, commands, worker, stopping>>
  BY ServerKept
<1>2. PeerTyped' /\ QueuesTyped'
  BY <1>0, <1>1, QueueMoves DEF OutboundInv, OutboundTyped, PeerTyped, QueuesTyped
<1>3. TablesKnown(frozen, down', up, peer)
  BY <1>0, ReceivesOther DEF OutboundInv, ChannelInv
<1>4. ReadsResolved(up, commands, worker, down', peer.locks)
  BY <1>0, AnsweringMoves DEF OutboundInv, ChannelInv, ReadsResolved
<1>5. Unanswered(up, commands, worker, down) = Unanswered(up, commands, worker, down')
  BY <1>0, DownTaken
<1>6. ChannelInv'
  BY <1>1, <1>3, <1>4, <1>5 DEF OutboundInv, ChannelInv, ReadsCounted, AnswersMatch
<1> QED BY <1>1, <1>2, <1>6 DEF OutboundInv, OutboundTyped

(* Whatever comes, it takes.                                               *)
LEMMA PeerReceivesKept == OutboundInv /\ PeerReceives => OutboundInv'
  BY PeerReceivesAnnounce, PeerReceivesBytes, PeerReceivesData DEF PeerReceives, PeerSend

(* It locks the table it has,                                              *)
LEMMA PeerLocksKept ==
  ASSUME OutboundInv, NEW id \in LockIds, PeerLocks(id)
  PROVE  OutboundInv'
<1>0. /\ up \in Seq(Message) /\ commands \in Seq(Read) /\ down \in Seq(Message)
      /\ peer.outstanding \in Int /\ peer.reads \in Nat /\ peer.table \in Nat
  BY DEF OutboundInv, OutboundTyped, QueuesTyped, PeerTyped
<1>1. /\ UNCHANGED ServerSide /\ UNCHANGED <<down, wrong>> /\ peer.table # 0
      /\ id \notin DOMAIN peer.locks /\ up' = Append(up, Pdu("lock", peer.table, id, 0))
  BY DEF PeerLocks, PeerSend
<1>2. FrozenTyped' /\ WorkTyped' /\ WalkInv' /\ UNCHANGED <<frozen, commands, worker, stopping>>
  BY <1>1, ServerKept
<1>3. PICK m \in Message : /\ m.type = "lock" /\ m.table = peer.table /\ m.id = id
                           /\ up' = Append(up, m)
  <2>1. 0 \in Ids /\ id \in Ids /\ "lock" \in Types
    BY DEF Ids, Types
  <2>2. PICK m : m = Pdu("lock", peer.table, id, 0)
    OBVIOUS
  <2>3. m \in Message /\ m.type = "lock" /\ m.table = peer.table /\ m.id = id
    BY ONLY <1>0, <2>1, <2>2, PduFacts
  <2> QED BY <1>1, <2>2, <2>3
<1>4. PICK l : l = Put(peer.locks, id, peer.table)
  OBVIOUS
<1>5. /\ DOMAIN l = DOMAIN peer.locks \cup {id} /\ l[id] = peer.table
      /\ \A i \in DOMAIN peer.locks : l[i] = peer.locks[i]
  BY <1>1, <1>4 DEF Put
<1>6. DOMAIN l \subseteq LockIds /\ \A i \in DOMAIN l : l[i] \in Nat
  BY <1>0, <1>5 DEF OutboundInv, OutboundTyped, PeerTyped
<1>7. peer' = PeerOf(peer.copies, l, peer.outstanding, peer.reads, peer.table)
  BY <1>4 DEF PeerLocks, OutboundInv, OutboundTyped, PeerTyped, PeerOf
<1>8. /\ PeerTyped' /\ peer'.locks = l /\ peer'.outstanding = peer.outstanding
      /\ peer'.table = peer.table
  BY ONLY <1>0, <1>6, <1>7, PeerFields
<1>9. QueuesTyped'
  BY <1>0, <1>1, <1>2, <1>3, QueueGrows DEF QueuesTyped
<1>10. TablesKnown(frozen, down, up', peer')
  <2>1. TablesKnown(frozen, down, up, peer)
    BY DEF OutboundInv, ChannelInv
  <2>2. /\ DOMAIN peer.locks \subseteq DOMAIN peer'.locks /\ m.id \in DOMAIN peer'.locks
        /\ \A i \in DOMAIN peer.locks : peer'.locks[i] = peer.locks[i]
        /\ peer'.locks[m.id] = m.table
    BY <1>3, <1>5, <1>8
  <2>3. TablesKnown(frozen, down, Append(up, m), peer')
    <3>1. peer.table # 0
      BY <1>1
    <3> QED BY ONLY <1>0, <1>3, <1>8, <2>1, <2>2, <3>1, m \in Message, ClientLocks
  <2> QED BY <1>3, <2>3
<1>11. ReadsResolved(up', commands, worker, down, peer'.locks)
  <2>1. ReadsResolved(up, commands, worker, down, l)
    BY <1>5, LocksStay DEF OutboundInv, ChannelInv
  <2>2. Asking(up', l)
    BY <1>0, <1>3, <2>1, AskingGrows DEF ReadsResolved
  <2> QED BY <1>8, <2>1, <2>2 DEF ReadsResolved
<1>12. Unanswered(up', commands, worker, down) = Unanswered(up, commands, worker, down)
  <2>1. m.type # "read"
    BY <1>3
  <2>2. Unanswered(Append(up, m), commands, worker, down) = Unanswered(up, commands, worker, down)
    BY ONLY <1>0, <2>1, m \in Message, UpGrown
  <2> QED BY <1>3, <2>2
<1>13. ChannelInv'
  BY <1>1, <1>2, <1>8, <1>10, <1>11, <1>12 DEF OutboundInv, ChannelInv, ReadsCounted, AnswersMatch
<1> QED BY <1>2, <1>8, <1>9, <1>13 DEF OutboundInv, OutboundTyped

(* or sends something that is neither a lock nor an answer.                *)
LEMMA PeerSends ==
  ASSUME OutboundInv, UNCHANGED ServerSide, UNCHANGED <<down, wrong>>, PeerTyped',
         NEW m \in Message, up' = Append(up, m), m.type \notin {"accepted", "lock"},
         peer'.table \in {0, peer.table}, peer'.locks = peer.locks,
         \/ m.type # "read" /\ peer'.outstanding = peer.outstanding
         \/ /\ m.type = "read" /\ peer'.outstanding = peer.outstanding + 1
            /\ m.id \in Nat \ {0} /\ (m.lock # 0 => m.lock \in DOMAIN peer.locks)
  PROVE  OutboundInv'
<1>0. up \in Seq(Message) /\ commands \in Seq(Read) /\ down \in Seq(Message)
  BY DEF OutboundInv, OutboundTyped, QueuesTyped
<1>1. FrozenTyped' /\ WorkTyped' /\ WalkInv' /\ UNCHANGED <<frozen, commands, worker, stopping>>
  BY ServerKept
<1>2. QueuesTyped'
  BY <1>0, <1>1, QueueGrows DEF QueuesTyped
<1>3. TablesKnown(frozen, down, up', peer')
  BY <1>0, ClientSends DEF OutboundInv, ChannelInv
<1>4. ReadsResolved(up', commands, worker, down, peer'.locks)
  BY <1>0, AskingGrows DEF OutboundInv, ChannelInv, ReadsResolved
<1>5. /\ m.type = "read" =>
           Unanswered(up', commands, worker, down) = Unanswered(up, commands, worker, down) + 1
      /\ m.type # "read" =>
           Unanswered(up', commands, worker, down) = Unanswered(up, commands, worker, down)
  BY <1>0, UpGrown
<1>6. ReadsCounted'
  BY <1>1, <1>5 DEF OutboundInv, ChannelInv, ReadsCounted
<1>7. ChannelInv'
  BY <1>1, <1>3, <1>4, <1>6 DEF OutboundInv, ChannelInv, AnswersMatch
<1> QED BY <1>1, <1>2, <1>7 DEF OutboundInv, OutboundTyped

(* Such are an unlock,                                                     *)
LEMMA PeerUnlocksKept ==
  ASSUME OutboundInv, NEW id \in LockIds, PeerUnlocks(id)
  PROVE  OutboundInv'
<1>1. /\ UNCHANGED ServerSide /\ UNCHANGED <<down, wrong>> /\ peer' = peer
      /\ up' = Append(up, Pdu("unlock", 0, id, 0))
  BY DEF PeerUnlocks, PeerSend
<1>2. PICK m \in Message : m.type = "unlock" /\ up' = Append(up, m)
  <2>1. 0 \in Nat /\ 0 \in Ids /\ id \in Ids /\ "unlock" \in Types
    BY DEF Ids, Types
  <2>2. PICK m : m = Pdu("unlock", 0, id, 0)
    OBVIOUS
  <2>3. m \in Message /\ m.type = "unlock"
    BY ONLY <2>1, <2>2, PduFacts
  <2> QED BY <1>1, <2>2, <2>3
<1>3. PeerTyped'
  BY <1>1 DEF OutboundInv, OutboundTyped, PeerTyped
<1> QED BY <1>1, <1>2, <1>3, PeerSends

(* a read,                                                                 *)
LEMMA PeerReadsKept == OutboundInv /\ PeerReads => OutboundInv'
<1> SUFFICES ASSUME OutboundInv, PeerReads PROVE OutboundInv'
  OBVIOUS
<1>0. /\ peer.outstanding \in Int /\ peer.reads \in Nat /\ peer.table \in Nat
      /\ DOMAIN peer.locks \subseteq LockIds /\ \A i \in DOMAIN peer.locks : peer.locks[i] \in Nat
  BY DEF OutboundInv, OutboundTyped, PeerTyped
<1>1. UNCHANGED ServerSide /\ UNCHANGED <<down, wrong>>
  BY DEF PeerReads
<1>2. PICK n, o : n = peer.reads + 1 /\ o = peer.outstanding + 1
  OBVIOUS
<1>3. n \in Nat \ {0} /\ n \in Ids /\ o \in Int /\ 0 \in Nat /\ "read" \in Types
  BY <1>0, <1>2 DEF Ids, Types
<1>4. PICK lock \in Ids : /\ lock # 0 => lock \in DOMAIN peer.locks
                          /\ up' = Append(up, Pdu("read", 0, n, lock))
  BY <1>0, <1>2 DEF PeerReads, PeerSend, Ids
<1>5. PICK m \in Message : /\ m.type = "read" /\ up' = Append(up, m)
                           /\ m.id \in Nat \ {0} /\ (m.lock # 0 => m.lock \in DOMAIN peer.locks)
  <2>1. PICK m : m = Pdu("read", 0, n, lock)
    OBVIOUS
  <2>2. m \in Message /\ m.type = "read" /\ m.id = n /\ m.lock = lock
    BY ONLY <1>3, <2>1, lock \in Ids, PduFacts
  <2> QED BY <1>3, <1>4, <2>1, <2>2
<1>6. peer' = PeerOf(peer.copies, peer.locks, o, n, peer.table)
  <2>1. peer' = [peer EXCEPT !.reads = n, !.outstanding = o]
    BY <1>2 DEF PeerReads
  <2> QED BY <2>1 DEF OutboundInv, OutboundTyped, PeerTyped, PeerOf
<1>7. PeerTyped' /\ peer'.locks = peer.locks /\ peer'.outstanding = o /\ peer'.table = peer.table
  BY ONLY <1>0, <1>3, <1>6, PeerFields
<1> QED BY <1>1, <1>2, <1>5, <1>7, PeerSends

(* a copy of its own, and a request.                                       *)
LEMMA PeerActsKept == OutboundInv /\ PeerActs => OutboundInv'
<1> SUFFICES ASSUME OutboundInv, PeerActs PROVE OutboundInv'
  OBVIOUS
<1>0. /\ peer.outstanding \in Int /\ peer.reads \in Nat /\ peer.table \in Nat
      /\ DOMAIN peer.locks \subseteq LockIds /\ \A i \in DOMAIN peer.locks : peer.locks[i] \in Nat
  BY DEF OutboundInv, OutboundTyped, PeerTyped
<1>1. UNCHANGED ServerSide /\ UNCHANGED <<down, wrong>>
  BY DEF PeerActs
<1>2. PICK type \in {"copy", "list", "paste"} : up' = Append(up, Pdu(type, 0, 0, 0))
  BY DEF PeerActs, PeerSend
<1>3. PICK m \in Message : m.type = type /\ up' = Append(up, m)
  <2>1. 0 \in Nat /\ 0 \in Ids /\ type \in Types
    BY DEF Ids, Types
  <2>2. PICK m : m = Pdu(type, 0, 0, 0)
    OBVIOUS
  <2>3. m \in Message /\ m.type = type
    BY ONLY <2>1, <2>2, PduFacts
  <2> QED BY <1>2, <2>2, <2>3
<1>4. PICK t \in {0, peer.table} : peer' = [peer EXCEPT !.copies = 1, !.table = t]
  BY DEF PeerActs
<1>5. peer' = PeerOf(1, peer.locks, peer.outstanding, peer.reads, t)
  BY <1>4 DEF OutboundInv, OutboundTyped, PeerTyped, PeerOf
<1>6. /\ PeerTyped' /\ peer'.locks = peer.locks
      /\ peer'.outstanding = peer.outstanding /\ peer'.table = t
  <2>1. t \in Nat
    BY <1>0
  <2> QED BY ONLY <1>0, <1>5, <2>1, PeerFields
<1> QED BY <1>1, <1>3, <1>6, PeerSends
-----------------------------------------------------------------------------
(* The invariant.                                                          *)

(* Nothing is on an empty channel.                                         *)
LEMMA EmptyCount ==
  ASSUME NEW T, NEW S
  PROVE  <<>> \in Seq(T) /\ Len(<<>>) = 0 /\ Count(<<>>, S) = 0
<1>1. <<>> \in Seq(T) /\ Len(<<>>) = 0
  OBVIOUS
<1>2. NoneOf(<<>>, S)
  BY <1>1 DEF NoneOf
<1> QED BY <1>1, <1>2, CountedFinite

(* At first nothing is copied, announced or read.                          *)
LEMMA InitKept == OutboundInit => OutboundInv
<1> SUFFICES ASSUME OutboundInit PROVE OutboundInv
  OBVIOUS
<1>1. PICK s, k, l : s = offers.stream /\ k = offers.locking /\ l = NoTables
  OBVIOUS
<1>2. DOMAIN l = {}
  BY <1>1 DEF NoTables
<1>3. /\ frozen = FrozenOf(0, 0, 0, 0, l, k, 0, s) /\ cache = CacheOf(0, 0) /\ slot = SlotOf(0, 0)
      /\ worker = WorkerOf(0, "top", NoRead, 0) /\ desk = DeskOf({}, 0, "idle", 0)
      /\ peer = PeerOf(0, l, 0, 0, 0) /\ slot = NoSlot
  BY <1>1 DEF OutboundInit, Unfrozen, FrozenOf, CacheOf, NoSlot, SlotOf, IdleWorker, WorkerOf,
              IdleDesk, DeskOf, PeerOf
<1>4. /\ commands = <<>> /\ up = <<>> /\ down = <<>> /\ copied = 0 /\ handled = 0
      /\ task = "idle" /\ ~stopping /\ ~wrong
  BY DEF OutboundInit
<1>5. commands \in Seq(Read) /\ up \in Seq(Message) /\ down \in Seq(Message)
  BY <1>4, EmptyCount
<1>6. /\ Len(commands) = 0 /\ Len(up) = 0 /\ Len(down) = 0
      /\ Count(up, Acceptances) = 0 /\ Count(up, Requests) = 0
      /\ Count(down, Announces) = 0 /\ Count(down, Answers) = 0 /\ Count(commands, RealReads) = 0
  BY <1>4, EmptyCount
<1>7. OutboundTyped
  <2>1. FrozenTyped
    BY <1>3, RecordFields DEF FrozenTyped
  <2>2. WorkTyped
    BY <1>3, <1>4, RecordFields, ReadFacts DEF WorkTyped
  <2>3. PeerTyped /\ QueuesTyped
    BY <1>2, <1>3, <1>5, RecordFields DEF PeerTyped, QueuesTyped
  <2> QED BY <2>1, <2>2, <2>3 DEF OutboundTyped
<1>8. WalkInv
  BY <1>3, <1>4, RecordFields DEF WalkInv, WalkCurrent, DropKnown, EntriesCurrent, TextCurrent
<1>9. TablesKnown(frozen, down, up, peer)
  BY <1>2, <1>3, <1>6, RecordFields
  DEF TablesKnown, PendingCounted, LastAnnounced, LocksCurrent, LocksMade, LockedOf
<1>10. ReadsResolved(up, commands, worker, down, peer.locks)
  BY <1>3, <1>6, RecordFields DEF ReadsResolved, Asking, Queued, Reading, Answering
<1>11. ReadsCounted /\ AnswersMatch
  BY <1>3, <1>4, <1>6, RecordFields DEF ReadsCounted, Unanswered, AnswersMatch
<1> QED BY <1>7, <1>8, <1>9, <1>10, <1>11 DEF OutboundInv, ChannelInv

(* A step that changes nothing.                                            *)
LEMMA StutterKept == OutboundInv /\ UNCHANGED outboundVars => OutboundInv'
<1> SUFFICES ASSUME OutboundInv, UNCHANGED outboundVars PROVE OutboundInv'
  OBVIOUS
<1>1. UNCHANGED ServerSide /\ UNCHANGED <<down, up, peer, wrong>>
  BY DEF outboundVars, ServerSide
<1>2. FrozenTyped' /\ WorkTyped' /\ WalkInv' /\ UNCHANGED <<frozen, commands, worker, stopping>>
  BY <1>1, ServerKept
<1>3. PeerTyped' /\ QueuesTyped'
  BY <1>1, <1>2 DEF OutboundInv, OutboundTyped, PeerTyped, QueuesTyped
<1>4. ChannelInv'
  BY <1>1, <1>2 DEF OutboundInv, ChannelInv, ReadsCounted, AnswersMatch
<1> QED BY <1>2, <1>3, <1>4 DEF OutboundInv, OutboundTyped

(* What crosses on the two channels, in the queue and in the worker, in    *)
(* every state the watcher, the worker, the RDP task and a client can      *)
(* reach (files.rs, wayland.rs, backend.rs).                               *)
THEOREM OutboundKept == OutboundSpec => []OutboundInv
<1>1. OutboundInit => OutboundInv
  BY InitKept
<1>2. OutboundInv /\ [OutboundNext]_outboundVars => OutboundInv'
  <2> SUFFICES ASSUME OutboundInv, [OutboundNext]_outboundVars PROVE OutboundInv'
    OBVIOUS
  <2>1. CASE DesktopOffers
    BY <2>1, DesktopOffersKept
  <2>2. CASE WatcherStep
    BY <2>2, ClearCachesKept, ReadTextKept, ReadImageKept, ReadUrisKept, FreezeFilesKept,
       AnnounceLocalKept DEF WatcherStep
  <2>3. CASE WorkerStep \/ AnswerRead
    BY <2>3, WorkerTopKept, PublishKept, WorkerRecvKept, AnswerReadKept DEF WorkerStep
  <2>4. CASE TaskStep \/ DropWorker
    BY <2>4, OnFormatListResponseKept, OnLockKept, OnUnlockKept, OnFileContentsRequestKept,
       OnClientCopyKept, OnRequestFormatListKept, AnnounceFilesKept, OnFormatDataRequestKept,
       DropKept DEF TaskStep
  <2>5. CASE PeerReceives \/ PeerReads \/ PeerActs
    BY <2>5, PeerReceivesKept, PeerReadsKept, PeerActsKept
  <2>6. CASE \E id \in LockIds : PeerLocks(id) \/ PeerUnlocks(id)
    BY <2>6, PeerLocksKept, PeerUnlocksKept
  <2>7. CASE UNCHANGED outboundVars
    BY <2>7, StutterKept
  <2> QED BY <2>1, <2>2, <2>3, <2>4, <2>5, <2>6, <2>7 DEF OutboundNext
<1> QED BY <1>1, <1>2, PTL DEF OutboundSpec

(* What the runs check follows.                                            *)
LEMMA SoundOfInv == OutboundInv => OutboundSound
<1> SUFFICES ASSUME OutboundInv PROVE OutboundSound
  OBVIOUS
<1>1. up \in Seq(Message) /\ commands \in Seq(Read) /\ down \in Seq(Message)
  BY DEF OutboundInv, OutboundTyped, QueuesTyped
<1>2. Asked = Count(up, Requests)
  <2>1. \A i \in DOMAIN up : up[i] \in Requests <=> up[i].type = "read"
    BY <1>1, MessageFacts
  <2>2. {i \in DOMAIN up : up[i] \in Requests} = {i \in DOMAIN up : up[i].type = "read"}
    BY <2>1
  <2> QED BY <2>2 DEF Asked, Count
<1>3. Reads(commands) = Count(commands, RealReads)
  <2>1. \A i \in DOMAIN commands : commands[i] \in RealReads <=> commands[i].id # 0
    BY <1>1, ReadFacts
  <2>2. {i \in DOMAIN commands : commands[i] \in RealReads} =
        {i \in DOMAIN commands : commands[i].id # 0}
    BY <2>1
  <2> QED BY <2>2 DEF Reads, Count
<1>4. Bytes = Count(down, Answers)
  <2>1. \A i \in DOMAIN down : down[i] \in Answers <=> down[i].type = "bytes"
    BY <1>1, MessageFacts
  <2>2. {i \in DOMAIN down : down[i] \in Answers} = {i \in DOMAIN down : down[i].type = "bytes"}
    BY <2>1
  <2> QED BY <2>2 DEF Bytes, Count
<1>5. EveryReadAnswered
  BY <1>2, <1>3, <1>4 DEF EveryReadAnswered, OutboundInv, ChannelInv, ReadsCounted, Unanswered
<1>6. LockedIsKnown
  BY DEF LockedIsKnown, OutboundInv, ChannelInv, TablesKnown, LockedOf
<1> QED BY <1>5, <1>6 DEF OutboundSound, OutboundInv, ChannelInv, WalkInv

(* Whatever is copied, announced, published, locked and read in whatever   *)
(* order: a lock holds the table the client had when it locked ("an        *)
(* incoming LockData can never mistake a newly queued table for the one    *)
(* already known to the peer", files.rs:95), a read under it is answered   *)
(* from that table or refused, the files and the text that are served are  *)
(* of the selection handled last, and every read is answered once, a full  *)
(* queue (files.rs, FileWorkerHandle::read) included.                      *)
THEOREM DesktopFilesServed == OutboundSpec => []OutboundSound
  BY OutboundKept, SoundOfInv, PTL

(* Once the session has let go of its file worker, a walk or a read that   *)
(* outlasts the bounded wait of the drop sends nothing any more (files.rs, *)
(* the drop of FileWorkerHandle).                                          *)
THEOREM SilentOnceDropped == OutboundSpec => SilentAfterDrop
<1>1. OutboundInv /\ [OutboundNext]_outboundVars =>
        [task = "ended" => Len(down') <= Len(down)]_outboundVars
  <2> SUFFICES ASSUME OutboundInv, OutboundNext, task = "ended" PROVE Len(down') <= Len(down)
    OBVIOUS
  <2>1. stopping /\ desk.pc = "idle" /\ (worker.pc = "walk" => worker.gen # frozen.gen)
    BY DEF OutboundInv, OutboundTyped, FrozenTyped, WorkTyped, WalkInv, DropKnown
  <2>2. down \in Seq(Message)
    BY DEF OutboundInv, OutboundTyped, QueuesTyped
  <2>3. CASE down' = down
    BY <2>2, <2>3
  <2>4. CASE down # <<>> /\ down' = Tail(down)
    BY <2>2, <2>4, QueueMoves
  <2>5. ~DesktopOffers /\ ~WatcherStep
    BY <2>1 DEF DesktopOffers, WatcherStep, ClearCaches, ReadText, ReadImage, ReadUris, FreezeFiles,
                AnnounceLocal
  <2>6. WorkerStep \/ AnswerRead => down' = down
    BY <2>1 DEF WorkerStep, WorkerTop, Publish, MayPublish, WorkerRecv, AnswerRead
  <2>7. ~TaskStep /\ ~DropWorker
    BY DEF TaskStep, DropWorker, OnFormatListResponse, OnLock, OnUnlock, OnFileContentsRequest,
           OnClientCopy, OnRequestFormatList, AnnounceFiles, OnFormatDataRequest, DropSelection,
           WorkerGone, Comes
  <2>8. PeerReceives => down # <<>> /\ down' = Tail(down)
    BY DEF PeerReceives
  <2>9. PeerReads \/ PeerActs \/ (\E id \in LockIds : PeerLocks(id) \/ PeerUnlocks(id)) =>
          down' = down
    BY DEF PeerReads, PeerActs, PeerLocks, PeerUnlocks
  <2> QED BY <2>3, <2>4, <2>5, <2>6, <2>7, <2>8, <2>9 DEF OutboundNext
<1> QED BY <1>1, OutboundKept, PTL DEF OutboundSpec, SilentAfterDrop
===============================================================================
