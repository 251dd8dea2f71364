------------------------------ MODULE InputProofs ------------------------------
(***************************************************************************)
(* TLAPS proofs about InputActor, for every set of keys, code points,      *)
(* keymaps and layouts and any number of resets, switches and reconnects.  *)
(***************************************************************************)
EXTENDS InputActor, WellFoundedInduction, TLAPS

Events == Seq([own : BOOLEAN, name : Names])

(* A group is a layout of its keymap.                                      *)
InKeymap(d) == d.group < Len(LayoutNames[d.keymap])

(* Nothing is tracked between sessions.                                    *)
IdleInv == ~session => plain = {} /\ modifiers = {} /\ owners = {}

InputInv ==
  /\ TypeOK /\ InKeymap(device)
  /\ HeldKeysTracked /\ ModifiersFollowKeys /\ IdleInv

-----------------------------------------------------------------------------
(* A name that resolves has a first group: GroupOf is well defined.        *)
LEMMA GroupTyped ==
  ASSUME NEW km \in Keymaps, NEW name, Resolves(km, name)
  PROVE  GroupOf(km, name) \in Nat
<1> DEFINE T == {i \in 1..Len(LayoutNames[km]) : LayoutNames[km][i] = name}
<1>1. LayoutNames[km] \in Seq(Names)
  BY InputAssumption
<1>2. Len(LayoutNames[km]) \in Nat
  BY <1>1
<1>3. T \subseteq Nat /\ T # {}
  BY <1>2 DEF Resolves
<1>4. \E i \in T : \A j \in T : ~(<<j, i>> \in OpToRel(<, Nat))
  <2> HIDE DEF T
  <2> QED BY <1>3, WFMin, NatLessThanWellFounded, Zenon
<1>5. PICK i \in T : \A j \in T : ~(<<j, i>> \in OpToRel(<, Nat))
  BY <1>4
<1>6. \A j \in T : ~(j < i)
  BY <1>3, <1>5 DEF OpToRel
<1>7. \A j \in 1..(i - 1) : LayoutNames[km][j] # name
  BY <1>2, <1>6
<1>8. \E k \in 1..Len(LayoutNames[km]) :
        /\ LayoutNames[km][k] = name
        /\ \A j \in 1..(k - 1) : LayoutNames[km][j] # name
  BY <1>5, <1>7
<1>9. (CHOOSE k \in 1..Len(LayoutNames[km]) :
        /\ LayoutNames[km][k] = name
        /\ \A j \in 1..(k - 1) : LayoutNames[km][j] # name) \in 1..Len(LayoutNames[km])
  BY <1>8, Zenon
<1> QED BY <1>2, <1>9 DEF GroupOf

(* A new state of a keymap is well formed.                                 *)
LEMMA FreshTyped ==
  ASSUME NEW km \in Keymaps
  PROVE  Fresh(km) \in XkbState /\ InKeymap(Fresh(km)) /\ Fresh(km).mods = {}
  BY InputAssumption DEF Fresh, XkbState, InKeymap

(* The stream stays a sequence of layout events.                           *)
LEMMA EventAppended ==
  ASSUME NEW s \in Events, NEW e \in [own : BOOLEAN, name : Names]
  PROVE  Append(s, e) \in Events
<1> DEFINE Event == [own : BOOLEAN, name : Names]
<1>1. s \in Seq(Event) /\ e \in Event
  BY DEF Events
<1> HIDE DEF Event
<1>2. Append(s, e) \in Seq(Event)
  BY <1>1
<1> QED BY <1>2 DEF Events, Event

(* An event names a layout of the device's keymap.                         *)
LEMMA ReportTyped ==
  ASSUME NEW s \in Events, NEW from, NEW to \in XkbState, InKeymap(to)
  PROVE  Reported(s, from, to) \in Events
<1>1. LayoutNames[to.keymap] \in Seq(Names)
  BY InputAssumption DEF XkbState
<1>2. to.group + 1 \in 1..Len(LayoutNames[to.keymap])
  BY <1>1 DEF XkbState, InKeymap
<1>3. NameOf(to) \in Names
  BY <1>1, <1>2 DEF NameOf
<1>4. [own |-> TRUE, name |-> NameOf(to)] \in [own : BOOLEAN, name : Names]
  BY <1>3
<1>5. Append(s, [own |-> TRUE, name |-> NameOf(to)]) \in Events
  BY <1>4, EventAppended
<1> QED BY <1>5 DEF Reported

(* Announcing a state keeps the device and the event stream well formed.   *)
LEMMA AnnouncedTyped ==
  ASSUME NEW d \in XkbState, NEW r \in XkbState
  PROVE  Announced(d, r) \in XkbState /\ InKeymap(Announced(d, r))
<1>1. Len(LayoutNames[d.keymap]) \in Nat \ {0}
  BY InputAssumption DEF XkbState
<1> DEFINE masked == [d EXCEPT !.mods = r.mods]
           group == IF r.group < Len(LayoutNames[d.keymap]) THEN r.group ELSE 0
<1>2. masked \in XkbState /\ masked.keymap = d.keymap
  BY DEF XkbState
<1>3. group \in Nat /\ group < Len(LayoutNames[d.keymap])
  BY <1>1 DEF XkbState
<1>4. Announced(d, r) = [masked EXCEPT !.group = group]
  BY DEF Announced, XkbState
<1> HIDE DEF masked, group
<1>5. /\ Announced(d, r) \in XkbState
      /\ Announced(d, r).group = group /\ Announced(d, r).keymap = d.keymap
  BY <1>2, <1>3, <1>4 DEF XkbState
<1> QED BY <1>3, <1>5 DEF InKeymap

(* An announcement keeps the device and its event stream well formed.      *)
LEMMA AnnounceTyped ==
  ASSUME NEW d \in XkbState, NEW s \in Events, NEW r \in XkbState,
         AnnounceModifiers(d, s, r)
  PROVE  device' \in XkbState /\ InKeymap(device') /\ stream' \in Events
  BY AnnouncedTyped, ReportTyped DEF AnnounceModifiers

(* So does the upload of a keymap.                                         *)
LEMMA AnnounceKeymapTyped ==
  ASSUME NEW s \in Events, NEW r \in XkbState, AnnounceKeymap(s, r)
  PROVE  device' \in XkbState /\ InKeymap(device') /\ stream' \in Events
<1>1. r.keymap \in Keymaps
  BY DEF XkbState
<1>2. Reported(s, device, Fresh(r.keymap)) \in Events
  BY <1>1, FreshTyped, ReportTyped
<1> QED BY <1>1, <1>2, FreshTyped, AnnounceTyped DEF AnnounceKeymap

(* What a press does to the tracked mask.                                  *)
LEMMA KeyDownTyped ==
  ASSUME NEW r \in XkbState, NEW k
  PROVE  /\ KeyDown(k, r) \in XkbState
         /\ KeyDown(k, r).mods = r.mods \cup ({k} \cap ModifierKeys)
  BY DEF KeyDown, XkbState

(* What a release does to the tracked mask.                                *)
LEMMA KeyUpTyped ==
  ASSUME NEW r \in XkbState, NEW ks
  PROVE  KeyUp(ks, r) \in XkbState /\ KeyUp(ks, r).mods = r.mods \ ks
  BY DEF KeyUp, XkbState

-----------------------------------------------------------------------------
(* The invariant in three parts: the keys, the two XKB states with the     *)
(* events between them, and what only has a type.                          *)
KeyInv ==
  /\ plain \subseteq PlainKeys /\ modifiers \subseteq ModifierKeys /\ owners \subseteq CodePoints
  /\ down = DepressedKeys /\ replica.mods = down \cap ModifierKeys
  /\ session \in BOOLEAN /\ IdleInv

XkbInv ==
  replica \in XkbState /\ device \in XkbState /\ InKeymap(device) /\ stream \in Events

RestInv ==
  /\ policy \in Policies /\ mainFlag \in BOOLEAN
  /\ actor \in {"starting", "running", "stopped"} /\ buttons \subseteq Buttons
  /\ listener \in {"off", "connected", "seeded"} /\ physical \in Names
  /\ resets \in Nat /\ switches \in Nat /\ failures \in Nat /\ missed \in BOOLEAN

(* The three parts are the invariant.                                      *)
LEMMA Parts == InputInv <=> KeyInv /\ XkbInv /\ RestInv
<1>1. KeyInv => down \subseteq Keys
  BY InputAssumption DEF KeyInv, DepressedKeys, Keys
<1> QED BY <1>1 DEF InputInv, TypeOK, KeyInv, XkbInv, RestInv, HeldKeysTracked,
                    ModifiersFollowKeys, Events

(* A step that leaves the keys or the mask alone keeps the key part.       *)
LEMMA KeysKept ==
  ASSUME KeyInv, UNCHANGED <<depressed, session>>, replica'.mods = replica.mods
  PROVE  KeyInv'
  BY DEF KeyInv, IdleInv, DepressedKeys, depressed

(* release_depressed, with the replica told of every key.                  *)
LEMMA KeysReleased ==
  ASSUME KeyInv, ReleaseDepressed, replica'.mods = replica.mods \ DepressedKeys \/ replica'.mods = {},
         session' \in BOOLEAN
  PROVE  KeyInv'
  BY DEF KeyInv, IdleInv, DepressedKeys, ReleaseDepressed

(* Session ends and shutdown: nothing is tracked afterwards.               *)
LEMMA HeldReleased ==
  ASSUME KeyInv, XkbInv, session' = FALSE,
         \/ plain = {} /\ modifiers = {} /\ owners = {} /\ UNCHANGED <<depressed, replica>>
         \/ ReleaseDepressed /\ replica' = KeyUp(DepressedKeys, replica)
  PROVE  KeyInv' /\ replica' \in XkbState
<1>1. CASE plain = {} /\ modifiers = {} /\ owners = {} /\ UNCHANGED <<depressed, replica>>
  BY <1>1 DEF KeyInv, XkbInv, IdleInv, DepressedKeys, depressed
<1>2. CASE ReleaseDepressed /\ replica' = KeyUp(DepressedKeys, replica)
  <2>1. replica' \in XkbState /\ replica'.mods = replica.mods \ DepressedKeys
    BY <1>2, KeyUpTyped DEF XkbInv
  <2> QED BY <1>2, <2>1, KeysReleased
<1> QED BY <1>1, <1>2

(* Telling the tracker of a key (KeyboardStateTracker::key).               *)
LEMMA Tracked ==
  ASSUME XkbInv, NEW r \in XkbState, TrackKey(r)
  PROVE  XkbInv' /\ replica' = r
<1>1. CASE r # replica
  BY <1>1, AnnounceTyped DEF TrackKey, XkbInv, InKeymap
<1>2. CASE r = replica
  BY <1>2 DEF TrackKey, XkbInv, InKeymap
<1> QED BY <1>1, <1>2

(* Locking a group (set_locked_group) keeps the mask.                      *)
LEMMA GroupLocked ==
  ASSUME XkbInv, NEW s \in Events, NEW g \in Nat, SetLockedGroup(s, g)
  PROVE  XkbInv' /\ replica'.mods = replica.mods
<1>1. replica' \in XkbState /\ replica'.mods = replica.mods
  BY DEF SetLockedGroup, XkbInv, XkbState
<1>2. CASE replica' # replica
  BY <1>1, <1>2, AnnounceTyped DEF SetLockedGroup, XkbInv, InKeymap
<1>3. CASE replica' = replica
  BY <1>1, <1>3 DEF SetLockedGroup, XkbInv, InKeymap
<1> QED BY <1>1, <1>2, <1>3

(* A scancode press keeps the parts: a Shift that unicode keys own is not  *)
(* pressed again.                                                          *)
LEMMA PressKeeps ==
  ASSUME KeyInv, XkbInv, NEW k \in Keys, Pressed(k)
  PROVE  KeyInv' /\ XkbInv'
<1> USE InputAssumption DEF Keys
<1>1. CASE k = LeftShift /\ owners # {}
  BY <1>1 DEF Pressed, KeyInv, XkbInv, IdleInv, DepressedKeys, InKeymap, Listening
<1>2. CASE ~(k = LeftShift /\ owners # {})
  <2>1. XkbInv' /\ replica' = KeyDown(k, replica)
    BY <1>2, KeyDownTyped, Tracked DEF Pressed, XkbInv
  <2>2. replica'.mods = replica.mods \cup ({k} \cap ModifierKeys)
    BY <2>1, KeyDownTyped DEF XkbInv
  <2>3. down' = DepressedKeys'
    BY <1>2 DEF Pressed, KeyInv, DepressedKeys
  <2>4. replica'.mods = down' \cap ModifierKeys
    BY <1>2, <2>2 DEF Pressed, KeyInv
  <2> QED BY <2>1, <2>3, <2>4 DEF Pressed, KeyInv, IdleInv, Listening
<1> QED BY <1>1, <1>2

(* The same for a released scancode.                                       *)
LEMMA ReleaseKeeps ==
  ASSUME KeyInv, XkbInv, NEW k \in Keys, Released(k)
  PROVE  KeyInv' /\ XkbInv'
<1> USE InputAssumption DEF Keys
<1>1. CASE k = LeftShift /\ owners # {}
  BY <1>1 DEF Released, KeyInv, XkbInv, IdleInv, DepressedKeys, InKeymap, Listening
<1>2. CASE ~(k = LeftShift /\ owners # {})
  <2>1. XkbInv' /\ replica' = KeyUp({k}, replica)
    BY <1>2, KeyUpTyped, Tracked DEF Released, XkbInv
  <2>2. replica'.mods = replica.mods \ {k}
    BY <2>1, KeyUpTyped DEF XkbInv
  <2>3. down' = DepressedKeys'
    BY <1>2 DEF Released, KeyInv, DepressedKeys
  <2>4. replica'.mods = down' \cap ModifierKeys
    BY <1>2, <2>2 DEF Released, KeyInv
  <2> QED BY <2>1, <2>3, <2>4 DEF Released, KeyInv, IdleInv, Listening
<1> QED BY <1>1, <1>2

(* A unicode press borrows Shift at most once.                             *)
LEMMA UnicodePressKeeps ==
  ASSUME KeyInv, XkbInv, NEW c \in CodePoints, UnicodePressed(c)
  PROVE  KeyInv' /\ XkbInv'
<1> USE InputAssumption
<1>1. Mapping(c).key \in PlainKeys /\ Mapping(c).key \notin ModifierKeys
  BY DEF UnicodePressed, Mapping, XkbInv, XkbState
<1>2. CASE Mapping(c).shift /\ ~ShiftActive
  <2>1. XkbInv' /\ replica' = KeyDown(LeftShift, replica)
    BY <1>2, KeyDownTyped, Tracked DEF UnicodePressed, XkbInv
  <2>2. replica'.mods = replica.mods \cup {LeftShift}
    BY <2>1, KeyDownTyped DEF XkbInv
  <2>3. down' = DepressedKeys'
    BY <1>1, <1>2 DEF UnicodePressed, KeyInv, DepressedKeys, ShiftActive
  <2>4. replica'.mods = down' \cap ModifierKeys
    BY <1>1, <1>2, <2>2 DEF UnicodePressed, KeyInv
  <2> QED BY <1>1, <2>1, <2>3, <2>4 DEF UnicodePressed, KeyInv, IdleInv, Listening
<1>3. CASE ~(Mapping(c).shift /\ ~ShiftActive)
  <2>1. XkbInv' /\ replica' = replica
    BY <1>3 DEF UnicodePressed, XkbInv, InKeymap
  <2>2. down' = DepressedKeys'
    BY <1>1, <1>3 DEF UnicodePressed, KeyInv, DepressedKeys, ShiftActive
  <2>3. replica'.mods = down' \cap ModifierKeys
    BY <1>1, <1>3, <2>1 DEF UnicodePressed, KeyInv
  <2> QED BY <1>1, <2>1, <2>2, <2>3 DEF UnicodePressed, KeyInv, IdleInv, Listening
<1> QED BY <1>2, <1>3

(* A unicode release returns Shift only if nobody else needs it.           *)
LEMMA UnicodeReleaseKeeps ==
  ASSUME KeyInv, XkbInv, NEW c \in CodePoints, UnicodeReleased(c)
  PROVE  KeyInv' /\ XkbInv'
<1> USE InputAssumption
<1>1. Mapping(c).key \in PlainKeys /\ Mapping(c).key \notin ModifierKeys
  BY DEF UnicodeReleased, Mapping, XkbInv, XkbState
<1>2. CASE ShiftEnds(c)
  <2>1. XkbInv' /\ replica' = KeyUp({LeftShift}, replica)
    BY <1>2, KeyUpTyped, Tracked DEF UnicodeReleased, XkbInv
  <2>2. replica'.mods = replica.mods \ {LeftShift}
    BY <2>1, KeyUpTyped DEF XkbInv
  <2>3. down' = DepressedKeys'
    BY <1>1, <1>2 DEF UnicodeReleased, KeyInv, DepressedKeys, ShiftEnds
  <2>4. replica'.mods = down' \cap ModifierKeys
    BY <1>1, <1>2, <2>2 DEF UnicodeReleased, KeyInv
  <2> QED BY <1>1, <2>1, <2>3, <2>4 DEF UnicodeReleased, KeyInv, IdleInv, Listening
<1>3. CASE ~ShiftEnds(c)
  <2>1. XkbInv' /\ replica' = replica
    BY <1>3 DEF UnicodeReleased, XkbInv, InKeymap
  <2>2. down' = DepressedKeys'
    BY <1>1, <1>3 DEF UnicodeReleased, KeyInv, DepressedKeys, ShiftEnds
  <2>3. replica'.mods = down' \cap ModifierKeys
    BY <1>1, <1>3, <2>1 DEF UnicodeReleased, KeyInv
  <2> QED BY <1>1, <2>1, <2>2, <2>3 DEF UnicodeReleased, KeyInv, IdleInv, Listening
<1> QED BY <1>2, <1>3

-----------------------------------------------------------------------------
(* The three parts hold in every reachable state: what is tracked is what  *)
(* is held, whatever the order of the client's events, the session's       *)
(* boundaries and the desktop's resets.                                    *)
THEOREM InputInvariant == Spec => []InputInv
<1>1. Init => InputInv
  <2> SUFFICES ASSUME Init PROVE InputInv
    OBVIOUS
  <2>1. XkbInv
    BY InputAssumption, FreshTyped DEF Init, XkbInv, Events
  <2>2. KeyInv
    BY InputAssumption, FreshTyped DEF Init, KeyInv, IdleInv, DepressedKeys
  <2>3. RestInv
    BY DEF Init, RestInv
  <2> QED BY <2>1, <2>2, <2>3, Parts
<1>2. InputInv /\ [Next]_vars => InputInv'
  <2> SUFFICES ASSUME KeyInv, XkbInv, RestInv, [Next]_vars PROVE KeyInv' /\ XkbInv' /\ RestInv'
    BY Parts, PTL
  <2>1. RestInv'
    <3>1. CASE Start \/ Stop \/ SessionStarted \/ SessionEnded \/ Synchronize \/ UNCHANGED vars
      BY <3>1 DEF RestInv, Start, Stop, SessionStarted, SessionEnded, Synchronize, config,
         environment, vars
    <3>2. CASE \E k \in Keys : Pressed(k) \/ Released(k)
      BY <3>2 DEF RestInv, Pressed, Released, config, environment
    <3>3. CASE \E c \in CodePoints : UnicodePressed(c) \/ UnicodeReleased(c)
      BY <3>3 DEF RestInv, UnicodePressed, UnicodeReleased, config, environment
    <3>4. CASE \E b \in Buttons, p \in BOOLEAN : Button(b, p)
      BY <3>4 DEF RestInv, Button, config, environment
    <3>5. CASE Listen
      BY <3>5 DEF RestInv, Listen, Connect, Seed, HandleLayoutEvent, HandleOwnLayoutEvent, config,
         environment
    <3>6. CASE Desktop
      <4>1. CASE StreamFailed
        BY <4>1 DEF RestInv, StreamFailed, config
      <4>2. ASSUME NEW name \in Names, PhysicalSwitch(name) PROVE RestInv'
        BY <4>2 DEF RestInv, PhysicalSwitch, config
      <4>3. ASSUME NEW km \in Keymaps, DeviceReset(km) PROVE RestInv'
        BY <4>3 DEF RestInv, DeviceReset, config
      <4> QED BY <3>6, <4>1, <4>2, <4>3 DEF Desktop
    <3> QED BY <3>1, <3>2, <3>3, <3>4, <3>5, <3>6 DEF Next, Client
  <2> SUFFICES KeyInv' /\ XkbInv'
    BY <2>1
  <2>2. CASE Start \/ Connect \/ (\E b \in Buttons, p \in BOOLEAN : Button(b, p)) \/ UNCHANGED vars
    <3>1. UNCHANGED <<depressed, session, replica, device, stream>>
      BY <2>2 DEF Start, Connect, Button, vars, depressed
    <3>2. KeyInv'
      BY <3>1, KeysKept
    <3>3. XkbInv'
      BY <3>1 DEF XkbInv, InKeymap
    <3> QED BY <3>2, <3>3
  <2>3. CASE Stop
    <3>1. KeyInv' /\ replica' \in XkbState
      BY <2>3, HeldReleased DEF Stop, XkbInv
    <3>2. device' \in XkbState /\ InKeymap(device')
      BY <2>3, <3>1, AnnouncedTyped DEF Stop, XkbInv, InKeymap
    <3>3. XkbInv'
      BY <2>3, <3>1, <3>2 DEF Stop, XkbInv, InKeymap, Events
    <3> QED BY <3>1, <3>3
  <2>4. CASE SessionStarted
    <3>1. CASE KeepKeymap
      <4>1. XkbInv'
        BY <3>1 DEF KeepKeymap, XkbInv, InKeymap
      <4>2. KeyInv'
        BY <2>4, <3>1 DEF SessionStarted, KeepKeymap, KeyInv, IdleInv, DepressedKeys, depressed
      <4> QED BY <4>1, <4>2
    <3>2. ASSUME NEW km \in Keymaps, ApplyKeymap(km) PROVE KeyInv' /\ XkbInv'
      <4>1. replica' \in XkbState /\ replica'.mods = {}
        BY <3>2, FreshTyped DEF ApplyKeymap
      <4>2. device' \in XkbState /\ InKeymap(device') /\ stream' \in Events
        BY <3>2, <4>1, AnnounceKeymapTyped DEF ApplyKeymap, XkbInv
      <4>3. XkbInv'
        BY <4>1, <4>2 DEF XkbInv, InKeymap
      <4>4. KeyInv'
        BY <2>4, <3>2, <4>1, KeysReleased DEF SessionStarted, ApplyKeymap
      <4> QED BY <4>3, <4>4
    <3> QED BY <2>4, <3>1, <3>2 DEF SessionStarted
  <2>5. CASE SessionEnded
    <3>1. KeyInv' /\ replica' \in XkbState
      BY <2>5, HeldReleased DEF SessionEnded, ReleaseHeldKeys, XkbInv
    <3>2. device' \in XkbState /\ InKeymap(device') /\ stream' \in Events
      BY <2>5, <3>1, AnnounceTyped DEF SessionEnded, ReleaseHeldKeys, XkbInv, InKeymap
    <3>3. XkbInv'
      BY <3>1, <3>2 DEF XkbInv, InKeymap
    <3> QED BY <3>1, <3>3
  <2>6. CASE Synchronize
    <3>1. replica' \in XkbState /\ replica'.mods = replica.mods \ DepressedKeys
      BY <2>6, KeyUpTyped DEF Synchronize, XkbInv
    <3>2. KeyInv'
      BY <2>6, <3>1, KeysReleased DEF Synchronize, KeyInv
    <3>3. device' \in XkbState /\ InKeymap(device') /\ stream' \in Events
      BY <2>6, <3>1, AnnounceTyped DEF Synchronize, XkbInv
    <3>4. XkbInv'
      BY <3>1, <3>3 DEF XkbInv, InKeymap
    <3> QED BY <3>2, <3>4
  <2>7. CASE Seed
    <3>1. CASE UNCHANGED <<replica, device, stream>>
      <4>1. KeyInv'
        BY <2>7, <3>1, KeysKept DEF Seed
      <4>2. XkbInv'
        BY <3>1 DEF XkbInv, InKeymap
      <4> QED BY <4>1, <4>2
    <3>2. ASSUME NEW g \in InitialGroups(Candidates), SetLockedGroup(stream, g)
          PROVE  KeyInv' /\ XkbInv'
      <4>1. g \in Nat
        BY <3>2, GroupTyped DEF InitialGroups, XkbInv, XkbState
      <4>2. XkbInv' /\ replica'.mods = replica.mods
        BY <3>2, <4>1, GroupLocked DEF XkbInv
      <4>3. KeyInv'
        BY <2>7, <4>2, KeysKept DEF Seed
      <4> QED BY <4>2, <4>3
    <3> QED BY <2>7, <3>1, <3>2 DEF Seed
  <2>8. CASE HandleLayoutEvent
    <3>1. stream # <<>> /\ Tail(stream) \in Events /\ UNCHANGED <<depressed, session>>
      BY <2>8 DEF HandleLayoutEvent, XkbInv, Events
    <3>2. CASE stream' = Tail(stream) /\ UNCHANGED <<replica, device>>
      <4>1. KeyInv'
        BY <3>1, <3>2, KeysKept
      <4>2. XkbInv'
        BY <3>1, <3>2 DEF XkbInv, InKeymap
      <4> QED BY <4>1, <4>2
    <3>3. CASE /\ UNCHANGED replica
               /\ \/ AnnounceModifiers(device, Tail(stream), replica)
                  \/ AnnounceKeymap(Tail(stream), replica)
      <4>1. KeyInv'
        BY <3>1, <3>3, KeysKept
      <4>2. device' \in XkbState /\ InKeymap(device') /\ stream' \in Events
        BY <3>1, <3>3, AnnounceTyped, AnnounceKeymapTyped DEF XkbInv
      <4>3. XkbInv'
        BY <3>3, <4>2 DEF XkbInv, InKeymap
      <4> QED BY <4>1, <4>3
    <3>4. CASE /\ Resolves(replica.keymap, Head(stream).name)
               /\ SetLockedGroup(Tail(stream), GroupOf(replica.keymap, Head(stream).name))
      <4>1. GroupOf(replica.keymap, Head(stream).name) \in Nat
        BY <3>4, GroupTyped DEF XkbInv, XkbState
      <4>2. XkbInv' /\ replica'.mods = replica.mods
        BY <3>1, <3>4, <4>1, GroupLocked
      <4>3. KeyInv'
        BY <3>1, <4>2, KeysKept
      <4> QED BY <4>2, <4>3
    <3> QED BY <2>8, <3>2, <3>3, <3>4 DEF HandleLayoutEvent, HandleOwnLayoutEvent
  <2>9. CASE StreamFailed
    <3>1. KeyInv'
      BY <2>9, KeysKept DEF StreamFailed
    <3>2. XkbInv'
      BY <2>9 DEF StreamFailed, XkbInv, InKeymap, Events
    <3> QED BY <3>1, <3>2
  <2>10. ASSUME NEW name \in Names, PhysicalSwitch(name) PROVE KeyInv' /\ XkbInv'
    <3>1. [own |-> FALSE, name |-> name] \in [own : BOOLEAN, name : Names]
      OBVIOUS
    <3>2. Append(stream, [own |-> FALSE, name |-> name]) \in Events
      BY <3>1, EventAppended DEF XkbInv
    <3>3. KeyInv'
      BY <2>10, KeysKept DEF PhysicalSwitch
    <3>4. XkbInv'
      BY <2>10, <3>2 DEF PhysicalSwitch, XkbInv, InKeymap
    <3> QED BY <3>3, <3>4
  <2>11. ASSUME NEW km \in Keymaps, DeviceReset(km) PROVE KeyInv' /\ XkbInv'
    <3>1. KeyInv'
      BY <2>11, KeysKept DEF DeviceReset
    <3>2. stream' \in Events
      BY <2>11, FreshTyped, ReportTyped DEF DeviceReset, XkbInv
    <3>3. XkbInv'
      BY <2>11, <3>2, FreshTyped DEF DeviceReset, XkbInv, InKeymap
    <3> QED BY <3>1, <3>3
  <2> QED BY <2>1, <2>2, <2>3, <2>4, <2>5, <2>6, <2>7, <2>8, <2>9, <2>10, <2>11,
             PressKeeps, ReleaseKeeps, UnicodePressKeeps, UnicodeReleaseKeeps
          DEF Next, Client, Listen, Desktop
<1> QED BY <1>1, <1>2, PTL DEF Spec

(* Every reachable state of the input actor is well typed.                 *)
THEOREM InputTypeCorrect == Spec => []TypeOK
  BY InputInvariant, PTL DEF InputInv

(* No key sticks and none is released early: DepressedKeys is exactly what *)
(* the compositor sees held.                                               *)
THEOREM KeysAreTracked == Spec => []HeldKeysTracked
  BY InputInvariant, PTL DEF InputInv

(* The replica's modifier mask is that of the keys held.                   *)
THEOREM MaskFollowsKeys == Spec => []ModifiersFollowKeys
  BY InputInvariant, PTL DEF InputInv

(* Nothing a client held is down once its session has ended.               *)
THEOREM SessionsLeaveNoKey == Spec => []NoKeyOutlivesSession
<1>1. InputInv => NoKeyOutlivesSession
  BY DEF InputInv, HeldKeysTracked, IdleInv, DepressedKeys, NoKeyOutlivesSession
<1> QED BY <1>1, InputInvariant, PTL
=============================================================================
