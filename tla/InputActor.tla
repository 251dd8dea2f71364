------------------------------ MODULE InputActor ------------------------------
(***************************************************************************)
(* The input actor (src/src/input/actor.rs), the thread that owns the      *)
(* replica of the virtual keyboard's XKB state, and the listener that      *)
(* feeds it the compositor's layout events (src/src/input/wayland.rs).     *)
(*                                                                         *)
(* Every command is handled in one step: the command channel is FIFO and   *)
(* its senders learn nothing from the actor, so any order of arrival is an *)
(* order of these steps.  The one feedback loop, the compositor's events   *)
(* about the actor's own device, goes through the explicit queue "stream". *)
(* The compositor's device is external: a keymap upload recreates its      *)
(* state in group 0 and every change of its layout name is an event.       *)
(* Lock modifiers and group-toggle keys are left to XKB.                   *)
(***************************************************************************)
EXTENDS Integers, Sequences

CONSTANTS
  PlainKeys, ModifierKeys,  \* evdev keys, by is_modifier
  LeftShift,                \* LEFT_SHIFT_KEY
  CodePoints, Buttons,
  Keymaps, InitialKeymap,   \* the compositor's keymap
  LayoutNames,              \* [Keymaps -> Seq(layout display names)]
  Unicode,                  \* [Keymaps -> [CodePoints -> mapping or NoMapping]]
  NoMapping,
  Names,                    \* layout display names
  Policies,                 \* the configurable KeyboardLayoutPolicy values
  OtherLayouts,             \* layouts of the keyboards that are never switched
  NoMain,
  MaxResets, MaxSwitches, MaxStreamFailures  \* bounds on the environment

ASSUME InputAssumption ==
  /\ LeftShift \in ModifierKeys /\ PlainKeys \cap ModifierKeys = {}
  /\ InitialKeymap \in Keymaps
  /\ LayoutNames \in [Keymaps -> Seq(Names)]
  /\ \A k \in Keymaps : Len(LayoutNames[k]) > 0
  /\ Unicode \in [Keymaps -> [CodePoints -> [key : PlainKeys, shift : BOOLEAN] \cup {NoMapping}]]
  /\ NoMapping \notin [key : PlainKeys, shift : BOOLEAN]
  /\ Policies \subseteq {"Client", "Compositor"}
  /\ OtherLayouts \in Seq(Names) /\ NoMain \notin Names
  /\ MaxResets \in Nat /\ MaxSwitches \in Nat /\ MaxStreamFailures \in Nat

Keys == PlainKeys \cup ModifierKeys

VARIABLES
  policy, mainFlag,            \* configuration: layout policy; a main keyboard is flagged
  actor,                       \* "starting", "running" or "stopped"
  session,                     \* a client is connected
  plain, modifiers, owners,    \* DepressedKeys
  replica,                     \* tracker: [keymap, group, mods]
  device,                      \* the compositor's virtual keyboard, same fields
  down, buttons,               \* keys and pointer buttons held on the devices
  listener,                    \* "off", "connected" (before the query) or "seeded"
  stream,                      \* activelayout events not yet handled
  physical,                    \* layout of the keyboard the user types on
  resets, switches, failures,  \* counts of environment steps, bounded
  missed                       \* history: a repair event was lost or refused

depressed == <<plain, modifiers, owners, down>>
config == <<policy, mainFlag>>
environment == <<physical, resets, switches, failures>>
vars == <<config, actor, session, depressed, buttons, replica, device, listener,
          stream, environment, missed>>

Fresh(km) == [keymap |-> km, group |-> 0, mods |-> {}]

Init ==
  /\ policy \in Policies /\ mainFlag \in BOOLEAN
  /\ actor = "starting" /\ session = FALSE
  /\ plain = {} /\ modifiers = {} /\ owners = {}
  /\ replica = Fresh(InitialKeymap) /\ device = Fresh(InitialKeymap)
  /\ down = {} /\ buttons = {}
  /\ listener = "off" /\ stream = <<>>
  /\ physical \in Names
  /\ resets = 0 /\ switches = 0 /\ failures = 0
  /\ missed = FALSE

\* layout_index_by_name: the first group of the keymap with this name, if any.
Resolves(km, name) == \E i \in 1..Len(LayoutNames[km]) : LayoutNames[km][i] = name

GroupOf(km, name) ==
  (CHOOSE i \in 1..Len(LayoutNames[km]) :
     /\ LayoutNames[km][i] = name
     /\ \A j \in 1..(i - 1) : LayoutNames[km][j] # name) - 1

-----------------------------------------------------------------------------
(* The compositor's side of the two requests the actor makes.              *)

NameOf(d) == LayoutNames[d.keymap][d.group + 1]

\* A layout event of the actor's own device, seen only while someone listens.
Reported(s, from, to) ==
  IF listener # "off" /\ NameOf(from) # NameOf(to)
  THEN Append(s, [own |-> TRUE, name |-> NameOf(to)]) ELSE s

\* Mutant: the mask is announced as it is, keys that are no modifiers included.
AnnouncedRaw(d, r) == [d EXCEPT !.mods = r.mods \cup down, !.group = r.group]

\* sink.modifiers(r): a group the device's keymap lacks falls back to 0.
Announced(d, r) ==
  [d EXCEPT !.mods = r.mods,
            !.group = IF r.group < Len(LayoutNames[d.keymap]) THEN r.group ELSE 0]

AnnounceModifiers(d, s, r) ==
  /\ device' = Announced(d, r)
  /\ stream' = Reported(s, d, device')

\* sink.keymap, then sink.modifiers.
AnnounceKeymap(s, r) ==
  AnnounceModifiers(Fresh(r.keymap), Reported(s, device, Fresh(r.keymap)), r)

-----------------------------------------------------------------------------
(* Keyboard events of the client.                                          *)

Listening == actor = "running" /\ session

\* sink.key and tracker.key of one key, and the announcement a change causes.
KeyDown(k, upd) == [upd EXCEPT !.mods = @ \cup ({k} \cap ModifierKeys)]
\* Mutant: the tracker is not told of the release.
KeyUpUntracked(ks, upd) == upd

KeyUp(ks, upd) == [upd EXCEPT !.mods = @ \ ks]

TrackKey(newReplica) ==
  /\ replica' = newReplica
  /\ IF newReplica # replica THEN AnnounceModifiers(device, stream, newReplica)
     ELSE UNCHANGED <<device, stream>>

DuplicatePress(k) == k \in ModifierKeys /\ k \in modifiers

Pressed(k) ==
  /\ Listening /\ ~DuplicatePress(k)
  /\ plain' = IF k \in ModifierKeys THEN plain ELSE plain \cup {k}
  /\ modifiers' = IF k \in ModifierKeys THEN modifiers \cup {k} ELSE modifiers
  /\ IF k = LeftShift /\ owners # {}
     THEN UNCHANGED <<down, replica, device, stream>>
     ELSE down' = down \cup {k} /\ TrackKey(KeyDown(k, replica))
  /\ UNCHANGED <<config, actor, session, owners, buttons, listener, environment, missed>>

StrayRelease(k) == k \in ModifierKeys /\ k \notin modifiers

Released(k) ==
  /\ Listening /\ ~StrayRelease(k)
  /\ plain' = plain \ {k} /\ modifiers' = modifiers \ {k}
  /\ IF k = LeftShift /\ owners # {}
     THEN UNCHANGED <<down, replica, device, stream>>
     ELSE down' = down \ {k} /\ TrackKey(KeyUp({k}, replica))
  /\ UNCHANGED <<config, actor, session, owners, buttons, listener, environment, missed>>

Mapping(c) == Unicode[replica.keymap][c]

ShiftActive == LeftShift \in modifiers \/ owners # {}

UnicodePressed(c) ==
  /\ Listening /\ Mapping(c) # NoMapping
  /\ owners' = IF Mapping(c).shift THEN owners \cup {c} ELSE owners
  /\ plain' = plain \cup {Mapping(c).key}
  /\ IF Mapping(c).shift /\ ~ShiftActive
     THEN /\ down' = down \cup {LeftShift, Mapping(c).key}
          /\ TrackKey(KeyDown(LeftShift, replica))
     ELSE /\ down' = down \cup {Mapping(c).key}
          /\ UNCHANGED <<replica, device, stream>>
  /\ UNCHANGED <<config, actor, session, modifiers, buttons, listener, environment, missed>>

\* Mutant: the last unicode owner takes Shift up even if the client holds it.
ShiftEndsAlways(c) == Mapping(c).shift /\ c \in owners /\ owners = {c}

\* The last unicode owner takes Shift up, unless the client holds it itself.
ShiftEnds(c) ==
  /\ Mapping(c).shift /\ c \in owners /\ owners = {c}
  /\ LeftShift \notin modifiers

UnicodeReleased(c) ==
  /\ Listening /\ Mapping(c) # NoMapping
  /\ plain' = plain \ {Mapping(c).key}
  /\ owners' = IF Mapping(c).shift THEN owners \ {c} ELSE owners
  /\ IF ShiftEnds(c)
     THEN /\ down' = down \ {Mapping(c).key, LeftShift}
          /\ TrackKey(KeyUp({LeftShift}, replica))
     ELSE /\ down' = down \ {Mapping(c).key}
          /\ UNCHANGED <<replica, device, stream>>
  /\ UNCHANGED <<config, actor, session, modifiers, buttons, listener, environment, missed>>

\* release_depressed: everything tracked, and a Shift only unicode keys own.
DepressedKeys ==
  plain \cup modifiers \cup (IF owners # {} THEN {LeftShift} ELSE {})

ReleaseDepressed ==
  /\ down' = down \ DepressedKeys
  /\ plain' = {} /\ modifiers' = {} /\ owners' = {}

Synchronize ==
  /\ Listening
  /\ ReleaseDepressed
  /\ replica' = KeyUp(DepressedKeys, replica)
  /\ AnnounceModifiers(device, stream, replica')
  /\ UNCHANGED <<config, actor, session, buttons, listener, environment, missed>>

\* Mutant: "nothing held" overlooks a Shift that only unicode keys own.
ReleaseIfTracked ==
  IF plain = {} /\ modifiers = {}
  THEN UNCHANGED <<depressed, replica, device, stream>>
  ELSE /\ ReleaseDepressed
       /\ replica' = KeyUp(DepressedKeys, replica)
       /\ AnnounceModifiers(device, stream, replica')

ReleaseHeldKeys ==
  IF plain = {} /\ modifiers = {} /\ owners = {}
  THEN UNCHANGED <<depressed, replica, device, stream>>
  ELSE /\ ReleaseDepressed
       /\ replica' = KeyUp(DepressedKeys, replica)
       /\ AnnounceModifiers(device, stream, replica')

Button(b, isPressed) ==
  /\ Listening
  /\ buttons' = IF isPressed THEN buttons \cup {b} ELSE buttons \ {b}
  /\ UNCHANGED <<config, actor, session, depressed, replica, device, listener, stream,
                 environment, missed>>

-----------------------------------------------------------------------------
(* Session boundaries and the actor's own life.                            *)

\* A refused initial keymap stops the actor; the listener starts under the
\* compositor's policy.
Start ==
  /\ actor = "starting"
  /\ \/ actor' = "running"
     \/ actor' = "stopped"
  /\ UNCHANGED <<config, session, depressed, buttons, replica, device, listener, stream,
                 environment, missed>>

KeepKeymap == UNCHANGED <<depressed, replica, device, stream>>

\* ApplyKeymap once the device accepted the keymap.
ApplyKeymap(km) ==
  /\ ReleaseDepressed
  /\ replica' = Fresh(km)
  /\ AnnounceKeymap(stream, replica')

\* on_connection_info: a client whose layout is unknown, whose keymap does not
\* compile or whose keymap the device refuses leaves the keymap alone.
SessionStarted ==
  /\ actor = "running" /\ ~session
  /\ session' = TRUE
  /\ \/ KeepKeymap
     \/ policy = "Client" /\ \E km \in Keymaps : ApplyKeymap(km)
  /\ UNCHANGED <<config, actor, buttons, listener, environment, missed>>

\* on_disconnected
SessionEnded ==
  /\ actor = "running" /\ session
  /\ session' = FALSE
  /\ ReleaseHeldKeys
  /\ UNCHANGED <<config, actor, buttons, listener, environment, missed>>

\* The handler is dropped: the listener first, then the channel, and the
\* actor releases what is held.
Stop ==
  /\ actor = "running"
  /\ actor' = "stopped" /\ session' = FALSE /\ listener' = "off"
  /\ IF plain = {} /\ modifiers = {} /\ owners = {}
     THEN UNCHANGED <<depressed, replica, device>>
     ELSE /\ ReleaseDepressed
          /\ replica' = KeyUp(DepressedKeys, replica)
          /\ device' = Announced(device, replica')
  /\ stream' = <<>>
  /\ UNCHANGED <<config, buttons, environment, missed>>

-----------------------------------------------------------------------------
(* The layout listener: connect, query the devices, follow the events.     *)

Connect ==
  /\ actor = "running" /\ policy = "Compositor" /\ listener = "off"
  /\ listener' = "connected"
  /\ UNCHANGED <<config, actor, session, depressed, buttons, replica, device, stream,
                 environment, missed>>

SetLockedGroup(s, group) ==
  /\ replica' = [replica EXCEPT !.group = group]
  /\ IF replica' # replica THEN AnnounceModifiers(device, s, replica')
     ELSE device' = device /\ stream' = s

\* physical_keyboard_layouts: the flagged keyboard is the user's, the others follow.
Candidates ==
  [main |-> IF mainFlag THEN physical ELSE NoMain,
   others |-> IF mainFlag THEN OtherLayouts ELSE Append(OtherLayouts, physical)]

\* Mutant: without a main keyboard the first one that resolves wins.
FirstResolved(c) ==
  LET resolved == {i \in 1..Len(c.others) : Resolves(replica.keymap, c.others[i])}
  IN IF c.main # NoMain /\ Resolves(replica.keymap, c.main)
     THEN {GroupOf(replica.keymap, c.main)}
     ELSE {GroupOf(replica.keymap, c.others[i]) :
             i \in {j \in resolved : \A k \in resolved : j <= k}}

\* pick_initial_layout: the main keyboard, else the first other keyboard off
\* the default group, else the first one that resolves.
InitialGroups(c) ==
  LET resolved == {i \in 1..Len(c.others) : Resolves(replica.keymap, c.others[i])}
      switched == {i \in resolved : GroupOf(replica.keymap, c.others[i]) # 0}
      from == IF switched # {} THEN switched ELSE resolved
  IN IF c.main # NoMain /\ Resolves(replica.keymap, c.main)
     THEN {GroupOf(replica.keymap, c.main)}
     ELSE {GroupOf(replica.keymap, c.others[i]) :
             i \in {j \in from : \A k \in from : j <= k}}

\* A failed devices query seeds nothing.
Seed ==
  /\ actor = "running" /\ listener = "connected"
  /\ listener' = "seeded"
  /\ \/ /\ \/ InitialGroups(Candidates) = {} /\ UNCHANGED <<replica, device, stream>>
           \/ \E g \in InitialGroups(Candidates) : SetLockedGroup(stream, g)
        /\ UNCHANGED missed
     \/ missed' = TRUE /\ UNCHANGED <<replica, device, stream>>
  /\ UNCHANGED <<config, actor, session, depressed, buttons, environment>>

\* Mutant: the actor follows the event and announces the event's layout.
FollowOwnLayoutEvent(name, rest) ==
  /\ IF Resolves(replica.keymap, name) THEN SetLockedGroup(rest, GroupOf(replica.keymap, name))
     ELSE AnnounceKeymap(rest, replica) /\ UNCHANGED replica
  /\ UNCHANGED missed

\* handle_own_layout_event: the replica never follows its own device.
HandleOwnLayoutEvent(name, rest) ==
  \/ /\ Resolves(replica.keymap, name) /\ GroupOf(replica.keymap, name) = replica.group
     /\ stream' = rest /\ UNCHANGED <<replica, device, missed>>
  \/ /\ Resolves(replica.keymap, name) /\ GroupOf(replica.keymap, name) # replica.group
     /\ AnnounceModifiers(device, rest, replica)
     /\ UNCHANGED <<replica, missed>>
  \/ /\ ~Resolves(replica.keymap, name)
     /\ \/ AnnounceKeymap(rest, replica) /\ UNCHANGED missed
        \/ stream' = rest /\ missed' = TRUE /\ UNCHANGED device
     /\ UNCHANGED replica

HandleLayoutEvent ==
  /\ actor = "running" /\ listener = "seeded" /\ stream # <<>>
  /\ LET event == Head(stream) IN
     \/ event.own /\ HandleOwnLayoutEvent(event.name, Tail(stream))
     \/ /\ ~event.own /\ Resolves(replica.keymap, event.name)
        /\ SetLockedGroup(Tail(stream), GroupOf(replica.keymap, event.name))
        /\ UNCHANGED missed
     \/ /\ ~event.own /\ ~Resolves(replica.keymap, event.name)
        /\ stream' = Tail(stream) /\ UNCHANGED <<replica, device, missed>>
  /\ UNCHANGED <<config, actor, session, depressed, buttons, listener, environment>>

\* The socket fails: unread events are gone and the listener reconnects.
StreamFailed ==
  /\ listener # "off" /\ failures < MaxStreamFailures
  /\ failures' = failures + 1
  /\ listener' = "off" /\ stream' = <<>>
  /\ missed' = (missed \/ \E i \in 1..Len(stream) : stream[i].own)
  /\ UNCHANGED <<config, actor, session, depressed, buttons, replica, device, physical,
                 resets, switches>>

-----------------------------------------------------------------------------
(* The desktop.                                                            *)

\* The user switches the layout of a physical keyboard.
PhysicalSwitch(name) ==
  /\ switches < MaxSwitches /\ name # physical
  /\ switches' = switches + 1 /\ physical' = name
  /\ stream' = IF listener = "off" THEN stream ELSE Append(stream, [own |-> FALSE, name |-> name])
  /\ UNCHANGED <<config, actor, session, depressed, buttons, replica, device, listener,
                 resets, failures, missed>>

\* The compositor resets the virtual keyboard's state, or gives it a keymap of
\* its own, behind the actor's back.
DeviceReset(km) ==
  /\ actor = "running" /\ resets < MaxResets
  /\ resets' = resets + 1
  /\ device' = Fresh(km)
  /\ stream' = Reported(stream, device, Fresh(km))
  /\ missed' = (missed \/ listener = "off")
  /\ UNCHANGED <<config, actor, session, depressed, buttons, replica, listener, physical,
                 switches, failures>>

-----------------------------------------------------------------------------

Client ==
  \/ SessionStarted \/ SessionEnded \/ Synchronize
  \/ \E k \in Keys : Pressed(k) \/ Released(k)
  \/ \E c \in CodePoints : UnicodePressed(c) \/ UnicodeReleased(c)
  \/ \E b \in Buttons, p \in BOOLEAN : Button(b, p)

Listen == Connect \/ Seed \/ HandleLayoutEvent

Desktop ==
  \/ StreamFailed
  \/ \E name \in Names : PhysicalSwitch(name)
  \/ \E km \in Keymaps : DeviceReset(km)

Next == Start \/ Stop \/ Client \/ Listen \/ Desktop

Spec == Init /\ [][Next]_vars

\* The listener's and the actor's threads run; the client and the desktop
\* need not do anything.
FairSpec == Spec /\ WF_vars(Listen)

-----------------------------------------------------------------------------
(* Properties                                                              *)

XkbState == [keymap : Keymaps, group : Nat, mods : SUBSET ModifierKeys]

\* Types of the state.
TypeOK ==
  /\ policy \in Policies /\ mainFlag \in BOOLEAN
  /\ actor \in {"starting", "running", "stopped"} /\ session \in BOOLEAN
  /\ plain \subseteq PlainKeys /\ modifiers \subseteq ModifierKeys
  /\ owners \subseteq CodePoints
  /\ replica \in XkbState /\ device \in XkbState
  /\ down \subseteq Keys /\ buttons \subseteq Buttons
  /\ listener \in {"off", "connected", "seeded"}
  /\ stream \in Seq([own : BOOLEAN, name : Names])
  /\ physical \in Names
  /\ resets \in Nat /\ switches \in Nat /\ failures \in Nat /\ missed \in BOOLEAN

\* What DepressedKeys tracks is exactly what the compositor sees held, however
\* scancode presses, unicode presses that borrow Shift, keymap changes and
\* Synchronize interleave: no key sticks and none is released early.
HeldKeysTracked == down = DepressedKeys

\* The modifier mask of the replica is that of the held modifier keys, so no
\* announcement leaves a modifier latched on the device that nobody holds.
ModifiersFollowKeys == replica.mods = down \cap ModifierKeys

\* "The session ended: release anything the client left held" (keys only).
NoKeyOutlivesSession == ~session => down = {}

\* The same promise (actor.rs:37) for all the client can hold, pointer buttons too.
NothingOutlivesSession == ~session => down = {} /\ buttons = {}

Mirrored ==
  /\ device.keymap = replica.keymap /\ device.group = replica.group
  /\ stream = <<>>

\* Re-announcing the replica converges (actor.rs:291-294): once the desktop
\* stops resetting the device, its layout is the replica's and no further
\* event follows, unless the repairing event was lost or refused.
DeviceConverges ==
  <>[](missed \/ actor # "running" \/ policy = "Client" \/ Mirrored)

\* The replica ends on the layout of the keyboard the user switches, whether
\* the switch came before, between or after the listener's connection and its
\* query, and whether or not the compositor flags that keyboard as main.
LayoutFollowed ==
  <>[](missed \/ actor # "running" \/ policy = "Client"
       \/ (Resolves(replica.keymap, physical) => replica.group = GroupOf(replica.keymap, physical)))

\* The loop between the actor, the device and the listener settles, and it
\* settles on the layout of the user's keyboard.
LayoutSettles ==
  /\ DeviceConverges
  /\ LayoutFollowed
=============================================================================
