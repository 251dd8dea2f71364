------------------------------ MODULE InputDevices ------------------------------
(***************************************************************************)
(* What the input actor hands to the virtual devices, as functions: the    *)
(* keys (src/src/input/keymap.rs), the lock modifiers and the client's     *)
(* layouts (keyboard.rs), pointer requests and wheel detents, and the      *)
(* keymap the devices start with (wayland.rs), and the place of the output *)
(* in the compositor's layout (layout.rs).  Sets of modifiers are sets of  *)
(* their names, and 0 is no key.                                           *)
(***************************************************************************)
EXTENDS Integers, Sequences, FiniteSets, SequencesExt

LOCAL G == INSTANCE Geometry

-----------------------------------------------------------------------------
(* Scancodes.                                                              *)

BaseKeys ==
  [c \in (1..83) \cup (86..88) |-> c]
  @@ (112 :> 93 @@ 115 :> 89 @@ 121 :> 92 @@ 123 :> 94 @@ 125 :> 124 @@ 126 :> 121)

(* xt_extended_to_evdev *)
ExtendedKeys ==
  16 :> 165 @@ 25 :> 163 @@ 28 :> 96 @@ 29 :> 97 @@ 32 :> 113 @@ 33 :> 140 @@ 34 :> 164
  @@ 36 :> 166 @@ 46 :> 114 @@ 48 :> 115 @@ 50 :> 172 @@ 53 :> 98 @@ 55 :> 99 @@ 56 :> 100
  @@ 70 :> 119 @@ 71 :> 102 @@ 72 :> 103 @@ 73 :> 104 @@ 75 :> 105 @@ 77 :> 106 @@ 79 :> 107
  @@ 80 :> 108 @@ 81 :> 109 @@ 82 :> 110 @@ 83 :> 111 @@ 91 :> 125 @@ 92 :> 126 @@ 93 :> 127
  @@ 101 :> 217 @@ 102 :> 156 @@ 107 :> 157 @@ 108 :> 155

KeyIn(table, code) == IF code \in DOMAIN table THEN table[code] ELSE 0

(* Mutant: an extended key that is not listed is its base key.             *)
XtFallback(code, extended) ==
  IF extended /\ code \in DOMAIN ExtendedKeys THEN ExtendedKeys[code] ELSE KeyIn(BaseKeys, code)
XtToEvdev(code, extended) == KeyIn(IF extended THEN ExtendedKeys ELSE BaseKeys, code)

-----------------------------------------------------------------------------
(* Lock modifiers.  "masks" gives the modifiers each lock key locks, none  *)
(* if the keymap does not have the key.                                    *)

LockKeys == {"caps", "num", "scroll", "kana"}

(* locked_mods_from_flags *)
LockedModsFromFlags(masks, flags) == UNION {masks[k] : k \in flags}

(* XKB's lock action over a press and a release.                           *)
LockKeyStroke(locked, mask) == (locked \cup mask) \ (locked \cap mask)

Differ(locked, target, mask) == (locked \cap mask) # (target \cap mask)

(* Mutant: a stroke for every lock the client has on.                      *)
StrokeWanted(locked, target, masks) == {k \in LockKeys : target \cap masks[k] # {}}
(* The keys the fallback strikes, chosen from the state before the first.  *)
KeysToStrike(locked, target, masks) ==
  {k \in LockKeys : masks[k] # {} /\ Differ(locked, target, masks[k])}

(* synchronize_locks.  "direct": libxkbcommon has the update function.     *)
SynchronizeLocks(locked, masks, flags, direct) ==
  IF direct
  THEN (locked \ UNION {masks[k] : k \in LockKeys}) \cup LockedModsFromFlags(masks, flags)
  ELSE FoldLeft(LAMBDA l, k : IF k \in KeysToStrike(locked, LockedModsFromFlags(masks, flags), masks)
                              THEN LockKeyStroke(l, masks[k]) ELSE l,
                locked, <<"caps", "num", "scroll", "kana">>)

-----------------------------------------------------------------------------
(* The wheel, in units of which Detent make a detent; division truncates.  *)

Detent == 120
Quotient(a, b) == IF a < 0 THEN -((-a) \div b) ELSE a \div b

(* Mutant: the remainder is that of floored division.                      *)
FlooredStep(residual, delta) ==
  [detents |-> Quotient(residual + delta, Detent), residual |-> (residual + delta) % Detent]
(* scroll_axis_step, before the axis is turned around.                     *)
ScrollAxisStep(residual, delta) ==
  [detents |-> Quotient(residual + delta, Detent),
   residual |-> (residual + delta) - (Detent * Quotient(residual + delta, Detent))]

(* emit_scroll_axis: a detent, or continuous motion alone.                 *)
EmitScrollAxis(axis, delta, residual) ==
  IF delta = 0 THEN <<>>
  ELSE LET detents == ScrollAxisStep(residual, delta).detents
       IN <<[request |-> IF detents = 0 THEN "axis" ELSE "axis_discrete", axis |-> axis,
             discrete |-> IF axis = "vertical" THEN -detents ELSE detents]>>

Frame == <<[request |-> "frame"]>>
AxisSource == <<[request |-> "axis_source"]>>

(* emit_scroll_event, with the two remainders.                             *)
EmitScroll(h, v, residuals) ==
  [requests |-> AxisSource \o EmitScrollAxis("vertical", v, residuals[2])
                \o EmitScrollAxis("horizontal", h, residuals[1]) \o Frame,
   residuals |-> <<IF h = 0 THEN residuals[1] ELSE ScrollAxisStep(residuals[1], h).residual,
                   IF v = 0 THEN residuals[2] ELSE ScrollAxisStep(residuals[2], v).residual>>]

EvdevButtons == [Left |-> 272, Right |-> 273, Middle |-> 274, X1 |-> 275, X2 |-> 276]

(* map_rdp_pointer_to_source; the extent is the output's size.             *)
MotionAbsolute(layout, x, y) ==
  <<[request |-> "motion_absolute", at |-> G!MapPresentationPoint(layout, <<x, y>>), extent |-> layout.source]>>
PressButton(event) ==
  IF event.button \in DOMAIN EvdevButtons
  THEN <<[request |-> "button", button |-> EvdevButtons[event.button], pressed |-> event.pressed]>>
  ELSE <<>>

(* emit_mouse_event.  "layout" is a set: empty before there is one.        *)
EmitMouseEvent(layout, event, residuals) ==
  LET Requests(requests) == [requests |-> requests, residuals |-> residuals]
      Located == FlattenSeq(SetToSeq({MotionAbsolute(l, event.x, event.y) : l \in layout}))
  IN CASE event.kind = "Move" -> Requests(IF layout = {} THEN <<>> ELSE Located \o Frame)
       [] event.kind = "Button" -> Requests(Located \o PressButton(event) \o Frame)
       [] event.kind = "ButtonRel" -> Requests(<<[request |-> "motion"]>> \o PressButton(event) \o Frame)
       [] event.kind = "RelMove" -> Requests(<<[request |-> "motion"]>> \o Frame)
       [] event.kind = "Scroll" -> EmitScroll(event.x, event.y, residuals)
       [] OTHER -> Requests(<<>>)

-----------------------------------------------------------------------------
(* The output in the compositor's layout.  A monitor is [name, x, y, w, h] *)

(* Mutant: the layout starts at the origin.                                *)
OriginOf(monitors) == <<0, 0>>
LayoutOrigin(monitors) == <<Min({m.x : m \in monitors}), Min({m.y : m \in monitors})>>

(* layout_from_monitors; the last monitor of the name is the output.       *)
LayoutFromMonitors(monitors, name) ==
  LET named == SelectSeq(monitors, LAMBDA m : m.name = name)
      all == Range(monitors)
      origin == LayoutOrigin(all)
      far == <<Max({m.x + m.w : m \in all}), Max({m.y + m.h : m \in all})>>
      output == Last(named)
      offset == <<output.x - origin[1], output.y - origin[2]>>
      extent == <<far[1] - origin[1], far[2] - origin[2]>>
  IN IF monitors = <<>> \/ (\E m \in all : m.w <= 0 \/ m.h <= 0) \/ named = <<>> THEN <<>>
     ELSE IF extent[1] <= 0 \/ extent[2] <= 0 \/ offset[1] < 0 \/ offset[2] < 0 THEN <<>>
     ELSE [size |-> <<output.w, output.h>>, extent |-> extent, offset |-> offset]

-----------------------------------------------------------------------------
(* Keymaps.                                                                *)

(* xkb_names_for_rdp_keyboard_layout, by the low 16 bits of the layout.    *)
RdpLayouts ==
  1025 :> "ara" @@ 1028 :> "cn" @@ 2052 :> "cn" @@ 3076 :> "cn" @@ 4100 :> "cn" @@ 5124 :> "cn"
  @@ 1029 :> "cz" @@ 1030 :> "dk" @@ 1031 :> "de" @@ 1032 :> "gr" @@ 1033 :> "us" @@ 1034 :> "es"
  @@ 3082 :> "es" @@ 1035 :> "fi" @@ 1036 :> "fr" @@ 1037 :> "il" @@ 1038 :> "hu" @@ 1040 :> "it"
  @@ 1041 :> "jp" @@ 1042 :> "kr" @@ 1043 :> "nl" @@ 1044 :> "no" @@ 1045 :> "pl" @@ 1046 :> "br"
  @@ 1049 :> "ru" @@ 1053 :> "se" @@ 1055 :> "tr" @@ 2055 :> "ch" @@ 2057 :> "gb" @@ 2070 :> "pt"

NoNames == [layout |-> "", variant |-> "", options |-> ""]
XkbNames(keyboardLayout) ==
  LET id == keyboardLayout % 65536
  IN IF id \notin DOMAIN RdpLayouts THEN NoNames
     ELSE [NoNames EXCEPT !.layout = RdpLayouts[id],
                          !.variant = IF keyboardLayout = 66565 THEN "qwerty" ELSE ""]

NoKeymap == [source |-> "none", names |-> NoNames]

(* generate_xkb_keymap_from_names: "compiles" are the names XKB knows.     *)
Generate(names, source, compiles) ==
  IF names \in compiles THEN [source |-> source, names |-> names] ELSE NoKeymap

(* client_keymap_from_keyboard_layout *)
ClientKeymap(policy, keyboardLayout, compiles) ==
  IF policy = "compositor" \/ XkbNames(keyboardLayout) = NoNames THEN NoKeymap
  ELSE Generate(XkbNames(keyboardLayout), "rdp-client", compiles)

(* generate_fallback_keymap_from_names.  Hyprland's names are a set, empty *)
(* if the query failed.                                                    *)
FallbackKeymap(answered, compiles) ==
  LET names == IF answered = {} THEN NoNames ELSE CHOOSE n \in answered : TRUE
      hyprland == Generate(names, "hyprland", compiles)
  IN IF names # NoNames /\ hyprland # NoKeymap THEN hyprland
     ELSE Generate(NoNames, "fallback", compiles)

(* read_keymap: [advertised, length] of the compositor's file.             *)
ReadKeymap(file) == file.advertised > 0 /\ file.length >= file.advertised

(* The world an input handler starts in: globals, the names of the         *)
(* outputs, whether the seat has a keyboard, and its keymap's file.  The   *)
(* answers to what a roundtrip binds come with the next one.               *)
SeatKnown(world, roundtrips) == roundtrips >= 2 /\ world.keyboard
OutputsKnown(world, roundtrips) == IF roundtrips >= 2 THEN world.outputs ELSE {}

(* Mutant: what the seat did not provide is generated.                     *)
GenerateMissing(world, roundtrips, compiles) ==
  IF SeatKnown(world, roundtrips) /\ ReadKeymap(world.file)
  THEN [source |-> "compositor", names |-> world.names]
  ELSE FallbackKeymap(world.hyprland, compiles)
(* load_keymap, with take_loaded_keymap                                    *)
LoadKeymap(world, roundtrips, compiles) ==
  IF SeatKnown(world, roundtrips)
  THEN IF ReadKeymap(world.file) THEN [source |-> "compositor", names |-> world.names] ELSE NoKeymap
  ELSE FallbackKeymap(world.hyprland, compiles)

(* HyprInputHandler::new: the keymap it starts with, or none.              *)
StartHandler(world, output, compiles) ==
  LET keymap == LoadKeymap(world, 2, compiles)
  IN IF world.globals /\ output \in OutputsKnown(world, 2) /\ keymap.names \in compiles
     THEN keymap ELSE NoKeymap
===============================================================================
