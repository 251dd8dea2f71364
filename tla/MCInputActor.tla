----------------------------- MODULE MCInputActor -----------------------------
(* Keymaps, unicode tables and keyboards of a small desktop. *)
EXTENDS InputActor, TLC

MCLayoutNames == ("two" :> <<"us", "ua">>) @@ ("one" :> <<"de">>)

MCUnicode ==
  ("two" :> [c \in {"B", "C"} |-> [key |-> "b", shift |-> TRUE]])
  @@ ("one" :> (("B" :> [key |-> "b", shift |-> FALSE]) @@ ("C" :> NoMapping)))

MCOthers == <<"us">>
=============================================================================
