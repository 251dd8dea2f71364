------------------------------ MODULE MCEgfxFlow ------------------------------
(* Instances of EgfxFlow for TLC.                                          *)
EXTENDS EgfxFlow

(* Renegotiation and suspension with ClearCodec frames of one client, and  *)
(* resizes with AVC frames of two clients in turn.                         *)
MCScenarios ==
  {[clearCodec |-> TRUE, resizing |-> FALSE, suspends |-> TRUE, clients |-> 1, clears |-> 3],
   [clearCodec |-> FALSE, resizing |-> TRUE, suspends |-> TRUE, clients |-> 2, clears |-> 2]}

(* AVC frames of one client that never suspends.                           *)
MCAvc ==
  {[clearCodec |-> FALSE, resizing |-> FALSE, suspends |-> FALSE, clients |-> 1, clears |-> 1]}

(* A ClearCodec frame counts in the window only as long as it is not       *)
(* acknowledged, for one client without resizes by DisplayControl:         *)
(* send_clearcodec_damage holds the server's mutex until the frame is      *)
(* counted (rdpegfx.rs:203).                                               *)
ClearCodecAckReleasesSlot == OneClient => AckReleasesSlot
===============================================================================
