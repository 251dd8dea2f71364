----------------------------- MODULE MCClipboard -----------------------------
(* The scenarios of Clipboard that TLC checks, each one small enough to be *)
(* interleaved exhaustively: copies of text on both sides with a client    *)
(* that echoes; a file selection that another one, a text or a desktop     *)
(* copy replaces while it is read; and both halves of a read of one file.  *)
EXTENDS Clipboard

Scene(kinds, desk, reads, echoes) ==
  [kinds |-> kinds, locals |-> desk, reads |-> reads, echoes |-> echoes]

MCScenarios ==
  {Scene(<<"text", "text">>, 1, 0, TRUE),
   Scene(<<"files", "files">>, 0, 1, FALSE),
   Scene(<<"files", "text">>, 0, 1, FALSE),
   Scene(<<"text", "files">>, 1, 0, FALSE),
   Scene(<<"files">>, 1, 1, FALSE),
   Scene(<<"files">>, 0, 2, FALSE)}
=============================================================================
