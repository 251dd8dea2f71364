------------------------------- MODULE MCServer -------------------------------
(* An instance of Server for TLC: one configuration per component that     *)
(* keeps state of its own, and one with everything that meets in a session *)
(* kept small.                                                             *)
EXTENDS Server

MCHardware == {<<0, 1>>, <<0, 2>>}
MCOther == {<<3, 1>>}

(* A stream on its own sink, none, and a default that is not usable.       *)
Heard(default, sink) == [default |-> default, route |-> [i \in Inputs |-> sink]]
MCSoundStarts == {Heard(<<0, 1>>, <<0, 2>>), Heard(<<0, 1>>, Silent), Heard(<<3, 1>>, <<0, 1>>)}

Plain == [generate |-> FALSE, pam |-> FALSE, hooks |-> {{}}, audio |-> {"Off"}, kill |-> FALSE,
          sessions |-> 2, starts |-> MCSoundStarts]
BothHooks == {{"start", "end"}}

MCFeatures ==
  {[Plain EXCEPT !.generate = TRUE, !.sessions = 0],
   [Plain EXCEPT !.pam = TRUE, !.sessions = 1],
   [Plain EXCEPT !.hooks = {{"start", "end"}, {"end"}, {"start"}}],
   [Plain EXCEPT !.audio = {"Redirect"}, !.sessions = 1],
   [Plain EXCEPT !.audio = {"Redirect"}, !.kill = TRUE, !.starts = {Heard(<<0, 1>>, Silent)}],
   [Plain EXCEPT !.hooks = BothHooks, !.audio = {"Mirror"}, !.sessions = 1]}

MCHookConfigs == SUBSET {"start", "end"}

(* Turned down by the server, by each check of the helper, by PAM, and let *)
(* in: as oneself, or renamed by a module of PAM.                          *)
Cred(w, u, p, f) == [wellFormed |-> w, user |-> u, pam |-> p, final |-> f]
MCCredentials ==
  {Cred(FALSE, "own", TRUE, "own"), Cred(TRUE, "other", TRUE, "own"),
   Cred(TRUE, "own", FALSE, "own"), Cred(TRUE, "own", TRUE, "own"),
   Cred(TRUE, "own", TRUE, "other"), Cred(TRUE, "error", TRUE, "own")}
===============================================================================
