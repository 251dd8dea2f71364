-------------------------------- MODULE Server --------------------------------
(***************************************************************************)
(* One run of the server (src/src/server/mod.rs, src/src/main.rs): setup,  *)
(* the connections it serves one after the other, and the way down from a  *)
(* signal, with the TLS identity, PAM, audio and the session commands      *)
(* attached where the code attaches them.  The display and the input, told *)
(* of the same session boundaries, have modules of their own.              *)
(*                                                                         *)
(* The accept loop is IronRDP's (external): it may validate several        *)
(* connections at once, serves one, drops the channels of a connection     *)
(* before on_disconnected, and drops everything at its await on a signal.  *)
(***************************************************************************)
EXTENDS TlsIdentity, PamValidator, SessionHooks, Audio

CONSTANTS
  Features,     \* what is configured: [generate, pam, hooks, audio], the sound
                \* the user starts with: [starts], whether the process is killed
                \* and started again: [kill], a bound on sessions: [sessions]
  Me            \* this server among the Starters

ASSUME ServerAssumption == Me \in Starters

VARIABLES
  features,  \* the member of Features of this run
  phase,     \* where the process is
  sessions,  \* sessions served so far
  admitted,  \* validations whose session was opened
  heard      \* the sound channel of this session was started

serverVars == <<features, phase, sessions, admitted, heard>>
vars == <<serverVars, tlsVars, pamVars, hookVars, audioVars>>

Serving == phase \in {"accept", "session"}

(* With --cert and --key the files are the user's.                         *)
ServerTlsInit ==
  IF features.generate THEN TlsInit
  ELSE /\ starter = [p \in Starters |-> [AtStart EXCEPT !.pc = IF p = Me THEN "cert" ELSE "down"]]
       /\ keyFile = MaxPairs /\ certFile = MaxPairs /\ tmpKey = 0 /\ tmpCert = 0
       /\ tlsLock = NoStarter /\ pairs = MaxPairs

Init ==
  /\ features \in Features
  /\ phase = "setup" /\ sessions = 0 /\ admitted = {} /\ heard = FALSE
  /\ ServerTlsInit
  /\ pamOn = features.pam /\ PamInit
  /\ ~pamOn => \A a \in Attempts : attempt[a].cred = CHOOSE c \in PamCredentials : TRUE
  /\ hookConfig \in features.hooks /\ HookInit
  /\ audioMode \in features.audio /\ AudioInit /\ want \in features.starts

OnlyServer == UNCHANGED <<tlsVars, pamVars, hookVars, audioVars>>

-----------------------------------------------------------------------------
SetupDone ==
  /\ phase = "setup" /\ starter[Me].pc = "up" /\ phase' = "accept"
  /\ UNCHANGED <<features, sessions, admitted, heard>> /\ OnlyServer

Validate(a) ==
  /\ Serving /\ PamBegin(a)
  /\ UNCHANGED <<serverVars, tlsVars, hookVars, audioVars>>

(* A client goes away while its credentials are validated.                 *)
ClientLeaves(a) ==
  /\ Serving /\ PamDrop(a)
  /\ UNCHANGED <<serverVars, tlsVars, hookVars, audioVars>>

Admissible == {a \in Attempts \ admitted : attempt[a].decision = "accept"}

(* on_connection_info                                                      *)
OnConnectionInfo ==
  /\ phase = "accept" /\ sessions < features.sessions
  /\ IF pamOn THEN \E a \in Admissible : admitted' = admitted \cup {a} ELSE UNCHANGED admitted
  /\ phase' = "session" /\ sessions' = sessions + 1 /\ heard' = FALSE
  /\ HookSessionStarted
  /\ UNCHANGED <<features, tlsVars, pamVars, audioVars>>

StartSound ==
  /\ phase = "session" /\ ~heard /\ heard' = TRUE /\ AudioStart
  /\ UNCHANGED <<features, phase, sessions, admitted, tlsVars, pamVars, hookVars>>

(* The sound handler is called from the connection's task, so the task is  *)
(* at an await when none of its calls is in progress.                      *)
AtAwait == sound.pc \in {"idle", "on", "failed"}

DropChannels == IF sound.pc = "idle" THEN UNCHANGED audioVars ELSE AudioStop

EndSession ==
  /\ phase = "session" /\ AtAwait /\ DropChannels /\ phase' = "closing"
  /\ UNCHANGED <<features, sessions, admitted, heard, tlsVars, pamVars, hookVars>>

OnDisconnected ==
  /\ phase = "closing" /\ sound.pc = "idle" /\ phase' = "accept"
  /\ HookSessionEnded
  /\ UNCHANGED <<features, sessions, admitted, heard, tlsVars, pamVars, audioVars>>

-----------------------------------------------------------------------------
(* main: the signal wins the select, serve is dropped,                     *)
Signal ==
  /\ Serving /\ AtAwait /\ phase' = "dropping" /\ DropChannels
  /\ UNCHANGED <<features, sessions, admitted, heard, tlsVars, pamVars, hookVars>>

(* with every validation in progress,                                      *)
DropValidation(a) ==
  /\ phase = "dropping" /\ PamDrop(a)
  /\ UNCHANGED <<serverVars, tlsVars, hookVars, audioVars>>

(* then the display shuts down and the server is dropped, the session      *)
(* commands with it: HooksFlag, HooksClose and the join of their thread.   *)
ServeDropped ==
  /\ phase = "dropping" /\ sound.pc = "idle"
  /\ \A a \in Attempts : attempt[a].pc \in {"idle", "decided"}
  /\ phase' = "shutdown"
  /\ UNCHANGED <<features, sessions, admitted, heard>> /\ OnlyServer

DropHooks ==
  /\ phase = "shutdown" /\ jobsOpen /\ (HooksFlag \/ HooksClose)
  /\ UNCHANGED <<serverVars, tlsVars, pamVars, audioVars>>

Exit ==
  /\ phase = "shutdown" /\ ~jobsOpen /\ runner.pc = "ended" /\ phase' = "exited"
  /\ UNCHANGED <<features, sessions, admitted, heard>> /\ OnlyServer

(* The process is killed in the middle of a session and started again.     *)
Killed ==
  /\ features.kill /\ phase \in {"session", "closing", "dropping"} /\ sound.pc # "idle"
  /\ AudioCrash /\ phase' = "accept" /\ heard' = FALSE
  /\ UNCHANGED <<features, sessions, admitted, tlsVars, pamVars, hookVars>>

-----------------------------------------------------------------------------
(* What the components do by themselves.                                   *)

Tls == TlsNext /\ phase = "setup" /\ UNCHANGED <<serverVars, pamVars, hookVars, audioVars>>
Pam(a) == Serving /\ PamStep(a) /\ UNCHANGED <<serverVars, tlsVars, hookVars, audioVars>>
PamHelper(a) == HelperNext(a) /\ UNCHANGED <<serverVars, tlsVars, hookVars, audioVars>>
Hooks == HookThread /\ UNCHANGED <<serverVars, tlsVars, pamVars, audioVars>>
HooksWorld == HookWorld /\ UNCHANGED <<serverVars, tlsVars, pamVars, audioVars>>
Time == HookTick /\ UNCHANGED <<serverVars, tlsVars, pamVars, audioVars>>
Sound == AudioHandler /\ UNCHANGED <<serverVars, tlsVars, pamVars, hookVars>>
SoundWorld == phase # "exited" /\ AudioWorld /\ UNCHANGED <<serverVars, tlsVars, pamVars, hookVars>>

ServerStep == SetupDone \/ OnDisconnected \/ ServeDropped \/ DropHooks \/ Exit

Next ==
  \/ ServerStep \/ OnConnectionInfo \/ StartSound \/ EndSession \/ Signal \/ Killed
  \/ \E a \in Attempts : \/ Validate(a) \/ ClientLeaves(a) \/ DropValidation(a)
                         \/ Pam(a) \/ PamHelper(a)
  \/ Tls \/ Hooks \/ HooksWorld \/ Sound \/ SoundWorld

Spec == Init /\ [][Next]_vars

(* The threads run, the deadlines of the code pass, and the server's own   *)
(* task goes on.  PAM, the session commands, the sound server, the capture *)
(* thread and clients need not do anything.                                *)
FairSpec ==
  /\ Spec
  /\ WF_vars(ServerStep) /\ WF_vars(Hooks) /\ WF_vars(Time) /\ WF_vars(Sound)
  /\ \A a \in Attempts : WF_vars(Serving /\ PamTimely(a) /\ UNCHANGED <<serverVars, tlsVars, hookVars, audioVars>>)
                         /\ WF_vars(DropValidation(a))

-----------------------------------------------------------------------------
(* A signal brings the process down, in whatever state the session, the    *)
(* sound server, PAM and the session commands are.                         *)
ServerStops == phase = "dropping" ~> phase \in {"exited", "accept"}

(* Nothing that belongs to a session is left when the process exits: no    *)
(* PAM process, no remote sink that could have been unloaded, no session   *)
(* command still to be launched.                                           *)
NothingLeftAtExit ==
  phase = "exited" =>
    /\ \A a \in Attempts : ~helper[a].leader /\ ~helper[a].others
    /\ \A s \in pulse.sinks : s[1] \in 1..audioPid => s \in blamed
    /\ jobs = <<>> /\ ~hookActive

(* A signal always ends the process; before it, neither PAM nor a stuck    *)
(* capture thread holds the next connection for ever.                      *)
ServerProgress ==
  /\ ServerStops
  /\ SlotComesBack
  /\ TeardownEnds

(* A client gets in only as the desktop's own user, and neither a          *)
(* validation nor the process leaves anything of it behind.                *)
PamSound ==
  /\ AcceptedIsOwn
  /\ GroupsGone
  /\ NothingLeftAtExit
===============================================================================
