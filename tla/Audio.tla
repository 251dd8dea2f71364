-------------------------------- MODULE Audio --------------------------------
(***************************************************************************)
(* Audio redirection (src/src/audio): the sound handler of a connection,   *)
(* the commands with which it points the desktop's sound at a null sink of *)
(* its own and back (routing.rs), and the PipeWire capture threads.        *)
(*                                                                         *)
(* Every command of pactl is one step.  It is done, lost without effect,   *)
(* or reported failed although it took effect ("late").  The sound server  *)
(* is external.  A sink is <<owner, n>>; hardware has owner 0, a remote    *)
(* sink the process that loaded it.                                        *)
(***************************************************************************)
EXTENDS Integers, FiniteSets

CONSTANTS
  Hardware,        \* the hardware sinks
  OtherSinks,      \* remote sinks of another running process
  Inputs,          \* streams of desktop applications
  MaxSounds,       \* bound on the sound handlers built
  SoundStarts,     \* [default, route] the user may have before the first session
  MaxUpsets,       \* bound on failing commands, spent budgets, crashes, user acts
  MaxAudioPid      \* bound on processes of hypr-rdp, one after the other

NoSink == <<0, 0>>
Silent == <<0, -1>>  \* the route of an input that does not play yet
Follow == <<0, -2>>  \* an input entitled to the default sink
Gone == <<0, -3>>    \* the route of an input that has ended; its index is not reused

ASSUME AudioAssumption ==
  /\ {MaxSounds, MaxUpsets} \subseteq Nat /\ MaxAudioPid \in Nat \ {0}
  /\ Hardware \subseteq {0} \X (Nat \ {0}) /\ Hardware # {}
  /\ OtherSinks \subseteq {MaxAudioPid + 1} \X Nat
  /\ SoundStarts \subseteq [default : Hardware \cup OtherSinks,
                            route : [Inputs -> Hardware \cup OtherSinks \cup {Silent}]]
  /\ SoundStarts # {}

VARIABLES
  pulse,      \* the sound server: [sinks, default, route]
  audioMode,  \* AudioMode
  sound,      \* the handler and its RedirectRouteGuard
  threads,    \* capture threads by handler: [st, reported, stop]
  audioPid,   \* the process id of hypr-rdp
  upsets,     \* failures and user acts so far
  blamed,     \* history: remote sinks a command failed on, or whose process died
  clean,      \* history: nothing failed and the user kept still during routing
  want        \* history: [default, route] as the session found them or the user put them

audioVars == <<pulse, audioMode, sound, threads, audioPid, upsets, blamed, clean, want>>

Remote(sink) == sink[1] > 0
Mine == <<audioPid, sound.n>>

AudioIdle(n) ==
  [pc |-> "idle", n |-> n, prev |-> NoSink, cur |-> NoSink, moved |-> {}, todo |-> {},
   guard |-> FALSE, handle |-> FALSE, ending |-> FALSE, spent |-> FALSE]

NoThread == [st |-> "none", reported |-> "none", stop |-> FALSE]

AudioInit ==
  /\ audioMode \in {"Mirror", "Redirect", "Off"}
  /\ want \in IF audioMode = "Redirect" THEN SoundStarts ELSE {CHOOSE u \in SoundStarts : TRUE}
  /\ pulse = [sinks |-> Hardware \cup OtherSinks, default |-> want.default, route |-> want.route]
  /\ sound = AudioIdle(0) /\ threads = [n \in 1..MaxSounds |-> NoThread]
  /\ audioPid = 1 /\ upsets = 0 /\ blamed = {} /\ clean = TRUE

-----------------------------------------------------------------------------
(* The sound server.  Unloading a sink moves its inputs to the default,    *)
(* which is another sink if it was this one.                               *)

Playing == {i \in Inputs : pulse.route[i] \notin {Silent, Gone}}

Read == [op |-> "read", sink |-> NoSink, input |-> {}]
Set(s) == [op |-> "default", sink |-> s, input |-> {}]
Move(i, s) == [op |-> "move", sink |-> s, input |-> {i}]
Load(s) == [op |-> "load", sink |-> s, input |-> {}]
Unload(s) == [op |-> "unload", sink |-> s, input |-> {}]

Possible(c) == /\ c.op \in {"default", "move", "unload"} => c.sink \in pulse.sinks
               /\ c.input \subseteq Playing

Unloaded(s, d) ==
  LET default == IF pulse.default = s THEN d ELSE pulse.default
  IN  [sinks |-> pulse.sinks \ {s}, default |-> default,
       route |-> [i \in Inputs |-> IF pulse.route[i] = s THEN default ELSE pulse.route[i]]]

Effects(c) ==
  CASE c.op = "read" -> {pulse}
    [] c.op = "default" -> {[pulse EXCEPT !.default = c.sink]}
    [] c.op = "move" -> {[pulse EXCEPT !.route = [i \in Inputs |->
                            IF i \in c.input THEN c.sink ELSE pulse.route[i]]]}
    [] c.op = "load" -> {[pulse EXCEPT !.sinks = @ \cup {c.sink}]}
    [] c.op = "unload" -> {Unloaded(c.sink, d) : d \in Hardware}

Replies(c, budgeted) ==
  IF ~Possible(c) \/ (budgeted /\ sound.spent) THEN {"lost"}
  ELSE IF upsets = MaxUpsets THEN {"ok"}
  ELSE IF c.op = "read" THEN {"ok", "lost"} ELSE {"ok", "lost", "late"}

(* pactl, directly or through the BudgetedRunner of a restore.             *)
Pactl(c, budgeted, reply) ==
  /\ reply \in Replies(c, budgeted)
  /\ pulse' \in IF reply = "lost" THEN {pulse} ELSE Effects(c)
  /\ upsets' = IF reply # "ok" /\ Replies(c, budgeted) # {"lost"}
                    THEN upsets + 1 ELSE upsets
  /\ clean' = (clean /\ reply = "ok")
  /\ blamed' = IF reply # "ok" /\ c.op \in {"load", "unload"} THEN blamed \cup {c.sink}
               ELSE blamed
  /\ UNCHANGED <<audioMode, audioPid, want>>

Goto(pc) == sound' = [sound EXCEPT !.pc = pc]

-----------------------------------------------------------------------------
(* start_capture: routing first.                                           *)

AudioStart ==
  /\ sound.pc = "idle" /\ sound.n < MaxSounds /\ audioMode # "Off"
  /\ sound' = [AudioIdle(sound.n + 1) EXCEPT
                 !.pc = IF audioMode = "Redirect" THEN "list" ELSE "spawn"]
  /\ clean' = TRUE /\ want' = [default |-> pulse.default, route |-> pulse.route]
  /\ UNCHANGED <<pulse, audioMode, threads, audioPid, upsets, blamed>>

(* Mutant: sinks of a running process count as orphans.                    *)
OrphansOfAnyone == {s \in pulse.sinks : Remote(s)}

(* orphaned_remote_sink_modules: of this process, or of one that is gone.  *)
Orphans == {s \in pulse.sinks : Remote(s) /\ s[1] <= audioPid}

ListModules(reply) ==
  /\ sound.pc = "list" /\ Pactl(Read, FALSE, reply)
  /\ sound' = [sound EXCEPT !.pc = "orphans", !.todo = IF reply = "ok" THEN Orphans ELSE {}]
  /\ UNCHANGED threads

UnloadOrphan(s, reply) ==
  /\ sound.pc = "orphans" /\ s \in sound.todo /\ Pactl(Unload(s), FALSE, reply)
  /\ sound' = [sound EXCEPT !.todo = @ \ {s}]
  /\ UNCHANGED threads

(* usable_previous_sink                                                    *)
PreviousDefault(reply) ==
  /\ sound.pc = "orphans" /\ sound.todo = {} /\ Pactl(Read, FALSE, reply)
  /\ sound' = [sound EXCEPT !.pc = IF reply = "ok" THEN "load" ELSE "failed",
                            !.prev = IF Remote(pulse.default) THEN NoSink ELSE pulse.default]
  /\ UNCHANGED threads

LoadSink(reply) ==
  /\ sound.pc = "load" /\ Pactl(Load(Mine), FALSE, reply)
  /\ sound' = [sound EXCEPT !.pc = IF reply = "ok" THEN "setDefault" ELSE "failed",
                            !.guard = (reply = "ok")]
  /\ UNCHANGED threads

(* activate: an error restores what was done so far.                       *)
SetDefault(reply) ==
  /\ sound.pc = "setDefault" /\ Pactl(Set(Mine), FALSE, reply)
  /\ Goto(IF reply = "ok" THEN "find" ELSE "rDefault")
  /\ UNCHANGED threads

FindSink(reply) ==
  /\ sound.pc = "find" /\ Pactl(Read, FALSE, reply)
  /\ Goto(IF reply = "ok" /\ Mine \in pulse.sinks THEN "inputs" ELSE "rDefault")
  /\ UNCHANGED threads

ListInputs(reply) ==
  /\ sound.pc = "inputs" /\ Pactl(Read, FALSE, reply)
  /\ sound' = [sound EXCEPT !.pc = IF reply = "ok" THEN "move" ELSE "rDefault",
        !.todo = {<<i, pulse.route[i]>> : i \in {j \in Playing : pulse.route[j] # Mine}}]
  /\ UNCHANGED threads

(* Mutant: a move is not remembered.                                       *)
RememberNone(r) == sound.moved

Remember(r) == sound.moved \cup {r}

MoveInput(r, reply) ==
  /\ sound.pc = "move" /\ r \in sound.todo /\ Pactl(Move(r[1], Mine), FALSE, reply)
  /\ sound' = IF reply = "ok"
              THEN [sound EXCEPT !.todo = @ \ {r}, !.moved = Remember(r)]
              ELSE [sound EXCEPT !.pc = "rDefault"]
  /\ UNCHANGED threads

-----------------------------------------------------------------------------
(* start_capture: then the capture thread, which reports its start.        *)

StartFailed == IF sound.guard THEN "rDefault" ELSE "failed"

SpawnCapture(spawned) ==
  /\ sound.pc = "spawn" \/ (sound.pc = "move" /\ sound.todo = {})
  /\ ~spawned => upsets < MaxUpsets
  /\ upsets' = IF spawned THEN upsets ELSE upsets + 1
  /\ threads' = IF spawned THEN [threads EXCEPT ![sound.n].st = "starting"] ELSE threads
  /\ Goto(IF spawned THEN "startup" ELSE StartFailed)
  /\ UNCHANGED <<pulse, audioMode, audioPid, blamed, clean, want>>

(* Mutant: a thread that is late to start is left running.                 *)
LateThreadRuns == threads

LateThreadStopped == [threads EXCEPT ![sound.n].stop = TRUE]

(* recv_timeout: started, failed (the thread is joined), gone, or late.    *)
AwaitStartup ==
  /\ sound.pc = "startup"
  /\ LET t == threads[sound.n] IN
     \/ /\ t.reported = "ok"
        /\ sound' = [sound EXCEPT !.pc = "on", !.handle = TRUE] /\ UNCHANGED threads
     \/ /\ t.reported # "ok" /\ t.st = "exited"
        /\ Goto(StartFailed) /\ UNCHANGED threads
     \/ /\ t.reported = "none" /\ t.st = "starting"
        /\ sound' = [sound EXCEPT !.pc = StartFailed, !.handle = TRUE]
        /\ threads' = LateThreadStopped
  /\ UNCHANGED <<pulse, audioMode, audioPid, upsets, blamed, clean, want>>

ThreadOnly == <<pulse, audioMode, sound, audioPid, upsets, blamed, clean, want>>

(* run_capture: connected, refused, or it ends without a word.             *)
ThreadStarts(n) ==
  /\ threads[n].st = "starting"
  /\ \E t \in {[threads[n] EXCEPT !.st = "capturing", !.reported = "ok"],
               [threads[n] EXCEPT !.st = "exited", !.reported = "err"],
               [threads[n] EXCEPT !.st = "exited"]} : threads' = [threads EXCEPT ![n] = t]
  /\ UNCHANGED ThreadOnly

(* A stream error raises the stop flag; the loop ends on it.               *)
ThreadErrs(n) ==
  /\ threads[n].st = "capturing" /\ threads' = [threads EXCEPT ![n].stop = TRUE]
  /\ UNCHANGED ThreadOnly

ThreadExits(n) ==
  /\ threads[n].st = "capturing" /\ threads[n].stop
  /\ threads' = [threads EXCEPT ![n].st = "exited"]
  /\ UNCHANGED ThreadOnly

-----------------------------------------------------------------------------
(* stop, and Drop.                                                         *)

AudioStop ==
  /\ sound.pc \in {"on", "failed"}
  /\ sound' = [sound EXCEPT !.pc = "join", !.ending = TRUE]
  /\ threads' = IF sound.handle THEN [threads EXCEPT ![sound.n].stop = TRUE] ELSE threads
  /\ UNCHANGED <<pulse, audioMode, audioPid, upsets, blamed, clean, want>>

(* Mutant: the join is not bounded.                                        *)
JoinOnly == threads[sound.n].st \in {"none", "exited"}

(* join_within                                                             *)
JoinEnds == TRUE

AudioJoin ==
  /\ sound.pc = "join" /\ JoinEnds
  /\ sound' = IF sound.guard THEN [sound EXCEPT !.pc = "rDefault"] ELSE AudioIdle(sound.n)
  /\ UNCHANGED <<pulse, audioMode, threads, audioPid, upsets, blamed, clean,
                 want>>

(* RedirectRouteGuard::restore, after a failed start or at the end.        *)
BudgetSpent ==
  /\ sound.pc \in {"rDefault", "rSet", "rFind", "rInputs", "rMove"}
  /\ ~sound.spent /\ upsets < MaxUpsets
  /\ upsets' = upsets + 1 /\ sound' = [sound EXCEPT !.spent = TRUE]
  /\ clean' = FALSE
  /\ UNCHANGED <<pulse, audioMode, threads, audioPid, blamed, want>>

CurrentDefault(reply) ==
  /\ sound.pc = "rDefault" /\ Pactl(Read, TRUE, reply)
  /\ sound' = [sound EXCEPT !.pc = "rSet", !.cur = IF reply = "ok" THEN pulse.default ELSE NoSink]
  /\ UNCHANGED threads

(* Mutant: nothing is put back before the sink goes.                       *)
RestoreNever == FALSE

ShouldRestoreDefault == sound.prev # NoSink /\ sound.cur \in {NoSink, Mine}

RestoreDefault(reply) ==
  /\ sound.pc = "rSet" /\ Goto("rFind")
  /\ IF ShouldRestoreDefault THEN Pactl(Set(sound.prev), TRUE, reply)
     ELSE reply = "ok" /\ UNCHANGED <<pulse, audioMode, audioPid, upsets,
                                      blamed, clean, want>>
  /\ UNCHANGED threads

Fallback == IF sound.cur \in {NoSink, Mine} THEN sound.prev ELSE sound.cur

RestoreFind(reply) ==
  /\ sound.pc = "rFind" /\ Pactl(Read, TRUE, reply)
  /\ Goto(IF reply = "ok" /\ Mine \in pulse.sinks THEN "rInputs" ELSE "unload")
  /\ UNCHANGED threads

RestoreInputs(reply) ==
  /\ sound.pc = "rInputs" /\ Pactl(Read, TRUE, reply)
  /\ sound' = [sound EXCEPT !.pc = IF reply = "ok" THEN "rMove" ELSE "unload",
                            !.todo = {<<i, FALSE>> : i \in {j \in Playing : pulse.route[j] = Mine}}]
  /\ UNCHANGED threads

Origins(i) == {r[2] : r \in {m \in sound.moved : m[1] = i}}

(* The original sink of an input, else the fallback; a failed move back to *)
(* the original is tried once more with the fallback (r[2]).               *)
RestoreMove(r, reply) ==
  /\ sound.pc = "rMove" /\ r \in sound.todo
  /\ LET i == r[1]
         targets == IF Origins(i) # {} /\ ~r[2] THEN Origins(i) ELSE {Fallback} \ {NoSink}
     IN  IF targets = {}
         THEN /\ reply = "ok" /\ sound' = [sound EXCEPT !.todo = @ \ {r}]
              /\ UNCHANGED <<pulse, audioMode, audioPid, upsets, blamed, clean,
                             want>>
         ELSE \E s \in targets :
              /\ Pactl(Move(i, s), TRUE, reply)
              /\ sound' = IF reply = "ok" THEN [sound EXCEPT !.todo = @ \ {r}]
                          ELSE IF ~r[2] /\ Origins(i) # {} /\ Fallback \notin {NoSink, s}
                          THEN [sound EXCEPT !.todo = {<<i, TRUE>>} \cup (@ \ {r})]
                          ELSE [sound EXCEPT !.pc = "unload"]
  /\ UNCHANGED threads

(* Mutant: the budget of the restore covers the unload as well.            *)
UnloadBudgeted == sound.spent

UnloadSkipped == FALSE

UnloadSink(reply) ==
  /\ sound.pc = "unload" \/ (sound.pc = "rMove" /\ sound.todo = {})
  /\ IF UnloadSkipped
     THEN reply = "ok" /\ UNCHANGED <<pulse, audioMode, audioPid, upsets,
                                      blamed, clean, want>>
     ELSE Pactl(Unload(Mine), FALSE, reply)
  /\ sound' = IF sound.ending THEN AudioIdle(sound.n)
              ELSE [sound EXCEPT !.pc = "failed", !.guard = FALSE, !.todo = {}]
  /\ UNCHANGED threads

-----------------------------------------------------------------------------
(* The user, the applications, and the end of a process.                   *)

QuietPcs == {"idle", "startup", "on", "join", "failed"}

UserActs(p, w, quiet) ==
  /\ audioMode = "Redirect" /\ upsets < MaxUpsets /\ upsets' = upsets + 1
  /\ pulse' = p /\ want' = w /\ clean' = (clean /\ quiet)
  /\ UNCHANGED <<audioMode, sound, threads, audioPid, blamed>>

(* A stream that is off the remote sink keeps its sink when the default    *)
(* changes.                                                                *)
Settled(i) == IF want.route[i] = Follow /\ pulse.route[i] # Mine THEN pulse.route[i]
              ELSE want.route[i]

UserSetsDefault(d) ==
  /\ d # pulse.default
  /\ UserActs([pulse EXCEPT !.default = d],
              [default |-> d, route |-> [i \in Inputs |-> Settled(i)]], sound.pc \in QuietPcs)

UserMoves(i, d) ==
  /\ i \in Playing /\ d # pulse.route[i]
  /\ UserActs([pulse EXCEPT !.route[i] = d], [want EXCEPT !.route[i] = d], sound.pc \in QuietPcs)

PlayStarts(i) ==
  /\ pulse.route[i] = Silent
  /\ UserActs([pulse EXCEPT !.route[i] = pulse.default],
              [want EXCEPT !.route[i] = IF pulse.default = Mine THEN Follow ELSE pulse.default],
              TRUE)

PlayEnds(i) ==
  /\ i \in Playing
  /\ UserActs([pulse EXCEPT !.route[i] = Gone], [want EXCEPT !.route[i] = Gone], TRUE)

(* The process is killed: its sinks stay, its threads do not.              *)
AudioCrash ==
  /\ audioPid < MaxAudioPid /\ audioPid' = audioPid + 1
  /\ upsets < MaxUpsets /\ upsets' = upsets + 1
  /\ sound' = AudioIdle(sound.n)
  /\ threads' = [n \in 1..MaxSounds |->
                   IF n <= sound.n THEN [threads[n] EXCEPT !.st = "exited"] ELSE NoThread]
  /\ clean' = FALSE /\ blamed' = blamed \cup Orphans
  /\ UNCHANGED <<pulse, audioMode, want>>

Answers == {"ok", "lost", "late"}

RouteNext ==
  \/ \E reply \in Answers :
       \/ ListModules(reply) \/ PreviousDefault(reply) \/ LoadSink(reply) \/ SetDefault(reply)
       \/ FindSink(reply) \/ ListInputs(reply)
       \/ \E s \in sound.todo : UnloadOrphan(s, reply)
       \/ \E r \in sound.todo : MoveInput(r, reply)

RestoreNext ==
  \E reply \in Answers :
    \/ CurrentDefault(reply) \/ RestoreDefault(reply) \/ RestoreFind(reply)
    \/ RestoreInputs(reply) \/ UnloadSink(reply)
    \/ \E r \in sound.todo : RestoreMove(r, reply)

StartNext == (\E spawned \in BOOLEAN : SpawnCapture(spawned)) \/ AwaitStartup

AudioThreads == \E n \in 1..MaxSounds : ThreadStarts(n) \/ ThreadErrs(n) \/ ThreadExits(n)

Users ==
  \/ \E d \in Hardware : UserSetsDefault(d) \/ \E i \in Inputs : UserMoves(i, d)
  \/ \E i \in Inputs : PlayStarts(i) \/ PlayEnds(i)

(* Steps the handler takes by itself once it was called.                   *)
AudioHandler == RouteNext \/ StartNext \/ AudioJoin \/ RestoreNext

AudioWorld == AudioThreads \/ Users \/ BudgetSpent

-----------------------------------------------------------------------------
(* After a session nobody disturbed, the default sink and every stream are *)
(* where the session found them or the user put them meanwhile: the        *)
(* default is set back, streams that were moved go back to their own sink, *)
(* streams that began on the remote sink to the default                    *)
(* (RedirectRouteGuard::restore).  What the sound server decides is not    *)
(* what the user wanted; only two things are given up: a default that is a *)
(* remote sink of some process is not restored (usable_previous_sink), and *)
(* a stream on an orphaned sink cannot go back to it.                      *)
GivenBack(i) ==
  \/ pulse.route[i] = want.route[i]
  \/ want.route[i] = Follow /\ pulse.route[i] = pulse.default
  \/ Remote(want.route[i]) /\ want.route[i] \notin pulse.sinks

RoutesRestored ==
  sound.pc = "idle" /\ clean =>
    /\ Remote(want.default) \/ pulse.default = want.default
    /\ \A i \in Inputs : GivenBack(i)

(* A remote sink without a handler is left only by a load or unload that   *)
(* was itself reported failed, or by a process that died: a spent restore  *)
(* budget or a failed start leaves none (routing.rs:291).                  *)
NoSinkLeaks ==
  sound.pc \in {"idle", "failed"} => \A s \in pulse.sinks : s[1] \in 1..audioPid => s \in blamed

(* The sinks of another running hypr-rdp are left alone.                   *)
OthersKept == OtherSinks \subseteq pulse.sinks

(* Outside a session no capture thread goes on: one that could not be      *)
(* joined in time, or was late to start, has been told to stop.            *)
ThreadsToldToStop ==
  \A n \in 1..MaxSounds :
    threads[n].st \in {"starting", "capturing"} /\ (n # sound.n \/ sound.pc \in {"idle", "failed"})
      => threads[n].stop

(* Teardown ends whatever the sound server and the capture thread do: the  *)
(* next connection is accepted after it (backend.rs:19).                   *)
TeardownEnds == sound.pc = "join" ~> sound.pc = "idle"

(* After a session nobody disturbed, what the user chose is back (but for  *)
(* the two exceptions above); after any session, a failed one or a killed  *)
(* server, no sink of ours is left and none of another server was taken,   *)
(* and no thread records without being told to stop.                       *)
AudioSound ==
  /\ RoutesRestored
  /\ NoSinkLeaks
  /\ OthersKept
  /\ ThreadsToldToStop
===============================================================================
