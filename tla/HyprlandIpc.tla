------------------------------ MODULE HyprlandIpc ------------------------------
(***************************************************************************)
(* The Hyprland sockets (src/src/hyprland.rs) and the creation of a        *)
(* headless output over them (src/src/capture/wayland/output.rs).  The     *)
(* caller sends one command per connection and waits up to three seconds   *)
(* for its answer; the event stream is a second socket.  Hyprland is       *)
(* external: one thread that takes the sockets that are ready and serves   *)
(* them in any order, one connection of each, before it looks again.       *)
(* Texts are sequences of characters; a line of the event stream is        *)
(* <<event, "sep", data, "nl">>, or without a separator <<text, "nl">>.    *)
(***************************************************************************)
EXTENDS Integers, Sequences, FiniteSets, SequencesExt

CONSTANT OtherLines    \* lines the compositor may send about other things

ASSUME IpcAssumption == \A line \in OtherLines : line \in Seq(Range(line))

VARIABLES
  caller,       \* where create_headless_output is
  answer,       \* of the caller's command: "none", "awaited", "ok", "" or "error"
  connections,  \* connections to the command socket: [command, awaited]
  subscription, \* of the event socket: "none", "pending" or "accepted"
  ready,        \* sockets the compositor has still to serve in this iteration
  exists,       \* the output
  others,       \* lines of OtherLines not sent yet
  sent, wire,   \* lines written to the event socket; characters on their way
  buf, taken,   \* EventStream.buf; lines drained from it
  guard,        \* the HeadlessOutputGuard was made
  unanswered    \* a command timed out, or the event stream failed

ipcVars == <<caller, answer, connections, subscription, ready, exists, others, sent, wire,
             buf, taken, guard, unanswered>>
streamVars == <<wire, buf, taken>>
compositorVars == <<subscription, ready, exists, others, sent>>

IpcInit ==
  /\ caller = "connect" /\ answer = "none" /\ connections = <<>> /\ subscription = "none"
  /\ ready = {} /\ exists = FALSE /\ others = OtherLines
  /\ sent = <<>> /\ wire = <<>> /\ buf = <<>> /\ taken = <<>>
  /\ guard = FALSE /\ unanswered = FALSE

OwnLine == <<"monitoradded", "sep", "hypr-rdp", "nl">>

-----------------------------------------------------------------------------
(* Commands.                                                               *)

(* send_command, up to the read of the answer.                             *)
Send(command) ==
  /\ answer = "none"
  /\ connections' = Append(connections, [command |-> command, awaited |-> TRUE])
  /\ answer' = "awaited"
  /\ UNCHANGED <<caller, streamVars, compositorVars, guard, unanswered>>

(* A failure: the guard, if there is one, removes the output.              *)
Failing == IF guard /\ caller # "drop" THEN "drop" ELSE "failed"

(* EventStream::connect *)
Connect ==
  /\ caller = "connect"
  /\ subscription' = "pending" /\ caller' = "register"
  /\ UNCHANGED <<answer, connections, ready, exists, others, sent, streamVars, guard, unanswered>>

(* Mutant: the stream is connected, which is taken for registered.         *)
SkipRegistration ==
  /\ caller = "register" /\ caller' = "create"
  /\ UNCHANGED <<answer, connections, streamVars, compositorVars, guard, unanswered>>
EnsureRegistered == caller = "register" /\ Send("monitors")
CreateHeadless == caller = "create" /\ Send("create")
KeywordMonitor == caller = "rule" /\ Send("eval")
LegacyMonitor == caller = "legacy" /\ Send("keyword")
DropGuard == caller = "drop" /\ Send("remove")

(* send_action: an empty answer is a consent, though not to a rule.        *)
SendActionAccepts(response) == response \in {"ok", ""}

(* What the answer means to the caller.                                    *)
AfterAnswer ==
  CASE caller = "register" -> IF answer = "ok" THEN "create" ELSE Failing
    [] caller = "create" -> IF SendActionAccepts(answer) THEN "wait" ELSE Failing
    [] caller = "rule" -> IF answer = "ok" THEN "done" ELSE "legacy"
    [] caller = "legacy" -> IF answer = "ok" THEN "done" ELSE Failing
    [] OTHER -> "failed"
Answered ==
  /\ answer \in {"ok", "", "error"}
  /\ caller' = AfterAnswer /\ answer' = "none"
  /\ UNCHANGED <<connections, streamVars, compositorVars, guard, unanswered>>

(* Mutant: a rule without an answer is sent again in the other syntax.     *)
RetryRule == IF caller = "rule" THEN "legacy" ELSE Failing
(* "Do not retry transport failures" (hyprland.rs:237).                    *)
AfterTimeout == Failing
CommandTimeout ==
  /\ answer = "awaited"
  /\ caller' = AfterTimeout /\ answer' = "none" /\ unanswered' = TRUE
  /\ connections' = [i \in DOMAIN connections |-> [connections[i] EXCEPT !.awaited = FALSE]]
  /\ UNCHANGED <<streamVars, compositorVars, guard>>

-----------------------------------------------------------------------------
(* The event stream.                                                       *)

HasLine(text) == "nl" \in Range(text)
LineEnd(text) == SelectInSeq(text, LAMBDA c : c = "nl")
FirstLine(text) == SubSeq(text, 1, LineEnd(text))
(* Mutant: the lines behind the first are dropped with it.                 *)
NothingAfter(text) == <<>>
AfterLine(text) == SubSeq(text, LineEnd(text) + 1, Len(text))

IsEvent(line) == Len(line) > 1 /\ line[2] = "sep"
IsAddition(line) == IsEvent(line) /\ line[1] = "monitoradded"

(* Mutant: the output is guarded once its mode is set.                     *)
GuardLater(line) == FALSE
GuardNew(line) == line = OwnLine

(* wait_for, at the top of its loop: the timeout comes before the buffer.  *)
WaitFor ==
  /\ caller = "wait"
  /\ \/ caller' = "scan" /\ UNCHANGED unanswered
     \/ caller' = Failing /\ unanswered' = TRUE
  /\ UNCHANGED <<answer, connections, streamVars, compositorVars, guard>>

(* ... a buffered line; another monitor's addition starts a new wait.      *)
TakeLine ==
  /\ caller = "scan" /\ HasLine(buf)
  /\ buf' = AfterLine(buf) /\ taken' = Append(taken, FirstLine(buf))
  /\ caller' = IF FirstLine(buf) = OwnLine THEN "rule"
               ELSE IF IsAddition(FirstLine(buf)) THEN "wait" ELSE "scan"
  /\ guard' = (guard \/ GuardNew(FirstLine(buf)))
  /\ UNCHANGED <<answer, connections, wire, compositorVars, unanswered>>

(* ... and a read, which ends anywhere, times out or finds the end.        *)
ReadEvents ==
  /\ caller = "scan" /\ ~HasLine(buf)
  /\ \/ \E n \in 0..Len(wire) :
          /\ buf' = buf \o SubSeq(wire, 1, n) /\ wire' = SubSeq(wire, n + 1, Len(wire))
          /\ caller' = "wait" /\ UNCHANGED unanswered
     \/ caller' = Failing /\ unanswered' = TRUE /\ UNCHANGED <<wire, buf>>
  /\ UNCHANGED <<answer, connections, compositorVars, taken, guard>>

-----------------------------------------------------------------------------
(* The compositor.                                                         *)

EmitLine(line) ==
  /\ sent' = IF subscription = "accepted" THEN Append(sent, line) ELSE sent
  /\ wire' = IF subscription = "accepted" THEN wire \o line ELSE wire

Iterate ==
  /\ ready = {}
  /\ ready' = {s \in {"commands", "events"} :
                 IF s = "commands" THEN connections # <<>> ELSE subscription = "pending"}
  /\ ready' # {}
  /\ UNCHANGED <<caller, answer, connections, subscription, exists, others, sent, streamVars, guard, unanswered>>

AcceptSubscription ==
  /\ "events" \in ready
  /\ subscription' = "accepted" /\ ready' = ready \ {"events"}
  /\ UNCHANGED <<caller, answer, connections, exists, others, sent, streamVars, guard, unanswered>>

ServeCommand ==
  /\ "commands" \in ready
  /\ ready' = ready \ {"commands"} /\ connections' = Tail(connections)
  /\ \E result \in {"ok", "", "error"}, done \in BOOLEAN :
       /\ Head(connections).command = "remove" /\ exists => done
       /\ (result = "ok") => done
       /\ (result = "error") => ~done
       /\ answer' = IF Head(connections).awaited THEN result ELSE answer
       /\ IF Head(connections).command = "create" /\ done
          THEN exists' = TRUE /\ EmitLine(OwnLine)
          ELSE /\ exists' = (exists /\ ~(Head(connections).command = "remove" /\ done))
               /\ UNCHANGED <<sent, wire>>
  /\ UNCHANGED <<caller, subscription, others, buf, taken, guard, unanswered>>

SendOther ==
  /\ subscription = "accepted" /\ caller \notin {"done", "failed"}
  /\ \E line \in others : others' = others \ {line} /\ EmitLine(line)
  /\ UNCHANGED <<caller, answer, connections, subscription, ready, exists, buf, taken, guard, unanswered>>

IpcNext ==
  \/ Connect \/ EnsureRegistered \/ CreateHeadless \/ KeywordMonitor \/ LegacyMonitor \/ DropGuard
  \/ Answered \/ CommandTimeout
  \/ WaitFor \/ TakeLine \/ ReadEvents
  \/ Iterate \/ AcceptSubscription \/ ServeCommand \/ SendOther

IpcSpec == IpcInit /\ [][IpcNext]_ipcVars

-----------------------------------------------------------------------------
(* "The ensure_registered() roundtrip guarantees Hyprland has accept()'ed  *)
(* our socket2 connection before we trigger the creation" (output.rs:64):  *)
(* whatever order the compositor serves its sockets in, the creation is    *)
(* announced on the stream, so no output exists that nobody hears of.      *)
CreationHeard == exists => OwnLine \in Range(sent)

(* Framing loses and invents nothing, wherever a read cuts the stream:     *)
(* what was drained, what is buffered and what is on its way are the lines *)
(* the compositor wrote, in its order.                                     *)
EventsInOrder == FlattenSeq(taken) \o buf \o wire = FlattenSeq(sent)

(* "Do not retry transport failures: the first command's outcome is        *)
(* unknown" (hyprland.rs:237): the compositor never holds two monitor      *)
(* rules of one call, of which the older would be applied last.            *)
RuleNotRepeated ==
  Cardinality({i \in DOMAIN connections : connections[i].command \in {"eval", "keyword"}}) <= 1

(* "The guard is created immediately after the output appears so that any  *)
(* subsequent failure cleans up automatically" (output.rs:56): a creation  *)
(* that failed leaves an output behind only if the compositor's answer or  *)
(* its event did not come in time.                                         *)
OutputCleaned ==
  caller = "failed" /\ connections = <<>> /\ exists => unanswered /\ ~guard

-----------------------------------------------------------------------------
(* The instance to talk to.  An entry of the runtime directory is          *)
(* [signature, named, dir, pid, display, extra]: a signature with a number *)
(* between its separators, and the lines of its lock.                      *)

ParseInstanceLock(entry) ==
  entry.named /\ entry.pid > 0 /\ entry.display # "" /\ ~entry.extra
InstanceCandidates(directory) == {e \in directory : e.dir /\ ParseInstanceLock(e)}

Chosen(signature) == [ok |-> TRUE, signature |-> signature]
NoInstance == [ok |-> FALSE, signature |-> ""]

(* Mutant: any of the instances on this display will do.                   *)
AnyOf(matches) == IF matches = {} THEN NoInstance ELSE Chosen((CHOOSE e \in matches : TRUE).signature)
(* select_instance, from the live candidates on this display.              *)
OnlyOf(matches) ==
  IF Cardinality(matches) = 1 THEN Chosen((CHOOSE e \in matches : TRUE).signature) ELSE NoInstance

(* resolve_instance; an empty variable is an unset one.                    *)
ResolveInstance(explicit, display, directory, live) ==
  IF explicit # "" THEN Chosen(explicit)
  ELSE IF display = "" THEN NoInstance
  ELSE OnlyOf({e \in InstanceCandidates(directory) : e.display = display /\ e.pid \in live})

-----------------------------------------------------------------------------
(* A monitor rule as Lua.                                                  *)

Text(value) == [ok |-> TRUE, text |-> value]
NoText == [ok |-> FALSE, text |-> <<>>]

(* Mutant: quotes are escaped, the escape character is not.                *)
EscapeQuotes(c) ==
  CASE c = "quote" -> <<"bs", "quote">> [] c = "nl" -> <<"bs", "n">> [] c = "cr" -> <<"bs", "r">>
    [] OTHER -> <<c>>
Escape(c) ==
  CASE c = "bs" -> <<"bs", "bs">> [] c = "quote" -> <<"bs", "quote">>
    [] c = "nl" -> <<"bs", "n">> [] c = "cr" -> <<"bs", "r">> [] c = "tab" -> <<"bs", "t">>
    [] OTHER -> <<c>>
LuaString(value) ==
  IF "control" \in Range(value) THEN NoText
  ELSE Text(<<"quote">> \o FlattenSeq([i \in DOMAIN value |-> Escape(value[i])]) \o <<"quote">>)

(* monitor_scale_to_lua: a finite number is a Lua number.                  *)
IsNumber(scale) == scale # <<>> /\ Range(scale) \subseteq {"digit"}
ScaleToLua(scale) ==
  IF scale = <<>> THEN NoText ELSE IF IsNumber(scale) THEN Text(scale) ELSE LuaString(scale)

(* str::trim, of the blanks of Rust.                                       *)
Blanks == {"space", "nl", "cr", "tab"}
Trim(text) ==
  LET kept == {i \in DOMAIN text : text[i] \notin Blanks}
  IN IF kept = {} THEN <<>> ELSE SubSeq(text, Min(kept), Max(kept))

(* Mutant: the fields keep the blanks around them.                         *)
SplitOnly(rule) ==
  LET rest == [i \in 1..(Len(rule) - 4) |-> <<"comma">> \o rule[4 + i]]
  IN [i \in 1..4 |-> IF i = 4 THEN rule[4] \o FlattenSeq(rest) ELSE rule[i]]
(* splitn(4) and trim, of the texts between the commas: the last field     *)
(* takes what is left.                                                     *)
RuleFields(rule) ==
  LET rest == [i \in 1..(Len(rule) - 4) |-> <<"comma">> \o rule[4 + i]]
  IN [i \in 1..4 |-> Trim(IF i = 4 THEN rule[4] \o FlattenSeq(rest) ELSE rule[i])]

(* monitor_rule_to_lua                                                     *)
LuaFields(rule) ==
  LET field == RuleFields(rule)
  IN [i \in 1..4 |-> IF i = 4 THEN ScaleToLua(field[4]) ELSE LuaString(field[i])]
MonitorRuleToLua(rule) ==
  IF Len(rule) < 4 THEN <<>>
  ELSE IF \A i \in 1..4 : LuaFields(rule)[i].ok THEN [i \in 1..4 |-> LuaFields(rule)[i].text] ELSE <<>>

(* An output is created once, heard of and cleaned up after a failure, in  *)
(* whichever order the compositor serves its sockets and however late it   *)
(* answers.                                                                *)
CreationSound ==
  /\ CreationHeard
  /\ EventsInOrder
  /\ RuleNotRepeated
  /\ OutputCleaned
===============================================================================
