# Verification of hypr-rdp

hypr-rdp is an RDP server for Hyprland: it captures one output of the
compositor, encodes it for the graphics channel (EGFX) of an RDP client, feeds
the client's keyboard and pointer to virtual Wayland devices, and joins the two
clipboards. This directory holds TLA+ models of its parts, first of those in which several
threads, callbacks and futures work on shared state, the TLC runs that check
them on small instances, and TLAPS proofs of the invariants that matter most.

Paths below are relative to the crate's `src/` directory
(`src/src/` in `PROJECT.json`). `PROJECT.json` lists components, runs, mutants,
the lines every definition models, findings, hazards and theorems.

## 1. Inventory

### Parts that carry the logic

**Display** (`capture/mod.rs`, `input/layout.rs`). *State*: `HyprDisplayInner`
behind an async mutex (presentation size, `output_size_unconfirmed`,
`closed`, `pending_initial_resize`, capture handle and stop flag, the guard of the
managed headless output), a resize gate (an async mutex whose owned permit can be
moved into a blocking job), the session epoch, the shared output layout of the
input mapping, the surface size of the graphics channel. *Operations*: session
start and end, `request_initial_size`, `request_layout`, `restore_after_session`,
`updates`, capture refresh and restart, `shutdown`. *Interactions*: calls from the
RDP server's connection future, jobs on the blocking pool, IPC to Hyprland,
capture threads, `main`. *Hard*: under the Preempt policy a connection future is
dropped at any await while its blocking job runs on; a restore runs after the
session is over and may meet the next one; IPC fails half way. *Correct when*: resizes
do not overlap, a size that counts as confirmed is the compositor's, a restore
yields to a newer session, the three copies of the presentation agree, one
capture thread runs, the output returns to its startup size, and shutdown ends.

**Size policy** (`capture/mod.rs`). Stateless arithmetic: clamp a request to
the encoder limits, fit it to the captured source, keep dimensions even. *Hard*:
two roundings of a floating-point factor. *Correct when* the encoder accepts the
result and negotiation converges.

**EGFX flow control** (`egfx/shared.rs`, `rdpegfx.rs`, `factory.rs`,
`output_queue.rs`). *State*: atomics for frames in flight, the suspended flag,
the last queued id, the acknowledgement cutoff, totals; leases of the output queue.
*Operations*: reserve, number, send and count a frame; acknowledge; clear on
renegotiation, close and resize; reset for a new client. *Interactions*: the
capture thread, callbacks of the graphics server on the RDP task, the display's
resize. *Hard*: no lock covers the atomics; acknowledgements of frames from before
a reset arrive after it. *Correct when* the window bounds what is really
unacknowledged, no slot leaks, a full window reopens and queued payloads are bounded.

**Input actor and layout listener** (`input/actor.rs`, `keyboard.rs`,
`wayland.rs`, `rdp.rs`). *State*: depressed keys, owners of a borrowed Shift, a
replica of the XKB state of the virtual keyboard; the compositor's own state of
that device; the listener's event stream. *Operations*: scancodes, unicode keys,
synchronize, pointer buttons, session end, seeding and following of layouts.
*Hard*: one evdev Shift shared by the client and by unicode input; the actor's own
announcements come back as events. *Correct when* no key sticks, the mask is that
of the held keys, nothing outlives a session, device and replica converge, and the
layout of the user's keyboard is followed.

**Clipboard** (`clipboard/backend.rs`, `wayland.rs`, `inbound/`). *State*: one
request for the client's selection, the pending write, the echo candidate, file
selections by generation (current and retiring, with locks), outstanding reads,
the mount service's mailbox. *Operations*: format lists, answers, file lists,
lock releases, desktop selections, mounts, reads, timeouts, close. *Interactions*:
RDP task, watcher thread, mount service, filesystem readers, each shared piece
behind a mutex of its own. *Hard*: answers carry no request id; retirement and the
drop of the unpublished write are two critical sections; a mount blocks while its
selection is superseded. *Correct when* answers meet their requests, the last copy is what is
written, bytes belong to the file that was opened, reads and mounts end.

**Capture pipeline** (`capture/frame.rs`, `damage.rs`, `capture/wayland/`). *State*:
two buffers and the requests for them, a deferred frame, pending damage, an
encoder with its reference chain, the pacer, the client's surface. *Operations*: the ext
and wlr loops, the zero-copy loop, `process_at`, encoder creation and fall back,
readiness, resize and close of the channel. *Hard*: the compositor writes into the other
buffer while one is processed; the channel is renegotiated between two looks at it; a
quiet screen completes no further capture. *Correct when* what the client lacks is
pending, no delta frame refers to a picture it lacks, the picture never goes back in time,
and a quiet screen is shown in the end.

**Codecs** (`egfx/avc444.rs`, `vaapi.rs`, `h264.rs`, `clearcodec.rs`). *State*: references of
both AVC444 pictures, the picture buffer and counters of VA-API, cached parameter sets.
*Correct when* encoder and client agree on what was sent after failures and lost frames, and
regions, headers and sizes survive their conversions.

**Server** (`main.rs`, `server/`). *State*: phase of the process, TLS files shared with
other processes, the PAM slot and helper processes, the queue of session commands. *Operations*:
setup, validation, session start and end, shutdown. *Hard*: connections are dropped in the
middle of a validation, commands overrun, a signal comes at any time. *Correct when* one
identity is used, only the desktop's own user enters, no helper outlives its attempt,
commands run in order and balanced, and a signal ends the process.

**Audio** (`audio/`). *State*: default sink, loaded modules, streams and their sinks, capture
threads. *Operations*: start and stop of routing, restore with a budget, collection of orphans.
*Hard*: any `pactl` call fails with either outcome; the user changes the default meanwhile; a
killed server leaves its sink. *Correct when* routes return unless the user moved them, no
sink leaks, no capture thread runs without being told to stop.

**Desktop files and selections** (`clipboard/files.rs`, `wayland.rs`, `backend.rs`). *State*:
announced, confirmed and locked file tables, the selection waiting for its walk, the queue
of reads, the data source owned by the watcher. *Hard*: locks cross announcements, a walk ends
after its selection, a paste crosses the next write. *Correct when* a lock holds the table
the client knew, every read is answered once and from that table, a paste gets its own content.

**Mount points** (`clipboard/inbound/mount.rs`, `tree.rs`, `filesystem.rs`). *State*: directories,
lock files, mounts; trees with inode ranges. *Hard*: several processes sweep and claim, and die.
*Correct when* a served mount is kept, a directory never outlives its claim, a tree shows the list.

**Hyprland IPC** (`hyprland.rs`, `capture/wayland/output.rs`). *State*: two sockets, a read
buffer, the created output. *Hard*: the compositor serves its sockets in any order and answers
late. *Correct when* a creation is heard, events keep their order, a rule is not
sent twice, a failed creation cleans up.

**Input devices, formats, configuration, geometry** (`input/`, `clipboard/formats.rs`,
`config.rs`, `display/geometry.rs`). Functions of their input, with corners: key tables, locks,
wheel remainders, line endings, bitmaps, secrets and warnings, rounding.

## 2. Modules

| Module | Models | Runs |
| --- | --- | --- |
| `Display` | sizes, gate, sessions, captures, shutdown | display_* |
| `PresentationSize` | the size policy as integer arithmetic | standalone, display_* |
| `FrameProcessor`, `ShmCapture`, `DmabufCapture`, `Pipeline` | one capture thread from the compositor to the client, each extending the one before | pipeline* |
| `EgfxFlow` | flow control of the graphics channel | graphics, egfx_ack_overtakes |
| `Avc444`, `VideoEncoder` | the AVC444 and AVC420 encoders with the client's decoder | graphics |
| `Regions`, `Geometry`, `ClearCodec`, `H264` | rectangles, scaling, bands, byte streams, as operators | graphics |
| `TlsIdentity`, `PamValidator`, `SessionHooks`, `Audio`, `Server` | the process; `Server` composes the others | server |
| `InputActor` | input actor, listener, virtual keyboard | input_* |
| `InputDevices` | key tables, locks, wheel, layout, keymap, as operators | standalone |
| `Clipboard` | backend, watcher, inbound files | clipboard |
| `Outbound`, `SelectionSource`, `MountClaims` | desktop files, sources of selections, mount directories | standalone |
| `FileWalk`, `RemoteTree`, `ClipboardFormats` | walks, trees and conversions, as operators | standalone |
| `HyprlandIpc` | the two sockets and the creation of an output | standalone |
| `Config` | how settings come about, as operators | standalone |
| `DisplayProofs`, `InputProofs`, `ClipboardProofs`, `ServerProofs`, `StandaloneProofs` (mounts, selections, IPC), `OutboundProofs`, `PipelineProofs`, `GraphicsProofs` (flow control, AVC420) | theorems (section 5) | |

`MCDisplay` composes `Display` with `PresentationSize`: the operators `Clamp` and
`Fit` that `Display` takes as constants are the policy's, at reduced limits.
`MCDisplayPolicies` runs `Display` under three policies chosen in the initial state.
`MCStandalone` and `MCGraphics` hold parts that share no state: the variable `part`, chosen in
the initial state, says which part a behaviour runs while the others rest, or that it
holds one input of an algorithm; the state then is the input, and an invariant compares the
algorithm's result with a definition of what it should be. So one exhaustive run covers many
algorithms without multiplying their states.

A definition that stands just before one of the same shape with a name such as
`RestoreIgnoresEpoch` or `KeepPending` is a mutant: the definition after it, as a
plausible bug would have it. No specification uses it; it shows that a property can fail.

### Display

One variable per field of `HyprDisplayInner`, plus the compositor's `output`, and
one record per actor: `conn` (the connection future and the await it is at),
`worker` (the blocking job of an initial resize), `layoutQueue` and `layoutJob`
(DisplayControl jobs, which the server spawns and forgets), `restores` (a task per
ended epoch), `captures` and `shut`. `gate` names the owner of the permit;
`InnerLocked` holds in the steps that keep `inner` locked across a blocking call. A
step ends at an await, at a release of the mutex, or at an IPC call, which may fail
with either outcome at the compositor.

`DropPhases` is the connection policy: under Queue (TLS authentication) no future is
dropped inside the display, under Preempt (Hybrid) at any await. Dropping the future in `initAwait` leaves the
worker running with the permit, which is why `Disconnect` frees the gate only in
some phases. Layout jobs and connection methods exclude each other, because both borrow the
display mutably. `sized` is history: the current session has been through the gate.

### PresentationSize

The code multiplies by an `f64` factor and truncates. `under` chooses between the
exact product and one that came out just below an integer, so every property
holds for both roundings. The encoder limits (3840 and 2160) are the constants `MaxLong` and `MaxShort`.

### EgfxFlow

One variable per atomic. `record_frame_queued` is three steps and
`clear_frame_queue` two, since they run against other threads without a lock;
an acknowledgement is one step, since its callbacks are serial. With ClearCodec
the capture thread keeps the server's mutex from readiness to accounting
(`Locked`); with AVC it does not. `events` is the channel to the RDP task,
`unacked` what the client has received. A server numbers frames from 1.

### InputActor

Every command is one step: the channel is FIFO and its senders learn nothing
back. The one loop is explicit: announcements change `device`, every change of the device's
layout name is appended to `stream`, and the listener hands events back to
the actor. The listener connects, then queries the devices to seed the group, then
follows events; a failed socket loses the unread ones. The compositor is external:
a new keymap starts in group 0, and `DeviceReset` is a reset behind the actor's
back. Lock modifiers and scancode tables are in `InputDevices`; group-toggle keys are left to XKB.

### Clipboard

A step holds one mutex. Callbacks of the RDP task that take several are sequences of
steps (`rdp.pc`), as are those of the watcher and the mount service. The client
is external: it answers requests in order, may fail any of them, fetches text when
asked and sends it later (a copy made in between is announced first), serves a locked
read from the locked list and any other from its present clipboard. IronRDP's lock
lifetime is `LocksCleared`, at any time. `Retired`, `ReleaseLocks` and `Shutdown` are the
operations of `transfer.rs` on generations. `SuppressionEnds` encodes what the
code's deadlines assume: the compositor reports our own selection before the echo
suppression ends. Capabilities are negotiated once; images take the path of text.

### FrameProcessor, ShmCapture, DmabufCapture, Pipeline

The screen is a set of tiles with versions; the client's surface has versions too, so
"stale" is a comparison. `process_at` is split where it looks at the shared graphics state
again, and the callbacks of the channel come between. An encoder carries
whether its next output is an IDR and whether it is ahead of the client. The compositor
copies into the buffer of the pending request once something changed and reports
what changed since its last copy; events carry the identity of their frame. `dmabuf_capture.rs`
keeps a session and an encoder of its own and no damage, as in the code. A scenario
fixes the protocol, the codecs, the backend policy and what may go wrong.

### Avc444, VideoEncoder and the algorithms of the graphics path

`Avc444` packs a screen of pixels into samples of two pictures and keeps the two references;
`viewer` is what the client has decoded, updated only in the regions it is told. `VideoEncoder`
keeps reconstruction surfaces, numbers, output order, identifiers and parameter sets, and a
decoder that must be able to follow. `Regions`, `Geometry`, `ClearCodec` and `H264` are operators; the
bit writer and the header parser of a decoder are both written out, in bits.

### Server and its parts

`Server` extends `TlsIdentity`, `PamValidator`, `SessionHooks` and `Audio` and takes their steps
where `server/mod.rs` and `main.rs` do. Time in `SessionHooks` is in ticks and passes only when the
polling thread has nothing to do. Every `pactl` command succeeds, is lost, or is reported failed although it
took effect. `Features` are the parts a behaviour exercises together: TLS starts, PAM
and commands, audio; `starts` is how the sound of the desktop may be routed when it begins.

### Outbound, SelectionSource, MountClaims, HyprlandIpc

A step of `Outbound` holds one lock; the channel to the client is a FIFO in each direction, which is what
makes a lock cross an announcement. In `SelectionSource` requests and events are two FIFO
streams, and a transfer advances in polls of 100 ms against the stall and total deadlines. A step of
`MountClaims` is one system call, and a process may die between any two. In
`HyprlandIpc` the compositor takes the sockets that are ready in any order; a command ends with its
answer, a refusal or a timeout after which the compositor may still act on it.

## 3. Runs

Sizes and times are those of two workers. A property of a run is what one part
promises; where that has several sides it is a conjunction of named parts, each
defined and explained on its own just above it. Every property of a passing run has a
mutant in `PROJECT.json` that violates it under the same configuration; further mutant
definitions in the modules break the other parts of the same property.

**display_resize** (2 sessions, three policies). Under "Any" a connection is dropped at
every await, IPC fails and captures restart: `ResizeExclusive`, `ConfirmedOutput`, `RestoreYields`,
`RemovedOutputUntouched`. The parts of `PoliciesKept` hold in narrower circumstances only, which their formulas name.
Under "QueueNoRestarts" (TLS authentication: no connection is dropped inside the display; no capture restarts by itself) the three copies of the
presentation agree and one capture thread runs. Elsewhere they need not: when a connection is dropped in the middle of the
start of a capture, the thread is left to notice its closed receiver while the next activation
begins, and its refresh may publish an older presentation; and a restart refreshes outside
the gate. Under "PreemptOutsideStart" (a connection is dropped at any await but the start of a capture; no layouts, no restarts, IPC
that succeeds) the output has its startup size once no session and nothing is in progress. A dropped start and a late
layout both break that (section 6, finding 1). A failed restore is logged and not retried, by design.

**display_live** (Preempt, failing IPC, no layouts or capture restarts: 11k states under 20
fairness conditions). `DisplayProgress`: shutdown completes, restores end, a
dead capture ends its session.

**display_late_layout** (violation; finding 1). `RestoredAtRest` with one layout.

**pipeline** (two tiles, two versions, eleven sessions over ext, wlr and DMA-BUF with the codecs
and backends; 718k states, under 4 minutes). `StaleIsPending`: what the client lacks is damage, a
deferred frame or a capture on its way. `EncoderFollows`: references, chain and backend.
`FramesInOrder`: buffers and events are those of their frame, and no tile goes back in time.
`CaptureProgress`: a quiet screen is shown, the stop flag ends the thread.

**pipeline_skipped** (violation; finding 4). `SkippedFrameShown` with a window of one frame.

**graphics** (304k states). `WindowSound`: two frames in flight, 5 frames and clears. For ClearCodec frames of one client
without DisplayControl resizes (`OneClient`) the window bounds what is unacknowledged and leaks no slot, and `BackpressureEnds`: a full window
reopens. Queued payloads are bounded in that scenario and with AVC frames, resizes and two clients. Outside `OneClient` the window
is not exact (finding 2, section 6). `PictureKept` and
`StreamDecodable`: the AVC444 and AVC420 encoders and their decoder. `RegionsExact`: joining,
banding and scaling of damage, and the pointer. `StreamsReadBack`: slice headers,
parameter sets, start codes, stuffing and levels.

**egfx_ack_overtakes** (violation; finding 2). `AckReleasesSlot` on the AVC path.

**input_actor** (a plain key, Shift, 2 code points, one of which needs Shift in one
keymap and not in the other, 2 keymaps, 3 layout names, both policies, with and
without a main keyboard, 2 resets, a switch, a reconnect). `HeldKeysTracked`,
`ModifiersFollowKeys`, `NoKeyOutlivesSession`, `LayoutSettles`.

**input_held_button** (violation; finding 3). `NothingOutlivesSession`.

**clipboard** (six scenarios of at most two client copies, one desktop copy and two
stream ids). `CopiesNotMixed` (answers are counted, text and bytes are of their copy), `PendingServable`, `UnpublishedLive`, `TransfersEnd`.

**server** (347k states: two starting processes, two validations, four session commands; sound in one session
from every initial routing, and in two sessions with a kill from one routing; two
upsets, one crash). `TlsSound`, `PamSound`, `HooksSound`, `AudioSound`, `ServerProgress`
(a signal ends the process, the PAM slot comes back and a sound teardown ends; `PamSound` includes that no helper is left at the exit). In `AudioSound` the history `want` is what a session found or the user
chose since; only the user's steps write it, and what the sound server does when our sink goes is not one of them.

**standalone** (411k states). The parts that share no state with the rest: `OutboundSound` (desktop
files under locks, queues and a client that crosses them), `OutboundProgress` (no selection
is lost to a full queue, silence after the session), `SelectionServed` (pastes and pipes),
`MountsKept` (processes that claim, sweep and die), `CreationSound` (an output over two
sockets); and the algorithms: `FilesSurvive` (walk, list, tree, inodes, range reads, and the round trip of the
walk through the other side's tree), `FormatsSound`, `SizesConverge` (both roundings), `SetupSafe`
(secrets, warnings, directions, sizes, instances, and monitor rules, whose fields lose the blanks around them on their way to Lua), `InputFaithful` (the whole key
tables, locks, wheel, layout, keymap).

### Why the bounds are enough

- *Display*: an interference needs a session and its successor, hence `MaxEpoch = 2`.
  Three different sizes (startup, request, layout) tell every pair of
  writers apart. A capture id is reused after its thread ended, so two ids suffice for an old and a new
  thread; one id is enough where no property is about captures.
- *Sizes*: limits 8 and 4 with inputs up to 15 reach both orientations, both sides of
  each limit and every parity, and ratios beyond what the limits can keep.
- *Pipeline*: two tiles tell damage of a place from damage of a frame; a version and its successor
  tell old from new; two generations of the surface are a resize; two failures in a row
  reach the limit of a streak.
- *Codecs*: a screen of 8x4 pixels in tiles of 2 has every parity and both halves of the packing, and two
  strokes meet in a tile; three frames are a loss, its recovery and a frame after it. `VideoEncoder`
  goes through two IDR intervals and more IDR pictures than identifiers. Damage lists are up to three of 13
  rectangles inside, across and outside the frame, sizes every pair up to 7x5, slice
  numbers all 255, and levels come from the real table.
- *Server*: two starts race for one lock; two validations compete for one slot; four
  commands are two sessions, the second of which waits; two upsets hit both a start and its restore.
- *Outbound*, *SelectionSource*, *MountClaims*: two selections (one locked or announced while the other
  is walked), two reads for a queue of one, deadlines of a few polls, two processes of which each may die.
- *Algorithms*: inputs are every value of small sets that contain each boundary of the code:
  names that collide by case, entries beyond the limit, masks and palettes, a wheel that turns back.
- *EGFX*: a window of 2 is the smallest that is neither empty nor full; 5 frames
  fill it, cross a clear and fill it again.
- *Input*: one key, one Shift and two unicode keys produce every ownership of
  Shift; two resets overtake one repair.
- *Clipboard*: a selection and its successor, a read of each half (size and range), and one
  actor too many for each limit (`MaxPending = 1`). The scenarios together contain every pair of copies;
  splitting them keeps the run exhaustive. Eviction at `MAX_RETIRING` needs three
  file selections and is not reached by TLC; the theorem `ReadsServable` covers it.

`CHECK_DEADLOCK FALSE` stands where the bounded environment may end with nothing left to do:
all frames sent (EGFX), the actor stopped (input), the clients' copies made
(clipboard), the process gone (server), the capture ended (pipeline), an algorithm's input (standalone). `Display` has no such line: its `Terminated` step marks the
only states in which it may rest.

### Fairness

- *Display*: threads and futures that can step do; IPC carries a timeout and hence ends;
  tokio mutexes are FIFO, so a waiter for the gate or for `inner`
  is not overtaken for ever (strong fairness of the acquiring steps). A capture checks its stop flag
  between frames. Clients, signals and capture errors are not fair.
- *EGFX*: capture thread and RDP task run; the client acknowledges what it
  received, infinitely often possible being enough (the callback waits for the server's
  mutex). Nothing makes a client resume or renegotiate.
- *Pipeline*: the capture thread runs, the pacer's window opens with time, the compositor copies
  once something changed, the client acknowledges. Renegotiations and failures are not fair.
- *Server*: the process, the command thread, time and the sound teardown go on, and PAM helpers are
  killed at their deadline; what a helper or a command does by itself is not fair.
- *Outbound*: watcher, worker and RDP task run; the client need not answer.
- *Input*: the listener and the actor run. Client and desktop need do nothing.
- *Clipboard*: RDP task, watcher, mount service and readers run and reads time
  out. The client, the user and IronRDP's lock clock are not fair, so `ReadsEnd`
  rests on the timeout alone.

## 4. Findings

1. `capture/mod.rs:808`. A DisplayControl job that waits for the display when its
   session ends checks `closed` and not the session epoch. It resizes the output
   after the restore ran, and nothing restores it again.
2. `egfx/rdpegfx.rs:525`. On the AVC path the server lock is released and the frame
   handed over before it is counted. An acknowledgement in between releases nothing
   and the frame is counted for good: the window shrinks by one.
3. `input/actor.rs:479`. The end of a session releases tracked keys, and pointer
   buttons are not tracked, so one that was held stays pressed on the virtual pointer.
4. `capture/wayland/ext.rs:307`. A frame that the pacer skipped is kept for a quiet screen, but the
   loop forgets it as soon as `process` returns true, which it also does when the window is full and nothing was sent. On a quiet
   screen the frame is then not tried again, although every frame is acknowledged.

## 5. Proofs

All proofs are for every value of the constants under the named assumptions of the
modules, which TLC evaluates in the runs. Most only type constants or make them positive:
`FlagAssumption`, `BoundAssumption`, `InputAssumption`, `ClipboardAssumption`,
`OutboundAssumption`, `ProcessorAssumption` (which also says that there is a tile), `LoopAssumption`, `SelectionSourceAssumption`, `FlowAssumption`,
`IpcAssumption` (a line is a sequence), `HookAssumption` and `ServerAssumption`; `EncoderAssumption` also says that twice the
`IDR_INTERVAL` fits in the frame numbers, as 60 does in 8 bits, and that there are two IDR identifiers; `SizeAssumption`: the policy returns sizes or none.
`MountClaimsAssumption`, `TlsAssumption` and `PamAssumption` also say that the mark for "nobody" is
nobody. `AudioAssumption` says that there is hardware, that a sink carries the number of its
owner (so that a sink of this program is known by its name, as in `audio/routing.rs`), and that the
desktop starts with every stream on a sink of its own or on none. Each invariant below was first checked by
TLC as an invariant of its run.

**DisplayProofs**: `TypeCorrect`, `ResizesExclude`, `OutputConfirmed`,
`RestoresYield`, `RemovedOutputIsLeftAlone`, `PhysicalNeverResized`. The inductive
invariant `DisplayInv` adds to the types: `GateInv` (the gate is owned by exactly
the actor that is inside, and a restore is scheduled only for an ended session),
`ResizeInv` (a resize in progress has a target, marks the size unconfirmed, and
after the compositor's answer the output has that target), `CarryInv` and
`ClosedInv` (nobody is inside once shutdown is done, and `closed` precedes its gate).
Exclusion follows from `GateInv` alone; `ConfirmedOutput` needs `ResizeInv`, because a commit
clears the mark for a size the actor remembered, not one it reads; `RestoreYields`
needs that `sized` rises only while the gate is free. There is a lemma per conjunct and
in it a step per action.

**InputProofs**: `InputTypeCorrect`, `KeysAreTracked`, `MaskFollowsKeys`,
`SessionsLeaveNoKey`. `InputInv` is the types, that the device's group is one of its keymap
(so an event always has a name), `HeldKeysTracked`, `ModifiersFollowKeys` and that nothing is
tracked between sessions. The lemmas treat announcing, pressing and releasing once.

**ClipboardProofs**: `ReadsServable`, `OnlyLivePublished`. `ClipboardInv` says that
generations only grow and references to them are bounded, that the generation a
request was sent for has no files yet, that what is published has files, and that a
release of locks knows the generation it may end. That last part is why the
drop between the two locks of a release is enough. `RetireStep` and `ReleaseStep`
are the facts about `transfer.rs`, evictions included.

**ServerProofs**: `IdentityKept`, `NobodyElseAdmitted`, `HooksKept`, `SoundGivenBack`, from one invariant of
the composed process, `ServerInv`. Its parts are proved of the steps of their component and then of `Next`,
for which it must be known what the other steps leave alone.

- `TlsInv`: who is past the lock holds it, writes only while there is no certificate, and renames
  the certificate over a key that is already its own. A reader without the lock needs
  the part that whoever saw a certificate saw the last one there will be.
- `PamInv`: the slot is held from before the helper exists until its group is killed, and
  an exit status is the one the helper's checks of that credential lead to. `PamSound` alone does not
  survive a step: a decision would be read off any status.
- `HookInv`: commands launched, running, queued and taken are one alternating sequence that ends
  with the state of the session (`HookBalance`); the ticks spent in stopping are bounded by the age of the
  command that is being waited for (`HookStopping`). Without that age two waits of one deadline each do not add up
  to the two deadlines that `HooksSound` promises.
- `AudioInv`: every remote sink is guarded, left by a failure that is on record, or an earlier process's (`SinksKnown`);
  a thread that records is the current one or was told to stop (`ThreadsKnown`); and for every stage of
  a start and of a restore, where each stream is and where the code remembers it came from (`RoutesKnown`). The
  stage matters: in the middle of a restore some streams are back, others are still on the sink, and the
  default may be either (`DefaultKept`, `Elsewhere`, `PreviousKnown`, `StreamKnown`); the proof that the last of them goes home is the
  conjunction of all these steps, for any number of streams. By then our sink holds nothing, so its unload moves nothing (`UnloadDone`).
- `PhasesKnown` joins them: session commands are closed only once no session, no validation and no sound is left.

**StandaloneProofs** is about three components that share no state. *Mounts*: `MountsAreKept` (a served mount is never swept, a directory never outlives its
claim) and `ClaimsExclude` (no two processes work on one name with its lock held), for any number of processes that die between any
two system calls. `MountInv` adds that names are used once (`NamesUsed`), that between the creation of its
lock file and of its directory a name is known to its process only (`ClaimIsPrivate`: a sweep finds directories), and that
a process inside a mount or a removal holds the claim (`ClaimIsHeld`). A sweep may hold a lock on
a file that was removed since: the invariant must allow that, and then that the name has no lock file.

*Selections*: `SelectionsServed`. `SelectionInv` relates both streams to the sources: the active source is what
the last request sets or what the compositor owns unless a cancellation is on the way, and a destroyed
source is the owner only with its destroy request behind (`ActiveIsOwner`, `DestroyFollows`). So a paste
reaches an active source with the content it was asked of or is refused.

*Hyprland IPC*: `OutputsCreated` (`CreationSound`), for any lines of the event stream, cut anywhere by reads, and any
timeouts. `IpcInv` says which connections the compositor still has: that of the command that waits and those given up before it (`ConnectionsKnown`), that the event
subscription is accepted, or the next thing to be, before the output is asked for (`StreamRegistered`: otherwise its event might be lost), what became of the output (`OutputKnown`),
and that what the reader has and what is in the socket are together the lines sent since (`EventsInOrder`). That order is stated by
flattening a sequence of lines, a recursive function of the library; that flattening a longer sequence appends its last line is proved by
a least counterexample, without an induction rule.

**OutboundProofs**: `DesktopFilesServed` (`OutboundSound`: locks, reads, files and text whatever crosses) and
`SilentOnceDropped`, for any number of copies, reads and locks, any depth of the queue and channels of any length. None of
it is inductive by itself. `OutboundInv` says, of the watcher and the worker (`WalkInv`), that no
generation was given out that is yet to come and that a walk for the present one is of the selection handled last; once the worker is dropped, a
walk is for an earlier one. Of the channels (`ChannelInv`) it says:

- `PendingCounted`: what is pending is exactly the announcements to the client plus the answers from it, and a
  table is confirmed only while nothing is pending. The code counts; that the count is right needs both channels.
- `LastAnnounced`, `LocksCurrent`, `LocksMade`: the last announcement on the way is of the announced table, so a client that
  has taken all of them knows that table, and so does a lock behind the last answer. A Lock that finds a confirmed table
  has no answer in front of it or behind, hence was made on the confirmed table; every other Lock is refused.
- `ReadsResolved`: a read under a lock is of the lock's table or refused, in the channel, in the queue, with the worker and in its answer.
- `ReadsCounted`: outstanding reads are those in the four places; a step moves one from place to place. Counting the elements
  of a queue before and after it grows or loses its head is proved once, with a bijection of positions.

**PipelineProofs**: `DamageIsKept` (`StaleIsPending`), `EncoderStaysInStep` (`EncoderFollows`), `FramesStayInOrder`
(the action property `FramesInOrder`) and `TypesKept`, for any set of tiles, any number of versions and generations, any window and
limits, and every session that `Sessions` allows. None of the three is inductive. `PipelineInv` follows a change of
the screen to the client:

- `ScreenCovered` and `CopyCovered`: the screen differs from the frame last captured only where the compositor will
  still report it; while a completed copy is on the wire or with the loop, only where that copy's damage says so.
  `WireInOrder` is what makes the copy unique: the event that completes a frame is the last on the wire, and the events of a
  frame given up complete nothing. `unreported` is the exception: damage of a frame that stalled, or that wlr did not report.
- `StaleCovered` and `DamageCovered`: what the client shows differs from the frame last captured only where damage is
  pending, at every stage of `process_at` and not only between two frames; and a frame that is being encoded or sent leaves
  out only tiles that need no sending. `StaleIsPending` alone says nothing in the middle of a call, where the channel
  may be renegotiated. `NothingCaptured` is the case before the first frame.
- `FrameHeld` and `JobShape`: the frame under way or deferred is in the buffer the compositor does not hold, and a job
  belongs to the loop that runs. Without them `process_at` might read a frame the compositor is writing.
- `EncoderKept`: an encoder whose next output is a P-frame has not drifted, and if its surface is still the client's, the client's
  decoder is at it (`ChainKept`), for the processor's encoder and for that of the zero-copy session.
- `VersionsGrow`: versions only grow from the client's screen over the buffer of the job and the buffer of the request to the screen.

Lemmas give the fields of what each operator of the processor returns (`ObservedFields`, `SentFields`, `UnsentFields`,
`SessionFields` and so on); a step of `process_at` is proved against `CallKept`, the part of the invariant it can disturb, and
`StepKept` puts the loops, the channel and the compositor together.

**GraphicsProofs** is about the flow control and the AVC420 encoders.

- `PayloadsBounded` (`OutputBounded`): `FlowInv` adds to the types that every output slot is held by exactly one frame
  (`LeasesExact`), over any number of clients, renegotiations and resizes.
- `WindowIsReal` (`WindowEnforced` and `AckReleasesSlot`, two parts of `WindowSound`): for the ClearCodec frames of one client that
  DisplayControl does not resize. What is on its way is an interval of frame numbers (`InLine`), so its size needs no counting. `CutoffKnown`:
  no cutoff reaches beyond its clear; `SlotsReleased`: what is counted is on its way; `AllCounted`: what is on its way is
  counted, and after a clear every acknowledgement still to come is stale or none is left (`StaleKnown`). That needs the totals at each stage
  of `clear_frame_queue`: a clear that finds nothing outstanding sets no cutoff.
- `FramesDecodable` (the action property `StreamDecodable`): for any interval of IDR pictures, any identifiers and any pattern of failures
  and lost frames. `EncoderInv` says that unless the next picture is forced to be an IDR picture, the cached parameter sets are the
  client's (`SetsInStep`), the reference is the picture it received last and lies in the surface that is not written next
  (`ReferenceInStep`), and the numbers go on from it (`NumbersInStep`); the last identifier is as old as IDR pictures were
  lost (`IdsInStep`). That the numbers do not wrap rests on the periodic IDR picture: base and count lie between the same two multiples
  of `IDR_INTERVAL`, for which the module proves the facts about remainders it needs.

*Only model-checked*: everything temporal under fairness (outside the prover); the
algorithms, `WindowSound`, `RegionsExact`, `StreamsReadBack`, `FilesSurvive`, `FormatsSound`,
`SizesConverge`, `SetupSafe` and `InputFaithful`, whose definitions or modules reach recursive
operators (of `WindowSound` all parts are proved, within the scenarios that `GraphicsProofs` names); `PoliciesKept` (its parts hold under one policy each,
chosen by the run's module); the encoder of `Avc444`, which is built on the recursive operators of `Regions`; and
`CopiesNotMixed`, whose invariant is about the contents of four channels.

## 6. Limits

- A connection dropped while its capture starts (`capture/mod.rs:940`) leaves a thread without a
  handle, which no later activation and no shutdown joins. `Display` models it; `PoliciesKept` leaves it out, and does not hold with it. Without the last conjunct of
  `PreemptNext` TLC finds `RestoredAtRest` violated (25 states): the output was resized for a session; the leftover thread's refresh
  puts the older size, the startup size, into the shared layout; the next start takes it from there for `resolution`; and the
  restore returns early, because `resolution` is the startup size, while the output keeps the client's. That is a second way to miss what
  finding 1 quotes ("Startup geometry a managed headless output returns to once its session ends").
- A capture that restarts because its buffer parameters changed reads the
  presentation, queries the compositor and publishes the pair
  (`capture/wayland/mod.rs:132`), all without the gate. When a DisplayControl resize
  commits between the first and the last of these, the refresh puts the old presentation back into the
  input mapping while the desktop and the surface have the new one. With
  `CaptureRestarts = TRUE` TLC finds this as a violation of `PresentationAgrees` (16 states).
- `WindowEnforced` and `AckReleasesSlot` of ClearCodec frames leave out DisplayControl resizes (`OneClient`), and do not hold with them:
  `prepare_for_resize` clears the window after it has let go of the server's mutex (`egfx/rdpegfx.rs:246` to `:262`), and meanwhile
  `process_clearcodec` makes itself a new surface and may send and count a frame. `rdpegfx.rs:203` promises that no acknowledgement is
  "lost from the local window"; with the scenario `[clearCodec |-> TRUE, resizing |-> TRUE, suspends |-> FALSE, clients |-> 1, clears |-> 2]` TLC finds
  `AckReleasesSlot` violated (23 states): the clear takes the new frame's number for its cutoff before the frame is counted, so its acknowledgement counts as
  stale and its slot is not released before the next clear. They
  also leave out what a former client's capture thread counts for the next one.
- `CaptureSend` of `EgfxFlow` always reaches the RDP task; in the code it fails once that task is gone. The update channel of `FrameProcessor` has room
  or is closed: `tx.blocking_send` (`capture/frame.rs:660`, `:1040`) waits no longer than the connection's receiver lives.
- A retirement supersedes the generation under one lock and takes back the files that wait to be published under another
  (`clipboard/inbound/mod.rs:37`, `:38`, and the same in `release_locks` and when the connection closes). Between the two the watcher may still take
  files of the superseded selection and offer them to the desktop. `Clipboard` does this; `UnpublishedLive` and
  `OnlyLivePublished` except the moment. No line of the repository promises that it cannot happen: the
  comment at `inbound/mod.rs:255` is about the mount service, which does check under the lock of the generations.
- Two desktop copies that cross the client's echoes can make an echo pass for a
  copy; and a late drop by the watcher can discard a newer file selection. Both have
  no property: no line of the repository promises otherwise.
- The DMA-BUF loop keeps no damage: a frame that the pacer or the window turned away is shown with the next
  capture only. `DmabufCapture` models it; `StaleIsPending` and `CaptureProgress` are about the loops over shared memory.
- A default sink that is itself a remote sink of some hypr-rdp is not restored (`usable_previous_sink`), and a stream whose own sink
  was an orphan goes nowhere when the orphan is collected; `RoutesRestored` excepts both, and a session the user or a failure disturbed.
- An AVC444 frame whose auxiliary picture came out empty is sent without colour and the damage is
  not kept; `ScreenShown` excepts it (`starved`).
- `TransferBounded` counts polls, not the time a system call takes. Names of `MountClaims` are not reused,
  as they carry the process id; reuse of an id by another process is left out.

### Not modelled

- Pixels: colour conversion, scaling kernels, entropy coding, the loss of H.264.
- FFI and drivers: `vaapi_sys.rs`, `vpp.rs`, allocation and modifiers of DMA-BUF, PipeWire's own
  threads. They appear as steps that succeed or fail.
- Parsers of other projects: clap, TOML, JSON, PNG, XKB. Their results are records of small sets.
- PAM conversations and X.509. IronRDP's sequencing is external, modelled from the callbacks it makes.
- Clipboard capabilities are negotiated once; images take the path of text.

## 7. Plan

1. Proofs: `OneRequest` from an invariant that counts messages; `PictureKept` once `Regions` is written without recursive operators.
2. Runs: crossing echoes of two desktop copies, and the refresh of a restarting capture.
