# A verification of the audio HAL of the Xiaomi Mi 2 (aries)

This directory holds TLA+ models of the concurrent parts of this device tree,
the TLC runs that check them and proofs that TLAPS checks. The code is the
device tree of one phone: most of its program text, and nearly all of its
concurrency, is the audio HAL in `alsa_sound/`. Everything below refers to files
under `src/`.

Check a run with `tlc -config <run>.cfg <module>.tla` and a proof module with
`tlapm <module>.tla`. `PROJECT.json` lists the runs, the lines each definition
stands for, the mutations that each property detects and the theorems.

## The system

| part | state it keeps | operations | interacts with | what is hard |
|---|---|---|---|---|
| Sessions, `AudioSessionOut.cpp` | queues of ION buffers, `mSkipWrite`, `mReachedEOS`, `mPaused`, the event thread and its eventfd, `mLock`, `mDecoderLock`, `mWriteCv` | write, isBufferAvailable, start, pause, flush, stop, standby, setParameters, destructor | the decoder thread, the event thread, the compressed PCM driver, the parent | three threads, a condition variable, a kill handshake, an asynchronous drain |
| External output, `AudioHardwareALSA.cpp`, `ALSADevice.cpp` (proxy) | `mRouteAudioToExtOut`, active use cases, kill and alive flags, `mExtOutStream`, proxy state, two mutexes and a condition variable | start, suspend, stop, switch, open, close, the capture thread | every stream, setParameters, the A2DP HAL | unlocked callers, a stop that unlocks in the middle, failing opens |
| Routing and use cases, `ALSADevice.cpp`, `AudioHardwareALSA.cpp` | `mDeviceList`, verb and modifiers, current devices | doRouting, route, switchDevice, openOutputStream, closing of streams | all streams, UCM | long sequences of calls that must leave the lists as they were |
| Calls, VoIP, FM | three call states, VoIP stream counts, `mIsFmActive` | routeCall, setMode, handleFm, opening and closing of VoIP streams | routing, USB | nested state comparisons, shared handles |
| USB headset, `AudioUsbALSA.cpp` | two threads, their kill flags and eventfds, `musbPlaybackState`, `musbRecordingState` | start, exit, the threads' loops | streams, routing, the proxy | who owns the proxy; bits per use case |
| Policy manager, `AudioPolicyManagerALSA.cpp` | streams' reference counts, outputs, inputs, phone state, forced uses, connected devices | setDeviceConnectionState, setPhoneState, startOutput, stopOutput, startInput, stopInput | audio flinger | counts under every order of calls |
| Offline charger, `charger/charger.c` | key states, timers, battery animation | the event loop | input, power supply, the screen | races of timers |
| Small tools | none to speak of | run once | sysfs | nothing concurrent |

What makes each part correct:

* a session never loses, duplicates or overwrites a buffer; reports the end of a
  stream when, and only when, all of it has been played; wakes a decoder that
  can go on; and is gone, threads included, when its destructor returns;
* the external output reads the proxy only while it is open, has one thread at a
  time, writes only to a stream that exists, and ends what it has started;
* routing leaves exactly the verb and modifiers of the running streams enabled;
* call states and VoIP counts follow the calls that are up;
* reference counts of the policy manager equal the clients that have started;
* in the policy manager, additionally, the cache of devices, the suspension of
  A2DP and the mutes follow what they depend on, whatever the order of calls;
* a USB thread runs while a use case needs it, is gone when none does, and never
  keeps a call of the HAL waiting.

## Plan

In this order, the most important first. Done: 1 to 5.

1. `SessionOut`, with `BufferOwnership` as what its queues promise, and its proofs.
2. `ExtOut` and its proofs.
3. `UseCases` and its proofs: device list, verbs and modifiers, switchDevice,
   streams, sessions, VoIP, calls and FM.
4. `PolicyDevices`, the selection of devices as operators, and `PolicyManager`,
   the calls, with its proofs.
5. `UsbAudio` and its proofs: both threads, their kill handshake and the bits.
6. `LockOrder`: who waits for whom among the parent's `mLock`, the session's
   `mLock` and `mDecoderLock`, `mExtOutMutex` and `mExtOutMutexWrite`.
7. `Charger`, and operators for the volume tables and EDID blocks checked against
   reference definitions.

How the modules fit together. Each models one object with everything that object
does under its locks, and abstracts the others to what it sees of them: `UseCases`
has of a session its open and closed handle; `UsbAudio` has of `UseCases` the order
of `mDeviceList` and the device; `ExtOut` has of both the calls that start and stop
a use case. `PolicyManager` decides the devices that the HAL modules take as free
choices, so what they show holds for any policy.

## `SessionOut` and `BufferOwnership`

`SessionOut` is one session with its decoder thread (`pcD`), the control thread
of the player (`pcC`), the event thread (`pcE`) and the driver. A critical section
under `mLock` is one action; `mLock` and `mDecoderLock` are variables because some
calls keep them across steps of other threads (the wait of isBufferAvailable, the
joins, the drain that releases `mLock` in the middle). `mEmptyQueue` and
`mFilledQueue` are sequences of buffers; a buffer is a number, since no property
looks at its contents. `driver`-side variables say how many periods are queued
and which timer events wait to be read. `mSkipEOS` is not a variable: its value is
a function of what the drain returned. `aborted` tells that an assertion failed
(`LOG_ALWAYS_FATAL`) or that a handle was used after it was closed.

Assumed of the outside: one timer event per period played, kept until it is read
up to `MaxTicks` of them; a read takes at most as many as the code's array holds;
a zero-length buffer is signalled when nothing is queued before it; pausing
succeeds only while the driver runs; a drain returns at once when nothing is
queued; a prepare interrupts it. Of the player: one decoder thread, which calls
isBufferAvailable before write; one control thread; no call on a session that is
being destroyed, and none but the destruction after standby.

`BufferOwnership` is what a decoder relies on: the buffers it is given come back
in order, none is in two hands, and only a flush recovers a lost one. Its state is
the two queues, and the run `SessionAll` and the theorem `ImplementsOwnership`
show that `SessionOut` implements it.

Not in this module: volume, the USB bits cleared by reset() (in `UsbAudio`), the
parent's lock and the calls into the parent.

| run | question | instance |
|---|---|---|
| `SessionAll` | types, queues, buffers, refinement, the thread out of its loop before the session goes | tunnel mode, every call; writes, drains, polls and resumes may fail |
| `SessionLive` | the mSkipWrite assertion, end of stream last, exits are honoured but for the crossed locks, the decoder is fed | LPA, start, flush, destroy; starts and prepares may fail; fair threads |
| `SessionStopAsserts` | stop() violates the assertion of isBufferAvailable | LPA with stop |
| `SessionFalseEos` | a flush after the drain does not prevent a false end of stream | tunnel mode |
| `SessionLostWakeup` | the destructor's signal may be lost | LPA with destroy, fair threads |

The code allocates `BUFFER_COUNT` (4) buffers; two suffice, because all
the code distinguishes is an empty queue, a full one and one in between, and the
proofs are for every number. `MaxTicks` of two or three lets one read find more
timer events than the one whose buffer it returns. Deadlock is not checked, as the
session may be destroyed or aborted: everything then stops.

Fairness. The event thread, and calls that have begun, are strongly fair: they
contend for mutexes and the scheduler does not starve a runnable thread. The
driver's `Play` is weakly fair. Nothing is assumed about calls being started. The
liveness run is about an LPA session: in tunnel mode the event thread may sit in
the drain of a driver nobody starts, and the destructor waits for it; TLC shows
this when the constant is changed. Nor is `pause` among its calls: a session that is
flushed in pause and then written to is prepared again by start()
(`AudioSessionOut.cpp:567`), which throws away what was queued in between; no period
of it is ever reported and the decoder waits for good. TLC finds `DecoderFed`
violated so when `pause` is added; it is listed among the hazards.

Proved (`SessionOutProofs`), for every number of buffers, set of calls, writes and
faults: `IInv`, the conjunction of the types, `QueuesDisjoint` and
`WriteHasBuffer`, is inductive. `StepOfQueues` is the central lemma: a step leaves
the queues alone, hands out or loses the head of `mEmptyQueue`, returns the head
of `mFilledQueue`, or refills. From it follow `DisjointQueues`,
`WritesHaveBuffers` and the refinement `ImplementsOwnership`; `SkipAssertionHolds`
(without stop and an ADSP restart, and until the session is destroyed, for which it is
false) and `EosIsLast` (for LPA) need invariants of their own, `SkipInv` and `EosInv`.
`LoopLeftBeforeGone`: when the destructor returns, the event thread is behind its
loop, for all calls and faults. Its invariant `GoneInv` says that `mEventThreadAlive`
is cleared only there. More is not true: a thread that ended by itself (standby
closed the handle, a poll failed) is not joined and may still be closing `mEfd`.
Only model-checked: the liveness properties.

The two locks of isBufferAvailable() are two waits (`TakeLock`, `TakeDecoderLock`).
A decoder between them, the destructor in its join with `mDecoderLock`, and the
event thread at `mLock` wait in a cycle, the deadlock listed under `hazards` at
`AudioSessionOut.cpp:834`; without `LocksCrossed` in it, `ExitUnlessCrossed` is violated
by just this. The property shows that nothing else makes the exit of an LPA session miss,
as long as OFFLINE, which joins with `mLock` held, is not among the calls.

Left out because it changes no state of the session: what the observer is told by
drain() when a prepare fails and by setParameters(ONLINE); the end of stream that
the properties are about is the one of drainAndPostEOS_l.

## `ExtOut`

While audio is routed to A2DP the streams play into a proxy device of the DSP, and
one thread reads it and writes to the A2DP stream. `ExtOut` models the start,
suspend and stop of a use case on that output, the routing that turns to it and
away from it, the A2DP connection and the thread. `MayCall` says which caller makes
which call: `Locked` calls hold the parent's `mLock` from their first step to
their return, the others do not: FM radio (handleFm, from both setParameters), the
destructors of streams and sessions, and an ADSP restart start and stop the output
without it. `pc` of a caller stands for a place in

    want, radio, failed                  before doRouting, handleFm, the destructor
    start -> create -> created -> resume -> signal          startPlaybackOnExtOut_l
    stop -> check -> kill -> killing -> wake -> join        stopPlaybackOnExtOut_l
         -> relock -> standby                                 and stopExtOutThread
    lockWrite -> closing -> closed                                   closeExtOutput

and `pcT` of a thread for a place in extOutThreadFunc (`entry` to `unlock` for the
head of its loop, `read` to `poll` for readFromProxy, `copy` to `writing` for the
rest). Streams are FALSE for NULL; whether the stream they point to still exists
is `streamOpen`. `mPfd` is the eventfd of the proxy: absent, there, or written.
A routed stream raises `mRouteAudioToExtOut` before it waits for `mLock` (`Want`),
so a stop may come in between. `mCanOpenProxy` is included because closing any
stream offers the proxy. Tests made without `mExtOutMutex` (the stream and
`mIsExtOutEnabled` in a start, `mExtOutThreadAlive` in a stop) are actions of their
own, before the section that acts on them.

`overlapped` is a history variable: it becomes TRUE when a start or stop begins
while another one is under way, which takes one that has no `mLock`. The three
safety properties are about the time before. Dropping `overlapped` from any of them
makes TLC find a violation in `ExtOutSafe`, by a destructor or by FM; no
document of the code promises that such calls do not meet, so this is a hazard in
`PROJECT.json` and not a finding.

Modelled failures (`Faults`): the open of a session, openProxyDevice after all its retries, pthread_create,
and the synchronisation with the proxy. Assumed: A2DP is connected once before it is
disconnected; a write to its stream returns. Not in this module: a USB accessory as
the external device and the switch between it and A2DP, the resampler, USB
headsets.

| run | question | instance |
|---|---|---|
| `ExtOutSafe` | types, proxy open while read, one thread, nothing outlives a stop, no deadlock | a stream's thread that mixes, opens, deletes and routes FM, and the system's, which connects A2DP, routes, deletes, restarts the DSP and switches FM; a low-power use case and FM; two threads, all faults, up to an overlap; 1,410,702 states up to the symmetry of the threads |
| `ExtOutLive` | stops complete, starts are heard | one use case, callers with `mLock`, fair callers and threads, all faults |
| `ExtOutDoubleUnlock` | a double unlock lets the thread write to a closed stream | one use case, no fault |

Two thread identities are enough: a third could only run after one of the first
two has ended, and a thread that has ended is the same as one that has not begun.
Two use cases are needed for a stop that finds another one active; the proofs are
for any number. `Apart` cuts the states after an overlap, of which the invariants
say nothing, and `Seen` forgets the arguments of calls that have returned.
`ExtOutLive` has no caller without `mLock`: a start that meets a stop resets the
kill flag, and the stop then waits for a thread that nobody ends.

Fairness: strong for calls that have begun and for the thread, whose write to the
A2DP stream returns. The poll of the proxy is not fair: the DSP may deliver
nothing for ever, and a stop has to work then, too. Spurious wake-ups may happen
but need not.

Proved (`ExtOutProofs`), for any callers, any of the calls, use cases, threads and
faults: the types, and `IInv`, which says of the time before an overlap: one caller
at most is inside a start or a stop, with the flag raised; between the test of a
start and the creation of its thread, and in a stop, the output is disabled; a
thread that runs is the one `mExtOutThread` names and belongs to an output that is
enabled or being enabled or stopped. That `mLock` keeps the locked callers apart is
part of the proof (`BeginApart`), not an assumption. From it follow `ProxyStaysOpen`,
`OneThreadOnly` and `NothingIsLeft`. Only model-checked: the two liveness properties.

## `UseCases`

The verb and the modifiers that are enabled in the use case manager, the devices
that are switched on (`ucm`, with the names `ALSADevice` keeps), `mDeviceList`, the
open handles, the three call states, VoIP's counts and FM. A section under `mLock`
is one action. Telephony stores the VSID and the call state without `mLock` and
then routes: `Telephone`, `SetCallState` and `ControlRoute` are three actions, and
streams may route in between. switchDevice is the operator `Switched`: what plays
through the old device is disabled, the device switched, and enabled again;
`ucm.path` says through which pair of devices each use case goes.

Taken from the configuration of the device: `QCOM_MULTI_VOICE_SESSION_ENABLED` is not
set (`alsa_sound/Android.mk:18`), so one of the three calls is used. handleFm takes
no lock in the code; it is one action, and the interleaving is a hazard without a
property. The policy service opens and closes one stream at a time, so the two
sections of a stream's destructor are one action. Left out: HDMI, the branches of
doRouting for other outputs, the first route at boot, the name of an in-call
recording read outside a call, the flags that change device names.

| run | question | instance |
|---|---|---|
| `UseCases` | lists, verbs and modifiers, devices, calls, VoIP | one playback stream, session, capture stream and call, VoIP and FM, two outputs, one input, three call states, failing opens |

`MaxListed` bounds `mDeviceList` to three entries: enough for a verb, a modifier
that outlives it, and one more that takes the verb; an instance with two calls was
explored to depth 15 without a violation and is too large to finish. Deadlock is
off: a phone may be left alone. Only safety is stated, since no call waits for
another.

Proved (`UseCasesProofs`), for any streams, sessions, calls, devices, failures and
bound: `IInv`, that is `Core` (the type of `ucm`, the roles, `EnabledIsOpen`) and `Rest`
(types, open handles are listed, FM's handle is open only while FM is active, live
streams are listed, `CallsListed`, `EndedCallIsDown`, `VoipShared`), is inductive. A
call can be disabled only because its use case is enabled under the name its
handle carries, which is why `CallsListed` needs `EnabledIsOpen`.

Proved (`UseCasesRoutesProofs`), on top of that: `PlaybackFollowsOutput` and
`CaptureFollowsInput`, whatever plays goes through the current output and whatever
only records through the current input, both switched on. The paths change in
three operators (`Route`, `Enable`, `DisableDevice`); a lemma about each says that
it keeps `Paths`, and an action is one of them after another. `CallKeepsItsPair`, that a
call has the current output and the current input, needs `OneCall`: one VSID, which
is what the build has, and no ringtone mode during the call. Neither can be
dropped: with a second VSID, or with `RINGTONE` entered while a call is up, switchDevice does not pair
the devices and an input that moves leaves the call behind, as TLC shows when
the constants are changed. All safety properties of the module are proved; it
states no other.

## `PolicyDevices` and `PolicyManager`

`PolicyDevices` is the selection: getStrategy, getDeviceForStrategy, getNewDevice and
the device of an input, as operators on a record `cond` of the conditions (plugs,
phone state, forced uses, the SCO headset, whether A2DP is suspended, outputs and
use counts). `PolicyManager` has a call of the policy manager per action; each is
made under the lock of AudioPolicyService. `mix` is what the hardware has been told:
devices, mute counts and silent streams per output, and the device last sent to
the primary module. The base class `AudioPolicyManagerBase` is part of the platform
and not of this repository: what the subclass uses of it is marked external.

From `BoardConfig.mk`: FM and the ES310 amplifier are there, so a second input is not
refused. Left out: delays, volume curves beyond silent or not, notifications (their
device depends on how long music has been quiet), effects, and the moving of
tracks between outputs, which is audio flinger's.

| run | question | instance |
|---|---|---|
| `PolicyManager` | use counts, direct outputs, the cache, A2DP and SCO, the route, mutes | four tracks (two may share the low-power output, a ring, a call), four outputs, a wired and a SCO headset, two inputs |
| `PolicyScoComment` | A2DP is restored in a call, against the comment | the same |

`MaxMutes` bounds a mute count by two, `MaxBusy` the tracks with an output, the open
inputs and the plugs by two together: a conflict takes two of them, and 169,631
states are reached. The profile `fast` is there because the forced change of device
is looked at only when another output exists.

Proved (`PolicyManagerProofs`, with `PolicyMixProofs` and `FoldProofs` for what it
rests on), for any streams, profiles, tracks, plugs, forced uses, captures and
bounds. Assumed of the constants: the streams and profiles are among those of the
code, there is music and a mixer, tracks are finitely many and each has a stream,
what can be plugged is supported by the primary output and is not built in, and the phone
can be idle; and `WantsAssumption`. Requests without a direct profile go to
selectOutput of the base class, which prefers the open output that shares most flags
with them (`Mixer`). The direct outputs share one: a request for the low-power output with
parameters that the configuration has not, or for the voip output while the device is one
that only the low-power output supports, may get an open direct output that getOutput does
not count (`AudioPolicyManagerALSA.cpp:900`). `DirectCounted` is false there, and
`WantsAssumption` excludes it. In six layers, each an inductive invariant that uses those before:

* `Inductive`: the suspension of A2DP and the cache. A call that changes conditions
  ends in a `Settled` state, where the suspension has been checked and the cache
  refreshed after it; a call that changes only outputs and use counts leaves alone
  all that selects a device (`SameDevices`). Gives `Suspension` and `CacheNeverStale`.
* `TypedAlways`: the types, and `Laid`: the primary output is open, no output twice,
  submix and its duplicate exactly while their device is there.
* `TrackedAlways`: a track that plays is on an open output, every use count is the
  number of tracks behind it (and FM), every open count the number of holders.
  The lemmas say what starting, stopping, losing and reopening do to the
  cardinality of these sets. Gives `CountsMatch` and `DirectMatch`.
* `SoundingAlways`: what is muted is silent and what plays unmuted is not, for the
  streams in `Loud`. Every call composes a few operations on the mix; a set of mixes
  is `Stable` if none of them leaves it, and a lemma per operator (routing all outputs,
  quieting them, the ringer in a call, the mutes of strategies) says that it stays
  in any stable set. That is the only induction: `FoldProofs` shows what a fold over a sequence or a
  finite set is, from its definition, and the lemmas are instances. A change of use
  counts that makes nothing louder (`NoLouder`) keeps the invariant, and a start
  sets the volume of what it makes louder. Gives `MutedSilent`, `UnmutedAudible` and, with the
  bound that every step keeps, `TypeCorrect`.
* `CallRoute`: in a call every output asks for one device (`CallWanted`), which each takes
  whole or not at all (`Whole`), so the route, once there, stays (`RoutedIn` is stable) and a
  forced change ends there (`Lands`, `RouteAllLands`). The property exempts one state: FM that
  is forced to the speaker adds the speaker to the SCO headset of a call, the voip
  output supports only one of the two, and the route is the speaker alone. The proof
  covers what follows it: when FM goes or is let off the speaker, all outputs are
  routed and the route is that of the call again.
* `PlayedWherePresent`, from `Wide` (the mixers stay, and neither voip nor hdmi opens) and
  `Present`: in a call the primary output has a device that is there, and the route is
  there too unless nothing plays and `mForceDeviceChange` is set. The first part is needed
  because the end of a call may route the primary output to the device it has. `Keeps` are the
  stable sets that are left only by sending a device that is gone; nothing selects one
  (`SelectedPresent`). A device that goes is where the set is left: then all outputs are
  routed, and the first that plays brings the route back (`RouteAllReaches`), or nothing plays and
  the next start does (`PlayingLands`), the other mixer being what makes the start look
  at the flag.

Nothing is left to TLC alone here, but `PlayedWherePresent` has a hypothesis, `WideOnly`: no
track can open `voip_rx` or `hdmi`, the two outputs that do not support every device that can be
selected. Without it TLC shows `PlaysOnPresent` false: a track plays on the voip output over
a headset, A2DP connects and is selected, and the headset is unplugged; the output ignores
A2DP, which it does not support, and the route stays on the headset. The run's instance satisfies `WideOnly`.

## `UsbAudio`

A thread per direction copies between a USB card and the DSP's proxy device. The
HAL keeps a bit per use case (`bits`), starts the thread with the first and has it
exit with the last. A HAL call holds `mLock`; it is a sequence `todo` of pieces
(start, exit, "exit if nothing is active", the store of the device at the end of
doRouting) which interleave with the thread and with the test that every write
makes without the lock (`Transfer`, then `TransferStarts`). An exit is `Exit` (flag and
events) and `Finish` (join and close). A thread is `new`, then in its `loop`, where a
playback thread waits for data or the event and a recording thread for data
only, then at its `end`, and, for playback, `closing` after its events are gone.

Bound: a thread that has killed itself may still be ending when a start finds the
flag set. The code then runs two threads on the same handles. The model reaches
that state (`overtaken`) and stops there (`Lost`): what follows is a data race. Taken
from the allocation: the ids of the threads, which the constructor does not
set, are zero. Left out: FM's bit (handleFm has no lock), the property that offers
the proxy to others, mixing and resampling. The capture stream of a VoIP call
follows the dock.

Streams and sessions leave in two steps where the code does. A VoIP or capture
stream drops its bits in close() and its entry in the destructor, under a second
lock (`leaving`, `Destroy`); in between doRouting may take the entry once more, and a
new VoIP stream may take it over (`ReopenVoip`). A session that does not open has
set its bit and is deleted after `mLock` has been let go (`SessionFails`, `ResetFailed`).
If a playback bit is set by then, which on the dock it is, `reset()` reads through a
NULL handle (`AudioSessionOut.cpp:1001`) and the media server dies; the model has no
step there. A write that fails and cannot reopen its device leaves the handle NULL
and the bit set until the next write opens again (`FirstTransfer` of an open stream).

Two bits outlive their use case, in the code and in the model: VOIP, which
doRouting to the dock also sets for an ordinary input stream in IN_COMMUNICATION
(`AudioHardwareALSA.cpp:1142`) and for an entry that is leaving, and the recording
bit of a call whose playback bit was lost (`EndCall`). They keep a thread running
until a doRouting away from the dock closes both directions. `BitsInUse` is
therefore about the other bits of playback. With `"VOIP"` in it, or without `leaving`,
TLC finds it violated in the run's instance.

| run | question | instance |
|---|---|---|
| `UsbAudio` | no thread or device left over, none closed under its thread, bits, users and threads agree, calls return, music that plays on gets its thread back | a mixer stream, a stream that records, a session, an input stream's entry, a voice and a VoIP call, two at a time; a speaker and a dock, the microphone; the card may be missing, fail, or go; 287,022 states |

`MaxUsers` bounds the streams, sessions and calls that are there at a time by two. A pair
is what the bits can disagree about: one user, and one that takes its thread, its bit or
its place in `mDeviceList`; the proofs are for any number. Deadlock is off because of `Lost`.

Fairness: threads and the call in progress go on. The recording thread
(`WakeByData("recording")`) needs the card to go on delivering what it records and
the DSP to go on draining the proxy, as it polls both without a timeout
(`AudioUsbALSA.cpp:679`); without them its join does not return, as its event is
never written (`AudioUsbALSA.cpp:337`). Nothing is
assumed of the data to be played: there the event has to do. An open stream goes
on writing, and its writer gets `mLock` in the end (strong fairness).

Proved (`UsbAudioProofs`), for any streams, use cases, devices and faults: `IInv` is
inductive, and from it follow the types, that a loop has its devices
(`LoopsHaveDevices`), that a direction without bits is released
(`DirectionsReleased`), that a bit has a thread (`BitsHaveThreads`) and, but for VOIP, a
user (`BitsAreInUse`), and that calls go both ways (`CallsGoBothWays`). The properties
that hold between calls are not inductive: in the middle of one a bit may be gone
while its thread runs. `IInv` therefore says what `todo` owes: a thread without a
bit has an exit to come (`ThreadInv`), a start to come belongs to a use case that
is listed or leaving (`UseInv`), and the starts and exits of the two directions come in pairs
in a fixed order (`BothInv`). Only model-checked: `ExitReturns` and `MusicHeals`.

## What the runs found

* stop() of a session, like a restart of the DSP, leads to the abort in
  isBufferAvailable (`SessionStopAsserts`).
* A flush that comes after the drain and before its thread has `mLock` again does
  not prevent the report of an end of stream (`SessionFalseEos`).
* The destructor of a session can lose its signal; decoder and destructor then
  wait for each other (`SessionLostWakeup`).
* The capture thread unlocks `mExtOutMutex` twice (`ExtOutDoubleUnlock`).
* A SCO headset that is unplugged in a call restores A2DP, though the comment above the
  conditions restores it only out of calls (`PolicyScoComment`).

Further behaviours met while modelling that no document of the code rules out are
listed as hazards with a note: the cycle of decoder, destructor and event thread over
the two locks of a session, a seek in pause that loses the buffers written before the
start, a session destroyed while its drain blocks, a
capture thread that never retries after a read error, stops without `mLock`, and
others. Met in the newer modules, each with its lines under `hazards`: a call that
ends after a session was listed before it leaves the USB recording thread running;
a USB thread killed in its setup has its device closed twice; the VOIP bits of an
input stream that records from the dock in IN_COMMUNICATION are never cleared; a session
that cannot open on the dock reads through a NULL handle when it is deleted; a mute of the ring
that the stop of a call sets and nobody takes back (`AudioPolicyManagerALSA.cpp:1026`);
the first of two captures of the played sound that
stops disconnects the output of the second (`AudioPolicyManagerALSA.cpp:1229`).

## Out of reach

Liveness is checked by TLC only. The modules are composed by what they assume of
each other, not in one specification: the product of any two is beyond TLC. Wording,
logging and the arithmetic of sample rates are abstracted. Parts that only copy data
between files are not modelled; `PROJECT.json` names each with the reason.
