---------------------------- MODULE PolicyManager ----------------------------
(* The audio policy manager (AudioPolicyManagerALSA.cpp) over the base class *)
(* of the platform, which is not in the repository: open outputs and their   *)
(* devices, streams that play, mutes and volumes, and the routes it sends to *)
(* the audio HAL.  The audio policy service holds one lock over every call,  *)
(* so a call is one action.  A volume is silent or not; that of the voice in *)
(* the modem and delays are left out, and of what is muted and unmuted       *)
(* within one call only the result is kept.  Notifications are left out:     *)
(* their device depends on how long music has been quiet.                    *)
EXTENDS PolicyDevices

CONSTANTS Clients,    \* tracks; each asks for outputs and plays on them
          StreamOf,   \* the stream type of a track
          Wants,      \* what a track may ask for: [flag, params]
          Compatible, \* pairs of a profile and parameters it can be opened with
          Plugs,      \* output devices that come and go
          Forces,     \* pairs of a usage and a configuration to force
          Phones,     \* phone states that are entered
          Records,    \* capture clients
          SourceOf,   \* the input source of a capture client
          MaxMutes,   \* bound: mute count of a stream on an output
          MaxBusy     \* bound: tracks with an output, open inputs and plugged devices

ASSUME ClientsAssumption == IsFiniteSet(Clients) /\ StreamOf \in [Clients -> Streams]
\* A device that no output of the configuration supports is not connected.
ASSUME PlugsAssumption ==
  /\ Plugs \subseteq Supported("primary") \ {"SPEAKER", "EARPIECE"}
  /\ Phones \subseteq PhoneStates /\ "NORMAL" \in Phones
  /\ \A f \in Forces : f[1] \in Usages
\* A track asks for a counted output with parameters it can be opened with, and
\* where another direct output could play the asked one could too.  Else the base
\* class may give it an open direct output that getOutput() does not count.
ASSUME WantsAssumption == \A c \in Clients : \A w \in Wants[c] :
  /\ w.flag \in Counted \cup {"fast", "none"}
  /\ w.flag \in Counted =>
       /\ w.flag \in Profiles /\ <<w.flag, w.params>> \in Compatible
       /\ \A o \in Profiles \cap Direct : Plugs \cap Supported(o) \subseteq Supported(w.flag)
ASSUME BoundsAssumption == MaxMutes \in Nat

VARIABLES
  cond,               \* the conditions of the selection, see CondType
  mDeviceForStrategy, \* the cache of the selection
  mForceDeviceChange,
  mix,                \* devices, mutes and volumes of the outputs, see MixType
  mDirectOpenCount, mParams,    \* of the direct outputs
  client,             \* what the tracks hold and play on
  mInputs,            \* open inputs, in the order of their handles
  inDevice, recording \* device of each input; inputs that have been started
policyVars == <<cond, mDeviceForStrategy, mForceDeviceChange, mix>>
directVars == <<mDirectOpenCount, mParams>>
inputVars  == <<mInputs, inDevice, recording>>
vars == <<policyVars, directVars, client, inputVars>>

Tables == [Strategies -> SUBSET OutDevices]
CondType(q) ==
  /\ q.available \subseteq OutDevices /\ q.inputs \subseteq InDevices
  /\ q.phone \in Phones
  /\ q.force \in [Usages -> {"NONE"} \cup {f[2] : f \in Forces}]
  /\ q.sco \in BOOLEAN         \* mScoDeviceAddress is set
  /\ q.suspended \in BOOLEAN   \* mA2dpSuspended
  /\ Range(q.outputs) \subseteq Outputs /\ IsInjective(q.outputs)
  /\ q.refs \in [Outputs -> [Streams -> Nat]]
MixType(m) ==
  /\ m.device \in [Outputs -> SUBSET OutDevices]
  /\ m.byDevice \in [Outputs -> SUBSET Strategies]   \* mStrategyMutedByDevice
  /\ m.mutes \in [Outputs -> [Streams -> 0..MaxMutes]]
  /\ m.silent \in [Outputs -> SUBSET Streams]   \* volume applied is 0
  /\ m.routed \subseteq OutDevices   \* last device sent to the primary module
Idle == [out |-> "none", state |-> "idle"]
ClientType == [out : {"none"} \cup Outputs, state : {"idle", "held", "started"}]
----------------------------------------------------------------------------
(* Volumes and mutes.  m is the mix as it is, the result the mix after it.   *)
DeviceOf(m, o) == UNION {m.device[p] : p \in Parts(o)}
Refused(q, s) == \/ s = "VOICE_CALL" /\ q.force["COMMUNICATION"] = "BT_SCO"
                 \/ s = "BLUETOOTH_SCO" /\ q.force["COMMUNICATION"] # "BT_SCO"
checkAndSetVolume(q, m, o, streams, zero) ==
  LET free == {s \in streams : m.mutes[o][s] = 0 /\ ~Refused(q, s)}
  IN [m EXCEPT !.silent[o] = IF zero THEN @ \cup free ELSE @ \ free]
applyStreamVolumes(q, m, o) == checkAndSetVolume(q, m, o, Streams, FALSE)

Add(counts, streams, delta) == [s \in Streams |-> counts[s] + IF s \in streams THEN delta ELSE 0]
\* Mutant: the count is raised before the volume is set.
MutedLate(q, m, o, streams) ==
  checkAndSetVolume(q, [m EXCEPT !.mutes[o] = Add(@, streams, 1)], o, streams, TRUE)
Muted(q, m, o, streams) ==
  LET allowed == {s \in streams : s # "ENFORCED_AUDIBLE" \/ q.force["SYSTEM"] = "NONE"}
  IN [checkAndSetVolume(q, m, o, allowed, TRUE) EXCEPT !.mutes[o] = Add(@, streams, 1)]
\* Mutants: a stream that is not muted is unmuted too; the volume stays off.
UnmutedAlways(q, m, o, streams, device) ==
  checkAndSetVolume(q, [m EXCEPT !.mutes[o] = Add(@, streams, 0 - 1)], o, streams, FALSE)
UnmutedSilently(q, m, o, streams, device) ==
  [m EXCEPT !.mutes[o] = Add(@, {s \in streams : @[s] > 0}, 0 - 1)]
\* The ringer is unmuted at once when the remote submix is selected.
Unmuted(q, m, o, streams, device) ==
  LET muted == {s \in streams : m.mutes[o][s] > 0}
      less  == [s \in Streams |-> IF s \notin muted THEN m.mutes[o][s]
                                  ELSE IF s = "RING" /\ "REMOTE_SUBMIX" \in device THEN 0
                                  ELSE m.mutes[o][s] - 1]
  IN checkAndSetVolume(q, [m EXCEPT !.mutes[o] = less], o, muted, FALSE)
Of(t) == {s \in Streams : Strategy(s) = t}
setStrategyMute(q, m, t, on, o, device) ==
  IF on THEN Muted(q, m, o, Of(t)) ELSE Unmuted(q, m, o, Of(t), device)
Pulsed(q, m, t, o, device) ==
  setStrategyMute(q, setStrategyMute(q, m, t, TRUE, o, {}), t, FALSE, o, device)

\* A strategy that wants another device than the pair o now plays on is muted
\* there for as long; one that plays while o changes device, for a moment.
Conflict(q, o, device, own) ==
  isActive(q, o) /\ Cardinality(device) >= 2 /\ own \cap device # {} /\ own # device
PulsedIf(c, q, m, t, o, device) == IF c THEN Pulsed(q, m, t, o, device) ELSE m
MuteStrategy(q, m, o, t, mute, changed, device) ==
  LET flagged == [m EXCEPT !.byDevice[o] = IF mute THEN @ \cup {t} ELSE @ \ {t}]
      On(n, p) == IF Supported(p) \cap Supported(o) = {} THEN n
                  ELSE PulsedIf(/\ isStrategyActive(q, p, t) /\ changed /\ ~mute
                                /\ p = o \/ DeviceOf(n, p) # device,
                                q, setStrategyMute(q, n, t, mute, p, DeviceOf(n, p)), t, p, device)
  IN IF changed \/ flagged # m THEN FoldLeft(On, flagged, q.outputs) ELSE m
checkDeviceMuteStrategies(q, m, o, prev) ==
  LET device == DeviceOf(m, o)
  IN FoldSet(LAMBDA t, n : MuteStrategy(q, n, o, t, Conflict(q, o, device, Device(q, t)),
                                        isActive(q, o) /\ device # prev, device),
             m, {Strategy(s) : s \in Streams})

Moved(m, o, device) ==
  IF device # {} \/ m.device[o] \in {{"AUX_DIGITAL"}, {"ANLG_DOCK"}}
  THEN [m EXCEPT !.device[o] = device] ELSE m
Sent(q, m, o, device) ==
  applyStreamVolumes(q, IF device = {} \/ o = "submix" THEN m ELSE [m EXCEPT !.routed = device], o)
SentIf(c, q, m, o, device) == IF c THEN Sent(q, m, o, device) ELSE m
SetOne(q, m, o, wanted, force) ==
  LET device == wanted \cap Supported(o)
      prev   == m.device[o]
  IN IF wanted # {} /\ device = {} THEN m
     ELSE SentIf(force \/ device \notin {{}, prev}, q,
                 checkDeviceMuteStrategies(q, Moved(m, o, device), o, prev), o, device)
setOutputDevice(q, m, o, device, force) ==
  FoldLeft(LAMBDA n, p : SetOne(q, n, p, device, force), m,
           IF o = "dup" THEN <<"primary", "submix">> ELSE <<o>>)

\* In a call the ringer is muted on the primary output, once for every track of
\* it when the call state changes and once more for each that starts.
handleIncallSonification(q, m, starting, times) ==
  FoldSet(LAMBDA i, n : IF starting THEN Muted(q, n, "primary", {"RING"})
                        ELSE Unmuted(q, n, "primary", {"RING"}, DeviceOf(n, "primary")),
          m, 1..times)
Rings(q) == IF "RING" \in Streams THEN q.refs["primary"]["RING"] ELSE 0
AllIncall(q, m, starting) ==
  handleIncallSonification(q, m, starting, IF isInCall(q) THEN Rings(q) ELSE 0)
OneIncall(q, m, s, starting) ==
  handleIncallSonification(q, m, starting, IF isInCall(q) /\ s = "RING" /\ Rings(q) > 0 THEN 1 ELSE 0)
----------------------------------------------------------------------------
(* Conditions and outputs.                                                   *)
ScoBusy(q) == /\ q.sco /\ "BT_SCO" \in {q.force["COMMUNICATION"], q.force["RECORD"]}
              /\ q.phone \in {"IN_CALL", "RINGTONE"}
\* Mutant: A2DP is resumed only once the headset is gone.
ResumeWithoutSco(q) == [q EXCEPT !.suspended = IF @ THEN q.sco ELSE ScoBusy(q)]
checkA2dpSuspend(q) ==
  [q EXCEPT !.suspended =
     IF @ THEN ~(\/ ~q.sco \/ "BT_SCO" \notin {q.force["COMMUNICATION"], q.force["RECORD"]}
                 \/ q.phone \notin {"IN_CALL", "RINGTONE"})
     ELSE ScoBusy(q)]

\* changeRefCount(); a duplicated output forwards it to both outputs
Counts(refs, o, s, delta) ==
  [p \in Outputs |->
     IF p \in Parts(o) \cup {o}
     THEN [refs[p] EXCEPT ![s] = IF @ + delta < 0 THEN 0 ELSE @ + delta] ELSE refs[p]]
Without(seq, gone) == FoldLeft(LAMBDA left, x : IF x \in gone THEN left ELSE Append(left, x), <<>>, seq)
WithDup(os) == os \cup (IF "submix" \in os THEN {"dup"} ELSE {})
\* Mutant: the counts of an output outlive it.
ClosedWithCounts(q, gone) == [q EXCEPT !.outputs = Without(@, gone)]
OutputsLeft(q, gone) == Without(q.outputs, gone)
CountsLeft(q, gone) ==
  [o \in Outputs |-> [s \in Streams |->
     IF o \in gone THEN 0
     ELSE IF o = "primary" /\ "dup" \in gone THEN q.refs[o][s] - q.refs["dup"][s]
     ELSE q.refs[o][s]]]
Closed(q, gone) ==
  [q EXCEPT !.outputs = OutputsLeft(q, gone), !.refs = CountsLeft(q, gone)]
\* The record of an output that is opened: nothing plays, nothing is muted.
Opened(m, os, device) ==
  FoldSet(LAMBDA o, n : [n EXCEPT !.device[o] = device, !.byDevice[o] = {}, !.silent[o] = {},
                                  !.mutes[o] = [s \in Streams |-> 0]], m, os)
\* Calls for an output that is no longer open return at once: its tracks are over.
Lost(gone) == [c \in Clients |-> IF client[c].out \in gone THEN Idle ELSE client[c]]
\* Mutant: the record of a direct output that is closed is kept.
ForgetTracks(gone) == client' = Lost(gone) /\ UNCHANGED directVars
Forget(gone) ==
  /\ client' = Lost(gone)
  /\ mDirectOpenCount' = [o \in Outputs |-> IF o \in gone THEN 0 ELSE mDirectOpenCount[o]]
  /\ mParams' = [o \in Outputs |-> IF o \in gone THEN "none" ELSE mParams[o]]
RouteAll(q, table, m, outputs, always) ==
  FoldLeft(LAMBDA n, o : LET device == getNewDevice(q, table, o)
                         IN setOutputDevice(q, n, o, device, always \/ device # {}),
           m, outputs)
InCallOrder(q) == IF isInCall(q) /\ "tunnel" \in Range(q.outputs) THEN Reverse(q.outputs)
                  ELSE q.outputs
FmCounted(q, d, delta) ==
  IF d = "FM" THEN [q EXCEPT !.refs = Counts(q.refs, "primary", "MUSIC", delta)] ELSE q

\* What setDeviceConnectionState() makes of the outputs when d is connected or
\* disconnected; ins are the input devices afterwards.
Attached(d, ins) ==
  LET opened == IF d = "REMOTE_SUBMIX" THEN <<"submix", "dup">> ELSE <<>>
      q == checkA2dpSuspend(
             [cond EXCEPT !.available = @ \cup {d}, !.inputs = ins, !.sco = @ \/ d \in Sco,
                          !.suspended = @ /\ d \notin A2dp, !.outputs = @ \o opened])
      r == FmCounted(q, d, 1)
      m == Opened(mix, Range(opened), {})
      n == IF opened = <<>> THEN m ELSE [m EXCEPT !.device["submix"] = {d}]
  IN [cond |-> r, table |-> Fresh(q), gone |-> {},
      mix |-> IF d \in A2dp /\ "PROXY" \in q.available THEN n
              ELSE RouteAll(r, Fresh(q), n, InCallOrder(r), TRUE)]
Detached(d, ins) ==
  LET q == checkA2dpSuspend(
             [cond EXCEPT !.available = @ \ {d}, !.inputs = ins, !.sco = @ /\ d \notin Sco,
                          !.suspended = @ /\ d \notin A2dp])
      gone == WithDup({o \in Range(q.outputs) \ {"dup"} : Supported(o) \cap q.available = {}})
      r == Closed(q, gone)
      s == FmCounted(r, d, -1)
  IN [cond |-> s, table |-> Fresh(r), gone |-> gone,
      mix |-> RouteAll(s, Fresh(r), Opened(mix, gone, {}), InCallOrder(s), TRUE)]
\* Mutant: the cache is not refreshed.
ApplyUncached(x) == cond' = x.cond /\ mix' = x.mix /\ UNCHANGED mDeviceForStrategy
Apply(x) == /\ cond' = x.cond /\ mDeviceForStrategy' = x.table /\ mix' = x.mix

\* The input that setDeviceConnectionState() and setForceUse() move.
Active == SelectSeq(mInputs, LAMBDA i : i \in recording /\ inDevice[i] # "REMOTE_SUBMIX")
FollowInput(q) ==
  /\ inDevice' = [i \in Records |->
                    IF Active # <<>> /\ i = Active[1] /\ InputDevice(q, SourceOf[i]) # "NONE"
                    THEN InputDevice(q, SourceOf[i]) ELSE inDevice[i]]
  /\ UNCHANGED <<mInputs, recording>>
InDeviceOf(d) == CASE d \in Sco -> {"SCO_HEADSET"}
                   [] d \in {"WIRED_HEADSET", "ANLG_DOCK", "ANC_HEADSET"} -> {d}
                   [] OTHER -> {}
----------------------------------------------------------------------------
(* Calls of the policy service.                                              *)
Busy == {c \in Clients : client[c].state # "idle"} \cup Range(mInputs) \cup (Plugs \cap cond.available)
Room == Cardinality(Busy) < MaxBusy
Connect(d) ==
  LET new == InDeviceOf(d)
      x == Attached(d, cond.inputs \cup new)
  IN /\ d \in Plugs \ cond.available /\ Room
     /\ Apply(x)
     /\ IF new \subseteq cond.inputs THEN UNCHANGED inputVars ELSE FollowInput(x.cond)
     /\ UNCHANGED <<mForceDeviceChange, directVars, client>>
\* Mutant: the next output to start is not forced onto the new device.
DisconnectUnforced(d) ==
  LET x == Detached(d, cond.inputs \ InDeviceOf(d))
  IN /\ d \in Plugs \cap cond.available
     /\ Apply(x) /\ Forget(x.gone) /\ FollowInput(x.cond)
     /\ UNCHANGED mForceDeviceChange
Disconnect(d) ==
  LET old == InDeviceOf(d)
      x == Detached(d, cond.inputs \ old)
  IN /\ d \in Plugs \cap cond.available
     /\ Apply(x)
     /\ mForceDeviceChange' = TRUE
     /\ Forget(x.gone)
     /\ IF old \cap cond.inputs = {} THEN UNCHANGED inputVars ELSE FollowInput(x.cond)

Others(q) == OutputsLeft(q, {"primary"})
\* On entry to a call what plays is muted for a moment on every output.
Quieted(q, table, m) ==
  FoldLeft(LAMBDA n, o : Pulsed(q, Pulsed(q, n, "MEDIA", o, table["MEDIA"]),
                                "SONIFICATION", o, table["SONIFICATION"]), m, q.outputs)
SetPhoneState(p) ==
  LET q == checkA2dpSuspend([cond EXCEPT !.phone = p])
      table == Fresh(q)
      wanted == getNewDevice(q, table, "primary")
      device == IF wanted = {} /\ isInCall(cond) THEN mix.device["primary"] ELSE wanted
      left == AllIncall(cond, mix, FALSE)
      quiet == IF isInCall(q) THEN Quieted(q, table, left) ELSE left
      first == setOutputDevice(q, quiet, "primary", device, isInCall(cond) \/ isInCall(q))
  IN /\ p # cond.phone
     /\ cond' = q /\ mDeviceForStrategy' = table
     /\ mix' = AllIncall(q, RouteAll(q, table, first, Others(q), FALSE), TRUE)
     /\ UNCHANGED <<mForceDeviceChange, directVars, client, inputVars>>

Rerouted(q, table, u, m) ==
  LET Reroute(n, o) ==
        LET device == getNewDevice(q, table, o)
            set == setOutputDevice(q, n, o, device, device # {})
        IN IF u \in {"COMMUNICATION", "DOCK", "SYSTEM"} /\ device # {}
           THEN applyStreamVolumes(q, set, o) ELSE set
  IN FoldLeft(Reroute, m, Reverse(q.outputs))
SetForceUse(u, c) ==
  LET q == checkA2dpSuspend([cond EXCEPT !.force[u] = c])
  IN /\ cond' = q /\ mDeviceForStrategy' = Fresh(q)
     /\ mix' = Rerouted(q, Fresh(q), u, mix)
     /\ FollowInput(q)
     /\ UNCHANGED <<mForceDeviceChange, directVars, client>>

\* The direct profile for a request, or none.
DirectFor(device, w) ==
  {o \in Profiles \cap Direct : /\ o = IF w.flag \in Counted THEN w.flag ELSE "hdmi"
                                /\ device \subseteq Supported(o)
                                /\ <<o, w.params>> \in Compatible}
\* selectOutput() of the base class among the outputs that support the device:
\* the one that shares most flags with the request (all direct ones share one),
\* the primary one, the first.
Mixer(device, w) ==
  LET fit == {o \in Range(cond.outputs) : device \subseteq Supported(o)}
      direct == IF w.flag \in Counted THEN fit \cap Direct ELSE {}
  IN IF w.flag \in fit THEN w.flag
     ELSE IF direct # {} THEN CHOOSE o \in FirstIn(direct, cond.outputs) : TRUE
     ELSE IF "primary" \in fit THEN "primary"
     ELSE CHOOSE o \in FirstIn(fit, cond.outputs) : TRUE
Holds(c, o) == client' = [client EXCEPT ![c] = [out |-> o, state |-> "held"]]
GetOutput(c, w) ==
  LET device == Device(cond, Strategy(StreamOf[c]))
  IN /\ client[c].state = "idle" /\ w \in Wants[c] /\ Room
     /\ \/ /\ DirectFor(device, w) = {}
           /\ Holds(c, Mixer(device, w))
           /\ UNCHANGED <<policyVars, directVars>>
        \/ \E o \in DirectFor(device, w) :
             /\ o \in Range(cond.outputs) /\ mParams[o] = w.params
             /\ mDirectOpenCount' = [mDirectOpenCount EXCEPT ![o] = @ + 1]
             /\ Holds(c, o)
             /\ UNCHANGED <<policyVars, mParams>>
        \/ \E o \in DirectFor(device, w) :
             /\ o \notin Range(cond.outputs) \/ mParams[o] # w.params
             /\ LET q == Closed(cond, {o})
                IN \/ /\ cond' = [q EXCEPT !.outputs = Append(@, o)]
                      /\ mix' = Opened(mix, {o}, device)
                      /\ client' = [Lost({o}) EXCEPT ![c] = [out |-> o, state |-> "held"]]
                      /\ mDirectOpenCount' = [mDirectOpenCount EXCEPT ![o] = 1]
                      /\ mParams' = [mParams EXCEPT ![o] = w.params]
                   \/ cond' = q /\ mix' = Opened(mix, {o}, {}) /\ Forget({o})    \* the open fails
             /\ UNCHANGED <<mDeviceForStrategy, mForceDeviceChange>>
     /\ UNCHANGED inputVars

Refresh(q, s) == mDeviceForStrategy' = IF s = "MUSIC" THEN Fresh(q) ELSE mDeviceForStrategy
StartOutput(c) ==
  LET o == client[c].out
      s == StreamOf[c]
      q == [cond EXCEPT !.refs = Counts(cond.refs, o, s, 1)]
      device == getNewDevice(q, Fresh(q), o)
      force == \E p \in Range(q.outputs) \ {o} :
                 mForceDeviceChange \/ (SharesModule(o, p) /\ DeviceOf(mix, p) # device)
      set == setOutputDevice(q, mix, o, device, force)
  IN /\ client[c].state = "held"
     /\ cond' = q
     /\ client' = [client EXCEPT ![c].state = "started"]
     /\ \/ /\ q.refs[o][s] = 1
           /\ mForceDeviceChange' = (mForceDeviceChange /\ ~force)
           /\ mix' = checkAndSetVolume(q, OneIncall(q, set, s, TRUE), o, {s}, FALSE)
           /\ Refresh(q, s)
        \/ /\ q.refs[o][s] # 1
           /\ mix' = OneIncall(q, mix, s, TRUE)
           /\ UNCHANGED <<mDeviceForStrategy, mForceDeviceChange>>
     /\ UNCHANGED <<directVars, inputVars>>

\* The other active outputs of the module move back to their own device.
Restored(q, o, device, m) ==
  LET Restore(n, p) ==
        IF p # o /\ isActive(q, p) /\ SharesModule(o, p) /\ device # DeviceOf(n, p)
        THEN setOutputDevice(q, n, p, getNewDevice(q, Fresh(q), p), TRUE) ELSE n
  IN FoldLeft(Restore, m, q.outputs)
StopOutput(c) ==
  LET o == client[c].out
      s == StreamOf[c]
      q == [cond EXCEPT !.refs = Counts(cond.refs, o, s, -1)]
      device == getNewDevice(q, Fresh(q), o)
      left == OneIncall(cond, mix, s, FALSE)
      quiet == IF s = "VOICE_CALL" /\ "RING" \in Streams /\ q.refs[o]["RING"] # 0
               THEN Muted(q, left, "primary", {"RING"}) ELSE left
  IN /\ client[c].state = "started"
     /\ cond' = q
     /\ client' = [client EXCEPT ![c].state = "held"]
     /\ \/ /\ q.refs[o][s] = 0
           /\ mix' = Restored(q, o, device, setOutputDevice(q, quiet, o, device, FALSE))
           /\ Refresh(q, s)
        \/ q.refs[o][s] # 0 /\ mix' = left /\ UNCHANGED mDeviceForStrategy
     /\ UNCHANGED <<mForceDeviceChange, directVars, inputVars>>

ReleaseOutput(c) ==
  LET o == client[c].out
      released == [client EXCEPT ![c] = Idle]
      left == mDirectOpenCount[o] - 1
  IN /\ client[c].state = "held"
     /\ client' = released
     /\ IF o \notin Direct THEN UNCHANGED <<policyVars, directVars>>
        ELSE /\ mDirectOpenCount' = [mDirectOpenCount EXCEPT ![o] = left]
             /\ IF left = 0 /\ o \in Counted
                THEN /\ cond' = Closed(cond, {o}) /\ mix' = Opened(mix, {o}, {})
                     /\ mParams' = [mParams EXCEPT ![o] = "none"]
                     /\ UNCHANGED <<mDeviceForStrategy, mForceDeviceChange>>
                ELSE UNCHANGED <<policyVars, mParams>>
     /\ UNCHANGED inputVars

VolumeDevice(o) ==
  LET ds == DeviceOf(mix, o)
      first == FirstIn(ds, <<"SPEAKER", "WIRED_HEADSET", "WIRED_HEADPHONE">>)
  IN IF Cardinality(ds) <= 1 THEN OrDefault(ds)
     ELSE IF first # {} THEN first ELSE ds \cap A2dp
VolumeSet(s, device) ==
  LET Set(m, o) == IF device = VolumeDevice(o) THEN checkAndSetVolume(cond, m, o, {s}, FALSE) ELSE m
  IN FoldLeft(Set, mix, cond.outputs)
SetStreamVolumeIndex(s, device) ==
  /\ mix' = VolumeSet(s, device)
  /\ UNCHANGED <<cond, mDeviceForStrategy, mForceDeviceChange, directVars, client, inputVars>>
----------------------------------------------------------------------------
(* Inputs.  The audio service opens an input, starts it, stops and closes it.*)
GetInput(i) ==
  LET device == InputDevice(cond, SourceOf[i])
  IN /\ i \notin Range(mInputs) /\ device # "NONE" /\ Room
     /\ mInputs' = Append(mInputs, i)
     /\ inDevice' = [inDevice EXCEPT ![i] = device]
     /\ UNCHANGED <<policyVars, directVars, client, recording>>
StartInput(i) ==
  LET wanted == InputDevice(cond, SourceOf[i])
      device == IF wanted = "NONE" THEN inDevice[i] ELSE wanted
  IN /\ i \in Range(mInputs) \ recording
     /\ inDevice' = [inDevice EXCEPT ![i] = device]
     /\ recording' = recording \cup {i}
     /\ \/ /\ device = "REMOTE_SUBMIX" /\ "REMOTE_SUBMIX" \notin cond.available
           /\ "submix" \in Profiles
           /\ Apply(Attached("REMOTE_SUBMIX", cond.inputs))
           /\ UNCHANGED mForceDeviceChange
        \/ UNCHANGED policyVars    \* no submix, or its outputs cannot be opened
     /\ UNCHANGED <<mInputs, directVars, client>>
StopInput(i) ==
  LET off == inDevice[i] = "REMOTE_SUBMIX" /\ "REMOTE_SUBMIX" \in cond.available
      x == IF off THEN Detached("REMOTE_SUBMIX", cond.inputs)
           ELSE [cond |-> cond, table |-> mDeviceForStrategy, mix |-> mix, gone |-> {}]
  IN /\ i \in recording
     /\ recording' = recording \ {i}
     /\ cond' = x.cond /\ mDeviceForStrategy' = x.table
     /\ mix' = setOutputDevice(x.cond, x.mix, "primary",
                               getNewDevice(x.cond, x.table, "primary"), TRUE)
     /\ mForceDeviceChange' = (mForceDeviceChange \/ off)
     /\ Forget(x.gone)
     /\ UNCHANGED <<mInputs, inDevice>>
ReleaseInput(i) ==
  /\ i \in Range(mInputs) \ recording
  /\ mInputs' = Without(mInputs, {i})
  /\ inDevice' = [inDevice EXCEPT ![i] = "NONE"]
  /\ UNCHANGED <<policyVars, directVars, client, recording>>
----------------------------------------------------------------------------
Calm == [available |-> {"SPEAKER", "EARPIECE"},
         inputs |-> {"BUILTIN_MIC", "VOICE_CALL", "REMOTE_SUBMIX"},
         phone |-> "NORMAL", force |-> [u \in Usages |-> "NONE"],
         sco |-> FALSE, suspended |-> FALSE, outputs |-> <<"primary", "fast">>,
         refs |-> [o \in Outputs |-> [s \in Streams |-> 0]]]
Init ==
  /\ cond = Calm /\ mDeviceForStrategy = Fresh(Calm) /\ mForceDeviceChange = FALSE
  /\ mix = [device |-> [o \in Outputs |-> IF o \in {"primary", "fast"} THEN {"SPEAKER"} ELSE {}],
            byDevice |-> [o \in Outputs |-> {}], silent |-> [o \in Outputs |-> {}],
            mutes |-> [o \in Outputs |-> [s \in Streams |-> 0]],
            routed |-> {"SPEAKER"}]
  /\ mDirectOpenCount = [o \in Outputs |-> 0] /\ mParams = [o \in Outputs |-> "none"]
  /\ client = [c \in Clients |-> Idle]
  /\ mInputs = <<>> /\ inDevice = [i \in Records |-> "NONE"] /\ recording = {}

Tracks == \E c \in Clients :
  StartOutput(c) \/ StopOutput(c) \/ ReleaseOutput(c) \/ \E w \in Wants[c] : GetOutput(c, w)
Conditions == \/ \E d \in Plugs : Connect(d) \/ Disconnect(d)
              \/ \E p \in Phones : SetPhoneState(p)
              \/ \E f \in Forces : SetForceUse(f[1], f[2])
              \/ \E s \in Streams, device \in {VolumeDevice(o) : o \in Range(cond.outputs)} :
                   SetStreamVolumeIndex(s, device)
Capture == \E i \in Records : GetInput(i) \/ StartInput(i) \/ StopInput(i) \/ ReleaseInput(i)
Bounded == \A o \in Outputs, s \in Streams : mix'.mutes[o][s] <= MaxMutes
Next == (Tracks \/ Conditions \/ Capture) /\ Bounded
Spec == Init /\ [][Next]_vars
----------------------------------------------------------------------------
(* Properties.                                                               *)

\* Every variable keeps its type.
TypeOK ==
  /\ CondType(cond) /\ MixType(mix) /\ mDeviceForStrategy \in Tables
  /\ mForceDeviceChange \in BOOLEAN
  /\ mDirectOpenCount \in [Outputs -> Nat]
  /\ client \in [Clients -> ClientType]
  /\ Range(mInputs) \subseteq Records /\ recording \subseteq Range(mInputs)
  /\ inDevice \in [Records -> InDevices \cup {"NONE"}]

PlayingOn(o, s) == {c \in Clients : /\ client[c].state = "started" /\ StreamOf[c] = s
                                    /\ o \in Parts(client[c].out) \cup {client[c].out}}
\* The use count of a stream on an output is the number of tracks that play it
\* there, those of the duplicated output and FM included, however outputs have
\* been closed and reopened under their tracks.
RefsMatch ==
  \A o \in Outputs, s \in Streams :
    cond.refs[o][s] = Cardinality(PlayingOn(o, s))
      + IF o = "primary" /\ s = "MUSIC" /\ "FM" \in cond.available THEN 1 ELSE 0

\* A direct output counts the tracks that hold it, and a counted one is closed
\* exactly when there are none left.
DirectCounted ==
  \A o \in Direct \cap Profiles :
    LET holders == {c \in Clients : client[c].out = o /\ client[c].state \in {"held", "started"}}
    IN /\ mDirectOpenCount[o] = Cardinality(holders)
       /\ o \in Counted => (o \in Range(cond.outputs) <=> holders # {})

\* The cache holds what the conditions select: no call leaves it behind, in
\* whatever order it changes devices, the suspension of A2DP and outputs.
CacheFresh == \A t \in Strategies : mDeviceForStrategy[t] = Device(cond, t)

\* A2DP is suspended exactly while a SCO headset is connected and forced, and
\* the phone rings or is in a call, as the conditions of checkA2dpSuspend() have
\* it: every call that changes one of the three has it look again.
SuspendedForSco == cond.suspended <=> ScoBusy(cond)

\* The comment above these conditions restores A2DP only when the phone neither
\* rings nor is in a call (AudioPolicyManagerALSA.cpp:2133-2137).
RestoredOutOfCalls ==
  [][cond.suspended /\ ~cond'.suspended => cond'.phone \notin {"IN_CALL", "RINGTONE"}]_vars

FmForced(q) == "FM" \in q.available /\ q.force["MEDIA"] = "SPEAKER"

\* In a call the primary module is on the device of the phone strategy,
\* whatever was routed last and for which output.  (FM that is forced to the
\* speaker adds it to the SCO headset of a call, and the voip output takes only
\* one device of the two: there the route may be the speaker alone.)
InCallRoute ==
  (isInCall(cond) /\ ("voip_rx" \in Profiles => ~FmForced(cond)))
    => mix.routed = PhoneDevice(cond, FALSE)

\* What plays, plays on a device that is connected: not on one that has gone,
\* however long no output had anything to say about it.  (While the remote
\* submix is up, music on an output that cannot reach it stays where it was.
\* The property is about tracks that do not open the voip and HDMI outputs:
\* these ignore a selected device that they do not support.)
PlaysOnPresent ==
  (/\ "REMOTE_SUBMIX" \notin cond.available
   /\ \E o \in Range(cond.outputs) : isActive(cond, o)) => mix.routed \subseteq cond.available

\* A stream with a mute count is silent on that output.
SilentWhileMuted ==
  \A o \in Range(cond.outputs), s \in Streams \ {"VOICE_CALL", "BLUETOOTH_SCO", "ENFORCED_AUDIBLE"} :
    mix.mutes[o][s] > 0 => s \in mix.silent[o]

\* A stream that plays without a mute count is not silent.
AudibleUnlessMuted ==
  \A o \in Range(cond.outputs), s \in Streams :
    (cond.refs[o][s] > 0 /\ mix.mutes[o][s] = 0 /\ ~Refused(cond, s)) => s \notin mix.silent[o]
=============================================================================
