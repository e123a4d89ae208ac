------------------------------ MODULE UseCases ------------------------------
(* Routing and use cases of the audio HAL (alsa_sound/ALSADevice.cpp,        *)
(* AudioHardwareALSA.cpp and the streams): the device list, the verb and the *)
(* modifiers enabled in the use case manager, the devices switched on, the   *)
(* three calls, VoIP, FM, sessions, playback and capture streams.            *)
(* A handle and its use case have one name: the code lists a use case at     *)
(* most once, under its name as a verb or under its name as a modifier.      *)
(* A section under mLock is one action; a telephony message, which stores    *)
(* the VSID and the call state without mLock, is split: the threads of the   *)
(* streams may route in between.  The policy manager calls one open or close *)
(* of a stream at a time, so the two sections of a destructor are one        *)
(* action.  FM takes no lock at all; it is one action here all the same.     *)
EXTENDS Naturals, FiniteSets

CONSTANTS Outs,        \* playback streams
          Sessions,    \* low-power and tunnel sessions
          Captures,    \* capture streams
          Calls,       \* VSIDs of voice calls
          Outputs, Inputs,   \* devices that can be routed to
          CallStates,  \* that telephony asks for
          Faults,      \* opens of PCM devices that may fail
          Modes,       \* that the phone enters
          MaxListed    \* bound: handles in the device list

Directions == {"in", "out"}    \* the two streams of a VoIP call
Kinds == Outs \cup Sessions \cup Captures \cup Calls \cup {"voip", "fm"}
ASSUME NamesAssumption == "primary" \in Outs /\ "voice" \in Calls
ASSUME KindsAssumption ==
  /\ Calls \cap (Outs \cup Sessions \cup Captures \cup {"voip", "fm", "none"}) = {}
  /\ Outs \cap (Sessions \cup Captures \cup {"voip", "fm"}) = {}
  /\ Sessions \cap (Captures \cup {"voip", "fm"}) = {}
  /\ Captures \cap {"voip", "fm"} = {} /\ ({"Inactive"} \cup Directions) \cap Kinds = {}
ASSUME DevicesAssumption ==
  /\ "speaker" \in Outputs /\ "mic" \in Inputs
  /\ Outputs \subseteq {"speaker", "headset", "earpiece"}
  /\ Inputs \subseteq {"mic", "headsetMic", "voiceCall"}
ASSUME CallStatesAssumption ==
  {"INACTIVE", "ACTIVE"} \subseteq CallStates
  /\ CallStates \subseteq {"INACTIVE", "ACTIVE", "HOLD", "LOCAL_HOLD"}
ASSUME ModesAssumption ==
  "NORMAL" \in Modes
  /\ Modes \subseteq {"NORMAL", "RINGTONE", "IN_CALL", "IN_COMMUNICATION"}

VARIABLES
  ucm,                 \* the use case manager and ALSADevice's names, see UcmType
  mDeviceList,         \* use cases that have a handle in the list
  role,                \* "verb" or "mod": which name the handle carries
  open,                \* use cases whose handle is not NULL
  ssr,                 \* mSSRComplete
  mMode, mCallState, mVSID, callState,   \* callState: mVoiceCallState, ...
  control, asked,      \* where setMode or setParameters is, its call_state
  mCurDevice, mCurRxDevice,
  live, mDevices,      \* streams that exist; the device of each capture
  voipCount,           \* mVoipInStreamCount and mVoipOutStreamCount
  mIsFmActive

listVars   == <<mDeviceList, role, open>>
callVars   == <<mMode, mCallState, mVSID, callState, control, asked>>
deviceVars == <<mCurDevice, mCurRxDevice>>
streamVars == <<live, mDevices>>
vars == <<ucm, listVars, ssr, callVars, deviceVars, streamVars, voipCount, mIsFmActive>>

----------------------------------------------------------------------------
(* The use case manager.  A device has a name of its own in a call.          *)
None == <<"none", FALSE>>
TwoWay   == Calls \cup {"voip"} \cup (Captures \cap {"inCallRec"})
PlayType == Outs \cup Sessions \cup {"fm"} \cup TwoWay
RecType  == Captures \cup TwoWay
OutNames == (Outputs \cup {"earpiece"}) \X BOOLEAN
InNames  == ({"mic", "headsetMic"}) \X BOOLEAN

UcmType ==
  [verb : Kinds \cup {"Inactive"}, mods : SUBSET Kinds,
   on : SUBSET (OutNames \cup InNames),    \* devices switched on
   rx : OutNames \cup {None},              \* mCurRxUCMDevice
   tx : InNames \cup {None},               \* mCurTxUCMDevice
   prev : SUBSET (Outputs \cup {"earpiece"}),   \* outputs of mPrevDevice
   path : [Kinds -> (OutNames \cup {None}) \X (InNames \cup {None})]]
                                           \* what a use case is routed through

Enabled(u) == ({u.verb} \ {"Inactive"}) \cup u.mods
NoPath == <<None, None>>

\* snd_use_case_set: a use case is routed through the devices of that moment.
Disabled(u, uses) ==
  [u EXCEPT !.verb = IF @ \in uses THEN "Inactive" ELSE @, !.mods = @ \ uses,
            !.path = [k \in Kinds |-> IF k \in uses THEN NoPath ELSE @[k]]]
EnabledAgain(u, uses, verb) ==
  [u EXCEPT !.verb = IF verb \in uses THEN verb ELSE @,
            !.mods = @ \cup (uses \ {verb}),
            !.path = [k \in Kinds |->
                        IF k \in uses THEN <<u.rx, u.tx>> ELSE @[k]]]
Enable(u, k, r) == EnabledAgain(u, {k}, IF r = "verb" THEN k ELSE "Inactive")

\* The use case is a verb if there is none.
FreeRole(u) == IF u.verb = "Inactive" THEN "verb" ELSE "mod"

InCallMode(mode) == mode \in {"IN_CALL", "IN_COMMUNICATION"}

\* switchDevice: in a call, an output has its input and the other way round;
\* an input alone keeps the outputs that were routed before.
Partner(d) ==
  CASE d = "headset" -> "headsetMic" [] d = "headsetMic" -> "headset"
    [] d \in {"speaker", "earpiece"} -> "mic" [] OTHER -> d
Paired(u, device, mode) ==
  IF ~InCallMode(mode) THEN {device}
  ELSE IF device \in Outputs THEN {device, Partner(device)}
  ELSE {device} \cup (IF u.prev = {} THEN {"earpiece"} ELSE u.prev)

\* getUCMDevice
RxName(u, devices, mode) ==
  IF \E d \in devices : d \in Outputs \cup {"earpiece"}
    THEN <<CHOOSE d \in devices : d \in Outputs \cup {"earpiece"}, InCallMode(mode)>>
    ELSE None
TxName(u, devices, mode) ==
  IF "mic" \in devices THEN <<"mic", mode = "IN_CALL">>
  ELSE IF "headsetMic" \in devices THEN <<"headsetMic", InCallMode(mode)>>
  ELSE IF "voiceCall" \in devices THEN u.tx
  ELSE None

\* Use cases that are taken off a device before it is switched off: those
\* that play, and those that only record.
DeroutedOneWay(u, rxMoves, txMoves) ==
  {k \in Enabled(u) \ TwoWay : (rxMoves /\ k \in PlayType) \/ (txMoves /\ k \in RecType)}
Derouted(u, rxMoves, txMoves) ==
  {k \in Enabled(u) : \/ rxMoves /\ k \in PlayType
                      \/ txMoves /\ k \in RecType \ PlayType}

SwitchedOnUnchecked(rx, tx) == {rx, tx}
SwitchedOn(rx, tx) == {rx, tx} \ {None}
NewName(name, current) == IF name = None THEN current ELSE name

Switched(u, devices, rx, tx, rxMoves, txMoves) ==
  LET taken == Derouted(u, rxMoves, txMoves)
      off == (IF rxMoves THEN {u.rx} ELSE {}) \cup (IF txMoves THEN {u.tx} ELSE {})
      there == [Disabled(u, taken) EXCEPT
                  !.on = (@ \ off) \cup SwitchedOn(rx, tx),
                  !.rx = NewName(rx, @), !.tx = NewName(tx, @),
                  !.prev = devices \cap (Outputs \cup {"earpiece"})]
  IN EnabledAgain(there, taken, u.verb)

OutputSwitch(u, rx, tx, mode) ==
  rx # None /\ tx # None /\ InCallMode(mode) /\ rx # u.rx
InCallDevSwitch(u, rx, tx, mode) ==
  rx # None /\ tx # None /\ InCallMode(mode) /\ (rx # u.rx \/ tx # u.tx)

Route(u, device, mode) ==
  LET devices == Paired(u, device, mode)
      rx == RxName(u, devices, mode)
      tx == TxName(u, devices, mode)
      moves(name, current) == /\ name # None /\ current # None
                              /\ \/ ssr \/ name # current
                                 \/ InCallDevSwitch(u, rx, tx, mode)
  IN Switched(u, devices, rx, tx, moves(rx, u.rx), moves(tx, u.tx))

\* disableDevice: the devices nobody uses any more are switched off, their
\* names are kept.  What is disabled is what the handle is named.
UnusedByModifiers(u) ==
  (IF u.mods \cap RecType = {} THEN {u.tx} ELSE {})
  \cup (IF Enabled(u) \cap PlayType = {} THEN {u.rx} ELSE {})
Unused(u) ==
  (IF Enabled(u) \cap RecType = {} THEN {u.tx} ELSE {})
  \cup (IF Enabled(u) \cap PlayType = {} THEN {u.rx} ELSE {})
RemovedModifier(u, k, r) ==
  [u EXCEPT !.mods = @ \ {k}, !.path = [@ EXCEPT ![k] = NoPath]]
Removed(u, k, r) ==
  [u EXCEPT !.verb = IF r = "verb" /\ @ = k THEN "Inactive" ELSE @,
            !.mods = IF r = "mod" THEN @ \ {k} ELSE @,
            !.path = [@ EXCEPT ![k] = NoPath]]
DisableDevice(u, k, r) ==
  LET less == Removed(u, k, r) IN [less EXCEPT !.on = @ \ Unused(less)]

\* close and standby: only a handle that is not NULL has a use case to disable.
Closed(u, k) == IF k \in open THEN DisableDevice(u, k, role[k]) ELSE u

----------------------------------------------------------------------------
TypeOK ==
  /\ ucm \in UcmType
  /\ mDeviceList \in SUBSET Kinds /\ role \in [Kinds -> {"verb", "mod"}]
  /\ open \in SUBSET Kinds /\ ssr \in BOOLEAN
  /\ mMode \in Modes
  /\ mCallState \in CallStates
  /\ mVSID \in Calls \cup {"none"}
  /\ callState \in [Calls -> CallStates]
  /\ control \in {"idle", "state", "route"}
  /\ asked \in CallStates
  /\ mCurDevice \in Outputs \cup Inputs /\ mCurRxDevice \in Outputs
  /\ live \in SUBSET (Outs \cup Sessions \cup Captures \cup Directions)
  /\ mDevices \in [Captures -> Inputs]
  /\ voipCount \in [Directions -> 0..1]
  /\ mIsFmActive \in BOOLEAN

\* After the start of the system: the primary output has been opened on the
\* speaker and has gone to standby, which has named the microphone (fBoot).
Init ==
  /\ ucm = [verb |-> "Inactive", mods |-> {}, on |-> {},
            rx |-> <<"speaker", FALSE>>, tx |-> <<"mic", FALSE>>,
            prev |-> {"speaker"}, path |-> [k \in Kinds |-> NoPath]]
  /\ mDeviceList = {"primary"} /\ role = [k \in Kinds |-> "verb"]
  /\ open = {} /\ ssr = FALSE
  /\ mMode = "NORMAL" /\ mCallState = "INACTIVE" /\ mVSID = "none"
  /\ callState = [v \in Calls |-> "INACTIVE"]
  /\ control = "idle" /\ asked = "INACTIVE"
  /\ mCurDevice = "speaker" /\ mCurRxDevice = "speaker"
  /\ live = {"primary"} /\ mDevices = [k \in Captures |-> "mic"]
  /\ voipCount = [s \in Directions |-> 0]
  /\ mIsFmActive = FALSE

----------------------------------------------------------------------------
(* Opening a handle: choose the name, route, enable the use case, open.  The *)
(* PCM device may fail to open ("bad": the handle is not NULL and its use    *)
(* case stays enabled) or refuse its parameters ("params": standby).         *)
How(call) == IF call \in Faults THEN {"ok", "bad", "params"} ELSE {"ok"}

Opened(u, k, r, how) ==
  LET up == Enable(u, k, r) IN IF how = "params" THEN DisableDevice(up, k, r) ELSE up

Opening(k, device, mode, how) ==
  LET r == FreeRole(ucm) IN
  /\ role' = [role EXCEPT ![k] = r]
  /\ ucm' = Opened(Route(ucm, device, mode), k, r, how)
  /\ open' = IF how = "params" THEN open \ {k} ELSE open \cup {k}

\* The name of a closed handle is chosen anew before it is used: forget it.
Closing(k) == /\ ucm' = Closed(ucm, k) /\ open' = open \ {k}
              /\ role' = [role EXCEPT ![k] = "verb"]

\* openOutputStream; the policy manager opens each output once.  There is one
\* session at a time, and one that fails to open is not listed.
OpenOut(k, device, how) ==
  /\ k \in (Outs \cup Sessions) \ mDeviceList
  /\ k \in Sessions => live \cap Sessions = {}
  /\ how \in How(IF k \in Outs THEN "openOut" ELSE "session")
  /\ IF k \in Outs \/ how = "ok"
       THEN Opening(k, device, mMode, how) /\ mDeviceList' = mDeviceList \cup {k}
       ELSE /\ ucm' = Opened(Route(ucm, device, mMode), k, FreeRole(ucm), "params")
            /\ UNCHANGED listVars
  /\ live' = IF how = "ok" THEN live \cup {k} ELSE live
  /\ UNCHANGED <<ssr, callVars, deviceVars, mDevices, voipCount, mIsFmActive>>

\* AudioStreamOutALSA::write on a handle that is closed.
Write(k, how) ==
  /\ k \in (live \cap Outs) \ open /\ how \in How("write")
  /\ Opening(k, mCurRxDevice, mMode, how)
  /\ UNCHANGED <<mDeviceList, ssr, callVars, deviceVars, streamVars, voipCount, mIsFmActive>>

\* The error path of write: close and open again, after a restart of the DSP
\* with every use case taken off its device and put back.
Recover(k, how) ==
  /\ k \in live \cap Outs \cap open /\ how \in How("write")
  /\ LET u == IF ssr THEN Route(ucm, mCurRxDevice, mMode) ELSE ucm IN
       IF how = "params"
         THEN ucm' = DisableDevice(u, k, role[k]) /\ open' = open \ {k}
         ELSE ucm' = u /\ UNCHANGED open
  /\ ssr' = FALSE
  /\ UNCHANGED <<mDeviceList, role, callVars, deviceVars, streamVars, voipCount, mIsFmActive>>

StandbyOut(k) ==
  /\ k \in live \cap (Outs \cup Sessions) \cap open
  /\ Closing(k)
  /\ UNCHANGED <<mDeviceList, ssr, callVars, deviceVars, streamVars, voipCount, mIsFmActive>>

\* The destructor: close(), then the handle is taken off the list.
CloseOut(k) ==
  /\ k \in (live \cap (Outs \cup Sessions)) \ {"primary"}
  /\ Closing(k)
  /\ mDeviceList' = mDeviceList \ {k} /\ live' = live \ {k}
  /\ UNCHANGED <<ssr, callVars, deviceVars, mDevices, voipCount, mIsFmActive>>

----------------------------------------------------------------------------
(* Capture streams.  An in-call recording is one that is opened, and read,   *)
(* in a call.                                                                *)
FitsMode(k, device) ==
  IF k = "inCallRec" THEN device = "voiceCall" /\ mMode = "IN_CALL"
                     ELSE device # "voiceCall"

OpenIn(k, device) ==
  /\ k \in Captures \ live /\ FitsMode(k, device)
  /\ mDeviceList' = mDeviceList \cup {k} /\ live' = live \cup {k}
  /\ mDevices' = [mDevices EXCEPT ![k] = device]
  /\ UNCHANGED <<ucm, role, open, ssr, callVars, deviceVars, voipCount, mIsFmActive>>

Read(k, how) ==
  /\ k \in (live \cap Captures) \ open /\ FitsMode(k, mDevices[k])
  /\ how \in How("read")
  /\ Opening(k, mDevices[k], mMode, how)
  /\ UNCHANGED <<mDeviceList, ssr, callVars, deviceVars, streamVars, voipCount, mIsFmActive>>

StandbyIn(k) ==
  /\ k \in live \cap Captures \cap open
  /\ Closing(k)
  /\ UNCHANGED <<mDeviceList, ssr, callVars, deviceVars, streamVars, voipCount, mIsFmActive>>

CloseIn(k) ==
  /\ k \in live \cap Captures
  /\ Closing(k)
  /\ mDeviceList' = mDeviceList \ {k} /\ live' = live \ {k}
  /\ UNCHANGED <<ssr, callVars, deviceVars, mDevices, voipCount, mIsFmActive>>

----------------------------------------------------------------------------
(* Routing.  routeCall starts, ends or moves the call mVSID as mCallState    *)
(* asks; what it does not route goes on to the plain route.                  *)
AnyCall == \E v \in Calls : callState[v] # "INACTIVE"
PlainMode == IF AnyCall /\ mMode = "RINGTONE" THEN "IN_CALL" ELSE mMode

StartsCall == /\ mVSID # "none" /\ mCallState = "ACTIVE" /\ mMode = "IN_CALL"
              /\ callState[mVSID] = "INACTIVE"
EndsActiveCall == /\ mVSID # "none" /\ mCallState = "INACTIVE"
                  /\ callState[mVSID] = "ACTIVE"
EndsCall   == /\ mVSID # "none" /\ mCallState = "INACTIVE"
              /\ callState[mVSID] # "INACTIVE"
MovesUnlisted == mVSID # "none" /\ mCallState \notin {"INACTIVE", callState[mVSID]}
MovesCall  == /\ mVSID # "none" /\ mCallState # "INACTIVE"
              /\ callState[mVSID] \notin {"INACTIVE", mCallState}
              /\ \/ mVSID \in mDeviceList
                 \/ callState[mVSID] = "HOLD" /\ mCallState = "ACTIVE"

\* enableVoiceCall.  If the call cannot start its handle is closed and erased
\* and the device is routed without it.
StartCall(device, how) ==
  LET r == FreeRole(ucm)
      up == Enable(Route(ucm, device, mMode), mVSID, r) IN
  IF how = "ok"
    THEN /\ ucm' = up /\ role' = [role EXCEPT ![mVSID] = r]
         /\ mDeviceList' = mDeviceList \cup {mVSID} /\ open' = open \cup {mVSID}
         /\ callState' = [callState EXCEPT ![mVSID] = "ACTIVE"]
    ELSE /\ ucm' = Route(DisableDevice(up, mVSID, r), device, PlainMode)
         /\ UNCHANGED <<listVars, callState>>

\* disableVoiceCall: close, then route.
EndCall(device) ==
  /\ ucm' = IF mVSID \in mDeviceList THEN Route(Closed(ucm, mVSID), device, mMode)
                                     ELSE ucm
  /\ mDeviceList' = mDeviceList \ {mVSID} /\ open' = open \ {mVSID}
  /\ role' = [role EXCEPT ![mVSID] = "verb"]
  /\ callState' = [callState EXCEPT ![mVSID] = "INACTIVE"]

DoRouting(device) ==
  /\ mCurDevice' = device
  /\ mCurRxDevice' = IF device \in Outputs THEN device ELSE mCurRxDevice
  /\ \/ StartsCall /\ \E how \in How("voice") \ {"params"} : StartCall(device, how)
     \/ EndsCall /\ EndCall(device)
     \/ /\ MovesCall
        /\ callState' = [callState EXCEPT ![mVSID] = mCallState]
        /\ UNCHANGED <<ucm, listVars>>
     \/ /\ ~StartsCall /\ ~EndsCall /\ ~MovesCall
        /\ ucm' = Route(ucm, device, PlainMode)
        /\ UNCHANGED <<listVars, callState>>

\* setParameters of a stream, from the stream's thread.
RouteOut(device) ==
  /\ DoRouting(device)
  /\ UNCHANGED <<ssr, mMode, mCallState, mVSID, control, asked, streamVars,
                 voipCount, mIsFmActive>>

RouteIn(k, device) ==
  /\ k \in live \cap Captures /\ FitsMode(k, device)
  /\ mDevices' = [mDevices EXCEPT ![k] = device]
  /\ IF device = "voiceCall" THEN UNCHANGED <<ucm, listVars, callState, deviceVars>>
                             ELSE DoRouting(device)
  /\ UNCHANGED <<ssr, mMode, mCallState, mVSID, control, asked, live,
                 voipCount, mIsFmActive>>

----------------------------------------------------------------------------
(* Control calls come one at a time, without mLock; streams come in between. *)
SetMode(mode) ==
  /\ control = "idle" /\ mode # mMode /\ mMode' = mode
  /\ IF mode = "IN_CALL" /\ mCallState = "INACTIVE"
       THEN mCallState' = "ACTIVE" /\ mVSID' = "voice" /\ UNCHANGED control
     ELSE IF mode = "NORMAL" /\ mCallState # "INACTIVE"
       THEN mCallState' = "INACTIVE" /\ control' = "route" /\ UNCHANGED mVSID
     ELSE UNCHANGED <<mCallState, mVSID, control>>
  /\ UNCHANGED <<ucm, listVars, ssr, callState, asked, deviceVars, streamVars,
                 voipCount, mIsFmActive>>

\* setParameters(vsid, call_state) of telephony, in up to three steps.  One that
\* says nothing new is a ControlRoute.
Telephone(v, state) ==
  /\ control = "idle" /\ (mVSID # v \/ mCallState # state)
  /\ AnyCall \/ state = "ACTIVE" \/ (state = "INACTIVE" /\ mVSID = v)
  /\ mVSID' = v /\ asked' = state /\ control' = "state"
  /\ UNCHANGED <<ucm, listVars, ssr, mMode, mCallState, callState, deviceVars,
                 streamVars, voipCount, mIsFmActive>>

SetCallState ==
  /\ control = "state"
  /\ mCallState' = asked /\ asked' = "INACTIVE"
  /\ control' = IF AnyCall THEN "route" ELSE "idle"
  /\ UNCHANGED <<ucm, listVars, ssr, mMode, mVSID, callState, deviceVars,
                 streamVars, voipCount, mIsFmActive>>

\* The doRouting(0) that ends a message, or that follows TTY, fluence and noise
\* cancelling: those change nothing that is modelled but the routing.
ControlRoute ==
  /\ control \in {"idle", "route"} /\ control' = "idle"
  /\ DoRouting(mCurDevice)
  /\ UNCHANGED <<ssr, mMode, mCallState, mVSID, asked, streamVars, voipCount, mIsFmActive>>

\* setParameters(ADSP): the DSP has restarted, or is about to.
SetSSR(complete) ==
  /\ control = "idle" /\ ssr' = complete
  /\ UNCHANGED <<ucm, listVars, callVars, deviceVars, streamVars, voipCount, mIsFmActive>>

----------------------------------------------------------------------------
(* handleFm lists the handle, routes, enables and starts.  A start that      *)
(* fails closes the handle and leaves it in the list.                        *)
FmOn(device, how) ==
  /\ control = "idle" /\ ~mIsFmActive /\ mIsFmActive' = TRUE
  /\ how \in How("fm") \ {"bad"}
  /\ Opening("fm", device, mMode, how)
  /\ mDeviceList' = mDeviceList \cup {"fm"}
  /\ UNCHANGED <<ssr, callVars, deviceVars, streamVars, voipCount>>

FmOff ==
  /\ control = "idle" /\ mIsFmActive /\ mIsFmActive' = FALSE
  /\ Closing("fm") /\ mDeviceList' = mDeviceList \ {"fm"}
  /\ UNCHANGED <<ssr, callVars, deviceVars, streamVars, voipCount>>

----------------------------------------------------------------------------
(* VoIP: an input and an output stream share one handle, and counts tell     *)
(* which of them is the last.  A call that fails to start leaves its handle  *)
(* in the list; a stream whose parameters are refused is destroyed.          *)
OpenVoip(s, how) ==
  /\ s \notin live /\ voipCount[s] = 0
  /\ LET first == "voip" \notin mDeviceList
         r == IF first THEN FreeRole(ucm) ELSE role["voip"]
         up == IF first
                 THEN Enable(Route(ucm, mCurDevice, "IN_COMMUNICATION"), "voip", r)
                 ELSE ucm
         gone == how = "refused" /\ \A t \in Directions : voipCount[t] = 0
     IN /\ how \in {"ok"} \cup (IF "voip" \in Faults THEN {"refused"} ELSE {})
                         \cup (IF "voip" \in Faults /\ first THEN {"bad"} ELSE {})
        /\ ucm' = IF gone /\ (first \/ "voip" \in open)
                    THEN DisableDevice(up, "voip", r) ELSE up
        /\ role' = [role EXCEPT !["voip"] = IF gone THEN "verb" ELSE r]
        /\ open' = IF gone THEN open \ {"voip"}
                   ELSE IF first THEN open \cup {"voip"} ELSE open
        /\ mDeviceList' = IF gone THEN mDeviceList \ {"voip"}
                                 ELSE mDeviceList \cup {"voip"}
  /\ live' = IF how = "ok" THEN live \cup {s} ELSE live
  /\ voipCount' = [voipCount EXCEPT ![s] = IF how = "ok" THEN 1 ELSE 0]
  /\ UNCHANGED <<ssr, callVars, deviceVars, mDevices, mIsFmActive>>

OneLeftOrBoth(counts) == counts["in"] = 1 /\ counts["out"] = 1
OneLeft(counts) == counts["in"] # counts["out"]

\* close(): while a stream is counted the counts alone change.
\* ~ALSAStreamOps: unless one side is left, the handle goes.
CloseVoip(s) ==
  /\ s \in live /\ live' = live \ {s}
  /\ LET left == [voipCount EXCEPT ![s] = 0] IN
     IF OneLeft(left)
       THEN voipCount' = left /\ UNCHANGED <<ucm, listVars>>
       ELSE /\ voipCount' = [t \in Directions |-> 0]
            /\ Closing("voip") /\ mDeviceList' = mDeviceList \ {"voip"}
  /\ UNCHANGED <<ssr, callVars, deviceVars, mDevices, mIsFmActive>>

----------------------------------------------------------------------------
Playback ==
  \/ \E k \in Outs \cup Sessions :
       \/ \E d \in Outputs, how \in {"ok", "bad", "params"} : OpenOut(k, d, how)
       \/ \E how \in How("write") : Write(k, how) \/ Recover(k, how)
       \/ StandbyOut(k)
       \/ CloseOut(k)
  \/ \E d \in Outputs : RouteOut(d)
Capture ==
  \E k \in Captures :
    \/ \E d \in Inputs : OpenIn(k, d) \/ RouteIn(k, d)
    \/ \E how \in How("read") : Read(k, how)
    \/ StandbyIn(k)
    \/ CloseIn(k)
Control ==
  \/ \E mode \in Modes : SetMode(mode)
  \/ \E v \in Calls, state \in CallStates : Telephone(v, state)
  \/ SetCallState
  \/ ControlRoute
  \/ \E complete \in BOOLEAN : SetSSR(complete)
Fm == \/ \E d \in Outputs, how \in How("fm") : FmOn(d, how)
      \/ FmOff
Voip ==
  \E s \in Directions : \/ \E how \in {"ok", "bad", "refused"} : OpenVoip(s, how)
                        \/ CloseVoip(s)

Next == (Playback \/ Capture \/ Control \/ Fm \/ Voip)
        /\ Cardinality(mDeviceList') <= MaxListed

Spec == Init /\ [][Next]_vars

----------------------------------------------------------------------------
\* A call has a state other than INACTIVE exactly while its handle is in the
\* device list and open, through every start, failed start, hold and end
\* (routeCall, enableVoiceCall, disableVoiceCall).
CallsListed ==
  \A v \in Calls : /\ callState[v] # "INACTIVE" <=> v \in mDeviceList
                   /\ v \in mDeviceList <=> v \in open

\* What is enabled in the use case manager is what has an open handle, under
\* the name, verb or modifier, that the handle carries: after any sequence of
\* opens, standbys, failures and reroutes every use case can be disabled.
EnabledIsOpen ==
  \A k \in Kinds : /\ ucm.verb = k <=> k \in open /\ role[k] = "verb"
                   /\ k \in ucm.mods <=> k \in open /\ role[k] = "mod"

\* A use case that plays goes through the current output, which is on: a
\* change of device by anyone takes along all that plays, and no close
\* switches off what another use case plays through.
PlaysThroughCurrent ==
  \A k \in Enabled(ucm) \cap PlayType :
    ucm.path[k][1] = ucm.rx /\ ucm.rx \in ucm.on

\* A use case that only records goes through the current input, which is on.
RecordsThroughCurrent ==
  \A k \in Enabled(ucm) \cap (RecType \ PlayType) :
    ucm.path[k][2] = ucm.tx /\ ucm.tx \in ucm.on

\* When control is idle and the call telephony speaks of is to be inactive, it
\* is down, whatever streams have routed while the message was half stored.
EndedCallIsDown ==
  control = "idle" /\ mCallState = "INACTIVE" /\ mVSID # "none"
    => callState[mVSID] = "INACTIVE"

\* A VoIP stream has the shared handle listed and open, and it is counted: the
\* first of two streams to close does not take the handle from the second, the
\* second does not leave it behind.
VoipShared ==
  /\ \A s \in Directions : s \in live <=> voipCount[s] = 1
  /\ live \cap Directions # {} => "voip" \in open \cap mDeviceList

\* While the phone is in a call, the call goes through the current output and
\* the current input together, whichever stream has moved one of them: what
\* switchDevice pairs stays paired, and two-way use cases move with the output.
CallOnCurrentPair ==
  mMode = "IN_CALL" => \A v \in Calls \cap Enabled(ucm) : ucm.path[v] = <<ucm.rx, ucm.tx>>
=============================================================================
