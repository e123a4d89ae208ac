------------------------------- MODULE ExtOut -------------------------------
(* Playback on an external output (alsa_sound/AudioHardwareALSA.cpp): while  *)
(* audio is routed to A2DP, a thread reads what the DSP mixes from the proxy *)
(* device (alsa_sound/ALSADevice.cpp) and writes it to the A2DP stream.      *)
(* Streams start, suspend and stop their use case on the output, doRouting   *)
(* moves it, and the A2DP connection opens and closes the stream under it.   *)
(* Calls made under the parent's mLock take their turns; setParameters, FM   *)
(* radio and the destructor of a stream come without it.  A section from a   *)
(* lock to its unlock is one action unless the lock is kept over a call in   *)
(* between; a test made before the lock is an action of its own.             *)
EXTENDS Naturals, FiniteSets

CONSTANTS Callers,      \* threads that call the hardware interface
          MayCall,      \* <<caller, call>>: the calls each of them makes
          UseCases,     \* bits of mExtOutActiveUseCases
          LowPower,     \* those of LPA and tunnel sessions
          Fm,           \* that of FM radio, if there is one
          Threads,      \* incarnations of the capture thread
          Faults        \* the requests that may fail

Calls == {"write", "open", "close", "standby", "route", "routeNew", "routeFm",
          "unroute", "connect", "disconnect", "suspendA2dp", "fmOn", "fmOff",
          "delete", "dspOffline"}
ASSUME CallersAssumption == Callers \cap {"free", "capture"} = {}
ASSUME CallsAssumption == MayCall \subseteq Callers \X Calls
ASSUME UseCasesAssumption == LowPower \subseteq UseCases /\ Fm \subseteq UseCases
ASSUME ThreadsAssumption == "none" \notin Threads

VARIABLES
  mLock,                  \* AudioHardwareALSA::mLock: its owner
  mExtOutMutex, mExtOutMutexWrite,
  mRouteAudioToExtOut,
  mCurRxDevice,           \* "hw" or "ext"
  active,                 \* mExtOutActiveUseCases
  mIsExtOutEnabled, mKillExtOutThread, mExtOutThreadAlive,
  mExtOutThread,          \* the thread pthread_join would wait for
  mA2dpStream, mExtOutStream,      \* FALSE is NULL
  streamOpen,             \* the A2DP stream both point to exists
  mProxyState, mExitRead, mPfd,    \* the proxy device and its kill event
  mCanOpenProxy,          \* what the key of that name tells other programs
  mIsFmActive,
  pc, op, use,            \* per caller: where it is, in which call, for what
  pcT, err,               \* per thread: where it is, its local err
  overlapped              \* a start or stop without mLock met another one

lockVars   == <<mLock, mExtOutMutex, mExtOutMutexWrite>>
routeVars  == <<mRouteAudioToExtOut, mCurRxDevice>>
killVars   == <<mKillExtOutThread, mExtOutThreadAlive, mExtOutThread>>
streamVars == <<mA2dpStream, mExtOutStream, streamOpen>>
proxyVars  == <<mProxyState, mExitRead, mPfd>>
callVars   == <<op, use, overlapped, mIsFmActive>>
vars == <<lockVars, routeVars, active, mIsExtOutEnabled, killVars, streamVars,
          proxyVars, mCanOpenProxy, pc, callVars, pcT, err>>

Free == "free"
Capture == "capture"    \* the thread, as the owner of a mutex
Owners == Callers \cup {Free, Capture}
Routes == {"route", "routeNew", "routeFm"}
Locked == {"write", "open", "close", "standby", "unroute"} \cup Routes
Uses == {{}} \cup {{u} : u \in UseCases}

TypeOK ==
  /\ mLock \in Callers \cup {Free}
  /\ mExtOutMutex \in Owners /\ mExtOutMutexWrite \in Owners
  /\ mRouteAudioToExtOut \in BOOLEAN /\ mCurRxDevice \in {"hw", "ext"}
  /\ active \in SUBSET UseCases
  /\ mIsExtOutEnabled \in BOOLEAN /\ mKillExtOutThread \in BOOLEAN
  /\ mExtOutThreadAlive \in BOOLEAN /\ mExtOutThread \in Threads \cup {"none"}
  /\ mA2dpStream \in BOOLEAN /\ mExtOutStream \in BOOLEAN
  /\ streamOpen \in BOOLEAN
  /\ mProxyState \in {"Closed", "Suspended", "Capture"}
  /\ mExitRead \in BOOLEAN /\ mPfd \in {"none", "open", "written"}
  /\ mCanOpenProxy \in {0, 1}
  /\ mIsFmActive \in BOOLEAN /\ overlapped \in BOOLEAN
  /\ pc \in [Callers -> {"idle", "want", "radio", "failed", "start", "create",
                         "created", "resume", "signal", "stop", "check",
                         "kill", "killing", "wake", "join", "relock",
                         "standby", "lockWrite", "closing", "closed"}]
  /\ op \in [Callers -> Calls] /\ use \in [Callers -> SUBSET UseCases]
  /\ pcT \in [Threads -> {"dead", "entry", "loop", "lock", "wait", "woken",
                          "unlock", "read", "sync", "poll", "copy", "write",
                          "writing", "exit", "dying"}]
  /\ err \in [Threads -> BOOLEAN]

Init ==
  /\ mLock = Free /\ mExtOutMutex = Free /\ mExtOutMutexWrite = Free
  /\ mRouteAudioToExtOut = FALSE /\ mCurRxDevice = "hw" /\ active = {}
  /\ mIsExtOutEnabled = FALSE /\ mKillExtOutThread = FALSE
  /\ mExtOutThreadAlive = FALSE /\ mExtOutThread = "none"
  /\ mA2dpStream = FALSE /\ mExtOutStream = FALSE /\ streamOpen = FALSE
  /\ mProxyState = "Closed" /\ mExitRead = FALSE /\ mPfd = "none"
  /\ mCanOpenProxy = 1 /\ mIsFmActive = FALSE /\ overlapped = FALSE
  /\ pc = [c \in Callers |-> "idle"]
  /\ op = [c \in Callers |-> "close"] /\ use = [c \in Callers |-> {}]
  /\ pcT = [t \in Threads |-> "dead"] /\ err = [t \in Threads |-> FALSE]

----------------------------------------------------------------------------
(* Beginning a start or a stop, going on in it, and returning from it.  A    *)
(* call that comes without mLock overlaps with every other one under way,    *)
(* and so does a locked one with a caller that does not have the lock.       *)
Go(c, from, to) == pc[c] = from /\ pc' = [pc EXCEPT ![c] = to]

Busy(c) == pc[c] \notin {"idle", "want", "radio", "failed", "lockWrite",
                         "closing", "closed"}

Begin(c, call, uses, from, to) ==
  /\ <<c, call>> \in MayCall /\ Go(c, from, to)
  /\ op' = [op EXCEPT ![c] = call] /\ use' = [use EXCEPT ![c] = uses]
  /\ IF call \in Locked THEN mLock = Free /\ mLock' = c ELSE UNCHANGED mLock
  /\ overlapped' = (overlapped \/ \E d \in Callers :
                        Busy(d) /\ (call \notin Locked \/ mLock # d))

\* doRouting ends with the device it has routed to.
Routed(c) ==
  mCurRxDevice' = IF op[c] \in Routes THEN "ext" ELSE mCurRxDevice

Return(c) == mLock' = IF mLock = c THEN Free ELSE mLock

\* mExtOutCv.signal(): one waiting thread, if there is any, is woken.
SignalNobody == UNCHANGED pcT
Signal ==
  IF \E t \in Threads : pcT[t] = "wait"
    THEN \E t \in Threads : pcT[t] = "wait" /\ pcT' = [pcT EXCEPT ![t] = "woken"]
    ELSE UNCHANGED pcT

----------------------------------------------------------------------------
(* startPlaybackOnExtOut_l.  A stream that opens a handle while the device   *)
(* is an external one first turns to the external output.                    *)
TurnToExt(toExt) ==
  /\ mRouteAudioToExtOut' = (mRouteAudioToExtOut \/ toExt)
  /\ IF toExt /\ ~mExtOutStream
       THEN mExtOutMutex = Free /\ mExtOutStream' = mA2dpStream
       ELSE UNCHANGED mExtOutStream

\* write() starts the output for a use case that is not active yet.
Write(c, u, reopens) ==
  /\ u \notin LowPower \cup Fm
  /\ TurnToExt(reopens /\ mCurRxDevice = "ext")
  /\ IF mRouteAudioToExtOut' /\ u \notin active
       THEN Begin(c, "write", {u}, "idle", "start")
       ELSE /\ <<c, "write">> \in MayCall /\ pc[c] = "idle" /\ mLock = Free
            /\ UNCHANGED <<mLock, pc, op, use, overlapped>>
  /\ UNCHANGED <<mExtOutMutex, mExtOutMutexWrite, mCurRxDevice, active,
                 mIsExtOutEnabled, killVars, mA2dpStream, streamOpen,
                 proxyVars, mCanOpenProxy, mIsFmActive, pcT, err>>

\* A low-power session starts it when it is created ...
OpenSession(c, u, toExt) ==
  /\ u \in LowPower
  /\ TurnToExt(toExt) /\ mRouteAudioToExtOut'
  /\ Begin(c, "open", {u}, "idle", "start")
  /\ UNCHANGED <<mExtOutMutex, mExtOutMutexWrite, mCurRxDevice, active,
                 mIsExtOutEnabled, killVars, mA2dpStream, streamOpen,
                 proxyVars, mCanOpenProxy, mIsFmActive, pcT, err>>

\* ... unless its device cannot be opened; it is then deleted without mLock.
OpenFails(c, toExt) ==
  /\ "open" \in Faults /\ <<c, "open">> \in MayCall /\ mLock = Free
  /\ TurnToExt(toExt) /\ Go(c, "idle", "failed")
  /\ UNCHANGED <<lockVars, mCurRxDevice, active, mIsExtOutEnabled, killVars,
                 mA2dpStream, streamOpen, proxyVars, mCanOpenProxy, callVars,
                 pcT, err>>

(* A stream that is given an external device raises mRouteAudioToExtOut and  *)
(* only then waits for mLock to call doRouting.                              *)
Want(c) ==
  /\ <<c, "route">> \in MayCall /\ Go(c, "idle", "want")
  /\ mRouteAudioToExtOut' = TRUE
  /\ UNCHANGED <<lockVars, mCurRxDevice, active, mIsExtOutEnabled, killVars,
                 streamVars, proxyVars, mCanOpenProxy, callVars, pcT, err>>

(* doRouting: switchExtOut, and then a start, "route", for the low-power     *)
(* session or the FM radio that is routed.  If the device is a new one and   *)
(* no use case active another entry of mDeviceList, whose use case may be    *)
(* none, is started, "routeNew", or it and then FM, "routeFm".               *)
NewDevice == mCurRxDevice # "ext" /\ active = {}
RoutesSession(uses) == uses # {} /\ uses \subseteq LowPower
RoutesFm(uses) == mIsFmActive /\ uses = Fm /\ Fm # {}

Route(c, call, uses) ==
  /\ mExtOutMutex = Free /\ mRouteAudioToExtOut
  /\ \/ call = "route" /\ (RoutesSession(uses) \/ RoutesFm(uses))
     \/ call = "routeNew" /\ NewDevice
     \/ call = "routeFm" /\ NewDevice /\ RoutesFm(Fm)
  /\ Begin(c, call, uses, "want", "start") /\ mExtOutStream' = mA2dpStream
  /\ UNCHANGED <<mExtOutMutex, mExtOutMutexWrite, routeVars, active,
                 mIsExtOutEnabled, killVars, mA2dpStream, streamOpen,
                 proxyVars, mCanOpenProxy, mIsFmActive, pcT, err>>

\* The same with nothing to start: the device is not new, or no handle that is
\* not low-power is open; or a stop has lowered the flag meanwhile.
RouteOnly(c) ==
  /\ mLock = Free /\ Go(c, "want", "idle") /\ mCurRxDevice' = "ext"
  /\ \/ /\ mRouteAudioToExtOut /\ UseCases # LowPower
        /\ mExtOutMutex = Free /\ mExtOutStream' = mA2dpStream
     \/ ~mRouteAudioToExtOut /\ UNCHANGED mExtOutStream
  /\ UNCHANGED <<lockVars, mRouteAudioToExtOut, active, mIsExtOutEnabled,
                 killVars, mA2dpStream, streamOpen, proxyVars, mCanOpenProxy,
                 callVars, pcT, err>>

\* doRouting back to the hardware when the external output is not in use.
Unroute(c) ==
  /\ <<c, "unroute">> \in MayCall /\ pc[c] = "idle" /\ mLock = Free
  /\ ~mRouteAudioToExtOut /\ mCurRxDevice' = "hw"
  /\ UNCHANGED <<lockVars, mRouteAudioToExtOut, active, mIsExtOutEnabled,
                 killVars, streamVars, proxyVars, mCanOpenProxy, pc, callVars,
                 pcT, err>>

(* handleFm, which takes no lock, with an external or another device.  It    *)
(* notes that FM is active first and raises the flag after it has started it.*)
FmOn(c, toExt) ==
  /\ <<c, "fmOn">> \in MayCall /\ ~mIsFmActive /\ mIsFmActive' = TRUE
  /\ Go(c, "idle", IF toExt THEN "radio" ELSE "idle")
  /\ UNCHANGED <<lockVars, routeVars, active, mIsExtOutEnabled, killVars,
                 streamVars, proxyVars, mCanOpenProxy, op, use, overlapped,
                 pcT, err>>

FmToExt(c) ==
  /\ Begin(c, "fmOn", Fm, "radio", "start") /\ mRouteAudioToExtOut' = TRUE
  /\ UNCHANGED <<mExtOutMutex, mExtOutMutexWrite, mCurRxDevice, active,
                 mIsExtOutEnabled, killVars, streamVars, proxyVars,
                 mCanOpenProxy, mIsFmActive, pcT, err>>

(* A start returns, or doRouting goes on with the one for FM.                *)
EndStart(c, from) ==
  IF op[c] = "routeFm"
    THEN /\ Go(c, from, "start") /\ op' = [op EXCEPT ![c] = "route"]
         /\ use' = [use EXCEPT ![c] = Fm] /\ UNCHANGED <<mLock, mCurRxDevice>>
    ELSE /\ Go(c, from, "idle") /\ Return(c) /\ Routed(c)
         /\ UNCHANGED <<op, use>>

(* The tests that are made without mExtOutMutex: there is a stream, and the  *)
(* output, if it is not enabled yet, needs a thread.                         *)
NeedsThreadAlways(c) == use[c] # {}
NeedsThread(c) == use[c] # {} /\ ~mIsExtOutEnabled

StartTest(c) ==
  /\ \/ ~mExtOutStream /\ EndStart(c, "start")
     \/ /\ mExtOutStream
        /\ Go(c, "start", IF NeedsThread(c) THEN "create" ELSE "resume")
        /\ UNCHANGED <<mLock, mCurRxDevice, op, use>>
  /\ UNCHANGED <<mExtOutMutex, mExtOutMutexWrite, mRouteAudioToExtOut, active,
                 mIsExtOutEnabled, killVars, streamVars, proxyVars,
                 mCanOpenProxy, overlapped, mIsFmActive, pcT, err>>

\* openProxyDevice, retried while it fails; the thread is created even so.
OpenProxy ==
  /\ \/ mProxyState' = "Suspended"
     \/ "openProxy" \in Faults /\ mProxyState' = "Closed"
  /\ mCanOpenProxy' = 0 /\ mKillExtOutThread' = FALSE

StartThread(c, t) ==
  /\ pcT[t] = "dead"
  /\ Go(c, "create", "created") /\ mExtOutMutex = Free /\ mExtOutMutex' = c
  /\ OpenProxy /\ mExtOutThread' = t
  /\ pcT' = [pcT EXCEPT ![t] = "entry"] /\ err' = [err EXCEPT ![t] = FALSE]
  /\ UNCHANGED <<mLock, mExtOutMutexWrite, routeVars, active, mIsExtOutEnabled,
                 mExtOutThreadAlive, streamVars, mExitRead, mPfd, callVars>>

\* pthread_create fails.  doRouting, if it looks at the result, and handleFm
\* stop the output again; the others return.
StopsAgain(c) == op[c] \in {"route", "fmOn"}

StartFails(c) ==
  /\ "create" \in Faults /\ mExtOutMutex = Free /\ OpenProxy
  /\ IF StopsAgain(c)
       THEN Go(c, "create", "stop") /\ UNCHANGED <<mLock, mCurRxDevice, op, use>>
       ELSE EndStart(c, "create")
  /\ UNCHANGED <<mExtOutMutex, mExtOutMutexWrite, mRouteAudioToExtOut, active,
                 mIsExtOutEnabled, mExtOutThreadAlive, mExtOutThread,
                 streamVars, mExitRead, mPfd, overlapped, mIsFmActive, pcT, err>>

StartEnabled(c) ==
  /\ Go(c, "created", "resume") /\ mExtOutMutex' = Free
  /\ mExtOutThreadAlive' = TRUE /\ mIsExtOutEnabled' = TRUE
  /\ UNCHANGED <<mLock, mExtOutMutexWrite, routeVars, active,
                 mKillExtOutThread, mExtOutThread, streamVars, proxyVars,
                 mCanOpenProxy, callVars, pcT, err>>

\* setExtOutActiveUseCases_l and resumeProxy, without mExtOutMutex.
Resume(c) ==
  /\ Go(c, "resume", "signal")
  /\ active' = active \cup use[c]
  /\ mProxyState' = IF mProxyState = "Suspended" THEN "Capture" ELSE mProxyState
  /\ UNCHANGED <<lockVars, routeVars, mIsExtOutEnabled, killVars, streamVars,
                 mExitRead, mPfd, mCanOpenProxy, callVars, pcT, err>>

SignalThread(c) ==
  /\ mExtOutMutex = Free /\ EndStart(c, "signal") /\ Signal
  /\ UNCHANGED <<mExtOutMutex, mExtOutMutexWrite, mRouteAudioToExtOut, active,
                 mIsExtOutEnabled, killVars, streamVars, proxyVars,
                 mCanOpenProxy, overlapped, mIsFmActive, err>>

----------------------------------------------------------------------------
(* suspendPlaybackOnExtOut_l, for one use case or, when the A2DP sink is     *)
(* suspended, for all: with none left the thread is to wait.                 *)
Suspended(uses) ==
  /\ mExtOutMutex = Free
  /\ active' = active \ uses
  /\ mProxyState' = IF active' = {} /\ mIsExtOutEnabled /\ mProxyState = "Capture"
                      THEN "Suspended" ELSE mProxyState

(* close() and standby() of a stream, not those of a low-power session, end  *)
(* with closeUsbPlaybackIfNothingActive, which offers the proxy to others.   *)
OfferedTwice(call, uses) == mCanOpenProxy + 1
Offered(call, uses) ==
  IF call \in {"close", "standby"} /\ uses \cap LowPower = {} THEN 1
                                                             ELSE mCanOpenProxy

Suspend(c, call, uses) ==
  /\ call = "close" => mRouteAudioToExtOut /\ mLock = Free
  /\ call = "suspendA2dp" => mA2dpStream
  /\ <<c, call>> \in MayCall /\ pc[c] = "idle"
  /\ Suspended(uses) /\ mCanOpenProxy' = Offered(call, uses)
  /\ UNCHANGED <<lockVars, routeVars, mIsExtOutEnabled, killVars, streamVars,
                 mExitRead, mPfd, pc, callVars, pcT, err>>

(* stopPlaybackOnExtOut_l: suspend the use case; if it was the last one, end *)
(* the thread, put the stream in standby and close the proxy device.         *)
Stop(c, call, uses, from) ==
  /\ mRouteAudioToExtOut
  /\ Begin(c, call, uses, from, "stop")
  /\ UNCHANGED <<mExtOutMutex, mExtOutMutexWrite, routeVars, active,
                 mIsExtOutEnabled, killVars, streamVars, proxyVars,
                 mCanOpenProxy, mIsFmActive, pcT, err>>

\* The destructor of a session that failed to open.
StopFailed(c) ==
  \/ Stop(c, "delete", {}, "failed")
  \/ /\ ~mRouteAudioToExtOut /\ Go(c, "failed", "idle")
     /\ UNCHANGED <<lockVars, routeVars, active, mIsExtOutEnabled, killVars,
                    streamVars, proxyVars, mCanOpenProxy, callVars, pcT, err>>

\* handleFm with a device without FM.
FmOff(c) ==
  /\ mIsFmActive /\ mIsFmActive' = FALSE
  /\ IF mRouteAudioToExtOut
       THEN Begin(c, "fmOff", Fm, "idle", "stop")
       ELSE /\ <<c, "fmOff">> \in MayCall /\ pc[c] = "idle"
            /\ UNCHANGED <<mLock, pc, op, use, overlapped>>
  /\ UNCHANGED <<mExtOutMutex, mExtOutMutexWrite, routeVars, active,
                 mIsExtOutEnabled, killVars, streamVars, proxyVars,
                 mCanOpenProxy, pcT, err>>

StopSuspends(c) ==
  /\ Go(c, "stop", "check") /\ Suspended(use[c])
  /\ UNCHANGED <<lockVars, routeVars, mIsExtOutEnabled, killVars, streamVars,
                 mExitRead, mPfd, mCanOpenProxy, callVars, pcT, err>>

StopCheck(c) ==
  /\ mExtOutMutex = Free
  /\ IF active = {}
       THEN /\ Go(c, "check", "kill") /\ mIsExtOutEnabled' = FALSE
            /\ UNCHANGED <<mLock, mCurRxDevice, mCanOpenProxy>>
       ELSE /\ Go(c, "check", "idle") /\ Return(c) /\ UNCHANGED mIsExtOutEnabled
            /\ mCanOpenProxy' = Offered(op[c], use[c])
            /\ mCurRxDevice' = IF op[c] = "unroute" THEN "hw" ELSE mCurRxDevice
  /\ UNCHANGED <<mExtOutMutex, mExtOutMutexWrite, mRouteAudioToExtOut, active,
                 killVars, streamVars, proxyVars, callVars, pcT, err>>

\* stopExtOutThread: nothing to do if the thread is not alive, which is tested
\* before mExtOutMutex is taken.
StopTest(c) ==
  /\ Go(c, "kill", IF mExtOutThreadAlive THEN "killing" ELSE "relock")
  /\ UNCHANGED <<lockVars, routeVars, active, mIsExtOutEnabled, killVars,
                 streamVars, proxyVars, mCanOpenProxy, callVars, pcT, err>>

StopKill(c) ==
  /\ Go(c, "killing", "wake") /\ mExtOutMutex = Free /\ mExtOutMutex' = c
  /\ mKillExtOutThread' = TRUE /\ mExitRead' = TRUE
  /\ UNCHANGED <<mLock, mExtOutMutexWrite, routeVars, active, mIsExtOutEnabled,
                 mExtOutThreadAlive, mExtOutThread, streamVars, mProxyState,
                 mPfd, mCanOpenProxy, callVars, pcT, err>>

\* What exitReadFromProxy writes ends a poll that has begun.
KillEventByFlagOnly == UNCHANGED mPfd
KillEvent == mPfd' = IF mPfd = "none" THEN "none" ELSE "written"
StopWake(c) ==
  /\ Go(c, "wake", "join") /\ KillEvent
  /\ Signal /\ mExtOutMutex' = Free
  /\ UNCHANGED <<mLock, mExtOutMutexWrite, routeVars, active, mIsExtOutEnabled,
                 killVars, streamVars, mProxyState, mExitRead, mCanOpenProxy,
                 callVars, err>>

\* A second join of the same thread returns at once.
JoinedAtOnce == TRUE
Joined == pcT[mExtOutThread] = "dead"
StopJoin(c) ==
  /\ Go(c, "join", "relock") /\ Joined
  /\ UNCHANGED <<lockVars, routeVars, active, mIsExtOutEnabled, killVars,
                 streamVars, proxyVars, mCanOpenProxy, callVars, pcT, err>>

StopRelock(c) ==
  /\ Go(c, "relock", "standby") /\ mExtOutMutex = Free /\ mExtOutMutex' = c
  /\ UNCHANGED <<mLock, mExtOutMutexWrite, routeVars, active, mIsExtOutEnabled,
                 killVars, streamVars, proxyVars, mCanOpenProxy, callVars, pcT,
                 err>>

\* The stream's standby() ends, and closeProxyDevice() ends the call.
CloseProxySuspends == mProxyState' = "Suspended" /\ mPfd' = "none" /\ mExitRead' = FALSE
CloseProxy == mProxyState' = "Closed" /\ mPfd' = "none" /\ mExitRead' = FALSE
StopClose(c) ==
  /\ Go(c, "standby", "idle") /\ Return(c) /\ mExtOutMutex' = Free
  /\ CloseProxy
  /\ mCanOpenProxy' = 1 /\ active' = {} /\ mRouteAudioToExtOut' = FALSE
  /\ mCurRxDevice' = IF op[c] = "unroute" THEN "hw" ELSE mCurRxDevice
  /\ UNCHANGED <<mExtOutMutexWrite, mIsExtOutEnabled, killVars, streamVars,
                 callVars, pcT, err>>

----------------------------------------------------------------------------
(* setParameters(a2dp_connected): openExtOutput and closeExtOutput, which    *)
(* also takes the lock the thread writes under.                              *)
Connect(c) ==
  /\ <<c, "connect">> \in MayCall /\ pc[c] = "idle"
  /\ mExtOutMutex = Free /\ ~mA2dpStream
  /\ mA2dpStream' = TRUE /\ mExtOutStream' = TRUE /\ streamOpen' = TRUE
  /\ UNCHANGED <<lockVars, routeVars, active, mIsExtOutEnabled, killVars,
                 proxyVars, mCanOpenProxy, pc, callVars, pcT, err>>

Disconnect(c) ==
  /\ <<c, "disconnect">> \in MayCall /\ Go(c, "idle", "lockWrite")
  /\ mExtOutMutex = Free /\ mExtOutMutex' = c /\ mA2dpStream
  /\ UNCHANGED <<mLock, mExtOutMutexWrite, routeVars, active,
                 mIsExtOutEnabled, killVars, streamVars, proxyVars,
                 mCanOpenProxy, callVars, pcT, err>>

DisconnectStream(c) ==
  /\ mExtOutMutexWrite = Free /\ mExtOutMutexWrite' = c
  /\ Go(c, "lockWrite", "closing")
  /\ mExtOutStream' = (mExtOutStream # mA2dpStream)
  /\ UNCHANGED <<mLock, mExtOutMutex, routeVars, active, mIsExtOutEnabled,
                 killVars, mA2dpStream, streamOpen, proxyVars, mCanOpenProxy,
                 callVars, pcT, err>>

CloseStream(c) ==
  /\ \/ Go(c, "closing", "closed") /\ streamOpen' = FALSE
        /\ UNCHANGED <<mA2dpStream, mExtOutMutex, mExtOutMutexWrite>>
     \/ Go(c, "closed", "idle") /\ mA2dpStream' = FALSE
        /\ mExtOutMutex' = Free /\ mExtOutMutexWrite' = Free
        /\ UNCHANGED streamOpen
  /\ UNCHANGED <<mLock, routeVars, active, mIsExtOutEnabled, killVars,
                 mExtOutStream, proxyVars, mCanOpenProxy, callVars, pcT, err>>

Caller(c) ==
  \/ \E u \in UseCases, toExt \in BOOLEAN :
       Write(c, u, toExt) \/ OpenSession(c, u, toExt)
  \/ \E toExt \in BOOLEAN : OpenFails(c, toExt) \/ FmOn(c, toExt)
  \/ \E uses \in Uses :
       \/ Suspend(c, "close", uses)
       \/ \E call \in {"standby", "delete"} : Stop(c, call, uses, "idle")
  \/ \E call \in {"unroute", "dspOffline"} : Stop(c, call, active, "idle")
  \/ Suspend(c, "suspendA2dp", active)
  \/ Want(c) \/ Unroute(c) \/ FmOff(c) \/ Connect(c) \/ Disconnect(c)

\* What a caller does in the middle of a call.
InCall(c) ==
  \/ RouteOnly(c)
  \/ \E call \in Routes, uses \in Uses : Route(c, call, uses)
  \/ FmToExt(c) \/ StartTest(c) \/ StartFails(c) \/ StartEnabled(c)
  \/ \E t \in Threads : StartThread(c, t)
  \/ Resume(c) \/ SignalThread(c)
  \/ StopFailed(c) \/ StopSuspends(c) \/ StopCheck(c) \/ StopTest(c)
  \/ StopKill(c) \/ StopWake(c) \/ StopJoin(c) \/ StopRelock(c)
  \/ StopClose(c)
  \/ DisconnectStream(c) \/ CloseStream(c)

----------------------------------------------------------------------------
(* extOutThreadFunc.                                                         *)
GoT(t, from, to) ==
  /\ pcT[t] = from /\ pcT' = [pcT EXCEPT ![t] = to]
  /\ UNCHANGED <<mLock, routeVars, active, mIsExtOutEnabled,
                 mKillExtOutThread, mExtOutThread, streamVars, mProxyState,
                 mExitRead, mCanOpenProxy, pc, callVars>>
ThreadOnly == UNCHANGED <<mExtOutMutex, mExtOutMutexWrite, mExtOutThreadAlive,
                          mPfd, err>>

\* Without a stream or an open proxy the thread ends and stays "alive".
Entry(t) ==
  \/ /\ ~mExtOutStream \/ mProxyState = "Closed"
     /\ GoT(t, "entry", "dead") /\ ThreadOnly
  \/ /\ mExtOutStream /\ mProxyState # "Closed"
     /\ GoT(t, "entry", "loop") /\ mPfd' = "none"
     /\ UNCHANGED <<mExtOutMutex, mExtOutMutexWrite, mExtOutThreadAlive, err>>

Loop(t) == GoT(t, "loop", IF mKillExtOutThread THEN "exit" ELSE "lock")
           /\ ThreadOnly

MustWait(t) == \/ ~mExtOutStream \/ ~mIsExtOutEnabled
               \/ mProxyState \in {"Closed", "Suspended"} \/ err[t]

Check(t) ==
  /\ mExtOutMutex = Free
  /\ GoT(t, "lock", IF mKillExtOutThread THEN "exit"
                    ELSE IF MustWait(t) THEN "wait" ELSE "read")
  /\ ThreadOnly

\* A wait may end without a signal; it takes mExtOutMutex, which is released.
SpuriousWake(t) == GoT(t, "wait", "woken") /\ ThreadOnly
Woken(t) == mExtOutMutex = Free /\ GoT(t, "woken", "unlock") /\ ThreadOnly

\* The Autolock goes out of scope and releases the mutex a second time.
UnlockAgain(t) ==
  /\ GoT(t, "unlock", "loop") /\ mExtOutMutex' = Free
  /\ UNCHANGED <<mExtOutMutexWrite, mExtOutThreadAlive, mPfd, err>>

(* readFromProxy: initProxyParams and startProxy, and then, until exitRead,  *)
(* the driver is asked for a period and polled together with the kill event. *)
ReadProxy(t) ==
  /\ GoT(t, "read", "sync")
  /\ mPfd' = IF mPfd = "none" THEN "open" ELSE mPfd
  /\ UNCHANGED <<mExtOutMutex, mExtOutMutexWrite, mExtOutThreadAlive, err>>

Failed(t) == /\ "sync" \in Faults /\ err' = [err EXCEPT ![t] = TRUE]
             /\ UNCHANGED <<mExtOutMutex, mExtOutMutexWrite,
                            mExtOutThreadAlive, mPfd>>

\* A loop that ends early may still find the data of an earlier round.
SyncProxy(t) ==
  \/ GoT(t, "sync", "copy") /\ ThreadOnly
  \/ GoT(t, "sync", "loop") /\ (ThreadOnly \/ Failed(t))
  \/ ~mExitRead /\ GoT(t, "sync", "poll") /\ ThreadOnly

PollReturns(t) ==
  \/ GoT(t, "poll", "sync") /\ ThreadOnly
  \/ GoT(t, "poll", "loop") /\ Failed(t)
PollWoken(t) == mPfd = "written" /\ GoT(t, "poll", "sync") /\ ThreadOnly

Copy(t) == mExtOutMutex = Free /\ GoT(t, "copy", "write") /\ ThreadOnly

\* mExtOutStream->write under mExtOutMutexWrite, until all is written.
WriteStream(t) ==
  /\ ~mKillExtOutThread /\ mIsExtOutEnabled
  /\ mExtOutMutexWrite = Free /\ mExtOutStream
  /\ GoT(t, "write", "writing") /\ mExtOutMutexWrite' = Capture
  /\ UNCHANGED <<mExtOutMutex, mExtOutThreadAlive, mPfd, err>>

SkipWrite(t) ==
  /\ \/ mKillExtOutThread \/ ~mIsExtOutEnabled
     \/ mExtOutMutexWrite = Free /\ ~mExtOutStream
  /\ GoT(t, "write", "loop") /\ ThreadOnly

Written(t) ==
  /\ \E next \in {"write", "loop"} : GoT(t, "writing", next)
  /\ mExtOutMutexWrite' = Free
  /\ UNCHANGED <<mExtOutMutex, mExtOutThreadAlive, mPfd, err>>

Exit(t) ==
  \/ /\ GoT(t, "exit", "dying") /\ mPfd' = "none"
     /\ UNCHANGED <<mExtOutMutex, mExtOutMutexWrite, mExtOutThreadAlive, err>>
  \/ /\ GoT(t, "dying", "dead") /\ mExtOutThreadAlive' = FALSE
     /\ UNCHANGED <<mExtOutMutex, mExtOutMutexWrite, mPfd, err>>

\* The thread's own steps, those of the A2DP stream's write included.
Thread(t) ==
  \/ Entry(t) \/ Loop(t) \/ Check(t) \/ Woken(t) \/ UnlockAgain(t)
  \/ ReadProxy(t) \/ SyncProxy(t) \/ PollWoken(t) \/ Copy(t)
  \/ WriteStream(t) \/ SkipWrite(t) \/ Written(t) \/ Exit(t)

Next ==
  \/ \E c \in Callers : Caller(c) \/ InCall(c)
  \/ \E t \in Threads : Thread(t) \/ SpuriousWake(t) \/ PollReturns(t)

Spec == Init /\ [][Next]_vars

(* A call that has begun goes on, and so does the thread; a write to the     *)
(* A2DP stream returns.  Whether the DSP delivers data is up to the DSP.     *)
FairSpec ==
  /\ Spec
  /\ \A c \in Callers : SF_vars(InCall(c))
  /\ \A t \in Threads : SF_vars(Thread(t))

----------------------------------------------------------------------------
(* The functions that start and stop the output are named _l: they are to be *)
(* called with mLock held, and the destructors of streams, the restart of    *)
(* the ADSP and FM radio call them without it.  What follows holds for all   *)
(* of these callers until one of them overlaps with another start or stop;   *)
(* after that each of the three can be broken, by two threads, by a proxy    *)
(* that is closed while it is read, by a thread nobody stops.                *)

(* The thread reads the proxy only while it is open: closeProxyDevice always *)
(* comes after the end of the thread, however the kill flag, the kill event  *)
(* and the condition variable reach it.                                      *)
ProxyOpenWhileRead ==
  \/ overlapped
  \/ \A t \in Threads : pcT[t] \in {"read", "sync", "poll"} => mProxyState # "Closed"

Running(t) == pcT[t] # "dead"

(* There is one capture thread at most, and it is the one the next stop will *)
(* wait for: no start creates one over a thread that still runs, although it *)
(* tests mIsExtOutEnabled before it takes mExtOutMutex.                      *)
OneThread ==
  overlapped \/ \A t \in Threads : Running(t) => t = mExtOutThread

(* Nobody stops an output that mRouteAudioToExtOut does not show to be in    *)
(* use: when the flag is down no thread runs and the proxy is closed,        *)
(* whatever failed in the start before.                                      *)
NothingLeftBehind ==
  \/ overlapped \/ mRouteAudioToExtOut
  \/ mProxyState = "Closed" /\ \A t \in Threads : ~Running(t)

(* What the thread writes to is a stream that has not been closed.           *)
WriteSafe ==
  \A t \in Threads : pcT[t] = "writing" => streamOpen

(* A stop returns, wherever it finds the thread: waiting, polling, writing   *)
(* or about to do so.  This is about callers that hold mLock: a start that   *)
(* meets the stop would clear the kill flag.                                 *)
StopCompletes == \A c \in Callers : pc[c] = "kill" ~> pc[c] = "idle"

(* A start is heard: the thread does not go on waiting when, at its signal,  *)
(* it has a stream, an enabled output and a proxy that is not suspended.     *)
StartHeard ==
  \A t \in Threads :
    (pcT[t] = "wait" /\ ~MustWait(t) /\ \E c \in Callers : pc[c] = "signal")
      ~> pcT[t] # "wait"
=============================================================================
