------------------------------ MODULE UsbAudio ------------------------------
(* Playback and recording through a USB headset (alsa_sound/AudioUsbALSA.cpp *)
(* and its callers in the HAL).  A thread per direction copies between the   *)
(* USB card and the DSP's proxy device.  The HAL starts it with the first    *)
(* use case that needs it, keeps a bit per use case, and has it exit with    *)
(* the last: it sets the kill flag, writes an event, joins the thread and    *)
(* closes what the thread left open.  HAL calls hold AudioHardwareALSA's     *)
(* mLock, so one runs at a time, as a sequence `todo` of pieces that         *)
(* interleave with the threads and with the test every write makes without   *)
(* the lock.  What a thread does under AudioUsbALSA's own locks is a step.   *)
EXTENDS Naturals, Sequences, FiniteSets

CONSTANTS Music,        \* output streams through the mixer
          Recs,         \* input streams whose device is the dock's microphone
          Listable,     \* the other use cases, out of "lpa", "voice", "voip", and
                        \* "capture", an input stream's entry of mDeviceList
          Outputs,      \* output devices doRouting is called with
          Inputs,       \* input devices doRouting is called with
          MaxUsers,     \* bound: streams, sessions and calls at a time
          Faults        \* <<direction, fault>>: what may go wrong in a thread

Dirs == {"playback", "recording"}
Dock == {"analog", "digital"}           \* DEVICE_OUT_ANLG/DGTL_DOCK_HEADSET
DockMic == "dockmic"                    \* DEVICE_IN_ANLG_DOCK_HEADSET
Bits == [d \in Dirs |-> IF d = "playback" THEN {"MUSIC", "VOICE", "VOIP", "LPA"}
                                          ELSE {"REC", "VOICE", "VOIP"}]
ASSUME ListableAssumption == Listable \subseteq {"lpa", "voice", "voip", "capture"}
ASSUME DevicesAssumption == Outputs \cap Inputs = {}
ASSUME StreamsAssumption ==
  Music \cap Recs = {} /\ (Music \cup Recs) \cap {"lpa", "voice", "voip", "capture", "hal"} = {}

VARIABLES
  bits,                 \* musbPlaybackState and musbRecordingState
  mCurDevice, mCurRxDevice,
  listed, before,       \* the entries of mDeviceList for Listable, their order
  leaving,              \* those whose last destructor has not got mLock yet
  open,                 \* the streams that have opened mHandle->handle
  pend,                 \* <<stream, direction>>: test passed, lock not yet held
  caller, todo, stage,  \* who holds mLock, what is left of its call
  kill,                 \* mkillPlayBackThread, mkillRecordingThread
  tid,                  \* mPlaybackUsb, mRecordingUsb: FALSE is NULL
  pc,                   \* where the thread of the direction is
  usb, proxy,           \* whether the two devices are open
  event, signal,        \* the event descriptors exist; one has been written
  failed, overtaken     \* history, see Stop and StartThread

callVars   == <<caller, todo, stage>>
routeVars  == <<mCurDevice, mCurRxDevice>>
userVars   == <<listed, before, leaving, open, pend>>
handleVars == <<usb, proxy>>
eventVars  == <<event, signal>>
pastVars   == <<failed, overtaken>>
threadVars == <<kill, tid, pc, handleVars, eventVars, pastVars>>
vars == <<bits, routeVars, userVars, callVars, threadVars>>

Close(d) == [do |-> "close", dir |-> d]         \* closeUSBPlayback, closeUSBRecording
CloseIfIdle(d) == [do |-> "idle", dir |-> d]    \* close...IfNothingActive
StartBit(d, b) == [do |-> "start", dir |-> d, bit |-> b]    \* start...IfNotStarted, |= b
Arrive(dev) == [do |-> "arrive", dev |-> dev]   \* the end of doRouting

Pieces == [do : {"close", "idle"}, dir : Dirs]
            \cup [do : {"start"}, dir : {"playback"}, bit : Bits["playback"]]
            \cup [do : {"start"}, dir : {"recording"}, bit : Bits["recording"]]
            \cup [do : {"arrive"}, dev : Outputs \cup Inputs]
Checkers == (Music \X {"playback"}) \cup (Recs \X {"recording"})
              \cup ((Listable \cap {"voip"}) \X Dirs)

TypeOK ==
  /\ bits \in [Dirs -> SUBSET UNION {Bits[d] : d \in Dirs}]
  /\ \A d \in Dirs : bits[d] \subseteq Bits[d]
  /\ mCurDevice \in Outputs \cup Inputs /\ mCurRxDevice \in Outputs
  /\ listed \subseteq Listable /\ before \subseteq listed \X listed
  /\ leaving \subseteq Listable \ {"voice"}
  /\ open \subseteq Music \cup Recs
  /\ pend \subseteq Checkers
  /\ caller \in Music \cup Recs \cup {"hal"}
  /\ todo \in Seq(Pieces) /\ stage \in {"begin", "join"}
  /\ kill \in [Dirs -> BOOLEAN] /\ tid \in [Dirs -> BOOLEAN]
  /\ pc \in [Dirs -> {"none", "new", "loop", "end", "closing"}]
  /\ usb \in [Dirs -> BOOLEAN] /\ proxy \in [Dirs -> BOOLEAN]
  /\ event \in [Dirs -> BOOLEAN] /\ signal \in [Dirs -> BOOLEAN]
  /\ failed \in [Dirs -> BOOLEAN] /\ overtaken \in [Dirs -> BOOLEAN]

Idle == todo = <<>>                     \* nobody holds mLock
Alive(d) == pc[d] # "none"

Init ==
  /\ bits = [d \in Dirs |-> {}]
  /\ mCurDevice \in Outputs \ Dock /\ mCurRxDevice = mCurDevice
  /\ listed = {} /\ before = {} /\ leaving = {} /\ open = {} /\ pend = {}
  /\ caller = "hal" /\ todo = <<>> /\ stage = "begin"
  /\ kill = [d \in Dirs |-> FALSE] /\ tid = [d \in Dirs |-> FALSE]
  /\ pc = [d \in Dirs |-> "none"]
  /\ usb = [d \in Dirs |-> FALSE] /\ proxy = [d \in Dirs |-> FALSE]
  /\ event = [d \in Dirs |-> FALSE] /\ signal = [d \in Dirs |-> FALSE]
  /\ failed = [d \in Dirs |-> FALSE] /\ overtaken = [d \in Dirs |-> FALSE]

-----------------------------------------------------------------------------
(* The threads.                                                              *)

Goto(d, l) == pc' = [pc EXCEPT ![d] = l]
MayFail(d, f) == <<d, f>> \in Faults
Stop(d) == failed' = [failed EXCEPT ![d] = bits[d] # {}]    \* it ends unasked
HalVars == <<bits, routeVars, userVars, callVars>>

(* The section the entry of a thread makes under its lock.  Playback returns *)
(* when it is already killed, after it has opened the USB device; recording  *)
(* goes on.  A thread that returns here leaves mPlaybackUsb as it is.        *)
SetupFails(d) ==
  /\ pc[d] = "new"
  /\ \/ /\ MayFail(d, "usb")                    \* getCap, configureDevice
        /\ UNCHANGED handleVars
     \/ /\ d = "playback" /\ kill[d]
        /\ usb' = [usb EXCEPT ![d] = TRUE]
        /\ UNCHANGED proxy
     \/ /\ MayFail(d, "proxy")                  \* the USB device is closed again
        /\ d = "playback" => ~kill[d]
        /\ UNCHANGED handleVars
  /\ Stop(d)
  /\ Goto(d, "none")
  /\ UNCHANGED <<HalVars, kill, tid, eventVars, overtaken>>

Setup(d) ==
  /\ pc[d] = "new"
  /\ d = "playback" => ~kill[d]
  /\ usb' = [usb EXCEPT ![d] = TRUE]
  /\ proxy' = [proxy EXCEPT ![d] = TRUE]
  /\ IF d = "playback"          \* recording polls no descriptor of its own
       THEN event' = [event EXCEPT ![d] = TRUE] /\ signal' = [signal EXCEPT ![d] = FALSE]
       ELSE UNCHANGED eventVars
  /\ Goto(d, "loop")
  /\ UNCHANGED <<HalVars, kill, tid, pastVars>>

(* The copying loop, whose passes change nothing here.  pcm_prepare, start   *)
(* and sync_ptr that fail kill the thread; in recording, a card that is gone *)
(* (ENODEV) ends the loop without killing it.                                *)
LoopFails(d) ==
  /\ pc[d] = "loop" /\ ~kill[d]
  /\ \/ /\ MayFail(d, "error")
        /\ kill' = [kill EXCEPT ![d] = TRUE]
     \/ /\ MayFail(d, "gone") /\ d = "recording"
        /\ UNCHANGED kill
  /\ Stop(d)
  /\ Goto(d, "end")
  /\ UNCHANGED <<HalVars, tid, handleVars, eventVars, overtaken>>

(* It waits in poll for data or the event, and sees the flag when woken.     *)
WakeByData(d) ==
  /\ pc[d] = "loop" /\ kill[d]
  /\ Goto(d, "end")
  /\ UNCHANGED <<HalVars, kill, tid, handleVars, eventVars, pastVars>>

WakeByEvent(d) ==
  /\ pc[d] = "loop" /\ event[d] /\ signal[d]
  /\ signal' = [signal EXCEPT ![d] = FALSE]
  /\ kill' = [kill EXCEPT ![d] = TRUE]
  /\ Goto(d, "end")
  /\ UNCHANGED <<HalVars, tid, handleVars, event, pastVars>>

(* The playback thread closes the event descriptors without the lock.        *)
CloseEvents(d) ==
  /\ pc[d] = "end" /\ d = "playback"
  /\ event' = [event EXCEPT ![d] = FALSE]
  /\ signal' = [signal EXCEPT ![d] = FALSE]
  /\ Goto(d, "closing")
  /\ UNCHANGED <<HalVars, kill, tid, handleVars, pastVars>>

(* Mutant: a thread that was killed leaves the devices to the HAL.           *)
EndKeepingDevices(d) ==
  /\ pc[d] = IF d = "playback" THEN "closing" ELSE "end"
  /\ IF kill[d]
       THEN UNCHANGED handleVars
       ELSE usb' = [usb EXCEPT ![d] = FALSE] /\ proxy' = [proxy EXCEPT ![d] = FALSE]
  /\ tid' = [tid EXCEPT ![d] = FALSE]
  /\ Goto(d, "none")
  /\ UNCHANGED <<HalVars, kill, eventVars, pastVars>>

End(d) ==
  /\ pc[d] = IF d = "playback" THEN "closing" ELSE "end"
  /\ IF kill[d]
       THEN usb' = [usb EXCEPT ![d] = FALSE] /\ proxy' = [proxy EXCEPT ![d] = FALSE]
       ELSE UNCHANGED handleVars
  /\ tid' = [tid EXCEPT ![d] = FALSE]
  /\ Goto(d, "none")
  /\ UNCHANGED <<HalVars, kill, eventVars, pastVars>>

-----------------------------------------------------------------------------
(* What a HAL call does to the threads, a piece at a time.                   *)

Now(do) == ~Idle /\ stage = "begin" /\ Head(todo).do = do
Done == /\ todo' = Tail(todo) /\ stage' = "begin"
        /\ caller' = IF Tail(todo) = <<>> THEN "hal" ELSE caller

(* Mutant: the exit sets the flag and writes no event.                       *)
SignalledNever(d) == FALSE

(* exit...Thread: the flag and, for playback, the events, if both exist.     *)
(* The recording thread's second poll descriptor is never set, so nothing is *)
(* written to it.                                                            *)
Signalled(d) == event[d]

(* A direction that still has a bit is left alone unless everything goes.    *)
Exit ==
  /\ Now("close") \/ Now("idle")
  /\ LET d == Head(todo).dir
         all == Head(todo).do = "close" IN
     IF ~all /\ bits[d] # {}
       THEN Done /\ UNCHANGED <<bits, kill, signal, failed>>
       ELSE /\ bits' = [bits EXCEPT ![d] = {}]
            /\ kill' = [kill EXCEPT ![d] = TRUE]
            /\ signal' = [signal EXCEPT ![d] = @ \/ Signalled(d)]
            /\ failed' = [failed EXCEPT ![d] = FALSE]
            /\ stage' = "join" /\ UNCHANGED <<caller, todo>>
  /\ UNCHANGED <<routeVars, userVars, tid, pc, handleVars, event, overtaken>>

(* Mutant: the devices are closed without waiting for the thread.            *)
FinishAtOnce ==
  /\ stage = "join"
  /\ LET d == Head(todo).dir IN
       /\ tid' = [tid EXCEPT ![d] = FALSE]
       /\ usb' = [usb EXCEPT ![d] = FALSE]
       /\ proxy' = [proxy EXCEPT ![d] = FALSE]
  /\ Done
  /\ UNCHANGED <<bits, routeVars, userVars, kill, pc, eventVars, pastVars>>

(* Mutant: what the thread left open stays open.                             *)
FinishKeepingDevices ==
  /\ stage = "join"
  /\ LET d == Head(todo).dir IN
       /\ tid[d] => ~Alive(d)
       /\ tid' = [tid EXCEPT ![d] = FALSE]
  /\ Done
  /\ UNCHANGED <<bits, routeVars, userVars, kill, pc, handleVars, eventVars, pastVars>>

(* pthread_join, and what the thread left open is closed.  (Those of playback *)
(* are not set to NULL: the next exit closes them once more.)                *)
Finish ==
  /\ stage = "join"
  /\ LET d == Head(todo).dir IN
       /\ tid[d] => ~Alive(d)
       /\ tid' = [tid EXCEPT ![d] = FALSE]
       /\ usb' = [usb EXCEPT ![d] = FALSE]
       /\ proxy' = [proxy EXCEPT ![d] = FALSE]
  /\ Done
  /\ UNCHANGED <<bits, routeVars, userVars, kill, pc, eventVars, pastVars>>

(* startPlayback, startRecording.  `overtaken` remembers that the thread     *)
(* before, which killed itself, had not ended.                               *)
StartThread(d) ==
  /\ kill' = [kill EXCEPT ![d] = FALSE]
  /\ tid' = [tid EXCEPT ![d] = TRUE]
  /\ Goto(d, "new")
  /\ failed' = [failed EXCEPT ![d] = FALSE]
  /\ overtaken' = [overtaken EXCEPT ![d] = Alive(d)]

(* Mutant: the bit is set and the thread is not started.                     *)
StartBitOnly ==
  /\ Now("start")
  /\ bits' = [bits EXCEPT ![Head(todo).dir] = @ \cup {Head(todo).bit}]
  /\ Done
  /\ UNCHANGED <<routeVars, userVars, threadVars>>

Start ==
  /\ Now("start")
  /\ LET d == Head(todo).dir IN
       /\ IF bits[d] = {} \/ kill[d]
            THEN StartThread(d)
            ELSE UNCHANGED <<kill, tid, pc, pastVars>>
       /\ bits' = [bits EXCEPT ![d] = @ \cup {Head(todo).bit}]
  /\ Done
  /\ UNCHANGED <<routeVars, userVars, handleVars, eventVars>>

ArriveAt ==
  /\ Now("arrive")
  /\ mCurDevice' = Head(todo).dev
  /\ mCurRxDevice' = IF Head(todo).dev \in Outputs THEN Head(todo).dev ELSE mCurRxDevice
  /\ Done
  /\ UNCHANGED <<bits, userVars, threadVars>>

-----------------------------------------------------------------------------
(* The calls.                                                                *)

Call(c, pieces) ==
  /\ Idle
  /\ caller' = IF pieces = <<>> THEN "hal" ELSE c
  /\ todo' = pieces
  /\ UNCHANGED <<stage, routeVars, threadVars>>

BitOf(u) == IF u \in Music THEN "MUSIC" ELSE IF u \in Recs THEN "REC"
            ELSE [lpa |-> "LPA", voice |-> "VOICE", voip |-> "VOIP"][u]
DirOf(s) == IF s \in Music THEN "playback" ELSE "recording"
BothWays(u) == <<StartBit("recording", BitOf(u)), StartBit("playback", BitOf(u))>>
Room == Cardinality(open \cup listed \cup leaving) < MaxUsers
PushBack(u) == /\ Room /\ u \in Listable \ (listed \cup leaving)
               /\ listed' = listed \cup {u}
               /\ before' = before \cup (listed \X {u})
Erase(u) == /\ u \in listed
            /\ listed' = listed \ {u}
            /\ before' = before \ (({u} \X listed) \cup (listed \X {u}))

(* The first write or read opens the stream's device.  So does the next one  *)
(* after a transfer that failed and whose recovery left no handle: the bit   *)
(* has stayed, and so does the stream in `open`.                             *)
FirstTransfer(s) ==
  /\ s \in open \/ Room
  /\ <<s, DirOf(s)>> \notin pend
  /\ open' = open \cup {s}
  /\ Call(s, IF s \in Recs \/ mCurRxDevice = "analog"
               THEN <<StartBit(DirOf(s), BitOf(s))>> ELSE <<>>)
  /\ UNCHANGED <<bits, listed, before, leaving, pend>>

(* Every write and read, without mLock: the stream is on the dock and no bit *)
(* of its direction is set.                                                  *)
Transfer(s, d) ==
  /\ s \in open \cup (listed \ leaving)
  /\ caller # s
  /\ <<s, d>> \notin pend
  /\ s \in Recs \/ mCurRxDevice \in Dock
  /\ bits[d] = {}
  /\ pend' = pend \cup {<<s, d>>}
  /\ UNCHANGED <<bits, routeVars, listed, before, leaving, open, callVars, threadVars>>

(* Mutant: a write that found no bit plays on without starting the thread.   *)
TransferUnstarted(s, d) ==
  /\ <<s, d>> \in pend
  /\ Call("hal", <<>>)
  /\ pend' = pend \ {<<s, d>>}
  /\ UNCHANGED <<bits, listed, before, leaving, open>>

TransferStarts(s, d) ==
  /\ <<s, d>> \in pend
  /\ Call(IF s \in open THEN s ELSE "hal", <<StartBit(d, BitOf(s))>>)
  /\ pend' = pend \ {<<s, d>>}
  /\ UNCHANGED <<bits, listed, before, leaving, open>>

(* standby() and close() of a stream.                                        *)
Standby(s) ==
  /\ <<s, DirOf(s)>> \notin pend
  /\ open' = open \ {s}
  /\ bits' = [bits EXCEPT ![DirOf(s)] = @ \ {BitOf(s)}]
  /\ Call(s, <<CloseIfIdle(DirOf(s))>>)
  /\ UNCHANGED <<listed, before, leaving, pend>>

(* openOutputStream of a session, and the reset() that ends the session.     *)
StartsSession(dev) == IF dev \in Dock THEN <<StartBit("playback", "LPA")>> ELSE <<>>
OpenSession(dev) ==
  /\ PushBack("lpa")
  /\ Call("hal", StartsSession(dev))
  /\ UNCHANGED <<bits, leaving, open, pend>>

(* Mutant: a session that ends keeps its bit.                                *)
ResetKeepingBit ==
  /\ Erase("lpa")
  /\ Call("hal", <<CloseIfIdle("playback")>>)
  /\ UNCHANGED <<bits, leaving, open, pend>>

Reset ==
  /\ Erase("lpa")
  /\ bits' = [bits EXCEPT !["playback"] = @ \ {"LPA"}]
  /\ Call("hal", <<CloseIfIdle("playback")>>)
  /\ UNCHANGED <<leaving, open, pend>>

(* A session whose device does not open has set the bit and is not listed.   *)
(* openOutputStream lets mLock go and deletes it.  reset() then looks at     *)
(* mAlsaHandle, which is NULL, if there is a bit of playback: there the      *)
(* media server dies, and Init is what it is started with.                   *)
SessionFails(dev) ==
  /\ Room /\ "lpa" \in Listable \ (listed \cup leaving)
  /\ leaving' = leaving \cup {"lpa"}
  /\ Call("hal", StartsSession(dev))
  /\ UNCHANGED <<bits, listed, before, open, pend>>

ResetFailed ==
  /\ "lpa" \in leaving /\ bits["playback"] = {}
  /\ leaving' = leaving \ {"lpa"}
  /\ Call("hal", <<CloseIfIdle("playback")>>)
  /\ UNCHANGED <<bits, listed, before, open, pend>>

(* openOutputStream or openInputStream of a VoIP call; a stream opened       *)
(* before the destructor of the last one has got mLock takes its entry over. *)
OpenVoip ==
  /\ PushBack("voip")
  /\ Call("hal", IF mCurDevice \in Dock
                   THEN <<StartBit("playback", "VOIP"), StartBit("recording", "VOIP")>> ELSE <<>>)
  /\ UNCHANGED <<bits, leaving, open, pend>>

ReopenVoip ==
  /\ "voip" \in leaving
  /\ leaving' = leaving \ {"voip"}
  /\ Call("hal", <<>>)
  /\ UNCHANGED <<bits, listed, before, open, pend>>

(* The close() of the last of its two streams drops the bits; the entry goes *)
(* with the destructor (~ALSAStreamOps), which takes mLock a second time.    *)
CloseVoip ==
  /\ "voip" \in listed \ leaving /\ pend \cap ({"voip"} \X Dirs) = {}
  /\ bits' = [d \in Dirs |-> bits[d] \ {"VOIP"}]
  /\ leaving' = leaving \cup {"voip"}
  /\ Call("hal", <<CloseIfIdle("playback"), CloseIfIdle("recording")>>)
  /\ UNCHANGED <<listed, before, open, pend>>

(* An ordinary input stream is listed from openInputStream to its destructor.*)
(* (Its transfers are those of a member of Recs, if its device is the dock.) *)
OpenCapture ==
  /\ PushBack("capture")
  /\ Call("hal", <<>>)
  /\ UNCHANGED <<bits, leaving, open, pend>>

CloseCapture ==
  /\ "capture" \in listed \ leaving
  /\ bits' = [bits EXCEPT !["recording"] = @ \ {"REC"}]
  /\ leaving' = leaving \cup {"capture"}
  /\ Call("hal", <<CloseIfIdle("recording")>>)
  /\ UNCHANGED <<listed, before, open, pend>>

Destroy(u) ==
  /\ u \in leaving /\ Erase(u)
  /\ leaving' = leaving \ {u}
  /\ Call("hal", <<>>)
  /\ UNCHANGED <<bits, open, pend>>

(* enableVoiceCall and disableVoiceCall, out of doRouting.  The bits of a    *)
(* call are dropped only if the playback one is set.                         *)
StartCall(dev) ==
  /\ PushBack("voice")
  /\ Call("hal", Append(IF dev \in Dock THEN BothWays("voice") ELSE <<>>, Arrive(dev)))
  /\ UNCHANGED <<bits, leaving, open, pend>>

(* Mutant: the end of a call drops its bits and closes only recording.       *)
EndCallHalf(dev) ==
  /\ Erase("voice")
  /\ bits' = [d \in Dirs |-> bits[d] \ {"VOICE"}]
  /\ Call("hal", <<CloseIfIdle("recording"), Arrive(dev)>>)
  /\ UNCHANGED <<leaving, open, pend>>

EndCall(dev) ==
  /\ Erase("voice")
  /\ IF "VOICE" \in bits["playback"]
       THEN /\ bits' = [d \in Dirs |-> bits[d] \ {"VOICE"}]
            /\ Call("hal", <<CloseIfIdle("recording"), CloseIfIdle("playback"), Arrive(dev)>>)
       ELSE /\ UNCHANGED bits
            /\ Call("hal", <<Arrive(dev)>>)
  /\ UNCHANGED <<leaving, open, pend>>

(* Mutant: a call is started for playback only.                              *)
StartsForOneWay(u) == <<StartBit("playback", BitOf(u))>>

(* Mutant: a session is started in both directions.                          *)
StartsForBoth(u) == <<StartBit("recording", BitOf(u)), StartBit("playback", BitOf(u))>>

(* doRouting to a dock: what the first entry of mDeviceList that is a        *)
(* session or a call needs, and what a VoIP call does if an entry before it  *)
(* is one, or is of an input stream while the mode is IN_COMMUNICATION.      *)
StartsFor(u) == IF u = "lpa" THEN <<StartBit("playback", "LPA")>> ELSE BothWays(u)

First(kinds) == {u \in listed \cap kinds : \A v \in listed \cap kinds : <<v, u>> \notin before}
Talks(mode) == listed \cap (IF mode = "communication" THEN {"voip", "capture"} ELSE {"voip"})
Needed(mode) ==
  LET first == First({"lpa", "voice"}) IN
  (IF \E t \in Talks(mode) : \A u \in first : <<t, u>> \in before
     THEN StartsFor("voip") ELSE <<>>)
  \o (IF "lpa" \in first THEN StartsFor("lpa")
      ELSE IF "voice" \in first THEN StartsFor("voice") ELSE <<>>)

\* What doRouting to dev closes and starts before it arrives there.
Moves(dev, mode) ==
  IF dev \in Dock
    THEN (IF dev # mCurDevice /\ bits["playback"] # {} THEN <<Close("playback")>> ELSE <<>>)
           \o Needed(mode)
  ELSE IF dev # DockMic /\ (\E d \in Dirs : bits[d] # {})
    THEN <<Close("recording"), Close("playback")>>
  ELSE <<>>

Route(dev, mode) ==
  /\ Call("hal", Append(Moves(dev, mode), Arrive(dev)))
  /\ UNCHANGED <<bits, userVars>>

-----------------------------------------------------------------------------
ThreadStep(d) == \/ SetupFails(d) \/ Setup(d) \/ LoopFails(d)
                 \/ WakeByEvent(d) \/ CloseEvents(d) \/ End(d)
HalStep == Exit \/ Finish \/ Start \/ ArriveAt

(* The bound on overtaking: a behaviour is followed up to the first time a   *)
(* thread is started beside one that has not ended.                          *)
Lost == \E d \in Dirs : overtaken[d]

Step ==
  \/ HalStep
  \/ \E d \in Dirs : ThreadStep(d) \/ WakeByData(d)
  \/ \E s \in Music \cup Recs : FirstTransfer(s) \/ Standby(s)
  \/ \E c \in Checkers : Transfer(c[1], c[2]) \/ TransferStarts(c[1], c[2])
  \/ \E dev \in Outputs : OpenSession(dev) \/ SessionFails(dev) \/ StartCall(dev) \/ EndCall(dev)
  \/ \E dev \in Outputs \cup Inputs, mode \in {"communication", "other"} : Route(dev, mode)
  \/ Reset \/ ResetFailed \/ OpenVoip \/ ReopenVoip \/ CloseVoip
  \/ OpenCapture \/ CloseCapture
  \/ \E u \in {"voip", "capture"} : Destroy(u)

Next == ~Lost /\ Step

Spec == Init /\ [][Next]_vars

(* The threads and the call in progress run on.  The USB card goes on giving *)
(* what it records and the DSP goes on draining its proxy (the recording     *)
(* thread polls both); nothing is assumed of the data the DSP has to play.   *)
(* An open stream goes on writing, and gets the lock it waits for.           *)
Fairness ==
  /\ WF_vars(HalStep)
  /\ \A d \in Dirs : WF_vars(ThreadStep(d))
  /\ WF_vars(WakeByData("recording"))
  /\ \A s \in Music : /\ WF_vars(Transfer(s, "playback"))
                     /\ SF_vars(TransferStarts(s, "playback"))

FairSpec == Spec /\ Fairness

-----------------------------------------------------------------------------
(* A direction nobody uses any more has no thread and no open device, once   *)
(* the call that dropped the last bit has returned (close...IfNothingActive, *)
(* closeUSBPlayback, closeUSBRecording).  Unless a thread was started before *)
(* the one that had killed itself ended.                                     *)
Released ==
  Idle => \A d \in Dirs :
    bits[d] = {} /\ ~overtaken[d] => ~Alive(d) /\ ~usb[d] /\ ~proxy[d]

(* The copying loop never runs on a handle that has been closed or is NULL   *)
(* (PlaybackThreadEntry and RecordingThreadEntry use them without the lock). *)
LoopHasDevices ==
  \A d \in Dirs :
    pc[d] = "loop" /\ ~overtaken[d] => usb[d] /\ proxy[d]

(* A bit means a thread: what has been routed to the headset is copied,      *)
(* unless the thread has given up (a device that does not open, an error).   *)
BitsHaveThread ==
  Idle => \A d \in Dirs :
    bits[d] # {} /\ ~failed[d] /\ ~overtaken[d] => Alive(d) /\ ~kill[d]

(* A playback bit of a stream, of a session or of a voice call belongs to    *)
(* one there is: none is left behind to keep the thread running, whatever    *)
(* doRouting, a late write or an open that failed has set in between.  (The  *)
(* VoIP bit is left behind: doRouting sets it for an input stream, or for a  *)
(* VoIP entry whose streams have closed, and only a VoIP close() drops it.)  *)
BitsInUse ==
  /\ "MUSIC" \in bits["playback"] => \E s \in Music : s \in open
  /\ "VOICE" \in bits["playback"] => "voice" \in listed
  /\ "LPA" \in bits["playback"] => "lpa" \in listed \cup leaving

(* A call that is heard through the headset also listens to it.  (The two    *)
(* streams of a VoIP call may each start their own direction.)               *)
CallsBothWays ==
  Idle /\ "VOICE" \in bits["playback"] => "VOICE" \in bits["recording"]

(* A HAL call comes to its end: the threads it has exit do exit, though the  *)
(* DSP may have nothing to play and the playback thread waits in poll.       *)
ExitReturns == ~Idle ~> (Idle \/ \E d \in Dirs : overtaken[d])

(* A stream that goes on playing to the headset while another use case ends  *)
(* and takes the thread with it has the thread started again by its writes.  *)
MusicHeals ==
  \A s \in Music :
    s \in open /\ mCurRxDevice \in Dock ~> bits["playback"] # {} \/ s \notin open \/ mCurRxDevice \notin Dock
=============================================================================
