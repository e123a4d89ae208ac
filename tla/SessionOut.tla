----------------------------- MODULE SessionOut -----------------------------
(* AudioSessionOutALSA (alsa_sound/AudioSessionOut.cpp): a compressed or    *)
(* low-power playback session.  Three threads of the player share it:       *)
(*   the decoder calls isBufferAvailable() and then write(),                *)
(*   the control thread calls start, pause, flush, stop, standby,           *)
(*     setParameters and finally the destructor,                            *)
(*   the event thread, created by the constructor, polls the driver's timer *)
(*     and returns the buffers the driver is done with.                     *)
(* A step that runs from one acquisition of mLock to its release is one     *)
(* action; mLock and mDecoderLock appear as state where a thread keeps them *)
(* over a point at which another thread can act.                            *)
EXTENDS Naturals, Sequences, FiniteSets

CONSTANTS BUFFER_COUNT,   \* period buffers mapped from the driver
          TunnelMode,     \* mTunnelMode: a tunnel session, else LPA
          Calls,          \* the calls the control thread makes
          Writes,         \* the writes it makes: "full", "short", "none" bytes
          Faults,         \* the driver requests that may fail
          MaxTicks        \* timer events the kernel keeps until they are read

ASSUME BufferCountAssumption == BUFFER_COUNT \in Nat \ {0}
ASSUME ModeAssumption == TunnelMode \in BOOLEAN
ASSUME MaxTicksAssumption == MaxTicks \in Nat \ {0}

VARIABLES
  mEmptyQueue, mFilledQueue,                     \* sequences of buffers
  mSkipWrite, mReachedEOS, mEosEventReceived, mPaused, mSeeking,
  mLock, mDecoderLock,                           \* their owners
  mKillEventThread, mEventThreadAlive, mEfd,     \* the kill protocol
  handleOpen,         \* mAlsaHandle->handle is not NULL
  started,            \* mAlsaHandle->handle->start
  drv,                \* driver: buffers it will play and signal, oldest first
  drvPaused, ticks,   \* driver: paused; timer events not yet read
  drainRet,           \* what SNDRV_COMPRESS_DRAIN returned
  pcD, pcC, pcE,      \* decoder, control and event thread
  aborted             \* "assert": LOG_ALWAYS_FATAL, "null": NULL handle used

queueVars  == <<mEmptyQueue, mFilledQueue>>
eosVars    == <<mReachedEOS, mEosEventReceived>>
pauseVars  == <<mPaused, mSeeking>>
lockVars   == <<mLock, mDecoderLock>>
killVars   == <<mKillEventThread, mEventThreadAlive, mEfd>>
driverVars == <<started, drv, drvPaused, ticks>>
vars == <<queueVars, mSkipWrite, eosVars, pauseVars, lockVars, killVars,
          handleOpen, driverVars, drainRet, pcD, pcC, pcE, aborted>>

Buffers == 1 .. BUFFER_COUNT
mBufPoolOneMore == [i \in 1 .. BUFFER_COUNT + 1 |-> i]
mBufPool == [i \in 1 .. BUFFER_COUNT |-> i]

Free == "free"
MaxRead == 4          \* snd_timer_tread records one read() takes
Running == started /\ ~drvPaused

QueueTypes == mEmptyQueue \in Seq(Buffers) /\ mFilledQueue \in Seq(Buffers)
FlagTypes ==
  /\ mSkipWrite \in BOOLEAN /\ mReachedEOS \in BOOLEAN
  /\ mEosEventReceived \in BOOLEAN
  /\ mPaused \in BOOLEAN /\ mSeeking \in BOOLEAN
KillTypes ==
  /\ mKillEventThread \in BOOLEAN /\ mEventThreadAlive \in BOOLEAN
  /\ mEfd \in {"none", "open", "written"}
DriverTypes ==
  /\ handleOpen \in BOOLEAN /\ started \in BOOLEAN /\ drvPaused \in BOOLEAN
  /\ drv \in Seq(Buffers) /\ ticks \in 0 .. MaxTicks
ThreadTypes ==
  /\ mLock \in {Free, "decoder", "control"}
  /\ mDecoderLock \in {Free, "decoder", "control"}
  /\ pcD \in {"idle", "enter", "between", "check", "test", "wait", "woken",
              "write"}
  /\ pcC \in {"idle", "standby", "signal", "decoderLock", "kill", "wake",
              "join", "gone"}
  /\ pcE \in {"entry", "makeEfd", "loop", "poll", "got", "read", "lock",
              "drainCall", "drain", "relock", "post", "postLock", "exit",
              "close", "dead"}
  /\ drainRet \in {"ok", "EINTR", "EWOULDBLOCK", "error"}
  /\ aborted \in {"no", "assert", "null"}
TypeOK == QueueTypes /\ FlagTypes /\ KillTypes /\ DriverTypes /\ ThreadTypes

(* The constructor, after openAudioSessionDevice and bufferAlloc: every      *)
(* buffer is empty and the event thread has been created.                    *)
Init ==
  /\ mEmptyQueue = mBufPool /\ mFilledQueue = << >>
  /\ mSkipWrite = FALSE /\ mReachedEOS = FALSE /\ mEosEventReceived = FALSE
  /\ mPaused = FALSE /\ mSeeking = FALSE
  /\ mLock = Free /\ mDecoderLock = Free
  /\ mKillEventThread = FALSE /\ mEventThreadAlive = TRUE /\ mEfd = "none"
  /\ handleOpen = TRUE /\ started = FALSE /\ drv = << >>
  /\ drvPaused = FALSE /\ ticks = 0 /\ drainRet = "ok"
  /\ pcD = "idle" /\ pcC = "idle" /\ pcE = "entry" /\ aborted = "no"

\* mWriteCv.signal(): the decoder is the only thread that waits on it.
SignalNobody == UNCHANGED pcD
Signal == pcD' = IF pcD = "wait" THEN "woken" ELSE pcD

\* Where each thread is; nothing moves once the process is aborted.
AtD(pc) == aborted = "no" /\ pcD = pc
AtC(pc) == aborted = "no" /\ pcC = pc
AtE(pc) == aborted = "no" /\ pcE = pc

----------------------------------------------------------------------------
(* The decoder.  isBufferAvailable() locks mLock and then mDecoderLock and   *)
(* keeps the second one while it waits for a buffer.  The client does not begin a call    *)
(* once it has begun to delete the session or has put it in standby.           *)
InUse == /\ pcC \in {"idle", "standby", "kill", "wake", "join"}
         /\ mDecoderLock # "control" /\ handleOpen

IsBufferAvailable ==
  /\ AtD("idle") /\ InUse
  /\ pcD' = "enter"
  /\ UNCHANGED <<queueVars, mSkipWrite, eosVars, pauseVars, lockVars, killVars,
                 handleOpen, driverVars, drainRet, pcC, pcE, aborted>>

TakeLock ==
  /\ AtD("enter") /\ mLock = Free
  /\ mLock' = "decoder" /\ pcD' = "between"
  /\ UNCHANGED <<queueVars, mSkipWrite, eosVars, pauseVars, mDecoderLock,
                 killVars, handleOpen, driverVars, drainRet, pcC, pcE, aborted>>

\* The wait for the second lock keeps the first.
TakeDecoderLock ==
  /\ AtD("between") /\ mDecoderLock = Free
  /\ mDecoderLock' = "decoder" /\ pcD' = "check"
  /\ UNCHANGED <<queueVars, mSkipWrite, eosVars, pauseVars, mLock, killVars,
                 handleOpen, driverVars, drainRet, pcC, pcE, aborted>>

\* "mSkipwrite is true but empty queue isnt full" aborts the process.
CheckSkip ==
  /\ AtD("check")
  /\ IF mSkipWrite /\ Len(mEmptyQueue) # BUFFER_COUNT
       THEN aborted' = "assert" /\ UNCHANGED <<mSkipWrite, pcD>>
       ELSE mSkipWrite' = FALSE /\ pcD' = "test" /\ UNCHANGED aborted
  /\ UNCHANGED <<queueVars, eosVars, pauseVars, lockVars, killVars,
                 handleOpen, driverVars, drainRet, pcC, pcE>>

\* The loop test: wait() releases mLock only, a return releases both locks.
TestEmpty ==
  /\ AtD("test")
  /\ mLock' = Free
  /\ IF mEmptyQueue = << >>
       THEN pcD' = "wait" /\ UNCHANGED mDecoderLock
       ELSE pcD' = "write" /\ mDecoderLock' = Free
  /\ UNCHANGED <<queueVars, mSkipWrite, eosVars, pauseVars, killVars,
                 handleOpen, driverVars, drainRet, pcC, pcE, aborted>>

\* A condition wait may also return without a signal.
SpuriousWake ==
  /\ AtD("wait") /\ pcD' = "woken"
  /\ UNCHANGED <<queueVars, mSkipWrite, eosVars, pauseVars, lockVars, killVars,
                 handleOpen, driverVars, drainRet, pcC, pcE, aborted>>

WakeWithoutTest ==
  /\ AtD("woken") /\ mLock = Free
  /\ mSkipWrite' = FALSE /\ mDecoderLock' = Free
  /\ pcD' = IF mSkipWrite THEN "idle" ELSE "write"
  /\ UNCHANGED <<queueVars, eosVars, pauseVars, mLock, killVars,
                 handleOpen, driverVars, drainRet, pcC, pcE, aborted>>

\* Back from wait() with mLock: a skip ends the call with *isAvail false.
Wake ==
  /\ AtD("woken") /\ mLock = Free
  /\ IF mSkipWrite
       THEN /\ mSkipWrite' = FALSE /\ pcD' = "idle"
            /\ mDecoderLock' = Free /\ UNCHANGED mLock
       ELSE /\ mLock' = "decoder" /\ pcD' = "test"
            /\ UNCHANGED <<mSkipWrite, mDecoderLock>>
  /\ UNCHANGED <<queueVars, eosVars, pauseVars, killVars,
                 handleOpen, driverVars, drainRet, pcC, pcE, aborted>>

\* write() finds the flag a flush, a stop or a restart of the DSP left.
WriteSkipped(bytes) ==
  /\ mSkipWrite
  /\ IF Len(mEmptyQueue) # BUFFER_COUNT
       THEN aborted' = "assert" /\ UNCHANGED <<mSkipWrite, pcD>>
       ELSE mSkipWrite' = FALSE /\ pcD' = "idle" /\ UNCHANGED aborted
  /\ mReachedEOS' = (bytes = "none")
  /\ UNCHANGED <<queueVars, driverVars>>

\* pcm_write: the driver's ring has BUFFER_COUNT periods.
PcmWrite(ok) ==
  \/ ok /\ Len(drv) < BUFFER_COUNT /\ drv' = Append(drv, Head(mEmptyQueue))
  \/ ~ok /\ "write" \in Faults /\ UNCHANGED drv

(* A zero-length write marks the end of the stream.  The driver signals it   *)
(* only if nothing is queued before it; the session keeps its buffer in      *)
(* mFilledQueue only if that queue is empty, else no queue has it any more.  *)
WriteEOS(ok) ==
  /\ ~mSkipWrite
  /\ mEmptyQueue' = Tail(mEmptyQueue)
  /\ mFilledQueue' = IF ok /\ mFilledQueue = << >>
                       THEN Append(mFilledQueue, Head(mEmptyQueue))
                       ELSE mFilledQueue
  /\ IF drv = << >> THEN PcmWrite(ok)
                    ELSE UNCHANGED drv /\ (ok \/ "write" \in Faults)
  /\ started' \in {started, TRUE}
  /\ mReachedEOS' = TRUE
  /\ pcD' = "idle"
  /\ UNCHANGED <<mSkipWrite, drvPaused, ticks, aborted>>

\* The buffer is queued as filled whether or not the driver took it.
WriteData(bytes, ok) ==
  /\ ~mSkipWrite
  /\ mEmptyQueue' = Tail(mEmptyQueue)
  /\ mFilledQueue' = Append(mFilledQueue, Head(mEmptyQueue))
  /\ PcmWrite(ok)
  /\ IF bytes = "short" /\ "start" \notin Faults
       THEN started' = TRUE ELSE started' \in {started, TRUE}
  /\ mReachedEOS' = (bytes = "short" /\ ~TunnelMode)
  /\ pcD' = "idle"
  /\ UNCHANGED <<mSkipWrite, drvPaused, ticks, aborted>>

Write(bytes, ok) ==
  /\ AtD("write") /\ mLock = Free /\ InUse
  /\ mEosEventReceived' = FALSE
  /\ \/ WriteSkipped(bytes)
     \/ bytes = "none" /\ WriteEOS(ok)
     \/ bytes # "none" /\ WriteData(bytes, ok)
  /\ UNCHANGED <<pauseVars, lockVars, killVars, handleOpen, drainRet, pcC, pcE>>

Decoder ==
  \/ IsBufferAvailable \/ TakeLock \/ TakeDecoderLock \/ CheckSkip
  \/ TestEmpty \/ SpuriousWake \/ Wake
  \/ \E bytes \in Writes, ok \in BOOLEAN : Write(bytes, ok)

----------------------------------------------------------------------------
(* The control thread.                                                       *)
Call(c) == /\ c \in Calls /\ AtC("idle") /\ handleOpen /\ mLock = Free

(* drain(): pcm_prepare discards what the driver holds and stops it; a drain *)
(* request under way returns EINTR.  If it fails the driver keeps its        *)
(* buffers, paused or not as the pause request before it left it; that the   *)
(* observer is then told of an end of stream changes nothing in the session. *)
Prepare(paused) ==
  /\ started' = FALSE
  /\ \/ /\ drv' = << >> /\ drvPaused' = FALSE
        /\ IF pcE = "drain" THEN pcE' = "relock" /\ drainRet' = "EINTR"
                            ELSE UNCHANGED <<pcE, drainRet>>
     \/ /\ "prepare" \in Faults
        /\ drvPaused' = paused /\ UNCHANGED <<drv, pcE, drainRet>>

Start ==
  /\ Call("start")
  /\ IF mPaused
       THEN IF mSeeking
              THEN Prepare(drvPaused) /\ mSeeking' = FALSE /\ mPaused' = FALSE
              ELSE /\ \/ drvPaused' = FALSE /\ mPaused' = FALSE
                      \/ "resume" \in Faults /\ UNCHANGED <<drvPaused, mPaused>>
                   /\ UNCHANGED <<started, drv, mSeeking, pcE, drainRet>>
       ELSE /\ started' = TRUE \/ ("start" \in Faults /\ UNCHANGED started)
            /\ UNCHANGED <<pauseVars, drv, drvPaused, pcE, drainRet>>
  /\ UNCHANGED <<queueVars, mSkipWrite, eosVars, lockVars, killVars,
                 handleOpen, ticks, pcD, pcC, aborted>>

\* The driver pauses only while it runs; pause_l() asks it only once.
Pause ==
  /\ Call("pause")
  /\ \/ ~mPaused /\ Running /\ mPaused' = TRUE /\ drvPaused' = TRUE
     \/ /\ mPaused \/ ~Running \/ "pause" \in Faults
        /\ UNCHANGED <<mPaused, drvPaused>>
  /\ UNCHANGED <<queueVars, mSkipWrite, eosVars, mSeeking, lockVars, killVars,
                 handleOpen, started, drv, ticks, drainRet,
                 pcD, pcC, pcE, aborted>>

\* flush() asks a running driver to pause, and goes on if it does not.
PausedByFlush ==
  IF ~mPaused /\ Running
    THEN IF "pause" \in Faults THEN {TRUE, FALSE} ELSE {TRUE}
    ELSE {drvPaused}

RefillKeepsFilled == mEmptyQueue' = mBufPool /\ UNCHANGED mFilledQueue
RefillNothing == mFilledQueue' = << >> /\ UNCHANGED mEmptyQueue
RefillEmptyQueue == mEmptyQueue' = mBufPool /\ mFilledQueue' = << >>

(* flush(): every buffer is empty again, the end of stream is forgotten, the *)
(* driver is emptied and the write under way, if any, is to be skipped.      *)
FlushSession ==
  /\ RefillEmptyQueue
  /\ mReachedEOS' = FALSE /\ mEosEventReceived' = FALSE
  /\ mSeeking' = (mSeeking \/ mPaused)
  /\ \E paused \in PausedByFlush : Prepare(paused)
  /\ mSkipWrite' = TRUE /\ Signal

Flush ==
  /\ Call("flush") /\ FlushSession
  /\ UNCHANGED <<mPaused, lockVars, killVars, handleOpen, ticks, pcC, aborted>>

\* standby(): a flush, and then, without mLock, the driver's handle is closed.
Standby ==
  /\ Call("standby") /\ FlushSession /\ pcC' = "standby"
  /\ UNCHANGED <<mPaused, lockVars, killVars, handleOpen, ticks, aborted>>

StandbyClose ==
  /\ AtC("standby") /\ pcC' = "idle"
  /\ handleOpen' = FALSE /\ mPaused' = FALSE
  /\ drv' = << >> /\ started' = FALSE /\ drvPaused' = FALSE /\ ticks' = 0
  /\ UNCHANGED <<queueVars, mSkipWrite, eosVars, mSeeking, lockVars, killVars,
                 drainRet, pcD, pcE, aborted>>

\* stop(): nothing is flushed; the decoder is told to skip.
Stop ==
  /\ Call("stop")
  /\ mSkipWrite' = TRUE /\ Signal
  /\ UNCHANGED <<queueVars, eosVars, pauseVars, lockVars, killVars, handleOpen,
                 driverVars, drainRet, pcC, pcE, aborted>>

\* setParameters(ADSP_STATUS=ONLINE): the end of stream is reached at once; what
\* the observer is told of it leaves the session as it is.
AdspOnline ==
  /\ Call("ONLINE")
  /\ mReachedEOS' = TRUE /\ mSkipWrite' = TRUE /\ Signal
  /\ UNCHANGED <<queueVars, mEosEventReceived, pauseVars, lockVars, killVars,
                 handleOpen, driverVars, drainRet, pcC, pcE, aborted>>

\* setParameters(ADSP_STATUS=OFFLINE) asks the thread to exit, holding mLock.
AdspOffline ==
  /\ Call("OFFLINE")
  /\ mLock' = "control" /\ pcC' = "kill"
  /\ UNCHANGED <<queueVars, mSkipWrite, eosVars, pauseVars, mDecoderLock,
                 killVars, handleOpen, driverVars, drainRet, pcD, pcE, aborted>>

\* The destructor: the flag and the signal without mLock, then mDecoderLock.
Destroy ==
  /\ "destroy" \in Calls /\ AtC("idle")
  /\ mSkipWrite' = TRUE /\ pcC' = "signal"
  /\ UNCHANGED <<queueVars, eosVars, pauseVars, lockVars, killVars, handleOpen,
                 driverVars, drainRet, pcD, pcE, aborted>>

DestroySignal ==
  /\ AtC("signal") /\ pcC' = "decoderLock" /\ Signal
  /\ UNCHANGED <<queueVars, mSkipWrite, eosVars, pauseVars, lockVars, killVars,
                 handleOpen, driverVars, drainRet, pcE, aborted>>

DestroyLock ==
  /\ AtC("decoderLock") /\ mDecoderLock = Free
  /\ mDecoderLock' = "control" /\ pcC' = "kill"
  /\ UNCHANGED <<queueVars, mSkipWrite, eosVars, pauseVars, mLock, killVars,
                 handleOpen, driverVars, drainRet, pcD, pcE, aborted>>

(* requestAndWaitForEventThreadExit(), for OFFLINE (which then releases      *)
(* mLock) and for the destructor (which then closes the device).             *)
ExitRequested ==
  IF mLock = "control"
    THEN pcC' = "idle" /\ mLock' = Free /\ UNCHANGED <<mDecoderLock, handleOpen>>
    ELSE pcC' = "gone" /\ mDecoderLock' = Free /\ handleOpen' = FALSE
         /\ UNCHANGED mLock

RequestExit ==
  /\ AtC("kill")
  /\ IF mEventThreadAlive
       THEN /\ mKillEventThread' = TRUE /\ pcC' = "wake"
            /\ UNCHANGED <<lockVars, handleOpen>>
       ELSE ExitRequested /\ UNCHANGED mKillEventThread
  /\ UNCHANGED <<queueVars, mSkipWrite, eosVars, pauseVars, mEventThreadAlive,
                 mEfd, driverVars, drainRet, pcD, pcE, aborted>>

WakeEventThreadByFlagOnly ==
  /\ AtC("wake") /\ pcC' = "join"
  /\ UNCHANGED <<queueVars, mSkipWrite, eosVars, pauseVars, lockVars, killVars,
                 handleOpen, driverVars, drainRet, pcD, pcE, aborted>>

WakeEventThread ==
  /\ AtC("wake") /\ pcC' = "join"
  /\ mEfd' = IF mEfd = "none" THEN "none" ELSE "written"
  /\ UNCHANGED <<queueVars, mSkipWrite, eosVars, pauseVars, lockVars,
                 mKillEventThread, mEventThreadAlive, handleOpen, driverVars,
                 drainRet, pcD, pcE, aborted>>

JoinWithoutWaiting ==
  /\ AtC("join") /\ ExitRequested
  /\ UNCHANGED <<queueVars, mSkipWrite, eosVars, pauseVars, killVars,
                 driverVars, drainRet, pcD, pcE, aborted>>

Join ==
  /\ AtC("join") /\ pcE = "dead" /\ ExitRequested
  /\ UNCHANGED <<queueVars, mSkipWrite, eosVars, pauseVars, killVars,
                 driverVars, drainRet, pcD, pcE, aborted>>

Control ==
  \/ Start \/ Pause \/ Flush \/ Standby \/ StandbyClose \/ Stop \/ AdspOnline
  \/ AdspOffline \/ Destroy \/ DestroySignal \/ DestroyLock
  \/ RequestExit \/ WakeEventThread \/ Join

----------------------------------------------------------------------------
(* The event thread.                                                         *)
GoE(from, to) ==
  /\ AtE(from) /\ pcE' = to
  /\ UNCHANGED <<queueVars, mSkipWrite, eosVars, pauseVars, lockVars,
                 mKillEventThread, handleOpen, drainRet, pcD, pcC>>

Entry ==
  /\ GoE("entry", IF mKillEventThread THEN "loop" ELSE "makeEfd")
  /\ UNCHANGED <<mEventThreadAlive, mEfd, driverVars, aborted>>

MakeEfd ==
  /\ GoE("makeEfd", "loop")
  /\ mEfd' = "open"
  /\ UNCHANGED <<mEventThreadAlive, driverVars, aborted>>

Loop ==
  /\ GoE("loop", IF mKillEventThread THEN "exit" ELSE "poll")
  /\ UNCHANGED <<mEventThreadAlive, mEfd, driverVars, aborted>>

\* poll() reports the kill event, an invalid timer fd, or an error of its own.
PollOther ==
  /\ \/ GoE("poll", "loop") /\ mEfd = "written" /\ mEfd' = "open"
     \/ GoE("poll", "loop") /\ mEfd # "written" /\ ~handleOpen /\ UNCHANGED mEfd
     \/ GoE("poll", "exit") /\ "poll" \in Faults /\ UNCHANGED mEfd
  /\ UNCHANGED <<mEventThreadAlive, driverVars, aborted>>

PollTick ==
  /\ ticks > 0 /\ mEfd # "written"
  /\ GoE("poll", IF mKillEventThread THEN "loop" ELSE "got")
  /\ UNCHANGED <<mEventThreadAlive, mEfd, driverVars, aborted>>

CheckHandle ==
  /\ GoE("got", IF handleOpen THEN "read" ELSE "exit")
  /\ UNCHANGED <<mEventThreadAlive, mEfd, driverVars, aborted>>

\* One read takes up to MaxRead events.
ReadTimer ==
  /\ GoE("read", "lock")
  /\ aborted' = IF handleOpen THEN aborted ELSE "null"
  /\ ticks' = IF ticks > MaxRead THEN ticks - MaxRead ELSE 0
  /\ UNCHANGED <<mEventThreadAlive, mEfd, started, drv, drvPaused>>

(* Under mLock: the oldest filled buffer is empty again.  If it was the last *)
(* one before the end of the stream, drainAndPostEOS_l(): a tunnel session   *)
(* drains the driver without mLock, an LPA session posts the end at once.    *)
EndReachedEarly == mReachedEOS /\ ~mEosEventReceived
EndReached == mFilledQueue' = << >> /\ mReachedEOS /\ ~mEosEventReceived

ReturnBuffer ==
  /\ AtE("lock") /\ mLock = Free
  /\ IF mFilledQueue = << >>
       THEN /\ pcE' = "loop"
            /\ UNCHANGED <<queueVars, mSkipWrite, mEosEventReceived, pcD>>
       ELSE /\ mFilledQueue' = Tail(mFilledQueue)
            /\ mEmptyQueue' = Append(mEmptyQueue, Head(mFilledQueue))
            /\ mSkipWrite' = FALSE /\ Signal
            /\ pcE' = IF ~EndReached THEN "loop"
                      ELSE IF TunnelMode THEN "drainCall" ELSE "post"
            /\ mEosEventReceived' =
                 (mEosEventReceived \/ (EndReached /\ ~TunnelMode))
  /\ UNCHANGED <<mReachedEOS, pauseVars, lockVars, killVars, handleOpen,
                 driverVars, drainRet, pcC, aborted>>

\* SNDRV_COMPRESS_DRAIN, without mLock: with nothing queued it returns at once.
DrainCall ==
  /\ AtE("drainCall")
  /\ IF drv = << >>
       THEN /\ pcE' = "relock"
            /\ drainRet' = IF started THEN "ok" ELSE "EWOULDBLOCK"
       ELSE pcE' = "drain" /\ UNCHANGED drainRet
  /\ UNCHANGED <<queueVars, mSkipWrite, eosVars, pauseVars, lockVars, killVars,
                 handleOpen, driverVars, pcD, pcC, aborted>>

DrainReturns ==
  /\ AtE("drain") /\ pcE' = "relock"
  /\ \/ drv = << >> /\ drainRet' = "ok"
     \/ "drain" \in Faults /\ drainRet' = "error"
  /\ UNCHANGED <<queueVars, mSkipWrite, eosVars, pauseVars, lockVars, killVars,
                 handleOpen, driverVars, pcD, pcC, aborted>>

SkipEOS == drainRet = "EINTR" \/ (drainRet = "EWOULDBLOCK" /\ ~mReachedEOS)

AfterDrain ==
  /\ AtE("relock") /\ mLock = Free
  /\ IF SkipEOS THEN pcE' = "loop" /\ UNCHANGED mEosEventReceived
                ELSE pcE' = "post" /\ mEosEventReceived' = TRUE
  /\ UNCHANGED <<queueVars, mSkipWrite, mReachedEOS, pauseVars, lockVars,
                 killVars, handleOpen, driverVars, drainRet, pcD, pcC, aborted>>

\* postEOS(0) without mLock, which is then taken again and released.
PostEOS == GoE("post", "postLock") /\ UNCHANGED <<mEventThreadAlive, mEfd,
                                                  driverVars, aborted>>
Posted == /\ mLock = Free /\ GoE("postLock", "loop")
          /\ UNCHANGED <<mEventThreadAlive, mEfd, driverVars, aborted>>

Exit == /\ GoE("exit", "close") /\ mEventThreadAlive' = FALSE
        /\ UNCHANGED <<mEfd, driverVars, aborted>>
CloseEfd == /\ GoE("close", "dead") /\ mEfd' = "none"
            /\ UNCHANGED <<mEventThreadAlive, driverVars, aborted>>

EventThread ==
  \/ Entry \/ MakeEfd \/ Loop \/ PollOther \/ PollTick \/ CheckHandle
  \/ ReadTimer \/ ReturnBuffer \/ DrainCall \/ DrainReturns
  \/ AfterDrain \/ PostEOS \/ Posted \/ Exit \/ CloseEfd

----------------------------------------------------------------------------
(* The driver plays its oldest buffer and raises a timer event, which is     *)
(* lost if the timer's queue is full.                                        *)
Play ==
  /\ aborted = "no" /\ Running /\ drv # << >>
  /\ drv' = Tail(drv)
  /\ ticks' = IF ticks < MaxTicks THEN ticks + 1 ELSE ticks
  /\ UNCHANGED <<queueVars, mSkipWrite, eosVars, pauseVars, lockVars, killVars,
                 handleOpen, started, drvPaused, drainRet, pcD, pcC, pcE, aborted>>

Next == Decoder \/ Control \/ EventThread \/ Play

Spec == Init /\ [][Next]_vars

(* A thread that may run, or that asks for a lock again and again released,  *)
(* gets its turn; a running driver plays.  Nobody is obliged to make a call. *)
FairSpec ==
  /\ Spec
  /\ SF_vars(EventThread)
  /\ SF_vars(TakeLock \/ TakeDecoderLock \/ CheckSkip
             \/ TestEmpty \/ Wake)
  /\ SF_vars(StandbyClose \/ DestroySignal \/ DestroyLock
             \/ RequestExit \/ WakeEventThread \/ Join)
  /\ WF_vars(Play)

----------------------------------------------------------------------------
Elems(s) == {s[i] : i \in 1 .. Len(s)}
NoRepeat(s) == \A i, j \in 1 .. Len(s) : s[i] = s[j] => i = j

(* A buffer is in at most one of the two queues, and there only once,        *)
(* whatever flushes, lost end-of-stream buffers and timer events come        *)
(* between its write and its return: two decoder writes never share memory.  *)
QueuesDisjoint ==
  /\ NoRepeat(mEmptyQueue) /\ NoRepeat(mFilledQueue)
  /\ Elems(mEmptyQueue) \cap Elems(mFilledQueue) = {}

(* Between isBufferAvailable() answering true and the write() it allows, no  *)
(* other thread takes the buffer: write() never erases the head of an empty  *)
(* mEmptyQueue (undefined behaviour in write()).                             *)
WriteHasBuffer == pcD = "write" => mEmptyQueue # << >>

(* The LOG_ALWAYS_FATAL_IF of write() and isBufferAvailable(): when they     *)
(* find mSkipWrite set, mEmptyQueue holds every buffer.  (Until the client   *)
(* destroys the session, which sets the flag whatever the queues hold.)      *)
Destroyed == pcC \in {"signal", "decoderLock", "gone"} \/ mDecoderLock = "control"
SkipOnlyAfterFlush == aborted = "assert" => Destroyed

(* While the end of the stream counts as reported, no buffer written after   *)
(* that end is waiting for the driver.                                       *)
NothingQueuedAfterEOS == mEosEventReceived => mFilledQueue = << >>

(* The end of stream is reported only when it has been reached and no flush  *)
(* has cleared it since.                                                     *)
NoFalseEOS ==
  [][(pcE' = "post" /\ pcE # "post") => mReachedEOS]_vars

(* When the destructor returns and the object's memory goes, the event       *)
(* thread has left the loop in which it uses the queues and the driver, also *)
(* if it ended by itself (a closed or failing driver, OFFLINE) and was       *)
(* therefore not joined.  What is left to it is to close mEfd.               *)
LoopLeft == pcE \in {"close", "dead"}
LoopLeftFirst == pcC = "gone" => LoopLeft

(* Once asked to exit the event thread exits, wherever it was: the eventfd   *)
(* it may still have to create, the poll and the kill flag never miss each   *)
(* other.  The one thing that can stop it for ever is a decoder between the  *)
(* two locks of isBufferAvailable() while the destructor has the second.     *)
LocksCrossed == pcD = "between" /\ mLock = "decoder" /\ mDecoderLock = "control"
ExitUnlessCrossed == mKillEventThread ~> (pcE = "dead" \/ []LocksCrossed)

(* A decoder that waits for a buffer gets the destructor's signal and lets   *)
(* go of mDecoderLock, so that the destructor gets it.                       *)
DecoderLetsGo ==
  pcC = "signal" ~> (pcC \notin {"signal", "decoderLock"} \/ aborted # "no")

(* While the driver plays, a decoder that waits for a buffer is woken.       *)
DecoderFed == (pcD = "wait" /\ Running) ~> (pcD # "wait" \/ ~Running)

(* The queues promise what BufferOwnership states.                           *)
Ownership == INSTANCE BufferOwnership
               WITH Buffers <- Buffers, free <- Elems(mEmptyQueue),
                    inFlight <- mFilledQueue
OwnershipSpec == Ownership!Spec
=============================================================================
