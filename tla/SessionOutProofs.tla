--------------------------- MODULE SessionOutProofs ---------------------------
(* Theorems about SessionOut, for every number of buffers, every set of     *)
(* calls, writes and faults, and both kinds of session.                     *)
EXTENDS SessionOut, TLAPS

----------------------------------------------------------------------------
(* Queues of buffers.                                                       *)

(* Taking the head of a queue without repetition removes just that buffer.  *)
LEMMA TailOfQueue ==
  ASSUME NEW S, NEW s \in Seq(S), s # << >>, NoRepeat(s)
  PROVE  /\ Tail(s) \in Seq(S) /\ Head(s) \in S
         /\ NoRepeat(Tail(s))
         /\ Head(s) \in Elems(s)
         /\ Elems(Tail(s)) = Elems(s) \ {Head(s)}
<1>1. Len(s) \in Nat /\ Len(s) # 0 /\ s \in [1 .. Len(s) -> S]
  OBVIOUS
<1>2. Len(Tail(s)) = Len(s) - 1 /\ Tail(s) \in Seq(S)
  OBVIOUS
<1>3. \A i \in 1 .. Len(s) - 1 : Tail(s)[i] = s[i + 1]
  OBVIOUS
<1>4. Head(s) = s[1] /\ Head(s) \in S
  BY <1>1
<1>5. NoRepeat(Tail(s))
  BY <1>1, <1>2, <1>3 DEF NoRepeat
<1>6. Head(s) \in Elems(s)
  BY <1>1, <1>4 DEF Elems
<1>7. Elems(Tail(s)) \subseteq Elems(s) \ {Head(s)}
  <2>1. ASSUME NEW i \in 1 .. Len(s) - 1
        PROVE  Tail(s)[i] \in Elems(s) /\ Tail(s)[i] # Head(s)
    <3>1. i + 1 \in 1 .. Len(s) /\ 1 \in 1 .. Len(s) /\ i + 1 # 1
      BY <1>1
    <3>2. Tail(s)[i] = s[i + 1] /\ s[i + 1] # s[1]
      BY <1>3, <3>1 DEF NoRepeat
    <3> QED BY <3>1, <3>2, <1>4 DEF Elems
  <2> QED BY <2>1, <1>2 DEF Elems
<1>8. Elems(s) \ {Head(s)} \subseteq Elems(Tail(s))
  <2>1. ASSUME NEW i \in 1 .. Len(s), s[i] # s[1]
        PROVE  s[i] \in Elems(Tail(s))
    <3>1. i - 1 \in 1 .. Len(s) - 1 /\ (i - 1) + 1 = i
      BY <1>1, <2>1
    <3>2. Tail(s)[i - 1] = s[i]
      BY <1>3, <3>1
    <3> QED BY <3>1, <3>2, <1>2 DEF Elems
  <2> QED BY <2>1, <1>4 DEF Elems
<1> QED BY <1>2, <1>4, <1>5, <1>6, <1>7, <1>8

(* Appending a buffer adds just that buffer.                                *)
LEMMA AppendToQueue ==
  ASSUME NEW S, NEW s \in Seq(S), NEW b \in S
  PROVE  /\ Append(s, b) \in Seq(S) /\ Append(s, b) # << >>
         /\ Elems(Append(s, b)) = Elems(s) \cup {b}
         /\ (NoRepeat(s) /\ b \notin Elems(s)) => NoRepeat(Append(s, b))
<1> DEFINE t == Append(s, b)
<1>1. /\ Len(s) \in Nat /\ Len(t) = Len(s) + 1 /\ t \in Seq(S)
      /\ t[Len(s) + 1] = b
      /\ \A i \in 1 .. Len(s) : t[i] = s[i]
  OBVIOUS
<1> HIDE DEF t
<1>2. Elems(t) = Elems(s) \cup {b}
  <2>1. 1 .. Len(t) = (1 .. Len(s)) \cup {Len(s) + 1}
    BY <1>1
  <2> QED BY <2>1, <1>1 DEF Elems
<1>3. ASSUME NoRepeat(s), b \notin Elems(s)
      PROVE  NoRepeat(t)
  <2> SUFFICES ASSUME NEW i \in 1 .. Len(t), NEW j \in 1 .. Len(t), t[i] = t[j]
               PROVE  i = j
    BY DEF NoRepeat
  <2>1. (i \in 1 .. Len(s) \/ i = Len(s) + 1) /\ (j \in 1 .. Len(s) \/ j = Len(s) + 1)
    BY <1>1
  <2>2. \A k \in 1 .. Len(s) : s[k] # b
    BY <1>3 DEF Elems
  <2> QED BY <1>1, <1>3, <2>1, <2>2 DEF NoRepeat
<1>4. t # << >>
  BY <1>1
<1> QED BY <1>1, <1>2, <1>3, <1>4 DEF t

(* What bufferAlloc leaves: every buffer once.                              *)
LEMMA PoolIsFull ==
  /\ mBufPool \in Seq(Buffers) /\ mBufPool # << >>
  /\ Len(mBufPool) = BUFFER_COUNT
  /\ NoRepeat(mBufPool) /\ Elems(mBufPool) = Buffers
<1>1. BUFFER_COUNT \in Nat /\ BUFFER_COUNT # 0
  BY BufferCountAssumption
<1>2. mBufPool \in Seq(Buffers) /\ Len(mBufPool) = BUFFER_COUNT
  BY <1>1 DEF mBufPool, Buffers
<1> QED BY <1>1, <1>2 DEF mBufPool, Buffers, NoRepeat, Elems

(* A queue without any buffer.                                              *)
LEMMA NothingQueued ==
  ASSUME NEW S
  PROVE  << >> \in Seq(S) /\ NoRepeat(<< >>) /\ Elems(<< >>) = {}
BY DEF NoRepeat, Elems

(* What the driver holds when nothing is queued.                            *)
LEMMA NoneQueued == << >> \in Seq(Buffers) /\ 0 \in 0 .. MaxTicks
<1>1. 0 \in 0 .. MaxTicks
  BY MaxTicksAssumption
<1> QED BY <1>1, NothingQueued

----------------------------------------------------------------------------
(* What a step of the session may do to the two queues.                     *)
Given == /\ mEmptyQueue # << >> /\ mEmptyQueue' = Tail(mEmptyQueue)
         /\ mFilledQueue' = Append(mFilledQueue, Head(mEmptyQueue))
Lost == /\ mEmptyQueue # << >> /\ mEmptyQueue' = Tail(mEmptyQueue)
        /\ mFilledQueue' = mFilledQueue
Returned == /\ mFilledQueue # << >> /\ mFilledQueue' = Tail(mFilledQueue)
            /\ mEmptyQueue' = Append(mEmptyQueue, Head(mFilledQueue))
QueueStep == \/ UNCHANGED queueVars \/ Given \/ Lost \/ Returned
             \/ RefillEmptyQueue

(* Every step of every thread is one of these, as long as a decoder that is *)
(* about to write has a buffer.                                             *)
LEMMA StepOfQueues == WriteHasBuffer /\ [Next]_vars => QueueStep
<1> SUFFICES ASSUME WriteHasBuffer, [Next]_vars PROVE QueueStep
  OBVIOUS
<1>1. CASE UNCHANGED vars
  BY <1>1 DEF vars, queueVars, QueueStep
<1>2. CASE Decoder
  <2>1. CASE IsBufferAvailable \/ TakeLock \/ TakeDecoderLock \/ CheckSkip \/ TestEmpty
             \/ SpuriousWake \/ Wake
    BY <2>1 DEF IsBufferAvailable, TakeLock, TakeDecoderLock, CheckSkip, TestEmpty,
                SpuriousWake, Wake, QueueStep
  <2>2. ASSUME NEW bytes \in Writes, NEW ok \in BOOLEAN, Write(bytes, ok)
        PROVE  QueueStep
    <3>1. mEmptyQueue # << >>
      BY <2>2 DEF Write, AtD, WriteHasBuffer
    <3>2. CASE WriteSkipped(bytes)
      BY <3>2 DEF WriteSkipped, QueueStep
    <3>3. CASE WriteEOS(ok)
      BY <3>1, <3>3 DEF WriteEOS, QueueStep, Given, Lost
    <3>4. CASE WriteData(bytes, ok)
      BY <3>1, <3>4 DEF WriteData, QueueStep, Given
    <3> QED BY <2>2, <3>2, <3>3, <3>4 DEF Write
  <2> QED BY <1>2, <2>1, <2>2 DEF Decoder
<1>3. CASE Control
  <2>1. CASE Flush \/ Standby
    BY <2>1 DEF Flush, Standby, FlushSession, QueueStep
  <2>2. CASE Start \/ Pause \/ StandbyClose \/ Stop \/ AdspOnline \/ AdspOffline
    BY <2>2 DEF Start, Pause, StandbyClose, Stop, AdspOnline, AdspOffline,
                QueueStep
  <2>3. CASE Destroy \/ DestroySignal \/ DestroyLock \/ RequestExit
             \/ WakeEventThread \/ Join
    BY <2>3 DEF Destroy, DestroySignal, DestroyLock, RequestExit,
                WakeEventThread, Join, QueueStep
  <2> QED BY <1>3, <2>1, <2>2, <2>3 DEF Control
<1>4. CASE EventThread
  <2>1. CASE ReturnBuffer
    BY <2>1 DEF ReturnBuffer, queueVars, QueueStep, Returned
  <2>2. CASE DrainCall \/ DrainReturns \/ AfterDrain
    BY <2>2 DEF DrainCall, DrainReturns, AfterDrain, QueueStep
  <2>3. CASE Entry \/ MakeEfd \/ Loop \/ PollOther \/ PollTick \/ CheckHandle
             \/ ReadTimer \/ PostEOS \/ Posted \/ Exit \/ CloseEfd
    BY <2>3 DEF Entry, MakeEfd, Loop, PollOther, PollTick, CheckHandle,
                ReadTimer, PostEOS, Posted, Exit, CloseEfd, GoE, QueueStep
  <2> QED BY <1>4, <2>1, <2>2, <2>3 DEF EventThread
<1>5. CASE Play
  BY <1>5 DEF Play, QueueStep
<1> QED BY <1>1, <1>2, <1>3, <1>4, <1>5 DEF Next

(* Such a step keeps the two queues disjoint and without repetition.        *)
LEMMA QueueStepKeepsDisjoint ==
  QueueTypes /\ QueuesDisjoint /\ QueueStep => QueueTypes' /\ QueuesDisjoint'
<1> SUFFICES ASSUME QueueTypes, QueuesDisjoint, QueueStep
             PROVE  QueueTypes' /\ QueuesDisjoint'
  OBVIOUS
<1> USE DEF QueueTypes, QueuesDisjoint
<1>1. CASE UNCHANGED queueVars
  BY <1>1 DEF queueVars
<1>2. CASE Given
  <2>1. /\ mEmptyQueue' \in Seq(Buffers) /\ NoRepeat(mEmptyQueue')
        /\ Head(mEmptyQueue) \in Elems(mEmptyQueue) \cap Buffers
        /\ Elems(mEmptyQueue') = Elems(mEmptyQueue) \ {Head(mEmptyQueue)}
    BY <1>2, TailOfQueue DEF Given
  <2>2. /\ mFilledQueue' \in Seq(Buffers) /\ NoRepeat(mFilledQueue')
        /\ Elems(mFilledQueue') = Elems(mFilledQueue) \cup {Head(mEmptyQueue)}
    BY <1>2, <2>1, AppendToQueue DEF Given
  <2> QED BY <2>1, <2>2
<1>3. CASE Lost
  <2>1. /\ mEmptyQueue' \in Seq(Buffers) /\ NoRepeat(mEmptyQueue')
        /\ Elems(mEmptyQueue') = Elems(mEmptyQueue) \ {Head(mEmptyQueue)}
    BY <1>3, TailOfQueue DEF Lost
  <2> QED BY <1>3, <2>1 DEF Lost
<1>4. CASE Returned
  <2>1. /\ mFilledQueue' \in Seq(Buffers) /\ NoRepeat(mFilledQueue')
        /\ Head(mFilledQueue) \in Elems(mFilledQueue) \cap Buffers
        /\ Elems(mFilledQueue') = Elems(mFilledQueue) \ {Head(mFilledQueue)}
    BY <1>4, TailOfQueue DEF Returned
  <2>2. /\ mEmptyQueue' \in Seq(Buffers) /\ NoRepeat(mEmptyQueue')
        /\ Elems(mEmptyQueue') = Elems(mEmptyQueue) \cup {Head(mFilledQueue)}
    BY <1>4, <2>1, AppendToQueue DEF Returned
  <2> QED BY <2>1, <2>2
<1>5. CASE RefillEmptyQueue
  BY <1>5, PoolIsFull, NothingQueued DEF RefillEmptyQueue
<1> QED BY <1>1, <1>2, <1>3, <1>4, <1>5 DEF QueueStep

----------------------------------------------------------------------------
(* Types, disjoint queues and a buffer for each allowed write are one       *)
(* inductive invariant: the queues stay typed because a write finds a head. *)
IInv == TypeOK /\ QueuesDisjoint /\ WriteHasBuffer

LEMMA InitIInv == Init => IInv
<1> SUFFICES ASSUME Init PROVE IInv
  OBVIOUS
<1>1. QueuesDisjoint /\ QueueTypes
  BY PoolIsFull, NothingQueued DEF Init, QueuesDisjoint, QueueTypes
<1>2. DriverTypes
  BY NoneQueued DEF Init, DriverTypes
<1>3. TypeOK
  BY <1>1, <1>2 DEF Init, TypeOK, FlagTypes, KillTypes, ThreadTypes, Free
<1> QED BY <1>1, <1>3 DEF Init, IInv, WriteHasBuffer

(* The decoder alone moves to "write", and it has just seen a buffer; after *)
(* that the event thread adds buffers and a flush restores all of them.     *)
LEMMA WriteHasBufferStep == IInv /\ [Next]_vars => WriteHasBuffer'
<1> SUFFICES ASSUME IInv, [Next]_vars, pcD' = "write"
             PROVE  mEmptyQueue' # << >>
  BY DEF WriteHasBuffer
<1> USE DEF WriteHasBuffer
<1>1. CASE UNCHANGED vars
  BY <1>1 DEF vars, queueVars, IInv
<1>2. CASE Decoder
  <2>1. CASE IsBufferAvailable \/ TakeLock \/ TakeDecoderLock \/ CheckSkip \/ TestEmpty
             \/ SpuriousWake \/ Wake
    BY <2>1 DEF IsBufferAvailable, TakeLock, TakeDecoderLock, CheckSkip, TestEmpty,
                SpuriousWake, Wake, AtD, IInv, queueVars
  <2>2. ASSUME NEW bytes \in Writes, NEW ok \in BOOLEAN, Write(bytes, ok)
        PROVE  mEmptyQueue' # << >>
    <3>1. pcD = "write" /\ mEmptyQueue # << >>
      BY <2>2 DEF Write, AtD, IInv
    <3>2. ~WriteEOS(ok) /\ ~WriteData(bytes, ok)
      BY DEF WriteEOS, WriteData
    <3> QED BY <2>2, <3>1, <3>2 DEF Write, WriteSkipped, queueVars
  <2> QED BY <1>2, <2>1, <2>2 DEF Decoder
<1>3. CASE Control
  <2>1. CASE Flush \/ Standby
    BY <2>1, PoolIsFull DEF Flush, Standby, FlushSession, RefillEmptyQueue
  <2>2. CASE Start \/ Pause \/ StandbyClose \/ Stop \/ AdspOnline \/ AdspOffline
    BY <2>2 DEF Start, Pause, StandbyClose, Stop, AdspOnline, AdspOffline,
                Signal, IInv, queueVars
  <2>3. CASE Destroy \/ DestroySignal \/ DestroyLock \/ RequestExit
             \/ WakeEventThread \/ Join
    BY <2>3 DEF Destroy, DestroySignal, DestroyLock, RequestExit,
                WakeEventThread, Join, Signal, IInv, queueVars
  <2> QED BY <1>3, <2>1, <2>2, <2>3 DEF Control
<1>4. CASE EventThread
  <2>1. CASE ReturnBuffer
    <3>1. CASE mFilledQueue = << >>
      BY <2>1, <3>1 DEF ReturnBuffer, IInv, queueVars
    <3>2. CASE mFilledQueue # << >>
      <4>1. Head(mFilledQueue) \in Buffers
        BY <3>2, TailOfQueue DEF IInv, TypeOK, QueueTypes, QueuesDisjoint
      <4>2. mEmptyQueue' = Append(mEmptyQueue, Head(mFilledQueue))
        BY <2>1, <3>2 DEF ReturnBuffer
      <4> QED BY <4>1, <4>2, AppendToQueue DEF IInv, TypeOK, QueueTypes
    <3> QED BY <3>1, <3>2
  <2>2. CASE DrainCall \/ DrainReturns \/ AfterDrain
    BY <2>2 DEF DrainCall, DrainReturns, AfterDrain, IInv, queueVars
  <2>3. CASE Entry \/ MakeEfd \/ Loop \/ PollOther \/ PollTick \/ CheckHandle
             \/ ReadTimer \/ PostEOS \/ Posted \/ Exit \/ CloseEfd
    BY <2>3 DEF Entry, MakeEfd, Loop, PollOther, PollTick, CheckHandle,
                ReadTimer, PostEOS, Posted, Exit, CloseEfd, GoE, IInv, queueVars
  <2> QED BY <1>4, <2>1, <2>2, <2>3 DEF EventThread
<1>5. CASE Play
  BY <1>5 DEF Play, IInv, queueVars
<1> QED BY <1>1, <1>2, <1>3, <1>4, <1>5 DEF Next

(* TypeOK is preserved: the queues by the lemmas above, the rest one part   *)
(* and one group of actions at a time.                                      *)
LEMMA FlagTypesStep == FlagTypes /\ [Next]_vars => FlagTypes'
<1> SUFFICES ASSUME FlagTypes, [Next]_vars PROVE FlagTypes'
  OBVIOUS
<1> USE DEF FlagTypes, eosVars, pauseVars
<1>1. CASE UNCHANGED vars
  BY <1>1 DEF vars
<1>2. CASE Decoder
  <2>1. CASE IsBufferAvailable \/ TakeLock \/ TakeDecoderLock \/ CheckSkip \/ TestEmpty
             \/ SpuriousWake \/ Wake
    BY <2>1 DEF IsBufferAvailable, TakeLock, TakeDecoderLock, CheckSkip, TestEmpty,
                SpuriousWake, Wake
  <2>2. ASSUME NEW bytes \in Writes, NEW ok \in BOOLEAN, Write(bytes, ok)
        PROVE  FlagTypes'
    BY <2>2, ModeAssumption DEF Write, WriteSkipped, WriteEOS, WriteData
  <2> QED BY <1>2, <2>1, <2>2 DEF Decoder
<1>3. CASE Control
  <2>1. CASE Flush \/ Standby
    BY <2>1 DEF Flush, Standby, FlushSession
  <2>2. CASE Start
    BY <2>2 DEF Start
  <2>3. CASE Pause \/ StandbyClose \/ Stop \/ AdspOnline \/ AdspOffline
    BY <2>3 DEF Pause, StandbyClose, Stop, AdspOnline, AdspOffline
  <2>4. CASE Destroy \/ DestroySignal \/ DestroyLock \/ RequestExit
             \/ WakeEventThread \/ Join
    BY <2>4 DEF Destroy, DestroySignal, DestroyLock, RequestExit,
                WakeEventThread, Join
  <2> QED BY <1>3, <2>1, <2>2, <2>3, <2>4 DEF Control
<1>4. CASE EventThread
  <2>1. CASE ReturnBuffer
    <3>1. mEosEventReceived' \in {mEosEventReceived, TRUE}
      BY <2>1 DEF ReturnBuffer
    <3> QED BY <2>1, <3>1 DEF ReturnBuffer
  <2>2. CASE DrainCall \/ DrainReturns \/ AfterDrain
    BY <2>2 DEF DrainCall, DrainReturns, AfterDrain
  <2>3. CASE Entry \/ MakeEfd \/ Loop \/ PollOther \/ PollTick \/ CheckHandle
             \/ ReadTimer \/ PostEOS \/ Posted \/ Exit \/ CloseEfd
    BY <2>3 DEF Entry, MakeEfd, Loop, PollOther, PollTick, CheckHandle,
                ReadTimer, PostEOS, Posted, Exit, CloseEfd, GoE
  <2> QED BY <1>4, <2>1, <2>2, <2>3 DEF EventThread
<1>5. CASE Play
  BY <1>5 DEF Play
<1> QED BY <1>1, <1>2, <1>3, <1>4, <1>5 DEF Next

LEMMA KillTypesStep == KillTypes /\ [Next]_vars => KillTypes'
<1> SUFFICES ASSUME KillTypes, [Next]_vars PROVE KillTypes'
  OBVIOUS
<1> USE DEF KillTypes, killVars
<1>1. CASE UNCHANGED vars
  BY <1>1 DEF vars
<1>2. CASE Decoder
  BY <1>2 DEF Decoder, IsBufferAvailable, TakeLock, TakeDecoderLock, CheckSkip, TestEmpty,
              SpuriousWake, Wake, Write
<1>3. CASE Control
  <2>1. CASE Flush \/ Standby \/ Start \/ Pause \/ StandbyClose \/ Stop
             \/ AdspOnline \/ AdspOffline
    BY <2>1 DEF Flush, Standby, Start, Pause, StandbyClose, Stop, AdspOnline,
                AdspOffline
  <2>2. CASE Destroy \/ DestroySignal \/ DestroyLock \/ RequestExit
             \/ WakeEventThread \/ Join
    BY <2>2 DEF Destroy, DestroySignal, DestroyLock, RequestExit,
                WakeEventThread, Join
  <2> QED BY <1>3, <2>1, <2>2 DEF Control
<1>4. CASE EventThread
  BY <1>4 DEF EventThread, ReturnBuffer, DrainCall, DrainReturns, AfterDrain,
              Entry, MakeEfd, Loop, PollOther, PollTick, CheckHandle,
              ReadTimer, PostEOS, Posted, Exit, CloseEfd, GoE
<1>5. CASE Play
  BY <1>5 DEF Play
<1> QED BY <1>1, <1>2, <1>3, <1>4, <1>5 DEF Next

LEMMA DriverTypesStep == IInv /\ [Next]_vars => DriverTypes'
<1> SUFFICES ASSUME IInv, [Next]_vars PROVE DriverTypes'
  OBVIOUS
<1>t. DriverTypes
  BY DEF IInv, TypeOK
<1> USE DEF DriverTypes, driverVars
<1>1. CASE UNCHANGED vars
  BY <1>1, <1>t DEF vars
<1>2. CASE Decoder
  <2>1. CASE IsBufferAvailable \/ TakeLock \/ TakeDecoderLock \/ CheckSkip \/ TestEmpty
             \/ SpuriousWake \/ Wake
    BY <2>1, <1>t DEF IsBufferAvailable, TakeLock, TakeDecoderLock, CheckSkip, TestEmpty,
                SpuriousWake, Wake
  <2>2. ASSUME NEW bytes \in Writes, NEW ok \in BOOLEAN, Write(bytes, ok)
        PROVE  DriverTypes'
    <3>1. Head(mEmptyQueue) \in Buffers
      BY <2>2, TailOfQueue DEF Write, AtD, WriteHasBuffer, QueuesDisjoint,
                               IInv, TypeOK, QueueTypes
    <3>2. PcmWrite(ok) => drv' \in Seq(Buffers)
      BY <3>1, <1>t, AppendToQueue DEF PcmWrite
    <3> QED BY <2>2, <3>2, <1>t DEF Write, WriteSkipped, WriteEOS, WriteData
  <2> QED BY <1>2, <2>1, <2>2 DEF Decoder
<1>3. CASE Control
  <2>p. ASSUME NEW paused \in BOOLEAN, Prepare(paused), UNCHANGED <<handleOpen, ticks>>
        PROVE  DriverTypes'
    BY <2>p, <1>t, NothingQueued DEF Prepare
  <2>1. CASE Flush \/ Standby
    <3>1. PausedByFlush \subseteq BOOLEAN
      BY <1>t DEF PausedByFlush
    <3> QED BY <2>1, <2>p, <3>1 DEF Flush, Standby, FlushSession
  <2>2. CASE Start
    BY <2>2, <2>p, <1>t DEF Start
  <2>3. CASE StandbyClose
    BY <2>3, NoneQueued DEF StandbyClose
  <2>4. CASE Pause \/ Stop \/ AdspOnline \/ AdspOffline
    BY <2>4, <1>t DEF Pause, Stop, AdspOnline, AdspOffline
  <2>5. CASE Destroy \/ DestroySignal \/ DestroyLock \/ RequestExit
             \/ WakeEventThread \/ Join
    BY <2>5, <1>t DEF Destroy, DestroySignal, DestroyLock, RequestExit,
                      WakeEventThread, Join, ExitRequested
  <2> QED BY <1>3, <2>1, <2>2, <2>3, <2>4, <2>5 DEF Control
<1>4. CASE EventThread
  <2>1. CASE ReadTimer
    <3>1. ticks' \in 0 .. MaxTicks
      BY <2>1, <1>t, MaxTicksAssumption DEF ReadTimer, MaxRead
    <3> QED BY <2>1, <3>1, <1>t DEF ReadTimer, GoE
  <2>2. CASE ReturnBuffer \/ DrainCall \/ DrainReturns \/ AfterDrain
    BY <2>2, <1>t DEF ReturnBuffer, DrainCall, DrainReturns, AfterDrain
  <2>3. CASE Entry \/ MakeEfd \/ Loop \/ PollOther \/ PollTick \/ CheckHandle
             \/ PostEOS \/ Posted \/ Exit \/ CloseEfd
    BY <2>3, <1>t DEF Entry, MakeEfd, Loop, PollOther, PollTick, CheckHandle,
                      PostEOS, Posted, Exit, CloseEfd, GoE
  <2> QED BY <1>4, <2>1, <2>2, <2>3 DEF EventThread
<1>5. CASE Play
  <2>1. drv' \in Seq(Buffers) /\ ticks' \in 0 .. MaxTicks
    BY <1>5, <1>t, MaxTicksAssumption DEF Play
  <2> QED BY <1>5, <1>t, <2>1 DEF Play
<1> QED BY <1>1, <1>2, <1>3, <1>4, <1>5 DEF Next

LEMMA ThreadTypesStep == ThreadTypes /\ [Next]_vars => ThreadTypes'
<1> SUFFICES ASSUME ThreadTypes, [Next]_vars PROVE ThreadTypes'
  OBVIOUS
<1> USE DEF ThreadTypes, lockVars, Free
<1>1. CASE UNCHANGED vars
  BY <1>1 DEF vars
<1>2. CASE Decoder
  <2>1. CASE IsBufferAvailable \/ TakeLock \/ TakeDecoderLock \/ CheckSkip
    BY <2>1 DEF IsBufferAvailable, TakeLock, TakeDecoderLock, CheckSkip
  <2>2. CASE TestEmpty \/ SpuriousWake \/ Wake
    BY <2>2 DEF TestEmpty, SpuriousWake, Wake
  <2>3. ASSUME NEW bytes \in Writes, NEW ok \in BOOLEAN, Write(bytes, ok)
        PROVE  ThreadTypes'
    <3>1. pcD' \in {"idle", pcD} /\ aborted' \in {"assert", aborted}
      BY <2>3 DEF Write, WriteSkipped, WriteEOS, WriteData
    <3>2. UNCHANGED <<pauseVars, lockVars, killVars, handleOpen, drainRet, pcC, pcE>>
      BY <2>3 DEF Write
    <3> QED BY <3>1, <3>2 DEF pauseVars, killVars
  <2> QED BY <1>2, <2>1, <2>2, <2>3 DEF Decoder
<1>3. CASE Control
  <2>p. ASSUME NEW paused, Prepare(paused)
        PROVE  pcE' \in {pcE, "relock"} /\ drainRet' \in {drainRet, "EINTR"}
    BY <2>p DEF Prepare
  <2>s. Signal => pcD' \in {pcD, "woken"}
    BY DEF Signal
  <2>1. CASE Flush \/ Standby
    <3>1. PICK paused : Prepare(paused)
      BY <2>1 DEF Flush, Standby, FlushSession
    <3>2. pcE' \in {pcE, "relock"} /\ drainRet' \in {drainRet, "EINTR"}
      BY <2>p, <3>1
    <3> QED BY <2>1, <2>s, <3>2 DEF Flush, Standby, FlushSession
  <2>2. CASE Start
    BY <2>2, <2>p DEF Start
  <2>3. CASE Pause \/ StandbyClose \/ AdspOffline
    BY <2>3 DEF Pause, StandbyClose, AdspOffline
  <2>4. CASE Stop \/ AdspOnline
    BY <2>4, <2>s DEF Stop, AdspOnline
  <2>5. CASE Destroy \/ DestroySignal \/ DestroyLock \/ WakeEventThread
    BY <2>5, <2>s DEF Destroy, DestroySignal, DestroyLock, WakeEventThread
  <2>6. CASE RequestExit \/ Join
    BY <2>6 DEF RequestExit, Join, ExitRequested
  <2> QED BY <1>3, <2>1, <2>2, <2>3, <2>4, <2>5, <2>6 DEF Control
<1>4. CASE EventThread
  <2>1. CASE ReturnBuffer
    BY <2>1 DEF ReturnBuffer, Signal
  <2>2. CASE DrainCall \/ DrainReturns \/ AfterDrain
    BY <2>2 DEF DrainCall, DrainReturns, AfterDrain
  <2>3. CASE Entry \/ MakeEfd \/ Loop \/ PollOther \/ PollTick
    BY <2>3 DEF Entry, MakeEfd, Loop, PollOther, PollTick, GoE
  <2>4. CASE CheckHandle \/ ReadTimer \/ PostEOS \/ Posted \/ Exit \/ CloseEfd
    BY <2>4 DEF CheckHandle, ReadTimer, PostEOS, Posted, Exit, CloseEfd, GoE
  <2> QED BY <1>4, <2>1, <2>2, <2>3, <2>4 DEF EventThread
<1>5. CASE Play
  BY <1>5 DEF Play
<1> QED BY <1>1, <1>2, <1>3, <1>4, <1>5 DEF Next

(* The invariant is inductive.                                              *)
LEMMA IInvStep == IInv /\ [Next]_vars => IInv'
<1> SUFFICES ASSUME IInv, [Next]_vars PROVE IInv'
  OBVIOUS
<1>1. QueueTypes' /\ QueuesDisjoint'
  BY StepOfQueues, QueueStepKeepsDisjoint DEF IInv, TypeOK
<1>2. FlagTypes' /\ KillTypes' /\ DriverTypes' /\ ThreadTypes'
  BY FlagTypesStep, KillTypesStep, DriverTypesStep, ThreadTypesStep
     DEF IInv, TypeOK
<1> QED BY <1>1, <1>2, WriteHasBufferStep DEF IInv, TypeOK

(* The types, disjoint queues and a buffer for every write that was allowed *)
(* are kept by every step of the decoder, the player, the event thread and  *)
(* the driver.                                                              *)
THEOREM IInvariant == Spec => []IInv
<1> QED BY InitIInv, IInvStep, PTL DEF Spec

(* Every variable keeps its type.                                           *)
THEOREM TypeCorrect == Spec => []TypeOK
<1>1. IInv => TypeOK
  BY DEF IInv
<1> QED BY <1>1, IInvariant, PTL

(* No buffer is in two places of the queues, however the threads interleave *)
(* and whatever the driver refuses.                                         *)
THEOREM DisjointQueues == Spec => []QueuesDisjoint
<1>1. IInv => QueuesDisjoint
  BY DEF IInv
<1> QED BY <1>1, IInvariant, PTL

(* A write that isBufferAvailable() allowed finds a buffer to fill.         *)
THEOREM WritesHaveBuffers == Spec => []WriteHasBuffer
<1>1. IInv => WriteHasBuffer
  BY DEF IInv
<1> QED BY <1>1, IInvariant, PTL

----------------------------------------------------------------------------
(* The session implements BufferOwnership: what the threads do to the two   *)
(* queues is always one of its steps, or none.                              *)
LEMMA QueueStepIsOwnership ==
  QueueTypes /\ QueuesDisjoint /\ QueueStep
    => \/ Ownership!Next
       \/ UNCHANGED <<Elems(mEmptyQueue), mFilledQueue>>
<1> SUFFICES ASSUME QueueTypes, QueuesDisjoint, QueueStep
             PROVE  \/ Ownership!Next
                    \/ UNCHANGED <<Elems(mEmptyQueue), mFilledQueue>>
  OBVIOUS
<1> USE DEF QueueTypes, QueuesDisjoint
<1>1. CASE UNCHANGED queueVars
  BY <1>1 DEF queueVars, Elems
<1>2. CASE Given
  <2>1. /\ Head(mEmptyQueue) \in Elems(mEmptyQueue)
        /\ Elems(mEmptyQueue') = Elems(mEmptyQueue) \ {Head(mEmptyQueue)}
    BY <1>2, TailOfQueue DEF Given
  <2>2. Ownership!Give(Head(mEmptyQueue))
    BY <1>2, <2>1 DEF Given, Ownership!Give, Elems
  <2> QED BY <2>1, <2>2 DEF Ownership!Next
<1>3. CASE Lost
  <2>1. /\ Head(mEmptyQueue) \in Elems(mEmptyQueue)
        /\ Elems(mEmptyQueue') = Elems(mEmptyQueue) \ {Head(mEmptyQueue)}
    BY <1>3, TailOfQueue DEF Lost
  <2>2. Ownership!Lose(Head(mEmptyQueue))
    BY <1>3, <2>1 DEF Lost, Ownership!Lose, Elems
  <2> QED BY <2>1, <2>2 DEF Ownership!Next
<1>4. CASE Returned
  <2>1. Head(mFilledQueue) \in Buffers
    BY <1>4, TailOfQueue DEF Returned
  <2>2. Elems(mEmptyQueue') = Elems(mEmptyQueue) \cup {Head(mFilledQueue)}
    BY <1>4, <2>1, AppendToQueue DEF Returned
  <2>3. Ownership!Return
    BY <1>4, <2>2 DEF Returned, Ownership!Return, Elems
  <2> QED BY <2>3 DEF Ownership!Next
<1>5. CASE RefillEmptyQueue
  <2>1. Ownership!Reclaim
    BY <1>5, PoolIsFull DEF RefillEmptyQueue, Ownership!Reclaim, Elems
  <2> QED BY <2>1 DEF Ownership!Next
<1> QED BY <1>1, <1>2, <1>3, <1>4, <1>5 DEF QueueStep

(* Buffers come back in the order they were given, and only a flush         *)
(* recovers one that was lost.                                              *)
THEOREM ImplementsOwnership == Spec => OwnershipSpec
<1>1. Init => Ownership!Init
  BY PoolIsFull DEF Init, Ownership!Init
<1>2. IInv /\ [Next]_vars
        => [Ownership!Next]_<<Elems(mEmptyQueue), mFilledQueue>>
  BY StepOfQueues, QueueStepIsOwnership DEF IInv, TypeOK
<1> QED BY <1>1, <1>2, IInvariant, PTL DEF Spec, OwnershipSpec, Ownership!Spec

----------------------------------------------------------------------------
(* The assertion "mSkipwrite is true but empty queue isnt full" holds in a  *)
(* session that is never stopped and never sees the DSP restart, until it   *)
(* is destroyed: there a flush is the only call that sets mSkipWrite.  That  *)
(* a session stays destroyed rests on who has the two locks.                 *)
Locked ==
  /\ pcD \in {"between", "check", "test"} => mLock = "decoder"
  /\ pcD \in {"check", "test", "wait", "woken"} => mDecoderLock = "decoder"
  /\ pcC \in {"kill", "wake", "join"} => "control" \in {mLock, mDecoderLock}
Flushed == /\ mSkipWrite => Len(mEmptyQueue) = BUFFER_COUNT
           /\ aborted # "assert"
SkipInv == Locked /\ (Destroyed \/ Flushed)

LEMMA LockedStep == Locked /\ [Next]_vars => Locked' /\ (Destroyed => Destroyed')
<1> SUFFICES ASSUME Locked, [Next]_vars PROVE Locked' /\ (Destroyed => Destroyed')
  OBVIOUS
<1> USE DEF Locked, Destroyed, AtD, AtC, AtE, Free
<1>1. CASE UNCHANGED vars
  BY <1>1 DEF vars, lockVars
<1>2. CASE Decoder
  BY <1>2 DEF Decoder, IsBufferAvailable, TakeLock, TakeDecoderLock, CheckSkip, TestEmpty,
              SpuriousWake, Wake, Write, WriteSkipped, WriteEOS, WriteData, lockVars
<1>3. CASE Control
  <2>1. CASE Start \/ Pause \/ Flush \/ Standby \/ StandbyClose \/ Stop \/ AdspOnline
             \/ AdspOffline \/ Destroy \/ DestroySignal
    BY <2>1 DEF Start, Pause, Flush, Standby, StandbyClose, Stop, AdspOnline, AdspOffline,
                Destroy, DestroySignal, FlushSession, Signal, Call, lockVars
  <2>2. CASE DestroyLock \/ RequestExit \/ WakeEventThread \/ Join
    BY <2>2 DEF DestroyLock, RequestExit, WakeEventThread, Join, ExitRequested, lockVars
  <2> QED BY <1>3, <2>1, <2>2 DEF Control
<1>4. CASE EventThread
  <2>1. CASE ReturnBuffer \/ DrainCall \/ DrainReturns \/ AfterDrain
    BY <2>1 DEF ReturnBuffer, DrainCall, DrainReturns, AfterDrain, Signal, lockVars
  <2>2. CASE Entry \/ MakeEfd \/ Loop \/ PollOther \/ PollTick \/ CheckHandle
             \/ ReadTimer \/ PostEOS \/ Posted \/ Exit \/ CloseEfd
    BY <2>2 DEF Entry, MakeEfd, Loop, PollOther, PollTick, CheckHandle,
                ReadTimer, PostEOS, Posted, Exit, CloseEfd, GoE, lockVars
  <2> QED BY <1>4, <2>1, <2>2 DEF EventThread
<1>5. CASE Play
  BY <1>5 DEF Play, lockVars
<1> QED BY <1>1, <1>2, <1>3, <1>4, <1>5 DEF Next

LEMMA SkipInvStep ==
  ASSUME Calls \cap {"stop", "ONLINE"} = {}
  PROVE  SkipInv /\ [Next]_vars => SkipInv'
<1> SUFFICES ASSUME SkipInv, [Next]_vars PROVE SkipInv'
  OBVIOUS
<1>0. Locked' /\ (Destroyed => Destroyed')
  BY LockedStep DEF SkipInv
<1> SUFFICES ASSUME Flushed, ~Destroy PROVE Flushed'
  BY <1>0 DEF SkipInv, Destroy, Destroyed
<1> USE DEF Flushed, queueVars
<1>1. CASE UNCHANGED vars
  BY <1>1 DEF vars
<1>2. CASE Decoder
  <2>1. CASE IsBufferAvailable \/ TakeLock \/ TakeDecoderLock \/ CheckSkip \/ TestEmpty
             \/ SpuriousWake \/ Wake
    BY <2>1 DEF IsBufferAvailable, TakeLock, TakeDecoderLock, CheckSkip, TestEmpty,
                SpuriousWake, Wake
  <2>2. ASSUME NEW bytes \in Writes, NEW ok \in BOOLEAN, Write(bytes, ok)
        PROVE  Flushed'
    <3>1. CASE WriteSkipped(bytes)
      BY <3>1 DEF WriteSkipped
    <3>2. CASE WriteEOS(ok)
      BY <3>2 DEF WriteEOS
    <3>3. CASE WriteData(bytes, ok)
      BY <3>3 DEF WriteData
    <3> QED BY <2>2, <3>1, <3>2, <3>3 DEF Write
  <2> QED BY <1>2, <2>1, <2>2 DEF Decoder
<1>3. CASE Control
  <2>1. CASE Flush \/ Standby
    BY <2>1, PoolIsFull DEF Flush, Standby, FlushSession, RefillEmptyQueue
  <2>2. ~Stop /\ ~AdspOnline /\ ~Destroy
    BY DEF Stop, AdspOnline, Call
  <2>3. CASE Start \/ Pause \/ StandbyClose \/ AdspOffline \/ DestroySignal
             \/ DestroyLock \/ RequestExit \/ WakeEventThread \/ Join
    BY <2>3 DEF Start, Pause, StandbyClose, AdspOffline, DestroySignal,
                DestroyLock, RequestExit, WakeEventThread, Join
  <2> QED BY <1>3, <2>1, <2>2, <2>3 DEF Control
<1>4. CASE EventThread
  <2>1. CASE ReturnBuffer
    BY <2>1 DEF ReturnBuffer
  <2>2. CASE DrainCall \/ DrainReturns \/ AfterDrain
    BY <2>2 DEF DrainCall, DrainReturns, AfterDrain
  <2>3. CASE Entry \/ MakeEfd \/ Loop \/ PollOther \/ PollTick \/ CheckHandle
             \/ ReadTimer \/ PostEOS \/ Posted \/ Exit \/ CloseEfd
    BY <2>3 DEF Entry, MakeEfd, Loop, PollOther, PollTick, CheckHandle,
                ReadTimer, PostEOS, Posted, Exit, CloseEfd, GoE
  <2> QED BY <1>4, <2>1, <2>2, <2>3 DEF EventThread
<1>5. CASE Play
  BY <1>5 DEF Play
<1> QED BY <1>1, <1>2, <1>3, <1>4, <1>5 DEF Next

(* isBufferAvailable() finds mSkipWrite set only after a flush has refilled *)
(* mEmptyQueue, as its assertion says, if nobody stops or restarts the      *)
(* session: stop() and setParameters() break it, see SessionStopAsserts.    *)
THEOREM SkipAssertionHolds ==
  ASSUME Calls \cap {"stop", "ONLINE"} = {}
  PROVE  Spec => []SkipOnlyAfterFlush
<1>1. Init => SkipInv
  BY DEF Init, SkipInv, Locked, Flushed
<1>2. SkipInv /\ [Next]_vars => SkipInv'
  BY SkipInvStep
<1>3. SkipInv => SkipOnlyAfterFlush
  BY DEF SkipInv, Flushed, SkipOnlyAfterFlush
<1> QED BY <1>1, <1>2, <1>3, PTL DEF Spec

(* In an LPA session, which never gives mLock up while it reports the end   *)
(* of the stream, nothing is queued behind a reported end.                  *)
EosInv == /\ NothingQueuedAfterEOS
          /\ pcE \notin {"drainCall", "drain", "relock"}

LEMMA EosInvStep ==
  ASSUME TunnelMode = FALSE
  PROVE  EosInv /\ [Next]_vars => EosInv'
<1> SUFFICES ASSUME EosInv, [Next]_vars PROVE EosInv'
  OBVIOUS
<1> USE DEF EosInv, NothingQueuedAfterEOS, queueVars, eosVars
<1>1. CASE UNCHANGED vars
  BY <1>1 DEF vars
<1>2. CASE Decoder
  BY <1>2 DEF Decoder, IsBufferAvailable, TakeLock, TakeDecoderLock, CheckSkip, TestEmpty,
              SpuriousWake, Wake, Write
<1>3. CASE Control
  <2>p. ASSUME NEW paused, Prepare(paused) PROVE pcE' = pcE
    BY <2>p DEF Prepare
  <2>1. CASE Flush \/ Standby
    BY <2>1, <2>p DEF Flush, Standby, FlushSession
  <2>2. CASE Start
    BY <2>2, <2>p DEF Start
  <2>3. CASE Pause \/ StandbyClose \/ Stop \/ AdspOnline \/ AdspOffline
    BY <2>3 DEF Pause, StandbyClose, Stop, AdspOnline, AdspOffline
  <2>4. CASE Destroy \/ DestroySignal \/ DestroyLock \/ RequestExit
             \/ WakeEventThread \/ Join
    BY <2>4 DEF Destroy, DestroySignal, DestroyLock, RequestExit,
                WakeEventThread, Join
  <2> QED BY <1>3, <2>1, <2>2, <2>3, <2>4 DEF Control
<1>4. CASE EventThread
  <2>1. CASE ReturnBuffer
    BY <2>1 DEF ReturnBuffer, EndReached
  <2>2. ~DrainCall /\ ~DrainReturns /\ ~AfterDrain
    BY DEF DrainCall, DrainReturns, AfterDrain, AtE
  <2>3. CASE Entry \/ MakeEfd \/ Loop \/ PollOther \/ PollTick
    BY <2>3 DEF Entry, MakeEfd, Loop, PollOther, PollTick, GoE
  <2>4. CASE CheckHandle \/ ReadTimer \/ PostEOS \/ Posted \/ Exit \/ CloseEfd
    BY <2>4 DEF CheckHandle, ReadTimer, PostEOS, Posted, Exit, CloseEfd, GoE
  <2> QED BY <1>4, <2>1, <2>2, <2>3, <2>4 DEF EventThread
<1>5. CASE Play
  BY <1>5 DEF Play
<1> QED BY <1>1, <1>2, <1>3, <1>4, <1>5 DEF Next

(* In an LPA session mFilledQueue is empty while an end of stream has been  *)
(* reported and nothing was written since.                                  *)
THEOREM EosIsLast ==
  ASSUME TunnelMode = FALSE
  PROVE  Spec => []NothingQueuedAfterEOS
<1>1. Init => EosInv
  BY DEF Init, EosInv, NothingQueuedAfterEOS
<1>2. EosInv /\ [Next]_vars => EosInv'
  BY EosInvStep
<1>3. EosInv => NothingQueuedAfterEOS
  BY DEF EosInv
<1> QED BY <1>1, <1>2, <1>3, PTL DEF Spec

(* mEventThreadAlive is cleared only behind the loop, so who finds it        *)
(* cleared and does not join finds the loop left.                            *)
GoneInv == (~mEventThreadAlive => LoopLeft) /\ LoopLeftFirst

LEMMA GoneInvStep == GoneInv /\ [Next]_vars => GoneInv'
<1> SUFFICES ASSUME GoneInv, [Next]_vars PROVE GoneInv'
  OBVIOUS
<1> USE DEF GoneInv, LoopLeft, LoopLeftFirst, killVars
<1>1. CASE UNCHANGED vars
  BY <1>1 DEF vars
<1>2. CASE Decoder
  <2>1. CASE IsBufferAvailable \/ TakeLock \/ TakeDecoderLock \/ CheckSkip
    BY <2>1 DEF IsBufferAvailable, TakeLock, TakeDecoderLock, CheckSkip
  <2>2. CASE TestEmpty \/ SpuriousWake \/ Wake
    BY <2>2 DEF TestEmpty, SpuriousWake, Wake
  <2>3. ASSUME NEW bytes \in Writes, NEW ok \in BOOLEAN, Write(bytes, ok)
        PROVE  GoneInv'
    BY <2>3 DEF Write
  <2> QED BY <1>2, <2>1, <2>2, <2>3 DEF Decoder
<1>3. CASE Control
  <2>p. ASSUME NEW paused, Prepare(paused)
        PROVE  pcE' = pcE \/ (pcE = "drain" /\ pcE' = "relock")
    BY <2>p DEF Prepare
  <2>1. CASE Flush
    BY <2>1, <2>p DEF Flush, FlushSession, Call, AtC
  <2>2. CASE Start
    BY <2>2, <2>p DEF Start, Call, AtC
  <2>3. CASE Standby
    BY <2>3, <2>p DEF Standby, FlushSession, Call, AtC
  <2>4. CASE Pause \/ Stop \/ AdspOnline \/ AdspOffline \/ StandbyClose
    BY <2>4 DEF Pause, Stop, AdspOnline, AdspOffline, StandbyClose
  <2>5. CASE Destroy \/ DestroySignal \/ DestroyLock
    BY <2>5 DEF Destroy, DestroySignal, DestroyLock
  <2>6. CASE RequestExit \/ WakeEventThread \/ Join
    BY <2>6 DEF RequestExit, WakeEventThread, Join, ExitRequested
  <2> QED BY <1>3, <2>1, <2>2, <2>3, <2>4, <2>5, <2>6 DEF Control
<1>4. CASE EventThread
  <2>1. CASE ReturnBuffer
    BY <2>1 DEF ReturnBuffer, AtE
  <2>2. CASE DrainCall \/ DrainReturns \/ AfterDrain
    BY <2>2 DEF DrainCall, DrainReturns, AfterDrain, AtE
  <2>3. CASE Entry \/ MakeEfd \/ Loop \/ PollOther \/ PollTick
    BY <2>3 DEF Entry, MakeEfd, Loop, PollOther, PollTick, GoE, AtE
  <2>4. CASE CheckHandle \/ ReadTimer \/ PostEOS \/ Posted \/ Exit \/ CloseEfd
    BY <2>4 DEF CheckHandle, ReadTimer, PostEOS, Posted, Exit, CloseEfd, GoE, AtE
  <2> QED BY <1>4, <2>1, <2>2, <2>3, <2>4 DEF EventThread
<1>5. CASE Play
  BY <1>5 DEF Play
<1> QED BY <1>1, <1>2, <1>3, <1>4, <1>5 DEF Next

(* The destructor's memory goes only when the event thread has left the      *)
(* loop, for all calls and faults, those included that end the thread        *)
(* without a request and make the destructor skip the join.                  *)
THEOREM LoopLeftBeforeGone == Spec => []LoopLeftFirst
<1>1. Init => GoneInv
  BY DEF Init, GoneInv, LoopLeftFirst
<1>2. GoneInv /\ [Next]_vars => GoneInv'
  BY GoneInvStep
<1>3. GoneInv => LoopLeftFirst
  BY DEF GoneInv
<1> QED BY <1>1, <1>2, <1>3, PTL DEF Spec
=============================================================================
