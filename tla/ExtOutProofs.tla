---------------------------- MODULE ExtOutProofs ----------------------------
(* What holds of ExtOut for any callers, use cases, threads and faults,      *)
(* whichever calls they make, with mLock or without it: as long as no start  *)
(* or stop without mLock has met another one, there is one capture thread,   *)
(* the proxy stays open while it reads, and nothing outlives the stop.       *)
EXTENDS ExtOut, TLAPS

\* The places of a start or a stop at which the output is known as disabled.
Disabled(c) ==
  pc[c] \in {"create", "kill", "killing", "wake", "join", "relock", "standby"}

\* Starts and stops take their turns, and the flag is up meanwhile.
OneAtATime ==
  \A c \in Callers : Busy(c) => /\ mRouteAudioToExtOut
                               /\ \A d \in Callers : Busy(d) => d = c

\* A thread that is to be waited for has been created.
ThreadKnown ==
  /\ mExtOutThreadAlive => mExtOutThread \in Threads
  /\ \A c \in Callers : pc[c] \in {"created", "killing", "wake", "join"} =>
                          mExtOutThread \in Threads

StopDisables == \A c \in Callers : Disabled(c) => ~mIsExtOutEnabled

\* A thread that runs is known as alive, or is about to be, and belongs to an
\* enabled output, or to one that is being enabled or disabled.
RunningOwned ==
  \A t \in Threads : Running(t) =>
    /\ t = mExtOutThread
    /\ mExtOutThreadAlive \/ \E c \in Callers : pc[c] = "created"
    /\ mIsExtOutEnabled \/ \E c \in Callers :
         pc[c] \in {"created", "kill", "killing", "wake", "join"}

Protocol == overlapped \/ /\ OneAtATime /\ ThreadKnown /\ StopDisables
                          /\ RunningOwned /\ ProxyOpenWhileRead
                          /\ NothingLeftBehind
IInv == TypeOK /\ Protocol

----------------------------------------------------------------------------
(* Every step keeps the types.                                              *)
CallTypes ==
  /\ mLock \in Callers \cup {Free} /\ op \in [Callers -> Calls]
  /\ use \in [Callers -> SUBSET UseCases] /\ overlapped \in BOOLEAN
  /\ pc \in [Callers -> {"idle", "want", "radio", "failed", "start", "create",
                         "created", "resume", "signal", "stop", "check",
                         "kill", "killing", "wake", "join", "relock",
                         "standby", "lockWrite", "closing", "closed"}]

LEMMA BeginTypes ==
  ASSUME TypeOK, NEW c \in Callers, NEW call \in Calls,
         NEW uses \in SUBSET UseCases, NEW from,
         NEW to \in {"start", "stop"}, Begin(c, call, uses, from, to)
  PROVE  CallTypes'
<1>1. overlapped' \in BOOLEAN
  BY Zenon DEF Begin, TypeOK
<1>2. mLock' \in Callers \cup {Free}
  BY DEF Begin, TypeOK
<1> QED BY <1>1, <1>2 DEF Begin, TypeOK, CallTypes, Go

LEMMA CallerTypes ==
  ASSUME TypeOK, NEW c \in Callers, Caller(c)
  PROVE  TypeOK'
<1> USE UseCasesAssumption DEF TypeOK, Owners
<1> USE DEF lockVars, routeVars, killVars, streamVars, proxyVars, callVars
<1>0. {"write", "open", "close", "standby", "route", "unroute",
       "suspendA2dp", "fmOn", "fmOff", "delete", "dspOffline"} \subseteq Calls
      /\ \A u \in UseCases : {u} \in SUBSET UseCases
      /\ Fm \in SUBSET UseCases /\ Uses \subseteq SUBSET UseCases
  BY DEF Calls, Uses
<1>1. ASSUME NEW u \in UseCases, NEW r \in BOOLEAN, Write(c, u, r)
      PROVE  TypeOK'
  <2>1. mRouteAudioToExtOut' \in BOOLEAN
    BY <1>1, Zenon DEF Write, TurnToExt
  <2>2. CASE Begin(c, "write", {u}, "idle", "start")
    <3>1. "write" \in Calls /\ {u} \in SUBSET UseCases
      BY <1>0
    <3>2. CallTypes'
      BY <2>2, <3>1, BeginTypes
    <3> QED BY <1>1, <2>1, <3>2 DEF Write, TurnToExt, CallTypes
  <2>3. CASE UNCHANGED <<mLock, pc, op, use, overlapped>>
    BY <1>1, <2>1, <2>3 DEF Write, TurnToExt
  <2> QED BY <1>1, <2>2, <2>3 DEF Write
<1>2. ASSUME NEW u \in UseCases, NEW r \in BOOLEAN, OpenSession(c, u, r)
      PROVE  TypeOK'
  <2>1. mRouteAudioToExtOut' \in BOOLEAN
    BY <1>2, Zenon DEF OpenSession, TurnToExt
  <2>2. "open" \in Calls /\ {u} \in SUBSET UseCases
    BY <1>0
  <2>3. CallTypes'
    BY <1>2, <2>2, BeginTypes DEF OpenSession
  <2> QED BY <1>2, <2>1, <2>3 DEF OpenSession, TurnToExt, CallTypes
<1>3. ASSUME NEW r \in BOOLEAN, OpenFails(c, r)
      PROVE  TypeOK'
  <2>1. mRouteAudioToExtOut' \in BOOLEAN
    BY <1>3, Zenon DEF OpenFails, TurnToExt
  <2> QED BY <1>3, <2>1 DEF OpenFails, TurnToExt, Go
<1>4. ASSUME NEW r \in BOOLEAN, FmOn(c, r)
      PROVE  TypeOK'
  BY <1>4 DEF FmOn, Go
<1>5. ASSUME NEW call, NEW uses \in SUBSET UseCases, Suspend(c, call, uses)
      PROVE  TypeOK'
  BY <1>5 DEF Suspend, Suspended, Offered
<1>6. ASSUME NEW call \in Calls, NEW uses \in SUBSET UseCases, NEW from,
             Stop(c, call, uses, from)
      PROVE  TypeOK'
  <2>1. CallTypes'
    BY <1>6, BeginTypes DEF Stop
  <2> QED BY <1>6, <2>1 DEF Stop, CallTypes
<1>7. ASSUME Want(c)
      PROVE  TypeOK'
  BY <1>7 DEF Want, Go
<1>8. ASSUME Unroute(c)
      PROVE  TypeOK'
  BY <1>8 DEF Unroute
<1>9. ASSUME FmOff(c)
      PROVE  TypeOK'
  <2>1. mIsFmActive' \in BOOLEAN
    BY <1>9, Zenon DEF FmOff
  <2>2. CASE Begin(c, "fmOff", Fm, "idle", "stop")
    <3>1. "fmOff" \in Calls /\ Fm \in SUBSET UseCases
      BY <1>0
    <3>2. CallTypes'
      BY <2>2, <3>1, BeginTypes
    <3> QED BY <1>9, <2>1, <3>2 DEF FmOff, CallTypes
  <2>3. CASE UNCHANGED <<mLock, pc, op, use, overlapped>>
    BY <1>9, <2>1, <2>3 DEF FmOff
  <2> QED BY <1>9, <2>2, <2>3 DEF FmOff
<1>10. ASSUME Connect(c)
      PROVE  TypeOK'
  BY <1>10 DEF Connect
<1>11. ASSUME Disconnect(c)
      PROVE  TypeOK'
  BY <1>11 DEF Disconnect, Go
<1>12. active \in SUBSET UseCases
  OBVIOUS
<1> HIDE DEF TypeOK
<1>13. ASSUME NEW uses \in Uses, NEW call \in {"standby", "delete"},
              Stop(c, call, uses, "idle")
       PROVE  TypeOK'
  <2>1. call \in Calls /\ uses \in SUBSET UseCases
    BY DEF Calls, Uses
  <2> QED BY <1>6, <1>13, <2>1
<1>14. ASSUME NEW call \in {"unroute", "dspOffline"}, Stop(c, call, active, "idle")
       PROVE  TypeOK'
  BY <1>0, <1>6, <1>12, <1>14
<1>15. ASSUME NEW uses \in Uses, Suspend(c, "close", uses)
       PROVE  TypeOK'
  <2>1. uses \in SUBSET UseCases
    BY DEF Uses
  <2> QED BY <1>5, <1>15, <2>1
<1>16. ASSUME Suspend(c, "suspendA2dp", active)
       PROVE  TypeOK'
  BY <1>5, <1>12, <1>16
<1> QED BY <1>1, <1>2, <1>3, <1>4, <1>7, <1>8, <1>9, <1>10, <1>11, <1>13,
           <1>14, <1>15, <1>16 DEF Caller

LEMMA EndStartTypes ==
  ASSUME TypeOK, NEW c \in Callers, NEW from, EndStart(c, from)
  PROVE  /\ mLock' \in Callers \cup {Free} /\ op' \in [Callers -> Calls]
         /\ use' \in [Callers -> SUBSET UseCases]
         /\ mCurRxDevice' \in {"hw", "ext"}
         /\ pc' \in [Callers -> {"idle", "want", "radio", "failed", "start",
                         "create", "created", "resume", "signal", "stop",
                         "check", "kill", "killing", "wake", "join", "relock",
                         "standby", "lockWrite", "closing", "closed"}]
<1>1. "route" \in Calls
  BY DEF Calls
<1>2. CASE op[c] = "routeFm"
  BY <1>1, <1>2, UseCasesAssumption DEF EndStart, TypeOK, Go
<1>3. CASE op[c] # "routeFm"
  BY <1>3 DEF EndStart, TypeOK, Go, Return, Routed
<1> QED BY <1>2, <1>3

LEMMA InCallTypes ==
  ASSUME TypeOK, NEW c \in Callers, InCall(c)
  PROVE  TypeOK'
<1> USE UseCasesAssumption DEF TypeOK, Owners
<1> USE DEF lockVars, routeVars, killVars, streamVars, proxyVars, callVars
<1>1. ASSUME StartTest(c)
      PROVE  TypeOK'
  <2>1. CASE EndStart(c, "start")
    BY <1>1, <2>1, EndStartTypes DEF StartTest
  <2>2. CASE ~EndStart(c, "start")
    <3>1. PICK to \in {"create", "resume"} : Go(c, "start", to)
      BY <1>1, <2>2 DEF StartTest
    <3> QED BY <1>1, <2>2, <3>1 DEF StartTest, Go
  <2> QED BY <2>1, <2>2
<1>2. ASSUME StartFails(c)
      PROVE  TypeOK'
  <2>1. /\ mKillExtOutThread' \in BOOLEAN
        /\ mProxyState' \in {"Closed", "Suspended", "Capture"}
    <3>1. mKillExtOutThread' \in BOOLEAN
      BY <1>2, Zenon DEF StartFails, OpenProxy
    <3> QED BY <1>2, <3>1 DEF StartFails, OpenProxy
  <2>2. CASE StopsAgain(c)
    BY <1>2, <2>1, <2>2 DEF StartFails, OpenProxy, Go
  <2>3. CASE EndStart(c, "create")
    BY <1>2, <2>1, <2>3, EndStartTypes DEF StartFails, OpenProxy
  <2> QED BY <1>2, <2>2, <2>3 DEF StartFails
<1>3. ASSUME NEW t \in Threads, StartThread(c, t)
      PROVE  TypeOK'
  <2>1. mKillExtOutThread' \in BOOLEAN
    BY <1>3, Zenon DEF StartThread, OpenProxy, Go
  <2>2. CASE mProxyState' = "Suspended"
    BY <1>3, <2>1, <2>2 DEF StartThread, OpenProxy, Go
  <2>3. CASE mProxyState' = "Closed"
    BY <1>3, <2>1, <2>3 DEF StartThread, OpenProxy, Go
  <2> QED BY <1>3, <2>2, <2>3 DEF StartThread, OpenProxy, Go
<1>4. ASSUME StartEnabled(c)
      PROVE  TypeOK'
  BY <1>4 DEF StartEnabled, Go
<1>5. ASSUME Resume(c)
      PROVE  TypeOK'
  BY <1>5 DEF Resume, Go
<1>6. ASSUME SignalThread(c)
      PROVE  TypeOK'
  <2>1. pcT' \in [Threads -> {"dead", "entry", "loop", "lock", "wait", "woken",
                              "unlock", "read", "sync", "poll", "copy",
                              "write", "writing", "exit", "dying"}]
    BY <1>6 DEF SignalThread, Signal
  <2> QED BY <1>6, <2>1, EndStartTypes DEF SignalThread
<1>7. ASSUME StopSuspends(c)
      PROVE  TypeOK'
  BY <1>7 DEF StopSuspends, Suspended, Go
<1>8. ASSUME StopCheck(c)
      PROVE  TypeOK'
  <2>1. mIsExtOutEnabled' \in BOOLEAN
    BY <1>8, Zenon DEF StopCheck, Offered, Go, Return
  <2>2. CASE active = {}
    BY <1>8, <2>1, <2>2 DEF StopCheck, Offered, Go, Return
  <2>3. CASE active # {}
    BY <1>8, <2>1, <2>3 DEF StopCheck, Offered, Go, Return
  <2> QED BY <1>8, <2>2, <2>3 DEF StopCheck, Offered, Go, Return
<1>9. ASSUME StopKill(c)
      PROVE  TypeOK'
  BY <1>9 DEF StopKill, Go
<1>10. ASSUME StopWake(c)
      PROVE  TypeOK'
  BY <1>10 DEF StopWake, KillEvent, Signal, Go
<1>11. ASSUME StopJoin(c)
      PROVE  TypeOK'
  BY <1>11 DEF StopJoin, Go
<1>12. ASSUME StopClose(c)
      PROVE  TypeOK'
  BY <1>12 DEF StopClose, CloseProxy, Go, Return
<1>13. ASSUME DisconnectStream(c)
      PROVE  TypeOK'
  BY <1>13 DEF DisconnectStream, Go
<1>14. ASSUME CloseStream(c)
      PROVE  TypeOK'
  <2>1. mA2dpStream' \in BOOLEAN /\ streamOpen' \in BOOLEAN
    BY <1>14, Zenon DEF CloseStream, Go
  <2>2. CASE pc[c] = "closing"
    BY <1>14, <2>1, <2>2 DEF CloseStream, Go
  <2>3. CASE pc[c] # "closing"
    BY <1>14, <2>1, <2>3 DEF CloseStream, Go
  <2> QED BY <1>14, <2>2, <2>3 DEF CloseStream, Go
<1>15. ASSUME NEW call \in Routes, NEW uses \in Uses,
              Route(c, call, uses)
      PROVE  TypeOK'
  <2>1. call \in Calls /\ uses \in SUBSET UseCases
    BY DEF Calls, Routes, Uses
  <2>2. CallTypes'
    BY <1>15, <2>1, BeginTypes DEF Route
  <2> QED BY <1>15, <2>2 DEF Route, CallTypes
<1>16. ASSUME RouteOnly(c)
      PROVE  TypeOK'
  BY <1>16 DEF RouteOnly, Go
<1>17. ASSUME FmToExt(c)
      PROVE  TypeOK'
  <2>1. "fmOn" \in Calls /\ Fm \in SUBSET UseCases
    BY DEF Calls
  <2>2. CallTypes'
    BY <1>17, <2>1, BeginTypes DEF FmToExt
  <2> QED BY <1>17, <2>2 DEF FmToExt, CallTypes
<1>18. ASSUME StopFailed(c)
      PROVE  TypeOK'
  <2>1. CASE Stop(c, "delete", {}, "failed")
    <3>1. "delete" \in Calls /\ {} \in SUBSET UseCases
      BY DEF Calls
    <3>2. CallTypes'
      BY <2>1, <3>1, BeginTypes DEF Stop
    <3> QED BY <2>1, <3>2 DEF Stop, CallTypes
  <2>2. CASE ~Stop(c, "delete", {}, "failed")
    BY <1>18, <2>2 DEF StopFailed, Go
  <2> QED BY <2>1, <2>2
<1>19. ASSUME StopTest(c)
      PROVE  TypeOK'
  <2>1. PICK to \in {"killing", "relock"} : Go(c, "kill", to)
    BY <1>19 DEF StopTest
  <2> QED BY <1>19, <2>1 DEF StopTest, Go
<1>20. ASSUME StopRelock(c)
      PROVE  TypeOK'
  BY <1>20 DEF StopRelock, Go
<1> QED BY <1>1, <1>2, <1>3, <1>4, <1>5, <1>6, <1>7, <1>8, <1>9, <1>10, <1>11,
        <1>12, <1>13, <1>14, <1>15, <1>16, <1>17, <1>18, <1>19,
        <1>20 DEF InCall

LEMMA ThreadTypes ==
  ASSUME TypeOK, NEW t \in Threads,
         Thread(t) \/ SpuriousWake(t) \/ PollReturns(t)
  PROVE  TypeOK'
<1>0. [err EXCEPT ![t] = TRUE] \in [Threads -> BOOLEAN]
  BY Zenon DEF TypeOK
<1> USE DEF TypeOK, Owners, GoT, ThreadOnly
<1> USE DEF lockVars, routeVars, killVars, streamVars, proxyVars, callVars
<1>1. CASE Entry(t)
  BY <1>1 DEF Entry
<1>2. CASE Loop(t)
  BY <1>2 DEF Loop
<1>3. CASE Check(t)
  BY <1>3 DEF Check
<1>4. CASE Woken(t)
  BY <1>4 DEF Woken
<1>5. CASE UnlockAgain(t)
  BY <1>5 DEF UnlockAgain
<1>6. CASE ReadProxy(t)
  BY <1>6 DEF ReadProxy
<1>7. CASE SyncProxy(t)
  <2>1. err' \in [Threads -> BOOLEAN]
    BY <1>7, <1>0, Zenon DEF SyncProxy, Failed
  <2>2. CASE pcT' = [pcT EXCEPT ![t] = "copy"]
    BY <1>7, <2>1, <2>2 DEF SyncProxy, Failed
  <2>3. CASE pcT' = [pcT EXCEPT ![t] = "loop"]
    BY <1>7, <2>1, <2>3 DEF SyncProxy, Failed
  <2>4. CASE pcT' = [pcT EXCEPT ![t] = "poll"]
    BY <1>7, <2>1, <2>4 DEF SyncProxy, Failed
  <2> QED BY <1>7, <2>2, <2>3, <2>4 DEF SyncProxy, Failed
<1>8. CASE PollWoken(t)
  BY <1>8 DEF PollWoken
<1>9. CASE Copy(t)
  BY <1>9 DEF Copy
<1>10. CASE WriteStream(t)
  BY <1>10 DEF WriteStream
<1>11. CASE SkipWrite(t)
  BY <1>11 DEF SkipWrite
<1>12. CASE Written(t)
  BY <1>12 DEF Written
<1>13. CASE Exit(t)
  <2>1. mExtOutThreadAlive' \in BOOLEAN
    BY <1>13, Zenon DEF Exit
  <2>2. CASE pcT[t] = "exit"
    BY <1>13, <2>1, <2>2 DEF Exit
  <2>3. CASE pcT[t] # "exit"
    BY <1>13, <2>1, <2>3 DEF Exit
  <2> QED BY <1>13, <2>2, <2>3 DEF Exit
<1>14. CASE SpuriousWake(t)
  BY <1>14 DEF SpuriousWake
<1>15. CASE PollReturns(t)
  <2>1. err' \in [Threads -> BOOLEAN]
    BY <1>15, <1>0, Zenon DEF PollReturns, Failed
  <2>2. CASE pcT' = [pcT EXCEPT ![t] = "sync"]
    BY <1>15, <2>1, <2>2 DEF PollReturns, Failed
  <2>3. CASE pcT' = [pcT EXCEPT ![t] = "loop"]
    BY <1>15, <2>1, <2>3 DEF PollReturns, Failed
  <2> QED BY <1>15, <2>2, <2>3 DEF PollReturns, Failed
<1> QED BY <1>1, <1>2, <1>3, <1>4, <1>5, <1>6, <1>7, <1>8, <1>9, <1>10, <1>11,
        <1>12, <1>13, <1>14, <1>15 DEF Thread

----------------------------------------------------------------------------
(* Every step keeps the protocol of starting and stopping.                  *)

\* A call that begins without having met another one is the only one, whether
\* it takes mLock or not.
LEMMA BeginApart ==
  ASSUME IInv, NEW c \in Callers, NEW call, NEW uses,
         NEW from \in {"idle", "want", "radio", "failed"},
         NEW to \in {"start", "stop"},
         Begin(c, call, uses, from, to)
  PROVE  /\ overlapped => overlapped'
         /\ ~overlapped' => \A d \in Callers : ~Busy(d)
         /\ pc' = [pc EXCEPT ![c] = to]
BY CallersAssumption DEF IInv, TypeOK, Begin, Busy, Go, Free

LEMMA CallerProtocol ==
  ASSUME IInv, NEW c \in Callers, Caller(c)
  PROVE  Protocol'
<1> USE DEF IInv, TypeOK, OneAtATime, ThreadKnown, StopDisables, RunningOwned,
            ProxyOpenWhileRead, NothingLeftBehind, Busy, Disabled, Running
<1> USE DEF lockVars, routeVars, killVars, streamVars, proxyVars, callVars
<1>1. ASSUME NEW u \in UseCases, NEW r \in BOOLEAN, Write(c, u, r)
      PROVE  Protocol'
  BY <1>1, BeginApart DEF Protocol, Write, TurnToExt
<1>2. ASSUME NEW u \in UseCases, NEW r \in BOOLEAN, OpenSession(c, u, r)
      PROVE  Protocol'
  BY <1>2, BeginApart DEF Protocol, OpenSession, TurnToExt
<1>3. ASSUME NEW r \in BOOLEAN, OpenFails(c, r)
      PROVE  Protocol'
  BY <1>3 DEF Protocol, OpenFails, TurnToExt, Go
<1>4. ASSUME NEW r \in BOOLEAN, FmOn(c, r)
      PROVE  Protocol'
  BY <1>4 DEF Protocol, FmOn, Go
<1>5. ASSUME NEW call, NEW uses \in SUBSET UseCases, Suspend(c, call, uses)
      PROVE  Protocol'
  BY <1>5 DEF Protocol, Suspend, Suspended
<1>6. ASSUME NEW call, NEW uses, NEW from \in {"idle", "failed"},
             Stop(c, call, uses, from)
      PROVE  Protocol'
  BY <1>6, BeginApart DEF Protocol, Stop
<1>7. ASSUME Want(c)
      PROVE  Protocol'
  BY <1>7 DEF Protocol, Want, Go
<1>8. ASSUME Unroute(c)
      PROVE  Protocol'
  BY <1>8 DEF Protocol, Unroute
<1>9. ASSUME FmOff(c)
      PROVE  Protocol'
  BY <1>9, BeginApart DEF Protocol, FmOff
<1>10. ASSUME Connect(c)
      PROVE  Protocol'
  BY <1>10 DEF Protocol, Connect
<1>11. ASSUME Disconnect(c)
      PROVE  Protocol'
  BY <1>11 DEF Protocol, Disconnect, Go
<1>12. active \in SUBSET UseCases /\ Uses \subseteq SUBSET UseCases
  BY DEF Uses
<1> HIDE DEF IInv, TypeOK
<1> QED BY <1>1, <1>2, <1>3, <1>4, <1>5, <1>6, <1>7,
           <1>8, <1>9, <1>10, <1>11, <1>12 DEF Caller

LEMMA InCallProtocol ==
  ASSUME IInv, NEW c \in Callers, InCall(c)
  PROVE  Protocol'
<1> USE DEF IInv, TypeOK, OneAtATime, ThreadKnown, StopDisables, RunningOwned,
            ProxyOpenWhileRead, NothingLeftBehind, Busy, Disabled, Running
<1> USE DEF lockVars, routeVars, killVars, streamVars, proxyVars, callVars
<1>1. ASSUME StartTest(c)
      PROVE  Protocol'
  BY <1>1 DEF Protocol, StartTest, NeedsThread, EndStart, Go
<1>2. ASSUME StartFails(c)
      PROVE  Protocol'
  BY <1>2 DEF Protocol, StartFails, EndStart, OpenProxy, Go
<1>3. ASSUME NEW t \in Threads, StartThread(c, t)
      PROVE  Protocol'
  BY <1>3 DEF Protocol, StartThread, OpenProxy, Go
<1>4. ASSUME StartEnabled(c)
      PROVE  Protocol'
  BY <1>4 DEF Protocol, StartEnabled, Go
<1>5. ASSUME Resume(c)
      PROVE  Protocol'
  BY <1>5 DEF Protocol, Resume, Go
<1>6. ASSUME SignalThread(c)
      PROVE  Protocol'
  BY <1>6 DEF Protocol, SignalThread, EndStart, Signal, Go
<1>7. ASSUME StopSuspends(c)
      PROVE  Protocol'
  BY <1>7 DEF Protocol, StopSuspends, Suspended, Go
<1>8. ASSUME StopCheck(c)
      PROVE  Protocol'
  BY <1>8 DEF Protocol, StopCheck, Go
<1>9. ASSUME StopTest(c)
      PROVE  Protocol'
  BY <1>9 DEF Protocol, StopTest, Go
<1>10. ASSUME StopKill(c)
      PROVE  Protocol'
  BY <1>10 DEF Protocol, StopKill, Go
<1>11. ASSUME StopWake(c)
      PROVE  Protocol'
  BY <1>11 DEF Protocol, StopWake, Signal, Go
<1>12. ASSUME StopJoin(c)
      PROVE  Protocol'
  BY <1>12 DEF Protocol, StopJoin, Joined, Go
<1>13. ASSUME StopRelock(c)
      PROVE  Protocol'
  BY <1>13 DEF Protocol, StopRelock, Go
<1>14. ASSUME StopClose(c)
      PROVE  Protocol'
  BY <1>14 DEF Protocol, StopClose, CloseProxy, Go
<1>15. ASSUME DisconnectStream(c)
      PROVE  Protocol'
  BY <1>15 DEF Protocol, DisconnectStream, Go
<1>16. ASSUME CloseStream(c)
      PROVE  Protocol'
  BY <1>16 DEF Protocol, CloseStream, Go
<1>17. ASSUME NEW call, NEW uses, Route(c, call, uses)
      PROVE  Protocol'
  BY <1>17, BeginApart DEF Protocol, Route
<1>18. ASSUME RouteOnly(c)
      PROVE  Protocol'
  BY <1>18 DEF Protocol, RouteOnly, Go
<1>19. ASSUME FmToExt(c)
      PROVE  Protocol'
  BY <1>19, BeginApart DEF Protocol, FmToExt
<1>20. ASSUME StopFailed(c)
      PROVE  Protocol'
  BY <1>20, BeginApart DEF Protocol, StopFailed, Stop, Go
<1> QED BY <1>1, <1>2, <1>3, <1>4, <1>5, <1>6, <1>7, <1>8, <1>9, <1>10,
           <1>11, <1>12, <1>13, <1>14, <1>15, <1>16, <1>17, <1>18, <1>19, <1>20 DEF InCall

LEMMA ThreadProtocol ==
  ASSUME IInv, NEW t \in Threads,
         Thread(t) \/ SpuriousWake(t) \/ PollReturns(t)
  PROVE  Protocol'
<1> USE DEF IInv, TypeOK, OneAtATime, ThreadKnown, StopDisables, RunningOwned,
            ProxyOpenWhileRead, NothingLeftBehind, Busy, Disabled, Running
<1> USE DEF lockVars, routeVars, killVars, streamVars, proxyVars, callVars
<1> USE DEF Protocol, GoT, ThreadOnly
<1>1. CASE Entry(t)
  BY <1>1 DEF Entry
<1>2. CASE Loop(t)
  BY <1>2 DEF Loop
<1>3. CASE Check(t)
  BY <1>3 DEF Check, MustWait
<1>4. CASE Woken(t)
  BY <1>4 DEF Woken
<1>5. CASE UnlockAgain(t)
  BY <1>5 DEF UnlockAgain
<1>6. CASE ReadProxy(t)
  BY <1>6 DEF ReadProxy
<1>7. CASE SyncProxy(t)
  BY <1>7 DEF SyncProxy, Failed
<1>8. CASE PollWoken(t)
  BY <1>8 DEF PollWoken
<1>9. CASE Copy(t)
  BY <1>9 DEF Copy
<1>10. CASE WriteStream(t)
  BY <1>10 DEF WriteStream
<1>11. CASE SkipWrite(t)
  BY <1>11 DEF SkipWrite
<1>12. CASE Written(t)
  BY <1>12 DEF Written
<1>13. CASE Exit(t)
  BY <1>13 DEF Exit
<1>14. CASE SpuriousWake(t)
  BY <1>14 DEF SpuriousWake
<1>15. CASE PollReturns(t)
  BY <1>15 DEF PollReturns, Failed
<1> QED BY <1>1, <1>2, <1>3, <1>4, <1>5, <1>6, <1>7, <1>8, <1>9, <1>10, <1>11,
        <1>12, <1>13, <1>14, <1>15 DEF Thread

----------------------------------------------------------------------------
(* Theorems.                                                                *)

(* Whatever the callers do and whatever fails, every variable keeps its     *)
(* type.                                                                    *)
THEOREM TypeCorrect == Spec => []TypeOK
<1>1. Init => TypeOK
  BY DEF Init, TypeOK, Calls, Owners
<1>2. TypeOK /\ [Next]_vars => TypeOK'
  <2> SUFFICES ASSUME TypeOK, [Next]_vars PROVE TypeOK'
    OBVIOUS
  <2>1. CASE UNCHANGED vars
    BY <2>1 DEF TypeOK, vars, lockVars, routeVars, killVars, streamVars,
                proxyVars, callVars
  <2> QED BY <2>1, CallerTypes, InCallTypes, ThreadTypes DEF Next
<1> QED BY <1>1, <1>2, PTL DEF Spec

(* The starts and stops of an external output follow one protocol until a   *)
(* call without mLock breaks into another: IInv is inductive.               *)
THEOREM IInvariant == Spec => []IInv
<1>1. Init => IInv
  <2>1. Init => TypeOK
    BY DEF Init, TypeOK, Calls, Owners
  <2> QED BY <2>1 DEF Init, IInv, Protocol, OneAtATime, ThreadKnown,
             StopDisables, RunningOwned, ProxyOpenWhileRead, NothingLeftBehind,
             Busy, Disabled, Running
<1>2. IInv /\ [Next]_vars => IInv'
  <2> SUFFICES ASSUME IInv, [Next]_vars PROVE IInv'
    OBVIOUS
  <2>1. CASE UNCHANGED vars
    BY <2>1 DEF IInv, TypeOK, Protocol, OneAtATime, ThreadKnown, StopDisables,
                RunningOwned, ProxyOpenWhileRead, NothingLeftBehind, Busy,
                Disabled, Running, vars, lockVars, routeVars, killVars,
                streamVars, proxyVars, callVars
  <2>2. CASE Next
    <3>1. TypeOK
      BY DEF IInv
    <3> QED BY <2>2, <3>1, CallerTypes, InCallTypes, ThreadTypes,
               CallerProtocol, InCallProtocol, ThreadProtocol DEF Next, IInv
  <2> QED BY <2>1, <2>2
<1> QED BY <1>1, <1>2, PTL DEF Spec

(* The proxy device is not closed under a thread that reads it: a stop, by a *)
(* stream, its destructor, FM or an ADSP restart, waits for the thread first,*)
(* for any number of callers and however the requests fail, unless an        *)
(* unlocked start or stop has met another one before.                        *)
THEOREM ProxyStaysOpen == Spec => []ProxyOpenWhileRead
<1>1. IInv => ProxyOpenWhileRead
  BY DEF IInv, Protocol, ProxyOpenWhileRead
<1> QED BY <1>1, IInvariant, PTL

(* A start does not create a thread over one that still runs, although it    *)
(* tests mIsExtOutEnabled before it takes mExtOutMutex, under the same       *)
(* exception: that of two callers of which one has no mLock.                 *)
THEOREM OneThreadOnly == Spec => []OneThread
<1>1. IInv => OneThread
  BY DEF IInv, Protocol, RunningOwned, OneThread
<1> QED BY <1>1, IInvariant, PTL

(* When mRouteAudioToExtOut is down there is neither a thread nor an open    *)
(* proxy that no later stop would end, under the same exception.             *)
THEOREM NothingIsLeft == Spec => []NothingLeftBehind
<1>1. IInv => NothingLeftBehind
  BY DEF IInv, Protocol, NothingLeftBehind
<1> QED BY <1>1, IInvariant, PTL
=============================================================================
