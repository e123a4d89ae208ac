------------------------------ MODULE MCExtOut ------------------------------
(* Values of the constants of ExtOut for TLC.  "stream" makes the calls that *)
(* hold mLock, which take their turns; "system" those that do not, and in    *)
(* Safe it routes, deletes a stream and switches FM as well.                 *)
EXTENDS ExtOut, TLC

MixerCalls  == {"write", "close", "standby", "route", "routeNew", "unroute"}
SystemCalls == {"connect", "disconnect", "suspendA2dp"}
MCCallers   == {"stream", "system"}
MCMayCall   == ({"stream"} \X MixerCalls) \cup ({"system"} \X SystemCalls)
TwoRouters  == MCMayCall \cup ({"system"} \X {"route", "routeNew"})
Everything  == ({"stream"} \X (MixerCalls \cup {"open", "delete", "routeFm"})) \cup
               ({"system"} \X (SystemCalls \cup {"route", "routeNew", "delete",
                                                "dspOffline", "fmOn", "fmOff"}))
OneUseCase  == {"HIFI"}
NoUseCase   == {}
TwoUseCases == {"LOW_POWER", "FM"}
OnlyLow     == {"LOW_POWER"}
OnlyFm      == {"FM"}
MCThreads   == {"first", "second"}
\* For ExtOutSafe: any thread that has ended is as good as the other.
Alike       == Permutations(Threads)
NoFault     == {}
\* What ExtOutSafe checks holds trivially of the states after an overlap.
Apart       == ~overlapped
\* What a call that has returned was for is read no more.
Seen        == <<lockVars, routeVars, active, mIsExtOutEnabled, killVars,
                 streamVars, proxyVars, mCanOpenProxy, mIsFmActive, overlapped,
                 pc, [c \in Callers |-> IF Busy(c) THEN <<op[c], use[c]>> ELSE <<>>],
                 pcT, err>>
AnyFault    == {"openProxy", "create", "sync", "open"}
=============================================================================
