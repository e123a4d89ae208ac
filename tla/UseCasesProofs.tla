--------------------------- MODULE UseCasesProofs ---------------------------
(* Theorems about UseCases, for any streams, sessions, calls, devices and    *)
(* failures.  The use case manager is reached through Route, Enable and      *)
(* DisableDevice only: a lemma each says what it does to what is enabled.    *)
EXTENDS UseCases, TLAPS

AllModes == {"NORMAL", "RINGTONE", "IN_CALL", "IN_COMMUNICATION"}

\* A reroute keeps the type of the use case manager, its verb and its modifiers.
LEMMA RouteKeeps ==
  ASSUME NEW u \in UcmType, u.verb \notin u.mods,
         NEW device \in Outputs \cup Inputs, NEW mode \in AllModes
  PROVE  /\ Route(u, device, mode) \in UcmType
         /\ Route(u, device, mode).verb = u.verb
         /\ Route(u, device, mode).mods = u.mods
<1> DEFINE devices == Paired(u, device, mode)
           rx == RxName(u, devices, mode)
           tx == TxName(u, devices, mode)
<1>1. rx \in OutNames \cup {None}
  <2>1. CASE \E d \in devices : d \in Outputs \cup {"earpiece"}
    <3> DEFINE d == CHOOSE d \in devices : d \in Outputs \cup {"earpiece"}
    <3>1. d \in Outputs \cup {"earpiece"} BY <2>1
    <3>2. rx = <<d, InCallMode(mode)>> BY <2>1 DEF RxName
    <3>3. InCallMode(mode) \in BOOLEAN BY DEF InCallMode
    <3> HIDE DEF d, rx, devices
    <3> QED BY <3>1, <3>2, <3>3 DEF OutNames
  <2>2. CASE ~(\E d \in devices : d \in Outputs \cup {"earpiece"})
    BY <2>2 DEF RxName
  <2> QED BY <2>1, <2>2
<1>2. tx \in InNames \cup {None}
  <2>1. InCallMode(mode) \in BOOLEAN /\ (mode = "IN_CALL") \in BOOLEAN BY DEF InCallMode
  <2>2. u.tx \in InNames \cup {None} BY DEF UcmType
  <2> QED BY <2>1, <2>2 DEF TxName, InNames
<1> HIDE DEF rx, tx, devices
<1>3. ASSUME NEW rxMoves, NEW txMoves
      PROVE  /\ Switched(u, devices, rx, tx, rxMoves, txMoves) \in UcmType
             /\ Switched(u, devices, rx, tx, rxMoves, txMoves).verb = u.verb
             /\ Switched(u, devices, rx, tx, rxMoves, txMoves).mods = u.mods
  <2> DEFINE taken == Derouted(u, rxMoves, txMoves)
             off == (IF rxMoves THEN {u.rx} ELSE {}) \cup (IF txMoves THEN {u.tx} ELSE {})
             down == Disabled(u, taken)
             there == [down EXCEPT
                  !.on = (@ \ off) \cup SwitchedOn(rx, tx),
                  !.rx = NewName(rx, @), !.tx = NewName(tx, @),
                  !.prev = devices \cap (Outputs \cup {"earpiece"})]
  <2>1. taken \subseteq Enabled(u) BY DEF Derouted
  <2>2. Enabled(u) \subseteq Kinds BY DEF Enabled, UcmType
  <2>3. down \in UcmType /\ down.mods = u.mods \ taken
        /\ down.verb = (IF u.verb \in taken THEN "Inactive" ELSE u.verb)
    <3> HIDE DEF taken
    <3> QED BY DEF UcmType, Disabled, NoPath
  <2>4. there \in UcmType /\ there.mods = down.mods /\ there.verb = down.verb
    <3> HIDE DEF down, off
    <3>1. SwitchedOn(rx, tx) \subseteq OutNames \cup InNames BY <1>1, <1>2 DEF SwitchedOn
    <3>2. NewName(rx, down.rx) \in OutNames \cup {None} BY <1>1, <2>3 DEF NewName, UcmType
    <3>3. NewName(tx, down.tx) \in InNames \cup {None} BY <1>2, <2>3 DEF NewName, UcmType
    <3> QED BY <2>3, <3>1, <3>2, <3>3 DEF UcmType
  <2>5. EnabledAgain(there, taken, u.verb) \in UcmType
    <3> HIDE DEF taken, there
    <3> QED BY <2>1, <2>2, <2>4 DEF EnabledAgain, UcmType, Enabled
  <2>6. /\ EnabledAgain(there, taken, u.verb).verb = u.verb
        /\ EnabledAgain(there, taken, u.verb).mods = u.mods
    <3> HIDE DEF taken, there, down
    <3>2. taken \subseteq u.mods \cup {u.verb} BY <2>1 DEF Enabled
    <3>3. EnabledAgain(there, taken, u.verb).verb = u.verb
      BY <2>3, <2>4 DEF EnabledAgain, UcmType
    <3>4. EnabledAgain(there, taken, u.verb).mods = (u.mods \ taken) \cup (taken \ {u.verb})
      BY <2>3, <2>4 DEF EnabledAgain, UcmType
    <3> QED BY <3>2, <3>3, <3>4
  <2> QED BY <2>5, <2>6 DEF Switched
<1> QED BY <1>3 DEF Route, rx, tx, devices

\* What is enabled in u is what is open, under its role: EnabledIsOpen of any
\* use case manager, roles and open handles.
Names(u, r, o) ==
  \A k \in Kinds : /\ u.verb = k <=> k \in o /\ r[k] = "verb"
                   /\ k \in u.mods <=> k \in o /\ r[k] = "mod"
Roles == [Kinds -> {"verb", "mod"}]

\* The verb is no modifier: a handle has one role.
LEMMA NamesApart ==
  ASSUME NEW u \in UcmType, NEW r \in Roles, NEW o, Names(u, r, o)
  PROVE  u.verb \notin u.mods
  BY DEF Names, UcmType, Roles

\* A reroute changes nothing of what is enabled.
LEMMA RouteNames ==
  ASSUME NEW u \in UcmType, NEW r \in Roles, NEW o, Names(u, r, o),
         NEW device \in Outputs \cup Inputs, NEW mode \in AllModes
  PROVE  Route(u, device, mode) \in UcmType /\ Names(Route(u, device, mode), r, o)
  <1>1. u.verb \notin u.mods BY NamesApart
  <1> QED BY <1>1, RouteKeeps DEF Names

\* Enabling a closed use case under the free role accounts for one more handle.
LEMMA EnableNames ==
  ASSUME NEW u \in UcmType, NEW r \in Roles, NEW o \in SUBSET Kinds, Names(u, r, o),
         NEW k \in Kinds \ o
  PROVE  /\ FreeRole(u) \in {"verb", "mod"}
         /\ Enable(u, k, FreeRole(u)) \in UcmType
         /\ Names(Enable(u, k, FreeRole(u)), [r EXCEPT ![k] = FreeRole(u)], o \cup {k})
  <1>0. "Inactive" \notin Kinds BY KindsAssumption
  <1>1. CASE u.verb = "Inactive"
    <2>1. FreeRole(u) = "verb" BY <1>1 DEF FreeRole
    <2>2. Enable(u, k, "verb") \in UcmType BY DEF Enable, EnabledAgain, UcmType
    <2>3. Enable(u, k, "verb").verb = k /\ Enable(u, k, "verb").mods = u.mods
      BY DEF Enable, EnabledAgain, UcmType
    <2> QED BY <1>0, <1>1, <2>1, <2>2, <2>3 DEF Names, Roles
  <1>2. CASE u.verb # "Inactive"
    <2>1. FreeRole(u) = "mod" BY <1>2 DEF FreeRole
    <2>2. Enable(u, k, "mod") \in UcmType BY DEF Enable, EnabledAgain, UcmType
    <2>3. Enable(u, k, "mod").verb = u.verb /\ Enable(u, k, "mod").mods = u.mods \cup {k}
      BY <1>0 DEF Enable, EnabledAgain, UcmType
    <2> QED BY <1>2, <2>1, <2>2, <2>3 DEF Names, Roles
  <1> QED BY <1>1, <1>2

\* Disabling an open use case under its role accounts for one handle less.
LEMMA DisableNames ==
  ASSUME NEW u \in UcmType, NEW r \in Roles, NEW o \in SUBSET Kinds, Names(u, r, o),
         NEW k \in o, NEW role2 \in {"verb", "mod"}
  PROVE  /\ DisableDevice(u, k, r[k]) \in UcmType
         /\ Names(DisableDevice(u, k, r[k]), [r EXCEPT ![k] = role2], o \ {k})
  <1> DEFINE less == Removed(u, k, r[k])
  <1>1. k \in Kinds /\ r[k] \in {"verb", "mod"} /\ "Inactive" \notin Kinds
    BY KindsAssumption DEF Roles
  <1>2. less \in UcmType BY <1>1 DEF Removed, UcmType, NoPath
  <1>3. less.mods = (IF r[k] = "mod" THEN u.mods \ {k} ELSE u.mods)
        /\ less.verb = (IF r[k] = "verb" /\ u.verb = k THEN "Inactive" ELSE u.verb)
    BY <1>1 DEF Removed, UcmType
  <1>4. /\ DisableDevice(u, k, r[k]) \in UcmType
        /\ DisableDevice(u, k, r[k]).verb = less.verb
        /\ DisableDevice(u, k, r[k]).mods = less.mods
    <2> HIDE DEF less
    <2> DEFINE on2 == less.on \ Unused(less)
    <2>1. on2 \subseteq OutNames \cup InNames BY <1>2 DEF UcmType
    <2>2. DisableDevice(u, k, r[k]) = [less EXCEPT !.on = on2] BY DEF DisableDevice, less
    <2> HIDE DEF on2
    <2> QED BY <1>2, <2>1, <2>2 DEF UcmType
  <1> HIDE DEF less
  <1> QED BY <1>1, <1>3, <1>4 DEF Names, Roles

----------------------------------------------------------------------------
(* The inductive invariant: what is open is listed; FM is open only while it *)
(* is active; a stream that lives has its handle in the list; the handle of  *)
(* a VoIP call is open as long as it is listed.                              *)
Core == ucm \in UcmType /\ role \in Roles /\ open \in SUBSET Kinds /\ EnabledIsOpen

Rest ==
  /\ mDeviceList \in SUBSET Kinds /\ ssr \in BOOLEAN
  /\ mMode \in Modes /\ mCallState \in CallStates /\ mVSID \in Calls \cup {"none"}
  /\ callState \in [Calls -> CallStates]
  /\ control \in {"idle", "state", "route"} /\ asked \in CallStates
  /\ mCurDevice \in Outputs \cup Inputs /\ mCurRxDevice \in Outputs
  /\ live \in SUBSET (Outs \cup Sessions \cup Captures \cup Directions)
  /\ mDevices \in [Captures -> Inputs]
  /\ voipCount \in [Directions -> 0..1] /\ mIsFmActive \in BOOLEAN
  /\ open \subseteq mDeviceList /\ ("fm" \in open => mIsFmActive)
  /\ live \cap (Outs \cup Sessions \cup Captures) \subseteq mDeviceList
  /\ "voip" \in mDeviceList => "voip" \in open
  /\ CallsListed /\ EndedCallIsDown /\ VoipShared

IInv == Core /\ Rest

\* The modes of the instance are modes of the phone.
LEMMA ModesKnown == Modes \subseteq AllModes
  BY ModesAssumption DEF AllModes

\* ALSADevice::open, whatever becomes of the PCM device.
LEMMA OpeningKeeps ==
  ASSUME Core, NEW k \in Kinds \ open, NEW device \in Outputs \cup Inputs,
         NEW mode \in AllModes, NEW how \in {"ok", "bad", "params"},
         Opening(k, device, mode, how)
  PROVE  /\ Core'
         /\ open' = IF how = "params" THEN open ELSE open \cup {k}
  <1> DEFINE u == Route(ucm, device, mode)
             r == FreeRole(ucm)
             role2 == [role EXCEPT ![k] = r]
  <1>1. u \in UcmType /\ Names(u, role, open)
    BY RouteNames DEF Core, EnabledIsOpen, Names
  <1>2. FreeRole(u) = r
    <2>1. ucm.verb \notin ucm.mods BY NamesApart DEF Core, EnabledIsOpen, Names
    <2>2. u.verb = ucm.verb BY <2>1, RouteKeeps DEF Core
    <2> QED BY <2>2 DEF FreeRole
  <1> HIDE DEF u
  <1>3. /\ r \in {"verb", "mod"} /\ Enable(u, k, r) \in UcmType
        /\ Names(Enable(u, k, r), role2, open \cup {k})
    BY <1>1, <1>2, EnableNames DEF Core
  <1>4. role2 \in Roles BY <1>3 DEF Core, Roles
  <1>5. role2[k] = r BY DEF Core, Roles
  <1>6. role' = role2 /\ ucm' = Opened(u, k, r, how) BY DEF Opening, u
  <1>7. CASE how # "params"
    <2>1. ucm' = Enable(u, k, r) /\ open' = open \cup {k} BY <1>6, <1>7 DEF Opened, Opening
    <2>2. Names(ucm', role', open') BY <1>3, <1>6, <2>1
    <2>3. EnabledIsOpen' BY <2>2 DEF EnabledIsOpen, Names
    <2>4. ucm' \in UcmType /\ role' \in Roles BY <1>3, <1>4, <1>6, <2>1
    <2> QED BY <1>7, <2>1, <2>3, <2>4 DEF Core
  <1>8. CASE how = "params"
    <2>1. ucm' = DisableDevice(Enable(u, k, r), k, r) /\ open' = open
      BY <1>6, <1>8 DEF Opened, Opening
    <2>2. /\ DisableDevice(Enable(u, k, r), k, r) \in UcmType
          /\ Names(DisableDevice(Enable(u, k, r), k, r), [role2 EXCEPT ![k] = r],
                   (open \cup {k}) \ {k})
      <3> DEFINE e == Enable(u, k, r)
                 all == open \cup {k}
      <3>1. all \in SUBSET Kinds /\ k \in all BY DEF Core
      <3>2. e \in UcmType /\ Names(e, role2, all) /\ r \in {"verb", "mod"} BY <1>3
      <3> HIDE DEF r, role2, e, all
      <3>3. /\ DisableDevice(e, k, role2[k]) \in UcmType
            /\ Names(DisableDevice(e, k, role2[k]), [role2 EXCEPT ![k] = r], all \ {k})
        BY <1>4, <3>1, <3>2, DisableNames
      <3> QED BY <1>5, <3>3 DEF e, all
    <2>3. [role2 EXCEPT ![k] = r] = role2 BY DEF Core, Roles
    <2>4. (open \cup {k}) \ {k} = open OBVIOUS
    <2> QED BY <1>4, <1>6, <1>8, <2>1, <2>2, <2>3, <2>4 DEF Core, EnabledIsOpen, Names
  <1> QED BY <1>7, <1>8

\* ALSADevice::close and standby, of any handle.
LEMMA ClosingKeeps ==
  ASSUME Core, NEW k \in Kinds, Closing(k)
  PROVE  Core' /\ open' = open \ {k}
  <1> DEFINE role2 == [role EXCEPT ![k] = "verb"]
  <1>1. role' = role2 /\ open' = open \ {k} /\ ucm' = Closed(ucm, k) BY DEF Closing
  <1>2. role2 \in Roles BY DEF Core, Roles
  <1>3. CASE k \in open
    <2>1. ucm' = DisableDevice(ucm, k, role[k]) BY <1>1, <1>3 DEF Closed
    <2>2. Names(ucm, role, open) BY DEF Core, EnabledIsOpen, Names
    <2>3. ucm' \in UcmType /\ Names(ucm', role2, open \ {k})
      BY <1>3, <2>1, <2>2, DisableNames DEF Core
    <2> QED BY <1>1, <1>2, <2>3 DEF Core, EnabledIsOpen, Names
  <1>4. CASE k \notin open
    <2>1. ucm' = ucm /\ open' = open BY <1>1, <1>4 DEF Closed
    <2>2. \A j \in open : role2[j] = role[j] BY <1>4 DEF Core, Roles
    <2> QED BY <1>1, <1>2, <2>1, <2>2 DEF Core, EnabledIsOpen
  <1> QED BY <1>3, <1>4

\* An open whose handle is given up at once leaves what is enabled as it was.
LEMMA TriedKeeps ==
  ASSUME Core, NEW k \in Kinds \ open, NEW device \in Outputs \cup Inputs,
         NEW mode \in AllModes, NEW u,
         u = DisableDevice(Enable(Route(ucm, device, mode), k, FreeRole(ucm)),
                           k, FreeRole(ucm))
  PROVE  u \in UcmType /\ Names(u, role, open)
  <1> DEFINE r == FreeRole(ucm)
             routed == Route(ucm, device, mode)
             up == Enable(routed, k, r)
             role2 == [role EXCEPT ![k] = r]
  <1>1. routed \in UcmType /\ Names(routed, role, open)
    BY RouteNames DEF Core, EnabledIsOpen, Names
  <1>2. FreeRole(routed) = r
    <2>1. ucm.verb \notin ucm.mods BY NamesApart DEF Core, EnabledIsOpen, Names
    <2>2. routed.verb = ucm.verb BY <2>1, RouteKeeps DEF Core
    <2> QED BY <2>2 DEF FreeRole
  <1> HIDE DEF routed
  <1>3. r \in {"verb", "mod"} /\ up \in UcmType /\ Names(up, role2, open \cup {k})
    BY <1>1, <1>2, EnableNames DEF Core
  <1>4. role2 \in Roles /\ role2[k] = r /\ role[k] \in {"verb", "mod"}
    BY <1>3 DEF Core, Roles
  <1>5. u = DisableDevice(up, k, role2[k]) BY <1>4 DEF routed
  <1> HIDE DEF up, r
  <1>6. u \in UcmType /\ Names(u, [role2 EXCEPT ![k] = role[k]], (open \cup {k}) \ {k})
    <2> HIDE DEF role2
    <2>1. open \cup {k} \in SUBSET Kinds /\ k \in open \cup {k} BY DEF Core
    <2>2. /\ DisableDevice(up, k, role2[k]) \in UcmType
          /\ Names(DisableDevice(up, k, role2[k]), [role2 EXCEPT ![k] = role[k]],
                   (open \cup {k}) \ {k})
      BY <1>3, <1>4, <2>1, DisableNames
    <2> QED BY <1>5, <2>2
  <1>7. [role2 EXCEPT ![k] = role[k]] = role BY <1>4 DEF Core, Roles
  <1>8. (open \cup {k}) \ {k} = open OBVIOUS
  <1> QED BY <1>6, <1>7, <1>8

----------------------------------------------------------------------------
(* One lemma per group of actions.                                           *)

\* openOutputStream and openOutputSession.
LEMMA OpenOutKeeps ==
  ASSUME IInv, NEW k \in Outs \cup Sessions, NEW device \in Outputs,
         NEW how \in {"ok", "bad", "params"}, OpenOut(k, device, how)
  PROVE  IInv'
  <1>1. k \in Kinds \ open /\ k \notin Calls \cup {"voip", "fm"} /\ mMode \in AllModes
    BY KindsAssumption, ModesKnown DEF IInv, Rest, OpenOut, Kinds
  <1>2. CASE k \in Outs \/ how = "ok"
    <2>1. Opening(k, device, mMode, how) /\ mDeviceList' = mDeviceList \cup {k}
      BY <1>2 DEF OpenOut
    <2>2. Core' /\ open' = IF how = "params" THEN open ELSE open \cup {k}
      BY <1>1, <2>1, OpeningKeeps DEF IInv
    <2> QED BY <1>1, <2>1, <2>2, KindsAssumption
            DEF IInv, Rest, OpenOut, callVars, deviceVars, CallsListed,
                EndedCallIsDown, VoipShared, Kinds, Directions
  <1>3. CASE ~(k \in Outs \/ how = "ok")
    <2>1. /\ ucm' = Opened(Route(ucm, device, mMode), k, FreeRole(ucm), "params")
          /\ UNCHANGED listVars
      BY <1>3 DEF OpenOut
    <2>2. ucm' \in UcmType /\ Names(ucm', role, open)
      BY <1>1, <2>1, TriedKeeps DEF IInv, Opened
    <2>3. Core' BY <2>1, <2>2 DEF IInv, Core, EnabledIsOpen, Names, listVars
    <2> QED BY <1>3, <2>1, <2>3
            DEF IInv, Rest, OpenOut, callVars, deviceVars, listVars, CallsListed,
                EndedCallIsDown, VoipShared
  <1> QED BY <1>2, <1>3

\* A write or a read on a closed handle opens it.
LEMMA WriteKeeps ==
  ASSUME IInv, NEW k \in Outs \cup Captures, NEW how \in {"ok", "bad", "params"},
         k \in live \ open, NEW device \in Outputs \cup Inputs,
         Opening(k, device, mMode, how),
         UNCHANGED <<mDeviceList, ssr, callVars, deviceVars, streamVars, voipCount, mIsFmActive>>
  PROVE  IInv'
  <1>1. k \in Kinds \ open /\ k \notin Calls \cup {"voip", "fm"} /\ mMode \in AllModes
        /\ k \in mDeviceList
    BY KindsAssumption, ModesKnown DEF IInv, Rest, Kinds
  <1>2. Core' /\ open' = IF how = "params" THEN open ELSE open \cup {k}
    BY <1>1, OpeningKeeps DEF IInv
  <1> QED BY <1>1, <1>2 DEF IInv, Rest, callVars, deviceVars, streamVars, CallsListed,
                            EndedCallIsDown, VoipShared

\* standby and close of playback, sessions and capture; FM that is switched off.
LEMMA ClosedKeeps ==
  ASSUME IInv, NEW k \in Outs \cup Sessions \cup Captures \cup {"fm"}, Closing(k),
         \/ k # "fm" /\ UNCHANGED <<mDeviceList, live, mIsFmActive>>
         \/ /\ mDeviceList' = mDeviceList \ {k} /\ live' = live \ {k}
            /\ UNCHANGED mIsFmActive \/ (k = "fm" /\ mIsFmActive' = FALSE),
         UNCHANGED <<ssr, callVars, deviceVars, mDevices, voipCount>>
  PROVE  IInv'
  <1>1. k \in Kinds /\ k \notin Calls \cup Directions \cup {"voip"}
    BY KindsAssumption DEF Kinds
  <1>2. Core' /\ open' = open \ {k} BY <1>1, ClosingKeeps DEF IInv
  <1>3. CallsListed' BY <1>1, <1>2 DEF IInv, Rest, CallsListed, callVars
  <1>4. EndedCallIsDown' BY DEF IInv, Rest, EndedCallIsDown, callVars
  <1>5. VoipShared' BY <1>1, <1>2 DEF IInv, Rest, VoipShared
  <1> QED BY <1>1, <1>2, <1>3, <1>4, <1>5 DEF IInv, Rest, callVars, deviceVars

\* The error path of write.
LEMMA RecoverKeeps ==
  ASSUME IInv, NEW k \in Outs, NEW how \in {"ok", "bad", "params"}, Recover(k, how)
  PROVE  IInv'
  <1> DEFINE u == IF ssr THEN Route(ucm, mCurRxDevice, mMode) ELSE ucm
  <1>1. k \in open /\ k \in Kinds /\ k \notin Calls \cup {"voip", "fm"}
    BY KindsAssumption DEF Recover, Kinds
  <1>2. u \in UcmType /\ Names(u, role, open)
    <2>1. mMode \in AllModes /\ mCurRxDevice \in Outputs \cup Inputs
      BY ModesKnown DEF IInv, Rest
    <2>2. ucm \in UcmType /\ role \in Roles /\ Names(ucm, role, open)
      BY DEF IInv, Core, EnabledIsOpen, Names
    <2>3. /\ Route(ucm, mCurRxDevice, mMode) \in UcmType
          /\ Names(Route(ucm, mCurRxDevice, mMode), role, open)
      BY <2>1, <2>2, RouteNames
    <2> QED BY <2>2, <2>3
  <1> HIDE DEF u
  <1>3. CASE how = "params"
    <2>1. ucm' = DisableDevice(u, k, role[k]) /\ open' = open \ {k} /\ role' = role
      BY <1>3 DEF Recover, u
    <2>2. [role EXCEPT ![k] = role[k]] = role /\ role[k] \in {"verb", "mod"}
      BY <1>1 DEF IInv, Core, Roles
    <2>3. ucm' \in UcmType /\ Names(ucm', [role EXCEPT ![k] = role[k]], open \ {k})
      BY <1>1, <1>2, <2>1, <2>2, DisableNames DEF IInv, Core
    <2>4. Core' BY <2>1, <2>2, <2>3 DEF IInv, Core, EnabledIsOpen, Names
    <2> QED BY <1>1, <2>1, <2>4
            DEF IInv, Rest, Recover, callVars, deviceVars, streamVars, CallsListed,
                EndedCallIsDown, VoipShared
  <1>4. CASE how # "params"
    <2>1. ucm' = u /\ open' = open /\ role' = role BY <1>4 DEF Recover, u
    <2>2. Core' BY <1>2, <2>1 DEF IInv, Core, EnabledIsOpen, Names
    <2> QED BY <2>1, <2>2
            DEF IInv, Rest, Recover, callVars, deviceVars, streamVars, CallsListed,
                EndedCallIsDown, VoipShared
  <1> QED BY <1>3, <1>4

\* doRouting: it starts, ends or moves no call but mVSID, and a call that is
\* to be inactive is down after it.
LEMMA RoutingKeeps ==
  ASSUME IInv, NEW device \in Outputs \cup Inputs, DoRouting(device)
  PROVE  /\ Core' /\ mDeviceList' \in SUBSET Kinds /\ open' \subseteq mDeviceList'
         /\ open' \ Calls = open \ Calls /\ mDeviceList' \ Calls = mDeviceList \ Calls
         /\ callState' \in [Calls -> CallStates]
         /\ mCurDevice' \in Outputs \cup Inputs /\ mCurRxDevice' \in Outputs
         /\ CallsListed'
         /\ mVSID # "none" /\ mCallState = "INACTIVE" => callState'[mVSID] = "INACTIVE"
  <1>1. /\ mCurDevice' \in Outputs \cup Inputs /\ mCurRxDevice' \in Outputs
    BY DEF DoRouting, IInv, Rest
  <1>2. mMode \in AllModes /\ PlainMode \in AllModes /\ "none" \notin Calls
        /\ {"INACTIVE", "ACTIVE"} \subseteq CallStates /\ Calls \subseteq Kinds
    BY ModesKnown, KindsAssumption, CallStatesAssumption
    DEF IInv, Rest, PlainMode, AllModes, Kinds
  <1>3. CASE StartsCall /\ \E how \in How("voice") \ {"params"} : StartCall(device, how)
    <2>1. mVSID \in Calls /\ mVSID \in Kinds \ open /\ mVSID \notin mDeviceList
          /\ mCallState = "ACTIVE"
      BY <1>2, <1>3 DEF StartsCall, IInv, Rest, CallsListed
    <2>2. PICK how \in How("voice") \ {"params"} : StartCall(device, how) BY <1>3
    <2>3. CASE how = "ok"
      <3>1. /\ Opening(mVSID, device, mMode, "ok")
            /\ mDeviceList' = mDeviceList \cup {mVSID} /\ open' = open \cup {mVSID}
            /\ callState' = [callState EXCEPT ![mVSID] = "ACTIVE"]
        BY <2>2, <2>3 DEF StartCall, Opening, Opened
      <3>2. Core' BY <1>2, <2>1, <3>1, OpeningKeeps DEF IInv
      <3>3. CallsListed' BY <2>1, <3>1 DEF IInv, Rest, CallsListed
      <3> QED BY <1>1, <1>2, <2>1, <3>1, <3>2, <3>3 DEF IInv, Rest
    <2>4. CASE how # "ok"
      <3> DEFINE u == DisableDevice(Enable(Route(ucm, device, mMode), mVSID, FreeRole(ucm)),
                                    mVSID, FreeRole(ucm))
      <3>1. u \in UcmType /\ Names(u, role, open)
        BY <1>2, <2>1, TriedKeeps DEF IInv
      <3>2. ucm' = Route(u, device, PlainMode) /\ UNCHANGED <<mDeviceList, role, open, callState>>
        BY <2>2, <2>4 DEF StartCall, listVars
      <3> HIDE DEF u
      <3>3. ucm' \in UcmType /\ Names(ucm', role, open)
        BY <1>2, <3>1, <3>2, RouteNames DEF IInv, Core
      <3>4. Core' BY <3>2, <3>3 DEF IInv, Core, EnabledIsOpen, Names
      <3> QED BY <1>1, <2>1, <3>2, <3>4 DEF IInv, Rest, CallsListed
    <2> QED BY <2>3, <2>4
  <1>4. CASE EndsCall /\ EndCall(device)
    <2>1. mVSID \in Calls /\ mVSID \in Kinds /\ mVSID \in mDeviceList \cap open
      BY <1>2, <1>4 DEF EndsCall, IInv, Rest, CallsListed
    <2>2. /\ open' = open \ {mVSID} /\ mDeviceList' = mDeviceList \ {mVSID}
          /\ role' = [role EXCEPT ![mVSID] = "verb"]
          /\ callState' = [callState EXCEPT ![mVSID] = "INACTIVE"]
          /\ ucm' = Route(DisableDevice(ucm, mVSID, role[mVSID]), device, mMode)
      BY <1>4, <2>1 DEF EndCall, Closed
    <2>3. Names(ucm, role, open) BY DEF IInv, Core, EnabledIsOpen, Names
    <2> DEFINE u == DisableDevice(ucm, mVSID, role[mVSID])
    <2>4. u \in UcmType /\ Names(u, role', open')
      BY <2>1, <2>2, <2>3, DisableNames DEF IInv, Core
    <2> HIDE DEF u
    <2>5. role' \in Roles BY <2>2 DEF IInv, Core, Roles
    <2>6. ucm' \in UcmType /\ Names(ucm', role', open')
      BY <1>2, <2>2, <2>4, <2>5, RouteNames DEF u
    <2>7. Core' BY <2>2, <2>5, <2>6 DEF IInv, Core, EnabledIsOpen, Names
    <2>8. CallsListed' BY <2>1, <2>2 DEF IInv, Rest, CallsListed
    <2> QED BY <1>1, <1>2, <2>1, <2>2, <2>7, <2>8 DEF IInv, Rest
  <1>5. CASE /\ MovesCall /\ callState' = [callState EXCEPT ![mVSID] = mCallState]
             /\ UNCHANGED <<ucm, listVars>>
    <2>1. Core' BY <1>5 DEF IInv, Core, EnabledIsOpen, listVars
    <2>2. CallsListed' BY <1>2, <1>5 DEF IInv, Rest, CallsListed, MovesCall, listVars
    <2> QED BY <1>1, <1>5, <2>1, <2>2 DEF IInv, Rest, MovesCall, listVars
  <1>6. CASE /\ ~StartsCall /\ ~EndsCall /\ ~MovesCall
             /\ ucm' = Route(ucm, device, PlainMode) /\ UNCHANGED <<listVars, callState>>
    <2>0. ucm \in UcmType /\ role \in Roles /\ Names(ucm, role, open)
      BY DEF IInv, Core, EnabledIsOpen, Names
    <2>1. ucm' \in UcmType /\ Names(ucm', role, open) BY <1>2, <1>6, <2>0, RouteNames
    <2>2. Core' BY <1>6, <2>1 DEF IInv, Core, EnabledIsOpen, Names, listVars
    <2> QED BY <1>1, <1>6, <2>2 DEF IInv, Rest, CallsListed, EndsCall, listVars
  <1> QED BY <1>3, <1>4, <1>5, <1>6 DEF DoRouting

\* Whoever calls doRouting, the invariant is kept.
LEMMA RoutedKeeps ==
  ASSUME IInv, NEW device \in Outputs \cup Inputs, DoRouting(device),
         control' \in {"idle", control}, mDevices' \in [Captures -> Inputs],
         UNCHANGED <<ssr, mMode, mCallState, mVSID, asked, live, voipCount, mIsFmActive>>
  PROVE  IInv'
  <1>1. /\ Core' /\ mDeviceList' \in SUBSET Kinds /\ open' \subseteq mDeviceList'
        /\ open' \ Calls = open \ Calls /\ mDeviceList' \ Calls = mDeviceList \ Calls
        /\ callState' \in [Calls -> CallStates]
        /\ mCurDevice' \in Outputs \cup Inputs /\ mCurRxDevice' \in Outputs
        /\ CallsListed'
        /\ mVSID # "none" /\ mCallState = "INACTIVE" => callState'[mVSID] = "INACTIVE"
    BY RoutingKeeps
  <1>2. Calls \cap (Outs \cup Sessions \cup Captures \cup {"voip", "fm"}) = {}
    BY KindsAssumption
  <1>3. EndedCallIsDown' BY <1>1 DEF EndedCallIsDown
  <1>4. /\ ("fm" \in open') <=> ("fm" \in open)
        /\ ("voip" \in open') <=> ("voip" \in open)
        /\ ("voip" \in mDeviceList') <=> ("voip" \in mDeviceList)
        /\ live \cap (Outs \cup Sessions \cup Captures) \subseteq mDeviceList'
    BY <1>1, <1>2 DEF IInv, Rest
  <1>5. VoipShared' BY <1>4 DEF IInv, Rest, VoipShared
  <1> QED BY <1>1, <1>3, <1>4, <1>5 DEF IInv, Rest

\* setMode, the telephony message and the DSP's restart touch no use case: a
\* call that is to end is still to be routed when its state is stored.
LEMMA ControlKeeps ==
  ASSUME IInv,
         \/ \E mode \in Modes : SetMode(mode)
         \/ \E v \in Calls, state \in CallStates : Telephone(v, state)
         \/ SetCallState
         \/ \E complete \in BOOLEAN : SetSSR(complete)
  PROVE  IInv'
  <1>1. UNCHANGED <<ucm, listVars, callState, deviceVars, streamVars, voipCount, mIsFmActive>>
    BY DEF SetMode, Telephone, SetCallState, SetSSR, callVars
  <1>2. Core' /\ CallsListed' /\ VoipShared'
    BY <1>1 DEF IInv, Rest, Core, EnabledIsOpen, CallsListed, VoipShared, listVars, streamVars
  <1>3. /\ mMode' \in Modes /\ mCallState' \in CallStates /\ mVSID' \in Calls \cup {"none"}
        /\ control' \in {"idle", "state", "route"} /\ asked' \in CallStates /\ ssr' \in BOOLEAN
    BY NamesAssumption, CallStatesAssumption
    DEF IInv, Rest, SetMode, Telephone, SetCallState, SetSSR, callVars
  <1>4. EndedCallIsDown'
    <2>1. CASE \E mode \in Modes : SetMode(mode)
      BY <2>1, CallStatesAssumption DEF IInv, Rest, SetMode, EndedCallIsDown
    <2>2. CASE \E v \in Calls, state \in CallStates : Telephone(v, state)
      BY <2>2 DEF Telephone, EndedCallIsDown
    <2>3. CASE SetCallState
      <3>1. mVSID # "none" => mVSID \in Calls BY DEF IInv, Rest
      <3> QED BY <2>3, <3>1 DEF SetCallState, EndedCallIsDown, AnyCall
    <2>4. CASE \E complete \in BOOLEAN : SetSSR(complete)
      BY <2>4 DEF IInv, Rest, SetSSR, EndedCallIsDown, callVars
    <2> QED BY <2>1, <2>2, <2>3, <2>4
  <1> QED BY <1>1, <1>2, <1>3, <1>4
          DEF IInv, Rest, listVars, deviceVars, streamVars

\* handleFm, on.
LEMMA FmOnKeeps ==
  ASSUME IInv, NEW device \in Outputs, NEW how \in How("fm"), FmOn(device, how)
  PROVE  IInv'
  <1>1. "fm" \in Kinds \ open /\ "fm" \notin Calls /\ mMode \in AllModes
        /\ "fm" \notin Outs \cup Sessions \cup Captures
    BY KindsAssumption, ModesKnown DEF IInv, Rest, FmOn, Kinds
  <1>2. how \in {"ok", "bad", "params"} BY DEF How
  <1>3. Core' /\ open' = IF how = "params" THEN open ELSE open \cup {"fm"}
    BY <1>1, <1>2, OpeningKeeps DEF IInv, FmOn
  <1>4. CallsListed' BY <1>1, <1>3 DEF IInv, Rest, FmOn, CallsListed, callVars
  <1>5. EndedCallIsDown' BY DEF IInv, Rest, FmOn, EndedCallIsDown, callVars
  <1>6. VoipShared' BY <1>3 DEF IInv, Rest, FmOn, VoipShared, streamVars
  <1>7. mIsFmActive' = TRUE BY DEF FmOn
  <1>8. /\ mDeviceList' = mDeviceList \cup {"fm"} /\ open' \subseteq mDeviceList'
        /\ UNCHANGED <<ssr, callVars, deviceVars, streamVars, voipCount>>
    BY <1>3 DEF FmOn, IInv, Rest
  <1>9. "voip" \in mDeviceList' => "voip" \in open' BY <1>3, <1>8 DEF IInv, Rest
  <1> QED BY <1>1, <1>3, <1>4, <1>5, <1>6, <1>7, <1>8, <1>9
          DEF IInv, Rest, callVars, deviceVars, streamVars

\* The first stream of a VoIP call opens the shared handle, the second finds it.
LEMMA OpenVoipKeeps ==
  ASSUME IInv, NEW s \in Directions, NEW how \in {"ok", "bad", "refused"}, OpenVoip(s, how)
  PROVE  IInv'
  <1> DEFINE first == "voip" \notin mDeviceList
             r == IF first THEN FreeRole(ucm) ELSE role["voip"]
             up == IF first
                     THEN Enable(Route(ucm, mCurDevice, "IN_COMMUNICATION"), "voip", r)
                     ELSE ucm
             gone == how = "refused" /\ \A t \in Directions : voipCount[t] = 0
  <1>1. /\ "voip" \in Kinds /\ "voip" \notin Calls \cup Outs \cup Sessions \cup Captures
        /\ "IN_COMMUNICATION" \in AllModes /\ (first <=> "voip" \notin open)
        /\ mCurDevice \in Outputs \cup Inputs
        /\ Directions \cap (Outs \cup Sessions \cup Captures) = {}
    BY KindsAssumption DEF IInv, Rest, Kinds, AllModes
  <1>2. /\ ucm' = IF gone /\ (first \/ "voip" \in open) THEN DisableDevice(up, "voip", r) ELSE up
        /\ role' = [role EXCEPT !["voip"] = IF gone THEN "verb" ELSE r]
        /\ open' = IF gone THEN open \ {"voip"}
                   ELSE IF first THEN open \cup {"voip"} ELSE open
        /\ mDeviceList' = IF gone THEN mDeviceList \ {"voip"} ELSE mDeviceList \cup {"voip"}
    BY DEF OpenVoip
  <1>3. Core'
    <2>1. CASE first /\ ~gone
      <3>1. Opening("voip", mCurDevice, "IN_COMMUNICATION", "ok")
        BY <1>2, <2>1 DEF Opening, Opened
      <3> QED BY <1>1, <2>1, <3>1, OpeningKeeps DEF IInv
    <2>2. CASE first /\ gone
      <3> DEFINE u == DisableDevice(Enable(Route(ucm, mCurDevice, "IN_COMMUNICATION"),
                                           "voip", FreeRole(ucm)), "voip", FreeRole(ucm))
      <3>1. u \in UcmType /\ Names(u, role, open) BY <1>1, <2>2, TriedKeeps DEF IInv
      <3>2. ucm' = u /\ open' = open /\ role' = [role EXCEPT !["voip"] = "verb"]
        BY <1>1, <1>2, <2>2
      <3>3. role' \in Roles /\ \A k \in open : role'[k] = role[k]
        BY <1>1, <2>2, <3>2 DEF IInv, Core, Roles
      <3> HIDE DEF u
      <3> QED BY <3>1, <3>2, <3>3 DEF IInv, Core, EnabledIsOpen, Names
    <2>3. CASE ~first /\ gone
      <3>1. Closing("voip") BY <1>1, <1>2, <2>3 DEF Closing, Closed
      <3> QED BY <1>1, <3>1, ClosingKeeps DEF IInv
    <2>4. CASE ~first /\ ~gone
      <3>1. ucm' = ucm /\ open' = open /\ role' = role
        BY <1>1, <1>2, <2>4 DEF IInv, Core, Roles
      <3> QED BY <3>1 DEF IInv, Core, EnabledIsOpen
    <2> QED BY <2>1, <2>2, <2>3, <2>4
  <1>4. /\ open' \subseteq mDeviceList' /\ mDeviceList' \in SUBSET Kinds
        /\ open' \ {"voip"} = open \ {"voip"}
        /\ mDeviceList' \ {"voip"} = mDeviceList \ {"voip"}
        /\ "voip" \in mDeviceList' => "voip" \in open'
        /\ ~gone => "voip" \in mDeviceList'
    BY <1>1, <1>2 DEF IInv, Rest
  <1> HIDE DEF first, r, up
  <1>5. /\ live' = IF how = "ok" THEN live \cup {s} ELSE live
        /\ voipCount' = [voipCount EXCEPT ![s] = IF how = "ok" THEN 1 ELSE 0]
        /\ UNCHANGED <<ssr, callVars, deviceVars, mDevices, mIsFmActive>>
        /\ s \notin live /\ voipCount[s] = 0
    BY DEF OpenVoip
  <1>6. VoipShared'
    <2>1. \A t \in Directions : t \in live' <=> voipCount'[t] = 1
      BY <1>5 DEF IInv, Rest, VoipShared
    <2>2. gone => live' \cap Directions = {} BY <1>5 DEF IInv, Rest, VoipShared
    <2> QED BY <1>4, <2>1, <2>2 DEF VoipShared
  <1>7. CallsListed' BY <1>1, <1>4, <1>5 DEF IInv, Rest, CallsListed, callVars
  <1>8. EndedCallIsDown' BY <1>5 DEF IInv, Rest, EndedCallIsDown, callVars
  <1>9. /\ live' \in SUBSET (Outs \cup Sessions \cup Captures \cup Directions)
        /\ live' \cap (Outs \cup Sessions \cup Captures) \subseteq mDeviceList'
        /\ voipCount' \in [Directions -> 0..1]
    BY <1>1, <1>4, <1>5 DEF IInv, Rest
  <1> HIDE DEF gone
  <1> QED BY <1>1, <1>3, <1>4, <1>5, <1>6, <1>7, <1>8, <1>9
          DEF IInv, Rest, callVars, deviceVars

\* The streams of a VoIP call may be closed in any order.
LEMMA CloseVoipKeeps ==
  ASSUME IInv, NEW s \in Directions, CloseVoip(s)
  PROVE  IInv'
  <1> DEFINE left == [voipCount EXCEPT ![s] = 0]
  <1>1. /\ s \in live /\ live' = live \ {s} /\ voipCount[s] = 1
        /\ UNCHANGED <<ssr, callVars, deviceVars, mDevices, mIsFmActive>>
    BY DEF CloseVoip, IInv, Rest, VoipShared
  <1>2. /\ "voip" \in Kinds /\ "voip" \notin Calls \cup Outs \cup Sessions \cup Captures
        /\ Directions \cap (Outs \cup Sessions \cup Captures) = {}
        /\ "in" \in Directions /\ "out" \in Directions
    BY KindsAssumption DEF Kinds, Directions
  <1>3. CASE OneLeft(left)
    <2>1. voipCount' = left /\ UNCHANGED <<ucm, listVars>> BY <1>3 DEF CloseVoip
    <2>2. VoipShared' BY <1>1, <2>1 DEF IInv, Rest, VoipShared, listVars
    <2>3. voipCount' \in [Directions -> 0..1] BY <2>1 DEF IInv, Rest
    <2> HIDE DEF left
    <2> QED BY <1>1, <2>1, <2>2, <2>3
            DEF IInv, Core, EnabledIsOpen, Rest, CallsListed, EndedCallIsDown, listVars,
                callVars, deviceVars
  <1>4. CASE ~OneLeft(left)
    <2>1. /\ voipCount' = [t \in Directions |-> 0]
          /\ Closing("voip") /\ mDeviceList' = mDeviceList \ {"voip"}
      BY <1>4 DEF CloseVoip
    <2>2. Core' /\ open' = open \ {"voip"} BY <1>2, <2>1, ClosingKeeps DEF IInv
    <2>3. \A t \in Directions : left[t] = 0
      BY <1>1, <1>2, <1>4 DEF OneLeft, Directions, IInv, Rest
    <2>4. live' \cap Directions = {} BY <1>1, <2>3 DEF IInv, Rest, VoipShared
    <2>5. VoipShared' BY <2>1, <2>4 DEF VoipShared
    <2>6. CallsListed' BY <1>1, <1>2, <2>1, <2>2 DEF IInv, Rest, CallsListed, callVars
    <2>7. EndedCallIsDown' BY <1>1 DEF IInv, Rest, EndedCallIsDown, callVars
    <2>8. voipCount' \in [Directions -> 0..1] BY <2>1
    <2> QED BY <1>1, <1>2, <2>1, <2>2, <2>5, <2>6, <2>7, <2>8
            DEF IInv, Rest, callVars, deviceVars
  <1> QED BY <1>3, <1>4

----------------------------------------------------------------------------
\* The system starts with nothing open.
LEMMA InitIInv == ASSUME Init PROVE IInv
  <1>1. /\ "primary" \in Kinds /\ "primary" \in Outs /\ "voip" # "primary" /\ "primary" \notin Calls
        /\ "mic" \in Inputs /\ "speaker" \in Outputs /\ "Inactive" \notin Kinds
        /\ "INACTIVE" \in CallStates /\ "NORMAL" \in Modes
        /\ "in" # "primary" /\ "out" # "primary"
    BY NamesAssumption, KindsAssumption, DevicesAssumption, CallStatesAssumption,
       ModesAssumption DEF Kinds, Directions
  <1>2. ucm \in UcmType
    <2>1. <<"speaker", FALSE>> \in OutNames /\ <<"mic", FALSE>> \in InNames
      BY <1>1 DEF OutNames, InNames
    <2> QED BY <1>1, <2>1 DEF Init, UcmType, NoPath
  <1>3. Core BY <1>1, <1>2 DEF Init, Core, EnabledIsOpen, Roles
  <1>4. CallsListed /\ EndedCallIsDown /\ VoipShared
    BY <1>1 DEF Init, CallsListed, EndedCallIsDown, VoipShared, Directions
  <1>5. /\ mDeviceList \in SUBSET Kinds /\ ssr \in BOOLEAN /\ mMode \in Modes
        /\ mCallState \in CallStates /\ mVSID \in Calls \cup {"none"}
        /\ callState \in [Calls -> CallStates]
        /\ control \in {"idle", "state", "route"} /\ asked \in CallStates
    BY <1>1 DEF Init
  <1>6. /\ mCurDevice \in Outputs \cup Inputs /\ mCurRxDevice \in Outputs
        /\ live \in SUBSET (Outs \cup Sessions \cup Captures \cup Directions)
        /\ mDevices \in [Captures -> Inputs]
        /\ voipCount \in [Directions -> 0..1] /\ mIsFmActive \in BOOLEAN
    <2>1. voipCount = [s \in Directions |-> 0] /\ 0 \in 0..1 BY DEF Init
    <2>2. voipCount \in [Directions -> 0..1] BY <2>1
    <2>3. mDevices \in [Captures -> Inputs] BY <1>1 DEF Init
    <2> QED BY <1>1, <2>2, <2>3 DEF Init
  <1>7. /\ open \subseteq mDeviceList /\ ("fm" \in open => mIsFmActive)
        /\ live \cap (Outs \cup Sessions \cup Captures) \subseteq mDeviceList
        /\ "voip" \in mDeviceList => "voip" \in open
    BY <1>1 DEF Init
  <1> QED BY <1>3, <1>4, <1>5, <1>6, <1>7 DEF IInv, Rest

\* Every action keeps the invariant.
LEMMA NextIInv == ASSUME IInv, [Next]_vars PROVE IInv'
  <1>0. \A c : How(c) \subseteq {"ok", "bad", "params"} BY DEF How
  <1>1. CASE Playback
    <2>1. ASSUME NEW k \in Outs \cup Sessions, NEW d \in Outputs,
                 NEW how \in {"ok", "bad", "params"}, OpenOut(k, d, how)
          PROVE  IInv'
      BY <2>1, OpenOutKeeps
    <2>2. ASSUME NEW k \in Outs \cup Sessions, NEW how \in How("write"), Write(k, how)
          PROVE  IInv'
      <3>1. k \in Outs /\ k \in live \ open /\ mCurRxDevice \in Outputs \cup Inputs
        BY <2>2 DEF Write, IInv, Rest
      <3> QED BY <1>0, <2>2, <3>1, WriteKeeps DEF Write
    <2>3. ASSUME NEW k \in Outs \cup Sessions, NEW how \in How("write"), Recover(k, how)
          PROVE  IInv'
      <3>1. k \in Outs BY <2>3 DEF Recover
      <3> QED BY <1>0, <2>3, <3>1, RecoverKeeps
    <2>4. ASSUME NEW k \in Outs \cup Sessions, StandbyOut(k) PROVE IInv'
      <3>1. k # "fm" BY KindsAssumption
      <3> QED BY <2>4, <3>1, ClosedKeeps DEF StandbyOut, streamVars
    <2>5. ASSUME NEW k \in Outs \cup Sessions, CloseOut(k) PROVE IInv'
      BY <2>5, ClosedKeeps DEF CloseOut
    <2>6. ASSUME NEW d \in Outputs, RouteOut(d) PROVE IInv'
      BY <2>6, RoutedKeeps DEF RouteOut, streamVars, IInv, Rest
    <2> QED BY <1>1, <2>1, <2>2, <2>3, <2>4, <2>5, <2>6 DEF Playback
  <1>2. CASE Capture
    <2>1. ASSUME NEW k \in Captures, NEW d \in Inputs, OpenIn(k, d) PROVE IInv'
      <3>1. k \in Kinds /\ k \notin Calls \cup Directions \cup {"voip", "fm"}
        BY KindsAssumption DEF Kinds
      <3>2. Core' BY <2>1 DEF OpenIn, IInv, Core, EnabledIsOpen
      <3>3. CallsListed' /\ EndedCallIsDown' /\ VoipShared'
        BY <2>1, <3>1 DEF OpenIn, IInv, Rest, CallsListed, EndedCallIsDown, VoipShared, callVars
      <3> QED BY <2>1, <3>1, <3>2, <3>3 DEF OpenIn, IInv, Rest, callVars, deviceVars
    <2>2. ASSUME NEW k \in Captures, NEW d \in Inputs, RouteIn(k, d) PROVE IInv'
      <3>1. mDevices' \in [Captures -> Inputs] BY <2>2 DEF RouteIn, IInv, Rest
      <3>2. CASE d = "voiceCall"
        BY <2>2, <3>1, <3>2
        DEF RouteIn, IInv, Rest, Core, EnabledIsOpen, CallsListed, EndedCallIsDown,
            VoipShared, listVars, deviceVars
      <3>3. CASE d # "voiceCall"
        BY <2>2, <3>1, <3>3, RoutedKeeps DEF RouteIn
      <3> QED BY <3>2, <3>3
    <2>3. ASSUME NEW k \in Captures, NEW how \in How("read"), Read(k, how) PROVE IInv'
      <3>1. k \in live \ open /\ mDevices[k] \in Outputs \cup Inputs
        BY <2>3 DEF Read, IInv, Rest
      <3> QED BY <1>0, <2>3, <3>1, WriteKeeps DEF Read
    <2>4. ASSUME NEW k \in Captures, StandbyIn(k) PROVE IInv'
      <3>1. k # "fm" BY KindsAssumption
      <3> QED BY <2>4, <3>1, ClosedKeeps DEF StandbyIn, streamVars
    <2>5. ASSUME NEW k \in Captures, CloseIn(k) PROVE IInv'
      BY <2>5, ClosedKeeps DEF CloseIn
    <2> QED BY <1>2, <2>1, <2>2, <2>3, <2>4, <2>5 DEF Capture
  <1>3. CASE Control
    <2>1. CASE ControlRoute
      <3>1. mCurDevice \in Outputs \cup Inputs BY DEF IInv, Rest
      <3> QED BY <2>1, <3>1, RoutedKeeps DEF ControlRoute, streamVars, IInv, Rest
    <2> QED BY <1>3, <2>1, ControlKeeps DEF Control
  <1>4. CASE Fm
    <2>1. ASSUME NEW d \in Outputs, NEW how \in How("fm"), FmOn(d, how) PROVE IInv'
      BY <2>1, FmOnKeeps
    <2>2. CASE FmOff
      <3>1. "fm" \notin live BY KindsAssumption DEF IInv, Rest, Kinds
      <3> QED BY <2>2, <3>1, ClosedKeeps DEF FmOff, streamVars
    <2> QED BY <1>4, <2>1, <2>2 DEF Fm
  <1>5. CASE Voip
    BY <1>5, OpenVoipKeeps, CloseVoipKeeps DEF Voip
  <1>6. CASE UNCHANGED vars
    BY <1>6 DEF IInv, Rest, Core, EnabledIsOpen, CallsListed, EndedCallIsDown, VoipShared,
                vars, listVars, callVars, deviceVars, streamVars
  <1> QED BY <1>1, <1>2, <1>3, <1>4, <1>5, <1>6 DEF Next

\* The inductive invariant holds in every state.
THEOREM UseCasesInvariant == Spec => []IInv
  <1>1. Init => IInv BY InitIInv
  <1>2. IInv /\ [Next]_vars => IInv' BY NextIInv
  <1> QED BY <1>1, <1>2, PTL DEF Spec

\* Every variable keeps its type, for any streams, sessions, calls and failures.
THEOREM UseCasesTypes == Spec => []TypeOK
  <1>1. IInv => TypeOK BY DEF IInv, Core, Roles, Rest, TypeOK
  <1> QED BY <1>1, UseCasesInvariant, PTL

\* A call has a state exactly while its handle is listed and open (routeCall,
\* enableVoiceCall, disableVoiceCall).
THEOREM CallsAreListed == Spec => []CallsListed
  <1>1. IInv => CallsListed BY DEF IInv, Rest
  <1> QED BY <1>1, UseCasesInvariant, PTL

\* The use case manager has enabled what has an open handle, under the name
\* that the handle carries: whatever is enabled will be disabled.
THEOREM EnabledMatchesOpen == Spec => []EnabledIsOpen
  <1>1. IInv => EnabledIsOpen BY DEF IInv, Core
  <1> QED BY <1>1, UseCasesInvariant, PTL

\* A call that telephony has ended is down when the message has been handled,
\* whichever streams have routed while its VSID and its state were stored.
THEOREM EndedCallsAreDown == Spec => []EndedCallIsDown
  <1>1. IInv => EndedCallIsDown BY DEF IInv, Rest
  <1> QED BY <1>1, UseCasesInvariant, PTL

\* The two streams of a VoIP call share an open handle until the last is gone.
THEOREM VoipIsShared == Spec => []VoipShared
  <1>1. IInv => VoipShared BY DEF IInv, Rest
  <1> QED BY <1>1, UseCasesInvariant, PTL
=============================================================================
