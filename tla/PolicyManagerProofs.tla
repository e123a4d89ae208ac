------------------------- MODULE PolicyManagerProofs -------------------------
(* Theorems about PolicyManager, for any tracks, devices, uses and inputs.   *)
EXTENDS PolicyMixProofs, SequenceTheorems

\* cond keeps its fields, and the flag is a Boolean.
Fields == {"available", "inputs", "phone", "force", "sco", "suspended", "outputs", "refs"}
Shaped(q) == Fields \subseteq DOMAIN q /\ q.suspended \in BOOLEAN

\* What the selection of a device and the suspension of A2DP depend on.
SameConditions(q, r) ==
  /\ r.available = q.available /\ r.phone = q.phone /\ r.force = q.force
  /\ r.sco = q.sco /\ r.suspended = q.suspended

IInv == Shaped(cond) /\ CacheFresh /\ SuspendedForSco

-----------------------------------------------------------------------------
(* The operators on the conditions.                                          *)

LEMMA SuspendChecked ==
  ASSUME NEW q, Shaped(q), NEW r, r = checkA2dpSuspend(q)
  PROVE  Shaped(r) /\ (r.suspended <=> ScoBusy(r))
<1>1. /\ DOMAIN r = DOMAIN q /\ r.sco = q.sco /\ r.force = q.force /\ r.phone = q.phone
  BY DEF checkA2dpSuspend, Shaped, Fields
<1>2. r.suspended = (IF q.suspended
        THEN ~(\/ ~q.sco \/ "BT_SCO" \notin {q.force["COMMUNICATION"], q.force["RECORD"]}
               \/ q.phone \notin {"IN_CALL", "RINGTONE"})
        ELSE ScoBusy(q))
  BY DEF checkA2dpSuspend, Shaped, Fields
<1>3. ScoBusy(q) \in BOOLEAN BY DEF ScoBusy
<1>4. r.suspended \in BOOLEAN BY <1>2, <1>3
<1>5. r.suspended <=> ScoBusy(q) BY <1>2 DEF ScoBusy, Shaped
<1>6. ScoBusy(r) <=> ScoBusy(q) BY <1>1 DEF ScoBusy
<1> QED BY <1>1, <1>4, <1>5, <1>6 DEF Shaped

\* Use counts and outputs do not select a device.
LEMMA SameDevices ==
  ASSUME NEW q, NEW r, SameConditions(q, r)
  PROVE  (\A t \in Strategies : Device(r, t) = Device(q, t)) /\ (ScoBusy(r) <=> ScoBusy(q))
<1> USE DEF SameConditions
<1>1. \A ds : First(r, ds) = First(q, ds) BY DEF First
<1>2. isInCall(r) = isInCall(q) /\ A2dpUsable(r) = A2dpUsable(q) BY DEF isInCall, A2dpUsable
<1>3. \A d : FmOnSpeaker(r, d) = FmOnSpeaker(q, d) BY DEF FmOnSpeaker
<1>4. ASSUME NEW x \in BOOLEAN PROVE PhoneDevice(r, x) = PhoneDevice(q, x)
  BY <1>1, <1>2, <1>3 DEF PhoneDevice
<1>5. ASSUME NEW t PROVE MediaDevice(r, t) = MediaDevice(q, t)
  <2>1. SecondDevice(r, t) = SecondDevice(q, t) BY <1>1, <1>2 DEF SecondDevice
  <2> QED BY <1>2, <1>4, <2>1 DEF MediaDevice
<1>6. ASSUME NEW t \in Strategies PROVE Device(r, t) = Device(q, t)
  <2>1. /\ PhoneDevice(r, TRUE) = PhoneDevice(q, TRUE) /\ PhoneDevice(r, FALSE) = PhoneDevice(q, FALSE)
        /\ MediaDevice(r, "MEDIA") = MediaDevice(q, "MEDIA") /\ MediaDevice(r, t) = MediaDevice(q, t)
    BY <1>4, <1>5
  <2>2. CASE t = "DTMF" BY <1>2, <2>1, <2>2, Zenon DEF Device
  <2>3. CASE t # "DTMF" BY <2>1, <2>3, Zenon DEF Device
  <2> QED BY <2>2, <2>3
<1>7. ScoBusy(r) <=> ScoBusy(q) BY DEF ScoBusy
<1> QED BY <1>6, <1>7

LEMMA CountsOnly ==
  ASSUME NEW q, Shaped(q)
  PROVE  /\ \A n : Shaped([q EXCEPT !.refs = n]) /\ SameConditions(q, [q EXCEPT !.refs = n])
         /\ \A s : Shaped([q EXCEPT !.outputs = s]) /\ SameConditions(q, [q EXCEPT !.outputs = s])
         /\ \A gone : Shaped(Closed(q, gone)) /\ SameConditions(q, Closed(q, gone))
         /\ \A d, delta : Shaped(FmCounted(q, d, delta)) /\ SameConditions(q, FmCounted(q, d, delta))
<1>1. \A n : Shaped([q EXCEPT !.refs = n]) /\ SameConditions(q, [q EXCEPT !.refs = n])
  BY DEF Shaped, Fields, SameConditions
<1>2. \A s : Shaped([q EXCEPT !.outputs = s]) /\ SameConditions(q, [q EXCEPT !.outputs = s])
  BY DEF Shaped, Fields, SameConditions
<1>3. ASSUME NEW gone PROVE Shaped(Closed(q, gone)) /\ SameConditions(q, Closed(q, gone))
  BY DEF Closed, Shaped, Fields, SameConditions
<1>4. ASSUME NEW d, NEW delta
      PROVE  Shaped(FmCounted(q, d, delta)) /\ SameConditions(q, FmCounted(q, d, delta))
  <2>1. CASE d = "FM" BY <1>1, <2>1 DEF FmCounted
  <2>2. CASE d # "FM" BY <2>2 DEF FmCounted, SameConditions
  <2> QED BY <2>1, <2>2
<1> QED BY <1>1, <1>2, <1>3, <1>4

\* What a call makes of the conditions and of the cache.
Settled(q, table) ==
  /\ Shaped(q) /\ (q.suspended <=> ScoBusy(q))
  /\ \A t \in Strategies : table[t] = Device(q, t)

LEMMA SettledSame ==
  ASSUME NEW q, NEW r, NEW table, Settled(q, table), Shaped(r), SameConditions(q, r)
  PROVE  Settled(r, table)
BY SameDevices DEF Settled, SameConditions

LEMMA SettledFresh ==
  ASSUME NEW q, Shaped(q)
  PROVE  Settled(checkA2dpSuspend(q), Fresh(checkA2dpSuspend(q)))
BY SuspendChecked DEF Settled, Fresh

-----------------------------------------------------------------------------
(* The calls.                                                                *)

LEMMA Invariants ==
  /\ IInv <=> Settled(cond, mDeviceForStrategy)
  /\ IInv' <=> Settled(cond', mDeviceForStrategy')
BY DEF IInv, Settled, CacheFresh, SuspendedForSco

LEMMA AttachedSettled ==
  ASSUME IInv, NEW d, NEW ins, NEW x, x = Attached(d, ins)
  PROVE  Settled(x.cond, x.table)
<1> DEFINE new == IF d = "REMOTE_SUBMIX" THEN <<"submix", "dup">> ELSE <<>>
           p == [cond EXCEPT !.available = @ \cup {d}, !.inputs = ins, !.sco = @ \/ d \in Sco,
                             !.suspended = @ /\ d \notin A2dp, !.outputs = @ \o new]
           q == checkA2dpSuspend(p)
           r == FmCounted(q, d, 1)
<1>1. x.cond = r /\ x.table = Fresh(q) BY DEF Attached
<1>2. Shaped(p) BY DEF IInv, Shaped, Fields
<1> HIDE DEF p
<1>3. Settled(q, Fresh(q)) BY <1>2, SettledFresh
<1> HIDE DEF q
<1>4. Shaped(r) /\ SameConditions(q, r) BY <1>3, CountsOnly DEF Settled
<1> QED BY <1>1, <1>3, <1>4, SettledSame

LEMMA DetachedSettled ==
  ASSUME IInv, NEW d, NEW ins, NEW x, x = Detached(d, ins)
  PROVE  Settled(x.cond, x.table)
<1> DEFINE p == [cond EXCEPT !.available = @ \ {d}, !.inputs = ins, !.sco = @ /\ d \notin Sco,
                             !.suspended = @ /\ d \notin A2dp]
           q == checkA2dpSuspend(p)
           gone == WithDup({o \in Range(q.outputs) \ {"dup"} : Supported(o) \cap q.available = {}})
           r == Closed(q, gone)
           s == FmCounted(r, d, 0 - 1)
<1>1. x.cond = s /\ x.table = Fresh(r) BY DEF Detached
<1>2. Shaped(p) BY DEF IInv, Shaped, Fields
<1> HIDE DEF p
<1>3. Settled(q, Fresh(q)) BY <1>2, SettledFresh
<1> HIDE DEF q, gone
<1>4. Shaped(r) /\ SameConditions(q, r) BY <1>3, CountsOnly DEF Settled
<1>5. Settled(r, Fresh(r)) BY <1>3, <1>4, SettledSame DEF Settled, Fresh
<1> HIDE DEF r
<1>6. Shaped(s) /\ SameConditions(r, s) BY <1>4, CountsOnly
<1> QED BY <1>1, <1>5, <1>6, SettledSame

LEMMA ConditionsKeep ==
  ASSUME IInv, Conditions
  PROVE  IInv'
<1>1. ASSUME NEW d \in Plugs, Connect(d) PROVE IInv'
  <2>1. Apply(Attached(d, cond.inputs \cup InDeviceOf(d))) BY <1>1 DEF Connect
  <2> QED BY <2>1, AttachedSettled, Invariants DEF Apply
<1>2. ASSUME NEW d \in Plugs, Disconnect(d) PROVE IInv'
  <2>1. Apply(Detached(d, cond.inputs \ InDeviceOf(d))) BY <1>2 DEF Disconnect
  <2> QED BY <2>1, DetachedSettled, Invariants DEF Apply
<1>3. ASSUME NEW p \in Phones, SetPhoneState(p) PROVE IInv'
  <2>1. /\ cond' = checkA2dpSuspend([cond EXCEPT !.phone = p])
        /\ mDeviceForStrategy' = Fresh(checkA2dpSuspend([cond EXCEPT !.phone = p]))
    BY <1>3 DEF SetPhoneState
  <2>2. Shaped([cond EXCEPT !.phone = p]) BY DEF IInv, Shaped, Fields
  <2> QED BY <2>1, <2>2, SettledFresh, Invariants
<1>4. ASSUME NEW f \in Forces, SetForceUse(f[1], f[2]) PROVE IInv'
  <2> DEFINE p == [cond EXCEPT !.force[f[1]] = f[2]]
  <2>1. cond' = checkA2dpSuspend(p) /\ mDeviceForStrategy' = Fresh(checkA2dpSuspend(p))
    BY <1>4 DEF SetForceUse
  <2>2. Shaped(p) BY DEF IInv, Shaped, Fields
  <2> QED BY <2>1, <2>2, SettledFresh, Invariants
<1>5. ASSUME NEW s \in Streams, NEW device, SetStreamVolumeIndex(s, device) PROVE IInv'
  BY <1>5, Invariants DEF SetStreamVolumeIndex
<1> QED BY <1>1, <1>2, <1>3, <1>4, <1>5 DEF Conditions

LEMMA TracksKeep ==
  ASSUME IInv, Tracks
  PROVE  IInv'
<1>1. Shaped(cond) /\ Settled(cond, mDeviceForStrategy) BY Invariants DEF IInv
<1>2. ASSUME Shaped(cond'), SameConditions(cond, cond'),
             mDeviceForStrategy' \in {mDeviceForStrategy, Fresh(cond')}
      PROVE  IInv'
  <2>1. Settled(cond', mDeviceForStrategy) BY <1>1, <1>2, SettledSame
  <2>2. Settled(cond', Fresh(cond')) BY <2>1 DEF Settled, Fresh
  <2> QED BY <1>2, <2>1, <2>2, Invariants
<1>3. ASSUME NEW c \in Clients, StartOutput(c) \/ StopOutput(c) PROVE IInv'
  <2>1. PICK n : cond' = [cond EXCEPT !.refs = n] BY <1>3 DEF StartOutput, StopOutput
  <2>2. mDeviceForStrategy' \in {mDeviceForStrategy, Fresh(cond')}
    BY <1>3 DEF StartOutput, StopOutput, Refresh
  <2> QED BY <1>1, <1>2, <2>1, <2>2, CountsOnly
<1>4. ASSUME NEW c \in Clients, ReleaseOutput(c) PROVE IInv'
  <2>1. /\ cond' = cond \/ \E o : cond' = Closed(cond, {o})
        /\ UNCHANGED mDeviceForStrategy
    BY <1>4 DEF ReleaseOutput, policyVars
  <2> QED BY <1>1, <1>2, <2>1, CountsOnly, Invariants
<1>5. ASSUME NEW c \in Clients, NEW w \in Wants[c], GetOutput(c, w) PROVE IInv'
  <2>1. /\ \/ cond' = cond
           \/ \E o : \/ cond' = Closed(cond, {o})
                     \/ cond' = [Closed(cond, {o}) EXCEPT !.outputs = Append(@, o)]
        /\ UNCHANGED mDeviceForStrategy
    BY <1>5 DEF GetOutput, policyVars
  <2>2. CASE cond' = cond BY <1>1, <2>1, <2>2, Invariants
  <2>3. CASE \E o : cond' = Closed(cond, {o}) BY <1>1, <1>2, <2>1, <2>3, CountsOnly
  <2>4. ASSUME NEW o, cond' = [Closed(cond, {o}) EXCEPT !.outputs = Append(@, o)] PROVE IInv'
    <3> DEFINE q == Closed(cond, {o})
    <3>1. Shaped(q) /\ SameConditions(cond, q) BY <1>1, CountsOnly
    <3>2. PICK s : cond' = [q EXCEPT !.outputs = s] BY <2>4
    <3> HIDE DEF q
    <3>3. Shaped(cond') /\ SameConditions(q, cond') BY <3>1, <3>2, CountsOnly
    <3> QED BY <1>2, <2>1, <3>1, <3>3 DEF SameConditions
  <2> QED BY <2>1, <2>2, <2>3, <2>4
<1> QED BY <1>3, <1>4, <1>5 DEF Tracks

LEMMA CaptureKeeps ==
  ASSUME IInv, Capture
  PROVE  IInv'
<1>1. ASSUME UNCHANGED policyVars PROVE IInv' BY <1>1, Invariants DEF policyVars
<1>2. ASSUME NEW i \in Records, GetInput(i) \/ ReleaseInput(i) PROVE IInv'
  BY <1>1, <1>2 DEF GetInput, ReleaseInput
<1>3. ASSUME NEW i \in Records, StartInput(i) PROVE IInv'
  <2>1. Apply(Attached("REMOTE_SUBMIX", cond.inputs)) \/ UNCHANGED policyVars BY <1>3 DEF StartInput
  <2> QED BY <1>1, <2>1, AttachedSettled, Invariants DEF Apply
<1>4. ASSUME NEW i \in Records, StopInput(i) PROVE IInv'
  <2>1. \/ /\ cond' = Detached("REMOTE_SUBMIX", cond.inputs).cond
           /\ mDeviceForStrategy' = Detached("REMOTE_SUBMIX", cond.inputs).table
        \/ UNCHANGED <<cond, mDeviceForStrategy>>
    BY <1>4 DEF StopInput
  <2> QED BY <2>1, DetachedSettled, Invariants
<1> QED BY <1>2, <1>3, <1>4 DEF Capture

-----------------------------------------------------------------------------
(* The theorems.                                                             *)

LEMMA InitIInv == Init => IInv
<1> SUFFICES ASSUME Init PROVE IInv OBVIOUS
<1>1. cond = Calm /\ mDeviceForStrategy = Fresh(Calm) BY DEF Init
<1>2. Shaped(Calm) BY DEF Calm, Shaped, Fields
<1>3. Calm.suspended <=> ScoBusy(Calm) BY DEF Calm, ScoBusy
<1>4. Settled(cond, mDeviceForStrategy) BY <1>1, <1>2, <1>3 DEF Settled, Fresh
<1> QED BY <1>4, Invariants

\* The cache and the suspension follow the conditions through every call
\* (setDeviceConnectionState, setPhoneState, setForceUse, startOutput and the rest).
THEOREM Inductive == Spec => []IInv
<1>1. IInv /\ [Next]_vars => IInv'
  <2> SUFFICES ASSUME IInv, [Next]_vars PROVE IInv' OBVIOUS
  <2>1. CASE UNCHANGED vars BY <2>1, Invariants DEF vars, policyVars
  <2> QED BY <2>1, ConditionsKeep, TracksKeep, CaptureKeeps DEF Next
<1> QED BY InitIInv, <1>1, PTL DEF Spec

\* mA2dpSuspended follows the SCO headset, the forced uses and the phone state
\* through every call (checkA2dpSuspend and where it is called).
THEOREM Suspension == Spec => []SuspendedForSco
<1>1. IInv => SuspendedForSco BY DEF IInv
<1> QED BY <1>1, Inductive, PTL

\* mDeviceForStrategy is never stale, though it is recomputed in some calls
\* only and before others change outputs and use counts.
THEOREM CacheNeverStale == Spec => []CacheFresh
<1>1. IInv => CacheFresh BY DEF IInv
<1> QED BY <1>1, Inductive, PTL

-----------------------------------------------------------------------------
(* Sequences of outputs and of inputs.                                       *)

LEMMA Appended ==
  ASSUME NEW X, NEW seq \in Seq(X), NEW x \in X
  PROVE  /\ Append(seq, x) \in Seq(X) /\ Range(Append(seq, x)) = Range(seq) \cup {x}
         /\ IsInjective(seq) /\ x \notin Range(seq) => IsInjective(Append(seq, x))
<1> DEFINE n == Len(seq)
           new == Append(seq, x)
<1>1. n \in Nat /\ DOMAIN seq = 1..n OBVIOUS
<1>2. new \in Seq(X) /\ DOMAIN new = 1..n + 1 /\ new[n + 1] = x
      /\ \A i \in 1..n : new[i] = seq[i]
  OBVIOUS
<1>3. (1..n + 1) = (1..n) \cup {n + 1} BY <1>1
<1> HIDE DEF n, new
<1>4. Range(new) = Range(seq) \cup {x}
  <2>1. Range(new) = {new[i] : i \in 1..n} \cup {new[n + 1]} BY <1>2, <1>3 DEF Range
  <2>2. Range(seq) = {seq[i] : i \in 1..n} BY <1>1 DEF Range
  <2>3. {new[i] : i \in 1..n} = {seq[i] : i \in 1..n} BY <1>2
  <2> QED BY <1>2, <2>1, <2>2, <2>3
<1>5. ASSUME IsInjective(seq), x \notin Range(seq) PROVE IsInjective(new)
  <2> SUFFICES ASSUME NEW i \in (1..n) \cup {n + 1}, NEW j \in (1..n) \cup {n + 1}, new[i] = new[j]
               PROVE  i = j
    BY <1>2, <1>3 DEF IsInjective
  <2>1. \A k \in 1..n : new[k] # x BY <1>1, <1>2, <1>5 DEF Range
  <2> QED BY <1>1, <1>2, <1>5, <2>1 DEF IsInjective
<1> QED BY <1>2, <1>4, <1>5 DEF new

\* An element is dropped from a sequence, and nothing else changes.
LEMMA WithoutRange ==
  ASSUME NEW X, NEW seq \in Seq(X), NEW gone
  PROVE  /\ Without(seq, gone) \in Seq(X) /\ Range(Without(seq, gone)) = Range(seq) \ gone
         /\ IsInjective(seq) => IsInjective(Without(seq, gone))
<1> DEFINE os == seq
           S == Seq(X)
           Op(left, x) == IF x \in gone THEN left ELSE Append(left, x)
           step == [i \in DOMAIN os |-> [x \in S |-> Op(x, os[i])]]
           Def(f) == f = [u \in SUBSET DOMAIN os |->
                            IF u = {} THEN <<>> ELSE Op(f[u \ {Max(u)}], os[Max(u)])]
           fold == CHOOSE f : Def(f)
<1>1. <<>> \in S OBVIOUS
<1>2. ASSUME NEW n \in S, NEW o \in X PROVE Op(n, o) \in S BY Appended
<1>3. /\ DOMAIN os = 1..Len(os) /\ Len(os) \in Nat
      /\ \A i \in DOMAIN os : os[i] \in X
  OBVIOUS
<1> HIDE DEF Op
<1>4. PICK g : Folded(g, DOMAIN os, Latest(DOMAIN os), S, <<>>, step)
  <2>1. \A i \in DOMAIN os, x \in S : step[i][x] \in S BY <1>2, <1>3
  <2> HIDE DEF step
  <2> QED BY <1>1, <1>3, <2>1, SequenceFoldExists
<1>5. \A u \in SUBSET DOMAIN os : u # {} => Max(u) \in DOMAIN os BY <1>3, LatestChooses
<1>6. Def(g)
  <2>1. \A u \in SUBSET DOMAIN os : u # {} =>
          step[Max(u)][g[u \ {Max(u)}]] = Op(g[u \ {Max(u)}], os[Max(u)])
    BY <1>4, <1>5 DEF Folded
  <2>2. g = [u \in SUBSET DOMAIN os |-> g[u]] BY <1>4 DEF Folded
  <2> HIDE DEF step
  <2> QED BY <1>4, <2>1, <2>2 DEF Folded, Latest
<1>7. Def(fold) BY <1>6
<1>8. Without(seq, gone) = fold[DOMAIN os]
  BY DEF Without, FoldLeft, MapThenFoldSet, Op
<1> HIDE DEF fold
<1>9. fold[{}] = <<>> BY <1>7
<1>10. \A u \in SUBSET DOMAIN os : u # {} => fold[u] = Op(fold[u \ {Max(u)}], os[Max(u)])
  BY <1>7
<1> DEFINE Taken(u) == {os[i] : i \in u} \ gone
           K == {u \in SUBSET DOMAIN os : /\ fold[u] \in Seq(X) /\ Range(fold[u]) = Taken(u)
                                          /\ IsInjective(os) => IsInjective(fold[u])}
<1>11. {} \in K
  <2>1. Range(<<>>) = {} /\ IsInjective(<<>>) BY DEF Range, IsInjective
  <2>2. Taken({}) = {} OBVIOUS
  <2> HIDE DEF Taken
  <2> QED BY <1>1, <1>9, <2>1, <2>2
<1>12. ASSUME NEW u \in SUBSET DOMAIN os, u # {}, u \ {Max(u)} \in K PROVE u \in K
  <2> DEFINE x == os[Max(u)]
             f == fold[u \ {Max(u)}]
             before == Taken(u \ {Max(u)})
  <2>1. f \in S /\ Range(f) = before /\ (IsInjective(os) => IsInjective(f)) BY <1>12
  <2>2. Max(u) \in u /\ x \in X BY <1>3, <1>5, <1>12, LatestChooses DEF Chooses, Latest
  <2>3. fold[u] = IF x \in gone THEN f ELSE Append(f, x) BY <1>10, <1>12 DEF Op
  <2>4. Taken(u) = before \cup ({x} \ gone) BY <2>2
  <2>5. IsInjective(os) => x \notin before BY <2>2 DEF IsInjective
  <2> HIDE DEF x, f, before
  <2>6. CASE x \in gone BY <2>1, <2>3, <2>4, <2>6
  <2>7. CASE x \notin gone
    <3>1. Append(f, x) \in S /\ Range(Append(f, x)) = Range(f) \cup {x} BY <2>1, <2>2, Appended
    <3>2. IsInjective(f) /\ x \notin Range(f) => IsInjective(Append(f, x)) BY <2>1, <2>2, Appended
    <3>3. Range(fold[u]) = Taken(u) BY <2>1, <2>3, <2>4, <2>7, <3>1
    <3> QED BY <2>1, <2>3, <2>5, <2>7, <3>1, <3>2, <3>3
  <2> QED BY <2>6, <2>7
<1> HIDE DEF K
<1>13. DOMAIN os \in K BY <1>3, <1>11, <1>12, SequenceFoldReaches
<1>14. Taken(DOMAIN os) = Range(seq) \ gone BY DEF Range
<1> QED BY <1>8, <1>13, <1>14 DEF K

-----------------------------------------------------------------------------
(* The types of the conditions, and the outputs that are open.               *)

Forced == {"NONE"} \cup {f[2] : f \in Forces}
\* CondType, but that a use count is a natural number: that takes RefsMatch.
Conds == [available : SUBSET OutDevices, inputs : SUBSET InDevices, phone : Phones,
          force : [Usages -> Forced], sco : BOOLEAN, suspended : BOOLEAN,
          outputs : Seq(Outputs), refs : [Outputs -> [Streams -> Int]]]

\* The primary output and the speaker stay, and the submix comes with its
\* device, as does the output that duplicates to it.
Laid(q) ==
  /\ IsInjective(q.outputs) /\ "primary" \in Range(q.outputs)
  /\ "SPEAKER" \in q.available /\ q.available \subseteq Supported("primary") \cup {"REMOTE_SUBMIX"}
  /\ \A o \in {"submix", "dup"} : o \in Range(q.outputs) <=> "REMOTE_SUBMIX" \in q.available
  /\ q.available \subseteq Plugs \cup {"SPEAKER", "EARPIECE", "REMOTE_SUBMIX"}

\* Outputs that are closed together.
Shut(gone) == gone \subseteq Outputs \ {"primary"} /\ ("dup" \in gone <=> "submix" \in gone)

LEMMA SuspendTyped ==
  ASSUME NEW q \in Conds
  PROVE  LET r == checkA2dpSuspend(q)
         IN /\ r \in Conds /\ r.available = q.available /\ r.inputs = q.inputs
            /\ r.phone = q.phone /\ r.force = q.force /\ r.sco = q.sco
            /\ r.outputs = q.outputs /\ r.refs = q.refs
<1> DEFINE next == checkA2dpSuspend(q).suspended
<1>1. next \in BOOLEAN
  <2>1. next = (IF q.suspended
        THEN ~(\/ ~q.sco \/ "BT_SCO" \notin {q.force["COMMUNICATION"], q.force["RECORD"]}
               \/ q.phone \notin {"IN_CALL", "RINGTONE"})
        ELSE ScoBusy(q))
    BY DEF checkA2dpSuspend, Conds
  <2>2. ScoBusy(q) \in BOOLEAN BY DEF ScoBusy
  <2> HIDE DEF next
  <2> QED BY <2>1, <2>2
<1>2. checkA2dpSuspend(q) = [q EXCEPT !.suspended = next] BY DEF checkA2dpSuspend, Conds
<1> HIDE DEF next
<1> QED BY <1>1, <1>2 DEF Conds

\* new are the use counts after delta tracks of s more play on o.
Shifted(refs, o, s, delta, new) ==
  /\ new \in [Outputs -> [Streams -> Int]]
  /\ \A p \in Outputs, x \in Streams : new[p][x] =
       IF p \in Parts(o) \cup {o} /\ x = s
       THEN IF refs[p][s] + delta < 0 THEN 0 ELSE refs[p][s] + delta
       ELSE refs[p][x]

LEMMA CountsTyped ==
  ASSUME NEW refs \in [Outputs -> [Streams -> Int]], NEW o, NEW s \in Streams, NEW delta \in Int
  PROVE  Shifted(refs, o, s, delta, Counts(refs, o, s, delta))
<1> DEFINE new == [p \in Outputs |->
                     [refs[p] EXCEPT ![s] = IF @ + delta < 0 THEN 0 ELSE @ + delta]]
<1>1. \A p \in Outputs : /\ new[p] \in [Streams -> Int]
                         /\ \A x \in Streams : new[p][x] =
                              IF x = s THEN IF refs[p][s] + delta < 0 THEN 0 ELSE refs[p][s] + delta
                              ELSE refs[p][x]
  OBVIOUS
<1>2. Counts(refs, o, s, delta) =
        [p \in Outputs |-> IF p \in Parts(o) \cup {o} THEN new[p] ELSE refs[p]]
  BY DEF Counts
<1> HIDE DEF new
<1> QED BY <1>1, <1>2 DEF Shifted

LEMMA FmTyped ==
  ASSUME NEW q \in Conds, NEW d, NEW delta \in Int
  PROVE  LET r == FmCounted(q, d, delta)
         IN /\ r \in Conds /\ r.available = q.available /\ r.inputs = q.inputs
            /\ r.phone = q.phone /\ r.force = q.force /\ r.sco = q.sco
            /\ r.outputs = q.outputs
            /\ r.refs = IF d = "FM" THEN Counts(q.refs, "primary", "MUSIC", delta) ELSE q.refs
<1> DEFINE refs == Counts(q.refs, "primary", "MUSIC", delta)
<1>1. refs \in [Outputs -> [Streams -> Int]] BY CountsTyped, StreamsAssumption DEF Conds, Shifted
<1>2. FmCounted(q, d, delta) = IF d = "FM" THEN [q EXCEPT !.refs = refs] ELSE q BY DEF FmCounted
<1> HIDE DEF refs
<1>3. [q EXCEPT !.refs = refs] \in Conds BY <1>1 DEF Conds
<1> QED BY <1>2, <1>3 DEF Conds, refs

LEMMA ClosedTyped ==
  ASSUME NEW q \in Conds, NEW gone
  PROVE  LET r == Closed(q, gone)
         IN /\ r \in Conds /\ r.available = q.available /\ r.inputs = q.inputs
            /\ r.phone = q.phone /\ r.force = q.force /\ r.sco = q.sco
            /\ r.refs = CountsLeft(q, gone)
            /\ r.outputs = Without(q.outputs, gone) /\ Range(r.outputs) = Range(q.outputs) \ gone
            /\ IsInjective(q.outputs) => IsInjective(r.outputs)
<1> DEFINE left == Without(q.outputs, gone)
           refs == CountsLeft(q, gone)
<1>1. /\ left \in Seq(Outputs) /\ Range(left) = Range(q.outputs) \ gone
      /\ IsInjective(q.outputs) => IsInjective(left)
  BY WithoutRange DEF Conds
<1>2. refs \in [Outputs -> [Streams -> Int]]
  <2>1. "primary" \in Outputs BY ProfilesAssumption DEF Outputs
  <2>2. "dup" \in Outputs BY DEF Outputs
  <2> QED BY <2>1, <2>2 DEF CountsLeft, Conds
<1>3. Closed(q, gone) = [q EXCEPT !.outputs = left, !.refs = refs] BY DEF Closed, OutputsLeft
<1> HIDE DEF left, refs
<1>4. [q EXCEPT !.outputs = left, !.refs = refs] \in Conds BY <1>1, <1>2 DEF Conds
<1> QED BY <1>1, <1>3, <1>4 DEF Conds, left, refs

LEMMA ClosedLaid ==
  ASSUME NEW q \in Conds, Laid(q), NEW gone, Shut(gone), "submix" \notin gone
  PROVE  Laid(Closed(q, gone))
<1> DEFINE r == Closed(q, gone)
<1>1. /\ r.available = q.available /\ Range(r.outputs) = Range(q.outputs) \ gone
      /\ IsInjective(r.outputs)
  BY ClosedTyped DEF Laid
<1> HIDE DEF r
<1>2. Laid(r) BY <1>1 DEF Laid, Shut
<1> QED BY <1>2 DEF r

\* A device that can be connected.
Pluggable(d) == \/ d \in Plugs /\ d \in Supported("primary") \ {"SPEAKER"}
                \/ d = "REMOTE_SUBMIX" /\ "submix" \in Profiles
SubmixOf(d) == IF d = "REMOTE_SUBMIX" THEN {"submix", "dup"} ELSE {}

LEMMA AttachedTyped ==
  ASSUME cond \in Conds, Laid(cond), NEW d, d \notin cond.available, Pluggable(d),
         NEW ins \in SUBSET InDevices
  PROVE  LET r == Attached(d, ins).cond
         IN /\ r \in Conds /\ Laid(r) /\ r.available = cond.available \cup {d}
            /\ r.phone = cond.phone /\ r.force = cond.force
            /\ Range(r.outputs) = Range(cond.outputs) \cup SubmixOf(d)
            /\ r.refs = IF d = "FM" THEN Counts(cond.refs, "primary", "MUSIC", 1) ELSE cond.refs
<1> DEFINE opened == IF d = "REMOTE_SUBMIX" THEN <<"submix", "dup">> ELSE <<>>
           all == cond.outputs \o opened
           p == [cond EXCEPT !.available = @ \cup {d}, !.inputs = ins, !.sco = @ \/ d \in Sco,
                             !.suspended = @ /\ d \notin A2dp, !.outputs = @ \o opened]
           q == checkA2dpSuspend(p)
           r == FmCounted(q, d, 1)
<1>1. Attached(d, ins).cond = r BY DEF Attached
<1>2. d \in OutDevices
  <2>1. "primary" \in Outputs BY ProfilesAssumption DEF Outputs
  <2>2. Supported("primary") \subseteq OutDevices BY <2>1, SupportedDevices
  <2>3. "REMOTE_SUBMIX" \in OutDevices BY DEF OutDevices
  <2> QED BY <2>2, <2>3 DEF Pluggable
<1>3. /\ all \in Seq(Outputs) /\ IsInjective(all)
      /\ Range(all) = Range(cond.outputs) \cup SubmixOf(d)
  <2>1. cond.outputs \in Seq(Outputs) /\ IsInjective(cond.outputs) BY DEF Conds, Laid
  <2>2. CASE d = "REMOTE_SUBMIX"
    <3>1. "submix" \in Outputs /\ "dup" \in Outputs
      BY <2>2, ProfilesAssumption DEF Pluggable, Outputs, Supported, Mixed, Wired, Sco, A2dp, Usb
    <3>2. "submix" \notin Range(cond.outputs) /\ "dup" \notin Range(cond.outputs)
      BY <2>2 DEF Laid
    <3> DEFINE one == Append(cond.outputs, "submix")
    <3>3. /\ one \in Seq(Outputs) /\ Range(one) = Range(cond.outputs) \cup {"submix"}
          /\ IsInjective(one)
      BY <2>1, <3>1, <3>2, Appended
    <3>4. all = Append(one, "dup") BY <2>1, <2>2, <3>1
    <3> HIDE DEF one, all
    <3>5. "dup" \notin Range(one) BY <3>2, <3>3
    <3>6. /\ Append(one, "dup") \in Seq(Outputs) /\ Range(Append(one, "dup")) = Range(one) \cup {"dup"}
          /\ IsInjective(Append(one, "dup"))
      BY <3>1, <3>3, <3>5, Appended
    <3> QED BY <2>2, <3>3, <3>4, <3>6 DEF SubmixOf
  <2>3. CASE d # "REMOTE_SUBMIX"
    <3>1. all = cond.outputs BY <2>1, <2>3
    <3> HIDE DEF all
    <3> QED BY <2>1, <2>3, <3>1 DEF SubmixOf
  <2> QED BY <2>2, <2>3
<1>4. /\ p \in Conds /\ p.available = cond.available \cup {d} /\ p.phone = cond.phone
      /\ p.force = cond.force /\ p.outputs = all /\ p.refs = cond.refs
  <2> HIDE DEF opened
  <2>1. all = cond.outputs \o opened OBVIOUS
  <2> HIDE DEF all
  <2> QED BY <1>2, <1>3, <2>1 DEF Conds
<1> HIDE DEF p, all, opened
<1>5. /\ q \in Conds /\ q.available = p.available /\ q.phone = p.phone
      /\ q.force = p.force /\ q.outputs = p.outputs /\ q.refs = p.refs
  BY <1>4, SuspendTyped
<1> HIDE DEF q
<1>6. /\ r \in Conds /\ r.available = q.available /\ r.phone = q.phone
      /\ r.force = q.force /\ r.outputs = q.outputs
      /\ r.refs = IF d = "FM" THEN Counts(q.refs, "primary", "MUSIC", 1) ELSE q.refs
  BY <1>5, FmTyped
<1> HIDE DEF r
<1>7. Laid(r)
  <2>1. Range(r.outputs) = Range(cond.outputs) \cup SubmixOf(d) /\ IsInjective(r.outputs)
    BY <1>3, <1>4, <1>5, <1>6
  <2>2. r.available = cond.available \cup {d} BY <1>4, <1>5, <1>6
  <2> QED BY <2>1, <2>2 DEF Laid, SubmixOf, Pluggable
<1> QED BY <1>1, <1>3, <1>4, <1>5, <1>6, <1>7

\* The outputs that Detached() closes.
Gone(q) == WithDup({o \in Range(q.outputs) \ {"dup"} : Supported(o) \cap q.available = {}})

LEMMA DetachedTyped ==
  ASSUME cond \in Conds, Laid(cond), NEW d, d \in cond.available \ {"SPEAKER"},
         NEW ins \in SUBSET InDevices
  PROVE  LET x == Detached(d, ins)
             r == x.cond
         IN /\ r \in Conds /\ Laid(r) /\ r.available = cond.available \ {d}
            /\ r.phone = cond.phone /\ r.force = cond.force
            /\ Range(r.outputs) = Range(cond.outputs) \ x.gone /\ Shut(x.gone)
            /\ r.refs = IF d = "FM" THEN Counts(CountsLeft(cond, x.gone), "primary", "MUSIC", 0 - 1)
                        ELSE CountsLeft(cond, x.gone)
<1> DEFINE p == [cond EXCEPT !.available = @ \ {d}, !.inputs = ins, !.sco = @ /\ d \notin Sco,
                             !.suspended = @ /\ d \notin A2dp]
           q == checkA2dpSuspend(p)
           gone == Gone(q)
           r == Closed(q, gone)
           s == FmCounted(r, d, 0 - 1)
<1>1. Detached(d, ins).cond = s /\ Detached(d, ins).gone = gone BY DEF Detached, Gone
<1>2. /\ p \in Conds /\ p.available = cond.available \ {d} /\ p.phone = cond.phone
      /\ p.force = cond.force /\ p.outputs = cond.outputs /\ p.refs = cond.refs
  BY DEF Conds
<1> HIDE DEF p
<1>3. /\ q \in Conds /\ q.available = p.available /\ q.phone = p.phone
      /\ q.force = p.force /\ q.outputs = p.outputs /\ q.refs = p.refs
  BY <1>2, SuspendTyped
<1> HIDE DEF q
<1>4. Shut(gone) /\ ("submix" \in gone <=> d = "REMOTE_SUBMIX")
  <2>1. "SPEAKER" \in Supported("primary") BY DEF Supported, Mixed
  <2>2. "SPEAKER" \in q.available /\ Range(q.outputs) \subseteq Outputs
    BY <1>2, <1>3 DEF Laid, Conds, Range
  <2>3. "primary" \notin gone BY <2>1, <2>2 DEF Gone, WithDup
  <2>4. gone \subseteq Outputs /\ ("dup" \in gone <=> "submix" \in gone)
    BY <2>2 DEF Gone, WithDup, Outputs
  <2>5. Supported("submix") = {"REMOTE_SUBMIX"} BY DEF Supported
  <2>6. "submix" \in gone <=> "submix" \in Range(cond.outputs) /\ "REMOTE_SUBMIX" \notin q.available
    BY <1>2, <1>3, <2>5 DEF Gone, WithDup
  <2> QED BY <1>2, <1>3, <2>3, <2>4, <2>6 DEF Shut, Laid
<1> HIDE DEF gone
<1>5. /\ r \in Conds /\ r.available = q.available /\ r.phone = q.phone /\ r.force = q.force
      /\ r.refs = CountsLeft(q, gone) /\ Range(r.outputs) = Range(q.outputs) \ gone
      /\ IsInjective(q.outputs) => IsInjective(r.outputs)
  BY <1>3, ClosedTyped
<1>6. CountsLeft(q, gone) = CountsLeft(cond, gone) BY <1>2, <1>3 DEF CountsLeft
<1> HIDE DEF r
<1>7. /\ s \in Conds /\ s.available = r.available /\ s.phone = r.phone
      /\ s.force = r.force /\ s.outputs = r.outputs
      /\ s.refs = IF d = "FM" THEN Counts(r.refs, "primary", "MUSIC", 0 - 1) ELSE r.refs
  BY <1>5, FmTyped
<1> HIDE DEF s
<1>8. Range(s.outputs) = Range(cond.outputs) \ gone /\ s.available = cond.available \ {d}
  BY <1>2, <1>3, <1>5, <1>7
<1>9. Laid(s)
  <2>1. IsInjective(s.outputs) BY <1>2, <1>3, <1>5, <1>7 DEF Laid
  <2> QED BY <1>4, <1>8, <2>1 DEF Laid, Shut
<1> QED BY <1>1, <1>2, <1>3, <1>4, <1>5, <1>6, <1>7, <1>8, <1>9

-----------------------------------------------------------------------------
(* The devices that are selected.                                            *)

LEMMA FirstOfList ==
  ASSUME NEW available, NEW X, NEW ds \in Seq(X)
  PROVE  FirstIn(available, ds) \subseteq available \cap X
BY DEF FirstIn

LEMMA Listed ==
  ASSUME NEW X, NEW ds \in Seq(X), NEW es \in Seq(X), NEW c
  PROVE  When(c, ds) \o es \in Seq(X) /\ When(c, ds) \in Seq(X)
<1>1. When(c, ds) \in Seq(X) BY DEF When
<1> QED BY <1>1, ConcatProperties

\* A voice is never sent to the remote submix, and nothing to the device of FM.
LEMMA PhoneDevices ==
  ASSUME NEW q, NEW dtmf \in BOOLEAN
  PROVE  /\ PhoneDevice(q, dtmf) \subseteq (q.available \ {"REMOTE_SUBMIX", "FM"}) \cup {"SPEAKER"}
         /\ PhoneDevice(q, dtmf) # {}
<1> DEFINE X == OutDevices \ {"REMOTE_SUBMIX", "FM"}
           calling == isInCall(q)
           sco == When(~calling \/ ~dtmf, <<"SCO_CARKIT">>) \o <<"SCO_HEADSET", "SCO">>
           usual == When(~calling /\ A2dpUsable(q), <<"A2DP", "A2DP_HEADPHONES">>)
                      \o Headphones
                      \o When(q.phone # "IN_CALL", <<"USB_ACCESSORY", "USB_DEVICE", "DGTL_DOCK">>)
                      \o <<"ANLG_DOCK", "EARPIECE">>
           loud == When(~calling /\ A2dpUsable(q), <<"A2DP_SPEAKER">>)
                     \o When(~calling, <<"USB_ACCESSORY", "USB_DEVICE", "DGTL_DOCK", "ANLG_DOCK">>)
                     \o <<"SPEAKER">>
           list == IF q.force["COMMUNICATION"] = "SPEAKER" THEN loud
                   ELSE IF q.force["COMMUNICATION"] = "BT_SCO" THEN sco \o usual ELSE usual
<1>1. /\ <<"SCO_CARKIT">> \in Seq(X) /\ <<"SCO_HEADSET", "SCO">> \in Seq(X)
      /\ <<"A2DP", "A2DP_HEADPHONES">> \in Seq(X) /\ Headphones \in Seq(X)
      /\ <<"USB_ACCESSORY", "USB_DEVICE", "DGTL_DOCK">> \in Seq(X)
      /\ <<"ANLG_DOCK", "EARPIECE">> \in Seq(X) /\ <<"A2DP_SPEAKER">> \in Seq(X)
      /\ <<"USB_ACCESSORY", "USB_DEVICE", "DGTL_DOCK", "ANLG_DOCK">> \in Seq(X)
      /\ <<"SPEAKER">> \in Seq(X)
  BY DEF OutDevices, Sco, A2dp, Usb, Wired, Headphones
<1> HIDE DEF X
<1>2. sco \in Seq(X) BY <1>1, Listed
<1>3. usual \in Seq(X)
  <2>1. When(~calling /\ A2dpUsable(q), <<"A2DP", "A2DP_HEADPHONES">>) \o Headphones \in Seq(X)
    BY <1>1, Listed
  <2>2. When(q.phone # "IN_CALL", <<"USB_ACCESSORY", "USB_DEVICE", "DGTL_DOCK">>) \in Seq(X)
    BY <1>1, Listed
  <2> QED BY <1>1, <2>1, <2>2, ConcatProperties
<1>4. loud \in Seq(X)
  <2>1. /\ When(~calling /\ A2dpUsable(q), <<"A2DP_SPEAKER">>) \in Seq(X)
        /\ When(~calling, <<"USB_ACCESSORY", "USB_DEVICE", "DGTL_DOCK", "ANLG_DOCK">>) \in Seq(X)
    BY <1>1, Listed
  <2> QED BY <1>1, <2>1, ConcatProperties
<1>5. PhoneDevice(q, dtmf) = FmOnSpeaker(q, OrDefault(First(q, list))) BY DEF PhoneDevice
<1> HIDE DEF sco, usual, loud
<1>6. list \in Seq(X) BY <1>2, <1>3, <1>4, ConcatProperties
<1> HIDE DEF list
<1>7. First(q, list) \subseteq q.available \cap X BY <1>6, FirstOfList DEF First
<1>8. "REMOTE_SUBMIX" \notin X /\ "FM" \notin X BY DEF X
<1> DEFINE first == OrDefault(First(q, list))
<1>9. first \subseteq (q.available \ {"REMOTE_SUBMIX", "FM"}) \cup {"SPEAKER"} /\ first # {}
  BY <1>7, <1>8 DEF OrDefault
<1> HIDE DEF first
<1>10. FmOnSpeaker(q, first) \subseteq first \cup {"SPEAKER"} /\ FmOnSpeaker(q, first) # {}
  BY <1>9 DEF FmOnSpeaker
<1> QED BY <1>5, <1>9, <1>10 DEF first

LEMMA SecondDevices ==
  ASSUME NEW q, NEW t
  PROVE  SecondDevice(q, t) \subseteq q.available \ {"FM"}
<1> DEFINE X == OutDevices \ {"FM"}
           media == t # "SONIFICATION"
           submix == When(media, <<"REMOTE_SUBMIX">>)
           a2dp == When(A2dpUsable(q), <<"A2DP", "A2DP_HEADPHONES", "A2DP_SPEAKER">>)
           docks == <<"USB_ACCESSORY", "USB_DEVICE", "DGTL_DOCK">>
           hdmi == When(media, <<"AUX_DIGITAL">>)
           analog == <<"ANLG_DOCK", "FM_TX">>
           proxy == When(media, <<"PROXY">>)
           list == submix \o a2dp \o Headphones \o docks \o hdmi \o analog \o proxy \o <<"SPEAKER">>
<1>1. /\ <<"REMOTE_SUBMIX">> \in Seq(X) /\ <<"A2DP", "A2DP_HEADPHONES", "A2DP_SPEAKER">> \in Seq(X)
      /\ Headphones \in Seq(X) /\ docks \in Seq(X) /\ <<"AUX_DIGITAL">> \in Seq(X)
      /\ analog \in Seq(X) /\ <<"PROXY">> \in Seq(X) /\ <<"SPEAKER">> \in Seq(X)
  BY DEF OutDevices, Sco, A2dp, Usb, Wired, Headphones
<1>2. SecondDevice(q, t) = First(q, list) BY DEF SecondDevice
<1>3. "FM" \notin X OBVIOUS
<1> HIDE DEF X, media, docks, analog
<1>4. submix \in Seq(X) /\ a2dp \in Seq(X) /\ hdmi \in Seq(X) /\ proxy \in Seq(X) BY <1>1, Listed
<1> HIDE DEF submix, a2dp, hdmi, proxy
<1>5. submix \o a2dp \o Headphones \o docks \in Seq(X) BY <1>1, <1>4, ConcatProperties
<1>6. list \in Seq(X) BY <1>1, <1>4, <1>5, ConcatProperties
<1> HIDE DEF list
<1>7. First(q, list) \subseteq q.available \cap X BY <1>6, FirstOfList DEF First
<1> QED BY <1>2, <1>3, <1>7

LEMMA SelectedDevices ==
  ASSUME NEW q, "SPEAKER" \in q.available, NEW t \in Strategies
  PROVE  /\ Device(q, t) \subseteq q.available \ {"FM"} /\ Device(q, t) # {}
         /\ t = "PHONE" => "REMOTE_SUBMIX" \notin Device(q, t)
<1>1. \A x \in BOOLEAN : /\ PhoneDevice(q, x) \subseteq q.available \ {"FM"} /\ PhoneDevice(q, x) # {}
                         /\ "REMOTE_SUBMIX" \notin PhoneDevice(q, x)
  BY PhoneDevices
<1>2. ASSUME NEW u PROVE MediaDevice(q, u) \subseteq q.available \ {"FM"} /\ MediaDevice(q, u) # {}
  <2>1. SecondDevice(q, u) \subseteq q.available \ {"FM"} BY SecondDevices
  <2>2. PhoneDevice(q, FALSE) \subseteq q.available \ {"FM"} /\ PhoneDevice(q, FALSE) # {} BY <1>1
  <2> QED BY <2>1, <2>2 DEF MediaDevice, OrDefault
<1>3. CASE t = "PHONE"
  <2>1. Device(q, t) = PhoneDevice(q, FALSE) BY <1>3 DEF Device
  <2>2. /\ PhoneDevice(q, FALSE) \subseteq q.available \ {"FM"} /\ PhoneDevice(q, FALSE) # {}
        /\ "REMOTE_SUBMIX" \notin PhoneDevice(q, FALSE)
    BY <1>1
  <2> QED BY <2>1, <2>2
<1>4. CASE t = "DTMF"
  <2>1. Device(q, t) = IF isInCall(q) THEN PhoneDevice(q, TRUE) ELSE MediaDevice(q, "MEDIA")
    BY <1>4 DEF Device
  <2>2. PhoneDevice(q, TRUE) \subseteq q.available \ {"FM"} /\ PhoneDevice(q, TRUE) # {} BY <1>1
  <2> QED BY <1>2, <1>4, <2>1, <2>2
<1>5. CASE t \notin {"PHONE", "DTMF"}
  <2>1. Device(q, t) = MediaDevice(q, t) BY <1>5 DEF Device
  <2> QED BY <1>2, <1>5, <2>1
<1> QED BY <1>3, <1>4, <1>5

LEMMA SelectedInput ==
  ASSUME NEW q, q.inputs \in SUBSET InDevices, NEW source
  PROVE  InputDevice(q, source) \in InDevices \cup {"NONE"}
<1>1. ASSUME NEW ds, FirstIn(q.inputs, ds) # {}
      PROVE  (CHOOSE d \in FirstIn(q.inputs, ds) : TRUE) \in InDevices
  <2>1. FirstIn(q.inputs, ds) \subseteq InDevices BY DEF FirstIn
  <2> QED BY <1>1, <2>1
<1>2. "COMMUNICATION" \in InDevices /\ "FM_RX" \in InDevices /\ "FM_RX_A2DP" \in InDevices
  BY DEF InDevices
<1> QED BY <1>1, <1>2 DEF InputDevice

-----------------------------------------------------------------------------
(* The types, without those of the use counts, the tracks and the mix.       *)

Inputs == /\ mInputs \in Seq(Records) /\ recording \subseteq Range(mInputs)
          /\ inDevice \in [Records -> InDevices \cup {"NONE"}]
Typed == /\ cond \in Conds /\ Laid(cond) /\ mDeviceForStrategy \in Tables
         /\ mForceDeviceChange \in BOOLEAN /\ Inputs

LEMMA FreshTyped ==
  ASSUME NEW q \in Conds, Laid(q)
  PROVE  Fresh(q) \in Tables
<1>1. \A t \in Strategies : Device(q, t) \in SUBSET OutDevices BY SelectedDevices DEF Laid, Conds
<1> QED BY <1>1 DEF Fresh, Tables

\* The selection is computed anew when a device comes or goes.
LEMMA AttachedTable ==
  ASSUME cond \in Conds, Laid(cond), NEW d, d \notin cond.available, Pluggable(d),
         NEW ins \in SUBSET InDevices
  PROVE  Attached(d, ins).table \in Tables
<1> DEFINE opened == IF d = "REMOTE_SUBMIX" THEN <<"submix", "dup">> ELSE <<>>
           p == [cond EXCEPT !.available = @ \cup {d}, !.inputs = ins, !.sco = @ \/ d \in Sco,
                             !.suspended = @ /\ d \notin A2dp, !.outputs = @ \o opened]
           q == checkA2dpSuspend(p)
           r == FmCounted(q, d, 1)
<1>1. Attached(d, ins).table = Fresh(q) /\ Attached(d, ins).cond = r BY DEF Attached
<1>2. r \in Conds /\ Laid(r) BY <1>1, AttachedTyped
<1>3. Fresh(r) = Fresh(q)
  <2>1. r.available = q.available /\ r.phone = q.phone /\ r.force = q.force
        /\ r.sco = q.sco /\ r.suspended = q.suspended
    BY DEF FmCounted
  <2> HIDE DEF q, r
  <2>2. SameConditions(q, r) BY <2>1 DEF SameConditions
  <2> QED BY <2>2, SameDevices DEF Fresh
<1> QED BY <1>1, <1>2, <1>3, FreshTyped

LEMMA DetachedTable ==
  ASSUME cond \in Conds, Laid(cond), NEW d, d \in cond.available \ {"SPEAKER"},
         NEW ins \in SUBSET InDevices
  PROVE  Detached(d, ins).table \in Tables
<1> DEFINE p == [cond EXCEPT !.available = @ \ {d}, !.inputs = ins, !.sco = @ /\ d \notin Sco,
                             !.suspended = @ /\ d \notin A2dp]
           r == Closed(checkA2dpSuspend(p), Gone(checkA2dpSuspend(p)))
           s == FmCounted(r, d, 0 - 1)
<1>1. Detached(d, ins).table = Fresh(r) /\ Detached(d, ins).cond = s BY DEF Detached, Gone
<1>2. s \in Conds /\ Laid(s) BY <1>1, DetachedTyped
<1>3. Fresh(s) = Fresh(r)
  <2>1. s.available = r.available /\ s.phone = r.phone /\ s.force = r.force
        /\ s.sco = r.sco /\ s.suspended = r.suspended
    BY DEF FmCounted
  <2> HIDE DEF r, s
  <2>2. SameConditions(r, s) BY <2>1 DEF SameConditions
  <2> QED BY <2>2, SameDevices DEF Fresh
<1> QED BY <1>1, <1>2, <1>3, FreshTyped

LEMMA InputFollows ==
  ASSUME Inputs, NEW q \in Conds, FollowInput(q)
  PROVE  Inputs'
<1>1. \A source : InputDevice(q, source) \in InDevices \cup {"NONE"} BY SelectedInput DEF Conds
<1>2. inDevice' \in [Records -> InDevices \cup {"NONE"}] BY <1>1 DEF FollowInput, Inputs
<1> QED BY <1>2 DEF FollowInput, Inputs

LEMMA InputsSame == ASSUME Inputs, UNCHANGED inputVars PROVE Inputs'
BY DEF Inputs, inputVars

LEMMA ConditionsTyped ==
  ASSUME Typed, Conditions
  PROVE  Typed'
<1>1. cond \in Conds /\ Laid(cond) /\ mDeviceForStrategy \in Tables /\ Inputs BY DEF Typed
<1>3. \A d : InDeviceOf(d) \in SUBSET InDevices BY DEF InDeviceOf, InDevices
<1>4. ASSUME NEW d \in Plugs, Connect(d) PROVE Typed'
  <2> DEFINE ins == cond.inputs \cup InDeviceOf(d)
             x == Attached(d, ins)
  <2>1. /\ d \notin cond.available /\ cond' = x.cond /\ mDeviceForStrategy' = x.table
        /\ UNCHANGED mForceDeviceChange
        /\ UNCHANGED inputVars \/ FollowInput(x.cond)
    BY <1>4 DEF Connect, Apply
  <2>2. ins \in SUBSET InDevices BY <1>1, <1>3 DEF Conds
  <2>3. Pluggable(d) BY PlugsAssumption DEF Pluggable
  <2> HIDE DEF ins
  <2>4. x.cond \in Conds /\ Laid(x.cond) BY <1>1, <2>1, <2>2, <2>3, AttachedTyped
  <2>5. x.table \in Tables BY <1>1, <2>1, <2>2, <2>3, AttachedTable
  <2> HIDE DEF x
  <2>6. Inputs' BY <1>1, <2>1, <2>4, InputFollows, InputsSame
  <2> QED BY <2>1, <2>4, <2>5, <2>6 DEF Typed
<1>5. ASSUME NEW d \in Plugs, Disconnect(d) PROVE Typed'
  <2> DEFINE ins == cond.inputs \ InDeviceOf(d)
             x == Detached(d, ins)
  <2>1. /\ d \in cond.available /\ cond' = x.cond /\ mDeviceForStrategy' = x.table
        /\ mForceDeviceChange' = TRUE
        /\ UNCHANGED inputVars \/ FollowInput(x.cond)
    BY <1>5 DEF Disconnect, Apply
  <2>2. ins \in SUBSET InDevices BY <1>1, <1>3 DEF Conds
  <2>3. d # "SPEAKER" BY PlugsAssumption
  <2> HIDE DEF ins
  <2>4. x.cond \in Conds /\ Laid(x.cond) BY <1>1, <2>1, <2>2, <2>3, DetachedTyped
  <2>5. x.table \in Tables BY <1>1, <2>1, <2>2, <2>3, DetachedTable
  <2> HIDE DEF x
  <2>6. Inputs' BY <1>1, <2>1, <2>4, InputFollows, InputsSame
  <2> QED BY <2>1, <2>4, <2>5, <2>6 DEF Typed
<1>6. ASSUME NEW p \in Phones, SetPhoneState(p) PROVE Typed'
  <2> DEFINE n == [cond EXCEPT !.phone = p]
             q == checkA2dpSuspend(n)
  <2>1. /\ cond' = q /\ mDeviceForStrategy' = Fresh(q) /\ UNCHANGED mForceDeviceChange
        /\ UNCHANGED inputVars
    BY <1>6 DEF SetPhoneState
  <2>2. n \in Conds /\ n.available = cond.available /\ n.outputs = cond.outputs BY <1>1 DEF Conds
  <2> HIDE DEF n
  <2>3. q \in Conds /\ q.available = n.available /\ q.outputs = n.outputs BY <2>2, SuspendTyped
  <2> HIDE DEF q
  <2>4. Laid(q) BY <1>1, <2>2, <2>3 DEF Laid
  <2> QED BY <1>1, <2>1, <2>3, <2>4, FreshTyped, InputsSame DEF Typed
<1>7. ASSUME NEW f \in Forces, SetForceUse(f[1], f[2]) PROVE Typed'
  <2> DEFINE n == [cond EXCEPT !.force[f[1]] = f[2]]
             q == checkA2dpSuspend(n)
  <2>1. /\ cond' = q /\ mDeviceForStrategy' = Fresh(q) /\ UNCHANGED mForceDeviceChange
        /\ FollowInput(q)
    BY <1>7 DEF SetForceUse
  <2>2. n \in Conds /\ n.available = cond.available /\ n.outputs = cond.outputs
    <3>1. f[2] \in Forced BY DEF Forced
    <3> QED BY <1>1, <3>1 DEF Conds
  <2> HIDE DEF n
  <2>3. q \in Conds /\ q.available = n.available /\ q.outputs = n.outputs BY <2>2, SuspendTyped
  <2> HIDE DEF q
  <2>4. Laid(q) BY <1>1, <2>2, <2>3 DEF Laid
  <2> QED BY <1>1, <2>1, <2>3, <2>4, FreshTyped, InputFollows DEF Typed
<1>8. ASSUME NEW s \in Streams, NEW device, SetStreamVolumeIndex(s, device) PROVE Typed'
  BY <1>1, <1>8, InputsSame DEF SetStreamVolumeIndex, Typed
<1> QED BY <1>4, <1>5, <1>6, <1>7, <1>8 DEF Conditions

\* A direct output is closed alone, and can be opened again.
LEMMA DirectReopened ==
  ASSUME NEW q \in Conds, Laid(q), NEW o \in Direct \cap Profiles
  PROVE  LET r == Closed(q, {o})
             s == [r EXCEPT !.outputs = Append(@, o)]
         IN /\ r \in Conds /\ Laid(r) /\ r.available = q.available /\ r.refs = CountsLeft(q, {o})
            /\ r.phone = q.phone /\ r.force = q.force
            /\ Range(r.outputs) = Range(q.outputs) \ {o} /\ Shut({o})
            /\ s \in Conds /\ Laid(s) /\ s.available = r.available /\ s.refs = r.refs
            /\ s.phone = r.phone /\ s.force = r.force
            /\ Range(s.outputs) = Range(q.outputs) \cup {o}
<1> DEFINE r == Closed(q, {o})
           new == Append(r.outputs, o)
           s == [r EXCEPT !.outputs = new]
<1>1. o \in Outputs /\ o \notin {"primary", "submix", "dup"} BY DEF Direct, Counted, Outputs
<1>2. Shut({o}) BY <1>1 DEF Shut
<1>3. /\ r \in Conds /\ r.available = q.available /\ r.refs = CountsLeft(q, {o})
      /\ r.phone = q.phone /\ r.force = q.force
      /\ Range(r.outputs) = Range(q.outputs) \ {o} /\ IsInjective(r.outputs)
  BY ClosedTyped DEF Laid
<1>4. Laid(r) BY <1>1, <1>2, ClosedLaid
<1> HIDE DEF r
<1>5. r.outputs \in Seq(Outputs) BY <1>3 DEF Conds
<1>6. /\ new \in Seq(Outputs) /\ IsInjective(new) /\ Range(new) = Range(r.outputs) \cup {o}
  BY <1>1, <1>3, <1>5, Appended
<1> HIDE DEF new
<1>7. /\ s \in Conds /\ s.available = r.available /\ s.refs = r.refs /\ s.outputs = new
      /\ s.phone = r.phone /\ s.force = r.force
  BY <1>3, <1>6 DEF Conds
<1> HIDE DEF s
<1>8. Range(s.outputs) = Range(q.outputs) \cup {o} BY <1>3, <1>6, <1>7
<1>9. Laid(s) BY <1>1, <1>3, <1>6, <1>7, <1>8 DEF Laid
<1> QED BY <1>2, <1>3, <1>4, <1>7, <1>8, <1>9 DEF r, s, new

LEMMA TracksTyped ==
  ASSUME Typed, Tracks
  PROVE  Typed'
<1>1. cond \in Conds /\ Laid(cond) /\ mDeviceForStrategy \in Tables /\ Inputs
      /\ mForceDeviceChange \in BOOLEAN
  BY DEF Typed
<1>2. ASSUME cond' \in Conds, Laid(cond'), UNCHANGED inputVars,
             mDeviceForStrategy' \in {mDeviceForStrategy, Fresh(cond')},
             mForceDeviceChange' \in {mForceDeviceChange, FALSE}
      PROVE  Typed'
  BY <1>1, <1>2, FreshTyped, InputsSame DEF Typed
<1>3. ASSUME NEW c \in Clients, NEW delta \in Int,
             cond' = [cond EXCEPT !.refs = Counts(cond.refs, client[c].out, StreamOf[c], delta)]
      PROVE  cond' \in Conds /\ Laid(cond')
  <2> DEFINE refs == Counts(cond.refs, client[c].out, StreamOf[c], delta)
  <2>1. StreamOf[c] \in Streams BY ClientsAssumption
  <2>2. refs \in [Outputs -> [Streams -> Int]] BY <1>1, <2>1, CountsTyped DEF Conds, Shifted
  <2>3. cond' = [cond EXCEPT !.refs = refs] BY <1>3
  <2> HIDE DEF refs
  <2>4. cond' \in Conds /\ cond'.outputs = cond.outputs /\ cond'.available = cond.available
    BY <1>1, <2>2, <2>3 DEF Conds
  <2> QED BY <1>1, <2>4 DEF Laid
<1>4. ASSUME NEW c \in Clients, StartOutput(c) PROVE Typed'
  <2>1. cond' = [cond EXCEPT !.refs = Counts(cond.refs, client[c].out, StreamOf[c], 1)]
    BY <1>4 DEF StartOutput
  <2>2. mForceDeviceChange' \in {mForceDeviceChange, FALSE} BY <1>1, <1>4 DEF StartOutput
  <2>3. mDeviceForStrategy' \in {mDeviceForStrategy, Fresh(cond')} /\ UNCHANGED inputVars
    BY <1>4 DEF StartOutput, Refresh
  <2>4. cond' \in Conds /\ Laid(cond') BY <1>3, <2>1
  <2> QED BY <1>2, <2>2, <2>3, <2>4
<1>5. ASSUME NEW c \in Clients, StopOutput(c) PROVE Typed'
  <2>1. cond' = [cond EXCEPT !.refs = Counts(cond.refs, client[c].out, StreamOf[c], 0 - 1)]
    BY <1>5 DEF StopOutput
  <2>2. mForceDeviceChange' \in {mForceDeviceChange, FALSE} BY <1>5 DEF StopOutput
  <2>3. mDeviceForStrategy' \in {mDeviceForStrategy, Fresh(cond')} /\ UNCHANGED inputVars
    BY <1>5 DEF StopOutput, Refresh
  <2>4. cond' \in Conds /\ Laid(cond') BY <1>3, <2>1
  <2> QED BY <1>2, <2>2, <2>3, <2>4
<1>6. ASSUME NEW c \in Clients, ReleaseOutput(c) PROVE Typed'
  <2> DEFINE o == client[c].out
  <2>1. /\ cond' = cond \/ (o \in Counted /\ cond' = Closed(cond, {o}))
        /\ UNCHANGED <<mDeviceForStrategy, mForceDeviceChange>> /\ UNCHANGED inputVars
    BY <1>6 DEF ReleaseOutput, policyVars
  <2>2. cond' \in Conds /\ Laid(cond')
    <3>1. CASE cond' = cond BY <1>1, <3>1
    <3>2. CASE o \in Counted /\ cond' = Closed(cond, {o})
      <4>1. CASE o \in Profiles
        <5>1. o \in Direct \cap Profiles BY <3>2, <4>1 DEF Direct
        <5> QED BY <1>1, <3>2, <5>1, DirectReopened
      <4>2. CASE o \notin Profiles
        <5>1. o \notin Outputs BY <3>2, <4>2 DEF Outputs, Counted
        <5>2. /\ cond' \in Conds /\ cond'.available = cond.available
              /\ Range(cond'.outputs) = Range(cond.outputs) \ {o} /\ IsInjective(cond'.outputs)
          BY <1>1, <3>2, ClosedTyped DEF Laid
        <5>3. Range(cond.outputs) \subseteq Outputs BY <1>1 DEF Conds, Range
        <5>4. Range(cond'.outputs) = Range(cond.outputs) BY <5>1, <5>2, <5>3
        <5> QED BY <1>1, <5>2, <5>4 DEF Laid
      <4> QED BY <4>1, <4>2
    <3> QED BY <2>1, <3>1, <3>2
  <2> QED BY <1>2, <2>1, <2>2
<1>7. ASSUME NEW c \in Clients, NEW w \in Wants[c], GetOutput(c, w) PROVE Typed'
  <2>1. /\ \/ cond' = cond
           \/ \E o \in Direct \cap Profiles :
                \/ cond' = Closed(cond, {o})
                \/ cond' = [Closed(cond, {o}) EXCEPT !.outputs = Append(@, o)]
        /\ UNCHANGED <<mDeviceForStrategy, mForceDeviceChange>> /\ UNCHANGED inputVars
    BY <1>7 DEF GetOutput, DirectFor, policyVars
  <2>2. cond' \in Conds /\ Laid(cond') BY <1>1, <2>1, DirectReopened
  <2> QED BY <1>2, <2>1, <2>2
<1> QED BY <1>4, <1>5, <1>6, <1>7 DEF Tracks

LEMMA CaptureTyped ==
  ASSUME Typed, Capture
  PROVE  Typed'
<1>1. cond \in Conds /\ Laid(cond) /\ mDeviceForStrategy \in Tables /\ Inputs
      /\ mForceDeviceChange \in BOOLEAN
  BY DEF Typed
<1>2. cond.inputs \in SUBSET InDevices BY <1>1 DEF Conds
<1>3. \A i \in Records : InputDevice(cond, SourceOf[i]) \in InDevices \cup {"NONE"}
  BY <1>2, SelectedInput
<1>4. ASSUME NEW i \in Records, GetInput(i) PROVE Typed'
  <2> DEFINE device == InputDevice(cond, SourceOf[i])
  <2>1. /\ mInputs' = Append(mInputs, i) /\ inDevice' = [inDevice EXCEPT ![i] = device]
        /\ recording' = recording
    BY <1>4 DEF GetInput
  <2>2. device \in InDevices \cup {"NONE"} BY <1>3
  <2> HIDE DEF device
  <2>3. mInputs' \in Seq(Records) /\ Range(mInputs') = Range(mInputs) \cup {i}
    BY <1>1, <2>1, Appended DEF Inputs
  <2>4. Inputs' BY <1>1, <2>1, <2>2, <2>3 DEF Inputs
  <2> QED BY <1>1, <1>4, <2>4 DEF Typed, GetInput, policyVars
<1>5. ASSUME NEW i \in Records, StartInput(i) PROVE Typed'
  <2> DEFINE wanted == InputDevice(cond, SourceOf[i])
             device == IF wanted = "NONE" THEN inDevice[i] ELSE wanted
             x == Attached("REMOTE_SUBMIX", cond.inputs)
  <2>1. /\ mInputs' = mInputs /\ inDevice' = [inDevice EXCEPT ![i] = device]
        /\ recording' = recording \cup {i} /\ i \in Range(mInputs)
    BY <1>5 DEF StartInput
  <2>2. device \in InDevices \cup {"NONE"} BY <1>1, <1>3 DEF Inputs
  <2> HIDE DEF device
  <2>3. Inputs' BY <1>1, <2>1, <2>2 DEF Inputs
  <2>4. \/ /\ "REMOTE_SUBMIX" \notin cond.available /\ "submix" \in Profiles
           /\ cond' = x.cond /\ mDeviceForStrategy' = x.table /\ UNCHANGED mForceDeviceChange
        \/ UNCHANGED policyVars
    BY <1>5 DEF StartInput, Apply
  <2>5. CASE UNCHANGED policyVars BY <1>1, <2>3, <2>5 DEF Typed, policyVars
  <2>6. CASE /\ "REMOTE_SUBMIX" \notin cond.available /\ "submix" \in Profiles
             /\ cond' = x.cond /\ mDeviceForStrategy' = x.table /\ UNCHANGED mForceDeviceChange
    <3>1. Pluggable("REMOTE_SUBMIX") BY <2>6 DEF Pluggable
    <3>2. x.cond \in Conds /\ Laid(x.cond) BY <1>1, <1>2, <2>6, <3>1, AttachedTyped
    <3>3. x.table \in Tables BY <1>1, <1>2, <2>6, <3>1, AttachedTable
    <3> QED BY <1>1, <2>3, <2>6, <3>2, <3>3 DEF Typed
  <2> QED BY <2>4, <2>5, <2>6
<1>6. ASSUME NEW i \in Records, StopInput(i) PROVE Typed'
  <2> DEFINE x == Detached("REMOTE_SUBMIX", cond.inputs)
  <2>1. /\ UNCHANGED <<mInputs, inDevice>> /\ recording' = recording \ {i}
    BY <1>6 DEF StopInput
  <2>2. Inputs' BY <1>1, <2>1 DEF Inputs
  <2>3. \/ /\ "REMOTE_SUBMIX" \in cond.available
           /\ cond' = x.cond /\ mDeviceForStrategy' = x.table
        \/ UNCHANGED <<cond, mDeviceForStrategy>>
    BY <1>6 DEF StopInput
  <2>4. mForceDeviceChange' \in BOOLEAN BY <1>1, <1>6 DEF StopInput
  <2>5. CASE UNCHANGED <<cond, mDeviceForStrategy>> BY <1>1, <2>2, <2>4, <2>5 DEF Typed
  <2>6. CASE /\ "REMOTE_SUBMIX" \in cond.available
             /\ cond' = x.cond /\ mDeviceForStrategy' = x.table
    <3>1. x.cond \in Conds /\ Laid(x.cond) BY <1>1, <1>2, <2>6, DetachedTyped
    <3>2. x.table \in Tables BY <1>1, <1>2, <2>6, DetachedTable
    <3> QED BY <2>2, <2>4, <2>6, <3>1, <3>2 DEF Typed
  <2> QED BY <2>3, <2>5, <2>6
<1>7. ASSUME NEW i \in Records, ReleaseInput(i) PROVE Typed'
  <2>1. /\ mInputs' = Without(mInputs, {i}) /\ inDevice' = [inDevice EXCEPT ![i] = "NONE"]
        /\ recording' = recording /\ i \notin recording
    BY <1>7 DEF ReleaseInput
  <2>2. mInputs' \in Seq(Records) /\ Range(mInputs') = Range(mInputs) \ {i}
    BY <1>1, <2>1, WithoutRange DEF Inputs
  <2>3. Inputs' BY <1>1, <2>1, <2>2 DEF Inputs
  <2> QED BY <1>1, <1>7, <2>3 DEF Typed, ReleaseInput, policyVars
<1> QED BY <1>4, <1>5, <1>6, <1>7 DEF Capture

LEMMA InitTyped == Init => Typed
<1> SUFFICES ASSUME Init PROVE Typed OBVIOUS
<1>1. Calm \in Conds
  <2>1. <<"primary", "fast">> \in Seq(Outputs) BY ProfilesAssumption DEF Outputs
  <2>2. {"SPEAKER", "EARPIECE"} \subseteq OutDevices
        /\ {"BUILTIN_MIC", "VOICE_CALL", "REMOTE_SUBMIX"} \subseteq InDevices
    BY DEF OutDevices, InDevices
  <2>3. "NORMAL" \in Phones /\ "NONE" \in Forced BY PlugsAssumption DEF Forced
  <2> QED BY <2>1, <2>2, <2>3 DEF Calm, Conds
<1>2. Laid(Calm)
  <2> DEFINE os == <<"primary", "fast">>
  <2>1. Calm.outputs = os /\ Calm.available = {"SPEAKER", "EARPIECE"} BY DEF Calm
  <2>2. Range(os) = {"primary", "fast"} /\ IsInjective(os) BY DEF Range, IsInjective
  <2>3. {"SPEAKER", "EARPIECE"} \subseteq Supported("primary") BY DEF Supported, Mixed
  <2> HIDE DEF os
  <2> QED BY <2>1, <2>2, <2>3 DEF Laid
<1>3. Inputs BY DEF Init, Inputs, Range
<1> QED BY <1>1, <1>2, <1>3, FreshTyped DEF Init, Typed

\* The types, and which outputs are open: the primary one at all times, the submix
\* and the output that duplicates to it while their device is connected.
THEOREM TypedAlways == Spec => []Typed
<1>1. Typed /\ [Next]_vars => Typed'
  <2> SUFFICES ASSUME Typed, [Next]_vars PROVE Typed' OBVIOUS
  <2>1. CASE UNCHANGED vars BY <2>1, InputsSame DEF vars, policyVars, Typed
  <2> QED BY <2>1, ConditionsTyped, TracksTyped, CaptureTyped DEF Next
<1> QED BY InitTyped, <1>1, PTL DEF Spec

-----------------------------------------------------------------------------
(* Tracks and their counts.                                                  *)

\* PlayingOn and the holders of DirectCounted, of any table of tracks.
Playing(cl, o, s) == {c \in Clients : /\ cl[c].state = "started" /\ StreamOf[c] = s
                                      /\ o \in Parts(cl[c].out) \cup {cl[c].out}}
Holders(cl, o) == {c \in Clients : cl[c].out = o /\ cl[c].state \in {"held", "started"}}
FmExtra(available, o, s) == IF o = "primary" /\ s = "MUSIC" /\ "FM" \in available THEN 1 ELSE 0
Matched(refs, available, cl) ==
  \A o \in Outputs, s \in Streams :
    refs[o][s] = Cardinality(Playing(cl, o, s)) + FmExtra(available, o, s)
\* A track has an output that is open, or none; a voice is not duplicated.
Assigned(open, cl) ==
  /\ cl \in [Clients -> ClientType]
  /\ \A c \in Clients : /\ cl[c].state = "idle" <=> cl[c].out = "none"
                        /\ cl[c].out \in open \cup {"none"}
                        /\ Strategy(StreamOf[c]) = "PHONE" => cl[c].out \notin {"dup", "submix"}
Held(open, cl, count) ==
  \A o \in Direct \cap Profiles :
    /\ count[o] = Cardinality(Holders(cl, o))
    /\ o \in Counted => (o \in open <=> Holders(cl, o) # {})

LEMMA PlayersFinite ==
  \A cl, o, s : /\ IsFiniteSet(Playing(cl, o, s)) /\ Cardinality(Playing(cl, o, s)) \in Nat
                /\ IsFiniteSet(Holders(cl, o)) /\ Cardinality(Holders(cl, o)) \in Nat
<1> SUFFICES ASSUME NEW cl, NEW o, NEW s
             PROVE  /\ IsFiniteSet(Playing(cl, o, s)) /\ Cardinality(Playing(cl, o, s)) \in Nat
                    /\ IsFiniteSet(Holders(cl, o)) /\ Cardinality(Holders(cl, o)) \in Nat
  OBVIOUS
<1>1. Playing(cl, o, s) \in SUBSET Clients BY DEF Playing
<1>2. Holders(cl, o) \in SUBSET Clients BY DEF Holders
<1>3. IsFiniteSet(Playing(cl, o, s)) BY <1>1, FS_Subset, ClientsAssumption
<1>4. IsFiniteSet(Holders(cl, o)) BY <1>2, FS_Subset, ClientsAssumption
<1> QED BY <1>3, <1>4, FS_CardinalityType

\* The tracks of outputs that are closed are over, and no others; the primary
\* output loses the counts of the duplicated one.
LEMMA LostPlayers ==
  ASSUME NEW open \in SUBSET Outputs, Assigned(open, client), NEW gone, Shut(gone),
         NEW o \in Outputs, NEW s
  PROVE  /\ o \in gone => Playing(Lost(gone), o, s) = {}
         /\ o \notin gone /\ ~(o = "primary" /\ "dup" \in gone) =>
              Playing(Lost(gone), o, s) = Playing(client, o, s)
         /\ o = "primary" /\ "dup" \in gone =>
              Cardinality(Playing(Lost(gone), o, s)) =
                Cardinality(Playing(client, o, s)) - Cardinality(Playing(client, "dup", s))
<1> DEFINE now == Playing(client, o, s)
           left == Playing(Lost(gone), o, s)
           dups == Playing(client, "dup", s)
<1>1. \A c \in Clients : c \in now <=> /\ client[c].state = "started" /\ StreamOf[c] = s
                                        /\ o \in Parts(client[c].out) \cup {client[c].out}
  BY DEF Playing
<1>2. \A c \in Clients : c \in left <=> c \in now /\ client[c].out \notin gone
  BY DEF Playing, Lost, Idle
<1>3. \A c \in Clients : o \in Parts(client[c].out) \cup {client[c].out} =>
        o = client[c].out \/ (client[c].out = "dup" /\ o \in {"primary", "submix"})
  BY DEF Parts
<1>4. now \subseteq Clients /\ left \subseteq Clients BY DEF Playing
<1>5. "primary" \notin gone /\ ("dup" \in gone <=> "submix" \in gone) BY DEF Shut
<1>6. ASSUME o \in gone PROVE left = {} BY <1>1, <1>2, <1>3, <1>4, <1>5, <1>6
<1>7. ASSUME o \notin gone, ~(o = "primary" /\ "dup" \in gone) PROVE left = now
  BY <1>1, <1>2, <1>3, <1>4, <1>5, <1>7
<1>8. ASSUME o = "primary", "dup" \in gone
      PROVE  Cardinality(left) = Cardinality(now) - Cardinality(dups)
  <2>1. \A c \in Clients : c \in dups <=> /\ client[c].state = "started" /\ StreamOf[c] = s
                                          /\ "dup" \in Parts(client[c].out) \cup {client[c].out}
    BY DEF Playing
  <2>2. dups \subseteq Clients BY DEF Playing
  <2>3. \A c \in Clients : c \in dups <=> c \in now /\ client[c].out = "dup"
    BY <1>1, <1>8, <2>1 DEF Parts
  <2>4. \A c \in Clients : c \in left <=> c \in now /\ client[c].out # "dup"
    BY <1>1, <1>2, <1>3, <1>5, <1>8
  <2> HIDE DEF now, left, dups
  <2>5. left = now \ dups /\ now \cap dups = dups BY <1>4, <2>2, <2>3, <2>4
  <2>6. IsFiniteSet(now) BY PlayersFinite DEF now
  <2>7. Cardinality(now \ dups) = Cardinality(now) - Cardinality(now \cap dups)
    BY <2>6, FS_Difference
  <2> QED BY <2>5, <2>7
<1> QED BY <1>6, <1>7, <1>8

LEMMA LostMatched ==
  ASSUME NEW open \in SUBSET Outputs, Assigned(open, client), NEW gone, Shut(gone), NEW available,
         Matched(cond.refs, available, client)
  PROVE  Matched(CountsLeft(cond, gone), available, Lost(gone))
<1> SUFFICES ASSUME NEW o \in Outputs, NEW s \in Streams
             PROVE  CountsLeft(cond, gone)[o][s] =
                      Cardinality(Playing(Lost(gone), o, s)) + FmExtra(available, o, s)
  BY DEF Matched
<1>1. CountsLeft(cond, gone)[o][s] =
        IF o \in gone THEN 0
        ELSE IF o = "primary" /\ "dup" \in gone THEN cond.refs[o][s] - cond.refs["dup"][s]
        ELSE cond.refs[o][s]
  BY DEF CountsLeft
<1>2. "dup" \in Outputs BY DEF Outputs
<1>3. /\ cond.refs[o][s] = Cardinality(Playing(client, o, s)) + FmExtra(available, o, s)
      /\ cond.refs["dup"][s] = Cardinality(Playing(client, "dup", s)) + FmExtra(available, "dup", s)
  BY <1>2 DEF Matched
<1>4. FmExtra(available, "dup", s) = 0 /\ FmExtra(available, o, s) \in Nat BY DEF FmExtra
<1>5. /\ Cardinality(Playing(client, o, s)) \in Nat
      /\ Cardinality(Playing(client, "dup", s)) \in Nat
  BY PlayersFinite
<1>6. CASE o \in gone
  <2>1. o # "primary" BY <1>6 DEF Shut
  <2>2. FmExtra(available, o, s) = 0 BY <2>1 DEF FmExtra
  <2>3. Playing(Lost(gone), o, s) = {} BY <1>6, LostPlayers
  <2>4. Cardinality(Playing(Lost(gone), o, s)) = 0 BY <2>3, FS_EmptySet
  <2> QED BY <1>1, <1>6, <2>2, <2>4
<1>7. CASE o \notin gone /\ ~(o = "primary" /\ "dup" \in gone)
  <2>1. Playing(Lost(gone), o, s) = Playing(client, o, s) BY <1>7, LostPlayers
  <2> QED BY <1>1, <1>3, <1>7, <2>1
<1>8. CASE o = "primary" /\ "dup" \in gone
  <2>1. o \notin gone BY <1>8 DEF Shut
  <2>2. Cardinality(Playing(Lost(gone), o, s)) =
          Cardinality(Playing(client, o, s)) - Cardinality(Playing(client, "dup", s))
    BY <1>8, LostPlayers
  <2> QED BY <1>1, <1>3, <1>4, <1>5, <1>8, <2>1, <2>2
<1> QED BY <1>6, <1>7, <1>8

LEMMA LostAssigned ==
  ASSUME NEW open \in SUBSET Outputs, Assigned(open, client), NEW gone, Shut(gone)
  PROVE  Assigned(open \ gone, Lost(gone))
<1>1. "none" \notin Outputs BY ProfilesAssumption DEF Outputs
<1>2. Idle \in ClientType BY DEF Idle, ClientType
<1>3. Lost(gone) \in [Clients -> ClientType] BY <1>2 DEF Lost, Assigned
<1>4. ASSUME NEW c \in Clients
      PROVE  /\ Lost(gone)[c].state = "idle" <=> Lost(gone)[c].out = "none"
             /\ Lost(gone)[c].out \in (open \ gone) \cup {"none"}
             /\ Strategy(StreamOf[c]) = "PHONE" => Lost(gone)[c].out \notin {"dup", "submix"}
  <2>1. Lost(gone)[c] = IF client[c].out \in gone THEN Idle ELSE client[c] BY DEF Lost
  <2>2. CASE client[c].out \in gone BY <2>1, <2>2 DEF Idle
  <2>3. CASE client[c].out \notin gone BY <2>1, <2>3 DEF Assigned
  <2> QED BY <2>2, <2>3
<1> QED BY <1>3, <1>4 DEF Assigned

LEMMA LostHolders ==
  ASSUME NEW gone, "none" \notin gone
  PROVE  \A o : Holders(Lost(gone), o) = IF o \in gone THEN {} ELSE Holders(client, o)
<1> SUFFICES ASSUME NEW o PROVE Holders(Lost(gone), o) = IF o \in gone THEN {} ELSE Holders(client, o)
  OBVIOUS
<1>1. \A c \in Clients : Lost(gone)[c] = IF client[c].out \in gone THEN Idle ELSE client[c]
  BY DEF Lost
<1>2. \A c \in Clients : c \in Holders(Lost(gone), o) <=> c \in Holders(client, o) /\ o \notin gone
  BY <1>1 DEF Holders, Idle
<1>3. Holders(Lost(gone), o) \subseteq Clients /\ Holders(client, o) \subseteq Clients BY DEF Holders
<1> QED BY <1>2, <1>3

\* The track c starts or stops: new are the tracks then.
Moves(c, state) == [client EXCEPT ![c].state = state]
MovedOnly(open, available, refs, new) ==
  /\ Assigned(open, new) /\ \A o : Holders(new, o) = Holders(client, o)
  /\ Matched(refs, available, new)

LEMMA StartMatched ==
  ASSUME NEW open \in SUBSET Outputs, Assigned(open, client), NEW available,
         cond.refs \in [Outputs -> [Streams -> Int]], Matched(cond.refs, available, client),
         NEW c \in Clients, client[c].state = "held"
  PROVE  MovedOnly(open, available, Counts(cond.refs, client[c].out, StreamOf[c], 1), Moves(c, "started"))
<1> DEFINE cl == Moves(c, "started")
           o == client[c].out
           t == StreamOf[c]
           refs == Counts(cond.refs, o, t, 1)
<1>1. \A d \in Clients : /\ cl[d].out = client[d].out
                         /\ cl[d].state = IF d = c THEN "started" ELSE client[d].state
                         /\ cl[d] \in ClientType
  BY DEF Assigned, ClientType, Moves
<1>2. Assigned(open, cl)
  <2>1. cl \in [Clients -> ClientType] BY <1>1 DEF Assigned, Moves
  <2> HIDE DEF cl
  <2> QED BY <1>1, <2>1 DEF Assigned
<1> HIDE DEF cl
<1>3. \A p : Holders(cl, p) = Holders(client, p)
  <2> SUFFICES ASSUME NEW p PROVE Holders(cl, p) = Holders(client, p) OBVIOUS
  <2>1. \A d \in Clients : d \in Holders(cl, p) <=> d \in Holders(client, p) BY <1>1 DEF Holders
  <2> QED BY <2>1 DEF Holders
<1>4. t \in Streams BY ClientsAssumption
<1>5. ASSUME NEW p \in Outputs, NEW x \in Streams
      PROVE  refs[p][x] = Cardinality(Playing(cl, p, x)) + FmExtra(available, p, x)
  <2> DEFINE was == Playing(client, p, x)
             now == Playing(cl, p, x)
             n == Cardinality(was) + FmExtra(available, p, x)
  <2>1. cond.refs[p][x] = n BY DEF Matched
  <2>2. Cardinality(was) \in Nat /\ IsFiniteSet(was) BY PlayersFinite
  <2>3. FmExtra(available, p, x) \in Nat BY DEF FmExtra
  <2>4. \A d \in Clients : d \in was <=> /\ client[d].state = "started" /\ StreamOf[d] = x
                                         /\ p \in Parts(client[d].out) \cup {client[d].out}
    BY DEF Playing
  <2>5. \A d \in Clients : d \in now <=> /\ cl[d].state = "started" /\ StreamOf[d] = x
                                         /\ p \in Parts(cl[d].out) \cup {cl[d].out}
    BY DEF Playing
  <2>6. was \subseteq Clients /\ now \subseteq Clients BY DEF Playing
  <2>7. Shifted(cond.refs, o, t, 1, refs) BY <1>4, CountsTyped
  <2>8. refs[p][x] = IF p \in Parts(o) \cup {o} /\ x = t
                     THEN IF cond.refs[p][t] + 1 < 0 THEN 0 ELSE cond.refs[p][t] + 1
                     ELSE cond.refs[p][x]
    BY <2>7 DEF Shifted
  <2> SUFFICES refs[p][x] = Cardinality(now) + FmExtra(available, p, x) OBVIOUS
  <2> HIDE DEF refs, now, was
  <2>9. CASE p \in Parts(o) \cup {o} /\ x = t
    <3>1. c \notin was BY <2>4, <2>9
    <3>2. now = was \cup {c} BY <1>1, <2>4, <2>5, <2>6, <2>9
    <3>3. Cardinality(was \cup {c}) = Cardinality(was) + 1 BY <2>2, <3>1, FS_AddElement
    <3> QED BY <2>1, <2>2, <2>3, <2>8, <2>9, <3>2, <3>3
  <2>10. CASE ~(p \in Parts(o) \cup {o} /\ x = t)
    <3>1. ASSUME NEW d \in Clients PROVE d \in now <=> d \in was
      <4>1. CASE d = c BY <1>1, <2>4, <2>5, <2>10, <4>1
      <4>2. CASE d # c BY <1>1, <2>4, <2>5, <4>2
      <4> QED BY <4>1, <4>2
    <3>2. now = was BY <2>6, <3>1
    <3> QED BY <2>1, <2>8, <2>10, <3>2
  <2> QED BY <2>9, <2>10
<1>6. Matched(refs, available, cl) BY <1>5 DEF Matched
<1> QED BY <1>2, <1>3, <1>6 DEF MovedOnly, cl

LEMMA StopMatched ==
  ASSUME NEW open \in SUBSET Outputs, Assigned(open, client), NEW available,
         cond.refs \in [Outputs -> [Streams -> Int]], Matched(cond.refs, available, client),
         NEW c \in Clients, client[c].state = "started"
  PROVE  MovedOnly(open, available, Counts(cond.refs, client[c].out, StreamOf[c], 0 - 1), Moves(c, "held"))
<1> DEFINE cl == Moves(c, "held")
           o == client[c].out
           t == StreamOf[c]
           refs == Counts(cond.refs, o, t, 0 - 1)
<1>1. \A d \in Clients : /\ cl[d].out = client[d].out
                         /\ cl[d].state = IF d = c THEN "held" ELSE client[d].state
                         /\ cl[d] \in ClientType
  BY DEF Assigned, ClientType, Moves
<1>2. Assigned(open, cl)
  <2>1. cl \in [Clients -> ClientType] BY <1>1 DEF Assigned, Moves
  <2> HIDE DEF cl
  <2> QED BY <1>1, <2>1 DEF Assigned
<1> HIDE DEF cl
<1>3. \A p : Holders(cl, p) = Holders(client, p)
  <2> SUFFICES ASSUME NEW p PROVE Holders(cl, p) = Holders(client, p) OBVIOUS
  <2>1. \A d \in Clients : d \in Holders(cl, p) <=> d \in Holders(client, p) BY <1>1 DEF Holders
  <2> QED BY <2>1 DEF Holders
<1>4. t \in Streams BY ClientsAssumption
<1>5. ASSUME NEW p \in Outputs, NEW x \in Streams
      PROVE  refs[p][x] = Cardinality(Playing(cl, p, x)) + FmExtra(available, p, x)
  <2> DEFINE was == Playing(client, p, x)
             now == Playing(cl, p, x)
             n == Cardinality(was) + FmExtra(available, p, x)
  <2>1. cond.refs[p][x] = n BY DEF Matched
  <2>2. Cardinality(was) \in Nat /\ IsFiniteSet(was) BY PlayersFinite
  <2>3. FmExtra(available, p, x) \in Nat BY DEF FmExtra
  <2>4. \A d \in Clients : d \in was <=> /\ client[d].state = "started" /\ StreamOf[d] = x
                                         /\ p \in Parts(client[d].out) \cup {client[d].out}
    BY DEF Playing
  <2>5. \A d \in Clients : d \in now <=> /\ cl[d].state = "started" /\ StreamOf[d] = x
                                         /\ p \in Parts(cl[d].out) \cup {cl[d].out}
    BY DEF Playing
  <2>6. was \subseteq Clients /\ now \subseteq Clients BY DEF Playing
  <2>7. Shifted(cond.refs, o, t, 0 - 1, refs) BY <1>4, CountsTyped
  <2>8. refs[p][x] = IF p \in Parts(o) \cup {o} /\ x = t
                     THEN IF cond.refs[p][t] + (0 - 1) < 0 THEN 0 ELSE cond.refs[p][t] + (0 - 1)
                     ELSE cond.refs[p][x]
    BY <2>7 DEF Shifted
  <2> SUFFICES refs[p][x] = Cardinality(now) + FmExtra(available, p, x) OBVIOUS
  <2> HIDE DEF refs, now, was
  <2>9. CASE p \in Parts(o) \cup {o} /\ x = t
    <3>1. c \in was BY <2>4, <2>9
    <3>2. now = was \ {c} BY <1>1, <2>4, <2>5, <2>6, <2>9
    <3>3. Cardinality(was \ {c}) = Cardinality(was) - 1 BY <2>2, <3>1, FS_RemoveElement
    <3>4. Cardinality(was) # 0 BY <2>2, <3>1, FS_EmptySet
    <3> QED BY <2>1, <2>2, <2>3, <2>8, <2>9, <3>2, <3>3, <3>4
  <2>10. CASE ~(p \in Parts(o) \cup {o} /\ x = t)
    <3>1. ASSUME NEW d \in Clients PROVE d \in now <=> d \in was
      <4>1. CASE d = c BY <1>1, <2>4, <2>5, <2>10, <4>1
      <4>2. CASE d # c BY <1>1, <2>4, <2>5, <4>2
      <4> QED BY <4>1, <4>2
    <3>2. now = was BY <2>6, <3>1
    <3> QED BY <2>1, <2>8, <2>10, <3>2
  <2> QED BY <2>9, <2>10
<1>6. Matched(refs, available, cl) BY <1>5 DEF Matched
<1> QED BY <1>2, <1>3, <1>6 DEF MovedOnly, cl

\* The radio plays on the primary output, without a track.
LEMMA FmMatched ==
  ASSUME NEW refs \in [Outputs -> [Streams -> Int]], NEW available, NEW cl,
         Matched(refs, available, cl)
  PROVE  /\ "FM" \notin available =>
              Matched(Counts(refs, "primary", "MUSIC", 1), available \cup {"FM"}, cl)
         /\ "FM" \in available =>
              Matched(Counts(refs, "primary", "MUSIC", 0 - 1), available \ {"FM"}, cl)
         /\ \A d : d # "FM" => /\ Matched(refs, available \cup {d}, cl)
                               /\ Matched(refs, available \ {d}, cl)
<1>1. "MUSIC" \in Streams BY StreamsAssumption
<1>2. \A x : x \in Parts("primary") \cup {"primary"} <=> x = "primary" BY DEF Parts
<1>3. \A o \in Outputs, s \in Streams : Cardinality(Playing(cl, o, s)) \in Nat BY PlayersFinite
<1>4. ASSUME "FM" \notin available
      PROVE  Matched(Counts(refs, "primary", "MUSIC", 1), available \cup {"FM"}, cl)
  <2> DEFINE new == Counts(refs, "primary", "MUSIC", 1)
  <2>1. Shifted(refs, "primary", "MUSIC", 1, new) BY <1>1, CountsTyped
  <2>2. \A p \in Outputs, x \in Streams : new[p][x] =
          IF p \in Parts("primary") \cup {"primary"} /\ x = "MUSIC"
          THEN IF refs[p]["MUSIC"] + 1 < 0 THEN 0 ELSE refs[p]["MUSIC"] + 1 ELSE refs[p][x]
    BY <2>1 DEF Shifted
  <2> HIDE DEF new
  <2>3. \A p \in Outputs, x \in Streams :
          /\ refs[p][x] = Cardinality(Playing(cl, p, x)) + FmExtra(available, p, x)
          /\ FmExtra(available, p, x) = 0
          /\ FmExtra(available \cup {"FM"}, p, x) = IF p = "primary" /\ x = "MUSIC" THEN 1 ELSE 0
    BY <1>4 DEF Matched, FmExtra
  <2>4. \A p \in Outputs, x \in Streams :
          new[p][x] = Cardinality(Playing(cl, p, x)) + FmExtra(available \cup {"FM"}, p, x)
    <3> SUFFICES ASSUME NEW p \in Outputs, NEW x \in Streams
                 PROVE  new[p][x] = Cardinality(Playing(cl, p, x)) + FmExtra(available \cup {"FM"}, p, x)
      OBVIOUS
    <3> DEFINE n == Cardinality(Playing(cl, p, x))
    <3>1. n \in Nat BY <1>3
    <3>2. refs[p][x] = n + 0 BY <2>3
    <3>3. FmExtra(available \cup {"FM"}, p, x) = IF p = "primary" /\ x = "MUSIC" THEN 1 ELSE 0 BY <2>3
    <3>4. new[p][x] = IF p = "primary" /\ x = "MUSIC"
                      THEN IF refs[p]["MUSIC"] + 1 < 0 THEN 0 ELSE refs[p]["MUSIC"] + 1
                      ELSE refs[p][x]
      BY <1>2, <2>2
    <3> HIDE DEF n
    <3>5. new[p][x] = n + FmExtra(available \cup {"FM"}, p, x) BY <3>1, <3>2, <3>3, <3>4
    <3> QED BY <3>5 DEF n
  <2> QED BY <2>4 DEF Matched, new
<1>5. ASSUME "FM" \in available
      PROVE  Matched(Counts(refs, "primary", "MUSIC", 0 - 1), available \ {"FM"}, cl)
  <2> DEFINE new == Counts(refs, "primary", "MUSIC", 0 - 1)
  <2>1. Shifted(refs, "primary", "MUSIC", 0 - 1, new) BY <1>1, CountsTyped
  <2>2. \A p \in Outputs, x \in Streams : new[p][x] =
          IF p \in Parts("primary") \cup {"primary"} /\ x = "MUSIC"
          THEN IF refs[p]["MUSIC"] + (0 - 1) < 0 THEN 0 ELSE refs[p]["MUSIC"] + (0 - 1) ELSE refs[p][x]
    BY <2>1 DEF Shifted
  <2> HIDE DEF new
  <2>3. \A p \in Outputs, x \in Streams :
          /\ refs[p][x] = Cardinality(Playing(cl, p, x)) + FmExtra(available, p, x)
          /\ FmExtra(available, p, x) = IF p = "primary" /\ x = "MUSIC" THEN 1 ELSE 0
          /\ FmExtra(available \ {"FM"}, p, x) = 0
    BY <1>5 DEF Matched, FmExtra
  <2>4. \A p \in Outputs, x \in Streams :
          new[p][x] = Cardinality(Playing(cl, p, x)) + FmExtra(available \ {"FM"}, p, x)
    <3> SUFFICES ASSUME NEW p \in Outputs, NEW x \in Streams
                 PROVE  new[p][x] = Cardinality(Playing(cl, p, x)) + FmExtra(available \ {"FM"}, p, x)
      OBVIOUS
    <3> DEFINE n == Cardinality(Playing(cl, p, x))
    <3>1. n \in Nat BY <1>3
    <3>2. refs[p][x] = n + IF p = "primary" /\ x = "MUSIC" THEN 1 ELSE 0 BY <2>3
    <3>3. FmExtra(available \ {"FM"}, p, x) = 0 BY <2>3
    <3>4. new[p][x] = IF p = "primary" /\ x = "MUSIC"
                      THEN IF refs[p]["MUSIC"] + (0 - 1) < 0 THEN 0 ELSE refs[p]["MUSIC"] + (0 - 1)
                      ELSE refs[p][x]
      BY <1>2, <2>2
    <3> HIDE DEF n
    <3>5. new[p][x] = n + FmExtra(available \ {"FM"}, p, x) BY <3>1, <3>2, <3>3, <3>4
    <3> QED BY <3>5 DEF n
  <2> QED BY <2>4 DEF Matched, new
<1>6. ASSUME NEW d, d # "FM"
      PROVE  Matched(refs, available \cup {d}, cl) /\ Matched(refs, available \ {d}, cl)
  <2>1. \A o, s : /\ FmExtra(available \cup {d}, o, s) = FmExtra(available, o, s)
                  /\ FmExtra(available \ {d}, o, s) = FmExtra(available, o, s)
    BY <1>6 DEF FmExtra
  <2> QED BY <2>1 DEF Matched
<1> QED BY <1>4, <1>5, <1>6

\* The track c takes the output o: new are the tracks then.
Takes(cl, c, o) == [cl EXCEPT ![c] = [out |-> o, state |-> "held"]]
Taken(open, cl, c, o, new) ==
  /\ Assigned(open, new) /\ \A p, s : Playing(new, p, s) = Playing(cl, p, s)
  /\ \A p : Holders(new, p) = IF p = o THEN Holders(cl, p) \cup {c} ELSE Holders(cl, p)
  /\ c \notin Holders(cl, o)

LEMMA HoldMatched ==
  ASSUME NEW open, NEW cl, Assigned(open, cl), NEW c \in Clients, cl[c].state = "idle",
         NEW o, o \in open, o \in Outputs,
         Strategy(StreamOf[c]) # "PHONE" \/ o \notin {"dup", "submix"}
  PROVE  Taken(open, cl, c, o, Takes(cl, c, o))
<1> DEFINE new == Takes(cl, c, o)
<1>1. cl \in [Clients -> ClientType] BY DEF Assigned
<1>2. \A d \in Clients : new[d] = IF d = c THEN [out |-> o, state |-> "held"] ELSE cl[d]
  BY <1>1 DEF Takes
<1>3. [out |-> o, state |-> "held"] \in ClientType BY DEF ClientType
<1>4. new \in [Clients -> ClientType] BY <1>1, <1>3 DEF Takes
<1> HIDE DEF new
<1>5. o # "none" BY ProfilesAssumption DEF Outputs
<1>6. ASSUME NEW d \in Clients
      PROVE  /\ new[d].state = "idle" <=> new[d].out = "none"
             /\ new[d].out \in open \cup {"none"}
             /\ Strategy(StreamOf[d]) = "PHONE" => new[d].out \notin {"dup", "submix"}
  <2>1. CASE d = c BY <1>2, <1>5, <2>1
  <2>2. CASE d # c BY <1>2, <2>2 DEF Assigned
  <2> QED BY <2>1, <2>2
<1>7. Assigned(open, new) BY <1>4, <1>6 DEF Assigned
<1>8. ASSUME NEW p, NEW s PROVE Playing(new, p, s) = Playing(cl, p, s)
  <2>1. \A d \in Clients : d \in Playing(new, p, s) <=> d \in Playing(cl, p, s) BY <1>2 DEF Playing
  <2> QED BY <2>1 DEF Playing
<1>9. ASSUME NEW p
      PROVE  Holders(new, p) = IF p = o THEN Holders(cl, p) \cup {c} ELSE Holders(cl, p)
  <2>1. cl[c].out = "none" BY DEF Assigned
  <2>2. \A d \in Clients : d \in Holders(new, p) <=> d \in Holders(cl, p) \/ (d = c /\ p = o)
    BY <1>2, <1>5, <2>1 DEF Holders
  <2> QED BY <2>2 DEF Holders
<1>10. c \notin Holders(cl, o) BY DEF Holders
<1> QED BY <1>7, <1>8, <1>9, <1>10 DEF Taken, new

\* Outputs that are opened take no track from another; what holds a direct
\* output is not changed by the outputs of the mixer.
LEMMA MoreOpen ==
  ASSUME NEW open, NEW cl, Assigned(open, cl), NEW count, Held(open, cl, count),
         NEW more, more \cap Counted = {}
  PROVE  Assigned(open \cup more, cl) /\ Held(open \cup more, cl, count)
<1>1. Assigned(open \cup more, cl) BY DEF Assigned
<1>2. \A o \in Counted : o \in open \cup more <=> o \in open OBVIOUS
<1>3. Held(open \cup more, cl, count) BY <1>2 DEF Held
<1> QED BY <1>1, <1>3

LEMMA SameHolders ==
  ASSUME NEW open, NEW cl, NEW new, NEW count, Held(open, cl, count),
         \A o \in Direct : Holders(new, o) = Holders(cl, o)
  PROVE  Held(open, new, count)
<1>1. \A o \in Direct \cap Profiles : Holders(new, o) = Holders(cl, o) OBVIOUS
<1> QED BY <1>1 DEF Held

LEMMA SamePlayers ==
  ASSUME NEW refs, NEW available, NEW cl, NEW new, Matched(refs, available, cl),
         \A o, s : Playing(new, o, s) = Playing(cl, o, s)
  PROVE  Matched(refs, available, new)
BY DEF Matched

\* The tracks, the use counts and the counts of the direct outputs agree.
Agreed(q, cl, count) ==
  /\ Assigned(Range(q.outputs), cl)
  /\ Matched(q.refs, q.available, cl)
  /\ Held(Range(q.outputs), cl, count)
  /\ count \in [Outputs -> Nat]
Tracked == Agreed(cond, client, mDirectOpenCount)

CountsWithout(gone) == [o \in Outputs |-> IF o \in gone THEN 0 ELSE mDirectOpenCount[o]]

LEMMA OpenOutputs ==
  ASSUME NEW q \in Conds
  PROVE  Range(q.outputs) \in SUBSET Outputs
BY DEF Conds, Range

LEMMA Forgotten ==
  ASSUME cond \in Conds, Tracked, NEW gone, Shut(gone)
  PROVE  /\ Assigned(Range(cond.outputs) \ gone, Lost(gone))
         /\ Matched(CountsLeft(cond, gone), cond.available, Lost(gone))
         /\ Held(Range(cond.outputs) \ gone, Lost(gone), CountsWithout(gone))
         /\ CountsWithout(gone) \in [Outputs -> Nat]
<1> DEFINE open == Range(cond.outputs)
<1>1. open \in SUBSET Outputs BY OpenOutputs
<1>2. /\ Assigned(open, client) /\ Matched(cond.refs, cond.available, client)
      /\ Held(open, client, mDirectOpenCount) /\ mDirectOpenCount \in [Outputs -> Nat]
  BY DEF Tracked, Agreed
<1>3. Assigned(open \ gone, Lost(gone)) BY <1>1, <1>2, LostAssigned
<1>4. Matched(CountsLeft(cond, gone), cond.available, Lost(gone)) BY <1>1, <1>2, LostMatched
<1>5. CountsWithout(gone) \in [Outputs -> Nat] BY <1>2 DEF CountsWithout
<1>6. \A o : Holders(Lost(gone), o) = IF o \in gone THEN {} ELSE Holders(client, o)
  <2>1. "none" \notin gone BY ProfilesAssumption DEF Shut, Outputs
  <2> QED BY <2>1, LostHolders
<1>7. Held(open \ gone, Lost(gone), CountsWithout(gone))
  <2> HIDE DEF open
  <2> SUFFICES ASSUME NEW o \in Direct \cap Profiles
               PROVE  /\ CountsWithout(gone)[o] = Cardinality(Holders(Lost(gone), o))
                      /\ o \in Counted => (o \in open \ gone <=> Holders(Lost(gone), o) # {})
    BY DEF Held
  <2>1. o \in Outputs BY DEF Outputs
  <2>2. CountsWithout(gone)[o] = IF o \in gone THEN 0 ELSE mDirectOpenCount[o]
    BY <2>1 DEF CountsWithout
  <2>3. /\ mDirectOpenCount[o] = Cardinality(Holders(client, o))
        /\ o \in Counted => (o \in open <=> Holders(client, o) # {})
    BY <1>2 DEF Held
  <2>4. CASE o \in gone
    <3>1. Holders(Lost(gone), o) = {} BY <1>6, <2>4
    <3> QED BY <2>2, <2>4, <3>1, FS_EmptySet
  <2>5. CASE o \notin gone
    <3>1. Holders(Lost(gone), o) = Holders(client, o) BY <1>6, <2>5
    <3> QED BY <2>2, <2>3, <2>5, <3>1
  <2> QED BY <2>4, <2>5
<1> QED BY <1>3, <1>4, <1>5, <1>7

\* The track c gives its output back: new are the tracks then.
Drops(c) == [client EXCEPT ![c] = Idle]
Dropped(open, c, new) ==
  /\ Assigned(open, new) /\ \A o, s : Playing(new, o, s) = Playing(client, o, s)
  /\ \A o \in Outputs : Holders(new, o) = IF o = client[c].out THEN Holders(client, o) \ {c}
                                          ELSE Holders(client, o)
  /\ c \in Holders(client, client[c].out)

LEMMA ReleaseMatched ==
  ASSUME NEW open \in SUBSET Outputs, Assigned(open, client),
         NEW c \in Clients, client[c].state = "held"
  PROVE  Dropped(open, c, Drops(c))
<1> DEFINE cl == Drops(c)
<1>1. client \in [Clients -> ClientType] BY DEF Assigned
<1>2. \A d \in Clients : cl[d] = IF d = c THEN Idle ELSE client[d] BY <1>1 DEF Drops
<1>3. Idle \in ClientType /\ Idle.out = "none" /\ Idle.state = "idle" BY DEF Idle, ClientType
<1>4. cl \in [Clients -> ClientType] BY <1>1, <1>3 DEF Drops
<1> HIDE DEF cl
<1>5. "none" \notin Outputs BY ProfilesAssumption DEF Outputs
<1>6. ASSUME NEW d \in Clients
      PROVE  /\ cl[d].state = "idle" <=> cl[d].out = "none"
             /\ cl[d].out \in open \cup {"none"}
             /\ Strategy(StreamOf[d]) = "PHONE" => cl[d].out \notin {"dup", "submix"}
  <2>1. CASE d = c BY <1>2, <1>3, <2>1
  <2>2. CASE d # c BY <1>2, <2>2 DEF Assigned
  <2> QED BY <2>1, <2>2
<1>7. Assigned(open, cl) BY <1>4, <1>6 DEF Assigned
<1>8. ASSUME NEW p, NEW s PROVE Playing(cl, p, s) = Playing(client, p, s)
  <2>1. \A d \in Clients : d \in Playing(cl, p, s) <=> d \in Playing(client, p, s)
    BY <1>2, <1>3 DEF Playing
  <2> QED BY <2>1 DEF Playing
<1>9. ASSUME NEW p \in Outputs
      PROVE  Holders(cl, p) = IF p = client[c].out THEN Holders(client, p) \ {c} ELSE Holders(client, p)
  <2>1. \A d \in Clients : d \in Holders(cl, p) <=> d \in Holders(client, p) /\ d # c
    BY <1>2, <1>3, <1>5 DEF Holders
  <2>2. p # client[c].out => c \notin Holders(client, p) BY DEF Holders
  <2> QED BY <2>1, <2>2 DEF Holders
<1>10. c \in Holders(client, client[c].out) BY DEF Holders
<1> QED BY <1>7, <1>8, <1>9, <1>10 DEF Dropped, cl

\* A list that names an available device has a first one.
LEMMA FirstExists ==
  ASSUME NEW available, NEW X, NEW ds \in Seq(X), Range(ds) \cap available # {}
  PROVE  FirstIn(available, ds) # {} /\ FirstIn(available, ds) \subseteq available \cap Range(ds)
<1> DEFINE T == {n \in DOMAIN ds : ds[n] \in available}
<1>1. DOMAIN ds \subseteq Nat /\ \A n \in DOMAIN ds : \A j \in 1..n - 1 : j \in DOMAIN ds OBVIOUS
<1>2. T # {} /\ T \subseteq Nat BY <1>1 DEF Range
<1>3. PICK n \in T : \A j \in T : <<j, n>> \notin OpToRel(<, Nat)
  <2> HIDE DEF T
  <2> QED BY <1>2, NatLessThanWellFounded, WFMin
<1>4. ASSUME NEW j \in 1..n - 1 PROVE ds[j] \notin available
  <2>1. n \in Nat /\ j \in Nat /\ j < n /\ j \in DOMAIN ds BY <1>1, <1>2
  <2>2. <<j, n>> \in OpToRel(<, Nat) BY <2>1 DEF OpToRel
  <2> QED BY <1>3, <2>1, <2>2
<1>5. ds[n] \in FirstIn(available, ds) BY <1>4 DEF FirstIn
<1>6. FirstIn(available, ds) \subseteq available \cap Range(ds) BY DEF FirstIn, Range
<1> QED BY <1>5, <1>6

\* A track of the mixer is given an open output that is not direct, and a voice
\* one that is not duplicated to the remote submix.
LEMMA MixerOpen ==
  ASSUME cond \in Conds, Laid(cond), NEW t \in Strategies, NEW c \in Clients, NEW w \in Wants[c],
         DirectFor(Device(cond, t), w) = {}
  PROVE  LET o == Mixer(Device(cond, t), w)
         IN /\ o \in Range(cond.outputs) /\ o \notin Direct
            /\ t = "PHONE" => o \notin {"dup", "submix"}
<1> DEFINE device == Device(cond, t)
           open == Range(cond.outputs)
           fit == {o \in open : device \subseteq Supported(o)}
           direct == IF w.flag \in Counted THEN fit \cap Direct ELSE {}
           o == Mixer(device, w)
<1>1. /\ device \subseteq cond.available /\ (t = "PHONE" => "REMOTE_SUBMIX" \notin device)
      /\ DirectFor(device, w) = {}
  BY SelectedDevices DEF Laid
<1> HIDE DEF device
<1>2. /\ "primary" \in open /\ cond.available \subseteq Supported("primary") \cup {"REMOTE_SUBMIX"}
      /\ ("REMOTE_SUBMIX" \in cond.available => "dup" \in open)
      /\ cond.available \subseteq Plugs \cup {"SPEAKER", "EARPIECE", "REMOTE_SUBMIX"}
  BY DEF Laid
<1>3. open \in SUBSET Outputs /\ cond.outputs \in Seq(Outputs) BY OpenOutputs DEF Conds
<1>4. o = IF w.flag = "fast" /\ "fast" \in fit THEN "fast"
          ELSE IF "primary" \in fit THEN "primary"
          ELSE CHOOSE p \in FirstIn(fit, cond.outputs) : TRUE
  <2>1. w.flag \in Counted => fit \cap Direct = {}
    <3> SUFFICES ASSUME w.flag \in Counted, NEW p \in fit \cap Direct PROVE FALSE OBVIOUS
    <3>1. p \in Profiles \cap Direct BY <1>3 DEF Outputs, Direct, Counted
    <3>2. Supported(p) \cap {"REMOTE_SUBMIX"} = {}
      BY <3>1 DEF Supported, Direct, Counted, Mixed, Wired, Sco, A2dp, Usb
    <3>3. {"SPEAKER", "EARPIECE"} \subseteq Supported(w.flag) BY DEF Supported, Counted, Mixed
    <3>4. device \subseteq Supported(w.flag) BY <1>1, <1>2, <3>1, <3>2, <3>3, WantsAssumption
    <3>5. w.flag \in DirectFor(device, w) BY <3>4, WantsAssumption DEF DirectFor, Direct
    <3> QED BY <1>1, <3>5
  <2>2. direct = {} /\ (w.flag \in fit => w.flag = "fast")
    <3>1. "none" \notin open BY <1>3, ProfilesAssumption DEF Outputs
    <3> QED BY <2>1, <3>1, WantsAssumption DEF Direct
  <2>3. o = IF w.flag \in fit THEN w.flag
            ELSE IF direct # {} THEN CHOOSE p \in FirstIn(direct, cond.outputs) : TRUE
            ELSE IF "primary" \in fit THEN "primary"
            ELSE CHOOSE p \in FirstIn(fit, cond.outputs) : TRUE
    BY DEF Mixer
  <2> QED BY <2>2, <2>3
<1>5. {"fast", "primary"} \cap (Direct \cup {"dup", "submix"}) = {} BY DEF Direct, Counted
<1>6. CASE "REMOTE_SUBMIX" \notin device
  <2>1. "primary" \in fit BY <1>1, <1>2, <1>6
  <2>2. o \in {"fast", "primary"} /\ o \in open BY <1>4, <2>1
  <2> QED BY <1>5, <2>2 DEF device
<1>7. CASE "REMOTE_SUBMIX" \in device
  <2>1. "dup" \in open /\ t # "PHONE" BY <1>1, <1>2, <1>7
  <2>2. Supported("dup") = Supported("primary") \cup {"REMOTE_SUBMIX"} BY DEF Supported
  <2>3. "dup" \in fit BY <1>1, <1>2, <2>1, <2>2
  <2>4. \A p \in Outputs : "REMOTE_SUBMIX" \in Supported(p) => p \in {"dup", "submix"}
    BY ProfilesAssumption DEF Outputs, Supported, Mixed, Wired, Sco, A2dp, Usb
  <2>5. fit \subseteq {"dup", "submix"} BY <1>3, <1>7, <2>4
  <2>6. o = CHOOSE p \in FirstIn(fit, cond.outputs) : TRUE BY <1>4, <2>5
  <2>7. FirstIn(fit, cond.outputs) # {} /\ FirstIn(fit, cond.outputs) \subseteq fit \cap open
    <3>1. Range(cond.outputs) \cap fit # {} BY <2>3
    <3> QED BY <1>3, <3>1, FirstExists
  <2>8. o \in fit BY <2>6, <2>7
  <2>9. {"dup", "submix"} \cap Direct = {} BY DEF Direct, Counted
  <2> QED BY <2>1, <2>5, <2>8, <2>9 DEF device
<1> QED BY <1>6, <1>7

LEMMA DirectOutputs == Direct \cap Profiles \subseteq Outputs \ {"dup", "submix", "primary"}
BY DEF Direct, Counted, Outputs

\* A device that comes or goes takes the tracks of the outputs it closes.
LEMMA AttachedTracked ==
  ASSUME cond \in Conds, Laid(cond), Tracked, NEW d, d \notin cond.available, Pluggable(d),
         NEW ins \in SUBSET InDevices, cond' = Attached(d, ins).cond,
         UNCHANGED <<client, mDirectOpenCount>>
  PROVE  Tracked'
<1> DEFINE r == Attached(d, ins).cond
<1>1. /\ r.available = cond.available \cup {d}
      /\ Range(r.outputs) = Range(cond.outputs) \cup SubmixOf(d)
      /\ r.refs = IF d = "FM" THEN Counts(cond.refs, "primary", "MUSIC", 1) ELSE cond.refs
  BY AttachedTyped
<1> HIDE DEF r
<1>2. /\ Assigned(Range(cond.outputs), client) /\ Matched(cond.refs, cond.available, client)
      /\ Held(Range(cond.outputs), client, mDirectOpenCount) /\ mDirectOpenCount \in [Outputs -> Nat]
  BY DEF Tracked, Agreed
<1>3. SubmixOf(d) \cap Counted = {} BY DEF SubmixOf, Counted
<1>4. Assigned(Range(r.outputs), client) /\ Held(Range(r.outputs), client, mDirectOpenCount)
  BY <1>1, <1>2, <1>3, MoreOpen
<1>5. Matched(r.refs, r.available, client)
  <2>1. cond.refs \in [Outputs -> [Streams -> Int]] BY DEF Conds
  <2>2. CASE d = "FM"
    <3>1. Matched(Counts(cond.refs, "primary", "MUSIC", 1), cond.available \cup {"FM"}, client)
      BY <1>2, <2>1, <2>2, FmMatched
    <3> QED BY <1>1, <2>2, <3>1
  <2>3. CASE d # "FM"
    <3>1. Matched(cond.refs, cond.available \cup {d}, client) BY <1>2, <2>1, <2>3, FmMatched
    <3> QED BY <1>1, <2>3, <3>1
  <2> QED BY <2>2, <2>3
<1>6. Agreed(r, client, mDirectOpenCount) BY <1>2, <1>4, <1>5 DEF Agreed
<1> QED BY <1>6 DEF Tracked, r

LEMMA DetachedTracked ==
  ASSUME cond \in Conds, Laid(cond), Tracked, NEW d, d \in cond.available \ {"SPEAKER"},
         NEW ins \in SUBSET InDevices, cond' = Detached(d, ins).cond, Forget(Detached(d, ins).gone)
  PROVE  Tracked'
<1> DEFINE x == Detached(d, ins)
           r == x.cond
           gone == x.gone
           refs == CountsLeft(cond, gone)
<1>1. /\ r.available = cond.available \ {d} /\ Shut(gone)
      /\ Range(r.outputs) = Range(cond.outputs) \ gone
      /\ r.refs = IF d = "FM" THEN Counts(refs, "primary", "MUSIC", 0 - 1) ELSE refs
  BY DetachedTyped
<1>2. cond' = r /\ client' = Lost(gone) /\ mDirectOpenCount' = CountsWithout(gone)
  BY DEF Forget, CountsWithout
<1>3. refs \in [Outputs -> [Streams -> Int]]
  <2>1. refs = Closed(cond, gone).refs /\ Closed(cond, gone) \in Conds BY ClosedTyped
  <2> HIDE DEF refs, gone
  <2> QED BY <2>1 DEF Conds
<1> HIDE DEF x, r, gone
<1>4. /\ Assigned(Range(cond.outputs) \ gone, Lost(gone))
      /\ Matched(refs, cond.available, Lost(gone))
      /\ Held(Range(cond.outputs) \ gone, Lost(gone), CountsWithout(gone))
      /\ CountsWithout(gone) \in [Outputs -> Nat]
  BY <1>1, Forgotten
<1> HIDE DEF refs
<1>5. Matched(r.refs, r.available, Lost(gone))
  <2> DEFINE cl == Lost(gone)
  <2>1. Matched(refs, cond.available, cl) BY <1>4
  <2> SUFFICES Matched(r.refs, r.available, cl) OBVIOUS
  <2> HIDE DEF cl
  <2>2. CASE d = "FM"
    <3>1. Matched(Counts(refs, "primary", "MUSIC", 0 - 1), cond.available \ {"FM"}, cl)
      BY <1>3, <2>1, <2>2, FmMatched
    <3> QED BY <1>1, <2>2, <3>1
  <2>3. CASE d # "FM"
    <3>1. Matched(refs, cond.available \ {d}, cl) BY <1>3, <2>1, <2>3, FmMatched
    <3> QED BY <1>1, <2>3, <3>1
  <2> QED BY <2>2, <2>3
<1>6. Agreed(r, Lost(gone), CountsWithout(gone)) BY <1>1, <1>4, <1>5 DEF Agreed
<1> QED BY <1>2, <1>6 DEF Tracked

\* What changes neither the open outputs, nor the counts, nor the radio.
LEMMA SameTracked ==
  ASSUME Tracked, UNCHANGED <<client, mDirectOpenCount>>, cond'.outputs = cond.outputs,
         cond'.refs = cond.refs, cond'.available = cond.available
  PROVE  Tracked'
BY DEF Tracked, Agreed

LEMMA ConditionsTracked ==
  ASSUME Typed, Tracked, Conditions
  PROVE  Tracked'
<1>1. cond \in Conds /\ Laid(cond) BY DEF Typed
<1>2. \A d : InDeviceOf(d) \in SUBSET InDevices BY DEF InDeviceOf, InDevices
<1>3. ASSUME NEW d \in Plugs, Connect(d) PROVE Tracked'
  <2> DEFINE ins == cond.inputs \cup InDeviceOf(d)
  <2>1. /\ d \notin cond.available /\ cond' = Attached(d, ins).cond
        /\ UNCHANGED <<client, mDirectOpenCount>>
    BY <1>3 DEF Connect, Apply, directVars
  <2>2. ins \in SUBSET InDevices BY <1>1, <1>2 DEF Conds
  <2>3. Pluggable(d) BY PlugsAssumption DEF Pluggable
  <2> HIDE DEF ins
  <2> QED BY <1>1, <2>1, <2>2, <2>3, AttachedTracked
<1>4. ASSUME NEW d \in Plugs, Disconnect(d) PROVE Tracked'
  <2> DEFINE ins == cond.inputs \ InDeviceOf(d)
  <2>1. /\ d \in cond.available /\ cond' = Detached(d, ins).cond /\ Forget(Detached(d, ins).gone)
    BY <1>4 DEF Disconnect, Apply
  <2>2. ins \in SUBSET InDevices BY <1>1, <1>2 DEF Conds
  <2>3. d # "SPEAKER" BY PlugsAssumption
  <2> HIDE DEF ins
  <2> QED BY <1>1, <2>1, <2>2, <2>3, DetachedTracked
<1>5. ASSUME NEW p \in Phones, SetPhoneState(p) PROVE Tracked'
  <2> DEFINE n == [cond EXCEPT !.phone = p]
             q == checkA2dpSuspend(n)
  <2>1. cond' = q /\ UNCHANGED <<client, mDirectOpenCount>>
    BY <1>5 DEF SetPhoneState, directVars
  <2>2. n \in Conds /\ n.available = cond.available /\ n.outputs = cond.outputs /\ n.refs = cond.refs
    BY <1>1 DEF Conds
  <2> HIDE DEF n
  <2>3. q.available = n.available /\ q.outputs = n.outputs /\ q.refs = n.refs BY <2>2, SuspendTyped
  <2> HIDE DEF q
  <2> QED BY <2>1, <2>2, <2>3, SameTracked
<1>6. ASSUME NEW f \in Forces, SetForceUse(f[1], f[2]) PROVE Tracked'
  <2> DEFINE n == [cond EXCEPT !.force[f[1]] = f[2]]
             q == checkA2dpSuspend(n)
  <2>1. cond' = q /\ UNCHANGED <<client, mDirectOpenCount>>
    BY <1>6 DEF SetForceUse, directVars
  <2>2. n \in Conds /\ n.available = cond.available /\ n.outputs = cond.outputs /\ n.refs = cond.refs
    <3>1. f[2] \in Forced BY DEF Forced
    <3> QED BY <1>1, <3>1 DEF Conds
  <2> HIDE DEF n
  <2>3. q.available = n.available /\ q.outputs = n.outputs /\ q.refs = n.refs BY <2>2, SuspendTyped
  <2> HIDE DEF q
  <2> QED BY <2>1, <2>2, <2>3, SameTracked
<1>7. ASSUME NEW s \in Streams, NEW device, SetStreamVolumeIndex(s, device) PROVE Tracked'
  BY <1>7 DEF SetStreamVolumeIndex, Tracked, directVars
<1> QED BY <1>3, <1>4, <1>5, <1>6, <1>7 DEF Conditions

LEMMA GetTracked ==
  ASSUME Typed, Tracked, NEW c \in Clients, NEW w \in Wants[c], GetOutput(c, w)
  PROVE  Tracked'
<1> DEFINE t == Strategy(StreamOf[c])
           device == Device(cond, t)
           open == Range(cond.outputs)
<1>1. cond \in Conds /\ Laid(cond) BY DEF Typed
<1>2. /\ Assigned(open, client) /\ Matched(cond.refs, cond.available, client)
      /\ Held(open, client, mDirectOpenCount) /\ mDirectOpenCount \in [Outputs -> Nat]
      /\ open \in SUBSET Outputs
  BY <1>1, OpenOutputs DEF Tracked, Agreed
<1>3. t \in Strategies BY ClientsAssumption, StrategiesOf
<1>4. client[c].state = "idle" BY DEF GetOutput
<1>5. \/ /\ Holds(c, Mixer(device, w)) /\ UNCHANGED <<cond, mDirectOpenCount>>
         /\ DirectFor(device, w) = {}
      \/ \E o \in Direct \cap Profiles :
           /\ o \in open /\ Holds(c, o) /\ UNCHANGED cond
           /\ mDirectOpenCount' = [mDirectOpenCount EXCEPT ![o] = @ + 1]
      \/ \E o \in Direct \cap Profiles :
           /\ cond' = [Closed(cond, {o}) EXCEPT !.outputs = Append(@, o)]
           /\ client' = Takes(Lost({o}), c, o)
           /\ mDirectOpenCount' = [mDirectOpenCount EXCEPT ![o] = 1]
      \/ \E o \in Direct \cap Profiles : cond' = Closed(cond, {o}) /\ Forget({o})
  BY DEF GetOutput, DirectFor, policyVars, directVars, Takes
<1> HIDE DEF device, t
<1>6. CASE /\ Holds(c, Mixer(device, w)) /\ UNCHANGED <<cond, mDirectOpenCount>>
           /\ DirectFor(device, w) = {}
  <2> DEFINE o == Mixer(device, w)
  <2>1. o \in open /\ o \notin Direct /\ (t = "PHONE" => o \notin {"dup", "submix"})
    BY <1>1, <1>3, <1>6, MixerOpen DEF device
  <2>2. client' = Takes(client, c, o) BY <1>6 DEF Holds, Takes
  <2> HIDE DEF o
  <2>3. /\ Assigned(open, client') /\ \A p, s : Playing(client', p, s) = Playing(client, p, s)
        /\ \A p : Holders(client', p) = IF p = o THEN Holders(client, p) \cup {c} ELSE Holders(client, p)
    <3>1. o \in open /\ o \in Outputs /\ (Strategy(StreamOf[c]) # "PHONE" \/ o \notin {"dup", "submix"})
      BY <1>2, <2>1 DEF t
    <3> HIDE DEF open
    <3>2. Taken(open, client, c, o, Takes(client, c, o)) BY <1>2, <1>4, <3>1, HoldMatched
    <3> QED BY <2>2, <3>2 DEF Taken
  <2>4. Matched(cond.refs, cond.available, client') BY <1>2, <2>3, SamePlayers
  <2>5. Held(open, client', mDirectOpenCount) BY <1>2, <2>1, <2>3, SameHolders
  <2> QED BY <1>2, <1>6, <2>3, <2>4, <2>5 DEF Tracked, Agreed
<1>7. ASSUME NEW o \in Direct \cap Profiles, o \in open, Holds(c, o), UNCHANGED cond,
             mDirectOpenCount' = [mDirectOpenCount EXCEPT ![o] = @ + 1]
      PROVE  Tracked'
  <2>1. o \in Outputs \ {"dup", "submix", "primary"} BY DirectOutputs
  <2>2. client' = Takes(client, c, o) BY <1>7 DEF Holds, Takes
  <2>3. /\ Assigned(open, client') /\ \A p, s : Playing(client', p, s) = Playing(client, p, s)
        /\ \A p : Holders(client', p) = IF p = o THEN Holders(client, p) \cup {c} ELSE Holders(client, p)
        /\ c \notin Holders(client, o)
    <3>1. o \in open /\ o \in Outputs /\ (Strategy(StreamOf[c]) # "PHONE" \/ o \notin {"dup", "submix"})
      BY <1>2, <1>7, <2>1
    <3> HIDE DEF open
    <3>2. Taken(open, client, c, o, Takes(client, c, o)) BY <1>2, <1>4, <3>1, HoldMatched
    <3> QED BY <2>2, <3>2 DEF Taken
  <2>4. Matched(cond.refs, cond.available, client') BY <1>2, <2>3, SamePlayers
  <2>5. Cardinality(Holders(client', o)) = Cardinality(Holders(client, o)) + 1
    BY <2>3, PlayersFinite, FS_AddElement
  <2>6. Held(open, client', mDirectOpenCount')
    <3> SUFFICES ASSUME NEW p \in Direct \cap Profiles
                 PROVE  /\ mDirectOpenCount'[p] = Cardinality(Holders(client', p))
                        /\ p \in Counted => (p \in open <=> Holders(client', p) # {})
      BY DEF Held
    <3>1. /\ mDirectOpenCount[p] = Cardinality(Holders(client, p))
          /\ p \in Counted => (p \in open <=> Holders(client, p) # {})
      BY <1>2 DEF Held
    <3>2. mDirectOpenCount'[p] = IF p = o THEN mDirectOpenCount[p] + 1 ELSE mDirectOpenCount[p]
      BY <1>2, <1>7, DirectOutputs
    <3>3. CASE p = o BY <1>7, <2>3, <2>5, <3>1, <3>2, <3>3
    <3>4. CASE p # o BY <2>3, <3>1, <3>2, <3>4
    <3> QED BY <3>3, <3>4
  <2>7. mDirectOpenCount' \in [Outputs -> Nat] BY <1>2, <1>7
  <2> QED BY <1>7, <2>3, <2>4, <2>6, <2>7 DEF Tracked, Agreed
<1>8. ASSUME NEW o \in Direct \cap Profiles,
             cond' = [Closed(cond, {o}) EXCEPT !.outputs = Append(@, o)],
             client' = Takes(Lost({o}), c, o), mDirectOpenCount' = [mDirectOpenCount EXCEPT ![o] = 1]
      PROVE  Tracked'
  <2> DEFINE cl == Lost({o})
             counts == CountsWithout({o})
  <2>1. o \in Outputs \ {"dup", "submix", "primary"} BY DirectOutputs
  <2>2. /\ cond'.available = cond.available /\ cond'.refs = CountsLeft(cond, {o})
        /\ Range(cond'.outputs) = open \cup {o} /\ Shut({o})
    BY <1>1, <1>8, DirectReopened
  <2>3. /\ Assigned(open \ {o}, cl) /\ Matched(cond'.refs, cond'.available, cl)
        /\ Held(open \ {o}, cl, counts) /\ counts \in [Outputs -> Nat]
    BY <1>1, <2>2, Forgotten
  <2>4. cl[c].state = "idle" BY <1>4 DEF Lost, Idle
  <2>5. Assigned(open \cup {o}, cl) BY <2>3 DEF Assigned
  <2>6. Holders(cl, o) = {}
    <3>1. "none" \notin {o} BY <2>1, ProfilesAssumption DEF Outputs
    <3> QED BY <3>1, LostHolders
  <2>7. client' = Takes(cl, c, o) BY <1>8
  <2> HIDE DEF cl
  <2>8. /\ Assigned(open \cup {o}, client') /\ \A p, s : Playing(client', p, s) = Playing(cl, p, s)
        /\ \A p : Holders(client', p) = IF p = o THEN Holders(cl, p) \cup {c} ELSE Holders(cl, p)
    <3> DEFINE more == open \cup {o}
    <3>1. o \in more /\ o \in Outputs /\ (Strategy(StreamOf[c]) # "PHONE" \/ o \notin {"dup", "submix"})
      BY <2>1
    <3>2. Assigned(more, cl) BY <2>5
    <3> SUFFICES Taken(more, cl, c, o, Takes(cl, c, o)) BY <2>7 DEF Taken
    <3> HIDE DEF more
    <3> QED BY <2>4, <3>1, <3>2, HoldMatched
  <2>9. Matched(cond'.refs, cond'.available, client') BY <2>3, <2>8, SamePlayers
  <2>10. Cardinality(Holders(client', o)) = 1 /\ Holders(client', o) # {}
    <3>1. Holders(client', o) = {} \cup {c} BY <2>6, <2>8
    <3>2. Cardinality({} \cup {c}) = 0 + 1 BY FS_EmptySet, FS_AddElement
    <3> QED BY <3>1, <3>2
  <2>11. Held(open \cup {o}, client', mDirectOpenCount')
    <3> SUFFICES ASSUME NEW p \in Direct \cap Profiles
                 PROVE  /\ mDirectOpenCount'[p] = Cardinality(Holders(client', p))
                        /\ p \in Counted => (p \in open \cup {o} <=> Holders(client', p) # {})
      BY DEF Held
    <3>1. /\ counts[p] = Cardinality(Holders(cl, p))
          /\ p \in Counted => (p \in open \ {o} <=> Holders(cl, p) # {})
      BY <2>3 DEF Held
    <3>2. p \in Outputs BY DirectOutputs
    <3>3. mDirectOpenCount'[p] = IF p = o THEN 1 ELSE counts[p]
      BY <1>2, <1>8, <3>2 DEF CountsWithout
    <3>4. CASE p = o BY <2>10, <3>3, <3>4
    <3>5. CASE p # o BY <2>8, <3>1, <3>3, <3>5
    <3> QED BY <3>4, <3>5
  <2>12. mDirectOpenCount' \in [Outputs -> Nat] BY <1>2, <1>8
  <2> QED BY <2>2, <2>8, <2>9, <2>11, <2>12 DEF Tracked, Agreed
<1>9. ASSUME NEW o \in Direct \cap Profiles, cond' = Closed(cond, {o}), Forget({o})
      PROVE  Tracked'
  <2>1. /\ cond'.available = cond.available /\ cond'.refs = CountsLeft(cond, {o})
        /\ Range(cond'.outputs) = open \ {o} /\ Shut({o})
    BY <1>1, <1>9, DirectReopened
  <2>2. client' = Lost({o}) /\ mDirectOpenCount' = CountsWithout({o})
    BY <1>9 DEF Forget, CountsWithout
  <2> QED BY <1>1, <2>1, <2>2, Forgotten DEF Tracked, Agreed
<1> QED BY <1>5, <1>6, <1>7, <1>8, <1>9

LEMMA ReleaseTracked ==
  ASSUME Typed, Tracked, NEW c \in Clients, ReleaseOutput(c)
  PROVE  Tracked'
<1> DEFINE o == client[c].out
           left == mDirectOpenCount[o] - 1
           open == Range(cond.outputs)
<1>1. cond \in Conds /\ Laid(cond) BY DEF Typed
<1>2. /\ Assigned(open, client) /\ Matched(cond.refs, cond.available, client)
      /\ Held(open, client, mDirectOpenCount) /\ mDirectOpenCount \in [Outputs -> Nat]
      /\ open \in SUBSET Outputs
  BY <1>1, OpenOutputs DEF Tracked, Agreed
<1>3. client[c].state = "held" /\ client' = Drops(c) BY DEF ReleaseOutput, Drops
<1>4. o \in open
  <2>1. o # "none" BY <1>2, <1>3 DEF Assigned
  <2> QED BY <1>2, <2>1 DEF Assigned
<1>5. Dropped(open, c, client')
  <2> HIDE DEF open
  <2> QED BY <1>2, <1>3, ReleaseMatched
<1>6. /\ Assigned(open, client') /\ \A p, s : Playing(client', p, s) = Playing(client, p, s)
      /\ \A p \in Outputs : Holders(client', p) = IF p = o THEN Holders(client, p) \ {c}
                                                  ELSE Holders(client, p)
      /\ c \in Holders(client, o)
  BY <1>5 DEF Dropped
<1>7. Matched(cond.refs, cond.available, client') BY <1>2, <1>6, SamePlayers
<1>8. CASE o \notin Direct
  <2>1. UNCHANGED <<cond, mDirectOpenCount>> BY <1>8 DEF ReleaseOutput, policyVars, directVars
  <2>2. Held(open, client', mDirectOpenCount)
    <3>1. \A p \in Direct \cap Profiles : Holders(client', p) = Holders(client, p)
      BY <1>6, <1>8, DirectOutputs
    <3> QED BY <1>2, <3>1 DEF Held
  <2> QED BY <1>2, <1>6, <1>7, <2>1, <2>2 DEF Tracked, Agreed
<1>9. CASE o \in Direct
  <2>1. o \in Direct \cap Profiles BY <1>2, <1>4, <1>9 DEF Outputs, Direct, Counted
  <2>2. /\ mDirectOpenCount[o] = Cardinality(Holders(client, o))
        /\ o \in Counted => (o \in open <=> Holders(client, o) # {})
    BY <1>2, <2>1 DEF Held
  <2>3. /\ Cardinality(Holders(client', o)) = left /\ left \in Nat
        /\ left = 0 <=> Holders(client', o) = {}
    <3>1. Holders(client', o) = Holders(client, o) \ {c} BY <1>2, <1>4, <1>6
    <3>2. Cardinality(Holders(client, o) \ {c}) = Cardinality(Holders(client, o)) - 1
      <4> DEFINE now == Holders(client, o)
      <4>1. IsFiniteSet(now) /\ c \in now BY <1>6, PlayersFinite
      <4> SUFFICES Cardinality(now \ {c}) = Cardinality(now) - 1 OBVIOUS
      <4> HIDE DEF now
      <4> QED BY <4>1, FS_RemoveElement
    <3>3. Cardinality(Holders(client', o)) = left BY <2>2, <3>1, <3>2
    <3>4. IsFiniteSet(Holders(client', o)) /\ Cardinality(Holders(client', o)) \in Nat
      BY PlayersFinite
    <3> HIDE DEF left
    <3> QED BY <3>3, <3>4, FS_EmptySet
  <2>4. mDirectOpenCount' = [mDirectOpenCount EXCEPT ![o] = left] BY <1>9 DEF ReleaseOutput
  <2>5. CASE left = 0 /\ o \in Counted
    <3>1. cond' = Closed(cond, {o}) BY <1>9, <2>5 DEF ReleaseOutput
    <3>2. /\ cond'.available = cond.available /\ cond'.refs = CountsLeft(cond, {o})
          /\ Range(cond'.outputs) = open \ {o} /\ Shut({o})
      BY <1>1, <2>1, <3>1, DirectReopened
    <3>3. mDirectOpenCount' = CountsWithout({o}) BY <1>2, <2>4, <2>5 DEF CountsWithout
    <3>4. client' = Lost({o})
      <4>1. client \in [Clients -> ClientType] /\ o # "none" /\ \A d \in Clients :
              client[d].out = o => client[d].state # "idle"
        BY <1>2, <1>3 DEF Assigned
      <4>2. \A d \in Clients : client[d].state \in {"idle", "held", "started"}
        BY <4>1 DEF ClientType
      <4>3. \A d \in Clients : client[d].out = o => d \in Holders(client, o) BY <4>1, <4>2 DEF Holders
      <4>4. Holders(client', o) = Holders(client, o) \ {c} BY <1>2, <1>4, <1>6
      <4>5. \A d \in Clients : client[d].out = o <=> d = c BY <2>3, <2>5, <4>3, <4>4
      <4>6. client' = [d \in Clients |-> IF d = c THEN Idle ELSE client[d]]
        BY <1>3, <4>1 DEF Drops
      <4> HIDE DEF o
      <4> QED BY <4>5, <4>6 DEF Lost
    <3> QED BY <1>1, <3>2, <3>3, <3>4, Forgotten DEF Tracked, Agreed
  <2>6. CASE ~(left = 0 /\ o \in Counted)
    <3>1. cond' = cond BY <1>9, <2>6 DEF ReleaseOutput, policyVars
    <3>2. Held(open, client', mDirectOpenCount')
      <4> SUFFICES ASSUME NEW p \in Direct \cap Profiles
                   PROVE  /\ mDirectOpenCount'[p] = Cardinality(Holders(client', p))
                          /\ p \in Counted => (p \in open <=> Holders(client', p) # {})
        BY DEF Held
      <4>1. /\ mDirectOpenCount[p] = Cardinality(Holders(client, p))
            /\ p \in Counted => (p \in open <=> Holders(client, p) # {})
        BY <1>2 DEF Held
      <4>2. mDirectOpenCount'[p] = IF p = o THEN left ELSE mDirectOpenCount[p]
        BY <1>2, <2>4, DirectOutputs
      <4> HIDE DEF left, o, open
      <4>3. CASE p = o BY <1>4, <2>3, <2>6, <4>2, <4>3
      <4>4. CASE p # o BY <1>6, <4>1, <4>2, <4>4, DirectOutputs
      <4> QED BY <4>3, <4>4
    <3>3. mDirectOpenCount' \in [Outputs -> Nat] BY <1>2, <2>3, <2>4
    <3> QED BY <1>6, <1>7, <3>1, <3>2, <3>3 DEF Tracked, Agreed
  <2> QED BY <2>5, <2>6
<1> QED BY <1>8, <1>9

LEMMA TracksTracked ==
  ASSUME Typed, Tracked, Tracks
  PROVE  Tracked'
<1> DEFINE open == Range(cond.outputs)
<1>1. cond \in Conds /\ Laid(cond) BY DEF Typed
<1>2. /\ Assigned(open, client) /\ Matched(cond.refs, cond.available, client)
      /\ Held(open, client, mDirectOpenCount) /\ mDirectOpenCount \in [Outputs -> Nat]
      /\ open \in SUBSET Outputs /\ cond.refs \in [Outputs -> [Streams -> Int]]
  BY <1>1, OpenOutputs DEF Tracked, Agreed, Conds
<1>3. ASSUME NEW refs, cond' = [cond EXCEPT !.refs = refs], UNCHANGED mDirectOpenCount,
             MovedOnly(open, cond.available, refs, client')
      PROVE  Tracked'
  <2>1. cond'.outputs = cond.outputs /\ cond'.available = cond.available /\ cond'.refs = refs
    BY <1>1, <1>3 DEF Conds
  <2>2. Held(open, client', mDirectOpenCount) BY <1>2, <1>3, SameHolders DEF MovedOnly
  <2> QED BY <1>2, <1>3, <2>1, <2>2 DEF Tracked, Agreed, MovedOnly
<1>4. ASSUME NEW c \in Clients, StartOutput(c) PROVE Tracked'
  <2> DEFINE refs == Counts(cond.refs, client[c].out, StreamOf[c], 1)
  <2>1. /\ cond' = [cond EXCEPT !.refs = refs] /\ UNCHANGED mDirectOpenCount
        /\ client[c].state = "held" /\ client' = Moves(c, "started")
    BY <1>4 DEF StartOutput, Moves, directVars
  <2>2. MovedOnly(open, cond.available, refs, Moves(c, "started"))
    <3> HIDE DEF open
    <3> QED BY <1>2, <2>1, StartMatched
  <2> HIDE DEF refs
  <2> QED BY <1>3, <2>1, <2>2
<1>5. ASSUME NEW c \in Clients, StopOutput(c) PROVE Tracked'
  <2> DEFINE refs == Counts(cond.refs, client[c].out, StreamOf[c], 0 - 1)
  <2>1. /\ cond' = [cond EXCEPT !.refs = refs] /\ UNCHANGED mDirectOpenCount
        /\ client[c].state = "started" /\ client' = Moves(c, "held")
    BY <1>5 DEF StopOutput, Moves, directVars
  <2>2. MovedOnly(open, cond.available, refs, Moves(c, "held"))
    <3> HIDE DEF open
    <3> QED BY <1>2, <2>1, StopMatched
  <2> HIDE DEF refs
  <2> QED BY <1>3, <2>1, <2>2
<1> QED BY <1>4, <1>5, ReleaseTracked, GetTracked DEF Tracks

LEMMA CaptureTracked ==
  ASSUME Typed, Tracked, Capture
  PROVE  Tracked'
<1>1. cond \in Conds /\ Laid(cond) /\ cond.inputs \in SUBSET InDevices BY DEF Typed, Conds
<1>2. ASSUME NEW i \in Records, GetInput(i) \/ ReleaseInput(i) PROVE Tracked'
  BY <1>2 DEF GetInput, ReleaseInput, Tracked, policyVars, directVars
<1>3. ASSUME NEW i \in Records, StartInput(i) PROVE Tracked'
  <2>1. /\ UNCHANGED <<client, mDirectOpenCount>>
        /\ \/ /\ "REMOTE_SUBMIX" \notin cond.available /\ "submix" \in Profiles
              /\ cond' = Attached("REMOTE_SUBMIX", cond.inputs).cond
           \/ cond' = cond
    BY <1>3 DEF StartInput, Apply, policyVars, directVars
  <2>2. CASE cond' = cond BY <2>1, <2>2, SameTracked
  <2>3. CASE /\ "REMOTE_SUBMIX" \notin cond.available /\ "submix" \in Profiles
             /\ cond' = Attached("REMOTE_SUBMIX", cond.inputs).cond
    <3>1. Pluggable("REMOTE_SUBMIX") BY <2>3 DEF Pluggable
    <3> QED BY <1>1, <2>1, <2>3, <3>1, AttachedTracked
  <2> QED BY <2>1, <2>2, <2>3
<1>4. ASSUME NEW i \in Records, StopInput(i) PROVE Tracked'
  <2> DEFINE x == Detached("REMOTE_SUBMIX", cond.inputs)
  <2>1. \/ /\ "REMOTE_SUBMIX" \in cond.available
           /\ cond' = x.cond /\ Forget(x.gone)
        \/ cond' = cond /\ Forget({})
    BY <1>4 DEF StopInput
  <2>2. CASE cond' = cond /\ Forget({})
    <3>1. client \in [Clients -> ClientType] /\ mDirectOpenCount \in [Outputs -> Nat]
      BY DEF Tracked, Agreed, Assigned
    <3>2. UNCHANGED <<client, mDirectOpenCount>> BY <2>2, <3>1 DEF Forget, Lost
    <3> QED BY <2>2, <3>2, SameTracked
  <2>3. CASE "REMOTE_SUBMIX" \in cond.available /\ cond' = x.cond /\ Forget(x.gone)
    BY <1>1, <2>3, DetachedTracked
  <2> QED BY <2>1, <2>2, <2>3
<1> QED BY <1>2, <1>3, <1>4 DEF Capture

LEMMA InitTracked == Init => Tracked
<1> SUFFICES ASSUME Init PROVE Tracked OBVIOUS
<1>1. /\ client = [c \in Clients |-> Idle] /\ mDirectOpenCount = [o \in Outputs |-> 0] /\ cond = Calm
      /\ Idle \in ClientType /\ Idle.out = "none" /\ Idle.state = "idle"
  BY DEF Init, Idle, ClientType
<1>2. Assigned(Range(cond.outputs), client) BY <1>1 DEF Assigned
<1>3. \A o, s : Playing(client, o, s) = {} /\ Holders(client, o) = {} BY <1>1 DEF Playing, Holders
<1>4. Matched(cond.refs, cond.available, client)
  <2>1. \A o \in Outputs, s \in Streams : cond.refs[o][s] = 0 BY <1>1 DEF Calm
  <2>2. \A o, s : FmExtra(cond.available, o, s) = 0 BY <1>1 DEF FmExtra, Calm
  <2> QED BY <1>3, <2>1, <2>2, FS_EmptySet DEF Matched
<1>5. Held(Range(cond.outputs), client, mDirectOpenCount)
  <2>1. Range(cond.outputs) = {"primary", "fast"} BY <1>1 DEF Calm, Range
  <2>2. Counted \cap {"primary", "fast"} = {} BY DEF Counted
  <2> QED BY <1>1, <1>3, <2>1, <2>2, FS_EmptySet, DirectOutputs DEF Held
<1> QED BY <1>1, <1>2, <1>4, <1>5 DEF Tracked, Agreed

\* The tracks have open outputs, and what is counted for them agrees: the use
\* counts, and the counts of the direct outputs (changeRefCount() against
\* stopOutput(), closeOutput() and the duplicating output).
THEOREM TrackedAlways == Spec => []Tracked
<1>1. Typed /\ Tracked /\ [Next]_vars => Tracked'
  <2> SUFFICES ASSUME Typed, Tracked, [Next]_vars PROVE Tracked' OBVIOUS
  <2>1. CASE UNCHANGED vars BY <2>1 DEF vars, policyVars, directVars, Tracked
  <2> QED BY <2>1, ConditionsTracked, TracksTracked, CaptureTracked DEF Next
<1> QED BY InitTracked, <1>1, TypedAlways, PTL DEF Spec

\* A use count is the number of tracks that play: whatever order tracks start,
\* stop, and lose their output in, changeRefCount() is undone exactly once.
THEOREM CountsMatch == Spec => []RefsMatch
<1>1. Tracked => RefsMatch
  <2> SUFFICES ASSUME Tracked, NEW o \in Outputs, NEW s \in Streams
               PROVE  cond.refs[o][s] = Cardinality(PlayingOn(o, s))
                        + IF o = "primary" /\ s = "MUSIC" /\ "FM" \in cond.available THEN 1 ELSE 0
    BY DEF RefsMatch
  <2>1. cond.refs[o][s] = Cardinality(Playing(client, o, s)) + FmExtra(cond.available, o, s)
    BY DEF Tracked, Agreed, Matched
  <2>2. PlayingOn(o, s) = Playing(client, o, s) BY DEF PlayingOn, Playing
  <2> QED BY <2>1, <2>2 DEF FmExtra
<1> QED BY <1>1, TrackedAlways, PTL

\* mDirectOpenCount is the number of tracks that hold a direct output, and the
\* output is open exactly while there is one.
THEOREM DirectMatch == Spec => []DirectCounted
<1>1. Tracked => DirectCounted
  BY DEF Tracked, Agreed, Held, Holders, DirectCounted
<1> QED BY <1>1, TrackedAlways, PTL

-----------------------------------------------------------------------------
(* What plays is heard, and what is muted is not.                            *)

\* The streams that nothing but a mute may keep silent: a voice only where it
\* plays, and where it may have a volume.
Loud(q) ==
  [o \in Outputs |-> {s \in Streams : /\ s \in Voice => o \in Range(q.outputs) /\ q.refs[o][s] > 0
                                      /\ ~Refused(q, s)}]
Sounding == mix \in Heard(Loud(cond))

\* Under the conditions r no voice is to be heard that is not under q.
NoLouder(q, r) ==
  /\ r.force["COMMUNICATION"] = q.force["COMMUNICATION"]
  /\ \A o \in Outputs, s \in Streams \cap Voice :
       o \in Range(r.outputs) /\ r.refs[o][s] > 0 => o \in Range(q.outputs) /\ q.refs[o][s] > 0

LEMMA HeardLess ==
  ASSUME NEW loud, NEW less, \A o \in Outputs : less[o] \subseteq loud[o]
  PROVE  Heard(loud) \subseteq Heard(less)
BY DEF Heard

LEMMA NoLouderHeard ==
  ASSUME NEW q, NEW r, NoLouder(q, r), NEW m \in Heard(Loud(q))
  PROVE  m \in Heard(Loud(r))
<1>1. ASSUME NEW o \in Outputs, NEW s \in Loud(r)[o] PROVE s \in Loud(q)[o]
  <2>1. /\ s \in Streams /\ (s \in Voice => o \in Range(r.outputs) /\ r.refs[o][s] > 0)
        /\ ~Refused(r, s)
    BY <1>1 DEF Loud
  <2>2. ~Refused(q, s) BY <2>1 DEF Refused, NoLouder
  <2>3. s \in Voice => o \in Range(q.outputs) /\ q.refs[o][s] > 0 BY <2>1 DEF NoLouder
  <2> QED BY <2>1, <2>2, <2>3 DEF Loud
<1>2. \A o \in Outputs : Loud(r)[o] \subseteq Loud(q)[o] BY <1>1
<1> QED BY <1>2, HeardLess

LEMMA LoudAudible ==
  ASSUME NEW q, NEW r, r.force["COMMUNICATION"] = q.force["COMMUNICATION"]
  PROVE  Audible(r, Loud(q))
BY DEF Audible, Loud, Refused

\* The open outputs, in either order.
LEMMA OpenRoutable ==
  ASSUME NEW q \in Conds, Laid(q)
  PROVE  /\ q.outputs \in Seq(Routable) /\ q.outputs \in Seq(Outputs)
         /\ Reverse(q.outputs) \in Seq(Routable) /\ InCallOrder(q) \in Seq(Routable)
<1>1. q.outputs \in Seq(Outputs) BY DEF Conds
<1>2. \A o \in Range(q.outputs) : o \in Routable
  <2>1. "dup" \in Range(q.outputs) => "submix" \in Range(q.outputs) BY DEF Laid
  <2>2. Range(q.outputs) \subseteq Outputs BY OpenOutputs
  <2> QED BY <2>1, <2>2 DEF Routable, Outputs
<1>3. q.outputs \in Seq(Routable) BY <1>1, <1>2 DEF Range
<1>4. Reverse(q.outputs) \in Seq(Routable) BY <1>3 DEF Reverse
<1> QED BY <1>1, <1>3, <1>4 DEF InCallOrder

\* A voice never plays on the outputs that come and go with the remote submix.
LEMMA VoiceApart ==
  ASSUME cond \in Conds, Tracked, NEW s \in Streams \cap Voice
  PROVE  /\ \A o \in {"submix", "dup"} \cap Outputs : cond.refs[o][s] = 0
         /\ \A o \in Outputs : cond.refs[o][s] \in Nat
         /\ \A o \in Outputs : cond.refs[o][s] > 0 => o \in Range(cond.outputs)
<1>1. /\ Assigned(Range(cond.outputs), client) /\ Matched(cond.refs, cond.available, client)
  BY DEF Tracked, Agreed
<1>2. ASSUME NEW o \in Outputs
      PROVE  /\ cond.refs[o][s] = Cardinality(Playing(client, o, s)) /\ cond.refs[o][s] \in Nat
             /\ cond.refs[o][s] > 0 => Playing(client, o, s) # {}
  <2>1. cond.refs[o][s] = Cardinality(Playing(client, o, s)) + FmExtra(cond.available, o, s)
    BY <1>1 DEF Matched
  <2>2. FmExtra(cond.available, o, s) = 0 BY DEF FmExtra, Voice
  <2>3. Cardinality(Playing(client, o, s)) \in Nat BY PlayersFinite
  <2>4. Playing(client, o, s) = {} => Cardinality(Playing(client, o, s)) = 0 BY FS_EmptySet
  <2> QED BY <2>1, <2>2, <2>3, <2>4
<1>3. Strategy(s) = "PHONE" BY DEF Strategy, Voice
<1>4. ASSUME NEW o \in Outputs, Playing(client, o, s) # {}
      PROVE  o \notin {"submix", "dup"} /\ o \in Range(cond.outputs)
  <2>1. PICK c \in Clients : /\ client[c].state = "started" /\ StreamOf[c] = s
                             /\ o \in Parts(client[c].out) \cup {client[c].out}
    BY <1>4 DEF Playing
  <2>2. /\ client[c].out \notin {"submix", "dup"} /\ client[c].out \in Range(cond.outputs) \cup {"none"}
        /\ client[c].out # "none"
    BY <1>1, <1>3, <2>1 DEF Assigned
  <2>3. o = client[c].out BY <2>1, <2>2 DEF Parts
  <2> QED BY <2>2, <2>3
<1> QED BY <1>2, <1>4

LEMMA OutputsFinite == IsFiniteSet(Outputs)
<1> DEFINE some == <<"primary", "fast", "lpa", "tunnel", "voip_rx", "hdmi", "submix", "dup">>
<1>1. \A o \in Outputs : \E i \in 1..8 : some[i] = o BY ProfilesAssumption DEF Outputs
<1> HIDE DEF some
<1>2. PICK place \in [Outputs -> 1..8] : \A o \in Outputs : some[place[o]] = o
  <2> DEFINE place == [o \in Outputs |-> CHOOSE i \in 1..8 : some[i] = o]
  <2>1. \A o \in Outputs : place[o] \in 1..8 /\ some[place[o]] = o BY <1>1
  <2> QED BY <2>1
<1>3. IsFiniteSet(1..8)
  <2>1. 1 \in Int /\ 8 \in Int OBVIOUS
  <2> QED BY <2>1, FS_Interval, Zenon
<1>4. place \in Injection(Outputs, 1..8) BY <1>2 DEF Injection, IsInjective
<1> QED BY <1>3, <1>4, FS_Injection

\* The mix when a device comes or goes.
LEMMA AttachedHeard ==
  ASSUME cond \in Conds, Laid(cond), NEW d, d \notin cond.available, Pluggable(d),
         NEW ins \in SUBSET InDevices, NEW loud, Audible(Attached(d, ins).cond, loud),
         mix \in Heard(loud)
  PROVE  Attached(d, ins).mix \in Heard(loud)
<1> DEFINE opened == IF d = "REMOTE_SUBMIX" THEN <<"submix", "dup">> ELSE <<>>
           q == checkA2dpSuspend(
                  [cond EXCEPT !.available = @ \cup {d}, !.inputs = ins, !.sco = @ \/ d \in Sco,
                               !.suspended = @ /\ d \notin A2dp, !.outputs = @ \o opened])
           r == FmCounted(q, d, 1)
           m == Opened(mix, Range(opened), {})
           n == IF opened = <<>> THEN m ELSE [m EXCEPT !.device["submix"] = {d}]
           S == Heard(loud)
           table == Fresh(q)
<1>1. /\ Attached(d, ins).cond = r
      /\ Attached(d, ins).mix = IF d \in A2dp /\ "PROXY" \in q.available THEN n
                                ELSE RouteAll(r, table, n, InCallOrder(r), TRUE)
  BY DEF Attached
<1> HIDE DEF q, r, table
<1>2. r \in Conds /\ Laid(r) BY <1>1, AttachedTyped
<1>3. Stable(S, r) /\ \A wanted : RoutesTo(S, wanted) BY <1>1, HeardStable
<1>4. CASE d = "REMOTE_SUBMIX"
  <2> DEFINE os == {"submix", "dup"}
  <2>1. Range(opened) = os /\ opened # <<>>
    <3>1. opened = <<"submix", "dup">> BY <1>4
    <3> QED BY <3>1 DEF Range
  <2>2. os \in SUBSET Outputs /\ d \in OutDevices
    BY <1>4, ProfilesAssumption DEF Pluggable, Outputs, Supported, Mixed, Wired, Sco, A2dp, Usb, OutDevices
  <2>3. IsFiniteSet(os)
    <3>1. IsFiniteSet({} \cup {"submix"}) BY FS_EmptySet, FS_AddElement
    <3>2. IsFiniteSet(({} \cup {"submix"}) \cup {"dup"}) BY <3>1, FS_AddElement
    <3>3. os = ({} \cup {"submix"}) \cup {"dup"} OBVIOUS
    <3> QED BY <3>2, <3>3
  <2> HIDE DEF opened, os
  <2>4. m \in S BY <2>1, <2>2, <2>3, OpenedHeard
  <2> HIDE DEF m
  <2>5. [m EXCEPT !.device["submix"] = {d}] \in S
    <3>1. "submix" \in Outputs /\ {d} \in SUBSET OutDevices BY <2>2 DEF os
    <3> QED BY <1>3, <2>4, <3>1 DEF Stable
  <2>6. n \in S BY <2>1, <2>5
  <2> HIDE DEF n
  <2> DEFINE order == InCallOrder(r)
  <2>7. r.outputs \in Seq(Outputs) /\ order \in Seq(Routable) BY <1>2, OpenRoutable
  <2>8. Attached(d, ins).mix \in {n, RouteAll(r, table, n, order, TRUE)} BY <1>1
  <2> SUFFICES Attached(d, ins).mix \in S OBVIOUS
  <2> HIDE DEF order, S
  <2>9. RouteAll(r, table, n, order, TRUE) \in S BY <1>3, <2>6, <2>7, RouteAllKept
  <2> QED BY <2>6, <2>8, <2>9
<1>5. CASE d # "REMOTE_SUBMIX"
  <2>1. Range(opened) = {} /\ opened = <<>> BY <1>5 DEF Range
  <2>2. IsFiniteSet({}) BY FS_EmptySet
  <2> HIDE DEF opened
  <2>3. m \in S BY <2>1, <2>2, OpenedHeard
  <2> HIDE DEF m
  <2>4. n \in S BY <2>1, <2>3
  <2> HIDE DEF n
  <2> DEFINE order == InCallOrder(r)
  <2>5. r.outputs \in Seq(Outputs) /\ order \in Seq(Routable) BY <1>2, OpenRoutable
  <2>6. Attached(d, ins).mix \in {n, RouteAll(r, table, n, order, TRUE)} BY <1>1
  <2> SUFFICES Attached(d, ins).mix \in S OBVIOUS
  <2> HIDE DEF order, S
  <2>7. RouteAll(r, table, n, order, TRUE) \in S BY <1>3, <2>4, <2>5, RouteAllKept
  <2> QED BY <2>4, <2>6, <2>7
<1> QED BY <1>4, <1>5

LEMMA DetachedHeard ==
  ASSUME cond \in Conds, Laid(cond), NEW d, d \in cond.available \ {"SPEAKER"},
         NEW ins \in SUBSET InDevices, NEW loud, Audible(Detached(d, ins).cond, loud),
         mix \in Heard(loud)
  PROVE  Detached(d, ins).mix \in Heard(loud)
<1> DEFINE q == checkA2dpSuspend(
                  [cond EXCEPT !.available = @ \ {d}, !.inputs = ins, !.sco = @ /\ d \notin Sco,
                               !.suspended = @ /\ d \notin A2dp])
           gone == Gone(q)
           table == Fresh(Closed(q, gone))
           s == FmCounted(Closed(q, gone), d, 0 - 1)
           m == Opened(mix, gone, {})
           S == Heard(loud)
<1>1. /\ Detached(d, ins).cond = s /\ Detached(d, ins).gone = gone
      /\ Detached(d, ins).mix = RouteAll(s, table, m, InCallOrder(s), TRUE)
  BY DEF Detached, Gone
<1> HIDE DEF q, gone, table, s
<1>2. s \in Conds /\ Laid(s) /\ Shut(gone) BY <1>1, DetachedTyped
<1>3. Stable(S, s) /\ \A wanted : RoutesTo(S, wanted) BY <1>1, HeardStable
<1>4. gone \in SUBSET Outputs /\ IsFiniteSet(gone) BY <1>2, OutputsFinite, FS_Subset DEF Shut
<1>5. m \in S BY <1>4, OpenedHeard
<1> HIDE DEF m
<1> DEFINE order == InCallOrder(s)
<1>6. s.outputs \in Seq(Outputs) /\ order \in Seq(Routable) BY <1>2, OpenRoutable
<1>7. Detached(d, ins).mix = RouteAll(s, table, m, order, TRUE) BY <1>1
<1> SUFFICES Detached(d, ins).mix \in S OBVIOUS
<1> HIDE DEF order, S
<1>8. RouteAll(s, table, m, order, TRUE) \in S BY <1>3, <1>5, <1>6, RouteAllKept
<1> QED BY <1>7, <1>8

\* No voice starts when outputs are closed, or when a device comes or goes.
LEMMA LeftQuiet ==
  ASSUME cond \in Conds, Tracked, NEW gone, NEW o \in Outputs, NEW s \in Streams \cap Voice
  PROVE  CountsLeft(cond, gone)[o][s] > 0 => o \notin gone /\ cond.refs[o][s] > 0
<1>1. CountsLeft(cond, gone)[o][s] =
        IF o \in gone THEN 0
        ELSE IF o = "primary" /\ "dup" \in gone THEN cond.refs[o][s] - cond.refs["dup"][s]
        ELSE cond.refs[o][s]
  BY DEF CountsLeft
<1>2. "dup" \in Outputs BY DEF Outputs
<1>3. cond.refs[o][s] \in Nat /\ cond.refs["dup"][s] \in Nat BY <1>2, VoiceApart
<1> QED BY <1>1, <1>3

LEMMA AttachedQuiet ==
  ASSUME cond \in Conds, Laid(cond), Tracked, NEW d, d \notin cond.available, Pluggable(d),
         NEW ins \in SUBSET InDevices
  PROVE  NoLouder(cond, Attached(d, ins).cond)
<1> DEFINE r == Attached(d, ins).cond
<1>1. /\ r.force = cond.force
      /\ Range(r.outputs) = Range(cond.outputs) \cup SubmixOf(d)
      /\ r.refs = IF d = "FM" THEN Counts(cond.refs, "primary", "MUSIC", 1) ELSE cond.refs
  BY AttachedTyped
<1> HIDE DEF r
<1>2. ASSUME NEW o \in Outputs, NEW s \in Streams \cap Voice PROVE r.refs[o][s] = cond.refs[o][s]
  <2>1. "MUSIC" \in Streams /\ s # "MUSIC" BY StreamsAssumption DEF Voice
  <2>2. cond.refs \in [Outputs -> [Streams -> Int]] BY DEF Conds
  <2>3. Shifted(cond.refs, "primary", "MUSIC", 1, Counts(cond.refs, "primary", "MUSIC", 1))
    BY <2>1, <2>2, CountsTyped
  <2>4. Counts(cond.refs, "primary", "MUSIC", 1)[o][s] = cond.refs[o][s] BY <2>1, <2>3 DEF Shifted
  <2> QED BY <1>1, <2>4
<1>3. NoLouder(cond, r)
  <2> SUFFICES ASSUME NEW o \in Outputs, NEW s \in Streams \cap Voice, r.refs[o][s] > 0
               PROVE  o \in Range(cond.outputs) /\ cond.refs[o][s] > 0
    BY <1>1 DEF NoLouder
  <2>1. cond.refs[o][s] > 0 BY <1>2
  <2> QED BY <2>1, VoiceApart
<1> QED BY <1>3 DEF r

LEMMA DetachedQuiet ==
  ASSUME cond \in Conds, Laid(cond), Tracked, NEW d, d \in cond.available \ {"SPEAKER"},
         NEW ins \in SUBSET InDevices
  PROVE  NoLouder(cond, Detached(d, ins).cond)
<1> DEFINE x == Detached(d, ins)
           r == x.cond
           gone == x.gone
           refs == CountsLeft(cond, gone)
<1>1. /\ r.force = cond.force
      /\ r.refs = IF d = "FM" THEN Counts(refs, "primary", "MUSIC", 0 - 1) ELSE refs
  BY DetachedTyped
<1>2. refs \in [Outputs -> [Streams -> Int]]
  <2>1. refs = Closed(cond, gone).refs /\ Closed(cond, gone) \in Conds BY ClosedTyped
  <2> HIDE DEF refs, gone
  <2> QED BY <2>1 DEF Conds
<1> HIDE DEF x, r, gone
<1>3. ASSUME NEW o \in Outputs, NEW s \in Streams \cap Voice PROVE r.refs[o][s] = refs[o][s]
  <2> HIDE DEF refs
  <2>1. "MUSIC" \in Streams /\ s # "MUSIC" BY StreamsAssumption DEF Voice
  <2>2. Shifted(refs, "primary", "MUSIC", 0 - 1, Counts(refs, "primary", "MUSIC", 0 - 1))
    BY <1>2, <2>1, CountsTyped
  <2>3. Counts(refs, "primary", "MUSIC", 0 - 1)[o][s] = refs[o][s] BY <2>1, <2>2 DEF Shifted
  <2> QED BY <1>1, <2>3
<1>4. NoLouder(cond, r)
  <2> SUFFICES ASSUME NEW o \in Outputs, NEW s \in Streams \cap Voice, r.refs[o][s] > 0
               PROVE  o \in Range(cond.outputs) /\ cond.refs[o][s] > 0
    BY <1>1 DEF NoLouder
  <2>1. refs[o][s] > 0 BY <1>3
  <2>2. cond.refs[o][s] > 0 BY <2>1, LeftQuiet
  <2> QED BY <2>2, VoiceApart
<1> QED BY <1>4 DEF r, x

\* A route is set under conditions that let no more be heard.
LEMMA RoutedHeard ==
  ASSUME NEW q \in Conds, Laid(q), NEW loud, Audible(q, loud), NEW m \in Heard(loud),
         NEW o \in Routable, NEW wanted, NEW force \in BOOLEAN
  PROVE  setOutputDevice(q, m, o, wanted, force) \in Heard(loud)
<1> DEFINE S == Heard(loud)
<1>1. Stable(S, q) /\ RoutesTo(S, wanted) BY HeardStable
<1>2. q.outputs \in Seq(Outputs) BY DEF Conds
<1> HIDE DEF S
<1>3. m \in S BY DEF S
<1>4. setOutputDevice(q, m, o, wanted, force) \in S BY <1>1, <1>2, <1>3, RoutedKept
<1> QED BY <1>4 DEF S

LEMMA IncallHeard ==
  ASSUME NEW q, NEW loud, Audible(q, loud), NEW m \in Heard(loud),
         NEW starting \in BOOLEAN
  PROVE  /\ Rings(q) \in Nat => AllIncall(q, m, starting) \in Heard(loud)
         /\ \A s : s \in Streams => OneIncall(q, m, s, starting) \in Heard(loud)
<1> DEFINE S == Heard(loud)
<1>1. Stable(S, q) BY HeardStable
<1>2. m \in S OBVIOUS
<1> HIDE DEF S
<1>3. ASSUME Rings(q) \in Nat PROVE AllIncall(q, m, starting) \in S
  <2> DEFINE times == IF isInCall(q) THEN Rings(q) ELSE 0
  <2>1. times \in Nat /\ (times > 0 => "RING" \in Streams) BY <1>3 DEF Rings
  <2> HIDE DEF times
  <2>2. handleIncallSonification(q, m, starting, times) \in S BY <1>1, <1>2, <2>1, IncallKept
  <2> QED BY <2>2 DEF AllIncall, times
<1>4. ASSUME NEW s \in Streams PROVE OneIncall(q, m, s, starting) \in S
  <2> DEFINE times == IF isInCall(q) /\ s = "RING" /\ Rings(q) > 0 THEN 1 ELSE 0
  <2>1. times \in Nat /\ (times > 0 => "RING" \in Streams) BY <1>4
  <2> HIDE DEF times
  <2>2. handleIncallSonification(q, m, starting, times) \in S BY <1>1, <1>2, <2>1, IncallKept
  <2> QED BY <2>2 DEF OneIncall, times
<1> QED BY <1>3, <1>4 DEF S

\* A ringer is counted with a natural number.
LEMMA RingsCounted ==
  ASSUME Tracked
  PROVE  Rings(cond) \in Nat
<1>1. "primary" \in Outputs BY ProfilesAssumption DEF Outputs
<1>2. CASE "RING" \in Streams
  <2>1. cond.refs["primary"]["RING"] =
          Cardinality(Playing(client, "primary", "RING")) + FmExtra(cond.available, "primary", "RING")
    BY <1>1, <1>2 DEF Tracked, Agreed, Matched
  <2> QED BY <1>2, <2>1, PlayersFinite DEF FmExtra, Rings
<1>3. CASE "RING" \notin Streams BY <1>3 DEF Rings
<1> QED BY <1>2, <1>3

LEMMA RouteAllHeard ==
  ASSUME NEW q \in Conds, Laid(q), NEW loud, Audible(q, loud), NEW m \in Heard(loud), NEW table,
         NEW outputs \in Seq(Routable), NEW always \in BOOLEAN
  PROVE  RouteAll(q, table, m, outputs, always) \in Heard(loud)
<1> DEFINE S == Heard(loud)
<1>1. Stable(S, q) /\ \A wanted : RoutesTo(S, wanted) BY HeardStable
<1>2. q.outputs \in Seq(Outputs) BY DEF Conds
<1>3. m \in S OBVIOUS
<1> HIDE DEF S
<1>4. RouteAll(q, table, m, outputs, always) \in S BY <1>1, <1>2, <1>3, RouteAllKept
<1> QED BY <1>4 DEF S

LEMMA ConnectSounding ==
  ASSUME Typed, Tracked, Sounding, NEW d \in Plugs, Connect(d) \/ Disconnect(d)
  PROVE  Sounding'
<1> DEFINE loud == Loud(cond)
<1>1. cond \in Conds /\ Laid(cond) BY DEF Typed
<1>2. InDeviceOf(d) \in SUBSET InDevices BY DEF InDeviceOf, InDevices
<1>3. CASE Connect(d)
  <2> DEFINE ins == cond.inputs \cup InDeviceOf(d)
             x == Attached(d, ins)
  <2>1. d \notin cond.available /\ cond' = x.cond /\ mix' = x.mix BY <1>3 DEF Connect, Apply
  <2>2. ins \in SUBSET InDevices BY <1>1, <1>2 DEF Conds
  <2>3. Pluggable(d) BY PlugsAssumption DEF Pluggable
  <2> HIDE DEF ins
  <2>4. x.cond.force = cond.force BY <1>1, <2>1, <2>2, <2>3, AttachedTyped
  <2>5. Audible(x.cond, loud) BY <2>4, LoudAudible
  <2>6. x.mix \in Heard(loud) BY <1>1, <2>1, <2>2, <2>3, <2>5, AttachedHeard DEF Sounding
  <2>7. NoLouder(cond, x.cond) BY <1>1, <2>1, <2>2, <2>3, AttachedQuiet
  <2> HIDE DEF x
  <2> QED BY <2>1, <2>6, <2>7, NoLouderHeard DEF Sounding
<1>4. CASE Disconnect(d)
  <2> DEFINE ins == cond.inputs \ InDeviceOf(d)
             x == Detached(d, ins)
  <2>1. d \in cond.available /\ cond' = x.cond /\ mix' = x.mix BY <1>4 DEF Disconnect, Apply
  <2>2. ins \in SUBSET InDevices BY <1>1, <1>2 DEF Conds
  <2>3. d # "SPEAKER" BY PlugsAssumption
  <2> HIDE DEF ins
  <2>4. x.cond.force = cond.force BY <1>1, <2>1, <2>2, <2>3, DetachedTyped
  <2>5. Audible(x.cond, loud) BY <2>4, LoudAudible
  <2>6. x.mix \in Heard(loud) BY <1>1, <2>1, <2>2, <2>3, <2>5, DetachedHeard DEF Sounding
  <2>7. NoLouder(cond, x.cond) BY <1>1, <2>1, <2>2, <2>3, DetachedQuiet
  <2> HIDE DEF x
  <2> QED BY <2>1, <2>6, <2>7, NoLouderHeard DEF Sounding
<1> QED BY <1>3, <1>4

LEMMA PhoneSounding ==
  ASSUME Typed, Tracked, Sounding, NEW p \in Phones, SetPhoneState(p)
  PROVE  Sounding'
<1> DEFINE n == [cond EXCEPT !.phone = p]
           q == checkA2dpSuspend(n)
           loud == Loud(cond)
           table == Fresh(q)
           wanted == getNewDevice(q, table, "primary")
           device == IF wanted = {} /\ isInCall(cond) THEN mix.device["primary"] ELSE wanted
           left == AllIncall(cond, mix, FALSE)
           quiet == IF isInCall(q) THEN Quieted(q, table, left) ELSE left
           force == isInCall(cond) \/ isInCall(q)
           first == setOutputDevice(q, quiet, "primary", device, force)
           others == Others(q)
           all == RouteAll(q, table, first, others, FALSE)
<1>1. cond \in Conds /\ Laid(cond) BY DEF Typed
<1>2. cond' = q /\ mix' = AllIncall(q, all, TRUE) BY DEF SetPhoneState
<1>3. /\ q \in Conds /\ q.available = cond.available /\ q.outputs = cond.outputs
      /\ q.force = cond.force /\ q.refs = cond.refs
  <2>1. /\ n \in Conds /\ n.available = cond.available /\ n.outputs = cond.outputs
        /\ n.force = cond.force /\ n.refs = cond.refs
    BY <1>1 DEF Conds
  <2> HIDE DEF n
  <2> QED BY <2>1, SuspendTyped
<1> HIDE DEF q
<1>4. Laid(q) BY <1>1, <1>3 DEF Laid
<1>5. Audible(q, loud) /\ Audible(cond, loud) BY <1>3, LoudAudible
<1>6. Rings(cond) \in Nat /\ Rings(q) \in Nat BY <1>3, RingsCounted DEF Rings
<1>7. left \in Heard(loud) BY <1>5, <1>6, IncallHeard DEF Sounding
<1> HIDE DEF left, table
<1>8. Quieted(q, table, left) \in Heard(loud)
  <2> DEFINE S == Heard(loud)
  <2>1. Stable(S, q) BY <1>5, HeardStable
  <2>2. q.outputs \in Seq(Outputs) BY <1>3 DEF Conds
  <2> SUFFICES Quieted(q, table, left) \in S OBVIOUS
  <2>3. left \in S BY <1>7
  <2> HIDE DEF S
  <2> QED BY <2>1, <2>2, <2>3, QuietedKept
<1>9. quiet \in Heard(loud) BY <1>7, <1>8
<1>10. force \in BOOLEAN BY DEF isInCall
<1> HIDE DEF quiet, device, force, loud
<1>11. "primary" \in Routable BY ProfilesAssumption DEF Routable, Outputs
<1>12. first \in Heard(loud) BY <1>3, <1>4, <1>5, <1>9, <1>10, <1>11, RoutedHeard
<1>13. others \in Seq(Routable)
  <2>1. q.outputs \in Seq(Routable) BY <1>3, <1>4, OpenRoutable
  <2> QED BY <2>1, WithoutRange DEF Others, OutputsLeft
<1> HIDE DEF first, others
<1>14. all \in Heard(loud) BY <1>3, <1>4, <1>5, <1>12, <1>13, RouteAllHeard
<1> HIDE DEF all
<1>15. AllIncall(q, all, TRUE) \in Heard(loud) BY <1>5, <1>6, <1>14, IncallHeard
<1>16. NoLouder(cond, q) BY <1>3 DEF NoLouder
<1> QED BY <1>2, <1>15, <1>16, NoLouderHeard DEF Sounding, loud

\* Once the volumes of streams are set on o, more may be heard there.
LEMMA OnReaches ==
  ASSUME NEW q, NEW loud, NEW m \in Heard(loud), NEW o \in Outputs,
         NEW streams \in SUBSET Streams, NEW more,
         \A p \in Outputs : p # o => more[p] \subseteq loud[p],
         \A s \in more[o] : (s \in streams /\ ~Refused(q, s)) \/ s \in loud[o]
  PROVE  On(q, m, o, streams) \in Heard(more)
<1> DEFINE r == On(q, m, o, streams)
<1>1. m \in Mixes BY DEF Heard
<1>2. Sounded(q, m, o, streams, r) BY <1>1, VolumeOn
<1> HIDE DEF r
<1>3. /\ r \in Mixes /\ r.mutes = m.mutes
      /\ \A p \in Outputs : r.silent[p] = IF p = o THEN m.silent[p] \ Free(q, m, o, streams)
                                          ELSE m.silent[p]
  BY <1>2 DEF Sounded
<1>4. ASSUME NEW p \in Outputs, NEW s \in Streams
      PROVE  /\ r.mutes[p][s] > 0 /\ s \notin Voice \cup {"ENFORCED_AUDIBLE"} => s \in r.silent[p]
             /\ r.mutes[p][s] = 0 /\ s \in more[p] => s \notin r.silent[p]
  <2>1. /\ m.mutes[p][s] > 0 /\ s \notin Voice \cup {"ENFORCED_AUDIBLE"} => s \in m.silent[p]
        /\ m.mutes[p][s] = 0 /\ s \in loud[p] => s \notin m.silent[p]
    BY DEF Heard
  <2>2. CASE p = o
    <3>1. s \in Free(q, m, o, streams) <=> s \in streams /\ m.mutes[o][s] = 0 /\ ~Refused(q, s)
      BY DEF Free
    <3>2. r.silent[o] = m.silent[o] \ Free(q, m, o, streams) BY <1>3
    <3>3. m.mutes[o][s] \in Nat BY <1>1 DEF Mixes
    <3> QED BY <1>3, <2>1, <2>2, <3>1, <3>2, <3>3
  <2>3. CASE p # o BY <1>3, <2>1, <2>3
  <2> QED BY <2>2, <2>3
<1>5. r \in Heard(more) BY <1>3, <1>4 DEF Heard
<1> QED BY <1>5 DEF r

\* An output that is rerouted for communication has its volumes set anew.
LEMMA ReroutedOneHeard ==
  ASSUME NEW q \in Conds, Laid(q), NEW loud, Audible(q, loud), NEW k \in Heard(loud),
         NEW o \in Routable, NEW more, \A p \in Outputs : p # o => more[p] \subseteq loud[p],
         more[o] \subseteq Loud(q)[o], \A s \in Loud(q)[o] : s \notin Voice => s \in loud[o]
  PROVE  ReroutedOne(q, Fresh(q), "COMMUNICATION", k, o) \in Heard(more)
<1> DEFINE device == getNewDevice(q, Fresh(q), o)
           force == device # {}
           set == setOutputDevice(q, k, o, device, force)
           r == On(q, set, o, Streams)
<1>1. ReroutedOne(q, Fresh(q), "COMMUNICATION", k, o) = IF device # {} THEN r ELSE set
  BY DEF ReroutedOne, On, applyStreamVolumes
<1>2. force \in BOOLEAN /\ o \in Outputs BY DEF Routable
<1>3. set \in Heard(loud)
  <2> HIDE DEF device, force
  <2> QED BY <1>2, RoutedHeard
<1>4. ASSUME device = {} PROVE set \in Heard(more)
  <2>1. NewStrategy(q, o) = "NONE"
    <3>1. NewStrategy(q, o) \in Strategies \cup {"NONE"} BY DEF NewStrategy, Strategies
    <3>2. \A t \in Strategies : Fresh(q)[t] # {} BY SelectedDevices DEF Fresh, Laid
    <3>3. device = IF NewStrategy(q, o) = "NONE" THEN {} ELSE Fresh(q)[NewStrategy(q, o)]
      BY DEF getNewDevice
    <3> QED BY <1>4, <3>1, <3>2, <3>3
  <2>2. ~isStrategyActive(q, o, "PHONE") BY <2>1 DEF NewStrategy
  <2>3. \A s \in Loud(q)[o] : s \notin Voice
    <3>1. \A s \in Streams \cap Voice : Strategy(s) = "PHONE" BY DEF Strategy, Voice
    <3> QED BY <1>2, <2>2, <3>1 DEF Loud, isStrategyActive
  <2>4. \A p \in Outputs : more[p] \subseteq loud[p]
    <3>1. more[o] \subseteq loud[o] BY <2>3
    <3> QED BY <3>1
  <2> HIDE DEF set
  <2> QED BY <1>3, <2>4, HeardLess
<1>5. r \in Heard(more)
  <2>1. \A s \in Loud(q)[o] : s \in Streams /\ ~Refused(q, s) BY <1>2 DEF Loud
  <2> HIDE DEF set
  <2> QED BY <1>2, <1>3, <2>1, OnReaches
<1> QED BY <1>1, <1>4, <1>5

\* When the use for communication changes, a voice may have a volume that had
\* none before: the volumes are set anew wherever something plays.
LEMMA ForceSounding ==
  ASSUME Typed, Tracked, Sounding, NEW f \in Forces, SetForceUse(f[1], f[2])
  PROVE  Sounding'
<1> DEFINE u == f[1]
           n == [cond EXCEPT !.force[u] = f[2]]
           q == checkA2dpSuspend(n)
           table == Fresh(q)
           m == mix
<1>1. cond \in Conds /\ Laid(cond) BY DEF Typed
<1>2. cond' = q /\ mix' = Rerouted(q, table, u, m) BY DEF SetForceUse
<1>3. /\ q \in Conds /\ q.available = cond.available /\ q.outputs = cond.outputs
      /\ q.refs = cond.refs
      /\ u # "COMMUNICATION" => q.force["COMMUNICATION"] = cond.force["COMMUNICATION"]
  <2>1. /\ n \in Conds /\ n.available = cond.available /\ n.outputs = cond.outputs
        /\ n.refs = cond.refs
        /\ u # "COMMUNICATION" => n.force["COMMUNICATION"] = cond.force["COMMUNICATION"]
    <3>1. f[2] \in Forced /\ "COMMUNICATION" \in Usages BY DEF Forced, Usages
    <3> QED BY <1>1, <3>1 DEF Conds
  <2> HIDE DEF n
  <2> QED BY <2>1, SuspendTyped
<1> HIDE DEF q
<1>4. Laid(q) BY <1>1, <1>3 DEF Laid
<1>5. q.outputs \in Seq(Routable) /\ q.outputs \in Seq(Outputs) BY <1>3, <1>4, OpenRoutable
<1>6. CASE u # "COMMUNICATION"
  <2> DEFINE S == Heard(Loud(cond))
  <2>1. Audible(q, Loud(cond)) BY <1>3, <1>6, LoudAudible
  <2>2. Stable(S, q) /\ \A wanted : RoutesTo(S, wanted) BY <2>1, HeardStable
  <2>3. m \in S BY DEF Sounding
  <2> HIDE DEF S, table, m
  <2>4. Rerouted(q, table, u, m) \in S BY <1>5, <2>2, <2>3, ReroutedKept
  <2>5. NoLouder(cond, q) BY <1>3, <1>6 DEF NoLouder
  <2> QED BY <1>2, <2>4, <2>5, NoLouderHeard DEF Sounding, S
<1>7. CASE u = "COMMUNICATION"
  <2> DEFINE os == Reverse(q.outputs)
             loud(w) == [o \in Outputs |-> {s \in Loud(q)[o] : s \notin Voice \/ \E i \in w : os[i] = o}]
             K == [w \in SUBSET DOMAIN os |-> Heard(loud(w))]
             S == Heard(loud({}))
  <2>1. \A w \in SUBSET DOMAIN os : Audible(q, loud(w))
    <3>1. Audible(q, Loud(q)) BY LoudAudible
    <3> QED BY <3>1 DEF Audible
  <2>2. Stable(S, q) /\ \A wanted : RoutesTo(S, wanted)
    <3> DEFINE less == loud({})
    <3>1. Audible(q, less)
      <4>1. {} \in SUBSET DOMAIN os OBVIOUS
      <4> HIDE DEF loud, os
      <4> QED BY <2>1, <4>1
    <3> SUFFICES Stable(Heard(less), q) /\ \A wanted : RoutesTo(Heard(less), wanted) OBVIOUS
    <3> HIDE DEF less
    <3> QED BY <3>1, HeardStable
  <2>3. m \in S
    <3>1. \A o \in Outputs : loud({})[o] \subseteq Loud(cond)[o] BY DEF Loud, Refused, Voice
    <3> HIDE DEF loud
    <3> QED BY <3>1, HeardLess DEF Sounding
  <2>4. m \in K[{}] BY <2>3
  <2>5. /\ DOMAIN os = 1..Len(os) /\ Len(os) \in Nat /\ Range(os) = Range(q.outputs)
        /\ \A i \in DOMAIN os : os[i] \in Routable
    <3>1. os \in Seq(Routable) BY <1>3, <1>4, OpenRoutable
    <3>2. Range(os) = Range(q.outputs)
      <4> DEFINE N == Len(q.outputs)
      <4>1. N \in Nat /\ DOMAIN q.outputs = 1..N BY <1>5
      <4>2. DOMAIN os = 1..N /\ \A i \in 1..N : os[i] = q.outputs[(N - i) + 1] BY <1>5 DEF Reverse
      <4> HIDE DEF N, os
      <4>3. \A i \in 1..N : (N - i) + 1 \in 1..N /\ (N - ((N - i) + 1)) + 1 = i BY <4>1
      <4>4. \A i \in 1..N : q.outputs[i] = os[(N - i) + 1] BY <4>2, <4>3
      <4>5. Range(q.outputs) = {q.outputs[i] : i \in 1..N} BY <4>1 DEF Range
      <4>6. Range(os) = {os[i] : i \in 1..N} BY <4>2 DEF Range
      <4>7. \A i \in 1..N : os[i] \in {q.outputs[j] : j \in 1..N} BY <4>2, <4>3
      <4>8. \A i \in 1..N : q.outputs[i] \in {os[j] : j \in 1..N} BY <4>3, <4>4
      <4> QED BY <4>5, <4>6, <4>7, <4>8
    <3> QED BY <3>1, <3>2
  <2> HIDE DEF os
  <2>6. \A w \in SUBSET DOMAIN os : w # {} => Max(w) \in w /\ Max(w) \in DOMAIN os
    BY <2>5, LastElement
  <2>7. ASSUME NEW w \in SUBSET DOMAIN os, NEW k, w # {}, k \in K[w \ {Max(w)}]
        PROVE  ReroutedOne(q, table, u, k, os[Max(w)]) \in K[w]
    <3> DEFINE o == os[Max(w)]
               before == loud(w \ {Max(w)})
               now == loud(w)
    <3>1. o \in Routable /\ o \in Outputs BY <2>5, <2>6, <2>7 DEF Routable
    <3>2. Audible(q, before) /\ k \in Heard(before) BY <2>1, <2>7
    <3>3. ASSUME NEW p \in Outputs, p # o PROVE now[p] \subseteq before[p]
      BY <2>6, <2>7, <3>3
    <3>4. now[o] \subseteq Loud(q)[o] /\ \A s \in Loud(q)[o] : s \notin Voice => s \in before[o]
      BY <3>1
    <3>5. K[w] = Heard(now) OBVIOUS
    <3> SUFFICES ReroutedOne(q, table, u, k, o) \in Heard(now) BY <3>5
    <3> HIDE DEF o, before, now
    <3> QED BY <1>3, <1>4, <1>7, <3>1, <3>2, <3>3, <3>4, ReroutedOneHeard
  <2>8. os = Reverse(q.outputs) BY DEF os
  <2>9. \A o \in Routable : RoutesTo(S, getNewDevice(q, table, o)) BY <2>2
  <2> HIDE DEF K, S, table, m
  <2>10. Rerouted(q, table, u, m) \in K[DOMAIN os]
    BY <1>5, <2>2, <2>3, <2>4, <2>7, <2>8, <2>9, ReroutedReaches
  <2>11. \A o \in Outputs : Loud(q)[o] \subseteq loud(DOMAIN os)[o]
    BY <2>5 DEF Loud, Range
  <2>12. K[DOMAIN os] = Heard(loud(DOMAIN os)) BY DEF K
  <2> HIDE DEF loud
  <2> QED BY <1>2, <2>10, <2>11, <2>12, HeardLess DEF Sounding
<1> QED BY <1>6, <1>7

LEMMA StartSounding ==
  ASSUME Typed, Tracked, Sounding, NEW c \in Clients, StartOutput(c)
  PROVE  Sounding'
<1> DEFINE o == client[c].out
           s == StreamOf[c]
           refs == Counts(cond.refs, o, s, 1)
           q == [cond EXCEPT !.refs = refs]
           loud == Loud(cond)
           device == getNewDevice(q, Fresh(q), o)
           force == \E p \in Range(q.outputs) \ {o} :
                      mForceDeviceChange \/ (SharesModule(o, p) /\ DeviceOf(mix, p) # device)
           set == setOutputDevice(q, mix, o, device, force)
           ringing == OneIncall(q, set, s, TRUE)
<1>1. cond \in Conds /\ Laid(cond) /\ mix \in Heard(loud) BY DEF Typed, Sounding
<1>2. s \in Streams BY ClientsAssumption
<1>3. /\ cond' = q
      /\ \/ mix' = On(q, ringing, o, {s})
         \/ q.refs[o][s] # 1 /\ mix' = OneIncall(q, mix, s, TRUE)
  BY DEF StartOutput, On
<1>4. Shifted(cond.refs, o, s, 1, refs)
  <2>1. cond.refs \in [Outputs -> [Streams -> Int]] BY <1>1 DEF Conds
  <2> QED BY <1>2, <2>1, CountsTyped
<1> HIDE DEF refs
<1>5. /\ q \in Conds /\ q.outputs = cond.outputs /\ q.force = cond.force /\ q.refs = refs
      /\ q.available = cond.available
  BY <1>1, <1>4 DEF Conds, Shifted
<1> HIDE DEF q
<1>6. Laid(q) BY <1>1, <1>5 DEF Laid
<1>7. Audible(q, loud) BY <1>5, LoudAudible
<1>8. /\ o \in Range(cond.outputs) /\ o \in Outputs
      /\ s \in Voice => o \notin {"dup", "submix"}
  <2>1. Assigned(Range(cond.outputs), client) BY DEF Tracked, Agreed
  <2>2. client[c].state = "held" BY DEF StartOutput
  <2>3. s \in Voice => Strategy(s) = "PHONE" BY DEF Voice, Strategy
  <2>4. o \in Range(cond.outputs) /\ (s \in Voice => o \notin {"dup", "submix"})
    BY <2>1, <2>2, <2>3 DEF Assigned
  <2> QED BY <1>1, <2>4, OpenOutputs
<1>9. o \in Routable
  <2>1. cond.outputs \in Seq(Routable) BY <1>1, OpenRoutable
  <2> QED BY <1>8, <2>1 DEF Range
<1>10. set \in Heard(loud)
  <2>1. force \in BOOLEAN OBVIOUS
  <2> HIDE DEF force, device, loud
  <2> QED BY <1>1, <1>5, <1>6, <1>7, <1>9, <2>1, RoutedHeard
<1> HIDE DEF set
<1>11. ringing \in Heard(loud) /\ OneIncall(q, mix, s, TRUE) \in Heard(loud)
  <2> HIDE DEF loud
  <2> QED BY <1>1, <1>2, <1>7, <1>10, IncallHeard
<1> HIDE DEF ringing
<1>12. \A p \in Outputs, x \in Streams \cap Voice :
         q.refs[p][x] = IF p = o /\ x = s THEN cond.refs[o][s] + 1 ELSE cond.refs[p][x]
  <2> SUFFICES ASSUME NEW p \in Outputs, NEW x \in Streams \cap Voice
               PROVE  q.refs[p][x] = IF p = o /\ x = s THEN cond.refs[o][s] + 1 ELSE cond.refs[p][x]
    OBVIOUS
  <2>1. q.refs[p][x] = IF p \in Parts(o) \cup {o} /\ x = s
                       THEN IF cond.refs[p][s] + 1 < 0 THEN 0 ELSE cond.refs[p][s] + 1
                       ELSE cond.refs[p][x]
    BY <1>4, <1>5 DEF Shifted
  <2>2. x = s => Parts(o) = {o} BY <1>8 DEF Parts
  <2>3. x = s => cond.refs[p][s] \in Nat BY <1>1, VoiceApart
  <2> HIDE DEF o, s
  <2> QED BY <2>1, <2>2, <2>3
<1>13. CASE mix' = On(q, ringing, o, {s})
  <2> DEFINE more == Loud(q)
  <2>1. ASSUME NEW p \in Outputs, NEW x \in more[p]
        PROVE  x \in Streams /\ ~Refused(q, x) /\ (x \in loud[p] \/ (p = o /\ x = s))
    <3>1. /\ x \in Streams /\ ~Refused(q, x)
          /\ x \in Voice => p \in Range(q.outputs) /\ q.refs[p][x] > 0
      BY <2>1 DEF Loud
    <3>2. ~Refused(cond, x) BY <1>5, <3>1 DEF Refused
    <3>3. x \in Voice /\ ~(p = o /\ x = s) => cond.refs[p][x] > 0 BY <1>12, <3>1
    <3> QED BY <1>5, <3>1, <3>2, <3>3 DEF Loud
  <2> HIDE DEF more, loud
  <2>2. \A p \in Outputs : p # o => more[p] \subseteq loud[p] BY <2>1
  <2>3. \A x \in more[o] : (x \in {s} /\ ~Refused(q, x)) \/ x \in loud[o] BY <1>8, <2>1
  <2>4. {s} \in SUBSET Streams BY <1>2
  <2> HIDE DEF o, s
  <2>5. On(q, ringing, o, {s}) \in Heard(more) BY <1>8, <1>11, <2>2, <2>3, <2>4, OnReaches
  <2> QED BY <1>3, <1>13, <2>5 DEF Sounding, more
<1>14. CASE q.refs[o][s] # 1 /\ mix' = OneIncall(q, mix, s, TRUE)
  <2>1. NoLouder(cond, q)
    <3> SUFFICES ASSUME NEW p \in Outputs, NEW x \in Streams \cap Voice, q.refs[p][x] > 0
                 PROVE  cond.refs[p][x] > 0
      BY <1>5 DEF NoLouder
    <3>1. cond.refs[p][x] \in Nat BY <1>1, VoiceApart
    <3>2. CASE p = o /\ x = s BY <1>12, <1>14, <3>1, <3>2
    <3>3. CASE ~(p = o /\ x = s) BY <1>12, <3>3
    <3> QED BY <3>2, <3>3
  <2> QED BY <1>3, <1>11, <1>14, <2>1, NoLouderHeard DEF Sounding
<1> QED BY <1>3, <1>13, <1>14

LEMMA StopSounding ==
  ASSUME Typed, Tracked, Sounding, NEW c \in Clients, StopOutput(c)
  PROVE  Sounding'
<1> DEFINE o == client[c].out
           s == StreamOf[c]
           refs == Counts(cond.refs, o, s, -1)
           q == [cond EXCEPT !.refs = refs]
           loud == Loud(cond)
           device == getNewDevice(q, Fresh(q), o)
           left == OneIncall(cond, mix, s, FALSE)
           quiet == IF s = "VOICE_CALL" /\ "RING" \in Streams /\ q.refs[o]["RING"] # 0
                    THEN Muted(q, left, "primary", {"RING"}) ELSE left
           set == setOutputDevice(q, quiet, o, device, FALSE)
           restored == Restored(q, o, device, set)
<1>1. cond \in Conds /\ Laid(cond) /\ mix \in Heard(loud) BY DEF Typed, Sounding
<1>2. s \in Streams BY ClientsAssumption
<1>3. cond' = q /\ mix' \in {restored, left} BY DEF StopOutput
<1>4. Shifted(cond.refs, o, s, 0 - 1, refs)
  <2>1. cond.refs \in [Outputs -> [Streams -> Int]] BY <1>1 DEF Conds
  <2>2. refs = Counts(cond.refs, o, s, 0 - 1) OBVIOUS
  <2> HIDE DEF refs
  <2> QED BY <1>2, <2>1, <2>2, CountsTyped
<1> HIDE DEF refs
<1>5. /\ q \in Conds /\ q.outputs = cond.outputs /\ q.force = cond.force /\ q.refs = refs
      /\ q.available = cond.available
  BY <1>1, <1>4 DEF Conds, Shifted
<1> HIDE DEF q
<1>6. Laid(q) BY <1>1, <1>5 DEF Laid
<1>7. Audible(q, loud) /\ Audible(cond, loud) BY <1>5, LoudAudible
<1>8. o \in Range(cond.outputs)
  <2>1. Assigned(Range(cond.outputs), client) BY DEF Tracked, Agreed
  <2>2. client[c].state = "started" BY DEF StopOutput
  <2> QED BY <2>1, <2>2 DEF Assigned
<1>9. o \in Routable /\ q.outputs \in Seq(Routable) /\ q.outputs \in Seq(Outputs)
  <2>1. q.outputs \in Seq(Routable) /\ q.outputs \in Seq(Outputs) BY <1>5, <1>6, OpenRoutable
  <2> QED BY <1>5, <1>8, <2>1 DEF Range
<1>10. left \in Heard(loud)
  <2> HIDE DEF loud
  <2> QED BY <1>1, <1>2, <1>7, IncallHeard
<1> HIDE DEF left
<1>11. quiet \in Heard(loud)
  <2>1. "primary" \in Outputs BY ProfilesAssumption DEF Outputs
  <2>2. ASSUME "RING" \in Streams PROVE Muted(q, left, "primary", {"RING"}) \in Heard(loud)
    <3>1. {"RING"} \in SUBSET Streams BY <2>2
    <3> HIDE DEF loud
    <3> QED BY <1>10, <2>1, <3>1, MutedHeard
  <2> QED BY <1>10, <2>2
<1> HIDE DEF quiet
<1>12. set \in Heard(loud)
  <2> HIDE DEF device, loud
  <2> QED BY <1>5, <1>6, <1>7, <1>9, <1>11, RoutedHeard
<1> HIDE DEF set, device
<1>13. restored \in Heard(loud)
  <2> DEFINE S == Heard(loud)
  <2>1. Stable(S, q) /\ \A wanted : RoutesTo(S, wanted) BY <1>7, HeardStable
  <2>2. \A p \in Routable : RoutesTo(S, getNewDevice(q, Fresh(q), p)) BY <2>1
  <2>3. set \in S BY <1>12
  <2> SUFFICES restored \in S OBVIOUS
  <2> HIDE DEF S, o
  <2> QED BY <1>9, <2>1, <2>2, <2>3, RestoredKept
<1> HIDE DEF restored
<1>14. NoLouder(cond, q)
  <2> SUFFICES ASSUME NEW p \in Outputs, NEW x \in Streams \cap Voice, q.refs[p][x] > 0
               PROVE  cond.refs[p][x] > 0
    BY <1>5 DEF NoLouder
  <2>1. q.refs[p][x] = IF p \in Parts(o) \cup {o} /\ x = s
                       THEN IF cond.refs[p][s] + (0 - 1) < 0 THEN 0 ELSE cond.refs[p][s] + (0 - 1)
                       ELSE cond.refs[p][x]
    BY <1>4, <1>5 DEF Shifted
  <2>2. cond.refs[p][x] \in Nat BY <1>1, VoiceApart
  <2> HIDE DEF o, s
  <2> QED BY <2>1, <2>2
<1> QED BY <1>3, <1>10, <1>13, <1>14, NoLouderHeard DEF Sounding

\* Outputs that tracks take and give back.
LEMMA HoldSounding ==
  ASSUME Typed, Tracked, Sounding, NEW c \in Clients,
         ReleaseOutput(c) \/ \E w \in Wants[c] : GetOutput(c, w)
  PROVE  Sounding'
<1>1. cond \in Conds /\ Laid(cond) BY DEF Typed
<1>2. ASSUME NEW o \in Outputs, NEW device \in SUBSET OutDevices, NEW m, m = Opened(mix, {o}, device)
      PROVE  m \in Heard(Loud(cond))
  <2>1. IsFiniteSet({} \cup {o}) BY FS_EmptySet, FS_AddElement
  <2>2. {o} = {} \cup {o} OBVIOUS
  <2> QED BY <1>2, <2>1, <2>2, OpenedHeard DEF Sounding
<1>3. ASSUME NEW o \in Outputs, cond'.force = cond.force, cond'.refs = CountsLeft(cond, {o})
      PROVE  NoLouder(cond, cond')
  <2>1. ASSUME NEW p \in Outputs, NEW s \in Streams \cap Voice, cond'.refs[p][s] > 0
        PROVE  p \in Range(cond.outputs) /\ cond.refs[p][s] > 0
    <3>1. CountsLeft(cond, {o})[p][s] > 0 BY <1>3, <2>1
    <3>2. cond.refs[p][s] > 0 BY <1>1, <3>1, LeftQuiet
    <3> QED BY <1>1, <3>2, VoiceApart
  <2> QED BY <1>3, <2>1 DEF NoLouder
<1>4. ASSUME NEW o \in Direct \cap Profiles, NEW device \in SUBSET OutDevices,
             cond' \in {Closed(cond, {o}), [Closed(cond, {o}) EXCEPT !.outputs = Append(@, o)]},
             mix' = Opened(mix, {o}, device)
      PROVE  Sounding'
  <2>1. o \in Outputs BY DirectOutputs
  <2>2. cond'.force = cond.force /\ cond'.refs = CountsLeft(cond, {o}) BY <1>1, <1>4, DirectReopened
  <2>3. NoLouder(cond, cond') BY <1>3, <2>1, <2>2
  <2>4. mix' \in Heard(Loud(cond)) BY <1>2, <1>4, <2>1
  <2> QED BY <2>3, <2>4, NoLouderHeard DEF Sounding
<1>5. {} \in SUBSET OutDevices OBVIOUS
<1>6. CASE ReleaseOutput(c)
  <2> DEFINE o == client[c].out
  <2>1. \/ UNCHANGED policyVars
        \/ o \in Direct /\ cond' = Closed(cond, {o}) /\ mix' = Opened(mix, {o}, {})
    BY <1>6 DEF ReleaseOutput
  <2>2. CASE UNCHANGED policyVars BY <2>2 DEF policyVars, Sounding
  <2>3. CASE o \in Direct /\ cond' = Closed(cond, {o}) /\ mix' = Opened(mix, {o}, {})
    <3>1. o \in Range(cond.outputs)
      <4>1. Assigned(Range(cond.outputs), client) /\ client[c].state = "held"
        BY <1>6 DEF Tracked, Agreed, ReleaseOutput
      <4> QED BY <4>1 DEF Assigned
    <3>2. o \in Outputs BY <1>1, <3>1, OpenOutputs
    <3>3. o \in Direct \cap Profiles BY <2>3, <3>2 DEF Outputs, Direct, Counted
    <3> HIDE DEF o
    <3> QED BY <1>4, <1>5, <2>3, <3>3
  <2> QED BY <2>1, <2>2, <2>3
<1>7. ASSUME NEW w \in Wants[c], GetOutput(c, w) PROVE Sounding'
  <2> DEFINE device == Device(cond, Strategy(StreamOf[c]))
  <2>1. \/ UNCHANGED policyVars
        \/ \E o \in Direct \cap Profiles :
             \/ /\ cond' = [Closed(cond, {o}) EXCEPT !.outputs = Append(@, o)]
                /\ mix' = Opened(mix, {o}, device)
             \/ cond' = Closed(cond, {o}) /\ mix' = Opened(mix, {o}, {})
    BY <1>7 DEF GetOutput, DirectFor
  <2>2. device \in SUBSET OutDevices
    <3>1. Strategy(StreamOf[c]) \in Strategies BY ClientsAssumption, StrategiesOf
    <3>2. device \subseteq cond.available BY <1>1, <3>1, SelectedDevices DEF Laid
    <3> QED BY <1>1, <3>2 DEF Conds
  <2> HIDE DEF device
  <2>3. CASE UNCHANGED policyVars BY <2>3 DEF policyVars, Sounding
  <2> QED BY <1>4, <1>5, <2>1, <2>2, <2>3
<1> QED BY <1>6, <1>7

LEMMA VolumeSounding ==
  ASSUME Typed, Sounding, NEW s \in Streams, NEW device, SetStreamVolumeIndex(s, device)
  PROVE  Sounding'
<1> DEFINE S == Heard(Loud(cond))
<1>1. mix' = VolumeSet(s, device) /\ cond' = cond BY DEF SetStreamVolumeIndex
<1>2. Stable(S, cond) BY LoudAudible, HeardStable
<1>3. mix \in S /\ cond.outputs \in Seq(Outputs) BY DEF Sounding, Typed, Conds
<1>4. Sounding' <=> mix' \in S BY <1>1 DEF Sounding
<1> HIDE DEF S
<1>5. VolumeSet(s, device) \in S BY <1>2, <1>3, VolumeSetKept
<1> QED BY <1>1, <1>4, <1>5

\* Inputs, and the remote submix that comes and goes with them.
LEMMA CaptureSounding ==
  ASSUME Typed, Tracked, Sounding, Capture
  PROVE  Sounding'
<1> DEFINE loud == Loud(cond)
<1>1. cond \in Conds /\ Laid(cond) /\ mix \in Heard(loud) BY DEF Typed, Sounding
<1>2. cond.inputs \in SUBSET InDevices BY <1>1 DEF Conds
<1>3. ASSUME UNCHANGED <<cond, mix>> PROVE Sounding' BY <1>3 DEF Sounding
<1>4. ASSUME NEW i \in Records, GetInput(i) \/ ReleaseInput(i) PROVE Sounding'
  BY <1>3, <1>4 DEF GetInput, ReleaseInput, policyVars
<1>5. ASSUME NEW i \in Records, StartInput(i) PROVE Sounding'
  <2> DEFINE x == Attached("REMOTE_SUBMIX", cond.inputs)
  <2>1. \/ /\ "REMOTE_SUBMIX" \notin cond.available /\ "submix" \in Profiles
           /\ cond' = x.cond /\ mix' = x.mix
        \/ UNCHANGED <<cond, mix>>
    BY <1>5 DEF StartInput, Apply, policyVars
  <2>2. CASE /\ "REMOTE_SUBMIX" \notin cond.available /\ "submix" \in Profiles
             /\ cond' = x.cond /\ mix' = x.mix
    <3>1. Pluggable("REMOTE_SUBMIX") BY <2>2 DEF Pluggable
    <3>2. x.cond.force = cond.force BY <1>1, <1>2, <2>2, <3>1, AttachedTyped
    <3>3. Audible(x.cond, loud) BY <3>2, LoudAudible
    <3>4. x.mix \in Heard(loud) BY <1>1, <1>2, <2>2, <3>1, <3>3, AttachedHeard
    <3>5. NoLouder(cond, x.cond) BY <1>1, <1>2, <2>2, <3>1, AttachedQuiet
    <3> HIDE DEF x
    <3> QED BY <2>2, <3>4, <3>5, NoLouderHeard DEF Sounding
  <2> QED BY <1>3, <2>1, <2>2
<1>6. ASSUME NEW q \in Conds, Laid(q), q.force = cond.force, NoLouder(cond, q), NEW table,
             NEW m \in Heard(loud), cond' = q,
             mix' = setOutputDevice(q, m, "primary", getNewDevice(q, table, "primary"), TRUE)
      PROVE  Sounding'
  <2> DEFINE device == getNewDevice(q, table, "primary")
  <2>1. "primary" \in Routable BY ProfilesAssumption DEF Routable, Outputs
  <2>2. Audible(q, loud) BY <1>6, LoudAudible
  <2>3. mix' = setOutputDevice(q, m, "primary", device, TRUE) BY <1>6
  <2> HIDE DEF device
  <2>4. mix' \in Heard(loud) BY <1>6, <2>1, <2>2, <2>3, RoutedHeard
  <2> QED BY <1>6, <2>4, NoLouderHeard DEF Sounding
<1>7. ASSUME NEW i \in Records, StopInput(i) PROVE Sounding'
  <2> DEFINE x == Detached("REMOTE_SUBMIX", cond.inputs)
             off == inDevice[i] = "REMOTE_SUBMIX" /\ "REMOTE_SUBMIX" \in cond.available
  <2>1. CASE off
    <3>1. "REMOTE_SUBMIX" \in cond.available \ {"SPEAKER"} BY <2>1
    <3>2. /\ cond' = x.cond
          /\ mix' = setOutputDevice(x.cond, x.mix, "primary",
                                    getNewDevice(x.cond, x.table, "primary"), TRUE)
      BY <1>7, <2>1 DEF StopInput
    <3>3. /\ x.cond \in Conds /\ Laid(x.cond) /\ x.cond.force = cond.force
      BY <1>1, <1>2, <3>1, DetachedTyped
    <3>4. Audible(x.cond, loud) BY <3>3, LoudAudible
    <3>5. x.mix \in Heard(loud) BY <1>1, <1>2, <3>1, <3>4, DetachedHeard
    <3>6. NoLouder(cond, x.cond) BY <1>1, <1>2, <3>1, DetachedQuiet
    <3> HIDE DEF x
    <3> QED BY <1>6, <3>2, <3>3, <3>5, <3>6
  <2>2. CASE ~off
    <3>1. /\ cond' = cond
          /\ mix' = setOutputDevice(cond, mix, "primary",
                                    getNewDevice(cond, mDeviceForStrategy, "primary"), TRUE)
      BY <1>7, <2>2 DEF StopInput
    <3>2. NoLouder(cond, cond) BY DEF NoLouder
    <3> QED BY <1>1, <1>6, <3>1, <3>2
  <2> QED BY <2>1, <2>2
<1> QED BY <1>4, <1>5, <1>7 DEF Capture

LEMMA InitSounding == Init => Sounding
<1> SUFFICES ASSUME Init PROVE Sounding OBVIOUS
<1> DEFINE primary == {"primary", "fast"}
<1>1. mix = [device |-> [o \in Outputs |-> IF o \in primary THEN {"SPEAKER"} ELSE {}],
             byDevice |-> [o \in Outputs |-> {}], silent |-> [o \in Outputs |-> {}],
             mutes |-> [o \in Outputs |-> [s \in Streams |-> 0]], routed |-> {"SPEAKER"}]
  BY DEF Init
<1>2. {"SPEAKER"} \in SUBSET OutDevices BY DEF OutDevices
<1> HIDE DEF primary
<1>3. mix \in Mixes BY <1>1, <1>2 DEF Mixes
<1>4. \A o \in Outputs, s \in Streams : mix.mutes[o][s] = 0 /\ s \notin mix.silent[o] BY <1>1
<1> QED BY <1>3, <1>4 DEF Sounding, Heard

\* Whatever is muted, unmuted, opened, closed and routed in between, the volume
\* of a stream that is muted is off and that of one that plays is on.
THEOREM SoundingAlways == Spec => []Sounding
<1>1. Typed /\ Tracked /\ Sounding /\ [Next]_vars => Sounding'
  <2> SUFFICES ASSUME Typed, Tracked, Sounding, [Next]_vars PROVE Sounding' OBVIOUS
  <2>1. CASE UNCHANGED vars BY <2>1 DEF vars, policyVars, Sounding
  <2>2. CASE Tracks BY <2>2, StartSounding, StopSounding, HoldSounding DEF Tracks
  <2>3. CASE Conditions
    BY <2>3, ConnectSounding, PhoneSounding, ForceSounding, VolumeSounding DEF Conditions
  <2>4. CASE Capture BY <2>4, CaptureSounding
  <2> QED BY <2>1, <2>2, <2>3, <2>4 DEF Next
<1> QED BY InitSounding, <1>1, TypedAlways, TrackedAlways, PTL DEF Spec

\* A stream that the manager has muted on an open output is silent there: a
\* volume that is set while it is muted waits (checkAndSetVolume), and no mute
\* is lost or left over when outputs are reopened.
THEOREM MutedSilent == Spec => []SilentWhileMuted
<1>1. Typed /\ Sounding => SilentWhileMuted
  <2> SUFFICES ASSUME Typed, Sounding PROVE SilentWhileMuted OBVIOUS
  <2>1. Range(cond.outputs) \subseteq Outputs BY OpenOutputs DEF Typed
  <2>2. mix \in Mixes BY DEF Sounding, Heard
  <2>3. \A o \in Outputs, s \in Streams : mix.mutes[o][s] \in Nat BY <2>2 DEF Mixes
  <2>4. \A o \in Outputs, s \in Streams :
          mix.mutes[o][s] > 0 /\ s \notin Voice \cup {"ENFORCED_AUDIBLE"} => s \in mix.silent[o]
    BY DEF Sounding, Heard
  <2> QED BY <2>1, <2>4 DEF SilentWhileMuted, Voice
<1> QED BY <1>1, TypedAlways, SoundingAlways, PTL

\* A stream that plays, that no mute is left on and that may have a volume is
\* not silent, however it was muted and unmuted before it started.
THEOREM UnmutedAudible == Spec => []AudibleUnlessMuted
<1>1. Typed /\ Sounding => AudibleUnlessMuted
  <2> SUFFICES ASSUME Typed, Sounding PROVE AudibleUnlessMuted OBVIOUS
  <2>1. Range(cond.outputs) \subseteq Outputs BY OpenOutputs DEF Typed
  <2>2. ASSUME NEW o \in Range(cond.outputs), NEW s \in Streams,
               cond.refs[o][s] > 0, mix.mutes[o][s] = 0, ~Refused(cond, s)
        PROVE  s \notin mix.silent[o]
    <3>1. o \in Outputs BY <2>1
    <3>2. s \in Loud(cond)[o] BY <2>2, <3>1 DEF Loud
    <3> QED BY <2>2, <3>1, <3>2 DEF Sounding, Heard
  <2> QED BY <2>2 DEF AudibleUnlessMuted
<1> QED BY <1>1, TypedAlways, SoundingAlways, PTL

\* The bound on the mutes, which every step of the model keeps.
Muting == \A o \in Outputs, s \in Streams : mix.mutes[o][s] <= MaxMutes

\* Every variable keeps its type.  A use count is a natural number because it
\* counts tracks, and a mute count because it goes down only where it is above
\* zero: neither is a matter of one step.
THEOREM TypeCorrect == Spec => []TypeOK
<1>1. Init => Muting
  <2> SUFFICES ASSUME Init PROVE Muting OBVIOUS
  <2>1. \A o \in Outputs, s \in Streams : mix.mutes[o][s] = 0 BY DEF Init
  <2> QED BY <2>1, BoundsAssumption DEF Muting
<1>2. Muting /\ [Next]_vars => Muting'
  <2> SUFFICES ASSUME Muting, [Next]_vars PROVE Muting' OBVIOUS
  <2>1. CASE UNCHANGED vars BY <2>1 DEF vars, policyVars, Muting
  <2>2. CASE Bounded BY <2>2 DEF Bounded, Muting
  <2> QED BY <2>1, <2>2 DEF Next
<1>3. Typed /\ Tracked /\ Sounding /\ Muting => TypeOK
  <2> SUFFICES ASSUME Typed, Tracked, Sounding, Muting PROVE TypeOK OBVIOUS
  <2>1. cond \in Conds /\ Laid(cond) /\ mDeviceForStrategy \in Tables
        /\ mForceDeviceChange \in BOOLEAN /\ Inputs
    BY DEF Typed
  <2>2. cond.refs \in [Outputs -> [Streams -> Nat]]
    <3>1. cond.refs \in [Outputs -> [Streams -> Int]] BY <2>1 DEF Conds
    <3>2. ASSUME NEW o \in Outputs, NEW s \in Streams PROVE cond.refs[o][s] \in Nat
      <4>1. cond.refs[o][s] = Cardinality(Playing(client, o, s)) + FmExtra(cond.available, o, s)
        BY DEF Tracked, Agreed, Matched
      <4>2. Cardinality(Playing(client, o, s)) \in Nat BY PlayersFinite
      <4> QED BY <4>1, <4>2 DEF FmExtra
    <3> QED BY <3>1, <3>2
  <2>3. CondType(cond)
    <3>1. Range(cond.outputs) \subseteq Outputs BY <2>1, OpenOutputs
    <3> QED BY <2>1, <2>2, <3>1 DEF CondType, Conds, Forced, Laid
  <2>4. MixType(mix)
    <3>1. mix \in Mixes BY DEF Sounding, Heard
    <3>2. mix.mutes \in [Outputs -> [Streams -> 0..MaxMutes]]
      <4>1. mix.mutes \in [Outputs -> [Streams -> Nat]] BY <3>1 DEF Mixes
      <4>2. \A o \in Outputs, s \in Streams : mix.mutes[o][s] \in 0..MaxMutes
        BY <4>1, BoundsAssumption DEF Muting
      <4> QED BY <4>1, <4>2
    <3> QED BY <3>1, <3>2 DEF MixType, Mixes
  <2>5. /\ client \in [Clients -> ClientType] /\ mDirectOpenCount \in [Outputs -> Nat]
    BY DEF Tracked, Agreed, Assigned
  <2>6. /\ Range(mInputs) \subseteq Records /\ recording \subseteq Range(mInputs)
        /\ inDevice \in [Records -> InDevices \cup {"NONE"}]
    BY <2>1 DEF Inputs, Range
  <2> QED BY <2>1, <2>3, <2>4, <2>5, <2>6 DEF TypeOK
<1> QED BY <1>1, <1>2, <1>3, TypedAlways, TrackedAlways, SoundingAlways, PTL DEF Spec

-----------------------------------------------------------------------------
(* The route in a call.                                                      *)

\* The devices of a call, as an ordered list: A2DP and docks are not among them.
CallDevices == Sco \cup Wired \cup Usb \cup {"ANC_HEADPHONE", "ANC_HEADSET", "DGTL_DOCK",
                                             "ANLG_DOCK", "EARPIECE", "SPEAKER"}
CallList(q) ==
  LET usual == Headphones
                 \o When(q.phone # "IN_CALL", <<"USB_ACCESSORY", "USB_DEVICE", "DGTL_DOCK">>)
                 \o <<"ANLG_DOCK", "EARPIECE">>
  IN IF q.force["COMMUNICATION"] = "SPEAKER" THEN <<"SPEAKER">>
     ELSE IF q.force["COMMUNICATION"] = "BT_SCO"
     THEN (<<"SCO_CARKIT">> \o <<"SCO_HEADSET", "SCO">>) \o usual ELSE usual
CallFirst(q) == OrDefault(First(q, CallList(q)))

LEMMA CallDevice ==
  ASSUME NEW q, isInCall(q)
  PROVE  CallList(q) \in Seq(CallDevices) /\ PhoneDevice(q, FALSE) = FmOnSpeaker(q, CallFirst(q))
<1> DEFINE X == CallDevices
           usb == When(q.phone # "IN_CALL", <<"USB_ACCESSORY", "USB_DEVICE", "DGTL_DOCK">>)
           dock == <<"ANLG_DOCK", "EARPIECE">>
           speaker == <<"SPEAKER">>
           usual == Headphones \o usb \o dock
           sco == <<"SCO_CARKIT">> \o <<"SCO_HEADSET", "SCO">>
           list == IF q.force["COMMUNICATION"] = "SPEAKER" THEN speaker
                   ELSE IF q.force["COMMUNICATION"] = "BT_SCO" THEN sco \o usual ELSE usual
<1>1. /\ Headphones \in Seq(X) /\ <<"USB_ACCESSORY", "USB_DEVICE", "DGTL_DOCK">> \in Seq(X)
      /\ dock \in Seq(X) /\ speaker \in Seq(X)
      /\ <<"SCO_CARKIT">> \in Seq(X) /\ <<"SCO_HEADSET", "SCO">> \in Seq(X)
  BY DEF CallDevices, Sco, Wired, Usb, Headphones
<1>2. CallList(q) = list BY DEF CallList
<1>3. \A ds, c : ~c => When(c, ds) = <<>> BY DEF When
<1>4. PhoneDevice(q, FALSE) = FmOnSpeaker(q, OrDefault(First(q,
        IF q.force["COMMUNICATION"] = "SPEAKER" THEN (<<>> \o <<>>) \o speaker
        ELSE IF q.force["COMMUNICATION"] = "BT_SCO"
        THEN sco \o (((<<>> \o Headphones) \o usb) \o dock)
        ELSE ((<<>> \o Headphones) \o usb) \o dock)))
  <2>1. /\ When(~isInCall(q) /\ A2dpUsable(q), <<"A2DP", "A2DP_HEADPHONES">>) = <<>>
        /\ When(~isInCall(q) /\ A2dpUsable(q), <<"A2DP_SPEAKER">>) = <<>>
        /\ When(~isInCall(q), <<"USB_ACCESSORY", "USB_DEVICE", "DGTL_DOCK", "ANLG_DOCK">>) = <<>>
    BY <1>3
  <2>2. When(~isInCall(q) \/ ~FALSE, <<"SCO_CARKIT">>) = <<"SCO_CARKIT">> BY DEF When
  <2> HIDE DEF usb, dock, speaker
  <2> QED BY <2>1, <2>2 DEF PhoneDevice, usb, dock, speaker
<1> HIDE DEF X, dock, speaker
<1>5. <<>> \o Headphones = Headphones /\ <<>> \o <<>> = <<>> /\ <<>> \o speaker = speaker
  <2>1. <<>> \in Seq(X) OBVIOUS
  <2> QED BY <1>1, <2>1, ConcatEmptySeq
<1>6. usb \in Seq(X)
  <2>1. <<>> \in Seq(X) OBVIOUS
  <2> QED BY <1>1, <2>1 DEF When
<1> HIDE DEF usb
<1>7. sco \in Seq(X) /\ usual \in Seq(X) BY <1>1, <1>6, ConcatProperties
<1>8. list \in Seq(X)
  <2> HIDE DEF sco, usual
  <2> QED BY <1>1, <1>7, ConcatProperties
<1>9. PhoneDevice(q, FALSE) = FmOnSpeaker(q, OrDefault(First(q, list))) BY <1>4, <1>5
<1> QED BY <1>2, <1>8, <1>9 DEF CallFirst, X

LEMMA CallSingle ==
  ASSUME NEW q, isInCall(q)
  PROVE  \E x \in CallDevices : CallFirst(q) = {x} /\ x \in q.available \cup {"SPEAKER"}
<1> DEFINE ds == CallList(q)
<1>1. ds \in Seq(CallDevices) BY CallDevice
<1> HIDE DEF ds
<1>2. First(q, ds) \subseteq q.available \cap CallDevices BY <1>1, FirstOfList DEF First
<1>3. \A x, y \in First(q, ds) : x = y
  <2> SUFFICES ASSUME NEW i \in DOMAIN ds, NEW j \in DOMAIN ds, i < j,
                      ds[i] \in q.available, \A k \in 1..j - 1 : ds[k] \notin q.available
               PROVE  FALSE
    <3>1. DOMAIN ds \subseteq Nat BY <1>1
    <3>2. \A i, j \in DOMAIN ds : i = j \/ i < j \/ j < i BY <3>1
    <3> QED BY <3>2 DEF First, FirstIn
  <2>1. i \in 1..j - 1 BY <1>1
  <2> QED BY <2>1
<1>4. "SPEAKER" \in CallDevices BY DEF CallDevices
<1> QED BY <1>2, <1>3, <1>4 DEF CallFirst, OrDefault, ds

\* With FM on the speaker a call may be routed to two devices, and the voip
\* output supports one of them alone.
Clear(q) == "voip_rx" \in Profiles => ~FmForced(q)
LEMMA CallWhole ==
  ASSUME NEW q \in Conds, Laid(q), isInCall(q), Clear(q)
  PROVE  Whole(PhoneDevice(q, FALSE))
<1> DEFINE d == PhoneDevice(q, FALSE)
<1>1. PICK x \in CallDevices : CallFirst(q) = {x} /\ x \in q.available \cup {"SPEAKER"} BY CallSingle
<1>2. d = FmOnSpeaker(q, {x}) BY <1>1, CallDevice
<1>3. x \in q.available BY <1>1 DEF Laid
<1>4. d \subseteq q.available /\ d # {} /\ d \subseteq {x, "SPEAKER"}
  <2>1. "SPEAKER" \in q.available BY DEF Laid
  <2>2. d = {x} \/ d = ({x} \ (Wired \cup {"ANLG_DOCK"})) \cup {"SPEAKER"} BY <1>2 DEF FmOnSpeaker
  <2> HIDE DEF d
  <2> QED BY <1>3, <2>1, <2>2
<1>5. CallDevices \subseteq OutDevices \ {"FM", "REMOTE_SUBMIX", "AUX_DIGITAL"}
  BY DEF CallDevices, OutDevices, Sco, Wired, Usb, A2dp
<1>6. "SPEAKER" \in CallDevices BY DEF CallDevices
<1>7. d \subseteq CallDevices BY <1>4, <1>6
<1>8. q.available \subseteq Supported("primary") \cup {"REMOTE_SUBMIX"} BY DEF Laid
<1>9. d \subseteq Supported("primary") BY <1>4, <1>5, <1>7, <1>8
<1>10. Supported("primary") = Mixed \cup {"FM"} BY DEF Supported
<1>11. d \subseteq Mixed BY <1>5, <1>7, <1>9, <1>10
<1>12. ASSUME NEW o \in Outputs \ {"submix", "dup"} PROVE d \cap Supported(o) \in {{}, d}
  <2>1. CASE o = "voip_rx"
    <3>1. "voip_rx" \in Profiles BY <2>1 DEF Outputs
    <3>2. d = {x} BY <1>2, <3>1 DEF Clear, FmForced, FmOnSpeaker
    <3> QED BY <3>2
  <2>2. CASE o # "voip_rx"
    <3>1. o \in {"primary", "fast", "lpa", "tunnel", "hdmi"} BY <2>2, ProfilesAssumption DEF Outputs
    <3>2. CASE o = "hdmi"
      <4>1. Supported(o) = {"AUX_DIGITAL"} BY <3>2 DEF Supported
      <4> QED BY <1>5, <1>7, <4>1
    <3>3. CASE o # "hdmi"
      <4>1. Mixed \subseteq Supported(o) BY <3>1, <3>3 DEF Supported
      <4> QED BY <1>11, <4>1
    <3> QED BY <3>2, <3>3
  <2> QED BY <2>1, <2>2
<1> HIDE DEF d
<1>13. Whole(d) BY <1>4, <1>5, <1>7, <1>9, <1>12 DEF Whole
<1> QED BY <1>13 DEF d

\* In a call every output asks for the device of the phone strategy.
LEMMA CallWanted ==
  ASSUME NEW q, isInCall(q), NEW table, \A t \in Strategies : table[t] = Device(q, t), NEW o
  PROVE  getNewDevice(q, table, o) = PhoneDevice(q, FALSE)
<1>1. NewStrategy(q, o) \in {"ENFORCED_AUDIBLE", "PHONE"} BY DEF NewStrategy
<1>2. /\ Device(q, "ENFORCED_AUDIBLE") = PhoneDevice(q, FALSE)
      /\ Device(q, "PHONE") = PhoneDevice(q, FALSE)
  BY DEF Device, MediaDevice
<1>3. "ENFORCED_AUDIBLE" \in Strategies /\ "PHONE" \in Strategies BY DEF Strategies
<1> QED BY <1>1, <1>2, <1>3 DEF getNewDevice

\* A2DP that comes or goes does not move a call.
LEMMA CallSame ==
  ASSUME NEW q, NEW r, isInCall(q), r.phone = q.phone, r.force = q.force,
         r.available \subseteq q.available \cup A2dp, q.available \subseteq r.available
  PROVE  PhoneDevice(r, FALSE) = PhoneDevice(q, FALSE) /\ isInCall(r)
<1>1. isInCall(r) BY DEF isInCall
<1>2. CallList(r) = CallList(q) BY DEF CallList
<1> DEFINE ds == CallList(q)
<1>3. ds \in Seq(CallDevices) BY CallDevice
<1>4. \A x \in CallDevices : x \in r.available <=> x \in q.available
  BY DEF CallDevices, A2dp, Sco, Wired, Usb
<1>5. First(r, ds) = First(q, ds)
  <2>1. \A i \in DOMAIN ds : ds[i] \in r.available <=> ds[i] \in q.available BY <1>3, <1>4
  <2>2. \A i \in DOMAIN ds : \A j \in 1..i - 1 : j \in DOMAIN ds BY <1>3
  <2> HIDE DEF ds
  <2> QED BY <2>1, <2>2 DEF First, FirstIn
<1>6. CallFirst(r) = CallFirst(q) BY <1>2, <1>5 DEF CallFirst
<1>7. "FM" \in r.available <=> "FM" \in q.available BY DEF A2dp
<1>8. FmOnSpeaker(r, CallFirst(q)) = FmOnSpeaker(q, CallFirst(q)) BY <1>7 DEF FmOnSpeaker
<1> QED BY <1>1, <1>6, <1>8, CallDevice

\* The route is the device of the call, if there is one.
OnCall(q, m) == (isInCall(q) /\ Clear(q)) => m.routed = PhoneDevice(q, FALSE)
Known(q, table) == \A t \in Strategies : table[t] = Device(q, t)

\* Under q, whatever is asked for is that device, and every output takes it.
LEMMA CallRoutes ==
  ASSUME NEW q \in Conds, Laid(q), isInCall(q), Clear(q), NEW table, Known(q, table),
         NEW d, d = PhoneDevice(q, FALSE)
  PROVE  /\ Whole(d) /\ Stable(RoutedIn({d}), q) /\ RoutesTo(RoutedIn({d}), d)
         /\ \A o : getNewDevice(q, table, o) = d
         /\ q.outputs \in Seq(Outputs) /\ q.outputs \in Seq(Routable)
<1>1. Whole(d) BY CallWhole
<1>2. \A o : getNewDevice(q, table, o) = d BY CallWanted DEF Known
<1> QED BY <1>1, <1>2, WholeRoutes, RoutedStable, OpenRoutable

\* The order of the outputs leaves none out.
LEMMA Turned ==
  ASSUME NEW X, NEW s \in Seq(X)
  PROVE  Range(Reverse(s)) = Range(s)
<1> DEFINE N == Len(s)
           os == Reverse(s)
<1>1. N \in Nat /\ DOMAIN s = 1..N OBVIOUS
<1>2. DOMAIN os = 1..N /\ \A i \in 1..N : os[i] = s[(N - i) + 1] BY DEF Reverse
<1> HIDE DEF N, os
<1>3. \A i \in 1..N : (N - i) + 1 \in 1..N /\ (N - ((N - i) + 1)) + 1 = i BY <1>1
<1>4. \A i \in 1..N : s[i] = os[(N - i) + 1] BY <1>2, <1>3
<1>5. Range(s) = {s[i] : i \in 1..N} BY <1>1 DEF Range
<1>6. Range(os) = {os[i] : i \in 1..N} BY <1>2 DEF Range
<1>7. \A i \in 1..N : os[i] \in {s[j] : j \in 1..N} BY <1>2, <1>3
<1>8. \A i \in 1..N : s[i] \in {os[j] : j \in 1..N} BY <1>3, <1>4
<1> QED BY <1>5, <1>6, <1>7, <1>8 DEF os

LEMMA CallOrdered ==
  ASSUME NEW q \in Conds, Laid(q)
  PROVE  "primary" \in Range(InCallOrder(q)) /\ "primary" \in Range(Reverse(q.outputs))
<1>1. q.outputs \in Seq(Outputs) /\ "primary" \in Range(q.outputs) BY DEF Conds, Laid
<1>2. Range(Reverse(q.outputs)) = Range(q.outputs) BY <1>1, Turned
<1> QED BY <1>1, <1>2 DEF InCallOrder

LEMMA AttachedCall ==
  ASSUME cond \in Conds, Laid(cond), IInv, mix \in Mixes, OnCall(cond, mix),
         NEW d, d \notin cond.available, Pluggable(d), NEW ins \in SUBSET InDevices
  PROVE  OnCall(Attached(d, ins).cond, Attached(d, ins).mix)
<1> DEFINE x == Attached(d, ins)
           opened == IF d = "REMOTE_SUBMIX" THEN <<"submix", "dup">> ELSE <<>>
           q == checkA2dpSuspend(
                  [cond EXCEPT !.available = @ \cup {d}, !.inputs = ins, !.sco = @ \/ d \in Sco,
                               !.suspended = @ /\ d \notin A2dp, !.outputs = @ \o opened])
           r == FmCounted(q, d, 1)
           m == Opened(mix, Range(opened), {})
           n == IF opened = <<>> THEN m ELSE [m EXCEPT !.device["submix"] = {d}]
           table == Fresh(q)
           S == RoutedIn({mix.routed})
<1>1. /\ x.cond = r /\ x.table = table
      /\ x.mix = IF d \in A2dp /\ "PROXY" \in q.available THEN n
                 ELSE RouteAll(r, table, n, InCallOrder(r), TRUE)
  BY DEF Attached
<1> HIDE DEF q, r, table
<1>2. /\ r \in Conds /\ Laid(r) /\ r.available = cond.available \cup {d}
      /\ r.phone = cond.phone /\ r.force = cond.force
  BY <1>1, AttachedTyped
<1>3. Known(r, table) BY <1>1, AttachedSettled DEF Settled, Known
<1> SUFFICES ASSUME isInCall(r), Clear(r) PROVE x.mix.routed = PhoneDevice(r, FALSE)
  BY <1>1 DEF OnCall
<1>4. n \in S
  <2> DEFINE os == {"submix", "dup"}
  <2>1. mix \in S BY DEF RoutedIn
  <2>2. CASE d = "REMOTE_SUBMIX"
    <3>1. Range(opened) = os /\ opened # <<>>
      <4>1. opened = <<"submix", "dup">> BY <2>2
      <4> QED BY <4>1 DEF Range
    <3>2. os \in SUBSET Outputs /\ d \in OutDevices
      BY <2>2, ProfilesAssumption DEF Pluggable, Outputs, Supported, Mixed, Wired, Sco, A2dp, Usb, OutDevices
    <3>3. IsFiniteSet(os) BY <3>2, OutputsFinite, FS_Subset
    <3> HIDE DEF opened, os, S
    <3>4. m \in S
      <4>1. \A k \in S : Opened(k, os, {}) \in S BY <3>2, <3>3, OpenedRouted DEF S
      <4> QED BY <2>1, <3>1, <4>1
    <3> HIDE DEF m
    <3>5. [m EXCEPT !.device["submix"] = {d}] \in S
      <4>1. "submix" \in Outputs /\ {d} \in SUBSET OutDevices BY <3>2 DEF os
      <4>2. Stable(S, q) BY RoutedStable DEF S
      <4> QED BY <3>4, <4>1, <4>2 DEF Stable
    <3> QED BY <3>1, <3>5
  <2>3. CASE d # "REMOTE_SUBMIX"
    <3>1. Range(opened) = {} /\ opened = <<>> BY <2>3 DEF Range
    <3>2. IsFiniteSet({}) BY FS_EmptySet
    <3> HIDE DEF opened, S
    <3>3. \A k \in S : Opened(k, {}, {}) \in S BY <3>2, OpenedRouted DEF S
    <3> QED BY <2>1, <3>1, <3>3
  <2> QED BY <2>2, <2>3
<1> HIDE DEF n
<1>5. CASE d \in A2dp /\ "PROXY" \in q.available
  <2>1. isInCall(cond) /\ Clear(cond)
    BY <1>2, <1>5 DEF isInCall, Clear, FmForced, A2dp
  <2>2. PhoneDevice(r, FALSE) = PhoneDevice(cond, FALSE) BY <1>2, <1>5, <2>1, CallSame
  <2>3. x.mix = n BY <1>1, <1>5
  <2> HIDE DEF x
  <2> QED BY <1>4, <2>1, <2>2, <2>3 DEF OnCall, RoutedIn
<1>6. CASE ~(d \in A2dp /\ "PROXY" \in q.available)
  <2> DEFINE order == InCallOrder(r)
             dev == PhoneDevice(r, FALSE)
  <2>1. order \in Seq(Routable) /\ r.outputs \in Seq(Outputs) BY <1>2, OpenRoutable
  <2>2. "primary" \in Range(order) BY <1>2, CallOrdered
  <2> HIDE DEF order, dev
  <2>4. Whole(dev) /\ \A o : getNewDevice(r, table, o) = dev
    BY <1>2, <1>3, CallRoutes DEF dev
  <2>5. n \in Mixes BY <1>4 DEF RoutedIn
  <2>6. RouteAll(r, table, n, order, TRUE) \in RoutedIn({dev})
    BY <2>1, <2>2, <2>4, <2>5, RouteAllLands
  <2>7. x.mix = RouteAll(r, table, n, order, TRUE) BY <1>1, <1>6 DEF order
  <2> HIDE DEF x
  <2> QED BY <2>6, <2>7 DEF RoutedIn, dev
<1> QED BY <1>5, <1>6

LEMMA DetachedCall ==
  ASSUME cond \in Conds, Laid(cond), IInv, mix \in Mixes,
         NEW d, d \in cond.available \ {"SPEAKER"}, NEW ins \in SUBSET InDevices
  PROVE  OnCall(Detached(d, ins).cond, Detached(d, ins).mix) /\ Detached(d, ins).mix \in Mixes
<1> DEFINE x == Detached(d, ins)
           q == checkA2dpSuspend(
                  [cond EXCEPT !.available = @ \ {d}, !.inputs = ins, !.sco = @ /\ d \notin Sco,
                               !.suspended = @ /\ d \notin A2dp])
           gone == Gone(q)
           table == Fresh(Closed(q, gone))
           s == FmCounted(Closed(q, gone), d, 0 - 1)
           m == Opened(mix, gone, {})
           order == InCallOrder(s)
           dev == PhoneDevice(s, FALSE)
<1>1. /\ x.cond = s /\ x.gone = gone /\ x.table = table
      /\ x.mix = RouteAll(s, table, m, order, TRUE)
  BY DEF Detached, Gone
<1> HIDE DEF q, gone, table, s
<1>2. s \in Conds /\ Laid(s) /\ Shut(gone) BY <1>1, DetachedTyped
<1>3. Known(s, table) BY <1>1, DetachedSettled DEF Settled, Known
<1>4. m \in Mixes
  <2>1. gone \in SUBSET Outputs /\ IsFiniteSet(gone) BY <1>2, OutputsFinite, FS_Subset DEF Shut
  <2>2. \A T : mix \in RoutedIn(T) => m \in RoutedIn(T) BY <2>1, OpenedRouted
  <2>3. mix \in RoutedIn({mix.routed}) BY DEF RoutedIn
  <2> QED BY <2>2, <2>3 DEF RoutedIn
<1>5. order \in Seq(Routable) /\ s.outputs \in Seq(Outputs) BY <1>2, OpenRoutable
<1>6. "primary" \in Range(order) BY <1>2, CallOrdered
<1> HIDE DEF order, dev, m
<1>8. RouteAll(s, table, m, order, TRUE) \in Mixes
  <2>1. Stable(Mixes, s) /\ \A wanted : RoutesTo(Mixes, wanted) BY MixesStable
  <2> QED BY <1>4, <1>5, <2>1, RouteAllKept
<1>9. ASSUME isInCall(s), Clear(s) PROVE RouteAll(s, table, m, order, TRUE) \in RoutedIn({dev})
  <2>1. Whole(dev) /\ \A o : getNewDevice(s, table, o) = dev
    BY <1>2, <1>3, <1>9, CallRoutes DEF dev
  <2> QED BY <1>4, <1>5, <1>6, <2>1, RouteAllLands
<1> HIDE DEF x
<1>10. OnCall(x.cond, x.mix) /\ x.mix \in Mixes BY <1>1, <1>8, <1>9 DEF OnCall, RoutedIn, dev
<1> QED BY <1>10 DEF x

Called == OnCall(cond, mix)

LEMMA ConnectCall ==
  ASSUME Typed, IInv, Sounding, Called, NEW d \in Plugs, Connect(d) \/ Disconnect(d)
  PROVE  Called'
<1>1. cond \in Conds /\ Laid(cond) /\ mix \in Mixes BY DEF Typed, Sounding, Heard
<1>2. InDeviceOf(d) \in SUBSET InDevices BY DEF InDeviceOf, InDevices
<1>3. CASE Connect(d)
  <2> DEFINE ins == cond.inputs \cup InDeviceOf(d)
             x == Attached(d, ins)
  <2>1. d \notin cond.available /\ cond' = x.cond /\ mix' = x.mix BY <1>3 DEF Connect, Apply
  <2>2. ins \in SUBSET InDevices BY <1>1, <1>2 DEF Conds
  <2>3. Pluggable(d) BY PlugsAssumption DEF Pluggable
  <2> HIDE DEF ins
  <2>4. OnCall(x.cond, x.mix) BY <1>1, <2>1, <2>2, <2>3, AttachedCall DEF Called
  <2> HIDE DEF x
  <2> QED BY <2>1, <2>4 DEF Called
<1>4. CASE Disconnect(d)
  <2> DEFINE ins == cond.inputs \ InDeviceOf(d)
             x == Detached(d, ins)
  <2>1. d \in cond.available /\ cond' = x.cond /\ mix' = x.mix BY <1>4 DEF Disconnect, Apply
  <2>2. ins \in SUBSET InDevices BY <1>1, <1>2 DEF Conds
  <2>3. d # "SPEAKER" BY PlugsAssumption
  <2> HIDE DEF ins
  <2>4. OnCall(x.cond, x.mix) BY <1>1, <2>1, <2>2, <2>3, DetachedCall
  <2> HIDE DEF x
  <2> QED BY <2>1, <2>4 DEF Called
<1> QED BY <1>3, <1>4

\* On entry to a call the primary output is sent to its device by force; the
\* outputs that follow it, and the ringer that is muted, leave it there.
LEMMA PhoneCall ==
  ASSUME Typed, Tracked, Sounding, Called, NEW p \in Phones, SetPhoneState(p)
  PROVE  Called'
<1> DEFINE n == [cond EXCEPT !.phone = p]
           q == checkA2dpSuspend(n)
           table == Fresh(q)
           wanted == getNewDevice(q, table, "primary")
           device == IF wanted = {} /\ isInCall(cond) THEN mix.device["primary"] ELSE wanted
           left == AllIncall(cond, mix, FALSE)
           quiet == IF isInCall(q) THEN Quieted(q, table, left) ELSE left
           force == isInCall(cond) \/ isInCall(q)
           first == setOutputDevice(q, quiet, "primary", device, force)
           others == Others(q)
           all == RouteAll(q, table, first, others, FALSE)
           dev == PhoneDevice(q, FALSE)
           S == RoutedIn({dev})
<1>1. cond \in Conds /\ Laid(cond) /\ mix \in Mixes BY DEF Typed, Sounding, Heard
<1>2. cond' = q /\ mix' = AllIncall(q, all, TRUE) BY DEF SetPhoneState
<1>3. /\ q \in Conds /\ q.available = cond.available /\ q.outputs = cond.outputs
      /\ q.force = cond.force /\ q.refs = cond.refs
  <2>1. /\ n \in Conds /\ n.available = cond.available /\ n.outputs = cond.outputs
        /\ n.force = cond.force /\ n.refs = cond.refs
    BY <1>1 DEF Conds
  <2> HIDE DEF n
  <2> QED BY <2>1, SuspendTyped
<1> HIDE DEF q
<1>4. Laid(q) BY <1>1, <1>3 DEF Laid
<1> SUFFICES ASSUME isInCall(q), Clear(q) PROVE mix'.routed = dev BY <1>2 DEF Called, OnCall
<1>5. Known(q, table) BY DEF Known, Fresh
<1> HIDE DEF table, dev
<1>6. /\ Whole(dev) /\ Stable(S, q) /\ RoutesTo(S, dev)
      /\ \A o : getNewDevice(q, table, o) = dev
      /\ q.outputs \in Seq(Outputs) /\ q.outputs \in Seq(Routable)
  <2>1. dev = PhoneDevice(q, FALSE) BY DEF dev
  <2> QED BY <1>3, <1>4, <1>5, <2>1, CallRoutes
<1>7. wanted = dev /\ device = dev BY <1>6 DEF Whole
<1>8. Rings(cond) \in Nat /\ Rings(q) = Rings(cond) BY <1>3, RingsCounted DEF Rings
<1>9. left \in Mixes
  <2> DEFINE times == IF isInCall(cond) THEN Rings(cond) ELSE 0
  <2>1. times \in Nat /\ (times > 0 => "RING" \in Streams) BY <1>8 DEF Rings
  <2>2. Stable(Mixes, cond) BY MixesStable
  <2> HIDE DEF times
  <2>3. handleIncallSonification(cond, mix, FALSE, times) \in Mixes BY <1>1, <2>1, <2>2, IncallKept
  <2> QED BY <2>3 DEF AllIncall, times
<1> HIDE DEF left
<1>10. quiet \in Mixes
  <2>1. Stable(Mixes, q) BY MixesStable
  <2>2. Quieted(q, table, left) \in Mixes BY <1>6, <1>9, <2>1, QuietedKept
  <2> QED BY <1>9, <2>2
<1> HIDE DEF quiet
<1>11. first \in S
  <2>1. first = setOutputDevice(q, quiet, "primary", dev, TRUE) BY <1>7
  <2> HIDE DEF first
  <2> QED BY <1>6, <1>10, <2>1, Lands
<1>12. others \in Seq(Routable) BY <1>6, WithoutRange DEF Others, OutputsLeft
<1>13. all \in S
  <2> HIDE DEF first, others, S
  <2>1. \A o \in Routable : RoutesTo(S, getNewDevice(q, table, o)) BY <1>6
  <2> QED BY <1>6, <1>11, <1>12, <2>1, RouteAllKept
<1> HIDE DEF all
<1>14. AllIncall(q, all, TRUE) \in S
  <2> DEFINE times == IF isInCall(q) THEN Rings(q) ELSE 0
  <2>1. times \in Nat /\ (times > 0 => "RING" \in Streams) BY <1>8 DEF Rings
  <2> HIDE DEF times, S
  <2>2. handleIncallSonification(q, all, TRUE, times) \in S BY <1>6, <1>13, <2>1, IncallKept
  <2> QED BY <2>2 DEF AllIncall, times
<1> QED BY <1>2, <1>14 DEF RoutedIn

LEMMA ForceCall ==
  ASSUME Typed, Sounding, Called, NEW f \in Forces, SetForceUse(f[1], f[2])
  PROVE  Called'
<1> DEFINE u == f[1]
           n == [cond EXCEPT !.force[u] = f[2]]
           q == checkA2dpSuspend(n)
           table == Fresh(q)
           m == mix
           dev == PhoneDevice(q, FALSE)
<1>1. cond \in Conds /\ Laid(cond) /\ m \in Mixes BY DEF Typed, Sounding, Heard
<1>2. cond' = q /\ mix' = Rerouted(q, table, u, m) BY DEF SetForceUse
<1>3. q \in Conds /\ q.available = cond.available /\ q.outputs = cond.outputs
  <2>1. n \in Conds /\ n.available = cond.available /\ n.outputs = cond.outputs
    <3>1. f[2] \in Forced BY DEF Forced
    <3> QED BY <1>1, <3>1 DEF Conds
  <2> HIDE DEF n
  <2> QED BY <2>1, SuspendTyped
<1> HIDE DEF q
<1>4. Laid(q) BY <1>1, <1>3 DEF Laid
<1> SUFFICES ASSUME isInCall(q), Clear(q) PROVE mix'.routed = dev BY <1>2 DEF Called, OnCall
<1>5. Known(q, table) BY DEF Known, Fresh
<1> HIDE DEF table, dev, m
<1>6. /\ Whole(dev) /\ \A o : getNewDevice(q, table, o) = dev
      /\ q.outputs \in Seq(Routable)
  <2>1. dev = PhoneDevice(q, FALSE) BY DEF dev
  <2> QED BY <1>3, <1>4, <1>5, <2>1, CallRoutes
<1>7. "primary" \in Range(Reverse(q.outputs)) BY <1>3, <1>4, CallOrdered
<1> DEFINE os == Reverse(q.outputs)
<1>8. "primary" \in Range(os) /\ os = Reverse(q.outputs) BY <1>7
<1> HIDE DEF os
<1>9. Rerouted(q, table, u, m) \in RoutedIn({dev}) BY <1>1, <1>6, <1>8, ReroutedLands
<1> QED BY <1>2, <1>9 DEF RoutedIn

\* A track that starts or stops sends its output where the call already is.
LEMMA PlayCall ==
  ASSUME Typed, Tracked, Sounding, Called, NEW c \in Clients, StartOutput(c) \/ StopOutput(c)
  PROVE  Called'
<1> DEFINE o == client[c].out
           s == StreamOf[c]
           dev == PhoneDevice(cond, FALSE)
           S == RoutedIn({dev})
<1>1. cond \in Conds /\ Laid(cond) /\ mix \in Mixes BY DEF Typed, Sounding, Heard
<1>2. s \in Streams BY ClientsAssumption
<1>3. o \in Routable /\ o \in Outputs
  <2>1. Assigned(Range(cond.outputs), client) BY DEF Tracked, Agreed
  <2>2. client[c].state \in {"held", "started"} BY DEF StartOutput, StopOutput
  <2>3. o \in Range(cond.outputs) BY <2>1, <2>2 DEF Assigned
  <2>4. cond.outputs \in Seq(Routable) BY <1>1, OpenRoutable
  <2>5. o \in Routable BY <2>3, <2>4 DEF Range
  <2> QED BY <2>5 DEF Routable
<1>4. ASSUME NEW delta \in Int
      PROVE  LET q == [cond EXCEPT !.refs = Counts(cond.refs, o, s, delta)]
             IN /\ q \in Conds /\ Laid(q) /\ PhoneDevice(q, FALSE) = dev
                /\ isInCall(q) = isInCall(cond) /\ Clear(q) = Clear(cond)
  <2> DEFINE refs == Counts(cond.refs, o, s, delta)
             q == [cond EXCEPT !.refs = refs]
  <2>1. Shifted(cond.refs, o, s, delta, refs)
    <3>1. cond.refs \in [Outputs -> [Streams -> Int]] BY <1>1 DEF Conds
    <3> QED BY <1>2, <3>1, CountsTyped
  <2> HIDE DEF refs
  <2>2. /\ q \in Conds /\ q.outputs = cond.outputs /\ SameConditions(cond, q)
    BY <1>1, <2>1 DEF Conds, Shifted, SameConditions
  <2> HIDE DEF q
  <2>3. Laid(q) BY <1>1, <2>2 DEF Laid, SameConditions
  <2>4. Device(q, "PHONE") = Device(cond, "PHONE") BY <2>2, SameDevices DEF Strategies
  <2>5. PhoneDevice(q, FALSE) = dev BY <2>4 DEF Device
  <2>6. isInCall(q) = isInCall(cond) /\ Clear(q) = Clear(cond)
    BY <2>2 DEF isInCall, Clear, FmForced, SameConditions
  <2> QED BY <2>2, <2>3, <2>5, <2>6 DEF q, refs
<1>5. ASSUME NEW q \in Conds, Laid(q), Clear(q), isInCall(q), PhoneDevice(q, FALSE) = dev
      PROVE  /\ Stable(S, q) /\ \A p : RoutesTo(S, getNewDevice(q, Fresh(q), p))
             /\ q.outputs \in Seq(Outputs) /\ q.outputs \in Seq(Routable)
  <2>1. Known(q, Fresh(q)) BY DEF Known, Fresh
  <2> HIDE DEF dev
  <2> QED BY <1>5, <2>1, CallRoutes
<1>6. CASE StartOutput(c)
  <2> DEFINE q == [cond EXCEPT !.refs = Counts(cond.refs, o, s, 1)]
             device == getNewDevice(q, Fresh(q), o)
             force == \E p \in Range(q.outputs) \ {o} :
                        mForceDeviceChange \/ (SharesModule(o, p) /\ DeviceOf(mix, p) # device)
             m == mix
             set == setOutputDevice(q, m, o, device, force)
  <2>1. cond' = q /\ mix' \in {On(q, OneIncall(q, set, s, TRUE), o, {s}), OneIncall(q, m, s, TRUE)}
    BY <1>6 DEF StartOutput, On
  <2>2. /\ q \in Conds /\ Laid(q) /\ PhoneDevice(q, FALSE) = dev
        /\ isInCall(q) = isInCall(cond) /\ Clear(q) = Clear(cond)
    <3>1. 1 \in Int OBVIOUS
    <3> QED BY <1>4, <3>1
  <2> HIDE DEF q
  <2> SUFFICES ASSUME isInCall(q), Clear(q) PROVE mix'.routed = dev
    BY <2>1, <2>2 DEF Called, OnCall
  <2>3. m \in S BY <1>1, <2>2 DEF Called, OnCall, RoutedIn
  <2> HIDE DEF S, m, dev
  <2>4. Stable(S, q) /\ RoutesTo(S, device) /\ q.outputs \in Seq(Outputs) BY <1>5, <2>2
  <2>5. force \in BOOLEAN OBVIOUS
  <2> HIDE DEF device, force
  <2>6. set \in S
    <3> HIDE DEF o
    <3> QED BY <1>3, <2>3, <2>4, <2>5, RoutedKept
  <2> HIDE DEF set
  <2>7. ASSUME NEW k \in S PROVE OneIncall(q, k, s, TRUE) \in S
    <3> DEFINE times == IF isInCall(q) /\ s = "RING" /\ Rings(q) > 0 THEN 1 ELSE 0
    <3>1. times \in Nat /\ (times > 0 => "RING" \in Streams) BY <1>2
    <3> HIDE DEF times, s
    <3>2. handleIncallSonification(q, k, TRUE, times) \in S BY <2>4, <3>1, IncallKept
    <3> QED BY <3>2 DEF OneIncall, times
  <2>8. On(q, OneIncall(q, set, s, TRUE), o, {s}) \in S
    <3>1. {s} \in SUBSET Streams /\ OneIncall(q, set, s, TRUE) \in S BY <1>2, <2>6, <2>7
    <3> HIDE DEF o, s
    <3> QED BY <1>3, <2>4, <3>1 DEF Stable
  <2>9. mix' \in S BY <2>1, <2>3, <2>7, <2>8
  <2> QED BY <2>9 DEF S, RoutedIn
<1>7. CASE StopOutput(c)
  <2> DEFINE q == [cond EXCEPT !.refs = Counts(cond.refs, o, s, -1)]
             device == getNewDevice(q, Fresh(q), o)
             m == mix
             left == OneIncall(cond, m, s, FALSE)
             quiet == IF s = "VOICE_CALL" /\ "RING" \in Streams /\ q.refs[o]["RING"] # 0
                      THEN Muted(q, left, "primary", {"RING"}) ELSE left
             set == setOutputDevice(q, quiet, o, device, FALSE)
             restored == Restored(q, o, device, set)
  <2>1. cond' = q /\ mix' \in {restored, left} BY <1>7 DEF StopOutput
  <2>2. /\ q \in Conds /\ Laid(q) /\ PhoneDevice(q, FALSE) = dev
        /\ isInCall(q) = isInCall(cond) /\ Clear(q) = Clear(cond)
    <3>1. -1 \in Int OBVIOUS
    <3> QED BY <1>4, <3>1
  <2> HIDE DEF q
  <2> SUFFICES ASSUME isInCall(q), Clear(q) PROVE mix'.routed = dev
    BY <2>1, <2>2 DEF Called, OnCall
  <2>3. m \in S BY <1>1, <2>2 DEF Called, OnCall, RoutedIn
  <2>4. Stable(S, cond) BY RoutedStable
  <2> HIDE DEF S, m, dev
  <2>5. /\ Stable(S, q) /\ \A p : RoutesTo(S, getNewDevice(q, Fresh(q), p))
        /\ q.outputs \in Seq(Outputs) /\ q.outputs \in Seq(Routable)
    BY <1>5, <2>2
  <2>6. RoutesTo(S, device) BY <2>5
  <2> HIDE DEF device
  <2>7. left \in S
    <3> DEFINE times == IF isInCall(cond) /\ s = "RING" /\ Rings(cond) > 0 THEN 1 ELSE 0
    <3>1. times \in Nat /\ (times > 0 => "RING" \in Streams) BY <1>2
    <3> HIDE DEF times, s
    <3>2. handleIncallSonification(cond, m, FALSE, times) \in S BY <2>3, <2>4, <3>1, IncallKept
    <3> QED BY <3>2 DEF OneIncall, times
  <2> HIDE DEF left
  <2>8. quiet \in S
    <3>1. "primary" \in Outputs BY ProfilesAssumption DEF Outputs
    <3>2. ASSUME "RING" \in Streams PROVE Muted(q, left, "primary", {"RING"}) \in S
      <4>1. {"RING"} \in SUBSET Streams BY <3>2
      <4> QED BY <2>5, <2>7, <3>1, <4>1 DEF Stable
    <3> QED BY <2>7, <3>2
  <2> HIDE DEF quiet
  <2>9. set \in S
    <3> HIDE DEF o
    <3> QED BY <1>3, <2>5, <2>6, <2>8, RoutedKept
  <2> HIDE DEF set
  <2>10. restored \in S
    <3>1. \A p \in Routable : RoutesTo(S, getNewDevice(q, Fresh(q), p)) BY <2>5
    <3> HIDE DEF o
    <3> QED BY <2>5, <2>9, <3>1, RestoredKept
  <2> HIDE DEF restored
  <2>11. mix' \in S BY <2>1, <2>7, <2>10
  <2> QED BY <2>11 DEF S, RoutedIn
<1> QED BY <1>6, <1>7

\* Outputs that are opened and closed, and tracks that are let go, change neither
\* the device of the call nor the route.
LEMMA HoldCall ==
  ASSUME Typed, Tracked, IInv, Sounding, Called, NEW c \in Clients,
         ReleaseOutput(c) \/ \E w \in Wants[c] : GetOutput(c, w)
  PROVE  Called'
<1>1. cond \in Conds /\ Laid(cond) /\ mix \in Mixes /\ Shaped(cond)
  BY DEF Typed, Sounding, Heard, IInv
<1>2. ASSUME UNCHANGED <<cond, mix>> PROVE Called'
  <2>1. cond' = cond /\ mix' = mix BY <1>2
  <2>2. OnCall(cond, mix) BY DEF Called
  <2> QED BY <2>1, <2>2 DEF Called
<1>3. ASSUME NEW q, SameConditions(cond, q), NEW m \in RoutedIn({mix.routed}), cond' = q, mix' = m
      PROVE  Called'
  <2>1. Device(q, "PHONE") = Device(cond, "PHONE") BY <1>3, SameDevices DEF Strategies
  <2>2. PhoneDevice(q, FALSE) = PhoneDevice(cond, FALSE) BY <2>1 DEF Device
  <2>3. /\ isInCall(q) = isInCall(cond) /\ Clear(q) = Clear(cond)
    BY <1>3 DEF SameConditions, isInCall, Clear, FmForced
  <2>4. m.routed = mix.routed BY <1>3 DEF RoutedIn
  <2>5. OnCall(q, m) BY <2>2, <2>3, <2>4 DEF Called, OnCall
  <2> QED BY <1>3, <2>5 DEF Called
<1>4. ASSUME NEW o \in Outputs, NEW device \in SUBSET OutDevices
      PROVE  Opened(mix, {o}, device) \in RoutedIn({mix.routed})
  <2>1. IsFiniteSet({} \cup {o}) BY FS_EmptySet, FS_AddElement
  <2>2. {o} = {} \cup {o} OBVIOUS
  <2>3. mix \in RoutedIn({mix.routed}) BY <1>1 DEF RoutedIn
  <2> QED BY <2>1, <2>2, <2>3, OpenedRouted
<1>5. ASSUME NEW o
      PROVE  /\ SameConditions(cond, Closed(cond, {o}))
             /\ SameConditions(cond, [Closed(cond, {o}) EXCEPT !.outputs = Append(@, o)])
  <2> DEFINE q == Closed(cond, {o})
  <2>1. Shaped(q) /\ SameConditions(cond, q) BY <1>1, CountsOnly
  <2> SUFFICES SameConditions(cond, [q EXCEPT !.outputs = Append(@, o)]) BY <2>1
  <2> HIDE DEF q
  <2>2. SameConditions(q, [q EXCEPT !.outputs = Append(q.outputs, o)]) BY <2>1, CountsOnly
  <2> QED BY <2>1, <2>2 DEF SameConditions
<1>6. ASSUME NEW o \in Direct \cap Profiles, NEW device \in SUBSET OutDevices,
             cond' \in {Closed(cond, {o}), [Closed(cond, {o}) EXCEPT !.outputs = Append(@, o)]},
             mix' = Opened(mix, {o}, device)
      PROVE  Called'
  <2>1. o \in Outputs BY DirectOutputs
  <2>2. mix' \in RoutedIn({mix.routed}) BY <1>4, <1>6, <2>1
  <2>3. SameConditions(cond, cond') BY <1>5, <1>6
  <2> QED BY <1>3, <2>2, <2>3
<1>7. {} \in SUBSET OutDevices OBVIOUS
<1>8. CASE ReleaseOutput(c)
  <2> DEFINE o == client[c].out
  <2>1. \/ UNCHANGED policyVars
        \/ o \in Direct /\ cond' = Closed(cond, {o}) /\ mix' = Opened(mix, {o}, {})
    BY <1>8 DEF ReleaseOutput
  <2>2. CASE UNCHANGED policyVars BY <1>2, <2>2 DEF policyVars
  <2>3. CASE o \in Direct /\ cond' = Closed(cond, {o}) /\ mix' = Opened(mix, {o}, {})
    <3>1. o \in Range(cond.outputs)
      <4>1. Assigned(Range(cond.outputs), client) /\ client[c].state = "held"
        BY <1>8 DEF Tracked, Agreed, ReleaseOutput
      <4> QED BY <4>1 DEF Assigned
    <3>2. o \in Outputs BY <1>1, <3>1, OpenOutputs
    <3>3. o \in Direct \cap Profiles BY <2>3, <3>2 DEF Outputs, Direct, Counted
    <3> HIDE DEF o
    <3> QED BY <1>6, <1>7, <2>3, <3>3
  <2> QED BY <2>1, <2>2, <2>3
<1>9. ASSUME NEW w \in Wants[c], GetOutput(c, w) PROVE Called'
  <2> DEFINE device == Device(cond, Strategy(StreamOf[c]))
  <2>1. \/ UNCHANGED policyVars
        \/ \E o \in Direct \cap Profiles :
             \/ /\ cond' = [Closed(cond, {o}) EXCEPT !.outputs = Append(@, o)]
                /\ mix' = Opened(mix, {o}, device)
             \/ cond' = Closed(cond, {o}) /\ mix' = Opened(mix, {o}, {})
    BY <1>9 DEF GetOutput, DirectFor
  <2>2. device \in SUBSET OutDevices
    <3>1. Strategy(StreamOf[c]) \in Strategies BY ClientsAssumption, StrategiesOf
    <3>2. device \subseteq cond.available BY <1>1, <3>1, SelectedDevices DEF Laid
    <3> QED BY <1>1, <3>2 DEF Conds
  <2> HIDE DEF device
  <2>3. CASE UNCHANGED policyVars BY <1>2, <2>3 DEF policyVars
  <2> QED BY <1>6, <1>7, <2>1, <2>2, <2>3
<1> QED BY <1>8, <1>9

LEMMA VolumeCall ==
  ASSUME Typed, Sounding, Called, NEW s \in Streams, NEW device, SetStreamVolumeIndex(s, device)
  PROVE  Called'
<1> DEFINE S == RoutedIn({mix.routed})
<1>1. mix' = VolumeSet(s, device) /\ cond' = cond BY DEF SetStreamVolumeIndex
<1>2. Stable(S, cond) BY RoutedStable
<1>3. mix \in S /\ cond.outputs \in Seq(Outputs) BY DEF Sounding, Heard, Typed, Conds, RoutedIn
<1>4. mix' \in S => mix'.routed = mix.routed BY DEF RoutedIn
<1> HIDE DEF S
<1>5. VolumeSet(s, device) \in S BY <1>2, <1>3, VolumeSetKept
<1>6. mix'.routed = mix.routed BY <1>1, <1>4, <1>5
<1>7. OnCall(cond, mix') BY <1>6 DEF Called, OnCall
<1> QED BY <1>1, <1>7 DEF Called

\* A capture that stops sends the primary output to the device of the call.
LEMMA CaptureCall ==
  ASSUME Typed, IInv, Sounding, Called, Capture
  PROVE  Called'
<1>1. cond \in Conds /\ Laid(cond) /\ mix \in Mixes BY DEF Typed, Sounding, Heard
<1>2. cond.inputs \in SUBSET InDevices BY <1>1 DEF Conds
<1>3. ASSUME UNCHANGED <<cond, mix>> PROVE Called'
  <2>1. cond' = cond /\ mix' = mix BY <1>3
  <2>2. OnCall(cond, mix) BY DEF Called
  <2> QED BY <2>1, <2>2 DEF Called
<1>4. ASSUME NEW i \in Records, GetInput(i) \/ ReleaseInput(i) PROVE Called'
  BY <1>3, <1>4 DEF GetInput, ReleaseInput, policyVars
<1>5. ASSUME NEW i \in Records, StartInput(i) PROVE Called'
  <2> DEFINE x == Attached("REMOTE_SUBMIX", cond.inputs)
  <2>1. \/ /\ "REMOTE_SUBMIX" \notin cond.available /\ "submix" \in Profiles
           /\ cond' = x.cond /\ mix' = x.mix
        \/ UNCHANGED <<cond, mix>>
    BY <1>5 DEF StartInput, Apply, policyVars
  <2>2. CASE /\ "REMOTE_SUBMIX" \notin cond.available /\ "submix" \in Profiles
             /\ cond' = x.cond /\ mix' = x.mix
    <3>1. Pluggable("REMOTE_SUBMIX") BY <2>2 DEF Pluggable
    <3>2. OnCall(x.cond, x.mix) BY <1>1, <1>2, <2>2, <3>1, AttachedCall DEF Called
    <3> HIDE DEF x
    <3> QED BY <2>2, <3>2 DEF Called
  <2> QED BY <1>3, <2>1, <2>2
<1>6. ASSUME NEW q \in Conds, Laid(q), NEW table, Known(q, table), NEW m \in Mixes,
             cond' = q,
             mix' = setOutputDevice(q, m, "primary", getNewDevice(q, table, "primary"), TRUE)
      PROVE  Called'
  <2> DEFINE dev == PhoneDevice(q, FALSE)
  <2>1. ASSUME isInCall(q), Clear(q) PROVE mix'.routed = dev
    <3> HIDE DEF dev
    <3>1. Whole(dev) /\ getNewDevice(q, table, "primary") = dev /\ q.outputs \in Seq(Outputs)
      BY <1>6, <2>1, CallRoutes DEF dev
    <3>2. mix' \in RoutedIn({dev}) BY <1>6, <3>1, Lands
    <3> QED BY <3>2 DEF RoutedIn
  <2>2. OnCall(q, mix') BY <1>6, <2>1 DEF OnCall
  <2> QED BY <1>6, <2>2 DEF Called
<1>7. ASSUME NEW i \in Records, StopInput(i) PROVE Called'
  <2> DEFINE x == Detached("REMOTE_SUBMIX", cond.inputs)
             off == inDevice[i] = "REMOTE_SUBMIX" /\ "REMOTE_SUBMIX" \in cond.available
  <2>1. CASE off
    <3>1. "REMOTE_SUBMIX" \in cond.available \ {"SPEAKER"} BY <2>1
    <3>2. /\ cond' = x.cond
          /\ mix' = setOutputDevice(x.cond, x.mix, "primary",
                                    getNewDevice(x.cond, x.table, "primary"), TRUE)
      BY <1>7, <2>1 DEF StopInput
    <3>3. x.cond \in Conds /\ Laid(x.cond) BY <1>1, <1>2, <3>1, DetachedTyped
    <3>4. x.mix \in Mixes BY <1>1, <1>2, <3>1, DetachedCall
    <3>5. Known(x.cond, x.table) BY DetachedSettled DEF Settled, Known
    <3> HIDE DEF x
    <3> QED BY <1>6, <3>2, <3>3, <3>4, <3>5
  <2>2. CASE ~off
    <3>1. /\ cond' = cond
          /\ mix' = setOutputDevice(cond, mix, "primary",
                                    getNewDevice(cond, mDeviceForStrategy, "primary"), TRUE)
      BY <1>7, <2>2 DEF StopInput
    <3>2. Known(cond, mDeviceForStrategy) BY DEF IInv, CacheFresh, Known
    <3> QED BY <1>1, <1>6, <3>1, <3>2
  <2> QED BY <2>1, <2>2
<1> QED BY <1>4, <1>5, <1>7 DEF Capture

LEMMA InitCalled == Init => Called
<1> SUFFICES ASSUME Init PROVE Called OBVIOUS
<1>1. cond = Calm BY DEF Init
<1>2. ~isInCall(Calm) BY DEF Calm, isInCall
<1> QED BY <1>1, <1>2 DEF Called, OnCall

\* In a call the primary module is on the device of the phone strategy
\* (setOutputDevice and getNewDevice), whatever starts, stops, is plugged or
\* forced: also after FM was on the speaker and the route apart from it.
THEOREM CallRoute == Spec => []InCallRoute
<1>1. Typed /\ Tracked /\ Sounding /\ IInv /\ Called /\ [Next]_vars => Called'
  <2> SUFFICES ASSUME Typed, Tracked, Sounding, IInv, Called, [Next]_vars PROVE Called' OBVIOUS
  <2>1. CASE UNCHANGED vars
    <3>1. cond' = cond /\ mix' = mix BY <2>1 DEF vars, policyVars
    <3>2. OnCall(cond, mix) BY DEF Called
    <3> QED BY <3>1, <3>2 DEF Called
  <2>2. CASE Tracks BY <2>2, PlayCall, HoldCall DEF Tracks
  <2>3. CASE Conditions BY <2>3, ConnectCall, PhoneCall, ForceCall, VolumeCall DEF Conditions
  <2>4. CASE Capture BY <2>4, CaptureCall
  <2> QED BY <2>1, <2>2, <2>3, <2>4 DEF Next
<1>2. Called => InCallRoute BY DEF Called, OnCall, Clear, InCallRoute
<1> QED BY InitCalled, <1>1, <1>2, TypedAlways, TrackedAlways, SoundingAlways, Inductive, PTL DEF Spec
-----------------------------------------------------------------------------
(* The devices of what plays.                                                *)

\* No track can open the outputs that support less than every device.
WideOnly == \A c \in Clients : \A w \in Wants[c], o \in {"voip_rx", "hdmi"} :
              <<o, w.params>> \notin Compatible
WideOpen(outputs) == "fast" \in outputs /\ outputs \cap {"voip_rx", "hdmi"} = {}
Wide == WideOpen(Range(cond.outputs))

\* The mixers support the speaker, and stay.
LEMMA DetachedWide ==
  ASSUME cond \in Conds, Laid(cond), Wide, NEW d, d \in cond.available \ {"SPEAKER"},
         NEW ins \in SUBSET InDevices
  PROVE  WideOpen(Range(Detached(d, ins).cond.outputs))
<1> DEFINE q == checkA2dpSuspend(
                  [cond EXCEPT !.available = @ \ {d}, !.inputs = ins, !.sco = @ /\ d \notin Sco,
                               !.suspended = @ /\ d \notin A2dp])
           x == Detached(d, ins)
<1>1. x.gone = Gone(q) BY DEF Detached, Gone
<1>2. "SPEAKER" \in q.available
  <2> DEFINE p == [cond EXCEPT !.available = @ \ {d}, !.inputs = ins, !.sco = @ /\ d \notin Sco,
                               !.suspended = @ /\ d \notin A2dp]
  <2>1. p \in Conds /\ p.available = cond.available \ {d} BY DEF Conds
  <2> HIDE DEF p
  <2>2. checkA2dpSuspend(p).available = p.available BY <2>1, SuspendTyped
  <2> QED BY <2>1, <2>2 DEF p, Laid
<1>3. Range(x.cond.outputs) = Range(cond.outputs) \ x.gone BY DetachedTyped
<1> HIDE DEF x, q
<1>4. "SPEAKER" \in Supported("fast") BY DEF Supported, Mixed
<1>5. "fast" \notin Gone(q) BY <1>2, <1>4 DEF Gone, WithDup
<1>6. WideOpen(Range(x.cond.outputs)) BY <1>1, <1>3, <1>5 DEF Wide, WideOpen
<1> QED BY <1>6 DEF x

LEMMA ConditionsWide ==
  ASSUME Typed, Wide, Conditions
  PROVE  Wide'
<1>1. cond \in Conds /\ Laid(cond) BY DEF Typed
<1>2. ASSUME cond'.outputs = cond.outputs PROVE Wide' BY <1>2 DEF Wide
<1>3. ASSUME NEW d \in Plugs, Connect(d) \/ Disconnect(d) PROVE Wide'
  <2>1. InDeviceOf(d) \in SUBSET InDevices BY DEF InDeviceOf, InDevices
  <2>2. CASE Connect(d)
    <3> DEFINE ins == cond.inputs \cup InDeviceOf(d)
               x == Attached(d, ins)
    <3>1. d \notin cond.available /\ cond' = x.cond BY <2>2 DEF Connect, Apply
    <3>2. ins \in SUBSET InDevices BY <1>1, <2>1 DEF Conds
    <3>3. Pluggable(d) BY PlugsAssumption DEF Pluggable
    <3> HIDE DEF ins
    <3>4. Range(x.cond.outputs) = Range(cond.outputs) \cup SubmixOf(d)
      BY <1>1, <3>1, <3>2, <3>3, AttachedTyped
    <3> HIDE DEF x
    <3> QED BY <3>1, <3>4 DEF Wide, WideOpen, SubmixOf
  <2>3. CASE Disconnect(d)
    <3> DEFINE ins == cond.inputs \ InDeviceOf(d)
    <3>1. d \in cond.available \ {"SPEAKER"} /\ cond' = Detached(d, ins).cond
      BY <2>3, PlugsAssumption DEF Disconnect, Apply
    <3>2. ins \in SUBSET InDevices BY <1>1, <2>1 DEF Conds
    <3> HIDE DEF ins
    <3>3. WideOpen(Range(Detached(d, ins).cond.outputs)) BY <1>1, <3>1, <3>2, DetachedWide
    <3> QED BY <3>1, <3>3 DEF Wide
  <2> QED BY <1>3, <2>2, <2>3
<1>4. ASSUME NEW p \in Phones, SetPhoneState(p) PROVE Wide'
  <2> DEFINE n == [cond EXCEPT !.phone = p]
  <2>1. n \in Conds /\ n.outputs = cond.outputs /\ cond' = checkA2dpSuspend(n)
    BY <1>1, <1>4 DEF SetPhoneState, Conds
  <2> HIDE DEF n
  <2>2. cond'.outputs = cond.outputs BY <2>1, SuspendTyped
  <2> QED BY <1>2, <2>2
<1>5. ASSUME NEW f \in Forces, SetForceUse(f[1], f[2]) PROVE Wide'
  <2> DEFINE n == [cond EXCEPT !.force[f[1]] = f[2]]
  <2>1. n \in Conds /\ n.outputs = cond.outputs /\ cond' = checkA2dpSuspend(n)
    <3>1. f[2] \in Forced BY DEF Forced
    <3> QED BY <1>1, <1>5, <3>1 DEF SetForceUse, Conds
  <2> HIDE DEF n
  <2>2. cond'.outputs = cond.outputs BY <2>1, SuspendTyped
  <2> QED BY <1>2, <2>2
<1>6. ASSUME NEW s, NEW device, SetStreamVolumeIndex(s, device) PROVE Wide'
  BY <1>2, <1>6 DEF SetStreamVolumeIndex
<1> QED BY <1>3, <1>4, <1>5, <1>6 DEF Conditions

LEMMA TracksWide ==
  ASSUME WideOnly, Typed, Wide, Tracks
  PROVE  Wide'
<1>1. cond \in Conds /\ Laid(cond) BY DEF Typed
<1>2. ASSUME cond'.outputs = cond.outputs PROVE Wide' BY <1>2 DEF Wide
<1>3. ASSUME NEW c \in Clients, StartOutput(c) \/ StopOutput(c) PROVE Wide'
  <2> DEFINE o == client[c].out
             s == StreamOf[c]
  <2>1. \/ cond' = [cond EXCEPT !.refs = Counts(cond.refs, o, s, 1)]
        \/ cond' = [cond EXCEPT !.refs = Counts(cond.refs, o, s, -1)]
    BY <1>3 DEF StartOutput, StopOutput
  <2>2. ASSUME NEW refs, cond' = [cond EXCEPT !.refs = refs] PROVE Wide'
    BY <1>1, <1>2, <2>2 DEF Conds
  <2> QED BY <2>1, <2>2
<1>4. ASSUME NEW o \in Direct \cap Profiles
      PROVE  /\ WideOpen(Range(Closed(cond, {o}).outputs))
             /\ o \notin {"voip_rx", "hdmi"} =>
                  WideOpen(Range([Closed(cond, {o}) EXCEPT !.outputs = Append(@, o)].outputs))
  <2> DEFINE q == Closed(cond, {o})
  <2>1. q \in Conds /\ Range(q.outputs) = Range(cond.outputs) \ {o} BY <1>1, ClosedTyped
  <2> HIDE DEF q
  <2>2. o # "fast" BY DEF Direct, Counted
  <2>3. WideOpen(Range(q.outputs)) BY <2>1, <2>2 DEF Wide, WideOpen
  <2>4. [q EXCEPT !.outputs = Append(@, o)].outputs = Append(q.outputs, o) BY <2>1 DEF Conds
  <2>5. Range(Append(q.outputs, o)) = Range(q.outputs) \cup {o}
    <3>1. q.outputs \in Seq(Outputs) /\ o \in Outputs BY <2>1, DirectOutputs DEF Conds
    <3> QED BY <3>1, Appended
  <2>6. o \notin {"voip_rx", "hdmi"} => WideOpen(Range([q EXCEPT !.outputs = Append(@, o)].outputs))
    BY <2>3, <2>4, <2>5 DEF WideOpen
  <2> QED BY <2>3, <2>6 DEF q
<1>5. ASSUME NEW c \in Clients, ReleaseOutput(c) PROVE Wide'
  <2> DEFINE o == client[c].out
  <2>1. \/ UNCHANGED policyVars
        \/ o \in Direct /\ cond' = Closed(cond, {o})
    BY <1>5 DEF ReleaseOutput
  <2>2. CASE o \in Direct /\ cond' = Closed(cond, {o})
    <3>1. Range(Closed(cond, {o}).outputs) = Range(cond.outputs) \ {o} BY <1>1, ClosedTyped
    <3>2. o # "fast" BY <2>2 DEF Direct, Counted
    <3> QED BY <2>2, <3>1, <3>2 DEF Wide, WideOpen
  <2>3. CASE UNCHANGED policyVars BY <1>2, <2>3 DEF policyVars
  <2> QED BY <2>1, <2>2, <2>3
<1>6. ASSUME NEW c \in Clients, NEW w \in Wants[c], GetOutput(c, w) PROVE Wide'
  <2> DEFINE device == Device(cond, Strategy(StreamOf[c]))
  <2>1. \/ UNCHANGED policyVars
        \/ \E o \in DirectFor(device, w) :
             cond' \in {Closed(cond, {o}), [Closed(cond, {o}) EXCEPT !.outputs = Append(@, o)]}
    BY <1>6 DEF GetOutput
  <2>2. \A o \in DirectFor(device, w) : o \in Direct \cap Profiles /\ o \notin {"voip_rx", "hdmi"}
    BY DEF DirectFor, WideOnly
  <2> HIDE DEF device
  <2>3. CASE UNCHANGED policyVars BY <1>2, <2>3 DEF policyVars
  <2> QED BY <1>4, <2>1, <2>2, <2>3 DEF Wide
<1> QED BY <1>3, <1>5, <1>6 DEF Tracks

LEMMA CaptureWide ==
  ASSUME Typed, Wide, Capture
  PROVE  Wide'
<1>1. cond \in Conds /\ Laid(cond) BY DEF Typed
<1>2. cond.inputs \in SUBSET InDevices BY <1>1 DEF Conds
<1>3. ASSUME cond' = cond PROVE Wide' BY <1>3 DEF Wide
<1>4. ASSUME NEW i \in Records, GetInput(i) \/ ReleaseInput(i) PROVE Wide'
  BY <1>3, <1>4 DEF GetInput, ReleaseInput, policyVars
<1>5. ASSUME NEW i \in Records, StartInput(i) PROVE Wide'
  <2> DEFINE d == "REMOTE_SUBMIX"
             x == Attached(d, cond.inputs)
  <2>1. \/ d \notin cond.available /\ "submix" \in Profiles /\ cond' = x.cond
        \/ cond' = cond
    BY <1>5 DEF StartInput, Apply, policyVars
  <2>2. CASE d \notin cond.available /\ "submix" \in Profiles /\ cond' = x.cond
    <3>1. Pluggable(d) BY <2>2 DEF Pluggable
    <3> HIDE DEF d
    <3>2. Range(x.cond.outputs) = Range(cond.outputs) \cup SubmixOf(d)
      BY <1>1, <1>2, <2>2, <3>1, AttachedTyped
    <3> HIDE DEF x
    <3> QED BY <2>2, <3>2 DEF Wide, WideOpen, SubmixOf
  <2> QED BY <1>3, <2>1, <2>2
<1>6. ASSUME NEW i \in Records, StopInput(i) PROVE Wide'
  <2> DEFINE d == "REMOTE_SUBMIX"
             x == Detached(d, cond.inputs)
  <2>1. \/ d \in cond.available \ {"SPEAKER"} /\ cond' = x.cond
        \/ cond' = cond
    BY <1>6 DEF StopInput
  <2>2. CASE d \in cond.available \ {"SPEAKER"} /\ cond' = x.cond
    <3> HIDE DEF d
    <3>1. WideOpen(Range(x.cond.outputs)) BY <1>1, <1>2, <2>2, DetachedWide
    <3> HIDE DEF x
    <3> QED BY <2>2, <3>1 DEF Wide
  <2> QED BY <1>3, <2>1, <2>2
<1> QED BY <1>4, <1>5, <1>6 DEF Capture

LEMMA WideAlways == ASSUME WideOnly PROVE Spec => []Wide
<1>1. Init => Wide
  <2> SUFFICES ASSUME Init PROVE Wide OBVIOUS
  <2>1. cond.outputs = <<"primary", "fast">> BY DEF Init, Calm
  <2>2. Range(cond.outputs) = {"primary", "fast"} BY <2>1 DEF Range
  <2> QED BY <2>2 DEF Wide, WideOpen
<1>2. Typed /\ Wide /\ [Next]_vars => Wide'
  <2> SUFFICES ASSUME Typed, Wide, [Next]_vars PROVE Wide' OBVIOUS
  <2>1. CASE UNCHANGED vars BY <2>1 DEF vars, policyVars, Wide
  <2> QED BY <2>1, TracksWide, ConditionsWide, CaptureWide DEF Next
<1> QED BY <1>1, <1>2, TypedAlways, PTL DEF Spec

\* S is a set of mixes that is left only by sending an output to a device that is
\* not among A, or by opening the primary one.
Keeps(S, A) ==
  /\ \A q : Stable(S, q)
  /\ \A wanted : wanted \subseteq A => RoutesTo(S, wanted)
  /\ \A m \in S, o \in Outputs \ {"primary"}, device \in SUBSET OutDevices :
       OpenedOne(m, o, device) \in S

LEMMA PresentKeeps ==
  ASSUME NEW A
  PROVE  Keeps(RoutedIn(SUBSET A), A) /\ Keeps(PlacedIn(A), A)
<1>1. "primary" \in Outputs BY ProfilesAssumption DEF Outputs
<1>2. ASSUME NEW m \in Mixes, NEW o \in Outputs \ {"primary"}, NEW device \in SUBSET OutDevices
      PROVE  /\ m \in RoutedIn(SUBSET A) => OpenedOne(m, o, device) \in RoutedIn(SUBSET A)
             /\ m \in PlacedIn(A) => OpenedOne(m, o, device) \in PlacedIn(A)
  <2> DEFINE r == OpenedOne(m, o, device)
  <2>1. r \in Mixes /\ r.routed = m.routed /\ r.device["primary"] = m.device["primary"]
    BY <1>1, OpenedSets
  <2> HIDE DEF r
  <2>2. /\ m \in RoutedIn(SUBSET A) => r \in RoutedIn(SUBSET A)
        /\ m \in PlacedIn(A) => r \in PlacedIn(A)
    BY <2>1 DEF RoutedIn, PlacedIn
  <2> QED BY <2>2 DEF r
<1>3. RoutedIn(SUBSET A) \subseteq Mixes /\ PlacedIn(A) \subseteq Mixes BY DEF RoutedIn, PlacedIn
<1>4. \A wanted : wanted \subseteq A => RoutesTo(RoutedIn(SUBSET A), wanted) BY RoutedRoutes
<1>5. \A wanted : wanted \subseteq A => RoutesTo(PlacedIn(A), wanted) BY PlacedRoutes
<1> QED BY <1>2, <1>3, <1>4, <1>5, RoutedStable, PlacedStable DEF Keeps

LEMMA KeepsOpened ==
  ASSUME NEW A, NEW S, Keeps(S, A), NEW m \in S, NEW os \in SUBSET (Outputs \ {"primary"}),
         NEW device \in SUBSET OutDevices
  PROVE  Opened(m, os, device) \in S
<1>1. IsFiniteSet(os) BY OutputsFinite, FS_Subset
<1>2. \A n \in S, o \in os : OpenedOne(n, o, device) \in S BY DEF Keeps
<1> QED BY <1>1, <1>2, OpenedKept

\* What is selected is there.
LEMMA SelectedPresent ==
  ASSUME NEW q, Laid(q), NEW table, Known(q, table), NEW o
  PROVE  getNewDevice(q, table, o) \subseteq q.available
<1> DEFINE t == NewStrategy(q, o)
<1>1. t \in Strategies \cup {"NONE"} BY DEF NewStrategy, Strategies
<1>2. getNewDevice(q, table, o) = IF t = "NONE" THEN {} ELSE table[t] BY DEF getNewDevice
<1> HIDE DEF t
<1>3. "SPEAKER" \in q.available BY DEF Laid
<1>4. \A u \in Strategies : table[u] \subseteq q.available BY <1>3, SelectedDevices DEF Known
<1> QED BY <1>1, <1>2, <1>4

\* What an output that plays asks for, it is sent to.
Mixers == {"primary", "fast", "lpa", "tunnel"}
LEMMA PlayedPresent ==
  ASSUME NEW q, Laid(q), NEW table, Known(q, table), NEW o \in Mixers, isActive(q, o),
         "REMOTE_SUBMIX" \notin q.available
  PROVE  LET d == getNewDevice(q, table, o)
         IN d # {} /\ d \subseteq q.available /\ d \subseteq Supported(o)
<1> DEFINE t == NewStrategy(q, o)
           d == getNewDevice(q, table, o)
<1>1. t \in Strategies
  <2>1. PICK s \in Streams : q.refs[o][s] > 0 BY DEF isActive
  <2>2. Strategy(s) \in Strategies BY StrategiesOf
  <2>3. isStrategyActive(q, o, Strategy(s)) BY <2>1 DEF isStrategyActive
  <2> QED BY <2>2, <2>3 DEF NewStrategy, Strategies
<1>2. t # "NONE" BY <1>1 DEF Strategies
<1>3. d = Device(q, t) BY <1>1, <1>2 DEF getNewDevice, Known
<1>4. "SPEAKER" \in q.available BY DEF Laid
<1>5. q.available \subseteq Supported("primary") BY DEF Laid
<1>6. Supported("primary") = Mixed \cup {"FM"} /\ Mixed \subseteq Supported(o)
  BY DEF Supported, Mixers
<1> HIDE DEF t, d
<1>7. d \subseteq q.available \ {"FM"} /\ d # {} BY <1>1, <1>3, <1>4, SelectedDevices
<1>8. d # {} /\ d \subseteq q.available /\ d \subseteq Supported(o) BY <1>5, <1>6, <1>7
<1> QED BY <1>8 DEF d

\* Without the remote submix the open outputs are those.
LEMMA OpenMixers ==
  ASSUME NEW q \in Conds, Laid(q), WideOpen(Range(q.outputs)), "REMOTE_SUBMIX" \notin q.available
  PROVE  Range(q.outputs) \subseteq Mixers
<1>1. Range(q.outputs) \subseteq Outputs BY OpenOutputs
<1>2. Outputs \subseteq Mixers \cup {"voip_rx", "hdmi", "submix", "dup"}
  BY ProfilesAssumption DEF Outputs, Mixers
<1> QED BY <1>1, <1>2 DEF Laid, WideOpen

\* An output that plays and is forced to its device takes the module there.
LEMMA PlayingLands ==
  ASSUME NEW q \in Conds, Laid(q), NEW table, Known(q, table), NEW o \in Mixers, o \in Outputs,
         isActive(q, o), "REMOTE_SUBMIX" \notin q.available, NEW m \in Mixes
  PROVE  setOutputDevice(q, m, o, getNewDevice(q, table, o), TRUE)
           \in RoutedIn(SUBSET q.available)
<1> DEFINE wanted == getNewDevice(q, table, o)
           A == q.available
<1>1. wanted # {} /\ wanted \subseteq A /\ wanted \subseteq Supported(o) BY PlayedPresent
<1> HIDE DEF wanted, A
<1>2. wanted = wanted \cap Supported(o) BY <1>1
<1>3. q.outputs \in Seq(Outputs) BY DEF Conds
<1>4. o \in Outputs \ {"submix", "dup"} BY DEF Mixers
<1>5. setOutputDevice(q, m, o, wanted, TRUE) \in RoutedIn({wanted}) BY <1>1, <1>2, <1>3, <1>4, LandsOn
<1>6. setOutputDevice(q, m, o, wanted, TRUE) \in RoutedIn(SUBSET A) BY <1>1, <1>5 DEF RoutedIn
<1> QED BY <1>6 DEF wanted, A

\* As soon as something plays, routing every output leaves no device that is gone.
Resting(q) == \A o \in Range(q.outputs) : ~isActive(q, o)
LEMMA RouteAllPresent ==
  ASSUME NEW q \in Conds, Laid(q), WideOpen(Range(q.outputs)), NEW table, Known(q, table),
         "REMOTE_SUBMIX" \notin q.available, ~Resting(q), NEW m \in Mixes
  PROVE  RouteAll(q, table, m, InCallOrder(q), TRUE) \in RoutedIn(SUBSET q.available)
<1> DEFINE A == q.available
           S == RoutedIn(SUBSET A)
           good == {o \in Mixers \cap Outputs : isActive(q, o)}
           order == InCallOrder(q)
<1>1. q.outputs \in Seq(Outputs) /\ order \in Seq(Routable) BY OpenRoutable
<1>2. Keeps(S, A) BY PresentKeeps
<1>3. Stable(S, q) BY <1>2 DEF Keeps
<1>4. \A o \in Routable : RoutesTo(S, getNewDevice(q, table, o))
  <2>1. \A o : getNewDevice(q, table, o) \subseteq A BY SelectedPresent
  <2> HIDE DEF A, S
  <2> QED BY <1>2, <2>1 DEF Keeps
<1>5. \A n \in Mixes, o \in good :
        setOutputDevice(q, n, o, getNewDevice(q, table, o),
                        TRUE \/ getNewDevice(q, table, o) # {}) \in S
  <2>1. \A n \in Mixes, o \in good : setOutputDevice(q, n, o, getNewDevice(q, table, o), TRUE) \in S
    BY PlayingLands
  <2>2. \A d : (TRUE \/ d # {}) = TRUE OBVIOUS
  <2> QED BY <2>1, <2>2
<1>6. \E o \in Range(order) : o \in good
  <2>1. PICK o \in Range(q.outputs) : isActive(q, o) BY DEF Resting
  <2>2. o \in Mixers /\ o \in Outputs BY <2>1, OpenMixers, OpenOutputs
  <2>3. Range(order) = Range(q.outputs) BY <1>1, Turned DEF InCallOrder
  <2> QED BY <2>1, <2>2, <2>3
<1> HIDE DEF S, good, order
<1>7. RouteAll(q, table, m, order, TRUE) \in S
  BY <1>1, <1>3, <1>4, <1>5, <1>6, RouteAllReaches
<1> QED BY <1>7 DEF S, order

\* In a call routing every output sends the primary one to the device of the call.
LEMMA RouteAllPlaced ==
  ASSUME NEW q \in Conds, Laid(q), isInCall(q), NEW table, Known(q, table), NEW m \in Mixes
  PROVE  /\ RouteAll(q, table, m, InCallOrder(q), TRUE) \in PlacedIn(q.available)
         /\ setOutputDevice(q, m, "primary", getNewDevice(q, table, "primary"), TRUE)
              \in PlacedIn(q.available)
<1> DEFINE A == q.available
           S == PlacedIn(A)
           good == {"primary"}
           order == InCallOrder(q)
           dev == PhoneDevice(q, FALSE)
<1>1. q.outputs \in Seq(Outputs) /\ order \in Seq(Routable) BY OpenRoutable
<1>2. Keeps(S, A) BY PresentKeeps
<1>3. Stable(S, q) BY <1>2 DEF Keeps
<1>4. \A o \in Routable : RoutesTo(S, getNewDevice(q, table, o))
  <2>1. \A o : getNewDevice(q, table, o) \subseteq A BY SelectedPresent
  <2> HIDE DEF A, S
  <2> QED BY <1>2, <2>1 DEF Keeps
<1>5. ASSUME NEW n \in Mixes
      PROVE  setOutputDevice(q, n, "primary", getNewDevice(q, table, "primary"), TRUE) \in S
  <2>1. getNewDevice(q, table, "primary") = dev BY CallWanted DEF Known
  <2>2. dev # {} /\ dev \subseteq A /\ dev \subseteq Supported("primary")
    <3>1. "SPEAKER" \in q.available /\ q.available \subseteq Supported("primary") \cup {"REMOTE_SUBMIX"}
      BY DEF Laid
    <3>2. dev \subseteq (q.available \ {"REMOTE_SUBMIX", "FM"}) \cup {"SPEAKER"} /\ dev # {}
      BY PhoneDevices
    <3> HIDE DEF dev
    <3> QED BY <3>1, <3>2
  <2> HIDE DEF dev, A
  <2>3. "primary" \in Outputs \ {"submix", "dup"} /\ dev = dev \cap Supported("primary")
    BY <2>2, ProfilesAssumption DEF Outputs
  <2>4. setOutputDevice(q, n, "primary", dev, TRUE) \in PlacedIn(dev) BY <1>1, <2>2, <2>3, LandsOn
  <2>5. setOutputDevice(q, n, "primary", dev, TRUE) \in PlacedIn(A) BY <2>2, <2>4 DEF PlacedIn
  <2> QED BY <2>1, <2>5
<1>6. \A n \in Mixes, o \in good :
        setOutputDevice(q, n, o, getNewDevice(q, table, o),
                        TRUE \/ getNewDevice(q, table, o) # {}) \in S
  <2>1. \A d : (TRUE \/ d # {}) = TRUE OBVIOUS
  <2> HIDE DEF S
  <2> QED BY <1>5, <2>1
<1>7. \E o \in Range(order) : o \in good BY CallOrdered
<1> HIDE DEF S, good, order
<1>8. RouteAll(q, table, m, order, TRUE) \in S
  BY <1>1, <1>3, <1>4, <1>6, <1>7, RouteAllReaches
<1> QED BY <1>5, <1>8 DEF S, order

\* In a call the primary output has a device that is there. The route is there
\* too, unless nothing plays: then the next output to start is forced to its own.
\* (While the remote submix is up, the route may be older.)
PresentIn(q, m, force) ==
  /\ isInCall(q) => m \in PlacedIn(q.available)
  /\ \/ "REMOTE_SUBMIX" \in q.available
     \/ m \in RoutedIn(SUBSET q.available)
     \/ Resting(q) /\ force
Present == PresentIn(cond, mix, mForceDeviceChange)

LEMMA MorePresent ==
  ASSUME NEW A, NEW B, A \subseteq B
  PROVE  RoutedIn(SUBSET A) \subseteq RoutedIn(SUBSET B) /\ PlacedIn(A) \subseteq PlacedIn(B)
BY DEF RoutedIn, PlacedIn

\* The mix when a device comes.
LEMMA AttachedKept ==
  ASSUME cond \in Conds, Laid(cond), IInv, NEW d, d \notin cond.available, Pluggable(d),
         NEW ins \in SUBSET InDevices, NEW S, Keeps(S, cond.available \cup {d}), mix \in S
  PROVE  Attached(d, ins).mix \in S
<1> DEFINE x == Attached(d, ins)
           opened == IF d = "REMOTE_SUBMIX" THEN <<"submix", "dup">> ELSE <<>>
           q == checkA2dpSuspend(
                  [cond EXCEPT !.available = @ \cup {d}, !.inputs = ins, !.sco = @ \/ d \in Sco,
                               !.suspended = @ /\ d \notin A2dp, !.outputs = @ \o opened])
           r == FmCounted(q, d, 1)
           m == Opened(mix, Range(opened), {})
           n == IF opened = <<>> THEN m ELSE [m EXCEPT !.device["submix"] = {d}]
           table == Fresh(q)
           order == InCallOrder(r)
<1>1. /\ x.cond = r /\ x.table = table
      /\ x.mix \in {n, RouteAll(r, table, n, order, TRUE)}
  BY DEF Attached
<1> HIDE DEF q, r, table
<1>2. r \in Conds /\ Laid(r) /\ r.available = cond.available \cup {d} BY <1>1, AttachedTyped
<1>3. Known(r, table) BY <1>1, AttachedSettled DEF Settled, Known
<1>4. n \in S
  <2>1. {} \in SUBSET OutDevices OBVIOUS
  <2>2. CASE d = "REMOTE_SUBMIX"
    <3> DEFINE os == {"submix", "dup"}
    <3>1. Range(opened) = os /\ opened # <<>>
      <4>1. opened = <<"submix", "dup">> BY <2>2
      <4> QED BY <4>1 DEF Range
    <3>2. os \in SUBSET (Outputs \ {"primary"}) /\ {d} \in SUBSET OutDevices
      BY <2>2, ProfilesAssumption DEF Pluggable, Outputs, Supported, Mixed, Wired, Sco, A2dp, Usb, OutDevices
    <3> HIDE DEF opened, os
    <3>3. Opened(mix, os, {}) \in S BY <2>1, <3>2, KeepsOpened
    <3>4. m \in S BY <3>1, <3>3
    <3> HIDE DEF m
    <3>5. [m EXCEPT !.device["submix"] = {d}] \in S
      <4>1. "submix" \in Outputs BY <3>2 DEF os
      <4>2. Stable(S, q) BY DEF Keeps
      <4> QED BY <3>2, <3>4, <4>1, <4>2 DEF Stable
    <3> QED BY <3>1, <3>5
  <2>3. CASE d # "REMOTE_SUBMIX"
    <3>1. Range(opened) = {} /\ opened = <<>> BY <2>3 DEF Range
    <3>2. {} \in SUBSET (Outputs \ {"primary"}) OBVIOUS
    <3> HIDE DEF opened
    <3>3. Opened(mix, {}, {}) \in S BY <2>1, <3>2, KeepsOpened
    <3> QED BY <3>1, <3>3
  <2> QED BY <2>2, <2>3
<1> HIDE DEF n
<1>5. RouteAll(r, table, n, order, TRUE) \in S
  <2>1. order \in Seq(Routable) /\ r.outputs \in Seq(Outputs) BY <1>2, OpenRoutable
  <2>2. \A o \in Routable : RoutesTo(S, getNewDevice(r, table, o))
    BY <1>2, <1>3, SelectedPresent DEF Keeps
  <2>3. Stable(S, r) BY DEF Keeps
  <2> HIDE DEF order
  <2> QED BY <1>4, <2>1, <2>2, <2>3, RouteAllKept
<1> HIDE DEF x
<1>6. x.mix \in S BY <1>1, <1>4, <1>5
<1> QED BY <1>6 DEF x

\* A device that comes adds to what is there; only FM makes an output play.
LEMMA ConnectPresent ==
  ASSUME Typed, Tracked, Wide, IInv, Sounding, Present, NEW d \in Plugs, Connect(d)
  PROVE  Present'
<1> DEFINE ins == cond.inputs \cup InDeviceOf(d)
           x == Attached(d, ins)
           A == cond.available \cup {d}
<1>1. cond \in Conds /\ Laid(cond) /\ mix \in Mixes BY DEF Typed, Sounding, Heard
<1>2. ins \in SUBSET InDevices BY <1>1 DEF InDeviceOf, InDevices, Conds
<1>3. /\ d \notin cond.available /\ cond' = x.cond /\ mix' = x.mix
      /\ mForceDeviceChange' = mForceDeviceChange
  BY DEF Connect, Apply
<1>4. Pluggable(d) /\ d # "REMOTE_SUBMIX"
  <2>1. "REMOTE_SUBMIX" \notin Supported("primary")
    BY DEF Supported, Mixed, Wired, Sco, A2dp, Usb
  <2> QED BY <2>1, PlugsAssumption DEF Pluggable
<1> HIDE DEF ins
<1>5. /\ x.cond \in Conds /\ Laid(x.cond) /\ x.cond.available = A /\ x.cond.phone = cond.phone
      /\ Range(x.cond.outputs) = Range(cond.outputs)
      /\ x.cond.refs = IF d = "FM" THEN Counts(cond.refs, "primary", "MUSIC", 1) ELSE cond.refs
  <2>1. /\ x.cond \in Conds /\ Laid(x.cond) /\ x.cond.available = A /\ x.cond.phone = cond.phone
        /\ Range(x.cond.outputs) = Range(cond.outputs) \cup SubmixOf(d)
        /\ x.cond.refs = IF d = "FM" THEN Counts(cond.refs, "primary", "MUSIC", 1) ELSE cond.refs
    BY <1>1, <1>2, <1>3, <1>4, AttachedTyped
  <2>2. SubmixOf(d) = {} BY <1>4 DEF SubmixOf
  <2> HIDE DEF x, A
  <2> QED BY <2>1, <2>2
<1>6. ASSUME NEW S, Keeps(S, A), mix \in S PROVE x.mix \in S
  BY <1>1, <1>2, <1>3, <1>4, <1>6, AttachedKept
<1>7. Keeps(RoutedIn(SUBSET A), A) /\ Keeps(PlacedIn(A), A) BY PresentKeeps
<1>8. /\ RoutedIn(SUBSET cond.available) \subseteq RoutedIn(SUBSET A)
      /\ PlacedIn(cond.available) \subseteq PlacedIn(A)
  <2>1. cond.available \subseteq A OBVIOUS
  <2> QED BY <2>1, MorePresent
<1>9. isInCall(x.cond) => x.mix \in PlacedIn(A)
  <2>1. isInCall(x.cond) => isInCall(cond) BY <1>5 DEF isInCall
  <2> HIDE DEF x, A
  <2> QED BY <1>6, <1>7, <1>8, <2>1 DEF Present, PresentIn
<1>10. ASSUME mix \in RoutedIn(SUBSET cond.available) PROVE x.mix \in RoutedIn(SUBSET A)
  BY <1>6, <1>7, <1>8, <1>10
<1>11. ASSUME "REMOTE_SUBMIX" \notin A, Resting(cond), mForceDeviceChange
       PROVE  x.mix \in RoutedIn(SUBSET A) \/ Resting(x.cond)
  <2>1. CASE d = "FM"
    <3>1. Settled(x.cond, x.table) BY AttachedSettled
    <3>2. Known(x.cond, x.table) BY <3>1 DEF Settled, Known
    <3>3. ~Resting(x.cond) => x.mix \in RoutedIn(SUBSET A)
      <4> DEFINE n == Opened(mix, {}, {})
      <4>1. x.mix = RouteAll(x.cond, x.table, n, InCallOrder(x.cond), TRUE)
        <5>1. Range(<<>>) = {} BY DEF Range
        <5>2. d \notin A2dp BY <2>1 DEF A2dp
        <5> QED BY <1>4, <5>1, <5>2 DEF Attached
      <4>2. n \in Mixes
        <5>1. mix \in RoutedIn({mix.routed}) BY <1>1 DEF RoutedIn
        <5>2. {} \in SUBSET Outputs /\ {} \in SUBSET OutDevices /\ IsFiniteSet({}) BY FS_EmptySet
        <5>3. n \in RoutedIn({mix.routed}) BY <5>1, <5>2, OpenedRouted
        <5> QED BY <5>3 DEF RoutedIn
      <4>3. WideOpen(Range(x.cond.outputs)) BY <1>5 DEF Wide
      <4> HIDE DEF n, x
      <4> QED BY <1>5, <1>11, <3>2, <4>1, <4>2, <4>3, RouteAllPresent
    <3> QED BY <3>3
  <2>2. CASE d # "FM"
    <3>1. x.cond.refs = cond.refs BY <1>5, <2>2
    <3> HIDE DEF x
    <3> QED BY <1>5, <1>11, <3>1 DEF Resting, isActive
  <2> QED BY <2>1, <2>2
<1>12. PresentIn(x.cond, x.mix, mForceDeviceChange)
  <2> HIDE DEF x
  <2>1. "REMOTE_SUBMIX" \in cond.available => "REMOTE_SUBMIX" \in A OBVIOUS
  <2> HIDE DEF A
  <2> QED BY <1>5, <1>9, <1>10, <1>11, <2>1 DEF Present, PresentIn
<1> HIDE DEF x
<1> QED BY <1>3, <1>12 DEF Present

\* A device that goes takes the route with it as soon as something plays.
LEMMA DetachedPresent ==
  ASSUME cond \in Conds, Laid(cond), Wide, IInv, mix \in Mixes,
         NEW d, d \in cond.available \ {"SPEAKER"}, NEW ins \in SUBSET InDevices
  PROVE  PresentIn(Detached(d, ins).cond, Detached(d, ins).mix, TRUE)
<1> DEFINE x == Detached(d, ins)
           q == checkA2dpSuspend(
                  [cond EXCEPT !.available = @ \ {d}, !.inputs = ins, !.sco = @ /\ d \notin Sco,
                               !.suspended = @ /\ d \notin A2dp])
           gone == Gone(q)
           table == Fresh(Closed(q, gone))
           s == FmCounted(Closed(q, gone), d, 0 - 1)
           m == Opened(mix, gone, {})
           routed == RouteAll(s, table, m, InCallOrder(s), TRUE)
<1>1. x.cond = s /\ x.gone = gone /\ x.table = table /\ x.mix = routed BY DEF Detached, Gone
<1> HIDE DEF q, gone, table, s
<1>2. s \in Conds /\ Laid(s) /\ Shut(gone) BY <1>1, DetachedTyped
<1>3. Known(s, table) BY <1>1, DetachedSettled DEF Settled, Known
<1>4. WideOpen(Range(s.outputs)) BY <1>1, DetachedWide
<1>5. m \in Mixes
  <2>1. gone \in SUBSET Outputs /\ IsFiniteSet(gone) BY <1>2, OutputsFinite, FS_Subset DEF Shut
  <2>2. mix \in RoutedIn({mix.routed}) BY DEF RoutedIn
  <2>3. m \in RoutedIn({mix.routed}) BY <2>1, <2>2, OpenedRouted
  <2> QED BY <2>3 DEF RoutedIn
<1> HIDE DEF m
<1>6. isInCall(s) => routed \in PlacedIn(s.available) BY <1>2, <1>3, <1>5, RouteAllPlaced
<1>7. "REMOTE_SUBMIX" \notin s.available /\ ~Resting(s) => routed \in RoutedIn(SUBSET s.available)
  BY <1>2, <1>3, <1>4, <1>5, RouteAllPresent
<1> HIDE DEF routed, x
<1>8. PresentIn(x.cond, x.mix, TRUE) BY <1>1, <1>6, <1>7 DEF PresentIn
<1> QED BY <1>8 DEF x

LEMMA DisconnectPresent ==
  ASSUME Typed, Wide, IInv, Sounding, NEW d \in Plugs, Disconnect(d)
  PROVE  Present'
<1> DEFINE ins == cond.inputs \ InDeviceOf(d)
           x == Detached(d, ins)
<1>1. cond \in Conds /\ Laid(cond) /\ mix \in Mixes BY DEF Typed, Sounding, Heard
<1>2. ins \in SUBSET InDevices BY <1>1 DEF Conds
<1>3. /\ d \in cond.available \ {"SPEAKER"} /\ cond' = x.cond /\ mix' = x.mix
      /\ mForceDeviceChange' = TRUE
  BY PlugsAssumption DEF Disconnect, Apply
<1> HIDE DEF ins
<1>4. PresentIn(x.cond, x.mix, TRUE) BY <1>1, <1>2, <1>3, DetachedPresent
<1> HIDE DEF x
<1> QED BY <1>3, <1>4 DEF Present

\* A call that leaves the devices, the outputs and the use counts alone.
LEMMA PresentStays ==
  ASSUME Present, NEW q, NEW m, cond' = q, mix' = m, mForceDeviceChange' = mForceDeviceChange,
         q.available = cond.available, q.outputs = cond.outputs, q.refs = cond.refs,
         isInCall(q) => m \in PlacedIn(cond.available),
         mix \in RoutedIn(SUBSET cond.available) => m \in RoutedIn(SUBSET cond.available)
  PROVE  Present'
<1>1. Resting(cond) => Resting(q) BY DEF Resting, isActive
<1>2. PresentIn(q, m, mForceDeviceChange) BY <1>1 DEF Present, PresentIn
<1> QED BY <1>2 DEF Present

\* A call that ends may leave the primary output on the device of the call.
LEMMA PhonePresent ==
  ASSUME Typed, Tracked, Sounding, Present, NEW p \in Phones, SetPhoneState(p)
  PROVE  Present'
<1> DEFINE n == [cond EXCEPT !.phone = p]
           q == checkA2dpSuspend(n)
           table == Fresh(q)
           wanted == getNewDevice(q, table, "primary")
           device == IF wanted = {} /\ isInCall(cond) THEN mix.device["primary"] ELSE wanted
           left == AllIncall(cond, mix, FALSE)
           quiet == IF isInCall(q) THEN Quieted(q, table, left) ELSE left
           force == isInCall(cond) \/ isInCall(q)
           first == setOutputDevice(q, quiet, "primary", device, force)
           others == Others(q)
           all == RouteAll(q, table, first, others, FALSE)
           last == AllIncall(q, all, TRUE)
           A == cond.available
<1>1. cond \in Conds /\ Laid(cond) /\ mix \in Mixes BY DEF Typed, Sounding, Heard
<1>2. cond' = q /\ mix' = last /\ mForceDeviceChange' = mForceDeviceChange BY DEF SetPhoneState
<1>3. /\ q \in Conds /\ q.available = A /\ q.outputs = cond.outputs /\ q.refs = cond.refs
  <2>1. /\ n \in Conds /\ n.available = A /\ n.outputs = cond.outputs /\ n.refs = cond.refs
    BY <1>1 DEF Conds
  <2> HIDE DEF n
  <2> QED BY <2>1, SuspendTyped
<1> HIDE DEF q
<1>4. Laid(q) /\ q.outputs \in Seq(Outputs) /\ q.outputs \in Seq(Routable)
  <2>1. Laid(q) BY <1>1, <1>3 DEF Laid
  <2> QED BY <1>3, <2>1, OpenRoutable
<1>5. Known(q, table) BY DEF Known, Fresh
<1> HIDE DEF table
<1>6. \A o : getNewDevice(q, table, o) \subseteq A BY <1>3, <1>4, <1>5, SelectedPresent
<1>7. device \subseteq A
  <2>1. isInCall(cond) => mix.device["primary"] \subseteq A BY DEF Present, PresentIn, PlacedIn
  <2> HIDE DEF A
  <2> QED BY <1>6, <2>1
<1>8. Rings(cond) \in Nat /\ Rings(q) = Rings(cond) BY <1>3, RingsCounted DEF Rings
<1>9. force \in BOOLEAN OBVIOUS
<1>10. others \in Seq(Routable) BY <1>4, WithoutRange DEF Others, OutputsLeft
<1>11. "primary" \in Routable BY ProfilesAssumption DEF Routable, Outputs
<1>12. ASSUME NEW S, \A r : Stable(S, r), NEW m \in S, NEW r, Rings(r) \in Nat, NEW starting \in BOOLEAN
       PROVE  AllIncall(r, m, starting) \in S
  <2> DEFINE times == IF isInCall(r) THEN Rings(r) ELSE 0
  <2>1. times \in Nat /\ (times > 0 => "RING" \in Streams) BY <1>12 DEF Rings
  <2>2. Stable(S, r) BY <1>12
  <2> HIDE DEF times
  <2>3. handleIncallSonification(r, m, starting, times) \in S BY <2>1, <2>2, IncallKept
  <2> QED BY <2>3 DEF AllIncall, times
<1>13. ASSUME NEW S, \A r : Stable(S, r), mix \in S PROVE quiet \in S
  <2>1. left \in S BY <1>8, <1>12, <1>13
  <2> HIDE DEF left
  <2>2. Stable(S, q) BY <1>13
  <2>3. Quieted(q, table, left) \in S BY <1>4, <2>1, <2>2, QuietedKept
  <2> QED BY <2>1, <2>3
<1> HIDE DEF quiet
<1>14. ASSUME NEW S, Keeps(S, A), first \in S PROVE last \in S
  <2> HIDE DEF first, others
  <2>1. Stable(S, q) /\ \A r : Stable(S, r) BY <1>14 DEF Keeps
  <2>2. \A o \in Routable : RoutesTo(S, getNewDevice(q, table, o)) BY <1>6, <1>14 DEF Keeps
  <2>3. all \in S BY <1>4, <1>10, <1>14, <2>1, <2>2, RouteAllKept
  <2> HIDE DEF all
  <2> QED BY <1>8, <1>12, <2>1, <2>3
<1>15. ASSUME NEW S, Keeps(S, A), mix \in S PROVE first \in S
  <2>1. Stable(S, q) /\ \A r : Stable(S, r) BY <1>15 DEF Keeps
  <2>2. RoutesTo(S, device)
    <3> HIDE DEF device, A
    <3> QED BY <1>7, <1>15 DEF Keeps
  <2>3. quiet \in S BY <1>13, <1>15, <2>1
  <2> HIDE DEF device, force
  <2> QED BY <1>4, <1>9, <1>11, <2>1, <2>2, <2>3, RoutedKept
<1>16. isInCall(q) => first \in PlacedIn(A)
  <2> SUFFICES ASSUME isInCall(q) PROVE first \in PlacedIn(A) OBVIOUS
  <2>1. quiet \in Mixes
    <3>1. \A r : Stable(Mixes, r) BY MixesStable
    <3> QED BY <1>1, <1>13, <3>1
  <2>2. setOutputDevice(q, quiet, "primary", wanted, TRUE) \in PlacedIn(q.available)
    BY <1>3, <1>4, <1>5, <2>1, RouteAllPlaced
  <2>3. device = wanted
    <3>1. wanted = PhoneDevice(q, FALSE) BY <1>5, CallWanted DEF Known
    <3>2. PhoneDevice(q, FALSE) # {} BY PhoneDevices
    <3> QED BY <3>1, <3>2
  <2>4. force = TRUE OBVIOUS
  <2> HIDE DEF wanted, device, force
  <2> QED BY <1>3, <2>2, <2>3, <2>4
<1> HIDE DEF first, last
<1>17. Keeps(RoutedIn(SUBSET A), A) /\ Keeps(PlacedIn(A), A) BY PresentKeeps
<1>18. isInCall(q) => last \in PlacedIn(A) BY <1>14, <1>16, <1>17
<1>19. mix \in RoutedIn(SUBSET A) => last \in RoutedIn(SUBSET A) BY <1>14, <1>15, <1>17
<1> QED BY <1>2, <1>3, <1>18, <1>19, PresentStays

LEMMA ForcePresent ==
  ASSUME Typed, Sounding, Present, NEW f \in Forces, SetForceUse(f[1], f[2])
  PROVE  Present'
<1> DEFINE u == f[1]
           n == [cond EXCEPT !.force[u] = f[2]]
           q == checkA2dpSuspend(n)
           table == Fresh(q)
           m == Rerouted(q, table, u, mix)
           A == cond.available
<1>1. cond \in Conds /\ Laid(cond) /\ mix \in Mixes BY DEF Typed, Sounding, Heard
<1>2. cond' = q /\ mix' = m /\ mForceDeviceChange' = mForceDeviceChange BY DEF SetForceUse
<1>3. /\ q \in Conds /\ q.available = A /\ q.outputs = cond.outputs /\ q.refs = cond.refs
      /\ q.phone = cond.phone
  <2>1. /\ n \in Conds /\ n.available = A /\ n.outputs = cond.outputs /\ n.refs = cond.refs
        /\ n.phone = cond.phone
    <3>1. f[2] \in Forced BY DEF Forced
    <3> QED BY <1>1, <3>1 DEF Conds
  <2> HIDE DEF n
  <2> QED BY <2>1, SuspendTyped
<1> HIDE DEF q
<1>4. Laid(q) /\ q.outputs \in Seq(Routable)
  <2>1. Laid(q) BY <1>1, <1>3 DEF Laid
  <2> QED BY <1>3, <2>1, OpenRoutable
<1>5. Known(q, table) BY DEF Known, Fresh
<1> HIDE DEF table, u
<1>6. ASSUME NEW S, Keeps(S, A), mix \in S PROVE m \in S
  <2>1. Stable(S, q) BY <1>6 DEF Keeps
  <2>2. \A o : getNewDevice(q, table, o) \subseteq A BY <1>3, <1>4, <1>5, SelectedPresent
  <2> HIDE DEF A
  <2>3. \A o \in Routable : RoutesTo(S, getNewDevice(q, table, o)) BY <1>6, <2>2 DEF Keeps
  <2> QED BY <1>4, <1>6, <2>1, <2>3, ReroutedKept
<1> HIDE DEF m
<1>7. Keeps(RoutedIn(SUBSET A), A) /\ Keeps(PlacedIn(A), A) BY PresentKeeps
<1>8. isInCall(q) => m \in PlacedIn(A)
  <2>1. isInCall(q) => isInCall(cond) BY <1>3 DEF isInCall
  <2>2. isInCall(cond) => mix \in PlacedIn(A) BY DEF Present, PresentIn
  <2> HIDE DEF A
  <2> QED BY <1>6, <1>7, <2>1, <2>2
<1>9. mix \in RoutedIn(SUBSET A) => m \in RoutedIn(SUBSET A) BY <1>6, <1>7
<1> QED BY <1>2, <1>3, <1>8, <1>9, PresentStays

LEMMA VolumePresent ==
  ASSUME Typed, Sounding, Present, NEW s \in Streams, NEW device, SetStreamVolumeIndex(s, device)
  PROVE  Present'
<1> DEFINE m == VolumeSet(s, device)
           A == cond.available
<1>1. cond' = cond /\ mix' = m /\ mForceDeviceChange' = mForceDeviceChange
  BY DEF SetStreamVolumeIndex
<1>2. cond.outputs \in Seq(Outputs) BY DEF Typed, Conds
<1>3. ASSUME NEW S, Keeps(S, A), mix \in S PROVE m \in S
  <2>1. Stable(S, cond) BY <1>3 DEF Keeps
  <2> QED BY <1>2, <1>3, <2>1, VolumeSetKept
<1> HIDE DEF m
<1>4. Keeps(RoutedIn(SUBSET A), A) /\ Keeps(PlacedIn(A), A) BY PresentKeeps
<1>5. isInCall(cond) => mix \in PlacedIn(A) BY DEF Present, PresentIn
<1> QED BY <1>1, <1>3, <1>4, <1>5, PresentStays

\* The conditions when the count of a stream changes by delta.
LEMMA Recounted ==
  ASSUME cond \in Conds, Laid(cond), NEW o, NEW s \in Streams, NEW delta \in Int
  PROVE  LET q == [cond EXCEPT !.refs = Counts(cond.refs, o, s, delta)]
         IN /\ q \in Conds /\ Laid(q) /\ q.available = cond.available
            /\ q.outputs = cond.outputs /\ q.phone = cond.phone
            /\ q.outputs \in Seq(Outputs) /\ q.outputs \in Seq(Routable)
            /\ Shifted(cond.refs, o, s, delta, q.refs)
            /\ \A p : getNewDevice(q, Fresh(q), p) \subseteq cond.available
<1> DEFINE refs == Counts(cond.refs, o, s, delta)
           q == [cond EXCEPT !.refs = refs]
<1>1. Shifted(cond.refs, o, s, delta, refs)
  <2>1. cond.refs \in [Outputs -> [Streams -> Int]] BY DEF Conds
  <2> QED BY <2>1, CountsTyped
<1> HIDE DEF refs
<1>2. /\ q \in Conds /\ q.available = cond.available /\ q.outputs = cond.outputs
      /\ q.phone = cond.phone /\ q.refs = refs
  BY <1>1 DEF Conds, Shifted
<1> HIDE DEF q
<1>3. Laid(q) BY <1>2 DEF Laid
<1>4. q.outputs \in Seq(Outputs) /\ q.outputs \in Seq(Routable) BY <1>2, <1>3, OpenRoutable
<1>5. \A p : getNewDevice(q, Fresh(q), p) \subseteq cond.available
  <2>1. Known(q, Fresh(q)) BY DEF Known, Fresh
  <2> QED BY <1>2, <1>3, <2>1, SelectedPresent
<1>6. Shifted(cond.refs, o, s, delta, q.refs) BY <1>1, <1>2
<1> QED BY <1>2, <1>3, <1>4, <1>5, <1>6 DEF q, refs

LEMMA HeldOpen ==
  ASSUME Typed, Tracked, NEW c \in Clients, client[c].state \in {"held", "started"}
  PROVE  LET o == client[c].out
         IN o \in Range(cond.outputs) /\ o \in Routable /\ o \in Outputs
<1> DEFINE o == client[c].out
<1>1. cond \in Conds /\ Laid(cond) BY DEF Typed
<1>2. Assigned(Range(cond.outputs), client) BY DEF Tracked, Agreed
<1>3. o \in Range(cond.outputs) BY <1>2 DEF Assigned
<1>4. cond.outputs \in Seq(Routable) BY <1>1, OpenRoutable
<1> HIDE DEF o
<1>5. o \in Routable BY <1>3, <1>4 DEF Range
<1>6. o \in Range(cond.outputs) /\ o \in Routable /\ o \in Outputs BY <1>3, <1>5 DEF Routable
<1> QED BY <1>6 DEF o

LEMMA OneIncallKept ==
  ASSUME NEW S, NEW q, Stable(S, q), NEW m \in S, NEW s \in Streams, NEW starting \in BOOLEAN
  PROVE  OneIncall(q, m, s, starting) \in S
<1> DEFINE times == IF isInCall(q) /\ s = "RING" /\ Rings(q) > 0 THEN 1 ELSE 0
<1>1. times \in Nat /\ (times > 0 => "RING" \in Streams) OBVIOUS
<1> HIDE DEF times
<1>2. handleIncallSonification(q, m, starting, times) \in S BY <1>1, IncallKept
<1> QED BY <1>2 DEF OneIncall, times

\* What StartOutput() computes for the output of c.
Started(c) == [cond EXCEPT !.refs = Counts(cond.refs, client[c].out, StreamOf[c], 1)]
StartDevice(c) == getNewDevice(Started(c), Fresh(Started(c)), client[c].out)
StartForced(c) == \E p \in Range(Started(c).outputs) \ {client[c].out} :
                    \/ mForceDeviceChange
                    \/ /\ SharesModule(client[c].out, p)
                       /\ DeviceOf(mix, p) # StartDevice(c)
StartSet(c) ==
  setOutputDevice(Started(c), mix, client[c].out, StartDevice(c), StartForced(c))
StartMixes(c) ==
  LET o == client[c].out
      s == StreamOf[c]
  IN \/ /\ Started(c).refs[o][s] = 1
        /\ mForceDeviceChange' = (mForceDeviceChange /\ ~StartForced(c))
        /\ mix' = On(Started(c), OneIncall(Started(c), StartSet(c), s, TRUE), o, {s})
     \/ /\ Started(c).refs[o][s] # 1
        /\ mix' = OneIncall(Started(c), mix, s, TRUE)
        /\ mForceDeviceChange' = mForceDeviceChange

LEMMA StartComputes ==
  ASSUME NEW c \in Clients, StartOutput(c)
  PROVE  cond' = Started(c) /\ StartMixes(c)
BY DEF StartOutput, Started, StartDevice, StartForced, StartSet, StartMixes, On

\* A start takes the module nowhere but to the device of its output.
LEMMA StartKeeps ==
  ASSUME Typed, Tracked, NEW c \in Clients, StartOutput(c), NEW S, Keeps(S, cond.available),
         mix \in S \/ (Started(c).refs[client[c].out][StreamOf[c]] = 1 /\ StartSet(c) \in S)
  PROVE  mix' \in S
<1> DEFINE o == client[c].out
           s == StreamOf[c]
           q == Started(c)
           device == StartDevice(c)
           force == StartForced(c)
           set == StartSet(c)
           start == On(q, OneIncall(q, set, s, TRUE), o, {s})
           again == OneIncall(q, mix, s, TRUE)
<1>1. \/ q.refs[o][s] = 1 /\ mix' = start
      \/ q.refs[o][s] # 1 /\ mix' = again
  BY StartComputes DEF StartMixes
<1>2. cond \in Conds /\ Laid(cond) /\ s \in Streams BY ClientsAssumption DEF Typed
<1>3. o \in Routable /\ o \in Outputs
  <2>1. client[c].state \in {"held", "started"} BY DEF StartOutput
  <2> QED BY <2>1, HeldOpen
<1>4. q.outputs \in Seq(Outputs) /\ device \subseteq cond.available
  <2>1. 1 \in Int OBVIOUS
  <2> HIDE DEF o, s
  <2>2. /\ q.outputs \in Seq(Outputs)
        /\ \A p : getNewDevice(q, Fresh(q), p) \subseteq cond.available
    BY <1>2, <2>1, Recounted DEF Started, o, s
  <2> HIDE DEF q
  <2> QED BY <2>2 DEF StartDevice, q
<1>5. force \in BOOLEAN BY DEF StartForced
<1>6. Stable(S, q) /\ RoutesTo(S, device)
  <2> HIDE DEF q, device
  <2> QED BY <1>4 DEF Keeps
<1>7. {s} \in SUBSET Streams BY <1>2
<1>8. set = setOutputDevice(q, mix, o, device, force) BY DEF StartSet
<1>9. mix \in S \/ (q.refs[o][s] = 1 /\ set \in S) OBVIOUS
<1> HIDE DEF q, device, force, set
<1>10. mix \in S => set \in S
  <2> HIDE DEF o
  <2> QED BY <1>3, <1>4, <1>5, <1>6, <1>8, RoutedKept
<1>11. mix \in S => again \in S
  <2> HIDE DEF s
  <2> QED BY <1>2, <1>6, OneIncallKept
<1>12. set \in S => start \in S
  <2> HIDE DEF s, o
  <2>1. set \in S => OneIncall(q, set, s, TRUE) \in S BY <1>2, <1>6, OneIncallKept
  <2> QED BY <1>3, <1>6, <1>7, <2>1 DEF Stable
<1> HIDE DEF again, start, o, s
<1> QED BY <1>1, <1>9, <1>10, <1>11, <1>12

LEMMA StartPresent ==
  ASSUME Typed, Tracked, Wide, Sounding, Present, NEW c \in Clients, StartOutput(c)
  PROVE  Present'
<1> DEFINE o == client[c].out
           s == StreamOf[c]
           q == Started(c)
           A == cond.available
<1>1. cond \in Conds /\ Laid(cond) /\ mix \in Mixes /\ s \in Streams
  BY ClientsAssumption DEF Typed, Sounding, Heard
<1>2. o \in Range(cond.outputs) /\ o \in Routable /\ o \in Outputs
  <2>1. client[c].state \in {"held", "started"} BY DEF StartOutput
  <2> QED BY <2>1, HeldOpen
<1>3. cond' = q BY StartComputes
<1>4. /\ q \in Conds /\ Laid(q) /\ q.available = A /\ q.outputs = cond.outputs
      /\ q.phone = cond.phone /\ Shifted(cond.refs, o, s, 1, q.refs)
  <2> DEFINE one == 1
             r == [cond EXCEPT !.refs = Counts(cond.refs, o, s, one)]
  <2>1. one \in Int OBVIOUS
  <2>2. q = r BY DEF Started
  <2> HIDE DEF o, s, q, one
  <2>3. /\ r \in Conds /\ Laid(r) /\ r.available = A /\ r.outputs = cond.outputs
        /\ r.phone = cond.phone /\ Shifted(cond.refs, o, s, one, r.refs)
    BY <1>1, <2>1, Recounted
  <2> HIDE DEF r
  <2> QED BY <2>2, <2>3 DEF one
<1> HIDE DEF q
<1>5. Keeps(RoutedIn(SUBSET A), A) /\ Keeps(PlacedIn(A), A) BY PresentKeeps
<1>6. ASSUME NEW S, Keeps(S, A), mix \in S PROVE mix' \in S BY <1>6, StartKeeps
<1>7. isInCall(q) => mix' \in PlacedIn(A)
  <2>1. isInCall(q) => isInCall(cond) BY <1>4 DEF isInCall
  <2>2. isInCall(cond) => mix \in PlacedIn(A) BY DEF Present, PresentIn
  <2> HIDE DEF A
  <2> QED BY <1>5, <1>6, <2>1, <2>2
<1>8. mix \in RoutedIn(SUBSET A) => mix' \in RoutedIn(SUBSET A) BY <1>5, <1>6
<1>9. ASSUME "REMOTE_SUBMIX" \notin A, Resting(cond), mForceDeviceChange
      PROVE  mix' \in RoutedIn(SUBSET A)
  <2>1. q.refs[o][s] = 1
    <3>1. cond.refs[o][s] \in Nat
      <4> DEFINE n == Cardinality(Playing(client, o, s))
                 x == FmExtra(A, o, s)
      <4>1. cond.refs[o][s] = n + x BY <1>1, <1>2 DEF Tracked, Agreed, Matched
      <4>2. n \in Nat BY PlayersFinite, FS_CardinalityType
      <4>3. x \in Nat BY DEF FmExtra
      <4> HIDE DEF n, x
      <4> QED BY <4>1, <4>2, <4>3
    <3>2. ~(cond.refs[o][s] > 0) BY <1>1, <1>2, <1>9 DEF Resting, isActive
    <3>3. q.refs[o][s] = IF cond.refs[o][s] + 1 < 0 THEN 0 ELSE cond.refs[o][s] + 1
      <4> HIDE DEF o, s
      <4> QED BY <1>1, <1>2, <1>4 DEF Shifted
    <3> HIDE DEF o, s
    <3> QED BY <3>1, <3>2, <3>3
  <2>2. StartForced(c) = TRUE
    <3>1. {"primary", "fast"} \subseteq Range(q.outputs) BY <1>1, <1>4 DEF Laid, Wide, WideOpen
    <3>2. PICK p \in {"primary", "fast"} : p # o OBVIOUS
    <3>3. p \in Range(Started(c).outputs) \ {o} BY <3>1, <3>2 DEF q
    <3> QED BY <1>9, <3>3 DEF StartForced
  <2>3. StartSet(c) = setOutputDevice(q, mix, o, getNewDevice(q, Fresh(q), o), TRUE)
    BY <2>2 DEF StartSet, StartDevice, q
  <2>4. Known(q, Fresh(q)) BY DEF Known, Fresh
  <2>5. isActive(q, o)
    <3> HIDE DEF o, s
    <3>1. q.refs[o][s] > 0 BY <2>1
    <3> QED BY <1>1, <3>1 DEF isActive
  <2>6. o \in Mixers
    <3>1. WideOpen(Range(cond.outputs)) BY DEF Wide
    <3> QED BY <1>1, <1>2, <1>9, <3>1, OpenMixers
  <2>7. StartSet(c) \in RoutedIn(SUBSET A)
    <3>1. setOutputDevice(q, mix, o, getNewDevice(q, Fresh(q), o), TRUE)
            \in RoutedIn(SUBSET q.available)
      <4> HIDE DEF o
      <4> QED BY <1>1, <1>2, <1>4, <1>9, <2>4, <2>5, <2>6, PlayingLands
    <3> QED BY <1>4, <2>3, <3>1
  <2>8. Started(c).refs[o][s] = 1 BY <2>1 DEF q
  <2> QED BY <1>5, <2>7, <2>8, StartKeeps
<1>10. PresentIn(q, mix', mForceDeviceChange')
  <2> HIDE DEF A
  <2> QED BY <1>4, <1>7, <1>8, <1>9 DEF Present, PresentIn, A
<1> QED BY <1>3, <1>10 DEF Present

\* A track that stops leaves the module where it was, or takes it to the devices
\* of the outputs that play.
LEMMA StopKeeps ==
  ASSUME Typed, Tracked, NEW c \in Clients, StopOutput(c), NEW S, Keeps(S, cond.available),
         mix \in S
  PROVE  mix' \in S
<1> DEFINE o == client[c].out
           s == StreamOf[c]
           q == [cond EXCEPT !.refs = Counts(cond.refs, o, s, -1)]
           device == getNewDevice(q, Fresh(q), o)
           left == OneIncall(cond, mix, s, FALSE)
           quiet == IF s = "VOICE_CALL" /\ "RING" \in Streams /\ q.refs[o]["RING"] # 0
                    THEN Muted(q, left, "primary", {"RING"}) ELSE left
           set == setOutputDevice(q, quiet, o, device, FALSE)
           restored == Restored(q, o, device, set)
<1>1. mix' \in {restored, left} BY DEF StopOutput
<1>2. cond \in Conds /\ Laid(cond) /\ s \in Streams BY ClientsAssumption DEF Typed
<1>3. o \in Routable /\ o \in Outputs
  <2>1. client[c].state \in {"held", "started"} BY DEF StopOutput
  <2> QED BY <2>1, HeldOpen
<1>4. /\ q.outputs \in Seq(Outputs) /\ q.outputs \in Seq(Routable)
      /\ \A p : getNewDevice(q, Fresh(q), p) \subseteq cond.available
  <2>1. -1 \in Int OBVIOUS
  <2> HIDE DEF o, s
  <2> QED BY <1>2, <2>1, Recounted
<1> HIDE DEF q
<1>5. \A r : Stable(S, r) BY DEF Keeps
<1>6. \A p : RoutesTo(S, getNewDevice(q, Fresh(q), p)) BY <1>4 DEF Keeps
<1>7. RoutesTo(S, device) BY <1>6
<1> HIDE DEF device
<1>8. left \in S
  <2> HIDE DEF s
  <2>1. FALSE \in BOOLEAN OBVIOUS
  <2> QED BY <1>2, <1>5, <2>1, OneIncallKept
<1> HIDE DEF left
<1>9. quiet \in S
  <2>1. "primary" \in Outputs BY ProfilesAssumption DEF Outputs
  <2>2. ASSUME "RING" \in Streams PROVE Muted(q, left, "primary", {"RING"}) \in S
    <3>1. {"RING"} \in SUBSET Streams BY <2>2
    <3> QED BY <1>5, <1>8, <2>1, <3>1 DEF Stable
  <2> QED BY <1>8, <2>2
<1> HIDE DEF quiet
<1>10. set \in S
  <2> HIDE DEF o
  <2> QED BY <1>3, <1>4, <1>5, <1>7, <1>9, RoutedKept
<1> HIDE DEF set
<1>11. restored \in S
  <2>1. \A p \in Routable : RoutesTo(S, getNewDevice(q, Fresh(q), p)) BY <1>6
  <2> HIDE DEF o
  <2> QED BY <1>4, <1>5, <1>10, <2>1, RestoredKept
<1> HIDE DEF restored, left
<1> QED BY <1>1, <1>8, <1>11

LEMMA StopPresent ==
  ASSUME Typed, Tracked, Sounding, Present, NEW c \in Clients, StopOutput(c)
  PROVE  Present'
<1> DEFINE o == client[c].out
           s == StreamOf[c]
           q == [cond EXCEPT !.refs = Counts(cond.refs, o, s, -1)]
           A == cond.available
<1>1. cond \in Conds /\ Laid(cond) /\ s \in Streams BY ClientsAssumption DEF Typed
<1>2. cond' = q /\ mForceDeviceChange' = mForceDeviceChange BY DEF StopOutput
<1>3. /\ q \in Conds /\ q.available = A /\ q.outputs = cond.outputs
      /\ q.phone = cond.phone /\ Shifted(cond.refs, o, s, -1, q.refs)
  <2>1. -1 \in Int OBVIOUS
  <2> HIDE DEF o, s
  <2> QED BY <1>1, <2>1, Recounted
<1> HIDE DEF q
<1>4. Keeps(RoutedIn(SUBSET A), A) /\ Keeps(PlacedIn(A), A) BY PresentKeeps
<1>5. ASSUME NEW S, Keeps(S, A), mix \in S PROVE mix' \in S BY <1>5, StopKeeps
<1>6. isInCall(q) => mix' \in PlacedIn(A)
  <2>1. isInCall(q) => isInCall(cond) BY <1>3 DEF isInCall
  <2>2. isInCall(cond) => mix \in PlacedIn(A) BY DEF Present, PresentIn
  <2> HIDE DEF A
  <2> QED BY <1>4, <1>5, <2>1, <2>2
<1>7. mix \in RoutedIn(SUBSET A) => mix' \in RoutedIn(SUBSET A) BY <1>4, <1>5
<1>8. Resting(cond) => Resting(q)
  <2> SUFFICES ASSUME Resting(cond), NEW p \in Range(q.outputs), NEW x \in Streams
               PROVE  ~(q.refs[p][x] > 0)
    BY DEF Resting, isActive
  <2>1. p \in Outputs /\ p \in Range(cond.outputs) BY <1>1, <1>3, OpenOutputs
  <2>2. ~(cond.refs[p][x] > 0) /\ cond.refs[p][x] \in Int
    BY <1>1, <2>1 DEF Resting, isActive, Conds
  <2>3. \/ q.refs[p][x] = IF cond.refs[p][x] + -1 < 0 THEN 0 ELSE cond.refs[p][x] + -1
        \/ q.refs[p][x] = cond.refs[p][x]
    <3> HIDE DEF o, s
    <3> QED BY <1>3, <2>1 DEF Shifted
  <2> QED BY <2>2, <2>3
<1>9. PresentIn(q, mix', mForceDeviceChange)
  <2> HIDE DEF A
  <2> QED BY <1>3, <1>6, <1>7, <1>8 DEF Present, PresentIn, A
<1> QED BY <1>2, <1>9 DEF Present

\* Outputs that are opened and closed are not the primary one, and play nothing.
LEMMA HoldPresent ==
  ASSUME Typed, Tracked, IInv, Sounding, Present, NEW c \in Clients,
         ReleaseOutput(c) \/ \E w \in Wants[c] : GetOutput(c, w)
  PROVE  Present'
<1> DEFINE A == cond.available
<1>1. cond \in Conds /\ Laid(cond) /\ mix \in Mixes /\ Shaped(cond)
  BY DEF Typed, Sounding, Heard, IInv
<1>2. mForceDeviceChange' = mForceDeviceChange
  BY DEF ReleaseOutput, GetOutput, policyVars
<1>3. ASSUME UNCHANGED <<cond, mix>> PROVE Present'
  <2>1. cond' = cond /\ mix' = mix BY <1>3
  <2> QED BY <1>2, <2>1 DEF Present
<1>4. ASSUME NEW o \in Direct \cap Profiles
      PROVE  LET q == Closed(cond, {o})
             IN /\ q.available = A /\ q.phone = cond.phone
                /\ q.outputs \in Seq(Outputs)
                /\ Range(q.outputs) = Range(cond.outputs) \ {o}
                /\ \A p \in Range(cond.outputs) \ {o} : isActive(q, p) => isActive(cond, p)
                /\ ~isActive(q, o)
  <2> DEFINE q == Closed(cond, {o})
  <2>1. /\ q \in Conds /\ q.available = A /\ q.phone = cond.phone
        /\ Range(q.outputs) = Range(cond.outputs) \ {o} /\ q.refs = CountsLeft(cond, {o})
    BY <1>1, ClosedTyped
  <2> HIDE DEF q
  <2>2. o \in Outputs \ {"dup", "submix", "primary"} BY DirectOutputs
  <2>3. \A p \in Outputs, s \in Streams : q.refs[p][s] = IF p = o THEN 0 ELSE cond.refs[p][s]
    BY <2>1, <2>2 DEF CountsLeft
  <2>4. Range(cond.outputs) \subseteq Outputs BY <1>1, OpenOutputs
  <2>5. \A p \in Range(cond.outputs) \ {o} : isActive(q, p) => isActive(cond, p)
    BY <2>3, <2>4 DEF isActive
  <2>6. ~isActive(q, o) BY <2>2, <2>3 DEF isActive
  <2>7. q.outputs \in Seq(Outputs) BY <2>1 DEF Conds
  <2> QED BY <2>1, <2>5, <2>6, <2>7 DEF q
<1>5. ASSUME NEW o \in Direct \cap Profiles, NEW device \in SUBSET OutDevices,
             cond' \in {Closed(cond, {o}), [Closed(cond, {o}) EXCEPT !.outputs = Append(@, o)]},
             mix' = Opened(mix, {o}, device)
      PROVE  Present'
  <2> DEFINE k == Closed(cond, {o})
             q == cond'
             m == mix'
  <2>1. /\ k.available = A /\ k.phone = cond.phone /\ k.outputs \in Seq(Outputs)
        /\ Range(k.outputs) = Range(cond.outputs) \ {o}
        /\ \A p \in Range(cond.outputs) \ {o} : isActive(k, p) => isActive(cond, p)
        /\ ~isActive(k, o)
    BY <1>4
  <2>2. Shaped(k) BY <1>1, CountsOnly
  <2>3. o \in Outputs \ {"primary"} BY DirectOutputs
  <2>4. q \in {k, [k EXCEPT !.outputs = Append(@, o)]} BY <1>5
  <2> HIDE DEF k
  <2>5. Range(Append(k.outputs, o)) = Range(k.outputs) \cup {o} BY <2>1, <2>3, Appended
  <2>6. /\ q.available = A /\ q.phone = cond.phone /\ q.refs = k.refs
        /\ Range(q.outputs) \subseteq Range(cond.outputs) \cup {o}
    <3>1. CASE q = k BY <2>1, <3>1
    <3>2. CASE q = [k EXCEPT !.outputs = Append(@, o)]
      <4>1. /\ q.available = k.available /\ q.phone = k.phone /\ q.refs = k.refs
            /\ q.outputs = Append(k.outputs, o)
        BY <2>2, <3>2 DEF Shaped, Fields
      <4> HIDE DEF q
      <4> QED BY <2>1, <2>5, <4>1
    <3> QED BY <2>4, <3>1, <3>2
  <2> HIDE DEF q
  <2>7. Resting(cond) => Resting(q)
    <3>1. \A p : isActive(q, p) <=> isActive(k, p) BY <2>6 DEF isActive
    <3> QED BY <2>1, <2>6, <3>1 DEF Resting
  <2>8. ASSUME NEW S, Keeps(S, A), mix \in S PROVE m \in S
    <3>1. {o} \in SUBSET (Outputs \ {"primary"}) BY <2>3
    <3>2. Opened(mix, {o}, device) \in S BY <2>8, <3>1, KeepsOpened
    <3> QED BY <1>5, <3>2
  <2> HIDE DEF m
  <2>9. Keeps(RoutedIn(SUBSET A), A) /\ Keeps(PlacedIn(A), A) BY PresentKeeps
  <2>10. isInCall(q) => m \in PlacedIn(A)
    <3>1. isInCall(q) => isInCall(cond) BY <2>6 DEF isInCall
    <3>2. isInCall(cond) => mix \in PlacedIn(A) BY DEF Present, PresentIn
    <3> HIDE DEF A
    <3> QED BY <2>8, <2>9, <3>1, <3>2
  <2>11. mix \in RoutedIn(SUBSET A) => m \in RoutedIn(SUBSET A) BY <2>8, <2>9
  <2>12. PresentIn(q, m, mForceDeviceChange)
    <3> HIDE DEF A
    <3> QED BY <2>6, <2>7, <2>10, <2>11 DEF Present, PresentIn, A
  <2> QED BY <1>2, <2>12 DEF Present, q, m
<1>6. {} \in SUBSET OutDevices OBVIOUS
<1>7. CASE ReleaseOutput(c)
  <2> DEFINE o == client[c].out
  <2>1. \/ UNCHANGED policyVars
        \/ o \in Direct /\ cond' = Closed(cond, {o}) /\ mix' = Opened(mix, {o}, {})
    BY <1>7 DEF ReleaseOutput
  <2>2. CASE UNCHANGED policyVars BY <1>3, <2>2 DEF policyVars
  <2>3. CASE o \in Direct /\ cond' = Closed(cond, {o}) /\ mix' = Opened(mix, {o}, {})
    <3>1. o \in Outputs
      <4>1. client[c].state \in {"held", "started"} BY <1>7 DEF ReleaseOutput
      <4> QED BY <4>1, HeldOpen
    <3>2. o \in Direct \cap Profiles BY <2>3, <3>1 DEF Outputs, Direct, Counted
    <3> HIDE DEF o
    <3> QED BY <1>5, <1>6, <2>3, <3>2
  <2> QED BY <2>1, <2>2, <2>3
<1>8. ASSUME NEW w \in Wants[c], GetOutput(c, w) PROVE Present'
  <2> DEFINE device == Device(cond, Strategy(StreamOf[c]))
  <2>1. \/ UNCHANGED policyVars
        \/ \E o \in Direct \cap Profiles :
             \/ /\ cond' = [Closed(cond, {o}) EXCEPT !.outputs = Append(@, o)]
                /\ mix' = Opened(mix, {o}, device)
             \/ cond' = Closed(cond, {o}) /\ mix' = Opened(mix, {o}, {})
    BY <1>8 DEF GetOutput, DirectFor
  <2>2. device \in SUBSET OutDevices
    <3>1. Strategy(StreamOf[c]) \in Strategies BY ClientsAssumption, StrategiesOf
    <3>2. device \subseteq cond.available BY <1>1, <3>1, SelectedDevices DEF Laid
    <3> QED BY <1>1, <3>2 DEF Conds
  <2> HIDE DEF device
  <2>3. CASE UNCHANGED policyVars BY <1>3, <2>3 DEF policyVars
  <2> QED BY <1>5, <1>6, <2>1, <2>2, <2>3
<1> QED BY <1>7, <1>8

\* A capture of the remote submix brings it and takes it away; one that stops
\* leaves the primary output on a device that is there.
LEMMA CapturePresent ==
  ASSUME Typed, Wide, IInv, Sounding, Present, Capture
  PROVE  Present'
<1>1. cond \in Conds /\ Laid(cond) /\ mix \in Mixes BY DEF Typed, Sounding, Heard
<1>2. cond.inputs \in SUBSET InDevices BY <1>1 DEF Conds
<1>3. ASSUME UNCHANGED <<cond, mix, mForceDeviceChange>> PROVE Present'
  <2>1. cond' = cond /\ mix' = mix /\ mForceDeviceChange' = mForceDeviceChange BY <1>3
  <2> QED BY <2>1 DEF Present
<1>4. ASSUME NEW i \in Records, GetInput(i) \/ ReleaseInput(i) PROVE Present'
  BY <1>3, <1>4 DEF GetInput, ReleaseInput, policyVars
<1>5. ASSUME NEW i \in Records, StartInput(i) PROVE Present'
  <2> DEFINE d == "REMOTE_SUBMIX"
             x == Attached(d, cond.inputs)
             A == cond.available \cup {d}
  <2>1. \/ /\ d \notin cond.available /\ "submix" \in Profiles
           /\ cond' = x.cond /\ mix' = x.mix
        \/ UNCHANGED <<cond, mix, mForceDeviceChange>>
    BY <1>5 DEF StartInput, Apply, policyVars
  <2>2. CASE /\ d \notin cond.available /\ "submix" \in Profiles
             /\ cond' = x.cond /\ mix' = x.mix
    <3>1. Pluggable(d) BY <2>2 DEF Pluggable
    <3> HIDE DEF d
    <3>2. x.cond.available = A /\ x.cond.phone = cond.phone
      BY <1>1, <1>2, <2>2, <3>1, AttachedTyped
    <3>3. ASSUME NEW S, Keeps(S, A), mix \in S PROVE x.mix \in S
      BY <1>1, <1>2, <2>2, <3>1, <3>3, AttachedKept
    <3> HIDE DEF x
    <3>4. Keeps(PlacedIn(A), A) BY PresentKeeps
    <3>5. PlacedIn(cond.available) \subseteq PlacedIn(A)
      <4>1. cond.available \subseteq A OBVIOUS
      <4> QED BY <4>1, MorePresent
    <3>6. isInCall(x.cond) => x.mix \in PlacedIn(A)
      <4>1. isInCall(x.cond) => isInCall(cond) BY <3>2 DEF isInCall
      <4> HIDE DEF A
      <4> QED BY <3>3, <3>4, <3>5, <4>1 DEF Present, PresentIn
    <3>7. "REMOTE_SUBMIX" \in x.cond.available BY <3>2 DEF d
    <3>8. PresentIn(x.cond, x.mix, mForceDeviceChange')
      <4> HIDE DEF A
      <4> QED BY <3>2, <3>6, <3>7 DEF PresentIn
    <3> QED BY <2>2, <3>8 DEF Present
  <2> QED BY <1>3, <2>1, <2>2
\* The last call of stopInput() keeps what was there.
<1>6. ASSUME NEW q \in Conds, Laid(q), NEW table, Known(q, table), NEW m \in Mixes,
             NEW force, PresentIn(q, m, force), cond' = q, mForceDeviceChange' = force,
             mix' = setOutputDevice(q, m, "primary", getNewDevice(q, table, "primary"), TRUE)
      PROVE  Present'
  <2> DEFINE wanted == getNewDevice(q, table, "primary")
             n == setOutputDevice(q, m, "primary", wanted, TRUE)
             A == q.available
             S == RoutedIn(SUBSET A)
  <2>1. Keeps(S, A) BY PresentKeeps
  <2>2. isInCall(q) => n \in PlacedIn(A) BY <1>6, RouteAllPlaced
  <2>3. wanted \subseteq A BY <1>6, SelectedPresent
  <2>4. "primary" \in Routable /\ TRUE \in BOOLEAN BY ProfilesAssumption DEF Routable, Outputs
  <2>5. q.outputs \in Seq(Outputs) BY <1>6 DEF Conds
  <2> HIDE DEF wanted, S
  <2>6. Stable(S, q) /\ RoutesTo(S, wanted) BY <2>1, <2>3 DEF Keeps
  <2>7. m \in S => n \in S BY <2>4, <2>5, <2>6, RoutedKept
  <2>8. mix' = n BY <1>6 DEF wanted
  <2> HIDE DEF n
  <2>9. PresentIn(q, n, force) BY <1>6, <2>2, <2>7 DEF PresentIn, S
  <2> QED BY <1>6, <2>8, <2>9 DEF Present
<1>7. ASSUME NEW i \in Records, StopInput(i) PROVE Present'
  <2> DEFINE d == "REMOTE_SUBMIX"
             x == Detached(d, cond.inputs)
             off == inDevice[i] = "REMOTE_SUBMIX" /\ "REMOTE_SUBMIX" \in cond.available
  <2>1. CASE off
    <3>1. d \in cond.available \ {"SPEAKER"} BY <2>1
    <3>2. /\ cond' = x.cond /\ mForceDeviceChange' = TRUE
          /\ mix' = setOutputDevice(x.cond, x.mix, "primary",
                                    getNewDevice(x.cond, x.table, "primary"), TRUE)
      BY <1>7, <2>1 DEF StopInput
    <3> HIDE DEF d
    <3>3. x.cond \in Conds /\ Laid(x.cond) BY <1>1, <1>2, <3>1, DetachedTyped
    <3>4. x.mix \in Mixes BY <1>1, <1>2, <3>1, DetachedCall
    <3>5. Known(x.cond, x.table) BY DetachedSettled DEF Settled, Known
    <3>6. PresentIn(x.cond, x.mix, TRUE) BY <1>1, <1>2, <3>1, DetachedPresent
    <3> HIDE DEF x
    <3> QED BY <1>6, <3>2, <3>3, <3>4, <3>5, <3>6
  <2>2. CASE ~off
    <3>1. /\ cond' = cond
          /\ mix' = setOutputDevice(cond, mix, "primary",
                                    getNewDevice(cond, mDeviceForStrategy, "primary"), TRUE)
      BY <1>7, <2>2 DEF StopInput
    <3>2. Known(cond, mDeviceForStrategy) BY DEF IInv, CacheFresh, Known
    <3>3. mForceDeviceChange' = mForceDeviceChange
      <4>1. mForceDeviceChange' = (mForceDeviceChange \/ off) /\ off \in BOOLEAN
        BY <1>7 DEF StopInput
      <4> QED BY <2>2, <4>1 DEF Typed
    <3>4. PresentIn(cond, mix, mForceDeviceChange) BY DEF Present
    <3> QED BY <1>1, <1>6, <3>1, <3>2, <3>3, <3>4
  <2> QED BY <2>1, <2>2
<1> QED BY <1>4, <1>5, <1>7 DEF Capture

LEMMA InitPresent == Init => Present
<1> SUFFICES ASSUME Init PROVE Present OBVIOUS
<1>1. cond.available = {"SPEAKER", "EARPIECE"} /\ ~isInCall(cond) BY DEF Init, Calm, isInCall
<1>2. mix.routed = {"SPEAKER"} BY DEF Init
<1>3. mix \in Mixes BY InitSounding DEF Sounding, Heard
<1> QED BY <1>1, <1>2, <1>3 DEF Present, PresentIn, RoutedIn

\* What plays, plays on a device that is connected, when no track can open an
\* output that supports only some of them: a device that goes away leaves the
\* route behind only while nothing plays, and then the next output to start is
\* forced to its own (mForceDeviceChange).
THEOREM PlayedWherePresent == ASSUME WideOnly PROVE Spec => []PlaysOnPresent
<1>1. Typed /\ Tracked /\ Sounding /\ IInv /\ Wide /\ Present /\ [Next]_vars => Present'
  <2> SUFFICES ASSUME Typed, Tracked, Sounding, IInv, Wide, Present, [Next]_vars PROVE Present'
    OBVIOUS
  <2>1. CASE UNCHANGED vars
    <3>1. cond' = cond /\ mix' = mix /\ mForceDeviceChange' = mForceDeviceChange
      BY <2>1 DEF vars, policyVars
    <3> QED BY <3>1 DEF Present
  <2>2. CASE Tracks BY <2>2, StartPresent, StopPresent, HoldPresent DEF Tracks
  <2>3. CASE Conditions
    BY <2>3, ConnectPresent, DisconnectPresent, PhonePresent, ForcePresent, VolumePresent
    DEF Conditions
  <2>4. CASE Capture BY <2>4, CapturePresent
  <2> QED BY <2>1, <2>2, <2>3, <2>4 DEF Next
<1>2. Present => PlaysOnPresent BY DEF Present, PresentIn, Resting, PlaysOnPresent, RoutedIn
<1> QED BY InitPresent, <1>1, <1>2, WideAlways, TypedAlways, TrackedAlways, SoundingAlways,
           Inductive, PTL DEF Spec
=============================================================================
