------------------------ MODULE UseCasesRoutesProofs ------------------------
(* Theorems about where the use cases of UseCases are routed.  The paths of  *)
(* the use case manager change in three operators only, Route, Enable and    *)
(* DisableDevice: a lemma each says that they keep every use case on the     *)
(* current devices, and on which condition they keep a call on the pair.     *)
EXTENDS UseCasesProofs

\* PlaysThroughCurrent and RecordsThroughCurrent of any use case manager; the
\* input has a name from the start, and a reroute never takes it away.
Paths(u) ==
  /\ \A k \in Enabled(u) \cap PlayType : u.path[k][1] = u.rx /\ u.rx \in u.on
  /\ \A k \in Enabled(u) \cap (RecType \ PlayType) : u.path[k][2] = u.tx /\ u.tx \in u.on
  /\ u.tx # None

\* CallOnCurrentPair of any use case manager.
Pair(u) == \A v \in Calls \cap Enabled(u) : u.path[v] = <<u.rx, u.tx>>

\* A route that may leave a call behind needs a call that is enabled, and a
\* mode in which switchDevice does not pair the devices.
PairStays(u, mode) == InCallMode(mode) \/ Calls \cap Enabled(u) = {}

\* An output is no input.
LEMMA DevicesApart == OutNames \cap InNames = {} /\ None \notin OutNames \cup InNames
  <1>1. \A d \in Outputs \cup {"earpiece"} : d \notin {"mic", "headsetMic", "none"}
    BY DevicesAssumption
  <1> QED BY <1>1 DEF OutNames, InNames, None

\* The parts of a use case manager that routing reads.
LEMMA Parts ==
  ASSUME NEW u \in UcmType
  PROVE  /\ u.on \subseteq OutNames \cup InNames /\ u.rx \in OutNames \cup {None}
         /\ u.tx \in InNames \cup {None} /\ Enabled(u) \subseteq Kinds
         /\ u.verb \in Kinds \cup {"Inactive"} /\ u.mods \subseteq Kinds
  <1>1. u.verb \in Kinds \cup {"Inactive"} /\ u.mods \subseteq Kinds BY DEF UcmType
  <1>2. u.on \subseteq OutNames \cup InNames BY DEF UcmType
  <1>3. u.rx \in OutNames \cup {None} /\ u.tx \in InNames \cup {None} BY DEF UcmType
  <1> QED BY <1>1, <1>2, <1>3 DEF Enabled

\* switchDevice that takes some use cases off and switches some devices off.
Moved(u, devices, rx, tx, taken, off) ==
  EnabledAgain([Disabled(u, taken) EXCEPT
                  !.on = (@ \ off) \cup SwitchedOn(rx, tx),
                  !.rx = NewName(rx, @), !.tx = NewName(tx, @),
                  !.prev = devices \cap (Outputs \cup {"earpiece"})], taken, u.verb)

\* What it does to the names, to what is on and to the paths.
LEMMA MovedFields ==
  ASSUME NEW u \in UcmType, NEW devices, NEW rx, NEW tx, NEW taken, NEW off, NEW v,
         v = Moved(u, devices, rx, tx, taken, off)
  PROVE  /\ v.rx = NewName(rx, u.rx) /\ v.tx = NewName(tx, u.tx)
         /\ v.on = (u.on \ off) \cup SwitchedOn(rx, tx)
         /\ \A k \in Kinds : v.path[k] = IF k \in taken THEN <<v.rx, v.tx>> ELSE u.path[k]
  <1> DEFINE down == Disabled(u, taken)
  <1>1. /\ down \in UcmType /\ down.on = u.on /\ down.rx = u.rx /\ down.tx = u.tx
        /\ down.path = [k \in Kinds |-> IF k \in taken THEN NoPath ELSE u.path[k]]
    BY DEF UcmType, Disabled, NoPath
  <1> DEFINE there == [down EXCEPT
                         !.on = (@ \ off) \cup SwitchedOn(rx, tx),
                         !.rx = NewName(rx, @), !.tx = NewName(tx, @),
                         !.prev = devices \cap (Outputs \cup {"earpiece"})]
  <1> HIDE DEF down
  <1>2. /\ there.on = (u.on \ off) \cup SwitchedOn(rx, tx)
        /\ there.rx = NewName(rx, u.rx) /\ there.tx = NewName(tx, u.tx)
        /\ there.path = down.path
        /\ there \in [verb : {there.verb}, mods : {there.mods}, on : {there.on}, rx : {there.rx},
                     tx : {there.tx}, prev : {there.prev}, path : {there.path}]
    BY <1>1 DEF UcmType
  <1>0. v = EnabledAgain(there, taken, u.verb) BY DEF Moved, down
  <1> HIDE DEF there
  <1>3. /\ v.on = there.on /\ v.rx = there.rx /\ v.tx = there.tx
        /\ v.path = [k \in Kinds |-> IF k \in taken THEN <<there.rx, there.tx>>
                                                    ELSE there.path[k]]
    BY <1>0, <1>2 DEF EnabledAgain
  <1> QED BY <1>1, <1>2, <1>3

\* If a device that changes moves, its use cases move with it.
LEMMA SwitchedPaths ==
  ASSUME NEW u \in UcmType, Paths(u), NEW devices, NEW rx \in OutNames \cup {None},
         NEW tx \in InNames \cup {None}, NEW rxMoves \in BOOLEAN, NEW txMoves \in BOOLEAN,
         NEW v, v = Switched(u, devices, rx, tx, rxMoves, txMoves),
         Enabled(v) = Enabled(u),
         rxMoves => rx # None, rx \notin {None, u.rx} /\ u.rx # None => rxMoves,
         txMoves => tx # None, tx \notin {None, u.tx} => txMoves
  PROVE  /\ Paths(v)
         /\ rx # None => v.rx \in v.on
         /\ tx # None => v.tx \in v.on
         /\ Pair(u) /\ (tx \in {None, u.tx} \/ rxMoves \/ Calls \cap Enabled(u) = {})
              => Pair(v)
  <1> DEFINE taken == Derouted(u, rxMoves, txMoves)
             off == (IF rxMoves THEN {u.rx} ELSE {}) \cup (IF txMoves THEN {u.tx} ELSE {})
  <1>1. /\ v.rx = NewName(rx, u.rx) /\ v.tx = NewName(tx, u.tx)
        /\ v.on = (u.on \ off) \cup ({rx, tx} \ {None})
        /\ \A k \in Kinds : v.path[k] = IF k \in taken THEN <<v.rx, v.tx>> ELSE u.path[k]
    <2>1. v = Moved(u, devices, rx, tx, taken, off) BY DEF Switched, Moved
    <2> HIDE DEF taken, off
    <2> QED BY <2>1, MovedFields DEF SwitchedOn
  <1>2. u.on \subseteq OutNames \cup InNames /\ u.rx \in OutNames \cup {None}
        /\ u.tx \in InNames \cup {None} /\ Enabled(u) \subseteq Kinds
    BY Parts
  <1>3. v.tx # None BY <1>1 DEF NewName, Paths
  <1>4. rx # None => v.rx \in v.on BY <1>1 DEF NewName
  <1>5. tx # None => v.tx \in v.on BY <1>1 DEF NewName
  <1>6. ASSUME NEW k \in Enabled(u) \cap PlayType
        PROVE  v.path[k][1] = v.rx /\ v.rx \in v.on
    <2>1. u.path[k][1] = u.rx /\ u.rx \in u.on BY <1>6 DEF Paths
    <2>2. u.rx # None /\ u.rx \in OutNames /\ u.rx # u.tx BY <2>1, <1>2, DevicesApart
    <2>3. CASE rxMoves
      <3>1. k \in Derouted(u, rxMoves, txMoves) BY <1>6, <2>3 DEF Derouted
      <3>2. v.path[k] = <<v.rx, v.tx>> BY <1>1, <1>2, <3>1
      <3>3. rx # None BY <2>3, Zenon
      <3>4. v.path[k][1] = v.rx BY <3>2
      <3> QED BY <1>4, <3>3, <3>4
    <2>4. CASE ~rxMoves
      <3>1. v.rx = u.rx BY <1>1, <2>2, <2>4 DEF NewName
      <3>2. v.rx \in v.on
        <4>1. u.rx \notin (IF rxMoves THEN {u.rx} ELSE {}) \cup (IF txMoves THEN {u.tx} ELSE {})
          BY <2>2, <2>4
        <4> QED BY <1>1, <2>1, <3>1, <4>1
      <3>3. k \notin Derouted(u, rxMoves, txMoves) BY <1>6, <2>4 DEF Derouted
      <3>4. v.path[k] = u.path[k] BY <1>1, <1>2, <3>3
      <3> QED BY <2>1, <3>1, <3>2, <3>4
    <2> QED BY <2>3, <2>4
  <1>7. ASSUME NEW k \in Enabled(u) \cap (RecType \ PlayType)
        PROVE  v.path[k][2] = v.tx /\ v.tx \in v.on
    <2>1. u.path[k][2] = u.tx /\ u.tx \in u.on BY <1>7 DEF Paths
    <2>2. u.tx # None /\ u.tx \in InNames /\ u.rx # u.tx BY <2>1, <1>2, DevicesApart
    <2>3. CASE txMoves
      <3>1. k \in Derouted(u, rxMoves, txMoves) BY <1>7, <2>3 DEF Derouted
      <3>2. v.path[k] = <<v.rx, v.tx>> BY <1>1, <1>2, <3>1
      <3>3. tx # None BY <2>3, Zenon
      <3>4. v.path[k][2] = v.tx BY <3>2
      <3> QED BY <1>5, <3>3, <3>4
    <2>4. CASE ~txMoves
      <3>1. v.tx = u.tx BY <1>1, <2>2, <2>4 DEF NewName
      <3>2. v.tx \in v.on
        <4>1. u.tx \notin (IF rxMoves THEN {u.rx} ELSE {}) \cup (IF txMoves THEN {u.tx} ELSE {})
          BY <2>2, <2>4
        <4> QED BY <1>1, <2>1, <3>1, <4>1
      <3>3. k \notin Derouted(u, rxMoves, txMoves) BY <1>7, <2>4 DEF Derouted
      <3>4. v.path[k] = u.path[k] BY <1>1, <1>2, <3>3
      <3> QED BY <2>1, <3>1, <3>2, <3>4
    <2> QED BY <2>3, <2>4
  <1>8. ASSUME Pair(u), tx \in {None, u.tx} \/ rxMoves \/ Calls \cap Enabled(u) = {},
               NEW c \in Calls \cap Enabled(v)
        PROVE  v.path[c] = <<v.rx, v.tx>>
    <2>1. c \in Enabled(u) \cap PlayType /\ u.path[c] = <<u.rx, u.tx>> /\ c \in Kinds
      BY <1>2, <1>8 DEF Pair, PlayType, TwoWay
    <2>2. CASE rxMoves
      <3>1. c \in Derouted(u, rxMoves, txMoves) BY <2>1, <2>2 DEF Derouted
      <3> QED BY <1>1, <2>1, <3>1
    <2>3. CASE ~rxMoves
      <3>1. u.rx # None BY <1>2, <2>1, DevicesApart DEF Paths
      <3>2. v.rx = u.rx /\ v.tx = u.tx BY <1>1, <1>8, <2>3, <3>1, <2>1 DEF NewName
      <3>3. c \notin Derouted(u, rxMoves, txMoves) BY <2>1, <2>3 DEF Derouted
      <3>4. v.path[c] = u.path[c] BY <1>1, <2>1, <3>3
      <3> QED BY <2>1, <3>2, <3>4
    <2> QED BY <2>2, <2>3
  <1> QED BY <1>3, <1>4, <1>5, <1>6, <1>7, <1>8 DEF Paths, Pair

\* getUCMDevice: a route to an output names one, a route in a call names both
\* an output and an input.
LEMMA RoutedNames ==
  ASSUME NEW u \in UcmType, u.tx # None, NEW device \in Outputs \cup Inputs,
         NEW mode \in AllModes, NEW devices, devices = Paired(u, device, mode),
         NEW rx, rx = RxName(u, devices, mode), NEW tx, tx = TxName(u, devices, mode)
  PROVE  /\ rx \in OutNames \cup {None} /\ tx \in InNames \cup {None}
         /\ device \in Outputs \/ InCallMode(mode) => rx # None
         /\ device \in {"mic", "headsetMic"} \/ InCallMode(mode) => tx # None
  <1>1. \A d \in devices : d \in Outputs \cup {"earpiece"} =>
          /\ rx \in OutNames /\ rx # None
    <2> SUFFICES ASSUME NEW e \in devices, e \in Outputs \cup {"earpiece"}
                 PROVE  rx \in OutNames /\ rx # None
      OBVIOUS
    <2> DEFINE d == CHOOSE d \in devices : d \in Outputs \cup {"earpiece"}
    <2>1. d \in Outputs \cup {"earpiece"} OBVIOUS
    <2>2. rx = <<d, InCallMode(mode)>> BY DEF RxName
    <2>3. InCallMode(mode) \in BOOLEAN BY DEF InCallMode
    <2> HIDE DEF d
    <2>4. rx \in OutNames BY <2>1, <2>2, <2>3 DEF OutNames
    <2> QED BY <2>4, DevicesApart
  <1>2. rx \in OutNames \cup {None}
    <2>1. CASE \E d \in devices : d \in Outputs \cup {"earpiece"} BY <1>1, <2>1
    <2>2. CASE ~(\E d \in devices : d \in Outputs \cup {"earpiece"}) BY <2>2 DEF RxName
    <2> QED BY <2>1, <2>2
  <1>3. u.tx \in InNames BY Parts
  <1>4. InCallMode(mode) \in BOOLEAN /\ (mode = "IN_CALL") \in BOOLEAN BY DEF InCallMode
  <1>5. tx \in InNames \cup {None} BY <1>3, <1>4 DEF TxName, InNames
  <1>6. devices \cap {"mic", "headsetMic", "voiceCall"} # {} => tx \in InNames
    BY <1>3, <1>4 DEF TxName, InNames
  <1>7. device \in Outputs \/ InCallMode(mode) => rx # None
    <2>1. CASE device \in Outputs
      <3>1. device \in devices BY <2>1 DEF Paired
      <3> QED BY <1>1, <2>1, <3>1
    <2>2. CASE InCallMode(mode) /\ device \notin Outputs
      <3>1. devices = {device} \cup (IF u.prev = {} THEN {"earpiece"} ELSE u.prev)
        BY <2>2 DEF Paired
      <3>2. u.prev \subseteq Outputs \cup {"earpiece"} BY DEF UcmType
      <3>3. PICK d \in devices : d \in Outputs \cup {"earpiece"} BY <3>1, <3>2
      <3> QED BY <1>1, <3>3
    <2> QED BY <2>1, <2>2
  <1>8. device \in {"mic", "headsetMic"} \/ InCallMode(mode) => tx # None
    <2>1. CASE device \in Outputs
      <3>1. device \in {"speaker", "headset", "earpiece"} BY <2>1, DevicesAssumption
      <3>2. InCallMode(mode) => devices = {device, Partner(device)} BY <2>1 DEF Paired
      <3>3. Partner(device) \in {"mic", "headsetMic"} BY <3>1 DEF Partner
      <3>4. tx \in InNames => tx # None BY DevicesApart
      <3> QED BY <1>6, <3>1, <3>2, <3>3, <3>4
    <2>2. CASE device \notin Outputs
      <3>1. device \in {"mic", "headsetMic", "voiceCall"} BY <2>2, DevicesAssumption
      <3>2. device \in devices BY <2>2 DEF Paired
      <3>3. tx \in InNames => tx # None BY DevicesApart
      <3> QED BY <1>6, <3>1, <3>2, <3>3
    <2> QED BY <2>1, <2>2
  <1> QED BY <1>2, <1>5, <1>7, <1>8

\* A reroute keeps every use case on the current devices; what it routes to is
\* on; and it leaves no call behind, in a call mode.
LEMMA RoutePaths ==
  ASSUME NEW u \in UcmType, u.verb \notin u.mods, Paths(u),
         NEW device \in Outputs \cup Inputs, NEW mode \in AllModes,
         NEW v, v = Route(u, device, mode)
  PROVE  /\ v \in UcmType /\ v.verb = u.verb /\ v.mods = u.mods /\ Paths(v)
         /\ device \in Outputs \/ InCallMode(mode) => v.rx \in v.on
         /\ device \in {"mic", "headsetMic"} => v.tx \in v.on
         /\ Pair(u) /\ PairStays(u, mode) => Pair(v)
  <1> DEFINE devices == Paired(u, device, mode)
             rx == RxName(u, devices, mode)
             tx == TxName(u, devices, mode)
             moves(name, current) == /\ name # None /\ current # None
                                     /\ \/ ssr \/ name # current
                                        \/ InCallDevSwitch(u, rx, tx, mode)
             rxMoves == moves(rx, u.rx)
             txMoves == moves(tx, u.tx)
  <1>1. v \in UcmType /\ v.verb = u.verb /\ v.mods = u.mods BY RouteKeeps
  <1>2. u.tx # None BY DEF Paths
  <1>3. /\ rx \in OutNames \cup {None} /\ tx \in InNames \cup {None}
        /\ device \in Outputs \/ InCallMode(mode) => rx # None
        /\ device \in {"mic", "headsetMic"} \/ InCallMode(mode) => tx # None
    <2> HIDE DEF devices
    <2>1. devices = Paired(u, device, mode) BY DEF devices
    <2> HIDE DEF rx, tx
    <2>2. rx = RxName(u, devices, mode) /\ tx = TxName(u, devices, mode) BY DEF rx, tx
    <2> QED BY <1>2, <2>1, <2>2, RoutedNames
  <1>4. v = Switched(u, devices, rx, tx, rxMoves, txMoves) BY DEF Route
  <1> HIDE DEF devices, rx, tx
  <1>5. rxMoves \in BOOLEAN /\ txMoves \in BOOLEAN OBVIOUS
  <1>6. /\ rxMoves => rx # None
        /\ rx \notin {None, u.rx} /\ u.rx # None => rxMoves
        /\ txMoves => tx # None
        /\ tx \notin {None, u.tx} => txMoves
    BY <1>2
  <1>7. PairStays(u, mode) => tx \in {None, u.tx} \/ rxMoves \/ Calls \cap Enabled(u) = {}
    <2> SUFFICES ASSUME InCallMode(mode), tx # u.tx, NEW c \in Calls \cap Enabled(u)
                 PROVE  rxMoves
      BY DEF PairStays
    <2>1. u.rx # None
      <3>1. u.rx \in u.on BY DEF Paths, PlayType, TwoWay
      <3> QED BY <3>1, Parts, DevicesApart
    <2> QED BY <1>3, <2>1 DEF InCallDevSwitch
  <1>8. Enabled(v) = Enabled(u) BY <1>1 DEF Enabled
  <1> HIDE DEF rxMoves, txMoves
  <1>9. /\ Paths(v)
        /\ rx # None => v.rx \in v.on
        /\ tx # None => v.tx \in v.on
        /\ Pair(u) /\ (tx \in {None, u.tx} \/ rxMoves \/ Calls \cap Enabled(u) = {})
             => Pair(v)
    BY <1>3, <1>4, <1>5, <1>6, <1>8, SwitchedPaths
  <1> QED BY <1>1, <1>3, <1>7, <1>9

\* A use case is enabled on the devices of that moment, if they are on.
LEMMA EnablePaths ==
  ASSUME NEW u \in UcmType, Paths(u), NEW k \in Kinds, NEW r,
         k \in PlayType => u.rx \in u.on, k \in RecType \ PlayType => u.tx \in u.on,
         NEW e, e = Enable(u, k, r)
  PROVE  Paths(e) /\ (Pair(u) => Pair(e))
  <1>1. /\ e.on = u.on /\ e.rx = u.rx /\ e.tx = u.tx
        /\ e.path = [j \in Kinds |-> IF j = k THEN <<u.rx, u.tx>> ELSE u.path[j]]
        /\ e.mods \subseteq u.mods \cup {k} /\ e.verb \in {u.verb, k}
    BY DEF UcmType, Enable, EnabledAgain
  <1>2. Enabled(e) \subseteq Enabled(u) \cup {k} BY <1>1 DEF Enabled
  <1>3. Enabled(e) \subseteq Kinds BY <1>2, Parts
  <1>4. \A j \in Enabled(e) : e.path[j] = IF j = k THEN <<e.rx, e.tx>> ELSE u.path[j]
    BY <1>1, <1>3
  <1> QED BY <1>1, <1>2, <1>4 DEF Paths, Pair

\* Enabled at most under the name r.
Alone(u, k, r) == (u.verb = k => r = "verb") /\ (k \in u.mods => r = "mod")

\* A use case that is disabled switches no device off that another goes through.
LEMMA DisablePaths ==
  ASSUME NEW u \in UcmType, u.verb \notin u.mods, Paths(u), NEW k \in Kinds,
         NEW r \in {"verb", "mod"}, Alone(u, k, r), NEW d, d = DisableDevice(u, k, r)
  PROVE  /\ d \in UcmType /\ d.verb \notin d.mods /\ Paths(d) /\ (Pair(u) => Pair(d))
         /\ Enabled(d) \subseteq Enabled(u)
  <1> DEFINE less == Removed(u, k, r)
  <1>1. /\ less \in UcmType /\ less.on = u.on /\ less.rx = u.rx /\ less.tx = u.tx
        /\ \A j \in Kinds : less.path[j] = IF j = k THEN NoPath ELSE u.path[j]
        /\ less.verb = (IF r = "verb" /\ u.verb = k THEN "Inactive" ELSE u.verb)
        /\ less.mods = (IF r = "mod" THEN u.mods \ {k} ELSE u.mods)
    BY DEF UcmType, Removed, NoPath
  <1> HIDE DEF less
  <1>2. "Inactive" \notin Kinds /\ less.mods \subseteq Kinds BY <1>1, Parts, KindsAssumption
  <1>3. Enabled(less) \subseteq Enabled(u) \ {k} /\ less.verb \notin less.mods
    BY <1>1, <1>2 DEF Alone, Enabled
  <1> DEFINE on2 == less.on \ Unused(less)
  <1>4. on2 \subseteq OutNames \cup InNames BY <1>1, Parts
  <1>5. d = [less EXCEPT !.on = on2] BY DEF DisableDevice, less
  <1> HIDE DEF on2
  <1>6. /\ d \in UcmType /\ d.on = on2 /\ d.rx = less.rx /\ d.tx = less.tx
        /\ d.path = less.path /\ d.verb = less.verb /\ d.mods = less.mods
    BY <1>1, <1>4, <1>5 DEF UcmType
  <1>7. Enabled(d) = Enabled(less) BY <1>6 DEF Enabled
  <1>8. \A j \in Enabled(d) : d.path[j] = u.path[j] /\ j \in Enabled(u)
    BY <1>1, <1>3, <1>6, <1>7, Parts
  <1>9. u.rx \in u.on => u.rx # u.tx BY Parts, DevicesApart
  <1>10. ASSUME NEW j \in Enabled(d) \cap PlayType
         PROVE  d.path[j][1] = d.rx /\ d.rx \in d.on
    <2>1. u.path[j][1] = u.rx /\ u.rx \in u.on BY <1>8, <1>10 DEF Paths
    <2>2. less.rx \notin Unused(less) BY <1>1, <1>7, <1>9, <1>10, <2>1, Parts, DevicesApart DEF Unused
    <2> QED BY <1>1, <1>6, <1>8, <1>10, <2>1, <2>2 DEF on2
  <1>11. ASSUME NEW j \in Enabled(d) \cap (RecType \ PlayType)
         PROVE  d.path[j][2] = d.tx /\ d.tx \in d.on
    <2>1. u.path[j][2] = u.tx /\ u.tx \in u.on BY <1>8, <1>11 DEF Paths
    <2>2. u.rx # u.tx BY <2>1, Parts, DevicesApart
    <2>3. less.tx \notin Unused(less) BY <1>1, <1>7, <1>11, <2>2 DEF Unused
    <2> QED BY <1>1, <1>6, <1>8, <1>11, <2>1, <2>3 DEF on2
  <1>12. Pair(u) => Pair(d) BY <1>1, <1>6, <1>8 DEF Pair
  <1>13. d.tx # None BY <1>1, <1>6 DEF Paths
  <1>14. Paths(d) BY <1>10, <1>11, <1>13 DEF Paths
  <1> QED BY <1>3, <1>6, <1>7, <1>12, <1>14

\* A device that a use case is opened on: an output, or a call mode that has
\* one, for what plays; an input of the board for what only records.
Fits(k, device, mode) ==
  /\ k \in PlayType => device \in Outputs \/ InCallMode(mode)
  /\ k \in RecType \ PlayType => device \in {"mic", "headsetMic"}

\* ALSADevice::open with the reroute before it, whatever becomes of the PCM
\* device, and an open that is undone at once.
LEMMA OpenedPaths ==
  ASSUME NEW u \in UcmType, u.verb \notin u.mods, Paths(u),
         NEW k \in Kinds \ Enabled(u), NEW device \in Outputs \cup Inputs,
         NEW mode \in AllModes, Fits(k, device, mode), NEW how, NEW v,
         v = Opened(Route(u, device, mode), k, FreeRole(u), how)
  PROVE  /\ Paths(v) /\ (Pair(u) /\ PairStays(u, mode) => Pair(v))
         /\ how = "params" => v \in UcmType /\ v.verb \notin v.mods
         /\ how = "params" => Enabled(v) \subseteq Enabled(u)
  <1> DEFINE w == Route(u, device, mode)
             r == FreeRole(u)
             e == Enable(w, k, r)
  <1>1. /\ w \in UcmType /\ w.verb = u.verb /\ w.mods = u.mods /\ Paths(w)
        /\ device \in Outputs \/ InCallMode(mode) => w.rx \in w.on
        /\ device \in {"mic", "headsetMic"} => w.tx \in w.on
        /\ Pair(u) /\ PairStays(u, mode) => Pair(w)
    BY RoutePaths
  <1>2. r = (IF w.verb = "Inactive" THEN "verb" ELSE "mod") BY <1>1 DEF FreeRole
  <1> HIDE DEF w, r
  <1>3. Paths(e) /\ (Pair(w) => Pair(e)) BY <1>1, EnablePaths DEF Fits
  <1>4. Enabled(w) = Enabled(u) /\ k \in Kinds /\ k # "Inactive"
    BY <1>1, KindsAssumption DEF Enabled
  <1>5. e \in UcmType /\ e.verb = (IF r = "verb" THEN k ELSE w.verb)
        /\ e.mods = w.mods \cup (IF r = "verb" THEN {} ELSE {k})
    <2>1. CASE r = "verb"
      <3>1. e = EnabledAgain(w, {k}, k) BY <2>1 DEF Enable
      <3> HIDE DEF e
      <3> QED BY <1>1, <1>4, <2>1, <3>1 DEF UcmType, EnabledAgain
    <2>2. CASE r # "verb"
      <3>1. e = EnabledAgain(w, {k}, "Inactive") BY <2>2 DEF Enable
      <3> HIDE DEF e
      <3> QED BY <1>1, <1>4, <2>2, <3>1 DEF UcmType, EnabledAgain
    <2> QED BY <2>1, <2>2
  <1>6. v = IF how = "params" THEN DisableDevice(e, k, r) ELSE e BY DEF Opened, w, r
  <1> HIDE DEF e
  <1>7. Alone(e, k, r) /\ e.verb \notin e.mods /\ r \in {"verb", "mod"}
    BY <1>1, <1>2, <1>4, <1>5 DEF Alone, Enabled
  <1>8. CASE how # "params" BY <1>1, <1>3, <1>6, <1>8
  <1>9. CASE how = "params"
    <2>1. v = DisableDevice(e, k, r) /\ k \in Kinds BY <1>6, <1>9
    <2>2. /\ v \in UcmType /\ v.verb \notin v.mods /\ Paths(v) /\ (Pair(e) => Pair(v))
      BY <1>3, <1>5, <1>7, <2>1, DisablePaths
    <2>3. Enabled(v) \subseteq Enabled(u)
      <3> DEFINE less == Removed(e, k, r)
      <3>1. less.verb = (IF r = "verb" THEN "Inactive" ELSE e.verb)
            /\ less.mods = (IF r = "mod" THEN e.mods \ {k} ELSE e.mods)
        BY <1>5, <1>7 DEF UcmType, Removed
      <3>2. v.verb = less.verb /\ v.mods = less.mods
        BY <2>1, <1>5 DEF DisableDevice, UcmType, Removed
      <3> HIDE DEF less
      <3> QED BY <1>1, <1>2, <1>5, <3>1, <3>2 DEF Enabled
    <2> QED BY <1>1, <1>3, <2>2, <2>3
  <1> QED BY <1>8, <1>9

----------------------------------------------------------------------------
(* The actions.  Kept: the paths are kept, and the pair of a call that is up *)
(* while the phone is in a call mode.                                        *)
Kept(u, mode, v) == Paths(v) /\ (Pair(u) /\ PairStays(u, mode) => Pair(v))

\* A handle has one name, and a closed handle has none.
LEMMA OneName ==
  ASSUME Core, NEW k \in Kinds
  PROVE  /\ ucm \in UcmType /\ ucm.verb \notin ucm.mods /\ Alone(ucm, k, role[k])
         /\ role[k] \in {"verb", "mod"} /\ (k \notin open => k \notin Enabled(ucm))
  <1>1. ucm.verb \notin ucm.mods BY NamesApart DEF Core, EnabledIsOpen, Names
  <1>2. /\ ucm.verb = k => k \in open /\ role[k] = "verb"
        /\ k \in ucm.mods => k \in open /\ role[k] = "mod"
    BY DEF Core, EnabledIsOpen
  <1> QED BY <1>1, <1>2 DEF Core, Alone, Enabled, Roles

LEMMA OpeningPaths ==
  ASSUME Core, Paths(ucm), NEW k \in Kinds \ open, NEW device \in Outputs \cup Inputs,
         NEW mode \in AllModes, Fits(k, device, mode), NEW how,
         ucm' = Opened(Route(ucm, device, mode), k, FreeRole(ucm), how)
  PROVE  Kept(ucm, mode, ucm')
  <1>1. ucm \in UcmType /\ ucm.verb \notin ucm.mods /\ k \in Kinds \ Enabled(ucm) BY OneName
  <1> QED BY <1>1, OpenedPaths DEF Kept

LEMMA ClosingPaths ==
  ASSUME Core, Paths(ucm), NEW k \in Kinds, Closing(k), NEW mode
  PROVE  Kept(ucm, mode, ucm')
  <1>1. /\ ucm \in UcmType /\ ucm.verb \notin ucm.mods /\ Alone(ucm, k, role[k])
        /\ role[k] \in {"verb", "mod"}
    BY OneName
  <1>2. ucm' = IF k \in open THEN DisableDevice(ucm, k, role[k]) ELSE ucm
    BY DEF Closing, Closed
  <1>3. CASE k \in open
    <2>1. ucm' = DisableDevice(ucm, k, role[k]) BY <1>2, <1>3
    <2> QED BY <1>1, <2>1, DisablePaths DEF Kept
  <1>4. CASE k \notin open BY <1>2, <1>4 DEF Kept
  <1> QED BY <1>3, <1>4

LEMMA RoutePathsKept ==
  ASSUME NEW u \in UcmType, u.verb \notin u.mods, Paths(u),
         NEW device \in Outputs \cup Inputs, NEW mode \in AllModes,
         NEW v, v = Route(u, device, mode)
  PROVE  v \in UcmType /\ v.verb = u.verb /\ v.mods = u.mods /\ Kept(u, mode, v)
  BY RoutePaths DEF Kept

\* Fewer use cases, and two steps.
LEMMA KeptTwice ==
  ASSUME NEW u, NEW v, NEW w, NEW mode, Kept(u, mode, v), Kept(v, mode, w),
         Enabled(v) \subseteq Enabled(u)
  PROVE  Kept(u, mode, w)
  BY DEF Kept, PairStays

\* The error path of write.
LEMMA RecoverPaths ==
  ASSUME IInv, Paths(ucm), NEW k \in Outs, NEW how, Recover(k, how)
  PROVE  Kept(ucm, mMode, ucm')
  <1> DEFINE u == IF ssr THEN Route(ucm, mCurRxDevice, mMode) ELSE ucm
  <1>1. k \in Kinds /\ mMode \in AllModes /\ mCurRxDevice \in Outputs \cup Inputs
    BY ModesKnown DEF Kinds, IInv, Rest
  <1>2. /\ ucm \in UcmType /\ ucm.verb \notin ucm.mods /\ Alone(ucm, k, role[k])
        /\ role[k] \in {"verb", "mod"}
    BY <1>1, OneName DEF IInv
  <1>3. /\ Route(ucm, mCurRxDevice, mMode) \in UcmType
        /\ Route(ucm, mCurRxDevice, mMode).verb = ucm.verb
        /\ Route(ucm, mCurRxDevice, mMode).mods = ucm.mods
        /\ Kept(ucm, mMode, Route(ucm, mCurRxDevice, mMode))
    BY <1>1, <1>2, RoutePathsKept
  <1>4. u \in UcmType /\ u.verb = ucm.verb /\ u.mods = ucm.mods /\ Kept(ucm, mMode, u)
    BY <1>2, <1>3 DEF Kept
  <1>5. ucm' = IF how = "params" THEN DisableDevice(u, k, role[k]) ELSE u BY DEF Recover
  <1> HIDE DEF u
  <1>6. CASE how = "params"
    <2>1. Alone(u, k, role[k]) /\ u.verb \notin u.mods BY <1>2, <1>4 DEF Alone
    <2>2. Paths(u) BY <1>4 DEF Kept
    <2>3. ucm' = DisableDevice(u, k, role[k]) BY <1>5, <1>6
    <2>4. Paths(ucm') /\ (Pair(u) => Pair(ucm')) BY <1>1, <1>2, <1>4, <2>1, <2>2, <2>3, DisablePaths
    <2> QED BY <1>4, <2>4 DEF Kept
  <1>7. CASE how # "params" BY <1>4, <1>5, <1>7
  <1> QED BY <1>6, <1>7

\* doRouting.  A ringtone while a call is up is routed as the call is.
LEMMA RoutingPaths ==
  ASSUME IInv, Paths(ucm), NEW device \in Outputs \cup Inputs, DoRouting(device)
  PROVE  Paths(ucm') /\ (mMode # "RINGTONE" => Kept(ucm, mMode, ucm'))
  <1>1. /\ mMode \in AllModes /\ PlainMode \in AllModes /\ Calls \subseteq Kinds
        /\ (mMode # "RINGTONE" => PlainMode = mMode)
    BY ModesKnown DEF IInv, Rest, PlainMode, AllModes, Kinds
  <1>2. ucm \in UcmType /\ ucm.verb \notin ucm.mods
    BY NamesApart DEF IInv, Core, EnabledIsOpen, Names
  <1>3. CASE StartsCall /\ \E how \in How("voice") \ {"params"} : StartCall(device, how)
    <2>1. mVSID \in Kinds \ open /\ mVSID \in Calls /\ mMode = "IN_CALL"
      BY <1>1, <1>3 DEF StartsCall, IInv, Rest, CallsListed
    <2>2. mVSID \in Kinds \ Enabled(ucm) BY <2>1, OneName DEF IInv
    <2>3. Fits(mVSID, device, mMode)
      BY <2>1 DEF Fits, PlayType, TwoWay, InCallMode
    <2>4. PICK how \in How("voice") \ {"params"} : StartCall(device, how) BY <1>3
    <2>5. CASE how = "ok"
      <3>1. ucm' = Opened(Route(ucm, device, mMode), mVSID, FreeRole(ucm), "ok")
        BY <2>4, <2>5 DEF StartCall, Opened
      <3> QED BY <1>1, <2>1, <2>3, <3>1, OpeningPaths DEF IInv, Kept
    <2>6. CASE how # "ok"
      <3> DEFINE u == Opened(Route(ucm, device, mMode), mVSID, FreeRole(ucm), "params")
      <3>1. /\ Paths(u) /\ (Pair(ucm) /\ PairStays(ucm, mMode) => Pair(u))
            /\ u \in UcmType /\ u.verb \notin u.mods /\ Enabled(u) \subseteq Enabled(ucm)
        BY <1>1, <1>2, <2>2, <2>3, OpenedPaths
      <3>2. ucm' = Route(u, device, PlainMode) BY <2>4, <2>6 DEF StartCall, Opened
      <3> HIDE DEF u
      <3>3. Kept(u, PlainMode, ucm') BY <1>1, <3>1, <3>2, RoutePathsKept
      <3>4. Kept(ucm, mMode, u) BY <3>1 DEF Kept
      <3> QED BY <1>1, <2>1, <3>1, <3>3, <3>4, KeptTwice DEF Kept
    <2> QED BY <2>5, <2>6
  <1>4. CASE EndsCall /\ EndCall(device)
    <2>1. mVSID \in Kinds /\ mVSID \in mDeviceList \cap open
      BY <1>1, <1>4 DEF EndsCall, IInv, Rest, CallsListed
    <2> DEFINE u == DisableDevice(ucm, mVSID, role[mVSID])
    <2>2. ucm' = Route(u, device, mMode) BY <1>4, <2>1 DEF EndCall, Closed
    <2>3. Alone(ucm, mVSID, role[mVSID]) /\ role[mVSID] \in {"verb", "mod"}
      BY <2>1, OneName DEF IInv
    <2>4. /\ u \in UcmType /\ u.verb \notin u.mods /\ Paths(u) /\ (Pair(ucm) => Pair(u))
          /\ Enabled(u) \subseteq Enabled(ucm)
      BY <1>2, <2>1, <2>3, DisablePaths
    <2> HIDE DEF u
    <2>5. Kept(u, mMode, ucm') BY <1>1, <2>2, <2>4, RoutePathsKept
    <2>6. Kept(ucm, mMode, u) BY <2>4 DEF Kept
    <2> QED BY <2>4, <2>5, <2>6, KeptTwice DEF Kept
  <1>5. CASE UNCHANGED ucm BY <1>5 DEF Kept
  <1>6. CASE ucm' = Route(ucm, device, PlainMode)
    <2>1. Kept(ucm, PlainMode, ucm') BY <1>1, <1>2, <1>6, RoutePathsKept
    <2> QED BY <1>1, <2>1 DEF Kept
  <1> QED BY <1>3, <1>4, <1>5, <1>6 DEF DoRouting

\* A capture is routed to an input of the board, or records a call.
LEMMA CaptureFits ==
  ASSUME NEW k \in Captures, NEW device \in Inputs, FitsMode(k, device)
  PROVE  Fits(k, device, mMode)
  <1>1. device \in {"mic", "headsetMic", "voiceCall"} BY DevicesAssumption
  <1>2. CASE k = "inCallRec"
    BY <1>2 DEF FitsMode, Fits, PlayType, TwoWay, InCallMode
  <1>3. CASE k # "inCallRec"
    <2>1. k \notin PlayType BY <1>3, KindsAssumption DEF PlayType, TwoWay
    <2> QED BY <1>1, <1>3, <2>1 DEF FitsMode, Fits
  <1> QED BY <1>2, <1>3

\* The shared handle of a VoIP call is routed as a call is.
LEMMA OpenVoipPaths ==
  ASSUME IInv, Paths(ucm), NEW s \in Directions, NEW how, OpenVoip(s, how)
  PROVE  Kept(ucm, mMode, ucm')
  <1> DEFINE first == "voip" \notin mDeviceList
             r == IF first THEN FreeRole(ucm) ELSE role["voip"]
             up == IF first
                     THEN Enable(Route(ucm, mCurDevice, "IN_COMMUNICATION"), "voip", r)
                     ELSE ucm
             gone == how = "refused" /\ \A t \in Directions : voipCount[t] = 0
  <1>1. /\ "voip" \in Kinds /\ "IN_COMMUNICATION" \in AllModes
        /\ (first <=> "voip" \notin open) /\ mCurDevice \in Outputs \cup Inputs
        /\ InCallMode("IN_COMMUNICATION")
    BY DEF IInv, Rest, Kinds, AllModes, InCallMode
  <1>2. ucm' = IF gone /\ (first \/ "voip" \in open) THEN DisableDevice(up, "voip", r) ELSE up
    BY DEF OpenVoip
  <1>3. Fits("voip", mCurDevice, "IN_COMMUNICATION")
    BY <1>1 DEF Fits, PlayType, TwoWay
  <1>4. CASE first
    <2>1. ucm' = Opened(Route(ucm, mCurDevice, "IN_COMMUNICATION"), "voip", FreeRole(ucm),
                        IF gone THEN "params" ELSE "ok")
      BY <1>2, <1>4 DEF Opened
    <2> HIDE DEF gone
    <2>2. Kept(ucm, "IN_COMMUNICATION", ucm') BY <1>1, <1>3, <1>4, <2>1, OpeningPaths DEF IInv
    <2> QED BY <1>1, <2>2 DEF Kept, PairStays
  <1>5. CASE ~first /\ gone
    <2>1. ucm' = DisableDevice(ucm, "voip", role["voip"]) BY <1>1, <1>2, <1>5
    <2>2. /\ ucm \in UcmType /\ ucm.verb \notin ucm.mods /\ Alone(ucm, "voip", role["voip"])
          /\ role["voip"] \in {"verb", "mod"}
      BY <1>1, OneName DEF IInv
    <2> QED BY <1>1, <2>1, <2>2, DisablePaths DEF Kept
  <1>6. CASE ~first /\ ~gone BY <1>2, <1>6 DEF Kept
  <1> QED BY <1>4, <1>5, <1>6

\* Every step keeps the paths, and the pair of a call but for a ringtone.
LEMMA NextPaths ==
  ASSUME IInv, Paths(ucm), [Next]_vars
  PROVE  Paths(ucm') /\ (mMode # "RINGTONE" => Kept(ucm, mMode, ucm'))
  <1>0. mMode \in AllModes /\ Outs \cup Sessions \cup Captures \cup {"fm", "voip"} \subseteq Kinds
    BY ModesKnown DEF IInv, Rest, Kinds
  <1>1. CASE Playback
    <2>0. \A k \in Outs \cup Sessions, d \in Outputs : Fits(k, d, mMode)
      BY DEF Fits, PlayType
    <2>1. ASSUME NEW k \in Outs \cup Sessions, NEW d \in Outputs,
                 NEW how \in {"ok", "bad", "params"}, OpenOut(k, d, how)
          PROVE  Kept(ucm, mMode, ucm')
      <3>1. k \in Kinds \ open BY <1>0, <2>1 DEF OpenOut, IInv, Rest
      <3>2. \E h : ucm' = Opened(Route(ucm, d, mMode), k, FreeRole(ucm), h)
        BY <2>1 DEF OpenOut, Opening
      <3> QED BY <1>0, <2>0, <3>1, <3>2, OpeningPaths DEF IInv
    <2>2. ASSUME NEW k \in Outs \cup Sessions, NEW how \in How("write"), Write(k, how)
          PROVE  Kept(ucm, mMode, ucm')
      <3>1. k \in Kinds \ open /\ mCurRxDevice \in Outputs BY <1>0, <2>2 DEF Write, IInv, Rest
      <3>2. ucm' = Opened(Route(ucm, mCurRxDevice, mMode), k, FreeRole(ucm), how)
        BY <2>2 DEF Write, Opening
      <3> QED BY <1>0, <2>0, <3>1, <3>2, OpeningPaths DEF IInv
    <2>3. ASSUME NEW k \in Outs \cup Sessions, NEW how \in How("write"), Recover(k, how)
          PROVE  Kept(ucm, mMode, ucm')
      <3>1. k \in Outs BY <2>3 DEF Recover
      <3> QED BY <2>3, <3>1, RecoverPaths
    <2>4. ASSUME NEW k \in Outs \cup Sessions, StandbyOut(k) \/ CloseOut(k)
          PROVE  Kept(ucm, mMode, ucm')
      BY <1>0, <2>4, ClosingPaths DEF StandbyOut, CloseOut, IInv
    <2>5. ASSUME NEW d \in Outputs, RouteOut(d)
          PROVE  Paths(ucm') /\ (mMode # "RINGTONE" => Kept(ucm, mMode, ucm'))
      BY <2>5, RoutingPaths DEF RouteOut
    <2> QED BY <1>1, <2>1, <2>2, <2>3, <2>4, <2>5 DEF Playback, Kept
  <1>2. CASE Capture
    <2>1. ASSUME NEW k \in Captures, NEW d \in Inputs, OpenIn(k, d)
          PROVE  Kept(ucm, mMode, ucm')
      BY <2>1 DEF OpenIn, Kept
    <2>2. ASSUME NEW k \in Captures, NEW d \in Inputs, RouteIn(k, d)
          PROVE  Paths(ucm') /\ (mMode # "RINGTONE" => Kept(ucm, mMode, ucm'))
      <3>1. CASE d = "voiceCall" BY <2>2, <3>1 DEF RouteIn, Kept
      <3>2. CASE d # "voiceCall" BY <2>2, <3>2, RoutingPaths DEF RouteIn
      <3> QED BY <3>1, <3>2
    <2>3. ASSUME NEW k \in Captures, NEW how \in How("read"), Read(k, how)
          PROVE  Kept(ucm, mMode, ucm')
      <3>1. k \in Kinds \ open /\ mDevices[k] \in Inputs /\ FitsMode(k, mDevices[k])
        BY <1>0, <2>3 DEF Read, IInv, Rest
      <3>2. ucm' = Opened(Route(ucm, mDevices[k], mMode), k, FreeRole(ucm), how)
        BY <2>3 DEF Read, Opening
      <3> QED BY <1>0, <3>1, <3>2, CaptureFits, OpeningPaths DEF IInv
    <2>4. ASSUME NEW k \in Captures, StandbyIn(k) \/ CloseIn(k)
          PROVE  Kept(ucm, mMode, ucm')
      BY <1>0, <2>4, ClosingPaths DEF StandbyIn, CloseIn, IInv
    <2> QED BY <1>2, <2>1, <2>2, <2>3, <2>4 DEF Capture, Kept
  <1>3. CASE Control
    <2>1. CASE ControlRoute
      <3>1. mCurDevice \in Outputs \cup Inputs BY DEF IInv, Rest
      <3> QED BY <2>1, <3>1, RoutingPaths DEF ControlRoute
    <2>2. CASE UNCHANGED ucm BY <2>2 DEF Kept
    <2> QED BY <1>3, <2>1, <2>2 DEF Control, SetMode, Telephone, SetCallState, SetSSR
  <1>4. CASE Fm
    <2>1. ASSUME NEW d \in Outputs, NEW how \in How("fm"), FmOn(d, how)
          PROVE  Kept(ucm, mMode, ucm')
      <3>1. "fm" \in Kinds \ open BY <1>0, <2>1 DEF FmOn, IInv, Rest
      <3>2. ucm' = Opened(Route(ucm, d, mMode), "fm", FreeRole(ucm), how)
        BY <2>1 DEF FmOn, Opening
      <3>3. Fits("fm", d, mMode) BY DEF Fits, PlayType
      <3> QED BY <1>0, <3>1, <3>2, <3>3, OpeningPaths DEF IInv
    <2>2. CASE FmOff
      <3>1. Closing("fm") /\ "fm" \in Kinds /\ Core BY <1>0, <2>2 DEF FmOff, IInv
      <3>2. Kept(ucm, mMode, ucm') BY <3>1, ClosingPaths
      <3> QED BY <3>2 DEF Kept
    <2> QED BY <1>4, <2>1, <2>2 DEF Fm, Kept
  <1>5. CASE Voip
    <2>1. ASSUME NEW s \in Directions, CloseVoip(s) PROVE Kept(ucm, mMode, ucm')
      <3>1. CASE UNCHANGED ucm BY <3>1 DEF Kept
      <3>2. CASE Closing("voip") BY <1>0, <3>2, ClosingPaths DEF IInv
      <3> QED BY <2>1, <3>1, <3>2 DEF CloseVoip
    <2> QED BY <1>5, <2>1, OpenVoipPaths DEF Voip, Kept
  <1>6. CASE UNCHANGED vars BY <1>6 DEF vars, Kept
  <1> QED BY <1>1, <1>2, <1>3, <1>4, <1>5, <1>6 DEF Next, Kept

----------------------------------------------------------------------------
\* Every use case goes through the current devices.
LEMMA PathsInvariant == Spec => [](IInv /\ Paths(ucm))
  <1>1. Init => Paths(ucm)
    <2> SUFFICES ASSUME Init PROVE Paths(ucm) OBVIOUS
    <2>1. Enabled(ucm) = {} /\ ucm.tx = <<"mic", FALSE>> BY DEF Init, Enabled
    <2>2. ucm.tx # None
      <3>1. "mic" # "none" OBVIOUS
      <3> QED BY <2>1, <3>1 DEF None
    <2> QED BY <2>1, <2>2 DEF Paths
  <1>2. IInv /\ Paths(ucm) /\ [Next]_vars => (IInv /\ Paths(ucm))'
    <2> SUFFICES ASSUME IInv, Paths(ucm), [Next]_vars PROVE IInv' /\ Paths(ucm)'
      OBVIOUS
    <2>1. Paths(ucm') BY NextPaths
    <2>2. Paths(ucm)' BY <2>1 DEF Paths, Enabled
    <2> QED BY <2>2, NextIInv
  <1>3. Init => IInv BY InitIInv
  <1> QED BY <1>1, <1>2, <1>3, PTL DEF Spec

\* Whoever changes the device, all that plays goes along with it, and no close
\* switches off what another use case plays through (switchDevice, close and
\* disableDevice).
THEOREM PlaybackFollowsOutput == Spec => []PlaysThroughCurrent
  <1>1. Paths(ucm) => PlaysThroughCurrent BY DEF Paths, PlaysThroughCurrent
  <1> QED BY <1>1, PathsInvariant, PTL

\* What only records goes through the current input, which is on.
THEOREM CaptureFollowsInput == Spec => []RecordsThroughCurrent
  <1>1. Paths(ucm) => RecordsThroughCurrent BY DEF Paths, RecordsThroughCurrent
  <1> QED BY <1>1, PathsInvariant, PTL

----------------------------------------------------------------------------
(* One call, and no mode but the call modes in which it stays up.  With two  *)
(* VSIDs, or a ringtone during a call, the phone is in a mode that does not  *)
(* pair the devices while a call is up: an input that moves leaves the call. *)
OneCall == Calls = {"voice"} /\ Modes \subseteq {"NORMAL", "IN_CALL", "IN_COMMUNICATION"}

\* Outside the call modes the call is down, or the message that ends it is
\* about to be routed.
PairInv ==
  /\ InCallMode(mMode) => Pair(ucm)
  /\ \/ InCallMode(mMode) \/ callState["voice"] = "INACTIVE"
     \/ control = "route" /\ mCallState = "INACTIVE"
  /\ callState["voice"] # "INACTIVE" => mVSID = "voice"

LEMMA NextPairInv ==
  ASSUME OneCall, IInv, Paths(ucm), PairInv, [Next]_vars
  PROVE  PairInv'
  <1>1. /\ mMode \in {"NORMAL", "IN_CALL", "IN_COMMUNICATION"}
        /\ callState \in [{"voice"} -> CallStates] /\ mVSID \in {"voice", "none"}
        /\ "INACTIVE" \in CallStates
    BY CallStatesAssumption DEF OneCall, IInv, Rest
  <1>2. Kept(ucm, mMode, ucm') BY <1>1, NextPaths
  <1>3. callState["voice"] = "INACTIVE" => Calls \cap Enabled(ucm) = {}
    <2>1. "voice" \in Kinds BY NamesAssumption DEF Kinds
    <2>2. "voice" \in open <=> callState["voice"] # "INACTIVE"
      BY DEF OneCall, IInv, Rest, CallsListed
    <2> QED BY <2>1, <2>2, OneName DEF OneCall, IInv
  <1>4. ASSUME DoRouting(mCurDevice) \/ (\E d \in Outputs \cup Inputs : DoRouting(d)),
               UNCHANGED <<mMode, mCallState, mVSID>>,
               control' = control \/ control' = "idle"
        PROVE  /\ callState'["voice"] # "INACTIVE" => mVSID' = "voice"
               /\ \/ InCallMode(mMode') \/ callState'["voice"] = "INACTIVE"
                  \/ control' = "route" /\ mCallState' = "INACTIVE"
    <2>1. PICK d : DoRouting(d) BY <1>4
    <2>2. CASE StartsCall /\ \E how \in How("voice") \ {"params"} : StartCall(d, how)
      <3>1. mMode = "IN_CALL" /\ mVSID = "voice" BY <1>1, <2>2 DEF StartsCall
      <3> QED BY <1>4, <3>1 DEF InCallMode
    <2>3. CASE EndsCall /\ EndCall(d)
      <3>1. mVSID = "voice" /\ callState'["voice"] = "INACTIVE"
        BY <1>1, <2>3 DEF EndsCall, EndCall
      <3> QED BY <1>4, <3>1
    <2>4. CASE MovesCall /\ callState' = [callState EXCEPT ![mVSID] = mCallState]
      <3>1. mVSID = "voice" /\ mCallState # "INACTIVE" /\ callState["voice"] # "INACTIVE"
        BY <1>1, <2>4 DEF MovesCall
      <3> QED BY <1>4, <3>1 DEF PairInv
    <2>5. CASE ~EndsCall /\ UNCHANGED callState
      <3>1. mCallState = "INACTIVE" => callState["voice"] = "INACTIVE"
        BY <1>1, <2>5 DEF EndsCall, PairInv
      <3> QED BY <1>4, <2>5, <3>1 DEF PairInv
    <2> QED BY <2>1, <2>2, <2>3, <2>4, <2>5 DEF DoRouting
  <1>5. /\ callState'["voice"] # "INACTIVE" => mVSID' = "voice"
        /\ \/ InCallMode(mMode') \/ callState'["voice"] = "INACTIVE"
           \/ control' = "route" /\ mCallState' = "INACTIVE"
    <2>1. CASE Playback
      <3>1. CASE \E d \in Outputs : RouteOut(d) BY <1>4, <3>1 DEF RouteOut
      <3>2. CASE UNCHANGED callVars BY <3>2 DEF PairInv, callVars
      <3> QED BY <2>1, <3>1, <3>2 DEF Playback, OpenOut, Write, Recover, StandbyOut, CloseOut
    <2>2. CASE Capture
      <3>1. ASSUME NEW k \in Captures, NEW d \in Inputs, RouteIn(k, d)
            PROVE  UNCHANGED callVars \/ (DoRouting(d) /\ UNCHANGED <<mMode, mCallState, mVSID, control>>)
        BY <3>1 DEF RouteIn, callVars
      <3>2. CASE UNCHANGED callVars BY <3>2 DEF PairInv, callVars
      <3> QED BY <1>4, <2>2, <3>1, <3>2 DEF Capture, OpenIn, Read, StandbyIn, CloseIn
    <2>3. CASE Control
      <3>1. ASSUME NEW mode \in Modes, SetMode(mode)
            PROVE  /\ callState'["voice"] # "INACTIVE" => mVSID' = "voice"
                   /\ \/ InCallMode(mMode') \/ callState'["voice"] = "INACTIVE"
                      \/ control' = "route" /\ mCallState' = "INACTIVE"
        <4>1. mode \in {"NORMAL", "IN_CALL", "IN_COMMUNICATION"} BY DEF OneCall
        <4>2. mCallState = "INACTIVE" /\ control = "idle" => callState["voice"] = "INACTIVE"
          BY <1>1 DEF IInv, Rest, EndedCallIsDown, PairInv
        <4> QED BY <3>1, <4>1, <4>2 DEF SetMode, PairInv, InCallMode
      <3>2. CASE \E v \in Calls, state \in CallStates : Telephone(v, state)
        BY <3>2 DEF Telephone, PairInv, OneCall
      <3>3. CASE SetCallState BY <3>3 DEF SetCallState, PairInv
      <3>4. CASE ControlRoute BY <1>4, <3>4 DEF ControlRoute
      <3>5. CASE \E complete \in BOOLEAN : SetSSR(complete)
        BY <3>5 DEF SetSSR, callVars, PairInv
      <3> QED BY <2>3, <3>1, <3>2, <3>3, <3>4, <3>5 DEF Control
    <2>4. CASE Fm BY <2>4 DEF Fm, FmOn, FmOff, callVars, PairInv
    <2>5. CASE Voip BY <2>5 DEF Voip, OpenVoip, CloseVoip, callVars, PairInv
    <2>6. CASE UNCHANGED vars BY <2>6 DEF vars, callVars, PairInv
    <2> QED BY <2>1, <2>2, <2>3, <2>4, <2>5, <2>6 DEF Next
  <1>6. InCallMode(mMode') => Pair(ucm')
    <2>1. CASE InCallMode(mMode)
      BY <1>2, <2>1 DEF Kept, PairStays, PairInv
    <2>2. CASE ~InCallMode(mMode) /\ mMode' = mMode
      BY <2>2
    <2>3. CASE ~InCallMode(mMode) /\ mMode' # mMode
      <3>1. \E mode \in Modes : SetMode(mode)
        BY <2>3 DEF Next, Playback, Capture, Control, Fm, Voip, OpenOut, Write, Recover,
                    StandbyOut, CloseOut, RouteOut, OpenIn, RouteIn, Read, StandbyIn, CloseIn,
                    Telephone, SetCallState, ControlRoute, SetSSR, FmOn, FmOff, OpenVoip,
                    CloseVoip, callVars, vars
      <3>2. control = "idle" /\ ucm' = ucm BY <3>1 DEF SetMode
      <3>3. callState["voice"] = "INACTIVE" BY <2>3, <3>2 DEF PairInv
      <3> QED BY <1>3, <3>2, <3>3 DEF Pair
    <2> QED BY <2>1, <2>2, <2>3
  <1> QED BY <1>5, <1>6 DEF PairInv, Pair, Enabled, InCallMode

\* The one call of the phone goes through the current output and the current
\* input together, whichever stream moved one of them (switchDevice).
THEOREM CallKeepsItsPair == ASSUME OneCall PROVE Spec => []CallOnCurrentPair
  <1>1. Init => PairInv
    <2> SUFFICES ASSUME Init PROVE PairInv OBVIOUS
    <2>1. callState["voice"] = "INACTIVE" BY DEF Init, OneCall
    <2>2. Enabled(ucm) = {} BY DEF Init, Enabled
    <2> QED BY <2>1, <2>2 DEF PairInv, Pair
  <1>2. IInv /\ Paths(ucm) /\ PairInv /\ [Next]_vars => PairInv' BY NextPairInv
  <1>3. PairInv => CallOnCurrentPair
    BY DEF PairInv, Pair, CallOnCurrentPair, InCallMode
  <1> QED BY <1>1, <1>2, <1>3, PathsInvariant, PTL DEF Spec
=============================================================================
