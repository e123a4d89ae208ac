-------------------------- MODULE PolicyMixProofs --------------------------
(* Theorems about the mix of PolicyManager: devices, mutes, volumes and the  *)
(* route, for any tracks, devices, uses and inputs.                          *)
EXTENDS PolicyManager, FoldProofs

\* MixType without the bound on the mutes, as a set.
Mixes == [device : [Outputs -> SUBSET OutDevices], byDevice : [Outputs -> SUBSET Strategies],
          mutes : [Outputs -> [Streams -> Nat]], silent : [Outputs -> SUBSET Streams],
          routed : SUBSET OutDevices]

\* The volume of streams is set to zero, and to what the user chose.
Off(q, m, o, streams) == checkAndSetVolume(q, m, o, streams, TRUE)
On(q, m, o, streams)  == checkAndSetVolume(q, m, o, streams, FALSE)

\* What one output becomes when it is opened.
OpenedOne(m, o, device) ==
  [m EXCEPT !.device[o] = device, !.byDevice[o] = {}, !.silent[o] = {},
            !.mutes[o] = [s \in Streams |-> 0]]

\* S is a set of mixes that no single operation of the manager, made under the
\* conditions q, leaves; the devices of the primary output and module apart.
Stable(S, q) ==
  /\ S \subseteq Mixes
  /\ \A m \in S, o \in Outputs, streams \in SUBSET Streams :
       /\ Muted(q, m, o, streams) \in S
       /\ On(q, m, o, streams) \in S
       /\ \A device : Unmuted(q, m, o, streams, device) \in S
  /\ \A m \in S, o \in Outputs :
       /\ o # "primary" =>
            \A device \in SUBSET OutDevices : [m EXCEPT !.device[o] = device] \in S
       /\ \A ts \in SUBSET Strategies : [m EXCEPT !.byDevice[o] = ts] \in S
\* They may also be given a device.
Routes(S, device) == \A m \in S : [m EXCEPT !.routed = device] \in S
RoutesTo(S, wanted) ==
  /\ \A m \in S : [m EXCEPT !.device["primary"] = wanted \cap Supported("primary")] \in S
  /\ \A o \in Outputs \ {"submix", "dup"} :
       wanted \cap Supported(o) # {} => Routes(S, wanted \cap Supported(o))

-----------------------------------------------------------------------------
(* The operations on one output.                                             *)

LEMMA StrategiesOf == /\ \A s \in Streams : Strategy(s) \in Strategies
                      /\ \A t : Of(t) \in SUBSET Streams
BY StreamsAssumption DEF Strategy, Strategies, Of

\* The streams whose volume may be set.
Free(q, m, o, streams) == {s \in streams : m.mutes[o][s] = 0 /\ ~Refused(q, s)}

SilentIs(m, o, streams) == [m EXCEPT !.silent[o] = streams]

LEMMA SilentSets ==
  ASSUME NEW m \in Mixes, NEW o \in Outputs, NEW next, next \in SUBSET Streams
  PROVE  /\ SilentIs(m, o, next) \in Mixes
         /\ SilentIs(m, o, next).mutes = m.mutes /\ SilentIs(m, o, next).routed = m.routed
         /\ SilentIs(m, o, next).device = m.device
         /\ \A p \in Outputs : SilentIs(m, o, next).silent[p] = IF p = o THEN next ELSE m.silent[p]
BY DEF Mixes, SilentIs

\* r is m after the volumes of streams were set on o, to zero and to what the
\* user chose; after streams were muted there, and unmuted.
Silenced(q, m, o, streams, r) ==
  /\ r \in Mixes /\ r.mutes = m.mutes /\ r.routed = m.routed /\ r.device = m.device
  /\ \A p \in Outputs : r.silent[p] = IF p = o THEN m.silent[p] \cup Free(q, m, o, streams)
                                      ELSE m.silent[p]
Sounded(q, m, o, streams, r) ==
  /\ r \in Mixes /\ r.mutes = m.mutes /\ r.routed = m.routed /\ r.device = m.device
  /\ \A p \in Outputs : r.silent[p] = IF p = o THEN m.silent[p] \ Free(q, m, o, streams)
                                      ELSE m.silent[p]
Allowed(q, streams) == {s \in streams : s # "ENFORCED_AUDIBLE" \/ q.force["SYSTEM"] = "NONE"}
CountedUp(q, m, o, streams, r) ==
  /\ r \in Mixes /\ r.routed = m.routed /\ r.device = m.device
  /\ \A p \in Outputs, s \in Streams :
       r.mutes[p][s] = IF p = o /\ s \in streams THEN m.mutes[p][s] + 1 ELSE m.mutes[p][s]
  /\ \A p \in Outputs : r.silent[p] =
       IF p = o THEN m.silent[p] \cup Free(q, m, o, Allowed(q, streams)) ELSE m.silent[p]
CountedDown(q, m, o, muted, r) ==
  /\ r \in Mixes /\ r.routed = m.routed /\ r.device = m.device
  /\ \A p \in Outputs, s \in Streams :
       IF p = o /\ s \in muted THEN r.mutes[p][s] < m.mutes[p][s]
       ELSE r.mutes[p][s] = m.mutes[p][s]
  /\ \A p \in Outputs : r.silent[p] =
       IF p = o THEN m.silent[p] \ Free(q, r, o, muted) ELSE m.silent[p]

LEMMA VolumeOff ==
  ASSUME NEW q, NEW m \in Mixes, NEW o \in Outputs, NEW streams \in SUBSET Streams
  PROVE  Silenced(q, m, o, streams, Off(q, m, o, streams))
<1> DEFINE next == m.silent[o] \cup Free(q, m, o, streams)
<1>1. Off(q, m, o, streams) = SilentIs(m, o, next)
  BY DEF Off, On, checkAndSetVolume, Free, Mixes, SilentIs
<1>2. next \in SUBSET Streams BY DEF Free, Mixes
<1> HIDE DEF next
<1>3. /\ SilentIs(m, o, next) \in Mixes
      /\ SilentIs(m, o, next).mutes = m.mutes /\ SilentIs(m, o, next).routed = m.routed
      /\ SilentIs(m, o, next).device = m.device
      /\ \A p \in Outputs : SilentIs(m, o, next).silent[p] = IF p = o THEN next ELSE m.silent[p]
  BY <1>2, SilentSets
<1> QED BY <1>1, <1>3 DEF next, Silenced

LEMMA VolumeOn ==
  ASSUME NEW q, NEW m \in Mixes, NEW o \in Outputs, NEW streams \in SUBSET Streams
  PROVE  Sounded(q, m, o, streams, On(q, m, o, streams))
<1> DEFINE next == m.silent[o] \ Free(q, m, o, streams)
<1>1. On(q, m, o, streams) = SilentIs(m, o, next)
  BY DEF Off, On, checkAndSetVolume, Free, Mixes, SilentIs
<1>2. next \in SUBSET Streams BY DEF Free, Mixes
<1> HIDE DEF next
<1>3. /\ SilentIs(m, o, next) \in Mixes
      /\ SilentIs(m, o, next).mutes = m.mutes /\ SilentIs(m, o, next).routed = m.routed
      /\ SilentIs(m, o, next).device = m.device
      /\ \A p \in Outputs : SilentIs(m, o, next).silent[p] = IF p = o THEN next ELSE m.silent[p]
  BY <1>2, SilentSets
<1> QED BY <1>1, <1>3 DEF next, Sounded

LEMMA MutedSets ==
  ASSUME NEW q, NEW m \in Mixes, NEW o \in Outputs, NEW streams \in SUBSET Streams
  PROVE  CountedUp(q, m, o, streams, Muted(q, m, o, streams))
<1> DEFINE n == Off(q, m, o, Allowed(q, streams))
           r == Muted(q, m, o, streams)
<1>1. Allowed(q, streams) \in SUBSET Streams BY DEF Allowed
<1>2. Silenced(q, m, o, Allowed(q, streams), n) BY <1>1, VolumeOff
<1>3. r = [n EXCEPT !.mutes[o] = Add(n.mutes[o], streams, 1)] BY DEF Muted, Off, Allowed
<1> HIDE DEF n, r
<1>4. n \in Mixes /\ n.mutes = m.mutes /\ n.routed = m.routed /\ n.device = m.device
  BY <1>2 DEF Silenced
<1>5. Add(n.mutes[o], streams, 1) \in [Streams -> Nat] BY <1>4 DEF Mixes, Add
<1>6. r \in Mixes /\ r.routed = n.routed /\ r.silent = n.silent /\ r.device = n.device
  BY <1>3, <1>4, <1>5 DEF Mixes
<1>7. \A p \in Outputs : r.mutes[p] = IF p = o THEN Add(n.mutes[o], streams, 1) ELSE n.mutes[p]
  BY <1>3, <1>4 DEF Mixes
<1>8. \A s \in Streams : Add(n.mutes[o], streams, 1)[s] =
        IF s \in streams THEN m.mutes[o][s] + 1 ELSE m.mutes[o][s]
  BY <1>4 DEF Add, Mixes
<1>9. \A p \in Outputs, s \in Streams :
        r.mutes[p][s] = IF p = o /\ s \in streams THEN m.mutes[p][s] + 1 ELSE m.mutes[p][s]
  BY <1>4, <1>7, <1>8
<1> QED BY <1>2, <1>4, <1>6, <1>9 DEF r, CountedUp, Silenced

LEMMA UnmutedSets ==
  ASSUME NEW q, NEW m \in Mixes, NEW o \in Outputs, NEW streams \in SUBSET Streams, NEW device
  PROVE  CountedDown(q, m, o, {s \in streams : m.mutes[o][s] > 0}, Unmuted(q, m, o, streams, device))
<1> DEFINE muted == {s \in streams : m.mutes[o][s] > 0}
           less == [s \in Streams |-> IF s \notin muted THEN m.mutes[o][s]
                                      ELSE IF s = "RING" /\ "REMOTE_SUBMIX" \in device THEN 0
                                      ELSE m.mutes[o][s] - 1]
           n == [m EXCEPT !.mutes[o] = less]
           r == Unmuted(q, m, o, streams, device)
<1>1. less \in [Streams -> Nat] BY DEF Mixes
<1>2. \A s \in Streams : IF s \in muted THEN less[s] < m.mutes[o][s] ELSE less[s] = m.mutes[o][s]
  BY DEF Mixes
<1>3. muted \in SUBSET Streams OBVIOUS
<1>4. r = On(q, n, o, muted) BY DEF Unmuted, On
<1> HIDE DEF less, r, muted
<1>5. /\ n \in Mixes /\ n.routed = m.routed /\ n.silent = m.silent /\ n.device = m.device
      /\ \A p \in Outputs : n.mutes[p] = IF p = o THEN less ELSE m.mutes[p]
  BY <1>1 DEF Mixes
<1> HIDE DEF n
<1>6. Sounded(q, n, o, muted, On(q, n, o, muted)) BY <1>3, <1>5, VolumeOn
<1>7. r \in Mixes /\ r.mutes = n.mutes /\ r.routed = m.routed /\ r.device = m.device
  BY <1>4, <1>5, <1>6 DEF Sounded
<1>8. Free(q, r, o, muted) = Free(q, n, o, muted) BY <1>7 DEF Free
<1>9. \A p \in Outputs : r.silent[p] =
        IF p = o THEN m.silent[p] \ Free(q, r, o, muted) ELSE m.silent[p]
  BY <1>4, <1>5, <1>6, <1>8 DEF Sounded
<1>10. \A p \in Outputs, s \in Streams :
         IF p = o /\ s \in muted THEN r.mutes[p][s] < m.mutes[p][s]
         ELSE r.mutes[p][s] = m.mutes[p][s]
  BY <1>2, <1>5, <1>7
<1>11. CountedDown(q, m, o, muted, r) BY <1>7, <1>9, <1>10 DEF CountedDown
<1> QED BY <1>11 DEF r, muted

-----------------------------------------------------------------------------
(* The operations of the manager keep a stable set of mixes.                 *)

LEMMA PulsedKept ==
  ASSUME NEW S, NEW q, Stable(S, q), NEW m \in S, NEW o \in Outputs, NEW t, NEW device,
         NEW on \in BOOLEAN
  PROVE  Pulsed(q, m, t, o, device) \in S /\ setStrategyMute(q, m, t, on, o, device) \in S
<1>1. Of(t) \in SUBSET Streams BY StrategiesOf
<1>2. Muted(q, m, o, Of(t)) \in S BY <1>1 DEF Stable
<1>3. Unmuted(q, Muted(q, m, o, Of(t)), o, Of(t), device) \in S BY <1>1, <1>2 DEF Stable
<1>4. Unmuted(q, m, o, Of(t), device) \in S BY <1>1 DEF Stable
<1>5. Pulsed(q, m, t, o, device) = Unmuted(q, Muted(q, m, o, Of(t)), o, Of(t), device)
  BY DEF Pulsed, setStrategyMute
<1>6. setStrategyMute(q, m, t, on, o, device) \in S
  <2>1. CASE on BY <1>2, <2>1 DEF setStrategyMute
  <2>2. CASE ~on BY <1>4, <2>2 DEF setStrategyMute
  <2> QED BY <2>1, <2>2
<1> QED BY <1>3, <1>5, <1>6

LEMMA MuteStrategyKept ==
  ASSUME NEW S, NEW q, Stable(S, q), q.outputs \in Seq(Outputs),
         NEW m \in S, NEW o \in Outputs, NEW t \in Strategies, NEW device,
         NEW mute \in BOOLEAN, NEW changed \in BOOLEAN
  PROVE  MuteStrategy(q, m, o, t, mute, changed, device) \in S
<1> DEFINE flagged == [m EXCEPT !.byDevice[o] = IF mute THEN @ \cup {t} ELSE @ \ {t}]
           os == q.outputs
           Op(n, p) ==
             IF Supported(p) \cap Supported(o) = {} THEN n
             ELSE PulsedIf(/\ isStrategyActive(q, p, t) /\ changed /\ ~mute
                           /\ p = o \/ DeviceOf(n, p) # device,
                           q, setStrategyMute(q, n, t, mute, p, DeviceOf(n, p)), t, p, device)
           step == [i \in DOMAIN os |-> [x \in S |-> Op(x, os[i])]]
           Def(f) == f = [u \in SUBSET DOMAIN os |->
                            IF u = {} THEN flagged ELSE Op(f[u \ {Max(u)}], os[Max(u)])]
           fold == CHOOSE f : Def(f)
<1>1. flagged \in S
  <2> DEFINE ts == IF mute THEN m.byDevice[o] \cup {t} ELSE m.byDevice[o] \ {t}
  <2>1. ts \in SUBSET Strategies BY DEF Stable, Mixes
  <2>2. flagged = [m EXCEPT !.byDevice[o] = ts] BY DEF Stable, Mixes
  <2> HIDE DEF ts, flagged
  <2> QED BY <2>1, <2>2 DEF Stable
<1>2. ASSUME NEW n \in S, NEW p \in Outputs PROVE Op(n, p) \in S
  <2> DEFINE r == setStrategyMute(q, n, t, mute, p, DeviceOf(n, p))
  <2>1. r \in S BY PulsedKept
  <2> HIDE DEF r
  <2>2. Pulsed(q, r, t, p, device) \in S BY <2>1, PulsedKept
  <2>3. \A c \in BOOLEAN : PulsedIf(c, q, r, t, p, device) \in S BY <2>1, <2>2, Zenon DEF PulsedIf
  <2> QED BY <2>3 DEF r
<1> HIDE DEF flagged, Op
<1>3. /\ DOMAIN os = 1..Len(os) /\ Len(os) \in Nat /\ \A i \in DOMAIN os : os[i] \in Outputs
  OBVIOUS
<1>4. PICK g : Folded(g, DOMAIN os, Latest(DOMAIN os), S, flagged, step)
  <2>1. \A i \in DOMAIN os, x \in S : step[i][x] \in S BY <1>2, <1>3
  <2> HIDE DEF step
  <2> QED BY <1>1, <1>3, <2>1, SequenceFoldExists
<1>5. \A u \in SUBSET DOMAIN os : u # {} => Max(u) \in DOMAIN os BY <1>3, LatestChooses
<1>6. Def(g)
  <2>1. \A u \in SUBSET DOMAIN os : u # {} =>
          step[Max(u)][g[u \ {Max(u)}]] = Op(g[u \ {Max(u)}], os[Max(u)])
    BY <1>4, <1>5 DEF Folded
  <2>2. g = [u \in SUBSET DOMAIN os |-> g[u]] BY <1>4 DEF Folded
  <2> HIDE DEF step
  <2> QED BY <1>4, <2>1, <2>2 DEF Folded, Latest
<1>7. Def(fold) BY <1>6
<1>8. MuteStrategy(q, m, o, t, mute, changed, device) \in {m, fold[DOMAIN os]}
  BY DEF MuteStrategy, FoldLeft, MapThenFoldSet, flagged, Op
<1> HIDE DEF fold
<1>9. fold[{}] \in S BY <1>1, <1>7
<1>10. \A u \in SUBSET DOMAIN os : u # {} /\ fold[u \ {Max(u)}] \in S => fold[u] \in S
  BY <1>2, <1>3, <1>5, <1>7
<1>11. fold[DOMAIN os] \in S BY <1>3, <1>9, <1>10, SequenceFoldKept
<1> QED BY <1>8, <1>11

LEMMA FiveStrategies == IsFiniteSet(Strategies)
<1>1. IsFiniteSet({}) BY FS_EmptySet
<1>2. IsFiniteSet({} \cup {"PHONE"}) BY <1>1, FS_AddElement
<1>3. IsFiniteSet(({} \cup {"PHONE"}) \cup {"SONIFICATION"}) BY <1>2, FS_AddElement
<1>4. IsFiniteSet((({} \cup {"PHONE"}) \cup {"SONIFICATION"}) \cup {"DTMF"}) BY <1>3, FS_AddElement
<1>5. IsFiniteSet(((({} \cup {"PHONE"}) \cup {"SONIFICATION"}) \cup {"DTMF"}) \cup {"MEDIA"})
  BY <1>4, FS_AddElement
<1>6. IsFiniteSet((((({} \cup {"PHONE"}) \cup {"SONIFICATION"}) \cup {"DTMF"}) \cup {"MEDIA"})
                    \cup {"ENFORCED_AUDIBLE"})
  BY <1>5, FS_AddElement
<1>7. Strategies = (((({} \cup {"PHONE"}) \cup {"SONIFICATION"}) \cup {"DTMF"}) \cup {"MEDIA"})
                     \cup {"ENFORCED_AUDIBLE"}
  BY DEF Strategies
<1> QED BY <1>6, <1>7

LEMMA CheckKept ==
  ASSUME NEW S, NEW q, Stable(S, q), q.outputs \in Seq(Outputs),
         NEW m \in S, NEW o \in Outputs, NEW prev
  PROVE  checkDeviceMuteStrategies(q, m, o, prev) \in S
<1> DEFINE device == DeviceOf(m, o)
           T == {Strategy(s) : s \in Streams}
           Op(n, t) == MuteStrategy(q, n, o, t, Conflict(q, o, device, Device(q, t)),
                                    isActive(q, o) /\ device # prev, device)
           step == [i \in T |-> [x \in S |-> Op(x, i)]]
           Def(f) == f = [u \in SUBSET T |->
                            IF u = {} THEN m
                            ELSE Op(f[u \ {CHOOSE x \in u : TRUE}], CHOOSE x \in u : TRUE)]
           fold == CHOOSE f : Def(f)
<1>1. IsFiniteSet(T)
  <2>1. T \subseteq Strategies BY StrategiesOf
  <2>2. IsFiniteSet(Strategies) BY FiveStrategies
  <2> HIDE DEF T
  <2> QED BY <2>1, <2>2, FS_Subset
<1>2. ASSUME NEW n \in S, NEW t \in T PROVE Op(n, t) \in S
  <2>1. t \in Strategies BY StrategiesOf
  <2> DEFINE mute == Conflict(q, o, device, Device(q, t))
             changed == isActive(q, o) /\ device # prev
  <2>2. mute \in BOOLEAN /\ changed \in BOOLEAN BY DEF Conflict
  <2> HIDE DEF mute, changed, device
  <2>3. MuteStrategy(q, n, o, t, mute, changed, device) \in S BY <2>1, <2>2, MuteStrategyKept
  <2> QED BY <2>3 DEF mute, changed
<1>3. m \in S OBVIOUS
<1> HIDE DEF T, Op
<1>4. PICK g : Folded(g, T, AnyOf(T), S, m, step)
  <2>1. \A i \in T, x \in S : step[i][x] \in S BY <1>2
  <2> HIDE DEF step
  <2> QED BY <1>3, <1>1, <2>1, SetFoldExists
<1>5. \A u \in SUBSET T : u # {} => (CHOOSE x \in u : TRUE) \in T OBVIOUS
<1>6. Def(g)
  <2>1. \A u \in SUBSET T : u # {} =>
          step[CHOOSE x \in u : TRUE][g[u \ {CHOOSE x \in u : TRUE}]]
            = Op(g[u \ {CHOOSE x \in u : TRUE}], CHOOSE x \in u : TRUE)
    BY <1>4, <1>5 DEF Folded
  <2>2. g = [u \in SUBSET T |-> g[u]] BY <1>4 DEF Folded
  <2> HIDE DEF step
  <2> QED BY <1>4, <2>1, <2>2 DEF Folded, AnyOf
<1>7. Def(fold) BY <1>6
<1>8. checkDeviceMuteStrategies(q, m, o, prev) = fold[T]
  BY DEF checkDeviceMuteStrategies, FoldSet, MapThenFoldSet, Op, T
<1> HIDE DEF fold
<1>9. fold[{}] \in S BY <1>3, <1>7
<1>10. \A u \in SUBSET T : u # {} /\ fold[u \ {CHOOSE x \in u : TRUE}] \in S => fold[u] \in S
  BY <1>2, <1>5, <1>7
<1>11. fold[T] \in S BY <1>1, <1>9, <1>10, SetFoldKept
<1> QED BY <1>8, <1>11

LEMMA SupportedDevices == \A o \in Outputs : Supported(o) \in SUBSET OutDevices
<1>1. ASSUME NEW o \in Outputs
      PROVE  o \in {"primary", "fast", "lpa", "tunnel", "voip_rx", "hdmi", "submix", "dup"}
  BY ProfilesAssumption DEF Outputs
<1>2. Mixed \cup {"FM", "REMOTE_SUBMIX"} \subseteq OutDevices
  BY DEF Mixed, OutDevices, Wired, Sco, A2dp, Usb
<1>3. {"SPEAKER", "EARPIECE", "ANLG_DOCK"} \cup Wired \cup Usb \subseteq OutDevices
  BY DEF OutDevices
<1>4. {"AUX_DIGITAL"} \subseteq OutDevices BY DEF OutDevices
<1> QED BY <1>1, <1>2, <1>3, <1>4 DEF Supported

LEMMA SetOneKept ==
  ASSUME NEW S, NEW q, Stable(S, q), q.outputs \in Seq(Outputs), NEW wanted, RoutesTo(S, wanted),
         NEW m \in S, NEW o \in Outputs \ {"dup"}, NEW force \in BOOLEAN
  PROVE  SetOne(q, m, o, wanted, force) \in S
<1> DEFINE device == wanted \cap Supported(o)
           prev == m.device[o]
           moved == Moved(m, o, device)
           checked == checkDeviceMuteStrategies(q, moved, o, prev)
           routed == IF device = {} \/ o = "submix" THEN checked
                     ELSE [checked EXCEPT !.routed = device]
           again == force \/ device \notin {{}, prev}
<1>1. device \in SUBSET OutDevices BY SupportedDevices
<1>2. device # {} /\ o # "submix" => Routes(S, device) BY DEF RoutesTo
<1>3. SetOne(q, m, o, wanted, force) =
        IF wanted # {} /\ device = {} THEN m ELSE SentIf(again, q, checked, o, device)
  BY DEF SetOne
<1>4. again \in BOOLEAN OBVIOUS
<1>5. moved \in S
  <2>1. moved \in {m, [m EXCEPT !.device[o] = device]} BY DEF Moved
  <2>2. CASE o = "primary"
    <3>1. [m EXCEPT !.device["primary"] = wanted \cap Supported("primary")] \in S BY DEF RoutesTo
    <3> QED BY <2>1, <2>2, <3>1
  <2>3. CASE o # "primary"
    <3> HIDE DEF device
    <3>1. [m EXCEPT !.device[o] = device] \in S BY <1>1, <2>3 DEF Stable
    <3> QED BY <2>1, <3>1
  <2> QED BY <2>2, <2>3
<1> HIDE DEF device
<1> HIDE DEF moved
<1>6. checked \in S BY <1>5, CheckKept
<1> HIDE DEF checked
<1>7. routed \in S BY <1>2, <1>6 DEF Routes
<1>8. Sent(q, checked, o, device) = On(q, routed, o, Streams)
  BY DEF Sent, applyStreamVolumes, On
<1> HIDE DEF routed
<1>9. On(q, routed, o, Streams) \in S BY <1>7 DEF Stable
<1> HIDE DEF again
<1>10. SentIf(again, q, checked, o, device) \in S BY <1>4, <1>6, <1>8, <1>9, Zenon DEF SentIf
<1> QED BY <1>3, <1>10

\* Outputs that can be open: the duplicated one goes to the remote submix.
Routable == {o \in Outputs : o = "dup" => "submix" \in Profiles}

LEMMA RoutedKept ==
  ASSUME NEW S, NEW q, Stable(S, q), q.outputs \in Seq(Outputs), NEW wanted, RoutesTo(S, wanted),
         NEW m \in S, NEW o \in Routable, NEW force \in BOOLEAN
  PROVE  setOutputDevice(q, m, o, wanted, force) \in S
<1> DEFINE os == IF o = "dup" THEN <<"primary", "submix">> ELSE <<o>>
           Single == Outputs \ {"dup"}
           Op(n, p) == SetOne(q, n, p, wanted, force)
           step == [i \in DOMAIN os |-> [x \in S |-> Op(x, os[i])]]
           Def(f) == f = [u \in SUBSET DOMAIN os |->
                            IF u = {} THEN m ELSE Op(f[u \ {Max(u)}], os[Max(u)])]
           fold == CHOOSE f : Def(f)
<1>1. m \in S OBVIOUS
<1>2. ASSUME NEW n \in S, NEW p \in Single PROVE Op(n, p) \in S BY SetOneKept
<1>3. /\ DOMAIN os = 1..Len(os) /\ Len(os) \in Nat
      /\ \A i \in DOMAIN os : os[i] \in Single
  <2>1. CASE o = "dup"
    <3>1. os = <<"primary", "submix">> BY <2>1
    <3>2. "primary" \in Single /\ "submix" \in Single
      BY <2>1, ProfilesAssumption DEF Routable, Outputs
    <3> HIDE DEF os, Single
    <3> QED BY <3>1, <3>2
  <2>2. CASE o # "dup"
    <3>1. os = <<o>> BY <2>2
    <3>2. o \in Single BY <2>2 DEF Routable
    <3> HIDE DEF os, Single
    <3> QED BY <3>1, <3>2
  <2> QED BY <2>1, <2>2
<1> HIDE DEF os, Single, Op
<1>4. PICK g : Folded(g, DOMAIN os, Latest(DOMAIN os), S, m, step)
  <2>1. \A i \in DOMAIN os, x \in S : step[i][x] \in S BY <1>2, <1>3
  <2> HIDE DEF step
  <2> QED BY <1>1, <1>3, <2>1, SequenceFoldExists
<1>5. \A u \in SUBSET DOMAIN os : u # {} => Max(u) \in DOMAIN os BY <1>3, LatestChooses
<1>6. Def(g)
  <2>1. \A u \in SUBSET DOMAIN os : u # {} =>
          step[Max(u)][g[u \ {Max(u)}]] = Op(g[u \ {Max(u)}], os[Max(u)])
    BY <1>4, <1>5 DEF Folded
  <2>2. g = [u \in SUBSET DOMAIN os |-> g[u]] BY <1>4 DEF Folded
  <2> HIDE DEF step
  <2> QED BY <1>4, <2>1, <2>2 DEF Folded, Latest
<1>7. Def(fold) BY <1>6
<1>8. setOutputDevice(q, m, o, wanted, force) = fold[DOMAIN os]
  BY DEF setOutputDevice, FoldLeft, MapThenFoldSet, Op, os
<1> HIDE DEF fold
<1>9. fold[{}] \in S BY <1>1, <1>7
<1>10. \A u \in SUBSET DOMAIN os : u # {} /\ fold[u \ {Max(u)}] \in S => fold[u] \in S
  BY <1>2, <1>3, <1>5, <1>7
<1>11. fold[DOMAIN os] \in S BY <1>3, <1>9, <1>10, SequenceFoldKept
<1> QED BY <1>8, <1>11

LEMMA RouteAllKept ==
  ASSUME NEW S, NEW q, Stable(S, q), q.outputs \in Seq(Outputs),
         NEW table, \A o \in Routable : RoutesTo(S, getNewDevice(q, table, o)),
         NEW m \in S, NEW outputs \in Seq(Routable), NEW always \in BOOLEAN
  PROVE  RouteAll(q, table, m, outputs, always) \in S
<1> DEFINE os == outputs
           Op(n, o) == LET device == getNewDevice(q, table, o)
                       IN setOutputDevice(q, n, o, device, always \/ device # {})
           step == [i \in DOMAIN os |-> [x \in S |-> Op(x, os[i])]]
           Def(f) == f = [u \in SUBSET DOMAIN os |->
                            IF u = {} THEN m ELSE Op(f[u \ {Max(u)}], os[Max(u)])]
           fold == CHOOSE f : Def(f)
<1>1. m \in S OBVIOUS
<1>2. ASSUME NEW n \in S, NEW o \in Routable PROVE Op(n, o) \in S
  <2> DEFINE device == getNewDevice(q, table, o)
             force == always \/ device # {}
  <2>1. RoutesTo(S, device) /\ force \in BOOLEAN OBVIOUS
  <2> HIDE DEF device, force
  <2>2. setOutputDevice(q, n, o, device, force) \in S BY <2>1, RoutedKept
  <2> QED BY <2>2 DEF device, force
<1>3. /\ DOMAIN os = 1..Len(os) /\ Len(os) \in Nat
      /\ \A i \in DOMAIN os : os[i] \in Routable
  OBVIOUS
<1> HIDE DEF Op
<1>4. PICK g : Folded(g, DOMAIN os, Latest(DOMAIN os), S, m, step)
  <2>1. \A i \in DOMAIN os, x \in S : step[i][x] \in S BY <1>2, <1>3
  <2> HIDE DEF step
  <2> QED BY <1>1, <1>3, <2>1, SequenceFoldExists
<1>5. \A u \in SUBSET DOMAIN os : u # {} => Max(u) \in DOMAIN os BY <1>3, LatestChooses
<1>6. Def(g)
  <2>1. \A u \in SUBSET DOMAIN os : u # {} =>
          step[Max(u)][g[u \ {Max(u)}]] = Op(g[u \ {Max(u)}], os[Max(u)])
    BY <1>4, <1>5 DEF Folded
  <2>2. g = [u \in SUBSET DOMAIN os |-> g[u]] BY <1>4 DEF Folded
  <2> HIDE DEF step
  <2> QED BY <1>4, <2>1, <2>2 DEF Folded, Latest
<1>7. Def(fold) BY <1>6
<1>8. RouteAll(q, table, m, outputs, always) = fold[DOMAIN os]
  BY DEF RouteAll, FoldLeft, MapThenFoldSet, Op
<1> HIDE DEF fold
<1>9. fold[{}] \in S BY <1>1, <1>7
<1>10. \A u \in SUBSET DOMAIN os : u # {} /\ fold[u \ {Max(u)}] \in S => fold[u] \in S
  BY <1>2, <1>3, <1>5, <1>7
<1>11. fold[DOMAIN os] \in S BY <1>3, <1>9, <1>10, SequenceFoldKept
<1> QED BY <1>8, <1>11

LEMMA QuietedKept ==
  ASSUME NEW S, NEW q, Stable(S, q), q.outputs \in Seq(Outputs), NEW table, NEW m \in S
  PROVE  Quieted(q, table, m) \in S
<1> DEFINE os == q.outputs
           Op(n, o) == Pulsed(q, Pulsed(q, n, "MEDIA", o, table["MEDIA"]),
                              "SONIFICATION", o, table["SONIFICATION"])
           step == [i \in DOMAIN os |-> [x \in S |-> Op(x, os[i])]]
           Def(f) == f = [u \in SUBSET DOMAIN os |->
                            IF u = {} THEN m ELSE Op(f[u \ {Max(u)}], os[Max(u)])]
           fold == CHOOSE f : Def(f)
<1>1. m \in S OBVIOUS
<1>2. ASSUME NEW n \in S, NEW o \in Outputs PROVE Op(n, o) \in S
  <2> DEFINE r == Pulsed(q, n, "MEDIA", o, table["MEDIA"])
  <2>1. r \in S BY PulsedKept
  <2> HIDE DEF r
  <2>2. Pulsed(q, r, "SONIFICATION", o, table["SONIFICATION"]) \in S BY <2>1, PulsedKept
  <2> QED BY <2>2 DEF r
<1>3. /\ DOMAIN os = 1..Len(os) /\ Len(os) \in Nat
      /\ \A i \in DOMAIN os : os[i] \in Outputs
  OBVIOUS
<1> HIDE DEF Op
<1>4. PICK g : Folded(g, DOMAIN os, Latest(DOMAIN os), S, m, step)
  <2>1. \A i \in DOMAIN os, x \in S : step[i][x] \in S BY <1>2, <1>3
  <2> HIDE DEF step
  <2> QED BY <1>1, <1>3, <2>1, SequenceFoldExists
<1>5. \A u \in SUBSET DOMAIN os : u # {} => Max(u) \in DOMAIN os BY <1>3, LatestChooses
<1>6. Def(g)
  <2>1. \A u \in SUBSET DOMAIN os : u # {} =>
          step[Max(u)][g[u \ {Max(u)}]] = Op(g[u \ {Max(u)}], os[Max(u)])
    BY <1>4, <1>5 DEF Folded
  <2>2. g = [u \in SUBSET DOMAIN os |-> g[u]] BY <1>4 DEF Folded
  <2> HIDE DEF step
  <2> QED BY <1>4, <2>1, <2>2 DEF Folded, Latest
<1>7. Def(fold) BY <1>6
<1>8. Quieted(q, table, m) = fold[DOMAIN os]
  BY DEF Quieted, FoldLeft, MapThenFoldSet, Op
<1> HIDE DEF fold
<1>9. fold[{}] \in S BY <1>1, <1>7
<1>10. \A u \in SUBSET DOMAIN os : u # {} /\ fold[u \ {Max(u)}] \in S => fold[u] \in S
  BY <1>2, <1>3, <1>5, <1>7
<1>11. fold[DOMAIN os] \in S BY <1>3, <1>9, <1>10, SequenceFoldKept
<1> QED BY <1>8, <1>11

LEMMA RestoredKept ==
  ASSUME NEW S, NEW q, Stable(S, q), q.outputs \in Seq(Routable),
         \A p \in Routable : RoutesTo(S, getNewDevice(q, Fresh(q), p)),
         NEW o, NEW device, NEW m \in S
  PROVE  Restored(q, o, device, m) \in S
<1> DEFINE os == q.outputs
           Op(n, p) ==
             IF p # o /\ isActive(q, p) /\ SharesModule(o, p) /\ device # DeviceOf(n, p)
             THEN setOutputDevice(q, n, p, getNewDevice(q, Fresh(q), p), TRUE) ELSE n
           step == [i \in DOMAIN os |-> [x \in S |-> Op(x, os[i])]]
           Def(f) == f = [u \in SUBSET DOMAIN os |->
                            IF u = {} THEN m ELSE Op(f[u \ {Max(u)}], os[Max(u)])]
           fold == CHOOSE f : Def(f)
<1>1. m \in S /\ q.outputs \in Seq(Outputs) BY DEF Routable
<1>2. ASSUME NEW n \in S, NEW p \in Routable PROVE Op(n, p) \in S
  <2>1. setOutputDevice(q, n, p, getNewDevice(q, Fresh(q), p), TRUE) \in S BY <1>1, RoutedKept, Zenon
  <2> QED BY <2>1, Zenon
<1>3. /\ DOMAIN os = 1..Len(os) /\ Len(os) \in Nat
      /\ \A i \in DOMAIN os : os[i] \in Routable
  OBVIOUS
<1> HIDE DEF Op
<1>4. PICK g : Folded(g, DOMAIN os, Latest(DOMAIN os), S, m, step)
  <2>1. \A i \in DOMAIN os, x \in S : step[i][x] \in S BY <1>2, <1>3
  <2> HIDE DEF step
  <2> QED BY <1>1, <1>3, <2>1, SequenceFoldExists
<1>5. \A u \in SUBSET DOMAIN os : u # {} => Max(u) \in DOMAIN os BY <1>3, LatestChooses
<1>6. Def(g)
  <2>1. \A u \in SUBSET DOMAIN os : u # {} =>
          step[Max(u)][g[u \ {Max(u)}]] = Op(g[u \ {Max(u)}], os[Max(u)])
    BY <1>4, <1>5 DEF Folded
  <2>2. g = [u \in SUBSET DOMAIN os |-> g[u]] BY <1>4 DEF Folded
  <2> HIDE DEF step
  <2> QED BY <1>4, <2>1, <2>2 DEF Folded, Latest
<1>7. Def(fold) BY <1>6
<1>8. Restored(q, o, device, m) = fold[DOMAIN os]
  BY DEF Restored, FoldLeft, MapThenFoldSet, Op
<1> HIDE DEF fold
<1>9. fold[{}] \in S BY <1>1, <1>7
<1>10. \A u \in SUBSET DOMAIN os : u # {} /\ fold[u \ {Max(u)}] \in S => fold[u] \in S
  BY <1>2, <1>3, <1>5, <1>7
<1>11. fold[DOMAIN os] \in S BY <1>3, <1>9, <1>10, SequenceFoldKept
<1> QED BY <1>8, <1>11

\* What setForceUse() does for one output.
ReroutedOne(q, table, u, n, o) ==
  LET device == getNewDevice(q, table, o)
      set == setOutputDevice(q, n, o, device, device # {})
  IN IF u \in {"COMMUNICATION", "DOCK", "SYSTEM"} /\ device # {}
     THEN applyStreamVolumes(q, set, o) ELSE set

LEMMA ReroutedOneKept ==
  ASSUME NEW S, NEW q, Stable(S, q), q.outputs \in Seq(Outputs), NEW use,
         NEW table, \A o \in Routable : RoutesTo(S, getNewDevice(q, table, o)),
         NEW n \in S, NEW o \in Routable
  PROVE  ReroutedOne(q, table, use, n, o) \in S
<1> DEFINE device == getNewDevice(q, table, o)
           force == device # {}
           set == setOutputDevice(q, n, o, device, force)
<1>1. RoutesTo(S, device) /\ force \in BOOLEAN OBVIOUS
<1>2. ReroutedOne(q, table, use, n, o) \in {set, On(q, set, o, Streams)}
  BY DEF ReroutedOne, On, applyStreamVolumes
<1> HIDE DEF device, force
<1>3. set \in S BY <1>1, RoutedKept
<1> HIDE DEF set
<1>4. On(q, set, o, Streams) \in S BY <1>3 DEF Stable, Routable
<1> QED BY <1>2, <1>3, <1>4

\* K[u] is what holds once the outputs at the places u have been rerouted.
LEMMA ReroutedReaches ==
  ASSUME NEW S, NEW q, Stable(S, q), q.outputs \in Seq(Routable), NEW use,
         NEW table, \A o \in Routable : RoutesTo(S, getNewDevice(q, table, o)),
         NEW os, os = Reverse(q.outputs), NEW m \in S, NEW K, m \in K[{}],
         \A u \in SUBSET DOMAIN os : \A n : u # {} /\ n \in K[u \ {Max(u)}] =>
           ReroutedOne(q, table, use, n, os[Max(u)]) \in K[u]
  PROVE  Rerouted(q, table, use, m) \in K[DOMAIN os]
<1> DEFINE Op(n, o) == ReroutedOne(q, table, use, n, o)
           step == [i \in DOMAIN os |-> [x \in S |-> Op(x, os[i])]]
           Def(f) == f = [u \in SUBSET DOMAIN os |->
                            IF u = {} THEN m ELSE Op(f[u \ {Max(u)}], os[Max(u)])]
           fold == CHOOSE f : Def(f)
<1>1. m \in S /\ q.outputs \in Seq(Outputs) BY DEF Routable
<1>2. ASSUME NEW n \in S, NEW o \in Routable PROVE Op(n, o) \in S BY <1>1, ReroutedOneKept
<1>3. /\ DOMAIN os = 1..Len(os) /\ Len(os) \in Nat
      /\ \A i \in DOMAIN os : os[i] \in Routable
  BY DEF Reverse
<1> HIDE DEF Op
<1>4. PICK g : Folded(g, DOMAIN os, Latest(DOMAIN os), S, m, step)
  <2>1. \A i \in DOMAIN os, x \in S : step[i][x] \in S BY <1>2, <1>3
  <2> HIDE DEF step
  <2> QED BY <1>1, <1>3, <2>1, SequenceFoldExists
<1>5. \A u \in SUBSET DOMAIN os : u # {} => Max(u) \in DOMAIN os BY <1>3, LatestChooses
<1>6. Def(g)
  <2>1. \A u \in SUBSET DOMAIN os : u # {} =>
          step[Max(u)][g[u \ {Max(u)}]] = Op(g[u \ {Max(u)}], os[Max(u)])
    BY <1>4, <1>5 DEF Folded
  <2>2. g = [u \in SUBSET DOMAIN os |-> g[u]] BY <1>4 DEF Folded
  <2> HIDE DEF step
  <2> QED BY <1>4, <2>1, <2>2 DEF Folded, Latest
<1>7. Def(fold) BY <1>6
<1>8. Rerouted(q, table, use, m) = fold[DOMAIN os]
  BY DEF Rerouted, ReroutedOne, FoldLeft, MapThenFoldSet, Op
<1> HIDE DEF fold
<1>9. fold[{}] = m BY <1>7
<1>10. \A u \in SUBSET DOMAIN os : u # {} =>
         fold[u] = Op(fold[u \ {Max(u)}], os[Max(u)])
  BY <1>7
<1> DEFINE X == {u \in SUBSET DOMAIN os : fold[u] \in K[u]}
<1>11. {} \in X BY <1>9
<1>12. \A u \in SUBSET DOMAIN os : u # {} /\ u \ {Max(u)} \in X => u \in X
  <2> SUFFICES ASSUME NEW u \in SUBSET DOMAIN os, u # {}, fold[u \ {Max(u)}] \in K[u \ {Max(u)}]
               PROVE  fold[u] \in K[u]
    OBVIOUS
  <2> DEFINE n == fold[u \ {Max(u)}]
  <2>1. n \in K[u \ {Max(u)}] OBVIOUS
  <2>2. fold[u] = ReroutedOne(q, table, use, n, os[Max(u)]) BY <1>10 DEF Op
  <2> HIDE DEF n
  <2>3. ReroutedOne(q, table, use, n, os[Max(u)]) \in K[u] BY <2>1, Zenon
  <2> QED BY <2>2, <2>3
<1> HIDE DEF X
<1>13. DOMAIN os \in X BY <1>3, <1>11, <1>12, SequenceFoldReaches
<1> QED BY <1>8, <1>13 DEF X

LEMMA ReroutedKept ==
  ASSUME NEW S, NEW q, Stable(S, q), q.outputs \in Seq(Routable), NEW use,
         NEW table, \A o \in Routable : RoutesTo(S, getNewDevice(q, table, o)),
         NEW m \in S
  PROVE  Rerouted(q, table, use, m) \in S
<1> DEFINE os == Reverse(q.outputs)
           K == [u \in SUBSET DOMAIN os |-> S]
<1>1. m \in K[{}] OBVIOUS
<1>2. q.outputs \in Seq(Outputs) BY DEF Routable
<1>3. /\ DOMAIN os = 1..Len(os) /\ Len(os) \in Nat
      /\ \A i \in DOMAIN os : os[i] \in Routable
  BY DEF Reverse
<1> HIDE DEF os
<1>4. \A u \in SUBSET DOMAIN os : u # {} => Max(u) \in DOMAIN os BY <1>3, LatestChooses
<1>5. ASSUME NEW u \in SUBSET DOMAIN os, NEW n, u # {}, n \in K[u \ {Max(u)}]
      PROVE  ReroutedOne(q, table, use, n, os[Max(u)]) \in K[u]
  <2>1. n \in S /\ os[Max(u)] \in Routable BY <1>3, <1>4, <1>5
  <2> QED BY <1>2, <2>1, ReroutedOneKept
<1>6. K[DOMAIN os] = S OBVIOUS
<1> HIDE DEF K
<1>7. os = Reverse(q.outputs) BY DEF os
<1>8. Rerouted(q, table, use, m) \in K[DOMAIN os] BY <1>1, <1>5, <1>7, ReroutedReaches
<1> QED BY <1>6, <1>8

LEMMA IncallKept ==
  ASSUME NEW S, NEW q, Stable(S, q), NEW m \in S, NEW starting \in BOOLEAN,
         NEW times \in Nat, times > 0 => "RING" \in Streams
  PROVE  handleIncallSonification(q, m, starting, times) \in S
<1> DEFINE T == 1..times
           Op(n, i) == IF starting THEN Muted(q, n, "primary", {"RING"})
                       ELSE Unmuted(q, n, "primary", {"RING"}, DeviceOf(n, "primary"))
           step == [i \in T |-> [x \in S |-> Op(x, i)]]
           Def(f) == f = [u \in SUBSET T |->
                            IF u = {} THEN m
                            ELSE Op(f[u \ {CHOOSE x \in u : TRUE}], CHOOSE x \in u : TRUE)]
           fold == CHOOSE f : Def(f)
<1>1. m \in S OBVIOUS
<1>2. ASSUME NEW n \in S, NEW i \in T PROVE Op(n, i) \in S
  <2>1. {"RING"} \in SUBSET Streams OBVIOUS
  <2>2. "primary" \in Outputs BY ProfilesAssumption DEF Outputs
  <2>3. /\ Muted(q, n, "primary", {"RING"}) \in S
        /\ Unmuted(q, n, "primary", {"RING"}, DeviceOf(n, "primary")) \in S
    BY <2>1, <2>2 DEF Stable
  <2> QED BY <2>3
<1>3. IsFiniteSet(T) BY FS_Interval
<1> HIDE DEF T, Op
<1>4. PICK g : Folded(g, T, AnyOf(T), S, m, step)
  <2>1. \A i \in T, x \in S : step[i][x] \in S BY <1>2
  <2> HIDE DEF step
  <2> QED BY <1>1, <1>3, <2>1, SetFoldExists
<1>5. \A u \in SUBSET T : u # {} => (CHOOSE x \in u : TRUE) \in T OBVIOUS
<1>6. Def(g)
  <2>1. \A u \in SUBSET T : u # {} =>
          step[CHOOSE x \in u : TRUE][g[u \ {CHOOSE x \in u : TRUE}]]
            = Op(g[u \ {CHOOSE x \in u : TRUE}], CHOOSE x \in u : TRUE)
    BY <1>4, <1>5 DEF Folded
  <2>2. g = [u \in SUBSET T |-> g[u]] BY <1>4 DEF Folded
  <2> HIDE DEF step
  <2> QED BY <1>4, <2>1, <2>2 DEF Folded, AnyOf
<1>7. Def(fold) BY <1>6
<1>8. handleIncallSonification(q, m, starting, times) = fold[T]
  BY DEF handleIncallSonification, FoldSet, MapThenFoldSet, Op, T
<1> HIDE DEF fold
<1>9. fold[{}] \in S BY <1>1, <1>7
<1>10. \A u \in SUBSET T : u # {} /\ fold[u \ {CHOOSE x \in u : TRUE}] \in S => fold[u] \in S
  BY <1>2, <1>5, <1>7
<1>11. fold[T] \in S BY <1>3, <1>9, <1>10, SetFoldKept
<1> QED BY <1>8, <1>11

LEMMA OpenedKept ==
  ASSUME NEW S, NEW m \in S, NEW os, IsFiniteSet(os), NEW device,
         \A n \in S, o \in os : OpenedOne(n, o, device) \in S
  PROVE  Opened(m, os, device) \in S
<1> DEFINE T == os
           Op(n, o) == OpenedOne(n, o, device)
           step == [i \in T |-> [x \in S |-> Op(x, i)]]
           Def(f) == f = [u \in SUBSET T |->
                            IF u = {} THEN m
                            ELSE Op(f[u \ {CHOOSE x \in u : TRUE}], CHOOSE x \in u : TRUE)]
           fold == CHOOSE f : Def(f)
<1>1. m \in S OBVIOUS
<1>2. ASSUME NEW n \in S, NEW o \in T PROVE Op(n, o) \in S OBVIOUS
<1>3. IsFiniteSet(T) OBVIOUS
<1> HIDE DEF Op
<1>4. PICK g : Folded(g, T, AnyOf(T), S, m, step)
  <2>1. \A i \in T, x \in S : step[i][x] \in S BY <1>2
  <2> HIDE DEF step
  <2> QED BY <1>1, <1>3, <2>1, SetFoldExists
<1>5. \A u \in SUBSET T : u # {} => (CHOOSE x \in u : TRUE) \in T OBVIOUS
<1>6. Def(g)
  <2>1. \A u \in SUBSET T : u # {} =>
          step[CHOOSE x \in u : TRUE][g[u \ {CHOOSE x \in u : TRUE}]]
            = Op(g[u \ {CHOOSE x \in u : TRUE}], CHOOSE x \in u : TRUE)
    BY <1>4, <1>5 DEF Folded
  <2>2. g = [u \in SUBSET T |-> g[u]] BY <1>4 DEF Folded
  <2> HIDE DEF step
  <2> QED BY <1>4, <2>1, <2>2 DEF Folded, AnyOf
<1>7. Def(fold) BY <1>6
<1>8. Opened(m, os, device) = fold[T]
  BY DEF Opened, OpenedOne, FoldSet, MapThenFoldSet, Op
<1> HIDE DEF fold
<1>9. fold[{}] \in S BY <1>1, <1>7
<1>10. \A u \in SUBSET T : u # {} /\ fold[u \ {CHOOSE x \in u : TRUE}] \in S => fold[u] \in S
  BY <1>2, <1>5, <1>7
<1>11. fold[T] \in S BY <1>3, <1>9, <1>10, SetFoldKept
<1> QED BY <1>8, <1>11

LEMMA VolumeSetKept ==
  ASSUME NEW S, Stable(S, cond), cond.outputs \in Seq(Outputs), mix \in S,
         NEW s \in Streams, NEW device
  PROVE  VolumeSet(s, device) \in S
<1> DEFINE os == cond.outputs
           Op(n, o) == IF device = VolumeDevice(o)
                       THEN checkAndSetVolume(cond, n, o, {s}, FALSE) ELSE n
           step == [i \in DOMAIN os |-> [x \in S |-> Op(x, os[i])]]
           Def(f) == f = [u \in SUBSET DOMAIN os |->
                            IF u = {} THEN mix ELSE Op(f[u \ {Max(u)}], os[Max(u)])]
           fold == CHOOSE f : Def(f)
<1>1. mix \in S OBVIOUS
<1>2. ASSUME NEW n \in S, NEW o \in Outputs PROVE Op(n, o) \in S
  <2>1. {s} \in SUBSET Streams OBVIOUS
  <2>2. On(cond, n, o, {s}) \in S BY <2>1 DEF Stable
  <2> QED BY <2>2 DEF On
<1>3. /\ DOMAIN os = 1..Len(os) /\ Len(os) \in Nat
      /\ \A i \in DOMAIN os : os[i] \in Outputs
  OBVIOUS
<1> HIDE DEF Op
<1>4. PICK g : Folded(g, DOMAIN os, Latest(DOMAIN os), S, mix, step)
  <2>1. \A i \in DOMAIN os, x \in S : step[i][x] \in S BY <1>2, <1>3
  <2> HIDE DEF step
  <2> QED BY <1>1, <1>3, <2>1, SequenceFoldExists
<1>5. \A u \in SUBSET DOMAIN os : u # {} => Max(u) \in DOMAIN os BY <1>3, LatestChooses
<1>6. Def(g)
  <2>1. \A u \in SUBSET DOMAIN os : u # {} =>
          step[Max(u)][g[u \ {Max(u)}]] = Op(g[u \ {Max(u)}], os[Max(u)])
    BY <1>4, <1>5 DEF Folded
  <2>2. g = [u \in SUBSET DOMAIN os |-> g[u]] BY <1>4 DEF Folded
  <2> HIDE DEF step
  <2> QED BY <1>4, <2>1, <2>2 DEF Folded, Latest
<1>7. Def(fold) BY <1>6
<1>8. VolumeSet(s, device) = fold[DOMAIN os]
  BY DEF VolumeSet, FoldLeft, MapThenFoldSet, Op
<1> HIDE DEF fold
<1>9. fold[{}] \in S BY <1>1, <1>7
<1>10. \A u \in SUBSET DOMAIN os : u # {} /\ fold[u \ {Max(u)}] \in S => fold[u] \in S
  BY <1>2, <1>3, <1>5, <1>7
<1>11. fold[DOMAIN os] \in S BY <1>3, <1>9, <1>10, SequenceFoldKept
<1> QED BY <1>8, <1>11

-----------------------------------------------------------------------------
(* Two stable sets of mixes.                                                 *)

Voice == {"VOICE_CALL", "BLUETOOTH_SCO"}
\* What is muted is silent, and what is not muted is heard if loud says so.
Heard(loud) ==
  {m \in Mixes : \A o \in Outputs, s \in Streams :
     /\ m.mutes[o][s] > 0 /\ s \notin Voice \cup {"ENFORCED_AUDIBLE"} => s \in m.silent[o]
     /\ m.mutes[o][s] = 0 /\ s \in loud[o] => s \notin m.silent[o]}

\* A mix that differs in one field.
PlacedOn(m, o, device) == [m EXCEPT !.device[o] = device]
FlaggedOn(m, o, ts) == [m EXCEPT !.byDevice[o] = ts]
SentTo(m, device) == [m EXCEPT !.routed = device]

LEMMA PlacedSets ==
  ASSUME NEW m \in Mixes, NEW o \in Outputs, NEW device \in SUBSET OutDevices
  PROVE  /\ PlacedOn(m, o, device) \in Mixes
         /\ PlacedOn(m, o, device).mutes = m.mutes /\ PlacedOn(m, o, device).silent = m.silent
         /\ PlacedOn(m, o, device).routed = m.routed
         /\ \A p \in Outputs : PlacedOn(m, o, device).device[p] =
                               IF p = o THEN device ELSE m.device[p]
BY DEF Mixes, PlacedOn

LEMMA FlaggedSets ==
  ASSUME NEW m \in Mixes, NEW o \in Outputs, NEW ts \in SUBSET Strategies
  PROVE  /\ FlaggedOn(m, o, ts) \in Mixes
         /\ FlaggedOn(m, o, ts).mutes = m.mutes /\ FlaggedOn(m, o, ts).silent = m.silent
         /\ FlaggedOn(m, o, ts).routed = m.routed /\ FlaggedOn(m, o, ts).device = m.device
BY DEF Mixes, FlaggedOn

LEMMA SentSets ==
  ASSUME NEW m \in Mixes, NEW device \in SUBSET OutDevices
  PROVE  /\ SentTo(m, device) \in Mixes
         /\ SentTo(m, device).mutes = m.mutes /\ SentTo(m, device).silent = m.silent
         /\ SentTo(m, device).routed = device /\ SentTo(m, device).device = m.device
BY DEF Mixes, SentTo

LEMMA OpenedSets ==
  ASSUME NEW m \in Mixes, NEW o \in Outputs, NEW device \in SUBSET OutDevices
  PROVE  /\ OpenedOne(m, o, device) \in Mixes /\ OpenedOne(m, o, device).routed = m.routed
         /\ \A p \in Outputs, s \in Streams :
              OpenedOne(m, o, device).mutes[p][s] = IF p = o THEN 0 ELSE m.mutes[p][s]
         /\ \A p \in Outputs :
              /\ OpenedOne(m, o, device).silent[p] = IF p = o THEN {} ELSE m.silent[p]
              /\ OpenedOne(m, o, device).device[p] = IF p = o THEN device ELSE m.device[p]
<1> DEFINE r == OpenedOne(m, o, device)
<1>1. /\ r \in [device : [Outputs -> SUBSET OutDevices], byDevice : [Outputs -> SUBSET Strategies],
                mutes : [Outputs -> [Streams -> Nat]], silent : [Outputs -> SUBSET Streams],
                routed : SUBSET OutDevices]
      /\ r.mutes = [m.mutes EXCEPT ![o] = [s \in Streams |-> 0]]
      /\ r.silent = [m.silent EXCEPT ![o] = {}]
      /\ r.device = [m.device EXCEPT ![o] = device]
      /\ r.routed = m.routed
  BY DEF OpenedOne, Mixes
<1> HIDE DEF r
<1>2. /\ m.mutes \in [Outputs -> [Streams -> Nat]] /\ m.silent \in [Outputs -> SUBSET Streams]
      /\ m.device \in [Outputs -> SUBSET OutDevices]
  BY DEF Mixes
<1> QED BY <1>1, <1>2 DEF Mixes, r

\* Whoever is to be heard may have a volume.
Audible(q, loud) == \A o \in Outputs, s \in Streams : s \in loud[o] => ~Refused(q, s)

LEMMA MutedHeard ==
  ASSUME NEW q, NEW loud, NEW m \in Heard(loud), NEW o \in Outputs, NEW streams \in SUBSET Streams
  PROVE  Muted(q, m, o, streams) \in Heard(loud)
<1> DEFINE r == Muted(q, m, o, streams)
<1>1. CountedUp(q, m, o, streams, r) BY MutedSets DEF Heard
<1> HIDE DEF r
<1> SUFFICES ASSUME NEW p \in Outputs, NEW s \in Streams
             PROVE  /\ r.mutes[p][s] > 0 /\ s \notin Voice \cup {"ENFORCED_AUDIBLE"} => s \in r.silent[p]
                    /\ r.mutes[p][s] = 0 /\ s \in loud[p] => s \notin r.silent[p]
  BY <1>1 DEF Heard, CountedUp, r
<1>2. /\ m.mutes[p][s] > 0 /\ s \notin Voice \cup {"ENFORCED_AUDIBLE"} => s \in m.silent[p]
      /\ m.mutes[p][s] = 0 /\ s \in loud[p] => s \notin m.silent[p]
      /\ m.mutes[p][s] \in Nat
  BY DEF Heard, Mixes
<1>3. CASE p = o /\ s \in streams
  <2>1. r.mutes[p][s] = m.mutes[p][s] + 1 BY <1>1, <1>3 DEF CountedUp
  <2>2. r.silent[p] = m.silent[p] \cup Free(q, m, o, Allowed(q, streams)) BY <1>1, <1>3 DEF CountedUp
  <2>3. s \notin Voice \cup {"ENFORCED_AUDIBLE"} /\ m.mutes[p][s] = 0
          => s \in Free(q, m, o, Allowed(q, streams))
    BY <1>3 DEF Free, Allowed, Refused, Voice
  <2> QED BY <1>2, <2>1, <2>2, <2>3
<1>4. CASE ~(p = o /\ s \in streams)
  <2>1. r.mutes[p][s] = m.mutes[p][s] BY <1>1, <1>4 DEF CountedUp
  <2>2. s \in r.silent[p] <=> s \in m.silent[p] BY <1>1, <1>4 DEF CountedUp, Free, Allowed
  <2> QED BY <1>2, <2>1, <2>2
<1> QED BY <1>3, <1>4

LEMMA OnHeard ==
  ASSUME NEW q, NEW loud, Audible(q, loud), NEW m \in Heard(loud), NEW o \in Outputs,
         NEW streams \in SUBSET Streams
  PROVE  On(q, m, o, streams) \in Heard(loud)
<1> DEFINE r == On(q, m, o, streams)
<1>1. Sounded(q, m, o, streams, r) BY VolumeOn DEF Heard
<1> HIDE DEF r
<1> SUFFICES ASSUME NEW p \in Outputs, NEW s \in Streams
             PROVE  /\ r.mutes[p][s] > 0 /\ s \notin Voice \cup {"ENFORCED_AUDIBLE"} => s \in r.silent[p]
                    /\ r.mutes[p][s] = 0 /\ s \in loud[p] => s \notin r.silent[p]
  BY <1>1 DEF Heard, Sounded, r
<1>2. /\ m.mutes[p][s] > 0 /\ s \notin Voice \cup {"ENFORCED_AUDIBLE"} => s \in m.silent[p]
      /\ m.mutes[p][s] = 0 /\ s \in loud[p] => s \notin m.silent[p]
      /\ m.mutes[p][s] \in Nat
  BY DEF Heard, Mixes
<1>3. r.mutes[p][s] = m.mutes[p][s] BY <1>1 DEF Sounded
<1>4. m.mutes[p][s] > 0 => (s \in r.silent[p] <=> s \in m.silent[p])
  <2>1. p # o => r.silent[p] = m.silent[p] BY <1>1 DEF Sounded
  <2>2. p = o => r.silent[p] = m.silent[p] \ Free(q, m, o, streams) BY <1>1 DEF Sounded
  <2>3. p = o /\ m.mutes[p][s] > 0 => s \notin Free(q, m, o, streams) BY <1>2 DEF Free
  <2> QED BY <2>1, <2>2, <2>3
<1>5. s \in r.silent[p] => s \in m.silent[p] BY <1>1 DEF Sounded
<1> QED BY <1>2, <1>3, <1>4, <1>5

LEMMA UnmutedHeard ==
  ASSUME NEW q, NEW loud, Audible(q, loud), NEW m \in Heard(loud), NEW o \in Outputs,
         NEW streams \in SUBSET Streams, NEW device
  PROVE  Unmuted(q, m, o, streams, device) \in Heard(loud)
<1> DEFINE r == Unmuted(q, m, o, streams, device)
           muted == {s \in streams : m.mutes[o][s] > 0}
<1>1. CountedDown(q, m, o, muted, r) BY UnmutedSets DEF Heard
<1> HIDE DEF r, muted
<1> SUFFICES ASSUME NEW p \in Outputs, NEW s \in Streams
             PROVE  /\ r.mutes[p][s] > 0 /\ s \notin Voice \cup {"ENFORCED_AUDIBLE"} => s \in r.silent[p]
                    /\ r.mutes[p][s] = 0 /\ s \in loud[p] => s \notin r.silent[p]
  BY <1>1 DEF Heard, CountedDown, r
<1>2. /\ m.mutes[p][s] > 0 /\ s \notin Voice \cup {"ENFORCED_AUDIBLE"} => s \in m.silent[p]
      /\ m.mutes[p][s] = 0 /\ s \in loud[p] => s \notin m.silent[p]
      /\ m.mutes[p][s] \in Nat /\ r.mutes[p][s] \in Nat
      /\ s \in loud[p] => ~Refused(q, s)
  BY <1>1 DEF Heard, Mixes, Audible, CountedDown
<1>3. CASE p = o /\ s \in muted
  <2>1. m.mutes[p][s] > 0 BY <1>3 DEF muted
  <2>2. r.silent[p] = m.silent[p] \ Free(q, r, o, muted) BY <1>1, <1>3 DEF CountedDown
  <2>3. s \in Free(q, r, o, muted) <=> r.mutes[p][s] = 0 /\ ~Refused(q, s) BY <1>3 DEF Free
  <2> QED BY <1>2, <2>1, <2>2, <2>3
<1>4. CASE ~(p = o /\ s \in muted)
  <2>1. r.mutes[p][s] = m.mutes[p][s] BY <1>1, <1>4 DEF CountedDown
  <2>2. s \in r.silent[p] <=> s \in m.silent[p] BY <1>1, <1>4 DEF CountedDown, Free
  <2> QED BY <1>2, <2>1, <2>2
<1> QED BY <1>3, <1>4

\* What is to be heard stays so, on any route.
LEMMA HeardStable ==
  ASSUME NEW q, NEW loud, Audible(q, loud)
  PROVE  /\ Stable(Heard(loud), q)
         /\ \A device \in SUBSET OutDevices : Routes(Heard(loud), device)
         /\ \A wanted : RoutesTo(Heard(loud), wanted)
<1>1. Heard(loud) \subseteq Mixes BY DEF Heard
<1>2. ASSUME NEW m \in Heard(loud), NEW o \in Outputs, NEW streams \in SUBSET Streams
      PROVE  /\ Muted(q, m, o, streams) \in Heard(loud)
             /\ On(q, m, o, streams) \in Heard(loud)
             /\ \A device : Unmuted(q, m, o, streams, device) \in Heard(loud)
  BY MutedHeard, OnHeard, UnmutedHeard
<1>3. ASSUME NEW m \in Heard(loud), NEW r \in Mixes, r.mutes = m.mutes, r.silent = m.silent
      PROVE  r \in Heard(loud)
  BY <1>3 DEF Heard
<1>4. ASSUME NEW m \in Heard(loud), NEW o \in Outputs
      PROVE  /\ \A device \in SUBSET OutDevices : [m EXCEPT !.device[o] = device] \in Heard(loud)
             /\ \A ts \in SUBSET Strategies : [m EXCEPT !.byDevice[o] = ts] \in Heard(loud)
             /\ \A device \in SUBSET OutDevices : [m EXCEPT !.routed = device] \in Heard(loud)
  <2>1. m \in Mixes BY <1>1
  <2>2. ASSUME NEW device \in SUBSET OutDevices PROVE [m EXCEPT !.device[o] = device] \in Heard(loud)
    <3> DEFINE r == PlacedOn(m, o, device)
    <3>1. r \in Mixes /\ r.mutes = m.mutes /\ r.silent = m.silent BY <2>1, PlacedSets
    <3> HIDE DEF r
    <3>2. r \in Heard(loud) BY <1>3, <3>1
    <3> QED BY <3>2 DEF r, PlacedOn
  <2>3. ASSUME NEW ts \in SUBSET Strategies PROVE [m EXCEPT !.byDevice[o] = ts] \in Heard(loud)
    <3> DEFINE r == FlaggedOn(m, o, ts)
    <3>1. r \in Mixes /\ r.mutes = m.mutes /\ r.silent = m.silent BY <2>1, FlaggedSets
    <3> HIDE DEF r
    <3>2. r \in Heard(loud) BY <1>3, <3>1
    <3> QED BY <3>2 DEF r, FlaggedOn
  <2>4. ASSUME NEW device \in SUBSET OutDevices PROVE [m EXCEPT !.routed = device] \in Heard(loud)
    <3> DEFINE r == SentTo(m, device)
    <3>1. r \in Mixes /\ r.mutes = m.mutes /\ r.silent = m.silent BY <2>1, SentSets
    <3> HIDE DEF r
    <3>2. r \in Heard(loud) BY <1>3, <3>1
    <3> QED BY <3>2 DEF r, SentTo
  <2> QED BY <2>2, <2>3, <2>4
<1>5. Stable(Heard(loud), q) BY <1>1, <1>2, <1>4, Zenon DEF Stable
<1>6. "primary" \in Outputs BY ProfilesAssumption DEF Outputs
<1>7. \A device \in SUBSET OutDevices : Routes(Heard(loud), device) BY <1>4, <1>6, Zenon DEF Routes
<1>8. ASSUME NEW wanted PROVE RoutesTo(Heard(loud), wanted)
  <2>1. \A o \in Outputs : wanted \cap Supported(o) \in SUBSET OutDevices BY SupportedDevices
  <2>2. \A m \in Heard(loud) :
          [m EXCEPT !.device["primary"] = wanted \cap Supported("primary")] \in Heard(loud)
    BY <1>4, <1>6, <2>1, Zenon
  <2> QED BY <1>7, <2>1, <2>2 DEF RoutesTo
<1> QED BY <1>5, <1>7, <1>8

\* An output that has just been opened is not silent.
LEMMA OpenedHeard ==
  ASSUME NEW loud, NEW m \in Heard(loud), NEW os \in SUBSET Outputs, IsFiniteSet(os),
         NEW device \in SUBSET OutDevices
  PROVE  Opened(m, os, device) \in Heard(loud)
<1>1. ASSUME NEW n \in Heard(loud), NEW o \in os PROVE OpenedOne(n, o, device) \in Heard(loud)
  <2> DEFINE r == OpenedOne(n, o, device)
  <2>1. n \in Mixes BY DEF Heard
  <2>2. /\ r \in Mixes
        /\ \A p \in Outputs, s \in Streams : r.mutes[p][s] = IF p = o THEN 0 ELSE n.mutes[p][s]
        /\ \A p \in Outputs : r.silent[p] = IF p = o THEN {} ELSE n.silent[p]
    BY <2>1, OpenedSets
  <2> HIDE DEF r
  <2>3. r \in Heard(loud) BY <2>2 DEF Heard
  <2> QED BY <2>3 DEF r
<1> QED BY <1>1, OpenedKept

-----------------------------------------------------------------------------
(* The device of the primary module.                                         *)

RoutedIn(T) == {m \in Mixes : m.routed \in T}
\* The device of the primary output is among A.
PlacedIn(A) == {m \in Mixes : m.device["primary"] \subseteq A}

\* Nothing but setOutputDevice() changes the devices of the primary output and
\* module.
LEMMA DevicesStable ==
  ASSUME NEW q, NEW S \in SUBSET Mixes,
         \A m \in S, r \in Mixes :
           r.routed = m.routed /\ r.device["primary"] = m.device["primary"] => r \in S
  PROVE  Stable(S, q)
<1>1. S \subseteq Mixes OBVIOUS
<1>2. "primary" \in Outputs BY ProfilesAssumption DEF Outputs
<1>3. ASSUME NEW m \in S, NEW o \in Outputs, NEW streams \in SUBSET Streams
      PROVE  /\ Muted(q, m, o, streams) \in S
             /\ On(q, m, o, streams) \in S
             /\ \A device : Unmuted(q, m, o, streams, device) \in S
  <2>1. m \in Mixes BY <1>1
  <2>2. Muted(q, m, o, streams) \in S
    <3>1. CountedUp(q, m, o, streams, Muted(q, m, o, streams)) BY <2>1, MutedSets
    <3> QED BY <3>1 DEF CountedUp
  <2>3. On(q, m, o, streams) \in S
    <3>1. Sounded(q, m, o, streams, On(q, m, o, streams)) BY <2>1, VolumeOn
    <3> QED BY <3>1 DEF Sounded
  <2>4. ASSUME NEW device PROVE Unmuted(q, m, o, streams, device) \in S
    <3> DEFINE muted == {s \in streams : m.mutes[o][s] > 0}
    <3>1. CountedDown(q, m, o, muted, Unmuted(q, m, o, streams, device)) BY <2>1, UnmutedSets
    <3> HIDE DEF muted
    <3> QED BY <3>1 DEF CountedDown
  <2> QED BY <2>2, <2>3, <2>4
<1>4. ASSUME NEW m \in S, NEW o \in Outputs
      PROVE  /\ o # "primary" =>
                  \A device \in SUBSET OutDevices : [m EXCEPT !.device[o] = device] \in S
             /\ \A ts \in SUBSET Strategies : [m EXCEPT !.byDevice[o] = ts] \in S
  <2>1. m \in Mixes BY <1>1
  <2>2. ASSUME o # "primary", NEW device \in SUBSET OutDevices
        PROVE  [m EXCEPT !.device[o] = device] \in S
    <3> DEFINE r == PlacedOn(m, o, device)
    <3>1. r \in Mixes /\ r.routed = m.routed /\ r.device["primary"] = m.device["primary"]
      BY <1>2, <2>1, <2>2, PlacedSets
    <3> HIDE DEF r
    <3>2. r \in S BY <3>1
    <3> QED BY <3>2 DEF r, PlacedOn
  <2>3. ASSUME NEW ts \in SUBSET Strategies PROVE [m EXCEPT !.byDevice[o] = ts] \in S
    <3> DEFINE r == FlaggedOn(m, o, ts)
    <3>1. r \in Mixes /\ r.routed = m.routed /\ r.device = m.device BY <2>1, FlaggedSets
    <3> HIDE DEF r
    <3>2. r \in S BY <3>1
    <3> QED BY <3>2 DEF r, FlaggedOn
  <2> QED BY <2>2, <2>3
<1> QED BY <1>1, <1>3, <1>4, Zenon DEF Stable

LEMMA RoutedStable == ASSUME NEW q, NEW T PROVE Stable(RoutedIn(T), q)
<1>1. RoutedIn(T) \in SUBSET Mixes BY DEF RoutedIn
<1>2. \A m \in RoutedIn(T), r \in Mixes : r.routed = m.routed => r \in RoutedIn(T) BY DEF RoutedIn
<1> QED BY <1>1, <1>2, DevicesStable

LEMMA PlacedStable == ASSUME NEW q, NEW A PROVE Stable(PlacedIn(A), q)
<1>1. PlacedIn(A) \in SUBSET Mixes BY DEF PlacedIn
<1>2. \A m \in PlacedIn(A), r \in Mixes :
        r.device["primary"] = m.device["primary"] => r \in PlacedIn(A)
  BY DEF PlacedIn
<1> QED BY <1>1, <1>2, DevicesStable

\* An output that is opened, other than the primary one, changes neither.
LEMMA OpenedRouted ==
  ASSUME NEW T, NEW m \in RoutedIn(T), NEW os \in SUBSET Outputs, IsFiniteSet(os),
         NEW device \in SUBSET OutDevices
  PROVE  Opened(m, os, device) \in RoutedIn(T)
<1>1. ASSUME NEW n \in RoutedIn(T), NEW o \in os PROVE OpenedOne(n, o, device) \in RoutedIn(T)
  <2>1. n \in Mixes BY DEF RoutedIn
  <2>2. OpenedOne(n, o, device) \in Mixes /\ OpenedOne(n, o, device).routed = n.routed
    BY <2>1, OpenedSets
  <2> QED BY <2>2 DEF RoutedIn
<1> QED BY <1>1, OpenedKept

LEMMA OpenedPlaced ==
  ASSUME NEW A, NEW m \in PlacedIn(A), NEW os \in SUBSET (Outputs \ {"primary"}), IsFiniteSet(os),
         NEW device \in SUBSET OutDevices
  PROVE  Opened(m, os, device) \in PlacedIn(A)
<1>1. ASSUME NEW n \in PlacedIn(A), NEW o \in os PROVE OpenedOne(n, o, device) \in PlacedIn(A)
  <2>1. n \in Mixes /\ "primary" \in Outputs /\ o # "primary"
    BY ProfilesAssumption DEF PlacedIn, Outputs
  <2>2. /\ OpenedOne(n, o, device) \in Mixes
        /\ OpenedOne(n, o, device).device["primary"] = n.device["primary"]
    BY <2>1, OpenedSets
  <2> QED BY <2>2 DEF PlacedIn
<1> QED BY <1>1, OpenedKept

\* What outputs are sent to, is where the module goes and the primary output.
LEMMA RoutedRoutes ==
  ASSUME NEW T, NEW wanted,
         \A o \in Outputs \ {"submix", "dup"} :
           wanted \cap Supported(o) # {} => wanted \cap Supported(o) \in T
  PROVE  RoutesTo(RoutedIn(T), wanted)
<1>1. "primary" \in Outputs BY ProfilesAssumption DEF Outputs
<1>2. \A o \in Outputs : wanted \cap Supported(o) \in SUBSET OutDevices BY SupportedDevices
<1>3. ASSUME NEW m \in RoutedIn(T), NEW device \in SUBSET OutDevices
      PROVE  /\ [m EXCEPT !.device["primary"] = device] \in RoutedIn(T)
             /\ device \in T => [m EXCEPT !.routed = device] \in RoutedIn(T)
  <2> DEFINE x == PlacedOn(m, "primary", device)
             y == SentTo(m, device)
  <2>1. m \in Mixes /\ m.routed \in T BY DEF RoutedIn
  <2>2. x \in Mixes /\ x.routed = m.routed /\ y \in Mixes /\ y.routed = device
    BY <1>1, <2>1, PlacedSets, SentSets
  <2> HIDE DEF x, y
  <2>3. x \in RoutedIn(T) /\ (device \in T => y \in RoutedIn(T)) BY <2>1, <2>2 DEF RoutedIn
  <2> QED BY <2>3 DEF x, y, PlacedOn, SentTo
<1> QED BY <1>1, <1>2, <1>3 DEF RoutesTo, Routes

LEMMA PlacedRoutes ==
  ASSUME NEW A, NEW wanted, wanted \subseteq A
  PROVE  RoutesTo(PlacedIn(A), wanted)
<1>1. "primary" \in Outputs BY ProfilesAssumption DEF Outputs
<1>2. \A o \in Outputs : wanted \cap Supported(o) \in SUBSET OutDevices BY SupportedDevices
<1>3. ASSUME NEW m \in PlacedIn(A), NEW device \in SUBSET OutDevices
      PROVE  /\ device \subseteq A => [m EXCEPT !.device["primary"] = device] \in PlacedIn(A)
             /\ [m EXCEPT !.routed = device] \in PlacedIn(A)
  <2> DEFINE x == PlacedOn(m, "primary", device)
             y == SentTo(m, device)
  <2>1. m \in Mixes /\ m.device["primary"] \subseteq A BY DEF PlacedIn
  <2>2. x \in Mixes /\ x.device["primary"] = device /\ y \in Mixes /\ y.device = m.device
    BY <1>1, <2>1, PlacedSets, SentSets
  <2> HIDE DEF x, y
  <2>3. (device \subseteq A => x \in PlacedIn(A)) /\ y \in PlacedIn(A)
    BY <2>1, <2>2 DEF PlacedIn
  <2> QED BY <2>3 DEF x, y, PlacedOn, SentTo
<1> QED BY <1>1, <1>2, <1>3 DEF RoutesTo, Routes

\* d is a route that every output of the module takes as a whole, or not at all.
Whole(d) ==
  /\ d \in SUBSET OutDevices /\ d # {} /\ d \subseteq Supported("primary")
  /\ \A o \in Outputs \ {"submix", "dup"} : d \cap Supported(o) \in {{}, d}

LEMMA WholeRoutes ==
  ASSUME NEW d, Whole(d)
  PROVE  RoutesTo(RoutedIn({d}), d)
BY RoutedRoutes DEF Whole

LEMMA MixesStable ==
  ASSUME NEW q
  PROVE  Stable(Mixes, q) /\ \A wanted : RoutesTo(Mixes, wanted)
<1> DEFINE T == SUBSET OutDevices
<1>1. RoutedIn(T) = Mixes BY DEF RoutedIn, Mixes
<1>2. Stable(RoutedIn(T), q) BY RoutedStable
<1>3. ASSUME NEW wanted PROVE RoutesTo(RoutedIn(T), wanted)
  <2>1. \A o \in Outputs : wanted \cap Supported(o) \in T BY SupportedDevices
  <2> HIDE DEF T
  <2> QED BY <2>1, RoutedRoutes
<1> QED BY <1>1, <1>2, <1>3

\* One output is one step of setOutputDevice().
LEMMA SingleRoute ==
  ASSUME NEW q, q.outputs \in Seq(Outputs), NEW m \in Mixes, NEW o \in Outputs \ {"dup"},
         NEW wanted, NEW force \in BOOLEAN
  PROVE  setOutputDevice(q, m, o, wanted, force) = SetOne(q, m, o, wanted, force)
<1> DEFINE os == <<o>>
           S == Mixes
           Op(n, p) == SetOne(q, n, p, wanted, force)
           step == [i \in DOMAIN os |-> [x \in S |-> Op(x, os[i])]]
           Def(f) == f = [u \in SUBSET DOMAIN os |->
                            IF u = {} THEN m ELSE Op(f[u \ {Max(u)}], os[Max(u)])]
           fold == CHOOSE f : Def(f)
<1>1. m \in S OBVIOUS
<1>2. ASSUME NEW n \in S PROVE Op(n, o) \in S
  <2>1. Stable(Mixes, q) /\ RoutesTo(Mixes, wanted) BY MixesStable
  <2> QED BY <2>1, SetOneKept
<1>3. DOMAIN os = {1} /\ DOMAIN os = 1..Len(os) /\ Len(os) \in Nat /\ os[1] = o OBVIOUS
<1> HIDE DEF os, Op, S
<1>4. PICK g : Folded(g, DOMAIN os, Latest(DOMAIN os), S, m, step)
  <2>1. \A i \in DOMAIN os, x \in S : step[i][x] \in S BY <1>2, <1>3
  <2> HIDE DEF step
  <2> QED BY <1>1, <1>3, <2>1, SequenceFoldExists
<1>5. \A u \in SUBSET DOMAIN os : u # {} => Max(u) \in DOMAIN os BY <1>3, LatestChooses
<1>6. Def(g)
  <2>1. \A u \in SUBSET DOMAIN os : u # {} =>
          step[Max(u)][g[u \ {Max(u)}]] = Op(g[u \ {Max(u)}], os[Max(u)])
    BY <1>4, <1>5 DEF Folded
  <2>2. g = [u \in SUBSET DOMAIN os |-> g[u]] BY <1>4 DEF Folded
  <2> HIDE DEF step
  <2> QED BY <1>4, <2>1, <2>2 DEF Folded, Latest
<1>7. Def(fold) BY <1>6
<1>8. setOutputDevice(q, m, o, wanted, force) = fold[DOMAIN os]
  <2>1. (IF o = "dup" THEN <<"primary", "submix">> ELSE <<o>>) = os BY DEF os
  <2> QED BY <2>1 DEF setOutputDevice, FoldLeft, MapThenFoldSet, Op
<1> HIDE DEF fold
<1>9. fold[{}] = m BY <1>7
<1>10. Max(DOMAIN os) = 1 BY <1>3, <1>5
<1>11. fold[DOMAIN os] = Op(fold[DOMAIN os \ {Max(DOMAIN os)}], os[Max(DOMAIN os)])
  BY <1>3, <1>7
<1>12. DOMAIN os \ {Max(DOMAIN os)} = {} BY <1>3, <1>10
<1> QED BY <1>3, <1>8, <1>9, <1>10, <1>11, <1>12 DEF Op

\* A route that is forced onto an output reaches the module; the primary output
\* takes it too.
LEMMA LandsOn ==
  ASSUME NEW q, q.outputs \in Seq(Outputs), NEW m \in Mixes, NEW o \in Outputs \ {"submix", "dup"},
         NEW wanted, NEW d, d = wanted \cap Supported(o), d # {}
  PROVE  /\ setOutputDevice(q, m, o, wanted, TRUE) \in RoutedIn({d})
         /\ o = "primary" => setOutputDevice(q, m, o, wanted, TRUE) \in PlacedIn(d)
<1> DEFINE moved == Moved(m, o, d)
           checked == checkDeviceMuteStrategies(q, moved, o, m.device[o])
           routed == [checked EXCEPT !.routed = d]
           result == On(q, routed, o, Streams)
<1>1. d \in SUBSET OutDevices BY SupportedDevices
<1>2. moved \in Mixes /\ (o = "primary" => moved \in PlacedIn(d))
  <2> DEFINE x == PlacedOn(m, o, d)
  <2>1. x \in Mixes /\ x.device[o] = d BY <1>1, PlacedSets
  <2>2. moved = x BY DEF Moved, PlacedOn
  <2> HIDE DEF moved, x
  <2> QED BY <2>1, <2>2 DEF PlacedIn
<1>3. setOutputDevice(q, m, o, wanted, TRUE) = result
  <2>1. setOutputDevice(q, m, o, wanted, TRUE) = SetOne(q, m, o, wanted, TRUE) BY SingleRoute
  <2>2. SetOne(q, m, o, wanted, TRUE) = SentIf(TRUE, q, checked, o, d) BY DEF SetOne
  <2> HIDE DEF checked
  <2> QED BY <2>1, <2>2 DEF SentIf, Sent, On, applyStreamVolumes
<1> HIDE DEF moved
<1>4. ASSUME NEW S, Stable(S, q), moved \in S PROVE checked \in S BY <1>4, CheckKept
<1>5. checked \in Mixes /\ (o = "primary" => checked \in PlacedIn(d))
  BY <1>2, <1>4, MixesStable, PlacedStable
<1> HIDE DEF checked
<1>6. routed \in RoutedIn({d}) /\ (o = "primary" => routed \in PlacedIn(d))
  <2>1. routed \in Mixes /\ routed.routed = d /\ routed.device = checked.device
    BY <1>1, <1>5, SentSets DEF SentTo
  <2> HIDE DEF routed
  <2> QED BY <1>5, <2>1 DEF RoutedIn, PlacedIn
<1> HIDE DEF routed
<1>7. \A S : Stable(S, q) /\ routed \in S => result \in S BY DEF Stable
<1>8. result \in RoutedIn({d}) /\ (o = "primary" => result \in PlacedIn(d))
  BY <1>6, <1>7, RoutedStable, PlacedStable
<1> QED BY <1>3, <1>8

LEMMA Lands ==
  ASSUME NEW q, q.outputs \in Seq(Outputs), NEW m \in Mixes, NEW d, Whole(d)
  PROVE  setOutputDevice(q, m, "primary", d, TRUE) \in RoutedIn({d})
<1>1. "primary" \in Outputs \ {"submix", "dup"} BY ProfilesAssumption DEF Outputs
<1>2. d = d \cap Supported("primary") /\ d # {} BY DEF Whole
<1> QED BY <1>1, <1>2, LandsOn

\* What holds once some of the outputs os have been routed, if routing one of
\* good leads to S.
Reached(os, S, good, u) == {m \in Mixes : (\E i \in u : os[i] \in good) => m \in S}

LEMMA OneReaches ==
  ASSUME NEW q, q.outputs \in Seq(Outputs), NEW S, Stable(S, q), NEW wanted, RoutesTo(S, wanted),
         NEW force \in BOOLEAN, NEW good, NEW os \in Seq(Routable),
         \A n \in Mixes, o \in good : setOutputDevice(q, n, o, wanted, force) \in S,
         NEW u \in SUBSET DOMAIN os, NEW i \in u, NEW m \in Reached(os, S, good, u \ {i})
  PROVE  setOutputDevice(q, m, os[i], wanted, force) \in Reached(os, S, good, u)
<1> DEFINE o == os[i]
           r == setOutputDevice(q, m, o, wanted, force)
<1>1. m \in Mixes /\ o \in Routable BY DEF Reached
<1>2. r \in Mixes
  <2>1. Stable(Mixes, q) /\ RoutesTo(Mixes, wanted) BY MixesStable
  <2> HIDE DEF o
  <2> QED BY <1>1, <2>1, RoutedKept
<1>3. m \in S => r \in S
  <2> HIDE DEF o
  <2> QED BY <1>1, RoutedKept
<1>4. o \in good => r \in S BY <1>1
<1> HIDE DEF r
<1>5. (\E j \in u : os[j] \in good) => r \in S BY <1>3, <1>4 DEF Reached
<1>6. r \in Reached(os, S, good, u) BY <1>2, <1>5 DEF Reached
<1> QED BY <1>6 DEF r, o

\* Once every output has been routed, S holds.
LEMMA RouteAllReaches ==
  ASSUME NEW q, q.outputs \in Seq(Outputs), NEW S, Stable(S, q), NEW table, NEW good,
         NEW always \in BOOLEAN,
         \A o \in Routable : RoutesTo(S, getNewDevice(q, table, o)),
         \A n \in Mixes, o \in good :
           setOutputDevice(q, n, o, getNewDevice(q, table, o),
                           always \/ getNewDevice(q, table, o) # {}) \in S,
         NEW m \in Mixes, NEW outputs \in Seq(Routable), \E o \in Range(outputs) : o \in good
  PROVE  RouteAll(q, table, m, outputs, always) \in S
<1> DEFINE os == outputs
           Op(n, o) == LET device == getNewDevice(q, table, o)
                       IN setOutputDevice(q, n, o, device, always \/ device # {})
           step == [i \in DOMAIN os |-> [x \in Mixes |-> Op(x, os[i])]]
           Def(f) == f = [u \in SUBSET DOMAIN os |->
                            IF u = {} THEN m ELSE Op(f[u \ {Max(u)}], os[Max(u)])]
           fold == CHOOSE f : Def(f)
<1>1. m \in Mixes OBVIOUS
<1>2. /\ DOMAIN os = 1..Len(os) /\ Len(os) \in Nat
      /\ \A i \in DOMAIN os : os[i] \in Routable
  OBVIOUS
<1>3. ASSUME NEW n \in Mixes, NEW o \in Routable PROVE Op(n, o) \in Mixes
  <2> DEFINE device == getNewDevice(q, table, o)
             force == always \/ device # {}
  <2>1. force \in BOOLEAN OBVIOUS
  <2> HIDE DEF device, force
  <2>2. Stable(Mixes, q) /\ RoutesTo(Mixes, device) BY MixesStable
  <2>3. setOutputDevice(q, n, o, device, force) \in Mixes BY <2>1, <2>2, RoutedKept
  <2> QED BY <2>3 DEF device, force
<1>4. ASSUME NEW u \in SUBSET DOMAIN os, NEW i \in u, NEW n \in Reached(os, S, good, u \ {i})
      PROVE  Op(n, os[i]) \in Reached(os, S, good, u)
  <2> DEFINE o == os[i]
             device == getNewDevice(q, table, o)
             force == always \/ device # {}
  <2>1. o \in Routable /\ force \in BOOLEAN BY <1>2
  <2>2. RoutesTo(S, device) BY <2>1
  <2> DEFINE now == good \cap {o}
  <2>3. \A k \in Mixes, p \in now : setOutputDevice(q, k, p, device, force) \in S OBVIOUS
  <2>4. n \in Mixes /\ Op(n, o) = setOutputDevice(q, n, o, device, force) BY DEF Reached
  <2> HIDE DEF Op, device, force
  <2>5. Op(n, o) \in Mixes BY <1>3, <2>1, <2>4
  <2>6. n \in S => Op(n, o) \in S
    <3> HIDE DEF o
    <3> QED BY <2>1, <2>2, <2>4, RoutedKept
  <2>7. o \in good => Op(n, o) \in S BY <2>3, <2>4
  <2>8. (\E j \in u : os[j] \in good) => Op(n, o) \in S BY <2>6, <2>7 DEF Reached
  <2> QED BY <2>5, <2>8 DEF Reached
<1> HIDE DEF Op
<1>5. PICK g : Folded(g, DOMAIN os, Latest(DOMAIN os), Mixes, m, step)
  <2>1. \A i \in DOMAIN os, x \in Mixes : step[i][x] \in Mixes BY <1>2, <1>3
  <2> HIDE DEF step
  <2> QED BY <1>1, <1>2, <2>1, SequenceFoldExists
<1>6. \A u \in SUBSET DOMAIN os : u # {} => Max(u) \in DOMAIN os BY <1>2, LatestChooses
<1>7. Def(g)
  <2>1. \A u \in SUBSET DOMAIN os : u # {} =>
          step[Max(u)][g[u \ {Max(u)}]] = Op(g[u \ {Max(u)}], os[Max(u)])
    BY <1>5, <1>6 DEF Folded
  <2>2. g = [u \in SUBSET DOMAIN os |-> g[u]] BY <1>5 DEF Folded
  <2> HIDE DEF step
  <2> QED BY <1>5, <2>1, <2>2 DEF Folded, Latest
<1>8. Def(fold) BY <1>7
<1>9. RouteAll(q, table, m, outputs, always) = fold[DOMAIN os]
  BY DEF RouteAll, FoldLeft, MapThenFoldSet, Op
<1> HIDE DEF fold
<1>10. fold[{}] = m BY <1>8
<1>11. \A u \in SUBSET DOMAIN os : u # {} =>
         fold[u] = Op(fold[u \ {Max(u)}], os[Max(u)])
  BY <1>8
<1> DEFINE X == {u \in SUBSET DOMAIN os : fold[u] \in Reached(os, S, good, u)}
<1>12. {} \in X BY <1>10 DEF Reached
<1>13. \A u \in SUBSET DOMAIN os : u # {} /\ u \ {Max(u)} \in X => u \in X
  <2> SUFFICES ASSUME NEW u \in SUBSET DOMAIN os, u # {},
                      fold[u \ {Max(u)}] \in Reached(os, S, good, u \ {Max(u)})
               PROVE  fold[u] \in Reached(os, S, good, u)
    OBVIOUS
  <2> DEFINE n == fold[u \ {Max(u)}]
             k == Max(u)
  <2>1. n \in Reached(os, S, good, u \ {k}) OBVIOUS
  <2>2. k \in u BY <1>2, LastElement
  <2>3. fold[u] = Op(n, os[k]) BY <1>11
  <2> HIDE DEF n, k
  <2>4. Op(n, os[k]) \in Reached(os, S, good, u) BY <1>4, <2>1, <2>2
  <2> QED BY <2>3, <2>4
<1> HIDE DEF X
<1>14. DOMAIN os \in X BY <1>2, <1>12, <1>13, SequenceFoldReaches
<1>15. \E i \in DOMAIN os : os[i] \in good BY DEF Range
<1> QED BY <1>9, <1>14, <1>15 DEF X, Reached

LEMMA RouteAllLands ==
  ASSUME NEW q, q.outputs \in Seq(Outputs), NEW d, Whole(d), NEW table,
         \A o \in Routable : getNewDevice(q, table, o) = d,
         NEW m \in Mixes, NEW outputs \in Seq(Routable), "primary" \in Range(outputs),
         NEW always \in BOOLEAN
  PROVE  RouteAll(q, table, m, outputs, always) \in RoutedIn({d})
<1> DEFINE S == RoutedIn({d})
           good == {"primary"}
<1>1. Stable(S, q) BY RoutedStable
<1>2. \A o \in Routable : RoutesTo(S, getNewDevice(q, table, o)) BY WholeRoutes
<1>3. "primary" \in Routable BY ProfilesAssumption DEF Routable, Outputs
<1>4. \A n \in Mixes, o \in good :
        setOutputDevice(q, n, o, getNewDevice(q, table, o),
                        always \/ getNewDevice(q, table, o) # {}) \in S
  <2>1. getNewDevice(q, table, "primary") = d /\ d # {} BY <1>3 DEF Whole
  <2> QED BY <2>1, Lands
<1>5. \E o \in Range(outputs) : o \in good OBVIOUS
<1> HIDE DEF S, good
<1>6. RouteAll(q, table, m, outputs, always) \in S BY <1>1, <1>2, <1>4, <1>5, RouteAllReaches
<1> QED BY <1>6 DEF S

LEMMA ReroutedLands ==
  ASSUME NEW q, q.outputs \in Seq(Routable), NEW d, Whole(d), NEW table, NEW use,
         \A o \in Routable : getNewDevice(q, table, o) = d,
         NEW m \in Mixes, NEW os, os = Reverse(q.outputs), "primary" \in Range(os)
  PROVE  Rerouted(q, table, use, m) \in RoutedIn({d})
<1> DEFINE S == RoutedIn({d})
           good == {"primary"}
           K == [u \in SUBSET DOMAIN os |-> Reached(os, S, good, u)]
<1>1. q.outputs \in Seq(Outputs) /\ os \in Seq(Routable) BY DEF Routable, Reverse
<1>2. /\ DOMAIN os = 1..Len(os) /\ Len(os) \in Nat
      /\ \A i \in DOMAIN os : os[i] \in Routable
  BY <1>1
<1>3. Stable(Mixes, q) /\ \A o \in Routable : RoutesTo(Mixes, getNewDevice(q, table, o))
  BY MixesStable
<1>4. m \in K[{}] BY DEF Reached
<1>9. Stable(S, q) /\ RoutesTo(S, d) BY RoutedStable, WholeRoutes
<1>10. \A k \in Mixes, o \in good : setOutputDevice(q, k, o, d, TRUE) \in S BY <1>1, Lands
<1>5. ASSUME NEW u \in SUBSET DOMAIN os, NEW n, u # {}, n \in K[u \ {Max(u)}]
      PROVE  ReroutedOne(q, table, use, n, os[Max(u)]) \in K[u]
  <2> DEFINE i == Max(u)
             o == os[i]
             set == setOutputDevice(q, n, o, d, TRUE)
  <2>1. i \in u /\ o \in Routable BY <1>2, <1>5, LastElement
  <2>2. n \in Reached(os, S, good, u \ {i}) BY <1>5
  <2>3. set \in Reached(os, S, good, u)
    <3> HIDE DEF i, S, good
    <3> QED BY <1>1, <1>9, <1>10, <2>1, <2>2, OneReaches
  <2>4. ReroutedOne(q, table, use, n, o) \in {set, On(q, set, o, Streams)}
    <3>1. getNewDevice(q, table, o) = d /\ d # {} BY <2>1 DEF Whole
    <3> HIDE DEF o
    <3> QED BY <3>1 DEF ReroutedOne, On, applyStreamVolumes
  <2> HIDE DEF set
  <2>5. On(q, set, o, Streams) \in Reached(os, S, good, u)
    <3>1. set \in Mixes /\ o \in Outputs BY <2>1, <2>3 DEF Reached, Routable
    <3>2. Sounded(q, set, o, Streams, On(q, set, o, Streams)) BY <3>1, VolumeOn
    <3>3. set \in S => On(q, set, o, Streams) \in S BY <1>9, <3>1 DEF Stable
    <3> HIDE DEF S
    <3> QED BY <2>3, <3>2, <3>3 DEF Sounded, Reached
  <2> QED BY <2>3, <2>4, <2>5
<1>6. K[DOMAIN os] = Reached(os, S, good, DOMAIN os) OBVIOUS
<1> HIDE DEF K
<1>7. Rerouted(q, table, use, m) \in K[DOMAIN os] BY <1>3, <1>4, <1>5, ReroutedReaches
<1>8. \E i \in DOMAIN os : os[i] \in good BY DEF Range
<1> QED BY <1>6, <1>7, <1>8 DEF Reached, S
=============================================================================
