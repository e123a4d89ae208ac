--------------------------- MODULE UsbAudioProofs ---------------------------
(* Theorems about UsbAudio, for any streams, use cases, devices and faults.  *)
EXTENDS UsbAudio, SequenceTheorems, TLAPS

Places == 1 .. Len(todo)
Pending(d) == \E i \in Places : todo[i] \in {Close(d), CloseIfIdle(d)}
Quiet(d) == ~Alive(d) /\ ~usb[d] /\ ~proxy[d]

\* While an exit waits, its direction has no bit and the thread is told to go.
StageInv ==
  stage = "join" => /\ ~Idle /\ todo[1].do \in {"close", "idle"}
                    /\ bits[todo[1].dir] = {} /\ kill[todo[1].dir]

\* A thread alive is the one that can be joined; its loop has its devices; its
\* events and the flag agree; without a bit there is nothing, or an exit to
\* come; with one, and no failure, there is a thread that is not killed.
ThreadInv ==
  \A d \in Dirs : overtaken[d] \/
    /\ Alive(d) => tid[d]
    /\ pc[d] = "loop" => usb[d] /\ proxy[d]
    /\ event[d] => d = "playback" /\ pc[d] \in {"loop", "end"}
    /\ signal[d] => kill[d] /\ event[d]
    /\ bits[d] = {} => Quiet(d) \/ Pending(d)
    /\ bits[d] # {} /\ ~failed[d] => pc[d] \in {"new", "loop"} /\ ~kill[d]

\* Bits, starts to come and writes in progress belong to what is in use.
InUse(b) == /\ b = "MUSIC" => Music \cap open # {}
            /\ b = "LPA" => "lpa" \in listed \cup leaving
            /\ b = "VOICE" => "voice" \in listed
UseInv ==
  /\ \A c \in pend : c[1] \in open \cup (listed \ leaving)
  /\ \A i \in Places : todo[i].do = "start" => InUse(todo[i].bit)
  /\ \A b \in bits["playback"] : InUse(b)

\* A call that is heard is listened to, or playback is about to be closed; its
\* start for playback comes after the one for recording; recording is closed
\* with playback, by a call that starts nothing.
BothInv ==
  /\ "VOICE" \in bits["playback"] =>
       "VOICE" \in bits["recording"] \/ \E i \in Places : todo[i] = Close("playback")
  /\ \A i \in Places : todo[i] = StartBit("playback", "VOICE") =>
       \/ "VOICE" \in bits["recording"]
       \/ \E j \in Places : j < i /\ todo[j] = StartBit("recording", "VOICE")
  /\ \A i \in Places : todo[i] = Close("recording") =>
       /\ \A j \in Places : todo[j].do # "start"
       /\ i = 1 /\ Len(todo) > 1 /\ todo[2] = Close("playback")

IInv == TypeOK /\ StageInv /\ ThreadInv /\ UseInv /\ BothInv

-----------------------------------------------------------------------------
(* The pieces of a call, and sequences of them.                              *)

LEMMA PieceFacts ==
  /\ \A d \in Dirs : Close(d) \in Pieces /\ CloseIfIdle(d) \in Pieces
  /\ \A d \in Dirs : \A b \in Bits[d] : StartBit(d, b) \in Pieces
  /\ \A dev \in Outputs \cup Inputs : Arrive(dev) \in Pieces
BY DEF Pieces, Close, CloseIfIdle, StartBit, Arrive, Dirs

LEMMA PieceKinds ==
  ASSUME NEW p \in Pieces
  PROVE  \/ p.do = "close" /\ p.dir \in Dirs /\ p = Close(p.dir)
         \/ p.do = "idle" /\ p.dir \in Dirs /\ p = CloseIfIdle(p.dir)
         \/ p.do = "start" /\ p.dir \in Dirs /\ p.bit \in Bits[p.dir] /\ p = StartBit(p.dir, p.bit)
         \/ p.do = "arrive" /\ p.dev \in Outputs \cup Inputs /\ p = Arrive(p.dev)
BY DEF Pieces, Close, CloseIfIdle, StartBit, Arrive, Dirs

LEMMA BitFacts ==
  /\ Bits["playback"] = {"MUSIC", "VOICE", "VOIP", "LPA"}
  /\ Bits["recording"] = {"REC", "VOICE", "VOIP"}
  /\ Dirs = {"playback", "recording"}
  /\ \A s \in Music : BitOf(s) = "MUSIC" /\ DirOf(s) = "playback"
  /\ \A s \in Recs : BitOf(s) = "REC" /\ DirOf(s) = "recording"
  /\ BitOf("lpa") = "LPA" /\ BitOf("voice") = "VOICE" /\ BitOf("voip") = "VOIP"
BY StreamsAssumption DEF Bits, Dirs, BitOf, DirOf

LEMMA TodoFacts ==
  ASSUME TypeOK, ~Idle
  PROVE  /\ Head(todo) = todo[1] /\ 1 \in Places /\ todo[1] \in Pieces
         /\ Tail(todo) \in Seq(Pieces) /\ Len(Tail(todo)) = Len(todo) - 1
         /\ \A i \in 1 .. Len(Tail(todo)) : i + 1 \in Places /\ Tail(todo)[i] = todo[i + 1]
         /\ \A i \in Places : i # 1 => i - 1 \in 1 .. Len(Tail(todo)) /\ Tail(todo)[i - 1] = todo[i]
<1>1. todo \in Seq(Pieces) /\ todo # <<>> BY DEF TypeOK, Idle
<1>2. Len(todo) \in Nat /\ Len(todo) # 0 BY <1>1, EmptySeq, LenProperties
<1>3. /\ Head(todo) = todo[1] /\ Tail(todo) \in Seq(Pieces) /\ Len(Tail(todo)) = Len(todo) - 1
      /\ \A i \in 1 .. Len(Tail(todo)) : Tail(todo)[i] = todo[i + 1]
  BY <1>1, HeadTailProperties
<1>4. 1 \in Places /\ todo[1] \in Pieces BY <1>1, <1>2, ElementOfSeq DEF Places
<1> QED BY <1>2, <1>3, <1>4 DEF Places

\* A piece that is done leaves the others, one place further on.
LEMMA DoneFacts ==
  ASSUME TypeOK, ~Idle, Done
  PROVE  /\ todo' \in Seq(Pieces) /\ caller' \in Music \cup Recs \cup {"hal"}
         /\ \A i \in Places' : i + 1 \in Places /\ todo'[i] = todo[i + 1]
         /\ \A i \in Places : i # 1 => i - 1 \in Places' /\ todo'[i - 1] = todo[i]
         /\ \A d \in Dirs : Pending(d) => Pending(d)' \/ todo[1] \in {Close(d), CloseIfIdle(d)}
<1>1. /\ todo' \in Seq(Pieces)
      /\ \A i \in Places' : i + 1 \in Places /\ todo'[i] = todo[i + 1]
      /\ \A i \in Places : i # 1 => i - 1 \in Places' /\ todo'[i - 1] = todo[i]
  BY TodoFacts DEF Done, Places
<1>2. caller' \in Music \cup Recs \cup {"hal"} BY DEF TypeOK, Done
<1>3. ASSUME NEW d \in Dirs, Pending(d)
      PROVE  Pending(d)' \/ todo[1] \in {Close(d), CloseIfIdle(d)}
  <2>1. PICK i \in Places : todo[i] \in {Close(d), CloseIfIdle(d)} BY <1>3 DEF Pending
  <2>2. CASE i = 1 BY <2>1, <2>2
  <2>3. CASE i # 1
    <3>1. i - 1 \in Places' /\ todo'[i - 1] \in {Close(d), CloseIfIdle(d)} BY <1>1, <2>1, <2>3
    <3> QED BY <3>1 DEF Pending, Close, CloseIfIdle
  <2> QED BY <2>2, <2>3
<1> QED BY <1>1, <1>2, <1>3

LEMMA NowFacts ==
  ASSUME TypeOK
  PROVE  /\ Now("close") => ~Idle /\ Head(todo).dir \in Dirs /\ todo[1] = Close(Head(todo).dir)
         /\ Now("idle") => ~Idle /\ Head(todo).dir \in Dirs /\ todo[1] = CloseIfIdle(Head(todo).dir)
         /\ Now("start") => /\ ~Idle /\ Head(todo).dir \in Dirs
                            /\ Head(todo).bit \in Bits[Head(todo).dir]
                            /\ todo[1] = StartBit(Head(todo).dir, Head(todo).bit)
         /\ Now("arrive") => ~Idle /\ Head(todo).dev \in Outputs \cup Inputs /\ todo[1] = Arrive(Head(todo).dev)
<1>1. CASE Idle BY <1>1 DEF Now
<1>2. CASE ~Idle
  <2>1. Head(todo) = todo[1] /\ todo[1] \in Pieces BY <1>2, TodoFacts
  <2> QED BY <1>2, <2>1, PieceKinds DEF Now, Close, CloseIfIdle, StartBit, Arrive
<1> QED BY <1>1, <1>2

LEMMA JoinFacts ==
  ASSUME TypeOK, StageInv, stage = "join"
  PROVE  /\ ~Idle /\ Head(todo) = todo[1] /\ Head(todo).dir \in Dirs
         /\ todo[1] \in {Close(Head(todo).dir), CloseIfIdle(Head(todo).dir)}
         /\ bits[Head(todo).dir] = {} /\ kill[Head(todo).dir]
<1>1. ~Idle /\ todo[1].do \in {"close", "idle"} BY DEF StageInv
<1>2. Head(todo) = todo[1] /\ todo[1] \in Pieces BY <1>1, TodoFacts
<1> QED BY <1>1, <1>2, PieceKinds DEF StageInv, Close, CloseIfIdle, StartBit, Arrive

-----------------------------------------------------------------------------
(* What a call brings.                                                       *)

\* The sequences calls are made of: a call's start for playback comes after
\* the one for recording, recording is closed with playback and first.
Ordered(q) ==
  /\ \A i \in 1 .. Len(q) : q[i] = StartBit("playback", "VOICE") =>
       \E j \in 1 .. Len(q) : j < i /\ q[j] = StartBit("recording", "VOICE")
  /\ \A i \in 1 .. Len(q) : q[i] = Close("recording") =>
       /\ \A j \in 1 .. Len(q) : q[j].do # "start"
       /\ i = 1 /\ Len(q) > 1 /\ q[2] = Close("playback")

\* Starts of use cases that are there, a call's in that order.
Starts(q) ==
  /\ q \in Seq(Pieces)
  /\ \A i \in 1 .. Len(q) :
       /\ q[i].do = "start" /\ InUse(q[i].bit)
       /\ q[i] = StartBit("playback", "VOICE") =>
            \E j \in 1 .. Len(q) : j < i /\ q[j] = StartBit("recording", "VOICE")

LEMMA StartsConcat ==
  ASSUME NEW p, NEW q, Starts(p), Starts(q)
  PROVE  Starts(p \o q)
<1>1. p \in Seq(Pieces) /\ q \in Seq(Pieces) BY DEF Starts
<1>2. /\ p \o q \in Seq(Pieces) /\ Len(p \o q) = Len(p) + Len(q)
      /\ Len(p) \in Nat /\ Len(q) \in Nat
      /\ \A i \in 1 .. Len(p) + Len(q) :
           (p \o q)[i] = IF i <= Len(p) THEN p[i] ELSE q[i - Len(p)]
  BY <1>1, ConcatProperties, LenProperties
<1>3. ASSUME NEW i \in 1 .. Len(p \o q)
      PROVE  /\ (p \o q)[i].do = "start" /\ InUse((p \o q)[i].bit)
             /\ (p \o q)[i] = StartBit("playback", "VOICE") =>
                  \E j \in 1 .. Len(p \o q) : j < i /\ (p \o q)[j] = StartBit("recording", "VOICE")
  <2>1. CASE i <= Len(p)
    <3>1. i \in 1 .. Len(p) /\ (p \o q)[i] = p[i] BY <1>2, <1>3, <2>1
    <3>2. \A j \in 1 .. Len(p) : j \in 1 .. Len(p \o q) /\ (p \o q)[j] = p[j] BY <1>2
    <3> QED BY <3>1, <3>2 DEF Starts
  <2>2. CASE i > Len(p)
    <3> DEFINE k == i - Len(p)
    <3>1. k \in 1 .. Len(q) /\ (p \o q)[i] = q[k] BY <1>2, <1>3, <2>2
    <3>2. ASSUME NEW j \in 1 .. Len(q)
          PROVE  /\ j + Len(p) \in 1 .. Len(p \o q) /\ (p \o q)[j + Len(p)] = q[j]
                 /\ j < k => j + Len(p) < i
      <4>1. j + Len(p) \in 1 .. Len(p) + Len(q) /\ ~(j + Len(p) <= Len(p)) /\ (j + Len(p)) - Len(p) = j
        BY <1>2
      <4>2. j < k => j + Len(p) < i BY <1>2, <1>3
      <4> QED BY <1>2, <4>1, <4>2
    <3> HIDE DEF k
    <3>3. /\ q[k].do = "start" /\ InUse(q[k].bit)
          /\ q[k] = StartBit("playback", "VOICE") =>
               \E j \in 1 .. Len(q) : j < k /\ q[j] = StartBit("recording", "VOICE")
      BY <3>1 DEF Starts
    <3>4. CASE q[k] = StartBit("playback", "VOICE")
      <4>1. PICK j \in 1 .. Len(q) : j < k /\ q[j] = StartBit("recording", "VOICE") BY <3>3, <3>4
      <4>2. /\ j + Len(p) \in 1 .. Len(p \o q) /\ j + Len(p) < i
            /\ (p \o q)[j + Len(p)] = StartBit("recording", "VOICE")
        BY <3>2, <4>1
      <4> QED BY <3>1, <3>3, <4>2
    <3> QED BY <3>1, <3>3, <3>4
  <2> QED BY <1>2, <1>3, <2>1, <2>2
<1> QED BY <1>2, <1>3 DEF Starts

LEMMA NeededStarts ==
  ASSUME TypeOK, NEW mode
  PROVE  Starts(Needed(mode))
<1>1. Starts(<<>>) BY DEF Starts
<1>2. "lpa" \in listed => Starts(StartsFor("lpa"))
  BY PieceFacts, BitFacts DEF Starts, StartsFor, InUse, StartBit
<1>3. "voice" \in listed => Starts(StartsFor("voice"))
  BY PieceFacts, BitFacts DEF Starts, StartsFor, BothWays, InUse, StartBit
<1>4. Starts(StartsFor("voip"))
  BY PieceFacts, BitFacts DEF Starts, StartsFor, BothWays, InUse, StartBit
<1> DEFINE first == First({"lpa", "voice"})
           p == IF \E t \in Talks(mode) : \A u \in first : <<t, u>> \in before
                  THEN StartsFor("voip") ELSE <<>>
           q == IF "lpa" \in first THEN StartsFor("lpa")
                ELSE IF "voice" \in first THEN StartsFor("voice") ELSE <<>>
<1>5. first \subseteq listed BY DEF First
<1>6. Starts(p) BY <1>1, <1>4
<1>7. Starts(q)
  <2> HIDE DEF first
  <2> QED BY <1>1, <1>2, <1>3, <1>5
<1>8. Needed(mode) = p \o q BY DEF Needed
<1> HIDE DEF p, q
<1> QED BY <1>6, <1>7, <1>8, StartsConcat

\* What a call may bring.
Brought(q) ==
  /\ q \in Seq(Pieces) /\ Ordered(q)
  /\ \A i \in 1 .. Len(q) : q[i].do = "start" => InUse(q[i].bit)

LEMMA ArriveLast ==
  ASSUME NEW m \in Seq(Pieces), NEW a \in Pieces, NEW q, q = Append(m, a)
  PROVE  /\ q \in Seq(Pieces) /\ Len(m) \in Nat /\ Len(q) = Len(m) + 1
         /\ \A i \in 1 .. Len(m) : q[i] = m[i]
         /\ q[Len(m) + 1] = a
BY AppendProperties, LenProperties

LEMMA StartsBrought ==
  ASSUME NEW n, Starts(n), NEW a \in Pieces, a.do = "arrive",
         NEW c \in Seq(Pieces), \A i \in 1 .. Len(c) : c[i] = Close("playback"),
         NEW q, q = Append(c \o n, a)
  PROVE  Brought(q)
<1> DEFINE m == c \o n
<1>1. /\ m \in Seq(Pieces) /\ Len(m) = Len(c) + Len(n) /\ Len(c) \in Nat /\ Len(n) \in Nat
      /\ \A i \in 1 .. Len(c) + Len(n) : m[i] = IF i <= Len(c) THEN c[i] ELSE n[i - Len(c)]
  BY ConcatProperties, LenProperties DEF Starts
<1>2. q = Append(m, a) OBVIOUS
<1> HIDE DEF m
<1>3. /\ q \in Seq(Pieces) /\ Len(q) = Len(m) + 1
      /\ \A i \in 1 .. Len(m) : q[i] = m[i]
      /\ q[Len(m) + 1] = a
  BY <1>1, <1>2, ArriveLast
<1>4. ASSUME NEW i \in 1 .. Len(q)
      PROVE  \/ q[i] = Close("playback")
             \/ i - Len(c) \in 1 .. Len(n) /\ q[i] = n[i - Len(c)]
             \/ q[i] = a
  <2>1. CASE i <= Len(c) BY <1>1, <1>3, <2>1
  <2>2. CASE i > Len(c) /\ i <= Len(m)
    <3>1. q[i] = m[i] /\ m[i] = n[i - Len(c)] BY <1>1, <1>3, <2>2
    <3> QED BY <1>1, <2>2, <3>1
  <2>3. CASE i = Len(m) + 1 BY <1>3, <2>3
  <2>4. i \in Nat /\ i <= Len(m) + 1 /\ Len(m) \in Nat /\ Len(c) \in Nat BY <1>1, <1>3
  <2> QED BY <2>1, <2>2, <2>3, <2>4
<1>5. ASSUME NEW k \in 1 .. Len(n)
      PROVE  k + Len(c) \in 1 .. Len(q) /\ q[k + Len(c)] = n[k]
  <2> DEFINE i == k + Len(c)
  <2>1. i \in 1 .. Len(m) /\ i \in 1 .. Len(c) + Len(n) /\ ~(i <= Len(c)) /\ i - Len(c) = k BY <1>1
  <2>2. q[i] = m[i] /\ m[i] = n[k]
    <3> HIDE DEF i
    <3> QED BY <1>1, <1>3, <2>1
  <2> QED BY <1>1, <1>3, <2>1, <2>2
<1>6. ASSUME NEW i \in 1 .. Len(q)
      PROVE  /\ q[i] # Close("recording")
             /\ q[i].do = "start" => InUse(q[i].bit)
             /\ q[i] = StartBit("playback", "VOICE") =>
                  \E j \in 1 .. Len(q) : j < i /\ q[j] = StartBit("recording", "VOICE")
  <2>1. CASE q[i] \in {Close("playback"), a} BY <2>1 DEF Close, StartBit
  <2>2. CASE i - Len(c) \in 1 .. Len(n) /\ q[i] = n[i - Len(c)]
    <3> DEFINE k == i - Len(c)
    <3>1. /\ n[k].do = "start" /\ InUse(n[k].bit)
          /\ n[k] = StartBit("playback", "VOICE") =>
               \E j \in 1 .. Len(n) : j < k /\ n[j] = StartBit("recording", "VOICE")
      BY <2>2 DEF Starts
    <3>2. CASE q[i] = StartBit("playback", "VOICE")
      <4>1. PICK j \in 1 .. Len(n) : j < k /\ n[j] = StartBit("recording", "VOICE") BY <2>2, <3>1, <3>2
      <4>2. j + Len(c) < i BY <1>1, <4>1
      <4>3. j + Len(c) \in 1 .. Len(q) /\ q[j + Len(c)] = StartBit("recording", "VOICE") BY <1>5, <4>1
      <4> QED BY <2>2, <3>1, <4>2, <4>3 DEF Close
    <3> QED BY <2>2, <3>1, <3>2 DEF Close
  <2> QED BY <1>4, <2>1, <2>2
<1> QED BY <1>3, <1>6 DEF Brought, Ordered

LEMMA RoutedBrought ==
  ASSUME TypeOK, NEW dev \in Outputs \cup Inputs, NEW mode, NEW q, q = Append(Moves(dev, mode), Arrive(dev))
  PROVE  Brought(q)
<1>1. Arrive(dev) \in Pieces /\ Arrive(dev).do = "arrive" BY PieceFacts DEF Arrive
<1>2. CASE dev \in Dock
  <2>1. PICK c \in {<<>>, <<Close("playback")>>} : Moves(dev, mode) = c \o Needed(mode) BY <1>2 DEF Moves
  <2>2. Close("playback") \in Pieces BY PieceFacts, BitFacts
  <2>3. c \in Seq(Pieces) /\ \A i \in 1 .. Len(c) : c[i] = Close("playback")
    <3>1. CASE c = <<>> BY <3>1
    <3>2. CASE c = <<Close("playback")>> BY <2>2, <3>2
    <3> QED BY <3>1, <3>2
  <2> QED BY <1>1, <2>1, <2>3, NeededStarts, StartsBrought
<1>3. CASE Moves(dev, mode) = <<>>
  <2>1. Starts(<<>>) BY DEF Starts
  <2> DEFINE c == <<>>
  <2>2. c \in Seq(Pieces) /\ \A i \in 1 .. Len(c) : c[i] = Close("playback") OBVIOUS
  <2>3. Moves(dev, mode) = c \o c BY <1>3
  <2> HIDE DEF c
  <2>4. Starts(c) BY <2>1 DEF c
  <2> QED BY <1>1, <2>2, <2>3, <2>4, StartsBrought
<1>4. CASE Moves(dev, mode) = <<Close("recording"), Close("playback")>>
  <2> DEFINE m == Moves(dev, mode)
  <2>1. m \in Seq(Pieces) /\ Len(m) = 2 /\ m[1] = Close("recording") /\ m[2] = Close("playback")
    BY <1>4, PieceFacts, BitFacts
  <2> HIDE DEF m
  <2>2. /\ q \in Seq(Pieces) /\ Len(q) = 3
        /\ q[1] = Close("recording") /\ q[2] = Close("playback") /\ q[3] = Arrive(dev)
    BY <1>1, <2>1, ArriveLast DEF m
  <2>3. 1 .. Len(q) = {1, 2, 3} BY <2>2
  <2>4. \A i \in 1 .. Len(q) : q[i].do # "start" BY <2>2, <2>3 DEF Arrive, Close
  <2>5. \A i \in 1 .. Len(q) : q[i] = Close("recording") => i = 1 BY <2>2, <2>3 DEF Arrive, Close
  <2> QED BY <2>2, <2>4, <2>5 DEF Brought, Ordered, StartBit
<1> QED BY <1>2, <1>3, <1>4 DEF Moves

-----------------------------------------------------------------------------
(* The calls: what each of them changes before its pieces run.               *)

CallStep ==
  /\ Idle /\ UNCHANGED <<stage, threadVars>>
  /\ TypeOK' /\ Brought(todo)'
  /\ \A d \in Dirs : bits'[d] = bits[d] \/ (bits'[d] \subseteq bits[d] /\ Pending(d)')
  /\ "VOICE" \in bits'["playback"] => "VOICE" \in bits["playback"]
  /\ "VOICE" \in bits'["playback"] /\ "VOICE" \in bits["recording"] => "VOICE" \in bits'["recording"]
  /\ \A c \in pend' : c[1] \in open' \cup (listed' \ leaving')
  /\ \A b \in bits'["playback"] : InUse(b)'

LEMMA CallTypes ==
  ASSUME TypeOK, UNCHANGED <<stage, routeVars, threadVars>>,
         todo' \in Seq(Pieces), caller' \in Music \cup Recs \cup {"hal"},
         bits' \in [Dirs -> SUBSET UNION {Bits[d] : d \in Dirs}],
         \A d \in Dirs : bits'[d] \subseteq Bits[d],
         listed' \subseteq Listable, before' \subseteq listed' \X listed',
         leaving' \subseteq Listable \ {"voice"},
         open' \subseteq Music \cup Recs, pend' \subseteq Checkers
  PROVE  TypeOK'
BY DEF TypeOK, routeVars, threadVars, handleVars, eventVars, pastVars

\* Calls whose pieces are neither a call's starts nor the end of recording.
LEMMA Plain ==
  ASSUME NEW q \in Seq(Pieces),
         \A i \in 1 .. Len(q) : q[i] # StartBit("playback", "VOICE") /\ q[i] # Close("recording")
  PROVE  Ordered(q)
BY DEF Ordered

\* The exits and the end of a routing are no ordered pieces.
LEMMA Exits ==
  /\ \A d : CloseIfIdle(d) # StartBit("playback", "VOICE") /\ CloseIfIdle(d) # Close("recording")
  /\ \A dev : Arrive(dev) # StartBit("playback", "VOICE") /\ Arrive(dev) # Close("recording")
<1>1. \A d : CloseIfIdle(d).do = "idle" BY DEF CloseIfIdle
<1>2. \A dev : Arrive(dev).do = "arrive" BY DEF Arrive
<1>3. StartBit("playback", "VOICE").do = "start" /\ Close("recording").do = "close"
  BY DEF StartBit, Close
<1> QED BY <1>1, <1>2, <1>3

LEMMA Literals ==
  ASSUME NEW p \in Pieces, NEW r \in Pieces, NEW t \in Pieces
  PROVE  /\ <<p>> \in Seq(Pieces) /\ <<p, r>> \in Seq(Pieces) /\ <<p, r, t>> \in Seq(Pieces)
         /\ 1 .. Len(<<p>>) = {1} /\ 1 .. Len(<<p, r>>) = {1, 2} /\ 1 .. Len(<<p, r, t>>) = {1, 2, 3}
OBVIOUS

\* Users of the headset and what stands for them are told apart.
LEMMA Users ==
  ASSUME TypeOK
  PROVE  /\ \A s \in Music \cup Recs : s \notin listed /\ s \notin {"lpa", "voice", "voip", "capture"}
         /\ \A u \in {"lpa", "voice", "voip", "capture"} : u \notin open
         /\ \A c \in pend : \/ c[1] \in Music /\ c[2] = "playback"
                            \/ c[1] \in Recs /\ c[2] = "recording"
                            \/ c[1] = "voip" /\ c[2] \in Dirs
         /\ Music \cap Recs = {}
BY StreamsAssumption, ListableAssumption DEF TypeOK, Checkers

LEMMA FirstTransferCall ==
  ASSUME IInv, NEW s \in Music \cup Recs, FirstTransfer(s)
  PROVE  CallStep
<1> DEFINE p == StartBit(DirOf(s), BitOf(s))
<1>1. TypeOK /\ UseInv BY DEF IInv
<1>2. /\ Idle /\ UNCHANGED <<stage, routeVars, threadVars, leaving, bits, listed, before, pend>>
      /\ caller' \in {"hal", s} /\ open' = open \cup {s} /\ todo' \in {<<>>, <<p>>}
  BY DEF FirstTransfer, Call
<1>3. p \in Pieces /\ BitOf(s) \in {"MUSIC", "REC"} BY PieceFacts, BitFacts
<1>4. /\ todo' \in Seq(Pieces)
      /\ \A i \in 1 .. Len(todo') : todo'[i] = p
  <2>1. CASE todo' = <<>> BY <2>1
  <2>2. CASE todo' = <<p>>
    <3> HIDE DEF p
    <3> QED BY <1>3, <2>2, Literals
  <2> QED BY <1>2, <2>1, <2>2
<1>5. TypeOK' BY <1>1, <1>2, <1>4, CallTypes DEF TypeOK
<1>6. Ordered(todo') BY <1>3, <1>4, Plain DEF StartBit, Close
<1>7. BitOf(s) = "MUSIC" => s \in Music BY BitFacts
<1>8. Brought(todo)' BY <1>2, <1>3, <1>4, <1>6, <1>7 DEF Brought, InUse, StartBit
<1>9. /\ \A c \in pend' : c[1] \in open' \cup (listed' \ leaving')
      /\ \A b \in bits'["playback"] : InUse(b)'
  BY <1>1, <1>2 DEF UseInv, InUse
<1> QED BY <1>2, <1>5, <1>8, <1>9 DEF CallStep, TypeOK

LEMMA TransferStartsCall ==
  ASSUME IInv, NEW c \in Checkers, TransferStarts(c[1], c[2])
  PROVE  CallStep
<1> DEFINE p == StartBit(c[2], BitOf(c[1]))
<1>1. TypeOK /\ UseInv BY DEF IInv
<1>2. /\ Idle /\ UNCHANGED <<stage, routeVars, threadVars, leaving, bits, listed, before, open>>
      /\ caller' \in {"hal", IF c[1] \in open THEN c[1] ELSE "hal"} /\ todo' = <<p>>
      /\ pend' \subseteq pend /\ <<c[1], c[2]>> \in pend
  BY DEF TransferStarts, Call
<1>3. caller' \in Music \cup Recs \cup {"hal"} BY <1>1, <1>2 DEF TypeOK
<1>4. \/ c[1] \in Music /\ c[2] = "playback" /\ BitOf(c[1]) = "MUSIC" /\ c[1] \in open
      \/ c[1] \in Recs /\ c[2] = "recording" /\ BitOf(c[1]) = "REC"
      \/ c[1] = "voip" /\ c[2] \in Dirs /\ BitOf(c[1]) = "VOIP" /\ "voip" \in listed
  <2>1. c[1] \in open \cup (listed \ leaving)
    <3>1. \A e \in pend : e[1] \in open \cup (listed \ leaving) BY <1>1 DEF UseInv
    <3> QED BY <1>2, <3>1
  <2>2. \/ c[1] \in Music /\ c[2] = "playback"
        \/ c[1] \in Recs /\ c[2] = "recording"
        \/ c[1] = "voip" /\ c[2] \in Dirs
    BY DEF Checkers
  <2> QED BY <1>1, <2>1, <2>2, BitFacts, Users
<1>5. p \in Pieces /\ InUse(BitOf(c[1]))' BY <1>2, <1>4, PieceFacts, BitFacts DEF InUse
<1>6. todo' \in Seq(Pieces) /\ \A i \in 1 .. Len(todo') : todo'[i] = p
  <2> HIDE DEF p
  <2> QED BY <1>2, <1>5, Literals
<1>7. TypeOK' BY <1>1, <1>2, <1>3, <1>6, CallTypes DEF TypeOK
<1>8. Ordered(todo')
  <2>1. p # StartBit("playback", "VOICE") /\ p # Close("recording") BY <1>4 DEF StartBit, Close
  <2> HIDE DEF p
  <2> QED BY <1>6, <2>1, Plain
<1>9. Brought(todo)' BY <1>5, <1>6, <1>8 DEF Brought, StartBit
<1>10. /\ \A e \in pend' : e[1] \in open' \cup (listed' \ leaving')
       /\ \A b \in bits'["playback"] : InUse(b)'
  BY <1>1, <1>2 DEF UseInv, InUse
<1> QED BY <1>2, <1>7, <1>9, <1>10 DEF CallStep, TypeOK

LEMMA StandbyCall ==
  ASSUME IInv, NEW s \in Music \cup Recs, Standby(s)
  PROVE  CallStep
<1> DEFINE e == DirOf(s)
           p == CloseIfIdle(e)
<1>1. TypeOK /\ UseInv BY DEF IInv
<1>2. /\ Idle /\ UNCHANGED <<stage, routeVars, threadVars, leaving, listed, before, pend>>
      /\ caller' \in {"hal", s} /\ open' = open \ {s} /\ todo' = <<p>> /\ <<s, e>> \notin pend
      /\ bits' = [bits EXCEPT ![e] = @ \ {BitOf(s)}]
  BY DEF Standby, Call
<1>3. p \in Pieces /\ e \in Dirs BY PieceFacts, BitFacts
<1>4. todo' \in Seq(Pieces) /\ 1 .. Len(todo') = {1} /\ todo'[1] = p
  <2> HIDE DEF p
  <2> QED BY <1>2, <1>3, Literals
<1>5. /\ bits' \in [Dirs -> SUBSET UNION {Bits[d] : d \in Dirs}]
      /\ \A d \in Dirs : bits'[d] \subseteq Bits[d] /\ bits'[d] \subseteq bits[d] /\ (d # e => bits'[d] = bits[d])
      /\ bits'[e] = bits[e] \ {BitOf(s)}
  <2> HIDE DEF e
  <2> QED BY <1>1, <1>2, <1>3 DEF TypeOK
<1>6. TypeOK' BY <1>1, <1>2, <1>4, <1>5, CallTypes DEF TypeOK
<1>7. Ordered(todo')
  <2>1. \A i \in 1 .. Len(todo') : todo'[i] # StartBit("playback", "VOICE") /\ todo'[i] # Close("recording")
    BY <1>4, Exits
  <2> QED BY <1>4, <2>1, Plain
<1>8. Brought(todo)' BY <1>4, <1>7 DEF Brought, CloseIfIdle
<1>9. Pending(e)' BY <1>4 DEF Pending, Places
<1>10. \A c \in pend' : c[1] \in open' \cup (listed' \ leaving')
  <2> SUFFICES ASSUME NEW c \in pend PROVE c[1] \in (open \ {s}) \cup (listed \ leaving) BY <1>2
  <2>1. c[1] # s
    <3> SUFFICES ASSUME c[1] = s PROVE FALSE OBVIOUS
    <3>1. c = <<c[1], c[2]>> BY <1>1 DEF TypeOK, Checkers
    <3>2. c[2] = e BY <1>1, Users, BitFacts
    <3> QED BY <1>2, <3>1, <3>2
  <2> QED BY <1>1, <2>1 DEF UseInv
<1>11. \A b \in bits'["playback"] : InUse(b)'
  <2>1. CASE s \in Music
    <3>1. \A b \in bits'["playback"] : InUse(b) /\ b # "MUSIC" BY <1>1, <1>5, <2>1, BitFacts DEF UseInv
    <3> QED BY <1>2, <3>1 DEF InUse
  <2>2. CASE s \in Recs
    <3>1. \A b \in bits'["playback"] : InUse(b) BY <1>1, <1>5, BitFacts DEF UseInv
    <3>2. Music \cap open' = Music \cap open BY <1>1, <1>2, <2>2, Users
    <3> QED BY <1>2, <3>1, <3>2 DEF InUse
  <2> QED BY <2>1, <2>2
<1>12. "VOICE" \in bits'["playback"] /\ "VOICE" \in bits["recording"] => "VOICE" \in bits'["recording"]
  BY <1>5, BitFacts
<1> QED BY <1>2, <1>3, <1>5, <1>6, <1>8, <1>9, <1>10, <1>11, <1>12, BitFacts DEF CallStep

LEMMA OpenSessionCall ==
  ASSUME IInv, NEW dev \in Outputs, OpenSession(dev)
  PROVE  CallStep
<1> DEFINE p == StartBit("playback", "LPA")
<1>1. TypeOK /\ UseInv BY DEF IInv
<1>2. /\ Idle /\ UNCHANGED <<stage, routeVars, threadVars, leaving, bits, open, pend>>
      /\ caller' = "hal" /\ todo' \in {<<>>, <<p>>}
      /\ "lpa" \in Listable /\ listed' = listed \cup {"lpa"} /\ before' = before \cup (listed \X {"lpa"})
  BY DEF OpenSession, StartsSession, PushBack, Call
<1>3. p \in Pieces BY PieceFacts, BitFacts
<1>4. todo' \in Seq(Pieces) /\ \A i \in 1 .. Len(todo') : todo'[i] = p
  <2>1. CASE todo' = <<>> BY <2>1
  <2>2. CASE todo' = <<p>>
    <3> HIDE DEF p
    <3> QED BY <1>3, <2>2, Literals
  <2> QED BY <1>2, <2>1, <2>2
<1>5. TypeOK' BY <1>1, <1>2, <1>4, CallTypes DEF TypeOK
<1>6. Ordered(todo') BY <1>4, Plain DEF StartBit, Close
<1>7. Brought(todo)' BY <1>2, <1>4, <1>6 DEF Brought, InUse, StartBit
<1>8. /\ \A c \in pend' : c[1] \in open' \cup (listed' \ leaving')
      /\ \A b \in bits'["playback"] : InUse(b)'
  BY <1>1, <1>2 DEF UseInv, InUse
<1> QED BY <1>2, <1>5, <1>7, <1>8 DEF CallStep, TypeOK

LEMMA SessionFailsCall ==
  ASSUME IInv, NEW dev \in Outputs, SessionFails(dev)
  PROVE  CallStep
<1> DEFINE p == StartBit("playback", "LPA")
<1>1. TypeOK /\ UseInv BY DEF IInv
<1>2. /\ Idle /\ UNCHANGED <<stage, routeVars, threadVars, bits, listed, before, open, pend>>
      /\ caller' = "hal" /\ todo' \in {<<>>, <<p>>}
      /\ "lpa" \in Listable /\ leaving' = leaving \cup {"lpa"}
  BY DEF SessionFails, StartsSession, Call
<1>3. p \in Pieces BY PieceFacts, BitFacts
<1>4. todo' \in Seq(Pieces) /\ \A i \in 1 .. Len(todo') : todo'[i] = p
  <2>1. CASE todo' = <<>> BY <2>1
  <2>2. CASE todo' = <<p>>
    <3> HIDE DEF p
    <3> QED BY <1>3, <2>2, Literals
  <2> QED BY <1>2, <2>1, <2>2
<1>5. TypeOK' BY <1>1, <1>2, <1>4, CallTypes DEF TypeOK
<1>6. Ordered(todo') BY <1>4, Plain DEF StartBit, Close
<1>7. Brought(todo)' BY <1>2, <1>4, <1>6 DEF Brought, InUse, StartBit
<1>8. /\ \A c \in pend' : c[1] \in open' \cup (listed' \ leaving')
      /\ \A b \in bits'["playback"] : InUse(b)'
  BY <1>1, <1>2, Users DEF UseInv, InUse
<1> QED BY <1>2, <1>5, <1>7, <1>8 DEF CallStep, TypeOK

LEMMA ResetFailedCall ==
  ASSUME IInv, ResetFailed
  PROVE  CallStep
<1> DEFINE p == CloseIfIdle("playback")
<1>1. TypeOK /\ UseInv BY DEF IInv
<1>2. /\ Idle /\ UNCHANGED <<stage, routeVars, threadVars, bits, listed, before, open, pend>>
      /\ caller' = "hal" /\ todo' = <<p>>
      /\ bits["playback"] = {} /\ leaving' = leaving \ {"lpa"}
  BY DEF ResetFailed, Call
<1>3. p \in Pieces BY PieceFacts, BitFacts
<1>4. todo' \in Seq(Pieces) /\ 1 .. Len(todo') = {1} /\ todo'[1] = p
  <2> HIDE DEF p
  <2> QED BY <1>2, <1>3, Literals
<1>5. TypeOK' BY <1>1, <1>2, <1>4, CallTypes DEF TypeOK
<1>6. Ordered(todo')
  <2>1. \A i \in 1 .. Len(todo') : todo'[i] # StartBit("playback", "VOICE") /\ todo'[i] # Close("recording")
    BY <1>4, Exits
  <2> QED BY <1>4, <2>1, Plain
<1>7. Brought(todo)' BY <1>4, <1>6 DEF Brought, CloseIfIdle
<1>8. \A c \in pend' : c[1] \in open' \cup (listed' \ leaving') BY <1>1, <1>2 DEF UseInv
<1> QED BY <1>2, <1>5, <1>7, <1>8 DEF CallStep

LEMMA ResetCall ==
  ASSUME IInv, Reset
  PROVE  CallStep
<1> DEFINE p == CloseIfIdle("playback")
<1>1. TypeOK /\ UseInv BY DEF IInv
<1>2. /\ Idle /\ UNCHANGED <<stage, routeVars, threadVars, leaving, open, pend>>
      /\ caller' = "hal" /\ todo' = <<p>>
      /\ listed' = listed \ {"lpa"} /\ before' = before \ (({"lpa"} \X listed) \cup (listed \X {"lpa"}))
      /\ bits' = [bits EXCEPT !["playback"] = @ \ {"LPA"}]
  BY DEF Reset, Erase, Call
<1>3. p \in Pieces BY PieceFacts, BitFacts
<1>4. todo' \in Seq(Pieces) /\ 1 .. Len(todo') = {1} /\ todo'[1] = p
  <2> HIDE DEF p
  <2> QED BY <1>2, <1>3, Literals
<1>5. /\ bits' \in [Dirs -> SUBSET UNION {Bits[d] : d \in Dirs}]
      /\ \A d \in Dirs : bits'[d] \subseteq Bits[d] /\ bits'[d] \subseteq bits[d]
      /\ bits'["playback"] = bits["playback"] \ {"LPA"} /\ bits'["recording"] = bits["recording"]
  BY <1>1, <1>2, BitFacts DEF TypeOK
<1>6. listed' \subseteq Listable /\ before' \subseteq listed' \X listed' BY <1>1, <1>2 DEF TypeOK
<1>7. TypeOK' BY <1>1, <1>2, <1>4, <1>5, <1>6, CallTypes DEF TypeOK
<1>8. Ordered(todo')
  <2>1. \A i \in 1 .. Len(todo') : todo'[i] # StartBit("playback", "VOICE") /\ todo'[i] # Close("recording")
    BY <1>4, Exits
  <2> QED BY <1>4, <2>1, Plain
<1>9. Brought(todo)' BY <1>4, <1>8 DEF Brought, CloseIfIdle
<1>10. Pending("playback")' BY <1>4 DEF Pending, Places
<1>11. \A c \in pend' : c[1] \in open' \cup (listed' \ leaving') BY <1>1, <1>2, Users DEF UseInv
<1>12. \A b \in bits'["playback"] : InUse(b)' BY <1>1, <1>2, <1>5 DEF UseInv, InUse
<1> QED BY <1>2, <1>5, <1>7, <1>9, <1>10, <1>11, <1>12, BitFacts DEF CallStep

LEMMA OpenVoipCall ==
  ASSUME IInv, OpenVoip
  PROVE  CallStep
<1> DEFINE p == StartBit("playback", "VOIP")
           r == StartBit("recording", "VOIP")
<1>1. TypeOK /\ UseInv BY DEF IInv
<1>2. /\ Idle /\ UNCHANGED <<stage, routeVars, threadVars, leaving, bits, open, pend>>
      /\ caller' = "hal" /\ todo' \in {<<>>, <<p, r>>}
      /\ "voip" \in Listable /\ listed' = listed \cup {"voip"} /\ before' = before \cup (listed \X {"voip"})
  BY DEF OpenVoip, PushBack, Call
<1>3. p \in Pieces /\ r \in Pieces BY PieceFacts, BitFacts
<1>4. todo' \in Seq(Pieces) /\ \A i \in 1 .. Len(todo') : todo'[i] \in {p, r}
  <2>1. CASE todo' = <<>> BY <2>1
  <2>2. CASE todo' = <<p, r>>
    <3> HIDE DEF p, r
    <3> QED BY <1>3, <2>2, Literals
  <2> QED BY <1>2, <2>1, <2>2
<1>5. TypeOK' BY <1>1, <1>2, <1>4, CallTypes DEF TypeOK
<1>6. Ordered(todo') BY <1>4, Plain DEF StartBit, Close
<1>7. Brought(todo)' BY <1>2, <1>4, <1>6 DEF Brought, InUse, StartBit
<1>8. /\ \A c \in pend' : c[1] \in open' \cup (listed' \ leaving')
      /\ \A b \in bits'["playback"] : InUse(b)'
  BY <1>1, <1>2 DEF UseInv, InUse
<1> QED BY <1>2, <1>5, <1>7, <1>8 DEF CallStep, TypeOK

\* A call that starts nothing, and adds neither a write nor a bit.
LEMMA EmptyCall ==
  ASSUME IInv, Idle, UNCHANGED <<stage, routeVars, threadVars, bits, open, pend>>,
         caller' = "hal", todo' = <<>>,
         listed' \subseteq Listable, before' \subseteq listed' \X listed',
         leaving' \subseteq Listable \ {"voice"},
         \A u \in {"lpa", "voice"} : u \in listed \cup leaving => u \in listed' \cup leaving',
         "voice" \in listed => "voice" \in listed',
         \A c \in pend : c[1] \in listed \ leaving => c[1] \in listed' \ leaving'
  PROVE  CallStep
<1>1. TypeOK /\ UseInv BY DEF IInv
<1>2. todo' \in Seq(Pieces) /\ \A i \in 1 .. Len(todo') : FALSE OBVIOUS
<1>3. TypeOK' BY <1>1, <1>2, CallTypes DEF TypeOK
<1>4. Brought(todo)' BY <1>2 DEF Brought, Ordered
<1>5. /\ \A c \in pend' : c[1] \in open' \cup (listed' \ leaving')
      /\ \A b \in bits'["playback"] : InUse(b)'
  BY <1>1 DEF UseInv, InUse
<1> QED BY <1>3, <1>4, <1>5 DEF CallStep, TypeOK

LEMMA ReopenVoipCall ==
  ASSUME IInv, ReopenVoip
  PROVE  CallStep
<1>1. TypeOK BY DEF IInv
<1>2. /\ Idle /\ UNCHANGED <<stage, routeVars, threadVars, bits, listed, before, open, pend>>
      /\ caller' = "hal" /\ todo' = <<>> /\ leaving' = leaving \ {"voip"}
  BY DEF ReopenVoip, Call
<1> QED BY <1>1, <1>2, EmptyCall DEF TypeOK

LEMMA OpenCaptureCall ==
  ASSUME IInv, OpenCapture
  PROVE  CallStep
<1>1. TypeOK BY DEF IInv
<1>2. /\ Idle /\ UNCHANGED <<stage, routeVars, threadVars, leaving, bits, open, pend>>
      /\ caller' = "hal" /\ todo' = <<>> /\ "capture" \in Listable
      /\ listed' = listed \cup {"capture"} /\ before' = before \cup (listed \X {"capture"})
  BY DEF OpenCapture, PushBack, Call
<1> QED BY <1>1, <1>2, EmptyCall DEF TypeOK

LEMMA CloseVoipCall ==
  ASSUME IInv, CloseVoip
  PROVE  CallStep
<1> DEFINE p == CloseIfIdle("playback")
           r == CloseIfIdle("recording")
<1>1. TypeOK /\ UseInv BY DEF IInv
<1>2. /\ Idle /\ UNCHANGED <<stage, routeVars, threadVars, listed, before, open, pend>>
      /\ caller' = "hal" /\ todo' = <<p, r>> /\ pend \cap ({"voip"} \X Dirs) = {}
      /\ "voip" \in listed /\ leaving' = leaving \cup {"voip"}
      /\ bits' = [d \in Dirs |-> bits[d] \ {"VOIP"}]
  BY DEF CloseVoip, Call
<1>3. p \in Pieces /\ r \in Pieces BY PieceFacts, BitFacts
<1>4. todo' \in Seq(Pieces) /\ 1 .. Len(todo') = {1, 2} /\ todo'[1] = p /\ todo'[2] = r
  <2> HIDE DEF p, r
  <2> QED BY <1>2, <1>3, Literals
<1>5. /\ bits' \in [Dirs -> SUBSET UNION {Bits[d] : d \in Dirs}]
      /\ \A d \in Dirs : bits'[d] \subseteq Bits[d] /\ bits'[d] = bits[d] \ {"VOIP"}
  BY <1>1, <1>2 DEF TypeOK
<1>6. TypeOK' BY <1>1, <1>2, <1>4, <1>5, CallTypes DEF TypeOK
<1>7. Ordered(todo')
  <2>1. \A i \in 1 .. Len(todo') : todo'[i] # StartBit("playback", "VOICE") /\ todo'[i] # Close("recording")
    BY <1>4, Exits
  <2> QED BY <1>4, <2>1, Plain
<1>8. Brought(todo)' BY <1>4, <1>7 DEF Brought, CloseIfIdle
<1>9. Pending("playback")' /\ Pending("recording")' BY <1>4 DEF Pending, Places
<1>10. \A c \in pend' : c[1] \in open' \cup (listed' \ leaving')
  <2> SUFFICES ASSUME NEW c \in pend PROVE c[1] \in open \cup (listed' \ leaving') BY <1>2
  <2>1. c = <<c[1], c[2]>> /\ c[2] \in Dirs BY <1>1, BitFacts DEF TypeOK, Checkers
  <2>2. c[1] # "voip" BY <1>2, <2>1
  <2> QED BY <1>1, <1>2, <2>2 DEF UseInv
<1>11. \A b \in bits'["playback"] : InUse(b)' BY <1>1, <1>2, <1>5, BitFacts DEF UseInv, InUse
<1> QED BY <1>2, <1>5, <1>6, <1>8, <1>9, <1>10, <1>11, BitFacts DEF CallStep

LEMMA DestroyCall ==
  ASSUME IInv, NEW u \in {"voip", "capture"}, Destroy(u)
  PROVE  CallStep
<1>1. TypeOK BY DEF IInv
<1>2. /\ Idle /\ UNCHANGED <<stage, routeVars, threadVars, bits, open, pend>>
      /\ caller' = "hal" /\ todo' = <<>> /\ u \in leaving
      /\ listed' = listed \ {u} /\ before' = before \ (({u} \X listed) \cup (listed \X {u}))
      /\ leaving' = leaving \ {u}
  BY DEF Destroy, Erase, Call
<1>3. \A c \in pend : c[1] \in listed \ leaving => c[1] \in listed' \ leaving' BY <1>2
<1>4. before' \subseteq listed' \X listed' BY <1>1, <1>2 DEF TypeOK
<1> QED BY <1>1, <1>2, <1>3, <1>4, EmptyCall DEF TypeOK

LEMMA CloseCaptureCall ==
  ASSUME IInv, CloseCapture
  PROVE  CallStep
<1> DEFINE p == CloseIfIdle("recording")
<1>1. TypeOK /\ UseInv BY DEF IInv
<1>2. /\ Idle /\ UNCHANGED <<stage, routeVars, threadVars, listed, before, open, pend>>
      /\ caller' = "hal" /\ todo' = <<p>>
      /\ "capture" \in listed /\ leaving' = leaving \cup {"capture"}
      /\ bits' = [bits EXCEPT !["recording"] = @ \ {"REC"}]
  BY DEF CloseCapture, Call
<1>3. p \in Pieces BY PieceFacts, BitFacts
<1>4. todo' \in Seq(Pieces) /\ 1 .. Len(todo') = {1} /\ todo'[1] = p
  <2> HIDE DEF p
  <2> QED BY <1>2, <1>3, Literals
<1>5. /\ bits' \in [Dirs -> SUBSET UNION {Bits[d] : d \in Dirs}]
      /\ \A d \in Dirs : bits'[d] \subseteq Bits[d] /\ bits'[d] \subseteq bits[d]
      /\ bits'["recording"] = bits["recording"] \ {"REC"} /\ bits'["playback"] = bits["playback"]
  BY <1>1, <1>2, BitFacts DEF TypeOK
<1>6. TypeOK' BY <1>1, <1>2, <1>4, <1>5, CallTypes DEF TypeOK
<1>7. Ordered(todo')
  <2>1. \A i \in 1 .. Len(todo') : todo'[i] # StartBit("playback", "VOICE") /\ todo'[i] # Close("recording")
    BY <1>4, Exits
  <2> QED BY <1>4, <2>1, Plain
<1>8. Brought(todo)' BY <1>4, <1>7 DEF Brought, CloseIfIdle
<1>9. Pending("recording")' BY <1>4 DEF Pending, Places
<1>10. \A c \in pend' : c[1] \in open' \cup (listed' \ leaving') BY <1>1, <1>2, Users DEF UseInv
<1>11. \A b \in bits'["playback"] : InUse(b)' BY <1>1, <1>2, <1>5 DEF UseInv, InUse
<1> QED BY <1>2, <1>5, <1>6, <1>8, <1>9, <1>10, <1>11, BitFacts DEF CallStep

LEMMA StartCallCall ==
  ASSUME IInv, NEW dev \in Outputs, StartCall(dev)
  PROVE  CallStep
<1> DEFINE p == StartBit("playback", "VOICE")
           r == StartBit("recording", "VOICE")
           a == Arrive(dev)
<1>1. TypeOK /\ UseInv BY DEF IInv
<1>2. PICK m \in {<<>>, <<r, p>>} :
        /\ Idle /\ UNCHANGED <<stage, routeVars, threadVars, leaving, bits, open, pend>>
        /\ caller' \in {"hal"} /\ todo' = Append(m, a)
        /\ "voice" \in Listable /\ listed' = listed \cup {"voice"}
        /\ before' = before \cup (listed \X {"voice"})
  BY BitFacts DEF StartCall, PushBack, Call, BothWays
<1>3. p \in Pieces /\ r \in Pieces /\ a \in Pieces BY PieceFacts, BitFacts
<1>4. /\ todo' \in Seq(Pieces) /\ \A i \in 1 .. Len(todo') : todo'[i] \in {p, r, a}
      /\ Ordered(todo')
  <2>1. m \in Seq(Pieces)
    <3> HIDE DEF p, r
    <3>1. CASE m = <<>> BY <3>1
    <3>2. CASE m = <<r, p>> BY <1>3, <3>2, Literals
    <3> QED BY <1>2, <3>1, <3>2
  <2>2. /\ todo' \in Seq(Pieces) /\ Len(todo') = Len(m) + 1
        /\ \A i \in 1 .. Len(m) : todo'[i] = m[i]
        /\ todo'[Len(m) + 1] = a
    <3> HIDE DEF p, r, a
    <3> QED BY <1>2, <1>3, <2>1, ArriveLast
  <2>3. CASE m = <<>>
    <3>1. 1 .. Len(todo') = {1} /\ todo'[1] = a BY <2>2, <2>3
    <3> QED BY <2>2, <3>1, Plain DEF StartBit, Close, Arrive
  <2>4. CASE m = <<r, p>>
    <3>1. 1 .. Len(todo') = {1, 2, 3} /\ todo'[1] = r /\ todo'[2] = p /\ todo'[3] = a
      <4> HIDE DEF p, r, a
      <4> QED BY <2>2, <2>4
    <3>2. \A i \in 1 .. Len(todo') : todo'[i] # Close("recording") BY <3>1 DEF StartBit, Close, Arrive
    <3>3. \A i \in 1 .. Len(todo') : todo'[i] = p => i = 2 BY <3>1 DEF StartBit, Arrive
    <3> QED BY <2>2, <3>1, <3>2, <3>3 DEF Ordered
  <2> QED BY <1>2, <2>3, <2>4
<1>5. TypeOK' BY <1>1, <1>2, <1>4, CallTypes DEF TypeOK
<1>6. Brought(todo)' BY <1>2, <1>4 DEF Brought, InUse, StartBit, Arrive
<1>7. /\ \A c \in pend' : c[1] \in open' \cup (listed' \ leaving')
      /\ \A b \in bits'["playback"] : InUse(b)'
  BY <1>1, <1>2 DEF UseInv, InUse
<1> QED BY <1>2, <1>5, <1>6, <1>7 DEF CallStep, TypeOK

LEMMA EndCallCall ==
  ASSUME IInv, NEW dev \in Outputs, EndCall(dev)
  PROVE  CallStep
<1> DEFINE p == CloseIfIdle("playback")
           r == CloseIfIdle("recording")
           a == Arrive(dev)
<1>1. TypeOK /\ UseInv BY DEF IInv
<1>2. /\ Idle /\ UNCHANGED <<stage, routeVars, threadVars, leaving, open, pend>>
      /\ caller' \in {"hal"}
      /\ listed' = listed \ {"voice"} /\ before' = before \ (({"voice"} \X listed) \cup (listed \X {"voice"}))
      /\ \/ bits' = [d \in Dirs |-> bits[d] \ {"VOICE"}] /\ todo' = <<r, p, a>>
         \/ "VOICE" \notin bits["playback"] /\ bits' = bits /\ todo' = <<a>>
  BY DEF EndCall, Erase, Call
<1>3. p \in Pieces /\ r \in Pieces /\ a \in Pieces BY PieceFacts, BitFacts
<1>4. todo' \in Seq(Pieces) /\ \A i \in 1 .. Len(todo') : todo'[i] \in {p, r, a}
  <2> HIDE DEF p, r, a
  <2>1. CASE todo' = <<r, p, a>> BY <1>3, <2>1, Literals
  <2>2. CASE todo' = <<a>> BY <1>3, <2>2, Literals
  <2> QED BY <1>2, <2>1, <2>2
<1>5. /\ bits' \in [Dirs -> SUBSET UNION {Bits[d] : d \in Dirs}]
      /\ \A d \in Dirs : bits'[d] \subseteq Bits[d] /\ bits'[d] \subseteq bits[d]
      /\ \/ \A d \in Dirs : bits'[d] = bits[d] \ {"VOICE"}
         \/ "VOICE" \notin bits["playback"] /\ \A d \in Dirs : bits'[d] = bits[d]
  BY <1>1, <1>2 DEF TypeOK
<1>6. listed' \subseteq Listable /\ before' \subseteq listed' \X listed' BY <1>1, <1>2 DEF TypeOK
<1>7. TypeOK' BY <1>1, <1>2, <1>4, <1>5, <1>6, CallTypes DEF TypeOK
<1>8. Ordered(todo')
  <2>1. \A i \in 1 .. Len(todo') : todo'[i] # StartBit("playback", "VOICE") /\ todo'[i] # Close("recording")
    BY <1>4, Exits
  <2> QED BY <1>4, <2>1, Plain
<1>9. Brought(todo)' BY <1>4, <1>8 DEF Brought, CloseIfIdle, Arrive
<1>10. bits' = bits \/ (Pending("playback")' /\ Pending("recording")')
  <2>1. CASE todo' = <<r, p, a>>
    <3>1. 1 .. Len(todo') = {1, 2, 3} /\ todo'[1] = r /\ todo'[2] = p
      <4> HIDE DEF p, r, a
      <4> QED BY <1>3, <2>1, Literals
    <3> QED BY <3>1 DEF Pending, Places
  <2> QED BY <1>2, <2>1
<1>11. \A c \in pend' : c[1] \in open' \cup (listed' \ leaving') BY <1>1, <1>2, Users DEF UseInv
<1>12. \A b \in bits'["playback"] : InUse(b)' BY <1>1, <1>2, <1>5, BitFacts DEF UseInv, InUse
<1> QED BY <1>2, <1>5, <1>7, <1>9, <1>10, <1>11, <1>12, BitFacts DEF CallStep

LEMMA RouteCall ==
  ASSUME IInv, NEW dev \in Outputs \cup Inputs, NEW mode, Route(dev, mode)
  PROVE  CallStep
<1> DEFINE q == Append(Moves(dev, mode), Arrive(dev))
<1>1. TypeOK /\ UseInv BY DEF IInv
<1>2. /\ Idle /\ UNCHANGED <<stage, routeVars, threadVars, bits, userVars>>
      /\ caller' \in {"hal"} /\ todo' = q
  BY DEF Route, Call
<1>3. Brought(q) BY <1>1, RoutedBrought
<1> HIDE DEF q
<1>4. TypeOK'
  BY <1>1, <1>2, <1>3, CallTypes DEF TypeOK, Brought, userVars
<1>5. Brought(todo)' BY <1>2, <1>3 DEF Brought, InUse, userVars
<1>6. /\ \A c \in pend' : c[1] \in open' \cup (listed' \ leaving')
      /\ \A b \in bits'["playback"] : InUse(b)'
  BY <1>1, <1>2 DEF UseInv, InUse, userVars
<1> QED BY <1>2, <1>4, <1>5, <1>6 DEF CallStep, TypeOK

LEMMA CallKeeps ==
  ASSUME IInv, ~Lost, CallStep
  PROVE  IInv'
<1>1. TypeOK /\ StageInv /\ ThreadInv /\ BothInv BY DEF IInv
<1>2. /\ Idle /\ UNCHANGED <<stage, kill, tid, pc, usb, proxy, event, signal, failed, overtaken>>
      /\ TypeOK' /\ Brought(todo)'
  BY DEF CallStep, threadVars, handleVars, eventVars, pastVars
<1>3. Places = {} BY <1>2, EmptySeq DEF Idle, Places
<1>4. StageInv' BY <1>1, <1>2 DEF StageInv
<1>5. ThreadInv'
  <2> SUFFICES ASSUME NEW d \in Dirs
               PROVE  (overtaken[d] \/
                         /\ Alive(d) => tid[d]
                         /\ pc[d] = "loop" => usb[d] /\ proxy[d]
                         /\ event[d] => d = "playback" /\ pc[d] \in {"loop", "end"}
                         /\ signal[d] => kill[d] /\ event[d]
                         /\ bits[d] = {} => Quiet(d) \/ Pending(d)
                         /\ bits[d] # {} /\ ~failed[d] => pc[d] \in {"new", "loop"} /\ ~kill[d])'
    BY DEF ThreadInv
  <2>1. bits'[d] = bits[d] \/ (bits'[d] \subseteq bits[d] /\ Pending(d)') BY DEF CallStep
  <2>2. ~Pending(d) BY <1>3 DEF Pending
  <2>3. Quiet(d)' = Quiet(d) /\ Alive(d)' = Alive(d) BY <1>2 DEF Quiet, Alive
  <2>4. ~overtaken[d] BY DEF Lost
  <2> QED BY <1>1, <1>2, <2>1, <2>2, <2>3, <2>4 DEF ThreadInv
<1>6. UseInv' BY <1>2 DEF CallStep, Brought, UseInv, Places
<1>7. BothInv'
  <2>1. "VOICE" \in bits["playback"] => "VOICE" \in bits["recording"] BY <1>1, <1>3 DEF BothInv
  <2>2. "VOICE" \in bits'["playback"] => "VOICE" \in bits'["recording"] BY <2>1 DEF CallStep
  <2>3. Ordered(todo') BY <1>2 DEF Brought
  <2> QED BY <2>2, <2>3 DEF BothInv, Ordered, Places
<1> QED BY <1>2, <1>4, <1>5, <1>6, <1>7 DEF IInv

-----------------------------------------------------------------------------
(* The pieces of a call, and the threads.                                    *)

\* The part of ThreadInv about one direction.
ThreadPart(d) ==
  /\ Alive(d) => tid[d]
  /\ pc[d] = "loop" => usb[d] /\ proxy[d]
  /\ event[d] => d = "playback" /\ pc[d] \in {"loop", "end"}
  /\ signal[d] => kill[d] /\ event[d]
  /\ bits[d] = {} => Quiet(d) \/ Pending(d)
  /\ bits[d] # {} /\ ~failed[d] => pc[d] \in {"new", "loop"} /\ ~kill[d]

LEMMA Parts ==
  /\ ThreadInv <=> \A d \in Dirs : overtaken[d] \/ ThreadPart(d)
  /\ ThreadInv' <=> \A d \in Dirs : overtaken'[d] \/ ThreadPart(d)'
BY DEF ThreadInv, ThreadPart

\* What a step of the other direction, or of the call, leaves as it is.
LEMMA PartKept ==
  ASSUME NEW d \in Dirs, ThreadPart(d), Pending(d) => Pending(d)', bits'[d] = bits[d],
         kill'[d] = kill[d], tid'[d] = tid[d], pc'[d] = pc[d], usb'[d] = usb[d],
         proxy'[d] = proxy[d], event'[d] = event[d], signal'[d] = signal[d], failed'[d] = failed[d]
  PROVE  ThreadPart(d)'
BY DEF ThreadPart, Quiet, Alive

LEMMA ThreadKeeps ==
  ASSUME IInv, ~Lost, NEW d \in Dirs, ThreadStep(d) \/ WakeByData(d)
  PROVE  IInv'
<1>1. TypeOK /\ StageInv /\ UseInv /\ BothInv /\ ThreadPart(d) BY Parts DEF IInv, Lost
<1>2. /\ UNCHANGED <<bits, mCurDevice, mCurRxDevice, listed, before, leaving, open, pend, caller, todo, stage, overtaken>>
      /\ \A e \in Dirs : kill[e] => kill'[e]
      /\ TypeOK'
  <2>1. CASE SetupFails(d) BY <1>1, <2>1 DEF SetupFails, Stop, Goto, HalVars, routeVars, userVars, callVars, eventVars, handleVars, TypeOK
  <2>2. CASE Setup(d) BY <1>1, <2>2 DEF Setup, Goto, HalVars, routeVars, userVars, callVars, eventVars, pastVars, TypeOK
  <2>3. CASE LoopFails(d) BY <1>1, <2>3 DEF LoopFails, Stop, Goto, HalVars, routeVars, userVars, callVars, eventVars, handleVars, TypeOK
  <2>4. CASE WakeByData(d) BY <1>1, <2>4 DEF WakeByData, Goto, HalVars, routeVars, userVars, callVars, eventVars, handleVars, pastVars, TypeOK
  <2>5. CASE WakeByEvent(d) BY <1>1, <2>5 DEF WakeByEvent, Goto, HalVars, routeVars, userVars, callVars, handleVars, pastVars, TypeOK
  <2>6. CASE CloseEvents(d) BY <1>1, <2>6 DEF CloseEvents, Goto, HalVars, routeVars, userVars, callVars, handleVars, pastVars, TypeOK
  <2>7. CASE End(d) BY <1>1, <2>7 DEF End, Goto, HalVars, routeVars, userVars, callVars, handleVars, eventVars, pastVars, TypeOK
  <2> QED BY <2>1, <2>2, <2>3, <2>4, <2>5, <2>6, <2>7 DEF ThreadStep
<1>3. Places' = Places /\ \A e \in Dirs : Pending(e)' <=> Pending(e) BY <1>2 DEF Places, Pending
<1>4. StageInv' /\ UseInv' /\ BothInv'
  <2>1. StageInv'
    <3>1. CASE stage = "join"
      <4>1. todo[1].dir \in Dirs BY <1>1, <3>1, JoinFacts
      <4> QED BY <1>1, <1>2, <4>1 DEF StageInv, Idle
    <3> QED BY <1>2, <3>1 DEF StageInv
  <2>2. UseInv' BY <1>1, <1>2 DEF UseInv, InUse, Places
  <2>3. BothInv' BY <1>1, <1>2 DEF BothInv, Places
  <2> QED BY <2>1, <2>2, <2>3
<1>5. ASSUME NEW e \in Dirs, e # d PROVE ThreadPart(e)'
  <2>1. ThreadPart(e) BY Parts DEF IInv, Lost
  <2>2. /\ kill'[e] = kill[e] /\ tid'[e] = tid[e] /\ pc'[e] = pc[e] /\ usb'[e] = usb[e] /\ proxy'[e] = proxy[e]
        /\ event'[e] = event[e] /\ signal'[e] = signal[e] /\ failed'[e] = failed[e]
    BY <1>1, <1>5 DEF ThreadStep, SetupFails, Setup, LoopFails, WakeByData, WakeByEvent, CloseEvents, End,
                 Stop, Goto, HalVars, eventVars, handleVars, pastVars, TypeOK
  <2> QED BY <1>2, <1>3, <2>1, <2>2, PartKept
<1>6. ThreadPart(d)'
  <2> USE <1>1, <1>2, <1>3
  <2>1. CASE SetupFails(d) BY <2>1 DEF SetupFails, Stop, Goto, eventVars, TypeOK, ThreadPart, Quiet, Alive
  <2>2. CASE Setup(d) BY <2>2, BitFacts DEF Setup, Goto, eventVars, pastVars, TypeOK, ThreadPart, Quiet, Alive
  <2>3. CASE LoopFails(d) BY <2>3 DEF LoopFails, Stop, Goto, eventVars, handleVars, TypeOK, ThreadPart, Quiet, Alive
  <2>4. CASE WakeByData(d) BY <2>4 DEF WakeByData, Goto, eventVars, handleVars, pastVars, TypeOK, ThreadPart, Quiet, Alive
  <2>5. CASE WakeByEvent(d) BY <2>5 DEF WakeByEvent, Goto, handleVars, pastVars, TypeOK, ThreadPart, Quiet, Alive
  <2>6. CASE CloseEvents(d) BY <2>6 DEF CloseEvents, Goto, handleVars, pastVars, TypeOK, ThreadPart, Quiet, Alive
  <2>7. CASE End(d) BY <2>7, BitFacts DEF End, Goto, eventVars, pastVars, TypeOK, ThreadPart, Quiet, Alive
  <2> QED BY <2>1, <2>2, <2>3, <2>4, <2>5, <2>6, <2>7 DEF ThreadStep
<1> QED BY <1>2, <1>4, <1>5, <1>6, Parts DEF IInv

\* What is left of a call when its first piece is done keeps its order.
LEMMA DoneKeeps ==
  ASSUME TypeOK, UseInv, BothInv, ~Idle, Done, UNCHANGED <<listed, leaving, open, pend>>,
         \A b \in bits'["playback"] : InUse(b),
         "VOICE" \in bits'["playback"] => \/ "VOICE" \in bits'["recording"]
                                          \/ \E i \in Places : i # 1 /\ todo[i] = Close("playback"),
         "VOICE" \in bits["recording"] \/ todo[1] = StartBit("recording", "VOICE") =>
           "VOICE" \in bits'["recording"]
  PROVE  UseInv' /\ BothInv' /\ StageInv'
<1>1. /\ \A i \in Places' : i + 1 \in Places /\ todo'[i] = todo[i + 1]
      /\ \A i \in Places : i # 1 => i - 1 \in Places' /\ todo'[i - 1] = todo[i]
  BY DoneFacts
<1>2. UseInv' BY <1>1 DEF UseInv, InUse
<1>3. StageInv' BY DEF StageInv, Done
<1>4. "VOICE" \in bits'["playback"] =>
        "VOICE" \in bits'["recording"] \/ \E i \in Places' : todo'[i] = Close("playback")
  BY <1>1
<1>5. ASSUME NEW i \in Places', todo'[i] = StartBit("playback", "VOICE")
      PROVE  \/ "VOICE" \in bits'["recording"]
             \/ \E j \in Places' : j < i /\ todo'[j] = StartBit("recording", "VOICE")
  <2>1. i + 1 \in Places /\ todo[i + 1] = StartBit("playback", "VOICE") BY <1>1, <1>5
  <2>2. CASE "VOICE" \in bits["recording"] BY <2>2
  <2>3. CASE "VOICE" \notin bits["recording"]
    <3>1. PICK j \in Places : j < i + 1 /\ todo[j] = StartBit("recording", "VOICE")
      BY <2>1, <2>3 DEF BothInv
    <3>2. CASE j = 1 BY <3>1, <3>2
    <3>3. CASE j # 1
      <4>1. j - 1 \in Places' /\ todo'[j - 1] = StartBit("recording", "VOICE") BY <1>1, <3>1, <3>3
      <4>2. j - 1 < i BY <3>1, <3>3, <1>5 DEF Places
      <4> QED BY <4>1, <4>2
    <3> QED BY <3>2, <3>3
  <2> QED BY <2>2, <2>3
<1>6. ASSUME NEW i \in Places' PROVE todo'[i] # Close("recording")
  <2>1. i + 1 \in Places /\ todo'[i] = todo[i + 1] /\ i + 1 # 1 BY <1>1, <1>6 DEF Places
  <2> QED BY <2>1 DEF BothInv
<1>7. BothInv' BY <1>4, <1>5, <1>6 DEF BothInv
<1> QED BY <1>2, <1>3, <1>7

LEMMA ExitKeeps ==
  ASSUME IInv, ~Lost, Exit
  PROVE  IInv'
<1> DEFINE d == Head(todo).dir
<1>1. TypeOK /\ StageInv /\ UseInv /\ BothInv /\ \A e \in Dirs : ThreadPart(e) BY Parts DEF IInv, Lost
<1>2. /\ ~Idle /\ d \in Dirs /\ todo[1] \in {Close(d), CloseIfIdle(d)}
      /\ Now("close") => todo[1] = Close(d)
      /\ Now("idle") => todo[1] = CloseIfIdle(d)
  BY <1>1, NowFacts DEF Exit
<1>3. UNCHANGED <<mCurDevice, mCurRxDevice, listed, before, leaving, open, pend, tid, pc, usb, proxy, event, overtaken>>
  BY DEF Exit, routeVars, userVars, handleVars
<1>4. CASE Now("idle") /\ bits[d] # {}
  <2>1. Done /\ UNCHANGED <<bits, kill, signal, failed>> BY <1>4 DEF Exit, Now
  <2>2. todo[1] = CloseIfIdle(d) BY <1>2, <1>4
  <2>3. TypeOK' BY <1>1, <1>2, <1>3, <2>1, DoneFacts DEF TypeOK, Done
  <2>4. UseInv' /\ BothInv' /\ StageInv'
    <3>1. \A i \in Places : todo[i] = Close("playback") => i # 1 BY <2>2 DEF Close, CloseIfIdle
    <3>2. todo[1] # StartBit("recording", "VOICE") BY <2>2 DEF StartBit, CloseIfIdle
    <3> QED BY <1>1, <1>2, <1>3, <2>1, <3>1, <3>2, DoneKeeps DEF UseInv, BothInv
  <2>5. ASSUME NEW e \in Dirs PROVE ThreadPart(e)'
    <3>1. CASE e = d BY <1>1, <1>3, <1>4, <2>1, <3>1 DEF ThreadPart, Alive
    <3>2. CASE e # d
      <4>1. todo[1] \notin {Close(e), CloseIfIdle(e)} BY <2>2, <3>2 DEF Close, CloseIfIdle
      <4>2. Pending(e) => Pending(e)' BY <1>1, <1>2, <2>1, <4>1, DoneFacts
      <4> QED BY <1>1, <1>3, <2>1, <4>2, PartKept
    <3> QED BY <3>1, <3>2
  <2> QED BY <2>3, <2>4, <2>5, Parts DEF IInv
<1>5. CASE ~(Now("idle") /\ bits[d] # {})
  <2>1. /\ bits' = [bits EXCEPT ![d] = {}] /\ kill' = [kill EXCEPT ![d] = TRUE]
        /\ signal' = [signal EXCEPT ![d] = @ \/ Signalled(d)]
        /\ failed' = [failed EXCEPT ![d] = FALSE]
        /\ stage' = "join" /\ UNCHANGED <<caller, todo>>
    BY <1>5 DEF Exit, Now
  <2>2. /\ \A e \in Dirs : e # d => /\ bits'[e] = bits[e] /\ kill'[e] = kill[e]
                                    /\ signal'[e] = signal[e] /\ failed'[e] = failed[e]
        /\ bits'[d] = {} /\ kill'[d] /\ signal'[d] = (signal[d] \/ event[d]) /\ ~failed'[d]
    <3> HIDE DEF d
    <3> QED BY <1>1, <1>2, <2>1 DEF TypeOK, Signalled
  <2>3. TypeOK'
    <3> HIDE DEF d
    <3> QED BY <1>1, <1>2, <1>3, <2>1, <2>2 DEF TypeOK, Signalled
  <2>4. Places' = Places /\ \A e \in Dirs : Pending(e)' <=> Pending(e) BY <2>1 DEF Places, Pending
  <2>5. StageInv'
    <3>1. todo'[1].do \in {"close", "idle"} /\ todo'[1].dir = d BY <1>2, <2>1 DEF Close, CloseIfIdle
    <3>2. ~Idle' BY <1>2, <2>1 DEF Idle
    <3> HIDE DEF d
    <3> QED BY <2>1, <2>2, <3>1, <3>2 DEF StageInv
  <2>6. UseInv' BY <1>1, <1>2, <1>3, <2>1, <2>2, BitFacts DEF UseInv, InUse, Places
  <2>7. BothInv'
    <3>1. 1 \in Places BY <1>1, <1>2, TodoFacts
    <3>2. CASE d = "playback" BY <1>1, <2>1, <2>2, <2>4, <3>2, BitFacts DEF BothInv
    <3>3. CASE d = "recording" /\ Now("idle")
      <4>1. bits'["recording"] = bits["recording"] /\ bits'["playback"] = bits["playback"]
        BY <1>5, <2>2, <3>3, BitFacts
      <4> QED BY <1>1, <2>1, <2>4, <4>1 DEF BothInv
    <3>4. CASE d = "recording" /\ Now("close")
      <4>1. todo[1] = Close("recording") BY <1>2, <3>4
      <4>2. /\ \A j \in Places : todo[j].do # "start"
            /\ Len(todo) > 1 /\ todo[2] = Close("playback")
        BY <1>1, <3>1, <4>1 DEF BothInv
      <4>3. 2 \in Places BY <1>1, <4>2, LenProperties DEF Places, TypeOK
      <4>4. \A i \in Places : todo[i] # StartBit("playback", "VOICE") BY <4>2 DEF StartBit
      <4> QED BY <1>1, <2>1, <2>4, <4>2, <4>3, <4>4 DEF BothInv
    <3> QED BY <1>2, <3>2, <3>3, <3>4, BitFacts DEF Exit
  <2>8. ASSUME NEW e \in Dirs PROVE ThreadPart(e)'
    <3>1. CASE e = d
      <4>1. Pending(e)'
        <5>1. 1 \in Places BY <1>1, <1>2, TodoFacts
        <5> QED BY <1>2, <2>4, <3>1, <5>1 DEF Pending
      <4> QED BY <1>1, <1>3, <2>2, <3>1, <4>1 DEF ThreadPart, Alive
    <3>2. CASE e # d BY <1>1, <1>3, <2>2, <2>4, <3>2, PartKept
    <3> QED BY <3>1, <3>2
  <2> QED BY <2>3, <2>5, <2>6, <2>7, <2>8, Parts DEF IInv
<1> QED BY <1>4, <1>5

LEMMA FinishKeeps ==
  ASSUME IInv, ~Lost, Finish
  PROVE  IInv'
<1> DEFINE d == Head(todo).dir
<1>1. TypeOK /\ StageInv /\ UseInv /\ BothInv /\ \A e \in Dirs : ThreadPart(e) BY Parts DEF IInv, Lost
<1>2. /\ ~Idle /\ d \in Dirs /\ todo[1] \in {Close(d), CloseIfIdle(d)} /\ bits[d] = {}
  BY <1>1, JoinFacts DEF Finish
<1>3. /\ UNCHANGED <<bits, mCurDevice, mCurRxDevice, listed, before, leaving, open, pend, kill, pc, event, signal, failed, overtaken>>
      /\ Done /\ (tid[d] => ~Alive(d))
      /\ tid' = [tid EXCEPT ![d] = FALSE]
      /\ usb' = [usb EXCEPT ![d] = FALSE]
      /\ proxy' = [proxy EXCEPT ![d] = FALSE]
  BY DEF Finish, routeVars, userVars, eventVars, pastVars
<1>4. /\ \A e \in Dirs : e # d => tid'[e] = tid[e] /\ usb'[e] = usb[e] /\ proxy'[e] = proxy[e]
      /\ ~usb'[d] /\ ~proxy'[d]
  <2> HIDE DEF d
  <2> QED BY <1>1, <1>2, <1>3 DEF TypeOK
<1>5. TypeOK'
  <2> HIDE DEF d
  <2> QED BY <1>1, <1>2, <1>3, DoneFacts DEF TypeOK, Done
<1>6. UseInv' /\ BothInv' /\ StageInv'
  <2>1. todo[1] # StartBit("recording", "VOICE") BY <1>2 DEF StartBit, Close, CloseIfIdle
  <2>2. "VOICE" \in bits["playback"] => d # "playback" BY <1>2
  <2>3. d # "playback" => \A i \in Places : todo[i] = Close("playback") => i # 1
    BY <1>2 DEF Close, CloseIfIdle
  <2>4. "VOICE" \in bits["playback"] => \/ "VOICE" \in bits["recording"]
                                        \/ \E i \in Places : i # 1 /\ todo[i] = Close("playback")
    BY <1>1, <2>2, <2>3 DEF BothInv
  <2> QED BY <1>1, <1>2, <1>3, <2>1, <2>4, DoneKeeps DEF UseInv
<1>7. ASSUME NEW e \in Dirs PROVE ThreadPart(e)'
  <2>1. CASE e = d
    <3>1. ~Alive(d) BY <1>1, <1>2, <1>3 DEF ThreadPart
    <3> QED BY <1>1, <1>2, <1>3, <1>4, <2>1, <3>1 DEF ThreadPart, Alive, Quiet
  <2>2. CASE e # d
    <3>1. todo[1] \notin {Close(e), CloseIfIdle(e)} BY <1>2, <2>2 DEF Close, CloseIfIdle
    <3>2. Pending(e) => Pending(e)' BY <1>1, <1>2, <1>3, <3>1, DoneFacts
    <3> QED BY <1>1, <1>3, <1>4, <2>2, <3>2, PartKept
  <2> QED BY <2>1, <2>2
<1> QED BY <1>5, <1>6, <1>7, Parts DEF IInv

LEMMA StartKeeps ==
  ASSUME IInv, ~Lost, Start
  PROVE  IInv'
<1> DEFINE d == Head(todo).dir
           b == Head(todo).bit
<1>1. TypeOK /\ StageInv /\ UseInv /\ BothInv /\ \A e \in Dirs : ThreadPart(e) BY Parts DEF IInv, Lost
<1>2. ~Idle /\ d \in Dirs /\ b \in Bits[d] /\ todo[1] = StartBit(d, b) BY <1>1, NowFacts DEF Start
<1>3. /\ UNCHANGED <<mCurDevice, mCurRxDevice, listed, before, leaving, open, pend, usb, proxy, event, signal>>
      /\ Done /\ bits' = [bits EXCEPT ![d] = @ \cup {b}]
      /\ IF bits[d] = {} \/ kill[d] THEN StartThread(d) ELSE UNCHANGED <<kill, tid, pc, failed, overtaken>>
  BY DEF Start, routeVars, userVars, handleVars, eventVars, pastVars
<1>4. /\ \A e \in Dirs : e # d => bits'[e] = bits[e]
      /\ bits'[d] = bits[d] \cup {b}
  <2> HIDE DEF d, b
  <2> QED BY <1>1, <1>2, <1>3 DEF TypeOK
<1>5. /\ \A e \in Dirs : e # d => kill'[e] = kill[e] /\ tid'[e] = tid[e] /\ pc'[e] = pc[e] /\ failed'[e] = failed[e]
      /\ StartThread(d) => ~kill'[d] /\ tid'[d] /\ pc'[d] = "new" /\ overtaken'[d] = Alive(d)
  <2> HIDE DEF d, b
  <2> QED BY <1>1, <1>2, <1>3 DEF TypeOK, StartThread, Goto
<1>6. TypeOK'
  <2>1. /\ bits' \in [Dirs -> SUBSET UNION {Bits[e] : e \in Dirs}]
        /\ \A e \in Dirs : bits'[e] \subseteq Bits[e]
    <3> HIDE DEF d, b
    <3> QED BY <1>1, <1>2, <1>3 DEF TypeOK
  <2>2. /\ kill' \in [Dirs -> BOOLEAN] /\ tid' \in [Dirs -> BOOLEAN]
        /\ pc' \in [Dirs -> {"none", "new", "loop", "end", "closing"}]
        /\ failed' \in [Dirs -> BOOLEAN] /\ overtaken' \in [Dirs -> BOOLEAN]
    <3> HIDE DEF d, b
    <3> QED BY <1>1, <1>2, <1>3 DEF TypeOK, StartThread, Goto, Alive
  <2> QED BY <1>1, <1>2, <1>3, <2>1, <2>2, DoneFacts DEF TypeOK, Done
<1>7. UseInv' /\ BothInv' /\ StageInv'
  <2>1. 1 \in Places BY <1>1, <1>2, TodoFacts
  <2>2. InUse(b) BY <1>1, <1>2, <2>1 DEF UseInv, StartBit
  <2>3. \A c \in bits'["playback"] : InUse(c) BY <1>1, <1>2, <1>4, <2>2, BitFacts DEF UseInv
  <2>4. todo[1] = StartBit("recording", "VOICE") => d = "recording" /\ b = "VOICE" BY <1>2 DEF StartBit
  <2>5. "VOICE" \in bits["recording"] \/ todo[1] = StartBit("recording", "VOICE") => "VOICE" \in bits'["recording"]
    <3> HIDE DEF d, b
    <3> QED BY <1>2, <1>4, <2>4, BitFacts
  <2>6. "VOICE" \in bits'["playback"] => \/ "VOICE" \in bits'["recording"]
                                         \/ \E i \in Places : i # 1 /\ todo[i] = Close("playback")
    <3>1. \A i \in Places : todo[i] = Close("playback") => i # 1 BY <1>2 DEF Close, StartBit
    <3>2. CASE "VOICE" \in bits["playback"] BY <1>1, <2>5, <3>1, <3>2 DEF BothInv
    <3>3. CASE "VOICE" \in bits'["playback"] /\ "VOICE" \notin bits["playback"]
      <4>1. d = "playback" /\ b = "VOICE"
        <5> HIDE DEF d, b
        <5> QED BY <1>2, <1>4, <3>3, BitFacts
      <4>2. \A j \in Places : ~(j < 1) BY DEF Places
      <4>3. "VOICE" \in bits["recording"] BY <1>1, <1>2, <2>1, <4>1, <4>2 DEF BothInv
      <4> QED BY <2>5, <4>3
    <3> QED BY <3>2, <3>3
  <2> QED BY <1>1, <1>2, <1>3, <2>3, <2>5, <2>6, DoneKeeps
<1>8. ASSUME NEW e \in Dirs PROVE overtaken'[e] \/ ThreadPart(e)'
  <2>1. CASE e = d
    <3>1. CASE bits[d] = {} \/ kill[d]
      <4>1. CASE Alive(d) BY <1>3, <1>5, <2>1, <3>1, <4>1
      <4>2. CASE ~Alive(d)
        <5>1. ~event[d] /\ ~signal[d] BY <1>1, <1>2, <4>2 DEF ThreadPart, Alive
        <5> QED BY <1>2, <1>3, <1>4, <1>5, <2>1, <3>1, <5>1 DEF ThreadPart
      <4> QED BY <4>1, <4>2
    <3>2. CASE ~(bits[d] = {} \/ kill[d])
      <4>1. kill' = kill /\ tid' = tid /\ pc' = pc /\ failed' = failed BY <1>3, <3>2
      <4> QED BY <1>1, <1>2, <1>3, <1>4, <2>1, <3>2, <4>1 DEF ThreadPart, Alive
    <3> QED BY <3>1, <3>2
  <2>2. CASE e # d
    <3>1. todo[1] \notin {Close(e), CloseIfIdle(e)} BY <1>2 DEF Close, CloseIfIdle, StartBit
    <3>2. Pending(e) => Pending(e)' BY <1>1, <1>2, <1>3, <3>1, DoneFacts
    <3> QED BY <1>1, <1>3, <1>4, <1>5, <2>2, <3>2, PartKept
  <2> QED BY <2>1, <2>2
<1> QED BY <1>6, <1>7, <1>8, Parts DEF IInv

LEMMA ArriveKeeps ==
  ASSUME IInv, ~Lost, ArriveAt
  PROVE  IInv'
<1>1. TypeOK /\ StageInv /\ UseInv /\ BothInv /\ \A e \in Dirs : ThreadPart(e) BY Parts DEF IInv, Lost
<1>2. ~Idle /\ Head(todo).dev \in Outputs \cup Inputs /\ todo[1] = Arrive(Head(todo).dev)
  BY <1>1, NowFacts DEF ArriveAt
<1>3. /\ UNCHANGED <<bits, listed, before, leaving, open, pend, kill, tid, pc, usb, proxy, event, signal, failed, overtaken>>
      /\ Done /\ mCurDevice' = Head(todo).dev
      /\ mCurRxDevice' = IF Head(todo).dev \in Outputs THEN Head(todo).dev ELSE mCurRxDevice
  BY DEF ArriveAt, userVars, threadVars, handleVars, eventVars, pastVars
<1>4. TypeOK' BY <1>1, <1>2, <1>3, DoneFacts DEF TypeOK, Done
<1>5. UseInv' /\ BothInv' /\ StageInv'
  <2>1. /\ todo[1] # StartBit("recording", "VOICE")
        /\ \A i \in Places : todo[i] = Close("playback") => i # 1
    BY <1>2 DEF StartBit, Close, Arrive
  <2> QED BY <1>1, <1>2, <1>3, <2>1, DoneKeeps DEF UseInv, BothInv
<1>6. ASSUME NEW e \in Dirs PROVE ThreadPart(e)'
  <2>1. todo[1] \notin {Close(e), CloseIfIdle(e)} BY <1>2 DEF Close, CloseIfIdle, Arrive
  <2>2. Pending(e) => Pending(e)' BY <1>1, <1>2, <1>3, <2>1, DoneFacts
  <2> QED BY <1>1, <1>3, <2>2, PartKept
<1> QED BY <1>4, <1>5, <1>6, Parts DEF IInv

LEMMA TransferKeeps ==
  ASSUME IInv, NEW c \in Checkers, Transfer(c[1], c[2])
  PROVE  IInv'
<1>1. c = <<c[1], c[2]>> BY DEF Checkers
<1>2. /\ UNCHANGED <<bits, mCurDevice, mCurRxDevice, listed, before, leaving, open, caller, todo, stage,
                     kill, tid, pc, usb, proxy, event, signal, failed, overtaken>>
      /\ pend' = pend \cup {<<c[1], c[2]>>} /\ c[1] \in open \cup (listed \ leaving)
  BY DEF Transfer, routeVars, callVars, threadVars, handleVars, eventVars, pastVars
<1>3. TypeOK' BY <1>1, <1>2 DEF IInv, TypeOK
<1>4. StageInv' /\ BothInv' /\ UseInv' BY <1>1, <1>2 DEF IInv, StageInv, BothInv, UseInv, InUse, Places, Idle
<1>5. ThreadInv' BY <1>2 DEF IInv, ThreadInv, Quiet, Alive, Pending, Places
<1> QED BY <1>3, <1>4, <1>5 DEF IInv

-----------------------------------------------------------------------------
(* The theorems.                                                             *)

LEMMA InitIInv == Init => IInv
<1> SUFFICES ASSUME Init PROVE IInv OBVIOUS
<1>1. Places = {} BY EmptySeq DEF Init, Places
<1>2. TypeOK BY BitFacts DEF Init, TypeOK
<1>3. StageInv /\ UseInv /\ BothInv BY <1>1, BitFacts DEF Init, StageInv, UseInv, BothInv
<1>4. ThreadInv BY DEF Init, ThreadInv, Quiet, Alive
<1> QED BY <1>2, <1>3, <1>4 DEF IInv

LEMMA NextIInv == IInv /\ [Next]_vars => IInv'
<1> SUFFICES ASSUME IInv, [Next]_vars PROVE IInv' OBVIOUS
<1>1. CASE UNCHANGED vars
  BY <1>1 DEF vars, routeVars, userVars, callVars, threadVars, handleVars, eventVars, pastVars, IInv, TypeOK,
              StageInv, ThreadInv, UseInv, BothInv, InUse, Quiet, Alive, Pending, Places, Idle
<1>2. CASE Next
  <2>1. ~Lost /\ Step BY <1>2 DEF Next
  <2>2. CASE HalStep BY <2>1, <2>2, ExitKeeps, FinishKeeps, StartKeeps, ArriveKeeps DEF HalStep
  <2>3. CASE \E d \in Dirs : ThreadStep(d) \/ WakeByData(d) BY <2>1, <2>3, ThreadKeeps
  <2>4. CASE \E s \in Music \cup Recs : FirstTransfer(s) \/ Standby(s)
    BY <2>1, <2>4, FirstTransferCall, StandbyCall, CallKeeps
  <2>5. CASE \E c \in Checkers : Transfer(c[1], c[2]) \/ TransferStarts(c[1], c[2])
    BY <2>1, <2>5, TransferKeeps, TransferStartsCall, CallKeeps
  <2>6. CASE \E dev \in Outputs : OpenSession(dev) \/ SessionFails(dev) \/ StartCall(dev) \/ EndCall(dev)
    BY <2>1, <2>6, OpenSessionCall, SessionFailsCall, StartCallCall, EndCallCall, CallKeeps
  <2>7. CASE \E dev \in Outputs \cup Inputs, mode \in {"communication", "other"} : Route(dev, mode)
    BY <2>1, <2>7, RouteCall, CallKeeps
  <2>8. CASE \/ Reset \/ ResetFailed \/ OpenVoip \/ ReopenVoip \/ CloseVoip
             \/ OpenCapture \/ CloseCapture \/ \E u \in {"voip", "capture"} : Destroy(u)
    BY <2>1, <2>8, ResetCall, ResetFailedCall, OpenVoipCall, ReopenVoipCall, CloseVoipCall,
       OpenCaptureCall, CloseCaptureCall, DestroyCall, CallKeeps
  <2> QED BY <2>1, <2>2, <2>3, <2>4, <2>5, <2>6, <2>7, <2>8 DEF Step
<1> QED BY <1>1, <1>2 DEF Next

\* The inductive invariant: what a call has still to do accounts for whatever a
\* thread, a bit or a use case leaves open in between.
THEOREM Inductive == Spec => []IInv
BY InitIInv, NextIInv, PTL DEF Spec

\* The variables keep their types (the state of AudioUsbALSA and its callers).
THEOREM TypeCorrect == Spec => []TypeOK
<1>1. IInv => TypeOK BY DEF IInv
<1> QED BY <1>1, Inductive, PTL

\* The loops of PlaybackThreadEntry and RecordingThreadEntry never use a handle
\* that has been closed, whatever call is between the exit and the join.
THEOREM LoopsHaveDevices == Spec => []LoopHasDevices
<1>1. IInv => LoopHasDevices BY DEF IInv, ThreadInv, LoopHasDevices
<1> QED BY <1>1, Inductive, PTL

\* With the last bit of a direction gone and no call in progress, its thread
\* has ended and its devices are closed (close...IfNothingActive, closeUSB...).
THEOREM DirectionsReleased == Spec => []Released
<1>1. IInv => Released
  <2> SUFFICES ASSUME IInv, Idle PROVE Released BY DEF Released
  <2>1. \A d \in Dirs : ~Pending(d) BY EmptySeq DEF Idle, Pending, Places
  <2> QED BY <2>1 DEF IInv, ThreadInv, Released, Quiet
<1> QED BY <1>1, Inductive, PTL

\* A direction with a bit, and no failure since, has a thread that runs on.
THEOREM BitsHaveThreads == Spec => []BitsHaveThread
<1>1. IInv => BitsHaveThread BY DEF IInv, ThreadInv, BitsHaveThread, Alive
<1> QED BY <1>1, Inductive, PTL

\* musbPlaybackState holds no bit of a stream, a session or a voice call that
\* has ended, whatever doRouting, late writes and failing opens have set.
THEOREM BitsAreInUse == Spec => []BitsInUse
<1>1. IInv => BitsInUse BY BitFacts DEF IInv, UseInv, InUse, BitsInUse
<1> QED BY <1>1, Inductive, PTL

\* A voice call heard through the headset is also recorded from it.
THEOREM CallsGoBothWays == Spec => []CallsBothWays
<1>1. IInv => CallsBothWays
  <2> SUFFICES ASSUME IInv, Idle PROVE CallsBothWays BY DEF CallsBothWays
  <2>1. Places = {} BY EmptySeq DEF Idle, Places
  <2> QED BY <2>1 DEF IInv, BothInv, CallsBothWays
<1> QED BY <1>1, Inductive, PTL
=============================================================================
