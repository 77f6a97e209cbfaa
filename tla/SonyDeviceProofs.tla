---------------------------- MODULE SonyDeviceProofs ----------------------------
(***************************************************************************)
(* What is called valid was confirmed on this connection, no change goes   *)
(* unannounced, and a reading is no older than the deadlines missed        *)
(* (ValidIsOurs, NoSilentChange and ReadingsAreRecent of SonyDevice), for  *)
(* any profiles, values and bounds.                                        *)
(*                                                                         *)
(* The argument for the readings: an inquiry adds one answer to those      *)
(* nobody has taken, and takes one before it ends, unless it ends by a     *)
(* deadline or with the link.  While it waits nothing it could have taken  *)
(* is kept, so a deadline that passes with nothing on its way leaves       *)
(* nothing behind, and one that passes too early is a fault.               *)
(***************************************************************************)
EXTENDS SonyDevice, SequenceTheorems, FiniteSetTheorems, NaturalsInduction, TLAPS

Stages == {"idle", "sending", "waiting", "finished", "failed", "announcing", "reconnecting",
           "opening", "disconnecting"}
Sessions == {"none", "running", "lost", "closing", "ended"}
Keys == (Features \cup {"handshake"}) \X (Parts \cup {"config"})
Requests == [kind : {"ask"}, key : Keys, value : {NoValue}] \cup [kind : {"write"}, key : Keys, value : Values]
Kept == [kind : {"answer"}, key : Keys, value : Values]
Frames == {Ack} \cup Kept \cup [kind : {"notice"}, key : Keys, value : Values]
Pending == {NoRequest} \cup [key : Keys, answer : Values \cup {NoValue}]

DriverType ==
  /\ stage \in Stages /\ session \in Sessions /\ connection \in Nat
  /\ profile.features \subseteq Features
  /\ script \in Seq(Requests) /\ todo \in Seq(Features)
  /\ stage \in {"sending", "waiting"} => script # <<>>
WireType ==
  /\ pending \in Pending /\ unmatched \in Seq(Kept)
  /\ requests \in Seq(Requests) /\ wire \in Seq(Frames) /\ truth \in [Features -> Values]
  /\ faults \in Nat
StateType ==
  /\ availability \in [Features -> {"unknown", "unsupported", "valid", "stale"}]
  /\ origin \in [Features -> Nat]
DeviceType == DriverType /\ WireType /\ StateType

\* The session while a call is under way, and while the reader has a frame in hand.
Live == session \in {"running", "lost", "closing"}
SessionInv ==
  /\ stage \in {"sending", "waiting", "finished", "failed", "announcing"} =>
       session \in {"running", "lost"}
  /\ stage \in {"reconnecting", "disconnecting"} => session = "closing"
  /\ stage = "opening" => session = "none"
  /\ reader # "idle" => Live
DriverInv == SessionInv /\ ValidIsOurs

\* What the driver waits for, and that nothing of the kind is kept.
PendingInv ==
  /\ stage # "waiting" => pending = NoRequest
  /\ stage = "waiting" => IF Head(script).kind = "ask" THEN pending.key = Head(script).key
                                                       ELSE pending = NoRequest
  /\ stage = "waiting" /\ pending.answer = NoValue =>
       \A i \in 1 .. Len(unmatched) : unmatched[i].key # pending.key
  /\ session # "running" => requests = <<>>

\* Answers nobody has taken: one is the driver's own, while the link is up.
Expected(key) == IF IsConnected /\ pending.key = key /\ pending.answer = NoValue THEN 1 ELSE 0
RealKeys == {Key(f, part) : f \in Features, part \in Parts}
RecentInv == \A key \in RealKeys : Outstanding(key) <= faults + Expected(key)

----------------------------------------------------------------------------
(* Counting in a sequence.                                                 *)

Hits(s, kind, key) == {i \in 1 .. Len(s) : s[i].kind = kind /\ s[i].key = key}

LEMMA NumberIs ==
  ASSUME NEW S, NEW s \in Seq(S), NEW kind, NEW key
  PROVE  /\ IsFiniteSet(Hits(s, kind, key)) /\ Number(s, kind, key) = Cardinality(Hits(s, kind, key))
         /\ Number(s, kind, key) \in Nat
<1>1. Len(s) \in Nat /\ DOMAIN s = 1 .. Len(s)
  BY LenProperties
<1>2. IsFiniteSet(1 .. Len(s)) /\ Hits(s, kind, key) \in SUBSET (1 .. Len(s))
  BY <1>1, FS_Interval DEF Hits
<1>3. IsFiniteSet(Hits(s, kind, key)) /\ Cardinality(Hits(s, kind, key)) \in Nat
  BY <1>2, FS_Subset, FS_CardinalityType
<1> QED
  BY <1>1, <1>3 DEF Number, Hits

\* One element more at the end, or one less anywhere.
LEMMA NumberAppend ==
  ASSUME NEW S, NEW s \in Seq(S), NEW e \in S, NEW kind, NEW key
  PROVE  /\ Append(s, e) \in Seq(S) /\ Number(s, kind, key) \in Nat
         /\ Number(Append(s, e), kind, key) =
              Number(s, kind, key) + IF e.kind = kind /\ e.key = key THEN 1 ELSE 0
<1> DEFINE t == Append(s, e)
           A == Hits(s, kind, key)
           B == Hits(t, kind, key)
<1>1. /\ t \in Seq(S) /\ Len(s) \in Nat /\ Len(t) = Len(s) + 1 /\ t[Len(s) + 1] = e
      /\ \A i \in 1 .. Len(s) : t[i] = s[i]
  BY AppendProperties, LenProperties
<1> HIDE DEF t
<1>2. IsFiniteSet(A) /\ Number(s, kind, key) = Cardinality(A) /\ Number(s, kind, key) \in Nat
  BY NumberIs
<1>3. Number(t, kind, key) = Cardinality(B)
  BY <1>1, NumberIs
<1>4. Len(s) + 1 \notin A
  BY <1>1 DEF Hits
<1>5. CASE e.kind = kind /\ e.key = key
  <2>1. B = A \cup {Len(s) + 1}
    BY <1>1, <1>5 DEF Hits
  <2>2. Cardinality(B) = Cardinality(A) + 1
    BY <1>2, <1>4, <2>1, FS_AddElement
  <2> QED
    BY <1>1, <1>2, <1>3, <1>5, <2>2 DEF t
<1>6. CASE ~(e.kind = kind /\ e.key = key)
  <2>1. B = A
    BY <1>1, <1>6 DEF Hits
  <2> QED
    BY <1>1, <1>2, <1>3, <1>6, <2>1 DEF t
<1> QED
  BY <1>5, <1>6

IsWithout(t, s, k) ==
  Len(t) = Len(s) - 1 /\ \A i \in 1 .. Len(t) : t[i] = IF i < k THEN s[i] ELSE s[i + 1]

LEMMA NumberLess ==
  ASSUME NEW S, NEW s \in Seq(S), NEW t \in Seq(S), NEW k \in 1 .. Len(s), IsWithout(t, s, k),
         NEW kind, NEW key
  PROVE  /\ Number(t, kind, key) \in Nat
         /\ Number(s, kind, key) =
              Number(t, kind, key) + IF s[k].kind = kind /\ s[k].key = key THEN 1 ELSE 0
<1> DEFINE A == Hits(s, kind, key)
           B == Hits(t, kind, key)
           f == [i \in B |-> IF i < k THEN i ELSE i + 1]
<1>0. Len(t) = Len(s) - 1 /\ \A i \in 1 .. Len(t) : t[i] = IF i < k THEN s[i] ELSE s[i + 1]
  BY DEF IsWithout
<1>1. /\ IsFiniteSet(A) /\ Number(s, kind, key) = Cardinality(A) /\ Number(s, kind, key) \in Nat
      /\ IsFiniteSet(B) /\ Number(t, kind, key) = Cardinality(B) /\ Number(t, kind, key) \in Nat
      /\ Len(s) \in Nat /\ Len(t) \in Nat
  BY NumberIs, LenProperties
<1>2. f \in [B -> A \ {k}]
  BY <1>0, <1>1, SMTT(20) DEF Hits
<1>3. \A i, j \in B : f[i] = f[j] => i = j
  BY <1>0, <1>1 DEF Hits
<1>4. ASSUME NEW a \in A \ {k} PROVE \E i \in B : f[i] = a
  <2>1. a \in 1 .. Len(s) /\ a # k /\ s[a].kind = kind /\ s[a].key = key
    BY DEF Hits
  <2>2. CASE a < k
    <3>1. a \in B
      BY <1>0, <1>1, <2>1, <2>2 DEF Hits
    <3> QED
      BY <2>2, <3>1
  <2>3. CASE a > k
    <3>1. a - 1 \in 1 .. Len(t) /\ ~(a - 1 < k) /\ (a - 1) + 1 = a
      BY <1>0, <1>1, <2>1, <2>3
    <3>2. a - 1 \in B
      BY <1>0, <2>1, <3>1 DEF Hits
    <3> QED
      BY <3>1, <3>2
  <2> QED
    BY <2>1, <2>2, <2>3
<1> HIDE DEF f, A, B
<1>5. f \in Injection(B, A \ {k})
  BY <1>2, <1>3 DEF Injection, IsInjective
<1>6. f \in Surjection(B, A \ {k})
  BY <1>2, <1>4 DEF Surjection
<1>7. ExistsBijection(B, A \ {k})
  BY <1>5, <1>6 DEF ExistsBijection, Bijection
<1>8. Cardinality(A \ {k}) = Cardinality(B)
  BY <1>1, <1>7, FS_Bijection
<1>9. Cardinality(A \ {k}) = IF k \in A THEN Cardinality(A) - 1 ELSE Cardinality(A)
  BY <1>1, FS_RemoveElement
<1>10. k \in A <=> s[k].kind = kind /\ s[k].key = key
  BY DEF A, Hits
<1> QED
  BY <1>1, <1>8, <1>9, <1>10

LEMMA NumberTail ==
  ASSUME NEW S, NEW s \in Seq(S), s # <<>>, NEW kind, NEW key
  PROVE  /\ Tail(s) \in Seq(S) /\ Head(s) \in S /\ Number(Tail(s), kind, key) \in Nat
         /\ Number(s, kind, key) =
              Number(Tail(s), kind, key) + IF Head(s).kind = kind /\ Head(s).key = key THEN 1 ELSE 0
<1> DEFINE t == Tail(s)
<1>1. /\ t \in Seq(S) /\ Head(s) \in S /\ Head(s) = s[1] /\ Len(s) \in Nat \ {0}
      /\ Len(t) = Len(s) - 1 /\ \A i \in 1 .. Len(t) : t[i] = s[i + 1]
  BY HeadTailProperties, EmptySeq
<1> HIDE DEF t
<1>2. 1 \in 1 .. Len(s) /\ IsWithout(t, s, 1)
  BY <1>1 DEF IsWithout
<1>3. /\ Number(t, kind, key) \in Nat
      /\ Number(s, kind, key) =
           Number(t, kind, key) + IF s[1].kind = kind /\ s[1].key = key THEN 1 ELSE 0
  BY <1>1, <1>2, NumberLess
<1> QED
  BY <1>1, <1>3 DEF t

LEMMA NumberRemove ==
  ASSUME NEW S, NEW s \in Seq(S), NEW k \in 1 .. Len(s), NEW kind, NEW key
  PROVE  /\ RemoveAt(s, k) \in Seq(S) /\ Number(RemoveAt(s, k), kind, key) \in Nat
         /\ \A i \in 1 .. Len(RemoveAt(s, k)) : \E j \in 1 .. Len(s) : RemoveAt(s, k)[i] = s[j]
         /\ Number(s, kind, key) =
              Number(RemoveAt(s, k), kind, key) + IF s[k].kind = kind /\ s[k].key = key THEN 1 ELSE 0
<1> DEFINE a == SubSeq(s, 1, k - 1)  b == SubSeq(s, k + 1, Len(s))  t == a \o b
<1>1. Len(s) \in Nat /\ k \in Nat
  BY LenProperties
<1>2. /\ a \in Seq(S) /\ Len(a) = k - 1 /\ \A i \in 1 .. k - 1 : a[i] = s[i]
  BY <1>1, SubSeqProperties
<1>3. /\ b \in Seq(S) /\ Len(b) = Len(s) - k /\ \A i \in 1 .. Len(s) - k : b[i] = s[k + i]
  BY <1>1, SubSeqProperties
<1> HIDE DEF a, b
<1>4. /\ t \in Seq(S) /\ Len(t) = Len(a) + Len(b)
      /\ \A i \in 1 .. Len(a) + Len(b) : t[i] = IF i <= Len(a) THEN a[i] ELSE b[i - Len(a)]
  BY <1>2, <1>3, ConcatProperties
<1> HIDE DEF t
<1>5. Len(t) = Len(s) - 1
  BY <1>1, <1>2, <1>3, <1>4
<1>6. ASSUME NEW i \in 1 .. Len(t) PROVE t[i] = IF i < k THEN s[i] ELSE s[i + 1]
  <2>1. CASE i < k
    <3>1. i \in 1 .. k - 1 /\ i <= Len(a) /\ i \in 1 .. Len(a) + Len(b)
      BY <1>1, <1>2, <1>4, <2>1
    <3> QED
      BY <1>2, <1>4, <2>1, <3>1
  <2>2. CASE ~(i < k)
    <3>1. i - (k - 1) \in 1 .. Len(s) - k /\ k + (i - (k - 1)) = i + 1 /\ ~(i <= Len(a))
      BY <1>1, <1>2, <1>5, <2>2
    <3> QED
      BY <1>2, <1>3, <1>4, <2>2, <3>1
  <2> QED
    BY <2>1, <2>2
<1>7. /\ Number(t, kind, key) \in Nat
      /\ Number(s, kind, key) =
           Number(t, kind, key) + IF s[k].kind = kind /\ s[k].key = key THEN 1 ELSE 0
  <2>1. IsWithout(t, s, k)
    BY <1>5, <1>6 DEF IsWithout
  <2> QED
    BY <1>4, <2>1, NumberLess
<1>8. ASSUME NEW i \in 1 .. Len(t) PROVE \E j \in 1 .. Len(s) : t[i] = s[j]
  <2>1. i \in 1 .. Len(s) /\ i + 1 \in 1 .. Len(s)
    BY <1>1, <1>5
  <2> QED
    BY <1>6, <2>1
<1>9. t = RemoveAt(s, k)
  BY DEF RemoveAt, t, a, b
<1> QED
  BY <1>4, <1>7, <1>8, <1>9

LEMMA NumberNone ==
  ASSUME NEW S, NEW s \in Seq(S), NEW kind, NEW key,
         \A i \in 1 .. Len(s) : s[i].kind # kind \/ s[i].key # key
  PROVE  Number(s, kind, key) = 0
<1>1. Hits(s, kind, key) = {}
  BY DEF Hits
<1> QED
  BY <1>1, NumberIs, FS_EmptySet

LEMMA NumberEmpty == \A kind, key : Number(<<>>, kind, key) = 0
<1> TAKE kind, key
<1>1. <<>> \in Seq({}) /\ Len(<<>>) = 0
  BY EmptySeq
<1>2. Hits(<<>>, kind, key) = {}
  BY <1>1 DEF Hits
<1> QED
  BY <1>1, <1>2, NumberIs, FS_EmptySet

----------------------------------------------------------------------------
(* Messages.                                                               *)

LEMMA MessagesAre ==
  ASSUME NEW f \in Features, NEW part \in Parts, NEW v \in Values
  PROVE  /\ Write(f, v) \in Requests
         /\ [Write("speakToChat", v) EXCEPT !.key = Key("speakToChat", "config")] \in Requests
  BY DEF Write, Key, Requests, Keys, Features, Parts

LEMMA AsksAre ==
  /\ \A f \in Features, part \in Parts : Ask(f, part) \in Requests
  /\ Ask("handshake", "main") \in Requests
  BY DEF Ask, Key, Requests, Keys, Parts

LEMMA InquiriesAre ==
  /\ \A f \in Features : GetScript(f) \in Seq(Requests) /\ GetScript(f) # <<>>
  /\ \A p : InitScript(p) \in Seq(Requests) /\ InitScript(p) # <<>>
<1>1. /\ {"battery", "noiseControl"} \subseteq Features
      /\ {"main", "sides", "case"} \subseteq Parts
  BY DEF Features, Parts
<1>2. \A f \in Features : GetScript(f) \in Seq(Requests) /\ GetScript(f) # <<>>
  BY <1>1, AsksAre DEF GetScript, GetBattery
<1>3. \A p : InitScript(p) \in Seq(Requests) /\ InitScript(p) # <<>>
  BY <1>1, AsksAre DEF InitScript
<1> QED
  BY <1>2, <1>3

LEMMA ShortSeq ==
  ASSUME NEW S, NEW a \in S, NEW b \in S
  PROVE  <<a>> \in Seq(S) /\ <<a>> # <<>> /\ <<a, b>> \in Seq(S) /\ <<a, b>> # <<>>
  OBVIOUS

LEMMA ScriptsAre ==
  ASSUME NEW f \in Features, NEW v \in Values
  PROVE  \A messages \in SetScripts(f, v) : messages \in Seq(Requests) /\ messages # <<>>
<1> DEFINE C == [Write("speakToChat", v) EXCEPT !.key = Key("speakToChat", "config")]
<1>1. /\ \A g \in Features, part \in Parts : Ask(g, part) \in Requests
      /\ \A g \in Features : Write(g, v) \in Requests
      /\ C \in Requests
  BY MessagesAre, AsksAre DEF Parts
<1>2. /\ {"battery", "noiseControl", "speakToChat"} \subseteq Features
      /\ {"main", "sides", "case"} \subseteq Parts
  BY DEF Features, Parts
<1> HIDE DEF C, Features, Parts
<1>5. ASSUME NEW messages \in SetNoiseControl(v) PROVE messages \in Seq(Requests) /\ messages # <<>>
  <2>1. \/ messages = <<Ask("noiseControl", "main"), Write("noiseControl", v)>>
        \/ messages = <<Write("noiseControl", v)>>
    BY DEF SetNoiseControl
  <2>2. Ask("noiseControl", "main") \in Requests /\ Write("noiseControl", v) \in Requests
    BY <1>1, <1>2
  <2> QED
    BY <2>1, <2>2, ShortSeq
<1>6. ASSUME NEW messages \in SetSpeakToChat(v) PROVE messages \in Seq(Requests) /\ messages # <<>>
  <2>1. messages = <<Write("speakToChat", v)>> \/ messages = <<C, Write("speakToChat", v)>>
    BY DEF SetSpeakToChat, C
  <2>2. Write("speakToChat", v) \in Requests
    BY <1>1, <1>2
  <2> QED
    BY <1>1, <2>1, <2>2, ShortSeq
<1>7. <<Write(f, v)>> \in Seq(Requests) /\ <<Write(f, v)>> # <<>>
  BY <1>1
<1>8. \A messages \in SetScripts(f, v) : messages \in Seq(Requests) /\ messages # <<>>
  BY <1>5, <1>6, <1>7 DEF SetScripts
<1> QED
  BY <1>8

----------------------------------------------------------------------------
(* Types.                                                                  *)

LEMMA FailIs ==
  ASSUME DriverType, stage \in {"sending", "waiting"}, Fail, UNCHANGED <<profile, session, connection>>
  PROVE  /\ DriverType' /\ stage' \in {"sending", "finished", "failed"}
         /\ UNCHANGED <<op, todo, reading>>
<1>1. script \in Seq(Requests) /\ script # <<>> /\ stage \in Stages
  BY DEF DriverType
<1>2. Tail(script) \in Seq(Requests) /\ <<>> \in Seq(Requests)
  BY <1>1, HeadTailProperties, EmptySeq
<1>3. /\ script' \in Seq(Requests) /\ stage' \in {"sending", "finished", "failed"}
      /\ stage' = "sending" => script' # <<>>
      /\ UNCHANGED <<op, todo, reading>>
  BY <1>2 DEF Fail
<1> QED
  BY <1>3 DEF DriverType, Stages

LEMMA ContinueIs ==
  ASSUME DriverType, Continue, UNCHANGED <<profile, session, connection>>
  PROVE  DriverType' /\ stage' \in {"sending", "idle"}
<1>1. todo \in Seq(Features)
  BY DEF DriverType
<1>2. CASE todo # <<>>
  <2>1. Head(todo) \in Features /\ Tail(todo) \in Seq(Features)
    BY <1>1, <1>2, HeadTailProperties
  <2>2. GetScript(Head(todo)) \in Seq(Requests) /\ GetScript(Head(todo)) # <<>>
    BY <2>1, InquiriesAre
  <2> QED
    BY <1>2, <2>1, <2>2 DEF Continue, Begin, DriverType, Stages
<1>3. CASE todo = <<>>
  BY <1>3, EmptySeq DEF Continue, DriverType, Stages
<1> QED
  BY <1>2, <1>3

\* A step to a stage in which nothing is sent.
LEMMA StageIs ==
  ASSUME DriverType, UNCHANGED <<script, todo, connection>>, session' \in Sessions,
         profile'.features \subseteq Features, stage' \in Stages \ {"sending", "waiting"}
  PROVE  DriverType'
  BY DEF DriverType

DriverEnds == \/ KeepReading \/ DriverAnnounces \/ NoReading \/ WriteFails \/ Initialised
              \/ OpenFails \/ ResetState \/ Leave \/ Disconnect \/ \E p \in Profiles : Connect(p)

LEMMA DriverEndsType ==
  ASSUME DriverType, DriverEnds
  PROVE  DriverType'
<1> USE DEF exchangeVars
<1>1. CASE KeepReading
  BY <1>1, StageIs DEF KeepReading, DriverType, Stages
<1>2. CASE DriverAnnounces \/ NoReading \/ WriteFails \/ Initialised
  BY <1>2, ContinueIs DEF DriverAnnounces, NoReading, WriteFails, Initialised
<1>3. CASE OpenFails
  BY <1>3, StageIs DEF OpenFails, DriverType, Stages
<1>4. CASE ResetState \/ Leave \/ Disconnect
  BY <1>4, StageIs DEF ResetState, Leave, Disconnect, Stages, Sessions, DriverType
<1>5. CASE \E p \in Profiles : Connect(p)
  <2>1. profile'.features \subseteq Features
    BY <1>5, DeviceAssumption DEF Connect
  <2> QED
    BY <1>5, <2>1, StageIs DEF Connect, Stages, Sessions
<1> QED
  BY <1>1, <1>2, <1>3, <1>4, <1>5 DEF DriverEnds

DriverBegins == \/ RefreshSettingsStep \/ RefreshBattery \/ Open
                \/ \E f \in Features, v \in Values : Set(f, v)

LEMMA DriverBeginsType ==
  ASSUME DriverType, DriverBegins
  PROVE  DriverType' /\ stage' = "sending"
<1> USE DEF Begin
<1>1. CASE RefreshSettingsStep
  <2>1. PICK f \in Features : Begin("refresh", f, NoValue, GetScript(f))
    BY <1>1 DEF RefreshSettingsStep, IsDue, Supported, DriverType
  <2> QED
    BY <1>1, <2>1, InquiriesAre DEF RefreshSettingsStep, DriverType, Stages
<1>2. CASE RefreshBattery
  <2>1. "battery" \in Features
    BY DEF Features
  <2> QED
    BY <1>2, <2>1, InquiriesAre DEF RefreshBattery, DriverType, Stages
<1>3. CASE Open
  <2>1. \A f \in Features : If(f) \in Seq(Features)
    BY EmptySeq DEF If
  <2>2. {"battery", "noiseControl", "equalizer", "dsee"} \subseteq Features
    BY DEF Features
  <2>3. todo' \in Seq(Features)
    BY <1>3, <2>1, <2>2, ConcatProperties DEF Open
  <2>4. InitScript(profile) \in Seq(Requests) /\ InitScript(profile) # <<>>
    BY InquiriesAre
  <2> QED
    <3>1. connection' = connection + 1
      BY <1>3 DEF Open
    <3>4. stage' = "sending" /\ session' = "running" /\ UNCHANGED profile
      BY <1>3 DEF Open
    <3>5. connection' \in Nat
      BY <3>1 DEF DriverType
    <3>2. script' \in Seq(Requests) /\ script' # <<>>
      BY <1>3, <2>4 DEF Open
    <3> QED
      BY <2>3, <3>2, <3>4, <3>5 DEF DriverType, Stages, Sessions
<1>4. CASE \E f \in Features, v \in Values : Set(f, v)
  BY <1>4, ScriptsAre DEF Set, DriverType, Stages
<1> QED
  BY <1>1, <1>2, <1>3, <1>4 DEF DriverBegins

Exchanges == Send \/ Disconnected \/ Receive \/ Acknowledged \/ TimeOut

LEMMA ExchangesType ==
  ASSUME DriverType, Exchanges
  PROVE  DriverType'
<1>1. CASE Send
  BY <1>1 DEF Send, exchangeVars, DriverType, Stages
<1>2. CASE Disconnected \/ TimeOut
  BY <1>2, FailIs DEF Disconnected, TimeOut
<1>3. CASE Receive
  <2>1. script \in Seq(Requests) /\ script # <<>>
    BY <1>3 DEF Receive, DriverType
  <2>2. script' \in Seq(Requests)
    BY <1>3, <2>1, HeadTailProperties, EmptySeq DEF Receive, Rest
  <2> QED
    BY <1>3, <2>2 DEF Receive, DriverType, Stages
<1>4. CASE Acknowledged
  <2>1. script \in Seq(Requests) /\ script # <<>>
    BY <1>4 DEF Acknowledged, DriverType
  <2>2. script' \in Seq(Requests)
    BY <1>4, <2>1, HeadTailProperties DEF Acknowledged
  <2> QED
    BY <1>4, <2>2 DEF Acknowledged, DriverType, Stages
<1> QED
  BY <1>1, <1>2, <1>3, <1>4 DEF Exchanges

LEMMA OthersType ==
  ASSUME DriverType, Reader \/ Headset
  PROVE  DriverType' /\ UNCHANGED <<stage, script, connection, profile>>
<1> USE DEF exchangeVars
<1>1. CASE Reader
  <2>1. UNCHANGED <<profile, session, connection, stage, script, todo>>
    BY <1>1 DEF Reader, TakeAck, TakeAnswer, TakeUnmatched, OnNotification, ReaderAnnounces
  <2> QED
    BY <2>1 DEF DriverType
<1>2. CASE Headset
  <2>1. UNCHANGED <<profile, connection, stage, script, todo>> /\ session' \in {session, "lost"}
    BY <1>2 DEF Headset, HeadsetTakes, LoseRequest, LinkBreaks, HeadsetChanges
  <2> QED
    BY <2>1 DEF DriverType, Sessions
<1> QED
  BY <1>1, <1>2

\* The calls leave the wire alone, or clear it.
LEMMA CallsWire ==
  ASSUME WireType, DriverEnds \/ DriverBegins
  PROVE  /\ WireType' /\ UNCHANGED <<pending, truth>> /\ faults' \in {faults, faults + 1}
         /\ unmatched' \in {unmatched, <<>>} /\ wire' \in {wire, <<>>} /\ requests' \in {requests, <<>>}
<1> USE DEF sessionVars, headsetVars, boundVars
<1>1. /\ UNCHANGED <<pending, truth>> /\ faults' \in {faults, faults + 1}
      /\ unmatched' \in {unmatched, <<>>} /\ wire' \in {wire, <<>>} /\ requests' \in {requests, <<>>}
  <2>1. CASE KeepReading \/ DriverAnnounces \/ NoReading \/ WriteFails \/ Initialised
    BY <2>1 DEF KeepReading, DriverAnnounces, NoReading, WriteFails, Initialised
  <2>2. CASE OpenFails \/ ResetState \/ Leave \/ Disconnect \/ \E p \in Profiles : Connect(p)
    BY <2>2 DEF OpenFails, ResetState, Leave, Disconnect, Connect
  <2>3. CASE RefreshSettingsStep \/ RefreshBattery
    BY <2>3 DEF RefreshSettingsStep, RefreshBattery
  <2>4. CASE Open
    BY <2>4 DEF Open
  <2>5. CASE \E f \in Features, v \in Values : Set(f, v)
    BY <2>5 DEF Set
  <2> QED
    BY <2>1, <2>2, <2>3, <2>4, <2>5 DEF DriverEnds, DriverBegins
<1>2. faults' \in Nat
  BY <1>1 DEF WireType
<1> QED
  BY <1>1, <1>2, EmptySeq DEF WireType

\* The unmatched answer that an inquiry takes is its own, and the oldest.
LEMMA ArmIs ==
  ASSUME unmatched \in Seq(Kept), NEW key, Arm(key)
  PROVE  \/ /\ \A i \in 1 .. Len(unmatched) : unmatched[i].key # key
            /\ pending' = [key |-> key, answer |-> NoValue] /\ UNCHANGED unmatched
         \/ \E k \in 1 .. Len(unmatched) :
              /\ unmatched[k].key = key /\ unmatched' = RemoveAt(unmatched, k)
              /\ pending' = [key |-> key, answer |-> unmatched[k].value]
<1> DEFINE found == {i \in DOMAIN unmatched : IsAnswer(i, key)}
           oldest == CHOOSE i \in found : \A j \in found : i <= j
<1>1. Len(unmatched) \in Nat /\ DOMAIN unmatched = 1 .. Len(unmatched)
  BY LenProperties
<1>2. CASE found = {}
  BY <1>1, <1>2 DEF Arm, IsAnswer
<1>3. CASE found # {}
  <2>1. found \in SUBSET Nat
    BY <1>1
  <2>2. \E i \in found : \A j \in found : i <= j
    <3> DEFINE less == OpToRel(<, Nat)
    <3>1. \E i \in found : \A j \in found : ~(<<j, i>> \in less)
      <4> HIDE DEF found, less
      <4>1. IsWellFoundedOn(less, Nat)
        BY NatLessThanWellFounded DEF less
      <4> QED
        BY <1>3, <2>1, <4>1, WFMin
    <3>2. \A i, j \in Nat : ~(<<j, i>> \in less) => i <= j
      BY DEF OpToRel
    <3> QED
      BY <2>1, <3>1, <3>2
  <2>3. oldest \in found
    BY <2>2
  <2>4. oldest \in 1 .. Len(unmatched) /\ unmatched[oldest].key = key
    BY <1>1, <2>3 DEF IsAnswer
  <2>5. unmatched' = RemoveAt(unmatched, oldest) /\ pending' = [key |-> key, answer |-> unmatched[oldest].value]
    BY <1>3 DEF Arm, Without
  <2> HIDE DEF oldest
  <2> QED
    BY <2>4, <2>5
<1> QED
  BY <1>2, <1>3

----------------------------------------------------------------------------
(* The inquiries, the answers and the link.                                *)

WireInv == WireType /\ PendingInv /\ RecentInv

\* The parts of Outstanding, before and after a step.
LEMMA Parts3 ==
  ASSUME WireType
  PROVE  \A key : /\ Number(requests, "ask", key) \in Nat /\ Number(wire, "answer", key) \in Nat
                  /\ Number(unmatched, "answer", key) \in Nat
                  /\ Expected(key) \in {0, 1} /\ faults \in Nat
<1> TAKE key
<1> QED
  BY NumberIs DEF WireType, Expected

LEMMA RequestIs ==
  ASSUME NEW r \in Requests
  PROVE  /\ r.kind \in {"ask", "write"} /\ r.key \in Keys
         /\ r.kind = "write" => r.value \in Values
  BY DEF Requests

LEMMA KeysAre ==
  /\ RealKeys \subseteq Keys /\ NoRequest.key \notin Keys /\ NoRequest.answer = NoValue
  /\ \A key \in Keys, v \in Values : Answer(key, v) \in Frames /\ Notice(key, v) \in Frames
  /\ Ack \in Frames
<1>1. RealKeys \subseteq Keys /\ NoRequest.answer = NoValue
  BY DEF RealKeys, Keys, Key, NoRequest
<1>2. NoRequest.key \notin Keys
  BY DEF Keys, Key, NoRequest, Features
<1>3. \A key \in Keys, v \in Values : Answer(key, v) \in Frames /\ Notice(key, v) \in Frames
  BY DEF Answer, Notice, Frames, Kept
<1>4. Ack \in Frames
  BY DEF Frames
<1> QED
  BY <1>1, <1>2, <1>3, <1>4

\* An answer that was kept has a value and a key that someone asks for.
LEMMA KeptAre ==
  ASSUME WireType
  PROVE  \A i \in 1 .. Len(unmatched) :
           unmatched[i].kind = "answer" /\ unmatched[i].key \in Keys /\ unmatched[i].value \in Values
<1> TAKE i \in 1 .. Len(unmatched)
<1>1. unmatched[i] \in Kept
  BY ElementOfSeq DEF WireType
<1> QED
  BY <1>1 DEF Kept

\* An inquiry that is sent awaits its answer, or has taken one that was kept.
LEMMA SendKeeps ==
  ASSUME DriverType, WireInv, Send
  PROVE  WireInv'
<1> DEFINE r == Head(script)
<1>1. r \in Requests
  <2>1. script \in Seq(Requests) /\ script # <<>>
    BY DEF DriverType, Send
  <2> QED
    BY <2>1, HeadTailProperties
<1>2. /\ stage' = "waiting" /\ IsConnected /\ IsConnected' /\ requests' = Append(requests, r)
      /\ UNCHANGED <<script, wire, truth, faults>> /\ stage # "waiting" /\ session' = session
  BY DEF Send, exchangeVars, boundVars, IsConnected
<1>3. pending = NoRequest
  BY <1>2 DEF WireInv, PendingInv
<1>4. /\ requests' \in Seq(Requests)
      /\ \A key : Number(requests, "ask", key)' =
                     Number(requests, "ask", key) + IF r.kind = "ask" /\ r.key = key THEN 1 ELSE 0
  BY <1>1, <1>2, NumberAppend DEF WireInv, WireType
<1>5. \A key : /\ Number(requests, "ask", key) \in Nat /\ Number(wire, "answer", key) \in Nat
               /\ Number(unmatched, "answer", key) \in Nat /\ faults \in Nat
               /\ Expected(key) \in {0, 1}
  BY Parts3 DEF WireInv
<1>6. \A key \in RealKeys : Expected(key) = 0
  BY <1>3, KeysAre DEF Expected
<1>7. r.kind \in {"ask", "write"} /\ r.key \in Keys
  BY <1>1, RequestIs
<1>8. r' = r
  BY <1>2
<1> HIDE DEF r
<1>9. CASE r.kind = "write"
  <2>1. UNCHANGED <<pending, unmatched>>
    BY <1>9 DEF Send, r
  <2>2. WireType'
    BY <1>2, <1>4, <2>1 DEF WireInv, WireType
  <2>3. PendingInv'
    <3>1. \A i \in 1 .. Len(unmatched) : unmatched[i].key \in Keys
      BY KeptAre DEF WireInv
    <3>2. Head(script') = r
      BY <1>2 DEF r
    <3> QED
      BY <1>2, <1>3, <1>9, <2>1, <3>1, <3>2, KeysAre DEF PendingInv, IsConnected
  <2>4. \A key : Outstanding(key)' = Outstanding(key)
    BY <1>2, <1>4, <1>5, <1>9, <2>1 DEF Outstanding
  <2>5. \A key : Expected(key)' = Expected(key)
    BY <1>2, <2>1 DEF Expected
  <2> QED
    BY <1>2, <2>2, <2>3, <2>4, <2>5 DEF WireInv, RecentInv
<1>10. CASE r.kind = "ask"
  <2>1. Arm(r.key)
    BY <1>10 DEF Send, r
  <2>2. unmatched \in Seq(Kept)
    BY DEF WireInv, WireType
  <2>3. CASE /\ \A i \in 1 .. Len(unmatched) : unmatched[i].key # r.key
             /\ pending' = [key |-> r.key, answer |-> NoValue] /\ UNCHANGED unmatched
    <3>1. WireType'
      BY <1>2, <1>4, <1>7, <2>3 DEF WireInv, WireType, Pending
    <3>2. PendingInv'
      <4>1. Head(script') = r
        BY <1>2 DEF r
      <4> QED
        BY <1>2, <1>10, <2>3, <4>1 DEF PendingInv, IsConnected
    <3>3. \A key : Outstanding(key)' = Outstanding(key) + IF r.key = key THEN 1 ELSE 0
      BY <1>2, <1>4, <1>5, <1>10, <2>3 DEF Outstanding
    <3>4. \A key : Expected(key)' = IF r.key = key THEN 1 ELSE 0
      BY <1>2, <2>3 DEF Expected
    <3>5. \A key \in RealKeys : Outstanding(key) \in Nat /\ Outstanding(key) <= faults
      BY <1>5, <1>6 DEF WireInv, RecentInv, Outstanding
    <3> QED
      BY <1>2, <1>5, <3>1, <3>2, <3>3, <3>4, <3>5 DEF WireInv, RecentInv
  <2>4. CASE \E k \in 1 .. Len(unmatched) :
              /\ unmatched[k].key = r.key /\ unmatched' = RemoveAt(unmatched, k)
              /\ pending' = [key |-> r.key, answer |-> unmatched[k].value]
    <3> PICK k \in 1 .. Len(unmatched) :
              /\ unmatched[k].key = r.key /\ unmatched' = RemoveAt(unmatched, k)
              /\ pending' = [key |-> r.key, answer |-> unmatched[k].value]
      BY <2>4
    <3>1. unmatched[k].kind = "answer" /\ unmatched[k].value \in Values
      BY KeptAre DEF WireInv
    <3>2. /\ unmatched' \in Seq(Kept)
          /\ \A key : Number(unmatched, "answer", key) =
                         Number(unmatched, "answer", key)' + IF r.key = key THEN 1 ELSE 0
          /\ \A key : Number(unmatched, "answer", key)' \in Nat
      BY <2>2, <3>1, NumberRemove
    <3>3. pending' \in Pending /\ pending'.answer # NoValue /\ pending'.key = r.key
      BY <1>7, <3>1, DeviceAssumption DEF Pending
    <3>4. WireType'
      BY <1>2, <1>4, <3>2, <3>3 DEF WireInv, WireType
    <3>5. PendingInv'
      <4>1. Head(script') = r
        BY <1>2 DEF r
      <4> QED
        BY <1>2, <1>10, <3>3, <4>1 DEF PendingInv, IsConnected
    <3>6. \A key : Outstanding(key)' = Outstanding(key)
      <4> TAKE key
      <4>1. /\ Number(requests, "ask", key)' =
                 Number(requests, "ask", key) + IF r.key = key THEN 1 ELSE 0
            /\ Number(wire, "answer", key)' = Number(wire, "answer", key)
        BY <1>2, <1>4, <1>10
      <4> QED
        BY <1>5, <3>2, <4>1 DEF Outstanding
    <3>7. \A key \in RealKeys : Expected(key)' = Expected(key)
      BY <1>6, <3>3 DEF Expected
    <3> QED
      BY <1>2, <3>4, <3>5, <3>6, <3>7 DEF WireInv, RecentInv
  <2> QED
    BY <2>1, <2>2, <2>3, <2>4, ArmIs
<1> QED
  BY <1>7, <1>9, <1>10

\* A step after which the driver waits for nothing, and nothing is added.
LEMMA SettledKeeps ==
  ASSUME WireInv, stage' # "waiting", pending' = NoRequest, UNCHANGED truth, faults' \in Nat,
         unmatched' \in {unmatched, <<>>}, wire' \in {wire, <<>>}, requests' \in {requests, <<>>},
         session' # "running" => requests' = <<>>,
         \A key \in RealKeys : Outstanding(key) <= faults'
  PROVE  WireInv'
<1>1. WireType'
  BY EmptySeq DEF WireInv, WireType, Pending
<1>2. PendingInv'
  BY DEF PendingInv
<1>3. ASSUME NEW key \in RealKeys PROVE Outstanding(key)' <= faults' + Expected(key)'
  <2>1. /\ Number(requests, "ask", key) \in Nat /\ Number(wire, "answer", key) \in Nat
        /\ Number(unmatched, "answer", key) \in Nat
    BY Parts3 DEF WireInv
  <2>2. /\ Number(requests, "ask", key)' \in {Number(requests, "ask", key), 0}
        /\ Number(wire, "answer", key)' \in {Number(wire, "answer", key), 0}
        /\ Number(unmatched, "answer", key)' \in {Number(unmatched, "answer", key), 0}
    BY NumberEmpty
  <2>3. Expected(key)' = 0
    BY KeysAre DEF Expected
  <2>4. Outstanding(key)' <= Outstanding(key) /\ Outstanding(key) \in Nat /\ Outstanding(key)' \in Nat
    BY <2>1, <2>2 DEF Outstanding
  <2> QED
    BY <2>3, <2>4
<1> QED
  BY <1>1, <1>2, <1>3 DEF WireInv, RecentInv

LEMMA OutstandingIs ==
  ASSUME WireInv, NEW key \in RealKeys
  PROVE  /\ Outstanding(key) \in Nat /\ faults \in Nat /\ Expected(key) \in {0, 1}
         /\ Outstanding(key) <= faults + Expected(key)
<1>1. /\ Number(requests, "ask", key) \in Nat /\ Number(wire, "answer", key) \in Nat
      /\ Number(unmatched, "answer", key) \in Nat /\ faults \in Nat /\ Expected(key) \in {0, 1}
  BY Parts3 DEF WireInv
<1> QED
  BY <1>1 DEF WireInv, RecentInv, Outstanding

LEMMA DisconnectedKeeps ==
  ASSUME DriverType, WireInv, Disconnected
  PROVE  WireInv'
<1>1. stage' \in {"sending", "finished", "failed"}
  BY FailIs DEF Disconnected
<1>2. /\ pending' = NoRequest /\ ~IsConnected
      /\ UNCHANGED <<session, truth, faults, unmatched, wire, requests>>
  BY DEF Disconnected, headsetVars, boundVars
<1>3. \A key \in RealKeys : Outstanding(key) <= faults
  BY <1>2, OutstandingIs DEF Expected
<1>4. requests = <<>> /\ faults \in Nat
  BY <1>2 DEF WireInv, PendingInv, WireType, IsConnected
<1> QED
  BY <1>1, <1>2, <1>3, <1>4, SettledKeeps

LEMMA ReceivedKeeps ==
  ASSUME WireInv, Receive \/ Acknowledged
  PROVE  WireInv'
<1>1. stage' # "waiting"
  BY DEF Receive, Acknowledged
<1>2. IsConnected /\ UNCHANGED <<session, truth, faults, unmatched, wire, requests>>
  BY DEF Receive, Acknowledged, headsetVars, boundVars, sessionVars
<1>3. pending' = NoRequest /\ \A key \in RealKeys : Expected(key) = 0
  <2>1. CASE Receive
    BY <2>1 DEF Receive, Expected
  <2>2. CASE Acknowledged
    BY <2>2, KeysAre DEF Acknowledged, WireInv, PendingInv, sessionVars, Expected
  <2> QED
    BY <2>1, <2>2
<1>4. faults \in Nat /\ \A key \in RealKeys : Outstanding(key) <= faults
  BY <1>3, OutstandingIs DEF WireInv, WireType
<1> QED
  BY <1>1, <1>2, <1>3, <1>4, SettledKeeps DEF IsConnected

\* A deadline passes with an answer on its way, or there is none at all.
LEMMA TimeOutKeeps ==
  ASSUME DriverType, WireInv, TimeOut
  PROVE  WireInv'
<1>1. stage' \in {"sending", "finished", "failed"}
  BY FailIs DEF TimeOut
<1>2. /\ pending' = NoRequest /\ IsConnected /\ stage = "waiting"
      /\ UNCHANGED <<session, truth, unmatched, wire, requests>>
  BY DEF TimeOut, headsetVars
<1>3. faults \in Nat
  BY DEF WireInv, WireType
<1>4. faults' \in Nat /\ \A key \in RealKeys : Outstanding(key) <= faults'
  <2>1. CASE Coming
    <3>1. faults' = faults + 1
      BY <2>1 DEF TimeOut
    <3> QED
      BY <1>3, <3>1, OutstandingIs
  <2>2. CASE ~Coming
    <3>1. faults' = faults
      BY <2>2 DEF TimeOut
    <3>2. ASSUME NEW key \in RealKeys PROVE Outstanding(key) <= faults
      <4>1. CASE Expected(key) = 0
        BY <4>1, OutstandingIs
      <4>2. CASE Expected(key) # 0
        <5>1. pending.key = key /\ pending.answer = NoValue
          BY <4>2 DEF Expected
        <5>2. Head(script).kind = "ask" /\ Head(script).key = key
          BY <1>2, <5>1, KeysAre DEF WireInv, PendingInv
        <5>3. \A i \in 1 .. Len(unmatched) : unmatched[i].key # key
          BY <1>2, <5>1 DEF WireInv, PendingInv
        <5>4. Number(unmatched, "answer", key) = 0
          BY <5>3, NumberNone DEF WireInv, WireType
        <5>5. DOMAIN wire = 1 .. Len(wire)
          BY LenProperties DEF WireInv, WireType
        <5>6. requests = <<>> /\ \A i \in 1 .. Len(wire) : wire[i].kind # "answer" \/ wire[i].key # key
          BY <2>2, <5>2, <5>5 DEF Coming
        <5>7. Number(wire, "answer", key) = 0
          BY <5>6, NumberNone DEF WireInv, WireType
        <5>8. Number(requests, "ask", key) = 0
          BY <5>6, NumberEmpty
        <5> QED
          BY <1>3, <5>4, <5>7, <5>8 DEF Outstanding
      <4> QED
        BY <4>1, <4>2
    <3> QED
      BY <1>3, <3>1, <3>2
  <2> QED
    BY <2>1, <2>2
<1> QED
  BY <1>1, <1>2, <1>4, SettledKeeps DEF IsConnected

LEMMA CallsKeep ==
  ASSUME DriverType, DriverInv, WireInv, DriverEnds \/ DriverBegins
  PROVE  WireInv'
<1>1. /\ UNCHANGED <<pending, truth>> /\ faults' \in {faults, faults + 1}
      /\ unmatched' \in {unmatched, <<>>} /\ wire' \in {wire, <<>>} /\ requests' \in {requests, <<>>}
  BY CallsWire DEF WireInv
<1>2. stage # "waiting" /\ stage' # "waiting"
  <2>1. CASE DriverBegins
    <3>1. stage # "waiting"
      BY <2>1 DEF DriverBegins, RefreshSettingsStep, RefreshBattery, Open, Set, Idle
    <3> QED
      BY <2>1, <3>1, DriverBeginsType
  <2>2. CASE DriverAnnounces \/ NoReading \/ WriteFails \/ Initialised
    BY <2>2, ContinueIs DEF DriverAnnounces, NoReading, WriteFails, Initialised
  <2>3. CASE KeepReading \/ OpenFails \/ ResetState \/ Leave \/ Disconnect \/ \E p \in Profiles : Connect(p)
    BY <2>3 DEF KeepReading, OpenFails, ResetState, Leave, Disconnect, Connect, Idle
  <2> QED
    BY <2>1, <2>2, <2>3 DEF DriverEnds
<1>3. pending = NoRequest
  BY <1>2 DEF WireInv, PendingInv
<1>4. faults' \in Nat /\ \A key \in RealKeys : Outstanding(key) <= faults'
  <2>1. \A key \in RealKeys : Expected(key) = 0
    BY <1>3, KeysAre DEF Expected
  <2> QED
    BY <1>1, <2>1, OutstandingIs DEF WireInv, WireType
<1>5. session' # "running" => requests' = <<>>
  <2>1. CASE DriverBegins
    <3>1. session' = "running"
      BY <2>1 DEF DriverBegins, RefreshSettingsStep, RefreshBattery, Open, Set, IsConnected
    <3> QED
      BY <3>1
  <2>2. CASE KeepReading \/ DriverAnnounces \/ NoReading \/ WriteFails \/ Initialised \/ OpenFails
    <3>1. UNCHANGED <<session, requests>>
      BY <2>2 DEF KeepReading, DriverAnnounces, NoReading, WriteFails, Initialised, OpenFails, headsetVars
    <3> QED
      BY <3>1 DEF WireInv, PendingInv
  <2>3. CASE ResetState \/ Leave
    <3>1. session = "closing" /\ UNCHANGED requests
      BY <2>3 DEF ResetState, Leave, DriverInv, SessionInv
    <3> QED
      BY <3>1 DEF WireInv, PendingInv
  <2>4. CASE Disconnect \/ \E p \in Profiles : Connect(p)
    BY <2>4 DEF Disconnect, Connect
  <2> QED
    BY <2>1, <2>2, <2>3, <2>4 DEF DriverEnds
<1> QED
  BY <1>1, <1>2, <1>3, <1>4, <1>5, SettledKeeps

\* The frame that the reader takes off the wire.
LEMMA WireHead ==
  ASSUME WireType, wire # <<>>, wire' = Tail(wire)
  PROVE  /\ Head(wire) \in Frames /\ wire' \in Seq(Frames)
         /\ \A key : /\ Number(wire, "answer", key)' \in Nat
                     /\ Number(wire, "answer", key) = Number(wire, "answer", key)'
                          + IF Head(wire).kind = "answer" /\ Head(wire).key = key THEN 1 ELSE 0
         /\ Head(wire).kind = "answer" => Head(wire) \in Kept
<1>1. wire \in Seq(Frames)
  BY DEF WireType
<1>2. /\ Head(wire) \in Frames /\ wire' \in Seq(Frames)
      /\ \A key : /\ Number(wire, "answer", key)' \in Nat
                  /\ Number(wire, "answer", key) = Number(wire, "answer", key)'
                       + IF Head(wire).kind = "answer" /\ Head(wire).key = key THEN 1 ELSE 0
  BY <1>1, NumberTail
<1>3. Head(wire).kind = "answer" => Head(wire) \in Kept
  <2>1. Head(wire) = Ack \/ Head(wire) \in Kept \/ Head(wire) \in [kind : {"notice"}, key : Keys, value : Values]
    BY <1>2 DEF Frames
  <2>2. Ack.kind # "answer"
    BY DEF Ack
  <2>3. \A m \in [kind : {"notice"}, key : Keys, value : Values] : m.kind # "answer"
    OBVIOUS
  <2> QED
    BY <2>1, <2>2, <2>3
<1> QED
  BY <1>2, <1>3

LEMMA TakeAckKeeps ==
  ASSUME WireInv, TakeAck
  PROVE  WireInv'
<1>1. /\ wire # <<>> /\ wire' = Tail(wire) /\ Head(wire).kind = "ack"
      /\ UNCHANGED <<stage, script, session, pending, unmatched, requests, truth, faults>>
  BY DEF TakeAck, Reading, exchangeVars, boundVars
<1>2. wire' \in Seq(Frames) /\ \A key : Number(wire, "answer", key)' = Number(wire, "answer", key)
  <2>1. \A key : Number(wire, "answer", key) \in Nat
    BY Parts3 DEF WireInv
  <2> QED
    BY <1>1, <2>1, WireHead DEF WireInv
<1>3. WireType' /\ PendingInv'
  BY <1>1, <1>2 DEF WireInv, WireType, PendingInv
<1>4. \A key : Outstanding(key)' = Outstanding(key) /\ Expected(key)' = Expected(key)
  BY <1>1, <1>2 DEF Outstanding, Expected, IsConnected
<1> QED
  BY <1>1, <1>3, <1>4 DEF WireInv, RecentInv

LEMMA TakeAnswerKeeps ==
  ASSUME WireInv, TakeAnswer
  PROVE  WireInv'
<1> DEFINE h == Head(wire)
<1>1. /\ wire # <<>> /\ wire' = Tail(wire) /\ h.kind = "answer" /\ h.key = pending.key
      /\ pending.answer = NoValue /\ pending' = [pending EXCEPT !.answer = h.value]
      /\ UNCHANGED <<stage, script, session, unmatched, requests, truth, faults>>
  BY DEF TakeAnswer, Reading, Matches, exchangeVars, boundVars
<1>2. /\ h \in Kept /\ wire' \in Seq(Frames)
      /\ \A key : /\ Number(wire, "answer", key)' \in Nat
                  /\ Number(wire, "answer", key) =
                       Number(wire, "answer", key)' + IF h.key = key THEN 1 ELSE 0
  BY <1>1, WireHead DEF WireInv
<1> HIDE DEF h
<1>3. h.key \in Keys /\ h.value \in Values
  BY <1>2 DEF Kept
<1>4. pending \in [key : Keys, answer : Values \cup {NoValue}]
  BY <1>1, <1>3, KeysAre DEF WireInv, WireType, Pending
<1>5. pending'.key = pending.key /\ pending'.answer = h.value /\ h.value # NoValue /\ pending' \in Pending
  BY <1>1, <1>3, <1>4, DeviceAssumption DEF Pending
<1>6. WireType'
  BY <1>1, <1>2, <1>5 DEF WireInv, WireType
<1>7. PendingInv'
  BY <1>1, <1>3, <1>5, KeysAre DEF WireInv, PendingInv
<1>8. ASSUME NEW key \in RealKeys PROVE Outstanding(key)' <= faults' + Expected(key)'
  <2>1. Expected(key)' = 0
    BY <1>5 DEF Expected
  <2>2. /\ Outstanding(key) \in Nat /\ faults \in Nat /\ Expected(key) \in {0, 1}
        /\ Outstanding(key) <= faults + Expected(key)
    BY OutstandingIs
  <2>3. Outstanding(key) = Outstanding(key)' + IF h.key = key THEN 1 ELSE 0
    <3>1. /\ Number(requests, "ask", key) \in Nat /\ Number(unmatched, "answer", key) \in Nat
          /\ Number(wire, "answer", key)' \in Nat
      BY <1>2, Parts3 DEF WireInv
    <3>2. /\ Number(requests, "ask", key)' = Number(requests, "ask", key)
          /\ Number(unmatched, "answer", key)' = Number(unmatched, "answer", key)
      BY <1>1
    <3> QED
      BY <1>2, <3>1, <3>2 DEF Outstanding
  <2>4. h.key # key => Expected(key) = 0
    BY <1>1 DEF Expected
  <2>5. Outstanding(key)' \in Nat
    BY <1>6, NumberIs DEF Outstanding, WireType
  <2> QED
    BY <1>1, <2>1, <2>2, <2>3, <2>4, <2>5
<1> QED
  BY <1>6, <1>7, <1>8 DEF WireInv, RecentInv

\* What nobody waits for is kept, if it is an answer.
LEMMA TakeUnmatchedKeeps ==
  ASSUME WireInv, TakeUnmatched
  PROVE  WireInv'
<1> DEFINE h == Head(wire)
<1>1. /\ wire # <<>> /\ wire' = Tail(wire) /\ h.kind # "ack" /\ ~Matches(h)
      /\ unmatched' = IF h.kind = "answer" THEN Append(unmatched, h) ELSE unmatched
      /\ UNCHANGED <<stage, script, session, pending, requests, truth, faults>>
  BY DEF TakeUnmatched, Reading, exchangeVars, boundVars
<1>2. /\ wire' \in Seq(Frames)
      /\ h.kind = "answer" => h \in Kept
      /\ \A key : /\ Number(wire, "answer", key)' \in Nat
                  /\ Number(wire, "answer", key) = Number(wire, "answer", key)'
                       + IF h.kind = "answer" /\ h.key = key THEN 1 ELSE 0
  BY <1>1, WireHead DEF WireInv
<1>3. unmatched \in Seq(Kept)
  BY DEF WireInv, WireType
<1> HIDE DEF h
<1>4. /\ unmatched' \in Seq(Kept)
      /\ \A key : /\ Number(unmatched, "answer", key) \in Nat
                  /\ Number(unmatched, "answer", key)' = Number(unmatched, "answer", key)
                       + IF h.kind = "answer" /\ h.key = key THEN 1 ELSE 0
  <2>1. CASE h.kind = "answer"
    BY <1>1, <1>2, <1>3, <2>1, NumberAppend
  <2>2. CASE h.kind # "answer"
    <3>1. \A key : Number(unmatched, "answer", key) \in Nat
      BY <1>3, NumberIs
    <3>2. unmatched' = unmatched
      BY <1>1, <2>2
    <3> QED
      BY <1>3, <2>2, <3>1, <3>2
  <2> QED
    BY <2>1, <2>2
<1>5. WireType'
  BY <1>1, <1>2, <1>4 DEF WireInv, WireType
<1>6. PendingInv'
  <2>1. stage = "waiting" /\ pending.answer = NoValue =>
          \A i \in 1 .. Len(unmatched') : unmatched'[i].key # pending.key
    <3>1. CASE h.kind = "answer"
      <4>1. h \in Kept /\ unmatched' = Append(unmatched, h) /\ Len(unmatched) \in Nat
        BY <1>1, <1>2, <1>3, <3>1, LenProperties
      <4>2. /\ Len(unmatched') = Len(unmatched) + 1 /\ unmatched'[Len(unmatched) + 1] = h
            /\ \A i \in 1 .. Len(unmatched) : unmatched'[i] = unmatched[i]
        BY <1>3, <4>1, AppendProperties
      <4>3. pending.answer = NoValue => h.key # pending.key
        BY <1>1, <3>1 DEF Matches
      <4> QED
        BY <4>1, <4>2, <4>3 DEF WireInv, PendingInv
    <3>2. CASE h.kind # "answer"
      BY <1>1, <3>2 DEF WireInv, PendingInv
    <3> QED
      BY <3>1, <3>2
  <2> QED
    BY <1>1, <2>1 DEF WireInv, PendingInv
<1>7. \A key : Outstanding(key)' = Outstanding(key) /\ Expected(key)' = Expected(key)
  <2> TAKE key
  <2>1. Number(requests, "ask", key) \in Nat /\ Number(requests, "ask", key)' = Number(requests, "ask", key)
    BY <1>1, Parts3 DEF WireInv
  <2>2. Outstanding(key)' = Outstanding(key)
    BY <1>2, <1>4, <2>1 DEF Outstanding
  <2>3. Expected(key)' = Expected(key)
    BY <1>1 DEF Expected, IsConnected
  <2> QED
    BY <2>2, <2>3
<1> QED
  BY <1>1, <1>5, <1>6, <1>7 DEF WireInv, RecentInv

LEMMA ReaderKeeps ==
  ASSUME WireInv, Reader
  PROVE  WireInv'
<1>1. CASE OnNotification \/ ReaderAnnounces
  <2>1. UNCHANGED <<stage, script, session, pending, unmatched, wire, requests, truth, faults>>
    BY <1>1 DEF OnNotification, ReaderAnnounces, exchangeVars, sessionVars, headsetVars, boundVars
  <2>2. WireType' /\ PendingInv'
    BY <2>1 DEF WireInv, WireType, PendingInv
  <2>3. \A key : Outstanding(key)' = Outstanding(key) /\ Expected(key)' = Expected(key)
    BY <2>1 DEF Outstanding, Expected, IsConnected
  <2> QED
    BY <2>1, <2>2, <2>3 DEF WireInv, RecentInv
<1> QED
  BY <1>1, TakeAckKeeps, TakeAnswerKeeps, TakeUnmatchedKeeps DEF Reader

\* An inquiry is answered, a write acknowledged; a change is told in a notice.
LEMMA HeadsetTakesKeeps ==
  ASSUME WireInv, HeadsetTakes
  PROVE  WireInv'
<1> DEFINE r == Head(requests)
           v == IF r.key[1] \in Features THEN truth[r.key[1]] ELSE CHOOSE w \in Values : TRUE
<1>1. /\ IsConnected /\ requests # <<>> /\ requests' = Tail(requests)
      /\ UNCHANGED <<stage, script, session, pending, unmatched, faults>>
  BY DEF HeadsetTakes, exchangeVars, sessionVars, boundVars
<1>2. requests \in Seq(Requests) /\ wire \in Seq(Frames) /\ truth \in [Features -> Values]
  BY DEF WireInv, WireType
<1>3. /\ r \in Requests /\ requests' \in Seq(Requests)
      /\ \A key : /\ Number(requests, "ask", key)' \in Nat
                  /\ Number(requests, "ask", key) =
                       Number(requests, "ask", key)' + IF r.kind = "ask" /\ r.key = key THEN 1 ELSE 0
  BY <1>1, <1>2, NumberTail
<1>4. v \in Values
  BY <1>2, DeviceAssumption
<1>5. CASE r.kind = "write"
  <2>1. wire' = Append(wire, Ack)
    BY <1>5 DEF HeadsetTakes
  <2>2. truth' = truth \/ truth' = [truth EXCEPT ![r.key[1]] = r.value]
    BY <1>5 DEF HeadsetTakes
  <2> HIDE DEF r
  <2>3. truth' \in [Features -> Values]
    <3>1. r.value \in Values
      BY <1>3, <1>5, RequestIs
    <3> QED
      BY <1>2, <2>2, <3>1
  <2>4. /\ wire' \in Seq(Frames)
        /\ \A key : Number(wire, "answer", key)' = Number(wire, "answer", key) /\ Number(wire, "answer", key) \in Nat
    <3>1. Ack \in Frames /\ Ack.kind # "answer"
      BY KeysAre DEF Ack
    <3> QED
      BY <1>2, <2>1, <3>1, NumberAppend
  <2>5. WireType'
    BY <1>1, <1>3, <2>3, <2>4 DEF WireInv, WireType
  <2>6. PendingInv'
    BY <1>1 DEF WireInv, PendingInv, IsConnected
  <2>7. \A key : Outstanding(key)' = Outstanding(key) /\ Expected(key)' = Expected(key)
    <3> TAKE key
    <3>1. /\ Number(requests, "ask", key)' = Number(requests, "ask", key)
          /\ Number(unmatched, "answer", key)' = Number(unmatched, "answer", key)
      BY <1>1, <1>3, <1>5
    <3> QED
      BY <1>1, <2>4, <3>1 DEF Outstanding, Expected, IsConnected
  <2> QED
    BY <1>1, <2>5, <2>6, <2>7 DEF WireInv, RecentInv
<1>6. CASE r.kind = "ask"
  <2> DEFINE a == Answer(r.key, v)
  <2>1. wire' = wire \o <<Ack, a>> /\ truth' = truth
    BY <1>6 DEF HeadsetTakes
  <2> HIDE DEF r, v
  <2>2. Ack \in Frames /\ a \in Frames
    <3>1. r.key \in Keys
      BY <1>3, RequestIs
    <3> QED
      BY <1>4, <3>1, KeysAre
  <2>3. Ack.kind # "answer" /\ a.kind = "answer" /\ a.key = r.key
    BY DEF Ack, Answer
  <2> HIDE DEF a
  <2>4. wire' = Append(Append(wire, Ack), a)
    <3>1. <<Ack>> \in Seq(Frames) /\ <<a>> \in Seq(Frames) /\ <<Ack, a>> = <<Ack>> \o <<a>>
      BY <2>2
    <3>2. Append(wire, Ack) = wire \o <<Ack>> /\ Append(wire, Ack) \in Seq(Frames)
      BY <1>2, <2>2, AppendIsConcat, AppendProperties
    <3>3. Append(Append(wire, Ack), a) = Append(wire, Ack) \o <<a>>
      BY <2>2, <3>2, AppendIsConcat
    <3>4. (wire \o <<Ack>>) \o <<a>> = wire \o (<<Ack>> \o <<a>>)
      BY <1>2, <3>1, ConcatAssociative
    <3> QED
      BY <2>1, <3>1, <3>2, <3>3, <3>4
  <2>5. /\ wire' \in Seq(Frames)
        /\ \A key : /\ Number(wire, "answer", key) \in Nat
                    /\ Number(wire, "answer", key)' =
                         Number(wire, "answer", key) + IF r.key = key THEN 1 ELSE 0
    <3> DEFINE w == Append(wire, Ack)
    <3>1. w \in Seq(Frames) /\ \A key : /\ Number(wire, "answer", key) \in Nat
                                        /\ Number(w, "answer", key) = Number(wire, "answer", key)
      BY <1>2, <2>2, <2>3, NumberAppend
    <3> HIDE DEF w
    <3>2. /\ Append(w, a) \in Seq(Frames)
          /\ \A key : Number(Append(w, a), "answer", key) =
                         Number(w, "answer", key) + IF r.key = key THEN 1 ELSE 0
      BY <2>2, <2>3, <3>1, NumberAppend
    <3>3. wire' = Append(w, a)
      BY <2>4 DEF w
    <3> QED
      BY <3>1, <3>2, <3>3
  <2>6. WireType'
    BY <1>1, <1>3, <2>1, <2>5 DEF WireInv, WireType
  <2>7. PendingInv'
    BY <1>1 DEF WireInv, PendingInv, IsConnected
  <2>8. \A key : Outstanding(key)' = Outstanding(key) /\ Expected(key)' = Expected(key)
    <3> TAKE key
    <3>1. /\ Number(requests, "ask", key)' \in Nat
          /\ Number(requests, "ask", key) =
               Number(requests, "ask", key)' + IF r.key = key THEN 1 ELSE 0
          /\ Number(unmatched, "answer", key)' = Number(unmatched, "answer", key)
          /\ Number(unmatched, "answer", key) \in Nat
      BY <1>1, <1>3, <1>6, Parts3 DEF WireInv
    <3>2. Outstanding(key)' = Outstanding(key)
      BY <2>5, <3>1 DEF Outstanding
    <3>3. Expected(key)' = Expected(key)
      BY <1>1 DEF Expected, IsConnected
    <3> QED
      BY <3>2, <3>3
  <2> QED
    BY <1>1, <2>6, <2>7, <2>8 DEF WireInv, RecentInv
<1> QED
  BY <1>3, <1>5, <1>6, RequestIs

\* A fault that takes requests away, and what the wearer does.
LEMMA HeadsetKeeps ==
  ASSUME WireInv, LoseRequest \/ LinkBreaks \/ \E f \in Features, v \in Values : HeadsetChanges(f, v)
  PROVE  WireInv'
<1>1. CASE LoseRequest
  <2>1. /\ IsConnected /\ requests # <<>> /\ requests' = Tail(requests) /\ faults' = faults + 1
        /\ UNCHANGED <<stage, script, session, pending, unmatched, wire, truth>>
    BY <1>1 DEF LoseRequest, exchangeVars, sessionVars
  <2>2. /\ requests' \in Seq(Requests) /\ faults \in Nat
        /\ \A key : /\ Number(requests, "ask", key)' \in Nat
                    /\ \/ Number(requests, "ask", key) = Number(requests, "ask", key)'
                       \/ Number(requests, "ask", key) = Number(requests, "ask", key)' + 1
    BY <2>1, NumberTail DEF WireInv, WireType
  <2>3. WireType' /\ PendingInv'
    BY <2>1, <2>2 DEF WireInv, WireType, PendingInv, IsConnected
  <2>4. ASSUME NEW key \in RealKeys PROVE Outstanding(key)' <= faults' + Expected(key)'
    <3>1. /\ Number(wire, "answer", key)' = Number(wire, "answer", key)
          /\ Number(unmatched, "answer", key)' = Number(unmatched, "answer", key)
          /\ Number(wire, "answer", key) \in Nat /\ Number(unmatched, "answer", key) \in Nat
      BY <2>1, Parts3 DEF WireInv
    <3>2. Outstanding(key)' \in Nat /\ Outstanding(key)' <= Outstanding(key)
      BY <2>2, <3>1 DEF Outstanding
    <3>3. Expected(key)' = Expected(key)
      BY <2>1 DEF Expected, IsConnected
    <3> QED
      BY <2>1, <3>2, <3>3, OutstandingIs
  <2> QED
    BY <2>3, <2>4 DEF WireInv, RecentInv
<1>2. CASE LinkBreaks
  <2>1. /\ requests' = <<>> /\ faults' = faults + 1 /\ session' = "lost"
        /\ UNCHANGED <<stage, script, pending, unmatched, wire, truth>>
    BY <1>2 DEF LinkBreaks, exchangeVars, sessionVars
  <2>2. WireType' /\ PendingInv'
    BY <2>1, EmptySeq DEF WireInv, WireType, PendingInv
  <2>3. ASSUME NEW key \in RealKeys PROVE Outstanding(key)' <= faults' + Expected(key)'
    <3>1. /\ Number(wire, "answer", key)' = Number(wire, "answer", key)
          /\ Number(unmatched, "answer", key)' = Number(unmatched, "answer", key)
          /\ Number(requests, "ask", key)' = 0
          /\ Number(wire, "answer", key) \in Nat /\ Number(unmatched, "answer", key) \in Nat
          /\ Number(requests, "ask", key) \in Nat
      BY <2>1, Parts3, NumberEmpty DEF WireInv
    <3>2. Outstanding(key)' \in Nat /\ Outstanding(key)' <= Outstanding(key)
      BY <3>1 DEF Outstanding
    <3>3. Expected(key)' = 0
      BY <2>1 DEF Expected, IsConnected
    <3> QED
      BY <2>1, <3>2, <3>3, OutstandingIs
  <2> QED
    BY <2>2, <2>3 DEF WireInv, RecentInv
<1>3. ASSUME NEW f \in Features, NEW v \in Values, HeadsetChanges(f, v) PROVE WireInv'
  <2>1. UNCHANGED <<stage, script, session, pending, unmatched, requests, faults>>
    BY <1>3 DEF HeadsetChanges, exchangeVars, sessionVars
  <2>2. truth' \in [Features -> Values]
    BY <1>3 DEF HeadsetChanges, WireInv, WireType
  <2>3. /\ wire' \in Seq(Frames)
        /\ \A key : Number(wire, "answer", key)' = Number(wire, "answer", key)
    <3>1. CASE wire' = wire
      BY <3>1 DEF WireInv, WireType
    <3>2. CASE \E part \in Parts : wire' = Append(wire, Notice(Key(f, part), v))
      <4> PICK part \in Parts : wire' = Append(wire, Notice(Key(f, part), v))
        BY <3>2
      <4>1. Notice(Key(f, part), v) \in Frames /\ Notice(Key(f, part), v).kind # "answer"
        BY DEF Notice, Frames, Keys, Key
      <4>2. wire \in Seq(Frames)
        BY DEF WireInv, WireType
      <4>3. \A key : Number(wire, "answer", key) \in Nat
        BY Parts3 DEF WireInv
      <4> DEFINE n == Notice(Key(f, part), v)
      <4> HIDE DEF n
      <4>4. /\ Append(wire, n) \in Seq(Frames)
            /\ \A key : Number(Append(wire, n), "answer", key) = Number(wire, "answer", key)
        BY <4>1, <4>2, <4>3, NumberAppend DEF n
      <4> QED
        BY <4>4 DEF n
    <3> QED
      BY <1>3, <3>1, <3>2 DEF HeadsetChanges
  <2>4. WireType'
    BY <2>1, <2>2, <2>3 DEF WireInv, WireType
  <2>5. PendingInv'
    BY <2>1 DEF WireInv, PendingInv
  <2>6. \A key : Outstanding(key)' = Outstanding(key) /\ Expected(key)' = Expected(key)
    BY <2>1, <2>3 DEF Outstanding, Expected, IsConnected
  <2> QED
    BY <2>1, <2>4, <2>5, <2>6 DEF WireInv, RecentInv
<1> QED
  BY <1>1, <1>2, <1>3

----------------------------------------------------------------------------
(* The session of a call, and the connection a feature was confirmed on.   *)

LEMMA SessionKeeps ==
  ASSUME DriverType, SessionInv, Next
  PROVE  SessionInv'
<1> USE DEF SessionInv, Live
<1>1. CASE Exchanges
  <2>1. session' = session /\ reader' = reader /\ session \in {"running", "lost"}
    BY <1>1 DEF Exchanges, Send, Disconnected, Receive, Acknowledged, TimeOut, readerVars
  <2>2. stage' \in {"sending", "waiting", "finished", "failed"}
    <3>1. CASE Send \/ Receive \/ Acknowledged
      BY <3>1 DEF Send, Receive, Acknowledged
    <3>2. CASE Disconnected \/ TimeOut
      BY <3>2, FailIs DEF Disconnected, TimeOut
    <3> QED
      BY <1>1, <3>1, <3>2 DEF Exchanges
  <2> QED
    BY <2>1, <2>2
<1>2. CASE KeepReading
  BY <1>2 DEF KeepReading, readerVars
<1>3. CASE DriverAnnounces \/ NoReading \/ WriteFails \/ Initialised
  <2>1. session' = session /\ reader' = reader /\ session \in {"running", "lost"}
    BY <1>3 DEF DriverAnnounces, NoReading, WriteFails, Initialised, readerVars
  <2>2. stage' \in {"sending", "idle"}
    BY <1>3, ContinueIs DEF DriverAnnounces, NoReading, WriteFails, Initialised
  <2> QED
    BY <2>1, <2>2
<1>4. CASE DriverBegins
  <2>1. stage' = "sending"
    BY <1>4, DriverBeginsType
  <2>2. session' = "running" /\ reader' = reader
    BY <1>4 DEF DriverBegins, RefreshSettingsStep, RefreshBattery, Open, Set, IsConnected, readerVars
  <2> QED
    BY <2>1, <2>2
<1>5. CASE OpenFails \/ ResetState \/ Leave \/ Disconnect
  BY <1>5 DEF OpenFails, ResetState, Leave, Disconnect, readerVars
<1>6. CASE \E p \in Profiles : Connect(p)
  BY <1>6 DEF Connect, readerVars
<1>7. CASE Reader
  BY <1>7 DEF Reader, TakeAck, TakeAnswer, TakeUnmatched, OnNotification, ReaderAnnounces, Reading, readerVars
<1>8. CASE Headset
  BY <1>8 DEF Headset, HeadsetTakes, LoseRequest, LinkBreaks, HeadsetChanges, IsConnected, readerVars
<1> QED
  BY <1>1, <1>2, <1>3, <1>4, <1>5, <1>6, <1>7, <1>8
     DEF Next, Driver, User, Exchanges, DriverBegins

StateInv == StateType /\ ValidIsOurs

\* What is stored is confirmed on the connection there is.
LEMMA StoreKeeps ==
  ASSUME StateInv, connection \in Nat, Live, UNCHANGED <<connection, session>>,
         NEW f, NEW v, Store(f, v)
  PROVE  StateInv'
<1>1. /\ availability' = [availability EXCEPT ![f] = "valid"]
      /\ origin' = [origin EXCEPT ![f] = connection]
  BY DEF Store, MarkSuccess
<1>2. StateType'
  BY <1>1 DEF StateInv, StateType
<1>3. ValidIsOurs'
  BY <1>1 DEF StateInv, StateType, ValidIsOurs, Live
<1> QED
  BY <1>2, <1>3 DEF StateInv

\* No feature becomes valid.
LEMMA LessIsValid ==
  ASSUME StateInv, UNCHANGED origin,
         availability' \in [Features -> {"unknown", "unsupported", "valid", "stale"}],
         \A f \in Features : availability'[f] = "valid" =>
           availability[f] = "valid" /\ connection' = connection /\ (Live => Live')
  PROVE  StateInv'
<1>1. StateType'
  BY DEF StateInv, StateType
<1>2. ValidIsOurs'
  BY DEF StateInv, ValidIsOurs, Live
<1> QED
  BY <1>1, <1>2 DEF StateInv

LEMMA StateKeeps ==
  ASSUME DriverType, SessionInv, StateInv, Next
  PROVE  StateInv'
<1> USE DEF stateVars
<1>1. CASE KeepReading
  <2>1. Store(op.feature, Learned) /\ UNCHANGED <<connection, session>> /\ Live
    BY <1>1 DEF KeepReading, SessionInv, Live
  <2> QED
    BY <2>1, StoreKeeps DEF DriverType
<1>2. CASE OnNotification
  <2>1. Live /\ UNCHANGED <<connection, session>>
    BY <1>2 DEF OnNotification, SessionInv
  <2>2. \E f, v : Store(f, v)
    BY <1>2 DEF OnNotification
  <2> QED
    BY <2>1, <2>2, StoreKeeps DEF DriverType
<1>3. CASE NoReading
  <2>1. UNCHANGED <<origin, connection, session>> /\ MarkError(op.feature)
    BY <1>3 DEF NoReading, MarkError
  <2>2. availability \in [Features -> {"unknown", "unsupported", "valid", "stale"}]
    BY DEF StateInv, StateType
  <2>3. /\ availability' \in [Features -> {"unknown", "unsupported", "valid", "stale"}]
        /\ \A f \in Features : availability'[f] = "valid" => availability[f] = "valid"
    BY <2>1, <2>2 DEF MarkError
  <2> QED
    BY <2>1, <2>3, LessIsValid DEF Live
<1>4. CASE ResetState
  <2>1. UNCHANGED origin /\ \A f \in Features : availability'[f] # "valid"
    BY <1>4 DEF ResetState
  <2>2. availability' \in [Features -> {"unknown", "unsupported", "valid", "stale"}]
    BY <1>4 DEF ResetState
  <2> QED
    BY <2>1, <2>2, LessIsValid
<1>5. CASE Leave
  <2>1. UNCHANGED origin /\ MarkStale
    BY <1>5 DEF Leave
  <2>2. availability \in [Features -> {"unknown", "unsupported", "valid", "stale"}]
    BY DEF StateInv, StateType
  <2>3. /\ availability' \in [Features -> {"unknown", "unsupported", "valid", "stale"}]
        /\ \A f \in Features : availability'[f] # "valid"
    BY <2>1, <2>2 DEF MarkStale
  <2> QED
    BY <2>1, <2>3, LessIsValid
<1>6. CASE Open
  <2>1. UNCHANGED <<origin, availability>> /\ session = "none"
    BY <1>6 DEF Open, SessionInv
  <2>2. \A f \in Features : availability[f] # "valid"
    BY <2>1 DEF StateInv, ValidIsOurs
  <2> QED
    BY <2>1, <2>2, LessIsValid DEF StateInv, StateType
<1>7. CASE DriverAnnounces \/ ReaderAnnounces
  <2>1. UNCHANGED <<origin, availability, connection, session>>
    BY <1>7 DEF DriverAnnounces, ReaderAnnounces, Announce
  <2> QED
    BY <2>1, LessIsValid DEF StateInv, StateType, Live
<1>8. CASE \/ Exchanges \/ WriteFails \/ Initialised \/ OpenFails \/ RefreshSettingsStep \/ RefreshBattery
           \/ \E f \in Features, v \in Values : Set(f, v)
  <2>1. UNCHANGED <<origin, availability, connection, session>>
    <3>1. CASE Exchanges
      BY <3>1 DEF Exchanges, Send, Disconnected, Receive, Acknowledged, TimeOut
    <3>2. CASE WriteFails \/ Initialised \/ OpenFails \/ RefreshSettingsStep \/ RefreshBattery
      BY <3>2 DEF WriteFails, Initialised, OpenFails, RefreshSettingsStep, RefreshBattery
    <3>3. CASE \E f \in Features, v \in Values : Set(f, v)
      BY <3>3 DEF Set
    <3> QED
      BY <1>8, <3>1, <3>2, <3>3
  <2> QED
    BY <2>1, LessIsValid DEF StateInv, StateType, Live
<1>9. CASE Disconnect \/ \E p \in Profiles : Connect(p)
  <2>1. UNCHANGED <<origin, availability, connection>> /\ session' = "closing"
    BY <1>9 DEF Disconnect, Connect
  <2> QED
    BY <2>1, LessIsValid DEF StateInv, StateType, Live
<1>10. CASE TakeAck \/ TakeAnswer \/ TakeUnmatched \/ Headset
  <2>1. UNCHANGED <<origin, availability, connection>> /\ session' \in {session, "lost"}
    BY <1>10 DEF TakeAck, TakeAnswer, TakeUnmatched, Headset, HeadsetTakes, LoseRequest, LinkBreaks, HeadsetChanges
  <2> QED
    BY <2>1, LessIsValid DEF StateInv, StateType, Live
<1> QED
  BY <1>1, <1>2, <1>3, <1>4, <1>5, <1>6, <1>7, <1>8, <1>9, <1>10
     DEF Next, Driver, User, Reader, Exchanges

----------------------------------------------------------------------------
(* Theorems.                                                               *)

DeviceInv == DeviceType /\ DriverInv /\ PendingInv /\ RecentInv

LEMMA InitDeviceInv ==
  ASSUME Init
  PROVE  DeviceInv
<1>1. DriverType
  BY EmptySeq DEF Init, DriverType, UnknownProfile, Stages, Sessions
<1>2. WireType
  <2>1. truth \in [Features -> Values]
    BY DeviceAssumption DEF Init
  <2> QED
    BY <2>1, EmptySeq DEF Init, WireType, Pending
<1>3. StateType
  BY DEF Init, StateType
<1>4. DriverInv
  BY DEF Init, DriverInv, SessionInv, ValidIsOurs
<1>5. PendingInv
  BY DEF Init, PendingInv
<1>6. RecentInv
  <2> SUFFICES ASSUME NEW key \in RealKeys PROVE Outstanding(key) <= faults + Expected(key)
    BY DEF RecentInv
  <2>1. Outstanding(key) = 0
    BY NumberEmpty DEF Init, Outstanding
  <2>2. Expected(key) \in {0, 1} /\ faults = 0
    BY DEF Init, Expected
  <2> QED
    BY <2>1, <2>2
<1> QED
  BY <1>1, <1>2, <1>3, <1>4, <1>5, <1>6 DEF DeviceInv, DeviceType

LEMMA NextDeviceInv ==
  ASSUME DeviceInv, Next
  PROVE  DeviceInv'
<1> USE DEF DeviceInv, DeviceType, DriverInv, WireInv, StateInv
<1>1. SessionInv'
  BY SessionKeeps
<1>2. StateInv'
  BY StateKeeps
<1>3. CASE Exchanges
  BY <1>1, <1>2, <1>3, ExchangesType, SendKeeps, DisconnectedKeeps, ReceivedKeeps, TimeOutKeeps DEF Exchanges
<1>4. CASE DriverEnds \/ DriverBegins
  BY <1>1, <1>2, <1>4, DriverEndsType, DriverBeginsType, CallsKeep
<1>5. CASE Reader
  BY <1>1, <1>2, <1>5, OthersType, ReaderKeeps
<1>6. CASE Headset
  BY <1>1, <1>2, <1>6, OthersType, HeadsetTakesKeeps, HeadsetKeeps DEF Headset
<1> QED
  BY <1>3, <1>4, <1>5, <1>6 DEF Next, Driver, User, Exchanges, DriverEnds, DriverBegins

LEMMA StutterDeviceInv ==
  ASSUME DeviceInv, UNCHANGED vars
  PROVE  DeviceInv'
<1>1. DeviceType'
  BY DEF vars, DeviceInv, DeviceType, DriverType, WireType, StateType
<1>2. DriverInv'
  BY DEF vars, DeviceInv, DriverInv, SessionInv, Live, ValidIsOurs
<1>3. PendingInv'
  BY DEF vars, DeviceInv, PendingInv
<1>4. RecentInv'
  BY DEF vars, DeviceInv, RecentInv, Outstanding, Expected, IsConnected
<1> QED
  BY <1>1, <1>2, <1>3, <1>4 DEF DeviceInv

LEMMA AlwaysDeviceInv == Spec => []DeviceInv
<1>1. Init => DeviceInv
  BY InitDeviceInv
<1>2. DeviceInv /\ [Next]_vars => DeviceInv'
  BY NextDeviceInv, StutterDeviceInv
<1> QED
  BY <1>1, <1>2, PTL DEF Spec

\* A feature that snapshot() calls valid was confirmed on the connection the
\* device has now, and disconnect() leaves none: no reader of an earlier session
\* (SonyDevice::connect, disconnect) stores after the reset.
THEOREM ValidFeaturesAreOurs == Spec => []ValidIsOurs
<1>1. DeviceInv => ValidIsOurs
  BY DEF DeviceInv, DriverInv
<1> QED
  BY <1>1, AlwaysDeviceInv, PTL

\* However many inquiries, answers and notifications have crossed, an answer kept
\* by sendAndAwaitResponse() for a later inquiry is left from a fault: a deadline
\* missed or a link lost.
THEOREM ReadingsLagByFaults == Spec => []ReadingsAreRecent
<1>1. DeviceInv => ReadingsAreRecent
  <2> SUFFICES ASSUME DeviceInv, NEW key \in RealKeys
               PROVE  Outstanding(key) <= faults + IF pending.key = key /\ pending.answer = NoValue THEN 1 ELSE 0
    BY DEF ReadingsAreRecent, RealKeys
  <2>1. /\ Outstanding(key) \in Nat /\ faults \in Nat /\ Expected(key) \in {0, 1}
        /\ Outstanding(key) <= faults + Expected(key)
    BY OutstandingIs DEF DeviceInv, DeviceType, WireInv
  <2> QED
    BY <2>1 DEF Expected
<1> QED
  BY <1>1, AlwaysDeviceInv, PTL

\* A thread that stores a value (the driver's refresh or write, the reader's
\* _onNotification) has not gone on before it has announced it.
THEOREM ChangesAreAnnounced == Spec => []NoSilentChange
<1>1. Init => NoSilentChange
  BY DEF Init, NoSilentChange
<1>2. ASSUME NoSilentChange, Next PROVE NoSilentChange'
  <2> USE DEF stateVars, readerVars
  <2>1. CASE KeepReading
    BY <2>1 DEF KeepReading, NoSilentChange
  <2>2. CASE OnNotification
    BY <2>2 DEF OnNotification, NoSilentChange
  <2>3. CASE DriverAnnounces \/ ReaderAnnounces
    BY <2>3 DEF DriverAnnounces, ReaderAnnounces, Announce, NoSilentChange
  <2>4. ASSUME unannounced' = unannounced, reader' = reader, stage # "announcing"
        PROVE  NoSilentChange'
    BY <1>2, <2>4 DEF NoSilentChange
  <2>5. CASE Exchanges
    <3>1. unannounced' = unannounced
      BY <2>5 DEF Exchanges, Send, Disconnected, Receive, Acknowledged, TimeOut
    <3>2. reader' = reader /\ stage # "announcing"
      BY <2>5 DEF Exchanges, Send, Disconnected, Receive, Acknowledged, TimeOut
    <3> QED
      BY <2>4, <3>1, <3>2
  <2>6. CASE WriteFails \/ Initialised \/ NoReading
    <3>1. unannounced' = unannounced
      BY <2>6 DEF WriteFails, Initialised, NoReading, MarkError
    <3>2. reader' = reader /\ stage # "announcing"
      BY <2>6 DEF WriteFails, Initialised, NoReading
    <3> QED
      BY <2>4, <3>1, <3>2
  <2>7. CASE ResetState \/ Open \/ OpenFails \/ Leave
    <3>1. unannounced' = unannounced
      BY <2>7 DEF ResetState, Open, OpenFails, Leave
    <3>2. reader' = reader /\ stage # "announcing"
      BY <2>7 DEF ResetState, Open, OpenFails, Leave
    <3> QED
      BY <2>4, <3>1, <3>2
  <2>8. CASE \/ Disconnect \/ RefreshSettingsStep \/ RefreshBattery \/ \E p \in Profiles : Connect(p)
             \/ \E f \in Features, v \in Values : Set(f, v)
    <3>1. unannounced' = unannounced
      BY <2>8 DEF Disconnect, RefreshSettingsStep, RefreshBattery, Connect, Set
    <3>2. reader' = reader /\ stage # "announcing"
      BY <2>8 DEF Disconnect, RefreshSettingsStep, RefreshBattery, Connect, Set, Idle
    <3> QED
      BY <2>4, <3>1, <3>2
  <2>9. CASE TakeAck \/ TakeAnswer \/ TakeUnmatched
    <3>1. unannounced' = unannounced
      BY <2>9 DEF TakeAck, TakeAnswer, TakeUnmatched
    <3>2. reader = "idle" /\ stage' = stage
      BY <2>9 DEF TakeAck, TakeAnswer, TakeUnmatched, Reading
    <3> QED
      BY <1>2, <3>1, <3>2 DEF NoSilentChange
  <2>10. CASE Headset
    <3>1. unannounced' = unannounced
      BY <2>10 DEF Headset, HeadsetTakes, LoseRequest, LinkBreaks, HeadsetChanges
    <3>2. reader' = reader /\ stage' = stage
      BY <2>10 DEF Headset, HeadsetTakes, LoseRequest, LinkBreaks, HeadsetChanges
    <3> QED
      BY <1>2, <3>1, <3>2 DEF NoSilentChange
  <2> QED
    BY <1>2, <2>1, <2>2, <2>3, <2>5, <2>6, <2>7, <2>8, <2>9, <2>10 DEF Next, Driver, User, Reader, Exchanges
<1>3. NoSilentChange /\ UNCHANGED vars => NoSilentChange'
  BY DEF vars, NoSilentChange
<1> QED
  BY <1>1, <1>2, <1>3, PTL DEF Spec

============================================================================
