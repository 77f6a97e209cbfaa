-------------------------- MODULE FrameCodecProofs --------------------------
(***************************************************************************)
(* What the wire format promises, for every frame and every stream of      *)
(* bytes: what encode() writes decode() reads back (DecodeInvertsEncode),  *)
(* a frame is found after any damage before it (Resynchronises), and the   *)
(* frames do not depend on how the stream was cut into reads (CutAnywhere, *)
(* and with the buffer's limit ReadsGoOn).                                 *)
(*                                                                         *)
(* A fact about every sequence is proved by induction: the sequences that  *)
(* have it are a set, that set holds the empty sequence and is closed      *)
(* under Append, so no sequence that is outside of it has a least length   *)
(* (SeqInduction).  A result of the prover's library on well-founded       *)
(* relations that takes no operator (WFMin) gives the least length.        *)
(***************************************************************************)
EXTENDS FrameCodec, SequenceTheorems, WellFoundedInduction, TLAPS

-----------------------------------------------------------------------------
(* Induction on a sequence.                                                *)

LEMMA LeastNumber ==
  ASSUME NEW T \in SUBSET Nat, T # {}
  PROVE \E m \in T : \A k \in T : m <= k
<1> DEFINE R == OpToRel(<, Nat)
<1>1. IsWellFoundedOn(R, Nat)
  BY NatLessThanWellFounded
<1>2. PICK m \in T : \A y \in T : <<y, m>> \notin R
  <2> HIDE DEF R
  <2> QED
    BY <1>1, WFMin
<1>3. \A y \in T : ~(y < m)
  BY <1>2 DEF OpToRel
<1> QED
  BY <1>3

LEMMA SeqInduction ==
  ASSUME NEW S, NEW T, <<>> \in T,
         \A s \in Seq(S), e \in S : s \in T => Append(s, e) \in T
  PROVE  \A s \in Seq(S) : s \in T
<1> SUFFICES ASSUME NEW s \in Seq(S), s \notin T PROVE FALSE
  OBVIOUS
<1> DEFINE N == {n \in Nat : \E t \in Seq(S) : t \notin T /\ Len(t) = n}
<1>1. N \in SUBSET Nat /\ N # {}
  <2>1. Len(s) \in N
    BY LenProperties
  <2> QED
    BY <2>1
<1>2. PICK n \in N : \A k \in N : n <= k
  <2> HIDE DEF N
  <2> QED
    BY <1>1, LeastNumber
<1>3. PICK t \in Seq(S) : t \notin T /\ Len(t) = n
  OBVIOUS
<1>4. t # <<>> 
  BY <1>3
<1>5. /\ Front(t) \in Seq(S) /\ Last(t) \in S /\ t = Append(Front(t), Last(t)) 
      /\ Len(Front(t)) = n - 1 /\ n - 1 \in Nat
  <2>1. Len(t) \in Nat \ {0} 
    BY <1>4, EmptySeq
  <2>2. Front(t) \in Seq(S) /\ Len(Front(t)) = n - 1 /\ \A i \in 1 .. n - 1 : Front(t)[i] = t[i]
    BY <2>1, <1>3 DEF Front
  <2>3. Last(t) \in S /\ Last(t) = t[n]
    BY <2>1, <1>3 DEF Last
  <2>4. Append(Front(t), Last(t)) \in Seq(S) /\ Len(Append(Front(t), Last(t))) = n
        /\ \A i \in 1 .. n : Append(Front(t), Last(t))[i] = t[i]
     BY <2>1, <2>2, <2>3, <1>3, AppendProperties
  <2> QED
    BY <2>1, <2>2, <2>3, <2>4, <1>3, SeqEqual
<1>6. Front(t) \notin T
  BY <1>3, <1>5
<1>7. n - 1 \in N
  BY <1>5, <1>6
<1> QED
  BY <1>2, <1>5, <1>7

-----------------------------------------------------------------------------
(* FlattenSeq: f[i] is what the first i parts come to.                     *)

Flattens(f, s) == f = [i \in 1 .. Len(s) |-> IF i = 1 THEN s[i] ELSE f[i - 1] \o s[i]]

LEMMA FlattensExists ==
  ASSUME NEW S, NEW s \in Seq(Seq(S))
  PROVE  \E f \in [1 .. Len(s) -> Seq(S)] : Flattens(f, s)
<1> DEFINE T == {t \in Seq(Seq(S)) : \E f \in [1 .. Len(t) -> Seq(S)] : Flattens(f, t)}
<1>1. <<>> \in T
  <2>1. [i \in 1 .. 0 |-> <<>>] \in [1 .. 0 -> Seq(S)] /\ Flattens([i \in 1 .. 0 |-> <<>>], <<>>)
    BY DEF Flattens
  <2>2. <<>> \in Seq(Seq(S)) /\ Len(<<>>) = 0
    OBVIOUS
  <2>3. \E f \in [1 .. Len(<<>>) -> Seq(S)] : Flattens(f, <<>>)
    BY <2>1, <2>2
  <2> QED
    BY <2>2, <2>3
<1>2. ASSUME NEW t \in Seq(Seq(S)), NEW e \in Seq(S), t \in T PROVE Append(t, e) \in T
  <2>1. PICK f \in [1 .. Len(t) -> Seq(S)] : Flattens(f, t)
    BY <1>2
  <2> DEFINE n == Len(t)
             v == IF n = 0 THEN e ELSE f[n] \o e
             g == [i \in 1 .. n + 1 |-> IF i = n + 1 THEN v ELSE f[i]]
             a == Append(t, e)
  <2>2. n \in Nat /\ a \in Seq(Seq(S)) /\ Len(a) = n + 1 /\ a[n + 1] = e /\ \A i \in 1 .. n : a[i] = t[i]
    BY AppendProperties, LenProperties
  <2>3. v \in Seq(S)
    <3>1. CASE n = 0
      BY <3>1
    <3>2. CASE n # 0
      <4>1. n \in 1 .. n
        BY <3>2, <2>2
      <4>2. f[n] \in Seq(S)
        <5> HIDE DEF n
        <5> QED
          BY <4>1 DEF n
      <4> QED
        BY <3>2, <4>2, ConcatProperties
    <3> QED
      BY <3>1, <3>2
  <2>4. g \in [1 .. n + 1 -> Seq(S)]
    BY <2>3, <2>2
  <2>5. ASSUME NEW i \in 1 .. n + 1 PROVE g[i] = IF i = 1 THEN a[i] ELSE g[i - 1] \o a[i]
    <3> HIDE DEF a
    <3>1. CASE i = n + 1
      BY <3>1, <2>2
    <3>2. CASE i # n + 1
      <4>1. i \in 1 .. n /\ g[i] = f[i] /\ (i # 1 => g[i - 1] = f[i - 1]) /\ a[i] = t[i]
        BY <3>2, <2>2, SMTT(30)
      <4>2. f[i] = IF i = 1 THEN t[i] ELSE f[i - 1] \o t[i]
        BY <2>1, <4>1 DEF Flattens
      <4> HIDE DEF g
      <4> QED
        BY <4>1, <4>2
    <3> QED
      BY <3>1, <3>2
  <2>6. Flattens(g, a)
    <3> HIDE DEF a, v
    <3>1. g = [i \in 1 .. n + 1 |-> g[i]]
      OBVIOUS
    <3> HIDE DEF g
    <3> QED
      BY <2>2, <2>5, <3>1 DEF Flattens
  <2> HIDE DEF g, a
  <2> QED
    BY <2>2, <2>4, <2>6 DEF a
<1>3. \A t \in Seq(Seq(S)) : t \in T
  <2> HIDE DEF T
  <2> QED
    BY <1>1, <1>2, SeqInduction
<1> QED
  BY <1>3

LEMMA FlattensUnique ==
  ASSUME NEW a, NEW b, NEW f, NEW g, Flattens(f, a), Flattens(g, b),
         NEW n \in Nat, Len(a) \in Nat, Len(b) \in Nat, n <= Len(a), n <= Len(b),
         \A i \in 1 .. n : a[i] = b[i]
  PROVE  \A i \in 1 .. n : f[i] = g[i]
<1> DEFINE D == {i \in 1 .. n : f[i] # g[i]}
<1> SUFFICES ASSUME D # {} PROVE FALSE
  OBVIOUS
<1>1. D \in SUBSET Nat
  OBVIOUS
<1>2. PICK m \in D : \A k \in D : m <= k
  <2> HIDE DEF D
  <2> QED
    BY <1>1, LeastNumber
<1>3. m \in 1 .. n /\ m \in 1 .. Len(a) /\ m \in 1 .. Len(b) /\ a[m] = b[m] /\ f[m] # g[m]
  OBVIOUS
<1>4. /\ f[m] = IF m = 1 THEN a[m] ELSE f[m - 1] \o a[m]
      /\ g[m] = IF m = 1 THEN b[m] ELSE g[m - 1] \o b[m]
  <2> HIDE DEF D
  <2> QED
    BY <1>3 DEF Flattens
<1>5. m # 1 => f[m - 1] = g[m - 1]
  <2>1. m # 1 => m - 1 \in 1 .. n /\ m - 1 \notin D
    BY <1>2, <1>3
  <2> QED
    BY <2>1
<1> HIDE DEF D
<1> QED
  BY <1>3, <1>4, <1>5

LEMMA FlattenIs ==
  ASSUME NEW S, NEW s \in Seq(Seq(S)), s # <<>>, NEW f, Flattens(f, s)
  PROVE  FlattenSeq(s) = f[Len(s)]
<1> DEFINE flatten == CHOOSE g : Flattens(g, s)
           n == Len(s)
<1>1. n \in Nat /\ n # 0 /\ n \in 1 .. n
  BY EmptySeq, LenProperties
<1>2. Flattens(flatten, s)
  BY FlattensExists
<1>3. FlattenSeq(s) = flatten[n]
  BY <1>1 DEF FlattenSeq, Flattens
<1> HIDE DEF flatten
<1>4. \A i \in 1 .. n : flatten[i] = f[i]
  BY <1>1, <1>2, FlattensUnique
<1> QED
  BY <1>1, <1>3, <1>4

LEMMA FlattenEmpty == FlattenSeq(<<>>) = <<>>
  BY DEF FlattenSeq

LEMMA FlattenType ==
  ASSUME NEW S, NEW s \in Seq(Seq(S)) PROVE FlattenSeq(s) \in Seq(S)
<1>1. CASE s = <<>>
  BY <1>1, FlattenEmpty, EmptySeq
<1>2. CASE s # <<>>
  <2>1. PICK f \in [1 .. Len(s) -> Seq(S)] : Flattens(f, s)
    BY FlattensExists
  <2>2. FlattenSeq(s) = f[Len(s)]
    BY <1>2, <2>1, FlattenIs
  <2>3. Len(s) \in 1 .. Len(s)
    BY <1>2, EmptySeq
  <2>4. f[Len(s)] \in Seq(S)
    <3> DEFINE n == Len(s)
    <3> HIDE DEF n
    <3> QED
      BY <2>3 DEF n
  <2> QED
    BY <2>2, <2>4
<1> QED
  BY <1>1, <1>2

LEMMA FlattenAppend ==
  ASSUME NEW S, NEW s \in Seq(Seq(S)), NEW e \in Seq(S)
  PROVE  FlattenSeq(Append(s, e)) = FlattenSeq(s) \o e
<1> DEFINE t == Append(s, e)
           n == Len(s)
<1>1. /\ t \in Seq(Seq(S)) /\ t # <<>> /\ Len(t) = n + 1 /\ t[n + 1] = e /\ n \in Nat
      /\ \A i \in 1 .. n : t[i] = s[i]
  BY AppendProperties, LenProperties
<1> HIDE DEF t
<1>2. PICK g : Flattens(g, t)
  BY <1>1, FlattensExists
<1>3. FlattenSeq(t) = g[n + 1]
  BY <1>1, <1>2, FlattenIs
<1>4. g[n + 1] = IF n + 1 = 1 THEN t[n + 1] ELSE g[(n + 1) - 1] \o t[n + 1]
  <2>1. n + 1 \in 1 .. Len(t)
    BY <1>1
  <2> HIDE DEF n
  <2> QED
    BY <1>2, <2>1 DEF Flattens
<1>5. CASE n = 0
  <2>1. s = <<>>
    BY <1>5, EmptySeq
  <2>2. FlattenSeq(s) \o e = e
    BY <2>1, FlattenEmpty, ConcatEmptySeq
  <2> QED
    BY <1>1, <1>3, <1>4, <1>5, <2>2 DEF t
<1>6. CASE n # 0
  <2>1. s # <<>>
    BY <1>6, EmptySeq
  <2>2. PICK f : Flattens(f, s)
    BY FlattensExists
  <2>3. FlattenSeq(s) = f[n]
    BY <2>1, <2>2, FlattenIs
  <2>4. f[n] = g[n]
    <3>1. n \in Nat /\ n \in 1 .. n /\ n <= Len(t) /\ n <= Len(s) /\ Len(s) \in Nat /\ Len(t) \in Nat
      BY <1>1, <1>6
    <3>2. \A i \in 1 .. n : s[i] = t[i]
      BY <1>1
    <3>3. \A i \in 1 .. n : f[i] = g[i]
      <4> HIDE DEF n
      <4>1. Flattens(f, s) /\ Flattens(g, t)
        BY <1>2, <2>2
      <4> QED
        BY <3>1, <3>2, <4>1, FlattensUnique
    <3> QED
      BY <3>1, <3>3
  <2>5. (n + 1) - 1 = n /\ n + 1 # 1
    BY <1>1, <1>6
  <2> HIDE DEF n
  <2> QED
    BY <1>1, <1>3, <1>4, <2>3, <2>4, <2>5 DEF t
<1> QED
  BY <1>5, <1>6

LEMMA FlattenConcat ==
  ASSUME NEW S, NEW a \in Seq(Seq(S)), NEW b \in Seq(Seq(S))
  PROVE  FlattenSeq(a \o b) = FlattenSeq(a) \o FlattenSeq(b)
<1> DEFINE T == {t \in Seq(Seq(S)) : FlattenSeq(a \o t) = FlattenSeq(a) \o FlattenSeq(t)}
<1>1. <<>> \in T
  BY FlattenEmpty, FlattenType, ConcatEmptySeq, EmptySeq
<1>2. ASSUME NEW t \in Seq(Seq(S)), NEW e \in Seq(S), t \in T PROVE Append(t, e) \in T
  <2>1. a \o Append(t, e) = Append(a \o t, e) /\ a \o t \in Seq(Seq(S)) /\ Append(t, e) \in Seq(Seq(S))
    OBVIOUS
  <2>2. FlattenSeq(Append(a \o t, e)) = FlattenSeq(a \o t) \o e
    BY <2>1, FlattenAppend
  <2>3. FlattenSeq(Append(t, e)) = FlattenSeq(t) \o e
    BY FlattenAppend
  <2>4. (FlattenSeq(a) \o FlattenSeq(t)) \o e = FlattenSeq(a) \o (FlattenSeq(t) \o e)
    <3>1. FlattenSeq(a) \in Seq(S) /\ FlattenSeq(t) \in Seq(S)
      BY FlattenType
    <3> QED
      BY <3>1, ConcatAssociative, SMTT(30)
  <2> QED
    BY <1>2, <2>1, <2>2, <2>3, <2>4
<1>3. \A t \in Seq(Seq(S)) : t \in T
  <2> HIDE DEF T
  <2> QED
    BY <1>1, <1>2, SeqInduction
<1> QED
  BY <1>3

LEMMA FlattenNothing ==
  ASSUME NEW S, NEW s \in Seq(Seq(S))
  PROVE  FlattenSeq(s) = <<>> <=> \A i \in 1 .. Len(s) : s[i] = <<>>
<1> DEFINE Nothing(t) == \A i \in 1 .. Len(t) : t[i] = <<>>
           T == {t \in Seq(Seq(S)) : FlattenSeq(t) = <<>> <=> Nothing(t)}
<1>1. <<>> \in T
  BY FlattenEmpty
<1>2. ASSUME NEW t \in Seq(Seq(S)), NEW e \in Seq(S), t \in T PROVE Append(t, e) \in T
  <2>1. FlattenSeq(Append(t, e)) = FlattenSeq(t) \o e
    BY FlattenAppend
  <2>2. Nothing(Append(t, e)) <=> Nothing(t) /\ e = <<>>
    <3>1. /\ Len(Append(t, e)) = Len(t) + 1 /\ Append(t, e)[Len(t) + 1] = e /\ Len(t) \in Nat
          /\ \A i \in 1 .. Len(t) : Append(t, e)[i] = t[i]
      BY AppendProperties, LenProperties
    <3> QED
      BY <3>1
  <2>3. FlattenSeq(t) \o e = <<>> <=> FlattenSeq(t) = <<>> /\ e = <<>>
    <3>1. FlattenSeq(t) \in Seq(S)
      BY FlattenType
    <3> QED
      BY <3>1, ConcatEqualIffEmpty
  <2>4. Append(t, e) \in Seq(Seq(S))
    OBVIOUS
  <2> HIDE DEF Nothing
  <2> QED
    BY <1>2, <2>1, <2>2, <2>3, <2>4
<1>3. \A t \in Seq(Seq(S)) : t \in T
  <2> HIDE DEF T
  <2> QED
    BY <1>1, <1>2, SeqInduction
<1> QED
  BY <1>3

LEMMA FlattenOne ==
  ASSUME NEW S, NEW e \in Seq(S)
  PROVE  FlattenSeq(<<e>>) = e
<1>1. <<e>> = Append(<<>>, e) /\ <<>> \in Seq(Seq(S))
  OBVIOUS
<1>2. FlattenSeq(Append(<<>>, e)) = FlattenSeq(<<>>) \o e
  BY <1>1, FlattenAppend
<1> QED
  BY <1>1, <1>2, FlattenEmpty, ConcatEmptySeq

-----------------------------------------------------------------------------
(* Escaping and unescaping.                                                *)

\* No byte that would start or end a frame; no escape marker at the end.
NoEnds(data) == \A i \in 1 .. Len(data) : data[i] \notin {StartMarker, EndMarker}
EndsClear(data) == data = <<>> \/ data[Len(data)] # EscapeMarker

LEMMA ByteIs ==
  /\ \A b \in Byte : b \in Nat
  /\ \A a \in Byte, b \in Byte : (a + b) % 256 \in Byte
  /\ {0, StartMarker, EndMarker, EscapeMarker} \subseteq Byte
<1>1. \A b \in Byte : b \in Nat
  BY DEF Byte
<1>2. \A a \in Byte, b \in Byte : (a + b) % 256 \in Byte
  BY DEF Byte
<1>3. {0, StartMarker, EndMarker, EscapeMarker} \subseteq Byte
  BY DEF Byte, StartMarker, EndMarker, EscapeMarker
<1> QED
  BY <1>1, <1>2, <1>3

LEMMA EscapedIs ==
  ASSUME NEW b \in Byte
  PROVE  /\ Escaped(b) \in Seq(Byte)
         /\ b \in Markers => Escaped(b) = <<61, b - 16>> /\ b - 16 \in {44, 45, 46}
         /\ b \notin Markers => Escaped(b) = <<b>>
         /\ b \in Nat /\ Escaped(b) # <<>>
<1> USE DEF Byte, Markers, EndMarker, EscapeMarker, StartMarker, Shift
<1>1. CASE b \in Markers
  <2>1. Escaped(b) = <<61, b - 16>> /\ b - 16 \in {44, 45, 46}
    BY <1>1 DEF Escaped
  <2>2. 61 \in Byte /\ b - 16 \in Byte
    BY <2>1
  <2>3. <<61, b - 16>> \in Seq(Byte)
    <3> HIDE DEF Byte
    <3> QED
      BY <2>2
  <2> QED
    BY <1>1, <2>1, <2>3
<1>2. CASE b \notin Markers
  <2>1. Escaped(b) = <<b>>
    BY <1>2 DEF Escaped
  <2> QED
    BY <1>2, <2>1
<1> QED
  BY <1>1, <1>2

LEMMA EscapeAppend ==
  ASSUME NEW d \in Seq(Byte), NEW b \in Byte
  PROVE  Escape(Append(d, b)) = Escape(d) \o Escaped(b) /\ Escape(d) \in Seq(Byte)
<1> DEFINE m == [i \in DOMAIN d |-> Escaped(d[i])]
           e == Append(d, b)
           n == [i \in DOMAIN e |-> Escaped(e[i])]
<1>1. m \in Seq(Seq(Byte)) /\ Len(m) = Len(d) /\ Len(d) \in Nat
  <2>1. \A i \in 1 .. Len(d) : Escaped(d[i]) \in Seq(Byte)
    <3>1. \A i \in 1 .. Len(d) : d[i] \in Byte
      OBVIOUS
    <3> QED
      BY <3>1, EscapedIs
  <2> QED
    BY <2>1
<1>2. /\ Len(e) = Len(d) + 1 /\ e[Len(d) + 1] = b /\ DOMAIN e = 1 .. Len(d) + 1
      /\ \A i \in 1 .. Len(d) : e[i] = d[i]
  BY AppendProperties, LenProperties
<1>3. n = Append(m, Escaped(b))
  <2>1. Append(m, Escaped(b)) \in Seq(Seq(Byte)) /\ Len(Append(m, Escaped(b))) = Len(d) + 1
        /\ Append(m, Escaped(b))[Len(d) + 1] = Escaped(b)
        /\ \A i \in 1 .. Len(d) : Append(m, Escaped(b))[i] = Escaped(d[i])
    BY <1>1, EscapedIs, AppendProperties, SMTT(30)
  <2>2. Append(m, Escaped(b)) = [i \in 1 .. Len(d) + 1 |-> Append(m, Escaped(b))[i]]
    BY <2>1
  <2> HIDE DEF e, m
  <2>3. \A i \in 1 .. Len(d) + 1 : Append(m, Escaped(b))[i] = Escaped(e[i])
    BY <2>1, <1>2, <1>1
  <2> QED
    BY <2>2, <2>3, <1>2
<1>4. FlattenSeq(Append(m, Escaped(b))) = FlattenSeq(m) \o Escaped(b)
  <2> HIDE DEF m
  <2> QED
    BY <1>1, EscapedIs, FlattenAppend
<1>5. FlattenSeq(m) \in Seq(Byte)
  <2> HIDE DEF m
  <2> QED
    BY <1>1, FlattenType
<1> QED
  BY <1>3, <1>4, <1>5 DEF Escape

LEMMA UnescapeParts ==
  ASSUME NEW a \in Seq(Byte)
  PROVE  /\ [i \in DOMAIN a |-> Unescaped(a, i)] \in Seq(Seq(Nat))
         /\ Len([i \in DOMAIN a |-> Unescaped(a, i)]) = Len(a)
         /\ DOMAIN a = 1 .. Len(a) /\ Len(a) \in Nat
         /\ \A i \in 1 .. Len(a) : [j \in DOMAIN a |-> Unescaped(a, j)][i] = Unescaped(a, i)
<1>1. \A i \in 1 .. Len(a) : Unescaped(a, i) \in Seq(Nat)
  <2> SUFFICES ASSUME NEW i \in 1 .. Len(a) PROVE Unescaped(a, i) \in Seq(Nat)
    OBVIOUS
  <2>1. a[i] \in Byte
    OBVIOUS
  <2>2. a[i] \in Nat
    BY <2>1, ByteIs
  <2> QED
    BY <2>2 DEF Unescaped, Shift
<1>2. DOMAIN a = 1 .. Len(a) /\ Len(a) \in Nat
  BY LenProperties
<1> DEFINE n == Len(a)
           m == [i \in 1 .. n |-> Unescaped(a, i)]
<1>3. m \in Seq(Seq(Nat)) /\ Len(m) = n /\ \A i \in 1 .. n : m[i] = Unescaped(a, i)
  <2>1. n \in Nat /\ \A i \in 1 .. n : Unescaped(a, i) \in Seq(Nat)
    BY <1>1, <1>2
  <2> HIDE DEF n
  <2> QED
    BY <2>1
<1> QED
  BY <1>2, <1>3

LEMMA UnescapeConcat ==
  ASSUME NEW a \in Seq(Byte), NEW b \in Seq(Byte), EndsClear(a)
  PROVE  Unescape(a \o b) = Unescape(a) \o Unescape(b)
<1> DEFINE Map(x) == [i \in DOMAIN x |-> Unescaped(x, i)]
           c == a \o b
<1>1. /\ c \in Seq(Byte) /\ Len(c) = Len(a) + Len(b) /\ Len(a) \in Nat /\ Len(b) \in Nat
      /\ \A i \in 1 .. Len(c) : c[i] = IF i <= Len(a) THEN a[i] ELSE b[i - Len(a)]
  BY ConcatProperties, LenProperties
<1> HIDE DEF c
<1>2. \A x \in Seq(Byte) : /\ Map(x) \in Seq(Seq(Nat)) /\ Len(Map(x)) = Len(x)
                           /\ \A i \in 1 .. Len(x) : Map(x)[i] = Unescaped(x, i)
  BY UnescapeParts
<1> HIDE DEF Map
<1>3. ASSUME NEW i \in 1 .. Len(c)
      PROVE  Unescaped(c, i) = IF i <= Len(a) THEN Unescaped(a, i) ELSE Unescaped(b, i - Len(a))
  <2>1. CASE i <= Len(a)
    <3>1. c[i] = a[i] /\ (i > 1 => c[i - 1] = a[i - 1])
      BY <2>1, <1>1, SMTT(30)
    <3> QED
      BY <2>1, <3>1 DEF Unescaped
  <2>2. CASE i = Len(a) + 1
    <3>1. c[i] = b[1] /\ (i > 1 => c[i - 1] = a[Len(a)] /\ a[Len(a)] # EscapeMarker) /\ i - Len(a) = 1
      BY <2>2, <1>1 DEF EndsClear
    <3> QED
      BY <2>2, <3>1, <1>1 DEF Unescaped
  <2>3. CASE i > Len(a) + 1
    <3> DEFINE k == i - Len(a)
    <3>1. c[i] = b[k] /\ c[i - 1] = b[k - 1] /\ i > 1 /\ k > 1
      BY <2>3, <1>1, SMTT(30)
    <3> HIDE DEF k
    <3> QED
      BY <2>3, <3>1, <1>1 DEF Unescaped, k
  <2> QED
    BY <2>1, <2>2, <2>3, <1>1
<1>4. Map(c) = Map(a) \o Map(b)
  <2>1. /\ Map(a) \o Map(b) \in Seq(Seq(Nat)) /\ Len(Map(a) \o Map(b)) = Len(c)
        /\ \A i \in 1 .. Len(c) : (Map(a) \o Map(b))[i] = IF i <= Len(a) THEN Map(a)[i] ELSE Map(b)[i - Len(a)]
    <3>1. /\ Map(a) \in Seq(Seq(Nat)) /\ Len(Map(a)) = Len(a)
          /\ Map(b) \in Seq(Seq(Nat)) /\ Len(Map(b)) = Len(b)
      BY <1>2
    <3>2. /\ Map(a) \o Map(b) \in Seq(Seq(Nat)) /\ Len(Map(a) \o Map(b)) = Len(Map(a)) + Len(Map(b))
          /\ \A i \in 1 .. Len(Map(a)) + Len(Map(b)) :
               (Map(a) \o Map(b))[i] = IF i <= Len(Map(a)) THEN Map(a)[i] ELSE Map(b)[i - Len(Map(a))]
      BY <3>1, ConcatProperties
    <3> QED
      BY <1>1, <3>1, <3>2
  <2>2. \A i \in 1 .. Len(c) : (Map(a) \o Map(b))[i] = Map(c)[i]
    <3> SUFFICES ASSUME NEW i \in 1 .. Len(c) PROVE (Map(a) \o Map(b))[i] = Map(c)[i]
      OBVIOUS
    <3>1. CASE i <= Len(a)
      <4>1. i \in 1 .. Len(a)
        BY <3>1, <1>1
      <4> QED
        BY <1>1, <1>2, <1>3, <2>1, <3>1, <4>1
    <3>2. CASE ~(i <= Len(a))
      <4>1. i - Len(a) \in 1 .. Len(b)
        BY <3>2, <1>1
      <4> QED
        BY <1>1, <1>2, <1>3, <2>1, <3>2, <4>1
    <3> QED
      BY <3>1, <3>2
  <2> DEFINE p == Map(a) \o Map(b)
             q == Map(c)
  <2>3. /\ p \in Seq(Seq(Nat)) /\ q \in Seq(Seq(Nat)) /\ Len(p) = Len(q)
        /\ \A i \in 1 .. Len(p) : p[i] = q[i]
    BY <1>1, <1>2, <2>1, <2>2
  <2> HIDE DEF p, q
  <2>4. q = p
    BY <2>3, SeqEqual
  <2> QED
    BY <2>4 DEF p, q
<1>5. FlattenSeq(Map(a) \o Map(b)) = FlattenSeq(Map(a)) \o FlattenSeq(Map(b))
  BY <1>2, FlattenConcat
<1> QED
  BY <1>4, <1>5 DEF Unescape, Map, c

LEMMA UnescapeEscaped ==
  ASSUME NEW b \in Byte
  PROVE  /\ Unescape(Escaped(b)) = <<b>> /\ IsEscaped(Escaped(b))
         /\ NoEnds(Escaped(b)) /\ EndsClear(Escaped(b))
<1>1. CASE b \in Markers
  <2> DEFINE e == <<61, b - 16>>
             m == [i \in DOMAIN e |-> Unescaped(e, i)]
  <2>1. Escaped(b) = e /\ b - 16 \in {44, 45, 46} /\ b \in Nat
    BY <1>1, EscapedIs
  <2>2. Unescaped(e, 1) = <<>> /\ Unescaped(e, 2) = <<b>>
    BY <2>1 DEF Unescaped, EscapeMarker, Shift
  <2>3. m = Append(<<<<>>>>, <<b>>)
    <3>1. DOMAIN e = 1 .. 2
      OBVIOUS
    <3> HIDE DEF e
    <3> QED
      BY <2>2, <3>1
  <2>4. FlattenSeq(m) = <<b>>
    <3>1. <<>> \in Seq(Nat) /\ <<b>> \in Seq(Nat) /\ <<<<>>>> \in Seq(Seq(Nat))
      BY <2>1
    <3>2. FlattenSeq(<<<<>>>>) = <<>>
      BY <3>1, FlattenOne
    <3>3. FlattenSeq(Append(<<<<>>>>, <<b>>)) = FlattenSeq(<<<<>>>>) \o <<b>>
      BY <3>1, FlattenAppend
    <3> QED
      BY <2>3, <3>1, <3>2, <3>3, ConcatEmptySeq
  <2>5. IsEscaped(e) /\ NoEnds(e) /\ EndsClear(e)
    BY <2>1 DEF IsEscaped, NoEnds, EndsClear, EscapeMarker, StartMarker, EndMarker, Markers, Shift
  <2> QED
    BY <2>1, <2>4, <2>5 DEF Unescape
<1>2. CASE b \notin Markers
  <2>1. Escaped(b) = <<b>> /\ b \in Nat
    BY <1>2, EscapedIs
  <2>2. [i \in DOMAIN <<b>> |-> Unescaped(<<b>>, i)] = <<<<b>>>>
    BY <1>2 DEF Unescaped, Markers
  <2>3. FlattenSeq(<<<<b>>>>) = <<b>>
    <3>1. <<b>> \in Seq(Nat)
      BY <2>1
    <3> QED
      BY <3>1, FlattenOne
  <2>4. IsEscaped(<<b>>) /\ NoEnds(<<b>>) /\ EndsClear(<<b>>)
    BY <1>2 DEF IsEscaped, NoEnds, EndsClear, Markers
  <2> QED
    BY <2>1, <2>2, <2>3, <2>4 DEF Unescape
<1> QED
  BY <1>1, <1>2

LEMMA EscapedConcat ==
  ASSUME NEW a \in Seq(Byte), NEW b \in Seq(Byte), IsEscaped(a), IsEscaped(b), NoEnds(a), NoEnds(b),
         EndsClear(b), b # <<>>
  PROVE  IsEscaped(a \o b) /\ NoEnds(a \o b) /\ EndsClear(a \o b)
<1> DEFINE c == a \o b
<1>1. /\ c \in Seq(Byte) /\ Len(c) = Len(a) + Len(b) /\ Len(a) \in Nat /\ Len(b) \in Nat \ {0}
      /\ \A i \in 1 .. Len(c) : c[i] = IF i <= Len(a) THEN a[i] ELSE b[i - Len(a)]
      /\ DOMAIN a = 1 .. Len(a) /\ DOMAIN b = 1 .. Len(b) /\ DOMAIN c = 1 .. Len(c)
  BY ConcatProperties, LenProperties, EmptySeq
<1> HIDE DEF c
<1>2. ASSUME NEW i \in 1 .. Len(c), c[i] = EscapeMarker PROVE i < Len(c) /\ c[i + 1] + Shift \in Markers
  <2>1. CASE i <= Len(a)
    <3>1. a[i] = EscapeMarker /\ i \in 1 .. Len(a)
      BY <2>1, <1>1, <1>2
    <3>2. i < Len(a) /\ a[i + 1] + Shift \in Markers
      BY <3>1, <1>1 DEF IsEscaped
    <3> QED
      BY <3>2, <1>1
  <2>2. CASE i > Len(a)
    <3>1. b[i - Len(a)] = EscapeMarker /\ i - Len(a) \in 1 .. Len(b)
      BY <2>2, <1>1, <1>2
    <3>2. i - Len(a) < Len(b) /\ b[(i - Len(a)) + 1] + Shift \in Markers
      BY <3>1, <1>1 DEF IsEscaped
    <3>3. /\ i + 1 \in 1 .. Len(c) /\ (i + 1) - Len(a) = (i - Len(a)) + 1 /\ ~(i + 1 <= Len(a))
          /\ i < Len(c)
      BY <3>2, <2>2, <1>1
    <3> QED
      BY <3>2, <3>3, <1>1, SMTT(30)
  <2> QED
    BY <2>1, <2>2, <1>1
<1>3. NoEnds(c)
  <2> SUFFICES ASSUME NEW i \in 1 .. Len(c) PROVE c[i] \notin {StartMarker, EndMarker}
    BY DEF NoEnds
  <2>1. CASE i <= Len(a)
    BY <2>1, <1>1 DEF NoEnds
  <2>2. CASE i > Len(a)
    <3>1. i - Len(a) \in 1 .. Len(b)
      BY <2>2, <1>1
    <3> QED
      BY <2>2, <3>1, <1>1 DEF NoEnds
  <2> QED
    BY <2>1, <2>2, <1>1
<1>4. EndsClear(c)
  <2>1. c[Len(c)] = b[Len(b)]
    <3>1. Len(c) \in 1 .. Len(c) /\ ~(Len(c) <= Len(a)) /\ Len(c) - Len(a) = Len(b)
      BY <1>1
    <3> QED
      BY <3>1, <1>1
  <2> QED
    BY <2>1 DEF EndsClear
<1> QED
  BY <1>1, <1>2, <1>3, <1>4 DEF IsEscaped, c

LEMMA UnescapeEscape ==
  ASSUME NEW d \in Seq(Byte)
  PROVE  /\ Escape(d) \in Seq(Byte) /\ Unescape(Escape(d)) = d
         /\ IsEscaped(Escape(d)) /\ NoEnds(Escape(d)) /\ Len(d) <= Len(Escape(d))
<1> DEFINE T == {x \in Seq(Byte) : /\ Escape(x) \in Seq(Byte) /\ Unescape(Escape(x)) = x
                                   /\ IsEscaped(Escape(x)) /\ NoEnds(Escape(x)) /\ EndsClear(Escape(x))
                                   /\ Len(x) <= Len(Escape(x))}
<1>1. <<>> \in T
  <2>1. Escape(<<>>) = <<>> /\ Unescape(<<>>) = <<>>
    BY FlattenEmpty DEF Escape, Unescape
  <2>2. /\ <<>> \in Seq(Byte) /\ IsEscaped(<<>>) /\ NoEnds(<<>>) /\ EndsClear(<<>>)
        /\ Len(<<>>) <= Len(<<>>)
    BY DEF IsEscaped, NoEnds, EndsClear
  <2> QED
    BY <2>1, <2>2
<1>2. ASSUME NEW x \in Seq(Byte), NEW b \in Byte, x \in T PROVE Append(x, b) \in T
  <2>1. /\ Escape(x) \in Seq(Byte) /\ Unescape(Escape(x)) = x
        /\ IsEscaped(Escape(x)) /\ NoEnds(Escape(x)) /\ EndsClear(Escape(x))
        /\ Len(x) <= Len(Escape(x))
    BY <1>2
  <2>2. Escape(Append(x, b)) = Escape(x) \o Escaped(b)
    BY EscapeAppend
  <2>3. Escaped(b) \in Seq(Byte) /\ Escaped(b) # <<>>
    BY EscapedIs
  <2>4. Unescape(Escape(x) \o Escaped(b)) = x \o <<b>>
    BY <2>1, <2>3, UnescapeConcat, UnescapeEscaped
  <2>5. x \o <<b>> = Append(x, b) /\ Append(x, b) \in Seq(Byte) /\ Escape(x) \o Escaped(b) \in Seq(Byte)
    BY <2>1, <2>3
  <2>6. /\ IsEscaped(Escape(x) \o Escaped(b)) /\ NoEnds(Escape(x) \o Escaped(b))
        /\ EndsClear(Escape(x) \o Escaped(b))
    BY <2>1, <2>3, UnescapeEscaped, EscapedConcat
  <2>7. Len(Append(x, b)) <= Len(Escape(x) \o Escaped(b))
    <3>1. /\ Len(Escape(x) \o Escaped(b)) = Len(Escape(x)) + Len(Escaped(b))
          /\ Len(Escape(x)) \in Nat /\ Len(Escaped(b)) \in Nat \ {0}
      BY <2>1, <2>3, ConcatProperties, EmptySeq, LenProperties
    <3>2. Len(Append(x, b)) = Len(x) + 1 /\ Len(x) \in Nat
      BY AppendProperties, LenProperties
    <3> QED
      BY <2>1, <3>1, <3>2
  <2> QED
    BY <2>2, <2>4, <2>5, <2>6, <2>7
<1>3. \A x \in Seq(Byte) : x \in T
  <2> HIDE DEF T
  <2> QED
    BY <1>1, <1>2, SeqInduction
<1> QED
  BY <1>3

-----------------------------------------------------------------------------
(* The checksum, the size and the body.                                    *)

LEMMA ChecksumIs ==
  ASSUME NEW d \in Seq(Byte)
  PROVE  Checksum(d) \in Byte
<1> DEFINE Sums(f, x) == f = [i \in 0 .. Len(x) |-> IF i = 0 THEN 0 ELSE (f[i - 1] + x[i]) % 256]
           T == {x \in Seq(Byte) : \E f : Sums(f, x)}
<1>1. <<>> \in T
  <2>1. Sums([i \in 0 .. 0 |-> 0], <<>>) /\ <<>> \in Seq(Byte)
    OBVIOUS
  <2> QED
    BY <2>1
<1>2. ASSUME NEW x \in Seq(Byte), NEW b \in Byte, x \in T PROVE Append(x, b) \in T
  <2>1. PICK f : Sums(f, x)
    BY <1>2
  <2> DEFINE n == Len(x)
             a == Append(x, b)
             g == [i \in 0 .. n + 1 |-> IF i = n + 1 THEN (f[n] + b) % 256 ELSE f[i]]
  <2>2. n \in Nat /\ a \in Seq(Byte) /\ Len(a) = n + 1 /\ a[n + 1] = b /\ \A i \in 1 .. n : a[i] = x[i]
    BY AppendProperties, LenProperties
  <2> HIDE DEF a
  <2>3. ASSUME NEW i \in 0 .. n + 1 PROVE g[i] = IF i = 0 THEN 0 ELSE (g[i - 1] + a[i]) % 256
    <3>1. CASE i = n + 1
      <4>1. g[i] = (f[n] + b) % 256 /\ g[i - 1] = f[n] /\ i # 0
        BY <3>1, <2>2
      <4> HIDE DEF g
      <4> QED
        BY <3>1, <4>1, <2>2
    <3>2. CASE i # n + 1
      <4>1. i \in 0 .. n /\ g[i] = f[i] /\ (i # 0 => g[i - 1] = f[i - 1] /\ a[i] = x[i])
        BY <3>2, <2>2
      <4>2. f[i] = IF i = 0 THEN 0 ELSE (f[i - 1] + x[i]) % 256
        BY <2>1, <4>1
      <4> HIDE DEF g
      <4> QED
        BY <4>1, <4>2
    <3> QED
      BY <3>1, <3>2
  <2>4. g = [i \in 0 .. n + 1 |-> g[i]]
    OBVIOUS
  <2>5. Sums(g, a)
    <3> HIDE DEF g, n
    <3> QED
      BY <2>2, <2>3, <2>4
  <2> HIDE DEF g, Sums
  <2> QED
    BY <2>2, <2>5 DEF a
<1>3. \A x \in Seq(Byte) : x \in T
  <2> HIDE DEF T
  <2> QED
    BY <1>1, <1>2, SeqInduction
<1> DEFINE sum == CHOOSE f : Sums(f, d)
           n == Len(d)
           D == {i \in 0 .. n : sum[i] \notin Byte}
<1>4. Checksum(d) = sum[n] /\ n \in Nat
  BY DEF Checksum
<1>5. Sums(sum, d)
  BY <1>3
<1> HIDE DEF sum
<1>6. \A i \in 0 .. n : sum[i] = IF i = 0 THEN 0 ELSE (sum[i - 1] + d[i]) % 256
  BY <1>5
<1> HIDE DEF Sums
<1>7. D = {}
  <2> SUFFICES ASSUME D # {} PROVE FALSE
    OBVIOUS
  <2>1. D \in SUBSET Nat
    OBVIOUS
  <2>2. PICK m \in D : \A k \in D : m <= k
    <3> HIDE DEF D
    <3> QED
      BY <2>1, LeastNumber
  <2>3. m \in 0 .. n /\ sum[m] \notin Byte
    OBVIOUS
  <2>4. m # 0
    BY <1>4, <1>6, <2>3, ByteIs
  <2>5. m \in 1 .. n /\ m - 1 \in 0 .. n /\ m - 1 \notin D
    BY <2>2, <2>3, <2>4, <1>4
  <2>6. sum[m - 1] \in Byte /\ d[m] \in Byte
    BY <2>5
  <2>7. sum[m] = (sum[m - 1] + d[m]) % 256
    BY <1>6, <2>3, <2>4
  <2> QED
    BY <2>3, <2>6, <2>7, ByteIs, SMTT(30)
<1> QED
  BY <1>4, <1>7

LEMMA SizeIs ==
  ASSUME NEW n \in Nat
  PROVE  LET b == SizeBytes(n) IN
         /\ b \in Seq(Byte) /\ Len(b) = 4
         /\ n <= MaxFrameSize => Size(b[1], b[2], b[3], b[4]) = n
<1> DEFINE b1 == (n \div 16777216) % 256
           b2 == (n \div 65536) % 256
           b3 == (n \div 256) % 256
           b4 == n % 256
<1>1. b1 \in Byte /\ b2 \in Byte /\ b3 \in Byte /\ b4 \in Byte
  BY SMT DEF Byte
<1>2. n <= MaxFrameSize => Size(b1, b2, b3, b4) = n
  BY CodecAssumption, SMT DEF Size
<1>3. SizeBytes(n) = <<b1, b2, b3, b4>>
  BY SMT DEF SizeBytes
<1> HIDE DEF b1, b2, b3, b4
<1> QED
  BY <1>1, <1>2, <1>3

LEMMA BodyIs ==
  ASSUME NEW frame \in Frame
  PROVE  LET n == Len(frame.payload)
             body == Body(frame)
             b == SizeBytes(n) IN
         /\ n \in Nat /\ frame.payload \in Seq(Byte)
         /\ body \in Seq(Byte) /\ Len(body) = 6 + n
         /\ body[1] = frame.type /\ body[2] = frame.sequence
         /\ body[3] = b[1] /\ body[4] = b[2] /\ body[5] = b[3] /\ body[6] = b[4]
         /\ SubSeq(body, 7, 6 + n) = frame.payload
<1> DEFINE n == Len(frame.payload)
           b == SizeBytes(n)
           head == <<frame.type, frame.sequence>> \o b
           body == Body(frame)
<1>1. frame.payload \in Seq(Byte) /\ n \in Nat /\ frame.type \in Byte /\ frame.sequence \in Byte
  BY LenProperties DEF Frame
<1>2. b \in Seq(Byte) /\ Len(b) = 4
  <2> HIDE DEF n
  <2> QED
    BY <1>1, SizeIs
<1>3. body = head \o frame.payload
  BY DEF Body
<1> HIDE DEF b, body
<1>4. /\ head \in Seq(Byte) /\ Len(head) = 6 /\ head[1] = frame.type /\ head[2] = frame.sequence
      /\ head[3] = b[1] /\ head[4] = b[2] /\ head[5] = b[3] /\ head[6] = b[4]
  <2> DEFINE v == <<frame.type, frame.sequence>>
  <2>1. v \in Seq(Byte) /\ Len(v) = 2 /\ v[1] = frame.type /\ v[2] = frame.sequence
    BY <1>1
  <2> HIDE DEF v
  <2>2. /\ v \o b \in Seq(Byte) /\ Len(v \o b) = 6
        /\ \A i \in 1 .. 6 : (v \o b)[i] = IF i <= 2 THEN v[i] ELSE b[i - 2]
    <3>1. /\ v \o b \in Seq(Byte) /\ Len(v \o b) = Len(v) + Len(b)
          /\ \A i \in 1 .. Len(v) + Len(b) : (v \o b)[i] = IF i <= Len(v) THEN v[i] ELSE b[i - Len(v)]
      <4>1. v \in Seq(Byte) /\ b \in Seq(Byte)
        BY <1>2, <2>1
      <4> QED
        BY <4>1, ConcatProperties
    <3> QED
      BY <1>2, <2>1, <3>1
  <2>3. /\ (v \o b)[1] = v[1] /\ (v \o b)[2] = v[2]
        /\ (v \o b)[3] = b[1] /\ (v \o b)[4] = b[2] /\ (v \o b)[5] = b[3] /\ (v \o b)[6] = b[4]
    BY <2>2
  <2> QED
    BY <2>1, <2>2, <2>3 DEF v
<1> HIDE DEF head
<1>5. /\ body \in Seq(Byte) /\ Len(body) = 6 + n
      /\ \A i \in 1 .. 6 + n : body[i] = IF i <= 6 THEN head[i] ELSE frame.payload[i - 6]
  <2> DEFINE p == frame.payload
  <2>1. p \in Seq(Byte) /\ Len(p) = n /\ n \in Nat
    BY <1>1
  <2> HIDE DEF p, n
  <2>2. /\ head \o p \in Seq(Byte) /\ Len(head \o p) = 6 + n
        /\ \A i \in 1 .. 6 + n : (head \o p)[i] = IF i <= 6 THEN head[i] ELSE p[i - 6]
    <3>1. /\ head \o p \in Seq(Byte) /\ Len(head \o p) = Len(head) + Len(p)
          /\ \A i \in 1 .. Len(head) + Len(p) : (head \o p)[i] = IF i <= Len(head) THEN head[i] ELSE p[i - Len(head)]
      <4>1. head \in Seq(Byte) /\ p \in Seq(Byte)
        BY <1>4, <2>1
      <4> QED
        BY <4>1, ConcatProperties
    <3> QED
      BY <1>4, <2>1, <3>1
  <2> QED
    BY <1>3, <2>2 DEF p
<1>6. /\ body[1] = frame.type /\ body[2] = frame.sequence
      /\ body[3] = b[1] /\ body[4] = b[2] /\ body[5] = b[3] /\ body[6] = b[4]
  BY <1>1, <1>4, <1>5
<1>7. SubSeq(body, 7, 6 + n) = frame.payload
  <2>1. /\ SubSeq(body, 7, 6 + n) \in Seq(Byte)
        /\ Len(SubSeq(body, 7, 6 + n)) = n
        /\ \A i \in 1 .. n : SubSeq(body, 7, 6 + n)[i] = body[7 + i - 1]
    <3>1. \A i \in 7 .. 6 + n : body[i] \in Byte
      BY <1>1, <1>5
    <3> HIDE DEF n
    <3>2. 7 \in Int /\ 6 + n \in Int /\ (6 + n) - 7 + 1 = n
      BY <1>1
    <3> QED
      BY <1>1, <3>1, <3>2, SubSeqProperties
  <2>2. \A i \in 1 .. n : body[7 + i - 1] = frame.payload[i]
    BY <1>1, <1>5
  <2> QED
    BY <1>1, <2>1, <2>2, SeqEqual
<1> QED
  BY <1>1, <1>5, <1>6, <1>7 DEF body, b

\* What is sent between two markers.
LEMMA Between ==
  ASSUME NEW e \in Seq(Byte), NEW a \in Byte, NEW b \in Byte
  PROVE  LET w == <<a>> \o e \o <<b>> IN
         /\ w \in Seq(Byte) /\ Len(w) = Len(e) + 2 /\ Len(e) \in Nat /\ w[1] = a /\ w[Len(w)] = b
         /\ \A i \in 2 .. Len(w) - 1 : w[i] = e[i - 1]
         /\ SubSeq(w, 2, Len(w) - 1) = e
<1> DEFINE w == <<a>> \o e \o <<b>>
           n == Len(e)
<1>1. n \in Nat /\ e \in [1 .. n -> Byte]
  BY LenProperties
<1>2. /\ <<a>> \o e \in Seq(Byte) /\ Len(<<a>> \o e) = n + 1
      /\ \A i \in 1 .. n + 1 : (<<a>> \o e)[i] = IF i <= 1 THEN a ELSE e[i - 1]
  OBVIOUS
<1>3. /\ w \in Seq(Byte) /\ Len(w) = n + 2
      /\ \A i \in 1 .. n + 2 : w[i] = IF i <= n + 1 THEN (<<a>> \o e)[i] ELSE b
  <2> DEFINE v == <<a>> \o e
  <2>1. v \in Seq(Byte) /\ Len(v) = n + 1 /\ n \in Nat
    BY <1>1, <1>2
  <2> HIDE DEF v, n
  <2>2. /\ v \o <<b>> \in Seq(Byte) /\ Len(v \o <<b>>) = n + 2
        /\ \A i \in 1 .. n + 2 : (v \o <<b>>)[i] = IF i <= n + 1 THEN v[i] ELSE b
    BY <2>1
  <2> QED
    BY <2>2 DEF v
<1> HIDE DEF w
<1>4. w[1] = a /\ w[n + 2] = b /\ \A i \in 2 .. n + 1 : w[i] = e[i - 1]
  BY <1>1, <1>2, <1>3
<1>5. SubSeq(w, 2, n + 1) = e
  <2>1. /\ SubSeq(w, 2, n + 1) \in Seq(Byte)
        /\ Len(SubSeq(w, 2, n + 1)) = n
        /\ \A i \in 1 .. n : SubSeq(w, 2, n + 1)[i] = w[2 + i - 1]
    <3>1. \A i \in 2 .. n + 1 : w[i] \in Byte
      BY <1>1, <1>3
    <3> HIDE DEF n
    <3>2. 2 \in Int /\ n + 1 \in Int /\ (n + 1) - 2 + 1 = n
      BY <1>1
    <3> QED
      BY <1>1, <3>1, <3>2, SubSeqProperties
  <2>2. \A i \in 1 .. n : w[2 + i - 1] = e[i]
    BY <1>1, <1>4
  <2> QED
    BY <1>1, <2>1, <2>2, SeqEqual
<1> QED
  BY <1>1, <1>3, <1>4, <1>5 DEF w

\* FrameCodec::decode() of what encode() wrote is the frame it was given, and no other:
\* the escapes, the size's four bytes and the checksum lose nothing, for every type,
\* sequence number and payload that encode() does not refuse as too long.
THEOREM DecodeInvertsEncode ==
  ASSUME NEW frame \in Frame, Encode(frame) # <<>>
  PROVE  Decode(Wire(frame)) = <<frame>>
<1> DEFINE body == Body(frame)
           n == Len(frame.payload)
           b == SizeBytes(n)
           data == Append(body, Checksum(body))
           w == Wire(frame)
<1>1. /\ n \in Nat /\ body \in Seq(Byte) /\ Len(body) = 6 + n
      /\ body[1] = frame.type /\ body[2] = frame.sequence
      /\ body[3] = b[1] /\ body[4] = b[2] /\ body[5] = b[3] /\ body[6] = b[4]
      /\ SubSeq(body, 7, 6 + n) = frame.payload
  BY BodyIs
<1> HIDE DEF body, n, b
<1>2. /\ data \in Seq(Byte) /\ Len(data) = 7 + n
      /\ data[7 + n] = Checksum(body) /\ \A i \in 1 .. 6 + n : data[i] = body[i]
  <2>1. Checksum(body) \in Byte
    BY <1>1, ChecksumIs
  <2> QED
    BY <1>1, <2>1, AppendProperties
<1>3. w = <<StartMarker>> \o Escape(data) \o <<EndMarker>>
  BY DEF Wire, body
<1> HIDE DEF data, w
<1>4. /\ Escape(data) \in Seq(Byte) /\ Unescape(Escape(data)) = data
      /\ IsEscaped(Escape(data)) /\ Len(data) <= Len(Escape(data))
  BY <1>2, UnescapeEscape
<1>5. /\ SubSeq(w, 2, Len(w) - 1) = Escape(data) /\ Len(w) = Len(Escape(data)) + 2
      /\ Len(Escape(data)) \in Nat
  <2>1. StartMarker \in Byte /\ EndMarker \in Byte
    BY ByteIs
  <2> QED
    BY <1>3, <1>4, <2>1, Between
<1>6. Size(data[3], data[4], data[5], data[6]) = n
  <2>1. MaxFrameSize \in Nat
    BY CodecAssumption, SMT
  <2>2. Len(w) <= MaxFrameSize
    BY <1>5, <2>1 DEF Encode, w
  <2>3. n <= MaxFrameSize
    BY <1>1, <1>2, <1>4, <1>5, <2>1, <2>2
  <2>4. Size(b[1], b[2], b[3], b[4]) = n
    BY <1>1, <2>3, SizeIs DEF b
  <2>5. data[3] = b[1] /\ data[4] = b[2] /\ data[5] = b[3] /\ data[6] = b[4]
    BY <1>1, <1>2
  <2> QED
    BY <2>4, <2>5
<1>7. SubSeq(data, 1, 6 + n) = body
  <2>1. SubSeq(data, 1, 6 + n) \in Seq(Byte) /\ Len(SubSeq(data, 1, 6 + n)) = 6 + n
        /\ \A i \in 1 .. 6 + n : SubSeq(data, 1, 6 + n)[i] = data[1 + i - 1]
    <3>1. \A i \in 1 .. 6 + n : data[i] \in Byte
      BY <1>1, <1>2
    <3>2. 1 \in Int /\ 6 + n \in Int /\ (6 + n) - 1 + 1 = 6 + n /\ 1 <= 6 + n
      BY <1>1
    <3> QED
      BY <3>1, <3>2, SubSeqProperties
  <2>2. \A i \in 1 .. 6 + n : data[1 + i - 1] = body[i]
    BY <1>1, <1>2
  <2> QED
    BY <1>1, <2>1, <2>2, SeqEqual
<1>8. SubSeq(data, 7, 6 + n) = frame.payload /\ data[1] = frame.type /\ data[2] = frame.sequence
  <2>1. data[1] = frame.type /\ data[2] = frame.sequence
    BY <1>1, <1>2
  <2>2. SubSeq(data, 7, 6 + n) = SubSeq(body, 7, 6 + n)
    <3>1. /\ SubSeq(data, 7, 6 + n) \in Seq(Byte) /\ Len(SubSeq(data, 7, 6 + n)) = n
          /\ \A i \in 1 .. n : SubSeq(data, 7, 6 + n)[i] = data[7 + i - 1]
      <4>1. \A i \in 7 .. 6 + n : data[i] \in Byte
        BY <1>1, <1>2
      <4>2. 7 \in Int /\ 6 + n \in Int /\ (6 + n) - 7 + 1 = n /\ (7 > 6 + n => n = 0)
        BY <1>1
      <4> QED
        BY <4>1, <4>2, SubSeqProperties
    <3>2. /\ SubSeq(body, 7, 6 + n) \in Seq(Byte) /\ Len(SubSeq(body, 7, 6 + n)) = n
          /\ \A i \in 1 .. n : SubSeq(body, 7, 6 + n)[i] = body[7 + i - 1]
      <4>1. \A i \in 7 .. 6 + n : body[i] \in Byte
        BY <1>1
      <4>2. 7 \in Int /\ 6 + n \in Int /\ (6 + n) - 7 + 1 = n /\ (7 > 6 + n => n = 0)
        BY <1>1
      <4> QED
        BY <4>1, <4>2, SubSeqProperties
    <3>3. \A i \in 1 .. n : data[7 + i - 1] = body[7 + i - 1]
      BY <1>1, <1>2
    <3> QED
      BY <3>1, <3>2, <3>3, SeqEqual
  <2> QED
    BY <1>1, <2>1, <2>2
<1>9. frame = [type |-> frame.type, sequence |-> frame.sequence, payload |-> frame.payload]
  BY DEF Frame
<1>10. Len(data) >= 7 /\ Len(data) > 6 + n /\ (6 + n) + 1 = 7 + n
  BY <1>1, <1>2
<1> DEFINE IsFrame == /\ IsEscaped(Escape(data))
                      /\ Len(data) >= MinBodySize
                      /\ Len(data) > 6 + n
                      /\ data[(6 + n) + 1] = Checksum(SubSeq(data, 1, 6 + n))
<1>11. IsFrame
  BY <1>2, <1>4, <1>7, <1>10 DEF MinBodySize
<1>12. Decode(w) = IF IsFrame
                   THEN <<[type |-> data[1], sequence |-> data[2], payload |-> SubSeq(data, 7, 6 + n)]>>
                   ELSE <<>>
  BY <1>4, <1>5, <1>6 DEF Decode
<1> QED
  BY <1>8, <1>9, <1>11, <1>12 DEF w

-----------------------------------------------------------------------------
(* Frames in a stream.                                                     *)

\* As much as the proofs need of the type of what decode() yields.
Result == [type : Nat, sequence : Nat, payload : Seq(Nat)]
Ending == {StartMarker, EndMarker}
\* A marker comes before position j; and no frame is open at the end.
Marked(b, j) == \E i \in 1 .. j - 1 : b[i] \in Ending
Closed(a) == OpenBefore(a, Len(a) + 1) = {}

LEMMA SubSeqIs ==
  ASSUME NEW S, NEW s \in Seq(S), NEW i \in Nat, NEW j \in Nat, 1 <= i, i <= j + 1, j <= Len(s)
  PROVE  /\ SubSeq(s, i, j) \in Seq(S) /\ Len(SubSeq(s, i, j)) = j - i + 1
         /\ \A k \in 1 .. j - i + 1 : SubSeq(s, i, j)[k] = s[i + k - 1]
<1>1. \A k \in i .. j : s[k] \in S
  BY LenProperties
<1>2. i \in Int /\ j \in Int /\ (i > j => j - i + 1 = 0)
  OBVIOUS
<1> QED
  BY <1>1, <1>2, SubSeqProperties

LEMMA UnescapeType ==
  ASSUME NEW a \in Seq(Byte)
  PROVE  Unescape(a) \in Seq(Nat)
  BY UnescapeParts, FlattenType DEF Unescape

LEMMA SizeType ==
  \A b1 \in Nat, b2 \in Nat, b3 \in Nat, b4 \in Nat : Size(b1, b2, b3, b4) \in Nat
  BY DEF Size

LEMMA DecodeType ==
  ASSUME NEW wire \in Seq(Byte), Len(wire) >= 2
  PROVE  Decode(wire) \in Seq(Result)
<1> DEFINE body == SubSeq(wire, 2, Len(wire) - 1)
           data == Unescape(body)
           end == 6 + Size(data[3], data[4], data[5], data[6])
           result == [type |-> data[1], sequence |-> data[2], payload |-> SubSeq(data, 7, end)]
<1>1. body \in Seq(Byte)
  <2>1. /\ Len(wire) \in Nat /\ 2 \in Nat /\ Len(wire) - 1 \in Nat /\ 2 <= (Len(wire) - 1) + 1
        /\ Len(wire) - 1 <= Len(wire) /\ 1 <= 2
    BY LenProperties
  <2> QED
    BY <2>1, SubSeqIs
<1>2. data \in Seq(Nat)
  <2> HIDE DEF body
  <2> QED
    BY <1>1, UnescapeType
<1> HIDE DEF data
<1>3. ASSUME Len(data) >= 7, Len(data) > end PROVE result \in Result
  <2>1. /\ data[1] \in Nat /\ data[2] \in Nat /\ data[3] \in Nat /\ data[4] \in Nat /\ data[5] \in Nat
        /\ data[6] \in Nat
    <3>1. Len(data) \in Nat /\ \A i \in 1 .. Len(data) : data[i] \in Nat
      BY <1>2, LenProperties
    <3>2. \A i \in 1 .. 7 : i \in 1 .. Len(data)
      BY <1>3, <3>1
    <3> HIDE DEF end, result
    <3> QED
      BY <3>1, <3>2
  <2>2. end \in Nat /\ 6 <= end
    <3>1. Size(data[3], data[4], data[5], data[6]) \in Nat
      BY <2>1, SizeType
    <3> QED
      BY <3>1
  <2> HIDE DEF end
  <2>3. SubSeq(data, 7, end) \in Seq(Nat)
    <3>1. 7 \in Nat /\ end \in Nat /\ 1 <= 7 /\ 7 <= end + 1 /\ end <= Len(data)
      BY <1>2, <1>3, <2>2
    <3> QED
      BY <1>2, <3>1, SubSeqIs
  <2> QED
    BY <2>1, <2>3 DEF Result
<1> DEFINE IsFrame == /\ IsEscaped(body) /\ Len(data) >= MinBodySize /\ Len(data) > end
                      /\ data[end + 1] = Checksum(SubSeq(data, 1, end))
<1>4. Decode(wire) = IF IsFrame THEN <<result>> ELSE <<>>
  BY DEF Decode, data
<1>5. IsFrame => Len(data) >= 7 /\ Len(data) > end
  BY DEF MinBodySize
<1> HIDE DEF IsFrame, result, end
<1> QED
  BY <1>3, <1>4, <1>5

LEMMA InOpen ==
  ASSUME NEW a, NEW j, NEW i
  PROVE  i \in OpenBefore(a, j) <=>
           i \in 1 .. j - 1 /\ a[i] = StartMarker /\ \A k \in i + 1 .. j - 1 : a[k] \notin Ending
  BY DEF OpenBefore, Ending

LEMMA OpenIs ==
  ASSUME NEW a \in Seq(Byte), NEW j \in Nat, OpenBefore(a, j) # {}
  PROVE  /\ From(a, j) \in 1 .. j - 1 /\ a[From(a, j)] = StartMarker
         /\ \A k \in From(a, j) + 1 .. j - 1 : a[k] \notin Ending
         /\ \A i \in OpenBefore(a, j) : i = From(a, j)
<1>1. From(a, j) \in OpenBefore(a, j)
  BY DEF From
<1>2. /\ From(a, j) \in 1 .. j - 1 /\ a[From(a, j)] = StartMarker
      /\ \A k \in From(a, j) + 1 .. j - 1 : a[k] \notin Ending
  BY <1>1 DEF OpenBefore, Ending
<1>3. ASSUME NEW i \in OpenBefore(a, j) PROVE i = From(a, j)
  <2>1. i \in 1 .. j - 1 /\ a[i] = StartMarker /\ \A k \in i + 1 .. j - 1 : a[k] \notin Ending
    BY DEF OpenBefore, Ending
  <2>2. ~(i < From(a, j))
    <3>1. i < From(a, j) => From(a, j) \in i + 1 .. j - 1
      BY <1>2, <2>1
    <3> QED
      BY <1>2, <2>1, <3>1 DEF Ending
  <2>3. ~(From(a, j) < i)
    <3>1. From(a, j) < i => i \in From(a, j) + 1 .. j - 1
      BY <1>2, <2>1
    <3> QED
      BY <1>2, <2>1, <3>1 DEF Ending
  <2> QED
    BY <1>2, <2>1, <2>2, <2>3
<1> QED
  BY <1>2, <1>3

LEMMA FoundType ==
  ASSUME NEW a \in Seq(Byte), NEW j \in 1 .. Len(a)
  PROVE  Found(a, j) \in Seq(Result)
<1>1. CASE a[j] = EndMarker /\ OpenBefore(a, j) # {}
  <2>1. From(a, j) \in 1 .. j - 1 /\ j \in Nat
    BY <1>1, OpenIs
  <2>2. SubSeq(a, From(a, j), j) \in Seq(Byte) /\ Len(SubSeq(a, From(a, j), j)) = j - From(a, j) + 1
    <3>1. /\ From(a, j) \in Nat /\ j \in Nat /\ 1 <= From(a, j) /\ From(a, j) <= j + 1 /\ j <= Len(a)
      BY <2>1
    <3> QED
      BY <3>1, SubSeqIs
  <2>3. Decode(SubSeq(a, From(a, j), j)) \in Seq(Result)
    <3>1. j - From(a, j) + 1 >= 2
      BY <2>1
    <3> QED
      BY <2>2, <3>1, DecodeType
  <2> QED
    BY <1>1, <2>3 DEF Found
<1>2. CASE ~(a[j] = EndMarker /\ OpenBefore(a, j) # {})
  BY <1>2 DEF Found
<1> QED
  BY <1>1, <1>2

LEMMA FoundParts ==
  ASSUME NEW a \in Seq(Byte)
  PROVE  /\ [j \in DOMAIN a |-> Found(a, j)] \in Seq(Seq(Result))
         /\ Len([j \in DOMAIN a |-> Found(a, j)]) = Len(a)
         /\ \A j \in 1 .. Len(a) : [k \in DOMAIN a |-> Found(a, k)][j] = Found(a, j)
<1>1. DOMAIN a = 1 .. Len(a) /\ Len(a) \in Nat
  BY LenProperties
<1> DEFINE n == Len(a)
           m == [j \in 1 .. n |-> Found(a, j)]
<1>2. m \in Seq(Seq(Result)) /\ Len(m) = n /\ \A j \in 1 .. n : m[j] = Found(a, j)
  <2>1. n \in Nat /\ \A j \in 1 .. n : Found(a, j) \in Seq(Result)
    BY <1>1, FoundType
  <2> HIDE DEF n
  <2> QED
    BY <2>1
<1> QED
  BY <1>1, <1>2

LEMMA ParsedType ==
  ASSUME NEW a \in Seq(Byte)
  PROVE  /\ Parsed(a) \in Seq(Result)
         /\ Parsed(a) = <<>> <=> \A j \in 1 .. Len(a) : Found(a, j) = <<>>
<1> DEFINE m == [j \in DOMAIN a |-> Found(a, j)]
<1>1. m \in Seq(Seq(Result)) /\ Len(m) = Len(a) /\ \A j \in 1 .. Len(a) : m[j] = Found(a, j)
  BY FoundParts
<1>2. Parsed(a) = FlattenSeq(m)
  BY DEF Parsed
<1> HIDE DEF m
<1>3. FlattenSeq(m) \in Seq(Result) /\ (FlattenSeq(m) = <<>> <=> \A i \in 1 .. Len(m) : m[i] = <<>>)
  BY <1>1, FlattenType, FlattenNothing
<1> QED
  BY <1>1, <1>2, <1>3

\* What is open at a place of b, when a comes before it.
\* Which frame is open in b depends on what came before b until b's first marker.
LEMMA OpenConcat ==
  ASSUME NEW a \in Seq(Byte), NEW b \in Seq(Byte), NEW j \in 1 .. Len(b) + 1
  PROVE  /\ Marked(b, j) => OpenBefore(a \o b, Len(a) + j) = {Len(a) + i : i \in OpenBefore(b, j)}
         /\ ~Marked(b, j) => /\ OpenBefore(b, j) = {}
                             /\ OpenBefore(a \o b, Len(a) + j) = OpenBefore(a, Len(a) + 1)
<1> DEFINE n == Len(a)
           c == a \o b
           e == n + j
<1>1. /\ c \in Seq(Byte) /\ Len(c) = n + Len(b) /\ n \in Nat /\ Len(b) \in Nat /\ j \in Nat
      /\ e \in Nat /\ e = n + j
      /\ \A i \in 1 .. n : c[i] = a[i]
      /\ \A i \in 1 .. Len(b) : c[n + i] = b[i]
  <2>1. /\ c \in Seq(Byte) /\ Len(c) = n + Len(b) /\ n \in Nat /\ Len(b) \in Nat
        /\ \A i \in 1 .. n + Len(b) : c[i] = IF i <= n THEN a[i] ELSE b[i - n]
    BY ConcatProperties, LenProperties
  <2> HIDE DEF c, n
  <2>2. ASSUME NEW i \in 1 .. Len(b) PROVE c[n + i] = b[i]
    <3>1. n + i \in 1 .. n + Len(b) /\ ~(n + i <= n) /\ (n + i) - n = i
      BY <2>1
    <3> QED
      BY <2>1, <3>1
  <2> QED
    BY <2>1, <2>2
<1> HIDE DEF c, n, e
<1>2. ASSUME Marked(b, j), NEW k \in OpenBefore(c, e) PROVE \E i \in OpenBefore(b, j) : k = n + i
  <2>1. k \in 1 .. e - 1 /\ c[k] = StartMarker /\ \A m \in k + 1 .. e - 1 : c[m] \notin Ending
    BY InOpen
  <2>2. PICK i \in 1 .. j - 1 : b[i] \in Ending
    BY <1>2 DEF Marked
  <2>3. n + i \in 1 .. e - 1 /\ c[n + i] \in Ending
    BY <1>1, <2>2
  <2>4. k >= n + i
    BY <1>1, <2>1, <2>3
  <2>5. k - n \in 1 .. j - 1 /\ k - n \in 1 .. Len(b) /\ n + (k - n) = k
    BY <1>1, <2>1, <2>4
  <2>6. b[k - n] = StartMarker
    BY <1>1, <2>1, <2>5
  <2>7. ASSUME NEW m \in (k - n) + 1 .. j - 1 PROVE b[m] \notin Ending
    <3>1. n + m \in k + 1 .. e - 1 /\ m \in 1 .. Len(b)
      BY <1>1, <2>1, <2>5
    <3> QED
      BY <1>1, <2>1, <3>1
  <2>8. k - n \in OpenBefore(b, j)
    BY <2>5, <2>6, <2>7, InOpen
  <2> QED
    BY <2>5, <2>8
<1>3. ASSUME NEW i \in OpenBefore(b, j) PROVE n + i \in OpenBefore(c, e)
  <2> DEFINE k == n + i
  <2>1. i \in 1 .. j - 1 /\ b[i] = StartMarker /\ \A m \in i + 1 .. j - 1 : b[m] \notin Ending
    BY InOpen
  <2>2. k \in 1 .. e - 1 /\ c[k] = StartMarker
    BY <1>1, <2>1
  <2>3. ASSUME NEW m \in k + 1 .. e - 1 PROVE c[m] \notin Ending
    <3>1. m - n \in i + 1 .. j - 1 /\ m - n \in 1 .. Len(b) /\ n + (m - n) = m
      BY <1>1, <2>1
    <3>2. b[m - n] \notin Ending
      BY <2>1, <3>1
    <3> QED
      BY <1>1, <3>1, <3>2
  <2> HIDE DEF k
  <2>4. k \in OpenBefore(c, e)
    BY <2>2, <2>3, InOpen
  <2> QED
    BY <2>4 DEF k
<1>4. ASSUME ~Marked(b, j) PROVE OpenBefore(b, j) = {}
  BY <1>4 DEF Marked, OpenBefore, Ending
<1>5. ASSUME ~Marked(b, j), NEW k \in OpenBefore(c, e) PROVE k \in OpenBefore(a, n + 1)
  <2>1. k \in 1 .. e - 1 /\ c[k] = StartMarker /\ \A m \in k + 1 .. e - 1 : c[m] \notin Ending
    BY InOpen
  <2>2. k <= n
    <3> SUFFICES ASSUME ~(k <= n) PROVE FALSE
      BY <1>1, <2>1
    <3>1. k - n \in 1 .. j - 1 /\ k - n \in 1 .. Len(b) /\ n + (k - n) = k
      BY <1>1, <2>1
    <3>2. b[k - n] \in Ending
      BY <1>1, <2>1, <3>1 DEF Ending
    <3> QED
      BY <1>5, <3>1, <3>2 DEF Marked
  <2>3. k \in 1 .. (n + 1) - 1 /\ a[k] = StartMarker
    BY <1>1, <2>1, <2>2
  <2>4. ASSUME NEW m \in k + 1 .. (n + 1) - 1 PROVE a[m] \notin Ending
    <3>1. m \in 1 .. n /\ m \in k + 1 .. e - 1
      BY <1>1, <2>1
    <3> QED
      BY <1>1, <2>1, <3>1
  <2> QED
    BY <2>3, <2>4, InOpen
<1>6. ASSUME ~Marked(b, j), NEW k \in OpenBefore(a, n + 1) PROVE k \in OpenBefore(c, e)
  <2>1. /\ k \in 1 .. (n + 1) - 1 /\ a[k] = StartMarker
        /\ \A m \in k + 1 .. (n + 1) - 1 : a[m] \notin Ending
    BY InOpen
  <2>2. k \in 1 .. e - 1 /\ k \in 1 .. n /\ c[k] = StartMarker
    BY <1>1, <2>1
  <2>3. ASSUME NEW m \in k + 1 .. e - 1 PROVE c[m] \notin Ending
    <3>1. CASE m <= n
      <4>1. m \in k + 1 .. (n + 1) - 1 /\ m \in 1 .. n
        BY <1>1, <2>1, <3>1
      <4> QED
        BY <1>1, <2>1, <4>1
    <3>2. CASE ~(m <= n)
      <4>1. m - n \in 1 .. j - 1 /\ m - n \in 1 .. Len(b) /\ n + (m - n) = m
        BY <1>1, <2>1, <3>2
      <4>2. b[m - n] \notin Ending
        BY <1>6, <4>1 DEF Marked
      <4> QED
        BY <1>1, <4>1, <4>2
    <3> QED
      BY <3>1, <3>2
  <2> QED
    BY <2>2, <2>3, InOpen
<1>7. Marked(b, j) => OpenBefore(c, e) = {n + i : i \in OpenBefore(b, j)}
  BY <1>2, <1>3
<1>8. ~Marked(b, j) => OpenBefore(b, j) = {} /\ OpenBefore(c, e) = OpenBefore(a, n + 1)
  BY <1>4, <1>5, <1>6
<1> QED
  BY <1>7, <1>8 DEF c, n, e

LEMMA OpenPrefix ==
  ASSUME NEW a \in Seq(Byte), NEW b \in Seq(Byte), NEW j \in 1 .. Len(a) + 1
  PROVE  OpenBefore(a \o b, j) = OpenBefore(a, j)
<1> DEFINE c == a \o b
<1>1. Len(a) \in Nat /\ \A i \in 1 .. Len(a) : c[i] = a[i]
  BY ConcatProperties, LenProperties
<1> HIDE DEF c
<1>2. \A i \in 1 .. j - 1 : i \in 1 .. Len(a)
  BY <1>1
<1>3. \A i \in 1 .. j - 1 : \A k \in i + 1 .. j - 1 : k \in 1 .. Len(a)
  BY <1>1
<1>4. \A i \in 1 .. j - 1 : c[i] = a[i] /\ \A k \in i + 1 .. j - 1 : c[k] = a[k]
  BY <1>1, <1>2, <1>3
<1> QED
  BY <1>4 DEF OpenBefore, c

\* A frame is found where it was found in the part it lies in.
LEMMA FoundPrefix ==
  ASSUME NEW a \in Seq(Byte), NEW b \in Seq(Byte), NEW j \in 1 .. Len(a)
  PROVE  Found(a \o b, j) = Found(a, j) /\ From(a \o b, j) = From(a, j)
<1>1. OpenBefore(a \o b, j) = OpenBefore(a, j) /\ From(a \o b, j) = From(a, j)
  <2>1. j \in 1 .. Len(a) + 1
    BY LenProperties
  <2> QED
    BY <2>1, OpenPrefix DEF From
<1>2. (a \o b)[j] = a[j]
  BY ConcatProperties, LenProperties
<1>3. ASSUME OpenBefore(a, j) # {} PROVE SubSeq(a \o b, From(a, j), j) = SubSeq(a, From(a, j), j)
  <2>1. From(a, j) \in 1 .. Len(a) /\ j \in 1 .. Len(a)
    <3>1. j \in Nat /\ Len(a) \in Nat
      BY LenProperties
    <3> QED
      BY <1>3, <3>1, OpenIs
  <2> QED
    BY <2>1, SubSeqOfConcat1
<1> QED
  BY <1>1, <1>2, <1>3 DEF Found

LEMMA FoundSuffix ==
  ASSUME NEW a \in Seq(Byte), NEW b \in Seq(Byte), NEW j \in 1 .. Len(b), Marked(b, j) \/ Closed(a)
  PROVE  /\ Found(a \o b, Len(a) + j) = Found(b, j)
         /\ Found(b, j) # <<>> => From(a \o b, Len(a) + j) = Len(a) + From(b, j)
<1> DEFINE n == Len(a)
           c == a \o b
<1>1. /\ c \in Seq(Byte) /\ Len(c) = n + Len(b) /\ n \in Nat /\ Len(b) \in Nat /\ c[n + j] = b[j]
      /\ j \in Nat /\ n + j \in Nat /\ j \in 1 .. Len(b) + 1
  <2>1. /\ c \in Seq(Byte) /\ Len(c) = n + Len(b) /\ n \in Nat /\ Len(b) \in Nat
        /\ \A i \in 1 .. n + Len(b) : c[i] = IF i <= n THEN a[i] ELSE b[i - n]
    BY ConcatProperties, LenProperties
  <2> HIDE DEF c, n
  <2>2. n + j \in 1 .. n + Len(b) /\ ~(n + j <= n) /\ (n + j) - n = j
    BY <2>1
  <2> QED
    BY <2>1, <2>2
<1>2. OpenBefore(c, n + j) = {n + i : i \in OpenBefore(b, j)}
  <2>1. CASE Marked(b, j)
    BY <1>1, <2>1, OpenConcat
  <2>2. CASE ~Marked(b, j)
    <3>1. OpenBefore(b, j) = {} /\ OpenBefore(c, n + j) = OpenBefore(a, n + 1)
      BY <1>1, <2>2, OpenConcat
    <3> QED
      BY <2>2, <3>1 DEF Closed
  <2> QED
    BY <2>1, <2>2
<1>3. ASSUME OpenBefore(b, j) # {}
      PROVE  /\ From(c, n + j) = n + From(b, j) /\ OpenBefore(c, n + j) # {}
             /\ SubSeq(c, From(c, n + j), n + j) = SubSeq(b, From(b, j), j)
  <2>1. From(b, j) \in OpenBefore(b, j) /\ From(b, j) \in 1 .. j - 1
    BY <1>1, <1>3, OpenIs DEF From
  <2>2. OpenBefore(c, n + j) # {} /\ n + From(b, j) \in OpenBefore(c, n + j)
    BY <1>2, <2>1
  <2> HIDE DEF c, n
  <2>3. From(c, n + j) = n + From(b, j)
    BY <1>1, <2>2, OpenIs
  <2>4. /\ n + From(b, j) \in n + 1 .. n + Len(b) /\ n + j \in n + 1 .. n + Len(b)
        /\ (n + From(b, j)) - n = From(b, j) /\ (n + j) - n = j
    BY <1>1, <2>1
  <2>5. SubSeq(c, n + From(b, j), n + j) = SubSeq(b, From(b, j), j)
    <3> DEFINE i == n + From(b, j)
               k == n + j
    <3>1. i \in Len(a) + 1 .. Len(a) + Len(b) /\ k \in Len(a) + 1 .. Len(a) + Len(b)
      BY <2>4 DEF n
    <3> HIDE DEF i, k
    <3>2. SubSeq(a \o b, i, k) = SubSeq(b, i - Len(a), k - Len(a))
      BY <3>1, SubSeqOfConcat2
    <3> QED
      BY <2>4, <3>2 DEF c, n, i, k
  <2> QED
    BY <2>2, <2>3, <2>5
<1>4. OpenBefore(b, j) = {} => OpenBefore(c, n + j) = {}
  BY <1>2
<1> HIDE DEF c, n
<1>5. Found(c, n + j) = Found(b, j)
  BY <1>1, <1>3, <1>4 DEF Found
<1>6. Found(b, j) # <<>> => OpenBefore(b, j) # {}
  BY DEF Found
<1> QED
  BY <1>3, <1>5, <1>6 DEF c, n

\* No frame is longer than one that may be sent.
-----------------------------------------------------------------------------
(* Streams one after the other.                                            *)

\* No frame in the stream is longer than a frame may be.
Bounded(a) == \A j \in 1 .. Len(a) : Found(a, j) # <<>> => j - From(a, j) < MaxFrameSize

LEMMA ConcatIs ==
  ASSUME NEW a \in Seq(Byte), NEW b \in Seq(Byte)
  PROVE  /\ a \o b \in Seq(Byte) /\ Len(a \o b) = Len(a) + Len(b) /\ Len(a) \in Nat /\ Len(b) \in Nat
         /\ \A i \in 1 .. Len(a) : (a \o b)[i] = a[i]
         /\ \A i \in 1 .. Len(b) : (a \o b)[Len(a) + i] = b[i]
<1>1. /\ a \o b \in Seq(Byte) /\ Len(a \o b) = Len(a) + Len(b) /\ Len(a) \in Nat /\ Len(b) \in Nat
      /\ \A i \in 1 .. Len(a) + Len(b) : (a \o b)[i] = IF i <= Len(a) THEN a[i] ELSE b[i - Len(a)]
  BY ConcatProperties, LenProperties
<1>2. ASSUME NEW i \in 1 .. Len(b) PROVE (a \o b)[Len(a) + i] = b[i]
  <2>1. Len(a) + i \in 1 .. Len(a) + Len(b) /\ ~(Len(a) + i <= Len(a)) /\ (Len(a) + i) - Len(a) = i
    BY <1>1
  <2> QED
    BY <1>1, <2>1
<1> QED
  BY <1>1, <1>2

LEMMA ParsedConcat ==
  ASSUME NEW a \in Seq(Byte), NEW b \in Seq(Byte),
         \A j \in 1 .. Len(b) : Found(a \o b, Len(a) + j) = Found(b, j)
  PROVE  Parsed(a \o b) = Parsed(a) \o Parsed(b)
<1> DEFINE Map(x) == [j \in DOMAIN x |-> Found(x, j)]
           c == a \o b
<1>1. /\ c \in Seq(Byte) /\ Len(c) = Len(a) + Len(b) /\ Len(a) \in Nat /\ Len(b) \in Nat
  BY ConcatIs
<1>2. \A j \in 1 .. Len(a) : Found(c, j) = Found(a, j)
  BY FoundPrefix
<1> HIDE DEF c
<1>3. \A x \in Seq(Byte) : /\ Map(x) \in Seq(Seq(Result)) /\ Len(Map(x)) = Len(x)
                           /\ \A i \in 1 .. Len(x) : Map(x)[i] = Found(x, i)
  BY FoundParts
<1>4. \A x \in Seq(Byte) : Parsed(x) = FlattenSeq(Map(x))
  BY DEF Parsed
<1> HIDE DEF Map
<1>5. Map(c) = Map(a) \o Map(b)
  <2>1. /\ Map(a) \o Map(b) \in Seq(Seq(Result)) /\ Len(Map(a) \o Map(b)) = Len(c)
        /\ \A i \in 1 .. Len(c) : (Map(a) \o Map(b))[i] = IF i <= Len(a) THEN Map(a)[i] ELSE Map(b)[i - Len(a)]
    <3>1. /\ Map(a) \in Seq(Seq(Result)) /\ Len(Map(a)) = Len(a)
          /\ Map(b) \in Seq(Seq(Result)) /\ Len(Map(b)) = Len(b)
      BY <1>3
    <3>2. /\ Map(a) \o Map(b) \in Seq(Seq(Result)) /\ Len(Map(a) \o Map(b)) = Len(Map(a)) + Len(Map(b))
          /\ \A i \in 1 .. Len(Map(a)) + Len(Map(b)) :
               (Map(a) \o Map(b))[i] = IF i <= Len(Map(a)) THEN Map(a)[i] ELSE Map(b)[i - Len(Map(a))]
      BY <3>1, ConcatProperties
    <3> QED
      BY <1>1, <3>1, <3>2
  <2>2. ASSUME NEW i \in 1 .. Len(c) PROVE (Map(a) \o Map(b))[i] = Map(c)[i]
    <3>1. CASE i <= Len(a)
      <4>1. i \in 1 .. Len(a)
        BY <3>1, <1>1
      <4> QED
        BY <1>1, <1>2, <1>3, <2>1, <3>1, <4>1
    <3>2. CASE ~(i <= Len(a))
      <4>1. i - Len(a) \in 1 .. Len(b) /\ Len(a) + (i - Len(a)) = i
        BY <3>2, <1>1
      <4>2. Found(c, i) = Found(b, i - Len(a))
        BY <4>1 DEF c
      <4> QED
        BY <1>1, <1>3, <2>1, <3>2, <4>1, <4>2
    <3> QED
      BY <3>1, <3>2
  <2> DEFINE p == Map(a) \o Map(b)
             q == Map(c)
  <2>3. /\ p \in Seq(Seq(Result)) /\ q \in Seq(Seq(Result)) /\ Len(p) = Len(q)
        /\ \A i \in 1 .. Len(p) : p[i] = q[i]
    BY <1>1, <1>3, <2>1, <2>2
  <2> HIDE DEF p, q
  <2>4. q = p
    BY <2>3, SeqEqual
  <2> QED
    BY <2>4 DEF p, q
<1>6. FlattenSeq(Map(a) \o Map(b)) = FlattenSeq(Map(a)) \o FlattenSeq(Map(b))
  BY <1>3, FlattenConcat
<1> QED
  BY <1>1, <1>4, <1>5, <1>6 DEF c

\* Nothing reaches over a place where no frame is open, or one begins.
\* No frame reaches from a into b.
Splits(a, b) == Closed(a) \/ (b # <<>> /\ b[1] = StartMarker)

LEMMA SplitFound ==
  ASSUME NEW a \in Seq(Byte), NEW b \in Seq(Byte), Splits(a, b), NEW j \in 1 .. Len(b)
  PROVE  /\ Found(a \o b, Len(a) + j) = Found(b, j)
         /\ Found(b, j) # <<>> => From(a \o b, Len(a) + j) = Len(a) + From(b, j)
<1>1. CASE Closed(a) \/ Marked(b, j)
  BY <1>1, FoundSuffix
<1>2. CASE ~(Closed(a) \/ Marked(b, j))
  <2>1. b[1] = StartMarker
    BY <1>2 DEF Splits
  <2>2. j = 1
    <3> SUFFICES ASSUME j # 1 PROVE FALSE
      OBVIOUS
    <3>1. 1 \in 1 .. j - 1
      BY LenProperties
    <3> QED
      BY <1>2, <2>1, <3>1 DEF Marked, Ending
  <2>3. (a \o b)[Len(a) + 1] = StartMarker
    BY <2>1, <2>2, ConcatIs
  <2>4. StartMarker # EndMarker
    BY DEF StartMarker, EndMarker
  <2> QED
    BY <2>1, <2>2, <2>3, <2>4 DEF Found
<1> QED
  BY <1>1, <1>2

LEMMA ParsedSplits ==
  ASSUME NEW a \in Seq(Byte), NEW b \in Seq(Byte), Splits(a, b)
  PROVE  Parsed(a \o b) = Parsed(a) \o Parsed(b)
  BY SplitFound, ParsedConcat

LEMMA BoundedSplits ==
  ASSUME NEW a \in Seq(Byte), NEW b \in Seq(Byte), Splits(a, b), Bounded(a), Bounded(b)
  PROVE  Bounded(a \o b)
<1> DEFINE n == Len(a)
           c == a \o b
<1>1. Len(c) = n + Len(b) /\ n \in Nat /\ Len(b) \in Nat
  BY ConcatIs
<1>2. \A j \in 1 .. n : Found(c, j) = Found(a, j) /\ From(c, j) = From(a, j)
  BY FoundPrefix
<1>3. \A j \in 1 .. Len(b) : /\ Found(c, n + j) = Found(b, j)
                             /\ Found(b, j) # <<>> => From(c, n + j) = n + From(b, j)
  BY SplitFound
<1> HIDE DEF n, c
<1>4. ASSUME NEW j \in 1 .. Len(c), Found(c, j) # <<>> PROVE j - From(c, j) < MaxFrameSize
  <2>1. CASE j <= n
    <3>1. j \in 1 .. n
      BY <1>1, <2>1
    <3> QED
      BY <1>2, <1>4, <3>1 DEF Bounded, n
  <2>2. CASE ~(j <= n)
    <3> DEFINE k == j - n
    <3>1. k \in 1 .. Len(b) /\ n + k = j /\ k \in Nat
      BY <1>1, <2>2
    <3> HIDE DEF k
    <3>2. Found(b, k) # <<>> /\ From(c, j) = n + From(b, k)
      BY <1>3, <1>4, <3>1
    <3>3. k - From(b, k) < MaxFrameSize
      BY <3>1, <3>2 DEF Bounded
    <3>4. From(b, k) \in Nat
      <4>1. OpenBefore(b, k) # {}
        BY <3>2 DEF Found
      <4>2. From(b, k) \in 1 .. k - 1
        BY <3>1, <4>1, OpenIs
      <4> QED
        BY <3>1, <4>2
    <3>5. j - From(c, j) = k - From(b, k)
      BY <1>1, <3>1, <3>2, <3>4
    <3> QED
      BY <3>3, <3>5
  <2> QED
    BY <2>1, <2>2
<1> QED
  BY <1>4 DEF Bounded, c

LEMMA BoundedPrefix ==
  ASSUME NEW a \in Seq(Byte), NEW b \in Seq(Byte), Bounded(a \o b)
  PROVE  Bounded(a)
<1>1. \A j \in 1 .. Len(a) : j \in 1 .. Len(a \o b)
  BY ConcatIs
<1> QED
  BY <1>1, FoundPrefix DEF Bounded

LEMMA NothingParsed ==
  ASSUME NEW a \in Seq(Byte), Parsed(a) = <<>>
  PROVE  Bounded(a)
  BY ParsedType DEF Bounded

LEMMA NoMarkerParsed ==
  ASSUME NEW a \in Seq(Byte)
  PROVE  /\ (\A j \in 1 .. Len(a) : a[j] # EndMarker) => Parsed(a) = <<>>
         /\ (\A j \in 1 .. Len(a) : a[j] # StartMarker) => Parsed(a) = <<>> /\ Closed(a)
<1>1. ASSUME \A j \in 1 .. Len(a) : a[j] # EndMarker PROVE Parsed(a) = <<>>
  <2>1. \A j \in 1 .. Len(a) : Found(a, j) = <<>>
    BY <1>1 DEF Found
  <2> QED
    BY <2>1, ParsedType
<1>2. ASSUME \A j \in 1 .. Len(a) : a[j] # StartMarker PROVE Parsed(a) = <<>> /\ Closed(a)
  <2>1. ASSUME NEW j \in 1 .. Len(a) + 1 PROVE OpenBefore(a, j) = {}
    <3>1. \A i \in 1 .. j - 1 : i \in 1 .. Len(a)
      BY LenProperties
    <3> QED
      BY <1>2, <3>1 DEF OpenBefore
  <2>2. Closed(a)
    <3>1. Len(a) + 1 \in 1 .. Len(a) + 1
      BY LenProperties
    <3> QED
      BY <2>1, <3>1 DEF Closed
  <2>3. \A j \in 1 .. Len(a) : Found(a, j) = <<>>
    <3>1. \A j \in 1 .. Len(a) : j \in 1 .. Len(a) + 1
      BY LenProperties
    <3> QED
      BY <2>1, <3>1 DEF Found
  <2> QED
    BY <2>2, <2>3, ParsedType
<1> QED
  BY <1>1, <1>2

-----------------------------------------------------------------------------
(* What is kept of a stream.                                               *)

LEMMA KeptIs ==
  ASSUME NEW a \in Seq(Byte)
  PROVE  /\ Closed(a) => Kept(a) = <<>>
         /\ ~Closed(a) => LET i == From(a, Len(a) + 1) IN
              /\ i \in 1 .. Len(a) /\ Kept(a) = SubSeq(a, i, Len(a)) /\ Kept(a) \in Seq(Byte)
              /\ Len(Kept(a)) = Len(a) - i + 1 /\ Kept(a)[1] = StartMarker
              /\ \A k \in 2 .. Len(Kept(a)) : Kept(a)[k] \notin Ending
              /\ a = SubSeq(a, 1, i - 1) \o Kept(a) /\ SubSeq(a, 1, i - 1) \in Seq(Byte)
<1>1. Closed(a) => Kept(a) = <<>>
  BY DEF Closed, Kept
<1>2. CASE ~Closed(a)
  <2> DEFINE n == Len(a)
             i == From(a, n + 1)
             k == SubSeq(a, i, n)
  <2>1. n \in Nat /\ n + 1 \in Nat /\ OpenBefore(a, n + 1) # {}
    BY <1>2, LenProperties DEF Closed
  <2>2. /\ i \in 1 .. n /\ a[i] = StartMarker
        /\ \A m \in i + 1 .. n : a[m] \notin Ending
    <3>1. /\ i \in 1 .. (n + 1) - 1 /\ a[i] = StartMarker
          /\ \A m \in i + 1 .. (n + 1) - 1 : a[m] \notin Ending
      <4> HIDE DEF n
      <4> QED
        BY <2>1, OpenIs
    <3>2. (n + 1) - 1 = n
      BY <2>1
    <3> HIDE DEF n, i
    <3> QED
      BY <3>1, <3>2
  <2>3. Kept(a) = k
    BY <2>1 DEF Kept
  <2> HIDE DEF i, k
  <2>4. /\ k \in Seq(Byte) /\ Len(k) = n - i + 1
        /\ \A m \in 1 .. n - i + 1 : k[m] = a[i + m - 1]
    <3>1. i \in Nat /\ n \in Nat /\ 1 <= i /\ i <= n + 1 /\ n <= Len(a)
      BY <2>1, <2>2
    <3> QED
      BY <3>1, SubSeqIs DEF k
  <2>5. k[1] = StartMarker
    BY <2>1, <2>2, <2>4
  <2>6. ASSUME NEW m \in 2 .. Len(k) PROVE k[m] \notin Ending
    <3>1. i + m - 1 \in i + 1 .. n /\ m \in 1 .. n - i + 1
      BY <2>1, <2>2, <2>4
    <3> QED
      BY <2>2, <2>4, <3>1
  <2>7. a = SubSeq(a, 1, i - 1) \o k /\ SubSeq(a, 1, i - 1) \in Seq(Byte)
    <3>1. /\ 1 \in 1 .. Len(a) + 1 /\ i - 1 \in 1 - 1 .. Len(a) /\ Len(a) \in i - 1 .. Len(a)
          /\ (i - 1) + 1 = i
      BY <2>1, <2>2
    <3>2. SubSeq(a, 1, i - 1) \o SubSeq(a, (i - 1) + 1, Len(a)) = SubSeq(a, 1, Len(a))
      BY <3>1, ConcatAdjacentSubSeq
    <3>3. SubSeq(a, 1, Len(a)) = a
      BY SubSeqFull
    <3>4. SubSeq(a, 1, i - 1) \in Seq(Byte)
      <4>1. 1 \in Nat /\ i - 1 \in Nat /\ 1 <= 1 /\ 1 <= (i - 1) + 1 /\ i - 1 <= Len(a)
        BY <2>1, <2>2
      <4> QED
        BY <4>1, SubSeqIs
    <3> QED
      BY <3>1, <3>2, <3>3, <3>4 DEF k
  <2> QED
    BY <1>2, <2>2, <2>3, <2>4, <2>5, <2>6, <2>7 DEF i, k
<1> QED
  BY <1>1, <1>2

LEMMA KeptType ==
  ASSUME NEW a \in Seq(Byte)
  PROVE  /\ Kept(a) \in Seq(Byte) /\ Len(Kept(a)) \in Nat /\ Parsed(Kept(a)) = <<>>
         /\ Kept(a) # <<>> <=> ~Closed(a)
<1>1. CASE Closed(a)
  <2>1. Kept(a) = <<>> /\ <<>> \in Seq(Byte) /\ Len(<<>>) = 0
    BY <1>1, KeptIs
  <2>2. Parsed(<<>>) = <<>>
    BY FlattenEmpty DEF Parsed
  <2> QED
    BY <1>1, <2>1, <2>2
<1>2. CASE ~Closed(a)
  <2>1. /\ Kept(a) \in Seq(Byte) /\ Kept(a)[1] = StartMarker /\ Len(Kept(a)) # 0 /\ Len(Kept(a)) \in Nat
        /\ \A k \in 2 .. Len(Kept(a)) : Kept(a)[k] \notin Ending
    BY <1>2, KeptIs, LenProperties
  <2>2. \A j \in 1 .. Len(Kept(a)) : Kept(a)[j] # EndMarker
    <3>1. StartMarker # EndMarker
      BY DEF StartMarker, EndMarker
    <3>2. \A j \in 1 .. Len(Kept(a)) : j = 1 \/ j \in 2 .. Len(Kept(a))
      BY <2>1
    <3> QED
      BY <2>1, <3>1, <3>2 DEF Ending
  <2>3. Parsed(Kept(a)) = <<>>
    BY <2>1, <2>2, NoMarkerParsed
  <2> QED
    BY <1>2, <2>1, <2>3
<1> QED
  BY <1>1, <1>2

LEMMA KeptConcat ==
  ASSUME NEW a \in Seq(Byte), NEW b \in Seq(Byte)
  PROVE  Kept(a \o b) = IF Marked(b, Len(b) + 1) THEN Kept(b)
                        ELSE IF Closed(a) THEN <<>> ELSE Kept(a) \o b
<1> DEFINE n == Len(a)
           m == Len(b)
           c == a \o b
<1>1. /\ c \in Seq(Byte) /\ Len(c) = n + m /\ n \in Nat /\ m \in Nat
      /\ m + 1 \in 1 .. m + 1 /\ n + (m + 1) = (n + m) + 1 /\ n + (m + 1) \in Nat
  BY ConcatIs
<1>2. /\ Marked(b, m + 1) => OpenBefore(c, n + (m + 1)) = {n + i : i \in OpenBefore(b, m + 1)}
      /\ ~Marked(b, m + 1) => OpenBefore(c, n + (m + 1)) = OpenBefore(a, n + 1)
  BY <1>1, OpenConcat
<1>3. Kept(c) = IF OpenBefore(c, n + (m + 1)) = {} THEN <<>> ELSE SubSeq(c, From(c, n + (m + 1)), n + m)
  <2> HIDE DEF n, m, c
  <2> QED
    BY <1>1 DEF Kept
<1>4. Kept(b) = IF OpenBefore(b, m + 1) = {} THEN <<>> ELSE SubSeq(b, From(b, m + 1), m)
  BY DEF Kept
<1> HIDE DEF c, n, m
<1>5. CASE Marked(b, m + 1)
  <2>1. CASE OpenBefore(b, m + 1) = {}
    <3>1. OpenBefore(c, n + (m + 1)) = {}
      BY <1>2, <1>5, <2>1
    <3> QED
      BY <1>3, <1>4, <1>5, <2>1, <3>1 DEF c, m
  <2>2. CASE OpenBefore(b, m + 1) # {}
    <3> DEFINE i == From(b, m + 1)
    <3>1. i \in OpenBefore(b, m + 1)
      BY <2>2 DEF From
    <3>2. i \in 1 .. (m + 1) - 1
      BY <1>1, <2>2, OpenIs
    <3>3. i \in 1 .. m
      BY <1>1, <3>2
    <3> HIDE DEF i
    <3>4. n + i \in OpenBefore(c, n + (m + 1))
      BY <1>2, <1>5, <3>1
    <3>5. From(c, n + (m + 1)) = n + i
      BY <1>1, <3>4, OpenIs
    <3>6. SubSeq(c, n + i, n + m) = SubSeq(b, i, m)
      <4> DEFINE x == n + i
                 y == n + m
      <4>1. /\ x \in Len(a) + 1 .. Len(a) + Len(b) /\ y \in Len(a) + 1 .. Len(a) + Len(b)
            /\ x - Len(a) = i /\ y - Len(a) = m
        BY <1>1, <3>3 DEF n, m
      <4> HIDE DEF x, y
      <4>2. SubSeq(a \o b, x, y) = SubSeq(b, x - Len(a), y - Len(a))
        BY <4>1, SubSeqOfConcat2
      <4> QED
        BY <4>1, <4>2 DEF c, x, y
    <3> QED
      BY <1>3, <1>4, <1>5, <2>2, <3>4, <3>5, <3>6 DEF c, m, i
  <2> QED
    BY <2>1, <2>2
<1>6. CASE ~Marked(b, m + 1) /\ Closed(a)
  <2>1. OpenBefore(c, n + (m + 1)) = {}
    BY <1>2, <1>6 DEF Closed, n
  <2> QED
    BY <1>3, <1>6, <2>1 DEF c, m
<1>7. CASE ~Marked(b, m + 1) /\ ~Closed(a)
  <2> DEFINE i == From(a, n + 1)
             p == SubSeq(a, 1, i - 1)
             k == Kept(a)
  <2>1. i \in 1 .. n /\ k \in Seq(Byte) /\ Len(k) = n - i + 1 /\ a = p \o k /\ p \in Seq(Byte)
    BY <1>7, KeptIs DEF n
  <2>2. OpenBefore(c, n + (m + 1)) # {} /\ From(c, n + (m + 1)) = i
    BY <1>2, <1>7 DEF Closed, From, n
  <2> HIDE DEF k
  <2>3. Len(p) = i - 1
    <3> DEFINE e == i - 1
    <3>1. 1 \in Nat /\ e \in Nat /\ 1 <= 1 /\ 1 <= e + 1 /\ e <= Len(a) /\ e - 1 + 1 = e
      BY <1>1, <2>1 DEF n
    <3> HIDE DEF i, e
    <3>2. Len(SubSeq(a, 1, e)) = e - 1 + 1
      BY <3>1, SubSeqIs
    <3> QED
      BY <3>1, <3>2 DEF e
  <2> HIDE DEF p, i
  <2>4. c = p \o (k \o b) /\ k \o b \in Seq(Byte) /\ Len(k \o b) = (n - i + 1) + m
    <3>1. c = (p \o k) \o b
      BY <2>1 DEF c
    <3>2. (p \o k) \o b = p \o (k \o b)
      BY <2>1, ConcatAssociative, SMTT(30)
    <3> QED
      BY <2>1, <3>1, <3>2, ConcatIs DEF m
  <2>5. SubSeq(c, i, n + m) = k \o b
    <3> DEFINE d == k \o b
               x == i
               y == n + m
    <3>1. /\ x \in Len(p) + 1 .. Len(p) + Len(d) /\ y \in Len(p) + 1 .. Len(p) + Len(d)
          /\ x - Len(p) = 1 /\ y - Len(p) = Len(d) /\ d \in Seq(Byte)
      BY <1>1, <2>1, <2>3, <2>4
    <3> HIDE DEF d, x, y
    <3>2. SubSeq(p \o d, x, y) = SubSeq(d, x - Len(p), y - Len(p))
      BY <2>1, <3>1, SubSeqOfConcat2
    <3>3. SubSeq(d, 1, Len(d)) = d
      BY <3>1, SubSeqFull
    <3> QED
      BY <2>4, <3>1, <3>2, <3>3 DEF d, x, y
  <2> QED
    BY <1>3, <1>7, <2>2, <2>5 DEF c, m, k
<1> QED
  BY <1>5, <1>6, <1>7 DEF m

LEMMA KeptKept ==
  ASSUME NEW a \in Seq(Byte), ~Closed(a)
  PROVE  ~Closed(Kept(a)) /\ Kept(Kept(a)) = Kept(a)
<1> DEFINE k == Kept(a)
           n == Len(k)
<1>1. /\ k \in Seq(Byte) /\ n \in Nat /\ n # 0 /\ k[1] = StartMarker
      /\ \A i \in 2 .. n : k[i] \notin Ending
  BY KeptIs, LenProperties
<1> HIDE DEF k, n
<1>2. 1 \in OpenBefore(k, n + 1)
  <2>1. 1 \in 1 .. (n + 1) - 1 /\ \A i \in 1 + 1 .. (n + 1) - 1 : i \in 2 .. n
    BY <1>1
  <2> QED
    BY <1>1, <2>1, InOpen
<1>3. From(k, n + 1) = 1
  <2>1. n + 1 \in Nat
    BY <1>1
  <2> QED
    BY <1>1, <1>2, <2>1, OpenIs
<1>4. Kept(k) = SubSeq(k, 1, n)
  BY <1>2, <1>3 DEF Kept, n
<1>5. SubSeq(k, 1, n) = k
  BY <1>1, SubSeqFull DEF n
<1> QED
  BY <1>2, <1>4, <1>5 DEF k, n, Closed

\* _parseStream() may be given the bytes in any pieces: the frames in a stream are those
\* in its first part and then those in what was kept of it followed by the rest, and
\* what is kept in the end is the same too.
THEOREM CutAnywhere ==
  ASSUME NEW a \in Seq(Byte), NEW b \in Seq(Byte)
  PROVE  /\ Parsed(a \o b) = Parsed(a) \o Parsed(Kept(a) \o b)
         /\ Kept(a \o b) = Kept(Kept(a) \o b)
<1>1. CASE Closed(a)
  <2>1. Kept(a) = <<>> /\ <<>> \o b = b
    BY <1>1, KeptIs, ConcatEmptySeq
  <2>2. Parsed(a \o b) = Parsed(a) \o Parsed(b)
    BY <1>1, ParsedSplits DEF Splits
  <2>3. Kept(a \o b) = Kept(b)
    <3>1. Marked(b, Len(b) + 1) => Kept(a \o b) = Kept(b)
      BY KeptConcat
    <3>2. ~Marked(b, Len(b) + 1) => Kept(a \o b) = <<>> /\ Kept(b) = <<>>
      <4>1. Len(b) + 1 \in 1 .. Len(b) + 1
        BY LenProperties
      <4>2. ~Marked(b, Len(b) + 1) => OpenBefore(b, Len(b) + 1) = {}
        BY <4>1, OpenConcat
      <4> QED
        BY <1>1, <4>2, KeptConcat DEF Kept
    <3> QED
      BY <3>1, <3>2
  <2> QED
    BY <2>1, <2>2, <2>3
<1>2. CASE ~Closed(a)
  <2> DEFINE k == Kept(a)
             p == SubSeq(a, 1, From(a, Len(a) + 1) - 1)
  <2>1. /\ k \in Seq(Byte) /\ p \in Seq(Byte) /\ a = p \o k
        /\ k[1] = StartMarker /\ Len(k) # 0 /\ Len(k) \in Nat /\ Parsed(k) = <<>>
    <3>1. Len(k) # 0
      BY <1>2, KeptIs, LenProperties
    <3> QED
      BY <1>2, <3>1, KeptIs, KeptType
  <2> HIDE DEF k, p
  <2>2. /\ k \o b \in Seq(Byte) /\ k \o b # <<>> /\ (k \o b)[1] = StartMarker /\ k # <<>>
    <3>1. Len(k \o b) # 0 /\ k \o b \in Seq(Byte) /\ (k \o b)[1] = k[1]
      BY <2>1, ConcatIs
    <3> QED
      BY <2>1, <3>1
  <2>3. a \o b = p \o (k \o b)
    BY <2>1, ConcatAssociative
  <2>4. Parsed(p \o (k \o b)) = Parsed(p) \o Parsed(k \o b)
    BY <2>1, <2>2, ParsedSplits DEF Splits
  <2>5. Parsed(a) = Parsed(p)
    <3>1. Parsed(p \o k) = Parsed(p) \o Parsed(k)
      BY <2>1, <2>2, ParsedSplits DEF Splits
    <3>2. Parsed(p) \o <<>> = Parsed(p)
      BY <2>1, ParsedType, ConcatEmptySeq
    <3> QED
      BY <2>1, <3>1, <3>2
  <2>6. Kept(a \o b) = Kept(k \o b)
    <3>1. Kept(k) = k /\ ~Closed(k)
      BY <1>2, KeptKept DEF k
    <3>2. Kept(a \o b) = IF Marked(b, Len(b) + 1) THEN Kept(b) ELSE k \o b
      BY <1>2, KeptConcat DEF k
    <3>3. Kept(k \o b) = IF Marked(b, Len(b) + 1) THEN Kept(b) ELSE k \o b
      BY <2>1, <3>1, KeptConcat
    <3> QED
      BY <3>2, <3>3
  <2> QED
    BY <2>3, <2>4, <2>5, <2>6 DEF k
<1> QED
  BY <1>1, <1>2

\* What is left of a frame that is too long yields nothing more, and hides nothing.
\* When a frame is open for longer than a frame may be, nothing comes of it.
LEMMA OverlongIsLost ==
  ASSUME NEW a \in Seq(Byte), NEW b \in Seq(Byte), Len(Kept(a)) > MaxFrameSize, Bounded(a \o b)
  PROVE  Parsed(a \o b) = Parsed(a) \o Parsed(b)
<1> DEFINE n == Len(a)
           c == a \o b
<1>1. MaxFrameSize \in Nat
  BY CodecAssumption, SMT
<1>2. ~Closed(a)
  <2>1. Closed(a) => Len(Kept(a)) = 0
    BY KeptIs
  <2> QED
    BY <1>1, <2>1
<1>3. /\ From(a, n + 1) \in 1 .. n /\ Len(Kept(a)) = n - From(a, n + 1) + 1 /\ n \in Nat
  BY <1>2, KeptIs, LenProperties
<1>4. ASSUME NEW j \in 1 .. Len(b) PROVE Found(c, n + j) = Found(b, j)
  <2>1. CASE Marked(b, j)
    BY <2>1, FoundSuffix
  <2>2. CASE ~Marked(b, j)
    <3>1. j \in 1 .. Len(b) + 1 /\ j \in Nat
      BY LenProperties
    <3>2. OpenBefore(b, j) = {} /\ OpenBefore(c, n + j) = OpenBefore(a, n + 1)
      BY <2>2, <3>1, OpenConcat
    <3> DEFINE k == n + j
    <3>3. Found(b, j) = <<>> /\ From(c, k) = From(a, n + 1)
      BY <3>2 DEF Found, From
    <3>4. k \in 1 .. Len(c)
      BY ConcatIs
    <3>5. k = n + j
      OBVIOUS
    <3> HIDE DEF n, c, k
    <3>6. k - From(c, k) >= MaxFrameSize
      BY <1>1, <1>3, <3>1, <3>3, <3>5
    <3>7. Found(c, k) = <<>>
      <4>1. \A i \in 1 .. Len(c) : Found(c, i) # <<>> => i - From(c, i) < MaxFrameSize
        BY DEF Bounded, c
      <4>2. Found(c, k) # <<>> => k - From(c, k) < MaxFrameSize
        BY <3>4, <4>1
      <4>3. From(c, k) \in Int /\ k \in Int
        BY <1>3, <3>1, <3>3, <3>5
      <4> QED
        BY <1>1, <3>6, <4>2, <4>3
    <3> QED
      BY <3>3, <3>5, <3>7
  <2> QED
    BY <2>1, <2>2
<1> QED
  BY <1>4, ParsedConcat

-----------------------------------------------------------------------------
(* A frame among other bytes.                                              *)

LEMMA WireIs ==
  ASSUME NEW frame \in Frame
  PROVE  LET w == Wire(frame) IN
         /\ w \in Seq(Byte) /\ Len(w) \in Nat /\ Len(w) >= 2 /\ w[1] = StartMarker
         /\ w[Len(w)] = EndMarker
         /\ \A i \in 2 .. Len(w) - 1 : w[i] \notin Ending
<1> DEFINE data == Append(Body(frame), Checksum(Body(frame)))
           e == Escape(data)
           w == Wire(frame)
<1>1. data \in Seq(Byte)
  <2>1. Body(frame) \in Seq(Byte)
    BY BodyIs
  <2>2. Checksum(Body(frame)) \in Byte
    BY <2>1, ChecksumIs
  <2> QED
    BY <2>1, <2>2
<1>2. w = <<StartMarker>> \o e \o <<EndMarker>>
  BY DEF Wire
<1> HIDE DEF data, w
<1>3. e \in Seq(Byte) /\ NoEnds(e)
  BY <1>1, UnescapeEscape
<1> HIDE DEF e
<1>4. StartMarker \in Byte /\ EndMarker \in Byte
  BY ByteIs
<1>5. /\ w \in Seq(Byte) /\ Len(w) = Len(e) + 2 /\ Len(e) \in Nat /\ w[1] = StartMarker
      /\ w[Len(w)] = EndMarker
      /\ \A i \in 2 .. Len(w) - 1 : w[i] = e[i - 1]
  BY <1>2, <1>3, <1>4, Between
<1>6. ASSUME NEW i \in 2 .. Len(w) - 1 PROVE w[i] \notin Ending
  <2>1. i - 1 \in 1 .. Len(e)
    BY <1>5
  <2> QED
    BY <1>3, <1>5, <2>1 DEF NoEnds, Ending
<1>7. Len(w) \in Nat /\ Len(w) >= 2
  BY <1>5
<1> QED
  BY <1>5, <1>6, <1>7 DEF w

LEMMA WireParsed ==
  ASSUME NEW frame \in Frame, Encode(frame) # <<>>
  PROVE  /\ Parsed(Wire(frame)) = <<frame>> /\ Closed(Wire(frame)) /\ Bounded(Wire(frame))
         /\ frame \in Result
<1> DEFINE w == Wire(frame)
           n == Len(w)
<1>1. /\ w \in Seq(Byte) /\ n \in Nat /\ n >= 2 /\ w[1] = StartMarker /\ w[n] = EndMarker
      /\ \A i \in 2 .. n - 1 : w[i] \notin Ending
  BY WireIs
<1>2. Decode(w) = <<frame>>
  BY DecodeInvertsEncode
<1>3. n <= MaxFrameSize /\ MaxFrameSize \in Nat
  <2>1. MaxFrameSize \in Nat
    BY CodecAssumption, SMT
  <2>2. ~(n > MaxFrameSize)
    BY DEF Encode
  <2> QED
    BY <1>1, <2>1, <2>2
<1> HIDE DEF w, n
<1>4. StartMarker # EndMarker
  BY DEF StartMarker, EndMarker
<1>5. \A j \in 1 .. n - 1 : Found(w, j) = <<>>
  <2>1. \A j \in 1 .. n - 1 : w[j] # EndMarker
    <3>1. \A j \in 1 .. n - 1 : j = 1 \/ j \in 2 .. n - 1
      BY <1>1
    <3> QED
      BY <1>1, <1>4, <3>1 DEF Ending
  <2> QED
    BY <2>1 DEF Found
<1>6. Found(w, n) = <<frame>> /\ From(w, n) = 1
  <2>1. 1 \in OpenBefore(w, n)
    <3>1. 1 \in 1 .. n - 1 /\ \A k \in 1 + 1 .. n - 1 : k \in 2 .. n - 1
      BY <1>1
    <3> QED
      BY <1>1, <3>1, InOpen
  <2>2. From(w, n) = 1
    BY <1>1, <2>1, OpenIs
  <2>3. SubSeq(w, 1, n) = w
    BY <1>1, SubSeqFull DEF n
  <2> QED
    BY <1>1, <1>2, <2>1, <2>2, <2>3 DEF Found
<1>7. Bounded(w)
  <2>1. ASSUME NEW j \in 1 .. n, Found(w, j) # <<>> PROVE j - From(w, j) < MaxFrameSize
    <3>1. j = n
      <4>1. j \in 1 .. n - 1 \/ j = n
        BY <1>1
      <4> QED
        BY <1>5, <2>1, <4>1
    <3> QED
      BY <1>1, <1>3, <1>6, <3>1
  <2> QED
    BY <2>1 DEF Bounded, n
<1>8. Closed(w)
  <2>1. ASSUME NEW i \in OpenBefore(w, n + 1) PROVE FALSE
    <3>1. /\ i \in 1 .. (n + 1) - 1 /\ w[i] = StartMarker
          /\ \A k \in i + 1 .. (n + 1) - 1 : w[k] \notin Ending
      BY InOpen
    <3>2. i # n
      BY <1>1, <1>4, <3>1
    <3>3. n \in i + 1 .. (n + 1) - 1
      BY <1>1, <3>1, <3>2
    <3> QED
      BY <1>1, <3>1, <3>3 DEF Ending
  <2> QED
    BY <2>1 DEF Closed, n
<1>9. <<frame>> \in Seq(Result)
  <2>1. n \in 1 .. Len(w)
    BY <1>1 DEF n
  <2> QED
    BY <1>1, <1>6, <2>1, FoundType
<1>10. Parsed(w) = <<frame>>
  <2> DEFINE m == [j \in DOMAIN w |-> Found(w, j)]
             r == n - 1
             none == [j \in 1 .. r |-> <<>>]
             all == Append(none, <<frame>>)
  <2>1. m \in Seq(Seq(Result)) /\ Len(m) = n /\ \A j \in 1 .. n : m[j] = Found(w, j)
    BY <1>1, FoundParts DEF n
  <2>2. r \in Nat /\ n = r + 1
    BY <1>1
  <2> HIDE DEF m, r
  <2>3. /\ none \in Seq(Seq(Result)) /\ Len(none) = r /\ \A j \in 1 .. r : none[j] = <<>>
    BY <2>2
  <2> HIDE DEF none
  <2>4. /\ all \in Seq(Seq(Result)) /\ Len(all) = r + 1 /\ all[r + 1] = <<frame>>
        /\ \A j \in 1 .. r : all[j] = <<>>
    BY <1>9, <2>3, AppendProperties
  <2>5. FlattenSeq(all) = FlattenSeq(none) \o <<frame>>
    BY <1>9, <2>3, FlattenAppend
  <2>6. FlattenSeq(none) = <<>>
    BY <2>3, FlattenNothing
  <2>7. <<>> \o <<frame>> = <<frame>>
    BY <1>9, ConcatEmptySeq
  <2> HIDE DEF all
  <2>8. m = all
    <3>1. ASSUME NEW j \in 1 .. n PROVE m[j] = all[j]
      <4>1. CASE j = n
        BY <1>6, <2>1, <2>2, <2>4, <4>1
      <4>2. CASE j # n
        <5>1. j \in 1 .. n - 1 /\ j \in 1 .. r
          BY <1>1, <2>2, <4>2
        <5> QED
          BY <1>5, <2>1, <2>4, <5>1
      <4> QED
        BY <4>1, <4>2
    <3> QED
      BY <2>1, <2>2, <2>4, <3>1, SeqEqual
  <2> QED
    BY <2>5, <2>6, <2>7, <2>8 DEF Parsed, m
<1>11. frame \in Result
  <2>1. <<frame>>[1] \in Result
    BY <1>9
  <2> QED
    BY <2>1
<1> QED
  BY <1>7, <1>8, <1>10, <1>11 DEF w

\* Whatever bytes come before it (noise, half a frame, a damaged one), an encoded frame
\* is found in the stream, as it is, and costs no frame before or after it: _parseStream()
\* starts over at its start marker and is done at its end marker.
THEOREM Resynchronises ==
  ASSUME NEW a \in Seq(Byte), NEW b \in Seq(Byte), NEW frame \in Frame, Encode(frame) # <<>>
  PROVE  Parsed(a \o (Wire(frame) \o b)) = Parsed(a) \o (<<frame>> \o Parsed(b))
<1> DEFINE w == Wire(frame)
<1>1. /\ w \in Seq(Byte) /\ Len(w) >= 2 /\ Len(w) \in Nat /\ w[1] = StartMarker
      /\ Parsed(w) = <<frame>> /\ Closed(w)
  BY WireIs, WireParsed
<1> HIDE DEF w
<1>2. w \o b \in Seq(Byte) /\ w \o b # <<>> /\ (w \o b)[1] = StartMarker
  <2>1. Len(w \o b) # 0 /\ w \o b \in Seq(Byte) /\ (w \o b)[1] = w[1]
    BY <1>1, ConcatIs
  <2> QED
    BY <1>1, <2>1
<1>3. Parsed(a \o (w \o b)) = Parsed(a) \o Parsed(w \o b)
  BY <1>2, ParsedSplits DEF Splits
<1>4. Parsed(w \o b) = Parsed(w) \o Parsed(b)
  BY <1>1, ParsedSplits DEF Splits
<1> QED
  BY <1>1, <1>3, <1>4 DEF w

\* What the session has in its buffer after the bytes a: what is kept of them, and
\* when that is too long, something in which no frame begins.
Holds(a, buffer) == IF Len(Kept(a)) <= 2 * MaxFrameSize THEN buffer = Kept(a)
                    ELSE \A i \in 1 .. Len(buffer) : buffer[i] # StartMarker

LEMMA RestHolds ==
  ASSUME NEW a \in Seq(Byte), NEW d \in Seq(Byte),
         Kept(d) = Kept(a) \/ (Kept(d) = <<>> /\ Len(Kept(a)) > 2 * MaxFrameSize)
  PROVE  Rest(d) \in Seq(Byte) /\ Holds(a, Rest(d))
<1> DEFINE k == Kept(d)
<1>1. MaxFrameSize \in Nat
  BY CodecAssumption, SMT
<1>2. k \in Seq(Byte) /\ Len(k) \in Nat /\ Len(Kept(a)) \in Nat
  BY KeptType
<1>3. Rest(d) = IF Len(k) > 2 * MaxFrameSize THEN Tail(k) ELSE k
  BY DEF Rest
<1>4. CASE Len(k) > 2 * MaxFrameSize
  <2>1. ~Closed(d) /\ k # <<>> /\ k = Kept(a)
    <3>1. k # <<>>
      BY <1>1, <1>4
    <3> QED
      BY <3>1, KeptType
  <2>2. \A i \in 2 .. Len(k) : k[i] \notin Ending
    BY <2>1, KeptIs
  <2> HIDE DEF k
  <2>3. /\ Tail(k) \in Seq(Byte) /\ Len(Tail(k)) = Len(k) - 1
        /\ \A i \in 1 .. Len(Tail(k)) : Tail(k)[i] = k[i + 1]
    BY <1>2, <2>1, HeadTailProperties
  <2>4. \A i \in 1 .. Len(Tail(k)) : Tail(k)[i] # StartMarker
    <3>1. \A i \in 1 .. Len(Tail(k)) : i + 1 \in 2 .. Len(k)
      BY <1>2, <2>3
    <3> QED
      BY <2>2, <2>3, <3>1 DEF Ending
  <2>5. ~(Len(Kept(a)) <= 2 * MaxFrameSize)
    BY <1>1, <1>2, <1>4, <2>1
  <2> QED
    BY <1>3, <1>4, <2>3, <2>4, <2>5 DEF Holds
<1>5. CASE ~(Len(k) > 2 * MaxFrameSize)
  <2>1. Rest(d) = k
    BY <1>3, <1>5
  <2>2. CASE k = Kept(a)
    <3>1. Len(Kept(a)) <= 2 * MaxFrameSize
      BY <1>1, <1>2, <1>5, <2>2
    <3> QED
      BY <1>2, <2>1, <2>2, <3>1 DEF Holds
  <2>3. CASE k = <<>> /\ Len(Kept(a)) > 2 * MaxFrameSize
    <3>1. ~(Len(Kept(a)) <= 2 * MaxFrameSize)
      BY <1>1, <1>2, <2>3
    <3> QED
      BY <1>2, <2>1, <2>3, <3>1 DEF Holds
  <2> QED
    BY <2>2, <2>3
<1> QED
  BY <1>4, <1>5

\* One call of _parseStream(), with the buffer's limit (it drops the start marker of what
\* grows past two frames): in a stream whose frames are no longer than MAX_FRAME_SIZE the
\* call finds exactly the frames that end in the new bytes, and leaves the buffer so that
\* the next call does, too.
THEOREM ReadsGoOn ==
  ASSUME NEW a \in Seq(Byte), NEW b \in Seq(Byte), NEW buffer \in Seq(Byte),
         Bounded(a \o b), Holds(a, buffer)
  PROVE  /\ Parsed(a \o b) = Parsed(a) \o Parsed(buffer \o b)
         /\ Rest(buffer \o b) \in Seq(Byte) /\ Holds(a \o b, Rest(buffer \o b))
<1>1. MaxFrameSize \in Nat
  BY CodecAssumption, SMT
<1>2. a \o b \in Seq(Byte) /\ buffer \o b \in Seq(Byte)
  OBVIOUS
<1>3. CASE Len(Kept(a)) <= 2 * MaxFrameSize
  <2>1. buffer = Kept(a)
    BY <1>3 DEF Holds
  <2>2. Parsed(a \o b) = Parsed(a) \o Parsed(buffer \o b) /\ Kept(buffer \o b) = Kept(a \o b)
    BY <2>1, CutAnywhere
  <2> QED
    BY <1>2, <2>2, RestHolds
<1>4. CASE ~(Len(Kept(a)) <= 2 * MaxFrameSize)
  <2>1. Len(Kept(a)) \in Nat /\ Len(Kept(a)) > MaxFrameSize /\ ~Closed(a)
    <3>1. Len(Kept(a)) \in Nat
      BY KeptType
    <3>2. Len(Kept(a)) > MaxFrameSize
      BY <1>1, <1>4, <3>1
    <3>3. Closed(a) => Len(Kept(a)) = 0
      BY KeptIs
    <3> QED
      BY <1>1, <3>1, <3>2, <3>3
  <2>2. \A i \in 1 .. Len(buffer) : buffer[i] # StartMarker
    BY <1>4 DEF Holds
  <2>3. Parsed(buffer) = <<>> /\ Closed(buffer)
    BY <2>2, NoMarkerParsed
  <2>4. Parsed(a \o b) = Parsed(a) \o Parsed(buffer \o b)
    <3>1. Parsed(a \o b) = Parsed(a) \o Parsed(b)
      BY <2>1, OverlongIsLost
    <3>2. Parsed(buffer \o b) = Parsed(buffer) \o Parsed(b)
      BY <2>3, ParsedSplits DEF Splits
    <3>3. <<>> \o Parsed(b) = Parsed(b)
      BY ParsedType, ConcatEmptySeq
    <3> QED
      BY <2>3, <3>1, <3>2, <3>3
  <2>5. CASE Marked(b, Len(b) + 1)
    <3>1. Kept(buffer \o b) = Kept(a \o b)
      BY <2>5, KeptConcat
    <3> QED
      BY <1>2, <2>4, <3>1, RestHolds
  <2>6. CASE ~Marked(b, Len(b) + 1)
    <3>1. Kept(buffer \o b) = <<>> /\ Kept(a \o b) = Kept(a) \o b
      BY <2>1, <2>3, <2>6, KeptConcat
    <3>2. Len(Kept(a) \o b) > 2 * MaxFrameSize
      <4>1. Kept(a) \in Seq(Byte)
        BY KeptType
      <4>2. Len(Kept(a) \o b) = Len(Kept(a)) + Len(b) /\ Len(b) \in Nat
        BY <4>1, ConcatIs
      <4> QED
        BY <1>1, <1>4, <2>1, <4>2
    <3> QED
      BY <1>2, <2>4, <3>1, <3>2, RestHolds
  <2> QED
    BY <2>5, <2>6
<1> QED
  BY <1>3, <1>4

=============================================================================
