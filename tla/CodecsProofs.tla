----------------------------- MODULE CodecsProofs -----------------------------
(***************************************************************************)
(* The round trip of values, for any finite set of objects and any         *)
(* contents of them: numbers and texts first, then each parser against the *)
(* serializer it undoes, the parser of arrays round by round, what objects *)
(* denote, what serialize() promises whatever its cache holds, what        *)
(* PostgreSQL writes, and what a change to an object leaves as it was.     *)
(***************************************************************************)
EXTENDS Codecs, FiniteSetTheorems, SequenceTheorems, WellFoundedInduction, TLAPS

-----------------------------------------------------------------------------
(* Numbers.                                                                *)

\* What follows for a number from the smaller ones holds for every number.
LEMMA Strong ==
    ASSUME NEW N \in Nat, NEW T,
           \A n \in 0 .. N : (\A m \in 0 .. N : m < n => m \in T) => n \in T
    PROVE  \A n \in 0 .. N : n \in T
<1> DEFINE U == {n \in 0 .. N : n \notin T}
<1> SUFFICES ASSUME U # {}
             PROVE FALSE
  OBVIOUS
<1>1. IsWellFoundedOn(OpToRel(<, Nat), Nat)
  BY NatLessThanWellFounded
<1>2. U \in SUBSET Nat
  OBVIOUS
<1>3. PICK n \in U : \A m \in U : ~ (<<m, n>> \in OpToRel(<, Nat))
  <2> HIDE DEF U
  <2> QED BY <1>1, <1>2, WFMin
<1>4. \A m \in U : ~ (m < n)
  BY <1>2, <1>3 DEF OpToRel
<1>5. \A m \in 0 .. N : m < n => m \in T
  BY <1>4
<1> QED BY <1>3, <1>5

\* Induction upwards from 0, over a set of numbers.
LEMMA Upward ==
    ASSUME NEW N \in Nat, NEW T, 0 \in T, \A n \in 0 .. N : n \in T /\ n < N => n + 1 \in T
    PROVE  \A n \in 0 .. N : n \in T
<1>1. ASSUME NEW n \in 0 .. N, \A m \in 0 .. N : m < n => m \in T
      PROVE  n \in T
  <2>1. CASE n = 0
    BY <2>1
  <2>2. CASE n # 0
    <3>1. n - 1 \in 0 .. N /\ n - 1 < n /\ n - 1 < N /\ (n - 1) + 1 = n
      BY <2>2
    <3> QED BY <3>1, <1>1
  <2> QED BY <2>1, <2>2
<1> QED BY <1>1, Strong

\* g starts from base and goes on with step.
Recurs(g, N, V, base, step) ==
    g \in [0 .. N -> V] /\ g[0] = base /\ \A n \in 1 .. N : g[n] = step[n][g[n - 1]]

\* What a recursive function over 0 .. N is, and that there is one.
LEMMA Recursion ==
    ASSUME NEW N \in Nat, NEW V, NEW base \in V, NEW step \in [1 .. N -> [V -> V]]
    PROVE  \E g : Recurs(g, N, V, base, step)
<1> DEFINE T == {m \in 0 .. N : \E g \in [0 .. m -> V] :
                    /\ g[0] = base
                    /\ \A n \in 1 .. m : g[n] = step[n][g[n - 1]]}
<1>1. 0 \in T
  <2> DEFINE g == [n \in 0 .. 0 |-> base]
  <2>1. g \in [0 .. 0 -> V] /\ g[0] = base /\ \A n \in 1 .. 0 : g[n] = step[n][g[n - 1]]
    OBVIOUS
  <2>2. 0 \in 0 .. N
    OBVIOUS
  <2> HIDE DEF g
  <2> QED BY <2>1, <2>2
<1>2. ASSUME NEW m \in 0 .. N, m \in T, m < N PROVE m + 1 \in T
  <2>2. PICK h \in [0 .. m -> V] :
           h[0] = base /\ \A n \in 1 .. m : h[n] = step[n][h[n - 1]]
    BY <1>2
  <2> DEFINE g == [n \in 0 .. (m + 1) |->
                     IF n = m + 1 THEN step[m + 1][h[m]] ELSE h[n]]
  <2>3. step[m + 1][h[m]] \in V
    <3>1. m + 1 \in 1 .. N /\ m \in 0 .. m
      BY <1>2
    <3> QED BY <3>1
  <2>4. g \in [0 .. (m + 1) -> V]
    BY <2>2, <2>3
  <2>5. g[0] = base
    BY <2>2
  <2>6. ASSUME NEW n \in 1 .. (m + 1) PROVE g[n] = step[n][g[n - 1]]
    <3>1. n - 1 \in 0 .. m /\ n \in 0 .. (m + 1) /\ n - 1 \in 0 .. (m + 1)
          /\ n - 1 # m + 1
      OBVIOUS
    <3>2. g[n - 1] = h[n - 1]
      BY <3>1
    <3>3. CASE n = m + 1
      BY <3>1, <3>2, <3>3
    <3>4. CASE n # m + 1
      <4>1. n \in 1 .. m
        BY <3>4
      <4> QED BY <3>1, <3>2, <3>4, <4>1, <2>2
    <3> QED BY <3>3, <3>4
  <2> HIDE DEF g
  <2>7. m + 1 \in 0 .. N
    BY <1>2
  <2> QED BY <2>4, <2>5, <2>6, <2>7
<1>3. N \in T
  <2>1. N \in 0 .. N
    OBVIOUS
  <2> HIDE DEF T
  <2> QED BY <1>1, <1>2, <2>1, Upward
<1> QED BY <1>3 DEF Recurs

-----------------------------------------------------------------------------
(* Texts in texts.                                                         *)

\* In the source, t stands after the first o characters.
Stands(source, o, t) ==
    /\ o + Len(t) <= Len(source)
    /\ \A i \in 1 .. Len(t) : source[o + i] = t[i]

LEMMA StandsWhole ==
    ASSUME NEW S, NEW s \in Seq(S)
    PROVE  Stands(s, 0, s) /\ Len(s) \in Nat
<1>1. Len(s) \in Nat
  BY LenProperties
<1> QED BY <1>1 DEF Stands

\* The elements of two sequences in one.
LEMMA Joined ==
    ASSUME NEW S, NEW s \in Seq(S), NEW t \in Seq(S)
    PROVE  /\ s \o t \in Seq(S) /\ Len(s) \in Nat /\ Len(t) \in Nat
           /\ Len(s \o t) = Len(s) + Len(t)
           /\ \A i \in 1 .. Len(s) : (s \o t)[i] = s[i]
           /\ \A i \in 1 .. Len(t) : (s \o t)[Len(s) + i] = t[i]
<1>1. Len(s) \in Nat /\ Len(t) \in Nat
  BY LenProperties
<1>2. /\ s \o t \in Seq(S) /\ Len(s \o t) = Len(s) + Len(t)
      /\ \A i \in 1 .. Len(s) + Len(t) :
            (s \o t)[i] = IF i <= Len(s) THEN s[i] ELSE t[i - Len(s)]
  BY ConcatProperties
<1>3. \A i \in 1 .. Len(s) : (s \o t)[i] = s[i]
  BY <1>1, <1>2
<1>4. ASSUME NEW m \in 1 .. Len(t) PROVE (s \o t)[Len(s) + m] = t[m]
  <2>1. /\ Len(s) + m \in 1 .. Len(s) + Len(t) /\ ~ (Len(s) + m <= Len(s))
        /\ (Len(s) + m) - Len(s) = m
    BY <1>1
  <2> QED BY <2>1, <1>2
<1> QED BY <1>1, <1>2, <1>3, <1>4

\* A sequence stands where its two parts do.
LEMMA StandsJoined ==
    ASSUME NEW S, NEW s \in Seq(S), NEW t \in Seq(S), NEW source, Len(source) \in Nat,
           NEW o \in Nat
    PROVE  Stands(source, o, s \o t) <=>
                Stands(source, o, s) /\ Stands(source, o + Len(s), t)
<1> DEFINE u == s \o t
<1>1. /\ Len(s) \in Nat /\ Len(t) \in Nat /\ Len(u) = Len(s) + Len(t)
      /\ \A i \in 1 .. Len(s) : u[i] = s[i]
      /\ \A i \in 1 .. Len(t) : u[Len(s) + i] = t[i]
  BY Joined
<1> HIDE DEF u
<1>2. ASSUME Stands(source, o, u)
      PROVE  Stands(source, o, s) /\ Stands(source, o + Len(s), t)
  <2>1. \A i \in 1 .. Len(s) : i \in 1 .. Len(u)
    BY <1>1
  <2>2. Stands(source, o, s)
    BY <1>1, <1>2, <2>1 DEF Stands
  <2>3. ASSUME NEW i \in 1 .. Len(t) PROVE source[(o + Len(s)) + i] = t[i]
    <3>1. Len(s) + i \in 1 .. Len(u) /\ (o + Len(s)) + i = o + (Len(s) + i)
      BY <1>1
    <3> QED BY <3>1, <1>1, <1>2 DEF Stands
  <2>4. (o + Len(s)) + Len(t) <= Len(source)
    BY <1>1, <1>2 DEF Stands
  <2> QED BY <2>2, <2>3, <2>4 DEF Stands
<1>3. ASSUME Stands(source, o, s), Stands(source, o + Len(s), t)
      PROVE  Stands(source, o, u)
  <2>1. o + Len(u) <= Len(source)
    BY <1>1, <1>3 DEF Stands
  <2>2. ASSUME NEW i \in 1 .. Len(u) PROVE source[o + i] = u[i]
    <3>1. CASE i <= Len(s)
      <4>1. i \in 1 .. Len(s)
        BY <3>1, <1>1
      <4> QED BY <4>1, <1>1, <1>3 DEF Stands
    <3>2. CASE ~ (i <= Len(s))
      <4> DEFINE k == i - Len(s)
      <4>1. k \in 1 .. Len(t) /\ i = Len(s) + k /\ o + i = (o + Len(s)) + k
        BY <3>2, <1>1
      <4> HIDE DEF k
      <4>2. u[i] = t[k] /\ source[(o + Len(s)) + k] = t[k]
        BY <4>1, <1>1, <1>3 DEF Stands
      <4> QED BY <4>1, <4>2
    <3> QED BY <3>1, <3>2
  <2> QED BY <2>1, <2>2 DEF Stands
<1> QED BY <1>2, <1>3 DEF u

LEMMA StandsOne ==
    ASSUME NEW source, NEW o \in Nat, NEW c, Len(source) \in Nat
    PROVE  Stands(source, o, <<c>>) <=> o + 1 <= Len(source) /\ source[o + 1] = c
BY DEF Stands

\* What stands somewhere is found there.
LEMMA StandsFound ==
    ASSUME NEW S, NEW source \in Seq(S), NEW t \in Seq(S), NEW o \in Nat,
           Stands(source, o, t)
    PROVE  SubSeq(source, o + 1, o + Len(t)) = t
<1> DEFINE u == SubSeq(source, o + 1, o + Len(t))
<1>1. Len(t) \in Nat /\ Len(source) \in Nat /\ o + Len(t) <= Len(source)
  BY LenProperties DEF Stands
<1>2. ASSUME NEW i \in (o + 1) .. (o + Len(t)) PROVE source[i] \in S
  <2>1. i \in 1 .. Len(source)
    BY <1>1
  <2> QED BY <2>1, ElementOfSeq
<1>3. /\ u \in Seq(S)
      /\ Len(u) = IF o + 1 <= o + Len(t) THEN (o + Len(t)) - (o + 1) + 1 ELSE 0
      /\ \A i \in 1 .. (o + Len(t)) - (o + 1) + 1 : u[i] = source[(o + 1) + i - 1]
  <2>1. o + 1 \in Int /\ o + Len(t) \in Int
    BY <1>1
  <2> QED BY <2>1, <1>2, SubSeqProperties
<1> HIDE DEF u
<1>4. Len(u) = Len(t)
  BY <1>1, <1>3
<1>5. ASSUME NEW i \in 1 .. Len(u) PROVE u[i] = t[i]
  <2>1. i \in 1 .. (o + Len(t)) - (o + 1) + 1 /\ (o + 1) + i - 1 = o + i /\ i \in 1 .. Len(t)
    BY <1>1, <1>4
  <2>2. u[i] = source[o + i]
    BY <2>1, <1>3
  <2> QED BY <2>1, <2>2 DEF Stands
<1>6. u = t
  BY <1>3, <1>4, <1>5, SeqEqual
<1> QED BY <1>6 DEF u

-----------------------------------------------------------------------------
(* Texts put together.                                                     *)

\* part[k]: the first k of the sequences, one after the other.
Parts(part, ss, S) ==
    /\ ss \in Seq(Seq(S)) /\ part \in [0 .. Len(ss) -> Seq(S)] /\ part[0] = <<>>
    /\ \A k \in 1 .. Len(ss) : part[k] = part[k - 1] \o ss[k]

\* FlattenSeq puts the sequences together one after the other.
LEMMA Flattening ==
    ASSUME NEW S, NEW ss \in Seq(Seq(S))
    PROVE  \E part : Parts(part, ss, S) /\ part[Len(ss)] = FlattenSeq(ss)
<1> DEFINE N == Len(ss)
           flatten[i \in 1 .. N] == IF i = 1 THEN ss[i] ELSE flatten[i - 1] \o ss[i]
           step == [n \in 1 .. N |-> [s \in Seq(S) |-> s \o ss[n]]]
<1>1. N \in Nat /\ DOMAIN ss = 1 .. N /\ \A n \in 1 .. N : ss[n] \in Seq(S)
  BY LenProperties, ElementOfSeq
<1>2. PICK p : Recurs(p, N, Seq(S), <<>>, step)
  <2> HIDE DEF N
  <2>1. ASSUME NEW n \in 1 .. N, NEW s \in Seq(S) PROVE s \o ss[n] \in Seq(S)
    BY <1>1, ConcatProperties
  <2>2. step \in [1 .. N -> [Seq(S) -> Seq(S)]]
    BY <2>1
  <2> HIDE DEF step
  <2> QED BY <2>2, <1>1, EmptySeq, Recursion
<1>3. Parts(p, ss, S)
  <2>1. ASSUME NEW k \in 1 .. N PROVE p[k] = p[k - 1] \o ss[k]
    <3> HIDE DEF N
    <3>1. k - 1 \in 0 .. N
      BY <1>1
    <3>2. p[k - 1] \in Seq(S) /\ p[k] = step[k][p[k - 1]]
      BY <3>1, <1>2 DEF Recurs
    <3> QED BY <3>2
  <2> QED BY <2>1, <1>2 DEF Recurs, Parts
<1>4. CASE N = 0
  <2>1. ss = <<>> /\ FlattenSeq(ss) = ss
    BY <1>4, EmptySeq DEF FlattenSeq
  <2> QED BY <2>1, <1>3, <1>4 DEF Parts
<1>5. CASE N # 0
  <2> DEFINE g == [i \in 1 .. N |-> p[i]]
  <2> HIDE DEF N
  <2>1. /\ p[0] = <<>> /\ \A k \in 1 .. N : p[k] = p[k - 1] \o ss[k]
        /\ \A k \in 0 .. N : p[k] \in Seq(S)
    BY <1>3 DEF Parts, N
  <2>2. ASSUME NEW i \in 1 .. N
        PROVE  g[i] = IF i = 1 THEN ss[i] ELSE g[i - 1] \o ss[i]
    <3>1. CASE i = 1
      <4>0. 1 \in 1 .. N /\ 1 - 1 = 0
        BY <3>1
      <4>1. p[1] = p[1 - 1] \o ss[1] /\ ss[1] \in Seq(S) /\ p[1 - 1] = <<>>
        BY <4>0, <2>1, <1>1
      <4>2. <<>> \o ss[1] = ss[1]
        BY <4>1, ConcatEmptySeq
      <4> QED BY <4>1, <4>2, <3>1
    <3>2. CASE i # 1
      <4>1. i - 1 \in 1 .. N
        BY <3>2, <1>1
      <4> QED BY <4>1, <3>2, <2>1
    <3> QED BY <3>1, <3>2
  <2>3. g = [i \in 1 .. N |-> IF i = 1 THEN ss[i] ELSE g[i - 1] \o ss[i]]
    <3>1. g = [i \in 1 .. N |-> g[i]]
      BY SMTT(30)
    <3> HIDE DEF g
    <3> QED BY <3>1, <2>2
  <2>4. flatten = [i \in 1 .. N |-> IF i = 1 THEN ss[i] ELSE flatten[i - 1] \o ss[i]]
    <3> HIDE DEF g
    <3> QED BY <2>3 DEF flatten
  <2> HIDE DEF flatten, g
  <2> DEFINE T == {n \in 0 .. N : n # 0 => flatten[n] = p[n]}
  <2>5. 0 \in T
    BY <1>1
  <2>6. ASSUME NEW n \in 0 .. N, n \in T, n < N PROVE n + 1 \in T
    <3>1. n + 1 \in 1 .. N /\ (n + 1) - 1 = n
      BY <2>6, <1>1
    <3>2. flatten[n + 1] = IF n + 1 = 1 THEN ss[n + 1] ELSE flatten[n] \o ss[n + 1]
      BY <3>1, <2>4
    <3>3. p[n + 1] = IF n + 1 = 1 THEN ss[n + 1] ELSE p[n] \o ss[n + 1]
      <4>1. p[n + 1] = g[n + 1] /\ (n + 1 # 1 => g[(n + 1) - 1] = p[n])
        BY <3>1 DEF g
      <4>2. g[n + 1] = IF n + 1 = 1 THEN ss[n + 1] ELSE g[(n + 1) - 1] \o ss[n + 1]
        BY <3>1, <2>2
      <4> QED BY <4>1, <4>2
    <3>4. flatten[n + 1] = p[n + 1]
      BY <3>2, <3>3, <2>6
    <3> QED BY <3>1, <3>4
  <2>7. N \in T
    <3>1. N \in 0 .. N
      BY <1>1
    <3> HIDE DEF T
    <3> QED BY <3>1, <2>5, <2>6, <1>1, Upward
  <2>8. FlattenSeq(ss) = flatten[N]
    BY <1>5 DEF FlattenSeq, flatten, N
  <2> QED BY <2>7, <2>8, <1>3, <1>5 DEF N
<1> QED BY <1>4, <1>5

LEMMA PartTypes ==
    ASSUME NEW S, NEW ss \in Seq(Seq(S)), NEW part, Parts(part, ss, S)
    PROVE  /\ Len(ss) \in Nat /\ \A k \in 1 .. Len(ss) : ss[k] \in Seq(S) /\ Len(ss[k]) \in Nat
           /\ \A k \in 0 .. Len(ss) : part[k] \in Seq(S) /\ Len(part[k]) \in Nat
           /\ part[0] = <<>> /\ Len(part[0]) = 0
<1>1. Len(ss) \in Nat /\ \A k \in 1 .. Len(ss) : ss[k] \in Seq(S)
  BY LenProperties, ElementOfSeq DEF Parts
<1>2. \A k \in 0 .. Len(ss) : part[k] \in Seq(S)
  BY DEF Parts
<1>3. \A s \in Seq(S) : Len(s) \in Nat
  BY LenProperties
<1>5. part[0] = <<>> /\ Len(part[0]) = 0
  BY EmptySeq DEF Parts
<1> QED BY <1>1, <1>2, <1>3, <1>5

LEMMA PartStep ==
    ASSUME NEW S, NEW ss \in Seq(Seq(S)), NEW part, Parts(part, ss, S), NEW k \in 1 .. Len(ss)
    PROVE  /\ k - 1 \in 0 .. Len(ss) /\ k \in 0 .. Len(ss)
           /\ part[k] = part[k - 1] \o ss[k]
           /\ Len(part[k]) = Len(part[k - 1]) + Len(ss[k])
<1>1. k - 1 \in 0 .. Len(ss) /\ k \in 0 .. Len(ss)
  BY PartTypes
<1>2. part[k] = part[k - 1] \o ss[k]
  BY DEF Parts
<1>3. part[k - 1] \in Seq(S) /\ ss[k] \in Seq(S)
  BY <1>1, PartTypes
<1>4. Len(part[k - 1] \o ss[k]) = Len(part[k - 1]) + Len(ss[k])
  BY <1>3, ConcatProperties
<1> QED BY <1>1, <1>2, <1>4

LEMMA FlatIsSequence ==
    ASSUME NEW S, NEW ss \in Seq(Seq(S))
    PROVE  FlattenSeq(ss) \in Seq(S)
<1>1. PICK part : Parts(part, ss, S) /\ part[Len(ss)] = FlattenSeq(ss)
  BY Flattening
<1>2. Len(ss) \in 0 .. Len(ss)
  BY LenProperties
<1> QED BY <1>1, <1>2 DEF Parts

\* Where the whole stands, so does each of its sequences, at its place.
LEMMA PartsStand ==
    ASSUME NEW S, NEW ss \in Seq(Seq(S)), NEW part, Parts(part, ss, S),
           NEW source, Len(source) \in Nat, NEW o \in Nat,
           Stands(source, o, part[Len(ss)])
    PROVE  \A k \in 1 .. Len(ss) : Stands(source, o + Len(part[k - 1]), ss[k])
<1> DEFINE N == Len(ss)
<1>1. /\ N \in Nat /\ \A k \in 1 .. N : ss[k] \in Seq(S)
      /\ \A k \in 0 .. N : part[k] \in Seq(S)
      /\ \A k \in 1 .. N : k - 1 \in 0 .. N /\ part[k] = part[k - 1] \o ss[k]
  BY ZenonT(30), PartTypes, PartStep
<1>2. Stands(source, o, part[N])
  OBVIOUS
<1> HIDE DEF N
<1>3. ASSUME NEW k \in 1 .. N, Stands(source, o, part[k])
      PROVE  Stands(source, o, part[k - 1]) /\ Stands(source, o + Len(part[k - 1]), ss[k])
  <2>1. part[k - 1] \in Seq(S) /\ ss[k] \in Seq(S) /\ part[k] = part[k - 1] \o ss[k]
    BY <1>1
  <2> QED BY ZenonT(30), <2>1, <1>3, StandsJoined
<1> DEFINE T == {j \in 0 .. N : Stands(source, o, part[N - j])}
<1>4. 0 \in T
  BY <1>1, <1>2
<1>5. ASSUME NEW j \in 0 .. N, j \in T, j < N PROVE j + 1 \in T
  <2>1. N - j \in 1 .. N /\ (N - j) - 1 = N - (j + 1) /\ j + 1 \in 0 .. N
    BY <1>1, <1>5
  <2>2. Stands(source, o, part[N - j])
    BY <1>5
  <2>3. Stands(source, o, part[(N - j) - 1])
    BY <2>1, <2>2, <1>3
  <2> QED BY <2>1, <2>3
<1>6. \A j \in 0 .. N : j \in T
  <2> HIDE DEF T
  <2> QED BY <1>1, <1>4, <1>5, Upward
<1>7. ASSUME NEW k \in 1 .. N PROVE Stands(source, o + Len(part[k - 1]), ss[k])
  <2>1. N - k \in 0 .. N /\ N - (N - k) = k
    BY <1>1
  <2>2. Stands(source, o, part[k])
    BY <2>1, <1>6
  <2> QED BY <2>2, <1>3
<1> QED BY <1>7 DEF N

\* FlattenSeq of two sequences of sequences.
LEMMA FlatJoined ==
    ASSUME NEW S, NEW a \in Seq(Seq(S)), NEW b \in Seq(Seq(S))
    PROVE  FlattenSeq(a \o b) = FlattenSeq(a) \o FlattenSeq(b)
<1> DEFINE c == a \o b
           m == Len(a)
           n == Len(b)
<1>1. /\ c \in Seq(Seq(S)) /\ m \in Nat /\ n \in Nat /\ Len(c) = m + n
      /\ \A i \in 1 .. m : c[i] = a[i]
      /\ \A i \in 1 .. n : c[m + i] = b[i]
  BY Joined
<1> HIDE DEF c
<1>2. PICK p : Parts(p, a, S) /\ p[m] = FlattenSeq(a)
  BY Flattening
<1>3. PICK q : Parts(q, b, S) /\ q[n] = FlattenSeq(b)
  BY Flattening
<1>4. PICK r : Parts(r, c, S) /\ r[m + n] = FlattenSeq(c)
  BY <1>1, Flattening
<1>5. /\ p[0] = <<>> /\ q[0] = <<>> /\ r[0] = <<>>
      /\ \A k \in 1 .. m : p[k] = p[k - 1] \o a[k]
      /\ \A k \in 1 .. n : q[k] = q[k - 1] \o b[k]
      /\ \A k \in 1 .. m + n : r[k] = r[k - 1] \o c[k]
      /\ \A k \in 0 .. n : q[k] \in Seq(S)
      /\ \A k \in 1 .. n : b[k] \in Seq(S)
      /\ \A k \in 0 .. m + n : r[k] \in Seq(S)
  <2>1. \A k \in 1 .. n : b[k] \in Seq(S)
    BY ElementOfSeq
  <2> QED BY <2>1, <1>1, <1>2, <1>3, <1>4 DEF Parts
<1> HIDE DEF m, n
<1> DEFINE T == {k \in 0 .. m : r[k] = p[k]}
           U == {k \in 0 .. n : r[m + k] = r[m] \o q[k]}
<1>6. 0 \in T
  BY <1>1, <1>5
<1>7. ASSUME NEW k \in 0 .. m, k \in T, k < m PROVE k + 1 \in T
  <2>1. k + 1 \in 1 .. m /\ (k + 1) - 1 = k /\ k + 1 \in 0 .. m /\ k + 1 \in 1 .. m + n
    BY <1>1, <1>7
  <2>2. p[k + 1] = p[k] \o a[k + 1]
    BY <2>1, <1>5
  <2>3. r[k + 1] = r[k] \o c[k + 1]
    BY <2>1, <1>5
  <2> QED BY <2>1, <2>2, <2>3, <1>1, <1>7
<1>8. m \in T
  <2>1. m \in 0 .. m
    BY <1>1
  <2> HIDE DEF T
  <2> QED BY <2>1, <1>1, <1>6, <1>7, Upward
<1>9. r[m] \in Seq(S)
  <2>1. m \in 0 .. m + n
    BY <1>1
  <2> QED BY <2>1, <1>5
<1>10. 0 \in U
  <2>1. m + 0 = m /\ 0 \in 0 .. n
    BY <1>1
  <2> QED BY <2>1, <1>5, <1>9, ConcatEmptySeq
<1>11. ASSUME NEW k \in 0 .. n, k \in U, k < n PROVE k + 1 \in U
  <2>1. k + 1 \in 1 .. n /\ (k + 1) - 1 = k /\ k + 1 \in 0 .. n /\ m + (k + 1) \in 1 .. m + n
        /\ (m + (k + 1)) - 1 = m + k
    BY <1>1, <1>11
  <2>2. r[m + (k + 1)] = r[m + k] \o c[m + (k + 1)]
    BY <2>1, <1>5
  <2>3. c[m + (k + 1)] = b[k + 1] /\ q[k + 1] = q[k] \o b[k + 1] /\ r[m + k] = r[m] \o q[k]
    BY <2>1, <1>1, <1>5, <1>11
  <2>4. q[k] \in Seq(S) /\ b[k + 1] \in Seq(S)
    BY <2>1, <1>5
  <2>5. (r[m] \o q[k]) \o b[k + 1] = r[m] \o (q[k] \o b[k + 1])
    <3> DEFINE x == r[m]
               y == q[k]
               z == b[k + 1]
    <3>1. x \in Seq(S) /\ y \in Seq(S) /\ z \in Seq(S)
      BY <1>9, <2>4
    <3> HIDE DEF x, y, z
    <3>2. (x \o y) \o z = x \o (y \o z)
      BY SMTT(30), <3>1, ConcatAssociative
    <3> QED BY <3>2 DEF x, y, z
  <2> QED BY <2>1, <2>2, <2>3, <2>5
<1>12. n \in U
  <2>1. n \in 0 .. n
    BY <1>1
  <2> HIDE DEF U
  <2> QED BY <2>1, <1>1, <1>10, <1>11, Upward
<1>13. r[m] = p[m] /\ r[m + n] = r[m] \o q[n]
  BY <1>8, <1>12
<1> QED BY <1>13, <1>2, <1>3, <1>4 DEF c

LEMMA FlatFew ==
    ASSUME NEW S, NEW s \in Seq(S)
    PROVE  FlattenSeq(<<>>) = <<>> /\ FlattenSeq(<<s>>) = s
<1>1. FlattenSeq(<<>>) = <<>>
  BY DEF FlattenSeq
<1> DEFINE t == <<s>>
<1>2. t \in Seq(Seq(S)) /\ Len(t) = 1 /\ t[1] = s
  OBVIOUS
<1> HIDE DEF t
<1>3. PICK p : Parts(p, t, S) /\ p[1] = FlattenSeq(t)
  BY <1>2, Flattening
<1>4. p[1] = <<>> \o s
  <2>1. 1 \in 1 .. Len(t) /\ 1 - 1 = 0
    BY <1>2
  <2>2. p[0] = <<>> /\ \A k \in 1 .. Len(t) : p[k] = p[k - 1] \o t[k]
    BY <1>3 DEF Parts
  <2> QED BY <2>1, <2>2, <1>2
<1>5. FlattenSeq(t) = s
  BY <1>3, <1>4, ConcatEmptySeq
<1> QED BY <1>1, <1>5 DEF t

-----------------------------------------------------------------------------
(* Removing a character.                                                   *)

\* A character is removed from two texts as from each.
LEMMA WithoutJoined ==
    ASSUME NEW S, NEW s \in Seq(S), NEW t \in Seq(S), NEW c
    PROVE  Without(s \o t, c) = Without(s, c) \o Without(t, c)
<1> DEFINE each(u) == [i \in DOMAIN u |-> IF u[i] = c THEN <<>> ELSE <<u[i]>>]
<1>1. ASSUME NEW u \in Seq(S)
      PROVE  /\ each(u) \in Seq(Seq(S)) /\ Len(each(u)) = Len(u)
             /\ \A i \in 1 .. Len(u) : each(u)[i] = IF u[i] = c THEN <<>> ELSE <<u[i]>>
  <2>1. Len(u) \in Nat /\ DOMAIN u = 1 .. Len(u) /\ \A i \in 1 .. Len(u) : u[i] \in S
    BY LenProperties, ElementOfSeq
  <2>2. each(u) \in [1 .. Len(u) -> Seq(S)]
    BY <2>1
  <2> QED BY <2>1, <2>2
<1> DEFINE u == s \o t
<1>2. /\ u \in Seq(S) /\ Len(s) \in Nat /\ Len(t) \in Nat /\ Len(u) = Len(s) + Len(t)
      /\ \A i \in 1 .. Len(s) : u[i] = s[i]
      /\ \A i \in 1 .. Len(t) : u[Len(s) + i] = t[i]
  BY Joined
<1> HIDE DEF u
<1> DEFINE a == each(s)
           b == each(t)
           d == each(u)
<1>3. /\ a \in Seq(Seq(S)) /\ Len(a) = Len(s) /\ b \in Seq(Seq(S)) /\ Len(b) = Len(t)
      /\ d \in Seq(Seq(S)) /\ Len(d) = Len(u)
      /\ \A i \in 1 .. Len(s) : a[i] = IF s[i] = c THEN <<>> ELSE <<s[i]>>
      /\ \A i \in 1 .. Len(t) : b[i] = IF t[i] = c THEN <<>> ELSE <<t[i]>>
      /\ \A i \in 1 .. Len(u) : d[i] = IF u[i] = c THEN <<>> ELSE <<u[i]>>
  BY <1>1, <1>2
<1>4. FlattenSeq(a) = Without(s, c) /\ FlattenSeq(b) = Without(t, c)
      /\ FlattenSeq(d) = Without(u, c)
  BY DEF Without
<1> HIDE DEF a, b, d
<1>5. /\ a \o b \in Seq(Seq(S)) /\ Len(a \o b) = Len(a) + Len(b)
      /\ \A i \in 1 .. Len(a) : (a \o b)[i] = a[i]
      /\ \A i \in 1 .. Len(b) : (a \o b)[Len(a) + i] = b[i]
  <2>1. a \in Seq(Seq(S)) /\ b \in Seq(Seq(S))
    BY <1>3
  <2> QED BY <2>1, Joined
<1>6. ASSUME NEW i \in 1 .. Len(d) PROVE d[i] = (a \o b)[i]
  <2>1. CASE i <= Len(s)
    <3>1. i \in 1 .. Len(s) /\ i \in 1 .. Len(u) /\ i \in 1 .. Len(a)
      BY <2>1, <1>2, <1>3
    <3> QED BY ZenonT(30), <3>1, <1>2, <1>3, <1>5
  <2>2. CASE ~ (i <= Len(s))
    <3> DEFINE k == i - Len(s)
    <3>1. k \in 1 .. Len(t) /\ i = Len(s) + k /\ i \in 1 .. Len(u) /\ k \in 1 .. Len(b)
      BY <2>2, <1>2, <1>3
    <3> HIDE DEF k
    <3>2. u[i] = t[k] /\ (a \o b)[Len(a) + k] = b[k] /\ Len(a) = Len(s)
      BY <3>1, <1>2, <1>3, <1>5
    <3>3. b[k] = (IF t[k] = c THEN <<>> ELSE <<t[k]>>)
          /\ d[i] = IF u[i] = c THEN <<>> ELSE <<u[i]>>
      BY <3>1, <1>3
    <3> QED BY <3>1, <3>2, <3>3
  <2> QED BY <2>1, <2>2
<1>7. d = a \o b
  <2>1. d \in Seq(Seq(S)) /\ a \o b \in Seq(Seq(S)) /\ Len(d) = Len(a \o b)
    BY <1>2, <1>3, <1>5
  <2>2. \A i \in 1 .. Len(d) : d[i] = (a \o b)[i]
    BY <1>6
  <2> QED BY <2>1, <2>2, SeqEqual
<1>8. FlattenSeq(d) = FlattenSeq(a) \o FlattenSeq(b)
  BY <1>3, <1>7, FlatJoined
<1> QED BY <1>4, <1>8 DEF u

LEMMA WithoutOne ==
    ASSUME NEW c PROVE Without(<<c>>, c) = <<>> /\ Without(<<>>, c) = <<>>
<1>1. [i \in DOMAIN <<c>> |-> IF <<c>>[i] = c THEN <<>> ELSE <<<<c>>[i]>>] = << <<>> >>
  OBVIOUS
<1>2. [i \in DOMAIN <<>> |-> IF <<>>[i] = c THEN <<>> ELSE <<<<>>[i]>>] = <<>>
  OBVIOUS
<1>3. <<>> \in Seq({})
  OBVIOUS
<1> QED BY <1>1, <1>2, <1>3, FlatFew DEF Without

LEMMA WithoutNone ==
    ASSUME NEW S, NEW s \in Seq(S), NEW c, \A i \in 1 .. Len(s) : s[i] # c
    PROVE  Without(s, c) = s
<1> DEFINE N == Len(s)
           a == [i \in DOMAIN s |-> IF s[i] = c THEN <<>> ELSE <<s[i]>>]
<1>1. N \in Nat /\ DOMAIN s = 1 .. N /\ \A i \in 1 .. N : s[i] \in S
  BY LenProperties, ElementOfSeq
<1>2. a = [i \in 1 .. N |-> <<s[i]>>] /\ FlattenSeq(a) = Without(s, c)
  BY <1>1 DEF Without
<1>3. a \in Seq(Seq(S)) /\ Len(a) = N
  <2>1. a \in [1 .. N -> Seq(S)]
    BY <1>1
  <2> QED BY <2>1, <1>1
<1> HIDE DEF a, N
<1>4. PICK p : Parts(p, a, S) /\ p[N] = FlattenSeq(a)
  BY <1>3, Flattening
<1>5. /\ \A k \in 0 .. N : p[k] \in Seq(S) /\ Len(p[k]) \in Nat
      /\ Len(p[0]) = 0
      /\ \A k \in 1 .. N : p[k] = p[k - 1] \o a[k] /\ Len(p[k]) = Len(p[k - 1]) + Len(a[k])
  <2>1. a \in Seq(Seq(S)) /\ Parts(p, a, S)
    BY <1>3, <1>4
  <2>2. \A k \in 0 .. Len(a) : p[k] \in Seq(S) /\ Len(p[k]) \in Nat
    BY <2>1, PartTypes
  <2>3. Len(p[0]) = 0
    BY <2>1, PartTypes
  <2>4. \A k \in 1 .. Len(a) : p[k] = p[k - 1] \o a[k] /\ Len(p[k]) = Len(p[k - 1]) + Len(a[k])
    BY <2>1, PartStep
  <2> QED BY <2>2, <2>3, <2>4, <1>3
<1> DEFINE T == {k \in 0 .. N : Len(p[k]) = k /\ \A i \in 1 .. k : p[k][i] = s[i]}
<1>6. 0 \in T
  BY <1>1, <1>5
<1>7. ASSUME NEW k \in 0 .. N, k \in T, k < N PROVE k + 1 \in T
  <2>1. k + 1 \in 1 .. N /\ (k + 1) - 1 = k /\ k + 1 \in 0 .. N
    BY <1>1, <1>7
  <2>2. a[k + 1] = <<s[k + 1]>> /\ <<s[k + 1]>> \in Seq(S)
    BY <2>1, <1>1, <1>2
  <2>3. p[k + 1] = p[k] \o <<s[k + 1]>> /\ p[k] \in Seq(S) /\ Len(p[k]) = k
    BY <2>1, <2>2, <1>5, <1>7
  <2>4. /\ Len(p[k + 1]) = k + 1
        /\ \A i \in 1 .. k + 1 : p[k + 1][i] = IF i <= k THEN p[k][i] ELSE <<s[k + 1]>>[i - k]
    BY <2>2, <2>3, ConcatProperties
  <2>5. ASSUME NEW i \in 1 .. k + 1 PROVE p[k + 1][i] = s[i]
    <3>1. CASE i <= k
      <4>1. i \in 1 .. k
        BY <3>1
      <4> QED BY <4>1, <3>1, <2>4, <1>7
    <3>2. CASE ~ (i <= k)
      <4>1. i = k + 1 /\ i - k = 1
        BY <3>2
      <4> QED BY <4>1, <3>2, <2>4
    <3> QED BY <3>1, <3>2
  <2> QED BY <2>1, <2>4, <2>5
<1>8. N \in T
  <2>1. N \in 0 .. N
    BY <1>1
  <2> HIDE DEF T
  <2> QED BY <2>1, <1>1, <1>6, <1>7, Upward
<1>9. p[N] \in Seq(S) /\ Len(p[N]) = Len(s) /\ \A i \in 1 .. Len(p[N]) : p[N][i] = s[i]
  BY <1>8, <1>5 DEF N
<1>10. p[N] = s
  BY <1>9, SeqEqual
<1> QED BY <1>10, <1>2, <1>4

-----------------------------------------------------------------------------
(* Numbers and their digits.                                               *)

LEMMA Last1 ==
    ASSUME NEW S, NEW s \in Seq(S), NEW c \in S
    PROVE  /\ Append(s, c) \in Seq(S) /\ Append(s, c) = s \o <<c>>
           /\ Len(Append(s, c)) = Len(s) + 1 /\ Len(s) \in Nat
           /\ \A i \in 1 .. Len(s) : Append(s, c)[i] = s[i]
           /\ Append(s, c)[Len(s) + 1] = c
<1>1. Len(s) \in Nat
  BY LenProperties
<1>2. /\ Append(s, c) \in Seq(S) /\ Len(Append(s, c)) = Len(s) + 1
      /\ \A i \in 1 .. Len(s) : Append(s, c)[i] = s[i]
      /\ Append(s, c)[Len(s) + 1] = c
  BY AppendProperties
<1>3. Append(s, c) = s \o <<c>>
  BY AppendIsConcat
<1> QED BY <1>1, <1>2, <1>3

\* value[i] is the number the first i digits of the text write.
Counts(value, text, base) ==
    /\ value \in [0 .. Len(text) -> Int] /\ value[0] = 0
    /\ \A i \in 1 .. Len(text) : value[i] = value[i - 1] * base + DigitOf(text[i])

\* The value of a number, digit by digit.
LEMMA Counting ==
    ASSUME NEW text \in Seq(Int), NEW base \in Nat
    PROVE  \E value : Counts(value, text, base) /\ Number(text, base) = value[Len(text)]
<1> DEFINE N == Len(text)
           f[i \in 0 .. N] == IF i = 0 THEN 0 ELSE f[i - 1] * base + DigitOf(text[i])
           step == [n \in 1 .. N |-> [v \in Int |-> v * base + DigitOf(text[n])]]
<1>1. N \in Nat /\ \A i \in 1 .. N : text[i] \in Int
  BY LenProperties, ElementOfSeq
<1> HIDE DEF N
<1>2. \A i \in 1 .. N : DigitOf(text[i]) \in Int
  BY <1>1 DEF DigitOf
<1>3. PICK g : Recurs(g, N, Int, 0, step)
  <2>1. ASSUME NEW n \in 1 .. N, NEW v \in Int PROVE v * base + DigitOf(text[n]) \in Int
    <3>1. v * base \in Int
      OBVIOUS
    <3> QED BY <3>1, <1>2
  <2>2. step \in [1 .. N -> [Int -> Int]]
    BY <2>1
  <2> HIDE DEF step
  <2>3. 0 \in Int
    OBVIOUS
  <2> QED BY <2>2, <2>3, <1>1, Recursion
<1>4. /\ g \in [0 .. N -> Int] /\ g[0] = 0
      /\ \A i \in 1 .. N : g[i] = g[i - 1] * base + DigitOf(text[i])
  <2>1. g \in [0 .. N -> Int] /\ g[0] = 0 /\ \A i \in 1 .. N : g[i] = step[i][g[i - 1]]
    BY <1>3 DEF Recurs
  <2>2. ASSUME NEW i \in 1 .. N PROVE g[i] = g[i - 1] * base + DigitOf(text[i])
    <3>1. i - 1 \in 0 .. N
      BY <1>1
    <3>2. g[i - 1] \in Int
      BY <3>1, <2>1
    <3> QED BY <3>2, <2>1
  <2> QED BY <2>1, <2>2
<1>5. g = [i \in 0 .. N |-> IF i = 0 THEN 0 ELSE g[i - 1] * base + DigitOf(text[i])]
  <2>1. ASSUME NEW i \in 0 .. N, i # 0 PROVE g[i] = g[i - 1] * base + DigitOf(text[i])
    <3>1. i \in 1 .. N
      BY <2>1, <1>1
    <3> QED BY <3>1, <1>4
  <2> HIDE DEF step
  <2> QED BY <2>1, <1>4
<1>6. f = [i \in 0 .. N |-> IF i = 0 THEN 0 ELSE f[i - 1] * base + DigitOf(text[i])]
  <2> HIDE DEF step
  <2> QED BY <1>5 DEF f
<1>7. Number(text, base) = f[N]
  BY DEF Number, N
<1> HIDE DEF f, step
<1> DEFINE T == {n \in 0 .. N : f[n] = g[n]}
<1>8. 0 \in T
  BY <1>1, <1>4, <1>6
<1>9. ASSUME NEW n \in 0 .. N, n \in T, n < N PROVE n + 1 \in T
  <2>1. n + 1 \in 1 .. N /\ n + 1 \in 0 .. N /\ (n + 1) - 1 = n /\ n + 1 # 0
    BY <1>1, <1>9
  <2>2. g[n + 1] = g[n] * base + DigitOf(text[n + 1])
    BY <2>1, <1>4
  <2>3. f[n + 1] = f[n] * base + DigitOf(text[n + 1])
    BY <2>1, <1>6
  <2> QED BY <2>1, <2>2, <2>3, <1>9
<1>10. f[N] = g[N]
  <2>1. N \in 0 .. N
    BY <1>1
  <2>2. N \in T
    <3> HIDE DEF T
    <3> QED BY <2>1, <1>1, <1>8, <1>9, Upward
  <2> QED BY <2>2
<1>11. Counts(g, text, base)
  BY <1>4 DEF Counts, N
<1> QED BY <1>7, <1>10, <1>11 DEF N

LEMMA SameCount ==
    ASSUME NEW s \in Seq(Int), NEW t \in Seq(Int), NEW base \in Nat, NEW v, NEW w,
           Counts(v, s, base), Counts(w, t, base), NEW d \in Nat,
           Stands(s, d, t), v[d] = 0
    PROVE  v[d + Len(t)] = w[Len(t)]
<1> DEFINE M == Len(s)
           N == Len(t)
<1>1. M \in Nat /\ N \in Nat /\ d + N <= M /\ \A i \in 1 .. N : s[d + i] = t[i]
  BY LenProperties DEF Stands
<1>2. /\ \A i \in 1 .. M : v[i] = v[i - 1] * base + DigitOf(s[i])
      /\ w[0] = 0 /\ \A i \in 1 .. N : w[i] = w[i - 1] * base + DigitOf(t[i])
  BY DEF Counts
<1> HIDE DEF M, N
<1> DEFINE T == {n \in 0 .. N : v[d + n] = w[n]}
<1>3. 0 \in T
  <2>1. d + 0 = d /\ 0 \in 0 .. N
    BY <1>1
  <2> QED BY <2>1, <1>2
<1>4. ASSUME NEW n \in 0 .. N, n \in T, n < N PROVE n + 1 \in T
  <2>1. /\ n + 1 \in 1 .. N /\ n + 1 \in 0 .. N /\ (n + 1) - 1 = n
        /\ d + (n + 1) \in 1 .. M /\ (d + (n + 1)) - 1 = d + n
    BY <1>1, <1>4
  <2>2. w[n + 1] = w[n] * base + DigitOf(t[n + 1])
    BY <2>1, <1>2
  <2>3. v[d + (n + 1)] = v[d + n] * base + DigitOf(s[d + (n + 1)])
    BY <2>1, <1>2
  <2>4. s[d + (n + 1)] = t[n + 1] /\ v[d + n] = w[n]
    BY <2>1, <1>1, <1>4
  <2> QED BY <2>1, <2>2, <2>3, <2>4
<1>5. N \in T
  <2>1. N \in 0 .. N
    BY <1>1
  <2> HIDE DEF T
  <2> QED BY <2>1, <1>1, <1>3, <1>4, Upward
<1> QED BY <1>5 DEF N

\* One more digit.
LEMMA NumberAppend ==
    ASSUME NEW text \in Seq(Int), NEW c \in Int, NEW base \in Nat
    PROVE  /\ Number(text, base) \in Int
           /\ Number(Append(text, c), base) = Number(text, base) * base + DigitOf(c)
<1> DEFINE t == Append(text, c)
           n == Len(text)
<1>1. /\ t \in Seq(Int) /\ n \in Nat /\ Len(t) = n + 1
      /\ \A i \in 1 .. n : t[i] = text[i]
      /\ t[n + 1] = c
  BY Last1
<1> HIDE DEF t
<1>2. PICK v : Counts(v, t, base) /\ Number(t, base) = v[Len(t)]
  BY <1>1, Counting
<1>3. PICK w : Counts(w, text, base) /\ Number(text, base) = w[Len(text)]
  BY Counting
<1>4. v[0] = 0 /\ w \in [0 .. n -> Int] /\ v[n + 1] = v[n] * base + DigitOf(c)
  <2>1. /\ v[0] = 0 /\ w \in [0 .. n -> Int]
        /\ \A i \in 1 .. Len(t) : v[i] = v[i - 1] * base + DigitOf(t[i])
    BY <1>2, <1>3 DEF Counts
  <2>2. n + 1 \in 1 .. Len(t) /\ (n + 1) - 1 = n
    BY <1>1
  <2>3. v[n + 1] = v[n] * base + DigitOf(t[n + 1])
    BY <2>1, <2>2
  <2> QED BY <2>1, <2>3, <1>1
<1>5. v[n] = w[n]
  <2>1. Stands(t, 0, text)
    BY <1>1 DEF Stands
  <2>2. v[0 + Len(text)] = w[Len(text)]
    <3>1. 0 \in Nat
      OBVIOUS
    <3> QED BY <2>1, <3>1, <1>1, <1>2, <1>3, <1>4, SameCount
  <2>3. 0 + Len(text) = n
    BY <1>1
  <2> QED BY <2>2, <2>3
<1>6. Number(text, base) \in Int
  <2>1. n \in 0 .. n
    BY <1>1
  <2> QED BY <2>1, <1>3, <1>4
<1>7. Number(t, base) = Number(text, base) * base + DigitOf(c)
  BY <1>1, <1>2, <1>3, <1>4, <1>5
<1> QED BY <1>6, <1>7 DEF t

LEMMA NumberNone ==
    ASSUME NEW base \in Nat PROVE Number(<<>>, base) = 0
<1>1. <<>> \in Seq(Int) /\ Len(<<>>) = 0
  OBVIOUS
<1>2. PICK w : Counts(w, <<>>, base) /\ Number(<<>>, base) = w[Len(<<>>)]
  BY <1>1, Counting
<1> QED BY <1>1, <1>2 DEF Counts

LEMMA NumberFew ==
    ASSUME NEW base \in Nat, NEW a \in Int, NEW b \in Int
    PROVE  /\ Number(<<a>>, base) = DigitOf(a)
           /\ Number(<<a, b>>, base) = DigitOf(a) * base + DigitOf(b)
<1>1. <<>> \in Seq(Int) /\ <<a>> \in Seq(Int)
  OBVIOUS
<1>2. Append(<<>>, a) = <<a>> /\ Append(<<a>>, b) = <<a, b>>
  <2>1. Append(<<>>, a) = <<a>>
    OBVIOUS
  <2>2. Append(<<a>>, b) = <<a, b>>
    <3> DEFINE p == <<a>>
               u == Append(p, b)
               w == <<a, b>>
    <3>1. p \in Seq(Int) /\ Len(p) = 1 /\ p[1] = a
      OBVIOUS
    <3>2. w \in Seq(Int) /\ Len(w) = 2 /\ w[1] = a /\ w[2] = b
      OBVIOUS
    <3> HIDE DEF p
    <3>3. /\ u \in Seq(Int) /\ Len(u) = Len(p) + 1 /\ u[Len(p) + 1] = b
          /\ \A i \in 1 .. Len(p) : u[i] = p[i]
      <4>1. p \in Seq(Int)
        BY <3>1
      <4> QED BY <4>1, Last1
    <3> HIDE DEF u, w
    <3>7. 1 \in 1 .. Len(p) /\ Len(p) + 1 = 2
      BY <3>1
    <3>4. Len(u) = 2 /\ u[1] = w[1] /\ u[2] = w[2]
      BY <3>1, <3>2, <3>3, <3>7
    <3>5. \A i \in 1 .. Len(u) : u[i] = w[i]
      BY <3>4
    <3>6. u = w
      BY <3>2, <3>3, <3>4, <3>5, SeqEqual
    <3> QED BY <3>6 DEF p, u, w
  <2> QED BY <2>1, <2>2
<1>3. Number(<<a>>, base) = 0 * base + DigitOf(a)
  BY <1>1, <1>2, NumberAppend, NumberNone
<1>4. 0 * base + DigitOf(a) = DigitOf(a)
  BY DEF DigitOf
<1>5. Number(<<a, b>>, base) = Number(<<a>>, base) * base + DigitOf(b)
  BY <1>1, <1>2, NumberAppend
<1>6. Number(<<a>>, base) = DigitOf(a)
  BY Zenon, <1>3, <1>4
<1>7. Number(<<a, b>>, base) = DigitOf(a) * base + DigitOf(b)
  BY Zenon, <1>5, <1>6
<1> QED BY Zenon, <1>6, <1>7

LEMMA NumberThree ==
    ASSUME NEW base \in Nat, NEW a \in Int, NEW b \in Int, NEW c \in Int
    PROVE  Number(<<a, b, c>>, base) = (DigitOf(a) * base + DigitOf(b)) * base + DigitOf(c)
<1>1. <<a, b>> \in Seq(Int)
  OBVIOUS
<1>2. Append(<<a, b>>, c) = <<a, b, c>>
  <2> DEFINE p == <<a, b>>
             u == Append(p, c)
             w == <<a, b, c>>
  <2>1. p \in Seq(Int) /\ Len(p) = 2 /\ p[1] = a /\ p[2] = b
    OBVIOUS
  <2>2. w \in Seq(Int) /\ Len(w) = 3 /\ w[1] = a /\ w[2] = b /\ w[3] = c
    OBVIOUS
  <2> HIDE DEF p
  <2>3. /\ u \in Seq(Int) /\ Len(u) = Len(p) + 1 /\ u[Len(p) + 1] = c
        /\ \A i \in 1 .. Len(p) : u[i] = p[i]
    <3>1. p \in Seq(Int)
      BY <2>1
    <3> QED BY <3>1, Last1
  <2> HIDE DEF u, w
  <2>7. 1 \in 1 .. Len(p) /\ 2 \in 1 .. Len(p) /\ Len(p) + 1 = 3
    BY <2>1
  <2>4. Len(u) = 3 /\ u[1] = w[1] /\ u[2] = w[2] /\ u[3] = w[3]
    BY <2>1, <2>2, <2>3, <2>7
  <2>5. \A i \in 1 .. Len(u) : u[i] = w[i]
    BY <2>4
  <2>6. u = w
    BY <2>2, <2>3, <2>4, <2>5, SeqEqual
  <2> QED BY <2>6 DEF p, u, w
<1>3. Number(<<a, b>>, base) = DigitOf(a) * base + DigitOf(b)
  BY NumberFew
<1>4. Number(<<a, b, c>>, base) = Number(<<a, b>>, base) * base + DigitOf(c)
  BY <1>1, <1>2, NumberAppend
<1> QED BY Zenon, <1>3, <1>4

\* Zeros in front of a number say nothing.
LEMMA NumberPadded ==
    ASSUME NEW z \in Seq(Int), NEW t \in Seq(Int), NEW base \in Nat,
           \A i \in 1 .. Len(z) : z[i] = 48
    PROVE  Number(z \o t, base) = Number(t, base)
<1> DEFINE s == z \o t
           n == Len(z)
<1>1. /\ s \in Seq(Int) /\ n \in Nat /\ Len(t) \in Nat /\ Len(s) = n + Len(t)
      /\ \A i \in 1 .. n : s[i] = z[i]
      /\ \A i \in 1 .. Len(t) : s[n + i] = t[i]
  BY Joined
<1> HIDE DEF s
<1>2. PICK v : Counts(v, s, base) /\ Number(s, base) = v[Len(s)]
  BY <1>1, Counting
<1>3. PICK w : Counts(w, t, base) /\ Number(t, base) = w[Len(t)]
  BY Counting
<1>4. v[0] = 0 /\ \A i \in 1 .. Len(s) : v[i] = v[i - 1] * base + DigitOf(s[i])
  BY <1>2 DEF Counts
<1>5. \A i \in 1 .. n : z[i] = 48
  OBVIOUS
<1>6. Stands(s, n, t)
  BY <1>1 DEF Stands
<1> HIDE DEF n
<1> DEFINE T == {i \in 0 .. n : v[i] = 0}
<1>7. 0 \in T
  BY <1>1, <1>4
<1>8. ASSUME NEW i \in 0 .. n, i \in T, i < n PROVE i + 1 \in T
  <2>1. i + 1 \in 1 .. n /\ i + 1 \in 0 .. n /\ i + 1 \in 1 .. Len(s) /\ (i + 1) - 1 = i
    BY <1>1, <1>8
  <2>2. v[i + 1] = v[i] * base + DigitOf(s[i + 1])
    BY <2>1, <1>4
  <2>3. s[i + 1] = 48 /\ v[i] = 0
    BY ZenonT(30), <2>1, <1>1, <1>5, <1>8
  <2>4. DigitOf(48) = 0 /\ 0 * base = 0
    BY DEF DigitOf
  <2> QED BY <2>1, <2>2, <2>3, <2>4
<1>9. v[n] = 0
  <2>1. n \in 0 .. n
    BY <1>1
  <2>2. n \in T
    <3> HIDE DEF T
    <3> QED BY <2>1, <1>1, <1>7, <1>8, Upward
  <2> QED BY <2>2
<1>10. v[n + Len(t)] = w[Len(t)]
  BY <1>1, <1>2, <1>3, <1>6, <1>9, SameCount
<1> QED BY <1>1, <1>2, <1>3, <1>10 DEF s

LEMMA Tenth ==
    ASSUME NEW n \in Nat
    PROVE  /\ n \div 10 \in Nat /\ n % 10 \in 0 .. 9 /\ (n \div 10) * 10 + (n % 10) = n
           /\ n \div 10 <= n /\ (n >= 10 => n \div 10 < n /\ n \div 10 >= 1)
<1>1. n % 10 = n - 10 * (n \div 10)
  OBVIOUS
<1>2. n \div 10 \in Nat /\ n % 10 \in 0 .. 9
  OBVIOUS
<1> DEFINE q == n \div 10
           r == n % 10
<1> HIDE DEF q, r
<1>3. q \in Nat /\ r \in 0 .. 9 /\ r = n - 10 * q
  BY <1>1, <1>2 DEF q, r
<1>4. /\ q * 10 + r = n /\ q <= n /\ (n >= 10 => q < n /\ q >= 1)
  BY <1>3
<1> QED BY <1>3, <1>4 DEF q, r

LEMMA NatInt == ASSUME NEW s \in Seq(Nat) PROVE s \in Seq(Int)
OBVIOUS

\* g[k] is how k is written.
Writes(g, N) ==
    /\ g \in [0 .. N -> Seq(Nat)]
    /\ \A k \in 0 .. N : g[k] = IF k < 10 THEN <<48 + k>>
                                ELSE Append(g[k \div 10], 48 + (k % 10))

LEMMA Writing == ASSUME NEW N \in Nat PROVE \E g : Writes(g, N)
<1> DEFINE T == {m \in 0 .. N : \E g : Writes(g, m)}
<1>1. 0 \in T
  <2> DEFINE g == [k \in 0 .. 0 |-> <<48>>]
  <2>1. g \in [0 .. 0 -> Seq(Nat)] /\ g[0] = <<48>>
    OBVIOUS
  <2> HIDE DEF g
  <2>2. \A k \in 0 .. 0 : k = 0 /\ k < 10 /\ <<48 + k>> = <<48>>
    OBVIOUS
  <2>3. \A k \in 0 .. 0 : g[k] = IF k < 10 THEN <<48 + k>>
                                 ELSE Append(g[k \div 10], 48 + (k % 10))
    BY <2>1, <2>2
  <2>4. Writes(g, 0)
    BY <2>1, <2>3 DEF Writes
  <2> QED BY <2>4
<1>2. ASSUME NEW m \in 0 .. N, m \in T, m < N PROVE m + 1 \in T
  <2>1. PICK h : Writes(h, m)
    BY <1>2
  <2> DEFINE k == m + 1
             last == IF k < 10 THEN <<48 + k>> ELSE Append(h[k \div 10], 48 + (k % 10))
             g == [j \in 0 .. k |-> IF j = k THEN last ELSE h[j]]
  <2>2. k \in Nat /\ k % 10 \in Nat /\ k \div 10 \in 0 .. k /\ (~ (k < 10) => k \div 10 \in 0 .. m)
    <3>1. k \in Nat
      OBVIOUS
    <3> HIDE DEF k
    <3>2. k \div 10 \in Nat /\ k % 10 \in 0 .. 9 /\ k \div 10 <= k
          /\ (k >= 10 => k \div 10 < k)
      BY <3>1, Tenth
    <3>3. ~ (k < 10) => k \div 10 < k
      BY <3>1, <3>2
    <3> QED BY <3>1, <3>2, <3>3 DEF k
  <2>3. h \in [0 .. m -> Seq(Nat)]
    BY <2>1 DEF Writes
  <2>4. last \in Seq(Nat)
    <3> HIDE DEF k
    <3>1. CASE k < 10
      <4>1. 48 + k \in Nat
        BY <2>2
      <4> QED BY <4>1, <3>1
    <3>2. CASE ~ (k < 10)
      <4>1. h[k \div 10] \in Seq(Nat) /\ 48 + (k % 10) \in Nat
        BY <3>2, <2>2, <2>3
      <4> QED BY <4>1, <3>2, AppendProperties
    <3> QED BY <3>1, <3>2
  <2>5. \A j \in 0 .. k : j # k => j \in 0 .. m
    OBVIOUS
  <2> HIDE DEF last
  <2>6. g \in [0 .. k -> Seq(Nat)] /\ g[k] = last /\ \A j \in 0 .. m : g[j] = h[j]
    <3>1. \A j \in 0 .. m : j \in 0 .. k /\ j # k
      OBVIOUS
    <3>2. k \in 0 .. k
      OBVIOUS
    <3> HIDE DEF k
    <3> QED BY <3>1, <3>2, <2>3, <2>4, <2>5
  <2> HIDE DEF g, k
  <2>7. ASSUME NEW j \in 0 .. k
        PROVE  g[j] = IF j < 10 THEN <<48 + j>> ELSE Append(g[j \div 10], 48 + (j % 10))
    <3>1. CASE j = k
      <4>1. ~ (k < 10) => g[k \div 10] = h[k \div 10]
        BY <2>2, <2>6
      <4> QED BY <4>1, <3>1, <2>6 DEF last
    <3>2. CASE j # k
      <4>1. j \in 0 .. m /\ j \in Nat
        BY <3>2, <2>5
      <4>2. j \div 10 \in 0 .. m
        <5>1. j \div 10 \in Nat /\ j \div 10 <= j
          BY <4>1, Tenth
        <5> QED BY <5>1, <4>1
      <4>3. h[j] = IF j < 10 THEN <<48 + j>> ELSE Append(h[j \div 10], 48 + (j % 10))
        BY <4>1, <2>1 DEF Writes
      <4>4. g[j] = h[j] /\ g[j \div 10] = h[j \div 10]
        BY <4>1, <4>2, <2>6
      <4> QED BY <4>3, <4>4
    <3> QED BY <3>1, <3>2
  <2>8. Writes(g, k)
    BY <2>6, <2>7 DEF Writes
  <2>9. k \in 0 .. N
    BY <1>2 DEF k
  <2> QED BY <2>8, <2>9 DEF k
<1>3. N \in T
  <2>1. N \in 0 .. N
    OBVIOUS
  <2> HIDE DEF T
  <2> QED BY <2>1, <1>1, <1>2, Upward
<1> QED BY <1>3

LEMMA WritesDigits ==
    ASSUME NEW N \in Nat, NEW g, Writes(g, N), NEW n \in 0 .. N
    PROVE  g[n] = Digits(n)
<1> DEFINE f[k \in 0 .. n] == IF k < 10 THEN <<48 + k>>
                              ELSE Append(f[k \div 10], 48 + (k % 10))
<1>1. PICK h : Writes(h, n)
  BY Writing
<1>2. h = [k \in 0 .. n |-> IF k < 10 THEN <<48 + k>>
                            ELSE Append(h[k \div 10], 48 + (k % 10))]
  <2>1. /\ h \in [0 .. n -> Seq(Nat)]
        /\ \A k \in 0 .. n : h[k] = IF k < 10 THEN <<48 + k>>
                                    ELSE Append(h[k \div 10], 48 + (k % 10))
    BY <1>1 DEF Writes
  <2> QED BY <2>1
<1>3. f = [k \in 0 .. n |-> IF k < 10 THEN <<48 + k>>
                            ELSE Append(f[k \div 10], 48 + (k % 10))]
  BY <1>2 DEF f
<1>4. Digits(n) = f[n]
  BY DEF Digits
<1> HIDE DEF f
<1> DEFINE T == {k \in 0 .. n : f[k] = g[k]}
<1>5. ASSUME NEW k \in 0 .. n, \A j \in 0 .. n : j < k => j \in T PROVE k \in T
  <2>1. k \in Nat /\ k \in 0 .. N
    OBVIOUS
  <2>2. f[k] = IF k < 10 THEN <<48 + k>> ELSE Append(f[k \div 10], 48 + (k % 10))
    BY <1>3
  <2>3. g[k] = IF k < 10 THEN <<48 + k>> ELSE Append(g[k \div 10], 48 + (k % 10))
    BY <2>1 DEF Writes
  <2>4. ~ (k < 10) => f[k \div 10] = g[k \div 10]
    <3>1. k \div 10 \in Nat /\ k \div 10 <= k /\ (k >= 10 => k \div 10 < k)
      BY <2>1, Tenth
    <3>2. ~ (k < 10) => k \div 10 \in 0 .. n /\ k \div 10 < k
      BY <3>1, <2>1
    <3> QED BY <3>2, <1>5
  <2> QED BY <2>2, <2>3, <2>4
<1>6. n \in T
  <2>1. n \in Nat /\ n \in 0 .. n
    OBVIOUS
  <2> HIDE DEF T
  <2> QED BY <2>1, <1>5, Strong
<1> QED BY <1>4, <1>6

\* The digits of a number are those of its tenth and the last one.
LEMMA DigitsRecur ==
    ASSUME NEW n \in Nat
    PROVE  /\ Digits(n) \in Seq(Nat)
           /\ n < 10 => Digits(n) = <<48 + n>>
           /\ n >= 10 => Digits(n) = Append(Digits(n \div 10), 48 + (n % 10))
<1>1. PICK g : Writes(g, n)
  BY Writing
<1>2. n \in 0 .. n /\ (n >= 10 => n \div 10 \in 0 .. n /\ ~ (n < 10))
  <2>1. n \div 10 \in Nat /\ n \div 10 <= n
    BY Tenth
  <2> QED BY <2>1
<1>3. /\ g[n] \in Seq(Nat)
      /\ g[n] = IF n < 10 THEN <<48 + n>> ELSE Append(g[n \div 10], 48 + (n % 10))
  BY <1>1, <1>2 DEF Writes
<1>4. g[n] = Digits(n) /\ (n >= 10 => g[n \div 10] = Digits(n \div 10))
  BY <1>1, <1>2, WritesDigits
<1> QED BY <1>2, <1>3, <1>4

LEMMA DigitsLonger ==
    ASSUME NEW n \in Nat, ~ (n < 10)
    PROVE  \E q \in Nat, r \in 0 .. 9 :
              n = 10 * q + r /\ q < n /\ Digits(n) = Append(Digits(q), 48 + r)
<1> DEFINE q == n \div 10
           r == n % 10
<1>1. n >= 10 /\ q \in Nat /\ r \in 0 .. 9 /\ q * 10 + r = n /\ (n >= 10 => q < n)
  BY Tenth
<1>2. Digits(n) = Append(Digits(q), 48 + r)
  BY <1>1, DigitsRecur, Zenon
<1> HIDE DEF q, r
<1>3. n = 10 * q + r /\ q < n
  BY <1>1
<1> QED BY <1>1, <1>2, <1>3

\* The digits of a number write it.
LEMMA DigitsWrite ==
    ASSUME NEW n \in Nat
    PROVE  /\ Digits(n) \in Seq(48 .. 57) /\ Digits(n) \in Seq(Int) /\ Digits(n) \in Text
           /\ Len(Digits(n)) \in Nat /\ Len(Digits(n)) >= 1
           /\ Number(Digits(n), 10) = n
<1> DEFINE T == {k \in 0 .. n : /\ Digits(k) \in Seq(48 .. 57)
                                /\ Len(Digits(k)) >= 1 /\ Number(Digits(k), 10) = k}
<1>1. ASSUME NEW k \in 0 .. n, \A j \in 0 .. n : j < k => j \in T PROVE k \in T
  <2>0. k \in Nat
    OBVIOUS
  <2>1. CASE k < 10
    <3>1. Digits(k) = <<48 + k>>
      BY <2>0, <2>1, DigitsRecur
    <3>2. 48 + k \in 48 .. 57 /\ 48 + k \in Int /\ 10 \in Nat
      BY <2>0, <2>1
    <3>3. <<48 + k>> \in Seq(48 .. 57) /\ Len(<<48 + k>>) = 1
      BY <3>2
    <3>4. Number(<<48 + k>>, 10) = DigitOf(48 + k)
      BY <3>2, NumberFew
    <3>5. DigitOf(48 + k) = k
      BY <2>0, <2>1 DEF DigitOf
    <3>6. Digits(k) \in Seq(48 .. 57) /\ Len(Digits(k)) >= 1 /\ Number(Digits(k), 10) = k
      BY <3>1, <3>3, <3>4, <3>5
    <3> QED BY <3>6
  <2>2. CASE ~ (k < 10)
    <3>0. PICK j \in Nat, r \in 0 .. 9 :
             k = 10 * j + r /\ j < k /\ Digits(k) = Append(Digits(j), 48 + r)
      BY <2>0, <2>2, DigitsLonger
    <3> DEFINE c == 48 + r
    <3>1. j \in 0 .. n /\ j < k /\ c \in 48 .. 57 /\ j * 10 + (c - 48) = k /\ ~ (c > 96)
      BY <3>0, <2>0
    <3>2. Digits(k) = Append(Digits(j), c)
      BY <3>0
    <3> HIDE DEF c
    <3>3. Digits(j) \in Seq(48 .. 57) /\ Number(Digits(j), 10) = j
      BY <3>1, <1>1
    <3>4. Digits(j) \in Seq(Int)
      <4>1. Digits(j) \in Seq(Nat)
        BY <3>1, DigitsRecur
      <4> QED BY <4>1, NatInt
    <3>5. Append(Digits(j), c) \in Seq(48 .. 57) /\ Len(Append(Digits(j), c)) >= 1
      BY <3>1, <3>3, Last1
    <3>6. Number(Append(Digits(j), c), 10) = Number(Digits(j), 10) * 10 + DigitOf(c)
      <4>1. c \in Int /\ 10 \in Nat
        BY <3>1
      <4> QED BY <4>1, <3>4, NumberAppend
    <3>7. Number(Append(Digits(j), c), 10) = k
      BY <3>1, <3>3, <3>6 DEF DigitOf
    <3> QED BY <3>2, <3>5, <3>7
  <2> QED BY <2>1, <2>2
<1>2. n \in T
  <2>1. n \in 0 .. n
    OBVIOUS
  <2> HIDE DEF T
  <2> QED BY <2>1, <1>1, Strong
<1>3. Digits(n) \in Seq(Nat)
  BY DigitsRecur
<1>4. Digits(n) \in Seq(Int)
  BY <1>3, NatInt
<1>5. Len(Digits(n)) \in Nat
  BY <1>3, LenProperties
<1> QED BY <1>2, <1>3, <1>4, <1>5 DEF Text

LEMMA LengthLonger ==
    ASSUME NEW k \in Nat, ~ (k < 10), NEW d \in Nat, k < 10 * d
    PROVE  \E q \in Nat : q < d /\ Len(Digits(k)) = Len(Digits(q)) + 1
<1>1. PICK q \in Nat, r \in 0 .. 9 :
         k = 10 * q + r /\ q < k /\ Digits(k) = Append(Digits(q), 48 + r)
  BY DigitsLonger
<1>2. q < d
  BY <1>1
<1> DEFINE t == Digits(q)
           c == 48 + r
<1>3. t \in Seq(Nat) /\ c \in Nat
  BY DigitsRecur
<1>4. Digits(k) = Append(t, c)
  BY <1>1
<1> HIDE DEF t, c
<1>5. Len(Append(t, c)) = Len(t) + 1
  BY <1>3, Last1
<1> QED BY <1>2, <1>4, <1>5 DEF t

\* Numbers below n have no more than l digits.
Short(n, l) == \A k \in Nat : k < n => Len(Digits(k)) <= l

LEMMA ShortTen == Short(10, 1)
<1>1. ASSUME NEW k \in Nat, k < 10 PROVE Len(Digits(k)) <= 1
  <2>1. Digits(k) = <<48 + k>>
    BY <1>1, DigitsRecur
  <2> QED BY <2>1
<1> QED BY <1>1 DEF Short

LEMMA ShortStep ==
    ASSUME NEW n \in Nat, NEW l \in Nat, l >= 1, Short(n, l)
    PROVE  Short(10 * n, l + 1)
<1>1. ASSUME NEW k \in Nat, k < 10 * n PROVE Len(Digits(k)) <= l + 1
  <2>1. CASE k < 10
    <3>1. Digits(k) = <<48 + k>>
      BY ZenonT(30), <2>1, DigitsRecur
    <3>2. Len(Digits(k)) = 1
      BY <3>1
    <3> QED BY <3>2
  <2>2. CASE ~ (k < 10)
    <3>1. PICK q \in Nat : q < n /\ Len(Digits(k)) = Len(Digits(q)) + 1
      BY SMTT(30), <2>2, <1>1, LengthLonger
    <3>2. Len(Digits(q)) <= l
      BY <3>1 DEF Short
    <3>3. Len(Digits(q)) \in Nat
      BY DigitsWrite
    <3> QED BY <3>1, <3>2, <3>3
  <2> QED BY <2>1, <2>2
<1> QED BY <1>1 DEF Short

\* A year of four digits.
Four(a, b, c, d) == <<a, b, c, d>>
FourDigits(text, n) ==
    \E a, b, c, d \in 48 .. 57 : text = Four(a, b, c, d) /\ Number(text, 10) = n

\* Years have four digits.
LEMMA PadFour ==
    ASSUME NEW n \in Nat, n < 10000
    PROVE  FourDigits(Pad(n, 4), n)
<1>3. Len(Digits(n)) <= 4
  <2>1. Short(10 * 10, 1 + 1)
    BY ShortTen, ShortStep
  <2>2. Short(100, 2)
    BY <2>1
  <2>3. Short(10 * 100, 2 + 1)
    BY <2>2, ShortStep
  <2>4. Short(1000, 3)
    BY <2>3
  <2>5. Short(10 * 1000, 3 + 1)
    BY <2>4, ShortStep
  <2>6. Short(10000, 4)
    BY <2>5
  <2> QED BY <2>6 DEF Short
<1> DEFINE s == Digits(n)
           z == [i \in 1 .. 4 - Len(s) |-> 48]
           t == z \o s
<1>7. s \in Seq(48 .. 57) /\ Len(s) \in 1 .. 4 /\ s \in Seq(Int) /\ Number(s, 10) = n
  <2>1. Len(Digits(n)) <= 4
    BY <1>3
  <2>2. /\ Digits(n) \in Seq(48 .. 57) /\ Digits(n) \in Seq(Int) /\ Len(Digits(n)) \in Nat
        /\ Len(Digits(n)) >= 1 /\ Number(Digits(n), 10) = n
    BY DigitsWrite
  <2>3. Len(Digits(n)) \in 1 .. 4
    <3> DEFINE l == Len(Digits(n))
    <3>1. l \in Nat
      BY <2>2
    <3>2. l >= 1 /\ l <= 4
      BY <2>1, <2>2
    <3> HIDE DEF l
    <3>3. l \in 1 .. 4
      BY <3>1, <3>2
    <3> QED BY <3>3 DEF l
  <2> QED BY <2>2, <2>3
<1>8. Pad(n, 4) = t
  BY DEF Pad
<1> HIDE DEF s
<1>9. z \in Seq(48 .. 57) /\ z \in Seq(Int) /\ Len(z) = 4 - Len(s) /\ \A i \in 1 .. Len(z) : z[i] = 48
  <2>1. 4 - Len(s) \in Nat
    <3> DEFINE l == Len(s)
    <3>1. l \in 1 .. 4
      BY <1>7
    <3> HIDE DEF l
    <3>2. 4 - l \in Nat
      BY <3>1
    <3> QED BY <3>2 DEF l
  <2> QED BY <2>1
<1> HIDE DEF z
<1>10. Number(t, 10) = n
  <2>1. 10 \in Nat
    OBVIOUS
  <2> QED BY <2>1, <1>7, <1>9, NumberPadded
<1>11. t \in Seq(48 .. 57) /\ Len(t) = 4
  <2>1. z \in Seq(48 .. 57) /\ s \in Seq(48 .. 57)
    BY <1>7, <1>9
  <2>2. t \in Seq(48 .. 57) /\ Len(t) = Len(z) + Len(s)
    BY <2>1, Joined
  <2> QED BY <2>2, <1>7, <1>9
<1> HIDE DEF t
<1>12. t[1] \in 48 .. 57 /\ t[2] \in 48 .. 57 /\ t[3] \in 48 .. 57 /\ t[4] \in 48 .. 57
  <2> DEFINE C == 48 .. 57
  <2>1. t \in Seq(C) /\ Len(t) = 4
    BY <1>11
  <2> HIDE DEF C, t
  <2>2. \A i \in 1 .. Len(t) : t[i] \in C
    <3>1. t \in Seq(C)
      BY <2>1
    <3> QED BY <3>1, ElementOfSeq
  <2>3. 1 \in 1 .. Len(t) /\ 2 \in 1 .. Len(t) /\ 3 \in 1 .. Len(t) /\ 4 \in 1 .. Len(t)
    BY <2>1
  <2>4. t[1] \in C /\ t[2] \in C /\ t[3] \in C /\ t[4] \in C
    BY <2>2, <2>3
  <2> QED BY <2>4 DEF C
<1>13. t = <<t[1], t[2], t[3], t[4]>>
  <2>1. \A i \in 1 .. Len(t) : t[i] = <<t[1], t[2], t[3], t[4]>>[i]
    BY <1>11
  <2>2. <<t[1], t[2], t[3], t[4]>> \in Seq(48 .. 57) /\ Len(<<t[1], t[2], t[3], t[4]>>) = 4
    BY <1>12
  <2> QED BY <2>1, <2>2, <1>11, SeqEqual
<1>14. Number(<<t[1], t[2], t[3], t[4]>>, 10) = n
  BY <1>10, <1>13
<1>15. Pad(n, 4) = <<t[1], t[2], t[3], t[4]>>
  BY <1>8, <1>13
<1> DEFINE a == t[1]
           b == t[2]
           c == t[3]
           d == t[4]
<1>16. a \in 48 .. 57 /\ b \in 48 .. 57 /\ c \in 48 .. 57 /\ d \in 48 .. 57
  BY <1>12
<1>17. Pad(n, 4) = <<a, b, c, d>> /\ Number(<<a, b, c, d>>, 10) = n
  BY <1>14, <1>15
<1>18. Pad(n, 4) = Four(a, b, c, d) /\ Number(Pad(n, 4), 10) = n
  BY <1>17 DEF Four
<1> HIDE DEF a, b, c, d
<1> QED BY <1>16, <1>18 DEF FourDigits

-----------------------------------------------------------------------------
(* Bytes, in hexadecimal.                                                  *)

LEMMA Halves ==
    ASSUME NEW S, NEW s \in Seq(S), NEW t \in Seq(S)
    PROVE  /\ SubSeq(s \o t, 1, Len(s)) = s
           /\ SubSeq(s \o t, Len(s) + 1, Len(s) + Len(t)) = t
<1> DEFINE u == s \o t
<1>1. u \in Seq(S) /\ Len(s) \in Nat /\ Len(t) \in Nat
  BY Joined
<1>2. Stands(u, 0, u) /\ Len(u) \in Nat
  BY <1>1, StandsWhole
<1>3. Stands(u, 0, s) /\ Stands(u, 0 + Len(s), t)
  <2>1. 0 \in Nat
    OBVIOUS
  <2> QED BY <1>2, <2>1, StandsJoined
<1> HIDE DEF u
<1>4. 0 + Len(s) = Len(s)
  BY <1>1
<1>5. SubSeq(u, 0 + 1, 0 + Len(s)) = s
  <2>1. 0 \in Nat
    OBVIOUS
  <2> QED BY <1>1, <1>3, <2>1, StandsFound
<1>6. SubSeq(u, Len(s) + 1, Len(s) + Len(t)) = t
  <2>1. Stands(u, Len(s), t)
    BY <1>3, <1>4
  <2> QED BY <2>1, <1>1, StandsFound
<1>7. 0 + 1 = 1
  OBVIOUS
<1> QED BY <1>4, <1>5, <1>6, <1>7 DEF u


LEMMA PairsStand ==
    ASSUME NEW S, NEW ss \in Seq(Seq(S)), \A k \in 1 .. Len(ss) : Len(ss[k]) = 2
    PROVE  /\ FlattenSeq(ss) \in Seq(S) /\ Len(FlattenSeq(ss)) = 2 * Len(ss)
           /\ \A k \in 1 .. Len(ss) : Stands(FlattenSeq(ss), 2 * (k - 1), ss[k])
<1> DEFINE N == Len(ss)
           t == FlattenSeq(ss)
<1>1. PICK p : Parts(p, ss, S) /\ p[N] = t
  BY Flattening
<1>2. /\ N \in Nat /\ \A k \in 0 .. N : p[k] \in Seq(S)
      /\ Len(p[0]) = 0
      /\ \A k \in 1 .. N : Len(p[k]) = Len(p[k - 1]) + Len(ss[k])
  <2>1. Parts(p, ss, S)
    BY <1>1
  <2>2. ASSUME NEW k \in 1 .. Len(ss) PROVE Len(p[k]) = Len(p[k - 1]) + Len(ss[k])
    <3> HIDE DEF N, t
    <3> QED BY ZenonT(30), <2>1, PartStep
  <2> QED BY <2>1, <2>2, PartTypes
<1>3. \A k \in 1 .. N : Len(ss[k]) = 2
  OBVIOUS
<1> HIDE DEF N, t
<1> DEFINE T == {k \in 0 .. N : Len(p[k]) = 2 * k}
<1>4. 0 \in T
  BY <1>2
<1>5. ASSUME NEW k \in 0 .. N, k \in T, k < N PROVE k + 1 \in T
  <2>1. k + 1 \in 1 .. N /\ k + 1 \in 0 .. N /\ (k + 1) - 1 = k /\ 2 * (k + 1) = 2 * k + 2
    BY <1>2, <1>5
  <2>2. Len(p[k + 1]) = Len(p[k]) + Len(ss[k + 1])
    BY <2>1, <1>2
  <2> QED BY <2>1, <2>2, <1>3, <1>5
<1>6. \A k \in 0 .. N : Len(p[k]) = 2 * k
  <2>1. \A k \in 0 .. N : k \in T
    <3> HIDE DEF T
    <3> QED BY <1>2, <1>4, <1>5, Upward
  <2> QED BY <2>1
<1>7. t \in Seq(S) /\ Len(t) = 2 * N
  <2>1. N \in 0 .. N
    BY <1>2
  <2> QED BY <2>1, <1>1, <1>2, <1>6
<1>8. ASSUME NEW k \in 1 .. N PROVE Stands(t, 2 * (k - 1), ss[k])
  <2>1. Stands(t, 0, p[N])
    BY <1>1, <1>7, StandsWhole
  <2>2. \A j \in 1 .. N : Stands(t, 0 + Len(p[j - 1]), ss[j])
    <3>1. 0 \in Nat /\ Len(t) \in Nat
      BY <1>7, LenProperties
    <3>2. Stands(t, 0, p[Len(ss)])
      BY <2>1 DEF N
    <3>3. Parts(p, ss, S)
      BY <1>1
    <3>4. \A j \in 1 .. Len(ss) : Stands(t, 0 + Len(p[j - 1]), ss[j])
      BY <3>1, <3>2, <3>3, PartsStand
    <3> QED BY <3>4 DEF N
  <2>3. k - 1 \in 0 .. N /\ 0 + 2 * (k - 1) = 2 * (k - 1)
    BY <1>2
  <2>4. Len(p[k - 1]) = 2 * (k - 1)
    BY <2>3, <1>6
  <2> QED BY <2>2, <2>3, <2>4
<1> QED BY <1>7, <1>8 DEF N, t

\* Two hexadecimal digits give the byte back.
LEMMA HexPair ==
    ASSUME NEW b \in 0 .. 255
    PROVE  /\ Hex(b \div 16) \in Nat /\ Hex(b % 16) \in Nat
           /\ Hex(b \div 16) \notin {Backslash, DoubleQuote}
           /\ Hex(b % 16) \notin {Backslash, DoubleQuote}
           /\ Number(<<Hex(b \div 16), Hex(b % 16)>>, 16) = b
<1> DEFINE q == b \div 16
           r == b % 16
<1>1. q \in 0 .. 15 /\ r \in 0 .. 15 /\ q * 16 + r = b
  <2>1. b % 16 = b - 16 * (b \div 16)
    OBVIOUS
  <2>2. b % 16 \in 0 .. 15 /\ b \div 16 \in Nat
    OBVIOUS
  <2> QED BY <2>1, <2>2
<1> HIDE DEF q, r
<1>2. \A h \in 0 .. 15 : Hex(h) \in Nat /\ Hex(h) \notin {Backslash, DoubleQuote}
                         /\ DigitOf(Hex(h)) = h
  BY DEF Hex, DigitOf, Backslash, DoubleQuote
<1>3. Hex(q) \in Nat /\ Hex(r) \in Nat /\ Hex(q) \notin {Backslash, DoubleQuote}
      /\ Hex(r) \notin {Backslash, DoubleQuote} /\ DigitOf(Hex(q)) = q /\ DigitOf(Hex(r)) = r
  BY <1>1, <1>2
<1> DEFINE x == Hex(q)
           y == Hex(r)
<1> HIDE DEF x, y
<1>4. x \in Int /\ y \in Int /\ 16 \in Nat
  BY <1>3 DEF x, y
<1>5. Number(<<x, y>>, 16) = DigitOf(x) * 16 + DigitOf(y)
  BY <1>4, NumberFew
<1>6. Number(<<x, y>>, 16) = b
  BY <1>1, <1>3, <1>5 DEF x, y
<1> QED BY <1>3, <1>6 DEF x, y, q, r

LEMMA StandsInside ==
    ASSUME NEW source, NEW o \in Nat, NEW t, NEW d \in Nat, NEW u,
           Len(source) \in Nat, Len(t) \in Nat, Len(u) \in Nat,
           Stands(source, o, t), Stands(t, d, u)
    PROVE  Stands(source, o + d, u)
<1>1. (o + d) + Len(u) <= Len(source)
  BY DEF Stands
<1>2. ASSUME NEW i \in 1 .. Len(u) PROVE source[(o + d) + i] = u[i]
  <2>1. (o + d) + i = o + (d + i) /\ d + i \in 1 .. Len(t)
    BY DEF Stands
  <2>2. t[d + i] = u[i]
    BY DEF Stands
  <2>3. source[o + (d + i)] = t[d + i]
    BY <2>1 DEF Stands
  <2> QED BY <2>1, <2>2, <2>3
<1> QED BY <1>1, <1>2 DEF Stands

\* What is written in hexadecimal: an "x", and two digits for a byte.
HexDigits(bytes) == [i \in DOMAIN bytes |-> <<Hex(bytes[i] \div 16), Hex(bytes[i] % 16)>>]

\* The two digits of every byte.
LEMMA HexWritten ==
    ASSUME NEW bytes \in Seq(0 .. 255)
    PROVE  /\ HexDigits(bytes) \in Seq(Seq(Nat)) /\ Len(HexDigits(bytes)) = Len(bytes)
           /\ \A k \in 1 .. Len(bytes) :
                 /\ HexDigits(bytes)[k] = <<Hex(bytes[k] \div 16), Hex(bytes[k] % 16)>>
                 /\ Len(HexDigits(bytes)[k]) = 2
                 /\ Number(HexDigits(bytes)[k], 16) = bytes[k]
                 /\ \A i \in 1 .. 2 : HexDigits(bytes)[k][i] \notin {Backslash, DoubleQuote}
           /\ SerializeByteA(bytes) = <<Backslash, 120>> \o FlattenSeq(HexDigits(bytes))
<1> DEFINE N == Len(bytes)
           ss == HexDigits(bytes)
<1>1. N \in Nat /\ DOMAIN bytes = 1 .. N /\ \A k \in 1 .. N : bytes[k] \in 0 .. 255
  <2> DEFINE B == 0 .. 255
  <2>1. bytes \in Seq(B)
    OBVIOUS
  <2> HIDE DEF B
  <2>2. N \in Nat /\ DOMAIN bytes = 1 .. N
    BY <2>1, LenProperties
  <2>3. \A k \in 1 .. N : bytes[k] \in B
    BY <2>1, ElementOfSeq
  <2> QED BY <2>2, <2>3 DEF B
<1>2. ss = [k \in 1 .. N |-> <<Hex(bytes[k] \div 16), Hex(bytes[k] % 16)>>]
  BY <1>1 DEF HexDigits
<1> HIDE DEF ss
<1>3. ASSUME NEW k \in 1 .. N
      PROVE  /\ ss[k] = <<Hex(bytes[k] \div 16), Hex(bytes[k] % 16)>>
             /\ ss[k] \in Seq(Nat) /\ Len(ss[k]) = 2 /\ Number(ss[k], 16) = bytes[k]
             /\ \A i \in 1 .. 2 : ss[k][i] \notin {Backslash, DoubleQuote}
  <2> DEFINE b == bytes[k]
             x == Hex(b \div 16)
             y == Hex(b % 16)
  <2>1. b \in 0 .. 255
    BY <1>1
  <2>2. ss[k] = <<x, y>>
    BY <1>2
  <2> HIDE DEF b
  <2>3. /\ x \in Nat /\ y \in Nat /\ x \notin {Backslash, DoubleQuote}
        /\ y \notin {Backslash, DoubleQuote} /\ Number(<<x, y>>, 16) = b
    BY <2>1, HexPair
  <2> HIDE DEF x, y
  <2>4. <<x, y>> \in Seq(Nat) /\ Len(<<x, y>>) = 2
        /\ \A i \in 1 .. 2 : <<x, y>>[i] \notin {Backslash, DoubleQuote}
    BY <2>3
  <2> QED BY <2>2, <2>3, <2>4 DEF b, x, y
<1>4. ss \in Seq(Seq(Nat)) /\ Len(ss) = N
  <2>1. ss \in [1 .. N -> Seq(Nat)]
    BY <1>2, <1>3
  <2> QED BY <2>1, <1>1
<1>5. SerializeByteA(bytes) = <<Backslash, 120>> \o FlattenSeq(ss)
  BY DEF SerializeByteA, ss, HexDigits
<1> QED BY <1>3, <1>4, <1>5 DEF ss

\* Bytes come back from what serialize() writes, and PostgreSQL.
LEMMA ReadHex ==
    ASSUME NEW bytes \in Seq(0 .. 255)
    PROVE  /\ SerializeByteA(bytes) \in Text /\ SerializeByteA(bytes) # <<>>
           /\ ParseByteA(SerializeByteA(bytes)) = bytes
<1> DEFINE N == Len(bytes)
           ss == HexDigits(bytes)
           flat == FlattenSeq(ss)
           x == <<Backslash, 120>>
           text == x \o flat
<1>1. /\ ss \in Seq(Seq(Nat)) /\ Len(ss) = N
      /\ \A k \in 1 .. N : Len(ss[k]) = 2 /\ Number(ss[k], 16) = bytes[k]
  BY HexWritten
<1>2. SerializeByteA(bytes) = text
  BY HexWritten
<1>3. N \in Nat /\ DOMAIN bytes = 1 .. N
  BY LenProperties
<1> HIDE DEF ss, N
<1>4. flat \in Seq(Nat) /\ Len(flat) = 2 * N
      /\ \A k \in 1 .. N : Stands(flat, 2 * (k - 1), ss[k])
  <2>1. ss \in Seq(Seq(Nat)) /\ \A k \in 1 .. Len(ss) : Len(ss[k]) = 2
    BY <1>1
  <2>2. flat \in Seq(Nat) /\ Len(flat) = 2 * Len(ss)
        /\ \A k \in 1 .. Len(ss) : Stands(flat, 2 * (k - 1), ss[k])
    BY <2>1, PairsStand
  <2> QED BY <2>2, <1>1
<1>5. x \in Seq(Nat) /\ Len(x) = 2
  BY DEF Backslash
<1> HIDE DEF flat, x
<1>6. /\ text \in Seq(Nat) /\ Len(text) = 2 + 2 * N
      /\ SubSeq(text, 1, 2) = x /\ Stands(text, 2, flat)
  <2>1. x \in Seq(Nat) /\ flat \in Seq(Nat)
    BY <1>4, <1>5
  <2>2. text \in Seq(Nat) /\ Len(text) = Len(x) + Len(flat)
    BY <2>1, Joined
  <2>3. SubSeq(text, 1, Len(x)) = x
    BY <2>1, Halves
  <2>4. \A i \in 1 .. Len(flat) : text[Len(x) + i] = flat[i]
    BY <2>1, Joined
  <2> HIDE DEF text
  <2>5. Stands(text, 2, flat)
    BY <2>2, <2>4, <1>4, <1>5, <1>3 DEF Stands
  <2> QED BY <2>2, <2>3, <2>5, <1>4, <1>5
<1> HIDE DEF text
<1>7. IsPrefix(<<Backslash, 120>>, text)
  <2>1. SubSeq(x, 1, Len(x)) = x
    BY <1>5, SubSeqFull
  <2>2. 2 <= Len(text)
    BY <1>3, <1>6
  <2>3. IsPrefix(x, text)
    BY <2>1, <2>2, <1>5, <1>6 DEF IsPrefix
  <2> QED BY <2>3 DEF x
<1>8. ParseByteA(text) = [n \in 1 .. (Len(text) - 2) \div 2 |->
                             Number(SubSeq(text, 2 * n + 1, 2 * n + 2), 16)]
  BY <1>7 DEF ParseByteA, ParseEncoded
<1>9. (Len(text) - 2) \div 2 = N
  BY <1>3, <1>6
<1>10. ASSUME NEW n \in 1 .. N
       PROVE  Number(SubSeq(text, 2 * n + 1, 2 * n + 2), 16) = bytes[n]
  <2>0. n \in Nat /\ 2 * (n - 1) \in Nat /\ 2 + 2 * (n - 1) = 2 * n /\ 2 * n \in Nat
    BY <1>3
  <2>1. Stands(text, 2 + 2 * (n - 1), ss[n])
    <3> DEFINE d == 2 * (n - 1)
               u == ss[n]
    <3>1. d \in Nat /\ Stands(flat, d, u)
      BY <2>0, <1>4
    <3>2. Len(u) \in Nat
      BY <1>1
    <3>3. Len(text) \in Nat /\ Len(flat) \in Nat
      BY <1>3, <1>4, <1>6
    <3> HIDE DEF d, u
    <3>4. Stands(text, 2 + d, u)
      BY <3>1, <3>2, <3>3, <1>6, StandsInside
    <3> QED BY <3>4 DEF d, u
  <2>2. Stands(text, 2 * n, ss[n])
    BY <2>0, <2>1
  <2>3. ss[n] \in Seq(Nat) /\ Len(ss[n]) = 2 /\ Number(ss[n], 16) = bytes[n]
    <3>1. \A k \in 1 .. Len(ss) : ss[k] \in Seq(Nat)
      BY <1>1, ElementOfSeq
    <3> QED BY <3>1, <1>1
  <2>4. SubSeq(text, 2 * n + 1, 2 * n + Len(ss[n])) = ss[n]
    <3> DEFINE d == 2 * n
               u == ss[n]
    <3>1. d \in Nat /\ Stands(text, d, u) /\ u \in Seq(Nat) /\ text \in Seq(Nat)
      BY <2>0, <2>2, <2>3, <1>6
    <3> HIDE DEF d, u
    <3>2. SubSeq(text, d + 1, d + Len(u)) = u
      BY <3>1, StandsFound
    <3> QED BY <3>2 DEF d, u
  <2> QED BY <2>3, <2>4
<1>11. ParseByteA(text) = [n \in 1 .. N |-> bytes[n]]
  BY <1>8, <1>9, <1>10
<1>12. bytes = [n \in 1 .. N |-> bytes[n]]
  BY <1>3
<1>13. text # <<>>
  BY <1>3, <1>6
<1> QED BY <1>2, <1>6, <1>11, <1>12, <1>13 DEF Text

-----------------------------------------------------------------------------
(* Bytes, escaped.                                                         *)

LEMMA Least ==
    ASSUME NEW N \in Nat, NEW U, U \subseteq 0 .. N, U # {}
    PROVE  \E n \in U : \A m \in U : n <= m
<1> SUFFICES ASSUME \A n \in U : \E m \in U : ~ (n <= m)
             PROVE FALSE
  OBVIOUS
<1> DEFINE T == {n \in 0 .. N : n \notin U}
<1>1. ASSUME NEW n \in 0 .. N, \A m \in 0 .. N : m < n => m \in T PROVE n \in T
  <2>1. SUFFICES ASSUME n \in U PROVE FALSE
    OBVIOUS
  <2>2. PICK m \in U : ~ (n <= m)
    BY <2>1
  <2>3. m \in 0 .. N /\ m < n
    BY <2>2
  <2> QED BY <2>3, <1>1
<1>2. \A n \in 0 .. N : n \in T
  <2> HIDE DEF T
  <2> QED BY <1>1, Strong
<1> QED BY <1>2

\* What may be done until it is no longer possible, and goes up, reaches the top.
LEMMA Climb ==
    ASSUME NEW N \in Nat, NEW T, 0 \in T,
           \A k \in 0 .. N : k \in T /\ k < N => \E j \in 0 .. N : k < j /\ j \in T
    PROVE  N \in T
<1> DEFINE U == {k \in 0 .. N : \E j \in 0 .. N : k <= j /\ j \in T}
<1>1. 0 \in U
  OBVIOUS
<1>2. ASSUME NEW k \in 0 .. N, k \in U, k < N PROVE k + 1 \in U
  <2>1. PICK j \in 0 .. N : k <= j /\ j \in T
    BY <1>2
  <2>2. CASE k < j
    BY <2>1, <2>2
  <2>3. CASE ~ (k < j)
    <3>1. j = k
      BY <2>1, <2>3
    <3>2. PICK i \in 0 .. N : k < i /\ i \in T
      BY <2>1, <3>1, <1>2
    <3>3. k + 1 <= i
      BY <3>2
    <3>4. k + 1 \in 0 .. N
      BY <1>2
    <3> QED BY <3>2, <3>3, <3>4
  <2> QED BY <2>2, <2>3
<1>3. N \in U
  <2>1. N \in 0 .. N
    OBVIOUS
  <2> HIDE DEF U
  <2> QED BY <2>1, <1>1, <1>2, Upward
<1>4. PICK j \in 0 .. N : N <= j /\ j \in T
  BY <1>3
<1>5. j = N
  BY <1>4
<1> QED BY <1>4, <1>5

\* g[n] is the state of parseEscaped() after n rounds.
Unescapes(g, text) ==
    /\ g[0] = [i |-> 1, bytes |-> <<>>]
    /\ \A n \in 1 .. Len(text) : g[n] = Unescape(text, g[n - 1])

\* The rounds of parseEscaped().
LEMMA Unescaping ==
    ASSUME NEW text \in Text
    PROVE  \E g : Unescapes(g, text) /\ ParseEscaped(text) = g[Len(text)].bytes
<1> DEFINE L == Len(text)
           base == [i |-> 1, bytes |-> <<>>]
           f[n \in 0 .. L] == IF n = 0 THEN base ELSE Unescape(text, f[n - 1])
           T == {m \in 0 .. L : \E g : g = [n \in 0 .. m |->
                                    IF n = 0 THEN base ELSE Unescape(text, g[n - 1])]}
<1>1. L \in Nat
  BY LenProperties DEF Text
<1>2. ParseEscaped(text) = f[L].bytes
  BY DEF ParseEscaped
<1> HIDE DEF L, base
<1>3. 0 \in T
  <2> DEFINE g == [n \in 0 .. 0 |-> base]
  <2>1. g = [n \in 0 .. 0 |-> IF n = 0 THEN base ELSE Unescape(text, g[n - 1])]
    <3>1. \A n \in 0 .. 0 : n = 0
      OBVIOUS
    <3> QED BY <3>1
  <2> HIDE DEF g
  <2>2. 0 \in 0 .. L
    BY <1>1
  <2> QED BY <2>1, <2>2
<1>4. ASSUME NEW m \in 0 .. L, m \in T, m < L PROVE m + 1 \in T
  <2>1. PICK h : h = [n \in 0 .. m |-> IF n = 0 THEN base ELSE Unescape(text, h[n - 1])]
    BY <1>4
  <2> DEFINE g == [n \in 0 .. (m + 1) |-> IF n = m + 1 THEN Unescape(text, h[m]) ELSE h[n]]
  <2>2. ASSUME NEW n \in 0 .. (m + 1)
        PROVE  g[n] = IF n = 0 THEN base ELSE Unescape(text, g[n - 1])
    <3>1. CASE n = 0
      <4>1. 0 # m + 1 /\ 0 \in 0 .. m
        OBVIOUS
      <4>2. g[n] = h[0] /\ h[0] = base
        BY <3>1, <4>1, <2>1
      <4> QED BY <4>2, <3>1
    <3>2. CASE n # 0
      <4>1. n - 1 \in 0 .. m /\ n - 1 # m + 1 /\ n - 1 \in 0 .. (m + 1)
        BY <3>2
      <4>2. g[n - 1] = h[n - 1]
        BY <4>1
      <4>3. g[n] = Unescape(text, h[n - 1])
        <5>1. CASE n = m + 1
          <6>1. n - 1 = m /\ g[n] = Unescape(text, h[m])
            BY <5>1
          <6> QED BY <6>1
        <5>2. CASE n # m + 1
          <6>1. n \in 0 .. m /\ g[n] = h[n]
            BY <5>2
          <6>2. h[n] = Unescape(text, h[n - 1])
            BY <6>1, <2>1, <3>2
          <6> QED BY <6>1, <6>2
        <5> QED BY <5>1, <5>2
      <4> HIDE DEF g
      <4> QED BY <4>2, <4>3, <3>2
    <3> QED BY <3>1, <3>2
  <2>3. g = [n \in 0 .. (m + 1) |-> g[n]]
    OBVIOUS
  <2> HIDE DEF g
  <2>4. g = [n \in 0 .. (m + 1) |-> IF n = 0 THEN base ELSE Unescape(text, g[n - 1])]
    BY <2>2, <2>3
  <2>5. m + 1 \in 0 .. L
    BY <1>1, <1>4
  <2> QED BY <2>4, <2>5
<1>5. L \in T
  <2>1. L \in 0 .. L
    BY <1>1
  <2> HIDE DEF T
  <2> QED BY <2>1, <1>1, <1>3, <1>4, Upward
<1>6. f = [n \in 0 .. L |-> IF n = 0 THEN base ELSE Unescape(text, f[n - 1])]
  <2> HIDE DEF base
  <2> QED BY <1>5 DEF f
<1> HIDE DEF f
<1>7. f[0] = base
  BY <1>1, <1>6
<1>8. ASSUME NEW n \in 1 .. L PROVE f[n] = Unescape(text, f[n - 1])
  <2>1. n \in 0 .. L /\ n # 0
    BY <1>1
  <2> QED BY <2>1, <1>6
<1>9. Unescapes(f, text)
  BY <1>7, <1>8 DEF Unescapes, base, L
<1> QED BY <1>2, <1>9 DEF L

\* The three cases of a round.
LEMMA UnescapePlain ==
    ASSUME NEW text \in Text, NEW a \in 1 .. Len(text), NEW bs, text[a] # Backslash
    PROVE  Unescape(text, [i |-> a, bytes |-> bs])
                = [i |-> a + 1, bytes |-> Append(bs, text[a])]
<1>1. Len(text) \in Nat
  BY LenProperties DEF Text
<1>2. ~ (a > Len(text))
  BY <1>1
<1> QED BY <1>2 DEF Unescape

\* A byte in octal.
LEMMA UnescapeOctal ==
    ASSUME NEW text \in Text, NEW a \in 1 .. Len(text), NEW bs, text[a] = Backslash,
           a + 3 <= Len(text), \A d \in 1 .. 3 : text[a + d] \in 48 .. 55
    PROVE  Unescape(text, [i |-> a, bytes |-> bs])
                = [i |-> a + 4, bytes |-> Append(bs, Number(SubSeq(text, a + 1, a + 3), 8))]
<1>1. Len(text) \in Nat
  BY LenProperties DEF Text
<1>2. ~ (a > Len(text))
  BY <1>1
<1> QED BY <1>2 DEF Unescape

\* A run of backslashes: half of them are meant.
LEMMA UnescapeRun ==
    ASSUME NEW text \in Text, NEW a \in 1 .. Len(text), NEW bs, NEW r \in Nat, r >= 1,
           a + 2 * r <= Len(text) + 1,
           \A m \in a .. a + 2 * r - 1 : text[m] = Backslash,
           a + 2 * r <= Len(text) => text[a + 2 * r] # Backslash
    PROVE  Unescape(text, [i |-> a, bytes |-> bs])
                = [i |-> a + 2 * r, bytes |-> bs \o [k \in 1 .. r |-> Backslash]]
<1> DEFINE L == Len(text)
           q == 2 * r
           P(n) == /\ \A k \in a .. a + n - 1 : k <= L /\ text[k] = Backslash
                   /\ a + n > L \/ text[a + n] # Backslash
           octal == a + 3 <= L /\ \A d \in 1 .. 3 : text[a + d] \in 48 .. 55
<1>1. L \in Nat /\ q \in Nat /\ q >= 2 /\ q \div 2 = r /\ a + q <= L + 1
  BY LenProperties DEF Text
<1>2. \A m \in a .. a + q - 1 : text[m] = Backslash
  OBVIOUS
<1>3. a + q <= L => text[a + q] # Backslash
  OBVIOUS
<1>4. ~ (a > L)
  BY <1>1
<1> HIDE DEF L, q
<1>5. text[a] = Backslash
  <2>1. a \in a .. a + q - 1
    BY <1>1
  <2> QED BY <2>1, <1>2
<1>6. ~ octal
  <2>1. a + 1 \in a .. a + q - 1 /\ 1 \in 1 .. 3
    BY <1>1
  <2>2. text[a + 1] = Backslash
    BY <2>1, <1>2
  <2>3. Backslash \notin 48 .. 55
    BY DEF Backslash
  <2> QED BY <2>1, <2>2, <2>3
<1>7. q \in 1 .. L /\ P(q)
  <2>1. q \in 1 .. L
    BY <1>1
  <2>2. \A k \in a .. a + q - 1 : k <= L
    BY <1>1
  <2>3. a + q > L \/ text[a + q] # Backslash
    BY <1>1, <1>3
  <2> QED BY <2>1, <2>2, <2>3, <1>2
<1>8. ASSUME NEW n \in 1 .. L, P(n) PROVE n = q
  <2>1. ~ (n < q)
    <3>1. SUFFICES ASSUME n < q PROVE FALSE
      OBVIOUS
    <3>2. a + n \in a .. a + q - 1 /\ ~ (a + n > L)
      BY <3>1, <1>1
    <3> QED BY <3>2, <1>2, <1>8
  <2>2. ~ (q < n)
    <3>1. SUFFICES ASSUME q < n PROVE FALSE
      OBVIOUS
    <3>2. a + q \in a .. a + n - 1
      BY <3>1, <1>1
    <3>3. a + q <= L /\ text[a + q] = Backslash
      BY <3>2, <1>8
    <3> QED BY <3>3, <1>3
  <2> QED BY <2>1, <2>2, <1>1
<1>9. (CHOOSE n \in 1 .. L : P(n)) = q
  <2> HIDE DEF P
  <2> QED BY <1>7, <1>8
<1>10. Unescape(text, [i |-> a, bytes |-> bs])
         = [i |-> a + (CHOOSE n \in 1 .. L : P(n)),
            bytes |-> bs \o [k \in 1 .. (CHOOSE n \in 1 .. L : P(n)) \div 2 |-> Backslash]]
  BY <1>4, <1>5, <1>6 DEF Unescape, L
<1>11. q \div 2 = r
  BY <1>1
<1> HIDE DEF P
<1> QED BY <1>9, <1>10, <1>11 DEF q

\* What PostgreSQL writes for a byte.
Octal(b) == <<Backslash, 48 + b \div 64, 48 + ((b \div 8) % 8), 48 + (b % 8)>>
Escaped(b) == CASE b = Backslash -> <<Backslash, Backslash>>
                [] b \notin 32 .. 126 -> Octal(b)
                [] OTHER -> <<b>>

\* Three octal digits give the byte back.
LEMMA OctalWrites ==
    ASSUME NEW b \in 0 .. 255
    PROVE  /\ Octal(b) \in Seq(Nat) /\ Len(Octal(b)) = 4 /\ Octal(b)[1] = Backslash
           /\ Octal(b)[2] \in 48 .. 55 /\ Octal(b)[3] \in 48 .. 55 /\ Octal(b)[4] \in 48 .. 55
           /\ Number(<<Octal(b)[2], Octal(b)[3], Octal(b)[4]>>, 8) = b
<1> DEFINE q == b \div 8
           r == b % 8
           x == b \div 64
           y == q % 8
<1>1. q \in 0 .. 31 /\ r \in 0 .. 7 /\ b = 8 * q + r
  <2>1. b % 8 = b - 8 * (b \div 8)
    OBVIOUS
  <2>2. b % 8 \in 0 .. 7 /\ b \div 8 \in Nat
    OBVIOUS
  <2> QED BY <2>1, <2>2
<1>2. x \in 0 .. 3 /\ y \in 0 .. 7 /\ q = 8 * x + y
  <2>1. y = q - 8 * (q \div 8) /\ y \in 0 .. 7 /\ q \div 8 \in Nat
    <3> HIDE DEF q
    <3>1. q \in Int
      BY <1>1
    <3> QED BY <3>1, <1>1
  <2>2. x \in Nat /\ x * 64 <= b /\ b < x * 64 + 64
    OBVIOUS
  <2> DEFINE z == q \div 8
  <2>3. y = q - 8 * z /\ z \in Nat
    BY <2>1
  <2> HIDE DEF x, y, z, q, r
  <2>4. x = z
    BY <2>1, <2>2, <2>3, <1>1
  <2> QED BY <2>1, <2>2, <2>3, <2>4, <1>1
<1>3. Octal(b) = <<Backslash, 48 + x, 48 + y, 48 + r>>
  BY DEF Octal
<1> HIDE DEF q, r, x, y
<1> DEFINE s == <<Backslash, 48 + x, 48 + y, 48 + r>>
<1>4. s \in Seq(Nat) /\ Len(s) = 4 /\ s[1] = Backslash
      /\ s[2] = 48 + x /\ s[3] = 48 + y /\ s[4] = 48 + r
  BY <1>1, <1>2 DEF Backslash
<1> HIDE DEF s
<1>5. s[2] \in 48 .. 55 /\ s[3] \in 48 .. 55 /\ s[4] \in 48 .. 55
  BY <1>1, <1>2, <1>4
<1>6. Number(<<s[2], s[3], s[4]>>, 8) = b
  <2> DEFINE u == s[2]
             v == s[3]
             w == s[4]
  <2>1. u \in Int /\ v \in Int /\ w \in Int /\ 8 \in Nat
    BY <1>1, <1>2, <1>4
  <2>2. DigitOf(u) = x /\ DigitOf(v) = y /\ DigitOf(w) = r
    BY <1>1, <1>2, <1>4 DEF DigitOf
  <2> HIDE DEF u, v, w
  <2>3. Number(<<u, v, w>>, 8) = (DigitOf(u) * 8 + DigitOf(v)) * 8 + DigitOf(w)
    <3> DEFINE base == 8
    <3>1. base \in Nat
      OBVIOUS
    <3> HIDE DEF base
    <3>2. Number(<<u, v, w>>, base) = (DigitOf(u) * base + DigitOf(v)) * base + DigitOf(w)
      BY <2>1, <3>1, NumberThree
    <3> QED BY <3>2 DEF base
  <2>4. Number(<<u, v, w>>, 8) = b
    BY <2>2, <2>3, <1>1, <1>2
  <2> QED BY <2>4 DEF u, v, w
<1>7. Octal(b) = s
  BY <1>3 DEF s
<1> QED BY <1>4, <1>5, <1>6, <1>7

LEMMA EscapedCases ==
    ASSUME NEW b \in 0 .. 255
    PROVE  /\ Escaped(b) \in Seq(Nat) /\ Len(Escaped(b)) >= 1 /\ Len(Escaped(b)) \in Nat
           /\ b = Backslash => Escaped(b) = <<Backslash, Backslash>>
           /\ b # Backslash /\ b \notin 32 .. 126 => Escaped(b) = Octal(b)
           /\ b # Backslash /\ b \in 32 .. 126 => Escaped(b) = <<b>>
<1>1. CASE b = Backslash
  <2>1. Escaped(b) = <<Backslash, Backslash>>
    BY <1>1 DEF Escaped, Backslash
  <2>2. <<Backslash, Backslash>> \in Seq(Nat) /\ Len(<<Backslash, Backslash>>) = 2
    BY DEF Backslash
  <2> QED BY <2>1, <2>2, <1>1
<1>2. CASE b # Backslash /\ b \notin 32 .. 126
  <2>1. Escaped(b) = Octal(b)
    BY SMTT(30), <1>2 DEF Escaped
  <2>2. Octal(b) \in Seq(Nat) /\ Len(Octal(b)) = 4
    BY OctalWrites
  <2> QED BY <2>1, <2>2, <1>2
<1>3. CASE b # Backslash /\ b \in 32 .. 126
  <2>1. Escaped(b) = <<b>>
    BY <1>3 DEF Escaped
  <2>2. <<b>> \in Seq(Nat) /\ Len(<<b>>) = 1
    OBVIOUS
  <2> QED BY <2>1, <2>2, <1>3
<1> QED BY <1>1, <1>2, <1>3

\* The text is what PostgreSQL writes for the bytes, and ends[k] is where the
\* first k of them end in it.
Written(bytes, text, ends) ==
    /\ bytes \in Seq(0 .. 255) /\ text \in Text
    /\ ends \in [0 .. Len(bytes) -> Nat] /\ ends[0] = 0 /\ ends[Len(bytes)] = Len(text)
    /\ \A k \in 1 .. Len(bytes) :
          /\ ends[k] = ends[k - 1] + Len(Escaped(bytes[k]))
          /\ Stands(text, ends[k - 1], Escaped(bytes[k]))

LEMMA EscapeWritten ==
    ASSUME NEW bytes \in Seq(0 .. 255)
    PROVE  \E ends : Written(bytes, PgEscape(bytes), ends)
<1> DEFINE N == Len(bytes)
           ss == [k \in DOMAIN bytes |-> Escaped(bytes[k])]
           text == FlattenSeq(ss)
<1>1. N \in Nat /\ DOMAIN bytes = 1 .. N /\ \A k \in 1 .. N : bytes[k] \in 0 .. 255
  <2> DEFINE B == 0 .. 255
  <2>1. bytes \in Seq(B)
    OBVIOUS
  <2> HIDE DEF B
  <2>2. N \in Nat /\ DOMAIN bytes = 1 .. N
    BY <2>1, LenProperties
  <2>3. \A k \in 1 .. N : bytes[k] \in B
    BY <2>1, ElementOfSeq
  <2> QED BY <2>2, <2>3 DEF B
<1>2. PgEscape(bytes) = text
  BY DEF PgEscape, Escaped, Octal
<1>3. /\ ss \in Seq(Seq(Nat)) /\ Len(ss) = N
      /\ \A k \in 1 .. N : ss[k] = Escaped(bytes[k])
  <2>1. ss = [k \in 1 .. N |-> Escaped(bytes[k])]
    BY <1>1
  <2>2. \A k \in 1 .. N : Escaped(bytes[k]) \in Seq(Nat)
    BY <1>1, EscapedCases
  <2> HIDE DEF ss, N
  <2>3. ss \in [1 .. N -> Seq(Nat)]
    BY <2>1, <2>2
  <2> QED BY <2>1, <2>3, <1>1
<1> HIDE DEF ss
<1>4. PICK p : Parts(p, ss, Nat) /\ p[Len(ss)] = text
  BY <1>3, Flattening
<1>5. ss \in Seq(Seq(Nat)) /\ Parts(p, ss, Nat)
  BY <1>3, <1>4
<1>6. (\A k \in 0 .. Len(ss) : p[k] \in Seq(Nat) /\ Len(p[k]) \in Nat) /\ Len(p[0]) = 0
  BY <1>5, PartTypes
<1>7. text \in Seq(Nat) /\ Len(text) \in Nat /\ Stands(text, 0, text)
  <2>1. Len(ss) \in 0 .. Len(ss)
    BY <1>1, <1>3
  <2>2. text \in Seq(Nat)
    BY <2>1, <1>4, <1>6
  <2> HIDE DEF text
  <2> QED BY <2>2, StandsWhole
<1> HIDE DEF text
<1>8. ASSUME NEW k \in 1 .. N
      PROVE  /\ k - 1 \in 0 .. N /\ k \in 0 .. N
             /\ Len(p[k]) = Len(p[k - 1]) + Len(Escaped(bytes[k]))
             /\ Stands(text, Len(p[k - 1]), Escaped(bytes[k]))
  <2>1. k \in 1 .. Len(ss) /\ ss[k] = Escaped(bytes[k])
    BY <1>3
  <2>2. k - 1 \in 0 .. Len(ss) /\ k \in 0 .. Len(ss) /\ Len(p[k]) = Len(p[k - 1]) + Len(ss[k])
    <3>1. k \in 1 .. Len(ss)
      BY <2>1
    <3> HIDE DEF N
    <3>2. k - 1 \in 0 .. Len(ss)
      BY <3>1, <1>5, PartStep
    <3>3. k \in 0 .. Len(ss)
      BY <3>1, <1>5, PartStep
    <3>4. Len(p[k]) = Len(p[k - 1]) + Len(ss[k])
      <4> DEFINE A == Nat
      <4>1. ss \in Seq(Seq(A)) /\ Parts(p, ss, A)
        BY <1>5
      <4> HIDE DEF A
      <4> QED BY <3>1, <4>1, PartStep
    <3> QED BY <3>2, <3>3, <3>4
  <2>3. Stands(text, 0, p[Len(ss)])
    BY <1>4, <1>7
  <2>4. Stands(text, 0 + Len(p[k - 1]), ss[k])
    <3>1. 0 \in Nat
      OBVIOUS
    <3> QED BY <3>1, <2>1, <2>3, <1>5, <1>7, PartsStand
  <2>5. 0 + Len(p[k - 1]) = Len(p[k - 1])
    BY <2>2, <1>6
  <2>6. Stands(text, Len(p[k - 1]), ss[k])
    BY <2>4, <2>5
  <2> HIDE DEF N
  <2> QED BY <2>1, <2>2, <2>6, <1>3
<1> DEFINE ends == [k \in 0 .. N |-> Len(p[k])]
<1>9. ends \in [0 .. N -> Nat] /\ \A k \in 0 .. N : ends[k] = Len(p[k])
  BY <1>3, <1>6
<1>10. ends[0] = 0 /\ ends[N] = Len(text)
  <2>1. 0 \in 0 .. N /\ N \in 0 .. N
    BY <1>1
  <2> HIDE DEF ends
  <2> QED BY <2>1, <1>3, <1>4, <1>6, <1>9
<1> HIDE DEF ends
<1>11. ASSUME NEW k \in 1 .. N
       PROVE  /\ ends[k] = ends[k - 1] + Len(Escaped(bytes[k]))
              /\ Stands(text, ends[k - 1], Escaped(bytes[k]))
  <2>1. k - 1 \in 0 .. N /\ k \in 0 .. N
    BY <1>8
  <2>2. ends[k] = Len(p[k]) /\ ends[k - 1] = Len(p[k - 1])
    BY <2>1, <1>9
  <2> QED BY <2>2, <1>8
<1>12. Written(bytes, text, ends)
  BY <1>7, <1>9, <1>10, <1>11 DEF Written, Text
<1> QED BY <1>2, <1>12

LEMMA WrittenFacts ==
    ASSUME NEW bytes, NEW text, NEW ends, Written(bytes, text, ends)
    PROVE  /\ Len(bytes) \in Nat /\ Len(text) \in Nat
           /\ \A k \in 0 .. Len(bytes) : ends[k] \in Nat
           /\ \A k \in 1 .. Len(bytes) : bytes[k] \in 0 .. 255
<1>1. \A k \in 0 .. Len(bytes) : ends[k] \in Nat
  BY DEF Written
<1>2. Len(text) \in Nat
  BY LenProperties DEF Written, Text
<1> DEFINE B == 0 .. 255
<1>3. bytes \in Seq(B)
  BY DEF Written
<1> HIDE DEF B
<1>4. Len(bytes) \in Nat /\ \A k \in 1 .. Len(bytes) : bytes[k] \in B
  BY <1>3, LenProperties, ElementOfSeq
<1> QED BY <1>1, <1>2, <1>4 DEF B

\* Where each byte stands in what PostgreSQL escapes.
LEMMA WrittenByte ==
    ASSUME NEW bytes, NEW text, NEW ends, Written(bytes, text, ends),
           NEW k \in 0 .. Len(bytes), k < Len(bytes)
    PROVE  /\ k + 1 \in 1 .. Len(bytes) /\ k + 1 \in 0 .. Len(bytes)
           /\ bytes[k + 1] \in 0 .. 255
           /\ ends[k] \in Nat /\ ends[k + 1] \in Nat
           /\ ends[k + 1] = ends[k] + Len(Escaped(bytes[k + 1]))
           /\ ends[k] < ends[k + 1] /\ ends[k + 1] <= Len(text)
           /\ Stands(text, ends[k], Escaped(bytes[k + 1]))
<1>1. Len(bytes) \in Nat /\ k \in Nat
  BY WrittenFacts
<1>2. k + 1 \in 1 .. Len(bytes) /\ k + 1 \in 0 .. Len(bytes) /\ (k + 1) - 1 = k
  BY <1>1
<1>3. bytes[k + 1] \in 0 .. 255 /\ ends[k] \in Nat /\ ends[k + 1] \in Nat
  BY <1>2, WrittenFacts
<1>4. /\ ends[k + 1] = ends[(k + 1) - 1] + Len(Escaped(bytes[k + 1]))
      /\ Stands(text, ends[(k + 1) - 1], Escaped(bytes[k + 1]))
  BY <1>2 DEF Written
<1>5. Len(Escaped(bytes[k + 1])) \in Nat /\ Len(Escaped(bytes[k + 1])) >= 1
  BY <1>3, EscapedCases
<1>6. ends[k + 1] = ends[k] + Len(Escaped(bytes[k + 1]))
      /\ Stands(text, ends[k], Escaped(bytes[k + 1]))
  BY <1>2, <1>4
<1>7. ends[k] + Len(Escaped(bytes[k + 1])) <= Len(text)
  BY <1>6 DEF Stands
<1>8. ends[k] < ends[k + 1] /\ ends[k + 1] <= Len(text)
  BY <1>3, <1>5, <1>6, <1>7
<1> QED BY <1>2, <1>3, <1>6, <1>8

\* A byte that is not a backslash is read in one round.
LEMMA UnescapeByte ==
    ASSUME NEW bytes, NEW text, NEW ends, Written(bytes, text, ends),
           NEW k \in 0 .. Len(bytes), k < Len(bytes), bytes[k + 1] # Backslash, NEW bs
    PROVE  Unescape(text, [i |-> ends[k] + 1, bytes |-> bs])
              = [i |-> ends[k + 1] + 1, bytes |-> Append(bs, bytes[k + 1])]
<1> DEFINE b == bytes[k + 1]
           e == ends[k]
           f == ends[k + 1]
           t == Escaped(b)
<1>1. /\ b \in 0 .. 255 /\ e \in Nat /\ f \in Nat /\ f = e + Len(t)
      /\ e < f /\ f <= Len(text) /\ Stands(text, e, t) /\ Len(text) \in Nat
  BY WrittenByte, WrittenFacts
<1>2. text \in Text /\ b # Backslash
  BY DEF Written
<1> HIDE DEF b, e, f
<1>3. e + 1 \in 1 .. Len(text)
  BY <1>1
<1>4. CASE b \in 32 .. 126
  <2>1. t = <<b>>
    BY <1>1, <1>2, <1>4, EscapedCases
  <2>2. Len(<<b>>) = 1 /\ <<b>>[1] = b /\ 1 \in 1 .. Len(<<b>>)
    OBVIOUS
  <2>3. f = e + 1 /\ text[e + 1] = b
    BY <2>1, <2>2, <1>1 DEF Stands
  <2>4. Unescape(text, [i |-> e + 1, bytes |-> bs])
           = [i |-> (e + 1) + 1, bytes |-> Append(bs, text[e + 1])]
    BY <2>3, <1>2, <1>3, UnescapePlain
  <2> QED BY <2>3, <2>4 DEF b, e, f
<1>5. CASE b \notin 32 .. 126
  <2>0. b \in 0 .. 255
    BY <1>1
  <2>1. t = Octal(b)
    <3>1. b # Backslash /\ b \notin 32 .. 126
      BY <1>2, <1>5
    <3>2. b # Backslash /\ b \notin 32 .. 126 => Escaped(b) = Octal(b)
      BY DEF Escaped
    <3> HIDE DEF t
    <3>3. Escaped(b) = Octal(b)
      BY SMTT(30), <3>1, <3>2
    <3> QED BY <3>3 DEF t
  <2>2. /\ t \in Seq(Nat) /\ Len(t) = 4 /\ t[1] = Backslash
        /\ t[2] \in 48 .. 55 /\ t[3] \in 48 .. 55 /\ t[4] \in 48 .. 55
        /\ Number(<<t[2], t[3], t[4]>>, 8) = b
    <3> HIDE DEF t
    <3>1. /\ Octal(b) \in Seq(Nat) /\ Len(Octal(b)) = 4 /\ Octal(b)[1] = Backslash
          /\ Octal(b)[2] \in 48 .. 55 /\ Octal(b)[3] \in 48 .. 55 /\ Octal(b)[4] \in 48 .. 55
          /\ Number(<<Octal(b)[2], Octal(b)[3], Octal(b)[4]>>, 8) = b
      BY <2>0, OctalWrites
    <3> QED BY SMTT(30), <2>1, <3>1
  <2> HIDE DEF t
  <2>3. f = e + 4 /\ \A m \in 1 .. 4 : text[e + m] = t[m]
    BY <2>2, <1>1 DEF Stands
  <2>4. text[e + 1] = Backslash
    BY <2>2, <2>3
  <2>5. ASSUME NEW d \in 1 .. 3 PROVE text[(e + 1) + d] \in 48 .. 55
    <3>1. text[e + 2] \in 48 .. 55 /\ text[e + 3] \in 48 .. 55 /\ text[e + 4] \in 48 .. 55
      BY <2>2, <2>3
    <3>2. (e + 1) + d = e + 2 \/ (e + 1) + d = e + 3 \/ (e + 1) + d = e + 4
      BY <1>1
    <3> QED BY <3>1, <3>2
  <2>6. SubSeq(text, (e + 1) + 1, (e + 1) + 3) = <<t[2], t[3], t[4]>>
    <3> DEFINE u == <<t[2], t[3], t[4]>>
               o == e + 1
    <3>1. t[2] \in Nat /\ t[3] \in Nat /\ t[4] \in Nat
      BY SMTT(30), <2>2
    <3>2. u \in Seq(Nat) /\ Len(u) = 3 /\ u[1] = t[2] /\ u[2] = t[3] /\ u[3] = t[4]
      BY <3>1
    <3>3. o \in Nat /\ o + 1 = e + 2 /\ o + 2 = e + 3 /\ o + 3 = e + 4 /\ o + 3 <= Len(text)
      BY <1>1, <2>3
    <3> HIDE DEF u, o
    <3>4. text[e + 2] = t[2] /\ text[e + 3] = t[3] /\ text[e + 4] = t[4]
      BY <2>3
    <3>5. Stands(text, o, u)
      <4>1. \A m \in 1 .. 3 : text[o + m] = u[m]
        BY <3>2, <3>3, <3>4
      <4> QED BY <4>1, <3>2, <3>3 DEF Stands
    <3>6. SubSeq(text, o + 1, o + Len(u)) = u
      <4>1. text \in Seq(Nat)
        BY <1>2 DEF Text
      <4> QED BY <4>1, <3>2, <3>3, <3>5, StandsFound
    <3>7. SubSeq(text, o + 1, o + 3) = u
      BY <3>6, <3>2
    <3> QED BY <3>7 DEF u, o
  <2>7. (e + 1) + 3 <= Len(text) /\ (e + 1) + 4 = f + 1
    BY <1>1, <2>3
  <2>8. Unescape(text, [i |-> e + 1, bytes |-> bs])
           = [i |-> (e + 1) + 4,
              bytes |-> Append(bs, Number(SubSeq(text, (e + 1) + 1, (e + 1) + 3), 8))]
    <3> DEFINE a == e + 1
    <3>1. a \in 1 .. Len(text) /\ text[a] = Backslash /\ a + 3 <= Len(text)
          /\ \A d \in 1 .. 3 : text[a + d] \in 48 .. 55
      BY <1>3, <2>4, <2>5, <2>7
    <3> HIDE DEF a
    <3>2. Unescape(text, [i |-> a, bytes |-> bs])
             = [i |-> a + 4, bytes |-> Append(bs, Number(SubSeq(text, a + 1, a + 3), 8))]
      BY <3>1, <1>2, UnescapeOctal
    <3> QED BY <3>2 DEF a
  <2> QED BY <2>2, <2>6, <2>7, <2>8 DEF b, e, f
<1> QED BY <1>4, <1>5

\* Backslashes in a row are read in one round, if no byte in octal follows.
\* There are r backslashes in the data after the first k bytes, and one round reads them.
RunRead(bytes, text, ends, k, bs, r) ==
    /\ r \in 1 .. Len(bytes) - k
    /\ \A j \in 1 .. r : bytes[k + j] = Backslash
    /\ ends[k] < ends[k + r]
    /\ Unescape(text, [i |-> ends[k] + 1, bytes |-> bs])
          = [i |-> ends[k + r] + 1, bytes |-> bs \o [m \in 1 .. r |-> Backslash]]

\* The backslashes of the data in a row, each of which was written twice, are read
\* in one round: none of them comes right before an octal number.
LEMMA UnescapeBackslashes ==
    ASSUME NEW bytes, NEW text, NEW ends, Written(bytes, text, ends), Escapable(bytes),
           NEW k \in 0 .. Len(bytes), k < Len(bytes), bytes[k + 1] = Backslash, NEW bs
    PROVE  \E r : RunRead(bytes, text, ends, k, bs, r)
<1> DEFINE N == Len(bytes)
           U == {r \in 1 .. N - k : k + r = N \/ bytes[(k + r) + 1] # Backslash}
<1>1. N \in Nat /\ k \in Nat /\ N - k \in Nat /\ N - k >= 1 /\ Len(text) \in Nat
  BY WrittenFacts
<1>2. PICK r \in U : \A m \in U : r <= m
  <2>1. N - k \in U
    BY <1>1
  <2>3. \A m \in U : m \in 0 .. N - k
    BY <1>1
  <2>2. U \subseteq 0 .. N - k /\ U # {}
    <3> HIDE DEF U
    <3> QED BY <2>1, <2>3
  <2> HIDE DEF U
  <2> QED BY <1>1, <2>2, Least
<1>3. r \in 1 .. N - k /\ (k + r = N \/ bytes[(k + r) + 1] # Backslash)
  BY <1>2
<1> DEFINE P(j) == bytes[k + j] = Backslash
<1>4. ASSUME NEW j \in 1 .. r PROVE P(j)
  <2>1. CASE j = 1
    BY <2>1
  <2>2. CASE j # 1
    <3>1. j - 1 \in 1 .. N - k /\ k + (j - 1) # N /\ (k + (j - 1)) + 1 = k + j
          /\ ~ (r <= j - 1)
      BY <2>2, <1>1, <1>3
    <3>2. j - 1 \notin U
      <4> HIDE DEF U
      <4> QED BY <3>1, <1>2
    <3>3. bytes[(k + (j - 1)) + 1] = Backslash
      BY <3>1, <3>2
    <3> QED BY <3>1, <3>3
  <2> QED BY <2>1, <2>2
<1> HIDE DEF U
<1> DEFINE e == ends[k]
<1>5. e \in Nat
  BY WrittenFacts
<1> DEFINE T == {j \in 0 .. r : /\ ends[k + j] = e + 2 * j
                                /\ \A m \in 1 .. 2 * j : text[e + m] = Backslash}
<1> HIDE DEF e, N
<1>6. 0 \in T
  <2>1. k + 0 = k /\ 0 \in 0 .. r /\ e + 2 * 0 = e /\ 2 * 0 = 0
    BY <1>1, <1>3, <1>5
  <2>2. ends[k + 0] = e + 2 * 0
    BY <2>1 DEF e
  <2>3. \A m \in 1 .. 2 * 0 : text[e + m] = Backslash
    BY <2>1
  <2> QED BY <2>1, <2>2, <2>3
<1>7. ASSUME NEW j \in 0 .. r, j \in T, j < r PROVE j + 1 \in T
  <2>1. /\ k + j \in 0 .. N /\ k + j < N /\ (k + j) + 1 = k + (j + 1) /\ j + 1 \in 1 .. r
        /\ 2 * (j + 1) = 2 * j + 2 /\ j + 1 \in 0 .. r /\ j \in Nat
    BY <1>1, <1>3, <1>7
  <2> DEFINE i == k + j
  <2>2. i \in 0 .. Len(bytes) /\ i < Len(bytes) /\ bytes[i + 1] = Backslash
    BY <2>1, <1>4 DEF N
  <2>3. ends[i] = e + 2 * j /\ \A m \in 1 .. 2 * j : text[e + m] = Backslash
    BY <1>7
  <2> HIDE DEF i
  <2>4. /\ bytes[i + 1] \in 0 .. 255 /\ ends[i + 1] = ends[i] + Len(Escaped(bytes[i + 1]))
        /\ Stands(text, ends[i], Escaped(bytes[i + 1]))
    BY SMTT(30), <2>2, WrittenByte
  <2>5. Escaped(bytes[i + 1]) = <<Backslash, Backslash>>
    BY <2>2, <2>4, EscapedCases
  <2> DEFINE t == <<Backslash, Backslash>>
  <2>6. Len(t) = 2 /\ t[1] = Backslash /\ t[2] = Backslash
    OBVIOUS
  <2> HIDE DEF t
  <2>7. ends[i + 1] = (e + 2 * j) + 2
    BY <2>3, <2>4, <2>5, <2>6 DEF t
  <2>8. Stands(text, e + 2 * j, t)
    BY <2>3, <2>4, <2>5 DEF t
  <2>9. text[(e + 2 * j) + 1] = Backslash /\ text[(e + 2 * j) + 2] = Backslash
    BY <2>6, <2>8 DEF Stands
  <2>10. ASSUME NEW m \in 1 .. 2 * (j + 1) PROVE text[e + m] = Backslash
    <3>1. CASE m <= 2 * j
      <4>1. m \in 1 .. 2 * j
        BY <3>1, <2>1
      <4> QED BY <4>1, <2>3
    <3>2. CASE m = 2 * j + 1
      <4>1. e + m = (e + 2 * j) + 1
        BY <3>2, <1>5, <2>1
      <4> QED BY <4>1, <2>9
    <3>3. CASE m = 2 * j + 2
      <4>1. e + m = (e + 2 * j) + 2
        BY <3>3, <1>5, <2>1
      <4> QED BY <4>1, <2>9
    <3> QED BY <3>1, <3>2, <3>3, <2>1
  <2>11. ends[k + (j + 1)] = e + 2 * (j + 1)
    <3>1. i + 1 = k + (j + 1)
      BY <2>1 DEF i
    <3> QED BY <3>1, <2>7, <2>1, <1>5
  <2> QED BY <2>1, <2>10, <2>11
<1>8. r \in T
  <2>1. r \in Nat /\ r \in 0 .. r
    BY <1>3
  <2> HIDE DEF T
  <2> QED BY <2>1, <1>6, <1>7, Upward
<1>9. ends[k + r] = e + 2 * r /\ \A m \in 1 .. 2 * r : text[e + m] = Backslash
  BY <1>8
<1> HIDE DEF T
<1>10. r \in Nat /\ r >= 1 /\ k + r \in 0 .. N /\ (k + r = N \/ k + r < N)
  BY <1>1, <1>3
<1>11. e + 2 * r <= Len(text)
       /\ ((e + 1) + 2 * r <= Len(text) => text[(e + 1) + 2 * r] # Backslash)
  <2>1. CASE k + r = N
    <3>1. ends[k + r] = Len(text)
      BY <2>1 DEF Written, N
    <3>2. e + 2 * r = Len(text)
      BY <3>1, <1>9
    <3>3. ~ ((e + 1) + 2 * r <= Len(text))
      BY <3>2, <1>1, <1>5, <1>10
    <3> QED BY <3>2, <3>3, <1>1
  <2>2. CASE k + r < N
    <3> DEFINE i == k + r
    <3>1. i \in 0 .. Len(bytes) /\ i < Len(bytes) /\ i + 1 > 1 /\ (i + 1) - 1 = i
          /\ bytes[i + 1] # Backslash /\ bytes[i] = Backslash
      <4>1. r \in 1 .. r
        BY <1>10
      <4>2. bytes[k + r] = Backslash
        BY <4>1, <1>4
      <4> QED BY <4>2, <2>2, <1>1, <1>3, <1>10 DEF N
    <3>2. ends[i] = e + 2 * r
      BY <1>9
    <3> HIDE DEF i
    <3>3. /\ bytes[i + 1] \in 0 .. 255 /\ ends[i + 1] <= Len(text) /\ ends[i] < ends[i + 1]
          /\ i + 1 \in 1 .. Len(bytes) /\ ends[i + 1] \in Nat
          /\ Stands(text, ends[i], Escaped(bytes[i + 1]))
      BY <3>1, WrittenByte
    <3>4. i + 1 \in DOMAIN bytes
      <4> DEFINE B == 0 .. 255
      <4>1. bytes \in Seq(B)
        BY DEF Written
      <4> HIDE DEF B
      <4>2. DOMAIN bytes = 1 .. Len(bytes)
        BY <4>1, LenProperties
      <4> QED BY <4>2, <3>3
    <3>5. bytes[i + 1] \in 32 .. 126
      BY <3>1, <3>4 DEF Escapable
    <3> DEFINE b == bytes[i + 1]
    <3>6. Escaped(b) = <<b>>
      BY <3>1, <3>3, <3>5, EscapedCases
    <3>7. text[ends[i] + 1] = b
      <4> HIDE DEF b
      <4>1. Stands(text, ends[i], <<b>>)
        BY <3>3, <3>6 DEF b
      <4>2. Len(<<b>>) = 1 /\ <<b>>[1] = b
        OBVIOUS
      <4> QED BY <4>1, <4>2 DEF Stands
    <3>8. (e + 1) + 2 * r = ends[i] + 1
      BY <3>2, <1>5, <1>10
    <3>9. e + 2 * r <= Len(text)
      BY <3>2, <3>3, <1>1, <1>5, <1>10
    <3> QED BY <3>1, <3>7, <3>8, <3>9
  <2> QED BY <2>1, <2>2, <1>10
<1> DEFINE a == e + 1
<1>12. a \in 1 .. Len(text) /\ a + 2 * r <= Len(text) + 1 /\ a + 2 * r = (e + 2 * r) + 1
  BY <1>1, <1>5, <1>10, <1>11
<1>13. ASSUME NEW m \in a .. a + 2 * r - 1 PROVE text[m] = Backslash
  <2>1. m - e \in 1 .. 2 * r /\ e + (m - e) = m
    BY <1>5, <1>10
  <2>2. text[e + (m - e)] = Backslash
    BY <2>1, <1>9
  <2> QED BY <2>1, <2>2
<1>14. a + 2 * r <= Len(text) => text[a + 2 * r] # Backslash
  BY <1>11
<1>15. text \in Text
  BY DEF Written
<1> HIDE DEF a
<1>16. Unescape(text, [i |-> a, bytes |-> bs])
          = [i |-> a + 2 * r, bytes |-> bs \o [m \in 1 .. r |-> Backslash]]
  BY <1>10, <1>12, <1>13, <1>14, <1>15, UnescapeRun
<1>17. a + 2 * r = ends[k + r] + 1 /\ a = ends[k] + 1 /\ ends[k] < ends[k + r]
  <2>1. ends[k] = e
    BY DEF e
  <2> QED BY SMTT(30), <2>1, <1>5, <1>9, <1>10 DEF a
<1>18. r \in 1 .. Len(bytes) - k
  BY <1>3 DEF N
<1> QED BY <1>4, <1>16, <1>17, <1>18 DEF RunRead

\* The state of parseEscaped() before it reads the byte after the first k.
Reading(bytes, ends, k) == [i |-> ends[k] + 1, bytes |-> [j \in 1 .. k |-> bytes[j]]]

\* From any byte on, parseEscaped() reads what was escaped.
LEMMA ReadOn ==
    ASSUME NEW bytes, NEW text, NEW ends, Written(bytes, text, ends), Escapable(bytes),
           NEW k \in 0 .. Len(bytes), k < Len(bytes)
    PROVE  \E l \in 0 .. Len(bytes) :
              /\ k < l /\ ends[k] < ends[l]
              /\ Unescape(text, Reading(bytes, ends, k)) = Reading(bytes, ends, l)
<1> DEFINE N == Len(bytes)
           B == 0 .. 255
           pre(n) == [j \in 1 .. n |-> bytes[j]]
<1>1. N \in Nat /\ k \in Nat /\ \A j \in 1 .. N : bytes[j] \in B
  BY WrittenFacts
<1> HIDE DEF B
<1>2. ASSUME NEW n \in 0 .. N PROVE pre(n) \in Seq(B) /\ Len(pre(n)) = n
  <2>1. \A j \in 1 .. n : j \in 1 .. N
    BY <1>1
  <2>2. pre(n) \in [1 .. n -> B]
    BY <2>1, <1>1
  <2> QED BY <2>2
<1> DEFINE bs == pre(k)
<1>3. bs \in Seq(B) /\ Len(bs) = k /\ \A j \in 1 .. k : bs[j] = bytes[j]
  BY <1>1, <1>2
<1>4. CASE bytes[k + 1] # Backslash
  <2>1. /\ k + 1 \in 0 .. N /\ k + 1 \in 1 .. N /\ ends[k] < ends[k + 1] /\ k < k + 1
    BY WrittenByte, <1>1
  <2>2. Unescape(text, [i |-> ends[k] + 1, bytes |-> bs])
           = [i |-> ends[k + 1] + 1, bytes |-> Append(bs, bytes[k + 1])]
    BY SMTT(30), <1>4, UnescapeByte
  <2>3. Append(bs, bytes[k + 1]) = pre(k + 1)
    <3> DEFINE u == Append(bs, bytes[k + 1])
               w == pre(k + 1)
               c == bytes[k + 1]
    <3>1. c \in B
      BY <2>1, <1>1
    <3>2. w \in Seq(B) /\ Len(w) = k + 1 /\ \A j \in 1 .. k + 1 : w[j] = bytes[j]
      BY <2>1, <1>2
    <3> HIDE DEF bs, c, w
    <3>3. /\ u \in Seq(B) /\ Len(u) = k + 1 /\ u[k + 1] = c
          /\ \A j \in 1 .. k : u[j] = bs[j]
      <4>1. bs \in Seq(B)
        BY <1>3
      <4>2. Append(bs, c) \in Seq(B) /\ Len(Append(bs, c)) = Len(bs) + 1
            /\ Append(bs, c)[Len(bs) + 1] = c
            /\ \A j \in 1 .. Len(bs) : Append(bs, c)[j] = bs[j]
        BY <3>1, <4>1, Last1
      <4> QED BY <4>2, <1>3 DEF c
    <3> HIDE DEF u
    <3>4. ASSUME NEW j \in 1 .. Len(u) PROVE u[j] = w[j]
      <4>1. j \in 1 .. k + 1
        BY <3>3
      <4>2. CASE j = k + 1
        BY <4>1, <4>2, <3>2, <3>3 DEF c
      <4>3. CASE j # k + 1
        <5>1. j \in 1 .. k
          BY <4>1, <4>3, <1>1
        <5> QED BY <4>1, <5>1, <3>2, <3>3, <1>3
      <4> QED BY <4>2, <4>3
    <3>5. u = w
      BY <3>2, <3>3, <3>4, SeqEqual
    <3> QED BY <3>5 DEF u, w, c
  <2>4. Unescape(text, Reading(bytes, ends, k)) = Reading(bytes, ends, k + 1)
    BY <2>2, <2>3 DEF Reading
  <2> QED BY <2>1, <2>4
<1>5. CASE bytes[k + 1] = Backslash
  <2>0. PICK r : RunRead(bytes, text, ends, k, bs, r)
    <3>1. k \in 0 .. Len(bytes) /\ k < Len(bytes)
      OBVIOUS
    <3> HIDE DEF bs, N
    <3> QED BY <3>1, <1>5, UnescapeBackslashes
  <2>1. /\ r \in 1 .. N - k
        /\ \A j \in 1 .. r : bytes[k + j] = Backslash
        /\ ends[k] < ends[k + r]
        /\ Unescape(text, [i |-> ends[k] + 1, bytes |-> bs])
              = [i |-> ends[k + r] + 1, bytes |-> bs \o [m \in 1 .. r |-> Backslash]]
    <3> HIDE DEF bs
    <3> QED BY <2>0 DEF RunRead
  <2>2. k + r \in 0 .. N /\ k < k + r /\ r \in Nat
    BY <1>1, <2>1
  <2>3. bs \o [m \in 1 .. r |-> Backslash] = pre(k + r)
    <3> DEFINE v == [m \in 1 .. r |-> Backslash]
               u == bs \o v
               w == pre(k + r)
    <3>1. v \in Seq(B) /\ Len(v) = r /\ \A m \in 1 .. r : v[m] = Backslash
      <4>1. Backslash \in B
        BY DEF Backslash, B
      <4>2. v \in [1 .. r -> B]
        BY <4>1
      <4> QED BY <4>2, <2>2
    <3>2. w \in Seq(B) /\ Len(w) = k + r /\ \A j \in 1 .. k + r : w[j] = bytes[j]
      BY <2>2, <1>2
    <3> HIDE DEF bs, v, w
    <3>3. /\ u \in Seq(B) /\ Len(u) = k + r
          /\ \A j \in 1 .. k : u[j] = bs[j]
          /\ \A m \in 1 .. r : u[k + m] = v[m]
      <4>1. bs \in Seq(B) /\ v \in Seq(B)
        BY <1>3, <3>1
      <4>2. bs \o v \in Seq(B) /\ Len(bs \o v) = Len(bs) + Len(v)
            /\ (\A j \in 1 .. Len(bs) : (bs \o v)[j] = bs[j])
            /\ \A m \in 1 .. Len(v) : (bs \o v)[Len(bs) + m] = v[m]
        BY <4>1, Joined
      <4> QED BY <4>2, <1>3, <3>1
    <3> HIDE DEF u
    <3>4. ASSUME NEW j \in 1 .. Len(u) PROVE u[j] = w[j]
      <4>1. j \in 1 .. k + r
        BY <3>3
      <4>2. CASE j <= k
        <5>1. j \in 1 .. k
          BY <4>1, <4>2
        <5> QED BY <4>1, <5>1, <3>2, <3>3, <1>3
      <4>3. CASE ~ (j <= k)
        <5> DEFINE m == j - k
        <5>1. m \in 1 .. r /\ k + m = j
          BY <4>1, <4>3, <1>1, <2>2
        <5> HIDE DEF m
        <5>2. u[k + m] = v[m] /\ v[m] = Backslash /\ bytes[k + m] = Backslash
          BY <5>1, <3>1, <3>3, <2>1
        <5> QED BY <5>1, <5>2, <4>1, <3>2
      <4> QED BY <4>2, <4>3
    <3>5. u = w
      BY <3>2, <3>3, <3>4, SeqEqual
    <3> QED BY <3>5 DEF u, v, w
  <2>4. Unescape(text, Reading(bytes, ends, k)) = Reading(bytes, ends, k + r)
    BY <2>1, <2>3 DEF Reading
  <2> QED BY <2>1, <2>2, <2>4
<1> QED BY <1>4, <1>5

\* Bytes come back from what PostgreSQL escapes, but for the misread backslashes.
LEMMA ReadEscaped ==
    ASSUME NEW bytes \in Seq(0 .. 255), Escapable(bytes)
    PROVE  PgEscape(bytes) \in Text /\ ParseByteA(PgEscape(bytes)) = bytes
<1> DEFINE N == Len(bytes)
           text == PgEscape(bytes)
           L == Len(text)
<1>1. PICK ends : Written(bytes, text, ends)
  BY EscapeWritten
<1>2. text \in Text /\ N \in Nat /\ L \in Nat
  BY <1>1, WrittenFacts DEF Written
<1>3. PICK g : Unescapes(g, text) /\ ParseEscaped(text) = g[L].bytes
  BY <1>2, Unescaping
<1>4. ends[0] = 0 /\ ends[N] = L
  BY <1>1 DEF Written
<1>5. /\ g[0] = [i |-> 1, bytes |-> <<>>]
      /\ \A n \in 1 .. L : g[n] = Unescape(text, g[n - 1])
  BY <1>3 DEF Unescapes
<1> HIDE DEF N, text, L
<1> DEFINE T == {k \in 0 .. N : \E n \in 0 .. ends[k] :
                                   n <= L /\ g[n] = Reading(bytes, ends, k)}
<1>6. 0 \in T
  <2>1. Reading(bytes, ends, 0) = [i |-> 1, bytes |-> <<>>]
    <3>1. [j \in 1 .. 0 |-> bytes[j]] = <<>>
      OBVIOUS
    <3>2. ends[0] + 1 = 1
      BY <1>4
    <3> QED BY <3>1, <3>2 DEF Reading
  <2>2. 0 \in 0 .. N /\ 0 \in 0 .. ends[0] /\ 0 <= L
    BY <1>2, <1>4
  <2> QED BY <2>1, <2>2, <1>5
<1>7. ASSUME NEW k \in 0 .. N, k \in T, k < N PROVE \E l \in 0 .. N : k < l /\ l \in T
  <2>1. PICK n \in 0 .. ends[k] : n <= L /\ g[n] = Reading(bytes, ends, k)
    BY <1>7
  <2>2. k \in 0 .. Len(bytes) /\ k < Len(bytes)
    BY <1>7 DEF N
  <2>3. PICK l \in 0 .. Len(bytes) :
           /\ k < l /\ ends[k] < ends[l]
           /\ Unescape(text, Reading(bytes, ends, k)) = Reading(bytes, ends, l)
    BY <2>2, <1>1, ReadOn
  <2>4. ends[k] \in Nat /\ ends[l] \in Nat /\ ends[k] < L
    <3>1. ends[k] < ends[k + 1] /\ ends[k + 1] <= Len(text) /\ ends[k + 1] \in Nat
      BY <2>2, <1>1, WrittenByte
    <3>2. ends[k] \in Nat /\ ends[l] \in Nat
      BY <2>2, <1>1, WrittenFacts
    <3> QED BY <3>1, <3>2, <1>2 DEF L
  <2>5. n + 1 \in 1 .. L /\ (n + 1) - 1 = n /\ n + 1 \in 0 .. ends[l] /\ n + 1 <= L
    BY <2>1, <2>3, <2>4, <1>2
  <2>6. g[n + 1] = Unescape(text, g[n])
    BY <2>5, <1>5
  <2>7. g[n + 1] = Reading(bytes, ends, l)
    BY <2>1, <2>3, <2>6
  <2>8. l \in 0 .. N
    BY DEF N
  <2> QED BY <2>3, <2>5, <2>7, <2>8
<1>8. N \in T
  <2> HIDE DEF T
  <2> QED BY <1>2, <1>6, <1>7, Climb
<1> DEFINE end == Reading(bytes, ends, N)
<1>9. PICK n \in 0 .. L : g[n] = end
  BY <1>8, <1>2, <1>4
<1>10. Unescape(text, end) = end
  <2>1. end.i > Len(text)
    BY <1>2, <1>4 DEF Reading, L
  <2> QED BY <2>1 DEF Unescape
<1> DEFINE U == {m \in 0 .. L - n : g[n + m] = end}
<1>11. 0 \in U
  <2>1. n + 0 = n /\ 0 \in 0 .. L - n
    BY <1>2
  <2> QED BY <2>1, <1>9
<1> HIDE DEF end
<1>12. ASSUME NEW m \in 0 .. L - n, m \in U, m < L - n PROVE m + 1 \in U
  <2>1. n + (m + 1) \in 1 .. L /\ (n + (m + 1)) - 1 = n + m /\ m + 1 \in 0 .. L - n
    BY <1>2, <1>12
  <2>2. g[n + (m + 1)] = Unescape(text, g[n + m])
    BY <2>1, <1>5
  <2> QED BY <2>1, <2>2, <1>10, <1>12
<1>13. L - n \in U
  <2>1. L - n \in Nat /\ L - n \in 0 .. L - n
    BY <1>2
  <2> HIDE DEF U
  <2> QED BY <2>1, <1>11, <1>12, Upward
<1>14. g[L] = end
  <2>1. n + (L - n) = L
    BY <1>2
  <2> QED BY <2>1, <1>13
<1>15. ParseEscaped(text) = [j \in 1 .. N |-> bytes[j]]
  BY <1>3, <1>14 DEF end, Reading
<1>16. bytes = [j \in 1 .. N |-> bytes[j]]
  <2> DEFINE B == 0 .. 255
  <2>1. bytes \in Seq(B)
    OBVIOUS
  <2> HIDE DEF B
  <2>2. bytes \in [1 .. N -> B]
    BY <2>1, LenProperties DEF N
  <2> QED BY <2>2
<1>17. ~ IsPrefix(<<Backslash, 120>>, text)
  <2> DEFINE x == <<Backslash, 120>>
  <2>1. SUFFICES ASSUME IsPrefix(x, text) PROVE FALSE
    OBVIOUS
  <2>2. x \in Seq(Nat) /\ Len(x) = 2 /\ x[1] = Backslash /\ x[2] = 120
    BY DEF Backslash
  <2> HIDE DEF x
  <2>3. L >= 2 /\ SubSeq(text, 1, 2) = x
    <3>1. SubSeq(x, 1, Len(x)) = x
      BY <2>2, SubSeqFull
    <3> QED BY <3>1, <2>1, <2>2 DEF IsPrefix, L
  <2>4. text[1] = Backslash /\ text[2] = 120
    <3>1. text \in Seq(Nat)
      BY <1>2 DEF Text
    <3>2. SubSeq(text, 1, 2)[1] = text[1] /\ SubSeq(text, 1, 2)[2] = text[2]
      BY <3>1, <2>3 DEF L
    <3> QED BY <3>2, <2>2, <2>3
  <2>5. N # 0
    BY <2>3, <1>4, <1>2
  <2> DEFINE b == bytes[1]
  <2>6. b \in 0 .. 255 /\ Stands(text, 0, Escaped(b))
    <3>1. 0 \in 0 .. Len(bytes) /\ 0 < Len(bytes) /\ 0 + 1 = 1
      BY <2>5, <1>2 DEF N
    <3>2. bytes[0 + 1] \in 0 .. 255 /\ Stands(text, ends[0], Escaped(bytes[0 + 1]))
      BY <3>1, <1>1, WrittenByte
    <3> QED BY <3>1, <3>2, <1>4
  <2> DEFINE t == Escaped(b)
  <2>7. \A i \in 1 .. Len(t) : text[i] = t[i]
    <3>1. \A i \in 1 .. Len(t) : text[0 + i] = t[i]
      BY <2>6 DEF Stands
    <3>2. \A i \in 1 .. Len(t) : 0 + i = i
      OBVIOUS
    <3> QED BY <3>1, <3>2
  <2> HIDE DEF b
  <2>8. CASE b = Backslash
    <3>1. t = <<Backslash, Backslash>>
      BY <2>8, <2>6, EscapedCases
    <3>2. Len(t) = 2 /\ t[2] = Backslash
      BY <3>1
    <3> QED BY <3>2, <2>4, <2>7 DEF Backslash
  <2>9. CASE b # Backslash /\ b \notin 32 .. 126
    <3>1. t = Octal(b)
      BY SMTT(30), <2>9 DEF Escaped
    <3>2. Len(Octal(b)) = 4 /\ Octal(b)[2] \in 48 .. 55
      BY <2>6, OctalWrites
    <3> QED BY SMTT(30), <3>1, <3>2, <2>4, <2>7
  <2>10. CASE b # Backslash /\ b \in 32 .. 126
    <3>1. t = <<b>>
      BY <2>10, <2>6, EscapedCases
    <3>2. Len(t) = 1 /\ t[1] = b
      BY <3>1
    <3> QED BY <3>2, <2>4, <2>7, <2>10
  <2> QED BY <2>8, <2>9, <2>10
<1>18. ParseByteA(text) = bytes
  BY <1>15, <1>16, <1>17 DEF ParseByteA
<1> QED BY <1>2, <1>18 DEF text

-----------------------------------------------------------------------------
(* Texts.                                                                  *)

LEMMA TextIs ==
    ASSUME NEW s \in Text
    PROVE  /\ Len(s) \in Nat /\ DOMAIN s = 1 .. Len(s) /\ \A i \in 1 .. Len(s) : s[i] \in Nat
           /\ Stands(s, 0, s) /\ SubSeq(s, 1, Len(s)) = s
           /\ Len(s) = 0 <=> s = <<>>
<1>1. s \in Seq(Nat)
  BY DEF Text
<1> DEFINE S == Nat
<1> HIDE DEF S
<1>2. s \in Seq(S)
  BY <1>1 DEF S
<1>3. Len(s) \in Nat /\ DOMAIN s = 1 .. Len(s) /\ \A i \in 1 .. Len(s) : s[i] \in S
  BY <1>2, LenProperties, ElementOfSeq
<1>4. Stands(s, 0, s) /\ SubSeq(s, 1, Len(s)) = s
  BY <1>2, StandsWhole, SubSeqFull
<1>5. Len(s) = 0 <=> s = <<>>
  BY <1>2, EmptySeq
<1> QED BY <1>3, <1>4, <1>5 DEF S

LEMMA TextJoined ==
    ASSUME NEW s \in Text, NEW t \in Text
    PROVE  /\ s \o t \in Text /\ Len(s) \in Nat /\ Len(t) \in Nat
           /\ Len(s \o t) = Len(s) + Len(t)
           /\ \A i \in 1 .. Len(s) : (s \o t)[i] = s[i]
           /\ \A i \in 1 .. Len(t) : (s \o t)[Len(s) + i] = t[i]
           /\ Stands(s \o t, 0, s) /\ Stands(s \o t, Len(s), t)
           /\ SubSeq(s \o t, 1, Len(s)) = s
           /\ SubSeq(s \o t, Len(s) + 1, Len(s) + Len(t)) = t
<1> DEFINE S == Nat
<1>1. s \in Seq(S) /\ t \in Seq(S)
  BY DEF Text
<1> HIDE DEF S
<1> DEFINE u == s \o t
<1>2. /\ u \in Seq(S) /\ Len(s) \in Nat /\ Len(t) \in Nat
      /\ Len(u) = Len(s) + Len(t)
      /\ \A i \in 1 .. Len(s) : u[i] = s[i]
      /\ \A i \in 1 .. Len(t) : u[Len(s) + i] = t[i]
  BY <1>1, Joined
<1>3. SubSeq(u, 1, Len(s)) = s /\ SubSeq(u, Len(s) + 1, Len(s) + Len(t)) = t
  BY <1>1, Halves
<1> HIDE DEF u
<1>4. Stands(u, 0, s) /\ Stands(u, Len(s), t)
  BY <1>2 DEF Stands
<1>5. u \in Text
  BY <1>2 DEF Text, S
<1> QED BY <1>2, <1>3, <1>4, <1>5 DEF u

LEMMA TextLen ==
    ASSUME NEW s \in Text, NEW t \in Text
    PROVE  /\ s \o t \in Text /\ Len(s \o t) = Len(s) + Len(t)
           /\ Len(s) \in Nat /\ Len(t) \in Nat
  BY TextJoined

LEMMA TextAssociative ==
    ASSUME NEW s \in Text, NEW t \in Text, NEW u \in Text
    PROVE  (s \o t) \o u = s \o (t \o u)
<1> DEFINE S == Nat
<1>1. s \in Seq(S) /\ t \in Seq(S) /\ u \in Seq(S)
  BY DEF Text
<1> HIDE DEF S
<1> QED BY <1>1, ConcatAssociative

LEMMA TextEqual ==
    ASSUME NEW s \in Text, NEW t \in Text, Len(s) = Len(t),
           \A i \in 1 .. Len(s) : s[i] = t[i]
    PROVE  s = t
<1> DEFINE S == Nat
<1>1. s \in Seq(S) /\ t \in Seq(S)
  BY DEF Text
<1> HIDE DEF S
<1> QED BY <1>1, SeqEqual

LEMMA TextFew ==
    ASSUME NEW a \in Nat, NEW b \in Nat, NEW c \in Nat
    PROVE  /\ <<>> \in Text /\ Len(<<>>) = 0
           /\ <<a>> \in Text /\ Len(<<a>>) = 1 /\ <<a>>[1] = a
           /\ <<a, b>> \in Text /\ Len(<<a, b>>) = 2 /\ <<a, b>> = <<a>> \o <<b>>
           /\ <<a, b, c>> \in Text /\ Len(<<a, b, c>>) = 3
<1>1. /\ <<>> \in Text /\ Len(<<>>) = 0
      /\ <<a>> \in Text /\ Len(<<a>>) = 1 /\ <<a>>[1] = a
      /\ <<b>> \in Text /\ Len(<<b>>) = 1 /\ <<b>>[1] = b
  BY DEF Text
<1>2. <<a, b>> \in Text /\ Len(<<a, b>>) = 2 /\ <<a, b>>[1] = a /\ <<a, b>>[2] = b
  BY DEF Text
<1>3. <<a, b, c>> \in Text /\ Len(<<a, b, c>>) = 3
  BY DEF Text
<1> DEFINE s == <<a>>
           t == <<b>>
           u == <<a, b>>
           w == s \o t
<1>4. s \in Text /\ t \in Text
  BY <1>1
<1> HIDE DEF s, t, u
<1>5. /\ w \in Text /\ Len(w) = Len(s) + Len(t)
      /\ \A i \in 1 .. Len(s) : w[i] = s[i]
      /\ \A i \in 1 .. Len(t) : w[Len(s) + i] = t[i]
  BY <1>4, TextJoined
<1>6. /\ Len(s) = 1 /\ s[1] = a /\ Len(t) = 1 /\ t[1] = b
      /\ u \in Text /\ Len(u) = 2 /\ u[1] = a /\ u[2] = b
  BY <1>1, <1>2 DEF s, t, u
<1> HIDE DEF w
<1>7. Len(w) = 2 /\ w[1] = a /\ w[1 + 1] = b
  BY <1>5, <1>6
<1>8. u = w
  BY <1>5, <1>6, <1>7, TextEqual
<1> QED BY <1>1, <1>2, <1>3, <1>8 DEF s, t, u, w

LEMMA TextAppend ==
    ASSUME NEW s \in Text, NEW c \in Nat
    PROVE  /\ Append(s, c) \in Text /\ Append(s, c) = s \o <<c>>
           /\ Len(Append(s, c)) = Len(s) + 1 /\ Len(s) \in Nat
           /\ \A i \in 1 .. Len(s) : Append(s, c)[i] = s[i]
           /\ Append(s, c)[Len(s) + 1] = c
<1> DEFINE S == Nat
<1>1. s \in Seq(S) /\ c \in S
  BY DEF Text
<1> HIDE DEF S
<1>2. /\ Append(s, c) \in Seq(S) /\ Append(s, c) = s \o <<c>>
      /\ Len(Append(s, c)) = Len(s) + 1 /\ Len(s) \in Nat
      /\ \A i \in 1 .. Len(s) : Append(s, c)[i] = s[i]
      /\ Append(s, c)[Len(s) + 1] = c
  BY <1>1, Last1
<1> QED BY <1>2 DEF Text, S

LEMMA TextStands ==
    ASSUME NEW source \in Text, NEW o \in Nat, NEW s \in Text, NEW t \in Text
    PROVE  /\ Stands(source, o, s \o t) <=>
                Stands(source, o, s) /\ Stands(source, o + Len(s), t)
           /\ Stands(source, o, s) => SubSeq(source, o + 1, o + Len(s)) = s
<1> DEFINE S == Nat
<1>1. source \in Seq(S) /\ s \in Seq(S) /\ t \in Seq(S)
  BY DEF Text
<1>2. Len(source) \in Nat
  BY TextIs
<1> HIDE DEF S
<1>3. Stands(source, o, s \o t) <=> Stands(source, o, s) /\ Stands(source, o + Len(s), t)
  BY <1>1, <1>2, StandsJoined
<1>4. ASSUME Stands(source, o, s) PROVE SubSeq(source, o + 1, o + Len(s)) = s
  BY <1>1, <1>4, StandsFound
<1> QED BY <1>3, <1>4

\* The provers take these for what they are only where a proof says so.
Cat(s, t) == s \o t
Sub(s, m, n) == SubSeq(s, m, n)
One(c) == <<c>>
Size(s) == Len(s)

LEMMA SizeIs ==
    ASSUME NEW s \in Text
    PROVE  Size(s) \in Nat /\ (Size(s) = 0 <=> s = <<>>) /\ Stands(s, 0, s)
  BY TextIs DEF Size

LEMMA CatIs ==
    ASSUME NEW s \in Text, NEW t \in Text
    PROVE  /\ Cat(s, t) \in Text /\ Size(Cat(s, t)) = Size(s) + Size(t)
           /\ Size(s) \in Nat /\ Size(t) \in Nat
           /\ \A i \in 1 .. Size(s) : Cat(s, t)[i] = s[i]
           /\ \A i \in 1 .. Size(t) : Cat(s, t)[Size(s) + i] = t[i]
           /\ Stands(Cat(s, t), 0, s) /\ Stands(Cat(s, t), Size(s), t)
  BY TextJoined DEF Cat, Size

LEMMA CatLen ==
    ASSUME NEW s \in Text, NEW t \in Text
    PROVE  Cat(s, t) \in Text /\ Size(Cat(s, t)) = Size(s) + Size(t)
  BY TextJoined DEF Cat, Size

LEMMA CatAssociative ==
    ASSUME NEW s \in Text, NEW t \in Text, NEW u \in Text
    PROVE  Cat(Cat(s, t), u) = Cat(s, Cat(t, u))
  BY TextAssociative DEF Cat

LEMMA CatEmpty ==
    ASSUME NEW s \in Text
    PROVE  Cat(s, <<>>) = s /\ Cat(<<>>, s) = s
  BY ConcatEmptySeq DEF Cat, Text

LEMMA CatStands ==
    ASSUME NEW source \in Text, NEW o \in Nat, NEW s \in Text, NEW t \in Text
    PROVE  Stands(source, o, Cat(s, t)) <=>
                Stands(source, o, s) /\ Stands(source, o + Size(s), t)
  BY TextStands DEF Cat, Size

LEMMA StandsSub ==
    ASSUME NEW source \in Text, NEW o \in Nat, NEW s \in Text, Stands(source, o, s)
    PROVE  Sub(source, o + 1, o + Size(s)) = s
  BY TextStands DEF Sub, Size

LEMMA OneIs ==
    ASSUME NEW c \in Nat
    PROVE  One(c) \in Text /\ Size(One(c)) = 1 /\ One(c)[1] = c
  BY TextFew DEF One, Size

LEMMA OneStands ==
    ASSUME NEW source \in Text, NEW o \in Nat, NEW c
    PROVE  Stands(source, o, One(c)) <=> o + 1 <= Size(source) /\ source[o + 1] = c
<1>1. Len(source) \in Nat
  BY TextIs
<1> QED BY <1>1, StandsOne DEF One, Size

\* The text s has none of these characters.
Avoids(s, chars) == \A i \in 1 .. Len(s) : s[i] \notin chars

LEMMA AvoidsJoined ==
    ASSUME NEW s \in Text, NEW t \in Text, NEW chars
    PROVE  Avoids(s \o t, chars) <=> Avoids(s, chars) /\ Avoids(t, chars)
<1> DEFINE u == s \o t
<1>1. /\ Len(s) \in Nat /\ Len(t) \in Nat /\ Len(u) = Len(s) + Len(t)
      /\ \A i \in 1 .. Len(s) : u[i] = s[i]
      /\ \A i \in 1 .. Len(t) : u[Len(s) + i] = t[i]
  BY TextJoined
<1> HIDE DEF u
<1>2. ASSUME Avoids(u, chars) PROVE Avoids(s, chars) /\ Avoids(t, chars)
  <2>1. ASSUME NEW i \in 1 .. Len(s) PROVE s[i] \notin chars
    <3>1. i \in 1 .. Len(u)
      BY <1>1
    <3> QED BY <3>1, <1>1, <1>2 DEF Avoids
  <2>2. ASSUME NEW i \in 1 .. Len(t) PROVE t[i] \notin chars
    <3>1. Len(s) + i \in 1 .. Len(u)
      BY <1>1
    <3> QED BY <3>1, <1>1, <1>2 DEF Avoids
  <2> QED BY <2>1, <2>2 DEF Avoids
<1>3. ASSUME Avoids(s, chars), Avoids(t, chars) PROVE Avoids(u, chars)
  <2>1. ASSUME NEW i \in 1 .. Len(u) PROVE u[i] \notin chars
    <3>1. CASE i <= Len(s)
      <4>1. i \in 1 .. Len(s)
        BY <3>1
      <4> QED BY <4>1, <1>1, <1>3 DEF Avoids
    <3>2. CASE ~ (i <= Len(s))
      <4> DEFINE j == i - Len(s)
      <4>1. j \in 1 .. Len(t) /\ Len(s) + j = i
        BY <3>2, <1>1
      <4> HIDE DEF j
      <4>2. u[Len(s) + j] = t[j] /\ t[j] \notin chars
        BY <4>1, <1>1, <1>3 DEF Avoids
      <4> QED BY <4>1, <4>2
    <3> QED BY <3>1, <3>2
  <2> QED BY <2>1 DEF Avoids
<1> QED BY <1>2, <1>3 DEF u

LEMMA AvoidsCat ==
    ASSUME NEW s \in Text, NEW t \in Text, NEW chars
    PROVE  Avoids(Cat(s, t), chars) <=> Avoids(s, chars) /\ Avoids(t, chars)
  BY AvoidsJoined DEF Cat

LEMMA AvoidsFew ==
    ASSUME NEW chars, NEW a, a \notin chars
    PROVE  Avoids(<<>>, chars) /\ Avoids(<<a>>, chars)
  BY DEF Avoids

LEMMA AvoidsOne ==
    ASSUME NEW chars, NEW a
    PROVE  Avoids(One(a), chars) <=> a \notin chars
  BY DEF Avoids, One

LEMMA DigitsAre ==
    ASSUME NEW n \in Nat
    PROVE  /\ Digits(n) \in Text /\ Digits(n) # <<>> /\ Len(Digits(n)) \in Nat
           /\ Len(Digits(n)) >= 1
           /\ \A i \in 1 .. Len(Digits(n)) : Digits(n)[i] \in 48 .. 57
           /\ Number(Digits(n), 10) = n
<1> DEFINE d == Digits(n)
           S == 48 .. 57
<1>1. d \in Seq(S) /\ d \in Text /\ Len(d) \in Nat /\ Len(d) >= 1 /\ Number(d, 10) = n
  BY DigitsWrite
<1> HIDE DEF d, S
<1>2. \A i \in 1 .. Len(d) : d[i] \in S
  BY <1>1, ElementOfSeq
<1>3. d # <<>>
  BY <1>1, TextIs
<1> QED BY <1>1, <1>2, <1>3 DEF d, S

LEMMA AvoidsDigits ==
    ASSUME NEW n \in Nat, NEW chars, chars \cap 48 .. 57 = {}
    PROVE  Avoids(Digits(n), chars)
<1>1. \A i \in 1 .. Len(Digits(n)) : Digits(n)[i] \in 48 .. 57
  BY DigitsAre
<1> QED BY <1>1 DEF Avoids

\* The first occurrence of a character.
LEMMA AtIs ==
    ASSUME NEW source \in Text, NEW s \in Text, NEW c \in Nat, Avoids(s, {c}),
           Stands(source, 0, s), Len(s) + 1 <= Len(source), source[Len(s) + 1] = c
    PROVE  At(source, c) = Len(s) + 1
<1> DEFINE n == Len(s)
           P(i) == source[i] = c /\ \A j \in 1 .. i - 1 : source[j] # c
<1>1. Len(source) \in Nat /\ DOMAIN source = 1 .. Len(source) /\ n \in Nat
  BY TextIs
<1>2. ASSUME NEW j \in 1 .. n PROVE source[j] # c
  <2>1. \A i \in 1 .. n : source[0 + i] = s[i]
    BY DEF Stands
  <2>2. source[0 + j] = s[j] /\ s[j] # c /\ 0 + j = j
    BY <2>1 DEF Avoids
  <2> QED BY <2>2
<1> HIDE DEF n
<1>3. n + 1 \in DOMAIN source /\ P(n + 1)
  <2>1. (n + 1) - 1 = n
    BY <1>1
  <2> QED BY <2>1, <1>1, <1>2 DEF n
<1>4. ASSUME NEW i \in DOMAIN source, P(i) PROVE i = n + 1
  <2>1. i \in Nat /\ i >= 1
    BY <1>1
  <2>2. ~ (i <= n)
    <3>1. SUFFICES ASSUME i <= n PROVE FALSE
      OBVIOUS
    <3>2. i \in 1 .. n
      BY <2>1, <3>1, <1>1
    <3> QED BY <3>2, <1>2, <1>4
  <2>3. ~ (i > n + 1)
    <3>1. SUFFICES ASSUME i > n + 1 PROVE FALSE
      OBVIOUS
    <3>2. n + 1 \in 1 .. i - 1
      BY <2>1, <3>1, <1>1
    <3> QED BY <3>2, <1>3, <1>4
  <2> QED BY <2>1, <2>2, <2>3, <1>1
<1>5. At(source, c) = CHOOSE i \in DOMAIN source : P(i)
  BY DEF At
<1> HIDE DEF P
<1>6. (CHOOSE i \in DOMAIN source : P(i)) = n + 1
  BY <1>3, <1>4
<1> QED BY <1>5, <1>6 DEF n

LEMMA AtSize ==
    ASSUME NEW source \in Text, NEW s \in Text, NEW c \in Nat, Avoids(s, {c}),
           Stands(source, 0, s), Stands(source, Size(s), One(c))
    PROVE  At(source, c) = Size(s) + 1
<1>1. Size(s) + 1 <= Size(source) /\ source[Size(s) + 1] = c
  BY SizeIs, OneStands
<1> QED BY <1>1, AtIs DEF Size

LEMMA DigitsSize == ASSUME NEW n \in Nat PROVE Size(Digits(n)) \in Nat /\ Size(Digits(n)) >= 1
  BY DigitsAre DEF Size

-----------------------------------------------------------------------------
(* The values of every type come back from their texts.                    *)

LEMMA TextWithout ==
    ASSUME NEW s \in Text, NEW t \in Text, NEW c \in Nat
    PROVE  /\ Without(s \o t, c) = Without(s, c) \o Without(t, c)
           /\ Avoids(s, {c}) => Without(s, c) = s
           /\ Without(<<c>>, c) = <<>> /\ Without(<<>>, c) = <<>>
<1> DEFINE S == Nat
<1>1. s \in Seq(S) /\ t \in Seq(S)
  BY DEF Text
<1> HIDE DEF S
<1>2. Without(s \o t, c) = Without(s, c) \o Without(t, c)
  BY <1>1, WithoutJoined
<1>3. ASSUME Avoids(s, {c}) PROVE Without(s, c) = s
  <2>1. \A i \in 1 .. Len(s) : s[i] # c
    BY <1>3 DEF Avoids
  <2> QED BY <2>1, <1>1, WithoutNone
<1> QED BY <1>2, <1>3, WithoutOne

\* JSON comes back.
LEMMA ReadJson ==
    ASSUME NEW n \in Nat
    PROVE  /\ Json(n) \in Text /\ Json(n) # <<>>
           /\ Number(SubSeq(Json(n), 6, Len(Json(n)) - 1), 10) = n
<1> DEFINE a == <<Open, DoubleQuote, 110, DoubleQuote, 58>>
           b == Digits(n)
           c == <<Close>>
           u == a \o b
           w == u \o c
<1>1. a \in Text /\ Len(a) = 5
  BY DEF Text, Open, DoubleQuote
<1>2. c \in Text /\ Len(c) = 1
  BY DEF Text, Close
<1>3. b \in Text /\ Len(b) \in Nat /\ Number(b, 10) = n
  BY DigitsAre
<1> HIDE DEF a, b, c
<1>4. u \in Text /\ Len(u) = 5 + Len(b)
  BY <1>1, <1>3, TextLen
<1> HIDE DEF u
<1>5. w \in Text /\ Len(w) = (5 + Len(b)) + 1 /\ Stands(w, 0, u)
  BY ZenonT(30), <1>2, <1>4, TextJoined
<1> HIDE DEF w
<1>6. Stands(w, 0 + Len(a), b)
  <2>1. 0 \in Nat /\ Stands(w, 0, a \o b)
    BY <1>5 DEF u
  <2> QED BY <2>1, <1>1, <1>3, <1>5, TextStands
<1>7. SubSeq(w, 6, Len(w) - 1) = b
  <2>1. 5 \in Nat /\ Stands(w, 5, b)
    BY <1>1, <1>6
  <2>2. SubSeq(w, 5 + 1, 5 + Len(b)) = b
    BY <2>1, <1>3, <1>5, TextStands
  <2>3. 5 + 1 = 6 /\ 5 + Len(b) = Len(w) - 1
    BY <1>3, <1>5
  <2> QED BY <2>2, <2>3
<1>8. w # <<>>
  BY <1>3, <1>5, TextIs
<1>9. w = Json(n)
  BY DEF w, u, a, b, c, Json
<1> QED BY <1>3, <1>5, <1>7, <1>8, <1>9

LEMMA WithoutCat ==
    ASSUME NEW s \in Text, NEW t \in Text, NEW c \in Nat
    PROVE  Without(Cat(s, t), c) = Cat(Without(s, c), Without(t, c))
  BY TextWithout DEF Cat

LEMMA WithoutFew ==
    ASSUME NEW s \in Text, NEW c \in Nat
    PROVE  /\ Avoids(s, {c}) => Without(s, c) = s
           /\ Without(One(c), c) = <<>> /\ Without(<<>>, c) = <<>>
  BY TextWithout DEF One

LEMMA ReadPoint ==
    ASSUME NEW m \in Nat, NEW n \in Nat
    PROVE  LET w == Cat(One(40), Cat(Digits(m), Cat(One(Comma), Cat(Digits(n), One(41)))))
           IN  /\ w \in Text /\ ParsePoint(w) = <<m, n>>
               /\ Size(w) = (Size(Digits(m)) + Size(Digits(n))) + 3
<1> DEFINE a == One(40)
           b == Digits(m)
           c == One(Comma)
           d == Digits(n)
           e == One(41)
           w4 == Cat(d, e)
           w3 == Cat(c, w4)
           w2 == Cat(b, w3)
           w == Cat(a, w2)
           v2 == Cat(c, d)
           v == Cat(b, v2)
<1>1. /\ a \in Text /\ b \in Text /\ c \in Text /\ d \in Text /\ e \in Text
      /\ Comma \in Nat
  BY DigitsAre, OneIs DEF Comma
<1>2. Size(a) = 1 /\ Size(b) \in Nat /\ Size(c) = 1 /\ Size(d) \in Nat /\ Size(e) = 1
  BY <1>1, DigitsSize, OneIs
<1>3. Number(b, 10) = m /\ Number(d, 10) = n
  BY DigitsAre
<1>4. Avoids(b, {Comma})
  <2>1. {Comma} \cap 48 .. 57 = {}
    BY DEF Comma
  <2> QED BY <2>1, AvoidsDigits
<1>5. c = One(Comma)
  OBVIOUS
<1> HIDE DEF a, b, c, d, e
<1>6. w4 \in Text /\ Size(w4) = Size(d) + 1
  BY <1>1, <1>2, CatLen
<1> HIDE DEF w4
<1>7. w3 \in Text /\ Size(w3) = 1 + Size(w4)
  BY <1>1, <1>2, <1>6, CatLen
<1> HIDE DEF w3
<1>8. w2 \in Text /\ Size(w2) = Size(b) + Size(w3)
  BY <1>1, <1>2, <1>7, CatLen
<1> HIDE DEF w2
<1>9. w \in Text /\ Size(w) = 1 + Size(w2)
  BY <1>1, <1>2, <1>8, CatLen
<1> HIDE DEF w
<1>10. Size(w) = (Size(b) + Size(d)) + 3
  BY <1>2, <1>6, <1>7, <1>8, <1>9
<1>11. v2 \in Text /\ Size(v2) = 1 + Size(d)
  BY <1>1, <1>2, CatLen
<1> HIDE DEF v2
<1>12. v \in Text /\ Size(v) = Size(b) + Size(v2)
  BY <1>1, <1>2, <1>11, CatLen
<1> HIDE DEF v
<1>13. Stands(w, 0, w)
  BY <1>9, SizeIs
<1>14. Stands(w, 0 + 1, w2)
  BY <1>1, <1>2, <1>8, <1>9, <1>13, CatStands DEF w
<1>15. Stands(w, 1, w2)
  BY <1>14
<1>16. Stands(w, 1, b) /\ Stands(w, 1 + Size(b), w3)
  BY <1>1, <1>2, <1>7, <1>9, <1>15, CatStands DEF w2
<1>17. Stands(w, 1 + Size(b), c) /\ Stands(w, (1 + Size(b)) + 1, w4)
  <2>1. 1 + Size(b) \in Nat
    BY <1>2
  <2> QED BY <2>1, <1>1, <1>2, <1>6, <1>9, <1>16, CatStands DEF w3
<1>18. Stands(w, (1 + Size(b)) + 1, d)
  <2>1. (1 + Size(b)) + 1 \in Nat
    BY <1>2
  <2> QED BY <2>1, <1>1, <1>2, <1>9, <1>17, CatStands DEF w4
<1>19. Stands(w, 1 + Size(b), v2)
  <2>1. 1 + Size(b) \in Nat
    BY <1>2
  <2> QED BY <2>1, <1>1, <1>2, <1>9, <1>17, <1>18, CatStands DEF v2
<1>20. Stands(w, 1, v)
  BY <1>1, <1>2, <1>9, <1>11, <1>16, <1>19, CatStands DEF v
<1>21. Sub(w, 2, Size(w) - 1) = v
  <2>1. Sub(w, 1 + 1, 1 + Size(v)) = v
    <3>1. 1 \in Nat
      OBVIOUS
    <3> QED BY <3>1, <1>9, <1>12, <1>20, StandsSub
  <2>2. 1 + 1 = 2 /\ 1 + Size(v) = Size(w) - 1
    BY <1>2, <1>10, <1>11, <1>12
  <2> QED BY <2>1, <2>2
<1>22. Stands(v, 0, v)
  BY <1>12, SizeIs
<1>23. Stands(v, 0, b) /\ Stands(v, 0 + Size(b), v2)
  BY <1>1, <1>11, <1>12, <1>22, CatStands DEF v
<1>24. Stands(v, Size(b), c) /\ Stands(v, Size(b) + 1, d)
  <2>1. 0 + Size(b) = Size(b)
    BY <1>2
  <2> QED BY <2>1, <1>1, <1>2, <1>12, <1>23, CatStands DEF v2
<1>25. Sub(v, 1, Size(b)) = b
  <2>1. Sub(v, 0 + 1, 0 + Size(b)) = b
    BY <1>1, <1>12, <1>23, StandsSub
  <2>2. 0 + 1 = 1 /\ 0 + Size(b) = Size(b)
    BY <1>2
  <2> QED BY <2>1, <2>2
<1>26. Sub(v, (Size(b) + 1) + 1, Size(v)) = d
  <2>1. Size(b) + 1 \in Nat
    BY <1>2
  <2>2. Sub(v, (Size(b) + 1) + 1, (Size(b) + 1) + Size(d)) = d
    BY <2>1, <1>1, <1>12, <1>24, StandsSub
  <2>3. (Size(b) + 1) + Size(d) = Size(v)
    BY <1>2, <1>11, <1>12
  <2> QED BY <2>2, <2>3
<1>27. At(v, Comma) = Size(b) + 1
  <2>1. Stands(v, Size(b), One(Comma))
    BY <1>5, <1>24
  <2> QED BY <2>1, <1>1, <1>4, <1>12, <1>23, AtSize
<1>28. ParsePoint(w) = <<m, n>>
  <2> DEFINE s1 == Sub(v, 1, At(v, Comma) - 1)
             s2 == Sub(v, At(v, Comma) + 1, Size(v))
  <2>1. (Size(b) + 1) - 1 = Size(b)
    BY <1>2
  <2>2. s1 = b /\ s2 = d
    BY <2>1, <1>25, <1>26, <1>27
  <2> HIDE DEF s1, s2
  <2>3. ParsePoint(w) = <<Number(s1, 10), Number(s2, 10)>>
    BY <1>21 DEF ParsePoint, Sub, Size, s1, s2
  <2> QED BY <2>2, <2>3, <1>3
<1> QED BY <1>9, <1>10, <1>28 DEF a, b, c, d, e, w, w2, w3, w4

\* Circles come back, through the points of their centers.
LEMMA ReadCircle ==
    ASSUME NEW l \in Nat, NEW m \in Nat, NEW n \in Nat
    PROVE  /\ SerializeCircle(<<l, m, n>>) \in Text /\ SerializeCircle(<<l, m, n>>) # <<>>
           /\ ParseCircle(SerializeCircle(<<l, m, n>>)) = <<l, m, n>>
<1> DEFINE a0 == One(60)
           a == One(40)
           b == Digits(l)
           c == One(Comma)
           d == Digits(m)
           e == One(41)
           f == Digits(n)
           z == One(62)
           w4 == Cat(d, e)
           w3 == Cat(c, w4)
           w2 == Cat(b, w3)
           w == Cat(a, w2)
           r == Cat(c, f)
           rz == Cat(r, z)
           wr == Cat(w, rz)
           T == Cat(a0, wr)
           p3 == Cat(c, d)
           p2 == Cat(b, p3)
           p1 == Cat(a, p2)
           p == Cat(a0, p1)
<1>1. /\ a0 \in Text /\ a \in Text /\ b \in Text /\ c \in Text /\ d \in Text
      /\ e \in Text /\ f \in Text /\ z \in Text /\ Comma \in Nat /\ 41 \in Nat
  BY DigitsAre, OneIs DEF Comma
<1>2. /\ Size(a0) = 1 /\ Size(a) = 1 /\ Size(b) \in Nat /\ Size(c) = 1 /\ Size(d) \in Nat
      /\ Size(e) = 1 /\ Size(f) \in Nat /\ Size(z) = 1
  BY <1>1, DigitsSize, OneIs
<1>3. Number(f, 10) = n
  BY DigitsAre
<1>4. Avoids(f, {Comma})
  <2>1. {Comma} \cap 48 .. 57 = {}
    BY DEF Comma
  <2> QED BY <2>1, AvoidsDigits
<1>5. c = One(Comma) /\ e = One(41)
  OBVIOUS
<1>6. /\ w \in Text /\ ParsePoint(w) = <<l, m>>
      /\ Size(w) = (Size(b) + Size(d)) + 3
  BY ReadPoint
<1>7. T = SerializeCircle(<<l, m, n>>)
  <2> DEFINE x == <<60, 40>>
             y == <<41, Comma>>
             x1 == Cat(x, b)
             x2 == Cat(x1, c)
             x3 == Cat(x2, d)
             x4 == Cat(x3, y)
             x5 == Cat(x4, f)
  <2>1. x = Cat(a0, a) /\ y = Cat(e, c)
    <3>1. 60 \in Nat /\ 40 \in Nat
      OBVIOUS
    <3> QED BY <3>1, <1>1, TextFew DEF Cat, One
  <2>2. SerializeCircle(<<l, m, n>>) = Cat(x5, z)
    BY DEF SerializeCircle, Cat, One
  <2> HIDE DEF x, y, a0, a, b, c, d, e, f, z
  <2>3. Cat(a0, a) \in Text /\ x \in Text /\ y \in Text
    BY <2>1, <1>1, CatLen
  <2>4. /\ x1 \in Text /\ w4 \in Text /\ p3 \in Text /\ r \in Text
    BY <2>3, <1>1, CatLen
  <2> HIDE DEF x1, w4, r
  <2>5. x2 \in Text /\ w3 \in Text /\ rz \in Text
    BY <2>4, <1>1, CatLen
  <2> HIDE DEF x2, w3, rz
  <2>6. x3 \in Text /\ w2 \in Text
    BY <2>5, <1>1, CatLen
  <2> HIDE DEF x3, w2
  <2>7. x4 \in Text /\ w \in Text /\ Cat(x3, e) \in Text
    BY <2>3, <2>6, <1>1, CatLen
  <2>8. x4 = Cat(Cat(x3, e), c)
    BY <2>1, <2>6, <1>1, CatAssociative
  <2> HIDE DEF x4, w
  <2>9. Cat(x5, z) = Cat(Cat(x3, e), rz)
    <3> DEFINE g == Cat(x3, e)
    <3>1. g \in Text
      BY <2>7
    <3>2. x4 = Cat(g, c)
      BY <2>8
    <3> HIDE DEF g
    <3>3. x5 = Cat(g, r)
      BY <3>1, <3>2, <1>1, CatAssociative DEF r
    <3> HIDE DEF x5
    <3>4. Cat(x5, z) = Cat(g, rz)
      BY <3>1, <3>3, <2>4, <1>1, CatAssociative DEF rz
    <3> QED BY <3>4 DEF g
  <2>10. Cat(x3, e) = Cat(x2, w4)
    BY <2>5, <1>1, CatAssociative DEF x3, w4
  <2>11. Cat(x2, w4) = Cat(x1, w3)
    BY <2>4, <1>1, CatAssociative DEF x2, w3
  <2>12. Cat(x1, w3) = Cat(x, w2)
    BY <2>3, <2>5, <1>1, CatAssociative DEF x1, w2
  <2>13. Cat(x, w2) = Cat(a0, w)
    BY <2>1, <2>6, <1>1, CatAssociative DEF w
  <2>14. Cat(Cat(a0, w), rz) = Cat(a0, wr)
    BY <2>5, <2>7, <1>1, CatAssociative
  <2> QED BY <2>2, <2>9, <2>10, <2>11, <2>12, <2>13, <2>14
<1>8. /\ Avoids(a0, {41}) /\ Avoids(a, {41}) /\ Avoids(b, {41}) /\ Avoids(c, {41})
      /\ Avoids(d, {41})
  <2>1. {41} \cap 48 .. 57 = {} /\ 60 \notin {41} /\ 40 \notin {41} /\ Comma \notin {41}
    BY DEF Comma
  <2> QED BY <2>1, AvoidsDigits, AvoidsOne
<1> HIDE DEF a0, a, b, c, d, e, f, z
<1>9. p3 \in Text /\ Size(p3) = 1 + Size(d) /\ Avoids(p3, {41})
  BY <1>1, <1>2, <1>8, CatLen, AvoidsCat
<1> HIDE DEF p3
<1>10. p2 \in Text /\ Size(p2) = Size(b) + Size(p3) /\ Avoids(p2, {41})
  BY <1>1, <1>2, <1>8, <1>9, CatLen, AvoidsCat
<1> HIDE DEF p2
<1>11. p1 \in Text /\ Size(p1) = 1 + Size(p2) /\ Avoids(p1, {41})
  BY <1>1, <1>2, <1>8, <1>10, CatLen, AvoidsCat
<1> HIDE DEF p1
<1>12. p \in Text /\ Size(p) = 1 + Size(p1) /\ Avoids(p, {41})
  BY <1>1, <1>2, <1>8, <1>11, CatLen, AvoidsCat
<1> HIDE DEF p
<1>13. w4 \in Text /\ Size(w4) = Size(d) + 1 /\ r \in Text /\ Size(r) = 1 + Size(f)
  BY <1>1, <1>2, CatLen
<1> HIDE DEF w4, r
<1>14. w3 \in Text /\ rz \in Text /\ Size(rz) = Size(r) + 1
  BY <1>1, <1>2, <1>13, CatLen
<1> HIDE DEF w3, rz
<1>15. w2 \in Text
  BY <1>1, <1>14, CatLen
<1> HIDE DEF w2, w
<1>16. wr \in Text /\ Size(wr) = Size(w) + Size(rz)
  BY <1>6, <1>14, CatLen
<1> HIDE DEF wr
<1>17. T \in Text /\ Size(T) = 1 + Size(wr)
  BY <1>1, <1>2, <1>16, CatLen
<1> HIDE DEF T
<1> DEFINE k == Size(w)
<1>18. k \in Nat /\ k = Size(p)
  BY <1>2, <1>6, <1>9, <1>10, <1>11, <1>12
<1>19. Size(T) = ((k + 1) + (1 + Size(f))) + 1
  BY <1>2, <1>13, <1>14, <1>16, <1>17, <1>18
<1> HIDE DEF k
<1>20. Stands(T, 0, T)
  BY <1>17, SizeIs
<1>21. Stands(T, 0, a0) /\ Stands(T, 0 + 1, wr)
  BY <1>1, <1>2, <1>16, <1>17, <1>20, CatStands DEF T
<1>22. Stands(T, 1, wr)
  BY <1>21
<1>23. Stands(T, 1, w) /\ Stands(T, 1 + k, rz)
  BY <1>6, <1>14, <1>17, <1>22, CatStands DEF wr, k
<1>24. Stands(T, 1 + k, r)
  <2>1. 1 + k \in Nat
    BY <1>18
  <2> QED BY <2>1, <1>1, <1>13, <1>17, <1>23, CatStands DEF rz
<1>25. Stands(T, 1, a) /\ Stands(T, 1 + 1, w2)
  BY <1>1, <1>2, <1>15, <1>17, <1>23, CatStands DEF w
<1>26. Stands(T, 2, w2)
  BY <1>25
<1>27. Stands(T, 2, b) /\ Stands(T, 2 + Size(b), w3)
  BY <1>1, <1>14, <1>17, <1>26, CatStands DEF w2
<1>28. 2 + Size(b) \in Nat /\ (2 + Size(b)) + 1 \in Nat
  BY <1>2
<1>29. Stands(T, 2 + Size(b), c) /\ Stands(T, (2 + Size(b)) + 1, w4)
  BY <1>1, <1>2, <1>13, <1>17, <1>27, <1>28, CatStands DEF w3
<1>30. Stands(T, (2 + Size(b)) + 1, d) /\ Stands(T, ((2 + Size(b)) + 1) + Size(d), e)
  BY <1>1, <1>2, <1>17, <1>28, <1>29, CatStands DEF w4
<1>31. Stands(T, 2 + Size(b), p3)
  BY <1>1, <1>2, <1>17, <1>28, <1>29, <1>30, CatStands DEF p3
<1>32. Stands(T, 2, p2)
  BY <1>1, <1>9, <1>17, <1>27, <1>31, CatStands DEF p2
<1>33. Stands(T, 1, p1)
  <2>1. 1 + 1 = 2
    OBVIOUS
  <2> QED BY <2>1, <1>1, <1>2, <1>10, <1>17, <1>25, <1>32, CatStands DEF p1
<1>34. Stands(T, 0, p)
  <2>1. 0 + 1 = 1
    OBVIOUS
  <2> QED BY <2>1, <1>1, <1>2, <1>11, <1>17, <1>21, <1>33, CatStands DEF p
<1>35. At(T, 41) = Size(p) + 1
  <2>1. ((2 + Size(b)) + 1) + Size(d) = Size(p)
    BY <1>2, <1>9, <1>10, <1>11, <1>12
  <2>2. Stands(T, Size(p), One(41))
    BY <2>1, <1>5, <1>30
  <2> QED BY <2>2, <1>1, <1>12, <1>17, <1>34, AtSize
<1>36. Sub(T, 2, k + 1) = w
  <2>1. Sub(T, 1 + 1, 1 + Size(w)) = w
    <3>1. 1 \in Nat
      OBVIOUS
    <3> QED BY <3>1, <1>6, <1>17, <1>23, StandsSub
  <2>2. 1 + 1 = 2 /\ 1 + Size(w) = k + 1
    BY <1>18 DEF k
  <2> QED BY <2>1, <2>2
<1>37. Sub(T, (k + 1) + 1, Size(T) - 1) = r
  <2>1. Sub(T, (1 + k) + 1, (1 + k) + Size(r)) = r
    <3>1. 1 + k \in Nat
      BY <1>18
    <3> QED BY <3>1, <1>13, <1>17, <1>24, StandsSub
  <2>2. (1 + k) + 1 = (k + 1) + 1 /\ (1 + k) + Size(r) = Size(T) - 1
    BY <1>2, <1>13, <1>18, <1>19
  <2> QED BY <2>1, <2>2
<1>38. Without(r, Comma) = f
  <2>1. Without(r, Comma) = Cat(Without(c, Comma), Without(f, Comma))
    BY <1>1, WithoutCat DEF r
  <2>2. Without(c, Comma) = <<>>
    BY <1>1, <1>5, WithoutFew
  <2>3. Without(f, Comma) = f
    BY <1>1, <1>4, WithoutFew
  <2> QED BY <2>1, <2>2, <2>3, <1>1, CatEmpty
<1>39. ParseCircle(T) = <<l, m, n>>
  <2> DEFINE end == k + 1
  <2>1. At(T, 41) = end
    BY <1>18, <1>35
  <2>2. Sub(T, 2, end) = w /\ Sub(T, end + 1, Size(T) - 1) = r
    BY <1>36, <1>37
  <2> HIDE DEF end
  <2>3. ParseCircle(T) = Append(ParsePoint(Sub(T, 2, end)),
                                Number(Without(Sub(T, end + 1, Size(T) - 1), Comma), 10))
    BY <2>1 DEF ParseCircle, Sub, Size
  <2>4. ParseCircle(T) = Append(<<l, m>>, n)
    BY <2>2, <2>3, <1>3, <1>6, <1>38
  <2>5. <<l, m>> \in Text /\ <<l, m, n>> \in Text
    BY DEF Text
  <2>6. Append(<<l, m>>, n) = <<l, m, n>>
    <3> DEFINE s == <<l, m>>
               t == <<l, m, n>>
               u == Append(s, n)
    <3>1. Len(s) = 2 /\ s[1] = l /\ s[2] = m
      OBVIOUS
    <3>2. Len(t) = 3 /\ t[1] = l /\ t[2] = m /\ t[3] = n
      OBVIOUS
    <3>3. s \in Text /\ t \in Text
      BY <2>5
    <3> HIDE DEF s, t
    <3>4. /\ u \in Text /\ Len(u) = Len(s) + 1 /\ u[Len(s) + 1] = n
          /\ \A i \in 1 .. Len(s) : u[i] = s[i]
      BY <3>3, TextAppend
    <3> HIDE DEF u
    <3>5. Len(u) = 3 /\ u[1] = l /\ u[2] = m /\ u[3] = n
      BY <3>1, <3>4
    <3>6. \A i \in 1 .. Len(u) : u[i] = t[i]
      BY <3>2, <3>5
    <3>7. u = t
      BY <3>2, <3>3, <3>4, <3>5, <3>6, TextEqual
    <3> QED BY <3>7 DEF s, t, u
  <2> QED BY <2>4, <2>6
<1>40. T # <<>>
  BY SMTT(30), <1>2, <1>17, <1>18, <1>19, SizeIs
<1> QED BY <1>7, <1>17, <1>39, <1>40

-----------------------------------------------------------------------------
(* The texts of single values, without commas and quotes.                  *)

LEMMA AppendIs ==
    ASSUME NEW s \in Text, NEW c \in Nat
    PROVE  Append(s, c) = Cat(s, One(c))
<1>1. Append(s, c) = s \o <<c>>
  BY TextAppend
<1> QED BY <1>1 DEF Cat, One

LEMMA PadIs ==
    ASSUME NEW n \in Nat, n < 10000
    PROVE  /\ Pad(n, 4) \in Text /\ Size(Pad(n, 4)) = 4 /\ Number(Pad(n, 4), 10) = n
           /\ Avoids(Pad(n, 4), {Comma, DoubleQuote})
<1>1. PICK a, b, c, d \in 48 .. 57 :
         Pad(n, 4) = Four(a, b, c, d) /\ Number(Pad(n, 4), 10) = n
  <2> DEFINE text == Pad(n, 4)
  <2>1. FourDigits(text, n)
    BY SMTT(30), PadFour
  <2> HIDE DEF text
  <2>2. \E a, b, c, d \in 48 .. 57 : text = Four(a, b, c, d) /\ Number(text, 10) = n
    BY <2>1 DEF FourDigits
  <2> QED BY SMTT(30), <2>2 DEF text
<1> DEFINE t == <<a, b, c, d>>
<1>2. t \in Text
  BY DEF Text
<1>3. Len(t) = 4 /\ t[1] = a /\ t[2] = b /\ t[3] = c /\ t[4] = d
  OBVIOUS
<1> HIDE DEF t
<1>4. \A i \in 1 .. Len(t) : t[i] \in 48 .. 57
  BY <1>3
<1>5. Avoids(t, {Comma, DoubleQuote})
  BY <1>4 DEF Avoids, Comma, DoubleQuote
<1>6. Pad(n, 4) = t /\ Number(t, 10) = n
  BY <1>1 DEF t, Four
<1> QED BY SMTT(30), <1>2, <1>3, <1>5, <1>6 DEF Size

LEMMA BCIs == BC \in Text /\ Size(BC) = 3 /\ Avoids(BC, {Comma, DoubleQuote})
  BY DEF BC, Text, Size, Avoids, Comma, DoubleQuote

LEMMA EndsBC ==
    ASSUME NEW s \in Text
    PROVE  IsBC(Cat(s, BC)) /\ WithoutBC(Cat(s, BC)) = s
<1> DEFINE t == Cat(s, BC)
<1>1. t \in Text /\ Size(t) = Size(s) + 3 /\ Size(s) \in Nat
  BY BCIs, CatLen, SizeIs
<1>2. Stands(t, 0, s) /\ Stands(t, Size(s), BC)
  BY BCIs, CatIs
<1> HIDE DEF t
<1>3. Sub(t, Size(s) + 1, Size(s) + Size(BC)) = BC
  BY <1>1, <1>2, BCIs, StandsSub
<1>4. Sub(t, 0 + 1, 0 + Size(s)) = s
  <2>1. 0 \in Nat
    OBVIOUS
  <2> QED BY <2>1, <1>1, <1>2, StandsSub
<1>5. /\ Size(s) + 1 = Size(t) - 2 /\ Size(s) + Size(BC) = Size(t)
      /\ 0 + 1 = 1 /\ 0 + Size(s) = Size(t) - 3 /\ Size(t) >= 3
  BY <1>1, BCIs
<1>6. Sub(t, Size(t) - 2, Size(t)) = BC /\ Sub(t, 1, Size(t) - 3) = s
  BY <1>3, <1>4, <1>5
<1> QED BY <1>5, <1>6 DEF IsBC, WithoutBC, Sub, Size, t

LEMMA NotBC ==
    ASSUME NEW s \in Text, NEW c \in Nat, c # 67
    PROVE  /\ ~ IsBC(Cat(s, One(c))) /\ Cat(s, One(c)) \in Text
           /\ Last(Cat(s, One(c))) = c
<1> DEFINE t == Cat(s, One(c))
<1>1. One(c) \in Text /\ Size(One(c)) = 1
  BY OneIs
<1>2. t \in Text /\ Size(t) = Size(s) + 1 /\ Size(s) \in Nat
  BY <1>1, CatLen, SizeIs
<1>3. Stands(t, Size(s), One(c))
  BY <1>1, CatIs
<1> HIDE DEF t
<1>4. t[Size(t)] = c
  BY <1>2, <1>3, OneStands
<1>5. Last(t) = c
  BY <1>4 DEF Last, Size
<1>6. ~ IsBC(t)
  <2>1. SUFFICES ASSUME IsBC(t) PROVE FALSE
    OBVIOUS
  <2> DEFINE n == Len(t)
             b == SubSeq(t, n - 2, n)
  <2>2. n >= 3 /\ b = BC /\ n \in Nat
    BY <2>1, <1>2 DEF IsBC, Size
  <2>3. \A i \in 1 .. n : t[i] \in Nat
    BY <1>2, TextIs
  <2>4. \A i \in 1 .. 3 : b[i] = t[((n - 2) + i) - 1]
    BY <2>2, <2>3, SubSeqProperties
  <2> HIDE DEF b, n
  <2>5. b[3] = t[n]
    <3>1. ((n - 2) + 3) - 1 = n /\ 3 \in 1 .. 3
      BY <2>2
    <3> QED BY <3>1, <2>4
  <2>6. BC[3] = 67
    BY DEF BC
  <2>7. t[n] = c
    BY <1>4 DEF n, Size
  <2> QED BY <2>2, <2>5, <2>6, <2>7
<1> QED BY <1>2, <1>5, <1>6 DEF t

\* Moments come back, with a time zone, before and after Christ.
LEMMA ReadZoned ==
    ASSUME NEW p \in Text, Size(p) = 4, NEW n, Number(p, 10) = n, NEW r \in Text, NEW e,
           e = Cat(Cat(p, r), One(Zone))
    PROVE  /\ e \in Text /\ ParseTimestampTz(e) = n
           /\ ParseTimestampTz(Cat(e, BC)) = -(n - 1)
<1> DEFINE d == Cat(p, r)
<1>1. Zone \in Nat /\ Zone # 67
  BY DEF Zone
<1>2. d \in Text
  BY CatLen
<1>3. Stands(d, 0, p)
  BY CatIs
<1>4. e = Cat(d, One(Zone))
  OBVIOUS
<1>5. One(Zone) \in Text
  BY <1>1, OneIs
<1> HIDE DEF d
<1>6. e \in Text /\ ~ IsBC(e) /\ Last(e) = Zone
  BY <1>1, <1>2, <1>4, NotBC
<1>7. Stands(e, 0, d)
  BY <1>2, <1>4, <1>5, CatIs
<1>8. Stands(e, 0, p)
  <2>1. 0 \in Nat /\ Stands(e, 0, Cat(p, r))
    BY <1>7 DEF d
  <2> QED BY <2>1, <1>6, CatStands
<1>9. Sub(e, 1, 4) = p
  <2>1. Sub(e, 0 + 1, 0 + Size(p)) = p
    <3>1. 0 \in Nat
      OBVIOUS
    <3> QED BY <3>1, <1>6, <1>8, StandsSub
  <2>2. 0 + 1 = 1 /\ 0 + Size(p) = 4
    OBVIOUS
  <2> QED BY <2>1, <2>2
<1>10. SubSeq(e, 1, 4) = p
  BY <1>9 DEF Sub
<1>11. ParseTimestampTz(e) = n
  BY <1>6, <1>10 DEF ParseTimestampTz
<1>12. IsBC(Cat(e, BC)) /\ WithoutBC(Cat(e, BC)) = e
  BY <1>6, EndsBC
<1>13. ParseTimestampTz(Cat(e, BC)) = -(n - 1)
  <2> DEFINE f == Cat(e, BC)
  <2>1. IsBC(f) /\ WithoutBC(f) = e
    BY <1>12
  <2> HIDE DEF f
  <2>2. ParseTimestampTz(f) = -(n - 1)
    BY <2>1, <1>6, <1>10 DEF ParseTimestampTz
  <2> QED BY <2>2 DEF f
<1> QED BY <1>6, <1>11, <1>13

\* A moment without a time zone is given one.
LEMMA ReadLocal ==
    ASSUME NEW f \in Text
    PROVE  /\ ~ IsBC(f) => ParseTimestamp(f) = ParseTimestampTz(Cat(f, One(Zone)))
           /\ IsBC(f) => ParseTimestamp(f)
                             = ParseTimestampTz(Cat(Cat(WithoutBC(f), One(Zone)), BC))
<1>1. Append(f, Zone) = Cat(f, One(Zone))
  <2>1. Zone \in Nat
    BY DEF Zone
  <2> QED BY <2>1, AppendIs, Zenon
<1> QED BY <1>1 DEF ParseTimestamp, Cat, One

\* A date comes back with its zone, and, from a timestamp without time zone, without.
LEMMA ReadDate ==
    ASSUME NEW year \in Years
    PROVE  /\ SerializeDate(year) \in Text /\ SerializeDate(year) # <<>>
           /\ Avoids(SerializeDate(year), {Comma, DoubleQuote})
           /\ ParseTimestampTz(SerializeDate(year)) = year
           /\ ParseTimestamp(SerializeDate(year)) = year
           /\ DateText(year, <<>>) \in Text /\ DateText(year, <<>>) # <<>>
           /\ Avoids(DateText(year, <<>>), {Comma, DoubleQuote})
           /\ ParseTimestamp(DateText(year, <<>>)) = year
<1> DEFINE n == IF year < 1 THEN (-year) + 1 ELSE year
           p == Pad(n, 4)
           t == One(84)
           z == One(Zone)
           d == Cat(p, t)
           e == Cat(d, z)
           X == {Comma, DoubleQuote}
           BCE == year < 1
           y == IF year < 1 THEN -(n - 1) ELSE n
<1>1. n \in Nat /\ n < 10000 /\ y = year /\ (~ BCE => n = year)
  BY DEF Years
<1>2. SerializeDate(year) = IF BCE THEN Cat(e, BC) ELSE e
  BY <1>1 DEF SerializeDate, DateText, Cat, One
<1>3. DateText(year, <<>>) = IF BCE THEN Cat(Cat(d, <<>>), BC) ELSE Cat(d, <<>>)
  BY <1>1 DEF DateText, Cat, One
<1> HIDE DEF n, BCE
<1>4. p \in Text /\ Size(p) = 4 /\ Number(p, 10) = n /\ Avoids(p, X)
  BY <1>1, PadIs
<1>5. t \in Text /\ z \in Text /\ Size(t) = 1 /\ Size(z) = 1 /\ Avoids(t, X) /\ Avoids(z, X)
  <2>1. 84 \in Nat /\ Zone \in Nat /\ 84 \notin X /\ Zone \notin X
    BY DEF Zone, Comma, DoubleQuote
  <2> HIDE DEF X
  <2> QED BY <2>1, OneIs, AvoidsOne
<1>6. BC \in Text /\ Avoids(BC, X) /\ Zone \in Nat /\ Zone # 67 /\ 84 \in Nat /\ 84 # 67
  BY BCIs DEF Zone
<1>7. t = One(84) /\ z = One(Zone)
  OBVIOUS
<1> HIDE DEF p, t, z, X
<1>8. d \in Text /\ Size(d) = 5 /\ Avoids(d, X) /\ ~ IsBC(d)
  <2>1. ~ IsBC(d)
    BY <1>4, <1>6, <1>7, NotBC
  <2> QED BY <2>1, <1>4, <1>5, CatLen, AvoidsCat
<1>9. Cat(d, <<>>) = d
  BY <1>8, CatEmpty
<1>10. d = Cat(p, t)
  OBVIOUS
<1> HIDE DEF d
<1>11. e \in Text /\ Size(e) = 6 /\ Avoids(e, X) /\ ~ IsBC(e)
  <2>1. ~ IsBC(e)
    BY <1>6, <1>7, <1>8, NotBC
  <2> QED BY <2>1, <1>5, <1>8, CatLen, AvoidsCat
<1>12. e = Cat(d, z)
  OBVIOUS
<1> HIDE DEF e
<1>13. /\ Cat(d, BC) \in Text /\ Size(Cat(d, BC)) = 8 /\ Avoids(Cat(d, BC), X)
       /\ Cat(e, BC) \in Text /\ Size(Cat(e, BC)) = 9 /\ Avoids(Cat(e, BC), X)
  BY <1>6, <1>8, <1>11, BCIs, CatLen, AvoidsCat
<1>14. /\ IsBC(Cat(d, BC)) /\ WithoutBC(Cat(d, BC)) = d
       /\ IsBC(Cat(e, BC)) /\ WithoutBC(Cat(e, BC)) = e
  BY <1>8, <1>11, EndsBC
<1>15. ParseTimestampTz(e) = n /\ ParseTimestampTz(Cat(e, BC)) = -(n - 1)
  BY <1>4, <1>5, <1>7, <1>10, <1>12, ReadZoned
<1>16. /\ ParseTimestampTz(Cat(e, One(Zone))) = n
       /\ ParseTimestampTz(Cat(Cat(e, One(Zone)), BC)) = -(n - 1)
  <2> DEFINE r == Cat(t, z)
  <2>1. r \in Text
    BY <1>5, CatLen
  <2>2. e = Cat(p, r)
    BY <1>4, <1>5, <1>10, <1>12, CatAssociative
  <2> HIDE DEF r
  <2> QED BY <2>1, <2>2, <1>4, ReadZoned
<1>17. ASSUME NEW f \in Text
       PROVE  /\ ~ IsBC(f) => ParseTimestamp(f) = ParseTimestampTz(Cat(f, One(Zone)))
              /\ IsBC(f) => ParseTimestamp(f)
                                = ParseTimestampTz(Cat(Cat(WithoutBC(f), One(Zone)), BC))
  BY ReadLocal
<1>18. /\ ParseTimestamp(d) = n /\ ParseTimestamp(e) = n
       /\ ParseTimestamp(Cat(d, BC)) = -(n - 1) /\ ParseTimestamp(Cat(e, BC)) = -(n - 1)
  <2>1. ParseTimestamp(d) = n
    BY <1>7, <1>8, <1>12, <1>15, <1>17
  <2>2. ParseTimestamp(e) = n
    BY <1>11, <1>16, <1>17
  <2>3. ParseTimestamp(Cat(d, BC)) = -(n - 1)
    BY <1>7, <1>12, <1>13, <1>14, <1>15, <1>17
  <2>4. ParseTimestamp(Cat(e, BC)) = -(n - 1)
    BY <1>13, <1>14, <1>16, <1>17
  <2> QED BY <2>1, <2>2, <2>3, <2>4
<1>19. d # <<>> /\ e # <<>> /\ Cat(d, BC) # <<>> /\ Cat(e, BC) # <<>>
  BY <1>8, <1>11, <1>13, SizeIs
<1>20. CASE BCE
  <2>1. SerializeDate(year) = Cat(e, BC) /\ DateText(year, <<>>) = Cat(d, BC)
    BY <1>2, <1>3, <1>9, <1>20
  <2>2. -(n - 1) = year
    BY <1>1, <1>20 DEF BCE
  <2> QED BY <2>1, <2>2, <1>13, <1>15, <1>18, <1>19 DEF X
<1>21. CASE ~ BCE
  <2>1. SerializeDate(year) = e /\ DateText(year, <<>>) = d
    BY <1>2, <1>3, <1>9, <1>21
  <2>2. n = year
    BY <1>1, <1>21
  <2> QED BY <2>1, <2>2, <1>8, <1>11, <1>15, <1>18, <1>19 DEF X
<1> QED BY <1>20, <1>21

-----------------------------------------------------------------------------
(* Ranges.                                                                 *)

\* What the bounds of ranges are like.
Bare(t) == t \in Text /\ Avoids(t, {Comma, DoubleQuote})

LEMMA BareDigits ==
    ASSUME NEW n \in Nat
    PROVE  Bare(Digits(n))
<1>1. {Comma, DoubleQuote} \cap 48 .. 57 = {}
  BY DEF Comma, DoubleQuote
<1> QED BY <1>1, AvoidsDigits, DigitsAre DEF Bare

LEMMA BoundIs ==
    ASSUME NEW t, Bare(t)
    PROVE  /\ BoundText(t) \in Text /\ Avoids(BoundText(t), {Comma})
           /\ Without(BoundText(t), DoubleQuote) = t
<1>1. t \in Text /\ Avoids(t, {Comma, DoubleQuote})
  BY DEF Bare
<1>2. Avoids(t, {Comma}) /\ Avoids(t, {DoubleQuote})
  BY <1>1 DEF Avoids
<1>3. Without(t, DoubleQuote) = t
  BY <1>1, <1>2, WithoutFew DEF DoubleQuote
<1> DEFINE q == One(DoubleQuote)
           s == Cat(q, t)
           u == Cat(s, q)
<1>4. DoubleQuote \in Nat /\ Comma # DoubleQuote
  BY DEF DoubleQuote, Comma
<1>5. q \in Text /\ Without(q, DoubleQuote) = <<>> /\ Avoids(q, {Comma})
  BY <1>1, <1>4, OneIs, WithoutFew, AvoidsOne
<1>6. BoundText(t) = u \/ BoundText(t) = t
  BY DEF BoundText, Cat, One
<1> HIDE DEF q
<1>7. /\ s \in Text /\ Avoids(s, {Comma})
      /\ Without(s, DoubleQuote) = Cat(<<>>, t)
  BY <1>1, <1>2, <1>3, <1>4, <1>5, CatLen, AvoidsCat, WithoutCat
<1>8. Cat(<<>>, t) = t /\ Cat(t, <<>>) = t
  BY <1>1, CatEmpty
<1> HIDE DEF s
<1>9. /\ u \in Text /\ Avoids(u, {Comma})
      /\ Without(u, DoubleQuote) = Cat(t, <<>>)
  BY <1>4, <1>5, <1>7, <1>8, CatLen, AvoidsCat, WithoutCat
<1> HIDE DEF u
<1> QED BY <1>1, <1>2, <1>3, <1>6, <1>8, <1>9

ReadBound(text, parser) == IF text = <<>> THEN <<>> ELSE <<ParseAs(parser, text)>>

LEMMA ReadBoundText ==
    ASSUME NEW t, Bare(t), NEW parser
    PROVE  ParseBound(BoundText(t), parser) = ReadBound(t, parser)
  BY BoundIs DEF ParseBound, ReadBound

\* What is read of the text of a range that is not empty.
RangeRound(range, l, u, parser) ==
    Bare(l) /\ Bare(u) /\ range.empty = FALSE /\ range.closed \in BOOLEAN \X BOOLEAN =>
        /\ RangeText(range, l, u) \in Text /\ RangeText(range, l, u) # <<>>
        /\ ParseRange(RangeText(range, l, u), parser)
             = [empty |-> FALSE, lower |-> ReadBound(l, parser),
                upper |-> ReadBound(u, parser), closed |-> range.closed]

\* Ranges come back, if what is written for their bounds does.
LEMMA ReadRange ==
    ASSUME NEW range, NEW l, NEW u, NEW parser
    PROVE  RangeRound(range, l, u, parser)
<1> SUFFICES ASSUME range.empty = FALSE, range.closed \in BOOLEAN \X BOOLEAN, Bare(l), Bare(u)
             PROVE  /\ RangeText(range, l, u) \in Text /\ RangeText(range, l, u) # <<>>
                    /\ ParseRange(RangeText(range, l, u), parser)
                         = [empty |-> FALSE, lower |-> ReadBound(l, parser),
                            upper |-> ReadBound(u, parser), closed |-> range.closed]
  BY Zenon DEF RangeRound
<1> DEFINE c1 == range.closed[1]
           c2 == range.closed[2]
           f == IF c1 THEN 91 ELSE 40
           g == IF c2 THEN 93 ELSE 41
           a == One(f)
           b == BoundText(l)
           c == One(Comma)
           d == BoundText(u)
           e == One(g)
           p == Cat(a, b)
           pc == Cat(p, c)
           pd == Cat(pc, d)
           w == Cat(pd, e)
<1>1. /\ c1 \in BOOLEAN /\ c2 \in BOOLEAN /\ range.closed = <<c1, c2>>
      /\ f \in Nat /\ g \in Nat /\ (f = 91 <=> c1) /\ (g = 93 <=> c2)
      /\ f # 101 /\ f # Comma
  BY DEF Comma
<1>2. w = RangeText(range, l, u)
  BY DEF RangeText, Cat, One
<1>3. b \in Text /\ Avoids(b, {Comma}) /\ d \in Text
  BY BoundIs
<1>4. /\ ParseBound(b, parser) = ReadBound(l, parser)
      /\ ParseBound(d, parser) = ReadBound(u, parser)
  BY ReadBoundText
<1> HIDE DEF c1, c2, f, g, b, d
<1>5. Comma \in Nat
  BY DEF Comma
<1>6. /\ a \in Text /\ Size(a) = 1 /\ c \in Text /\ Size(c) = 1 /\ e \in Text /\ Size(e) = 1
      /\ Avoids(a, {Comma})
  BY <1>1, <1>5, OneIs, AvoidsOne
<1>7. a = One(f) /\ c = One(Comma) /\ e = One(g)
  OBVIOUS
<1> HIDE DEF a, c, e
<1>8. /\ p \in Text /\ Size(p) = 1 + Size(b) /\ Avoids(p, {Comma}) /\ Size(b) \in Nat
      /\ Size(d) \in Nat
  BY <1>3, <1>6, CatLen, AvoidsCat, SizeIs
<1>9. Stands(p, 0, a) /\ Stands(p, 1, b)
  BY <1>3, <1>6, CatIs
<1> HIDE DEF p
<1>10. pc \in Text /\ Size(pc) = Size(p) + 1 /\ Stands(pc, 0, p) /\ Stands(pc, Size(p), c)
  BY <1>6, <1>8, CatIs
<1>11. pc = Cat(p, c) /\ p = Cat(a, b)
  BY DEF p
<1> HIDE DEF pc
<1>12. pd \in Text /\ Size(pd) = Size(pc) + Size(d) /\ Stands(pd, 0, pc) /\ Stands(pd, Size(pc), d)
  BY <1>3, <1>10, CatIs
<1>13. pd = Cat(pc, d)
  OBVIOUS
<1> HIDE DEF pd
<1>14. w \in Text /\ Size(w) = Size(pd) + 1 /\ Stands(w, 0, pd) /\ Stands(w, Size(pd), e)
  BY <1>6, <1>12, CatIs
<1> HIDE DEF w
<1>15. 0 \in Nat /\ 0 + Size(pc) = Size(pc) /\ 0 + Size(p) = Size(p) /\ 0 + Size(a) = 1
  BY <1>6, <1>8, <1>10
<1>16. Stands(w, 0, pc) /\ Stands(w, Size(pc), d)
  BY <1>3, <1>10, <1>13, <1>14, <1>15, CatStands
<1>17. Stands(w, 0, p) /\ Stands(w, Size(p), c)
  BY <1>6, <1>8, <1>11, <1>14, <1>15, <1>16, CatStands
<1>18. Stands(w, 0, a) /\ Stands(w, 1, b)
  BY <1>3, <1>6, <1>11, <1>14, <1>15, <1>17, CatStands
<1> DEFINE comma == At(w, Comma)
<1>19. comma = Size(p) + 1
  BY <1>5, <1>7, <1>8, <1>14, <1>17, AtSize
<1> HIDE DEF comma
<1>20. Sub(w, 2, comma - 1) = b
  <2>1. 1 + 1 = 2 /\ 1 + Size(b) = comma - 1 /\ 1 \in Nat
    BY <1>8, <1>19
  <2>2. Sub(w, 1 + 1, 1 + Size(b)) = b
    BY <2>1, <1>3, <1>14, <1>18, StandsSub
  <2> QED BY <2>1, <2>2
<1>21. Sub(w, comma + 1, Size(w) - 1) = d
  <2>1. /\ Size(pc) \in Nat /\ Size(pc) + 1 = comma + 1
        /\ Size(pc) + Size(d) = Size(w) - 1
    BY <1>8, <1>10, <1>12, <1>14, <1>19
  <2>2. Sub(w, Size(pc) + 1, Size(pc) + Size(d)) = d
    BY <2>1, <1>3, <1>14, <1>16, StandsSub
  <2> QED BY <2>1, <2>2
<1>22. w[1] = f /\ w[Size(w)] = g
  <2>1. w[0 + 1] = f
    BY <1>7, <1>14, <1>15, <1>18, OneStands
  <2>2. Size(pd) \in Nat
    BY <1>12, SizeIs
  <2>3. w[Size(pd) + 1] = g
    BY <2>2, <1>7, <1>14, OneStands
  <2> QED BY <2>1, <2>3, <1>14
<1>23. w # Empty /\ w # <<>>
  <2>1. Empty[1] = 101
    BY DEF Empty
  <2>2. Size(w) # 0
    BY <1>8, <1>10, <1>12, <1>14
  <2> QED BY <2>1, <2>2, <1>1, <1>14, <1>22, SizeIs
<1>24. ParseRange(w, parser)
          = [empty |-> FALSE, lower |-> ParseBound(Sub(w, 2, comma - 1), parser),
             upper |-> ParseBound(Sub(w, comma + 1, Size(w) - 1), parser),
             closed |-> <<w[1] = 91, w[Size(w)] = 93>>]
  BY <1>23 DEF ParseRange, Sub, Size, comma
<1>25. ParseRange(w, parser)
          = [empty |-> FALSE, lower |-> ReadBound(l, parser), upper |-> ReadBound(u, parser),
             closed |-> <<w[1] = 91, w[Size(w)] = 93>>]
  BY <1>4, <1>20, <1>21, <1>24
<1>26. <<w[1] = 91, w[Size(w)] = 93>> = range.closed
  <2> DEFINE x == w[1] = 91
             y == w[Size(w)] = 93
  <2>1. x = c1 /\ y = c2
    BY <1>1, <1>22
  <2> HIDE DEF x, y
  <2>2. <<x, y>> = <<c1, c2>>
    BY <2>1
  <2> QED BY <2>2, <1>1 DEF x, y
<1> QED BY <1>2, <1>14, <1>23, <1>25, <1>26

LEMMA ReadEmpty ==
    ASSUME NEW range, range.empty = TRUE, NEW l, NEW u, NEW parser
    PROVE  /\ RangeText(range, l, u) \in Text /\ RangeText(range, l, u) # <<>>
           /\ ParseRange(RangeText(range, l, u), parser)
                = [empty |-> TRUE, lower |-> <<>>, upper |-> <<>>,
                   closed |-> <<FALSE, FALSE>>]
<1>1. RangeText(range, l, u) = Empty
  BY DEF RangeText
<1>2. Empty \in Text /\ Empty # <<>>
  BY DEF Empty, Text
<1> QED BY <1>1, <1>2 DEF ParseRange

-----------------------------------------------------------------------------
(* The rounds of the parser of arrays.                                     *)

State(source, caller, entries, quote, dimension, recorded, position) ==
    [source |-> source, caller |-> caller, entries |-> entries, quote |-> quote,
     dimension |-> dimension, recorded |-> recorded, position |-> position]

Off == FALSE
On == TRUE

\* The entries with another one, and once what was recorded is one.
Ext(entries, entry) == Append(entries, entry)
Entry(type, recorded) ==
    IF recorded = NullText THEN Nothing ELSE Leaf(Parse(type, recorded))
Taken(entries, recorded, type) ==
    IF recorded = <<>> THEN entries ELSE Ext(entries, Entry(type, recorded))

\* A character that is only recorded.
LEMMA RoundPlain ==
    ASSUME NEW source, NEW caller, NEW es, NEW d, NEW rec, NEW pos \in Nat, NEW type, NEW c, pos <= Len(source),
           c = source[pos], c \notin {Backslash, DoubleQuote}, c \notin {Open, Close, Comma}
    PROVE  ParseCharacter(State(source, caller, es, Off, d, rec, pos), type)
                = State(source, caller, es, Off, d, Append(rec, c), pos + 1)
<1> DEFINE st == State(source, caller, es, Off, d, rec, pos)
           s == State(source, caller, es, Off, d, rec, pos + 1)
<1>1. /\ st.source = source /\ st.caller = caller /\ st.entries = es
      /\ st.quote = Off /\ st.dimension = d /\ st.recorded = rec
      /\ st.position = pos
  BY DEF State
<1>2. [st EXCEPT !.position = @ + 1] = s
  BY DEF State
<1> HIDE DEF st, s
<1>4. /\ st.source[st.position] # Backslash /\ st.source[st.position + 0] = c
      /\ ~ (st.position > Len(st.source))
      /\ ~ st.quote /\ ~ (c = DoubleQuote) /\ c # Open /\ c # Close
      /\ c # Comma
  BY <1>1 DEF Backslash, DoubleQuote, Open, Close, Comma, Off, On
<1>5. ParseCharacter(st, type) = [s EXCEPT !.recorded = Append(@, c)]
  BY <1>1, <1>2, <1>4, Zenon DEF ParseCharacter
<1>6. [s EXCEPT !.recorded = Append(@, c)]
            = State(source, caller, es, Off, d, Append(rec, c), pos + 1)
  <2>1. \A v : [s EXCEPT !.recorded = v] = State(source, caller, es, Off, d, v, pos + 1)
    BY DEF s, State
  <2>2. s.recorded = rec
    BY DEF s, State
  <2> QED BY <2>1, <2>2, Zenon
<1> QED BY <1>5, <1>6 DEF st

\* The same, in quotes.
LEMMA RoundInside ==
    ASSUME NEW source, NEW caller, NEW es, NEW d, NEW rec, NEW pos \in Nat, NEW type, NEW c, pos <= Len(source),
           c = source[pos], c \notin {Backslash, DoubleQuote}
    PROVE  ParseCharacter(State(source, caller, es, On, d, rec, pos), type)
                = State(source, caller, es, On, d, Append(rec, c), pos + 1)
<1> DEFINE st == State(source, caller, es, On, d, rec, pos)
           s == State(source, caller, es, On, d, rec, pos + 1)
<1>1. /\ st.source = source /\ st.caller = caller /\ st.entries = es
      /\ st.quote = On /\ st.dimension = d /\ st.recorded = rec
      /\ st.position = pos
  BY DEF State
<1>2. [st EXCEPT !.position = @ + 1] = s
  BY DEF State
<1> HIDE DEF st, s
<1>4. /\ st.source[st.position] # Backslash /\ st.source[st.position + 0] = c
      /\ ~ (st.position > Len(st.source))
      /\ ~ (c = DoubleQuote) /\ st.quote
  BY <1>1 DEF Backslash, DoubleQuote, Open, Close, Comma, Off, On
<1>5. ParseCharacter(st, type) = [s EXCEPT !.recorded = Append(@, c)]
  BY <1>1, <1>2, <1>4, Zenon DEF ParseCharacter
<1>6. [s EXCEPT !.recorded = Append(@, c)]
            = State(source, caller, es, On, d, Append(rec, c), pos + 1)
  <2>1. \A v : [s EXCEPT !.recorded = v] = State(source, caller, es, On, d, v, pos + 1)
    BY DEF s, State
  <2>2. s.recorded = rec
    BY DEF s, State
  <2> QED BY <2>1, <2>2, Zenon
<1> QED BY <1>5, <1>6 DEF st

\* A character after a backslash.
LEMMA RoundEscaped ==
    ASSUME NEW source, NEW caller, NEW es, NEW d, NEW rec, NEW pos \in Nat, NEW type, NEW c, pos <= Len(source),
           source[pos] = Backslash, c = source[pos + 1]
    PROVE  ParseCharacter(State(source, caller, es, On, d, rec, pos), type)
                = State(source, caller, es, On, d, Append(rec, c), pos + 2)
<1> DEFINE st == State(source, caller, es, On, d, rec, pos)
           s == State(source, caller, es, On, d, rec, pos + 2)
<1>1. /\ st.source = source /\ st.caller = caller /\ st.entries = es
      /\ st.quote = On /\ st.dimension = d /\ st.recorded = rec
      /\ st.position = pos
  BY DEF State
<1>2. [st EXCEPT !.position = @ + 2] = s
  BY DEF State
<1> HIDE DEF st, s
<1>4. /\ st.source[st.position] = Backslash /\ st.source[st.position + 1] = c
      /\ ~ (st.position > Len(st.source)) /\ st.quote
  BY <1>1 DEF Backslash, DoubleQuote, Open, Close, Comma, Off, On
<1>5. ParseCharacter(st, type) = [s EXCEPT !.recorded = Append(@, c)]
  BY <1>1, <1>2, <1>4, Zenon DEF ParseCharacter
<1>6. [s EXCEPT !.recorded = Append(@, c)]
            = State(source, caller, es, On, d, Append(rec, c), pos + 2)
  <2>1. \A v : [s EXCEPT !.recorded = v] = State(source, caller, es, On, d, v, pos + 2)
    BY DEF s, State
  <2>2. s.recorded = rec
    BY DEF s, State
  <2> QED BY <2>1, <2>2, Zenon
<1> QED BY <1>5, <1>6 DEF st

\* The quote before an element.
LEMMA RoundQuote ==
    ASSUME NEW source, NEW caller, NEW es, NEW d, NEW rec, NEW pos \in Nat, NEW type, pos <= Len(source),
           source[pos] = DoubleQuote
    PROVE  ParseCharacter(State(source, caller, es, Off, d, rec, pos), type)
                = State(source, caller, es, On, d, rec, pos + 1)
<1> DEFINE st == State(source, caller, es, Off, d, rec, pos)
           s == State(source, caller, es, Off, d, rec, pos + 1)
<1>1. /\ st.source = source /\ st.caller = caller /\ st.entries = es
      /\ st.quote = Off /\ st.dimension = d /\ st.recorded = rec
      /\ st.position = pos
  BY DEF State
<1>2. [st EXCEPT !.position = @ + 1] = s
  BY DEF State
<1> HIDE DEF st, s
<1>4. /\ st.source[st.position] # Backslash /\ st.source[st.position + 0] = DoubleQuote
      /\ ~ (st.position > Len(st.source))
      /\ ~ st.quote /\ DoubleQuote # Open /\ DoubleQuote # Close /\ (~ st.quote) = On
  BY <1>1 DEF Backslash, DoubleQuote, Open, Close, Comma, Off, On
<1>5. ParseCharacter(st, type) = [s EXCEPT !.quote = On]
  BY <1>1, <1>2, <1>4, Zenon DEF ParseCharacter
<1>6. [s EXCEPT !.quote = On] = State(source, caller, es, On, d, rec, pos + 1)
  BY <1>1 DEF s, State
<1> QED BY <1>5, <1>6 DEF st

\* The quote after it.
LEMMA RoundUnquote ==
    ASSUME NEW source, NEW caller, NEW es, NEW d, NEW rec, NEW pos \in Nat, NEW type, pos <= Len(source),
           source[pos] = DoubleQuote
    PROVE  ParseCharacter(State(source, caller, es, On, d, rec, pos), type)
                = State(source, caller, Ext(es, Leaf(Parse(type, rec))), Off, d, <<>>, pos + 1)
<1> DEFINE st == State(source, caller, es, On, d, rec, pos)
           s == State(source, caller, es, On, d, rec, pos + 1)
<1>1. /\ st.source = source /\ st.caller = caller /\ st.entries = es
      /\ st.quote = On /\ st.dimension = d /\ st.recorded = rec
      /\ st.position = pos
  BY DEF State
<1>2. [st EXCEPT !.position = @ + 1] = s
  BY DEF State
<1> HIDE DEF st, s
<1>4. /\ st.source[st.position] # Backslash /\ st.source[st.position + 0] = DoubleQuote
      /\ ~ (st.position > Len(st.source))
      /\ st.quote /\ DoubleQuote # Open /\ DoubleQuote # Close /\ (~ st.quote) = Off
  BY <1>1 DEF Backslash, DoubleQuote, Open, Close, Comma, Off, On
<1>5. ParseCharacter(st, type) = [NewEntry(s, type, TRUE) EXCEPT !.quote = Off]
  BY <1>1, <1>2, <1>4, Zenon DEF ParseCharacter
<1>6. NewEntry(s, type, TRUE)
            = State(source, caller, Ext(es, Leaf(Parse(type, rec))), On, d, <<>>, pos + 1)
  BY DEF s, NewEntry, State, Taken, Entry, Ext
<1>7. [NewEntry(s, type, TRUE) EXCEPT !.quote = Off]
            = State(source, caller, Ext(es, Leaf(Parse(type, rec))), Off, d, <<>>, pos + 1)
  <2>1. \A w : w = State(source, caller, Ext(es, Leaf(Parse(type, rec))), On, d, <<>>, pos + 1)
          => [w EXCEPT !.quote = Off]
                = State(source, caller, Ext(es, Leaf(Parse(type, rec))), Off, d, <<>>, pos + 1)
    BY DEF State
  <2> QED BY <1>6, <2>1, Zenon
<1> QED BY <1>5, <1>7 DEF st

\* A comma between two elements.
LEMMA RoundComma ==
    ASSUME NEW source, NEW caller, NEW es, NEW d, NEW rec, NEW pos \in Nat, NEW type, pos <= Len(source),
           source[pos] = Comma
    PROVE  ParseCharacter(State(source, caller, es, Off, d, rec, pos), type)
                = State(source, caller, Taken(es, rec, type), Off, d, <<>>, pos + 1)
<1> DEFINE st == State(source, caller, es, Off, d, rec, pos)
           s == State(source, caller, es, Off, d, rec, pos + 1)
<1>1. /\ st.source = source /\ st.caller = caller /\ st.entries = es
      /\ st.quote = Off /\ st.dimension = d /\ st.recorded = rec
      /\ st.position = pos
  BY DEF State
<1>2. [st EXCEPT !.position = @ + 1] = s
  BY DEF State
<1> HIDE DEF st, s
<1>4. /\ st.source[st.position] # Backslash /\ st.source[st.position + 0] = Comma
      /\ ~ (st.position > Len(st.source))
      /\ ~ st.quote /\ Comma # Open /\ Comma # Close /\ Comma # DoubleQuote
  BY <1>1 DEF Backslash, DoubleQuote, Open, Close, Comma, Off, On
<1>5. ParseCharacter(st, type) = NewEntry(s, type, FALSE)
  BY <1>1, <1>2, <1>4, Zenon DEF ParseCharacter
<1>6. NewEntry(s, type, FALSE)
            = State(source, caller, Taken(es, rec, type), Off, d, <<>>, pos + 1)
  BY DEF s, NewEntry, State, Taken, Entry, Ext
<1> QED BY <1>5, <1>6 DEF st

\* The brace an array begins with.
LEMMA RoundOpen ==
    ASSUME NEW source, NEW caller, NEW es, NEW d, NEW rec, NEW pos \in Nat, NEW type, pos <= Len(source),
           source[pos] = Open
    PROVE  ParseCharacter(State(source, caller, es, Off, 0, rec, pos), type)
                = State(source, caller, es, Off, 1, rec, pos + 1)
<1> DEFINE st == State(source, caller, es, Off, 0, rec, pos)
           s == State(source, caller, es, Off, 0, rec, pos + 1)
<1>1. /\ st.source = source /\ st.caller = caller /\ st.entries = es
      /\ st.quote = Off /\ st.dimension = 0 /\ st.recorded = rec
      /\ st.position = pos
  BY DEF State
<1>2. [st EXCEPT !.position = @ + 1] = s
  BY DEF State
<1> HIDE DEF st, s
<1>4. /\ st.source[st.position] # Backslash /\ st.source[st.position + 0] = Open
      /\ ~ (st.position > Len(st.source))
      /\ ~ st.quote /\ st.dimension = 0
  BY <1>1 DEF Backslash, DoubleQuote, Open, Close, Comma, Off, On
<1>5. ParseCharacter(st, type) = [s EXCEPT !.dimension = 1]
  BY <1>1, <1>2, <1>4, Zenon DEF ParseCharacter
<1>6. [s EXCEPT !.dimension = 1] = State(source, caller, es, Off, 1, rec, pos + 1)
  BY DEF s, State
<1> QED BY <1>5, <1>6 DEF st

\* The brace of a nested array: it is read again, by another call.
LEMMA RoundNested ==
    ASSUME NEW source, NEW caller, NEW es, NEW d, NEW rec, NEW pos \in Nat, NEW type, pos <= Len(source),
           source[pos] = Open, d # 0
    PROVE  ParseCharacter(State(source, caller, es, Off, d, rec, pos), type)
                = ParseInternal(SubSeq(source, pos, Len(source)),
                                <<State(source, caller, es, Off, d, rec, pos + 1)>>)
<1> DEFINE st == State(source, caller, es, Off, d, rec, pos)
           s == State(source, caller, es, Off, d, rec, pos + 1)
<1>1. /\ st.source = source /\ st.caller = caller /\ st.entries = es
      /\ st.quote = Off /\ st.dimension = d /\ st.recorded = rec
      /\ st.position = pos
  BY DEF State
<1>2. [st EXCEPT !.position = @ + 1] = s
  BY DEF State
<1> HIDE DEF st, s
<1>4. /\ st.source[st.position] # Backslash /\ st.source[st.position + 0] = Open
      /\ ~ (st.position > Len(st.source))
      /\ ~ st.quote /\ st.dimension # 0
  BY <1>1 DEF Backslash, DoubleQuote, Open, Close, Comma, Off, On
<1>5. ParseCharacter(st, type) = ParseInternal(SubSeq(st.source, s.position - 1, Len(st.source)), <<s>>)
  BY <1>1, <1>2, <1>4, Zenon DEF ParseCharacter
<1>6. s.position - 1 = pos
  BY DEF s, State
<1> QED BY <1>1, <1>5, <1>6 DEF st, s

\* The brace after the last element.
LEMMA RoundClose ==
    ASSUME NEW source, NEW es, NEW d, NEW rec, NEW pos \in Nat, NEW type, pos <= Len(source),
           source[pos] = Close, ~ (d > 1)
    PROVE  ParseCharacter(State(source, <<>>, es, Off, d, rec, pos), type)
                = State(source, <<>>, Taken(es, rec, type), Off, 0, <<>>, pos + 1)
<1> DEFINE st == State(source, <<>>, es, Off, d, rec, pos)
           s == State(source, <<>>, es, Off, d, rec, pos + 1)
<1>1. /\ st.source = source /\ st.caller = <<>> /\ st.entries = es
      /\ st.quote = Off /\ st.dimension = d /\ st.recorded = rec
      /\ st.position = pos
  BY DEF State
<1>2. [st EXCEPT !.position = @ + 1] = s
  BY DEF State
<1> HIDE DEF st, s
<1>4. /\ st.source[st.position] # Backslash /\ st.source[st.position + 0] = Close
      /\ ~ (st.position > Len(st.source))
      /\ ~ st.quote /\ ~ (st.dimension > 1) /\ st.caller = <<>> /\ Close # Open
  BY <1>1 DEF Backslash, DoubleQuote, Open, Close, Comma, Off, On
<1>5. ParseCharacter(st, type) = NewEntry([s EXCEPT !.dimension = 0], type, FALSE)
  BY <1>1, <1>2, <1>4, Zenon DEF ParseCharacter
<1>6. [s EXCEPT !.dimension = 0] = State(source, <<>>, es, Off, 0, rec, pos + 1)
  BY DEF s, State
<1>7. NewEntry([s EXCEPT !.dimension = 0], type, FALSE)
            = State(source, <<>>, Taken(es, rec, type), Off, 0, <<>>, pos + 1)
  BY <1>6 DEF NewEntry, State, Taken, Entry, Ext
<1> QED BY <1>5, <1>7 DEF st

\* The brace that ends a nested array.
LEMMA RoundReturn ==
    ASSUME NEW source, NEW es, NEW d, NEW rec, NEW pos \in Nat, NEW type, NEW caller, caller # <<>>, pos <= Len(source),
           source[pos] = Close, ~ (d > 1)
    PROVE  ParseCharacter(State(source, caller, es, Off, d, rec, pos), type)
                = Return(State(source, caller, Taken(es, rec, type), Off, 0, <<>>, pos + 1))
<1> DEFINE st == State(source, caller, es, Off, d, rec, pos)
           s == State(source, caller, es, Off, d, rec, pos + 1)
<1>1. /\ st.source = source /\ st.caller = caller /\ st.entries = es
      /\ st.quote = Off /\ st.dimension = d /\ st.recorded = rec
      /\ st.position = pos
  BY DEF State
<1>2. [st EXCEPT !.position = @ + 1] = s
  BY DEF State
<1> HIDE DEF st, s
<1>4. /\ st.source[st.position] # Backslash /\ st.source[st.position + 0] = Close
      /\ ~ (st.position > Len(st.source))
      /\ ~ st.quote /\ ~ (st.dimension > 1) /\ st.caller # <<>> /\ Close # Open
  BY <1>1 DEF Backslash, DoubleQuote, Open, Close, Comma, Off, On
<1>5. ParseCharacter(st, type) = Return(NewEntry([s EXCEPT !.dimension = 0], type, FALSE))
  BY <1>1, <1>2, <1>4, Zenon DEF ParseCharacter
<1>6. [s EXCEPT !.dimension = 0] = State(source, caller, es, Off, 0, rec, pos + 1)
  BY DEF s, State
<1>7. NewEntry([s EXCEPT !.dimension = 0], type, FALSE)
            = State(source, caller, Taken(es, rec, type), Off, 0, <<>>, pos + 1)
  BY <1>6 DEF NewEntry, State, Taken, Entry, Ext
<1> QED BY <1>5, <1>7 DEF st

\* The brace that is read again, after a nested array.
LEMMA RoundDeep ==
    ASSUME NEW source, NEW caller, NEW es, NEW d, NEW rec, NEW pos \in Nat, NEW type, pos <= Len(source),
           source[pos] = Close, d > 1
    PROVE  ParseCharacter(State(source, caller, es, Off, d, rec, pos), type)
                = State(source, caller, es, Off, d - 1, rec, pos + 1)
<1> DEFINE st == State(source, caller, es, Off, d, rec, pos)
           s == State(source, caller, es, Off, d, rec, pos + 1)
<1>1. /\ st.source = source /\ st.caller = caller /\ st.entries = es
      /\ st.quote = Off /\ st.dimension = d /\ st.recorded = rec
      /\ st.position = pos
  BY DEF State
<1>2. [st EXCEPT !.position = @ + 1] = s
  BY DEF State
<1> HIDE DEF st, s
<1>4. /\ st.source[st.position] # Backslash /\ st.source[st.position + 0] = Close
      /\ ~ (st.position > Len(st.source))
      /\ ~ st.quote /\ st.dimension > 1 /\ Close # Open
  BY <1>1 DEF Backslash, DoubleQuote, Open, Close, Comma, Off, On
<1>5. ParseCharacter(st, type) = [s EXCEPT !.dimension = @ - 1]
  BY <1>1, <1>2, <1>4, Zenon DEF ParseCharacter
<1>6. [s EXCEPT !.dimension = @ - 1] = State(source, caller, es, Off, d - 1, rec, pos + 1)
  BY DEF s, State
<1> QED BY <1>5, <1>6 DEF st

LEMMA RoundOver ==
    ASSUME NEW source, NEW caller, NEW es, NEW quote, NEW d, NEW rec, NEW pos, NEW type,
           pos > Len(source)
    PROVE  ParseCharacter(State(source, caller, es, quote, d, rec, pos), type)
                = State(source, caller, es, quote, d, rec, pos)
<1> DEFINE st == State(source, caller, es, quote, d, rec, pos)
<1>1. st.source = source /\ st.position = pos
  BY DEF State
<1> HIDE DEF st
<1>2. st.position > Len(st.source)
  BY <1>1
<1>3. ParseCharacter(st, type) = st
  BY <1>2, Zenon DEF ParseCharacter
<1> QED BY <1>3 DEF st

LEMMA InternalIs ==
    ASSUME NEW source, NEW caller, source[1] # 91
    PROVE  ParseInternal(source, caller) = State(source, caller, <<>>, Off, 0, <<>>, 1)
BY DEF ParseInternal, State, Off

\* A nested array: the call returns to this state.
Returns(c, cst) == c[1] = cst /\ c # <<>>

Landed(source, c, es, q, src, caller, ces, d, rec, p) ==
    q \in Nat /\ p \in Nat /\ Returns(c, State(src, caller, ces, Off, d, rec, p)) =>
        Return(State(source, c, es, Off, 0, <<>>, q))
            = State(src, caller, Ext(ces, List(es)), Off, d + 1, rec, p + q - 3)

LEMMA ReturnIs ==
    ASSUME NEW source, NEW c, NEW es, NEW q, NEW src, NEW caller, NEW ces, NEW d, NEW rec, NEW p
    PROVE  Landed(source, c, es, q, src, caller, ces, d, rec, p)
<1> SUFFICES ASSUME q \in Nat, p \in Nat, Returns(c, State(src, caller, ces, Off, d, rec, p))
             PROVE  Return(State(source, c, es, Off, 0, <<>>, q))
                        = State(src, caller, Ext(ces, List(es)), Off, d + 1, rec, p + q - 3)
  BY DEF Landed
<1> DEFINE cst == State(src, caller, ces, Off, d, rec, p)
           st == State(source, c, es, Off, 0, <<>>, q)
<1>1. st.caller = c /\ st.entries = es /\ st.position = q
  BY DEF State
<1>2. st.caller[1] = cst
  BY <1>1 DEF cst, Returns
<1>3. p + (q - 1) - 2 = p + q - 3
  OBVIOUS
<1>4. Return(st) = [cst EXCEPT !.dimension = @ + 1,
                         !.entries = Append(@, List(es)),
                         !.position = @ + (q - 1) - 2]
  BY <1>1, <1>2, Zenon DEF Return
<1>5. [cst EXCEPT !.dimension = @ + 1,
                         !.entries = Append(@, List(es)),
                         !.position = @ + (q - 1) - 2]
            = State(src, caller, Append(ces, List(es)), Off, d + 1, rec, p + (q - 1) - 2)
  <2> DEFINE a == State(src, caller, ces, Off, d + 1, rec, p)
             ds == Append(ces, List(es))
             b == State(src, caller, ds, Off, d + 1, rec, p)
             n == q - 1
  <2>1. [cst EXCEPT !.dimension = d + 1] = a
    BY DEF cst, State
  <2>2. [a EXCEPT !.entries = ds] = b
    <3> HIDE DEF ds
    <3>1. \A v : [a EXCEPT !.entries = v] = State(src, caller, v, Off, d + 1, rec, p)
      BY DEF a, State
    <3> QED BY <3>1, Zenon DEF b, ds
  <2>3. [b EXCEPT !.position = p + n - 2]
            = State(src, caller, ds, Off, d + 1, rec, p + n - 2)
    <3> HIDE DEF ds
    <3> QED BY DEF b, State
  <2>4. cst.dimension = d /\ cst.entries = ces /\ cst.position = p
    BY DEF cst, State
  <2> HIDE DEF a, b, ds
  <2>5. [cst EXCEPT !.dimension = d + 1, !.entries = ds, !.position = p + n - 2]
            = [[[cst EXCEPT !.dimension = d + 1] EXCEPT !.entries = ds]
                    EXCEPT !.position = p + n - 2]
    BY SMT
  <2>6. [cst EXCEPT !.dimension = @ + 1,
                         !.entries = Append(@, List(es)),
                         !.position = @ + (q - 1) - 2]
            = [cst EXCEPT !.dimension = d + 1, !.entries = ds, !.position = p + n - 2]
    BY <2>4, Zenon DEF ds
  <2> QED BY <2>1, <2>2, <2>3, <2>5, <2>6, Zenon DEF ds
<1> QED BY <1>3, <1>4, <1>5 DEF st, Ext

-----------------------------------------------------------------------------
(* Where the texts of a sequence stand in what they make up.               *)

Spread(ss, text, ends) ==
    /\ text \in Text /\ Len(ss) \in Nat
    /\ ends \in [0 .. Len(ss) -> Nat] /\ ends[0] = 0 /\ ends[Len(ss)] = Size(text)
    /\ \A k \in 1 .. Len(ss) :
          /\ ss[k] \in Text /\ ends[k] = ends[k - 1] + Size(ss[k])
          /\ Stands(text, ends[k - 1], ss[k])

LEMMA Spreading ==
    ASSUME NEW ss \in Seq(Text)
    PROVE  \E ends : Spread(ss, FlattenSeq(ss), ends)
<1> DEFINE N == Len(ss)
           text == FlattenSeq(ss)
<1>1. N \in Nat /\ ss \in Seq(Seq(Nat)) /\ \A k \in 1 .. N : ss[k] \in Text
  BY DEF Text
<1>2. PICK p : Parts(p, ss, Nat) /\ p[N] = text
  BY <1>1, Flattening
<1>3. (\A k \in 0 .. N : p[k] \in Seq(Nat) /\ Len(p[k]) \in Nat) /\ Len(p[0]) = 0
  BY <1>1, <1>2, PartTypes
<1>4. text \in Seq(Nat) /\ Len(text) \in Nat /\ Stands(text, 0, text)
  <2>1. N \in 0 .. N
    BY <1>1
  <2>2. text \in Seq(Nat)
    BY <2>1, <1>2, <1>3
  <2> HIDE DEF text
  <2> QED BY <2>2, StandsWhole
<1> HIDE DEF text
<1>5. ASSUME NEW k \in 1 .. N
      PROVE  /\ k - 1 \in 0 .. N /\ k \in 0 .. N
             /\ Len(p[k]) = Len(p[k - 1]) + Len(ss[k])
             /\ Stands(text, Len(p[k - 1]), ss[k])
  <2>2. k - 1 \in 0 .. N /\ k \in 0 .. N /\ Len(p[k]) = Len(p[k - 1]) + Len(ss[k])
    <3>2. k - 1 \in 0 .. N
      BY <1>1, <1>2, PartStep
    <3>3. k \in 0 .. N
      BY <1>1, <1>2, PartStep
    <3>4. Len(p[k]) = Len(p[k - 1]) + Len(ss[k])
      <4> DEFINE A == Nat
      <4>1. ss \in Seq(Seq(A)) /\ Parts(p, ss, A)
        BY <1>1, <1>2
      <4> HIDE DEF A
      <4> QED BY <4>1, PartStep
    <3> QED BY <3>2, <3>3, <3>4
  <2>3. Stands(text, 0, p[N])
    BY <1>2, <1>4
  <2>4. Stands(text, 0 + Len(p[k - 1]), ss[k])
    <3>1. 0 \in Nat
      OBVIOUS
    <3> QED BY <3>1, <2>3, <1>1, <1>2, <1>4, PartsStand
  <2>5. 0 + Len(p[k - 1]) = Len(p[k - 1])
    BY <2>2, <1>3
  <2>6. Stands(text, Len(p[k - 1]), ss[k])
    BY <2>4, <2>5
  <2> HIDE DEF N
  <2> QED BY <2>2, <2>6
<1> DEFINE ends == [k \in 0 .. N |-> Len(p[k])]
<1>6. ends \in [0 .. N -> Nat] /\ \A k \in 0 .. N : ends[k] = Len(p[k])
  BY <1>3
<1>7. ends[0] = 0 /\ ends[N] = Len(text)
  <2>1. 0 \in 0 .. N /\ N \in 0 .. N
    BY <1>1
  <2> HIDE DEF ends
  <2> QED BY <2>1, <1>2, <1>3, <1>6
<1> HIDE DEF ends
<1>8. ASSUME NEW k \in 1 .. N
      PROVE  /\ ss[k] \in Text /\ ends[k] = ends[k - 1] + Len(ss[k])
             /\ Stands(text, ends[k - 1], ss[k])
  <2>1. k - 1 \in 0 .. N /\ k \in 0 .. N
    BY <1>5
  <2>2. ends[k] = Len(p[k]) /\ ends[k - 1] = Len(p[k - 1])
    BY <2>1, <1>6
  <2> QED BY <2>2, <1>1, <1>5
<1>9. Spread(ss, text, ends)
  BY <1>1, <1>4, <1>6, <1>7, <1>8 DEF Spread, Text, Size
<1> QED BY <1>9 DEF text

LEMMA SpreadIn ==
    ASSUME NEW ss, NEW text, NEW ends, Spread(ss, text, ends), NEW source \in Text,
           NEW o \in Nat, Stands(source, o, text), NEW k \in 1 .. Len(ss)
    PROVE  /\ k - 1 \in 0 .. Len(ss) /\ ends[k - 1] \in Nat /\ ends[k] \in Nat
           /\ Stands(source, o + ends[k - 1], ss[k])
<1>1. Len(ss) \in Nat /\ ends \in [0 .. Len(ss) -> Nat]
  BY DEF Spread
<1>2. k - 1 \in 0 .. Len(ss) /\ k \in 0 .. Len(ss)
  BY <1>1
<1>3. ends[k - 1] \in Nat /\ ends[k] \in Nat
  BY <1>1, <1>2
<1>4. text \in Text /\ ss[k] \in Text /\ Stands(text, ends[k - 1], ss[k])
  BY DEF Spread
<1>5. Len(source) \in Nat /\ Len(text) \in Nat /\ Len(ss[k]) \in Nat
  BY <1>4, SizeIs DEF Size
<1> DEFINE d == ends[k - 1]
           u == ss[k]
<1> HIDE DEF d, u
<1>6. d \in Nat /\ Stands(text, d, u) /\ Len(u) \in Nat
  BY <1>3, <1>4, <1>5 DEF d, u
<1>7. Stands(source, o + d, u)
  BY <1>5, <1>6, StandsInside
<1> QED BY <1>2, <1>3, <1>7 DEF d, u

\* The first characters of a text.
Pre(u, i) == [j \in 1 .. i |-> u[j]]

LEMMA PreIs ==
    ASSUME NEW u \in Text
    PROVE  /\ Pre(u, 0) = <<>> /\ Pre(u, Size(u)) = u
           /\ \A i \in 0 .. Size(u) : i < Size(u) => Append(Pre(u, i), u[i + 1]) = Pre(u, i + 1)
<1>1. Pre(u, 0) = <<>>
  BY DEF Pre
<1>2. Pre(u, Size(u)) = u
  BY DEF Pre, Size, Text
<1>3. ASSUME NEW i \in 0 .. Size(u), i < Size(u)
      PROVE  Append(Pre(u, i), u[i + 1]) = Pre(u, i + 1)
  BY <1>3, SizeIs DEF Pre
<1> QED BY <1>1, <1>2, <1>3

-----------------------------------------------------------------------------
(* Reading the elements of an array.                                       *)

\* The rounds of the parser, each from the one before.
Chain(st, N, type) ==
    N \in Nat /\ \A n \in 1 .. N : st[n] = ParseCharacter(st[n - 1], type)

\* The next round.
LEMMA ChainStep ==
    ASSUME NEW st, NEW N, NEW type, Chain(st, N, type), NEW k \in Nat, k + 1 <= N
    PROVE  st[k + 1] = ParseCharacter(st[k], type)
<1>1. N \in Nat /\ k + 1 \in 1 .. N /\ (k + 1) - 1 = k
  BY DEF Chain
<1>2. st[k + 1] = ParseCharacter(st[(k + 1) - 1], type)
  BY <1>1 DEF Chain
<1> QED BY <1>1, <1>2

\* Reading the elements of an array, or those of a nested one.
Frame(source, caller, es, rec, pos) == State(source, caller, es, Off, 1, rec, pos)

\* From round k on, the parser reads the text that stands at o as the entry e.
Reaches(st, k, source, caller, es, o, n, type, e) ==
    \E j, es2, rec2 :
       /\ j \in Nat
       /\ k < j /\ j <= k + 2 * n
       /\ st[j] = Frame(source, caller, es2, rec2, o + n + 1)
       /\ Taken(es2, rec2, type) = Ext(es, e)
ReadAs(type, text, e, st, N, k, source, caller, es, o) ==
    /\ Chain(st, N, type) /\ k \in Nat /\ source \in Text /\ o \in Nat
    /\ Stands(source, o, text) /\ k + 2 * Size(text) <= N
    /\ st[k] = Frame(source, caller, es, <<>>, o + 1)
    => Reaches(st, k, source, caller, es, o, Size(text), type, e)
Element(type, text, e) ==
    /\ text \in Text
    /\ \A st, N, k, source, caller, es, o :
          ReadAs(type, text, e, st, N, k, source, caller, es, o)

\* An element without quotes.
Plain(u) == /\ u \in Text /\ u # <<>>
            /\ Avoids(u, {Backslash, DoubleQuote, Open, Close, Comma})

\* What has no special characters is read as it stands, if it is not NULL.
LEMMA ElementPlain ==
    ASSUME NEW type, NEW u, Plain(u)
    PROVE  Element(type, u, Entry(type, u))
<1>1. u \in Text /\ u # <<>> /\ Size(u) \in Nat /\ Size(u) >= 1
  BY SizeIs DEF Plain
<1>2. ASSUME NEW st, NEW N, NEW k, NEW source, NEW caller, NEW es, NEW o,
             Chain(st, N, type), k \in Nat, source \in Text, o \in Nat,
             Stands(source, o, u), k + 2 * Size(u) <= N,
             st[k] = Frame(source, caller, es, <<>>, o + 1)
      PROVE  Reaches(st, k, source, caller, es, o, Size(u), type, Entry(type, u))
  <2> DEFINE T == {i \in 0 .. Size(u) :
                     st[k + i] = State(source, caller, es, Off, 1, Pre(u, i), o + i + 1)}
  <2>1. 0 \in T
    <3>1. k + 0 = k /\ o + 0 + 1 = o + 1 /\ 0 \in 0 .. Size(u)
      BY <1>1, <1>2
    <3> QED BY <3>1, <1>1, <1>2, PreIs, Zenon DEF Frame
  <2>2. ASSUME NEW i \in 0 .. Size(u), i \in T, i < Size(u)
        PROVE  i + 1 \in T
    <3> DEFINE pos == o + i + 1
               c == u[i + 1]
    <3>1. /\ i + 1 \in 0 .. Size(u) /\ i + 1 \in 1 .. Size(u)
          /\ pos \in Nat /\ k + i \in Nat /\ (k + i) + 1 <= N /\ N \in Nat
          /\ k + (i + 1) = (k + i) + 1 /\ o + (i + 1) + 1 = pos + 1 /\ o + (i + 1) = pos
      BY SMTT(30), <1>1, <1>2, <2>2 DEF Chain
    <3>2. pos <= Len(source) /\ c = source[pos]
      BY <3>1, <1>1, <1>2, SizeIs DEF Stands, Size
    <3>3. c \notin {Backslash, DoubleQuote} /\ c \notin {Open, Close, Comma}
      BY <3>1 DEF Plain, Avoids, Size
    <3>4. Append(Pre(u, i), c) = Pre(u, i + 1)
      BY <1>1, <2>2, PreIs
    <3> HIDE DEF pos, c
    <3>5. ParseCharacter(State(source, caller, es, Off, 1, Pre(u, i), pos), type)
            = State(source, caller, es, Off, 1, Append(Pre(u, i), c), pos + 1)
      BY <3>1, <3>2, <3>3, RoundPlain
    <3>6. st[k + i] = State(source, caller, es, Off, 1, Pre(u, i), pos)
      BY <2>2 DEF pos
    <3>7. st[(k + i) + 1] = ParseCharacter(st[k + i], type)
      BY <3>1, <1>2, ChainStep
    <3>8. st[k + (i + 1)] = State(source, caller, es, Off, 1, Pre(u, i + 1), o + (i + 1) + 1)
      BY <3>1, <3>4, <3>5, <3>6, <3>7, Zenon
    <3> QED BY <3>1, <3>8
  <2>3. Size(u) \in T
    <3>1. Size(u) \in 0 .. Size(u)
      BY <1>1
    <3> HIDE DEF T
    <3> QED BY <3>1, <1>1, <2>1, <2>2, Upward
  <2>4. st[k + Size(u)] = Frame(source, caller, es, u, o + Size(u) + 1)
    BY <2>3, <1>1, PreIs DEF Frame
  <2>5. Taken(es, u, type) = Ext(es, Entry(type, u))
    BY <1>1 DEF Taken
  <2>6. k + Size(u) \in Nat /\ k < k + Size(u) /\ k + Size(u) <= k + 2 * Size(u)
    BY <1>1, <1>2
  <2> QED BY <2>4, <2>5, <2>6 DEF Reaches
<1> QED BY <1>1, <1>2 DEF Element, ReadAs

Quoted(c) == IF c \in {Backslash, DoubleQuote} THEN <<Backslash, c>> ELSE <<c>>
Quotes(u) == [i \in DOMAIN u |-> Quoted(u[i])]

LEMMA QuoteIs ==
    ASSUME NEW u \in Text
    PROVE  /\ Quotes(u) \in Seq(Text) /\ Len(Quotes(u)) = Size(u)
           /\ \A i \in 1 .. Size(u) : Quotes(u)[i] = Quoted(u[i])
           /\ Quote(u) = Cat(Cat(One(DoubleQuote), FlattenSeq(Quotes(u))), One(DoubleQuote))
<1>1. Len(u) \in Nat /\ DOMAIN u = 1 .. Len(u) /\ \A i \in 1 .. Len(u) : u[i] \in Nat
  BY TextIs
<1>2. ASSUME NEW c \in Nat PROVE Quoted(c) \in Text
  BY DEF Quoted, Text, Backslash
<1>3. Quotes(u) = [i \in 1 .. Len(u) |-> Quoted(u[i])]
  BY <1>1 DEF Quotes
<1>4. Quotes(u) \in [1 .. Len(u) -> Text]
  BY <1>1, <1>2, <1>3
<1>5. Quotes(u) \in Seq(Text) /\ Len(Quotes(u)) = Size(u)
  BY <1>1, <1>3, <1>4 DEF Size
<1>6. \A i \in 1 .. Size(u) : Quotes(u)[i] = Quoted(u[i])
  BY <1>3 DEF Size
<1>7. Quote(u) = Cat(Cat(One(DoubleQuote), FlattenSeq(Quotes(u))), One(DoubleQuote))
  BY DEF Quote, Quotes, Quoted, Cat, One
<1> QED BY <1>5, <1>6, <1>7

LEMMA QuoteText ==
    ASSUME NEW u \in Text
    PROVE  /\ Quote(u) \in Text /\ Quote(u) # <<>>
           /\ FlattenSeq(Quotes(u)) \in Text
           /\ Size(Quote(u)) = Size(FlattenSeq(Quotes(u))) + 2
           /\ \A source \in Text, o \in Nat : Stands(source, o, Quote(u)) =>
                 /\ Stands(source, o, One(DoubleQuote))
                 /\ Stands(source, o + 1, FlattenSeq(Quotes(u)))
                 /\ Stands(source, (o + 1) + Size(FlattenSeq(Quotes(u))), One(DoubleQuote))
<1> DEFINE q == One(DoubleQuote)
           f == FlattenSeq(Quotes(u))
           s == Cat(q, f)
           t == Cat(s, q)
<1>1. q \in Text /\ Size(q) = 1
  BY OneIs DEF DoubleQuote
<1>2. f \in Text /\ Size(f) \in Nat
  <2>1. PICK ends : Spread(Quotes(u), f, ends)
    BY QuoteIs, Spreading
  <2> QED BY <2>1, SizeIs DEF Spread
<1>3. Quote(u) = t
  BY QuoteIs
<1> HIDE DEF q, f
<1>4. s \in Text /\ Size(s) = 1 + Size(f)
  BY <1>1, <1>2, CatLen
<1>5. ASSUME NEW source \in Text, NEW o \in Nat
      PROVE  Stands(source, o, s) <=> Stands(source, o, q) /\ Stands(source, o + 1, f)
  BY <1>1, <1>2, CatStands
<1> HIDE DEF s
<1>6. t \in Text /\ Size(t) = (1 + Size(f)) + 1
  BY <1>1, <1>4, CatLen
<1>7. ASSUME NEW source \in Text, NEW o \in Nat
      PROVE  Stands(source, o, t) => Stands(source, o, s) /\ Stands(source, (o + 1) + Size(f), q)
  <2>1. Stands(source, o, t) <=> Stands(source, o, s) /\ Stands(source, o + Size(s), q)
    BY <1>1, <1>4, CatStands
  <2>2. o + Size(s) = (o + 1) + Size(f)
    BY <1>2, <1>4
  <2> QED BY <2>1, <2>2
<1> HIDE DEF t
<1>8. t # <<>> /\ Size(t) = Size(f) + 2
  BY <1>2, <1>6, SizeIs
<1> QED BY <1>2, <1>3, <1>5, <1>6, <1>7, <1>8 DEF q, f

\* A character of a quoted element, with or without the backslash before it.
LEMMA RoundQuoted ==
    ASSUME NEW source \in Text, NEW caller, NEW es, NEW rec, NEW o \in Nat, NEW type,
           NEW c \in Nat, Stands(source, o, Quoted(c))
    PROVE  /\ Size(Quoted(c)) \in Nat /\ Size(Quoted(c)) >= 1
           /\ ParseCharacter(State(source, caller, es, On, 1, rec, o + 1), type)
                = State(source, caller, es, On, 1, Append(rec, c), o + Size(Quoted(c)) + 1)
<1>1. CASE c \in {Backslash, DoubleQuote}
  <2>1. Quoted(c) = <<Backslash, c>> /\ Size(<<Backslash, c>>) = 2
    BY <1>1 DEF Quoted, Size
  <2>2. source[o + 1] = Backslash /\ source[o + 2] = c /\ o + 2 <= Len(source)
    BY <2>1, SizeIs DEF Stands, Size
  <2>3. o + 1 \in Nat /\ o + 1 <= Len(source) /\ (o + 1) + 1 = o + 2 /\ (o + 1) + 2 = o + 2 + 1
    BY <2>2, SizeIs DEF Size
  <2>4. ParseCharacter(State(source, caller, es, On, 1, rec, o + 1), type)
            = State(source, caller, es, On, 1, Append(rec, c), (o + 1) + 2)
    BY <2>2, <2>3, RoundEscaped
  <2> QED BY <2>1, <2>3, <2>4
<1>2. CASE c \notin {Backslash, DoubleQuote}
  <2>1. Quoted(c) = <<c>> /\ Size(<<c>>) = 1
    BY <1>2 DEF Quoted, Size
  <2>2. source[o + 1] = c /\ o + 1 <= Len(source) /\ o + 1 \in Nat
    BY <2>1, SizeIs DEF Stands, Size
  <2>3. ParseCharacter(State(source, caller, es, On, 1, rec, o + 1), type)
            = State(source, caller, es, On, 1, Append(rec, c), (o + 1) + 1)
    BY <1>2, <2>2, RoundInside
  <2> QED BY <2>1, <2>3
<1> QED BY <1>1, <1>2

\* What quote() wrote is read as it was.
LEMMA ElementQuoted ==
    ASSUME NEW type, NEW u \in Text
    PROVE  Element(type, Quote(u), Leaf(Parse(type, u)))
<1> DEFINE f == FlattenSeq(Quotes(u))
           t == Quote(u)
           n == Size(u)
           v == Leaf(Parse(type, u))
<1>1. /\ n \in Nat /\ f \in Text /\ t \in Text /\ Size(f) \in Nat
      /\ Size(t) = Size(f) + 2 /\ \A i \in 1 .. n : u[i] \in Nat
  BY QuoteText, SizeIs, TextIs DEF Size
<1>2. PICK ends : Spread(Quotes(u), f, ends)
  BY QuoteIs, Spreading
<1>3. /\ ends \in [0 .. n -> Nat] /\ ends[0] = 0 /\ ends[n] = Size(f)
      /\ \A i \in 1 .. n : ends[i] = ends[i - 1] + Size(Quoted(u[i]))
  BY <1>2, QuoteIs DEF Spread
<1> HIDE DEF f, t, v, n
<1>35. \A i \in 0 .. n : i <= ends[i]
  <2> DEFINE U == {j \in 0 .. n : j <= ends[j]}
  <2>1. 0 \in U
    BY <1>1, <1>3
  <2>2. ASSUME NEW j \in 0 .. n, j \in U, j < n PROVE j + 1 \in U
    <3>1. j + 1 \in 1 .. n /\ (j + 1) - 1 = j /\ ends[j] \in Nat
      BY <1>1, <1>3, <2>2
    <3> DEFINE s == Quoted(u[j + 1])
    <3>2. ends[j + 1] = ends[j] + Size(s)
      BY <3>1, <1>3
    <3>3. Size(s) \in Nat /\ Size(s) >= 1
      BY <3>1, <1>1 DEF Quoted, Size
    <3> HIDE DEF s
    <3> QED BY <3>1, <3>2, <3>3, <2>2
  <2>3. \A i \in 0 .. n : i \in U
    <3> HIDE DEF U
    <3> QED BY <1>1, <2>1, <2>2, Upward
  <2> QED BY <2>3
<1>36. n <= Size(f)
  BY <1>1, <1>3, <1>35
<1>4. ASSUME NEW st, NEW N, NEW k, NEW source, NEW caller, NEW es, NEW o,
             Chain(st, N, type), k \in Nat, source \in Text, o \in Nat,
             Stands(source, o, t), k + 2 * Size(t) <= N,
             st[k] = Frame(source, caller, es, <<>>, o + 1)
      PROVE  Reaches(st, k, source, caller, es, o, Size(t), type, v)
  <2> DEFINE q == One(DoubleQuote)
             at(i) == State(source, caller, es, On, 1, Pre(u, i), (o + 1) + ends[i] + 1)
  <2>1. /\ Stands(source, o, q) /\ Stands(source, o + 1, f)
        /\ Stands(source, (o + 1) + Size(f), q)
    BY <1>4, QuoteText DEF f, t
  <2>2. N \in Nat /\ o + 1 \in Nat /\ (o + 1) + Size(f) \in Nat
      <3>1. N \in Nat
      BY <1>4 DEF Chain
    <3>2. o + 1 \in Nat /\ (o + 1) + Size(f) \in Nat
      BY <1>1, <1>4
    <3> QED BY <3>1, <3>2
  <2>20. N >= k + 2 * (Size(f) + 2)
    BY <1>1, <1>4, <2>2
  <2>3. st[k + 1] = at(0)
    <3>1. o + 1 <= Len(source) /\ source[o + 1] = DoubleQuote
      BY <2>1, <1>4, OneStands DEF Size
    <3>2. st[k + 1] = ParseCharacter(st[k], type)
      BY <1>1, <1>4, <2>2, ChainStep
    <3>3. ParseCharacter(State(source, caller, es, Off, 1, <<>>, o + 1), type)
            = State(source, caller, es, On, 1, <<>>, (o + 1) + 1)
      BY <2>2, <3>1, RoundQuote
    <3>4. (o + 1) + ends[0] + 1 = (o + 1) + 1 /\ Pre(u, 0) = <<>>
      BY <1>3, <2>2, PreIs
    <3>5. st[k] = State(source, caller, es, Off, 1, <<>>, o + 1)
      BY <1>4 DEF Frame
    <3> QED BY <3>2, <3>3, <3>4, <3>5, Zenon
  <2> DEFINE T == {i \in 0 .. n : st[k + 1 + i] = at(i) /\ i <= ends[i]}
  <2>4. 0 \in T
    <3>1. k + 1 + 0 = k + 1 /\ 0 \in 0 .. n /\ 0 <= ends[0]
      BY <1>1, <1>3, <1>4
    <3> HIDE DEF at
    <3> QED BY <3>1, <2>3
  <2>5. ASSUME NEW i \in 0 .. n, i \in T, i < n
        PROVE  i + 1 \in T
    <3> DEFINE d == (o + 1) + ends[i]
               c == u[i + 1]
               w == Quoted(c)
    <3>1. i + 1 \in 1 .. n /\ (i + 1) - 1 = i /\ i + 1 \in 0 .. n /\ ends[i] \in Nat
      BY <1>1, <1>3, <2>5
    <3>2. ends[i + 1] = ends[i] + Size(w) /\ c \in Nat /\ d \in Nat /\ ends[i + 1] \in Nat
      BY SMTT(30), <3>1, <1>1, <1>3, <1>4
    <3>3. Stands(source, d, w)
      <4>1. i + 1 \in 1 .. Len(Quotes(u)) /\ Quotes(u)[i + 1] = w
        BY <3>1, QuoteIs DEF n
      <4>2. Stands(source, (o + 1) + ends[(i + 1) - 1], Quotes(u)[i + 1])
        BY <4>1, <1>2, <1>4, <2>1, <2>2, SpreadIn
      <4> QED BY <4>1, <4>2, <3>1
    <3> HIDE DEF w, c
    <3>4. st[k + 1 + i] = State(source, caller, es, On, 1, Pre(u, i), d + 1) /\ i <= ends[i]
      BY <2>5
    <3> HIDE DEF d
    <3>5. /\ Size(w) \in Nat /\ Size(w) >= 1
          /\ ParseCharacter(State(source, caller, es, On, 1, Pre(u, i), d + 1), type)
                = State(source, caller, es, On, 1, Append(Pre(u, i), c), d + Size(w) + 1)
      BY <3>2, <3>3, <1>4, RoundQuoted DEF w
    <3>6. k + 1 + i \in Nat /\ (k + 1 + i) + 1 <= N /\ k + 1 + (i + 1) = (k + 1 + i) + 1
          /\ i + 1 <= ends[i + 1]
      <4>1. i + 1 <= n /\ n <= Size(f) /\ N >= k + 2 * (Size(f) + 2) /\ k \in Nat /\ i \in Nat
        BY <2>5, <1>1, <1>36, <1>4, <2>20
      <4>2. k + 1 + i \in Nat /\ k + 1 + (i + 1) = (k + 1 + i) + 1
        BY <4>1
      <4>3. (k + 1 + i) + 1 <= N
        BY <4>1, <1>1, <2>2
      <4>4. i + 1 <= ends[i + 1]
        BY <3>1, <1>35
      <4> QED BY <4>2, <4>3, <4>4
    <3>7. st[(k + 1 + i) + 1] = ParseCharacter(st[k + 1 + i], type)
      BY <3>6, <1>4, ChainStep
    <3>8. Append(Pre(u, i), c) = Pre(u, i + 1)
      BY <2>5, PreIs DEF n, c
    <3>9. d + Size(w) + 1 = (o + 1) + ends[i + 1] + 1
      BY SMTT(30), <3>1, <3>2, <3>5, <1>4 DEF d
    <3>10. st[k + 1 + (i + 1)] = at(i + 1)
      BY <3>4, <3>5, <3>6, <3>7, <3>8, <3>9, Zenon
    <3> HIDE DEF at
    <3> QED BY <3>1, <3>6, <3>10
  <2>6. n \in T
    <3>1. n \in 0 .. n
      BY <1>1
    <3> HIDE DEF T
    <3> QED BY <3>1, <1>1, <2>4, <2>5, Upward
  <2> DEFINE pos == (o + 1) + Size(f) + 1
             j == (k + 1 + n) + 1
  <2>7. st[k + 1 + n] = State(source, caller, es, On, 1, u, pos)
    BY <2>6, <1>3, PreIs DEF n
  <2>8. /\ k + 1 + n \in Nat /\ (k + 1 + n) + 1 <= N /\ j \in Nat /\ k < j
        /\ j <= k + 2 * Size(t) /\ pos \in Nat /\ pos + 1 = o + Size(t) + 1
    <3>1. n <= Size(f) /\ N >= k + 2 * (Size(f) + 2) /\ k \in Nat /\ Size(t) = Size(f) + 2
      BY <1>1, <1>36, <1>4, <2>20
    <3> QED BY SMTT(30), <3>1, <1>1, <1>4, <2>2
  <2>9. pos <= Len(source) /\ source[pos] = DoubleQuote
    BY <2>1, <2>2, <1>4, OneStands DEF Size
  <2> HIDE DEF T, at
  <2>10. st[j] = ParseCharacter(st[k + 1 + n], type)
    BY <2>8, <1>4, ChainStep
  <2> HIDE DEF pos, j
  <2>11. ParseCharacter(State(source, caller, es, On, 1, u, pos), type)
            = State(source, caller, Ext(es, v), Off, 1, <<>>, pos + 1)
    BY <2>8, <2>9, RoundUnquote DEF v
  <2>12. st[j] = Frame(source, caller, Ext(es, v), <<>>, o + Size(t) + 1)
    BY <2>7, <2>8, <2>10, <2>11 DEF Frame
  <2>13. Taken(Ext(es, v), <<>>, type) = Ext(es, v)
    BY DEF Taken
  <2> QED BY <2>8, <2>12, <2>13 DEF Reaches
<1> QED BY <1>1, <1>4 DEF Element, ReadAs, t, v

Joint(texts, i) == IF i = 1 THEN texts[i] ELSE <<Comma>> \o texts[i]
Joints(texts) == [i \in DOMAIN texts |-> Joint(texts, i)]

LEMMA JoinIs ==
    ASSUME NEW texts \in Seq(Text)
    PROVE  /\ Len(texts) \in Nat /\ Joints(texts) \in Seq(Text)
           /\ Len(Joints(texts)) = Len(texts)
           /\ \A i \in 1 .. Len(texts) : texts[i] \in Text /\ Joints(texts)[i] = Joint(texts, i)
           /\ Join(texts) = FlattenSeq(Joints(texts))
<1> DEFINE A == Text
<1>1. texts \in Seq(A)
  OBVIOUS
<1> HIDE DEF A
<1>2. /\ Len(texts) \in Nat /\ DOMAIN texts = 1 .. Len(texts)
      /\ \A i \in 1 .. Len(texts) : texts[i] \in A
  BY <1>1, LenProperties, ElementOfSeq
<1>3. \A i \in 1 .. Len(texts) : texts[i] \in Text
  BY <1>2 DEF A
<1>4. ASSUME NEW t \in Text PROVE <<Comma>> \o t \in Text
  BY TextFew, TextLen DEF Comma
<1>5. \A i \in 1 .. Len(texts) : Joint(texts, i) \in Text
  BY <1>3, <1>4 DEF Joint
<1>6. Joints(texts) = [i \in 1 .. Len(texts) |-> Joint(texts, i)]
  BY <1>2 DEF Joints
<1>7. Joints(texts) \in [1 .. Len(texts) -> Text]
  BY <1>5, <1>6
<1>8. Joints(texts) \in Seq(Text) /\ Len(Joints(texts)) = Len(texts)
  BY <1>2, <1>6, <1>7
<1>9. Join(texts) = FlattenSeq(Joints(texts))
  BY DEF Join, Joints, Joint
<1> QED BY <1>2, <1>3, <1>6, <1>8, <1>9

LEMMA PreExt ==
    ASSUME NEW es, NEW i \in Nat
    PROVE  /\ Pre(es, 0) = <<>> /\ Ext(Pre(es, i), es[i + 1]) = Pre(es, i + 1)
<1>1. Pre(es, 0) = <<>>
  BY DEF Pre
<1>2. Append(Pre(es, i), es[i + 1]) = Pre(es, i + 1)
  BY DEF Pre
<1> QED BY <1>1, <1>2 DEF Ext

\* By round high, the entries are es once what was recorded is one.
Came(st, low, high, source, caller, pos, type, es) ==
    \E j, es2, rec2 :
       /\ j \in Nat
       /\ low <= j /\ j <= high
       /\ st[j] = Frame(source, caller, es2, rec2, pos)
       /\ Taken(es2, rec2, type) = es

LEMMA ReadElement ==
    ASSUME NEW type, NEW t, NEW e, Element(type, t, e), NEW st, NEW N, NEW k \in Nat,
           NEW source \in Text, NEW caller, NEW es, NEW o \in Nat, Chain(st, N, type),
           Stands(source, o, t), k + 2 * Size(t) <= N,
           st[k] = Frame(source, caller, es, <<>>, o + 1)
    PROVE  /\ Size(t) \in Nat
           /\ Came(st, k, k + 2 * Size(t), source, caller, o + Size(t) + 1, type, Ext(es, e))
<1>1. Reaches(st, k, source, caller, es, o, Size(t), type, e)
  BY Zenon DEF Element, ReadAs
<1>2. PICK j, es2, rec2 :
       /\ j \in Nat
       /\ k < j /\ j <= k + 2 * Size(t)
       /\ st[j] = Frame(source, caller, es2, rec2, o + Size(t) + 1)
       /\ Taken(es2, rec2, type) = Ext(es, e)
  BY <1>1 DEF Reaches
<1>3. t \in Text
  BY DEF Element
<1>4. Size(t) \in Nat
  BY <1>3, SizeIs
<1>5. k <= j
  BY <1>2
<1>6. Came(st, k, k + 2 * Size(t), source, caller, o + Size(t) + 1, type, Ext(es, e))
  BY <1>2, <1>5 DEF Came
<1> QED BY <1>4, <1>6

Elements(type, texts, es) ==
    texts \in Seq(Text) /\ \A i \in 1 .. Len(texts) : Element(type, texts[i], es[i])

\* The elements of an array, between its braces, are read one after the other.
LEMMA ListBody ==
    ASSUME NEW type, NEW texts, NEW es, Elements(type, texts, es), NEW st, NEW N,
           NEW k \in Nat, NEW source \in Text, NEW caller, NEW o \in Nat, Chain(st, N, type),
           Stands(source, o, Join(texts)), k + 2 * Size(Join(texts)) <= N,
           st[k] = Frame(source, caller, <<>>, <<>>, o + 1)
    PROVE  /\ Join(texts) \in Text /\ Size(Join(texts)) \in Nat
           /\ Came(st, k, k + 2 * Size(Join(texts)), source, caller,
                   o + Size(Join(texts)) + 1, type, Pre(es, Len(texts)))
<1> DEFINE n == Len(texts)
           body == Join(texts)
<1>1. /\ texts \in Seq(Text) /\ n \in Nat /\ Len(Joints(texts)) = n
      /\ \A i \in 1 .. n : texts[i] \in Text /\ Joints(texts)[i] = Joint(texts, i)
  BY JoinIs DEF Elements
<1>2. PICK ends : Spread(Joints(texts), body, ends)
  BY <1>1, JoinIs, Spreading
<1>3. /\ ends \in [0 .. n -> Nat] /\ ends[0] = 0 /\ ends[n] = Size(body) /\ body \in Text
      /\ \A i \in 1 .. n : ends[i] = ends[i - 1] + Size(Joint(texts, i))
  BY <1>1, <1>2 DEF Spread
<1>4. Size(body) \in Nat /\ N \in Nat
  BY <1>3, SizeIs DEF Chain
<1>5. ASSUME NEW i \in 0 .. n, i < n
      PROVE  /\ i + 1 \in 1 .. n /\ i + 1 \in 0 .. n /\ ends[i] \in Nat /\ ends[i + 1] \in Nat
             /\ ends[i + 1] = ends[i] + Size(Joint(texts, i + 1))
             /\ Stands(source, o + ends[i], Joint(texts, i + 1))
             /\ k + 2 * ends[i + 1] <= N
  <2>1. i + 1 \in 1 .. n /\ i + 1 \in 0 .. n /\ (i + 1) - 1 = i
    BY <1>1, <1>5
  <2>2. i + 1 \in 1 .. Len(Joints(texts)) /\ Joints(texts)[i + 1] = Joint(texts, i + 1)
    BY <2>1, <1>1
  <2>3. Stands(source, o + ends[(i + 1) - 1], Joints(texts)[i + 1])
    BY <2>2, <1>2, SpreadIn
  <2>4. Stands(source, o + ends[i], Joint(texts, i + 1))
    BY <2>1, <2>2, <2>3
  <2>5. ends[i] \in Nat /\ ends[i + 1] \in Nat
    BY <2>1, <1>3
  <2>6. ends[i + 1] = ends[i] + Size(Joint(texts, i + 1))
    <3>1. ends[i + 1] = ends[(i + 1) - 1] + Size(Joint(texts, i + 1))
      BY <2>1, <1>3
    <3> QED BY <3>1, <2>1
  <2>7. ends[i + 1] <= Size(body)
    <3>1. Stands(body, ends[(i + 1) - 1], Joints(texts)[i + 1])
      BY <2>2, <1>2 DEF Spread
    <3>2. Stands(body, ends[i], Joint(texts, i + 1))
      BY <2>1, <2>2, <3>1
    <3>3. ends[i] + Size(Joint(texts, i + 1)) <= Size(body)
      BY <3>2 DEF Stands, Size
    <3> QED BY <3>3, <2>6
  <2> DEFINE s == Size(body)
             f == ends[i + 1]
  <2>8. k + 2 * f <= N
    <3>1. f \in Nat /\ s \in Nat /\ f <= s /\ k + 2 * s <= N /\ N \in Nat
      BY <2>5, <2>7, <1>4
    <3> HIDE DEF f, s
    <3> QED BY <3>1
  <2> QED BY <2>1, <2>4, <2>5, <2>6, <2>8
<1> DEFINE After(i) == Came(st, k, k + 2 * ends[i], source, caller, o + ends[i] + 1, type,
                            Pre(es, i))
           T == {i \in 0 .. n : i = 0 \/ After(i)}
<1>6. 0 \in T
  BY <1>1
<1>7. ASSUME NEW i \in 0 .. n, i \in T, i < n
      PROVE  i + 1 \in T
  <2> DEFINE t == texts[i + 1]
             m == ends[i]
  <2>1. /\ i + 1 \in 1 .. n /\ i + 1 \in 0 .. n /\ m \in Nat /\ ends[i + 1] \in Nat
        /\ ends[i + 1] = m + Size(Joint(texts, i + 1))
        /\ Stands(source, o + m, Joint(texts, i + 1)) /\ k + 2 * ends[i + 1] <= N
    BY <1>5, <1>7
  <2>2. t \in Text /\ Size(t) \in Nat /\ Element(type, t, es[i + 1])
    BY <2>1, <1>1, SizeIs DEF Elements
  <2>3. Ext(Pre(es, i), es[i + 1]) = Pre(es, i + 1) /\ Pre(es, 0) = <<>>
    BY PreExt, <1>1
  <2>4. CASE i = 0
    <3>1. Joint(texts, i + 1) = t /\ m = 0 /\ o + m = o
      BY <2>4, <1>3 DEF Joint
    <3>2. Stands(source, o, t) /\ ends[i + 1] = Size(t) /\ k + 2 * Size(t) <= N
      BY <2>1, <2>2, <3>1
    <3> HIDE DEF t, m
    <3>3. Came(st, k, k + 2 * Size(t), source, caller, o + Size(t) + 1, type,
               Ext(<<>>, es[i + 1]))
      BY <2>2, <3>2, ReadElement
    <3>4. After(i + 1)
      BY <2>3, <2>4, <3>2, <3>3
    <3> HIDE DEF After
    <3> QED BY <2>1, <3>4
  <2>5. CASE i # 0
    <3>1. Joint(texts, i + 1) = Cat(One(Comma), t)
      <4>1. i + 1 # 1
        BY <2>5
      <4> QED BY <4>1 DEF Joint, Cat, One
    <3> HIDE DEF t, m
    <3>2. One(Comma) \in Text /\ Size(One(Comma)) = 1
      BY OneIs DEF Comma
    <3>3. o + m \in Nat /\ (o + m) + 1 \in Nat
      BY <2>1
    <3>4. Stands(source, o + m, One(Comma)) /\ Stands(source, (o + m) + 1, t)
      BY <2>1, <2>2, <3>1, <3>2, <3>3, CatStands
    <3>5. Size(Joint(texts, i + 1)) = 1 + Size(t)
      BY <2>2, <3>1, <3>2, CatLen
    <3>6. (o + m) + 1 <= Len(source) /\ source[(o + m) + 1] = Comma
      BY <3>3, <3>4, OneStands DEF Size
    <3>7. After(i)
      BY <2>5, <1>7
    <3>8. PICK j, es2, rec2 :
             /\ j \in Nat
             /\ k <= j /\ j <= k + 2 * m
             /\ st[j] = Frame(source, caller, es2, rec2, o + m + 1)
             /\ Taken(es2, rec2, type) = Pre(es, i)
      BY <3>7 DEF Came, m
    <3> HIDE DEF After
    <3>9. /\ j + 1 \in Nat /\ j + 1 <= N /\ (j + 1) + 2 * Size(t) <= N
          /\ (j + 1) + 2 * Size(t) <= k + 2 * ends[i + 1]
          /\ ((o + m) + 1) + Size(t) + 1 = o + ends[i + 1] + 1 /\ k <= j + 1
      <4> DEFINE z == Size(t)
                 f == ends[i + 1]
      <4>1. z \in Nat /\ f \in Nat /\ m \in Nat /\ f = m + (1 + z) /\ k + 2 * f <= N
            /\ N \in Nat
        BY <2>1, <2>2, <3>5, <1>4
      <4>2. j \in Nat /\ k <= j /\ j <= k + 2 * m
        BY <3>8
      <4> HIDE DEF z, f
      <4>3. /\ j + 1 \in Nat /\ j + 1 <= N /\ (j + 1) + 2 * z <= N
            /\ (j + 1) + 2 * z <= k + 2 * f
            /\ ((o + m) + 1) + z + 1 = o + f + 1 /\ k <= j + 1
        BY <4>1, <4>2
      <4> QED BY <4>3 DEF z, f
    <3>10. st[j + 1] = ParseCharacter(st[j], type)
      BY <3>8, <3>9, ChainStep
    <3>11. ParseCharacter(State(source, caller, es2, Off, 1, rec2, (o + m) + 1), type)
              = State(source, caller, Taken(es2, rec2, type), Off, 1, <<>>, ((o + m) + 1) + 1)
      BY <3>3, <3>6, RoundComma
    <3>12. st[j + 1] = Frame(source, caller, Pre(es, i), <<>>, ((o + m) + 1) + 1)
      BY <3>8, <3>10, <3>11 DEF Frame
    <3>13. Came(st, j + 1, (j + 1) + 2 * Size(t), source, caller,
                ((o + m) + 1) + Size(t) + 1, type, Ext(Pre(es, i), es[i + 1]))
      BY <2>2, <3>3, <3>4, <3>9, <3>12, ReadElement
    <3>14. PICK l, es3, rec3 :
             /\ l \in Nat
             /\ j + 1 <= l /\ l <= (j + 1) + 2 * Size(t)
             /\ st[l] = Frame(source, caller, es3, rec3, ((o + m) + 1) + Size(t) + 1)
             /\ Taken(es3, rec3, type) = Ext(Pre(es, i), es[i + 1])
      BY <3>13 DEF Came
    <3>15. k <= l /\ l <= k + 2 * ends[i + 1]
      <4> DEFINE z == (j + 1) + 2 * Size(t)
                 f == k + 2 * ends[i + 1]
      <4>1. z \in Nat
        BY <2>2, <3>8
      <4>2. f \in Nat
        BY <2>1
      <4>3. z <= f /\ k <= j + 1
        BY <3>9
      <4>4. j \in Nat /\ l \in Nat /\ j + 1 <= l /\ l <= z
        BY <3>8, <3>14
      <4> HIDE DEF z, f
      <4>5. k <= l /\ l <= f
        BY <4>1, <4>2, <4>3, <4>4
      <4> QED BY <4>5 DEF f
    <3>16. After(i + 1)
      BY <2>3, <3>9, <3>14, <3>15 DEF Came, After
    <3> QED BY <2>1, <3>16
  <2> QED BY <2>4, <2>5
<1>8. n \in T
  <2>1. n \in 0 .. n
    BY <1>1
  <2> HIDE DEF T
  <2> QED BY <2>1, <1>1, <1>6, <1>7, Upward
<1>9. CASE n = 0
  <2>1. Size(body) = 0 /\ Pre(es, n) = <<>> /\ o + Size(body) + 1 = o + 1 /\ k <= k
    <3>1. Size(body) = 0
      BY <1>3, <1>9
    <3>2. Pre(es, 0) = <<>>
      BY <1>1, PreExt
    <3> QED BY <3>1, <3>2, <1>9
  <2>2. Taken(<<>>, <<>>, type) = <<>> /\ k <= k + 2 * Size(body)
    BY <2>1 DEF Taken
  <2>3. st[k] = Frame(source, caller, <<>>, <<>>, o + Size(body) + 1)
    BY <2>1
  <2> QED BY <2>1, <2>2, <2>3, <1>3, <1>4 DEF Came
<1>10. CASE n # 0
  <2>1. After(n)
    BY <1>8, <1>10
  <2> QED BY <2>1, <1>3, <1>4
<1> QED BY <1>9, <1>10

ListText(texts) == <<Open>> \o Join(texts) \o <<Close>>

LEMMA ListIs ==
    ASSUME NEW texts \in Seq(Text)
    PROVE  /\ ListText(texts) \in Text /\ ListText(texts) # <<>>
           /\ Join(texts) \in Text /\ Size(Join(texts)) \in Nat
           /\ Size(ListText(texts)) = Size(Join(texts)) + 2
           /\ \A source \in Text, o \in Nat : Stands(source, o, ListText(texts)) =>
                 /\ Stands(source, o, One(Open))
                 /\ Stands(source, o + 1, Join(texts))
                 /\ Stands(source, (o + 1) + Size(Join(texts)), One(Close))
<1> DEFINE a == One(Open)
           z == One(Close)
           f == Join(texts)
           s == Cat(a, f)
           t == Cat(s, z)
<1>1. a \in Text /\ Size(a) = 1 /\ z \in Text /\ Size(z) = 1
  BY OneIs DEF Open, Close
<1>2. f \in Text /\ Size(f) \in Nat
  <2>1. f = FlattenSeq(Joints(texts)) /\ Joints(texts) \in Seq(Seq(Nat))
    BY JoinIs DEF Text
  <2>2. f \in Seq(Nat)
    BY <2>1, FlatIsSequence
  <2>3. f \in Text
    BY <2>2 DEF Text
  <2> QED BY <2>3, SizeIs
<1>3. ListText(texts) = t
  BY DEF ListText, Cat, One
<1> HIDE DEF a, z, f
<1>4. s \in Text /\ Size(s) = 1 + Size(f)
  BY <1>1, <1>2, CatLen
<1>5. ASSUME NEW source \in Text, NEW o \in Nat
      PROVE  Stands(source, o, s) <=> Stands(source, o, a) /\ Stands(source, o + 1, f)
  BY <1>1, <1>2, CatStands
<1> HIDE DEF s
<1>6. t \in Text /\ Size(t) = (1 + Size(f)) + 1
  BY <1>1, <1>4, CatLen
<1>7. ASSUME NEW source \in Text, NEW o \in Nat
      PROVE  Stands(source, o, t) => Stands(source, o, s) /\ Stands(source, (o + 1) + Size(f), z)
  <2>1. Stands(source, o, t) <=> Stands(source, o, s) /\ Stands(source, o + Size(s), z)
    BY <1>1, <1>4, CatStands
  <2>2. o + Size(s) = (o + 1) + Size(f)
    BY <1>2, <1>4
  <2> QED BY <2>1, <2>2
<1> HIDE DEF t
<1>8. t # <<>> /\ Size(t) = Size(f) + 2
  BY <1>2, <1>6, SizeIs
<1> QED BY <1>2, <1>3, <1>5, <1>6, <1>7, <1>8 DEF a, z, f

\* What a call of the parser has read once it has come to the last brace.
LEMMA ListRead ==
    ASSUME NEW type, NEW texts, NEW es, Elements(type, texts, es), NEW st, NEW N,
           NEW k \in Nat, NEW source \in Text, NEW caller, Chain(st, N, type),
           Stands(source, 0, ListText(texts)), k + 2 * Size(Join(texts)) + 2 <= N,
           st[k] = State(source, caller, <<>>, Off, 0, <<>>, 1)
    PROVE  LET pos == Size(Join(texts)) + 2
           IN  /\ Came(st, k + 1, (k + 1) + 2 * Size(Join(texts)), source, caller, pos, type,
                       Pre(es, Len(texts)))
               /\ pos \in Nat /\ pos <= Len(source) /\ source[pos] = Close
<1> DEFINE b == Size(Join(texts))
           pos == b + 2
<1>1. /\ texts \in Seq(Text) /\ N \in Nat /\ b \in Nat /\ Join(texts) \in Text
  BY ListIs DEF Elements, Chain
<1>2. /\ Stands(source, 0, One(Open)) /\ Stands(source, 1, Join(texts))
      /\ Stands(source, 1 + b, One(Close))
  <2>1. 0 \in Nat /\ 0 + 1 = 1
    OBVIOUS
  <2>2. /\ Stands(source, 0, One(Open)) /\ Stands(source, 0 + 1, Join(texts))
        /\ Stands(source, (0 + 1) + b, One(Close))
    BY <1>1, <2>1, ListIs
  <2> QED BY <2>1, <2>2
<1>3. 1 <= Len(source) /\ source[1] = Open
  <2>1. 0 + 1 <= Size(source) /\ source[0 + 1] = Open
    BY <1>2, OneStands
  <2> QED BY <2>1 DEF Size
<1>4. pos \in Nat /\ pos <= Len(source) /\ source[pos] = Close
  <2>1. 1 + b \in Nat /\ (1 + b) + 1 = pos
    BY <1>1
  <2>2. (1 + b) + 1 <= Size(source) /\ source[(1 + b) + 1] = Close
    BY <2>1, <1>2, OneStands
  <2> QED BY <2>1, <2>2 DEF Size
<1> HIDE DEF b
<1>5. k + 1 \in Nat /\ k + 1 <= N /\ (k + 1) + 2 * b <= N
  BY <1>1 DEF b
<1>6. st[k + 1] = ParseCharacter(st[k], type)
  BY <1>5, ChainStep
<1>7. ParseCharacter(State(source, caller, <<>>, Off, 0, <<>>, 1), type)
        = State(source, caller, <<>>, Off, 1, <<>>, 1 + 1)
  BY <1>3, RoundOpen
<1>8. st[k + 1] = Frame(source, caller, <<>>, <<>>, 1 + 1)
  BY <1>6, <1>7 DEF Frame
<1>9. Came(st, k + 1, (k + 1) + 2 * b, source, caller, 1 + b + 1, type, Pre(es, Len(texts)))
  <2>1. 1 \in Nat
    OBVIOUS
  <2> QED BY <2>1, <1>2, <1>5, <1>8, ListBody DEF b
<1>10. 1 + b + 1 = pos
  BY <1>1 DEF b
<1> QED BY <1>4, <1>9, <1>10 DEF b

\* A nested array is read by a call of its own, which returns after its brace.
LEMMA ElementList ==
    ASSUME NEW type, NEW texts, NEW es, Elements(type, texts, es)
    PROVE  Element(type, ListText(texts), List(Pre(es, Len(texts))))
<1> DEFINE b == Size(Join(texts))
           t == ListText(texts)
           r == Pre(es, Len(texts))
<1>1. /\ texts \in Seq(Text) /\ b \in Nat /\ Join(texts) \in Text /\ t \in Text
      /\ Size(t) = b + 2
  BY ListIs DEF Elements
<1> HIDE DEF b, t
<1>2. ASSUME NEW st, NEW N, NEW k, NEW source, NEW caller, NEW es0, NEW o,
             Chain(st, N, type), k \in Nat, source \in Text, o \in Nat,
             Stands(source, o, t), k + 2 * Size(t) <= N,
             st[k] = Frame(source, caller, es0, <<>>, o + 1)
      PROVE  Reaches(st, k, source, caller, es0, o, Size(t), type, List(r))
  <2> DEFINE sub == SubSeq(source, o + 1, Len(source))
             cst == State(source, caller, es0, Off, 1, <<>>, (o + 1) + 1)
             c == <<cst>>
             pos == b + 2
  <2>1. /\ Stands(source, o, One(Open)) /\ Stands(source, (o + 1) + b, One(Close))
    BY <1>1, <1>2, ListIs DEF t, b
  <2>2. /\ N \in Nat /\ k + 2 * (b + 2) <= N /\ k + 1 \in Nat /\ k + 1 <= N
        /\ (k + 1) + 2 * b + 2 <= N /\ Len(source) \in Nat
    <3>1. N \in Nat
      BY <1>2 DEF Chain
    <3>2. k + 2 * (b + 2) <= N
      BY <1>1, <1>2
    <3>3. Len(source) \in Nat
      BY <1>2, TextIs
    <3> QED BY <3>1, <3>2, <3>3, <1>1, <1>2
  <2>3. o + 1 \in Nat /\ o + 1 <= Len(source) /\ source[o + 1] = Open
    BY <2>1, <1>2, OneStands DEF Size
  <2>4. /\ sub \in Text /\ Stands(sub, 0, t) /\ sub[1] # 91
    <3>1. sub \in Text
      BY <2>2, <2>3, <1>2 DEF Text
    <3>2. Len(sub) = Len(source) - o /\ \A i \in 1 .. Len(sub) : sub[i] = source[o + i]
      BY <2>2, <2>3, <1>2
    <3>3. sub[1] = Open
      BY <2>2, <2>3, <3>2, <1>2
    <3>4. Stands(sub, 0, t)
      <4>1. Len(t) \in Nat
        BY <1>1, TextIs
      <4> HIDE DEF sub
      <4> QED BY <4>1, <3>2, <2>2, <1>2 DEF Stands
    <3>5. sub[1] # 91
      <4> HIDE DEF sub
      <4> QED BY <3>3 DEF Open
    <3> QED BY <3>1, <3>4, <3>5
  <2> HIDE DEF sub
  <2>5. st[k + 1] = State(sub, c, <<>>, Off, 0, <<>>, 1)
    <3>1. st[k + 1] = ParseCharacter(st[k], type)
      BY <2>2, <1>2, ChainStep
    <3>2. ParseCharacter(State(source, caller, es0, Off, 1, <<>>, o + 1), type)
            = ParseInternal(sub, c)
      BY <2>3, RoundNested DEF sub
    <3>3. ParseInternal(sub, c) = State(sub, c, <<>>, Off, 0, <<>>, 1)
      BY <2>4, InternalIs
    <3> QED BY <3>1, <3>2, <3>3, <1>2 DEF Frame
  <2>6. /\ Came(st, (k + 1) + 1, ((k + 1) + 1) + 2 * b, sub, c, pos, type, r)
        /\ pos \in Nat /\ pos <= Len(sub) /\ sub[pos] = Close
    <3> HIDE DEF c
    <3> QED BY ZenonT(30), <2>2, <2>4, <2>5, <1>2, ListRead DEF t, b
  <2>7. PICK j, es2, rec2 :
             /\ j \in Nat
             /\ (k + 1) + 1 <= j /\ j <= ((k + 1) + 1) + 2 * b
             /\ st[j] = Frame(sub, c, es2, rec2, pos)
             /\ Taken(es2, rec2, type) = r
    BY <2>6 DEF Came
  <2>8. /\ j + 1 \in Nat /\ j + 1 <= N /\ (j + 1) + 1 \in Nat /\ (j + 1) + 1 <= N
        /\ k < (j + 1) + 1 /\ (j + 1) + 1 <= k + 2 * (b + 2)
    BY <2>2, <2>7, <1>1, <1>2
  <2> DEFINE p == ((o + 1) + 1) + pos - 2
  <2>9. st[j + 1] = State(source, caller, Ext(es0, List(r)), Off, 1 + 1, <<>>, p)
    <3>1. st[j + 1] = ParseCharacter(st[j], type)
      BY <2>7, <2>8, <1>2, ChainStep
    <3>2. ParseCharacter(State(sub, c, es2, Off, 1, rec2, pos), type)
            = Return(State(sub, c, Taken(es2, rec2, type), Off, 0, <<>>, pos + 1))
      <4>1. ~ (1 > 1) /\ c # <<>>
        OBVIOUS
      <4> HIDE DEF c, pos
      <4> QED BY <4>1, <2>6, RoundReturn
    <3>3. Return(State(sub, c, r, Off, 0, <<>>, pos + 1))
            = State(source, caller, Ext(es0, List(r)), Off, 1 + 1, <<>>, p)
      <4> DEFINE p0 == (o + 1) + 1
                 q == pos + 1
                 d == 1
      <4>1. p0 \in Nat /\ pos \in Nat /\ q \in Nat
        BY <1>2, <2>6
      <4>2. Returns(c, State(source, caller, es0, Off, d, <<>>, p0))
        BY DEF Returns
      <4> HIDE DEF c, r, p0, q, d
      <4>3. Return(State(sub, c, r, Off, 0, <<>>, q))
              = State(source, caller, Ext(es0, List(r)), Off, d + 1, <<>>, p0 + q - 3)
        <5>1. Landed(sub, c, r, q, source, caller, es0, d, <<>>, p0)
          BY ReturnIs
        <5> QED BY <5>1, <4>1, <4>2 DEF Landed
      <4>4. d + 1 = 1 + 1 /\ p0 + q - 3 = p
        BY <4>1 DEF d, p0, q
      <4> QED BY <4>3, <4>4 DEF q
    <3> QED BY <3>1, <3>2, <3>3, <2>7 DEF Frame
  <2>10. p \in Nat /\ p = ((o + 1) + b) + 1 /\ p + 1 = o + Size(t) + 1
    BY <1>1, <1>2
  <2>11. p <= Len(source) /\ source[p] = Close
    <3>1. (o + 1) + b \in Nat
      BY <1>1, <1>2
    <3> QED BY <3>1, <2>1, <2>10, <1>2, OneStands DEF Size
  <2> HIDE DEF p
  <2>12. st[(j + 1) + 1] = Frame(source, caller, Ext(es0, List(r)), <<>>, p + 1)
    <3>1. st[(j + 1) + 1] = ParseCharacter(st[j + 1], type)
      BY <2>8, <1>2, ChainStep
    <3>2. ParseCharacter(State(source, caller, Ext(es0, List(r)), Off, 1 + 1, <<>>, p), type)
            = State(source, caller, Ext(es0, List(r)), Off, (1 + 1) - 1, <<>>, p + 1)
      <4>1. 1 + 1 > 1
        OBVIOUS
      <4> QED BY <4>1, <2>10, <2>11, RoundDeep
    <3>3. (1 + 1) - 1 = 1
      OBVIOUS
    <3> QED BY <3>1, <3>2, <3>3, <2>9 DEF Frame
  <2>13. Taken(Ext(es0, List(r)), <<>>, type) = Ext(es0, List(r))
    BY DEF Taken
  <2>14. st[(j + 1) + 1] = Frame(source, caller, Ext(es0, List(r)), <<>>, o + Size(t) + 1)
    BY <2>10, <2>12
  <2> QED BY <2>8, <2>13, <2>14, <1>1 DEF Reaches
<1> QED BY <1>1, <1>2 DEF Element, ReadAs, t

\* The rounds of a call of the parser, as ParseArray() defines them.
Rounds(st, text, type) ==
    /\ Chain(st, 2 * Len(text), type) /\ st[0] = ParseInternal(text, <<>>)
    /\ ParseArray(text, type) = List(st[2 * Len(text)].entries)

LEMMA Parsing ==
    ASSUME NEW text \in Text, NEW type
    PROVE  \E st : Rounds(st, text, type)
<1> DEFINE L == 2 * Len(text)
           base == ParseInternal(text, <<>>)
           f[n \in 0 .. L] == IF n = 0 THEN base ELSE ParseCharacter(f[n - 1], type)
           T == {m \in 0 .. L : \E g : g = [n \in 0 .. m |->
                              IF n = 0 THEN base ELSE ParseCharacter(g[n - 1], type)]}
<1>1. L \in Nat
  <2>1. Len(text) \in Nat
    BY LenProperties DEF Text
  <2> QED BY <2>1
<1>2. ParseArray(text, type) = List(f[L].entries)
  BY DEF ParseArray
<1> HIDE DEF L, base
<1>3. 0 \in T
  <2> DEFINE g == [n \in 0 .. 0 |-> base]
  <2>1. g = [n \in 0 .. 0 |-> IF n = 0 THEN base ELSE ParseCharacter(g[n - 1], type)]
    <3>1. \A n \in 0 .. 0 : n = 0
      OBVIOUS
    <3> QED BY <3>1
  <2> HIDE DEF g
  <2>2. 0 \in 0 .. L
    BY <1>1
  <2> QED BY <2>1, <2>2
<1>4. ASSUME NEW m \in 0 .. L, m \in T, m < L PROVE m + 1 \in T
  <2>1. PICK h : h = [n \in 0 .. m |->
                         IF n = 0 THEN base ELSE ParseCharacter(h[n - 1], type)]
    BY <1>4
  <2> DEFINE g == [n \in 0 .. (m + 1) |->
                     IF n = m + 1 THEN ParseCharacter(h[m], type) ELSE h[n]]
  <2>2. ASSUME NEW n \in 0 .. (m + 1)
        PROVE  g[n] = IF n = 0 THEN base ELSE ParseCharacter(g[n - 1], type)
    <3>1. CASE n = 0
      <4>1. 0 # m + 1 /\ 0 \in 0 .. m
        OBVIOUS
      <4>2. g[n] = h[0] /\ h[0] = base
        BY <3>1, <4>1, <2>1
      <4> QED BY <4>2, <3>1
    <3>2. CASE n # 0
      <4>1. n - 1 \in 0 .. m /\ n - 1 # m + 1 /\ n - 1 \in 0 .. (m + 1)
        BY <3>2
      <4>2. g[n - 1] = h[n - 1]
        BY <4>1
      <4>3. g[n] = ParseCharacter(h[n - 1], type)
        <5>1. CASE n = m + 1
          <6>1. n - 1 = m /\ g[n] = ParseCharacter(h[m], type)
            BY <5>1
          <6> QED BY <6>1
        <5>2. CASE n # m + 1
          <6>1. n \in 0 .. m /\ g[n] = h[n]
            BY <5>2
          <6>2. h[n] = ParseCharacter(h[n - 1], type)
            BY <6>1, <2>1, <3>2
          <6> QED BY <6>1, <6>2
        <5> QED BY <5>1, <5>2
      <4> HIDE DEF g
      <4> QED BY <4>2, <4>3, <3>2
    <3> QED BY <3>1, <3>2
  <2>3. g = [n \in 0 .. (m + 1) |-> g[n]]
    OBVIOUS
  <2> HIDE DEF g
  <2>4. g = [n \in 0 .. (m + 1) |->
               IF n = 0 THEN base ELSE ParseCharacter(g[n - 1], type)]
    BY <2>2, <2>3
  <2>5. m + 1 \in 0 .. L
    BY <1>1, <1>4
  <2> QED BY <2>4, <2>5
<1>5. L \in T
  <2>1. L \in 0 .. L
    BY <1>1
  <2> HIDE DEF T
  <2> QED BY <2>1, <1>1, <1>3, <1>4, Upward
<1>6. f = [n \in 0 .. L |-> IF n = 0 THEN base ELSE ParseCharacter(f[n - 1], type)]
  <2> HIDE DEF base
  <2> QED BY <1>5 DEF f
<1> HIDE DEF f
<1>7. f[0] = base
  BY <1>1, <1>6
<1>8. ASSUME NEW n \in 1 .. L PROVE f[n] = ParseCharacter(f[n - 1], type)
  <2>1. n \in 0 .. L /\ n # 0
    BY <1>1
  <2> QED BY <2>1, <1>6
<1>9. Chain(f, L, type)
  BY <1>1, <1>8 DEF Chain
<1> QED BY <1>2, <1>7, <1>9 DEF Rounds, L, base

\* The parser reads a whole array.
LEMMA TopList ==
    ASSUME NEW type, NEW texts, NEW es, Elements(type, texts, es)
    PROVE  ParseArray(ListText(texts), type) = List(Pre(es, Len(texts)))
<1> DEFINE b == Size(Join(texts))
           t == ListText(texts)
           r == Pre(es, Len(texts))
           N == 2 * Len(t)
           pos == b + 2
<1>1. /\ texts \in Seq(Text) /\ b \in Nat /\ t \in Text /\ Size(t) = b + 2
  BY ListIs DEF Elements
<1>2. Stands(t, 0, t) /\ Len(t) \in Nat /\ Len(t) = b + 2
  <2> HIDE DEF t
  <2>1. Len(t) = Size(t)
    BY DEF Size
  <2> QED BY <2>1, <1>1, StandsWhole DEF Text
<1>3. PICK st : Rounds(st, t, type)
  BY <1>1, Parsing
<1>4. t[1] # 91
  <2>1. Stands(t, 0, One(Open))
    <3>1. 0 \in Nat
      OBVIOUS
    <3> QED BY <3>1, <1>1, <1>2, ListIs
  <2>2. t[0 + 1] = Open
    <3> HIDE DEF t
    <3>1. 0 \in Nat
      OBVIOUS
    <3> QED BY <3>1, <2>1, <1>1, OneStands
  <2> HIDE DEF t
  <2> QED BY <2>2 DEF Open
<1> HIDE DEF b, t
<1>5. Chain(st, N, type) /\ N \in Nat /\ N = 2 * b + 4
  BY <1>1, <1>2, <1>3 DEF Rounds
<1>6. st[0] = State(t, <<>>, <<>>, Off, 0, <<>>, 1)
  BY <1>3, <1>4, InternalIs DEF Rounds
<1>7. /\ Came(st, 0 + 1, (0 + 1) + 2 * b, t, <<>>, pos, type, r)
      /\ pos \in Nat /\ pos <= Len(t) /\ t[pos] = Close
  <2>1. 0 \in Nat /\ 0 + 2 * b + 2 <= N
    BY <1>1, <1>5
  <2> HIDE DEF N
  <2>2. Stands(t, 0, ListText(texts)) /\ t \in Text
    BY <1>1, <1>2 DEF t
  <2> QED BY <2>1, <2>2, <1>5, <1>6, ListRead DEF b
<1>8. PICK j, es2, rec2 :
           /\ j \in Nat
           /\ 0 + 1 <= j /\ j <= (0 + 1) + 2 * b
           /\ st[j] = Frame(t, <<>>, es2, rec2, pos)
           /\ Taken(es2, rec2, type) = r
  BY <1>7 DEF Came
<1> DEFINE last == State(t, <<>>, r, Off, 0, <<>>, pos + 1)
<1>9. j + 1 \in Nat /\ j + 1 <= N
  BY <1>1, <1>5, <1>8
<1>10. st[j + 1] = last
  <2>1. st[j + 1] = ParseCharacter(st[j], type)
    BY <1>5, <1>8, <1>9, ChainStep
  <2>2. ParseCharacter(State(t, <<>>, es2, Off, 1, rec2, pos), type)
          = State(t, <<>>, Taken(es2, rec2, type), Off, 0, <<>>, pos + 1)
    <3>1. ~ (1 > 1)
      OBVIOUS
    <3> HIDE DEF pos
    <3> QED BY <3>1, <1>7, RoundClose
  <2> QED BY <2>1, <2>2, <1>8 DEF Frame
<1>11. ParseCharacter(last, type) = last
  <2>1. pos + 1 > Len(t)
    BY <1>1, <1>2
  <2> HIDE DEF pos
  <2> QED BY <2>1, RoundOver
<1> HIDE DEF last, N
<1>12. \A n \in 0 .. N : n \in {m \in 0 .. N : m >= j + 1 => st[m] = last}
  <2> DEFINE T == {m \in 0 .. N : m >= j + 1 => st[m] = last}
  <2>1. 0 \in T
    BY <1>5, <1>8
  <2>2. ASSUME NEW n \in 0 .. N, n \in T, n < N PROVE n + 1 \in T
    <3>1. n \in Nat /\ n + 1 <= N /\ n + 1 \in 0 .. N
      BY <2>2, <1>5
    <3>2. st[n + 1] = ParseCharacter(st[n], type)
      BY <3>1, <1>5, ChainStep
    <3>3. CASE n >= j + 1
      BY <3>1, <3>2, <3>3, <2>2, <1>11
    <3>4. CASE n + 1 = j + 1
      BY <3>1, <3>4, <1>10
    <3>5. CASE n + 1 < j + 1
      BY <3>1, <3>5, <1>9
    <3> QED BY <3>1, <3>3, <3>4, <3>5, <1>8
  <2> HIDE DEF T
  <2>3. \A n \in 0 .. N : n \in T
    BY <2>1, <2>2, <1>5, Upward
  <2> QED BY <2>3 DEF T
<1>13. st[N] = last
  <2>1. N \in 0 .. N /\ N >= j + 1
    BY <1>5, <1>9
  <2> QED BY <2>1, <1>12
<1>14. last.entries = r
  BY DEF last, State
<1>15. ParseArray(t, type) = List(st[N].entries)
  BY <1>3 DEF Rounds, N
<1> QED BY <1>13, <1>14, <1>15 DEF t

-----------------------------------------------------------------------------
(* The objects, and those they consist of.                                 *)

Formed == heap \in [Objects -> Content]
Member == Given \cup {Nothing}

LEMMA GivenIs ==
    ASSUME NEW m \in Member
    PROVE  /\ m.kind \in {"null", "text", "number", "bool", "ref"}
           /\ m.kind = "null" => m = Nothing
           /\ m.kind # "null" => m \in Given
           /\ m.kind = "text" => m.text \in Text
           /\ m.kind = "number" => m.number \in Nat
           /\ m.kind = "bool" => m.bool \in BOOLEAN
           /\ m.kind = "ref" => m.to \in Objects
<1>1. CASE m = Nothing
  BY <1>1 DEF Nothing
<1>2. CASE m \in [kind : {"text"}, text : Text]
  BY <1>2 DEF Member, Given
<1>3. CASE m \in [kind : {"number"}, number : Nat]
  BY <1>3 DEF Member, Given
<1>4. CASE m \in [kind : {"bool"}, bool : BOOLEAN]
  BY <1>4 DEF Member, Given
<1>5. CASE m \in [kind : {"ref"}, to : Objects]
  BY <1>5 DEF Member, Given
<1> QED BY <1>1, <1>2, <1>3, <1>4, <1>5 DEF Member, Given

MemberSeqs == Seq(Member)
ByteSeqs == Seq(0 .. 255)
Circles == Nat \X Nat \X Nat
Bare0(h) == h.empty => h.lower = <<>> /\ h.upper = <<>> /\ h.closed = <<FALSE, FALSE>>
Shape(h) ==
    \/ h.kind = "array" /\ h.members \in MemberSeqs
    \/ h.kind = "range" /\ h \in RangeContent /\ Bare0(h)
    \/ h.kind = "bytes" /\ h.bytes \in ByteSeqs
    \/ h.kind = "date" /\ h.year \in Years
    \/ h.kind = "circle" /\ h.circle \in Circles
    \/ h.kind = "json" /\ h.n \in Nat

LEMMA ContentIs ==
    ASSUME NEW h \in Content
    PROVE  Shape(h)
<1>1. CASE h \in [kind : {"array"}, members : Seq(Given \cup {Nothing})]
  <2>1. h \in [kind : {"array"}, members : MemberSeqs]
    BY <1>1, Zenon DEF MemberSeqs, Member
  <2>2. h.kind = "array" /\ h.members \in MemberSeqs
    BY <2>1
  <2> QED BY <2>2, Zenon DEF Shape
<1>2. CASE h \in {r \in RangeContent : r.empty =>
            r.lower = <<>> /\ r.upper = <<>> /\ r.closed = <<FALSE, FALSE>>}
  <2>1. h \in RangeContent /\ Bare0(h)
    BY <1>2, Zenon DEF Bare0
  <2>2. h.kind = "range"
    <3> DEFINE B == Bound
               C == BOOLEAN \X BOOLEAN
    <3>1. h \in [kind : {"range"}, empty : BOOLEAN, lower : B, upper : B, closed : C]
      BY <2>1, Zenon DEF RangeContent
    <3> HIDE DEF B, C
    <3> QED BY <3>1
  <2> QED BY <2>1, <2>2, Zenon DEF Shape
<1>3. CASE h \in [kind : {"bytes"}, bytes : Seq(0 .. 255)]
  <2>1. h \in [kind : {"bytes"}, bytes : ByteSeqs]
    BY <1>3, Zenon DEF ByteSeqs
  <2>2. h.kind = "bytes" /\ h.bytes \in ByteSeqs
    BY <2>1
  <2> QED BY <2>2, Zenon DEF Shape
<1>4. CASE h \in [kind : {"date"}, year : Years]
  <2>1. h.kind = "date" /\ h.year \in Years
    BY <1>4
  <2> QED BY <2>1, Zenon DEF Shape
<1>5. CASE h \in [kind : {"circle"}, circle : Nat \X Nat \X Nat]
  <2>1. h \in [kind : {"circle"}, circle : Circles]
    BY <1>5, Zenon DEF Circles
  <2>2. h.kind = "circle" /\ h.circle \in Circles
    BY <2>1
  <2> QED BY <2>2, Zenon DEF Shape
<1>6. CASE h \in [kind : {"json"}, n : Nat]
  <2>1. h.kind = "json" /\ h.n \in Nat
    BY <1>6
  <2> QED BY <2>1, Zenon DEF Shape
<1> QED BY <1>1, <1>2, <1>3, <1>4, <1>5, <1>6, Zenon DEF Content

LEMMA RangeIs ==
    ASSUME NEW h \in RangeContent
    PROVE  /\ h.kind = "range" /\ h.empty \in BOOLEAN
           /\ h.lower \in Seq(Given) /\ Len(h.lower) \in {0, 1}
           /\ h.upper \in Seq(Given) /\ Len(h.upper) \in {0, 1}
           /\ h.closed \in BOOLEAN \X BOOLEAN
<1> DEFINE B == Bound
           C == BOOLEAN \X BOOLEAN
<1> HIDE DEF B, C
<1>1. h \in [kind : {"range"}, empty : BOOLEAN, lower : B, upper : B, closed : C]
  BY Zenon DEF RangeContent, B, C
<1>2. h.kind = "range" /\ h.empty \in BOOLEAN /\ h.lower \in B /\ h.upper \in B /\ h.closed \in C
  BY <1>1
<1>3. ASSUME NEW b \in B PROVE b \in Seq(Given) /\ Len(b) \in {0, 1}
  <2> DEFINE G == Given
  <2> HIDE DEF G
  <2>1. b \in Seq(G) /\ Len(b) <= 1
    BY Zenon DEF B, Bound, G
  <2>2. Len(b) \in Nat
    BY <2>1, LenProperties
  <2>3. b \in Seq(Given)
    BY <2>1, Zenon DEF G
  <2> DEFINE n == Len(b)
  <2>4. n \in Nat /\ n <= 1
    BY <2>1, <2>2, Zenon
  <2> HIDE DEF n
  <2>5. n \in {0, 1}
    BY <2>4
  <2> QED BY <2>3, <2>5 DEF n
<1> QED BY <1>2, <1>3 DEF C

LEMMA HeapIs ==
    ASSUME Formed, NEW o \in Objects
    PROVE  heap[o] \in Content
BY DEF Formed

\* What an array and a range consist of are values, and refer to objects.
LEMMA MembersIs ==
    ASSUME Formed, NEW o \in Objects
    PROVE  /\ Members(o) \in Seq(Member)
           /\ heap[o].kind = "array" => Members(o) = heap[o].members
           /\ heap[o].kind = "range" => Members(o) = heap[o].lower \o heap[o].upper
<1>1. heap[o] \in Content
  BY HeapIs
<1>2. CASE heap[o].kind = "array"
  <2>1. Members(o) = heap[o].members
    BY <1>2 DEF Members
  <2>2. Shape(heap[o])
    BY <1>1, ContentIs
  <2>3. heap[o].members \in MemberSeqs
    BY <2>2, <1>2 DEF Shape
  <2> QED BY <2>1, <2>3, <1>2 DEF MemberSeqs
<1>3. CASE heap[o].kind = "range"
  <2> DEFINE l == heap[o].lower
             u == heap[o].upper
             G == Given
             M == Member
  <2>1. Members(o) = l \o u
    BY <1>3 DEF Members
  <2>2. l \in Seq(G) /\ u \in Seq(G)
    <3>1. Shape(heap[o])
      BY <1>1, ContentIs
    <3>2. heap[o] \in RangeContent
      BY <3>1, <1>3 DEF Shape
    <3> QED BY <3>2, RangeIs, Zenon
  <2>3. G \subseteq M
    BY DEF Member
  <2> HIDE DEF l, u, G, M
  <2>4. l \o u \in Seq(M)
    BY <2>2, <2>3
  <2> QED BY <2>1, <2>4, <1>3 DEF M, l, u
<1>4. CASE heap[o].kind \notin {"array", "range"}
  <2>1. Members(o) = <<>>
    BY <1>4 DEF Members
  <2> DEFINE M == Member
  <2> HIDE DEF M
  <2>2. <<>> \in Seq(M)
    OBVIOUS
  <2>3. Members(o) \in Seq(Member)
    BY <2>1, <2>2, Zenon DEF M
  <2> QED BY <2>3, <1>4
<1> QED BY <1>2, <1>3, <1>4

LEMMA RefsIs ==
    ASSUME Formed, NEW o \in Objects
    PROVE  /\ Refs(o) \subseteq Objects
           /\ \A m \in Range(Members(o)) : m.kind = "ref" => m.to \in Refs(o)
           /\ \A p \in Refs(o) : \E m \in Range(Members(o)) : m.kind = "ref" /\ m.to = p
<1>1. \A m \in Range(Members(o)) : m \in Member
  <2> DEFINE s == Members(o)
             M == Member
  <2>1. s \in Seq(M)
    BY MembersIs
  <2> HIDE DEF s, M
  <2>2. \A m \in Range(s) : m \in M
    BY <2>1 DEF Range
  <2> QED BY <2>2 DEF s, M
<1>2. Refs(o) \subseteq Objects
  BY <1>1, GivenIs DEF Refs
<1> QED BY <1>2 DEF Refs

LEMMA ReachIs ==
    ASSUME NEW S \in SUBSET Objects
    PROVE  Reach(S) \subseteq Objects /\ S \subseteq Reach(S)
BY DEF Reach

LEMMA ReachClosed ==
    ASSUME Formed, NEW S \in SUBSET Objects, NEW p \in Reach(S), NEW q \in Refs(p)
    PROVE  q \in Reach(S)
<1>1. p \in Objects
  BY ReachIs
<1>2. q \in Objects
  BY <1>1, RefsIs
<1> QED BY <1>2 DEF Reach

\* Reach() is the least set closed under references.
LEMMA ReachLeast ==
    ASSUME NEW S, NEW C \in SUBSET Objects, S \subseteq C, \A q \in C : Refs(q) \subseteq C
    PROVE  Reach(S) \subseteq C
BY DEF Reach

LEMMA ReachWithin ==
    ASSUME Formed, NEW S \in SUBSET Objects, NEW T \in SUBSET Objects, T \subseteq Reach(S)
    PROVE  Reach(T) \subseteq Reach(S)
<1>1. Reach(S) \in SUBSET Objects
  BY ReachIs
<1>2. \A q \in Reach(S) : Refs(q) \subseteq Reach(S)
  BY ReachClosed
<1> QED BY <1>1, <1>2, ReachLeast

\* What an object reaches: itself, and what its parts reach.
LEMMA ReachStep ==
    ASSUME Formed, NEW o \in Objects
    PROVE  /\ o \in Reach({o}) /\ Reach({o}) \subseteq Objects
           /\ Refs(o) \in SUBSET Objects /\ Refs(o) \subseteq Reach({o})
           /\ Reach(Refs(o)) \subseteq Reach({o}) /\ Reach(Refs(o)) \subseteq Objects
           /\ \A p \in Reach({o}) : p = o \/ p \in Reach(Refs(o))
           /\ \A q \in Refs(o) : Reach({q}) \subseteq Reach(Refs(o))
           /\ \A p \in Reach(Refs(o)) : \E q \in Refs(o) : p \in Reach({q})
<1>1. o \in Reach({o}) /\ Reach({o}) \subseteq Objects /\ {o} \in SUBSET Objects
  BY ReachIs
<1>2. Refs(o) \in SUBSET Objects
  BY RefsIs
<1>3. Refs(o) \subseteq Reach({o})
  BY <1>1, ReachClosed
<1>4. Reach(Refs(o)) \subseteq Reach({o}) /\ Reach(Refs(o)) \subseteq Objects
  BY <1>1, <1>2, <1>3, ReachWithin
<1>5. Refs(o) \subseteq Reach(Refs(o))
  BY <1>2, ReachIs
<1>6. ASSUME NEW p \in Reach({o}) PROVE p = o \/ p \in Reach(Refs(o))
  <2> DEFINE C == {o} \cup Reach(Refs(o))
  <2>1. C \in SUBSET Objects /\ {o} \subseteq C
    BY <1>4
  <2>2. ASSUME NEW q \in C PROVE Refs(q) \subseteq C
    <3>1. CASE q = o
      BY <3>1, <1>5
    <3>2. CASE q \in Reach(Refs(o))
      BY <3>2, <1>2, ReachClosed
    <3> QED BY <3>1, <3>2
  <2> HIDE DEF C
  <2>3. Reach({o}) \subseteq C
    BY <2>1, <2>2, ReachLeast
  <2> QED BY <2>3 DEF C
<1>7. ASSUME NEW q \in Refs(o) PROVE Reach({q}) \subseteq Reach(Refs(o))
  <2>1. {q} \in SUBSET Objects /\ {q} \subseteq Reach(Refs(o))
    BY <1>2, <1>5
  <2> QED BY <2>1, <1>2, ReachWithin
<1>8. ASSUME NEW p \in Reach(Refs(o)) PROVE \E q \in Refs(o) : p \in Reach({q})
  <2> DEFINE C == {r \in Objects : \E q \in Refs(o) : r \in Reach({q})}
  <2>1. C \in SUBSET Objects
    OBVIOUS
  <2>2. Refs(o) \subseteq C
    <3>1. ASSUME NEW q \in Refs(o) PROVE q \in Reach({q})
      <4>1. {q} \in SUBSET Objects
        BY <1>2
      <4> QED BY <4>1, ReachIs
    <3> QED BY <3>1, <1>2
  <2>3. ASSUME NEW r \in C PROVE Refs(r) \subseteq C
    <3>1. PICK q \in Refs(o) : r \in Reach({q})
      OBVIOUS
    <3>2. {q} \in SUBSET Objects
      BY <1>2
    <3>3. Refs(r) \subseteq Reach({q})
      BY <3>1, <3>2, ReachClosed
    <3>4. Reach({q}) \subseteq Objects
      BY <3>2, ReachIs
    <3> QED BY <3>3, <3>4
  <2> HIDE DEF C
  <2>4. Reach(Refs(o)) \subseteq C
    BY <2>1, <2>2, <2>3, ReachLeast
  <2> QED BY <2>4 DEF C
<1> QED BY <1>1, <1>2, <1>3, <1>4, <1>6, <1>7, <1>8

LEMMA ReachFrom ==
    ASSUME Formed, NEW o \in Objects, NEW p \in Reach({o})
    PROVE  p \in Objects /\ Reach({p}) \subseteq Reach({o})
<1>1. {o} \in SUBSET Objects /\ p \in Objects
  BY ReachStep
<1> QED BY <1>1, ReachWithin

\* The parts of an object that does not contain itself.
LEMMA CyclicFrom ==
    ASSUME Formed, NEW o \in Objects, NEW p \in Reach({o}), Cyclic(p)
    PROVE  Cyclic(o)
<1>1. Reach({p}) \subseteq Reach({o})
  BY ReachFrom
<1> QED BY <1>1 DEF Cyclic

\* An object with a cycle refers to one with a cycle.
LEMMA CyclicOnly ==
    ASSUME Formed, NEW o \in Objects, Cyclic(o)
    PROVE  \E q \in Refs(o) : Cyclic(q)
<1>1. PICK p \in Reach({o}) : p \in Reach(Refs(p))
  BY DEF Cyclic
<1>2. \E q \in Refs(o) : p \in Reach({q})
  <2>1. p \in Reach(Refs(o))
    BY <1>1, ReachStep
  <2> QED BY <2>1, ReachStep
<1>3. PICK q \in Refs(o) : p \in Reach({q})
  BY <1>2
<1> QED BY <1>1, <1>3 DEF Cyclic

Rank(o) == Cardinality(Reach({o}))

LEMMA RankIs ==
    ASSUME Formed, NEW o \in Objects
    PROVE  /\ Cardinality(Objects) \in Nat
           /\ Rank(o) \in 1 .. Cardinality(Objects)
           /\ \A q \in Refs(o) : q \in Objects /\ Rank(q) \in 1 .. Cardinality(Objects)
<1>1. IsFiniteSet(Objects) /\ Cardinality(Objects) \in Nat
  BY ContentsAssumption, FS_CardinalityType
<1>2. ASSUME NEW p \in Objects PROVE Rank(p) \in 1 .. Cardinality(Objects)
  <2>1. Reach({p}) \subseteq Objects /\ Reach({p}) # {}
    BY ReachStep
  <2>2. /\ IsFiniteSet(Reach({p})) /\ Cardinality(Reach({p})) \in Nat
        /\ Cardinality(Reach({p})) <= Cardinality(Objects)
    BY <2>1, <1>1, FS_Subset, FS_CardinalityType
  <2>3. Cardinality(Reach({p})) # 0
    BY <2>1, <2>2, FS_EmptySet
  <2> QED BY <2>2, <2>3, <1>1 DEF Rank
<1>3. Refs(o) \subseteq Objects
  BY RefsIs
<1> QED BY <1>1, <1>2, <1>3

\* The parts of an object without cycles have fewer parts than it has.
LEMMA RankLess ==
    ASSUME Formed, NEW o \in Objects, ~ Cyclic(o), NEW q \in Refs(o)
    PROVE  ~ Cyclic(q) /\ Rank(q) < Rank(o)
<1>1. q \in Reach({o}) /\ o \in Reach({o}) /\ Reach({o}) \subseteq Objects
  BY ReachStep
<1>2. Reach({q}) \subseteq Reach({o}) /\ Reach({q}) \subseteq Reach(Refs(o))
  BY <1>1, ReachFrom, ReachStep
<1>3. o \notin Reach({q})
  BY <1>1, <1>2 DEF Cyclic
<1>4. IsFiniteSet(Reach({o}))
  BY <1>1, ContentsAssumption, FS_Subset
<1>5. Cardinality(Reach({q})) < Cardinality(Reach({o}))
  <2>1. Reach({q}) # Reach({o})
    BY <1>1, <1>3
  <2> DEFINE A == Reach({q})
             B == Reach({o})
  <2>2. A \subseteq B /\ A # B /\ IsFiniteSet(B)
    BY <2>1, <1>2, <1>4
  <2> HIDE DEF A, B
  <2>3. Cardinality(A) < Cardinality(B)
    BY <2>2, FS_Subset, FS_CardinalityType
  <2> QED BY <2>3 DEF A, B
<1> QED BY <1>1, <1>5, CyclicFrom DEF Rank

-----------------------------------------------------------------------------
(* What an object is.                                                      *)

\* The members of a range are those of its bounds.
LEMMA BoundMembers ==
    ASSUME Formed, NEW p \in Objects, heap[p].kind = "range"
    PROVE  /\ heap[p].lower \in Seq(Given) /\ heap[p].upper \in Seq(Given)
           /\ \A i \in DOMAIN heap[p].lower : heap[p].lower[i] \in Range(Members(p))
           /\ \A i \in DOMAIN heap[p].upper : heap[p].upper[i] \in Range(Members(p))
<1> DEFINE l == heap[p].lower
           u == heap[p].upper
           G == Given
<1>1. Members(p) = l \o u
  BY MembersIs
<1>2. l \in Seq(G) /\ u \in Seq(G)
  <2>1. Shape(heap[p])
    BY HeapIs, ContentIs
  <2>2. heap[p] \in RangeContent
    BY <2>1 DEF Shape
  <2> QED BY <2>2, RangeIs, Zenon
<1> HIDE DEF l, u, G
<1>3. /\ Len(l) \in Nat /\ Len(u) \in Nat /\ DOMAIN l = 1 .. Len(l) /\ DOMAIN u = 1 .. Len(u)
  BY <1>2, LenProperties
<1>4. DOMAIN (l \o u) = 1 .. (Len(l) + Len(u))
  BY <1>2
<1>5. ASSUME NEW i \in DOMAIN l PROVE l[i] \in Range(l \o u)
  <2>1. i \in DOMAIN (l \o u) /\ (l \o u)[i] = l[i]
    BY <1>2, <1>3, <1>4
  <2> QED BY <2>1 DEF Range
<1>6. ASSUME NEW i \in DOMAIN u PROVE u[i] \in Range(l \o u)
  <2>1. Len(l) + i \in DOMAIN (l \o u) /\ (l \o u)[Len(l) + i] = u[i]
    BY <1>2, <1>3, <1>4
  <2> QED BY <2>1 DEF Range
<1>7. (\A i \in DOMAIN l : l[i] \in Range(Members(p)))
      /\ (\A i \in DOMAIN u : u[i] \in Range(Members(p)))
  BY <1>1, <1>5, <1>6, Zenon
<1>8. l \in Seq(Given) /\ u \in Seq(Given)
  BY <1>2, Zenon DEF G
<1> QED BY <1>7, <1>8, Zenon DEF l, u

Value(bound, of) == [i \in DOMAIN bound |-> MemberMeaning(bound[i], of).value]

LEMMA MeaningIs ==
    ASSUME NEW p, NEW of
    PROVE  /\ heap[p].kind = "bytes" => Meaning(p, of) = Leaf(heap[p].bytes)
           /\ heap[p].kind = "date" => Meaning(p, of) = Leaf(heap[p].year)
           /\ heap[p].kind = "circle" => Meaning(p, of) = Leaf(heap[p].circle)
           /\ heap[p].kind = "json" => Meaning(p, of) = Leaf(heap[p].n)
           /\ heap[p].kind = "range" =>
                Meaning(p, of) = Leaf([empty |-> heap[p].empty,
                    lower |-> Value(heap[p].lower, of), upper |-> Value(heap[p].upper, of),
                    closed |-> heap[p].closed])
           /\ heap[p].kind = "array" =>
                Meaning(p, of) = List([i \in DOMAIN heap[p].members |->
                                          MemberMeaning(heap[p].members[i], of)])
<1>1. CASE heap[p].kind = "bytes"
  BY <1>1 DEF Meaning
<1>2. CASE heap[p].kind = "date"
  BY <1>2 DEF Meaning
<1>3. CASE heap[p].kind = "circle"
  BY <1>3 DEF Meaning
<1>4. CASE heap[p].kind = "json"
  BY <1>4 DEF Meaning
<1>5. CASE heap[p].kind = "range"
  BY <1>5 DEF Meaning, Value
<1>6. CASE heap[p].kind = "array"
  BY <1>6 DEF Meaning
<1>7. CASE heap[p].kind \notin {"bytes", "date", "circle", "json", "range", "array"}
  BY <1>7
<1> QED BY <1>1, <1>2, <1>3, <1>4, <1>5, <1>6, <1>7

\* What an object means depends on its members only.
LEMMA MeaningSame ==
    ASSUME Formed, NEW p \in Objects, NEW f, NEW g, \A q \in Refs(p) : f[q] = g[q]
    PROVE  Meaning(p, f) = Meaning(p, g)
<1>1. ASSUME NEW m \in Range(Members(p))
      PROVE  MemberMeaning(m, f) = MemberMeaning(m, g)
  <2>1. m.kind = "ref" => f[m.to] = g[m.to]
    BY RefsIs
  <2>2. CASE m.kind = "ref"
    BY <2>1, <2>2 DEF MemberMeaning
  <2>3. CASE m.kind # "ref"
    BY <2>3 DEF MemberMeaning
  <2> QED BY <2>2, <2>3
<1> DEFINE h == heap[p]
<1>2. CASE h.kind = "array"
  <2> DEFINE s == h.members
  <2>1. \A i \in DOMAIN s : s[i] \in Range(Members(p))
    BY <1>2, MembersIs DEF Range
  <2> HIDE DEF s
  <2>2. [i \in DOMAIN s |-> MemberMeaning(s[i], f)] = [i \in DOMAIN s |-> MemberMeaning(s[i], g)]
    BY <1>1, <2>1
  <2>3. /\ Meaning(p, f) = List([i \in DOMAIN s |-> MemberMeaning(s[i], f)])
        /\ Meaning(p, g) = List([i \in DOMAIN s |-> MemberMeaning(s[i], g)])
    BY <1>2, MeaningIs, Zenon DEF s
  <2> QED BY <2>2, <2>3, Zenon
<1>3. CASE h.kind = "range"
  <2> DEFINE l == h.lower
             u == h.upper
  <2>1. /\ \A i \in DOMAIN l : l[i] \in Range(Members(p))
        /\ \A i \in DOMAIN u : u[i] \in Range(Members(p))
    BY <1>3, BoundMembers
  <2> HIDE DEF l, u
  <2>2. Value(l, f) = Value(l, g) /\ Value(u, f) = Value(u, g)
    BY <1>1, <2>1 DEF Value
  <2>3. /\ Meaning(p, f) = Leaf([empty |-> h.empty, lower |-> Value(l, f),
                                 upper |-> Value(u, f), closed |-> h.closed])
        /\ Meaning(p, g) = Leaf([empty |-> h.empty, lower |-> Value(l, g),
                                 upper |-> Value(u, g), closed |-> h.closed])
    BY <1>3, MeaningIs, Zenon DEF l, u
  <2> QED BY <2>2, <2>3, Zenon
<1>4. CASE h.kind \notin {"array", "range"}
  <2>1. Shape(h)
    BY HeapIs, ContentIs
  <2>2. h.kind \in {"bytes", "date", "circle", "json"}
    BY <1>4, <2>1 DEF Shape
  <2> QED BY ZenonT(30), <2>2, MeaningIs
<1> QED BY <1>2, <1>3, <1>4

\* What is known of the objects, by the depth they are looked into.
Knows(K) ==
    /\ \A o : Denotes(o) = K[Cardinality(Objects)][o]
    /\ \A n \in 1 .. Cardinality(Objects), p \in Objects : K[n][p] = Meaning(p, K[n - 1])

LEMMA MeaningsKnown ==
    ASSUME Cardinality(Objects) \in Nat
    PROVE  \E K : Knows(K)
<1> DEFINE N == Cardinality(Objects)
           base == [p \in Objects |-> Nothing]
           f[n \in 0 .. N] ==
               [p \in Objects |-> IF n = 0 THEN Nothing ELSE Meaning(p, f[n - 1])]
           T == {m \in 0 .. N : \E g : g = [n \in 0 .. m |->
               [p \in Objects |-> IF n = 0 THEN Nothing ELSE Meaning(p, g[n - 1])]]}
<1>1. ASSUME NEW o PROVE Denotes(o) = f[N][o]
  BY DEF Denotes
<1> HIDE DEF N
<1>2. N \in Nat
  BY DEF N
<1>3. 0 \in T
  <2> DEFINE g == [n \in 0 .. 0 |-> base]
  <2>1. g = [n \in 0 .. 0 |-> [p \in Objects |->
                IF n = 0 THEN Nothing ELSE Meaning(p, g[n - 1])]]
    <3>1. \A n \in 0 .. 0 : n = 0
      OBVIOUS
    <3> QED BY <3>1
  <2> HIDE DEF g
  <2>2. 0 \in 0 .. N
    BY <1>2
  <2> QED BY <2>1, <2>2
<1>4. ASSUME NEW m \in 0 .. N, m \in T, m < N PROVE m + 1 \in T
  <2>1. PICK h : h = [n \in 0 .. m |-> [p \in Objects |->
                         IF n = 0 THEN Nothing ELSE Meaning(p, h[n - 1])]]
    BY <1>4
  <2> DEFINE g == [n \in 0 .. (m + 1) |->
                     IF n = m + 1 THEN [p \in Objects |-> Meaning(p, h[m])] ELSE h[n]]
  <2>2. ASSUME NEW n \in 0 .. (m + 1)
        PROVE  g[n] = [p \in Objects |->
                         IF n = 0 THEN Nothing ELSE Meaning(p, g[n - 1])]
    <3>1. CASE n = 0
      <4>1. 0 # m + 1 /\ 0 \in 0 .. m
        OBVIOUS
      <4>2. g[n] = h[0] /\ h[0] = base
        BY <3>1, <4>1, <2>1
      <4> HIDE DEF g
      <4> QED BY <4>2, <3>1
    <3>2. CASE n # 0
      <4>1. n - 1 \in 0 .. m /\ n - 1 # m + 1 /\ n - 1 \in 0 .. (m + 1)
        BY <3>2
      <4>2. g[n - 1] = h[n - 1]
        BY <4>1
      <4>3. g[n] = [p \in Objects |-> Meaning(p, h[n - 1])]
        <5>1. CASE n = m + 1
          <6>1. n - 1 = m /\ g[n] = [p \in Objects |-> Meaning(p, h[m])]
            BY <5>1
          <6> HIDE DEF g
          <6> QED BY <6>1
        <5>2. CASE n # m + 1
          <6>1. n \in 0 .. m /\ g[n] = h[n]
            BY <5>2
          <6>2. h[n] = [p \in Objects |-> Meaning(p, h[n - 1])]
            BY <6>1, <2>1, <3>2
          <6> HIDE DEF g
          <6> QED BY <6>1, <6>2
        <5> QED BY <5>1, <5>2
      <4> HIDE DEF g
      <4> QED BY <4>2, <4>3, <3>2
    <3> QED BY <3>1, <3>2
  <2>3. g = [n \in 0 .. (m + 1) |-> g[n]]
    OBVIOUS
  <2> HIDE DEF g
  <2>4. g = [n \in 0 .. (m + 1) |-> [p \in Objects |->
               IF n = 0 THEN Nothing ELSE Meaning(p, g[n - 1])]]
    BY <2>2, <2>3
  <2>5. m + 1 \in 0 .. N
    BY <1>2, <1>4
  <2> QED BY <2>4, <2>5
<1>5. N \in T
  <2>1. N \in 0 .. N
    BY <1>2
  <2> HIDE DEF T
  <2> QED BY <2>1, <1>2, <1>3, <1>4, Upward
<1>6. f = [n \in 0 .. N |-> [p \in Objects |->
              IF n = 0 THEN Nothing ELSE Meaning(p, f[n - 1])]]
  BY <1>5 DEF f
<1> HIDE DEF f
<1>7. ASSUME NEW n \in 1 .. N, NEW p \in Objects PROVE f[n][p] = Meaning(p, f[n - 1])
  <2>1. n \in 0 .. N /\ n # 0
    BY <1>2
  <2>2. f[n] = [q \in Objects |-> IF n = 0 THEN Nothing ELSE Meaning(q, f[n - 1])]
    <3> DEFINE g == f
    <3>1. g = [k \in 0 .. N |-> [q \in Objects |->
                  IF k = 0 THEN Nothing ELSE Meaning(q, f[k - 1])]]
      BY <1>6
    <3> HIDE DEF g
    <3>2. g[n] = [q \in Objects |-> IF n = 0 THEN Nothing ELSE Meaning(q, f[n - 1])]
      BY <2>1, <3>1
    <3> QED BY <3>2 DEF g
  <2> QED BY <2>1, <2>2
<1> QED BY <1>1, <1>7 DEF Knows, N

\* No object that does not contain itself has to be looked into deeper than it goes.
LEMMA DenotesIs ==
    ASSUME Formed, NEW o \in Objects, ~ Cyclic(o)
    PROVE  Denotes(o) = Meaning(o, [q \in Objects |-> Denotes(q)])
<1> DEFINE N == Cardinality(Objects)
<1>1. N \in Nat /\ \A p \in Objects : Rank(p) \in 1 .. N
  BY RankIs
<1>2. PICK K : Knows(K)
  BY <1>1, MeaningsKnown
<1> HIDE DEF N
<1>3. ASSUME NEW n \in 1 .. N, NEW p \in Objects PROVE K[n][p] = Meaning(p, K[n - 1])
  BY <1>2 DEF Knows, N
<1> DEFINE T == {r \in 0 .. N : \A p \in Objects : ~ Cyclic(p) /\ Rank(p) = r =>
                    \A n \in r .. N : K[n][p] = K[N][p]}
<1>4. ASSUME NEW r \in 0 .. N, \A m \in 0 .. N : m < r => m \in T PROVE r \in T
  <2>1. ASSUME NEW p \in Objects, ~ Cyclic(p), Rank(p) = r, NEW n \in r .. N
        PROVE  K[n][p] = K[N][p]
    <3>1. r \in 1 .. N /\ n \in 1 .. N /\ N \in 1 .. N
      BY <1>1, <2>1
    <3>2. ASSUME NEW q \in Refs(p) PROVE K[n - 1][q] = K[N - 1][q]
      <4>1. q \in Objects /\ ~ Cyclic(q) /\ Rank(q) < r
        BY <2>1, RankIs, RankLess
      <4>2. Rank(q) \in 0 .. N /\ n - 1 \in Rank(q) .. N /\ N - 1 \in Rank(q) .. N
        BY <4>1, <3>1, <1>1
      <4>3. Rank(q) \in T
        BY <4>1, <4>2, <1>4
      <4> QED BY <4>1, <4>2, <4>3
    <3> HIDE DEF T
    <3>3. Meaning(p, K[n - 1]) = Meaning(p, K[N - 1])
      <4> DEFINE f == K[n - 1]
                 g == K[N - 1]
      <4>1. \A q \in Refs(p) : f[q] = g[q]
        BY <3>2
      <4> HIDE DEF f, g
      <4>2. Meaning(p, f) = Meaning(p, g)
        BY <4>1, MeaningSame
      <4> QED BY <4>2 DEF f, g
    <3> QED BY <3>1, <3>3, <1>3
  <2> QED BY <2>1
<1>5. \A r \in 0 .. N : r \in T
  <2> HIDE DEF T
  <2> QED BY <1>1, <1>4, Strong
<1>6. ASSUME NEW q \in Refs(o) PROVE K[N - 1][q] = Denotes(q) /\ q \in Objects
  <2>1. q \in Objects /\ ~ Cyclic(q) /\ Rank(q) < Rank(o)
    BY RankIs, RankLess
  <2>2. Rank(q) \in 0 .. N /\ N - 1 \in Rank(q) .. N
    BY <2>1, <1>1
  <2>3. K[N - 1][q] = K[N][q]
    BY <2>1, <2>2, <1>5
  <2> QED BY <2>1, <2>3, <1>2 DEF Knows, N
<1>7. Denotes(o) = Meaning(o, K[N - 1])
  <2>1. N \in 1 .. N
    BY <1>1
  <2> QED BY <2>1, <1>3, <1>2 DEF Knows, N
<1>8. Meaning(o, K[N - 1]) = Meaning(o, [q \in Objects |-> Denotes(q)])
  <2> DEFINE f == K[N - 1]
             g == [q \in Objects |-> Denotes(q)]
  <2>1. \A q \in Refs(o) : f[q] = g[q]
    BY <1>6
  <2> HIDE DEF f, g
  <2>2. Meaning(o, f) = Meaning(o, g)
    BY <2>1, MeaningSame
  <2> QED BY <2>2 DEF f, g
<1> QED BY <1>7, <1>8

-----------------------------------------------------------------------------
(* The parsers of columns.                                                 *)

LEMMA ParsePlain ==
    ASSUME NEW type, type \in ColumnsOf("text"), NEW text
    PROVE  Parse(type, text) = text
<1>1. type \in {"varchar", "text"}
  BY DEF ColumnsOf
<1>2. type \notin DOMAIN OidRanges
  BY <1>1 DEF OidRanges
<1>3. CASE type = "varchar"
  <2>1. type \in DOMAIN OidParsers /\ OidParsers[type] = "text"
    BY <1>3 DEF OidParsers
  <2>2. ParseAs("text", text) = text
    BY DEF ParseAs
  <2> QED BY <1>2, <2>1, <2>2 DEF Parse
<1>4. CASE type = "text"
  <2>1. type \notin DOMAIN OidParsers
    BY <1>4 DEF OidParsers
  <2> QED BY <1>2, <2>1 DEF Parse
<1> QED BY <1>1, <1>3, <1>4

LEMMA ParseNumber ==
    ASSUME NEW type, type \in ColumnsOf("number"), NEW text
    PROVE  Parse(type, text) = Number(text, 10)
<1>1. type \in {"int2", "int4", "int8", "oid", "xid", "xid8", "float4", "float8"}
  BY DEF ColumnsOf
<1>2. type \notin DOMAIN OidRanges
  BY <1>1 DEF OidRanges
<1>3. type \in DOMAIN OidParsers /\ OidParsers[type] = "number"
  BY <1>1 DEF OidParsers
<1>4. ParseAs("number", text) = Number(text, 10)
  BY DEF ParseAs
<1> QED BY <1>2, <1>3, <1>4 DEF Parse

LEMMA ParseBool ==
    ASSUME NEW type, type \in ColumnsOf("bool"), NEW text
    PROVE  Parse(type, text) = (text = <<116>>)
<1>1. type = "bool"
  BY DEF ColumnsOf
<1>2. type \notin DOMAIN OidRanges
  BY <1>1 DEF OidRanges
<1>3. type \in DOMAIN OidParsers /\ OidParsers[type] = "bool"
  BY <1>1 DEF OidParsers
<1>4. ParseAs("bool", text) = (text = <<116>>)
  BY DEF ParseAs
<1> QED BY <1>2, <1>3, <1>4 DEF Parse

LEMMA ParseBytes ==
    ASSUME NEW type, type \in ColumnsOf("bytes"), NEW text
    PROVE  Parse(type, text) = ParseByteA(text)
<1>1. type = "bytea"
  BY DEF ColumnsOf
<1>2. type \notin DOMAIN OidRanges
  BY <1>1 DEF OidRanges
<1>3. type \in DOMAIN OidParsers /\ OidParsers[type] = "bytes"
  BY <1>1 DEF OidParsers
<1>4. ParseAs("bytes", text) = ParseByteA(text)
  BY DEF ParseAs
<1> QED BY <1>2, <1>3, <1>4 DEF Parse

LEMMA ParseCircles ==
    ASSUME NEW type, type \in ColumnsOf("circle"), NEW text
    PROVE  Parse(type, text) = ParseCircle(text)
<1>1. type = "circle"
  BY DEF ColumnsOf
<1>2. type \notin DOMAIN OidRanges
  BY <1>1 DEF OidRanges
<1>3. type \in DOMAIN OidParsers /\ OidParsers[type] = "circle"
  BY <1>1 DEF OidParsers
<1>4. ParseAs("circle", text) = ParseCircle(text)
  BY DEF ParseAs
<1> QED BY <1>2, <1>3, <1>4 DEF Parse

LEMMA ParseDates ==
    ASSUME NEW text
    PROVE  /\ Parse("timestamp", text) = ParseTimestamp(text)
           /\ Parse("timestamptz", text) = ParseTimestampTz(text)
           /\ ParseAs("timestamp", text) = ParseTimestamp(text)
           /\ ParseAs("timestamptz", text) = ParseTimestampTz(text)
           /\ ParseAs("number", text) = Number(text, 10)
           /\ ColumnsOf("date") = {"timestamp", "timestamptz"}
<1>1. "timestamp" \notin DOMAIN OidRanges /\ "timestamptz" \notin DOMAIN OidRanges
  BY DEF OidRanges
<1>2. /\ "timestamp" \in DOMAIN OidParsers /\ OidParsers["timestamp"] = "timestamp"
      /\ "timestamptz" \in DOMAIN OidParsers /\ OidParsers["timestamptz"] = "timestamptz"
  BY DEF OidParsers
<1>3. /\ ParseAs("timestamp", text) = ParseTimestamp(text)
      /\ ParseAs("timestamptz", text) = ParseTimestampTz(text)
      /\ ParseAs("number", text) = Number(text, 10)
  BY DEF ParseAs
<1>4. ColumnsOf("date") = {"timestamp", "timestamptz"}
  BY DEF ColumnsOf
<1> QED BY <1>1, <1>2, <1>3, <1>4 DEF Parse

LEMMA ParseJson ==
    ASSUME NEW type, type \in ColumnsOf("json"), NEW text
    PROVE  Parse(type, text) = Number(SubSeq(text, 6, Len(text) - 1), 10)
<1>1. type \in {"json", "jsonb"}
  BY DEF ColumnsOf
<1>2. type \notin DOMAIN OidRanges
  BY <1>1 DEF OidRanges
<1>3. type \in DOMAIN OidParsers /\ OidParsers[type] = "json"
  BY <1>1 DEF OidParsers
<1>4. ParseAs("json", text) = Number(SubSeq(text, 6, Len(text) - 1), 10)
  BY DEF ParseAs
<1> QED BY <1>2, <1>3, <1>4 DEF Parse

RangeTypes == {"numrange", "tsrange", "tstzrange"}
RangeParser(type) == OidRanges[type]

LEMMA ParseRanges ==
    ASSUME NEW type \in RangeTypes, NEW text
    PROVE  /\ Parse(type, text) = ParseRange(text, RangeParser(type))
           /\ type = "numrange" => RangeParser(type) = "number"
           /\ type = "tsrange" => RangeParser(type) = "timestamp"
           /\ type = "tstzrange" => RangeParser(type) = "timestamptz"
<1>1. type \in DOMAIN OidRanges
  BY DEF OidRanges, RangeTypes
<1>2. /\ type = "numrange" => OidRanges[type] = "number"
      /\ type = "tsrange" => OidRanges[type] = "timestamp"
      /\ type = "tstzrange" => OidRanges[type] = "timestamptz"
  BY DEF OidRanges, RangeTypes
<1> QED BY <1>1, <1>2, Zenon DEF Parse, RangeParser

-----------------------------------------------------------------------------
(* Ranges, whose bounds may be objects.                                    *)

Known == [q \in Objects |-> Denotes(q)]

\* The text of a bound, and what is read of it.
BoundReads(bound, text, parser) ==
    IF bound = <<>> THEN text = <<>>
    ELSE /\ Bare(text) /\ text # <<>>
         /\ ParseAs(parser, text) = MemberMeaning(bound[1], Known).value

LEMMA BoundValue ==
    ASSUME NEW bound \in Seq(Given), Len(bound) \in {0, 1}, NEW text, NEW parser,
           BoundReads(bound, text, parser)
    PROVE  Bare(text) /\ ReadBound(text, parser) = Value(bound, Known)
<1>1. CASE bound = <<>>
  <2>1. text = <<>> /\ Bare(text)
    <3>1. text = <<>>
      BY <1>1 DEF BoundReads
    <3>2. <<>> \in Text
      BY DEF Text
    <3>3. Avoids(<<>>, {Comma, DoubleQuote})
      BY DEF Avoids
    <3> QED BY <3>1, <3>2, <3>3 DEF Bare
  <2>2. Value(bound, Known) = <<>>
    BY <1>1 DEF Value
  <2> QED BY <2>1, <2>2 DEF ReadBound
<1>2. CASE bound # <<>>
  <2> DEFINE v == MemberMeaning(bound[1], Known).value
  <2>1. Bare(text) /\ text # <<>> /\ ParseAs(parser, text) = v
    BY <1>2 DEF BoundReads
  <2>2. Len(bound) = 1 /\ DOMAIN bound = 1 .. 1
    <3> DEFINE G == Given
    <3> HIDE DEF G
    <3>1. bound \in Seq(G)
      BY DEF G
    <3>2. Len(bound) = 0 => bound = <<>>
      BY <3>1
    <3> QED BY <3>1, <3>2, <1>2
  <2>3. \A i \in DOMAIN bound : MemberMeaning(bound[i], Known).value = v
    BY <2>2
  <2>4. Value(bound, Known) = [i \in 1 .. 1 |-> v]
    BY <2>2, <2>3 DEF Value
  <2> HIDE DEF v
  <2>5. [i \in 1 .. 1 |-> v] = <<v>>
    OBVIOUS
  <2> QED BY <2>1, <2>4, <2>5 DEF ReadBound
<1> QED BY <1>1, <1>2

LEMMA RangeReads ==
    ASSUME Formed, NEW o \in Objects, heap[o].kind = "range", ~ Cyclic(o),
           NEW type \in RangeTypes, NEW l, NEW u,
           BoundReads(heap[o].lower, l, RangeParser(type)),
           BoundReads(heap[o].upper, u, RangeParser(type))
    PROVE  /\ RangeText(heap[o], l, u) \in Text /\ RangeText(heap[o], l, u) # <<>>
           /\ Leaf(Parse(type, RangeText(heap[o], l, u))) = Denotes(o)
<1> DEFINE r == heap[o]
           t == RangeText(r, l, u)
           f == RangeParser(type)
           vl == Value(r.lower, Known)
           vu == Value(r.upper, Known)
<1>1. r \in RangeContent /\ Bare0(r)
  <2>1. Shape(r)
    BY HeapIs, ContentIs
  <2> QED BY <2>1 DEF Shape
<1>2. /\ r.empty \in BOOLEAN /\ r.closed \in BOOLEAN \X BOOLEAN
      /\ r.lower \in Seq(Given) /\ Len(r.lower) \in {0, 1}
      /\ r.upper \in Seq(Given) /\ Len(r.upper) \in {0, 1}
  BY <1>1, RangeIs, Zenon
<1>3. Bare(l) /\ ReadBound(l, f) = vl /\ Bare(u) /\ ReadBound(u, f) = vu
  BY <1>2, BoundValue, Zenon
<1>4. Denotes(o) = Leaf([empty |-> r.empty, lower |-> vl, upper |-> vu, closed |-> r.closed])
  <2>1. Denotes(o) = Meaning(o, Known)
    BY DenotesIs, Zenon DEF Known
  <2> QED BY <2>1, MeaningIs, Zenon
<1>5. Parse(type, t) = ParseRange(t, f)
  BY ParseRanges, Zenon
<1>6. CASE r.empty = FALSE
  <2>1. /\ t \in Text /\ t # <<>>
        /\ ParseRange(t, f) = [empty |-> FALSE, lower |-> ReadBound(l, f),
                               upper |-> ReadBound(u, f), closed |-> r.closed]
    <3>1. Bare(l) /\ Bare(u) /\ r.empty = FALSE /\ r.closed \in BOOLEAN \X BOOLEAN
      BY <1>2, <1>3, <1>6
    <3>2. RangeRound(r, l, u, f)
      BY ReadRange, Zenon
    <3> QED BY <3>1, <3>2, Zenon DEF RangeRound
  <2> QED BY <2>1, <1>3, <1>4, <1>5, <1>6, Zenon
<1>7. CASE r.empty = TRUE
  <2>1. /\ t \in Text /\ t # <<>>
        /\ ParseRange(t, f) = [empty |-> TRUE, lower |-> <<>>, upper |-> <<>>,
                               closed |-> <<FALSE, FALSE>>]
    BY <1>7, ReadEmpty, Zenon
  <2>2. r.lower = <<>> /\ r.upper = <<>> /\ r.closed = <<FALSE, FALSE>>
    BY <1>1, <1>7, Zenon DEF Bare0
  <2>3. vl = <<>> /\ vu = <<>>
    <3>1. Value(<<>>, Known) = <<>>
      BY DEF Value
    <3> QED BY <3>1, <2>2, Zenon
  <2> QED BY <2>1, <2>2, <2>3, <1>4, <1>5, <1>7, Zenon
<1> QED BY <1>2, <1>6, <1>7

-----------------------------------------------------------------------------
(* Bytes in an array: their text has one backslash, the first character.   *)

Unquoted == Nat \ {Backslash, DoubleQuote}

LEMMA HexUnquoted ==
    ASSUME NEW bytes \in Seq(0 .. 255)
    PROVE  FlattenSeq(HexDigits(bytes)) \in Seq(Unquoted)
<1> DEFINE ss == HexDigits(bytes)
           S == Unquoted
           B == 0 .. 255
           N == Len(bytes)
<1>1. N \in Nat /\ DOMAIN bytes = 1 .. N /\ \A k \in 1 .. N : bytes[k] \in B
  <2>1. bytes \in Seq(B)
    OBVIOUS
  <2> HIDE DEF B
  <2> QED BY <2>1, LenProperties, ElementOfSeq
<1>2. ss = [k \in 1 .. N |-> <<Hex(bytes[k] \div 16), Hex(bytes[k] % 16)>>]
  BY <1>1 DEF HexDigits
<1>3. ASSUME NEW b \in B PROVE Hex(b \div 16) \in S /\ Hex(b % 16) \in S
  BY HexPair DEF Unquoted
<1> HIDE DEF S, B, N
<1>4. ASSUME NEW k \in 1 .. N
      PROVE  <<Hex(bytes[k] \div 16), Hex(bytes[k] % 16)>> \in Seq(S)
  <2> DEFINE a == Hex(bytes[k] \div 16)
             b == Hex(bytes[k] % 16)
  <2>1. a \in S /\ b \in S
    BY <1>1, <1>3
  <2> HIDE DEF a, b
  <2>2. <<a, b>> \in Seq(S)
    BY <2>1
  <2> QED BY <2>2 DEF a, b
<1> HIDE DEF ss
<1>5. ss \in [1 .. N -> Seq(S)]
  <2>1. \A k \in 1 .. N : ss[k] \in Seq(S)
    BY <1>2, <1>4
  <2>2. ss = [k \in 1 .. N |-> ss[k]]
    BY <1>2
  <2> QED BY <2>1, <2>2
<1>6. ss \in Seq(Seq(S))
  BY <1>1, <1>5
<1>7. FlattenSeq(ss) \in Seq(S)
  BY <1>6, FlatIsSequence
<1> QED BY <1>7 DEF ss, S

\* Quoting a text in which only the first character is a backslash.
LEMMA QuoteFirst ==
    ASSUME NEW u \in Text, Size(u) >= 1, u[1] = Backslash,
           \A k \in 2 .. Size(u) : u[k] \notin {Backslash, DoubleQuote}
    PROVE  FlattenSeq(Quotes(u)) = Cat(One(Backslash), u)
<1> DEFINE n == Size(u)
           ss == Quotes(u)
           t == FlattenSeq(ss)
           v == Cat(One(Backslash), u)
<1>1. n \in Nat /\ n >= 1 /\ \A k \in 1 .. n : u[k] \in Nat
  BY SizeIs, TextIs DEF Size
<1>2. ss \in Seq(Text) /\ Len(ss) = n /\ \A i \in 1 .. n : ss[i] = Quoted(u[i])
  BY QuoteIs
<1> HIDE DEF ss
<1>3. PICK ends : Spread(ss, t, ends)
  BY <1>2, Spreading
<1> HIDE DEF t, n
<1>4. /\ t \in Text /\ ends[0] = 0 /\ ends[n] = Size(t)
      /\ \A k \in 1 .. n : ends[k] = ends[k - 1] + Size(ss[k]) /\ Stands(t, ends[k - 1], ss[k])
  BY <1>2, <1>3 DEF Spread
<1>5. ss[1] = <<Backslash, Backslash>> /\ Size(ss[1]) = 2
  <2>1. 1 \in 1 .. n
    BY <1>1
  <2>2. ss[1] = Quoted(u[1])
    BY <1>2, <2>1
  <2>3. Quoted(Backslash) = <<Backslash, Backslash>> /\ Size(Quoted(Backslash)) = 2
    BY DEF Quoted, Size
  <2> QED BY <2>2, <2>3
<1>6. ASSUME NEW k \in 1 .. n, k # 1 PROVE ss[k] = One(u[k]) /\ Size(ss[k]) = 1
  <2>1. k \in 2 .. Size(u)
    BY <1>1, <1>6 DEF n
  <2>2. u[k] \notin {Backslash, DoubleQuote} /\ u[k] \in Nat
    BY <2>1, <1>1
  <2>3. ss[k] = One(u[k])
    BY <1>2, <2>2 DEF Quoted, One
  <2> QED BY <2>2, <2>3, OneIs
<1> DEFINE T == {k \in 0 .. n : k >= 1 => ends[k] = k + 1}
<1>7. 0 \in T
  BY <1>1
<1>8. ASSUME NEW k \in 0 .. n, k \in T, k < n PROVE k + 1 \in T
  <2>1. k + 1 \in 1 .. n /\ (k + 1) - 1 = k /\ k + 1 \in 0 .. n
    BY <1>1, <1>8
  <2>2. ends[k + 1] = ends[k] + Size(ss[k + 1])
    BY <1>4, <2>1
  <2>3. CASE k = 0
    BY <2>1, <2>2, <2>3, <1>4, <1>5
  <2>4. CASE k # 0
    <3>1. ends[k] = k + 1 /\ Size(ss[k + 1]) = 1
      BY <2>1, <2>4, <1>6, <1>8
    <3> QED BY <2>1, <2>2, <3>1
  <2> QED BY <2>3, <2>4
<1>9. \A k \in 0 .. n : k \in T
  <2> HIDE DEF T
  <2> QED BY <1>1, <1>7, <1>8, Upward
<1>10. ASSUME NEW k \in 1 .. n PROVE ends[k] = k + 1
  BY <1>1, <1>9
<1>11. Size(t) = n + 1
  BY <1>1, <1>4, <1>10
<1>12. /\ v \in Text /\ Size(v) = n + 1 /\ v[1] = Backslash
       /\ \A k \in 1 .. n : v[1 + k] = u[k]
  <2> DEFINE b == One(Backslash)
  <2>1. b \in Text /\ Size(b) = 1 /\ b[1] = Backslash
    BY OneIs DEF Backslash
  <2> HIDE DEF b
  <2>2. /\ v \in Text /\ Size(v) = Size(b) + Size(u)
        /\ \A i \in 1 .. Size(b) : v[i] = b[i]
        /\ \A i \in 1 .. Size(u) : v[Size(b) + i] = u[i]
    BY <2>1, CatIs DEF b
  <2> QED BY <2>1, <2>2, <1>1 DEF n
<1> HIDE DEF v
<1>13. ASSUME NEW k \in 1 .. n PROVE t[1 + k] = u[k]
  <2>1. CASE k = 1
    <3>1. Stands(t, ends[1 - 1], ss[1])
      BY <2>1, <1>4
    <3>2. Stands(t, 0, <<Backslash, Backslash>>)
      BY <3>1, <1>4, <1>5
    <3>3. t[0 + 2] = Backslash
      BY <3>2 DEF Stands
    <3> QED BY <3>3, <2>1
  <2>2. CASE k # 1
    <3>1. k - 1 \in 1 .. n /\ (k - 1) + 1 = k /\ k \in Nat /\ 1 + k = k + 1
      BY <2>2, <1>1
    <3>2. ends[k - 1] = k
      BY <3>1, <1>10
    <3>3. Stands(t, k, One(u[k]))
      BY <3>2, <1>4, <1>6, <2>2
    <3>4. t[k + 1] = u[k]
      BY <3>1, <3>3, <1>4, OneStands
    <3> QED BY <3>1, <3>4
  <2> QED BY <2>1, <2>2
<1>14. t[1] = Backslash
  <2>1. Stands(t, ends[1 - 1], ss[1])
    <3>1. 1 \in 1 .. n
      BY <1>1
    <3> QED BY <3>1, <1>4
  <2>2. Stands(t, 0, <<Backslash, Backslash>>)
    BY <2>1, <1>4, <1>5
  <2>3. t[0 + 1] = Backslash
    BY <2>2 DEF Stands
  <2> QED BY <2>3
<1>15. ASSUME NEW i \in 1 .. Len(t) PROVE t[i] = v[i]
  <2>1. CASE i = 1
    BY <2>1, <1>12, <1>14
  <2>2. CASE i # 1
    <3> DEFINE k == i - 1
    <3>1. k \in 1 .. n /\ 1 + k = i
      BY <2>2, <1>1, <1>11 DEF Size
    <3> HIDE DEF k
    <3> QED BY <3>1, <1>12, <1>13
  <2> QED BY <2>1, <2>2
<1>16. t = v
  BY <1>4, <1>11, <1>12, <1>15, TextEqual DEF Size
<1> QED BY <1>16 DEF t, ss, v

BytesText(bytes) == <<DoubleQuote, Backslash>> \o SerializeByteA(bytes) \o <<DoubleQuote>>

\* Bytes in an array are read as bytes.
LEMMA BytesQuoted ==
    ASSUME NEW bytes \in Seq(0 .. 255)
    PROVE  BytesText(bytes) = Quote(SerializeByteA(bytes))
<1> DEFINE u == SerializeByteA(bytes)
           h == FlattenSeq(HexDigits(bytes))
           x == <<Backslash, 120>>
           q == One(DoubleQuote)
           b == One(Backslash)
<1>1. u = Cat(x, h) /\ u \in Text
  BY HexWritten, ReadHex DEF Cat
<1>2. h \in Text /\ \A i \in 1 .. Size(h) : h[i] \notin {Backslash, DoubleQuote}
  <2>1. h \in Seq(Unquoted)
    BY HexUnquoted
  <2> HIDE DEF h
  <2>2. \A i \in 1 .. Len(h) : h[i] \in Unquoted
    <3> DEFINE S == Unquoted
    <3> HIDE DEF S
    <3>1. h \in Seq(S)
      BY <2>1 DEF S
    <3>2. \A i \in 1 .. Len(h) : h[i] \in S
      BY <3>1, ElementOfSeq
    <3> QED BY <3>2 DEF S
  <2>3. h \in Text
    BY <2>1 DEF Unquoted, Text
  <2> QED BY <2>2, <2>3 DEF Unquoted, Size
<1>3. x \in Text /\ Size(x) = 2 /\ x[1] = Backslash /\ x[2] = 120
  BY DEF Text, Size, Backslash
<1> HIDE DEF x, h, u
<1>4. /\ Size(u) = 2 + Size(h) /\ Size(h) \in Nat
      /\ \A i \in 1 .. 2 : u[i] = x[i]
      /\ \A i \in 1 .. Size(h) : u[2 + i] = h[i]
  <2>1. x \in Text /\ h \in Text
    BY <1>2, <1>3
  <2>2. /\ Size(Cat(x, h)) = Size(x) + Size(h) /\ Size(h) \in Nat
        /\ \A i \in 1 .. Size(x) : Cat(x, h)[i] = x[i]
        /\ \A i \in 1 .. Size(h) : Cat(x, h)[Size(x) + i] = h[i]
    BY <2>1, CatIs
  <2>3. Size(x) = 2 /\ u = Cat(x, h)
    BY <1>1, <1>3
  <2> QED BY <2>2, <2>3, Zenon
<1>5. ASSUME NEW k \in 2 .. Size(u) PROVE u[k] \notin {Backslash, DoubleQuote}
  <2>1. CASE k = 2
    BY <2>1, <1>3, <1>4 DEF Backslash, DoubleQuote
  <2>2. CASE k # 2
    <3> DEFINE i == k - 2
    <3>1. i \in 1 .. Size(h) /\ k = 2 + i
      BY <2>2, <1>4
    <3> HIDE DEF i
    <3> QED BY <3>1, <1>2, <1>4
  <2> QED BY <2>1, <2>2
<1>6. FlattenSeq(Quotes(u)) = Cat(b, u)
  <2>1. Size(u) >= 1 /\ u[1] = Backslash
    BY <1>3, <1>4
  <2> QED BY <2>1, <1>1, <1>5, QuoteFirst
<1>7. Quote(u) = Cat(Cat(q, Cat(b, u)), q)
  BY <1>1, <1>6, QuoteIs
<1>8. Cat(q, Cat(b, u)) = Cat(Cat(q, b), u)
  <2>1. q \in Text /\ b \in Text
    BY OneIs DEF DoubleQuote, Backslash
  <2> HIDE DEF q, b
  <2> QED BY <2>1, <1>1, CatAssociative
<1>9. Cat(q, b) = <<DoubleQuote, Backslash>>
  <2>1. DoubleQuote \in Nat /\ Backslash \in Nat
    BY DEF DoubleQuote, Backslash
  <2> QED BY <2>1, TextFew, Zenon DEF Cat, One
<1>10. BytesText(bytes) = Cat(Cat(<<DoubleQuote, Backslash>>, u), q)
  BY DEF BytesText, Cat, One, u
<1> QED BY <1>7, <1>8, <1>9, <1>10 DEF u

-----------------------------------------------------------------------------
(* Texts that stand for a value.                                           *)

\* A text from a column, read by the client, is the value o.
Reads(o, type, text) ==
    IF heap[o].kind = "array"
    THEN Element(type, text, Denotes(o)) /\ ParseArray(text, type) = Denotes(o)
    ELSE Leaf(Parse(type, text)) = Denotes(o)

Represents(o, text) ==
    /\ text \in Text /\ text # None
    /\ heap[o].kind = "date" => text = SerializeDate(heap[o].year)
    /\ \A type \in Types(o) : Reads(o, type, text)

\* The columns of an object that is no array.
LEMMA TypesSingle ==
    ASSUME NEW o, heap[o].kind # "array"
    PROVE  /\ heap[o].kind = "range" => Types(o) = RangesOf(o)
           /\ heap[o].kind # "range" => Types(o) = ColumnsOf(heap[o].kind)
<1> DEFINE m == [kind |-> "ref", to |-> o]
           types(n) == IF KindOf(n) = "range" THEN RangesOf(n.to) ELSE ColumnsOf(KindOf(n))
<1>1. m.kind = "ref" /\ m.to = o
  OBVIOUS
<1>2. KindOf(m) = heap[o].kind
  BY <1>1, Zenon DEF KindOf
<1>3. Types(o) = types(m)
  BY Zenon DEF Types
<1> HIDE DEF m
<1>4. CASE heap[o].kind = "range"
  BY <1>1, <1>2, <1>3, <1>4, Zenon
<1>5. CASE heap[o].kind # "range"
  BY <1>1, <1>2, <1>3, <1>5, Zenon
<1> QED BY <1>4, <1>5

Arrays(o) == {q \in Reach({o}) : heap[q].kind = "array"}
ElementsOf(o) == UNION {Range(Members(p)) : p \in Arrays(o)}
FitsAll(type, elements) ==
    \A m \in elements : KindOf(m) \notin {"null", "array"} =>
        type \in (IF KindOf(m) = "range" THEN RangesOf(m.to) ELSE ColumnsOf(KindOf(m)))
Columns == DOMAIN OidParsers \cup DOMAIN OidRanges \cup {"text"}

LEMMA TypesArray ==
    ASSUME NEW o, heap[o].kind = "array"
    PROVE  Types(o) = {t \in Columns : FitsAll(t, ElementsOf(o))}
BY Zenon DEF Types, Columns, FitsAll, ElementsOf, Arrays

\* A column for an array takes each of its members.
LEMMA TypesMember ==
    ASSUME Formed, NEW o \in Objects, heap[o].kind = "array",
           NEW type \in Types(o), NEW m \in Range(Members(o))
    PROVE  /\ m.kind \in {"text", "number", "bool"} => type \in ColumnsOf(m.kind)
           /\ m.kind = "ref" => type \in Types(m.to)
<1>1. type \in Columns /\ FitsAll(type, ElementsOf(o))
  BY TypesArray, Zenon
<1>2. m \in ElementsOf(o)
  <2>1. o \in Arrays(o)
    BY ReachStep DEF Arrays
  <2> QED BY <2>1 DEF ElementsOf
<1>3. KindOf(m) \notin {"null", "array"} =>
        type \in (IF KindOf(m) = "range" THEN RangesOf(m.to) ELSE ColumnsOf(KindOf(m)))
  BY <1>1, <1>2, Zenon DEF FitsAll
<1>4. CASE m.kind \in {"text", "number", "bool"}
  <2>1. KindOf(m) = m.kind
    BY <1>4 DEF KindOf
  <2>2. KindOf(m) \notin {"null", "array", "range"}
    BY <1>4, <2>1
  <2> QED BY <1>3, <1>4, <2>1, <2>2
<1>5. CASE m.kind = "ref"
  <2>1. KindOf(m) = heap[m.to].kind
    BY <1>5 DEF KindOf
  <2>2. m.to \in Refs(o) /\ m.to \in Objects
    BY <1>5, RefsIs
  <2>3. CASE heap[m.to].kind = "array"
    <3>1. Arrays(m.to) \subseteq Arrays(o)
      <4>1. m.to \in Reach({o})
        BY <2>2, ReachStep
      <4>2. Reach({m.to}) \subseteq Reach({o})
        BY <4>1, ReachFrom
      <4> QED BY <4>2 DEF Arrays
    <3>2. ElementsOf(m.to) \subseteq ElementsOf(o)
      BY <3>1 DEF ElementsOf
    <3>3. FitsAll(type, ElementsOf(m.to))
      BY <1>1, <3>2, Zenon DEF FitsAll
    <3>4. type \in Types(m.to)
      BY <1>1, <2>3, <3>3, TypesArray, Zenon
    <3> QED BY <3>4, <1>5
  <2>4. CASE heap[m.to].kind # "array"
    <3>1. Shape(heap[m.to])
      BY <2>2, HeapIs, ContentIs
    <3>2. heap[m.to].kind # "null"
      BY <3>1 DEF Shape
    <3>3. type \in (IF heap[m.to].kind = "range" THEN RangesOf(m.to)
                    ELSE ColumnsOf(heap[m.to].kind))
      BY <1>3, <2>1, <2>4, <3>2
    <3>4. type \in Types(m.to)
      BY <3>3, <2>4, TypesSingle
    <3> QED BY <3>4, <1>5
  <2> QED BY <2>3, <2>4
<1>6. CASE m.kind \notin {"text", "number", "bool", "ref"}
  BY <1>6
<1> QED BY <1>4, <1>5, <1>6

\* An array is read if its members are.
LEMMA ArrayReads ==
    ASSUME Formed, NEW o \in Objects, heap[o].kind = "array", ~ Cyclic(o), NEW type,
           NEW texts \in Seq(Text), Len(texts) = Len(heap[o].members),
           \A i \in 1 .. Len(texts) :
              Element(type, texts[i], MemberMeaning(heap[o].members[i], Known))
    PROVE  Reads(o, type, ListText(texts))
<1> DEFINE s == heap[o].members
           es == [i \in DOMAIN s |-> MemberMeaning(s[i], Known)]
           M == Member
<1>1. s \in Seq(M)
  BY MembersIs
<1>2. Denotes(o) = List(es)
  <2>1. Denotes(o) = Meaning(o, Known)
    BY DenotesIs, Zenon DEF Known
  <2> QED BY <2>1, MeaningIs, Zenon
<1> HIDE DEF M
<1>3. /\ Len(s) \in Nat /\ DOMAIN s = 1 .. Len(s)
  <2> HIDE DEF s
  <2> QED BY <1>1, LenProperties
<1>4. Pre(es, Len(texts)) = es
  <2>1. Pre(es, Len(texts)) = [j \in 1 .. Len(s) |-> es[j]]
    BY Zenon DEF Pre
  <2>2. es = [j \in 1 .. Len(s) |-> es[j]]
    BY <1>3
  <2> QED BY <2>1, <2>2, Zenon
<1>5. Elements(type, texts, es)
  <2>1. ASSUME NEW i \in 1 .. Len(texts) PROVE es[i] = MemberMeaning(s[i], Known)
    BY <1>3
  <2> HIDE DEF es
  <2> QED BY <2>1, Zenon DEF Elements
<1> HIDE DEF es
<1>6. Element(type, ListText(texts), List(Pre(es, Len(texts))))
  BY <1>5, ElementList, Zenon
<1>7. ParseArray(ListText(texts), type) = List(Pre(es, Len(texts)))
  BY <1>5, TopList, Zenon
<1> QED BY <1>2, <1>4, <1>6, <1>7, Zenon DEF Reads

LEMMA ElementNull ==
    ASSUME NEW type
    PROVE  Element(type, NullText, Nothing) /\ NullText \in Text
<1>1. Plain(NullText)
  <2>1. NullText \in Text /\ NullText # <<>>
    BY DEF NullText, Text
  <2>2. Avoids(NullText, {Backslash, DoubleQuote, Open, Close, Comma})
    <3>1. Len(NullText) = 4
      BY DEF NullText
    <3>2. \A i \in 1 .. 4 : NullText[i] \in {78, 85, 76}
      BY DEF NullText
    <3>3. \A i \in 1 .. Len(NullText) :
             NullText[i] \notin {Backslash, DoubleQuote, Open, Close, Comma}
      BY <3>1, <3>2 DEF Backslash, DoubleQuote, Open, Close, Comma
    <3> QED BY <3>3 DEF Avoids
  <2> QED BY <2>1, <2>2 DEF Plain
<1>2. Element(type, NullText, Entry(type, NullText))
  BY <1>1, ElementPlain
<1>3. Entry(type, NullText) = Nothing
  BY Zenon DEF Entry
<1> QED BY <1>1, <1>2, <1>3 DEF Plain

LEMMA PlainDigits ==
    ASSUME NEW n \in Nat
    PROVE  Plain(Digits(n)) /\ Digits(n) # NullText
<1>1. /\ Digits(n) \in Text /\ Digits(n) # <<>> /\ Len(Digits(n)) >= 1 /\ Len(Digits(n)) \in Nat
      /\ \A i \in 1 .. Len(Digits(n)) : Digits(n)[i] \in 48 .. 57
  BY DigitsAre
<1>2. Avoids(Digits(n), {Backslash, DoubleQuote, Open, Close, Comma})
  <2>1. {Backslash, DoubleQuote, Open, Close, Comma} \cap 48 .. 57 = {}
    BY DEF Backslash, DoubleQuote, Open, Close, Comma
  <2> QED BY <2>1, AvoidsDigits
<1>3. Digits(n)[1] \in 48 .. 57
  BY <1>1
<1>4. NullText[1] = 78
  BY DEF NullText
<1>5. Digits(n) # NullText
  <2> DEFINE d == Digits(n)
  <2>1. d[1] \in 48 .. 57
    BY <1>3
  <2> HIDE DEF d
  <2>2. d[1] # 78
    BY <2>1
  <2>3. d # NullText
    BY <2>2, <1>4
  <2> QED BY <2>3 DEF d
<1> QED BY <1>1, <1>2, <1>5 DEF Plain

Flag(b) == IF b THEN <<116>> ELSE <<102>>
LEMMA PlainFlag ==
    ASSUME NEW b \in BOOLEAN
    PROVE  Plain(Flag(b)) /\ Flag(b) # NullText /\ (Flag(b) = <<116>>) = b
<1>1. ASSUME NEW c \in {116, 102} PROVE Plain(<<c>>) /\ <<c>> # NullText
  <2>1. <<c>> \in Text /\ <<c>> # <<>> /\ Len(<<c>>) = 1
    BY DEF Text
  <2>2. Avoids(<<c>>, {Backslash, DoubleQuote, Open, Close, Comma})
    <3>1. c \notin {Backslash, DoubleQuote, Open, Close, Comma}
      BY DEF Backslash, DoubleQuote, Open, Close, Comma
    <3> QED BY <3>1, AvoidsFew
  <2>3. <<c>> # NullText
    BY DEF NullText
  <2> QED BY <2>1, <2>2, <2>3 DEF Plain
<1>2. CASE b = TRUE
  <2>1. Flag(b) = <<116>>
    BY <1>2 DEF Flag
  <2> QED BY ZenonT(30), <1>1, <1>2, <2>1
<1>3. CASE b = FALSE
  <2>1. Flag(b) = <<102>> /\ <<102>> # <<116>>
    BY <1>3 DEF Flag
  <2> QED BY <1>1, <1>3, <2>1
<1> QED BY <1>2, <1>3

\* Numbers, booleans and texts come back, in every column that takes them.
LEMMA PrimitiveReads ==
    ASSUME NEW m \in Member, m.kind \in {"text", "number", "bool"},
           NEW type, type \in ColumnsOf(m.kind), NEW of
    PROVE  /\ Primitive(m) \in Text
           /\ Leaf(Parse(type, Primitive(m))) = MemberMeaning(m, of)
           /\ m.kind # "text" => Plain(Primitive(m)) /\ Primitive(m) # NullText
<1>1. CASE m.kind = "text"
  <2>1. Primitive(m) = m.text /\ m.text \in Text
    BY <1>1, GivenIs DEF Primitive
  <2>2. type \in ColumnsOf("text")
    BY <1>1, Zenon
  <2>3. Parse(type, m.text) = m.text
    BY <2>2, ParsePlain, Zenon
  <2>4. MemberMeaning(m, of) = Leaf(m.text)
    BY <1>1 DEF MemberMeaning
  <2> QED BY <1>1, <2>1, <2>3, <2>4, Zenon
<1>2. CASE m.kind = "number"
  <2>1. Primitive(m) = Digits(m.number) /\ m.number \in Nat
    BY <1>2, GivenIs DEF Primitive
  <2>2. type \in ColumnsOf("number")
    BY <1>2, Zenon
  <2>3. Parse(type, Digits(m.number)) = Number(Digits(m.number), 10)
    BY <2>2, ParseNumber, Zenon
  <2>4. Number(Digits(m.number), 10) = m.number
    BY <2>1, DigitsAre
  <2>5. MemberMeaning(m, of) = Leaf(m.number)
    BY <1>2 DEF MemberMeaning
  <2>6. Plain(Digits(m.number)) /\ Digits(m.number) # NullText
    BY <2>1, PlainDigits
  <2>7. Digits(m.number) \in Text
    BY <2>6 DEF Plain
  <2>8. Leaf(Parse(type, Primitive(m))) = MemberMeaning(m, of)
    <3> HIDE <2>1
    <3>1. Primitive(m) = Digits(m.number)
      BY <2>1
    <3> QED BY <3>1, <2>3, <2>4, <2>5
  <2> QED BY <2>1, <2>6, <2>7, <2>8
<1>3. CASE m.kind = "bool"
  <2>1. Primitive(m) = Flag(m.bool) /\ m.bool \in BOOLEAN
    BY <1>3, GivenIs DEF Primitive, Flag
  <2>2. type \in ColumnsOf("bool")
    BY <1>3, Zenon
  <2>3. Parse(type, Flag(m.bool)) = (Flag(m.bool) = <<116>>)
    BY <2>2, ParseBool, Zenon
  <2>4. (Flag(m.bool) = <<116>>) = m.bool /\ Plain(Flag(m.bool)) /\ Flag(m.bool) # NullText
    BY <2>1, PlainFlag
  <2>5. MemberMeaning(m, of) = Leaf(m.bool)
    BY <1>3 DEF MemberMeaning
  <2>6. Parse(type, Flag(m.bool)) = m.bool
    BY <2>3, <2>4, Zenon
  <2>7. Flag(m.bool) \in Text
    BY <2>4 DEF Plain
  <2> QED BY <2>1, <2>4, <2>5, <2>6, <2>7, Zenon
<1> QED BY <1>1, <1>2, <1>3

\* Members that are no objects, as serializeArray() writes them.
LEMMA ElementPrimitive ==
    ASSUME NEW m \in Member, m.kind \in {"text", "number", "bool"},
           NEW type, type \in ColumnsOf(m.kind), NEW of
    PROVE  /\ Element(type, Quote(Primitive(m)), MemberMeaning(m, of))
           /\ m.kind # "text" => Element(type, Primitive(m), MemberMeaning(m, of))
<1> DEFINE u == Primitive(m)
<1>1. /\ u \in Text /\ Leaf(Parse(type, u)) = MemberMeaning(m, of)
      /\ m.kind # "text" => Plain(u) /\ u # NullText
  BY PrimitiveReads
<1>2. Element(type, Quote(u), Leaf(Parse(type, u)))
  BY <1>1, ElementQuoted
<1>3. ASSUME m.kind # "text" PROVE Element(type, u, MemberMeaning(m, of))
  <2>1. Plain(u) /\ u # NullText
    BY <1>1, <1>3
  <2>2. Element(type, u, Entry(type, u))
    BY <2>1, ElementPlain
  <2>3. Entry(type, u) = Leaf(Parse(type, u))
    BY <2>1, Zenon DEF Entry
  <2> QED BY <2>2, <2>3, <1>1, Zenon
<1> QED BY <1>1, <1>2, <1>3, Zenon

\* The objects that refer to no other.
LEMMA SingleIs ==
    ASSUME Formed, NEW o \in Objects, heap[o].kind \notin {"array", "range"}
    PROVE  ~ Cyclic(o) /\ Denotes(o) = Meaning(o, Known)
           /\ heap[o].kind \in {"bytes", "date", "circle", "json"}
           /\ Types(o) = ColumnsOf(heap[o].kind)
<1>1. Members(o) = <<>>
  BY DEF Members
<1>2. Refs(o) = {}
  <2>1. Range(Members(o)) = {}
    BY <1>1 DEF Range
  <2> QED BY <2>1 DEF Refs
<1>3. ~ Cyclic(o)
  BY <1>2, CyclicOnly
<1>4. Denotes(o) = Meaning(o, Known)
  BY <1>3, DenotesIs, Zenon DEF Known
<1>5. heap[o].kind \in {"bytes", "date", "circle", "json"}
  <2>1. Shape(heap[o])
    BY HeapIs, ContentIs
  <2> QED BY <2>1 DEF Shape
<1>6. Types(o) = ColumnsOf(heap[o].kind)
  BY TypesSingle
<1> QED BY <1>3, <1>4, <1>5, <1>6

SingleText(o) ==
    CASE heap[o].kind = "bytes"  -> SerializeByteA(heap[o].bytes)
      [] heap[o].kind = "date"   -> SerializeDate(heap[o].year)
      [] heap[o].kind = "circle" -> SerializeCircle(heap[o].circle)
      [] heap[o].kind = "json"   -> Json(heap[o].n)

LEMMA ReadCircles ==
    ASSUME NEW c \in Circles
    PROVE  /\ SerializeCircle(c) \in Text /\ SerializeCircle(c) # <<>>
           /\ ParseCircle(SerializeCircle(c)) = c
<1>1. PICK l \in Nat, m \in Nat, n \in Nat : c = <<l, m, n>>
  BY DEF Circles
<1>2. /\ SerializeCircle(<<l, m, n>>) \in Text /\ SerializeCircle(<<l, m, n>>) # <<>>
      /\ ParseCircle(SerializeCircle(<<l, m, n>>)) = <<l, m, n>>
  BY ReadCircle
<1> QED BY <1>1, <1>2, Zenon

\* Dates, circles, bytes and JSON come back, in every column that takes them.
LEMMA SingleReads ==
    ASSUME Formed, NEW o \in Objects, heap[o].kind \notin {"array", "range"}
    PROVE  Represents(o, SingleText(o))
<1>1. /\ heap[o].kind \in {"bytes", "date", "circle", "json"}
      /\ Types(o) = ColumnsOf(heap[o].kind) /\ Denotes(o) = Meaning(o, Known)
      /\ Shape(heap[o])
  BY SingleIs, HeapIs, ContentIs
<1> SUFFICES /\ SingleText(o) \in Text /\ SingleText(o) # None
             /\ heap[o].kind = "date" => SingleText(o) = SerializeDate(heap[o].year)
             /\ \A type \in ColumnsOf(heap[o].kind) :
                   Leaf(Parse(type, SingleText(o))) = Denotes(o)
  <2>1. heap[o].kind # "array"
    OBVIOUS
  <2> QED BY <1>1, <2>1, Zenon DEF Represents, Reads
<1>2. CASE heap[o].kind = "bytes"
  <2> DEFINE b == heap[o].bytes
             t == SerializeByteA(b)
  <2>1. SingleText(o) = t
    BY <1>2 DEF SingleText
  <2>2. b \in Seq(0 .. 255)
    <3>1. b \in ByteSeqs
      BY <1>1, <1>2 DEF Shape
    <3> QED BY <3>1, Zenon DEF ByteSeqs
  <2>3. t \in Text /\ t # <<>> /\ ParseByteA(t) = b
    BY <2>2, ReadHex, Zenon
  <2>4. Denotes(o) = Leaf(b)
    BY <1>1, <1>2, MeaningIs
  <2>5. \A type \in ColumnsOf("bytes") : Leaf(Parse(type, t)) = Denotes(o)
    BY <2>3, <2>4, ParseBytes, Zenon
  <2>6. t # None /\ heap[o].kind # "date"
    BY <2>3, <1>2 DEF None
  <2> QED BY <2>1, <2>3, <2>5, <2>6, <1>2, Zenon
<1>3. CASE heap[o].kind = "date"
  <2> DEFINE y == heap[o].year
             t == SerializeDate(y)
  <2>1. SingleText(o) = t
    BY <1>3 DEF SingleText
  <2>2. y \in Years
    BY <1>1, <1>3 DEF Shape
  <2>3. t \in Text /\ t # <<>> /\ ParseTimestampTz(t) = y /\ ParseTimestamp(t) = y
    <3> HIDE DEF y
    <3> QED BY <2>2, ReadDate
  <2>4. Denotes(o) = Leaf(y)
    BY <1>1, <1>3, MeaningIs
  <2>5. \A type \in ColumnsOf("date") : Leaf(Parse(type, t)) = Denotes(o)
    <3>1. ColumnsOf("date") = {"timestamp", "timestamptz"}
      BY ParseDates
    <3>2. Parse("timestamp", t) = y /\ Parse("timestamptz", t) = y
      BY <2>3, ParseDates, Zenon
    <3> HIDE DEF y, t
    <3> QED BY <3>1, <3>2, <2>4
  <2>6. t # None
    BY <2>3 DEF None
  <2> QED BY <2>1, <2>3, <2>5, <2>6, <1>3, Zenon
<1>4. CASE heap[o].kind = "circle"
  <2> DEFINE c == heap[o].circle
             t == SerializeCircle(c)
  <2>1. SingleText(o) = t
    BY <1>4 DEF SingleText
  <2>2. c \in Circles
    BY <1>1, <1>4 DEF Shape
  <2>3. t \in Text /\ t # <<>> /\ ParseCircle(t) = c
    BY <2>2, ReadCircles, Zenon
  <2>4. Denotes(o) = Leaf(c)
    BY <1>1, <1>4, MeaningIs
  <2>5. \A type \in ColumnsOf("circle") : Leaf(Parse(type, t)) = Denotes(o)
    BY <2>3, <2>4, ParseCircles, Zenon
  <2>6. t # None /\ heap[o].kind # "date"
    BY <2>3, <1>4 DEF None
  <2> QED BY <2>1, <2>3, <2>5, <2>6, <1>4, Zenon
<1>5. CASE heap[o].kind = "json"
  <2> DEFINE n == heap[o].n
             t == Json(n)
  <2>1. SingleText(o) = t
    BY <1>5 DEF SingleText
  <2>2. n \in Nat
    BY <1>1, <1>5 DEF Shape
  <2>3. t \in Text /\ t # <<>> /\ Number(SubSeq(t, 6, Len(t) - 1), 10) = n
    BY <2>2, ReadJson, Zenon
  <2>4. Denotes(o) = Leaf(n)
    BY <1>1, <1>5, MeaningIs
  <2>5. \A type \in ColumnsOf("json") : Leaf(Parse(type, t)) = Denotes(o)
    BY <2>3, <2>4, ParseJson, Zenon
  <2>6. t # None /\ heap[o].kind # "date"
    BY <2>3, <1>5 DEF None
  <2> QED BY <2>1, <2>3, <2>5, <2>6, <1>5, Zenon
<1> QED BY <1>1, <1>2, <1>3, <1>4, <1>5

\* The bounds of a range with a column.
LEMMA BoundKinds ==
    ASSUME Formed, NEW o \in Objects, heap[o].kind = "range", NEW type \in RangesOf(o),
           NEW m \in Range(Members(o))
    PROVE  /\ type \in RangeTypes
           /\ type = "numrange" => m.kind = "number" /\ m.number \in Nat
           /\ type # "numrange" => /\ m.kind = "ref" /\ m.to \in Objects /\ m.to \in Refs(o)
                                   /\ heap[m.to].kind = "date"
<1>1. type \in RangeTypes /\ KindOf(m) = (IF type = "numrange" THEN "number" ELSE "date")
  BY DEF RangesOf, RangeTypes
<1>2. m \in Member
  <2> DEFINE M == Member
             s == Members(o)
  <2>1. s \in Seq(M)
    BY MembersIs
  <2> HIDE DEF M, s
  <2>2. \A n \in Range(s) : n \in M
    BY <2>1 DEF Range
  <2> QED BY <2>2 DEF M, s
<1>3. m.kind \in {"null", "text", "number", "bool", "ref"} /\ (m.kind = "number" => m.number \in Nat)
  BY <1>2, GivenIs
<1>4. CASE m.kind = "ref"
  <2>1. KindOf(m) = heap[m.to].kind
    BY <1>4 DEF KindOf
  <2>2. m.to \in Refs(o) /\ m.to \in Objects
    BY <1>4, RefsIs
  <2>3. Shape(heap[m.to])
    BY <2>2, HeapIs, ContentIs
  <2>4. heap[m.to].kind # "number"
    BY <2>3 DEF Shape
  <2> QED BY <1>1, <1>4, <2>1, <2>2, <2>4
<1>5. CASE m.kind # "ref"
  <2>1. KindOf(m) = m.kind
    BY <1>5 DEF KindOf
  <2> QED BY <1>1, <1>3, <1>5, <2>1
<1> QED BY <1>4, <1>5

\* A bound as it is sent.
LEMMA BoundSent ==
    ASSUME Formed, NEW o \in Objects, heap[o].kind = "range", ~ Cyclic(o),
           NEW type \in RangesOf(o),
           NEW bound, bound # <<>>, bound[1] \in Range(Members(o)), NEW t,
           bound[1].kind = "number" => t = Digits(bound[1].number),
           bound[1].kind = "ref" /\ heap[bound[1].to].kind = "date" =>
                t = SerializeDate(heap[bound[1].to].year)
    PROVE  BoundReads(bound, t, RangeParser(type))
<1> DEFINE m == bound[1]
           f == RangeParser(type)
<1>1. /\ type \in RangeTypes
      /\ type = "numrange" => m.kind = "number" /\ m.number \in Nat
      /\ type # "numrange" => /\ m.kind = "ref" /\ m.to \in Objects /\ m.to \in Refs(o)
                              /\ heap[m.to].kind = "date"
  BY BoundKinds
<1> SUFFICES Bare(t) /\ t # <<>> /\ ParseAs(f, t) = MemberMeaning(m, Known).value
  BY Zenon DEF BoundReads
<1>2. CASE type = "numrange"
  <2> DEFINE n == m.number
  <2>1. t = Digits(n) /\ n \in Nat /\ m.kind = "number"
    BY <1>1, <1>2, Zenon
  <2>2. f = "number"
    BY <1>1, <1>2, ParseRanges, Zenon
  <2>3. MemberMeaning(m, Known) = Leaf(n)
    <3>1. m.kind = "number"
      BY <2>1
    <3> HIDE DEF m
    <3> QED BY <3>1 DEF MemberMeaning
  <2>4. Leaf(n).value = n
    BY DEF Leaf
  <2> HIDE DEF n, m, f
  <2>5. Bare(t) /\ t # <<>> /\ Number(t, 10) = n
    BY <2>1, BareDigits, DigitsAre
  <2>6. ParseAs("number", t) = Number(t, 10)
    BY ParseDates
  <2> QED BY <2>2, <2>3, <2>4, <2>5, <2>6, Zenon
<1>3. CASE type # "numrange"
  <2> DEFINE p == m.to
             y == heap[p].year
  <2>1. /\ t = SerializeDate(y) /\ p \in Objects /\ p \in Refs(o) /\ heap[p].kind = "date"
        /\ m.kind = "ref"
    BY <1>1, <1>3, Zenon
  <2>2. f = "timestamp" \/ f = "timestamptz"
    <3>1. type = "tsrange" \/ type = "tstzrange"
      BY <1>1, <1>3 DEF RangeTypes
    <3> QED BY <1>1, <3>1, ParseRanges, Zenon
  <2>3. MemberMeaning(m, Known) = Denotes(p)
    <3>1. m.kind = "ref"
      BY <2>1
    <3>2. MemberMeaning(m, Known) = Known[m.to]
      <4> HIDE DEF m
      <4> QED BY <3>1 DEF MemberMeaning
    <3> QED BY <3>2, <2>1 DEF Known
  <2>4. Denotes(p) = Leaf(y)
    <3> HIDE DEF p
    <3>1. Denotes(p) = Meaning(p, Known)
      BY <2>1, SingleIs
    <3> QED BY <3>1, <2>1, MeaningIs, Zenon
  <2>5. Leaf(y).value = y
    BY DEF Leaf
  <2>6. y \in Years
    <3> HIDE DEF p
    <3>1. Shape(heap[p])
      BY <2>1, HeapIs, ContentIs
    <3> QED BY <3>1, <2>1 DEF Shape
  <2> HIDE DEF y, p, m, f
  <2>7. Bare(t) /\ t # <<>> /\ ParseTimestamp(t) = y /\ ParseTimestampTz(t) = y
    BY <2>1, <2>6, ReadDate DEF Bare
  <2>8. ParseAs("timestamp", t) = ParseTimestamp(t) /\ ParseAs("timestamptz", t) = ParseTimestampTz(t)
    BY ParseDates
  <2> QED BY <2>2, <2>3, <2>4, <2>5, <2>7, <2>8, Zenon
<1> QED BY <1>2, <1>3

\* A range as it is sent.
LEMMA RangeSent ==
    ASSUME Formed, NEW o \in Objects, heap[o].kind = "range", ~ Cyclic(o),
           NEW l, NEW u,
           heap[o].lower = <<>> => l = <<>>, heap[o].upper = <<>> => u = <<>>,
           \A type \in RangesOf(o) :
              /\ heap[o].lower # <<>> => BoundReads(heap[o].lower, l, RangeParser(type))
              /\ heap[o].upper # <<>> => BoundReads(heap[o].upper, u, RangeParser(type))
    PROVE  /\ \A type \in Types(o) : Reads(o, type, RangeText(heap[o], l, u))
<1>1. Types(o) = RangesOf(o)
  BY TypesSingle
<1>2. ASSUME NEW type \in RangesOf(o)
      PROVE  Reads(o, type, RangeText(heap[o], l, u))
  <2>1. type \in RangeTypes
    BY DEF RangesOf, RangeTypes
  <2>2. /\ BoundReads(heap[o].lower, l, RangeParser(type))
        /\ BoundReads(heap[o].upper, u, RangeParser(type))
    <3>1. heap[o].lower = <<>> => BoundReads(heap[o].lower, l, RangeParser(type))
      BY Zenon DEF BoundReads
    <3>2. heap[o].upper = <<>> => BoundReads(heap[o].upper, u, RangeParser(type))
      BY Zenon DEF BoundReads
    <3> QED BY <3>1, <3>2
  <2>3. Leaf(Parse(type, RangeText(heap[o], l, u))) = Denotes(o)
    BY <2>1, <2>2, RangeReads
  <2> QED BY <2>3 DEF Reads
<1> QED BY <1>1, <1>2

-----------------------------------------------------------------------------
(* What serialize() promises.                                              *)

\* No part of o changed after it was serialized.
Sound(o) == Reach({o}) \cap touched = {}

\* A text that may be kept for o.
Holds(o, text) ==
    /\ text \in Text /\ text # None
    /\ Sound(o) => ~ Cyclic(o) /\ Represents(o, text)
Right(known) == known \in Cache /\ \A q \in Objects : known[q] # None => Holds(q, known[q])

\* What a call for o may return.
Good(r, o) ==
    /\ Right(r.cache) /\ r.ok \in BOOLEAN
    /\ r.ok => Holds(o, r.text)
    /\ ~ r.ok => Cyclic(o)

\* The stack of a call holds objects that contain o; that for the members of o
\* also has o itself.
Below(S, o) == S \in SUBSET Objects /\ \A s \in S : o \in Reach(Refs(s))
Within(S, o) == S \in SUBSET Objects /\ o \in S /\ \A s \in S : o \in Reach({s})
Left(S) == Cardinality(Objects \ S)

ValueGood(sub, n) ==
    \A o \in Objects : \A S, known : Right(known) /\ Below(S, o) /\ Left(S) < n =>
        Good(sub.value[Call(o, S, known)], o)
ArrayGood(sub, n) ==
    \A o \in Objects : \A S, known :
        Right(known) /\ heap[o].kind = "array" /\ Within(S, o) /\ Left(S) + 1 < n =>
            Good(sub.array[Call(o, S, known)], o)

\* What an object consists of is sound, if the object is.
LEMMA SoundPart ==
    ASSUME Formed, NEW o \in Objects, Sound(o), NEW q \in Refs(o)
    PROVE  Sound(q)
<1>1. q \in Reach({o})
  BY ReachStep
<1>2. Reach({q}) \subseteq Reach({o})
  BY <1>1, ReachFrom
<1> QED BY <1>2 DEF Sound

LEMMA WithinBelow ==
    ASSUME Formed, NEW o \in Objects, NEW S, Within(S, o), NEW q \in Refs(o)
    PROVE  q \in Objects /\ Below(S, q)
<1>1. q \in Objects /\ S \in SUBSET Objects
  BY RefsIs DEF Within
<1>2. ASSUME NEW s \in S PROVE q \in Reach(Refs(s))
  <2>1. s \in Objects /\ o \in Reach({s})
    BY <1>1 DEF Within
  <2>2. Refs(s) \in SUBSET Objects /\ Refs(s) \subseteq Reach(Refs(s))
    <3>1. Refs(s) \in SUBSET Objects
      BY <2>1, RefsIs
    <3> QED BY <3>1, ReachIs
  <2>3. CASE o = s
    BY <2>2, <2>3
  <2>4. CASE o # s
    <3>1. o \in Reach(Refs(s))
      BY <2>1, <2>4, ReachStep
    <3> QED BY <3>1, <2>2, ReachClosed
  <2> QED BY <2>3, <2>4
<1> QED BY <1>1, <1>2 DEF Below

LEMMA Pushed ==
    ASSUME Formed, NEW o \in Objects, NEW S, Below(S, o), o \notin S
    PROVE  /\ Within(S \cup {o}, o)
           /\ Left(S \cup {o}) \in Nat /\ Left(S) = Left(S \cup {o}) + 1
<1>1. S \in SUBSET Objects
  BY DEF Below
<1>2. ASSUME NEW s \in S \cup {o} PROVE o \in Reach({s})
  <2>1. s \in Objects
    BY <1>1
  <2>2. CASE s = o
    BY <2>2, ReachStep
  <2>3. CASE s # o
    <3>1. o \in Reach(Refs(s))
      BY <2>3 DEF Below
    <3> QED BY <2>1, <3>1, ReachStep
  <2> QED BY <2>2, <2>3
<1>3. Within(S \cup {o}, o)
  BY <1>1, <1>2 DEF Within
<1>4. /\ Left(S \cup {o}) \in Nat /\ Left(S) = Left(S \cup {o}) + 1
  <2> DEFINE A == Objects \ S
             B == Objects \ (S \cup {o})
  <2>1. IsFiniteSet(A) /\ o \in A /\ B = A \ {o}
    <3>1. A \in SUBSET Objects
      OBVIOUS
    <3>2. IsFiniteSet(A)
      BY <3>1, ContentsAssumption, FS_Subset
    <3> QED BY <3>2
  <2> HIDE DEF A, B
  <2>2. /\ IsFiniteSet(B) /\ Cardinality(B) = Cardinality(A) - 1 /\ Cardinality(A) \in Nat
        /\ Cardinality(B) \in Nat
    BY <2>1, FS_RemoveElement, FS_CardinalityType
  <2>3. Left(S) = Cardinality(A) /\ Left(S \cup {o}) = Cardinality(B)
    BY Zenon DEF Left, A, B
  <2> QED BY <2>2, <2>3
<1> QED BY <1>3, <1>4

\* A text that is kept for an object is right for it.
LEMMA Kept ==
    ASSUME NEW known, Right(known), NEW o \in Objects, NEW text, Holds(o, text)
    PROVE  Right([known EXCEPT ![o] = text])
<1> DEFINE k == [known EXCEPT ![o] = text]
<1>1. known \in Cache /\ text \in Text
  BY DEF Right, Holds
<1>2. k \in Cache
  BY <1>1 DEF Cache
<1>3. ASSUME NEW q \in Objects, k[q] # None PROVE Holds(q, k[q])
  <2>1. CASE q = o
    <3>1. k[q] = text
      BY <2>1, <1>1 DEF Cache
    <3> QED BY <3>1, <2>1
  <2>2. CASE q # o
    <3>1. k[q] = known[q]
      BY <2>2, <1>1 DEF Cache
    <3> QED BY <3>1, <1>3 DEF Right
  <2> QED BY <2>1, <2>2
<1> HIDE DEF k
<1>4. Right(k)
  BY <1>2, <1>3 DEF Right
<1> QED BY <1>4 DEF k

LEMMA DoneIs ==
    ASSUME NEW text, NEW known
    PROVE  /\ Done(text, known).text = text /\ Done(text, known).cache = known
           /\ Done(text, known).ok = TRUE
           /\ Thrown(known).cache = known /\ Thrown(known).ok = FALSE
BY DEF Done, Thrown

LEMMA PrimitiveText ==
    ASSUME NEW m \in Member, m.kind \in {"text", "number", "bool"}
    PROVE  Primitive(m) \in Text
<1>1. CASE m.kind = "text"
  BY <1>1, GivenIs DEF Primitive
<1>2. CASE m.kind = "number"
  <2>1. Primitive(m) = Digits(m.number) /\ m.number \in Nat
    BY <1>2, GivenIs DEF Primitive
  <2> QED BY <2>1, DigitsAre
<1>3. CASE m.kind = "bool"
  <2>1. Primitive(m) = Flag(m.bool) /\ m.bool \in BOOLEAN
    BY <1>3, GivenIs DEF Primitive, Flag
  <2> QED BY <2>1, PlainFlag DEF Plain
<1> QED BY <1>1, <1>2, <1>3

LEMMA RangeTextIs ==
    ASSUME NEW range, NEW l \in Text, NEW u \in Text
    PROVE  RangeText(range, l, u) \in Text /\ RangeText(range, l, u) # None
<1> DEFINE f == IF range.closed[1] THEN 91 ELSE 40
           g == IF range.closed[2] THEN 93 ELSE 41
           a == One(f)
           b == BoundText(l)
           c == One(Comma)
           d == BoundText(u)
           e == One(g)
           w == Cat(Cat(Cat(Cat(a, b), c), d), e)
<1>1. RangeText(range, l, u) = w \/ RangeText(range, l, u) = Empty
  BY Zenon DEF RangeText, Cat, One
<1>2. ASSUME NEW t \in Text PROVE BoundText(t) \in Text
  <2> DEFINE q == One(DoubleQuote)
  <2>1. BoundText(t) = Cat(Cat(q, t), q) \/ BoundText(t) = t
    BY Zenon DEF BoundText, Cat, One
  <2>2. q \in Text
    BY OneIs DEF DoubleQuote
  <2> HIDE DEF q
  <2>3. Cat(q, t) \in Text
    BY <2>2, CatLen
  <2>4. Cat(Cat(q, t), q) \in Text
    BY <2>2, <2>3, CatLen
  <2> QED BY <2>1, <2>4
<1>3. b \in Text /\ d \in Text
  BY <1>2
<1>4. f \in Nat /\ g \in Nat /\ Comma \in Nat
  BY DEF Comma
<1>5. a \in Text /\ c \in Text /\ e \in Text /\ Size(e) = 1
  <2> HIDE DEF f, g
  <2> QED BY <1>4, OneIs
<1> HIDE DEF a, b, c, d, e
<1>6. Cat(a, b) \in Text
  BY <1>3, <1>5, CatLen
<1>7. Cat(Cat(a, b), c) \in Text
  BY <1>5, <1>6, CatLen
<1>8. Cat(Cat(Cat(a, b), c), d) \in Text
  BY <1>3, <1>7, CatLen
<1>9. w \in Text /\ Size(w) = Size(Cat(Cat(Cat(a, b), c), d)) + 1
  BY <1>5, <1>8, CatLen
<1>10. w # <<>>
  <2> DEFINE v == Cat(Cat(Cat(a, b), c), d)
  <2>1. Size(v) \in Nat /\ Size(w) = Size(v) + 1
    BY <1>8, <1>9, SizeIs
  <2> HIDE DEF v, w
  <2>2. Size(w) # 0
    BY <2>1
  <2> QED BY <2>2, <1>9, SizeIs
<1>11. Empty \in Text /\ Empty # <<>>
  BY DEF Empty, Text
<1> QED BY <1>1, <1>9, <1>10, <1>11 DEF None

\* What is returned for a bound.
BoundGood(r, bound) ==
    /\ Right(r.cache) /\ r.ok \in BOOLEAN
    /\ bound = <<>> => r.ok /\ r.text = <<>>
    /\ bound # <<>> /\ bound[1].kind # "ref" => r.ok /\ r.text = Primitive(bound[1])
    /\ bound # <<>> /\ bound[1].kind = "ref" => Good(r, bound[1].to)

\* A bound of a range, serialized by a deeper call.
LEMMA SerializeBoundGood ==
    ASSUME Formed, NEW sub, NEW n, ValueGood(sub, n), NEW o \in Objects, NEW S, Within(S, o),
           Left(S) < n, NEW known, Right(known), NEW bound,
           bound # <<>> => bound[1] \in Range(Members(o))
    PROVE  BoundGood(SerializeBound(sub, bound, S, known), bound)
<1> DEFINE r == SerializeBound(sub, bound, S, known)
           m == bound[1]
<1> SUFFICES BoundGood(r, bound)
  OBVIOUS
<1>1. CASE bound = <<>>
  <2>1. r = Done(<<>>, known)
    BY <1>1, Zenon DEF SerializeBound
  <2>0. Done(<<>>, known).cache = known /\ Done(<<>>, known).ok /\ Done(<<>>, known).text = <<>>
    BY Zenon DEF Done
  <2> HIDE DEF r, m
  <2>2. r.cache = known /\ r.ok /\ r.text = <<>>
    BY <2>0, <2>1, Zenon
  <2> QED BY <2>2, <1>1 DEF BoundGood
<1>2. CASE bound # <<>> /\ m.kind = "ref"
  <2>1. r = sub.value[Call(m.to, S, known)]
    BY <1>2, Zenon DEF SerializeBound
  <2>2. m.to \in Refs(o)
    BY <1>2, RefsIs
  <2>3. m.to \in Objects /\ Below(S, m.to)
    BY <2>2, WithinBelow
  <2>4. Good(sub.value[Call(m.to, S, known)], m.to)
    BY <2>3, Zenon DEF ValueGood
  <2>5. Good(r, m.to)
    BY <2>1, <2>4, Zenon
  <2>6. Right(r.cache) /\ r.ok \in BOOLEAN
    BY <2>5, Zenon DEF Good
  <2> HIDE DEF r
  <2> QED BY <2>5, <2>6, <1>2, Zenon DEF BoundGood
<1>3. CASE bound # <<>> /\ m.kind # "ref"
  <2>1. r = Done(Primitive(m), known)
    BY <1>3, Zenon DEF SerializeBound
  <2>0. /\ Done(Primitive(m), known).cache = known /\ Done(Primitive(m), known).ok
        /\ Done(Primitive(m), known).text = Primitive(m)
    BY Zenon DEF Done
  <2> HIDE DEF r
  <2>2. r.cache = known /\ r.ok /\ r.text = Primitive(m)
    BY <2>0, <2>1, Zenon
  <2> QED BY <2>2, <1>3 DEF BoundGood
<1> QED BY <1>1, <1>2, <1>3

\* A bound that was returned is text, and, if its object is sound, reads as it is.
LEMMA BoundReturned ==
    ASSUME Formed, NEW o \in Objects, heap[o].kind = "range", NEW r, NEW bound,
           bound \in Seq(Given), bound # <<>> => bound[1] \in Range(Members(o)),
           BoundGood(r, bound)
    PROVE  /\ r.ok => r.text \in Text
           /\ ~ r.ok => Cyclic(o)
           /\ r.ok /\ Sound(o) /\ bound # <<>> /\ bound[1].kind = "ref" => ~ Cyclic(bound[1].to)
           /\ bound = <<>> => r.text = <<>>
           /\ r.ok /\ Sound(o) /\ ~ Cyclic(o) => \A type \in RangesOf(o) :
                bound # <<>> => BoundReads(bound, r.text, RangeParser(type))
<1> DEFINE m == bound[1]
<1>1. CASE bound = <<>>
  <2>1. r.ok /\ r.text = <<>>
    BY <1>1, Zenon DEF BoundGood
  <2>2. <<>> \in Text
    BY DEF Text
  <2> QED BY <1>1, <2>1, <2>2, Zenon
<1>2. CASE bound # <<>> /\ m.kind # "ref"
  <2>1. r.ok /\ r.text = Primitive(m)
    BY <1>2, Zenon DEF BoundGood
  <2>2. m \in Given
    <3> DEFINE G == Given
    <3>1. bound \in Seq(G)
      OBVIOUS
    <3> HIDE DEF G
    <3>2. Len(bound) \in Nat /\ Len(bound) # 0
      BY <1>2, <3>1
    <3>3. bound[1] \in G
      BY <3>1, <3>2, ElementOfSeq
    <3> QED BY <3>3 DEF G
  <2>3. m \in Member /\ m.kind \in {"text", "number", "bool"}
    BY <2>2, <1>2 DEF Member, Given
  <2>4. Primitive(m) \in Text
    BY <2>3, PrimitiveText
  <2>5. ASSUME ~ Cyclic(o), NEW type \in RangesOf(o)
        PROVE  BoundReads(bound, r.text, RangeParser(type))
    <3>1. m.kind = "number" => r.text = Digits(m.number)
      <4>1. m.kind = "number" => Primitive(m) = Digits(m.number)
        <5> HIDE DEF m
        <5> QED BY DEF Primitive
      <4> QED BY <4>1, <2>1
    <3>2. ~ (m.kind = "ref")
      BY <1>2
    <3> QED BY <3>1, <3>2, <1>2, <2>5, BoundSent
  <2> QED BY <1>2, <2>1, <2>4, <2>5, Zenon
<1>3. CASE bound # <<>> /\ m.kind = "ref"
  <2>1. Good(r, m.to)
    BY <1>3, Zenon DEF BoundGood
  <2>2. m.to \in Refs(o) /\ m.to \in Objects
    BY <1>3, RefsIs
  <2>3. m.to \in Reach({o})
    BY <2>2, ReachStep
  <2>4. ~ r.ok => Cyclic(o)
    BY <2>1, <2>3, CyclicFrom DEF Good
  <2>5. r.ok => r.text \in Text
    BY <2>1 DEF Good, Holds
  <2>6. ASSUME r.ok, Sound(o) PROVE ~ Cyclic(m.to) /\ Represents(m.to, r.text)
    <3>1. Sound(m.to)
      BY <2>2, <2>6, SoundPart
    <3> QED BY <2>1, <2>6, <3>1 DEF Good, Holds
  <2>7. ASSUME r.ok, Sound(o), ~ Cyclic(o), NEW type \in RangesOf(o)
        PROVE  BoundReads(bound, r.text, RangeParser(type))
    <3>1. heap[m.to].kind = "date" => r.text = SerializeDate(heap[m.to].year)
      BY <2>6, <2>7 DEF Represents
    <3>2. ~ (m.kind = "number")
      BY <1>3
    <3> QED BY <3>1, <3>2, <1>3, <2>7, BoundSent
  <2> QED BY <1>3, <2>4, <2>5, <2>6, <2>7, Zenon
<1> QED BY <1>1, <1>2, <1>3

LEMMA RangeMembers ==
    ASSUME Formed, NEW o \in Objects, heap[o].kind = "range"
    PROVE  /\ heap[o].lower \in Seq(Given) /\ heap[o].upper \in Seq(Given)
           /\ heap[o].lower # <<>> => heap[o].lower[1] \in Range(Members(o))
           /\ heap[o].upper # <<>> => heap[o].upper[1] \in Range(Members(o))
           /\ \A m \in Range(Members(o)) : \/ heap[o].lower # <<>> /\ m = heap[o].lower[1]
                                           \/ heap[o].upper # <<>> /\ m = heap[o].upper[1]
<1> DEFINE l == heap[o].lower
           u == heap[o].upper
           G == Given
<1>1. /\ l \in Seq(G) /\ u \in Seq(G)
      /\ \A i \in DOMAIN l : l[i] \in Range(Members(o))
      /\ \A i \in DOMAIN u : u[i] \in Range(Members(o))
  BY BoundMembers
<1>2. Len(l) \in {0, 1} /\ Len(u) \in {0, 1}
  <2>1. heap[o] \in RangeContent
    BY HeapIs, ContentIs DEF Shape
  <2> QED BY <2>1, RangeIs
<1>3. Members(o) = l \o u
  BY MembersIs
<1> HIDE DEF l, u, G
<1>4. /\ l # <<>> => 1 \in DOMAIN l /\ Len(l) = 1
      /\ u # <<>> => 1 \in DOMAIN u /\ Len(u) = 1
      /\ l = <<>> => Len(l) = 0
  BY <1>1, <1>2
<1>5. ASSUME NEW m \in Range(l \o u)
      PROVE  \/ l # <<>> /\ m = l[1]
             \/ u # <<>> /\ m = u[1]
  <2>1. PICK i \in 1 .. Len(l) + Len(u) : m = (l \o u)[i]
    BY <1>1 DEF Range
  <2>2. CASE i <= Len(l)
    <3>1. i = 1 /\ l # <<>> /\ 1 \in 1 .. Len(l)
      BY <2>2, <1>2, <1>4, <1>1
    <3>2. (l \o u)[1] = l[1]
      BY <3>1, <1>1, Joined
    <3> QED BY <2>1, <3>1, <3>2
  <2>3. CASE i > Len(l)
    <3>1. i = Len(l) + 1 /\ u # <<>> /\ 1 \in 1 .. Len(u)
      BY <2>3, <1>2, <1>4, <1>1
    <3>2. (l \o u)[Len(l) + 1] = u[1]
      BY <3>1, <1>1, Joined
    <3> QED BY <2>1, <3>1, <3>2
  <2> QED BY <2>2, <2>3, <1>1
<1> USE DEF l, u, G
<1> QED BY <1>1, <1>3, <1>4, <1>5

\* A range is written with its bounds.
LEMMA RangeGood ==
    ASSUME Formed, NEW sub, NEW n, ValueGood(sub, n), NEW o \in Objects,
           heap[o].kind = "range", NEW S, Within(S, o), Left(S) < n, NEW known, Right(known)
    PROVE  Good(SerializeRange(sub, o, S, known), o)
<1> DEFINE lb == heap[o].lower
           ub == heap[o].upper
           lower == SerializeBound(sub, lb, S, known)
           upper == SerializeBound(sub, ub, S, lower.cache)
           text == RangeText(heap[o], lower.text, upper.text)
           r == SerializeRange(sub, o, S, known)
<1> SUFFICES Good(r, o)
  OBVIOUS
<1>1. r.text = text /\ r.cache = upper.cache /\ (r.ok <=> lower.ok /\ upper.ok) /\ r.ok \in BOOLEAN
  BY Zenon DEF SerializeRange
<1>2. /\ lb \in Seq(Given) /\ ub \in Seq(Given)
      /\ lb # <<>> => lb[1] \in Range(Members(o))
      /\ ub # <<>> => ub[1] \in Range(Members(o))
      /\ \A m \in Range(Members(o)) : \/ lb # <<>> /\ m = lb[1]
                                      \/ ub # <<>> /\ m = ub[1]
  BY RangeMembers
<1>3. BoundGood(lower, lb)
  BY <1>2, SerializeBoundGood
<1>4. Right(lower.cache)
  BY <1>3, Zenon DEF BoundGood
<1>5. BoundGood(upper, ub)
  <2> HIDE DEF lower
  <2> QED BY <1>2, <1>4, SerializeBoundGood
<1> HIDE DEF lower, upper, r
<1>6. /\ lower.ok => lower.text \in Text
      /\ ~ lower.ok => Cyclic(o)
      /\ lower.ok /\ Sound(o) /\ lb # <<>> /\ lb[1].kind = "ref" => ~ Cyclic(lb[1].to)
      /\ lb = <<>> => lower.text = <<>>
      /\ lower.ok /\ Sound(o) /\ ~ Cyclic(o) => \A type \in RangesOf(o) :
           lb # <<>> => BoundReads(lb, lower.text, RangeParser(type))
  BY <1>2, <1>3, BoundReturned
<1>7. /\ upper.ok => upper.text \in Text
      /\ ~ upper.ok => Cyclic(o)
      /\ upper.ok /\ Sound(o) /\ ub # <<>> /\ ub[1].kind = "ref" => ~ Cyclic(ub[1].to)
      /\ ub = <<>> => upper.text = <<>>
      /\ upper.ok /\ Sound(o) /\ ~ Cyclic(o) => \A type \in RangesOf(o) :
           ub # <<>> => BoundReads(ub, upper.text, RangeParser(type))
  BY <1>2, <1>5, BoundReturned
<1>8. Right(r.cache)
  BY <1>1, <1>5, Zenon DEF BoundGood
<1>9. ASSUME ~ r.ok PROVE Cyclic(o)
  BY <1>1, <1>6, <1>7, <1>9
<1>10. ASSUME r.ok PROVE Holds(o, r.text)
  <2>1. lower.ok /\ upper.ok
    BY <1>1, <1>10
  <2>2. text \in Text /\ text # None
    BY <2>1, <1>6, <1>7, RangeTextIs
  <2>3. ASSUME Sound(o) PROVE ~ Cyclic(o)
    <3>1. SUFFICES ASSUME Cyclic(o) PROVE FALSE
      OBVIOUS
    <3>2. PICK q \in Refs(o) : Cyclic(q)
      BY <3>1, CyclicOnly
    <3>3. PICK m \in Range(Members(o)) : m.kind = "ref" /\ m.to = q
      BY <3>2, RefsIs
    <3> QED BY <3>2, <3>3, <2>1, <2>3, <1>2, <1>6, <1>7
  <2>4. ASSUME Sound(o) PROVE Represents(o, text)
    <3>1. ~ Cyclic(o)
      BY <2>3, <2>4
    <3>2. \A type \in RangesOf(o) :
              /\ lb # <<>> => BoundReads(lb, lower.text, RangeParser(type))
              /\ ub # <<>> => BoundReads(ub, upper.text, RangeParser(type))
      BY <3>1, <2>1, <2>4, <1>6, <1>7
    <3>3. (lb = <<>> => lower.text = <<>>) /\ (ub = <<>> => upper.text = <<>>)
      BY <1>6, <1>7
    <3>4. \A type \in Types(o) : Reads(o, type, text)
      BY <3>1, <3>2, <3>3, RangeSent
    <3> QED BY <2>2, <3>4 DEF Represents
  <2> HIDE DEF text
  <2> QED BY <2>2, <2>3, <2>4, <1>1 DEF Holds
<1> QED BY <1>1, <1>8, <1>9, <1>10 DEF Good

-----------------------------------------------------------------------------
(* The members of an array.                                                *)

\* Types a member may be stored in.
Fits(m, type) ==
    /\ m.kind \in {"text", "number", "bool"} => type \in ColumnsOf(m.kind)
    /\ m.kind = "ref" => type \in Types(m.to)

\* A text written for a member, none of whose parts changed after it was sent.
MemberWritten(m, t) ==
    (m.kind = "ref" => Sound(m.to)) =>
        /\ m.kind = "ref" => ~ Cyclic(m.to)
        /\ \A type : Fits(m, type) => Element(type, t, MemberMeaning(m, Known))

\* What is there after i members of o.
AccGood(acc, o, i) ==
    /\ acc.texts \in Seq(Text) /\ Right(acc.cache) /\ acc.ok \in BOOLEAN
    /\ acc.ok => /\ Len(acc.texts) = i
                 /\ \A k \in 1 .. i : MemberWritten(Members(o)[k], acc.texts[k])
    /\ ~ acc.ok => Cyclic(o)

\* A member more in an array.
LEMMA AddedGood ==
    ASSUME NEW o, NEW acc, NEW i \in Nat, AccGood(acc, o, i), acc.ok, NEW t \in Text,
           MemberWritten(Members(o)[i + 1], t), NEW known, Right(known)
    PROVE  AccGood(Added(acc, t, known), o, i + 1)
<1> DEFINE texts == acc.texts
           more == Append(texts, t)
           r == Added(acc, t, known)
<1>1. r.texts = more /\ r.cache = known /\ r.ok = TRUE
  BY DEF Added
<1>2. texts \in Seq(Text) /\ Len(texts) = i
  BY DEF AccGood
<1>3. \A k \in 1 .. i : MemberWritten(Members(o)[k], texts[k])
  BY DEF AccGood
<1> HIDE DEF texts
<1>4. /\ more \in Seq(Text) /\ Len(more) = i + 1
      /\ \A k \in 1 .. i : more[k] = texts[k]
      /\ more[i + 1] = t
  <2> DEFINE T == Text
  <2>1. texts \in Seq(T) /\ t \in T
    BY <1>2
  <2> HIDE DEF T
  <2>2. /\ more \in Seq(T) /\ Len(more) = Len(texts) + 1
        /\ \A k \in 1 .. Len(texts) : more[k] = texts[k]
        /\ more[Len(texts) + 1] = t
    BY <2>1, Last1
  <2> HIDE DEF more
  <2> QED BY <2>2, <1>2 DEF T
<1> HIDE DEF more
<1>5. ASSUME NEW k \in 1 .. i + 1 PROVE MemberWritten(Members(o)[k], more[k])
  <2>1. CASE k \in 1 .. i
    BY <2>1, <1>3, <1>4
  <2>2. CASE k = i + 1
    BY <2>2, <1>4
  <2> QED BY <2>1, <2>2
<1> HIDE DEF r
<1>6. AccGood(r, o, i + 1)
  BY <1>1, <1>4, <1>5 DEF AccGood
<1> QED BY <1>6 DEF r

\* A member that is refused, in an array that contains itself.
LEMMA RefusedGood ==
    ASSUME NEW o, NEW acc, NEW i, AccGood(acc, o, i), NEW known, Right(known), Cyclic(o), NEW j
    PROVE  AccGood(Refused(acc, known), o, j)
<1> DEFINE r == Refused(acc, known)
<1>1. r.texts = acc.texts /\ r.cache = known /\ r.ok = FALSE
  BY DEF Refused
<1>2. acc.texts \in Seq(Text)
  BY DEF AccGood
<1> HIDE DEF r
<1>3. AccGood(r, o, j)
  BY <1>1, <1>2 DEF AccGood
<1> QED BY <1>3 DEF r

\* Members that are no objects.
LEMMA PlainWritten ==
    ASSUME NEW m \in Member, m.kind # "ref"
    PROVE  /\ m.kind = "null" => NullText \in Text /\ MemberWritten(m, NullText)
           /\ m.kind \in {"bool", "number"} => Primitive(m) \in Text /\ MemberWritten(m, Primitive(m))
           /\ m.kind = "text" => Quote(m.text) \in Text /\ MemberWritten(m, Quote(m.text))
<1>1. CASE m.kind = "null"
  <2>1. MemberMeaning(m, Known) = Nothing
    BY <1>1 DEF MemberMeaning
  <2>2. \A type : Element(type, NullText, MemberMeaning(m, Known))
    BY <2>1, ElementNull
  <2>3. NullText \in Text
    BY ElementNull
  <2> QED BY <1>1, <2>2, <2>3 DEF MemberWritten
<1>2. CASE m.kind \in {"bool", "number"}
  <2>1. Primitive(m) \in Text
    BY <1>2, PrimitiveText
  <2>2. ASSUME NEW type, Fits(m, type) PROVE Element(type, Primitive(m), MemberMeaning(m, Known))
    <3>1. type \in ColumnsOf(m.kind) /\ m.kind \in {"text", "number", "bool"} /\ m.kind # "text"
      BY <1>2, <2>2 DEF Fits
    <3> QED BY <3>1, ElementPrimitive
  <2> QED BY <1>2, <2>1, <2>2 DEF MemberWritten
<1>3. CASE m.kind = "text"
  <2>1. Primitive(m) = m.text /\ m.text \in Text
    BY <1>3, GivenIs DEF Primitive
  <2>2. Quote(m.text) \in Text
    BY <2>1, QuoteText
  <2>3. ASSUME NEW type, Fits(m, type) PROVE Element(type, Quote(m.text), MemberMeaning(m, Known))
    <3>1. type \in ColumnsOf(m.kind) /\ m.kind \in {"text", "number", "bool"}
      BY <1>3, <2>3 DEF Fits
    <3>2. Element(type, Quote(Primitive(m)), MemberMeaning(m, Known))
      BY <3>1, ElementPrimitive
    <3> QED BY <3>2, <2>1
  <2> QED BY <1>3, <2>2, <2>3 DEF MemberWritten
<1> QED BY <1>1, <1>2, <1>3

\* A member that is an object, with a text that may be kept for it.
LEMMA HeldWritten ==
    ASSUME Formed, NEW m, m.kind = "ref", m.to \in Objects, NEW t, Holds(m.to, t)
    PROVE  /\ heap[m.to].kind = "array" => MemberWritten(m, t)
           /\ heap[m.to].kind # "array" => MemberWritten(m, Quote(t))
<1>1. MemberMeaning(m, Known) = Denotes(m.to)
  BY DEF MemberMeaning, Known
<1>2. t \in Text
  BY DEF Holds
<1>3. ASSUME Sound(m.to) PROVE ~ Cyclic(m.to) /\ Represents(m.to, t)
  BY <1>3 DEF Holds
<1>4. ASSUME Sound(m.to), NEW type, Fits(m, type) PROVE Reads(m.to, type, t)
  BY <1>3, <1>4 DEF Fits, Represents
<1>5. ASSUME heap[m.to].kind = "array", Sound(m.to), NEW type, Fits(m, type)
      PROVE  Element(type, t, MemberMeaning(m, Known))
  BY <1>1, <1>4, <1>5 DEF Reads
<1>6. ASSUME heap[m.to].kind # "array", Sound(m.to), NEW type, Fits(m, type)
      PROVE  Element(type, Quote(t), MemberMeaning(m, Known))
  <2>1. Leaf(Parse(type, t)) = Denotes(m.to)
    BY <1>4, <1>6 DEF Reads
  <2>2. Element(type, Quote(t), Leaf(Parse(type, t)))
    BY <1>2, ElementQuoted
  <2> QED BY <2>1, <2>2, <1>1
<1> QED BY <1>3, <1>5, <1>6 DEF MemberWritten

\* A nested array: kept, part of itself, or to be written.
LEMMA NestedGood ==
    ASSUME Formed, NEW sub, NEW n, ArrayGood(sub, n), NEW o \in Objects,
           NEW S, Within(S, o), Left(S) < n, NEW acc, NEW i \in Nat, AccGood(acc, o, i), acc.ok,
           NEW m, m = Members(o)[i + 1], m.kind = "ref", m.to \in Refs(o),
           heap[m.to].kind = "array"
    PROVE  AccGood(SerializeNested(sub, acc, m.to, S), o, i + 1)
<1> DEFINE p == m.to
           r == sub.array[Call(p, S \cup {p}, acc.cache)]
           known == acc.cache
           kept == [r.cache EXCEPT ![p] = r.text]
           w == SerializeNested(sub, acc, p, S)
<1> SUFFICES AccGood(w, o, i + 1)
  OBVIOUS
<1>1. p \in Objects /\ Below(S, p)
  BY WithinBelow
<1>2. Right(known)
  BY DEF AccGood
<1>3. CASE known[p] # None
  <2>1. w = Added(acc, known[p], known)
    BY <1>3, Zenon DEF SerializeNested
  <2>2. Holds(p, known[p])
    BY <1>1, <1>2, <1>3 DEF Right
  <2>3. known[p] \in Text /\ MemberWritten(m, known[p])
    <3>1. known[p] \in Text
      BY <2>2 DEF Holds
    <3> QED BY <3>1, <1>1, <2>2, HeldWritten
  <2> HIDE DEF w
  <2> QED BY <2>1, <2>3, <1>2, AddedGood
<1>4. CASE known[p] = None /\ p \in S
  <2>1. w = Refused(acc, known)
    BY <1>4, Zenon DEF SerializeNested
  <2>2. p \in Reach(Refs(p))
    BY <1>1, <1>4 DEF Below
  <2>3. Cyclic(o)
    <3>1. p \in Reach({o})
      BY ReachStep
    <3> QED BY <2>2, <3>1 DEF Cyclic
  <2> HIDE DEF w
  <2> QED BY <2>1, <2>3, <1>2, RefusedGood
<1>5. CASE known[p] = None /\ p \notin S
  <2>1. Within(S \cup {p}, p) /\ Left(S \cup {p}) + 1 < n
    BY ZenonT(30), <1>1, <1>5, Pushed
  <2>2. Good(r, p)
    <3>1. heap[p].kind = "array"
      BY SMTT(30)
    <3> QED BY <1>1, <1>2, <2>1, <3>1, Zenon DEF ArrayGood
  <2>3. Right(r.cache) /\ r.ok \in BOOLEAN
    BY <2>2 DEF Good
  <2>4. CASE r.ok
    <3>1. w = Added(acc, r.text, kept)
      BY <1>5, <2>4, Zenon DEF SerializeNested
    <3>2. Holds(p, r.text)
      BY <2>2, <2>4 DEF Good
    <3>3. r.text \in Text /\ MemberWritten(m, r.text)
      <4>1. r.text \in Text
        BY SMTT(30), <3>2 DEF Holds
      <4> QED BY <4>1, <1>1, <3>2, HeldWritten
    <3>4. Right(kept)
      BY ZenonT(30), <2>3, <3>2, <1>1, Kept
    <3> HIDE DEF w, kept, r
    <3> QED BY <3>1, <3>3, <3>4, AddedGood
  <2>5. CASE ~ r.ok
    <3>1. w = Refused(acc, r.cache)
      BY <1>5, <2>5, Zenon DEF SerializeNested
    <3>2. Cyclic(o)
      <4>1. p \in Reach({o})
        BY ReachStep
      <4> QED BY <4>1, <2>2, <2>5, CyclicFrom DEF Good
    <3> HIDE DEF w, r
    <3> QED BY SMTT(30), <3>1, <3>2, <2>3, RefusedGood
  <2> QED BY <2>4, <2>5
<1> QED BY <1>3, <1>4, <1>5

\* Another object, which is quoted.
LEMMA OtherGood ==
    ASSUME Formed, NEW sub, NEW n, ValueGood(sub, n), NEW o \in Objects,
           NEW S, Within(S, o), Left(S) < n, NEW acc, NEW i \in Nat, AccGood(acc, o, i), acc.ok,
           NEW m, m = Members(o)[i + 1], m.kind = "ref", m.to \in Refs(o),
           heap[m.to].kind # "array"
    PROVE  AccGood(SerializeOther(sub, acc, m.to, S), o, i + 1)
<1> DEFINE p == m.to
           r == sub.value[Call(p, S, acc.cache)]
           w == SerializeOther(sub, acc, p, S)
<1> SUFFICES AccGood(w, o, i + 1)
  OBVIOUS
<1>1. p \in Objects /\ Below(S, p)
  BY WithinBelow
<1>2. Right(acc.cache)
  BY DEF AccGood
<1>3. Good(r, p)
  BY <1>1, <1>2, Zenon DEF ValueGood
<1>4. Right(r.cache) /\ r.ok \in BOOLEAN
  BY <1>3 DEF Good
<1>5. CASE r.ok
  <2>1. w = Added(acc, Quote(r.text), r.cache)
    BY ZenonT(30), <1>5 DEF SerializeOther
  <2>2. Holds(p, r.text)
    BY <1>3, <1>5 DEF Good
  <2>3. Quote(r.text) \in Text /\ MemberWritten(m, Quote(r.text))
    <3>1. r.text \in Text
      BY <2>2 DEF Holds
    <3>2. Quote(r.text) \in Text
      BY <3>1, QuoteText
    <3> QED BY <3>2, <1>1, <2>2, HeldWritten
  <2> HIDE DEF w, r
  <2> QED BY <2>1, <2>3, <1>4, AddedGood
<1>6. CASE ~ r.ok
  <2>1. w = Refused(acc, r.cache)
    BY <1>6, Zenon DEF SerializeOther
  <2>2. Cyclic(o)
    <3>1. p \in Reach({o})
      BY ReachStep
    <3> QED BY <3>1, <1>3, <1>6, CyclicFrom DEF Good
  <2> HIDE DEF w, r
  <2> QED BY <2>1, <2>2, <1>4, RefusedGood
<1> QED BY <1>5, <1>6

\* One member more.
LEMMA MemberGood ==
    ASSUME Formed, NEW sub, NEW n, ValueGood(sub, n), ArrayGood(sub, n), NEW o \in Objects,
           NEW S, Within(S, o), Left(S) < n, NEW acc, NEW i \in Nat, AccGood(acc, o, i),
           i + 1 \in 1 .. Len(Members(o))
    PROVE  AccGood(SerializeMember(sub, acc, Members(o)[i + 1], S), o, i + 1)
<1> DEFINE m == Members(o)[i + 1]
           w == SerializeMember(sub, acc, m, S)
<1> SUFFICES AccGood(w, o, i + 1)
  OBVIOUS
<1>1. m \in Member /\ m \in Range(Members(o))
  <2> DEFINE M == Member
  <2>1. Members(o) \in Seq(M)
    BY MembersIs
  <2> HIDE DEF M
  <2>2. m \in M
    BY <2>1, ElementOfSeq
  <2>3. i + 1 \in DOMAIN Members(o)
    BY <2>1
  <2> QED BY <2>2, <2>3 DEF M, Range
<1>2. m = Members(o)[i + 1]
  OBVIOUS
<1> HIDE DEF m
<1>3. /\ m.kind \in {"null", "text", "number", "bool", "ref"}
      /\ m.kind = "ref" => m.to \in Refs(o) /\ m.to \in Objects
  <2>1. m.kind \in {"null", "text", "number", "bool", "ref"}
    BY <1>1, GivenIs
  <2> QED BY <2>1, <1>1, RefsIs
<1>4. Right(acc.cache) /\ acc.ok \in BOOLEAN
  BY DEF AccGood
<1>5. CASE ~ acc.ok
  <2>1. w = acc
    BY <1>5, Zenon DEF SerializeMember
  <2> HIDE DEF w
  <2> QED BY <2>1, <1>5 DEF AccGood
<1>6. CASE acc.ok /\ m.kind = "null"
  <2>1. w = Added(acc, NullText, acc.cache)
    BY <1>6, Zenon DEF SerializeMember
  <2>2. NullText \in Text /\ MemberWritten(m, NullText)
    BY <1>1, <1>6, PlainWritten
  <2> HIDE DEF w
  <2> QED BY <2>1, <2>2, <1>2, <1>4, <1>6, AddedGood
<1>7. CASE acc.ok /\ m.kind \in {"bool", "number"}
  <2>0. m.kind # "null"
    BY <1>7
  <2>1. w = Added(acc, Primitive(m), acc.cache)
    BY <2>0, <1>7, Zenon DEF SerializeMember
  <2>2. Primitive(m) \in Text /\ MemberWritten(m, Primitive(m))
    BY <1>1, <1>7, PlainWritten
  <2> HIDE DEF w
  <2> QED BY <2>1, <2>2, <1>2, <1>4, <1>7, AddedGood
<1>8. CASE acc.ok /\ m.kind = "text"
  <2>0. m.kind # "null" /\ m.kind \notin {"bool", "number"}
    BY <1>8
  <2>1. w = Added(acc, Quote(m.text), acc.cache)
    BY <2>0, <1>8, Zenon DEF SerializeMember
  <2>2. Quote(m.text) \in Text /\ MemberWritten(m, Quote(m.text))
    BY <1>1, <1>8, PlainWritten
  <2> HIDE DEF w
  <2> QED BY <2>1, <2>2, <1>2, <1>4, <1>8, AddedGood
<1>9. CASE acc.ok /\ m.kind = "ref"
  <2>0. m.kind # "null" /\ m.kind \notin {"bool", "number"} /\ m.kind # "text"
    BY <1>9
  <2>1. CASE heap[m.to].kind = "array"
    <3>1. w = SerializeNested(sub, acc, m.to, S)
      BY <2>0, <2>1, <1>9, Zenon DEF SerializeMember
    <3>2. AccGood(SerializeNested(sub, acc, m.to, S), o, i + 1)
      BY <2>1, <1>2, <1>3, <1>9, NestedGood
    <3> QED BY <3>1, <3>2, Zenon
  <2>2. CASE heap[m.to].kind = "bytes"
    <3> DEFINE p == m.to
               b == heap[p].bytes
    <3>0. heap[m.to].kind # "array"
      BY <2>2
    <3>1. w = Added(acc, BytesText(b), acc.cache)
      BY <3>0, <2>0, <2>2, <1>9, Zenon DEF SerializeMember, BytesText
    <3>2. Represents(p, SingleText(p)) /\ ~ Cyclic(p)
      BY <1>3, <1>9, <2>2, SingleReads, SingleIs
    <3>3. SingleText(p) = SerializeByteA(b)
      BY <2>2 DEF SingleText
    <3>4. b \in Seq(0 .. 255)
      <4>1. Shape(heap[p])
        BY <1>3, <1>9, HeapIs, ContentIs
      <4> QED BY <4>1, <2>2 DEF Shape, ByteSeqs
    <3>5. BytesText(b) = Quote(SerializeByteA(b))
      BY <3>4, BytesQuoted
    <3>6. Holds(p, SerializeByteA(b))
      <4> HIDE DEF p, b
      <4> QED BY <3>2, <3>3 DEF Holds, Represents
    <3>7. BytesText(b) \in Text /\ MemberWritten(m, BytesText(b))
      <4>1. SerializeByteA(b) \in Text
        BY <3>6 DEF Holds
      <4>2. Quote(SerializeByteA(b)) \in Text
        BY <4>1, QuoteText
      <4>3. MemberWritten(m, Quote(SerializeByteA(b)))
        BY <3>0, <3>6, <1>3, <1>9, HeldWritten
      <4> QED BY <4>2, <4>3, <3>5
    <3> HIDE DEF w
    <3> QED BY <3>1, <3>7, <1>2, <1>4, <1>9, AddedGood
  <2>3. CASE heap[m.to].kind \notin {"array", "bytes"}
    <3>0. heap[m.to].kind # "array" /\ heap[m.to].kind # "bytes"
      BY <2>3
    <3>1. w = SerializeOther(sub, acc, m.to, S)
      BY <3>0, <2>0, <1>9, Zenon DEF SerializeMember
    <3>2. AccGood(SerializeOther(sub, acc, m.to, S), o, i + 1)
      BY <3>0, <1>2, <1>3, <1>9, OtherGood
    <3> QED BY <3>1, <3>2, Zenon
  <2> QED BY <2>1, <2>2, <2>3
<1> QED BY <1>3, <1>4, <1>5, <1>6, <1>7, <1>8, <1>9

\* What is there after every member of an array.
Adds(g, sub, members, S, known) ==
    /\ g[0] = [texts |-> <<>>, cache |-> known, ok |-> TRUE]
    /\ \A n \in 1 .. Len(members) : g[n] = SerializeMember(sub, g[n - 1], members[n], S)

LEMMA Adding ==
    ASSUME NEW sub, NEW members, Len(members) \in Nat, NEW S, NEW known
    PROVE  \E g : Adds(g, sub, members, S, known) /\ SerializeMembers(sub, members, S, known) = g[Len(members)]
<1> DEFINE L == Len(members)
           base == [texts |-> <<>>, cache |-> known, ok |-> TRUE]
           f[n \in 0 .. L] == IF n = 0 THEN base ELSE SerializeMember(sub, f[n - 1], members[n], S)
           T == {m \in 0 .. L : \E g : g = [n \in 0 .. m |->
                                    IF n = 0 THEN base ELSE SerializeMember(sub, g[n - 1], members[n], S)]}
<1>1. L \in Nat
  OBVIOUS
<1>2. SerializeMembers(sub, members, S, known) = f[L]
  BY DEF SerializeMembers
<1> HIDE DEF L, base
<1>3. 0 \in T
  <2> DEFINE g == [n \in 0 .. 0 |-> base]
  <2>1. g = [n \in 0 .. 0 |-> IF n = 0 THEN base ELSE SerializeMember(sub, g[n - 1], members[n], S)]
    <3>1. \A n \in 0 .. 0 : n = 0
      OBVIOUS
    <3> QED BY <3>1
  <2> HIDE DEF g
  <2>2. 0 \in 0 .. L
    BY <1>1
  <2> QED BY <2>1, <2>2
<1>4. ASSUME NEW m \in 0 .. L, m \in T, m < L PROVE m + 1 \in T
  <2>1. PICK h : h = [n \in 0 .. m |-> IF n = 0 THEN base ELSE SerializeMember(sub, h[n - 1], members[n], S)]
    BY <1>4
  <2> DEFINE g == [n \in 0 .. (m + 1) |-> IF n = m + 1 THEN SerializeMember(sub, h[m], members[m + 1], S) ELSE h[n]]
  <2>2. ASSUME NEW n \in 0 .. (m + 1)
        PROVE  g[n] = IF n = 0 THEN base ELSE SerializeMember(sub, g[n - 1], members[n], S)
    <3>1. CASE n = 0
      <4>1. 0 # m + 1 /\ 0 \in 0 .. m
        OBVIOUS
      <4>2. g[n] = h[0] /\ h[0] = base
        BY <3>1, <4>1, <2>1
      <4> HIDE DEF g
      <4> QED BY <4>2, <3>1
    <3>2. CASE n # 0
      <4>1. n - 1 \in 0 .. m /\ n - 1 # m + 1 /\ n - 1 \in 0 .. (m + 1)
        BY <3>2
      <4>2. g[n - 1] = h[n - 1]
        BY <4>1
      <4>3. g[n] = SerializeMember(sub, h[n - 1], members[n], S)
        <5>1. CASE n = m + 1
          <6>1. n - 1 = m /\ g[n] = SerializeMember(sub, h[m], members[m + 1], S)
            BY <5>1
          <6> HIDE DEF g
          <6> QED BY <6>1, <5>1
        <5>2. CASE n # m + 1
          <6>1. n \in 0 .. m /\ g[n] = h[n]
            BY <5>2
          <6>2. h[n] = SerializeMember(sub, h[n - 1], members[n], S)
            BY <6>1, <2>1, <3>2
          <6> HIDE DEF g
          <6> QED BY <6>1, <6>2
        <5> QED BY <5>1, <5>2
      <4> HIDE DEF g
      <4> QED BY <4>2, <4>3, <3>2
    <3> QED BY <3>1, <3>2
  <2>3. g = [n \in 0 .. (m + 1) |-> g[n]]
    OBVIOUS
  <2> HIDE DEF g
  <2>4. g = [n \in 0 .. (m + 1) |-> IF n = 0 THEN base ELSE SerializeMember(sub, g[n - 1], members[n], S)]
    BY <2>2, <2>3
  <2>5. m + 1 \in 0 .. L
    BY <1>1, <1>4
  <2> QED BY <2>4, <2>5
<1>5. L \in T
  <2>1. L \in 0 .. L
    BY <1>1
  <2> HIDE DEF T
  <2> QED BY <2>1, <1>1, <1>3, <1>4, Upward
<1>6. f = [n \in 0 .. L |-> IF n = 0 THEN base ELSE SerializeMember(sub, f[n - 1], members[n], S)]
  <2> HIDE DEF base
  <2> QED BY <1>5 DEF f
<1> HIDE DEF f
<1>7. f[0] = base
  BY <1>1, <1>6
<1>8. ASSUME NEW n \in 1 .. L PROVE f[n] = SerializeMember(sub, f[n - 1], members[n], S)
  <2>1. n \in 0 .. L /\ n # 0
    BY <1>1
  <2> QED BY <2>1, <1>6
<1>9. Adds(f, sub, members, S, known)
  BY <1>7, <1>8 DEF Adds, base, L
<1> QED BY <1>2, <1>9 DEF L

\* The serializers, one call deeper at a time.
Deepens(g) ==
    /\ g[0] = [array |-> [c \in Calls |-> Thrown(c.cache)],
               value |-> [c \in Calls |-> Thrown(c.cache)]]
    /\ \A n \in 1 .. Deepest : g[n] = Level(g[n - 1])

\* The calls of serialize(), level by level.
LEMMA Deepening ==
    ASSUME Deepest \in Nat
    PROVE  \E g : Deepens(g) /\ Serializers = g[Deepest]
<1> DEFINE L == Deepest
           base == [array |-> [c \in Calls |-> Thrown(c.cache)],
                    value |-> [c \in Calls |-> Thrown(c.cache)]]
           f[n \in 0 .. L] == IF n = 0 THEN base ELSE Level(f[n - 1])
           T == {m \in 0 .. L : \E g : g = [n \in 0 .. m |->
                                    IF n = 0 THEN base ELSE Level(g[n - 1])]}
<1>1. L \in Nat
  OBVIOUS
<1>2. Serializers = f[L]
  BY DEF Serializers
<1> HIDE DEF L, base
<1>3. 0 \in T
  <2> DEFINE g == [n \in 0 .. 0 |-> base]
  <2>1. g = [n \in 0 .. 0 |-> IF n = 0 THEN base ELSE Level(g[n - 1])]
    <3>1. \A n \in 0 .. 0 : n = 0
      OBVIOUS
    <3> QED BY <3>1
  <2> HIDE DEF g
  <2>2. 0 \in 0 .. L
    BY <1>1
  <2> QED BY <2>1, <2>2
<1>4. ASSUME NEW m \in 0 .. L, m \in T, m < L PROVE m + 1 \in T
  <2>1. PICK h : h = [n \in 0 .. m |-> IF n = 0 THEN base ELSE Level(h[n - 1])]
    BY <1>4
  <2> DEFINE g == [n \in 0 .. (m + 1) |-> IF n = m + 1 THEN Level(h[m]) ELSE h[n]]
  <2>2. ASSUME NEW n \in 0 .. (m + 1)
        PROVE  g[n] = IF n = 0 THEN base ELSE Level(g[n - 1])
    <3>1. CASE n = 0
      <4>1. 0 # m + 1 /\ 0 \in 0 .. m
        OBVIOUS
      <4>2. g[n] = h[0] /\ h[0] = base
        BY <3>1, <4>1, <2>1
      <4> HIDE DEF g
      <4> QED BY <4>2, <3>1
    <3>2. CASE n # 0
      <4>1. n - 1 \in 0 .. m /\ n - 1 # m + 1 /\ n - 1 \in 0 .. (m + 1)
        BY <3>2
      <4>2. g[n - 1] = h[n - 1]
        BY <4>1
      <4>3. g[n] = Level(h[n - 1])
        <5>1. CASE n = m + 1
          <6>1. n - 1 = m /\ g[n] = Level(h[m])
            BY <5>1
          <6> HIDE DEF g
          <6> QED BY <6>1, <5>1
        <5>2. CASE n # m + 1
          <6>1. n \in 0 .. m /\ g[n] = h[n]
            BY <5>2
          <6>2. h[n] = Level(h[n - 1])
            BY <6>1, <2>1, <3>2
          <6> HIDE DEF g
          <6> QED BY <6>1, <6>2
        <5> QED BY <5>1, <5>2
      <4> HIDE DEF g
      <4> QED BY <4>2, <4>3, <3>2
    <3> QED BY <3>1, <3>2
  <2>3. g = [n \in 0 .. (m + 1) |-> g[n]]
    OBVIOUS
  <2> HIDE DEF g
  <2>4. g = [n \in 0 .. (m + 1) |-> IF n = 0 THEN base ELSE Level(g[n - 1])]
    BY <2>2, <2>3
  <2>5. m + 1 \in 0 .. L
    BY <1>1, <1>4
  <2> QED BY <2>4, <2>5
<1>5. L \in T
  <2>1. L \in 0 .. L
    BY <1>1
  <2> HIDE DEF T
  <2> QED BY <2>1, <1>1, <1>3, <1>4, Upward
<1>6. f = [n \in 0 .. L |-> IF n = 0 THEN base ELSE Level(f[n - 1])]
  <2> HIDE DEF base
  <2> QED BY <1>5 DEF f
<1> HIDE DEF f
<1>7. f[0] = base
  BY <1>1, <1>6
<1>8. ASSUME NEW n \in 1 .. L PROVE f[n] = Level(f[n - 1])
  <2>1. n \in 0 .. L /\ n # 0
    BY <1>1
  <2> QED BY <2>1, <1>6
<1>9. Deepens(f)
  BY <1>7, <1>8 DEF Deepens, base, L
<1> QED BY <1>2, <1>9 DEF L

\* Every member of an array has been written, or o contains itself.
LEMMA MembersGood ==
    ASSUME Formed, NEW sub, NEW n, ValueGood(sub, n), ArrayGood(sub, n), NEW o \in Objects,
           NEW S, Within(S, o), Left(S) < n, NEW known, Right(known)
    PROVE  AccGood(SerializeMembers(sub, Members(o), S, known), o, Len(Members(o)))
<1> DEFINE ms == Members(o)
           L == Len(ms)
<1>1. L \in Nat
  <2> DEFINE M == Member
  <2>1. ms \in Seq(M)
    BY MembersIs
  <2> HIDE DEF M, ms
  <2> QED BY <2>1
<1>2. PICK g : Adds(g, sub, ms, S, known) /\ SerializeMembers(sub, ms, S, known) = g[L]
  BY <1>1, Adding
<1> DEFINE T == {i \in 0 .. L : AccGood(g[i], o, i)}
<1>3. 0 \in T
  <2> DEFINE acc == g[0]
  <2>1. acc.texts = <<>> /\ acc.cache = known /\ acc.ok = TRUE
    BY <1>2 DEF Adds
  <2>2. <<>> \in Seq(Text) /\ Len(<<>>) = 0
    OBVIOUS
  <2> HIDE DEF acc
  <2> DEFINE none == <<>>
  <2>3. none \in Seq(Text) /\ Len(none) = 0 /\ acc.texts = none
    BY <2>1, <2>2
  <2>4. \A k \in 1 .. 0 : MemberWritten(Members(o)[k], acc.texts[k])
    OBVIOUS
  <2> HIDE DEF none
  <2>5. AccGood(acc, o, 0)
    BY <2>1, <2>3, <2>4 DEF AccGood
  <2> QED BY <2>5, <1>1 DEF acc
<1>4. ASSUME NEW i \in 0 .. L, i \in T, i < L PROVE i + 1 \in T
  <2>1. i \in Nat /\ i + 1 \in 1 .. L /\ i + 1 \in 0 .. L /\ (i + 1) - 1 = i
    BY <1>1, <1>4
  <2>2. g[i + 1] = SerializeMember(sub, g[i], ms[i + 1], S)
    BY <2>1, <1>2, Zenon DEF Adds
  <2>3. AccGood(g[i], o, i)
    BY <1>4
  <2>4. AccGood(SerializeMember(sub, g[i], ms[i + 1], S), o, i + 1)
    BY <2>1, <2>3, MemberGood
  <2>5. AccGood(g[i + 1], o, i + 1)
    BY <2>2, <2>4, Zenon
  <2> QED BY <2>1, <2>5
<1>5. \A i \in 0 .. L : i \in T
  <2> HIDE DEF T, L
  <2> QED BY <1>1, <1>3, <1>4, Upward
<1>6. AccGood(g[L], o, L)
  <2> HIDE DEF L
  <2> QED BY <1>1, <1>5
<1> QED BY <1>2, <1>6, Zenon

LEMMA ArrayContentGood ==
    ASSUME Formed, NEW sub, NEW n, ValueGood(sub, n), ArrayGood(sub, n), NEW o \in Objects,
           heap[o].kind = "array", NEW S, Within(S, o), Left(S) < n, NEW known, Right(known)
    PROVE  Good(SerializeArray(sub, o, S, known), o)
<1> DEFINE ms == Members(o)
           acc == SerializeMembers(sub, ms, S, known)
           r == SerializeArray(sub, o, S, known)
           texts == acc.texts
           text == ListText(texts)
<1> SUFFICES Good(r, o)
  OBVIOUS
<1>1. ms = heap[o].members
  BY MembersIs
<1>2. AccGood(acc, o, Len(ms))
  BY MembersGood
<1>3. r.text = text /\ r.cache = acc.cache /\ r.ok = acc.ok
  <2>1. SerializeMembers(sub, heap[o].members, S, known) = acc
    BY <1>1
  <2> HIDE DEF acc
  <2> QED BY <2>1, Zenon DEF SerializeArray, ListText
<1> HIDE DEF acc, r
<1>4. Right(acc.cache) /\ acc.ok \in BOOLEAN /\ (~ acc.ok => Cyclic(o)) /\ texts \in Seq(Text)
  BY <1>2 DEF AccGood
<1>5. ASSUME acc.ok PROVE Holds(o, text)
  <2>1. Len(texts) = Len(ms) /\ \A k \in 1 .. Len(ms) : MemberWritten(ms[k], texts[k])
    BY <1>2, <1>5 DEF AccGood
  <2> HIDE DEF texts
  <2>2. text \in Text /\ text # None
    BY <1>4, ListIs DEF None
  <2>3. \A k \in 1 .. Len(ms) : ms[k] \in Range(ms)
    <3> DEFINE M == Member
    <3>1. ms \in Seq(M)
      BY MembersIs
    <3> HIDE DEF M, ms
    <3> QED BY <3>1 DEF Range
  <2>4. ASSUME Sound(o), NEW k \in 1 .. Len(ms), ms[k].kind = "ref" PROVE Sound(ms[k].to)
    <3>1. ms[k].to \in Refs(o)
      BY <2>3, <2>4, RefsIs
    <3> QED BY <3>1, <2>4, SoundPart
  <2>5. ASSUME Sound(o) PROVE ~ Cyclic(o)
    <3>1. SUFFICES ASSUME Cyclic(o) PROVE FALSE
      OBVIOUS
    <3>2. PICK q \in Refs(o) : Cyclic(q)
      BY <3>1, CyclicOnly
    <3>3. PICK m \in Range(ms) : m.kind = "ref" /\ m.to = q
      BY <3>2, RefsIs
    <3>4. PICK k \in 1 .. Len(ms) : ms[k] = m
      <4> DEFINE M == Member
      <4>1. ms \in Seq(M)
        BY MembersIs
      <4> HIDE DEF M, ms
      <4> QED BY <4>1, <3>3 DEF Range
    <3>5. MemberWritten(ms[k], texts[k]) /\ Sound(ms[k].to)
      BY <2>1, <2>4, <2>5, <3>3, <3>4
    <3> HIDE DEF ms
    <3> QED BY <3>2, <3>3, <3>4, <3>5 DEF MemberWritten
  <2>6. ASSUME Sound(o), NEW type \in Types(o) PROVE Reads(o, type, text)
    <3>1. ASSUME NEW k \in 1 .. Len(ms)
          PROVE  Element(type, texts[k], MemberMeaning(ms[k], Known))
      <4>1. MemberWritten(ms[k], texts[k])
        BY <2>1
      <4>2. ms[k].kind = "ref" => Sound(ms[k].to)
        BY <2>4, <2>6
      <4>3. Fits(ms[k], type)
        BY <2>3, TypesMember DEF Fits
      <4> HIDE DEF ms
      <4> QED BY <4>1, <4>2, <4>3 DEF MemberWritten
    <3>2. ~ Cyclic(o)
      BY <2>5, <2>6
    <3>3. /\ Len(texts) = Len(heap[o].members)
          /\ \A i \in 1 .. Len(texts) :
                Element(type, texts[i], MemberMeaning(heap[o].members[i], Known))
      BY <3>1, <2>1, <1>1
    <3> QED BY <3>2, <3>3, <1>4, ArrayReads
  <2>7. ASSUME Sound(o) PROVE Represents(o, text)
    <3> HIDE DEF text
    <3> QED BY <2>2, <2>6, <2>7 DEF Represents
  <2> QED BY <2>2, <2>5, <2>7 DEF Holds
<1>6. r.ok => Holds(o, r.text)
  BY <1>3, <1>5
<1> HIDE DEF texts, text
<1> QED BY <1>3, <1>4, <1>6 DEF Good

\* What serializeValue() does where nothing is kept yet.
LEMMA ContentGood ==
    ASSUME Formed, NEW sub, NEW n, ValueGood(sub, n), ArrayGood(sub, n), NEW o \in Objects,
           NEW S, Within(S, o), Left(S) < n, NEW known, Right(known)
    PROVE  Good(SerializeContent(sub, o, S, known), o)
<1> DEFINE r == SerializeContent(sub, o, S, known)
<1> SUFFICES Good(r, o)
  OBVIOUS
<1>1. CASE heap[o].kind = "array"
  <2>1. r = SerializeArray(sub, o, S, known)
    BY <1>1 DEF SerializeContent
  <2> HIDE DEF r
  <2> QED BY <1>1, <2>1, ArrayContentGood
<1>2. CASE heap[o].kind = "range"
  <2>1. r = SerializeRange(sub, o, S, known)
    BY <1>2 DEF SerializeContent
  <2> HIDE DEF r
  <2> QED BY <1>2, <2>1, RangeGood
<1>3. CASE heap[o].kind \notin {"array", "range"}
  <2>1. ~ Cyclic(o) /\ heap[o].kind \in {"bytes", "date", "circle", "json"}
    BY <1>3, SingleIs
  <2>2. Represents(o, SingleText(o))
    BY <1>3, SingleReads
  <2>3. Holds(o, SingleText(o))
    BY <2>1, <2>2 DEF Holds, Represents
  <2> DEFINE t == SingleText(o)
  <2>4. r = Done(t, known)
    <3>1. CASE heap[o].kind = "bytes"
      BY <3>1 DEF SerializeContent, SingleText
    <3>2. CASE heap[o].kind = "date"
      BY <3>2 DEF SerializeContent, SingleText
    <3>3. CASE heap[o].kind = "circle"
      BY <3>3 DEF SerializeContent, SingleText
    <3>4. CASE heap[o].kind = "json"
      BY <3>4 DEF SerializeContent, SingleText
    <3> QED BY <2>1, <3>1, <3>2, <3>3, <3>4
  <2>5. Done(t, known).text = t /\ Done(t, known).cache = known /\ Done(t, known).ok
    BY Zenon DEF Done
  <2> HIDE DEF t, r
  <2>6. r.text = t /\ r.cache = known /\ r.ok
    BY <2>4, <2>5, Zenon
  <2>7. r.ok = TRUE
    BY <2>4 DEF Done
  <2>8. r.ok \in BOOLEAN
    BY <2>7
  <2> QED BY <2>6, <2>8, <2>3 DEF Good, t
<1> QED BY <1>1, <1>2, <1>3

\* serializeValue(), where deeper calls are right.
LEMMA SerializeValueGood ==
    ASSUME Formed, NEW sub, NEW n \in Nat, ValueGood(sub, n), ArrayGood(sub, n),
           NEW o \in Objects, NEW S, Below(S, o), Left(S) < n + 1, NEW known, Right(known)
    PROVE  Good(SerializeValue(sub, o, S, known), o)
<1> DEFINE r == SerializeContent(sub, o, S \cup {o}, known)
           kept == [r.cache EXCEPT ![o] = r.text]
           w == SerializeValue(sub, o, S, known)
<1> SUFFICES Good(w, o)
  OBVIOUS
<1>1. CASE known[o] # None
  <2> DEFINE t == known[o]
  <2>1. w = Done(t, known)
    BY <1>1, Zenon DEF SerializeValue
  <2>2. Holds(o, t)
    BY <1>1 DEF Right
  <2>3. Done(t, known).text = t /\ Done(t, known).cache = known /\ Done(t, known).ok = TRUE
    BY DEF Done
  <2> HIDE DEF t, w
  <2>4. w.text = t /\ w.cache = known /\ w.ok = TRUE
    BY <2>1, <2>3
  <2> QED BY <2>2, <2>4 DEF Good
<1>2. CASE known[o] = None /\ o \in S
  <2>1. w = Thrown(known)
    BY <1>2, Zenon DEF SerializeValue
  <2>2. Cyclic(o)
    <3>1. o \in Reach(Refs(o)) /\ o \in Reach({o})
      BY <1>2, ReachStep DEF Below
    <3> QED BY <3>1 DEF Cyclic
  <2>3. Thrown(known).cache = known /\ Thrown(known).ok = FALSE
    BY DoneIs
  <2> HIDE DEF w
  <2>4. w.cache = known /\ w.ok = FALSE
    BY <2>1, <2>3
  <2> QED BY <2>2, <2>4 DEF Good
<1>3. CASE known[o] = None /\ o \notin S
  <2>1. Within(S \cup {o}, o) /\ Left(S \cup {o}) < n
    <3>1. Within(S \cup {o}, o) /\ Left(S \cup {o}) \in Nat /\ Left(S) = Left(S \cup {o}) + 1
      BY <1>3, Pushed
    <3> QED BY <3>1
  <2>2. Good(r, o)
    BY <2>1, ContentGood
  <2>3. Right(r.cache) /\ r.ok \in BOOLEAN
    BY <2>2 DEF Good
  <2>4. CASE r.ok
    <3>1. w = Done(r.text, kept)
      BY <1>3, <2>4, Zenon DEF SerializeValue
    <3>2. Holds(o, r.text)
      BY <2>2, <2>4 DEF Good
    <3>3. Right(kept)
      BY <2>3, <3>2, Kept
    <3> DEFINE t == r.text
    <3>4. Done(t, kept).text = t /\ Done(t, kept).cache = kept /\ Done(t, kept).ok = TRUE
      <4> HIDE DEF kept, t
      <4> QED BY DEF Done
    <3> HIDE DEF t, kept, w
    <3>5. w.text = t /\ w.cache = kept /\ w.ok = TRUE
      BY <3>1, <3>4 DEF t
    <3> QED BY <3>2, <3>3, <3>5 DEF Good, t
  <2>5. CASE ~ r.ok
    <3>1. w = r
      BY <1>3, <2>5, Zenon DEF SerializeValue
    <3> QED BY <3>1, <2>2, Zenon
  <2> QED BY <2>4, <2>5
<1> QED BY <1>1, <1>2, <1>3

\* Both serializers, one call deeper.
LEMMA LevelGood ==
    ASSUME Formed, NEW sub, NEW n \in Nat, ValueGood(sub, n), ArrayGood(sub, n)
    PROVE  ValueGood(Level(sub), n + 1) /\ ArrayGood(Level(sub), n + 1)
<1> DEFINE l == Level(sub)
           v == [c \in Calls |-> SerializeValue(sub, c.object, c.stack, c.cache)]
           a == [c \in Calls |-> SerializeArray(sub, c.object, c.stack, c.cache)]
<1>1. l.value = v /\ l.array = a
  BY DEF Level
<1> HIDE DEF l
<1>2. ASSUME NEW o \in Objects, NEW S \in SUBSET Objects, NEW known, Right(known)
      PROVE  /\ v[Call(o, S, known)] = SerializeValue(sub, o, S, known)
             /\ a[Call(o, S, known)] = SerializeArray(sub, o, S, known)
  <2> DEFINE c == Call(o, S, known)
  <2>1. known \in Cache
    BY <1>2 DEF Right
  <2>2. c \in Calls /\ c.object = o /\ c.stack = S /\ c.cache = known
    BY <2>1 DEF Call, Calls
  <2> HIDE DEF c
  <2> QED BY <2>2 DEF c
<1> HIDE DEF v, a
<1>3. ASSUME NEW o \in Objects, NEW S, NEW known, Right(known), Below(S, o), Left(S) < n + 1
      PROVE  Good(l.value[Call(o, S, known)], o)
  <2>1. S \in SUBSET Objects
    BY <1>3 DEF Below
  <2>2. l.value[Call(o, S, known)] = SerializeValue(sub, o, S, known)
    BY <1>1, <1>2, <1>3, <2>1
  <2>3. Good(SerializeValue(sub, o, S, known), o)
    BY <1>3, SerializeValueGood
  <2> QED BY <2>2, <2>3, Zenon
<1>4. ASSUME NEW o \in Objects, NEW S, NEW known, Right(known), heap[o].kind = "array",
             Within(S, o), Left(S) + 1 < n + 1
      PROVE  Good(l.array[Call(o, S, known)], o)
  <2>1. S \in SUBSET Objects
    BY <1>4 DEF Within
  <2>2. l.array[Call(o, S, known)] = SerializeArray(sub, o, S, known)
    BY <1>1, <1>2, <1>4, <2>1
  <2>3. Left(S) < n
    <3>1. Left(S) \in Nat
      BY <2>1, ContentsAssumption, FS_Subset, FS_CardinalityType DEF Left
    <3> QED BY <3>1, <1>4
  <2>4. Good(SerializeArray(sub, o, S, known), o)
    BY <1>4, <2>3, ArrayContentGood
  <2> QED BY <2>2, <2>4, Zenon
<1>5. ValueGood(l, n + 1)
  BY <1>3, Zenon DEF ValueGood
<1>6. ArrayGood(l, n + 1)
  BY <1>4, Zenon DEF ArrayGood
<1> QED BY <1>5, <1>6 DEF l

\* What serialize() returns, and what it keeps.
LEMMA SerializeGood ==
    ASSUME Formed, Right(cache), NEW o \in Objects
    PROVE  Good(Serialize(o), o)
<1> DEFINE N == Deepest
           C == Cardinality(Objects)
<1>1. C \in Nat /\ N = C + 1 /\ N \in Nat
  BY ContentsAssumption, FS_CardinalityType DEF Deepest
<1>2. PICK g : Deepens(g) /\ Serializers = g[N]
  BY <1>1, Deepening
<1> HIDE DEF N
<1> DEFINE T == {n \in 0 .. N : ValueGood(g[n], n) /\ ArrayGood(g[n], n)}
<1>3. 0 \in T
  <2>1. ASSUME NEW S \in SUBSET Objects PROVE ~ (Left(S) < 0) /\ ~ (Left(S) + 1 < 0)
    <3>1. Left(S) \in Nat
      BY <2>1, ContentsAssumption, FS_Subset, FS_CardinalityType DEF Left
    <3> QED BY <3>1
  <2>2. ValueGood(g[0], 0)
    BY <2>1 DEF ValueGood, Below
  <2>3. ArrayGood(g[0], 0)
    BY <2>1 DEF ArrayGood, Within
  <2> QED BY <2>2, <2>3, <1>1
<1>4. ASSUME NEW n \in 0 .. N, n \in T, n < N PROVE n + 1 \in T
  <2>1. n \in Nat /\ n + 1 \in 1 .. N /\ n + 1 \in 0 .. N /\ (n + 1) - 1 = n
    BY <1>1, <1>4
  <2>2. g[n + 1] = Level(g[n])
    BY <2>1, <1>2, Zenon DEF Deepens, N
  <2>3. ValueGood(g[n], n) /\ ArrayGood(g[n], n)
    BY <1>4
  <2>4. ValueGood(Level(g[n]), n + 1) /\ ArrayGood(Level(g[n]), n + 1)
    BY <2>1, <2>3, LevelGood
  <2> QED BY <2>1, <2>2, <2>4
<1>5. \A n \in 0 .. N : n \in T
  <2> HIDE DEF T
  <2> QED BY <1>1, <1>3, <1>4, Upward
<1>6. ValueGood(Serializers, N)
  BY <1>1, <1>2, <1>5
<1>7. Below({}, o) /\ Left({}) < N
  <2>1. Left({}) = C
    <3>1. Objects \ {} = Objects
      OBVIOUS
    <3> QED BY <3>1 DEF Left
  <2> QED BY <2>1, <1>1 DEF Below
<1>8. Good(Serializers.value[Call(o, {}, cache)], o)
  BY <1>6, <1>7, Zenon DEF ValueGood
<1> QED BY <1>8, Zenon DEF Serialize

-----------------------------------------------------------------------------
(* What PostgreSQL writes.                                                 *)

\* The texts of objects, by the depth they are looked into.
Prints(K, type, escape) ==
    /\ \A o : PgText(o, type, escape) = K[Cardinality(Objects)][o]
    /\ \A n \in 1 .. Cardinality(Objects), p \in Objects :
          K[n][p] = PgValue(p, type, escape, K[n - 1])

LEMMA TextsPrinted ==
    ASSUME Cardinality(Objects) \in Nat, NEW type, NEW escape
    PROVE  \E K : Prints(K, type, escape)
<1> DEFINE N == Cardinality(Objects)
           base == [p \in Objects |-> None]
           f[n \in 0 .. N] ==
               [p \in Objects |-> IF n = 0 THEN None ELSE PgValue(p, type, escape, f[n - 1])]
           T == {m \in 0 .. N : \E g : g = [n \in 0 .. m |->
               [p \in Objects |-> IF n = 0 THEN None ELSE PgValue(p, type, escape, g[n - 1])]]}
<1>1. ASSUME NEW o PROVE PgText(o, type, escape) = f[N][o]
  BY DEF PgText
<1> HIDE DEF N
<1>2. N \in Nat
  BY DEF N
<1>3. 0 \in T
  <2> DEFINE g == [n \in 0 .. 0 |-> base]
  <2>1. g = [n \in 0 .. 0 |-> [p \in Objects |->
                IF n = 0 THEN None ELSE PgValue(p, type, escape, g[n - 1])]]
    <3>1. \A n \in 0 .. 0 : n = 0
      OBVIOUS
    <3> QED BY <3>1
  <2> HIDE DEF g
  <2>2. 0 \in 0 .. N
    BY <1>2
  <2> QED BY <2>1, <2>2
<1>4. ASSUME NEW m \in 0 .. N, m \in T, m < N PROVE m + 1 \in T
  <2>1. PICK h : h = [n \in 0 .. m |-> [p \in Objects |->
                         IF n = 0 THEN None ELSE PgValue(p, type, escape, h[n - 1])]]
    BY <1>4
  <2> DEFINE g == [n \in 0 .. (m + 1) |->
                     IF n = m + 1 THEN [p \in Objects |-> PgValue(p, type, escape, h[m])] ELSE h[n]]
  <2>2. ASSUME NEW n \in 0 .. (m + 1)
        PROVE  g[n] = [p \in Objects |->
                         IF n = 0 THEN None ELSE PgValue(p, type, escape, g[n - 1])]
    <3>1. CASE n = 0
      <4>1. 0 # m + 1 /\ 0 \in 0 .. m
        OBVIOUS
      <4>2. g[n] = h[0] /\ h[0] = base
        BY <3>1, <4>1, <2>1
      <4> HIDE DEF g
      <4> QED BY <4>2, <3>1
    <3>2. CASE n # 0
      <4>1. n - 1 \in 0 .. m /\ n - 1 # m + 1 /\ n - 1 \in 0 .. (m + 1)
        BY <3>2
      <4>2. g[n - 1] = h[n - 1]
        BY <4>1
      <4>3. g[n] = [p \in Objects |-> PgValue(p, type, escape, h[n - 1])]
        <5>1. CASE n = m + 1
          <6>1. n - 1 = m /\ g[n] = [p \in Objects |-> PgValue(p, type, escape, h[m])]
            BY <5>1
          <6> HIDE DEF g
          <6> QED BY <6>1
        <5>2. CASE n # m + 1
          <6>1. n \in 0 .. m /\ g[n] = h[n]
            BY <5>2
          <6>2. h[n] = [p \in Objects |-> PgValue(p, type, escape, h[n - 1])]
            BY <6>1, <2>1, <3>2
          <6> HIDE DEF g
          <6> QED BY <6>1, <6>2
        <5> QED BY <5>1, <5>2
      <4> HIDE DEF g
      <4> QED BY <4>2, <4>3, <3>2
    <3> QED BY <3>1, <3>2
  <2>3. g = [n \in 0 .. (m + 1) |-> g[n]]
    OBVIOUS
  <2> HIDE DEF g
  <2>4. g = [n \in 0 .. (m + 1) |-> [p \in Objects |->
               IF n = 0 THEN None ELSE PgValue(p, type, escape, g[n - 1])]]
    BY <2>2, <2>3
  <2>5. m + 1 \in 0 .. N
    BY <1>2, <1>4
  <2> QED BY <2>4, <2>5
<1>5. N \in T
  <2>1. N \in 0 .. N
    BY <1>2
  <2> HIDE DEF T
  <2> QED BY <2>1, <1>2, <1>3, <1>4, Upward
<1>6. f = [n \in 0 .. N |-> [p \in Objects |->
              IF n = 0 THEN None ELSE PgValue(p, type, escape, f[n - 1])]]
  BY <1>5 DEF f
<1> HIDE DEF f
<1>7. ASSUME NEW n \in 1 .. N, NEW p \in Objects PROVE f[n][p] = PgValue(p, type, escape, f[n - 1])
  <2>1. n \in 0 .. N /\ n # 0
    BY <1>2
  <2>2. f[n] = [q \in Objects |-> IF n = 0 THEN None ELSE PgValue(q, type, escape, f[n - 1])]
    <3> DEFINE g == f
    <3>1. g = [k \in 0 .. N |-> [q \in Objects |->
                  IF k = 0 THEN None ELSE PgValue(q, type, escape, f[k - 1])]]
      BY <1>6
    <3> HIDE DEF g
    <3>2. g[n] = [q \in Objects |-> IF n = 0 THEN None ELSE PgValue(q, type, escape, f[n - 1])]
      BY <2>1, <3>1
    <3> QED BY <3>2 DEF g
  <2> QED BY <2>1, <2>2
<1> QED BY <1>1, <1>7 DEF Prints, N

LEMMA PgValueSame ==
    ASSUME Formed, NEW p \in Objects, NEW type, NEW escape, NEW f, NEW g,
           \A q \in Refs(p) : f[q] = g[q]
    PROVE  PgValue(p, type, escape, f) = PgValue(p, type, escape, g)
<1>1. ASSUME NEW m \in Range(Members(p))
      PROVE  PgMember(m, type, escape, f) = PgMember(m, type, escape, g)
  <2>1. m.kind = "ref" => f[m.to] = g[m.to]
    BY RefsIs
  <2>2. CASE m.kind = "ref"
    BY <2>1, <2>2 DEF PgMember
  <2>3. CASE m.kind # "ref"
    BY <2>3 DEF PgMember
  <2> QED BY <2>2, <2>3
<1>2. CASE heap[p].kind = "array"
  <2> DEFINE s == heap[p].members
             F == [i \in DOMAIN s |-> PgMember(s[i], type, escape, f)]
             G == [i \in DOMAIN s |-> PgMember(s[i], type, escape, g)]
  <2>1. \A i \in DOMAIN s : s[i] \in Range(Members(p))
    BY <1>2, MembersIs DEF Range
  <2>2. F = G
    <3> HIDE DEF s
    <3> QED BY <1>1, <2>1
  <2>3. /\ PgValue(p, type, escape, f) = <<Open>> \o Join(F) \o <<Close>>
        /\ PgValue(p, type, escape, g) = <<Open>> \o Join(G) \o <<Close>>
    BY <1>2, Zenon DEF PgValue
  <2> HIDE DEF F, G
  <2> QED BY <2>2, <2>3, Zenon
<1>3. CASE heap[p].kind # "array"
  BY <1>3, Zenon DEF PgValue
<1> QED BY <1>2, <1>3

\* No array that does not contain itself has to be looked into deeper than it goes.
LEMMA PgTextIs ==
    ASSUME Formed, NEW o \in Objects, ~ Cyclic(o), NEW type, NEW escape
    PROVE  PgText(o, type, escape) = PgValue(o, type, escape, [q \in Objects |-> PgText(q, type, escape)])
<1> DEFINE N == Cardinality(Objects)
<1>1. N \in Nat /\ \A p \in Objects : Rank(p) \in 1 .. N
  BY RankIs
<1>2. PICK K : Prints(K, type, escape)
  BY <1>1, TextsPrinted
<1> HIDE DEF N
<1>3. ASSUME NEW n \in 1 .. N, NEW p \in Objects PROVE K[n][p] = PgValue(p, type, escape, K[n - 1])
  BY <1>2 DEF Prints, N
<1> DEFINE T == {r \in 0 .. N : \A p \in Objects : ~ Cyclic(p) /\ Rank(p) = r =>
                    \A n \in r .. N : K[n][p] = K[N][p]}
<1>4. ASSUME NEW r \in 0 .. N, \A m \in 0 .. N : m < r => m \in T PROVE r \in T
  <2>1. ASSUME NEW p \in Objects, ~ Cyclic(p), Rank(p) = r, NEW n \in r .. N
        PROVE  K[n][p] = K[N][p]
    <3>1. r \in 1 .. N /\ n \in 1 .. N /\ N \in 1 .. N
      BY <1>1, <2>1
    <3>2. ASSUME NEW q \in Refs(p) PROVE K[n - 1][q] = K[N - 1][q]
      <4>1. q \in Objects /\ ~ Cyclic(q) /\ Rank(q) < r
        BY <2>1, RankIs, RankLess
      <4>2. Rank(q) \in 0 .. N /\ n - 1 \in Rank(q) .. N /\ N - 1 \in Rank(q) .. N
        BY <4>1, <3>1, <1>1
      <4>3. Rank(q) \in T
        BY <4>1, <4>2, <1>4
      <4> QED BY <4>1, <4>2, <4>3
    <3> HIDE DEF T
    <3>3. PgValue(p, type, escape, K[n - 1]) = PgValue(p, type, escape, K[N - 1])
      <4> DEFINE f == K[n - 1]
                 g == K[N - 1]
      <4>1. \A q \in Refs(p) : f[q] = g[q]
        BY <3>2
      <4> HIDE DEF f, g
      <4>2. PgValue(p, type, escape, f) = PgValue(p, type, escape, g)
        BY <4>1, PgValueSame
      <4> QED BY <4>2 DEF f, g
    <3> QED BY <3>1, <3>3, <1>3
  <2> QED BY <2>1
<1>5. \A r \in 0 .. N : r \in T
  <2> HIDE DEF T
  <2> QED BY <1>1, <1>4, Strong
<1>6. ASSUME NEW q \in Refs(o) PROVE K[N - 1][q] = PgText(q, type, escape) /\ q \in Objects
  <2>1. q \in Objects /\ ~ Cyclic(q) /\ Rank(q) < Rank(o)
    BY RankIs, RankLess
  <2>2. Rank(q) \in 0 .. N /\ N - 1 \in Rank(q) .. N
    BY <2>1, <1>1
  <2>3. K[N - 1][q] = K[N][q]
    BY <2>1, <2>2, <1>5
  <2> QED BY <2>1, <2>3, <1>2 DEF Prints, N
<1>7. PgText(o, type, escape) = PgValue(o, type, escape, K[N - 1])
  <2>1. N \in 1 .. N
    BY <1>1
  <2> QED BY <2>1, <1>3, <1>2 DEF Prints, N
<1>8. PgValue(o, type, escape, K[N - 1]) = PgValue(o, type, escape, [q \in Objects |-> PgText(q, type, escape)])
  <2> DEFINE f == K[N - 1]
             g == [q \in Objects |-> PgText(q, type, escape)]
  <2>1. \A q \in Refs(o) : f[q] = g[q]
    BY <1>6
  <2> HIDE DEF f, g
  <2>2. PgValue(o, type, escape, f) = PgValue(o, type, escape, g)
    BY <2>1, PgValueSame
  <2> QED BY <2>2 DEF f, g
<1> QED BY <1>7, <1>8

\* The text of a value, or of a bound of a range.
LeafText(v, type, escape) ==
    CASE type \in ColumnsOf("text") -> v
      [] type \in ColumnsOf("number") \cup {"numrange"} -> Digits(v)
      [] type = "bool"   -> IF v THEN <<116>> ELSE <<102>>
      [] type = "bytea"  -> IF escape THEN PgEscape(v) ELSE SerializeByteA(v)
      [] type = "circle" -> SerializeCircle(v)
      [] type \in ColumnsOf("json") -> Json(v)
      [] type \in {"timestamptz", "tstzrange"} -> SerializeDate(v)
      [] type \in {"timestamp", "tsrange"} -> DateText(v, <<>>)
LeafBound(b, type, escape) == IF b = <<>> THEN <<>> ELSE LeafText(b[1], type, escape)

LEMMA ColumnSets ==
    /\ ColumnsOf("text") = {"varchar", "text"}
    /\ ColumnsOf("number")
         = {"int2", "int4", "int8", "oid", "xid", "xid8", "float4", "float8"}
    /\ ColumnsOf("date") = {"timestamp", "timestamptz"}
    /\ ColumnsOf("json") = {"json", "jsonb"}
    /\ ColumnsOf("bytes") = {"bytea"} /\ ColumnsOf("bool") = {"bool"}
    /\ ColumnsOf("circle") = {"circle"}
BY DEF ColumnsOf

\* The text PostgreSQL writes for a value that is no array.
LEMMA LeafTextIs ==
    ASSUME NEW v, NEW type, NEW escape
    PROVE  /\ type \in ColumnsOf("text") => LeafText(v, type, escape) = v
           /\ type \in ColumnsOf("number") => LeafText(v, type, escape) = Digits(v)
           /\ type \in ColumnsOf("bool") => LeafText(v, type, escape) = Flag(v)
           /\ type \in ColumnsOf("bytes") =>
                LeafText(v, type, escape) = (IF escape THEN PgEscape(v) ELSE SerializeByteA(v))
           /\ type \in ColumnsOf("circle") => LeafText(v, type, escape) = SerializeCircle(v)
           /\ type \in ColumnsOf("json") => LeafText(v, type, escape) = Json(v)
           /\ type = "timestamptz" => LeafText(v, type, escape) = SerializeDate(v)
           /\ type = "timestamp" => LeafText(v, type, escape) = DateText(v, <<>>)
           /\ type = "numrange" => LeafText(v, type, escape) = Digits(v)
           /\ type = "tstzrange" => LeafText(v, type, escape) = SerializeDate(v)
           /\ type = "tsrange" => LeafText(v, type, escape) = DateText(v, <<>>)
BY ColumnSets DEF LeafText, Flag

LEMMA PgLeafIs ==
    ASSUME NEW value, NEW type, NEW escape
    PROVE  /\ type \notin RangeTypes => PgLeaf(value, type, escape) = LeafText(value, type, escape)
           /\ type \in RangeTypes =>
                PgLeaf(value, type, escape)
                  = RangeText(value, LeafBound(value.lower, type, escape),
                              LeafBound(value.upper, type, escape))
BY Zenon DEF PgLeaf, LeafText, LeafBound, RangeTypes

\* An element is quoted where it must be.
LEMMA PgElementReads ==
    ASSUME NEW type, NEW t \in Text
    PROVE  Element(type, PgElement(t), Leaf(Parse(type, t)))
<1>1. CASE t \in {<<>>, NullText} \/ \E i \in DOMAIN t : t[i] \in Specials
  <2>1. PgElement(t) = Quote(t)
    BY <1>1, Zenon DEF PgElement
  <2> QED BY <2>1, ElementQuoted, Zenon
<1>2. CASE ~ (t \in {<<>>, NullText} \/ \E i \in DOMAIN t : t[i] \in Specials)
  <2>1. PgElement(t) = t
    BY <1>2, Zenon DEF PgElement
  <2>2. t # <<>> /\ t # NullText /\ \A i \in DOMAIN t : t[i] \notin Specials
    BY <1>2
  <2>3. DOMAIN t = 1 .. Len(t)
    BY TextIs
  <2>4. Avoids(t, {Backslash, DoubleQuote, Open, Close, Comma})
    BY <2>2, <2>3 DEF Avoids, Specials
  <2>5. Plain(t)
    BY <2>2, <2>4 DEF Plain
  <2>6. Entry(type, t) = Leaf(Parse(type, t))
    BY <2>2, Zenon DEF Entry
  <2>7. Element(type, t, Entry(type, t))
    BY <2>5, ElementPlain
  <2> QED BY <2>1, <2>6, <2>7, Zenon
<1> QED BY <1>1, <1>2

\* Values that are no objects.
LEMMA PrimitivePrinted ==
    ASSUME NEW m \in Member, m.kind \in {"text", "number", "bool"},
           NEW type, type \in ColumnsOf(m.kind), NEW escape, NEW texts
    PROVE  Element(type, PgMember(m, type, escape, texts), MemberMeaning(m, Known))
<1>0. type \notin RangeTypes
  BY ColumnSets DEF RangeTypes
<1> DEFINE t == Primitive(m)
<1>1. t \in Text /\ Leaf(Parse(type, t)) = MemberMeaning(m, Known)
  BY PrimitiveReads
<1>2. PgMember(m, type, escape, texts) = PgElement(t)
  <2>1. CASE m.kind = "text"
    <3>1. PgMember(m, type, escape, texts) = PgElement(PgLeaf(m.text, type, escape))
      BY <2>1 DEF PgMember
    <3>2. PgLeaf(m.text, type, escape) = m.text
      BY <2>1, <1>0, PgLeafIs, LeafTextIs
    <3>3. t = m.text
      BY <2>1 DEF Primitive
    <3> QED BY <3>1, <3>2, <3>3, Zenon
  <2>2. CASE m.kind = "number"
    <3>1. PgMember(m, type, escape, texts) = PgElement(PgLeaf(m.number, type, escape))
      BY <2>2 DEF PgMember
    <3>2. PgLeaf(m.number, type, escape) = Digits(m.number)
      BY <2>2, <1>0, PgLeafIs, LeafTextIs
    <3>3. t = Digits(m.number)
      BY <2>2 DEF Primitive
    <3> QED BY <3>1, <3>2, <3>3, Zenon
  <2>3. CASE m.kind = "bool"
    <3>1. PgMember(m, type, escape, texts) = PgElement(PgLeaf(m.bool, type, escape))
      BY <2>3 DEF PgMember
    <3>2. PgLeaf(m.bool, type, escape) = Flag(m.bool)
      BY <2>3, <1>0, PgLeafIs, LeafTextIs
    <3>3. t = Flag(m.bool)
      BY <2>3 DEF Primitive, Flag
    <3> QED BY <3>1, <3>2, <3>3, Zenon
  <2> QED BY <2>1, <2>2, <2>3
<1> HIDE DEF t
<1> QED BY <1>1, <1>2, PgElementReads

\* Objects without parts.
LEMMA SinglePrinted ==
    ASSUME Formed, NEW o \in Objects, heap[o].kind \notin {"array", "range"},
           NEW type \in Types(o), NEW escape \in BOOLEAN,
           escape /\ heap[o].kind = "bytes" => Escapable(heap[o].bytes)
    PROVE  LET t == PgLeaf(Denotes(o).value, type, escape)
           IN  t \in Text /\ Leaf(Parse(type, t)) = Denotes(o)
<1> DEFINE h == heap[o]
           v == Denotes(o).value
           t == PgLeaf(v, type, escape)
<1>1. /\ h.kind \in {"bytes", "date", "circle", "json"}
      /\ type \in ColumnsOf(h.kind) /\ Denotes(o) = Meaning(o, Known)
      /\ Shape(h)
  BY SingleIs, HeapIs, ContentIs
<1>2. type \notin RangeTypes
  BY <1>1, ColumnSets DEF RangeTypes
<1>3. t = LeafText(v, type, escape)
  BY <1>2, PgLeafIs, Zenon
<1>4. \A x : Leaf(x).value = x
  BY DEF Leaf
<1>5. CASE h.kind = "bytes"
  <2> DEFINE b == h.bytes
  <2>1. b \in ByteSeqs /\ Denotes(o) = Leaf(b) /\ v = b
    BY ZenonT(30), <1>1, <1>4, <1>5, MeaningIs DEF Shape
  <2>2. b \in Seq(0 .. 255)
    BY <2>1, Zenon DEF ByteSeqs
  <2>3. t = IF escape THEN PgEscape(b) ELSE SerializeByteA(b)
    <3>1. type \in ColumnsOf("bytes")
      BY <1>1, <1>5
    <3> HIDE DEF v
    <3>2. LeafText(v, type, escape) = (IF escape THEN PgEscape(v) ELSE SerializeByteA(v))
      BY <3>1, LeafTextIs
    <3> QED BY <3>2, <1>3, <2>1, Zenon
  <2>4. escape => Escapable(b)
    BY <1>5
  <2>5. ASSUME escape PROVE t \in Text /\ ParseByteA(t) = b
    <3>1. Escapable(b)
      BY <2>4, <2>5
    <3> HIDE DEF b, t
    <3> QED BY <3>1, <2>2, <2>3, <2>5, ReadEscaped, Zenon
  <2>6. ASSUME ~ escape PROVE t \in Text /\ ParseByteA(t) = b
    <3> HIDE DEF b, t
    <3> QED BY <2>2, <2>3, <2>6, ReadHex, Zenon
  <2>7. Parse(type, t) = ParseByteA(t)
    BY <1>1, <1>5, ParseBytes
  <2> QED BY <2>1, <2>5, <2>6, <2>7, Zenon
<1>6. CASE h.kind = "date"
  <2> DEFINE y == h.year
  <2>1. y \in Years /\ Denotes(o) = Leaf(y) /\ v = y
    BY ZenonT(30), <1>1, <1>4, <1>6, MeaningIs DEF Shape
  <2>2. type = "timestamp" \/ type = "timestamptz"
    BY <1>1, <1>6, ColumnSets
  <2> HIDE DEF y
  <2>3. /\ SerializeDate(y) \in Text /\ ParseTimestampTz(SerializeDate(y)) = y
        /\ DateText(y, <<>>) \in Text /\ ParseTimestamp(DateText(y, <<>>)) = y
    BY <2>1, ReadDate
  <2>4. CASE type = "timestamptz"
    <3>1. t = SerializeDate(y)
      <4> HIDE DEF v
      <4>1. LeafText(v, type, escape) = SerializeDate(v)
        BY <2>4, LeafTextIs
      <4> QED BY <4>1, <1>3, <2>1, Zenon
    <3>2. Parse(type, t) = ParseTimestampTz(t)
      BY <2>4, ParseDates
    <3> QED BY <2>1, <2>3, <3>1, <3>2, Zenon
  <2>5. CASE type = "timestamp"
    <3>1. t = DateText(y, <<>>)
      <4> HIDE DEF v
      <4>1. LeafText(v, type, escape) = DateText(v, <<>>)
        BY <2>5, LeafTextIs
      <4> QED BY <4>1, <1>3, <2>1, Zenon
    <3>2. Parse(type, t) = ParseTimestamp(t)
      BY <2>5, ParseDates
    <3> QED BY <2>1, <2>3, <3>1, <3>2, Zenon
  <2> QED BY <2>2, <2>4, <2>5
<1>7. CASE h.kind = "circle"
  <2> DEFINE c == h.circle
  <2>1. c \in Circles /\ Denotes(o) = Leaf(c) /\ v = c
    BY ZenonT(30), <1>1, <1>4, <1>7, MeaningIs DEF Shape
  <2>2. t = SerializeCircle(c)
    <3>1. type \in ColumnsOf("circle")
      BY <1>1, <1>7
    <3> HIDE DEF v
    <3>2. LeafText(v, type, escape) = (SerializeCircle(v))
      BY <3>1, LeafTextIs
    <3> QED BY <3>2, <1>3, <2>1, Zenon
  <2>3. t \in Text /\ ParseCircle(t) = c
    BY <2>1, <2>2, ReadCircles, Zenon
  <2>4. Parse(type, t) = ParseCircle(t)
    BY <1>1, <1>7, ParseCircles
  <2> QED BY <2>1, <2>3, <2>4, Zenon
<1>8. CASE h.kind = "json"
  <2> DEFINE n == h.n
  <2>1. n \in Nat /\ Denotes(o) = Leaf(n) /\ v = n
    BY ZenonT(30), <1>1, <1>4, <1>8, MeaningIs DEF Shape
  <2>2. t = Json(n)
    <3>1. type \in ColumnsOf("json")
      BY <1>1, <1>8
    <3> HIDE DEF v
    <3>2. LeafText(v, type, escape) = (Json(v))
      BY <3>1, LeafTextIs
    <3> QED BY <3>2, <1>3, <2>1, Zenon
  <2>3. t \in Text /\ Number(SubSeq(t, 6, Len(t) - 1), 10) = n
    BY <2>1, <2>2, ReadJson, Zenon
  <2>4. Parse(type, t) = Number(SubSeq(t, 6, Len(t) - 1), 10)
    BY <1>1, <1>8, ParseJson
  <2> QED BY <2>1, <2>3, <2>4, Zenon
<1> QED BY <1>1, <1>5, <1>6, <1>7, <1>8

\* A bound of a range, as PostgreSQL writes it.
LEMMA BoundPrinted ==
    ASSUME Formed, NEW o \in Objects, heap[o].kind = "range", ~ Cyclic(o),
           NEW type \in RangesOf(o), NEW escape, NEW bound \in Seq(Given), Len(bound) \in {0, 1},
           bound # <<>> => bound[1] \in Range(Members(o))
    PROVE  BoundReads(bound, LeafBound(Value(bound, Known), type, escape), RangeParser(type))
<1> DEFINE w == Value(bound, Known)
           t == LeafBound(w, type, escape)
           m == bound[1]
           parser == RangeParser(type)
<1> SUFFICES BoundReads(bound, t, parser)
  OBVIOUS
<1>1. CASE bound = <<>>
  <2>1. w = <<>>
    BY <1>1 DEF Value
  <2>2. t = <<>>
    BY <2>1, Zenon DEF LeafBound
  <2> HIDE DEF t, parser
  <2> QED BY <1>1, <2>2, Zenon DEF BoundReads
<1>2. CASE bound # <<>>
  <2> DEFINE x == MemberMeaning(m, Known).value
  <2>1. w # <<>> /\ w[1] = x
    <3> DEFINE G == Given
    <3>1. bound \in Seq(G)
      OBVIOUS
    <3> HIDE DEF G
    <3>2. Len(bound) = 1 /\ DOMAIN bound = 1 .. 1
      BY <3>1, <1>2
    <3>3. w = [i \in 1 .. 1 |-> MemberMeaning(bound[i], Known).value]
      BY <3>2 DEF Value
    <3> HIDE DEF w
    <3> QED BY <3>3
  <2>2. t = LeafText(x, type, escape)
    <3> HIDE DEF w, x
    <3> QED BY <2>1, Zenon DEF LeafBound
  <2>3. /\ type \in RangeTypes
        /\ type = "numrange" => m.kind = "number" /\ m.number \in Nat
        /\ type # "numrange" => /\ m.kind = "ref" /\ m.to \in Objects /\ m.to \in Refs(o)
                                /\ heap[m.to].kind = "date"
    BY <1>2, BoundKinds
  <2>4. m.kind = "number" => x = m.number
    <3>1. m.kind = "number" => MemberMeaning(m, Known) = Leaf(m.number)
      <4> HIDE DEF m
      <4> QED BY DEF MemberMeaning
    <3>2. Leaf(m.number).value = m.number
      BY DEF Leaf
    <3> HIDE DEF m
    <3> QED BY <3>1, <3>2
  <2> DEFINE p == m.to
             y == heap[p].year
  <2>5. ASSUME m.kind = "ref", p \in Objects, heap[p].kind = "date" PROVE x = y /\ y \in Years
    <3>1. MemberMeaning(m, Known) = Denotes(p)
      <4>1. MemberMeaning(m, Known) = Known[m.to]
        <5> HIDE DEF m
        <5> QED BY <2>5 DEF MemberMeaning
      <4> QED BY <4>1, <2>5 DEF Known
    <3>2. Denotes(p) = Leaf(y)
      <4> HIDE DEF p
      <4>1. Denotes(p) = Meaning(p, Known)
        BY <2>5, SingleIs
      <4> QED BY <4>1, <2>5, MeaningIs, Zenon
    <3>3. Leaf(y).value = y
      BY DEF Leaf
    <3>4. y \in Years
      <4> HIDE DEF p
      <4>1. Shape(heap[p])
        BY <2>5, HeapIs, ContentIs
      <4> QED BY <4>1, <2>5 DEF Shape
    <3> HIDE DEF p, y, m
    <3> QED BY <3>1, <3>2, <3>3, <3>4, Zenon
  <2> HIDE DEF w, t, x
  <2>6. CASE type = "numrange"
    <3>1. t = Digits(x)
      <4> HIDE DEF p, y, m, parser
      <4>1. LeafText(x, type, escape) = Digits(x)
        BY <2>6, LeafTextIs
      <4> QED BY <4>1, <2>2, Zenon
    <3>2. m.kind = "number" => t = Digits(m.number)
      BY <3>1, <2>4, Zenon
    <3>3. ~ (m.kind = "ref")
      BY <2>3, <2>6
    <3> QED BY <1>2, <3>2, <3>3, BoundSent
  <2>7. CASE type = "tstzrange"
    <3>1. t = SerializeDate(x)
      <4> HIDE DEF p, y, m, parser
      <4>1. LeafText(x, type, escape) = SerializeDate(x)
        BY <2>7, LeafTextIs
      <4> QED BY <4>1, <2>2, Zenon
    <3>2. m.kind = "ref" /\ p \in Objects /\ heap[p].kind = "date"
      BY <2>3, <2>7
    <3>3. t = SerializeDate(y)
      BY <3>1, <3>2, <2>5, Zenon
    <3>4. ~ (m.kind = "number")
      BY <3>2
    <3> QED BY <1>2, <3>3, <3>4, BoundSent
  <2>8. CASE type = "tsrange"
    <3>1. t = DateText(x, <<>>)
      <4> HIDE DEF p, y, m, parser
      <4>1. LeafText(x, type, escape) = DateText(x, <<>>)
        BY <2>8, LeafTextIs
      <4> QED BY <4>1, <2>2, Zenon
    <3>2. m.kind = "ref" /\ p \in Objects /\ heap[p].kind = "date"
      BY <2>3, <2>8
    <3>3. x = y /\ y \in Years
      BY <3>2, <2>5
    <3>4. t = DateText(y, <<>>)
      BY <3>1, <3>3, Zenon
    <3>5. parser = "timestamp"
      BY <2>3, <2>8, ParseRanges, Zenon
    <3> HIDE DEF y, p, m, parser
    <3>6. Bare(t) /\ t # <<>> /\ ParseTimestamp(t) = y
      BY <3>3, <3>4, ReadDate DEF Bare
    <3>7. ParseAs("timestamp", t) = ParseTimestamp(t)
      BY ParseDates
    <3>8. ParseAs(parser, t) = MemberMeaning(bound[1], Known).value
      BY <3>3, <3>5, <3>6, <3>7, Zenon DEF x, m
    <3> QED BY <1>2, <3>6, <3>8, Zenon DEF BoundReads
  <2> QED BY <2>3, <2>6, <2>7, <2>8 DEF RangeTypes
<1> QED BY <1>1, <1>2

\* Ranges as PostgreSQL writes them come back.
LEMMA RangePrinted ==
    ASSUME Formed, NEW o \in Objects, heap[o].kind = "range", ~ Cyclic(o),
           NEW type \in Types(o), NEW escape
    PROVE  LET t == PgLeaf(Denotes(o).value, type, escape)
           IN  t \in Text /\ Leaf(Parse(type, t)) = Denotes(o)
<1> DEFINE h == heap[o]
           lo == Value(h.lower, Known)
           up == Value(h.upper, Known)
           v == [empty |-> h.empty, lower |-> lo, upper |-> up, closed |-> h.closed]
           l == LeafBound(lo, type, escape)
           u == LeafBound(up, type, escape)
<1>1. type \in RangesOf(o) /\ type \in RangeTypes
  <2>1. type \in RangesOf(o)
    BY TypesSingle
  <2> QED BY <2>1 DEF RangesOf, RangeTypes
<1>2. Denotes(o).value = v
  <2>1. Denotes(o) = Meaning(o, Known)
    BY DenotesIs DEF Known
  <2>2. Denotes(o) = Leaf(v)
    BY <2>1, MeaningIs, Zenon
  <2> HIDE DEF v
  <2> QED BY <2>2 DEF Leaf
<1>3. /\ h.lower \in Seq(Given) /\ h.upper \in Seq(Given)
      /\ h.lower # <<>> => h.lower[1] \in Range(Members(o))
      /\ h.upper # <<>> => h.upper[1] \in Range(Members(o))
  BY RangeMembers
<1>4. Len(h.lower) \in {0, 1} /\ Len(h.upper) \in {0, 1}
  <2>1. h \in RangeContent
    BY HeapIs, ContentIs DEF Shape
  <2> QED BY <2>1, RangeIs
<1>5. BoundReads(h.lower, l, RangeParser(type)) /\ BoundReads(h.upper, u, RangeParser(type))
  BY <1>1, <1>3, <1>4, BoundPrinted
<1>6. v.lower = lo /\ v.upper = up /\ v.empty = h.empty /\ v.closed = h.closed
  OBVIOUS
<1> HIDE DEF v
<1>7. PgLeaf(v, type, escape) = RangeText(v, l, u)
  BY <1>1, <1>6, PgLeafIs, Zenon
<1>8. RangeText(v, l, u) = RangeText(h, l, u)
  <2> HIDE DEF l, u
  <2> QED BY <1>6, Zenon DEF RangeText
<1>9. /\ RangeText(h, l, u) \in Text
      /\ Leaf(Parse(type, RangeText(h, l, u))) = Denotes(o)
  BY <1>1, <1>5, RangeReads
<1> QED BY <1>2, <1>7, <1>8, <1>9, Zenon

EscapableParts(o) == \A p \in Reach({o}) : heap[p].kind = "bytes" => Escapable(heap[p].bytes)

\* What PostgreSQL writes for o is read as it is.
Printed(o) ==
    \A type \in Types(o), escape \in BOOLEAN : (escape => EscapableParts(o)) =>
        PgText(o, type, escape) \in Text /\ Reads(o, type, PgText(o, type, escape))

\* A member of an array, where objects are written as they should.
LEMMA MemberPrinted ==
    ASSUME Formed, NEW o \in Objects, heap[o].kind = "array",
           \A q \in Refs(o) : Printed(q), NEW type \in Types(o), NEW escape \in BOOLEAN,
           escape => EscapableParts(o), NEW m \in Range(Members(o)), m \in Member
    PROVE  Element(type, PgMember(m, type, escape, [q \in Objects |-> PgText(q, type, escape)]),
                   MemberMeaning(m, Known))
<1> DEFINE texts == [q \in Objects |-> PgText(q, type, escape)]
           w == PgMember(m, type, escape, texts)
<1> SUFFICES Element(type, w, MemberMeaning(m, Known))
  OBVIOUS
<1>1. /\ m.kind \in {"text", "number", "bool"} => type \in ColumnsOf(m.kind)
      /\ m.kind = "ref" => type \in Types(m.to)
  BY TypesMember
<1>2. m.kind \in {"null", "text", "number", "bool", "ref"}
  BY GivenIs
<1>3. CASE m.kind = "null"
  <2>1. w = NullText /\ MemberMeaning(m, Known) = Nothing
    BY <1>3 DEF PgMember, MemberMeaning
  <2> QED BY <2>1, ElementNull, Zenon
<1>4. CASE m.kind \in {"text", "number", "bool"}
  <2> HIDE DEF texts
  <2> QED BY <1>1, <1>4, PrimitivePrinted
<1>5. CASE m.kind = "ref"
  <2> DEFINE q == m.to
             t == PgText(q, type, escape)
  <2>1. q \in Refs(o) /\ q \in Objects
    BY <1>5, RefsIs
  <2>2. type \in Types(q)
    BY <1>1, <1>5
  <2>3. escape => EscapableParts(q)
    <3>1. Reach({q}) \subseteq Reach({o})
      <4>1. q \in Reach({o})
        BY <2>1, ReachStep
      <4> QED BY <4>1, ReachFrom
    <3> HIDE DEF q
    <3> QED BY <3>1 DEF EscapableParts
  <2>4. t \in Text /\ Reads(q, type, t)
    <3>1. Printed(q)
      BY <2>1
    <3> QED BY <3>1, <2>2, <2>3, Zenon DEF Printed
  <2>5. texts[q] = t
    BY <2>1
  <2>6. MemberMeaning(m, Known) = Denotes(q)
    <3>1. MemberMeaning(m, Known) = Known[m.to]
      BY <1>5 DEF MemberMeaning
    <3> QED BY <3>1, <2>1 DEF Known
  <2>7. w = IF heap[q].kind = "array" THEN t ELSE PgElement(t)
    <3>1. w = IF heap[m.to].kind = "array" THEN texts[m.to] ELSE PgElement(texts[m.to])
      <4> HIDE DEF texts
      <4> QED BY <1>5 DEF PgMember
    <3> HIDE DEF texts, t
    <3> QED BY <3>1, <2>5
  <2> HIDE DEF w, t, q, texts
  <2>8. CASE heap[q].kind = "array"
    <3>1. Element(type, t, Denotes(q))
      BY <2>4, <2>8 DEF Reads
    <3> QED BY <3>1, <2>6, <2>7, <2>8
  <2>9. CASE heap[q].kind # "array"
    <3>1. Leaf(Parse(type, t)) = Denotes(q)
      BY <2>4, <2>9 DEF Reads
    <3>2. Element(type, PgElement(t), Leaf(Parse(type, t)))
      BY <2>4, PgElementReads
    <3> QED BY <3>1, <3>2, <2>6, <2>7, <2>9
  <2> QED BY <2>8, <2>9
<1> QED BY <1>2, <1>3, <1>4, <1>5

\* An object is printed right if its members are.
LEMMA PrintedStep ==
    ASSUME Formed, NEW o \in Objects, ~ Cyclic(o), \A q \in Refs(o) : Printed(q)
    PROVE  Printed(o)
<1> SUFFICES ASSUME NEW type \in Types(o), NEW escape \in BOOLEAN, escape => EscapableParts(o)
             PROVE  /\ PgText(o, type, escape) \in Text
                    /\ Reads(o, type, PgText(o, type, escape))
  BY DEF Printed
<1> DEFINE texts == [q \in Objects |-> PgText(q, type, escape)]
           t == PgText(o, type, escape)
<1>1. t = PgValue(o, type, escape, texts)
  BY PgTextIs
<1>2. CASE heap[o].kind = "array"
  <2> DEFINE ms == Members(o)
             ts == [i \in DOMAIN ms |-> PgMember(ms[i], type, escape, texts)]
  <2>1. heap[o].members = ms
    BY <1>2, MembersIs
  <2>2. t = ListText(ts)
    <3>1. PgValue(o, type, escape, texts)
            = <<Open>> \o Join([i \in DOMAIN heap[o].members |->
                    PgMember(heap[o].members[i], type, escape, texts)]) \o <<Close>>
      BY <1>2, Zenon DEF PgValue
    <3> HIDE DEF texts, ms, t
    <3> QED BY <3>1, <2>1, <1>1, Zenon DEF ListText
  <2>3. Len(ms) \in Nat /\ DOMAIN ms = 1 .. Len(ms) /\ \A i \in 1 .. Len(ms) : ms[i] \in Member
    <3> DEFINE M == Member
    <3>1. ms \in Seq(M)
      BY MembersIs
    <3> HIDE DEF M, ms
    <3> QED BY <3>1, ElementOfSeq DEF M
  <2>4. ASSUME NEW i \in 1 .. Len(ms)
        PROVE  Element(type, PgMember(ms[i], type, escape, texts), MemberMeaning(ms[i], Known))
    <3>1. ms[i] \in Range(Members(o)) /\ ms[i] \in Member
      BY <2>3 DEF Range
    <3> HIDE DEF ms
    <3> QED BY <3>1, <1>2, MemberPrinted
  <2> HIDE DEF texts, ms
  <2>5. Len(ts) = Len(ms) /\ \A i \in 1 .. Len(ms) : ts[i] = PgMember(ms[i], type, escape, texts)
    BY <2>3
  <2>6. ts \in Seq(Text)
    <3>1. ASSUME NEW i \in 1 .. Len(ms) PROVE PgMember(ms[i], type, escape, texts) \in Text
      BY <2>4, Zenon DEF Element
    <3> DEFINE T == Text
    <3>2. ts \in [1 .. Len(ms) -> T]
      BY <2>3, <3>1
    <3> HIDE DEF T, ts
    <3>3. ts \in Seq(T)
      BY <3>2, <2>3
    <3> QED BY <3>3 DEF T
  <2>7. \A i \in 1 .. Len(ts) :
           Element(type, ts[i], MemberMeaning(heap[o].members[i], Known))
    <3>1. ASSUME NEW i \in 1 .. Len(ms)
          PROVE Element(type, ts[i], MemberMeaning(heap[o].members[i], Known))
      BY <2>1, <2>4, <2>5, Zenon
    <3> HIDE DEF ts
    <3> QED BY <3>1, <2>5
  <2>8. Len(ts) = Len(heap[o].members)
    BY <2>1, <2>5, Zenon
  <2> HIDE DEF ts
  <2>9. Reads(o, type, ListText(ts)) /\ ListText(ts) \in Text
    <3>1. Reads(o, type, ListText(ts))
      BY <1>2, <2>6, <2>7, <2>8, ArrayReads
    <3>2. ListText(ts) \in Text
      BY <2>6, ListIs
    <3> QED BY <3>1, <3>2
  <2> QED BY <2>2, <2>9, Zenon
<1>3. CASE heap[o].kind # "array"
  <2> DEFINE s == PgLeaf(Denotes(o).value, type, escape)
  <2>1. PgValue(o, type, escape, texts) = s
    BY <1>3, Zenon DEF PgValue
  <2>2. s \in Text /\ Leaf(Parse(type, s)) = Denotes(o)
    <3>1. CASE heap[o].kind = "range"
      BY <3>1, RangePrinted
    <3>2. CASE heap[o].kind # "range"
      <4>1. heap[o].kind \notin {"array", "range"}
        BY <3>2, <1>3
      <4>2. escape /\ heap[o].kind = "bytes" => Escapable(heap[o].bytes)
        <5>1. o \in Reach({o})
          BY ReachStep
        <5> QED BY <5>1 DEF EscapableParts
      <4> QED BY <4>1, <4>2, SinglePrinted
    <3> QED BY <3>1, <3>2
  <2> HIDE DEF s
  <2>3. t = s
    BY <1>1, <2>1, Zenon
  <2>4. Reads(o, type, s)
    BY <1>3, <2>2 DEF Reads
  <2> QED BY <2>2, <2>3, <2>4, Zenon
<1> QED BY <1>2, <1>3

\* Objects are written right because what they consist of is.
LEMMA PgReads ==
    ASSUME Formed, NEW o \in Objects, ~ Cyclic(o)
    PROVE  Printed(o)
<1> DEFINE N == Cardinality(Objects)
           T == {r \in 0 .. N : \A p \in Objects : ~ Cyclic(p) /\ Rank(p) = r => Printed(p)}
<1>1. N \in Nat /\ \A p \in Objects : Rank(p) \in 1 .. N
  BY RankIs
<1> HIDE DEF N
<1>2. ASSUME NEW r \in 0 .. N, \A m \in 0 .. N : m < r => m \in T PROVE r \in T
  <2>1. ASSUME NEW p \in Objects, ~ Cyclic(p), Rank(p) = r PROVE Printed(p)
    <3>1. ASSUME NEW q \in Refs(p) PROVE Printed(q)
      <4>1. q \in Objects /\ ~ Cyclic(q) /\ Rank(q) < r
        BY <2>1, RankIs, RankLess
      <4>2. Rank(q) \in 0 .. N
        BY <4>1, <1>1
      <4>3. Rank(q) \in T
        BY <4>1, <4>2, <1>2
      <4> QED BY <4>1, <4>3
    <3> QED BY <3>1, <2>1, PrintedStep
  <2> QED BY <2>1
<1>3. \A r \in 0 .. N : r \in T
  <2> HIDE DEF T
  <2> QED BY <1>1, <1>2, Strong
<1>4. Rank(o) \in 0 .. N
  BY <1>1
<1> QED BY <1>3, <1>4

-----------------------------------------------------------------------------
(* Results.                                                                *)

Cell(text, isNull) == [text |-> text, isNull |-> isNull]
Field(oid) == [name |-> "x", oid |-> oid]
Sent(text) == [kind |-> "text", text |-> text]
Oid(array, type) == [array |-> array, type |-> type]

\* libpq's empty strings are told apart: one cell is null, the other is not.
LEMMA ResultIs ==
    ASSUME NEW text
    PROVE  CreateResult(<<Cell(<<>>, TRUE), Cell(text, FALSE)>>) = <<Nothing, Sent(text)>>
<1> DEFINE a == Cell(<<>>, TRUE)
           b == Cell(text, FALSE)
           cells == <<a, b>>
           f == [i \in DOMAIN cells |->
                   IF cells[i].text = <<>> /\ cells[i].isNull THEN Nothing
                   ELSE [kind |-> "text", text |-> cells[i].text]]
<1>1. CreateResult(cells) = f
  BY DEF CreateResult
<1>2. a.text = <<>> /\ a.isNull
  BY Zenon DEF Cell
<1>3. b.text = text /\ ~ b.isNull
  BY Zenon DEF Cell
<1> HIDE DEF a, b
<1>4. DOMAIN cells = 1 .. 2 /\ cells[1] = a /\ cells[2] = b
  OBVIOUS
<1> HIDE DEF cells
<1>5. f[1] = Nothing
  <2>1. cells[1].text = <<>> /\ cells[1].isNull
    BY <1>2, <1>4
  <2> QED BY <2>1, <1>4
<1>6. f[2] = Sent(text)
  <2>1. ~ (cells[2].text = <<>> /\ cells[2].isNull) /\ cells[2].text = text
    BY <1>3, <1>4
  <2> QED BY <2>1, <1>4 DEF Sent
<1>7. f = [i \in 1 .. 2 |-> f[i]]
  BY <1>4
<1> HIDE DEF f
<1>8. f = <<Nothing, Sent(text)>>
  BY <1>5, <1>6, <1>7
<1> QED BY <1>1, <1>8 DEF cells, a, b

ReadRound(array, type, text, v) ==
    (array => v = ParseArray(text, type)) /\ (~ array => v = Leaf(Parse(type, text))) =>
        Read(Oid(array, type), text) = [tuple |-> <<Nothing, v>>, row |-> [x |-> v]]

LEMMA ReadIs ==
    ASSUME NEW array, NEW type, NEW text, NEW v
    PROVE  ReadRound(array, type, text, v)
<1> SUFFICES ASSUME array => v = ParseArray(text, type), ~ array => v = Leaf(Parse(type, text))
             PROVE  Read(Oid(array, type), text) = [tuple |-> <<Nothing, v>>, row |-> [x |-> v]]
  BY Zenon DEF ReadRound
<1> DEFINE oid == Oid(array, type)
           other == [oid EXCEPT !.array = FALSE]
           a == Field(other)
           b == Field(oid)
           fields == <<a, b>>
           row == <<Nothing, Sent(text)>>
           tuple == [i \in DOMAIN fields |-> IF row[i].kind = "null" THEN Nothing
                                             ELSE GetParser(fields[i].oid, row[i].text)]
           last(name) == CHOOSE i \in DOMAIN fields : fields[i].name = name /\
                            \A j \in DOMAIN fields : fields[j].name = name => j <= i
           names == {fields[i].name : i \in DOMAIN fields}
           back == [tuple |-> tuple, row |-> [name \in names |-> tuple[last(name)]]]
<1>1. Read(oid, text) = back
  <2>1. CreateResult(<<[text |-> <<>>, isNull |-> TRUE], [text |-> text, isNull |-> FALSE]>>) = row
    BY ResultIs, Zenon DEF Cell
  <2>2. PGResult(fields, row) = back
    BY Zenon DEF PGResult
  <2>3. Read(oid, text) = PGResult(fields, row)
    BY <2>1, Zenon DEF Read, Field
  <2> QED BY <2>2, <2>3, Zenon
<1>2. GetParser(oid, text) = v
  <2>1. (oid.array <=> array) /\ oid.type = type
    BY Zenon DEF Oid
  <2> HIDE DEF oid
  <2> QED BY <2>1, Zenon DEF GetParser
<1>3. a.name = "x" /\ b.name = "x" /\ b.oid = oid
  <2> HIDE DEF oid, other
  <2> QED BY DEF Field
<1> HIDE DEF a, b, oid
<1>4. DOMAIN fields = 1 .. 2 /\ fields[1] = a /\ fields[2] = b
  OBVIOUS
<1>5. row[1].kind = "null" /\ row[2].kind # "null" /\ row[2].text = text
  BY DEF Nothing, Sent
<1> HIDE DEF row, fields
<1>6. names = {"x"}
  BY <1>3, <1>4
<1>7. last("x") = 2
  <2>1. 2 \in DOMAIN fields /\ fields[2].name = "x"
    BY <1>3, <1>4
  <2>2. \A j \in DOMAIN fields : fields[j].name = "x" => j <= 2
    BY <1>4
  <2>3. \A i \in DOMAIN fields : (fields[i].name = "x" /\
            \A j \in DOMAIN fields : fields[j].name = "x" => j <= i) => i = 2
    BY <2>1, <1>4
  <2> QED BY <2>1, <2>2, <2>3
<1>8. tuple[1] = Nothing /\ tuple[2] = v
  <2>1. tuple[1] = Nothing
    BY <1>4, <1>5
  <2>2. tuple[2] = GetParser(fields[2].oid, row[2].text)
    BY <1>4, <1>5
  <2>3. fields[2].oid = oid /\ row[2].text = text
    BY <1>3, <1>4, <1>5
  <2>4. tuple[2] = GetParser(oid, text)
    <3> HIDE DEF tuple
    <3> QED BY <2>2, <2>3, Zenon
  <2> HIDE DEF tuple
  <2> QED BY <2>1, <2>4, <1>2, Zenon
<1>9. tuple = [i \in 1 .. 2 |-> tuple[i]]
  BY <1>4
<1> HIDE DEF tuple, last, names
<1>10. tuple = <<Nothing, v>>
  BY <1>8, <1>9
<1>11. [name \in names |-> tuple[last(name)]] = [x |-> v]
  <2>1. [name \in names |-> tuple[last(name)]] = [name \in {"x"} |-> v]
    <3>1. \A name \in names : tuple[last(name)] = v
      BY <1>6, <1>7, <1>8
    <3> QED BY <3>1, <1>6
  <2>2. [name \in {"x"} |-> v] = [x |-> v]
    BY SMT
  <2> QED BY <2>1, <2>2, Zenon
<1> QED BY <1>1, <1>10, <1>11, Zenon DEF oid

-----------------------------------------------------------------------------
(* The round trip.                                                         *)

\* A column is read as o if its text is.
LEMMA ReadsBack ==
    ASSUME NEW o, NEW type, NEW text, Reads(o, type, text)
    PROVE  Read(Oid(heap[o].kind = "array", type), text)
             = [tuple |-> <<Nothing, Denotes(o)>>, row |-> [x |-> Denotes(o)]]
<1> DEFINE array == heap[o].kind = "array"
           v == Denotes(o)
<1>1. array => v = ParseArray(text, type)
  BY DEF Reads
<1>2. ~ array => v = Leaf(Parse(type, text))
  BY DEF Reads
<1> HIDE DEF array, v
<1>4. Read(Oid(array, type), text) = [tuple |-> <<Nothing, v>>, row |-> [x |-> v]]
  <2>1. ReadRound(array, type, text, v)
    BY ReadIs
  <2> QED BY <1>1, <1>2, <2>1, Zenon DEF ReadRound
<1> QED BY <1>4 DEF array, v

\* The invariant is what the round trip needs.
LEMMA Trip ==
    ASSUME Formed, Right(cache)
    PROVE  RoundTrip
<1> SUFFICES ASSUME NEW o \in Objects, Sound(o)
             PROVE  LET sent == Serialize(o)
                        v == Denotes(o)
                        back == [tuple |-> <<Nothing, v>>, row |-> [x |-> v]]
                    IN  /\ sent.ok = ~Cyclic(o)
                        /\ sent.ok => \A type \in Types(o) :
                            LET oid == Oid(heap[o].kind = "array", type)
                            IN  /\ Read(oid, sent.text) = back
                                /\ \A escape \in {FALSE, EscapableParts(o)} :
                                    Read(oid, PgText(o, type, escape)) = back
  BY Zenon DEF RoundTrip, Sound, EscapableParts, Oid
<1> DEFINE sent == Serialize(o)
           v == Denotes(o)
           back == [tuple |-> <<Nothing, v>>, row |-> [x |-> v]]
<1>1. Good(sent, o)
  BY SerializeGood
<1>2. sent.ok \in BOOLEAN /\ (sent.ok => Holds(o, sent.text)) /\ (~ sent.ok => Cyclic(o))
  BY <1>1 DEF Good
<1>3. sent.ok => ~ Cyclic(o) /\ Represents(o, sent.text)
  BY <1>2 DEF Holds
<1>4. sent.ok = ~ Cyclic(o)
  <2>1. Cyclic(o) \in BOOLEAN
    BY DEF Cyclic
  <2> HIDE DEF sent
  <2> QED BY <1>2, <1>3, <2>1
<1>5. ASSUME sent.ok, NEW type \in Types(o)
      PROVE  /\ Read(Oid(heap[o].kind = "array", type), sent.text) = back
             /\ \A escape \in {FALSE, EscapableParts(o)} :
                   Read(Oid(heap[o].kind = "array", type), PgText(o, type, escape)) = back
  <2>1. Reads(o, type, sent.text)
    BY <1>3, <1>5 DEF Represents
  <2>2. ASSUME NEW escape \in {FALSE, EscapableParts(o)}
        PROVE  Reads(o, type, PgText(o, type, escape))
    <3>1. escape \in BOOLEAN /\ (escape => EscapableParts(o))
      <4>1. EscapableParts(o) \in BOOLEAN
        BY DEF EscapableParts
      <4> QED BY <4>1
    <3>2. Printed(o)
      BY <1>3, <1>5, PgReads
    <3> QED BY <3>1, <3>2, Zenon DEF Printed
  <2> HIDE DEF sent
  <2> QED BY <2>1, <2>2, ReadsBack, Zenon
<1> HIDE DEF sent
<1> QED BY <1>4, <1>5, Zenon DEF sent

-----------------------------------------------------------------------------
(* What a change to an object leaves as it was.                            *)

ReachFacts ==
    Formed => \A S \in SUBSET Objects :
        /\ Reach(S) \subseteq Objects /\ S \subseteq Reach(S)
        /\ \A p \in Reach(S) : Refs(p) \subseteq Reach(S)
        /\ \A C \in SUBSET Objects :
              S \subseteq C /\ (\A q \in C : Refs(q) \subseteq C) => Reach(S) \subseteq C

LEMMA ReachAlways == ReachFacts
<1> SUFFICES ASSUME Formed, NEW S \in SUBSET Objects
             PROVE  /\ Reach(S) \subseteq Objects /\ S \subseteq Reach(S)
                    /\ \A p \in Reach(S) : Refs(p) \subseteq Reach(S)
                    /\ \A C \in SUBSET Objects :
                          S \subseteq C /\ (\A q \in C : Refs(q) \subseteq C) => Reach(S) \subseteq C
  BY Zenon DEF ReachFacts
<1>1. Reach(S) \subseteq Objects /\ S \subseteq Reach(S)
  BY ReachIs
<1>2. ASSUME NEW p \in Reach(S) PROVE Refs(p) \subseteq Reach(S)
  BY ReachClosed
<1>3. ASSUME NEW C \in SUBSET Objects, S \subseteq C, \A q \in C : Refs(q) \subseteq C
      PROVE  Reach(S) \subseteq C
  BY <1>3, ReachLeast
<1> QED BY <1>1, <1>2, <1>3

LEMMA SameParts ==
    ASSUME NEW p, heap'[p] = heap[p]
    PROVE  Members(p)' = Members(p) /\ Refs(p)' = Refs(p)
<1>1. Members(p)' = Members(p)
  BY DEF Members
<1> QED BY <1>1 DEF Refs

\* Where the references are the same, so are the parts.
LEMMA SameReach ==
    ASSUME Formed, Formed', NEW S \in SUBSET Objects, \A p \in Reach(S) : heap'[p] = heap[p]
    PROVE  Reach(S)' = Reach(S)
<1> DEFINE R == Reach(S)
           Q == Reach(S)'
<1>1. /\ R \subseteq Objects /\ S \subseteq R
      /\ \A p \in R : Refs(p) \subseteq R
      /\ \A C \in SUBSET Objects :
            S \subseteq C /\ (\A q \in C : Refs(q) \subseteq C) => R \subseteq C
  BY ReachAlways DEF ReachFacts
<1>2. /\ Q \subseteq Objects /\ S \subseteq Q
      /\ \A p \in Q : Refs(p)' \subseteq Q
      /\ \A C \in SUBSET Objects :
            S \subseteq C /\ (\A q \in C : Refs(q)' \subseteq C) => Q \subseteq C
  <2>1. ReachFacts'
    BY ReachAlways, PTL
  <2> QED BY <2>1 DEF ReachFacts
<1>3. \A p \in R : Refs(p)' = Refs(p)
  BY SameParts
<1> HIDE DEF R, Q
<1>4. Q \subseteq R
  BY <1>1, <1>2, <1>3
<1>5. \A p \in Q : Refs(p) \subseteq Q
  BY <1>2, <1>3, <1>4
<1>6. R \subseteq Q
  BY <1>1, <1>2, <1>5
<1>7. Q = R
  BY <1>4, <1>6
<1> QED BY <1>7 DEF Q, R

\* No part of o changes.
Untouched(o) == \A p \in Reach({o}) : heap'[p] = heap[p]

LEMMA UntouchedParts ==
    ASSUME Formed, NEW o \in Objects, Untouched(o), NEW p \in Reach({o})
    PROVE  p \in Objects /\ Untouched(p) /\ heap'[p] = heap[p]
<1>1. p \in Objects /\ Reach({p}) \subseteq Reach({o})
  BY ReachFrom
<1> QED BY <1>1 DEF Untouched

\* An object whose parts did not change has a cycle if it had one.
LEMMA SameCyclic ==
    ASSUME Formed, Formed', NEW o \in Objects, Untouched(o)
    PROVE  Reach({o})' = Reach({o}) /\ (Cyclic(o)' <=> Cyclic(o))
<1> DEFINE R == Reach({o})
<1>1. R' = R
  <2>1. {o} \in SUBSET Objects /\ \A p \in Reach({o}) : heap'[p] = heap[p]
    BY DEF Untouched
  <2> QED BY <2>1, SameReach
<1>2. ASSUME NEW p \in R PROVE (p \in Reach(Refs(p)))' <=> p \in Reach(Refs(p))
  <2>1. p \in Objects /\ Untouched(p) /\ heap'[p] = heap[p]
    BY UntouchedParts
  <2>2. Refs(p)' = Refs(p)
    BY <2>1, SameParts
  <2>3. Refs(p) \in SUBSET Objects /\ Reach(Refs(p)) \subseteq Reach({p})
    BY <2>1, ReachStep
  <2>4. \A S \in SUBSET Objects : (\A x \in Reach(S) : heap'[x] = heap[x]) => Reach(S)' = Reach(S)
    BY SameReach
  <2>5. \A x \in Reach(Refs(p)) : heap'[x] = heap[x]
    BY <2>1, <2>3 DEF Untouched
  <2>6. Reach(Refs(p))' = Reach(Refs(p))
    BY <2>2, <2>3, <2>4, <2>5
  <2> QED BY <2>6
<1>3. Cyclic(o)' <=> \E p \in R' : (p \in Reach(Refs(p)))'
  BY DEF Cyclic
<1>4. Cyclic(o) <=> \E p \in R : p \in Reach(Refs(p))
  BY DEF Cyclic
<1> QED BY <1>1, <1>2, <1>3, <1>4

\* Meaning(), of what an object holds.
MeaningOf(h, of) ==
    LET value(bound) == [i \in DOMAIN bound |-> MemberMeaning(bound[i], of).value]
    IN  CASE h.kind = "bytes"  -> Leaf(h.bytes)
          [] h.kind = "date"   -> Leaf(h.year)
          [] h.kind = "circle" -> Leaf(h.circle)
          [] h.kind = "json"   -> Leaf(h.n)
          [] h.kind = "range"  -> Leaf([empty |-> h.empty, lower |-> value(h.lower),
                                        upper |-> value(h.upper), closed |-> h.closed])
          [] h.kind = "array"  -> List([i \in DOMAIN h.members |->
                                            MemberMeaning(h.members[i], of)])
DenotesFacts ==
    Formed => \A o \in Objects : ~ Cyclic(o) => Denotes(o) = MeaningOf(heap[o], Known)

LEMMA DenotesAlways == DenotesFacts
<1> SUFFICES ASSUME Formed, NEW o \in Objects, ~ Cyclic(o)
             PROVE  Denotes(o) = MeaningOf(heap[o], Known)
  BY Zenon DEF DenotesFacts
<1>1. Denotes(o) = Meaning(o, Known)
  BY DenotesIs DEF Known
<1>2. Meaning(o, Known) = MeaningOf(heap[o], Known)
  BY Zenon DEF Meaning, MeaningOf
<1> QED BY <1>1, <1>2, Zenon

\* An object whose parts did not change is what it was.
LEMMA SameDenotes ==
    ASSUME Formed, Formed', NEW o \in Objects, Untouched(o), ~ Cyclic(o)
    PROVE  Denotes(o)' = Denotes(o)
<1> DEFINE N == Cardinality(Objects)
           T == {r \in 0 .. N : \A p \in Objects :
                    ~ Cyclic(p) /\ Untouched(p) /\ Rank(p) = r => Denotes(p)' = Denotes(p)}
<1>1. N \in Nat /\ \A p \in Objects : Rank(p) \in 1 .. N
  BY RankIs
<1> HIDE DEF N
<1>2. ASSUME NEW r \in 0 .. N, \A m \in 0 .. N : m < r => m \in T PROVE r \in T
  <2>1. ASSUME NEW p \in Objects, ~ Cyclic(p), Untouched(p), Rank(p) = r
        PROVE  Denotes(p)' = Denotes(p)
    <3>1. ASSUME NEW q \in Refs(p) PROVE q \in Objects /\ Denotes(q)' = Denotes(q)
      <4>1. q \in Objects /\ ~ Cyclic(q) /\ Rank(q) < r
        BY <2>1, RankIs, RankLess
      <4>2. Rank(q) \in 0 .. N
        BY <4>1, <1>1
      <4>3. Rank(q) \in T
        BY <4>1, <4>2, <1>2
      <4>4. Untouched(q)
        <5>1. q \in Reach({p})
          BY <2>1, ReachStep
        <5> QED BY <5>1, <2>1, UntouchedParts
      <4> QED BY <4>1, <4>3, <4>4
    <3> HIDE DEF T
    <3>2. Denotes(p) = Meaning(p, Known)
      BY <2>1, DenotesIs DEF Known
    <3>3. Denotes(p)' = MeaningOf(heap'[p], Known')
      <4>1. DenotesFacts'
        BY DenotesAlways, PTL
      <4>2. ~ Cyclic(p)'
        BY <2>1, SameCyclic
      <4> QED BY <4>1, <4>2, <2>1 DEF DenotesFacts
    <3>4. heap'[p] = heap[p]
      <4>1. p \in Reach({p})
        BY <2>1, ReachStep
      <4> QED BY <4>1, <2>1 DEF Untouched
    <3> DEFINE f == Known
               g == Known'
    <3>5. \A q \in Refs(p) : f[q] = g[q]
      BY <3>1 DEF Known
    <3>6. MeaningOf(heap[p], g) = Meaning(p, g)
      <4> HIDE DEF g
      <4> QED BY Zenon DEF Meaning, MeaningOf
    <3> HIDE DEF f, g
    <3>7. Meaning(p, f) = Meaning(p, g)
      BY <3>5, <2>1, MeaningSame
    <3> QED BY <3>2, <3>3, <3>4, <3>6, <3>7 DEF f, g
  <2> QED BY <2>1
<1>3. \A r \in 0 .. N : r \in T
  <2> HIDE DEF T
  <2> QED BY <1>1, <1>2, Strong
<1>4. Rank(o) \in 0 .. N
  BY <1>1
<1> QED BY <1>3, <1>4

LEMMA MemberIn ==
    ASSUME Formed, NEW p \in Objects, NEW m \in Range(Members(p))
    PROVE  m \in Member /\ (m.kind = "ref" => m.to \in Refs(p) /\ m.to \in Objects)
<1>1. m \in Member
  <2> DEFINE M == Member
             s == Members(p)
  <2>1. s \in Seq(M)
    BY MembersIs
  <2> HIDE DEF M, s
  <2>2. \A n \in Range(s) : n \in M
    BY <2>1 DEF Range
  <2> QED BY <2>2 DEF M, s
<1> QED BY <1>1, RefsIs

\* The kind of a member of something that does not change.
LEMMA SameKind ==
    ASSUME Formed, NEW p \in Objects, Untouched(p), NEW m \in Range(Members(p))
    PROVE  /\ KindOf(m)' = KindOf(m)
           /\ m.kind = "ref" => m.to \in Objects /\ Untouched(m.to) /\ heap'[m.to] = heap[m.to]
<1>1. m.kind = "ref" => m.to \in Objects /\ Untouched(m.to) /\ heap'[m.to] = heap[m.to]
  <2>1. ASSUME m.kind = "ref" PROVE m.to \in Reach({p})
    BY <2>1, MemberIn, ReachStep
  <2> QED BY <2>1, UntouchedParts
<1>2. KindOf(m)' = KindOf(m)
  <2>1. CASE m.kind = "ref"
    BY <1>1, <2>1 DEF KindOf
  <2>2. CASE m.kind # "ref"
    BY <2>2 DEF KindOf
  <2> QED BY <2>1, <2>2
<1> QED BY <1>1, <1>2

LEMMA SameRanges ==
    ASSUME Formed, NEW p \in Objects, Untouched(p)
    PROVE  RangesOf(p)' = RangesOf(p)
<1>1. Members(p)' = Members(p)
  <2>1. p \in Reach({p})
    BY ReachStep
  <2> QED BY <2>1, SameParts DEF Untouched
<1>2. \A m \in Range(Members(p)) : KindOf(m)' = KindOf(m)
  BY SameKind
<1> QED BY <1>1, <1>2 DEF RangesOf

LEMMA SameElements ==
    ASSUME Formed, Formed', NEW o \in Objects, Untouched(o)
    PROVE  ElementsOf(o)' = ElementsOf(o)
<1>1. Reach({o})' = Reach({o})
  BY SameCyclic
<1>2. \A p \in Reach({o}) : heap'[p] = heap[p] /\ Members(p)' = Members(p)
  BY SameParts DEF Untouched
<1>3. Arrays(o)' = Arrays(o) /\ Arrays(o) \subseteq Reach({o})
  BY <1>1, <1>2 DEF Arrays
<1> QED BY <1>2, <1>3 DEF ElementsOf

TypesFacts ==
    \A o : /\ heap[o].kind = "range" => Types(o) = RangesOf(o)
           /\ heap[o].kind \notin {"array", "range"} => Types(o) = ColumnsOf(heap[o].kind)
           /\ heap[o].kind = "array" => Types(o) = {t \in Columns : FitsAll(t, ElementsOf(o))}

LEMMA TypesAlways == TypesFacts
<1> SUFFICES ASSUME NEW o
             PROVE  /\ heap[o].kind = "range" => Types(o) = RangesOf(o)
                    /\ heap[o].kind \notin {"array", "range"} => Types(o) = ColumnsOf(heap[o].kind)
                    /\ heap[o].kind = "array" =>
                         Types(o) = {t \in Columns : FitsAll(t, ElementsOf(o))}
  BY Zenon DEF TypesFacts
<1>1. CASE heap[o].kind = "array"
  BY <1>1, TypesArray
<1>2. CASE heap[o].kind # "array"
  BY <1>2, TypesSingle
<1> QED BY <1>1, <1>2

\* An object whose parts did not change goes into the same columns.
LEMMA SameTypes ==
    ASSUME Formed, Formed', NEW o \in Objects, Untouched(o)
    PROVE  Types(o)' = Types(o)
<1>1. heap'[o] = heap[o]
  <2>1. o \in Reach({o})
    BY ReachStep
  <2> QED BY <2>1 DEF Untouched
<1>2. TypesFacts'
  BY TypesAlways, PTL
<1>3. CASE heap[o].kind = "range"
  <2>1. Types(o) = RangesOf(o)
    BY <1>3, TypesAlways DEF TypesFacts
  <2>2. Types(o)' = RangesOf(o)'
    BY <1>1, <1>2, <1>3 DEF TypesFacts
  <2> QED BY <2>1, <2>2, SameRanges
<1>4. CASE heap[o].kind \notin {"array", "range"}
  <2>1. Types(o) = ColumnsOf(heap[o].kind)
    BY <1>4, TypesAlways DEF TypesFacts
  <2>2. Types(o)' = ColumnsOf(heap'[o].kind)
    BY <1>1, <1>2, <1>4 DEF TypesFacts
  <2> QED BY <2>1, <2>2, <1>1, Zenon
<1>5. CASE heap[o].kind = "array"
  <2> DEFINE E == ElementsOf(o)
  <2>1. Types(o) = {t \in Columns : FitsAll(t, E)}
    BY <1>5, TypesAlways DEF TypesFacts
  <2>2. Types(o)' = {t \in Columns : FitsAll(t, E)'}
    BY <1>1, <1>2, <1>5 DEF TypesFacts
  <2>3. E' = E
    BY SameElements
  <2>4. ASSUME NEW m \in E
        PROVE  /\ KindOf(m)' = KindOf(m)
               /\ KindOf(m) = "range" => RangesOf(m.to)' = RangesOf(m.to)
    <3>1. PICK p \in Reach({o}) : m \in Range(Members(p))
      BY DEF ElementsOf, Arrays
    <3>2. p \in Objects /\ Untouched(p)
      BY UntouchedParts
    <3>3. /\ KindOf(m)' = KindOf(m)
          /\ m.kind = "ref" => m.to \in Objects /\ Untouched(m.to)
      BY <3>1, <3>2, SameKind
    <3>4. KindOf(m) = "range" => m.kind = "ref"
      <4>1. m.kind \in {"null", "text", "number", "bool", "ref"}
        BY <3>1, <3>2, MemberIn, GivenIs
      <4> QED BY <4>1 DEF KindOf
    <3> QED BY <3>3, <3>4, SameRanges
  <2>5. ASSUME NEW t PROVE FitsAll(t, E)' <=> FitsAll(t, E)
    <3>1. FitsAll(t, E) <=> \A m \in E : KindOf(m) \notin {"null", "array"} =>
             t \in (IF KindOf(m) = "range" THEN RangesOf(m.to) ELSE ColumnsOf(KindOf(m)))
      BY Zenon DEF FitsAll
    <3>2. FitsAll(t, E)' <=> \A m \in E' : KindOf(m)' \notin {"null", "array"} =>
             t \in (IF KindOf(m)' = "range" THEN RangesOf(m.to)' ELSE ColumnsOf(KindOf(m)'))
      BY Zenon DEF FitsAll
    <3> HIDE DEF E
    <3> QED BY <3>1, <3>2, <2>3, <2>4
  <2> HIDE DEF E
  <2> QED BY <2>1, <2>2, <2>5
<1> QED BY <1>3, <1>4, <1>5

LEMMA SameHolds ==
    ASSUME Formed, Formed', NEW o \in Objects, Untouched(o), NEW text, Holds(o, text),
           Sound(o)' => Sound(o)
    PROVE  Holds(o, text)'
<1>1. heap'[o] = heap[o]
  <2>1. o \in Reach({o})
    BY ReachStep
  <2> QED BY <2>1 DEF Untouched
<1>2. text \in Text /\ text # None
  BY DEF Holds
<1>3. ASSUME Sound(o)' PROVE ~ Cyclic(o)' /\ Represents(o, text)'
  <2>1. ~ Cyclic(o) /\ Represents(o, text)
    BY <1>3 DEF Holds
  <2>2. ~ Cyclic(o)'
    BY <2>1, SameCyclic
  <2>3. Types(o)' = Types(o) /\ Denotes(o)' = Denotes(o)
    BY <2>1, SameTypes, SameDenotes
  <2>4. ASSUME NEW type \in Types(o) PROVE Reads(o, type, text)'
    <3>1. Reads(o, type, text)
      BY <2>1 DEF Represents
    <3> QED BY <3>1, <1>1, <2>3 DEF Reads
  <2>5. Represents(o, text)'
    BY <1>1, <1>2, <2>1, <2>3, <2>4 DEF Represents
  <2> QED BY <2>2, <2>5
<1> QED BY <1>2, <1>3 DEF Holds

\* A text that is right stays right when no part of the object changes.
LEMMA UntouchedHolds ==
    ASSUME Formed, Formed', NEW q \in Objects, Untouched(q), touched \subseteq touched',
           NEW text, Holds(q, text)
    PROVE  Holds(q, text)'
<1>1. Reach({q})' = Reach({q})
  BY SameCyclic
<1>2. Sound(q)' => Sound(q)
  BY <1>1 DEF Sound
<1> QED BY <1>2, SameHolds

\* The texts that are kept, where no object changes.
LEMMA SameRight ==
    ASSUME Formed, heap' = heap, touched' = touched, NEW known, Right(known), cache' = known
    PROVE  Formed' /\ Right(cache)'
<1>1. Formed'
  BY DEF Formed
<1>2. known \in Cache
  BY DEF Right
<1>3. ASSUME NEW q \in Objects, known[q] # None PROVE Holds(q, known[q])'
  <2>1. Holds(q, known[q])
    BY <1>3 DEF Right
  <2>2. Untouched(q)
    BY DEF Untouched
  <2> DEFINE text == known[q]
  <2>3. Holds(q, text)
    BY <2>1
  <2> HIDE DEF text
  <2>4. Holds(q, text)'
    BY <1>1, <2>2, <2>3, UntouchedHolds
  <2> QED BY <2>4 DEF text
<1>4. ASSUME NEW q \in Objects, cache'[q] # None PROVE Holds(q, cache[q])'
  <2>1. Holds(q, known[q])'
    BY <1>3, <1>4
  <2> QED BY <2>1
<1>5. Right(cache)'
  BY <1>2, <1>4 DEF Right
<1> QED BY <1>1, <1>5

\* A change spoils the texts of the objects that contain what changed, which are
\* touched from then on, and no others.
LEMMA ChangeRight ==
    ASSUME Formed, Right(cache), NEW o \in Objects, NEW c \in Contents(o), Change(o, c)
    PROVE  Formed' /\ Right(cache)'
<1>1. /\ heap' = [heap EXCEPT ![o] = c] /\ cache' = cache
      /\ touched' = touched \cup {p \in Objects : cache[p] # None /\ o \in Reach({p})}
  BY DEF Change
<1>2. Formed'
  <2>1. c \in Content
    BY ContentsAssumption
  <2> QED BY <2>1, <1>1 DEF Formed
<1>3. \A p \in Objects : p # o => heap'[p] = heap[p]
  BY <1>1 DEF Formed
<1>4. cache \in Cache
  BY DEF Right
<1>5. ASSUME NEW q \in Objects, cache[q] # None PROVE Holds(q, cache[q])'
  <2> DEFINE text == cache[q]
  <2>1. Holds(q, text)
    BY <1>5 DEF Right
  <2>2. CASE o \in Reach({q})
    <3>1. q \in touched'
      BY <1>1, <1>5, <2>2
    <3>2. q \in Reach({q})'
      <4>1. ReachFacts'
        BY ReachAlways, PTL
      <4>2. {q} \subseteq Reach({q})'
        BY <4>1, <1>2 DEF ReachFacts
      <4> QED BY <4>2
    <3>3. ~ Sound(q)'
      BY <3>1, <3>2 DEF Sound
    <3>4. text \in Text /\ text # None
      BY <2>1 DEF Holds
    <3>5. cache'[q] = text
      BY <1>1
    <3> HIDE DEF text
    <3>6. cache'[q] \in Text /\ cache'[q] # None
      BY <3>4, <3>5
    <3> QED BY <3>3, <3>6 DEF Holds
  <2>3. CASE o \notin Reach({q})
    <3>1. Untouched(q)
      <4>1. \A p \in Reach({q}) : p \in Objects /\ p # o
        BY <2>3, ReachStep
      <4> QED BY <4>1, <1>3 DEF Untouched
    <3>2. touched \subseteq touched'
      BY <1>1
    <3>3. cache'[q] = text
      BY <1>1
    <3>4. \A t : Holds(q, t) => Holds(q, t)'
      BY <1>2, <3>1, <3>2, UntouchedHolds
    <3> HIDE DEF text
    <3>5. \A t : t = text => Holds(q, t)'
      BY <2>1, <3>4
    <3> QED BY <3>3, <3>5
  <2> QED BY <2>2, <2>3
<1>6. Right(cache)'
  BY <1>1, <1>4, <1>5 DEF Right
<1> QED BY <1>2, <1>6

-----------------------------------------------------------------------------
(* Theorems.                                                               *)

\* Objects are well formed, and every text the cache has for an object none of
\* whose parts changed since it was serialized reads back as that object.
CodecsInvariant == Formed /\ Right(cache)

\* The cache is empty at first.
LEMMA CodecsInitially == CodecsInit => CodecsInvariant
<1> SUFFICES ASSUME CodecsInit PROVE CodecsInvariant
  OBVIOUS
<1>1. Formed
  <2>1. /\ heap \in [Objects -> UNION {Contents(o) : o \in Objects}]
        /\ \A o \in Objects : heap[o] \in Contents(o)
    BY DEF CodecsInit
  <2>2. \A o \in Objects : heap[o] \in Content
    BY <2>1, ContentsAssumption
  <2> QED BY <2>1, <2>2 DEF Formed
<1>2. Right(cache)
  <2>1. cache = [o \in Objects |-> None]
    BY DEF CodecsInit
  <2>2. None \in Text
    BY DEF None, Text
  <2>3. cache \in Cache /\ \A q \in Objects : cache[q] = None
    BY <2>1, <2>2 DEF Cache
  <2> QED BY <2>3 DEF Right
<1> QED BY <1>1, <1>2 DEF CodecsInvariant

\* Every step keeps the invariant.
LEMMA CodecsStep == CodecsInvariant /\ [CodecsNext]_memory => CodecsInvariant'
<1> SUFFICES ASSUME Formed, Right(cache), [CodecsNext]_memory PROVE Formed' /\ Right(cache)'
  BY DEF CodecsInvariant
<1>1. ASSUME NEW o \in Objects, Send(o) PROVE Formed' /\ Right(cache)'
  <2> DEFINE known == Serialize(o).cache
  <2>1. heap' = heap /\ touched' = touched /\ cache' = known
    BY <1>1 DEF Send
  <2>2. Right(known)
    BY SerializeGood DEF Good
  <2> HIDE DEF known
  <2> QED BY <2>1, <2>2, SameRight
<1>2. ASSUME NEW o \in Objects, NEW c \in Contents(o), Change(o, c) PROVE Formed' /\ Right(cache)'
  BY <1>2, ChangeRight
<1>3. CASE UNCHANGED memory
  <2>1. heap' = heap /\ touched' = touched /\ cache' = cache
    BY <1>3 DEF memory
  <2> QED BY <2>1, SameRight
<1> QED BY <1>1, <1>2, <1>3 DEF CodecsNext

\* The cache of serialize() never holds a wrong text of an object that did not
\* change, though a text is kept while a program changes other objects, which may
\* share parts with it or contain it, and though a call that is refused half-way
\* leaves what it has kept.
THEOREM KeptTexts == CodecsSpec => []CodecsInvariant
<1> QED BY CodecsInitially, CodecsStep, PTL DEF CodecsSpec

\* What serialize() writes, and what PostgreSQL writes for the same value, reads
\* back as the object that was sent, for every object that does not contain
\* itself and did not change after it was first serialized; serialize() refuses
\* those that contain themselves, and no others.
THEOREM RoundTrips == CodecsSpec => []RoundTrip
<1>1. CodecsInvariant => RoundTrip
  BY Trip DEF CodecsInvariant
<1> QED BY <1>1, KeptTexts, PTL
=============================================================================
