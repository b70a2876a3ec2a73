---------------------------- MODULE PersisterProofs ----------------------------
(***************************************************************************)
(* Theorems about Persister and Search, for any columns, objects, options  *)
(* and tables: the statements do what the calls promise.                   *)
(***************************************************************************)
EXTENDS Search, FiniteSetTheorems, SequenceTheorems, WellFoundedInduction, TLAPS

-----------------------------------------------------------------------------
(* The elements of a sequence at some positions.                           *)

\* How many positions of I come no later than i.
Rank(I, i) == Cardinality({j \in I : j <= i})

LEMMA Positions ==
    ASSUME NEW n \in Nat, NEW I \in SUBSET (1 .. n)
    PROVE  /\ IsFiniteSet(I) /\ Cardinality(I) \in Nat
           /\ \A i \in I : Rank(I, i) \in 1 .. Cardinality(I)
<1>1. IsFiniteSet(1 .. n)
  BY FS_Interval
<1>2. IsFiniteSet(I) /\ Cardinality(I) \in Nat
  BY <1>1, FS_Subset, FS_CardinalityType
<1>3. ASSUME NEW i \in I PROVE Rank(I, i) \in 1 .. Cardinality(I)
  <2> DEFINE J == {j \in I : j <= i}
  <2>1. J \in SUBSET I /\ i \in J
    OBVIOUS
  <2>2. IsFiniteSet(J) /\ Cardinality(J) <= Cardinality(I)
    BY <2>1, <1>2, FS_Subset
  <2>3. Cardinality(J) \in Nat
    BY <2>2, FS_CardinalityType
  <2>4. Cardinality(J) # 0
    BY <2>1, <2>2, FS_EmptySet
  <2> QED BY <2>2, <2>3, <2>4, <1>2 DEF Rank
<1> QED BY <1>2, <1>3

\* A later position has a higher rank.
LEMMA RankGrows ==
    ASSUME NEW n \in Nat, NEW I \in SUBSET (1 .. n), NEW i \in I, NEW k \in I, i < k
    PROVE  Rank(I, i) < Rank(I, k)
<1> DEFINE A == {j \in I : j <= i}
           B == {j \in I : j <= k}
<1>0. i \in Nat /\ k \in Nat /\ \A j \in I : j \in Nat
  OBVIOUS
<1>1. A \in SUBSET B /\ k \in B /\ k \notin A
  <2>1. \A j \in I : j <= i => j <= k
    BY <1>0
  <2>2. ~ (k <= i) /\ k <= k
    BY <1>0
  <2> QED BY <2>1, <2>2
<1>2. B \in SUBSET (1 .. n) /\ A \in SUBSET (1 .. n)
  OBVIOUS
<1> HIDE DEF A, B
<1>3. IsFiniteSet(B) /\ Cardinality(A) \in Nat /\ Cardinality(B) \in Nat
  BY <1>2, Positions
<1>4. Cardinality(A) <= Cardinality(B) /\ (Cardinality(A) = Cardinality(B) => B = A)
  BY <1>1, <1>3, FS_Subset
<1> QED BY <1>1, <1>3, <1>4 DEF Rank, A, B

LEMMA RankDiffers ==
    ASSUME NEW n \in Nat, NEW I \in SUBSET (1 .. n), NEW i \in I, NEW k \in I,
           Rank(I, i) = Rank(I, k)
    PROVE  i = k
<1>1. i \in Int /\ k \in Int
  OBVIOUS
<1>2. Rank(I, i) \in 1 .. Cardinality(I) /\ Cardinality(I) \in Nat
  BY Positions
<1>3. ~ (i < k)
  <2> SUFFICES ASSUME i < k PROVE FALSE
    OBVIOUS
  <2>1. Rank(I, i) < Rank(I, k)
    BY RankGrows
  <2> QED BY <1>2, <2>1
<1>4. ~ (k < i)
  <2> SUFFICES ASSUME k < i PROVE FALSE
    OBVIOUS
  <2>1. Rank(I, k) < Rank(I, i)
    BY RankGrows
  <2> QED BY <1>2, <2>1
<1> QED BY <1>1, <1>3, <1>4

\* Every number up to the number of positions is a rank.
LEMMA RankReaches ==
    ASSUME NEW n \in Nat, NEW I \in SUBSET (1 .. n), NEW m \in 1 .. Cardinality(I)
    PROVE  \E i \in I : Rank(I, i) = m
<1> DEFINE N == Cardinality(I)
           f == [i \in I |-> Rank(I, i)]
<1>1. IsFiniteSet(I) /\ N \in Nat /\ f \in [I -> 1 .. N]
  BY Positions
<1>2. f \in Injection(I, 1 .. N)
  BY <1>1, RankDiffers DEF Injection, IsInjective
<1>3. IsFiniteSet(1 .. N) /\ Cardinality(1 .. N) = N
  BY <1>1, FS_Interval
<1>4. f \in Surjection(I, 1 .. N)
  <2> HIDE DEF f
  <2> QED BY <1>1, <1>2, <1>3, FS_Injection
<1>5. PICK i \in I : f[i] = m
  BY <1>4 DEF Surjection
<1> QED BY <1>5

\* What is kept: a sequence, in which the element at a position of I is found at
\* the rank of the position, and nothing else.
LEMMA KeptElements ==
    ASSUME NEW S, NEW s \in Seq(S), NEW I \in SUBSET (DOMAIN s)
    PROVE  /\ Kept(s, I) \in Seq(S) /\ Len(Kept(s, I)) = Cardinality(I)
           /\ Cardinality(I) \in Nat
           /\ DOMAIN Kept(s, I) = 1 .. Cardinality(I)
           /\ \A i \in I : /\ Rank(I, i) \in DOMAIN Kept(s, I)
                           /\ Kept(s, I)[Rank(I, i)] = s[i]
           /\ \A m \in DOMAIN Kept(s, I) : \E i \in I :
                Rank(I, i) = m /\ Kept(s, I)[m] = s[i]
<1>1. Len(s) \in Nat /\ DOMAIN s = 1 .. Len(s)
  BY LenProperties
<1>2. I \in SUBSET (1 .. Len(s))
  BY <1>1
<1>3. Cardinality(I) \in Nat /\ \A i \in I : Rank(I, i) \in 1 .. Cardinality(I)
  BY <1>1, <1>2, Positions
<1>4. DOMAIN Kept(s, I) = 1 .. Cardinality(I)
  BY DEF Kept
<1>5. ASSUME NEW i \in I PROVE Kept(s, I)[Rank(I, i)] = s[i]
  <2> DEFINE c == CHOOSE k \in I : Rank(I, k) = Rank(I, i)
  <2>1. c \in I /\ Rank(I, c) = Rank(I, i)
    OBVIOUS
  <2>2. c = i
    <3> HIDE DEF c
    <3> QED BY <1>1, <1>2, <2>1, RankDiffers
  <2>3. Kept(s, I)[Rank(I, i)] = s[c]
    BY <1>3 DEF Kept, Rank
  <2> QED BY <2>2, <2>3
<1>6. ASSUME NEW m \in DOMAIN Kept(s, I)
      PROVE  \E i \in I : Rank(I, i) = m /\ Kept(s, I)[m] = s[i]
  <2>1. PICK i \in I : Rank(I, i) = m
    BY <1>1, <1>2, <1>4, RankReaches
  <2> QED BY <2>1, <1>5
<1>7. \A m \in 1 .. Cardinality(I) : Kept(s, I)[m] \in S
  BY <1>1, <1>2, <1>4, <1>6, ElementOfSeq
<1>8. Kept(s, I) \in [1 .. Cardinality(I) -> S]
  BY <1>7 DEF Kept
<1>9. Kept(s, I) \in Seq(S) /\ Len(Kept(s, I)) = Cardinality(I)
  BY <1>3, <1>8
<1> QED BY <1>3, <1>4, <1>5, <1>6, <1>9

-----------------------------------------------------------------------------
(* Objects.                                                                *)

LEMMA ObjectEntries ==
    ASSUME NEW o, IsObject(o)
    PROVE  /\ o \in Seq(Entry) /\ Len(o) \in Nat /\ DOMAIN o = 1 .. Len(o)
           /\ \A i \in DOMAIN o :
                /\ o[i] \in Entry /\ o[i].column \in Column
                /\ o[i].value \in Nat \cup {Undefined}
                /\ Has(o, o[i].column) /\ Get(o, o[i].column) = o[i].value
           /\ \A c : Has(o, c) => \E i \in DOMAIN o :
                o[i].column = c /\ Get(o, c) = o[i].value
<1>1. o \in Seq(Entry) /\ Len(o) \in Nat /\ DOMAIN o = 1 .. Len(o)
  BY LenProperties DEF IsObject
<1>2. \A i \in DOMAIN o : o[i] \in Entry
  BY <1>1, ElementOfSeq
<1>3. \A i \in DOMAIN o : o[i].column \in Column /\ o[i].value \in Nat \cup {Undefined}
  BY <1>2 DEF Entry
<1>4. ASSUME NEW c, Has(o, c)
      PROVE  \E i \in DOMAIN o : o[i].column = c /\ Get(o, c) = o[i].value
  BY <1>4 DEF Has, Get
<1>5. ASSUME NEW i \in DOMAIN o
      PROVE  Has(o, o[i].column) /\ Get(o, o[i].column) = o[i].value
  <2>1. Has(o, o[i].column)
    BY DEF Has
  <2>2. PICK k \in DOMAIN o : o[k].column = o[i].column /\ Get(o, o[i].column) = o[k].value
    BY <2>1, <1>4
  <2>3. k = i
    BY <2>2 DEF IsObject
  <2> QED BY <2>1, <2>2, <2>3
<1> QED BY <1>1, <1>2, <1>3, <1>4, <1>5

\* The entries of an object that are kept are an object.
LEMMA KeptObject ==
    ASSUME NEW o, IsObject(o), NEW I \in SUBSET (DOMAIN o)
    PROVE  /\ IsObject(Kept(o, I))
           /\ \A m \in DOMAIN Kept(o, I) : \E i \in I : Kept(o, I)[m] = o[i]
           /\ \A i \in I : \E m \in DOMAIN Kept(o, I) : Kept(o, I)[m] = o[i]
<1> DEFINE k == Kept(o, I)
<1>1. /\ o \in Seq(Entry) /\ Len(o) \in Nat /\ DOMAIN o = 1 .. Len(o)
  BY ObjectEntries
<1>2. /\ k \in Seq(Entry)
      /\ \A i \in I : Rank(I, i) \in DOMAIN k /\ k[Rank(I, i)] = o[i]
      /\ \A m \in DOMAIN k : \E i \in I : Rank(I, i) = m /\ k[m] = o[i]
  BY <1>1, KeptElements
<1> HIDE DEF k
<1>3. ASSUME NEW m \in DOMAIN k, NEW n \in DOMAIN k, k[m].column = k[n].column
      PROVE  m = n
  <2>1. PICK i \in I : Rank(I, i) = m /\ k[m] = o[i]
    BY <1>2
  <2>2. PICK j \in I : Rank(I, j) = n /\ k[n] = o[j]
    BY <1>2
  <2>3. i = j
    BY <1>3, <2>1, <2>2 DEF IsObject
  <2> QED BY <2>1, <2>2, <2>3
<1>4. IsObject(k)
  BY <1>2, <1>3 DEF IsObject
<1> QED BY <1>2, <1>4 DEF k

\* The defined entries: an object without undefined entries, that says of a
\* column what the object says of it.
LEMMA DefinedObject ==
    ASSUME NEW o, IsObject(o)
    PROVE  /\ IsObject(Defined(o))
           /\ \A i \in DOMAIN Defined(o) : Defined(o)[i].value \in Nat
           /\ \A c : Has(Defined(o), c) <=> Has(o, c) /\ Get(o, c) # Undefined
           /\ \A c : Has(Defined(o), c) => Get(Defined(o), c) = Get(o, c)
           /\ Defined(o) = <<>> <=> Empty(o)
           /\ Len(Defined(o)) = 0 <=> Empty(o)
<1> DEFINE d == Defined(o)
           I == {i \in DOMAIN o : o[i].value # Undefined}
<1>1. /\ IsObject(d)
      /\ \A m \in DOMAIN d : \E i \in I : d[m] = o[i]
      /\ \A i \in I : \E m \in DOMAIN d : d[m] = o[i]
  <2>1. I \in SUBSET (DOMAIN o) /\ d = Kept(o, I)
    BY DEF Defined
  <2> HIDE DEF I, d
  <2> QED BY <2>1, KeptObject
<1> HIDE DEF d
<1>2. ASSUME NEW m \in DOMAIN d
      PROVE  /\ d[m].value # Undefined
             /\ \E i \in I : d[m] = o[i]
  BY <1>1
<1>3. \A i \in DOMAIN d : d[i].value \in Nat
  BY <1>1, <1>2, ObjectEntries
<1>4. ASSUME NEW c, Has(d, c)
      PROVE  Has(o, c) /\ Get(o, c) # Undefined /\ Get(d, c) = Get(o, c)
  <2>1. PICK m \in DOMAIN d : d[m].column = c /\ Get(d, c) = d[m].value
    BY <1>1, <1>4, ObjectEntries
  <2>2. PICK i \in I : d[m] = o[i]
    BY <1>2
  <2>3. Has(o, c) /\ Get(o, c) = o[i].value
    BY <2>1, <2>2, ObjectEntries
  <2> QED BY <2>1, <2>2, <2>3
<1>5. ASSUME NEW c, Has(o, c), Get(o, c) # Undefined
      PROVE  Has(d, c)
  <2>1. PICK i \in DOMAIN o : o[i].column = c /\ Get(o, c) = o[i].value
    BY <1>5, ObjectEntries
  <2>2. i \in I
    BY <1>5, <2>1
  <2>3. PICK m \in DOMAIN d : d[m] = o[i]
    BY <1>1, <2>2
  <2> QED BY <2>1, <2>3 DEF Has
<1>6. Empty(o) <=> DOMAIN d = {}
  <2>1. ASSUME NEW m \in DOMAIN d PROVE ~ Empty(o)
    BY <1>2 DEF Empty
  <2>2. ASSUME NEW i \in DOMAIN o, o[i].value # Undefined PROVE DOMAIN d # {}
    BY <1>1, <2>2
  <2> QED BY <2>1, <2>2 DEF Empty
<1>7. d \in Seq(Entry) /\ Len(d) \in Nat /\ DOMAIN d = 1 .. Len(d)
  BY <1>1, ObjectEntries
<1>8. (DOMAIN d = {} <=> Len(d) = 0) /\ (d = <<>> <=> Len(d) = 0)
  <2>1. d # <<>> => Len(d) # 0
    BY <1>7, EmptySeq
  <2>2. d = <<>> => Len(d) = 0
    OBVIOUS
  <2>3. DOMAIN d = {} <=> Len(d) = 0
    <3>1. Len(d) = 0 => 1 .. Len(d) = {}
      OBVIOUS
    <3>2. Len(d) # 0 => 1 \in 1 .. Len(d)
      BY <1>7
    <3> QED BY <1>7, <3>1, <3>2
  <2> QED BY <2>1, <2>2, <2>3
<1> QED BY <1>1, <1>3, <1>4, <1>5, <1>6, <1>8 DEF d

-----------------------------------------------------------------------------
(* WHERE.                                                                  *)

LEMMA ValuesOfEntries ==
    ASSUME NEW o \in Seq(Entry), \A i \in DOMAIN o : o[i].value \in Nat
    PROVE  /\ Values(o) \in Seq(Nat) /\ Len(Values(o)) = Len(o)
           /\ \A i \in DOMAIN o : Values(o)[i] = o[i].value
<1>1. Len(o) \in Nat /\ DOMAIN o = 1 .. Len(o)
  BY LenProperties
<1>2. Values(o) \in [1 .. Len(o) -> Nat]
  BY <1>1 DEF Values
<1> QED BY <1>1, <1>2 DEF Values

\* q begins with p.
Begins(q, p) == Len(p) <= Len(q) /\ \A i \in 1 .. Len(p) : q[i] = p[i]

LEMMA Joined ==
    ASSUME NEW S, NEW s \in Seq(S), NEW t \in Seq(S)
    PROVE  /\ s \o t \in Seq(S) /\ Len(s) \in Nat /\ Len(t) \in Nat
           /\ Len(s \o t) = Len(s) + Len(t) /\ Begins(s \o t, s)
           /\ \A m \in 1 .. Len(t) : (s \o t)[Len(s) + m] = t[m]
<1>1. Len(s) \in Nat /\ Len(t) \in Nat
  BY LenProperties
<1>2. /\ s \o t \in Seq(S) /\ Len(s \o t) = Len(s) + Len(t)
      /\ \A i \in 1 .. Len(s) + Len(t) :
            (s \o t)[i] = IF i <= Len(s) THEN s[i] ELSE t[i - Len(s)]
  BY ConcatProperties
<1>3. Begins(s \o t, s)
  BY <1>1, <1>2 DEF Begins
<1>4. ASSUME NEW m \in 1 .. Len(t) PROVE (s \o t)[Len(s) + m] = t[m]
  <2>1. /\ Len(s) + m \in 1 .. Len(s) + Len(t) /\ ~ (Len(s) + m <= Len(s))
        /\ (Len(s) + m) - Len(s) = m
    BY <1>1
  <2> QED BY <2>1, <1>2
<1> QED BY <1>1, <1>2, <1>3, <1>4

LEMMA BeginsFurther ==
    ASSUME NEW a, NEW b, NEW c, Begins(a, b), Begins(b, c),
           Len(a) \in Nat, Len(b) \in Nat, Len(c) \in Nat
    PROVE  Begins(a, c)
BY DEF Begins

\* A placeholder of WHERE stands for the value of its entry, and there is none
\* for a null, whatever parameters come before and after those of WHERE.
LEMMA WherePlaceholders ==
    ASSUME NEW query, IsObject(query), NEW params \in Seq(Nat)
    PROVE  LET w == Where(query, params)
               d == Defined(query)
           IN  /\ w.params \in Seq(Nat) /\ Begins(w.params, params)
               /\ w.count = Len(d)
               /\ DOMAIN w.conditions = DOMAIN d
               /\ \A i \in DOMAIN d :
                    /\ w.conditions[i].column = d[i].column
                    /\ w.conditions[i].index = 0 <=> d[i].value = Null
                    /\ w.conditions[i].index # 0 =>
                         /\ w.conditions[i].index \in 1 .. Len(w.params)
                         /\ w.params[w.conditions[i].index] = d[i].value
<1> DEFINE w == Where(query, params)
           d == Defined(query)
           N == {i \in DOMAIN d : d[i].value # Null}
           k == Kept(d, N)
           place(i) == Cardinality({j \in 1 .. i : d[j].value # Null})
<1>1. /\ IsObject(d) /\ d \in Seq(Entry) /\ Len(d) \in Nat /\ DOMAIN d = 1 .. Len(d)
      /\ \A i \in DOMAIN d : d[i].value \in Nat
  BY DefinedObject, ObjectEntries
<1>2. /\ w.params = params \o Values(k) /\ w.count = Len(d)
      /\ w.conditions = [i \in DOMAIN d |->
            [column |-> d[i].column,
             index |-> IF d[i].value = Null THEN 0 ELSE Len(params) + place(i)]]
  BY DEF Where
<1> HIDE DEF w, d
<1>3. N \in SUBSET (DOMAIN d)
  OBVIOUS
<1>4. \A i \in DOMAIN d : place(i) = Rank(N, i)
  <2> SUFFICES ASSUME NEW i \in DOMAIN d PROVE place(i) = Rank(N, i)
    OBVIOUS
  <2>1. {j \in 1 .. i : d[j].value # Null} = {j \in N : j <= i}
    BY <1>1
  <2> QED BY <2>1 DEF Rank
<1> HIDE DEF place
<1>5. /\ k \in Seq(Entry) /\ Len(k) \in Nat /\ DOMAIN k = 1 .. Len(k)
      /\ \A i \in N : Rank(N, i) \in DOMAIN k /\ k[Rank(N, i)] = d[i]
      /\ \A m \in DOMAIN k : \E i \in N : k[m] = d[i]
  <2> HIDE DEF N
  <2> QED BY <1>1, <1>3, KeptElements
<1>6. /\ Values(k) \in Seq(Nat) /\ Len(Values(k)) = Len(k)
      /\ \A m \in DOMAIN k : Values(k)[m] = k[m].value
  <2>1. \A m \in DOMAIN k : k[m].value \in Nat
    BY <1>1, <1>5
  <2> HIDE DEF k
  <2> QED BY <1>5, <2>1, ValuesOfEntries
<1>7. /\ w.params \in Seq(Nat) /\ Len(w.params) = Len(params) + Len(k)
      /\ Len(params) \in Nat
      /\ \A i \in 1 .. Len(params) : w.params[i] = params[i]
      /\ \A m \in 1 .. Len(k) : w.params[Len(params) + m] = k[m].value
  <2> HIDE DEF k
  <2>1. Len(params) \in Nat
    BY LenProperties
  <2> DEFINE v == Values(k)
  <2>0. v \in Seq(Nat) /\ Len(v) = Len(k)
    BY <1>6
  <2> HIDE DEF v
  <2>2. /\ params \o v \in Seq(Nat) /\ Len(params \o v) = Len(params) + Len(v)
        /\ \A i \in 1 .. Len(params) + Len(v) : (params \o v)[i] =
              IF i <= Len(params) THEN params[i] ELSE v[i - Len(params)]
    BY <2>0, ConcatProperties
  <2>3. w.params = params \o v
    BY <1>2 DEF v
  <2>4. ASSUME NEW m \in 1 .. Len(k) PROVE w.params[Len(params) + m] = v[m]
    <3>1. /\ Len(params) + m \in 1 .. Len(params) + Len(v)
          /\ ~ (Len(params) + m <= Len(params)) /\ (Len(params) + m) - Len(params) = m
      BY <2>0, <2>1, <1>5
    <3> QED BY <3>1, <2>2, <2>3
  <2>5. \A i \in 1 .. Len(params) : w.params[i] = params[i]
    BY <2>0, <2>1, <2>2, <2>3, <1>5
  <2>6. \A m \in 1 .. Len(k) : v[m] = k[m].value
    BY <1>5, <1>6 DEF v
  <2> QED BY <2>0, <2>1, <2>2, <2>3, <2>4, <2>5, <2>6
<1>8. Begins(w.params, params)
  BY <1>5, <1>7 DEF Begins
<1>9. ASSUME NEW i \in DOMAIN d
      PROVE  /\ w.conditions[i].column = d[i].column
             /\ w.conditions[i].index = 0 <=> d[i].value = Null
             /\ w.conditions[i].index # 0 =>
                  /\ w.conditions[i].index \in 1 .. Len(w.params)
                  /\ w.params[w.conditions[i].index] = d[i].value
  <2>1. CASE d[i].value = Null
    BY <2>1, <1>2
  <2>2. CASE d[i].value # Null
    <3>1. i \in N
      BY <2>2
    <3>2. Rank(N, i) \in 1 .. Len(k) /\ k[Rank(N, i)] = d[i]
      BY <3>1, <1>5
    <3>3. /\ w.conditions[i].column = d[i].column
          /\ w.conditions[i].index = Len(params) + Rank(N, i)
      BY <1>2, <1>4, <2>2
    <3> DEFINE x == Rank(N, i)
    <3>4. x \in 1 .. Len(k) /\ k[x] = d[i] /\ w.conditions[i].index = Len(params) + x
      BY <3>2, <3>3
    <3> HIDE DEF N, k, x
    <3>5. Len(params) + x # 0 /\ Len(params) + x \in 1 .. Len(w.params)
      <4> DEFINE a == Len(params)
                 b == Len(k)
      <4>1. a \in Nat /\ b \in Nat /\ x \in 1 .. b
        BY <3>4, <1>5, <1>7
      <4>2. Len(w.params) = a + b
        BY <1>7
      <4> HIDE DEF a, b
      <4>3. a + x # 0 /\ a + x \in 1 .. a + b
        BY <4>1
      <4> QED BY <4>2, <4>3 DEF a
    <3>6. w.params[Len(params) + x] = k[x].value
      BY <3>4, <1>7
    <3> QED BY <3>3, <3>4, <3>5, <3>6, <2>2
  <2> QED BY <2>1, <2>2
<1>10. DOMAIN w.conditions = DOMAIN d
  BY <1>2
<1> QED BY <1>2, <1>7, <1>8, <1>9, <1>10 DEF w, d

\* The rows that a WHERE selects are those that the query describes.
LEMMA WhereMatches ==
    ASSUME NEW query, IsObject(query), NEW params \in Seq(Nat), NEW all,
           Begins(all, Where(query, params).params), NEW row
    PROVE  Holds(row, Where(query, params).conditions, all) <=> Matches(row, query)
<1> DEFINE w == Where(query, params)
           d == Defined(query)
<1>1. /\ w.params \in Seq(Nat) /\ DOMAIN w.conditions = DOMAIN d
      /\ \A i \in DOMAIN d :
            /\ w.conditions[i].column = d[i].column
            /\ w.conditions[i].index = 0 <=> d[i].value = Null
            /\ w.conditions[i].index # 0 =>
                 /\ w.conditions[i].index \in 1 .. Len(w.params)
                 /\ w.params[w.conditions[i].index] = d[i].value
  BY WherePlaceholders
<1>2. /\ IsObject(d)
      /\ \A c : Has(d, c) <=> Has(query, c) /\ Get(query, c) # Undefined
      /\ \A c : Has(d, c) => Get(d, c) = Get(query, c)
  BY DefinedObject
<1>3. Begins(all, w.params)
  OBVIOUS
<1> HIDE DEF w, d
<1>4. ASSUME NEW i \in DOMAIN d
      PROVE  d[i].value = IF w.conditions[i].index = 0 THEN Null
                          ELSE all[w.conditions[i].index]
  <2>1. CASE w.conditions[i].index = 0
    BY <2>1, <1>1
  <2>2. CASE w.conditions[i].index # 0
    <3> DEFINE x == w.conditions[i].index
    <3>1. x # 0 /\ x \in 1 .. Len(w.params) /\ w.params[x] = d[i].value
      BY <1>1, <2>2
    <3> HIDE DEF x
    <3>2. all[x] = w.params[x]
      BY <3>1, <1>3 DEF Begins
    <3> QED BY <3>1, <3>2 DEF x
  <2> QED BY <2>1, <2>2
<1>5. Holds(row, w.conditions, all) <=>
         \A i \in DOMAIN d : row[d[i].column] = d[i].value
  <2>1. Holds(row, w.conditions, all) <=>
           \A i \in DOMAIN d : row[w.conditions[i].column] =
              IF w.conditions[i].index = 0 THEN Null ELSE all[w.conditions[i].index]
    BY <1>1 DEF Holds
  <2>2. ASSUME NEW i \in DOMAIN d
        PROVE  row[d[i].column] = d[i].value <=> row[w.conditions[i].column] =
                 IF w.conditions[i].index = 0 THEN Null ELSE all[w.conditions[i].index]
    <3>1. w.conditions[i].column = d[i].column
      BY <1>1
    <3> QED BY <3>1, <1>4
  <2> QED BY <2>1, <2>2
<1>6. (\A i \in DOMAIN d : row[d[i].column] = d[i].value) <=>
         \A c \in Column : Has(d, c) => row[c] = Get(d, c)
  <2>1. ASSUME \A i \in DOMAIN d : row[d[i].column] = d[i].value,
               NEW c \in Column, Has(d, c)
        PROVE  row[c] = Get(d, c)
    <3>1. PICK i \in DOMAIN d : d[i].column = c /\ Get(d, c) = d[i].value
      BY <2>1, <1>2, ObjectEntries
    <3> QED BY <3>1, <2>1
  <2>2. ASSUME \A c \in Column : Has(d, c) => row[c] = Get(d, c), NEW i \in DOMAIN d
        PROVE  row[d[i].column] = d[i].value
    <3>1. d[i].column \in Column /\ Has(d, d[i].column) /\ Get(d, d[i].column) = d[i].value
      BY <1>2, ObjectEntries
    <3> QED BY <3>1, <2>2
  <2> QED BY <2>1, <2>2
<1>7. Matches(row, query) <=> \A c \in Column : Has(d, c) => row[c] = Get(d, c)
  BY <1>2 DEF Matches
<1> QED BY <1>5, <1>6, <1>7 DEF w

-----------------------------------------------------------------------------
(* VALUES and SET.                                                         *)

\* The row that VALUES gives has what the object says of each column.
LEMMA GivenIsPatched ==
    ASSUME NEW o, IsObject(o), NEW stmt, NEW row,
           stmt.columns = Columns(Defined(o)),
           stmt.placeholders = [i \in DOMAIN Defined(o) |-> i],
           Begins(stmt.params, Values(Defined(o)))
    PROVE  Given(row, stmt) = Patched(row, o)
<1> DEFINE d == Defined(o)
<1>1. /\ IsObject(d) /\ d \in Seq(Entry) /\ Len(d) \in Nat /\ DOMAIN d = 1 .. Len(d)
      /\ \A i \in DOMAIN d : d[i].value \in Nat
  BY DefinedObject, ObjectEntries
<1>2. /\ \A c : Has(d, c) <=> Has(o, c) /\ Get(o, c) # Undefined
      /\ \A c : Has(d, c) => Get(d, c) = Get(o, c)
  BY DefinedObject
<1>3. /\ stmt.columns = Columns(d) /\ stmt.placeholders = [i \in DOMAIN d |-> i]
      /\ Begins(stmt.params, Values(d))
  OBVIOUS
<1> HIDE DEF d
<1>4. /\ DOMAIN stmt.columns = DOMAIN d
      /\ \A i \in DOMAIN d : stmt.columns[i] = d[i].column /\ stmt.placeholders[i] = i
  BY <1>3 DEF Columns
<1>5. \A i \in DOMAIN d : stmt.params[i] = d[i].value
  <2>1. Len(Values(d)) = Len(d) /\ \A i \in DOMAIN d : Values(d)[i] = d[i].value
    BY <1>1, ValuesOfEntries
  <2> QED BY <2>1, <1>1, <1>3 DEF Begins
<1>6. ASSUME NEW c \in Column
      PROVE  (IF \E i \in DOMAIN stmt.columns : stmt.columns[i] = c
              THEN stmt.params[stmt.placeholders[
                      CHOOSE i \in DOMAIN stmt.columns : stmt.columns[i] = c]]
              ELSE row[c])
             = IF Has(o, c) /\ Get(o, c) # Undefined THEN Get(o, c) ELSE row[c]
  <2>1. (\E i \in DOMAIN stmt.columns : stmt.columns[i] = c) <=> Has(d, c)
    BY <1>4 DEF Has
  <2>2. CASE Has(d, c)
    <3> DEFINE x == CHOOSE i \in DOMAIN stmt.columns : stmt.columns[i] = c
    <3>1. x \in DOMAIN d /\ d[x].column = c
      BY <2>1, <2>2, <1>4
    <3> HIDE DEF x
    <3>2. stmt.params[stmt.placeholders[x]] = d[x].value
      BY <3>1, <1>4, <1>5
    <3>3. Get(d, c) = d[x].value
      BY <3>1, <1>1, ObjectEntries
    <3> QED BY <2>1, <2>2, <3>2, <3>3, <1>2 DEF x
  <2>3. CASE ~ Has(d, c)
    BY <2>1, <2>3, <1>2
  <2> QED BY <2>2, <2>3
<1> QED BY <1>6 DEF Given, Patched

\* The row that SET leaves has what the object says of each column.
LEMMA AssignedIsPatched ==
    ASSUME NEW o, IsObject(o), NEW stmt, NEW row,
           DOMAIN stmt.updates = DOMAIN Defined(o),
           \A i \in DOMAIN Defined(o) :
               /\ stmt.updates[i].column = Defined(o)[i].column
               /\ stmt.params[stmt.updates[i].index] = Defined(o)[i].value
    PROVE  Assigned(row, stmt) = Patched(row, o)
<1> DEFINE d == Defined(o)
<1>1. IsObject(d)
  BY DefinedObject
<1>2. /\ \A c : Has(d, c) <=> Has(o, c) /\ Get(o, c) # Undefined
      /\ \A c : Has(d, c) => Get(d, c) = Get(o, c)
  BY DefinedObject
<1>3. /\ DOMAIN stmt.updates = DOMAIN d
      /\ \A i \in DOMAIN d : /\ stmt.updates[i].column = d[i].column
                             /\ stmt.params[stmt.updates[i].index] = d[i].value
  OBVIOUS
<1> HIDE DEF d
<1>4. ASSUME NEW c \in Column
      PROVE  (IF \E i \in DOMAIN stmt.updates : stmt.updates[i].column = c
              THEN stmt.params[stmt.updates[
                      CHOOSE i \in DOMAIN stmt.updates : stmt.updates[i].column = c].index]
              ELSE row[c])
             = IF Has(o, c) /\ Get(o, c) # Undefined THEN Get(o, c) ELSE row[c]
  <2>1. (\E i \in DOMAIN stmt.updates : stmt.updates[i].column = c) <=> Has(d, c)
    BY <1>3 DEF Has
  <2>2. CASE Has(d, c)
    <3> DEFINE x == CHOOSE i \in DOMAIN stmt.updates : stmt.updates[i].column = c
    <3>1. x \in DOMAIN d /\ d[x].column = c
      BY <2>1, <2>2, <1>3
    <3>2. stmt.params[stmt.updates[x].index] = d[x].value
      BY <3>1, <1>3
    <3>3. Get(d, c) = d[x].value
      BY <3>1, <1>1, ObjectEntries
    <3> QED BY <2>1, <2>2, <3>2, <3>3, <1>2
  <2>3. CASE ~ Has(d, c)
    BY <2>1, <2>3, <1>2
  <2> QED BY <2>2, <2>3
<1> QED BY <1>4 DEF Assigned, Patched

\* { ...a, ...b } says of a column what b says of it, or what a does.
LEMMA SpreadObject ==
    ASSUME NEW a, IsObject(a), NEW b, IsObject(b)
    PROVE  /\ IsObject(Spread(a, b))
           /\ \A c : Has(Spread(a, b), c) <=> Has(a, c) \/ Has(b, c)
           /\ \A c : Has(Spread(a, b), c) =>
                Get(Spread(a, b), c) = IF Has(b, c) THEN Get(b, c) ELSE Get(a, c)
<1> DEFINE s == Spread(a, b)
           f == [i \in DOMAIN a |-> IF Has(b, a[i].column)
                                    THEN [a[i] EXCEPT !.value = Get(b, a[i].column)]
                                    ELSE a[i]]
           I == {i \in DOMAIN b : ~Has(a, b[i].column)}
           k == Kept(b, I)
<1>1. s = f \o k
  BY DEF Spread
<1>2. /\ a \in Seq(Entry) /\ Len(a) \in Nat /\ DOMAIN a = 1 .. Len(a)
      /\ \A i \in DOMAIN a : a[i] \in Entry
  BY ObjectEntries
<1>3. ASSUME NEW i \in DOMAIN a
      PROVE  /\ f[i] \in Entry /\ f[i].column = a[i].column
             /\ f[i].value = IF Has(b, a[i].column) THEN Get(b, a[i].column)
                             ELSE Get(a, a[i].column)
  <2>1. a[i].column \in Column /\ a[i] \in Entry /\ Get(a, a[i].column) = a[i].value
    BY ObjectEntries
  <2>2. CASE Has(b, a[i].column)
    <3>1. Get(b, a[i].column) \in Nat \cup {Undefined}
      <4>1. \E j \in DOMAIN b : /\ Get(b, a[i].column) = b[j].value
                                /\ b[j].value \in Nat \cup {Undefined}
        BY <2>2, ObjectEntries
      <4> QED BY <4>1
    <3>2. f[i] = [column |-> a[i].column, value |-> Get(b, a[i].column)]
      BY <2>1, <2>2 DEF Entry
    <3> QED BY <3>1, <3>2, <2>1, <2>2 DEF Entry
  <2>3. CASE ~ Has(b, a[i].column)
    BY <2>1, <2>3
  <2> QED BY <2>2, <2>3
<1>4. /\ IsObject(k) /\ k \in Seq(Entry) /\ Len(k) \in Nat /\ DOMAIN k = 1 .. Len(k)
      /\ \A m \in DOMAIN k : \E i \in I : k[m] = b[i]
      /\ \A i \in I : \E m \in DOMAIN k : k[m] = b[i]
  <2>1. I \in SUBSET (DOMAIN b)
    OBVIOUS
  <2>2. /\ IsObject(k)
        /\ \A m \in DOMAIN k : \E i \in I : k[m] = b[i]
        /\ \A i \in I : \E m \in DOMAIN k : k[m] = b[i]
    <3> HIDE DEF I
    <3> QED BY <2>1, KeptObject
  <2> HIDE DEF k
  <2> QED BY <2>2, ObjectEntries
<1>5. ASSUME NEW m \in DOMAIN k
      PROVE  /\ Has(b, k[m].column) /\ ~ Has(a, k[m].column)
             /\ k[m].value = Get(b, k[m].column)
  <2>1. PICK i \in I : k[m] = b[i]
    BY <1>4
  <2> QED BY <2>1, ObjectEntries
<1>6. /\ f \in Seq(Entry) /\ Len(f) = Len(a)
  <2>1. f \in [1 .. Len(a) -> Entry]
    BY <1>2, <1>3
  <2> QED BY <2>1, <1>2
<1> HIDE DEF f, k, s
<1>7. /\ s \in Seq(Entry) /\ Len(s) = Len(a) + Len(k) /\ DOMAIN s = 1 .. Len(s)
      /\ \A i \in 1 .. Len(a) + Len(k) :
            s[i] = IF i <= Len(a) THEN f[i] ELSE k[i - Len(a)]
  <2>1. k \in Seq(Entry) /\ f \in Seq(Entry)
    BY <1>4, <1>6
  <2>2. /\ f \o k \in Seq(Entry) /\ Len(f \o k) = Len(f) + Len(k)
        /\ \A i \in 1 .. Len(f) + Len(k) :
              (f \o k)[i] = IF i <= Len(f) THEN f[i] ELSE k[i - Len(f)]
    BY <2>1, ConcatProperties
  <2>3. s \in Seq(Entry) => DOMAIN s = 1 .. Len(s)
    BY LenProperties
  <2> QED BY <1>1, <1>6, <2>2, <2>3
<1>8. ASSUME NEW i \in DOMAIN s
      PROVE  \/ i \in DOMAIN a /\ s[i] = f[i]
             \/ ~ (i <= Len(a)) /\ i - Len(a) \in DOMAIN k /\ s[i] = k[i - Len(a)]
  BY <1>2, <1>4, <1>7
<1>9. ASSUME NEW i \in DOMAIN s
      PROVE  s[i].value = IF Has(b, s[i].column) THEN Get(b, s[i].column)
                          ELSE Get(a, s[i].column)
  <2>1. CASE i \in DOMAIN a /\ s[i] = f[i]
    BY <2>1, <1>3
  <2>2. CASE i - Len(a) \in DOMAIN k /\ s[i] = k[i - Len(a)]
    BY <2>2, <1>5
  <2> QED BY <2>1, <2>2, <1>8
<1>10. ASSUME NEW i \in DOMAIN s, NEW j \in DOMAIN s, s[i].column = s[j].column
       PROVE  i = j
  <2>1. ASSUME NEW x \in DOMAIN a, s[x] = f[x],
               NEW y \in DOMAIN k, s[x].column = k[y].column
        PROVE  FALSE
    BY <2>1, <1>3, <1>5, ObjectEntries
  <2>2. CASE i \in DOMAIN a /\ s[i] = f[i] /\ j \in DOMAIN a /\ s[j] = f[j]
    BY <2>2, <1>3, <1>10 DEF IsObject
  <2>3. CASE /\ i - Len(a) \in DOMAIN k /\ s[i] = k[i - Len(a)]
             /\ j - Len(a) \in DOMAIN k /\ s[j] = k[j - Len(a)]
    <3>1. i - Len(a) = j - Len(a)
      <4>1. k[i - Len(a)].column = k[j - Len(a)].column
        BY <2>3, <1>10
      <4>2. \A x, y \in DOMAIN k : k[x].column = k[y].column => x = y
        BY <1>4 DEF IsObject
      <4> QED BY <2>3, <4>1, <4>2
    <3> QED BY <3>1, <1>2, <1>7, <1>4
  <2> QED BY <1>8, <1>10, <2>1, <2>2, <2>3
<1>11. IsObject(s)
  BY <1>7, <1>10 DEF IsObject
<1>12. ASSUME NEW c, Has(s, c)
       PROVE  /\ Has(a, c) \/ Has(b, c)
              /\ Get(s, c) = IF Has(b, c) THEN Get(b, c) ELSE Get(a, c)
  <2>1. PICK i \in DOMAIN s : s[i].column = c /\ Get(s, c) = s[i].value
    BY <1>11, <1>12, ObjectEntries
  <2>2. Has(a, c) \/ Has(b, c)
    <3>1. CASE i \in DOMAIN a /\ s[i] = f[i]
      BY <2>1, <3>1, <1>3, ObjectEntries
    <3>2. CASE i - Len(a) \in DOMAIN k /\ s[i] = k[i - Len(a)]
      BY <2>1, <3>2, <1>5
    <3> QED BY <3>1, <3>2, <1>8
  <2> QED BY <2>1, <2>2, <1>9
<1>13. ASSUME NEW c, Has(a, c)
       PROVE  Has(s, c)
  <2>1. PICK i \in DOMAIN a : a[i].column = c
    BY <1>13 DEF Has
  <2>2. i \in DOMAIN s /\ s[i] = f[i]
    BY <1>2, <1>4, <1>7
  <2> QED BY <2>1, <2>2, <1>3 DEF Has
<1>14. ASSUME NEW c, Has(b, c), ~ Has(a, c)
       PROVE  Has(s, c)
  <2>1. PICK i \in DOMAIN b : b[i].column = c
    BY <1>14 DEF Has
  <2>2. i \in I
    BY <2>1, <1>14
  <2>3. PICK m \in DOMAIN k : k[m] = b[i]
    BY <2>2, <1>4
  <2>4. Len(a) + m \in DOMAIN s /\ s[Len(a) + m] = k[m]
    <3>1. /\ Len(a) + m \in 1 .. Len(a) + Len(k) /\ ~ (Len(a) + m <= Len(a))
          /\ (Len(a) + m) - Len(a) = m
      BY <1>2, <1>4
    <3> QED BY <3>1, <1>7
  <2> QED BY <2>1, <2>3, <2>4 DEF Has
<1>15. \A c : Has(s, c) <=> Has(a, c) \/ Has(b, c)
  BY <1>12, <1>13, <1>14
<1>16. \A c : Has(s, c) => Get(s, c) = IF Has(b, c) THEN Get(b, c) ELSE Get(a, c)
  BY <1>12
<1> QED BY <1>11, <1>15, <1>16 DEF s

-----------------------------------------------------------------------------
(* The operations of a model, on a table whose keys are unique.            *)

TableOK(rows) == rows \in Seq(Row) /\ Unique(rows)

LEMMA RowsAt ==
    ASSUME TableOK(table)
    PROVE  /\ table \in Seq(Row) /\ Len(table) \in Nat /\ DOMAIN table = 1 .. Len(table)
           /\ \A i \in DOMAIN table : table[i] \in Row
BY LenProperties, ElementOfSeq DEF TableOK

LEMMA CreateFaithful ==
    ASSUME NEW data, IsObject(data), NEW unique \in BOOLEAN
    PROVE  Execute(Insert(data, unique), table) =
           Created([op |-> "create", data |-> data, unique |-> unique])
<1> DEFINE d == Defined(data)
           stmt == Insert(data, unique)
           call == [op |-> "create", data |-> data, unique |-> unique]
<1>1. /\ stmt.kind = "insert" /\ stmt.columns = Columns(d)
      /\ stmt.placeholders = [i \in DOMAIN d |-> i]
      /\ stmt.unique = unique /\ stmt.params = Values(d)
  BY DEF Insert
<1>2. Begins(stmt.params, Values(d))
  <2>1. d \in Seq(Entry) /\ \A i \in DOMAIN d : d[i].value \in Nat
    BY DefinedObject, ObjectEntries
  <2>2. Values(d) \in Seq(Nat)
    <3> HIDE DEF d
    <3> QED BY <2>1, ValuesOfEntries
  <2>3. Len(Values(d)) \in Nat
    BY <2>2, LenProperties
  <2> QED BY <1>1, <2>3 DEF Begins
<1> HIDE DEF stmt
<1>3. Given(DefaultRow, stmt) = Patched(DefaultRow, data)
  BY <1>1, <1>2, GivenIsPatched
<1>4. Execute(stmt, table) = Inserted(table, stmt)
  BY <1>1 DEF Execute
<1>5. Inserted(table, stmt) = Created(call)
  BY <1>1, <1>3 DEF Inserted, Created
<1> QED BY <1>4, <1>5 DEF stmt

\* Ordered by nothing, rows stay where they are.
LEMMA OrderedByNothing ==
    ASSUME NEW S, NEW s \in Seq(S)
    PROVE  Ordered(s, <<>>) = s
<1>1. Len(s) \in Nat /\ s \in [1 .. Len(s) -> S] /\ DOMAIN s = 1 .. Len(s)
  BY LenProperties
<1> DEFINE rank(i) == 1 + Cardinality({j \in DOMAIN s :
                        \/ Before(s[j], s[i], <<>>)
                        \/ ~Before(s[i], s[j], <<>>) /\ j < i})
<1>2. ASSUME NEW i \in DOMAIN s PROVE rank(i) = i
  <2>1. {j \in DOMAIN s : \/ Before(s[j], s[i], <<>>)
                          \/ ~Before(s[i], s[j], <<>>) /\ j < i} = 1 .. (i - 1)
    BY <1>1 DEF Before
  <2>2. i \in Int /\ i - 1 \in Int /\ i >= 1
    BY <1>1
  <2>3. Cardinality(1 .. (i - 1)) = i - 1
    <3>1. \A a, b \in Int : Cardinality(a .. b) = IF a > b THEN 0 ELSE b - a + 1
      BY FS_Interval
    <3> DEFINE b == i - 1
    <3>2. b \in Int /\ b >= 0 /\ 1 \in Int
      BY <2>2
    <3> HIDE DEF b
    <3>3. Cardinality(1 .. b) = IF 1 > b THEN 0 ELSE b - 1 + 1
      BY <3>1, <3>2
    <3>4. Cardinality(1 .. b) = b
      BY <3>2, <3>3
    <3> QED BY <3>4 DEF b
  <2>4. rank(i) = 1 + Cardinality(1 .. (i - 1))
    BY <2>1
  <2> QED BY <2>2, <2>3, <2>4
<1>3. Ordered(s, <<>>) = [n \in DOMAIN s |-> s[CHOOSE i \in DOMAIN s : rank(i) = n]]
  BY DEF Ordered
<1> HIDE DEF rank
<1>4. ASSUME NEW n \in DOMAIN s PROVE (CHOOSE i \in DOMAIN s : rank(i) = n) = n
  <2> DEFINE c == CHOOSE i \in DOMAIN s : rank(i) = n
  <2>1. \E i \in DOMAIN s : rank(i) = n
    BY <1>2
  <2>2. c \in DOMAIN s /\ rank(c) = n
    BY <2>1
  <2> QED BY <2>2, <1>2
<1>5. Ordered(s, <<>>) = [n \in DOMAIN s |-> s[n]]
  BY <1>3, <1>4
<1> QED BY <1>1, <1>5

LEMMA WholePage ==
    ASSUME NEW S, NEW s \in Seq(S)
    PROVE  Page(s, 0, 0) = s
<1>1. Page(s, 0, 0) = SubSeq(s, 1, Len(s))
  BY DEF Page
<1> QED BY <1>1, SubSeqFull

LEMMA ReadFaithful ==
    ASSUME NEW query, IsObject(query), NEW sort, NEW offset \in Nat, NEW limit \in Nat
    PROVE  Execute(Select(query, sort, offset, limit), table) =
           Done(table, Page(Ordered(Found(query), sort), offset, limit))
<1> DEFINE w == Where(query, <<>>)
           o == IF offset > 0 THEN <<offset>> ELSE <<>>
           l == IF limit > 0 THEN <<limit>> ELSE <<>>
           stmt == Select(query, sort, offset, limit)
           param(i) == IF i = 0 THEN 0 ELSE stmt.params[i]
<1>1. /\ stmt.kind = "select" /\ stmt.where = w.conditions /\ stmt.order = sort
      /\ stmt.offset = IF offset > 0 THEN Len(w.params) + 1 ELSE 0
      /\ stmt.limit = IF limit > 0 THEN Len(w.params \o o) + 1 ELSE 0
      /\ stmt.params = w.params \o o \o l
  BY DEF Select
<1>2. w.params \in Seq(Nat)
  <2>1. <<>> \in Seq(Nat)
    OBVIOUS
  <2> HIDE DEF w
  <2>2. Where(query, <<>>).params \in Seq(Nat)
    BY <2>1, WherePlaceholders
  <2> QED BY <2>2 DEF w
<1>3. /\ o \in Seq(Nat) /\ l \in Seq(Nat)
      /\ offset > 0 => Len(o) = 1 /\ o[1] = offset
      /\ limit > 0 => Len(l) = 1 /\ l[1] = limit
  OBVIOUS
<1> HIDE DEF w, o, l, stmt
<1> DEFINE a == w.params \o o
<1>4. /\ a \in Seq(Nat) /\ Len(a) \in Nat /\ Len(w.params) \in Nat
      /\ Len(a) = Len(w.params) + Len(o) /\ Begins(a, w.params)
      /\ \A m \in 1 .. Len(o) : a[Len(w.params) + m] = o[m]
  <2>1. w.params \in Seq(Nat) /\ o \in Seq(Nat)
    BY <1>2, <1>3
  <2>2. /\ a \in Seq(Nat) /\ Len(w.params) \in Nat /\ Len(o) \in Nat
        /\ Len(a) = Len(w.params) + Len(o) /\ Begins(a, w.params)
        /\ \A m \in 1 .. Len(o) : a[Len(w.params) + m] = o[m]
    BY <2>1, Joined
  <2> QED BY <2>2
<1>5. /\ a \o l \in Seq(Nat) /\ Len(a \o l) = Len(a) + Len(l) /\ Len(l) \in Nat
      /\ Begins(a \o l, a)
      /\ \A m \in 1 .. Len(l) : (a \o l)[Len(a) + m] = l[m]
  <2> HIDE DEF a
  <2>1. a \in Seq(Nat) /\ l \in Seq(Nat)
    BY <1>3, <1>4
  <2> QED BY <2>1, Joined
<1>6. stmt.params = a \o l /\ stmt.limit = IF limit > 0 THEN Len(a) + 1 ELSE 0
  BY <1>1
<1> HIDE DEF a
<1>7. Begins(stmt.params, w.params)
  <2>1. Len(a \o l) \in Nat
    BY <1>4, <1>5
  <2> QED BY <2>1, <1>4, <1>5, <1>6, BeginsFurther
<1>8. param(stmt.offset) = offset
  <2>1. CASE offset > 0
    <3> DEFINE x == Len(w.params) + 1
    <3>0. Len(o) = 1 /\ o[1] = offset /\ stmt.offset = x
      BY <1>1, <1>3, <2>1
    <3>1. x # 0 /\ 1 \in 1 .. Len(o) /\ x \in 1 .. Len(a)
      BY <3>0, <1>4
    <3>2. stmt.params[x] = a[x]
      <4> HIDE DEF x
      <4> QED BY <3>1, <1>5, <1>6 DEF Begins
    <3>3. a[x] = o[1]
      BY <3>1, <1>4
    <3> QED BY <3>0, <3>1, <3>2, <3>3
  <2>2. CASE ~ (offset > 0)
    BY <2>2, <1>1
  <2> QED BY <2>1, <2>2
<1>8a. param(stmt.limit) = limit
  <2>1. CASE limit > 0
    <3>0. Len(l) = 1 /\ l[1] = limit /\ stmt.limit = Len(a) + 1
      BY <1>3, <1>6, <2>1
    <3>1. Len(a) + 1 # 0 /\ 1 \in 1 .. Len(l)
      BY <3>0, <1>4
    <3>2. (a \o l)[Len(a) + 1] = l[1]
      BY <3>1, <1>5
    <3> QED BY <3>0, <3>1, <3>2, <1>6
  <2>2. CASE ~ (limit > 0)
    BY <2>2, <1>6
  <2> QED BY <2>1, <2>2
<1>9. \A i \in DOMAIN table :
         Holds(table[i], stmt.where, stmt.params) <=> Matches(table[i], query)
  <2>1. <<>> \in Seq(Nat)
    OBVIOUS
  <2> QED BY <1>1, <1>7, <2>1, WhereMatches DEF w
<1>10. Kept(table, {i \in DOMAIN table : Holds(table[i], stmt.where, stmt.params)})
       = Found(query)
  <2>1. {i \in DOMAIN table : Holds(table[i], stmt.where, stmt.params)}
        = {i \in DOMAIN table : Matches(table[i], query)}
    BY <1>9
  <2> QED BY <2>1 DEF Found
<1>11. Execute(stmt, table) =
       Done(table, Page(Ordered(Found(query), stmt.order),
                        param(stmt.offset), param(stmt.limit)))
  BY <1>1, <1>10 DEF Execute
<1> QED BY <1>1, <1>8, <1>8a, <1>11 DEF stmt

LEMMA DeleteFaithful ==
    ASSUME NEW query, IsObject(query)
    PROVE  Execute(Del(query), table) = Removed([op |-> "delete", query |-> query])
<1> DEFINE w == Where(query, <<>>)
           stmt == Del(query)
           call == [op |-> "delete", query |-> query]
<1>0. <<>> \in Seq(Nat)
  OBVIOUS
<1>1. w.params \in Seq(Nat) /\ w.count = Len(Defined(query))
  BY <1>0, WherePlaceholders
<1>2. w.count = 0 <=> Empty(query)
  BY <1>1, DefinedObject
<1>3. CASE Empty(query)
  <2>1. stmt.kind = "refused"
    BY <1>2, <1>3 DEF Del, Refused
  <2> HIDE DEF stmt
  <2>2. Execute(stmt, table) = Failed(table)
    BY <2>1 DEF Execute
  <2> QED BY <1>3, <2>2 DEF stmt, Removed
<1>4. CASE ~ Empty(query)
  <2>1. stmt.kind = "delete" /\ stmt.where = w.conditions /\ stmt.params = w.params
    BY <1>2, <1>4 DEF Del
  <2> HIDE DEF stmt, w
  <2>2. Begins(stmt.params, w.params)
    <3>1. Len(w.params) \in Nat
      BY <1>1, LenProperties
    <3> QED BY <2>1, <3>1 DEF Begins
  <2>3. \A i \in DOMAIN table :
           Holds(table[i], stmt.where, stmt.params) <=> Matches(table[i], query)
    BY <1>0, <2>1, <2>2, WhereMatches DEF w
  <2> DEFINE hits == {i \in DOMAIN table : Holds(table[i], stmt.where, stmt.params)}
  <2>4. /\ hits = {i \in DOMAIN table : Matches(table[i], query)}
        /\ DOMAIN table \ hits = {i \in DOMAIN table : ~Matches(table[i], query)}
    BY <2>3
  <2>5. Execute(stmt, table) = Done(Kept(table, DOMAIN table \ hits), Kept(table, hits))
    BY <2>1 DEF Execute
  <2> QED BY <1>4, <2>4, <2>5 DEF stmt, Removed, Found
<1> QED BY <1>3, <1>4

LEMMA PatchedRow ==
    ASSUME NEW row \in Row, NEW o, IsObject(o)
    PROVE  Patched(row, o) \in Row
<1>1. ASSUME NEW c \in Column
      PROVE  (IF Has(o, c) /\ Get(o, c) # Undefined THEN Get(o, c) ELSE row[c]) \in Nat
  <2>1. Has(o, c) => Get(o, c) \in Nat \cup {Undefined}
    BY ObjectEntries
  <2> QED BY <2>1 DEF Row
<1> QED BY <1>1 DEF Patched, Row

\* What is kept of rows that are patched, is patched.
LEMMA KeptPatched ==
    ASSUME TableOK(table), NEW I \in SUBSET (DOMAIN table), NEW o, IsObject(o),
           NEW next, next = [i \in DOMAIN table |->
                                IF i \in I THEN Patched(table[i], o) ELSE table[i]]
    PROVE  /\ next \in Seq(Row) /\ DOMAIN next = DOMAIN table
           /\ Kept(next, I) = [n \in DOMAIN Kept(table, I) |-> Patched(Kept(table, I)[n], o)]
<1>1. /\ table \in Seq(Row) /\ Len(table) \in Nat /\ DOMAIN table = 1 .. Len(table)
      /\ \A i \in DOMAIN table : table[i] \in Row
  BY RowsAt
<1>2. next \in Seq(Row) /\ DOMAIN next = DOMAIN table
  <2>1. next \in [1 .. Len(table) -> Row]
    BY <1>1, PatchedRow
  <2> QED BY <1>1, <2>1
<1>3. /\ DOMAIN Kept(table, I) = 1 .. Cardinality(I)
      /\ \A m \in DOMAIN Kept(table, I) : \E i \in I :
            Rank(I, i) = m /\ Kept(table, I)[m] = table[i]
  BY <1>1, KeptElements
<1>4. /\ DOMAIN Kept(next, I) = 1 .. Cardinality(I)
      /\ \A i \in I : Kept(next, I)[Rank(I, i)] = next[i]
  BY <1>2, KeptElements
<1>5. ASSUME NEW m \in 1 .. Cardinality(I)
      PROVE  Kept(next, I)[m] = Patched(Kept(table, I)[m], o)
  <2>1. PICK i \in I : Rank(I, i) = m /\ Kept(table, I)[m] = table[i]
    BY <1>3
  <2>2. Kept(next, I)[m] = next[i]
    BY <1>4, <2>1
  <2> QED BY <2>1, <2>2
<1>6. Kept(next, I) = [n \in 1 .. Cardinality(I) |-> Kept(next, I)[n]]
  BY DEF Kept
<1> QED BY <1>2, <1>3, <1>5, <1>6

\* A patch without a value changes no row.
LEMMA PatchedByNothing ==
    ASSUME NEW row \in Row, NEW o, Empty(o)
    PROVE  Patched(row, o) = row
<1>1. ASSUME NEW c \in Column, Has(o, c) PROVE Get(o, c) = Undefined
  <2> DEFINE i == CHOOSE i \in DOMAIN o : o[i].column = c
  <2>1. i \in DOMAIN o
    BY <1>1 DEF Has
  <2> HIDE DEF i
  <2>2. o[i].value = Undefined
    BY <2>1 DEF Empty
  <2> QED BY <2>2 DEF i, Get
<1>2. Patched(row, o) = [c \in Column |-> row[c]]
  BY <1>1 DEF Patched
<1> QED BY <1>2 DEF Row

\* An update does what is promised, unless neither object has an entry: then too
\* the table is what it was.
LEMMA UpdateFaithful ==
    ASSUME TableOK(table), NEW query, IsObject(query), NEW data, IsObject(data)
    PROVE  LET call == [op |-> "update", query |-> query, data |-> data]
           IN  /\ Execute(Update(query, data), table).table = Changed(call).table
               /\ \/ Empty(query) /\ Empty(data)
                  \/ Execute(Update(query, data), table) = Changed(call)
<1> DEFINE d == Defined(data)
           w == Where(query, Values(d))
           stmt == Update(query, data)
           call == [op |-> "update", query |-> query, data |-> data]
           hits == {i \in DOMAIN table : Matches(table[i], query)}
           next == [i \in DOMAIN table |->
                      IF Matches(table[i], query) THEN Patched(table[i], data) ELSE table[i]]
<1>1. /\ IsObject(d) /\ d \in Seq(Entry) /\ Len(d) \in Nat /\ DOMAIN d = 1 .. Len(d)
      /\ \A i \in DOMAIN d : d[i].value \in Nat
      /\ d = <<>> <=> Empty(data)
  BY DefinedObject, ObjectEntries
<1>2. /\ Values(d) \in Seq(Nat) /\ Len(Values(d)) = Len(d)
      /\ \A i \in DOMAIN d : Values(d)[i] = d[i].value
  <2> HIDE DEF d
  <2> QED BY <1>1, ValuesOfEntries
<1>3. w.params \in Seq(Nat) /\ Begins(w.params, Values(d)) /\ w.count = Len(Defined(query))
  <2> DEFINE v == Values(d)
  <2>1. v \in Seq(Nat)
    BY <1>2
  <2> HIDE DEF v
  <2>2. /\ Where(query, v).params \in Seq(Nat) /\ Begins(Where(query, v).params, v)
        /\ Where(query, v).count = Len(Defined(query))
    BY <2>1, WherePlaceholders
  <2> QED BY <2>2 DEF v
<1>4. w.count = 0 <=> Empty(query)
  BY <1>3, DefinedObject
<1>5. ASSUME Empty(data)
      PROVE  Found(query) \in Seq(Row) /\ Execute(stmt, table) = Done(table, Found(query))
  <2>1. stmt = Select(query, <<>>, 0, 0)
    BY <1>1, <1>5 DEF Update
  <2>2. Found(query) \in Seq(Row)
    <3> DEFINE I == {i \in DOMAIN table : Matches(table[i], query)}
    <3>1. I \in SUBSET (DOMAIN table)
      OBVIOUS
    <3> HIDE DEF I
    <3>2. Kept(table, I) \in Seq(Row)
      BY <3>1, RowsAt, KeptElements
    <3> QED BY <3>2 DEF I, Found
  <2>3. Page(Ordered(Found(query), <<>>), 0, 0) = Found(query)
    BY <2>2, OrderedByNothing, WholePage
  <2>4. Execute(stmt, table) = Done(table, Found(query))
    BY <2>1, <2>3, ReadFaithful
  <2> QED BY <2>2, <2>4
<1>8. CASE Empty(data) /\ Empty(query)
  <2>1. Execute(stmt, table) = Done(table, Found(query))
    BY <1>5, <1>8
  <2>2. Changed(call) = Failed(table)
    BY <1>8 DEF Changed
  <2> HIDE DEF stmt, call
  <2>3. Execute(stmt, table).table = Changed(call).table
    BY <2>1, <2>2 DEF Done, Failed
  <2> QED BY <1>8, <2>3 DEF stmt, call
<1>9. CASE Empty(data) /\ ~ Empty(query)
  <2>1. Found(query) \in Seq(Row) /\ Execute(stmt, table) = Done(table, Found(query))
    BY <1>5, <1>9
  <2>2. next = table /\ Unique(next)
    <3>1. \A i \in DOMAIN table : Patched(table[i], data) = table[i]
      BY <1>9, RowsAt, PatchedByNothing
    <3>2. next = [i \in DOMAIN table |-> table[i]]
      BY <3>1
    <3>3. next = table
      BY <3>2, RowsAt
    <3> QED BY <3>3 DEF TableOK
  <2>3. [i \in DOMAIN Found(query) |-> Patched(Found(query)[i], data)] = Found(query)
    <3> DEFINE found == Found(query)
    <3>1. found \in Seq(Row)
      BY <2>1
    <3> HIDE DEF found
    <3>2. \A i \in DOMAIN found : Patched(found[i], data) = found[i]
      BY <3>1, <1>9, ElementOfSeq, PatchedByNothing
    <3>3. found = [i \in DOMAIN found |-> found[i]]
      BY <3>1
    <3> QED BY <3>2, <3>3 DEF found
  <2>4. Changed(call) = Done(next, [i \in DOMAIN Found(query) |->
                                      Patched(Found(query)[i], data)])
    BY <1>9, <2>2 DEF Changed
  <2> HIDE DEF stmt, call, next
  <2>5. Execute(stmt, table) = Changed(call)
    BY <2>1, <2>2, <2>3, <2>4
  <2> QED BY <2>5 DEF stmt, call
<1>6. CASE ~ Empty(data) /\ Empty(query)
  <2>1. stmt.kind = "refused"
    BY <1>1, <1>4, <1>6 DEF Update, Refused
  <2> HIDE DEF stmt
  <2>2. Execute(stmt, table) = Failed(table)
    BY <2>1 DEF Execute
  <2>3. Changed(call) = Failed(table)
    BY <1>6 DEF Changed
  <2> HIDE DEF call
  <2> QED BY <2>2, <2>3 DEF stmt, call
<1>7. CASE ~ Empty(data) /\ ~ Empty(query)
  <2>1. /\ stmt.kind = "update" /\ stmt.where = w.conditions /\ stmt.params = w.params
        /\ stmt.updates = [i \in DOMAIN d |-> [column |-> d[i].column, index |-> i]]
    BY <1>1, <1>4, <1>7 DEF Update
  <2> HIDE DEF stmt, d
  <2>2. Begins(stmt.params, w.params)
    <3>1. Len(w.params) \in Nat
      BY <1>3, LenProperties
    <3> QED BY <2>1, <3>1 DEF Begins
  <2>3. \A i \in DOMAIN table :
           Holds(table[i], stmt.where, stmt.params) <=> Matches(table[i], query)
    BY <1>2, <2>1, <2>2, WhereMatches
  <2>4. ASSUME NEW i \in DOMAIN d
        PROVE  /\ stmt.updates[i].column = d[i].column
               /\ stmt.params[stmt.updates[i].index] = d[i].value
    <3>1. stmt.updates[i].column = d[i].column /\ stmt.updates[i].index = i
      BY <2>1
    <3>2. w.params[i] = Values(d)[i]
      BY <1>1, <1>2, <1>3 DEF Begins
    <3> QED BY <3>1, <3>2, <2>1, <1>2
  <2>5. \A row : Assigned(row, stmt) = Patched(row, data)
    <3>1. DOMAIN stmt.updates = DOMAIN d
      BY <2>1
    <3> QED BY <3>1, <2>4, AssignedIsPatched DEF d
  <2>6. [i \in DOMAIN table |-> IF Holds(table[i], stmt.where, stmt.params)
                                THEN Assigned(table[i], stmt) ELSE table[i]] = next
    BY <2>3, <2>5
  <2>7. {i \in DOMAIN table : Holds(table[i], stmt.where, stmt.params)} = hits
    BY <2>3
  <2>8. Execute(stmt, table) = Updated(table, stmt)
    BY <2>1 DEF Execute
  <2>9. Updated(table, stmt) = IF Unique(next) THEN Done(next, Kept(next, hits))
                               ELSE Failed(table)
    BY <2>6, <2>7 DEF Updated
  <2>10. Kept(next, hits) =
            [n \in DOMAIN Kept(table, hits) |-> Patched(Kept(table, hits)[n], data)]
    <3>1. hits \in SUBSET (DOMAIN table)
      OBVIOUS
    <3>2. next = [i \in DOMAIN table |->
                    IF i \in hits THEN Patched(table[i], data) ELSE table[i]]
      OBVIOUS
    <3> HIDE DEF hits, next
    <3> QED BY <3>1, <3>2, KeptPatched
  <2>11. Found(query) = Kept(table, hits)
    BY DEF Found
  <2> HIDE DEF hits
  <2>12. Changed(call) = IF Unique(next)
            THEN Done(next, [n \in DOMAIN Kept(table, hits) |->
                                Patched(Kept(table, hits)[n], data)])
            ELSE Failed(table)
    BY <1>7, <2>11 DEF Changed
  <2> HIDE DEF call, next
  <2>13. Execute(stmt, table) = Changed(call)
    BY <2>8, <2>9, <2>10, <2>12
  <2> QED BY <2>13 DEF stmt, call
<1> QED BY <1>6, <1>7, <1>8, <1>9

\* The row of an upsert has what the keys say of a column, or what the data does.
LEMMA MergedRow ==
    ASSUME NEW keys, IsObject(keys), NEW data, IsObject(data), Overlaid(keys, data)
    PROVE  /\ IsObject(Spread(Spread(keys, data), keys))
           /\ Patched(DefaultRow, Spread(Spread(keys, data), keys)) =
              Patched(Patched(DefaultRow, data), keys)
<1> DEFINE s == Spread(keys, data)
           o == Spread(s, keys)
<1>1. /\ IsObject(s)
      /\ \A c : Has(s, c) <=> Has(keys, c) \/ Has(data, c)
      /\ \A c : Has(s, c) => Get(s, c) = IF Has(data, c) THEN Get(data, c) ELSE Get(keys, c)
  BY SpreadObject
<1> HIDE DEF s
<1>2. /\ IsObject(o)
      /\ \A c : Has(o, c) <=> Has(s, c) \/ Has(keys, c)
      /\ \A c : Has(o, c) => Get(o, c) = IF Has(keys, c) THEN Get(keys, c) ELSE Get(s, c)
  BY <1>1, SpreadObject
<1> HIDE DEF o
<1>3. \A c : Has(keys, c) /\ Has(data, c) => Get(keys, c) # Undefined
  <2> SUFFICES ASSUME NEW c, Has(keys, c), Has(data, c) PROVE Get(keys, c) # Undefined
    OBVIOUS
  <2>1. PICK i \in DOMAIN keys : keys[i].column = c /\ Get(keys, c) = keys[i].value
    BY ObjectEntries
  <2> QED BY <2>1 DEF Overlaid
<1>4. ASSUME NEW c \in Column
      PROVE  (IF Has(o, c) /\ Get(o, c) # Undefined THEN Get(o, c) ELSE DefaultRow[c])
             = IF Has(keys, c) /\ Get(keys, c) # Undefined THEN Get(keys, c)
               ELSE IF Has(data, c) /\ Get(data, c) # Undefined THEN Get(data, c)
               ELSE DefaultRow[c]
  <2>1. CASE Has(keys, c)
    BY <2>1, <1>1, <1>2, <1>3
  <2>2. CASE ~ Has(keys, c) /\ Has(data, c)
    BY <2>2, <1>1, <1>2
  <2>3. CASE ~ Has(keys, c) /\ ~ Has(data, c)
    BY <2>3, <1>1, <1>2
  <2> QED BY <2>1, <2>2, <2>3
<1>5. Patched(DefaultRow, o) = Patched(Patched(DefaultRow, data), keys)
  BY <1>4 DEF Patched
<1> QED BY <1>2, <1>5 DEF s, o

\* An upsert conflicts on the key alone when the key is all there is to its keys.
LEMMA ConflictOnKey ==
    ASSUME NEW keys, IsObject(keys)
    PROVE  Columns(Defined(keys)) = <<Key>>
           <=> Len(Defined(keys)) = 1 /\ Has(Defined(keys), Key)
<1> DEFINE d == Defined(keys)
<1>1. d \in Seq(Entry) /\ Len(d) \in Nat /\ DOMAIN d = 1 .. Len(d)
  BY DefinedObject, ObjectEntries
<1> HIDE DEF d
<1>2. Columns(d) = [i \in 1 .. Len(d) |-> d[i].column]
  BY <1>1 DEF Columns
<1>3. ASSUME Columns(d) = <<Key>> PROVE Len(d) = 1 /\ Has(d, Key)
  <2>1. DOMAIN Columns(d) = 1 .. 1 /\ Columns(d)[1] = Key
    BY <1>3
  <2>2. 1 .. Len(d) = 1 .. 1
    BY <2>1, <1>2
  <2>3. Len(d) = 1
    <3>1. Len(d) >= 1
      BY <1>1, <2>2
    <3>2. Len(d) \in 1 .. Len(d)
      BY <1>1, <3>1
    <3>3. Len(d) \in 1 .. 1
      BY <2>2, <3>2
    <3> QED BY <3>3
  <2>4. d[1].column = Key
    BY <2>1, <2>3, <1>2
  <2> QED BY <2>3, <2>4, <1>1 DEF Has
<1>4. ASSUME Len(d) = 1, Has(d, Key) PROVE Columns(d) = <<Key>>
  <2>1. d[1].column = Key
    BY <1>1, <1>4 DEF Has
  <2>2. Columns(d) = [i \in 1 .. 1 |-> Key]
    BY <1>2, <1>4, <2>1
  <2> QED BY <2>2
<1> QED BY <1>3, <1>4 DEF d

LEMMA UpsertFaithful ==
    ASSUME TableOK(table), NEW keys, IsObject(keys), NEW data, IsObject(data),
           Overlaid(keys, data)
    PROVE  Execute(Upsert(keys, data), table) =
           Merged([op |-> "upsert", query |-> keys, data |-> data])
<1> DEFINE object == Spread(Spread(keys, data), keys)
           d == Defined(object)
           u == Defined(data)
           stmt == Upsert(keys, data)
           call == [op |-> "upsert", query |-> keys, data |-> data]
           keyed == Len(Defined(keys)) = 1 /\ Has(Defined(keys), Key)
           row == Patched(Patched(DefaultRow, data), keys)
           same == {i \in DOMAIN table : row[Key] # Null /\ table[i][Key] = row[Key]}
           next == [i \in DOMAIN table |->
                      IF i \in same THEN Patched(table[i], data) ELSE table[i]]
<1>1. keys = <<>> => ~ keyed
  <2>1. keys = <<>> => Empty(keys)
    BY DEF Empty
  <2> QED BY <2>1, DefinedObject
<1>2. data = <<>> => Empty(data)
  BY DEF Empty
<1>3. Merged(call) = IF ~ keyed \/ Empty(data) THEN Failed(table)
                     ELSE IF same = {} THEN Done(Append(table, row), <<row>>)
                     ELSE IF ~ Unique(next) THEN Failed(table)
                     ELSE Done(next, <<next[CHOOSE i \in DOMAIN table :
                             row[Key] # Null /\ table[i][Key] = row[Key]]>>)
  <2>1. same = {} <=> \A i \in DOMAIN table : ~ (row[Key] # Null /\ table[i][Key] = row[Key])
    BY Zenon
  <2>2. next = [i \in DOMAIN table |->
                  IF row[Key] # Null /\ table[i][Key] = row[Key]
                  THEN Patched(table[i], data) ELSE table[i]]
    <3> HIDE DEF row
    <3> QED OBVIOUS
  <2> QED BY <2>1, <2>2 DEF Merged
<1>4. CASE keys = <<>> \/ data = <<>>
  <2>1. stmt.kind = "refused"
    BY <1>4 DEF Upsert, Refused
  <2> HIDE DEF stmt
  <2>2. Execute(stmt, table) = Failed(table)
    BY <2>1 DEF Execute
  <2> QED BY <2>2, <1>1, <1>2, <1>3, <1>4 DEF stmt
<1>5. CASE ~ (keys = <<>> \/ data = <<>>)
  <2>1. /\ stmt.kind = "upsert" /\ stmt.columns = Columns(d)
        /\ stmt.placeholders = [i \in DOMAIN d |-> i]
        /\ stmt.conflict = Columns(Defined(keys))
        /\ stmt.updates = [i \in DOMAIN u |-> [column |-> u[i].column,
                                               index  |-> (i - 1) + Len(d) + 1]]
        /\ stmt.params = Values(d) \o Values(u)
    BY <1>5 DEF Upsert
  <2> HIDE DEF stmt
  <2>2. IsObject(object) /\ Patched(DefaultRow, object) = row
    BY MergedRow
  <2>3. /\ d \in Seq(Entry) /\ Len(d) \in Nat
        /\ \A i \in DOMAIN d : d[i].value \in Nat
    <3> HIDE DEF object
    <3> QED BY <2>2, DefinedObject, ObjectEntries
  <2>4. /\ u \in Seq(Entry) /\ Len(u) \in Nat /\ DOMAIN u = 1 .. Len(u)
        /\ \A i \in DOMAIN u : u[i].value \in Nat
        /\ Len(u) = 0 <=> Empty(data)
    BY DefinedObject, ObjectEntries
  <2> DEFINE a == Values(d)
             b == Values(u)
  <2>5. /\ a \in Seq(Nat) /\ Len(a) = Len(d)
        /\ b \in Seq(Nat) /\ Len(b) = Len(u)
        /\ \A i \in DOMAIN u : b[i] = u[i].value
    <3> HIDE DEF d, u
    <3> QED BY <2>3, <2>4, ValuesOfEntries
  <2> HIDE DEF a, b
  <2>6. Begins(stmt.params, a) /\ \A m \in 1 .. Len(b) : stmt.params[Len(a) + m] = b[m]
    <3>1. stmt.params = a \o b
      BY <2>1 DEF a, b
    <3> QED BY <3>1, <2>5, Joined
  <2>7. Given(DefaultRow, stmt) = row
    <3>1. Given(DefaultRow, stmt) = Patched(DefaultRow, object)
      <4> HIDE DEF object, row
      <4> QED BY <2>1, <2>2, <2>6, GivenIsPatched DEF a
    <3> QED BY <3>1, <2>2
  <2> HIDE DEF object, row
  <2>8. ASSUME NEW i \in DOMAIN u
        PROVE  /\ stmt.updates[i].column = u[i].column
               /\ stmt.params[stmt.updates[i].index] = u[i].value
    <3>1. stmt.updates[i].column = u[i].column
          /\ stmt.updates[i].index = (i - 1) + Len(d) + 1
      BY <2>1
    <3>2. (i - 1) + Len(d) + 1 = Len(a) + i /\ i \in 1 .. Len(b)
      BY <2>3, <2>4, <2>5
    <3> QED BY <3>1, <3>2, <2>5, <2>6
  <2>9. DOMAIN stmt.updates = DOMAIN u
    BY <2>1
  <2>10. \A r : Assigned(r, stmt) = Patched(r, data)
    BY <2>8, <2>9, AssignedIsPatched DEF u
  <2>11. stmt.conflict = <<Key>> <=> keyed
    BY <2>1, ConflictOnKey
  <2>12. stmt.updates = <<>> <=> Empty(data)
    <3>1. stmt.updates = <<>> => DOMAIN u = {}
      BY <2>9
    <3>2. Len(u) = 0 => stmt.updates = <<>>
      <4>1. Len(u) = 0 => DOMAIN stmt.updates = {}
        BY <2>4, <2>9
      <4> QED BY <4>1, <2>1
    <3>3. DOMAIN u = {} => Len(u) = 0
      BY <2>4
    <3> QED BY <3>1, <3>2, <3>3, <2>4
  <2>13. [i \in DOMAIN table |-> IF i \in same THEN Assigned(table[i], stmt)
                                 ELSE table[i]] = next
    BY <2>10
  <2>14. Upserted(table, stmt) =
           IF ~ keyed \/ Empty(data) THEN Failed(table)
           ELSE IF same = {} THEN Done(Append(table, row), <<row>>)
           ELSE IF ~ Unique(next) THEN Failed(table)
           ELSE Done(next, <<next[CHOOSE i \in same : TRUE]>>)
    <3> HIDE DEF u, keyed
    <3> QED BY <2>7, <2>11, <2>12, <2>13 DEF Upserted
  <2>15. same # {} => (CHOOSE i \in same : TRUE) = CHOOSE i \in DOMAIN table :
                         row[Key] # Null /\ table[i][Key] = row[Key]
    <3> DEFINE x == CHOOSE i \in same : TRUE
               y == CHOOSE i \in DOMAIN table : row[Key] # Null /\ table[i][Key] = row[Key]
    <3> SUFFICES ASSUME same # {} PROVE x = y
      OBVIOUS
    <3>1. x \in same
      OBVIOUS
    <3>2. \E i \in DOMAIN table : row[Key] # Null /\ table[i][Key] = row[Key]
      OBVIOUS
    <3>3. y \in DOMAIN table /\ row[Key] # Null /\ table[y][Key] = row[Key]
      BY <3>2
    <3>4. x \in DOMAIN table /\ table[x][Key] = row[Key]
      BY <3>1
    <3> HIDE DEF x, y
    <3> QED BY <3>3, <3>4 DEF TableOK, Unique
  <2>16. Execute(stmt, table) = Upserted(table, stmt)
    BY <2>1 DEF Execute
  <2> HIDE DEF keyed, next, same
  <2> QED BY <2>14, <2>15, <2>16, <1>3 DEF stmt
<1> QED BY <1>4, <1>5

\* Every call, with objects as users may pass them.
LEMMA CallCases ==
    ASSUME NEW call \in Call
    PROVE  \/ /\ call = [op |-> "create", data |-> call.data, unique |-> call.unique]
              /\ IsObject(call.data) /\ call.unique \in BOOLEAN
           \/ /\ call = [op |-> "upsert", query |-> call.query, data |-> call.data]
              /\ IsObject(call.query) /\ IsObject(call.data)
              /\ Overlaid(call.query, call.data)
           \/ /\ call = [op |-> "update", query |-> call.query, data |-> call.data]
              /\ IsObject(call.query) /\ IsObject(call.data)
           \/ /\ call = [op |-> "read", query |-> call.query, sort |-> call.sort,
                         offset |-> call.offset, limit |-> call.limit]
              /\ IsObject(call.query) /\ call.offset \in Nat /\ call.limit \in Nat
           \/ /\ call = [op |-> "delete", query |-> call.query]
              /\ IsObject(call.query)
<1>1. /\ \A o \in Objects : IsObject(o)
      /\ Offsets \subseteq Nat /\ Limits \subseteq Nat
  BY PersisterAssumption
<1>2. CASE call \in [op : {"create"}, data : Objects, unique : BOOLEAN]
  BY <1>1, <1>2
<1>3. CASE call \in {c \in [op : {"upsert"}, query : Objects, data : Objects] :
                       Overlaid(c.query, c.data)}
  BY <1>1, <1>3
<1>4. CASE call \in [op : {"update"}, query : Objects, data : Objects]
  BY <1>1, <1>4
<1>5. CASE call \in [op : {"read"}, query : Objects, sort : Sorts, offset : Offsets,
                     limit : Limits]
  BY <1>1, <1>5
<1>6. CASE call \in [op : {"delete"}, query : Objects]
  BY <1>1, <1>6
<1> QED BY <1>2, <1>3, <1>4, <1>5, <1>6 DEF Call

LEMMA EveryCallFaithful ==
    ASSUME TableOK(table)
    PROVE  Faithful
<1> SUFFICES ASSUME NEW call \in Call
             PROVE  /\ Execute(Statement(call), table).table = Promised(call).table
                    /\ \/ SelectsAll(call)
                       \/ Execute(Statement(call), table) = Promised(call)
  BY DEF Faithful, Effect
<1>1. CASE /\ call = [op |-> "create", data |-> call.data, unique |-> call.unique]
           /\ IsObject(call.data) /\ call.unique \in BOOLEAN
  <2>1. /\ Statement(call) = Insert(call.data, call.unique)
        /\ Promised(call) = Created(call)
    BY <1>1 DEF Statement, Promised
  <2> QED BY <1>1, <2>1, CreateFaithful
<1>2. CASE /\ call = [op |-> "upsert", query |-> call.query, data |-> call.data]
           /\ IsObject(call.query) /\ IsObject(call.data)
           /\ Overlaid(call.query, call.data)
  <2>1. /\ Statement(call) = Upsert(call.query, call.data)
        /\ Promised(call) = Merged(call)
    BY <1>2 DEF Statement, Promised
  <2> QED BY <1>2, <2>1, UpsertFaithful
<1>3. CASE /\ call = [op |-> "update", query |-> call.query, data |-> call.data]
           /\ IsObject(call.query) /\ IsObject(call.data)
  <2>1. /\ Statement(call) = Update(call.query, call.data)
        /\ Promised(call) = Changed(call)
    BY <1>3 DEF Statement, Promised
  <2>2. SelectsAll(call) <=> Empty(call.query) /\ Empty(call.data)
    BY <1>3 DEF SelectsAll
  <2> QED BY <1>3, <2>1, <2>2, UpdateFaithful
<1>4. CASE /\ call = [op |-> "read", query |-> call.query, sort |-> call.sort,
                      offset |-> call.offset, limit |-> call.limit]
           /\ IsObject(call.query) /\ call.offset \in Nat /\ call.limit \in Nat
  <2>1. /\ Statement(call) = Select(call.query, call.sort, call.offset, call.limit)
        /\ Promised(call) = Done(table, Page(Ordered(Found(call.query), call.sort),
                                             call.offset, call.limit))
    BY <1>4 DEF Statement, Promised
  <2> QED BY <1>4, <2>1, ReadFaithful
<1>5. CASE /\ call = [op |-> "delete", query |-> call.query]
           /\ IsObject(call.query)
  <2>1. Statement(call) = Del(call.query) /\ Promised(call) = Removed(call)
    BY <1>5 DEF Statement, Promised
  <2> QED BY <1>5, <2>1, DeleteFaithful
<1> QED BY <1>1, <1>2, <1>3, <1>4, <1>5, CallCases

-----------------------------------------------------------------------------
(* The keys of the table are unique.                                       *)

LEMMA DefaultIsRow == DefaultRow \in Row
BY DEF DefaultRow, Row, Null

LEMMA AppendedOK ==
    ASSUME TableOK(table), NEW row \in Row, Unique(Append(table, row))
    PROVE  TableOK(Append(table, row))
BY AppendProperties DEF TableOK

LEMMA KeptOK ==
    ASSUME TableOK(table), NEW I \in SUBSET (DOMAIN table)
    PROVE  TableOK(Kept(table, I))
<1> DEFINE k == Kept(table, I)
<1>1. /\ k \in Seq(Row)
      /\ \A m \in DOMAIN k : \E i \in I : Rank(I, i) = m /\ k[m] = table[i]
  BY RowsAt, KeptElements
<1> HIDE DEF k
<1>2. ASSUME NEW m \in DOMAIN k, NEW n \in DOMAIN k, m # n, k[m][Key] # Null
      PROVE  k[m][Key] # k[n][Key]
  <2>1. PICK i \in I : Rank(I, i) = m /\ k[m] = table[i]
    BY <1>1
  <2>2. PICK j \in I : Rank(I, j) = n /\ k[n] = table[j]
    BY <1>1
  <2>3. i # j
    BY <1>2, <2>1, <2>2
  <2> QED BY <1>2, <2>1, <2>2, <2>3 DEF TableOK, Unique
<1>3. Unique(k)
  BY <1>2 DEF Unique
<1> QED BY <1>1, <1>3 DEF TableOK, k

LEMMA PromisedTable ==
    ASSUME TableOK(table), NEW call \in Call
    PROVE  TableOK(Promised(call).table)
<1>1. CASE /\ call = [op |-> "create", data |-> call.data, unique |-> call.unique]
           /\ IsObject(call.data) /\ call.unique \in BOOLEAN
  <2> DEFINE row == Patched(DefaultRow, call.data)
  <2>1. row \in Row
    BY <1>1, DefaultIsRow, PatchedRow
  <2>2. Promised(call) = Created(call)
    BY <1>1 DEF Promised
  <2>3. \/ Created(call).table = table
        \/ Unique(Append(table, row)) /\ Created(call).table = Append(table, row)
    BY DEF Created, Done, Failed
  <2> QED BY <2>1, <2>2, <2>3, AppendedOK
<1>2. CASE /\ call = [op |-> "upsert", query |-> call.query, data |-> call.data]
           /\ IsObject(call.query) /\ IsObject(call.data)
  <2> DEFINE row == Patched(Patched(DefaultRow, call.data), call.query)
             I == {i \in DOMAIN table : row[Key] # Null /\ table[i][Key] = row[Key]}
             next == [i \in DOMAIN table |->
                        IF row[Key] # Null /\ table[i][Key] = row[Key]
                        THEN Patched(table[i], call.data) ELSE table[i]]
  <2>1. row \in Row
    BY <1>2, DefaultIsRow, PatchedRow
  <2>2. Promised(call) = Merged(call)
    BY <1>2 DEF Promised
  <2>3. next \in Seq(Row)
    <3>1. next = [i \in DOMAIN table |->
                    IF i \in I THEN Patched(table[i], call.data) ELSE table[i]]
      <4> HIDE DEF row
      <4> QED OBVIOUS
    <3>2. I \in SUBSET (DOMAIN table)
      OBVIOUS
    <3> HIDE DEF next, I
    <3> QED BY <3>1, <3>2, <1>2, KeptPatched
  <2>4. \/ Merged(call).table = table
        \/ /\ \A i \in DOMAIN table : ~ (row[Key] # Null /\ table[i][Key] = row[Key])
           /\ Merged(call).table = Append(table, row)
        \/ Unique(next) /\ Merged(call).table = next
    BY DEF Merged, Done, Failed
  <2>5. ASSUME \A i \in DOMAIN table : ~ (row[Key] # Null /\ table[i][Key] = row[Key])
        PROVE  TableOK(Append(table, row))
    <3> HIDE DEF row
    <3>1. /\ DOMAIN Append(table, row) = 1 .. Len(table) + 1
          /\ DOMAIN table = 1 .. Len(table) /\ Len(table) \in Nat
          /\ \A i \in 1 .. Len(table) : Append(table, row)[i] = table[i]
          /\ Append(table, row)[Len(table) + 1] = row
      BY <2>1, RowsAt, AppendProperties, LenProperties
    <3>2. Unique(Append(table, row))
      <4> SUFFICES ASSUME NEW i \in 1 .. Len(table) + 1, NEW j \in 1 .. Len(table) + 1,
                          i # j, Append(table, row)[i][Key] # Null
                   PROVE  Append(table, row)[i][Key] # Append(table, row)[j][Key]
        BY <3>1 DEF Unique
      <4>1. CASE i \in 1 .. Len(table) /\ j \in 1 .. Len(table)
        BY <4>1, <3>1 DEF TableOK, Unique
      <4>2. CASE i \in 1 .. Len(table) /\ j = Len(table) + 1
        BY <4>2, <3>1, <2>5
      <4>3. CASE i = Len(table) + 1 /\ j \in 1 .. Len(table)
        BY <4>3, <3>1, <2>5
      <4> QED BY <3>1, <4>1, <4>2, <4>3
    <3> QED BY <2>1, <3>2, AppendedOK
  <2> HIDE DEF row, next
  <2> QED BY <2>2, <2>3, <2>4, <2>5 DEF TableOK
<1>3. CASE /\ call = [op |-> "update", query |-> call.query, data |-> call.data]
           /\ IsObject(call.query) /\ IsObject(call.data)
  <2> DEFINE I == {i \in DOMAIN table : Matches(table[i], call.query)}
             next == [i \in DOMAIN table |-> IF Matches(table[i], call.query)
                                             THEN Patched(table[i], call.data)
                                             ELSE table[i]]
  <2>1. Promised(call) = Changed(call)
    BY <1>3 DEF Promised
  <2>2. next \in Seq(Row)
    <3>1. next = [i \in DOMAIN table |->
                    IF i \in I THEN Patched(table[i], call.data) ELSE table[i]]
      OBVIOUS
    <3>2. I \in SUBSET (DOMAIN table)
      OBVIOUS
    <3> HIDE DEF next, I
    <3> QED BY <3>1, <3>2, <1>3, KeptPatched
  <2>3. Changed(call).table = table \/ (Unique(next) /\ Changed(call).table = next)
    BY DEF Changed, Done, Failed
  <2> HIDE DEF next
  <2> QED BY <2>1, <2>2, <2>3 DEF TableOK
<1>4. CASE call = [op |-> "read", query |-> call.query, sort |-> call.sort,
                   offset |-> call.offset, limit |-> call.limit]
  BY <1>4 DEF Promised, Done
<1>5. CASE call = [op |-> "delete", query |-> call.query]
  <2> DEFINE I == {i \in DOMAIN table : ~Matches(table[i], call.query)}
  <2>1. Promised(call) = Removed(call)
    BY <1>5 DEF Promised
  <2>2. Removed(call).table = table \/ Removed(call).table = Kept(table, I)
    BY DEF Removed, Done, Failed
  <2>3. I \in SUBSET (DOMAIN table)
    OBVIOUS
  <2> HIDE DEF I
  <2> QED BY <2>1, <2>2, <2>3, KeptOK
<1> QED BY <1>1, <1>2, <1>3, <1>4, <1>5, CallCases

\* The table is a sequence of rows whose keys are unique, whatever operations and
\* searches there are.  The steps of Write are faithful, and the promises keep it.
THEOREM KeysUnique == SearchSpec => []TableOK(table)
<1>1. SearchInit => TableOK(table)
  BY EmptySeq DEF SearchInit, Init, TableOK, Unique
<1>2. TableOK(table) /\ [SearchNext]_<<table, search>> => TableOK(table)'
  <2> SUFFICES ASSUME TableOK(table), [SearchNext]_<<table, search>>
               PROVE  TableOK(table')
    BY DEF TableOK, Unique
  <2>1. ASSUME NEW call \in Call, Write(call) PROVE TableOK(table')
    <3>1. table' = Effect(call).table
      BY <2>1 DEF Write, Perform
    <3>2. Effect(call).table = Promised(call).table
      BY EveryCallFaithful DEF Faithful
    <3> QED BY <3>1, <3>2, PromisedTable
  <2>2. CASE UNCHANGED table
    BY <2>2
  <2> QED BY <2>1, <2>2 DEF SearchNext, Ask, Count, Taken
<1> QED BY <1>1, <1>2, PTL DEF SearchSpec

\* Whatever columns and objects there are, every operation of a model does to the
\* table what its documentation promises, and returns it too; but an update with
\* neither a condition nor a value returns rows instead of failing.
THEOREM OperationsAreFaithful == SearchSpec => []ModelsFaithful
<1>1. TableOK(table) => ModelsFaithful
  BY EveryCallFaithful DEF ModelsFaithful
<1> QED BY <1>1, KeysUnique, PTL

-----------------------------------------------------------------------------
(* Induction and recursion over numbers, from the well-foundedness of <.   *)

LEMMA Least ==
    ASSUME NEW T \in SUBSET Nat, T # {}
    PROVE  \E n \in T : \A m \in T : n <= m
<1>1. IsWellFoundedOn(OpToRel(<, Nat), Nat)
  BY NatLessThanWellFounded
<1>2. PICK n \in T : \A m \in T : ~ (<<m, n>> \in OpToRel(<, Nat))
  BY <1>1, WFMin
<1>3. \A m \in T : ~ (m < n)
  BY <1>2 DEF OpToRel
<1> QED BY <1>3

\* A set of numbers with 0, and with the next number of each, has every number.
LEMMA Inductive ==
    ASSUME NEW T \in SUBSET Nat, 0 \in T, \A n \in T : n + 1 \in T
    PROVE  T = Nat
<1> SUFFICES ASSUME Nat \ T # {}
             PROVE FALSE
  OBVIOUS
<1>1. PICK n \in Nat \ T : \A m \in Nat \ T : n <= m
  BY Least
<1>2. n - 1 \in T /\ n # 0
  BY <1>1
<1> QED BY <1>1, <1>2

\* g starts from base and goes on with step.
Recurs(g, N, V, base, step) ==
    g \in [0 .. N -> V] /\ g[0] = base /\ \A n \in 1 .. N : g[n] = step[n][g[n - 1]]

LEMMA Recursion ==
    ASSUME NEW N \in Nat, NEW V, NEW base \in V, NEW step \in [1 .. N -> [V -> V]]
    PROVE  \E g : Recurs(g, N, V, base, step)
<1> DEFINE T == {m \in Nat : m <= N => \E g \in [0 .. m -> V] :
                    /\ g[0] = base
                    /\ \A n \in 1 .. m : g[n] = step[n][g[n - 1]]}
<1>1. 0 \in T
  <2> DEFINE g == [n \in 0 .. 0 |-> base]
  <2>1. g \in [0 .. 0 -> V] /\ g[0] = base /\ \A n \in 1 .. 0 : g[n] = step[n][g[n - 1]]
    OBVIOUS
  <2> QED BY <2>1
<1>2. ASSUME NEW m \in T PROVE m + 1 \in T
  <2> SUFFICES ASSUME m + 1 <= N
               PROVE  \E g \in [0 .. (m + 1) -> V] :
                        /\ g[0] = base
                        /\ \A n \in 1 .. (m + 1) : g[n] = step[n][g[n - 1]]
    BY <1>2
  <2>1. m \in Nat /\ m <= N
    BY <1>2
  <2>2. PICK h \in [0 .. m -> V] :
           h[0] = base /\ \A n \in 1 .. m : h[n] = step[n][h[n - 1]]
    BY <1>2, <2>1
  <2> DEFINE g == [n \in 0 .. (m + 1) |->
                     IF n = m + 1 THEN step[m + 1][h[m]] ELSE h[n]]
  <2>3. step[m + 1][h[m]] \in V
    <3>1. m + 1 \in 1 .. N /\ m \in 0 .. m
      BY <2>1
    <3> QED BY <3>1
  <2>4. g \in [0 .. (m + 1) -> V]
    BY <2>1, <2>2, <2>3
  <2>5. g[0] = base
    BY <2>1, <2>2
  <2>6. ASSUME NEW n \in 1 .. (m + 1) PROVE g[n] = step[n][g[n - 1]]
    <3>1. n - 1 \in 0 .. m /\ n \in 0 .. (m + 1) /\ n - 1 \in 0 .. (m + 1)
          /\ n - 1 # m + 1
      BY <2>1
    <3>2. g[n - 1] = h[n - 1]
      BY <3>1
    <3>3. CASE n = m + 1
      BY <3>1, <3>2, <3>3, <2>1
    <3>4. CASE n # m + 1
      <4>1. n \in 1 .. m
        BY <3>4, <2>1
      <4> QED BY <3>1, <3>2, <3>4, <4>1, <2>2
    <3> QED BY <3>3, <3>4
  <2> HIDE DEF g
  <2> QED BY <2>4, <2>5, <2>6
<1>3. T = Nat
  <2>1. T \in SUBSET Nat
    OBVIOUS
  <2> HIDE DEF T
  <2> QED BY <1>1, <1>2, <2>1, Inductive
<1>4. N \in T
  BY <1>3
<1> QED BY <1>4 DEF Recurs

-----------------------------------------------------------------------------
(* Templates.                                                              *)

\* An entry of a template, and what it becomes.
Value == [column : Column, value : Nat]
Clauses == [conditions : Seq([column : Column, index : Nat]), params : Seq(Nat)]

\* The placeholder of the condition stands for the value of the entry.
Stands(condition, params, entry) ==
    /\ condition.column = entry.column
    /\ condition.index \in 1 .. Len(params)
    /\ params[condition.index] = entry.value

\* The part that is added stands for its entries, the others stay as they are.
LEMMA ContinuedPart ==
    ASSUME NEW sql \in Clauses, NEW part \in Seq(Value)
    PROVE  LET next == Continued(sql, part)
               n == Len(sql.conditions)
           IN  /\ next \in Clauses /\ Begins(next.params, sql.params)
               /\ Len(sql.params) \in Nat
               /\ n \in Nat /\ DOMAIN sql.conditions = 1 .. n
               /\ DOMAIN next.conditions = 1 .. n + Len(part)
               /\ \A i \in DOMAIN sql.conditions : next.conditions[i] = sql.conditions[i]
               /\ Len(part) \in Nat /\ DOMAIN part = 1 .. Len(part)
               /\ \A m \in DOMAIN part :
                    Stands(next.conditions[n + m], next.params, part[m])
<1> DEFINE C == [column : Column, index : Nat]
           new == [i \in DOMAIN part |->
                        [column |-> part[i].column,
                         index |-> i + Len(sql.params)]]
           v == Values(part)
           p == sql.params
           c == sql.conditions
<1>1. p \in Seq(Nat) /\ c \in Seq(C) /\ Len(p) \in Nat /\ Len(c) \in Nat
      /\ DOMAIN c = 1 .. Len(c)
  BY LenProperties DEF Clauses
<1>2. Len(part) \in Nat /\ DOMAIN part = 1 .. Len(part)
      /\ \A m \in DOMAIN part : part[m] \in Value
  BY LenProperties, ElementOfSeq
<1>3. \A m \in DOMAIN part : part[m].column \in Column /\ part[m].value \in Nat
  BY <1>2 DEF Value
<1>4. new \in Seq(C) /\ Len(new) = Len(part)
  <2>1. new \in [1 .. Len(part) -> C]
    BY <1>1, <1>2, <1>3
  <2> QED BY <2>1, <1>2
<1>5. v \in Seq(Nat) /\ Len(v) = Len(part) /\ \A m \in DOMAIN part : v[m] = part[m].value
  <2>1. v \in [1 .. Len(part) -> Nat]
    BY <1>2, <1>3 DEF Values
  <2>2. v \in Seq(Nat) /\ Len(v) = Len(part)
    BY <2>1, <1>2
  <2>3. \A m \in DOMAIN part : v[m] = part[m].value
    BY DEF Values
  <2> QED BY <2>2, <2>3
<1>6. \A m \in DOMAIN part : new[m] = [column |-> part[m].column, index |-> m + Len(p)]
  OBVIOUS
<1> HIDE DEF new, v, p, c
<1>7. /\ p \o v \in Seq(Nat) /\ Len(p \o v) = Len(p) + Len(v) /\ Begins(p \o v, p)
      /\ \A m \in 1 .. Len(v) : (p \o v)[Len(p) + m] = v[m]
  <2>1. p \in Seq(Nat) /\ v \in Seq(Nat)
    BY <1>1, <1>5
  <2> QED BY <2>1, Joined
<1>8. /\ c \o new \in Seq(C) /\ Len(c \o new) = Len(c) + Len(new) /\ Begins(c \o new, c)
      /\ \A m \in 1 .. Len(new) : (c \o new)[Len(c) + m] = new[m]
  <2>1. c \in Seq(C) /\ new \in Seq(C)
    BY <1>1, <1>4
  <2> HIDE DEF C
  <2> QED BY <2>1, Joined
<1>9. DOMAIN (c \o new) = 1 .. Len(c) + Len(part)
  BY <1>8, <1>4, LenProperties
<1>10. \A i \in DOMAIN c : (c \o new)[i] = c[i]
  BY <1>1, <1>8 DEF Begins
<1>11. ASSUME NEW m \in DOMAIN part
       PROVE  Stands((c \o new)[Len(c) + m], p \o v, part[m])
  <2>1. m \in 1 .. Len(part) /\ m \in 1 .. Len(new) /\ m \in 1 .. Len(v)
    BY <1>2, <1>4, <1>5
  <2>2. (c \o new)[Len(c) + m] = [column |-> part[m].column, index |-> m + Len(p)]
    BY <2>1, <1>6, <1>8
  <2>3. m + Len(p) = Len(p) + m /\ Len(p) + m \in 1 .. Len(p \o v)
    BY <2>1, <1>1, <1>7
  <2>4. (p \o v)[Len(p) + m] = part[m].value
    BY <2>1, <1>5, <1>7
  <2> QED BY <2>2, <2>3, <2>4 DEF Stands
<1>12. Continued(sql, part) = [conditions |-> c \o new, params |-> p \o v]
  BY DEF Continued, new, v, p, c
<1>13. [conditions |-> c \o new, params |-> p \o v] \in Clauses
  BY <1>7, <1>8 DEF Clauses
<1> DEFINE next == Continued(sql, part)
<1>14. next \in Clauses /\ next.conditions = c \o new /\ next.params = p \o v
  BY <1>12, <1>13
<1> HIDE DEF next, C
<1>15. /\ Begins(next.params, p) /\ DOMAIN next.conditions = 1 .. Len(c) + Len(part)
       /\ \A i \in DOMAIN c : next.conditions[i] = c[i]
       /\ \A m \in DOMAIN part : Stands(next.conditions[Len(c) + m], next.params, part[m])
  BY <1>7, <1>9, <1>10, <1>11, <1>14
<1> QED BY <1>1, <1>2, <1>14, <1>15 DEF next, p, c

LEMMA StandsFurther ==
    ASSUME NEW condition, NEW entry, NEW a, NEW b, Len(a) \in Nat, Len(b) \in Nat,
           Begins(b, a), Stands(condition, a, entry)
    PROVE  Stands(condition, b, entry)
BY DEF Begins, Stands

\* Every condition of a template stands for an entry, and every entry has one.
LEMMA TemplateStands ==
    ASSUME NEW parts \in Seq(Seq(Value))
    PROVE  LET t == Template(parts)
           IN  /\ t.params \in Seq(Nat)
               /\ \A k \in DOMAIN t.conditions :
                    \E i \in DOMAIN parts : \E m \in DOMAIN parts[i] :
                       Stands(t.conditions[k], t.params, parts[i][m])
               /\ \A i \in DOMAIN parts : \A m \in DOMAIN parts[i] :
                    \E k \in DOMAIN t.conditions :
                       Stands(t.conditions[k], t.params, parts[i][m])
<1> DEFINE N == Len(parts)
           base == [conditions |-> <<>>, params |-> <<>>]
           sql[n \in 0 .. N] == IF n = 0 THEN base ELSE Continued(sql[n - 1], parts[n])
           step == [n \in 1 .. N |-> [c \in Clauses |-> Continued(c, parts[n])]]
<1>1. N \in Nat /\ DOMAIN parts = 1 .. N /\ \A n \in 1 .. N : parts[n] \in Seq(Value)
  BY LenProperties, ElementOfSeq
<1>2. base \in Clauses
  BY EmptySeq DEF Clauses
<1>3. step \in [1 .. N -> [Clauses -> Clauses]]
  <2> HIDE DEF N
  <2>1. ASSUME NEW n \in 1 .. N, NEW c \in Clauses
        PROVE  Continued(c, parts[n]) \in Clauses
    BY <1>1, ContinuedPart
  <2> QED BY <2>1
<1>4. Template(parts) = sql[N]
  BY DEF Template
<1>5. \E g : g = [n \in 0 .. N |-> IF n = 0 THEN base ELSE Continued(g[n - 1], parts[n])]
  <2> HIDE DEF step, N, base, sql
  <2>1. PICK g : Recurs(g, N, Clauses, base, step)
    <3>1. N \in Nat /\ base \in Clauses
      BY <1>1, <1>2
    <3> QED BY <3>1, <1>3, Recursion
  <2>2. ASSUME NEW n \in 0 .. N
        PROVE  g[n] = IF n = 0 THEN base ELSE Continued(g[n - 1], parts[n])
    <3>1. n # 0 => n \in 1 .. N /\ n - 1 \in 0 .. N
      BY <1>1
    <3> QED BY <3>1, <2>1 DEF Recurs, step
  <2>3. g = [n \in 0 .. N |-> IF n = 0 THEN base ELSE Continued(g[n - 1], parts[n])]
    BY <2>1, <2>2 DEF Recurs
  <2> QED BY <2>3
<1>6. sql = [n \in 0 .. N |-> IF n = 0 THEN base ELSE Continued(sql[n - 1], parts[n])]
  <2> HIDE DEF N, base, step
  <2> QED BY <1>5 DEF sql
<1>7. sql[0] = base /\ \A n \in 1 .. N : sql[n] = Continued(sql[n - 1], parts[n])
  <2> HIDE DEF N, base, step, sql
  <2>1. sql[0] = base
    BY <1>1, <1>6
  <2>2. ASSUME NEW n \in 1 .. N PROVE sql[n] = Continued(sql[n - 1], parts[n])
    <3>1. n \in 0 .. N /\ n # 0
      BY <1>1
    <3> QED BY <3>1, <1>6
  <2> QED BY <2>1, <2>2
<1> DEFINE Sound(n) == \A k \in DOMAIN sql[n].conditions :
              \E i \in 1 .. n : \E m \in DOMAIN parts[i] :
                 Stands(sql[n].conditions[k], sql[n].params, parts[i][m])
           Complete(n) == \A i \in 1 .. n : \A m \in DOMAIN parts[i] :
              \E k \in DOMAIN sql[n].conditions :
                 Stands(sql[n].conditions[k], sql[n].params, parts[i][m])
           T == {n \in Nat : n <= N => sql[n] \in Clauses /\ Sound(n) /\ Complete(n)}
<1> HIDE DEF step, sql
<1>8. 0 \in T
  <2>1. Sound(0) /\ Complete(0)
    BY <1>7
  <2> QED BY <2>1, <1>2, <1>7
<1>9. ASSUME NEW n \in T PROVE n + 1 \in T
  <2> HIDE DEF N
  <2> SUFFICES ASSUME n + 1 <= N
               PROVE  sql[n + 1] \in Clauses /\ Sound(n + 1) /\ Complete(n + 1)
    BY <1>9
  <2>1. n \in Nat /\ n <= N /\ n + 1 \in 1 .. N /\ (n + 1) - 1 = n
    BY <1>1, <1>9
  <2>2. sql[n] \in Clauses /\ Sound(n) /\ Complete(n)
    BY <1>9, <2>1
  <2> DEFINE part == parts[n + 1]
             old == sql[n]
             new == sql[n + 1]
  <2>3. part \in Seq(Value) /\ old \in Clauses /\ new = Continued(old, part)
    BY <1>1, <1>7, <2>1, <2>2
  <2> HIDE DEF Sound, Complete, part, old, new
  <2>4. /\ new \in Clauses /\ Begins(new.params, old.params)
        /\ Len(old.conditions) \in Nat /\ DOMAIN old.conditions = 1 .. Len(old.conditions)
        /\ DOMAIN new.conditions = 1 .. Len(old.conditions) + Len(part)
        /\ \A i \in DOMAIN old.conditions : new.conditions[i] = old.conditions[i]
        /\ Len(part) \in Nat /\ DOMAIN part = 1 .. Len(part)
        /\ \A m \in DOMAIN part :
              Stands(new.conditions[Len(old.conditions) + m], new.params, part[m])
    BY <2>3, ContinuedPart
  <2>5. Len(old.params) \in Nat /\ Len(new.params) \in Nat
    BY <2>3, <2>4, LenProperties DEF Clauses
  <2>6. ASSUME NEW k \in DOMAIN old.conditions, NEW entry,
               Stands(old.conditions[k], old.params, entry)
        PROVE  k \in DOMAIN new.conditions /\ Stands(new.conditions[k], new.params, entry)
    <3>1. Stands(old.conditions[k], new.params, entry)
      BY <2>4, <2>5, <2>6, StandsFurther
    <3> QED BY <3>1, <2>4
  <2>7. Sound(n + 1)
    <3> SUFFICES ASSUME NEW k \in DOMAIN new.conditions
                 PROVE  \E i \in 1 .. n + 1 : \E m \in DOMAIN parts[i] :
                           Stands(new.conditions[k], new.params, parts[i][m])
      BY DEF Sound, new
    <3>1. CASE k \in DOMAIN old.conditions
      <4>1. PICK i \in 1 .. n : \E m \in DOMAIN parts[i] :
                    Stands(old.conditions[k], old.params, parts[i][m])
        BY <2>2, <3>1 DEF Sound, old
      <4>2. i \in 1 .. n + 1
        BY <2>1
      <4> QED BY <4>1, <4>2, <3>1, <2>6
    <3>2. CASE k \notin DOMAIN old.conditions
      <4> DEFINE m == k - Len(old.conditions)
      <4>1. m \in DOMAIN part /\ k = Len(old.conditions) + m
        <5> DEFINE a == Len(old.conditions)
                   b == Len(part)
        <5>1. a \in Nat /\ b \in Nat /\ DOMAIN part = 1 .. b
          BY <2>4
        <5>2. k \in 1 .. a + b /\ k \notin 1 .. a
          BY <2>4, <3>2
        <5> HIDE DEF a, b
        <5>3. k - a \in 1 .. b /\ k = a + (k - a)
          BY <5>1, <5>2
        <5> QED BY <5>1, <5>3 DEF a
      <4>2. Stands(new.conditions[k], new.params, part[m])
        BY <4>1, <2>4
      <4>3. n + 1 \in 1 .. n + 1
        BY <2>1
      <4> QED BY <4>1, <4>2, <4>3 DEF part
    <3> QED BY <3>1, <3>2
  <2>8. Complete(n + 1)
    <3> SUFFICES ASSUME NEW i \in 1 .. n + 1, NEW m \in DOMAIN parts[i]
                 PROVE  \E k \in DOMAIN new.conditions :
                           Stands(new.conditions[k], new.params, parts[i][m])
      BY DEF Complete, new
    <3>1. CASE i = n + 1
      <4> DEFINE k == Len(old.conditions) + m
      <4>1. m \in DOMAIN part /\ k \in DOMAIN new.conditions
        <5>1. m \in DOMAIN part
          BY <3>1 DEF part
        <5> QED BY <5>1, <2>4
      <4>2. Stands(new.conditions[k], new.params, parts[i][m])
        BY <4>1, <2>4, <3>1 DEF part
      <4> QED BY <4>1, <4>2
    <3>2. CASE i # n + 1
      <4>1. i \in 1 .. n
        BY <2>1, <3>2
      <4>2. PICK k \in DOMAIN old.conditions :
               Stands(old.conditions[k], old.params, parts[i][m])
        BY <2>2, <4>1 DEF Complete, old
      <4> QED BY <4>2, <2>6
    <3> QED BY <3>1, <3>2
  <2> QED BY <2>4, <2>7, <2>8 DEF new
<1>10. T = Nat
  <2>1. T \in SUBSET Nat
    OBVIOUS
  <2> HIDE DEF T
  <2> QED BY <1>8, <1>9, <2>1, Inductive
<1>11. sql[N] \in Clauses /\ Sound(N) /\ Complete(N)
  BY <1>1, <1>10
<1> QED BY <1>1, <1>4, <1>11 DEF Clauses

-----------------------------------------------------------------------------
(* Filters.                                                                *)

\* A WHERE clause while filters are added to it.
Op == {"=", "!=", ">", "in", "not in"}
Listed == [where : Seq([name : {1, FullText}, op : Op, field : Nat, index : Nat]),
           params : Seq(Seq(Int))]

\* The parameter of the value of a filter.
Sought(filter) ==
    IF filter.field = Undefined THEN filter.value
    ELSE [i \in DOMAIN filter.value |-> Json(filter.value[i])]

\* The placeholders of a clause stand for the field and the value of the filter.
Carries(clause, params, filter) ==
    /\ clause.name = filter.name /\ clause.op = filter.op
    /\ clause.index \in 1 .. Len(params) /\ params[clause.index] = Sought(filter)
    /\ filter.field = Undefined => clause.field = 0
    /\ filter.field # Undefined =>
         clause.field \in 1 .. Len(params) /\ params[clause.field] = <<filter.field>>

LEMMA SoughtValues ==
    ASSUME NEW filter \in Condition
    PROVE  Sought(filter) \in Seq(Int)
<1> DEFINE v == filter.value
<1>1. v \in Seq(Nat) /\ Len(v) \in Nat /\ DOMAIN v = 1 .. Len(v)
  BY LenProperties DEF Condition
<1>2. \A i \in 1 .. Len(v) : v[i] \in Nat
  BY <1>1, ElementOfSeq
<1> HIDE DEF v
<1>3. [i \in DOMAIN v |-> Json(v[i])] \in [1 .. Len(v) -> Int]
  BY <1>1, <1>2 DEF Json, JsonNull, Null
<1>4. [i \in DOMAIN v |-> Json(v[i])] \in Seq(Int)
  BY <1>1, <1>3
<1>5. v \in Seq(Int)
  <2>1. v \in [1 .. Len(v) -> Int]
    BY <1>1, <1>2
  <2> QED BY <2>1, <1>1
<1> QED BY <1>4, <1>5 DEF Sought, v

LEMMA CarriesFurther ==
    ASSUME NEW clause, NEW filter, NEW a, NEW b, Begins(b, a), Carries(clause, a, filter),
           Len(a) \in Nat, Len(b) \in Nat
    PROVE  Carries(clause, b, filter)
BY DEF Begins, Carries

LEMMA OneMore ==
    ASSUME NEW S, NEW s \in Seq(S), NEW x \in S
    PROVE  /\ s \o <<x>> \in Seq(S) /\ Len(s \o <<x>>) = Len(s) + 1 /\ Len(s) \in Nat
           /\ (s \o <<x>>)[Len(s) + 1] = x /\ Begins(s \o <<x>>, s)
           /\ Append(s, x) \in Seq(S) /\ Len(Append(s, x)) = Len(s) + 1
           /\ \A i \in 1 .. Len(s) : Append(s, x)[i] = s[i]
           /\ Append(s, x)[Len(s) + 1] = x
<1>1. <<x>> \in Seq(S) /\ Len(<<x>>) = 1 /\ <<x>>[1] = x
  OBVIOUS
<1>2. 1 \in 1 .. 1
  OBVIOUS
<1>3. /\ s \o <<x>> \in Seq(S) /\ Len(s \o <<x>>) = Len(s) + 1 /\ Len(s) \in Nat
      /\ (s \o <<x>>)[Len(s) + 1] = x /\ Begins(s \o <<x>>, s)
  <2> DEFINE t == <<x>>
  <2>1. t \in Seq(S) /\ Len(t) = 1 /\ t[1] = x
    BY <1>1
  <2> HIDE DEF t
  <2>2. /\ s \o t \in Seq(S) /\ Len(s) \in Nat
        /\ Len(s \o t) = Len(s) + Len(t) /\ Begins(s \o t, s)
        /\ \A m \in 1 .. Len(t) : (s \o t)[Len(s) + m] = t[m]
    <3>1. t \in Seq(S)
      BY <2>1
    <3> QED BY <3>1, Joined
  <2>3. (s \o t)[Len(s) + 1] = x /\ Len(s \o t) = Len(s) + 1
    BY <2>1, <2>2, <1>2
  <2> QED BY <2>2, <2>3 DEF t
<1>4. /\ Append(s, x) \in Seq(S) /\ Len(Append(s, x)) = Len(s) + 1
      /\ \A i \in 1 .. Len(s) : Append(s, x)[i] = s[i]
      /\ Append(s, x)[Len(s) + 1] = x
  BY AppendProperties
<1> QED BY <1>3, <1>4

\* A filter adds a clause that carries it; the others stay as they are.
LEMMA FilterCarries ==
    ASSUME NEW sql \in Listed, NEW filter \in Condition
    PROVE  LET next == Filter(sql, filter)
           IN  /\ next \in Listed /\ Begins(next.params, sql.params)
               /\ Len(sql.params) \in Nat /\ Len(next.params) \in Nat
               /\ Len(sql.where) \in Nat /\ Len(next.where) = Len(sql.where) + 1
               /\ \A i \in 1 .. Len(sql.where) : next.where[i] = sql.where[i]
               /\ Carries(next.where[Len(sql.where) + 1], next.params, filter)
<1> DEFINE next == Filter(sql, filter)
           p == sql.params
           w == sql.where
           json == filter.field # Undefined
           f == IF json THEN <<<<filter.field>>>> ELSE <<>>
           clause == [name |-> filter.name, op |-> filter.op,
                      field |-> IF json THEN Len(p) + 1 ELSE 0,
                      index |-> IF json THEN Len(p) + 2 ELSE Len(p) + 1]
           C == [name : {1, FullText}, op : Op, field : Nat, index : Nat]
<1>1. p \in Seq(Seq(Int)) /\ w \in Seq(C) /\ Len(p) \in Nat /\ Len(w) \in Nat
  BY LenProperties DEF Listed
<1>2. Sought(filter) \in Seq(Int)
  BY SoughtValues
<1>3. next = [where |-> Append(w, clause), params |-> (p \o f) \o <<Sought(filter)>>]
  BY DEF Filter, Sought
<1>4. clause \in C
  <2>1. filter.name \in {1, FullText} /\ filter.op \in Op
    BY DEF Condition, Op
  <2>2. clause.field \in Nat /\ clause.index \in Nat
    <3> HIDE DEF p
    <3> QED BY <1>1
  <2> HIDE DEF p
  <2> QED BY <2>1, <2>2
<1>5. /\ clause.name = filter.name /\ clause.op = filter.op
      /\ clause.field = (IF json THEN Len(p) + 1 ELSE 0)
      /\ clause.index = (IF json THEN Len(p) + 2 ELSE Len(p) + 1)
  OBVIOUS
<1>6. /\ p \o f \in Seq(Seq(Int)) /\ Len(p \o f) \in Nat
      /\ json => /\ Len(p \o f) = Len(p) + 1 /\ Begins(p \o f, p)
                 /\ (p \o f)[Len(p) + 1] = <<filter.field>>
      /\ ~ json => p \o f = p
  <2>1. CASE json
    <3> DEFINE x == <<filter.field>>
    <3>1. x \in Seq(Int)
      <4>1. filter.field \in Int
        <5>1. filter.field \in Nat \cup {Undefined}
          BY DEF Condition
        <5> QED BY <5>1, <2>1
      <4> QED BY <4>1
    <3>2. f = <<x>>
      BY <2>1
    <3>3. p \in Seq(Seq(Int))
      BY <1>1
    <3> HIDE DEF p, f, x
    <3>4. /\ p \o f \in Seq(Seq(Int)) /\ Len(p \o f) = Len(p) + 1 /\ Begins(p \o f, p)
          /\ (p \o f)[Len(p) + 1] = x
      BY <3>1, <3>2, <3>3, OneMore
    <3>5. Len(p \o f) \in Nat
      BY <3>4, LenProperties
    <3> QED BY <3>4, <3>5, <2>1 DEF x
  <2>2. CASE ~ json
    <3>1. f = <<>>
      BY <2>2
    <3>2. p \o <<>> = p
      BY <1>1, ConcatEmptySeq
    <3> QED BY <3>1, <3>2, <1>1, <2>2
  <2> QED BY <2>1, <2>2
<1> DEFINE a == p \o f
           b == a \o <<Sought(filter)>>
<1>7. a \in Seq(Seq(Int)) /\ b \in Seq(Seq(Int)) /\ Len(b) = Len(a) + 1 /\ Len(a) \in Nat
      /\ b[Len(a) + 1] = Sought(filter) /\ Begins(b, a)
  <2>1. a \in Seq(Seq(Int))
    BY <1>6
  <2> HIDE DEF a
  <2> QED BY <2>1, <1>2, OneMore
<1>8. /\ Append(w, clause) \in Seq(C) /\ Len(Append(w, clause)) = Len(w) + 1
      /\ \A i \in 1 .. Len(w) : Append(w, clause)[i] = w[i]
      /\ Append(w, clause)[Len(w) + 1] = clause
  <2> HIDE DEF C, clause, w
  <2> QED BY <1>1, <1>4, OneMore
<1>9. Begins(b, p) /\ Carries(clause, b, filter) 
  <2>1. CASE json
    <3>1. Len(a) = Len(p) + 1 /\ Begins(a, p) /\ a[Len(p) + 1] = <<filter.field>>
      BY <1>6, <2>1
    <3>2. clause.field = Len(p) + 1 /\ clause.index = Len(p) + 2
      BY <1>5, <2>1
    <3> HIDE DEF a, b, p, clause
    <3>3. Begins(b, p)
      BY <3>1, <1>1, <1>7, BeginsFurther
    <3>4. b[Len(p) + 1] = <<filter.field>> /\ b[Len(p) + 2] = Sought(filter)
      <4>1. Len(p) + 1 \in 1 .. Len(a)
        BY <3>1, <1>1
      <4>2. Len(p) + 2 = Len(a) + 1
        BY <3>1, <1>1
      <4> QED BY <4>1, <4>2, <3>1, <1>7 DEF Begins
    <3>5. Len(p) + 1 \in 1 .. Len(b) /\ Len(p) + 2 \in 1 .. Len(b)
      BY <3>1, <1>1, <1>7
    <3> QED BY <3>2, <3>3, <3>4, <3>5, <1>5, <2>1 DEF Carries
  <2>2. CASE ~ json
    <3>1. a = p
      BY <1>6, <2>2
    <3>2. clause.field = 0 /\ clause.index = Len(p) + 1
      BY <1>5, <2>2
    <3> HIDE DEF a, b, p, clause
    <3>3. Len(p) + 1 \in 1 .. Len(b)
      BY <3>1, <1>1, <1>7
    <3> QED BY <3>1, <3>2, <3>3, <1>5, <1>7, <2>2 DEF Carries
  <2> QED BY <2>1, <2>2
<1>10. next = [where |-> Append(w, clause), params |-> b]
  BY <1>3
<1> HIDE DEF next, a, b, clause
<1>11. next.where = Append(w, clause) /\ next.params = b
  BY <1>10
<1>12. next \in Listed
  BY <1>10, <1>7, <1>8 DEF Listed
<1>13. Len(b) \in Nat
  BY <1>7
<1> QED BY <1>1, <1>8, <1>9, <1>11, <1>12, <1>13 DEF next

\* The clauses carry the filters, one by one.
LEMMA FiltersCarry ==
    ASSUME NEW start \in Seq(Seq(Int)), NEW filters \in Seq(Condition)
    PROVE  LET all == Filters([where |-> <<>>, params |-> start], filters)
           IN  /\ all.params \in Seq(Seq(Int)) /\ Begins(all.params, start)
               /\ DOMAIN all.where = DOMAIN filters
               /\ \A i \in DOMAIN filters : Carries(all.where[i], all.params, filters[i])
<1> DEFINE N == Len(filters)
           base == [where |-> <<>>, params |-> start]
           sql[n \in 0 .. N] == IF n = 0 THEN base ELSE Filter(sql[n - 1], filters[n])
           step == [n \in 1 .. N |-> [c \in Listed |-> Filter(c, filters[n])]]
<1>1. N \in Nat /\ DOMAIN filters = 1 .. N /\ \A n \in 1 .. N : filters[n] \in Condition
  BY LenProperties, ElementOfSeq
<1>2. base \in Listed
  BY EmptySeq DEF Listed
<1>3. step \in [1 .. N -> [Listed -> Listed]]
  <2> HIDE DEF N
  <2>1. ASSUME NEW n \in 1 .. N, NEW c \in Listed PROVE Filter(c, filters[n]) \in Listed
    BY <1>1, FilterCarries
  <2> QED BY <2>1
<1>4. Filters(base, filters) = sql[N]
  BY DEF Filters
<1>5. \E g : g = [n \in 0 .. N |-> IF n = 0 THEN base ELSE Filter(g[n - 1], filters[n])]
  <2> HIDE DEF step, N, base, sql
  <2>1. PICK g : Recurs(g, N, Listed, base, step)
    <3>1. N \in Nat /\ base \in Listed
      BY <1>1, <1>2
    <3> QED BY <3>1, <1>3, Recursion
  <2>2. ASSUME NEW n \in 0 .. N
        PROVE  g[n] = IF n = 0 THEN base ELSE Filter(g[n - 1], filters[n])
    <3>1. n # 0 => n \in 1 .. N /\ n - 1 \in 0 .. N
      BY <1>1
    <3> QED BY <3>1, <2>1 DEF Recurs, step
  <2>3. g = [n \in 0 .. N |-> IF n = 0 THEN base ELSE Filter(g[n - 1], filters[n])]
    BY <2>1, <2>2 DEF Recurs
  <2> QED BY <2>3
<1>6. sql = [n \in 0 .. N |-> IF n = 0 THEN base ELSE Filter(sql[n - 1], filters[n])]
  <2> HIDE DEF N, base, step
  <2> QED BY <1>5 DEF sql
<1>7. sql[0] = base /\ \A n \in 1 .. N : sql[n] = Filter(sql[n - 1], filters[n])
  <2> HIDE DEF N, base, step, sql
  <2>1. sql[0] = base
    BY <1>1, <1>6
  <2>2. ASSUME NEW n \in 1 .. N PROVE sql[n] = Filter(sql[n - 1], filters[n])
    <3>1. n \in 0 .. N /\ n # 0
      BY <1>1
    <3> QED BY <3>1, <1>6
  <2> QED BY <2>1, <2>2
<1> DEFINE Good(n) ==
             /\ sql[n] \in Listed /\ Begins(sql[n].params, start) /\ Len(sql[n].where) = n
             /\ \A i \in 1 .. n : Carries(sql[n].where[i], sql[n].params, filters[i])
           T == {n \in Nat : n <= N => Good(n)}
<1> HIDE DEF step, sql
<1>0. Len(start) \in Nat
  BY LenProperties
<1>8. 0 \in T
  <2>1. Begins(start, start)
    BY <1>0 DEF Begins
  <2>2. Len(<<>>) = 0
    OBVIOUS
  <2>3. Good(0)
    BY <2>1, <2>2, <1>2, <1>7
  <2> QED BY <2>3
<1>9. ASSUME NEW n \in T PROVE n + 1 \in T
  <2> HIDE DEF N
  <2> SUFFICES ASSUME n + 1 <= N PROVE Good(n + 1)
    BY <1>9
  <2>1. n \in Nat /\ n <= N /\ n + 1 \in 1 .. N /\ (n + 1) - 1 = n
    BY <1>1, <1>9
  <2>2. Good(n)
    BY <1>9, <2>1
  <2> DEFINE f == filters[n + 1]
             old == sql[n]
             new == sql[n + 1]
  <2>3. f \in Condition /\ old \in Listed /\ new = Filter(old, f)
    BY <1>1, <1>7, <2>1, <2>2
  <2>3a. Begins(old.params, start) /\ Len(old.where) = n
        /\ \A i \in 1 .. n : Carries(old.where[i], old.params, filters[i])
    BY <2>2
  <2> HIDE DEF Good, f, old, new
  <2>4. /\ new \in Listed /\ Begins(new.params, old.params)
        /\ Len(old.params) \in Nat /\ Len(new.params) \in Nat
        /\ Len(new.where) = n + 1
        /\ \A i \in 1 .. n : new.where[i] = old.where[i]
        /\ Carries(new.where[n + 1], new.params, f)
    BY <2>3, <2>3a, FilterCarries
  <2>5. Begins(new.params, start)
    BY <2>3a, <2>4, <1>0, BeginsFurther
  <2>6. ASSUME NEW i \in 1 .. n + 1 PROVE Carries(new.where[i], new.params, filters[i])
    <3>1. CASE i = n + 1
      BY <3>1, <2>4 DEF f
    <3>2. CASE i # n + 1
      <4>1. i \in 1 .. n
        BY <3>2, <2>1
      <4>2. Carries(old.where[i], old.params, filters[i])
        BY <4>1, <2>3a
      <4>3. Carries(old.where[i], new.params, filters[i])
        BY <4>2, <2>4, CarriesFurther
      <4> QED BY <4>1, <4>3, <2>4
    <3> QED BY <3>1, <3>2
  <2> QED BY <2>4, <2>5, <2>6 DEF Good, new
<1>10. T = Nat
  <2>1. T \in SUBSET Nat
    OBVIOUS
  <2> HIDE DEF T
  <2> QED BY <1>8, <1>9, <2>1, Inductive
<1>11. Good(N)
  BY <1>1, <1>10
<1>12. DOMAIN sql[N].where = 1 .. Len(sql[N].where)
  <2>1. sql[N].where \in Seq([name : {1, FullText}, op : Op, field : Nat, index : Nat])
    BY <1>11 DEF Listed
  <2> QED BY <2>1, LenProperties
<1>13. sql[N].params \in Seq(Seq(Int))
  BY <1>11 DEF Listed
<1> QED BY <1>1, <1>4, <1>11, <1>12, <1>13

-----------------------------------------------------------------------------
(* Joins.                                                                  *)

LEMMA Flattened ==
    ASSUME NEW S, NEW seqs \in Seq(Seq(S))
    PROVE  FlattenSeq(seqs) \in Seq(S)
<1> DEFINE N == Len(seqs)
           flatten[i \in 1 .. N] == IF i = 1 THEN seqs[i] ELSE flatten[i - 1] \o seqs[i]
           step == [n \in 1 .. (N - 1) |-> [s \in Seq(S) |-> s \o seqs[n + 1]]]
<1>1. N \in Nat /\ DOMAIN seqs = 1 .. N /\ \A n \in 1 .. N : seqs[n] \in Seq(S)
  BY LenProperties, ElementOfSeq
<1>2. CASE N = 0
  <2>1. seqs = <<>>
    BY <1>2, EmptySeq
  <2>2. FlattenSeq(seqs) = seqs
    BY <1>2 DEF FlattenSeq
  <2> QED BY <2>1, <2>2, EmptySeq
<1>3. CASE N # 0
  <2> HIDE DEF N, step, flatten
  <2>1. N - 1 \in Nat /\ 1 \in 1 .. N
    BY <1>1, <1>3
  <2>2. step \in [1 .. (N - 1) -> [Seq(S) -> Seq(S)]]
    <3>1. ASSUME NEW n \in 1 .. (N - 1), NEW s \in Seq(S)
          PROVE  s \o seqs[n + 1] \in Seq(S)
      <4>1. n + 1 \in 1 .. N
        BY <1>1
      <4>2. seqs[n + 1] \in Seq(S)
        BY <4>1, <1>1
      <4> QED BY <4>2, ConcatProperties
    <3> QED BY <3>1 DEF step
  <2>3. PICK h : Recurs(h, N - 1, Seq(S), seqs[1], step)
    <3>1. seqs[1] \in Seq(S)
      BY <2>1, <1>1
    <3> QED BY <3>1, <2>1, <2>2, Recursion
  <2> DEFINE g == [i \in 1 .. N |-> h[i - 1]]
  <2>4. ASSUME NEW i \in 1 .. N
        PROVE  g[i] = IF i = 1 THEN seqs[i] ELSE g[i - 1] \o seqs[i]
    <3>1. CASE i = 1
      BY <3>1, <2>3 DEF Recurs
    <3>2. CASE i # 1
      <4>1. /\ i - 1 \in 1 .. (N - 1) /\ i - 1 \in 1 .. N
            /\ (i - 1) + 1 = i /\ (i - 1) - 1 \in 0 .. (N - 1)
        BY <3>2, <1>1
      <4>2. h[i - 1] = step[i - 1][h[(i - 1) - 1]]
        BY <4>1, <2>3 DEF Recurs
      <4>3. h[(i - 1) - 1] \in Seq(S)
        BY <4>1, <2>3 DEF Recurs
      <4>4. step[i - 1][h[(i - 1) - 1]] = h[(i - 1) - 1] \o seqs[i]
        BY <4>1, <4>3 DEF step
      <4> QED BY <4>1, <4>2, <4>4, <3>2
    <3> QED BY <3>1, <3>2
  <2>5. g = [i \in 1 .. N |-> IF i = 1 THEN seqs[i] ELSE g[i - 1] \o seqs[i]]
    <3>1. g = [i \in 1 .. N |-> g[i]]
      OBVIOUS
    <3> HIDE DEF g
    <3> QED BY <3>1, <2>4
  <2>6. flatten = [i \in 1 .. N |-> IF i = 1 THEN seqs[i] ELSE flatten[i - 1] \o seqs[i]]
    <3> HIDE DEF g
    <3> QED BY <2>5 DEF flatten
  <2>7. /\ flatten[1] = seqs[1]
        /\ \A i \in 1 .. N : i # 1 => flatten[i] = flatten[i - 1] \o seqs[i]
    <3>1. flatten[1] = seqs[1]
      BY <2>1, <2>6
    <3>2. ASSUME NEW i \in 1 .. N, i # 1 PROVE flatten[i] = flatten[i - 1] \o seqs[i]
      BY <2>6, <3>2
    <3> QED BY <3>1, <3>2
  <2> DEFINE T == {n \in Nat : n + 1 <= N => flatten[n + 1] \in Seq(S)}
  <2>8. 0 \in T
    BY <2>1, <2>7, <1>1
  <2>9. ASSUME NEW n \in T PROVE n + 1 \in T
    <3> SUFFICES ASSUME (n + 1) + 1 <= N PROVE flatten[(n + 1) + 1] \in Seq(S)
      BY <2>9
    <3>1. n \in Nat /\ n + 1 <= N /\ (n + 1) + 1 \in 1 .. N /\ (n + 1) + 1 # 1
          /\ ((n + 1) + 1) - 1 = n + 1
      BY <1>1, <2>9
    <3>2. flatten[n + 1] \in Seq(S) /\ seqs[(n + 1) + 1] \in Seq(S)
      BY <2>9, <3>1, <1>1
    <3>3. flatten[(n + 1) + 1] = flatten[n + 1] \o seqs[(n + 1) + 1]
      BY <3>1, <2>7
    <3> QED BY <3>2, <3>3, ConcatProperties
  <2>10. T = Nat
    <3>1. T \in SUBSET Nat
      OBVIOUS
    <3> HIDE DEF T
    <3> QED BY <2>8, <2>9, <3>1, Inductive
  <2>11. flatten[N] \in Seq(S)
    <3>1. N - 1 \in T
      <4> HIDE DEF T
      <4> QED BY <2>1, <2>10
    <3>2. (N - 1) + 1 = N
      BY <1>1
    <3>3. (N - 1) + 1 <= N
      BY <1>1
    <3>4. flatten[(N - 1) + 1] \in Seq(S)
      BY <3>1, <3>3
    <3> QED BY <3>2, <3>4
  <2>12. FlattenSeq(seqs) = flatten[N]
    BY <1>3 DEF FlattenSeq, flatten, N
  <2> QED BY <2>11, <2>12
<1> QED BY <1>2, <1>3

\* What a row is joined to.
Join == [row : Row, ref : Ref]

LEMMA JoinsAreSequence ==
    ASSUME NEW rows \in Seq(Row), NEW joined
    PROVE  Joins(rows, joined) \in Seq(Join)
<1> DEFINE refs(i) ==
             IF joined THEN Kept(Other, {n \in DOMAIN Other : Other[n].id = rows[i][Text]})
             ELSE <<>>
           at(i) == IF refs(i) = <<>> THEN <<[row |-> rows[i], ref |-> NoRef]>>
                    ELSE [n \in DOMAIN refs(i) |-> [row |-> rows[i], ref |-> refs(i)[n]]]
           seqs == [i \in DOMAIN rows |-> at(i)]
<1>1. Len(rows) \in Nat /\ DOMAIN rows = 1 .. Len(rows)
  BY LenProperties
<1>2. ASSUME NEW i \in DOMAIN rows PROVE refs(i) \in Seq(Ref)
  <2> DEFINE I == {n \in DOMAIN Other : Other[n].id = rows[i][Text]}
  <2>1. Other \in Seq(Ref) /\ I \in SUBSET (DOMAIN Other)
    BY SearchAssumption
  <2>2. Kept(Other, I) \in Seq(Ref)
    <3> HIDE DEF I
    <3> QED BY <2>1, KeptElements
  <2> QED BY <2>2, EmptySeq
<1>3. ASSUME NEW i \in DOMAIN rows PROVE at(i) \in Seq(Join)
  <2>1. rows[i] \in Row
    BY <1>1, ElementOfSeq
  <2>2. NoRef \in Ref
    BY DEF NoRef, Ref, Null
  <2> DEFINE r == refs(i)
  <2>3. r \in Seq(Ref)
    BY <1>2
  <2> HIDE DEF r
  <2>4. Len(r) \in Nat /\ DOMAIN r = 1 .. Len(r) /\ \A n \in 1 .. Len(r) : r[n] \in Ref
    BY <2>3, LenProperties, ElementOfSeq
  <2>5. [n \in DOMAIN r |-> [row |-> rows[i], ref |-> r[n]]] \in [1 .. Len(r) -> Join]
    BY <2>1, <2>4 DEF Join
  <2>6. [n \in DOMAIN r |-> [row |-> rows[i], ref |-> r[n]]] \in Seq(Join)
    BY <2>4, <2>5
  <2>7. <<[row |-> rows[i], ref |-> NoRef]>> \in Seq(Join)
    BY <2>1, <2>2 DEF Join
  <2> QED BY <2>6, <2>7 DEF r
<1> HIDE DEF at
<1>4. seqs \in Seq(Seq(Join))
  <2>1. seqs \in [1 .. Len(rows) -> Seq(Join)]
    BY <1>1, <1>3
  <2> QED BY <2>1, <1>1
<1>5. Joins(rows, joined) = FlattenSeq(seqs)
  BY DEF Joins, at
<1> HIDE DEF seqs
<1> QED BY <1>4, <1>5, Flattened

-----------------------------------------------------------------------------
(* The parameters of a search.                                             *)

\* Placeholder i stands for x.
Finds(params, i, x) == i \in 1 .. Len(params) /\ params[i] = x

LEMMA FindsFurther ==
    ASSUME NEW a, NEW b, Len(a) \in Nat, Len(b) \in Nat, Begins(b, a),
           NEW i, NEW x, Finds(a, i, x)
    PROVE  Finds(b, i, x)
BY DEF Begins, Finds

\* A parameter that may be added.
LEMMA MaybeOneMore ==
    ASSUME NEW S, NEW s \in Seq(S), NEW x, NEW given, given => x \in S
    PROVE  LET t == IF given THEN <<x>> ELSE <<>>
           IN  /\ s \o t \in Seq(S) /\ Len(s \o t) \in Nat /\ Len(s) \in Nat
               /\ Begins(s \o t, s)
               /\ given => t # <<>> /\ Finds(s \o t, Len(s) + 1, x)
               /\ ~ given => t = <<>>
<1> DEFINE t == IF given THEN <<x>> ELSE <<>>
<1>1. Len(s) \in Nat
  BY LenProperties
<1>2. CASE given
  <2>1. t = <<x>> /\ t # <<>>
    BY <1>2
  <2>2. /\ s \o <<x>> \in Seq(S) /\ Len(s \o <<x>>) = Len(s) + 1
        /\ (s \o <<x>>)[Len(s) + 1] = x /\ Begins(s \o <<x>>, s)
    BY <1>2, OneMore
  <2>3. Len(s) + 1 \in 1 .. Len(s) + 1 /\ Len(s) + 1 \in Nat
    BY <1>1
  <2> QED BY <1>1, <1>2, <2>1, <2>2, <2>3 DEF Finds
<1>3. CASE ~ given
  <2>1. t = <<>>
    BY <1>3
  <2>2. s \o <<>> = s
    BY ConcatEmptySeq
  <2>3. Begins(s, s)
    BY <1>1 DEF Begins
  <2> QED BY <1>1, <1>3, <2>1, <2>2, <2>3
<1> QED BY <1>2, <1>3

\* The limit a search has.
LimitOf(s) == IF s.limit = Undefined THEN DefaultLimit ELSE s.limit

\* The extra conditions of a statement are those asked for, no more and no less.
ExtrasFound(b, extra) ==
    /\ \A k \in DOMAIN b.extra :
          \E i \in DOMAIN extra : \E m \in DOMAIN extra[i] :
             /\ b.extra[k].column = extra[i][m].column
             /\ Finds(b.params, b.extra[k].index, <<extra[i][m].value>>)
    /\ \A i \in DOMAIN extra : \A m \in DOMAIN extra[i] :
          \E k \in DOMAIN b.extra :
             /\ b.extra[k].column = extra[i][m].column
             /\ Finds(b.params, b.extra[k].index, <<extra[i][m].value>>)

\* Whatever parameters there are, every placeholder of a search finds its own.
LEMMA BuildFinds ==
    ASSUME NEW s \in Option, NEW count
    PROVE  LET b == Build(count, s)
           IN  /\ Len(b.params) \in Nat
               /\ b.joined = s.joined
               /\ b.order = IF count = "only" THEN <<>> ELSE OrderBy(s)
               /\ ExtrasFound(b, s.extra)
               /\ s.fts /\ count # "only" => Finds(b.params, b.text, <<FullText>>)
               /\ ~ (s.fts /\ count # "only") => b.text = 0
               /\ s.joined /\ count # "only" => Finds(b.params, b.as, <<As>>)
               /\ ~ (s.joined /\ count # "only") => b.as = 0
               /\ s.q # Undefined => Finds(b.params, b.query, <<s.q>>)
               /\ s.q = Undefined => b.query = 0
               /\ DOMAIN b.where = DOMAIN s.filters
               /\ \A i \in DOMAIN s.filters : Carries(b.where[i], b.params, s.filters[i])
               /\ s.offset > 0 => Finds(b.params, b.offset, <<s.offset>>)
               /\ ~ (s.offset > 0) => b.offset = 0
               /\ LimitOf(s) > 0 => Finds(b.params, b.limit, <<LimitOf(s)>>)
               /\ ~ (LimitOf(s) > 0) => b.limit = 0
<1> DEFINE S == Seq(Int)
           extra == Template(s.extra)
           text == IF s.fts /\ count # "only" THEN <<<<FullText>>>> ELSE <<>>
           join == IF s.joined /\ count # "only" THEN <<<<As>>>> ELSE <<>>
           p0 == [i \in DOMAIN extra.params |-> <<extra.params[i]>>]
           p1 == p0 \o text
           p2 == p1 \o join
           q == IF s.q # Undefined THEN <<<<s.q>>>> ELSE <<>>
           p3 == p2 \o q
           f == Filters([where |-> <<>>, params |-> p3], s.filters)
           p4 == f.params
           o == IF s.offset > 0 THEN <<<<s.offset>>>> ELSE <<>>
           limit == LimitOf(s)
           l == IF limit > 0 THEN <<<<limit>>>> ELSE <<>>
           p5 == p4 \o o
           p6 == p5 \o l
           b == Build(count, s)
<1>1. /\ b.joined = s.joined /\ b.order = IF count = "only" THEN <<>> ELSE OrderBy(s)
      /\ b.extra = extra.conditions
      /\ b.text = (IF text = <<>> THEN 0 ELSE Len(extra.params) + 1)
      /\ b.as = (IF join = <<>> THEN 0 ELSE Len(p1) + 1)
      /\ b.query = (IF q = <<>> THEN 0 ELSE Len(p2) + 1)
      /\ b.where = f.where
      /\ b.offset = (IF o = <<>> THEN 0 ELSE Len(p4) + 1)
      /\ b.limit = (IF l = <<>> THEN 0 ELSE Len(p5) + 1)
      /\ b.params = p6
  BY DEF Build, LimitOf
<1> HIDE DEF b
<1>2. /\ s.extra \in Seq(Seq(Value)) /\ s.filters \in Seq(Condition)
      /\ s.q \in Nat \cup {Undefined} /\ s.offset \in Nat /\ limit \in Nat
  BY DEF Option, Value, LimitOf, DefaultLimit
<1>3. /\ extra.params \in Seq(Nat)
      /\ \A k \in DOMAIN extra.conditions :
           \E i \in DOMAIN s.extra : \E m \in DOMAIN s.extra[i] :
              Stands(extra.conditions[k], extra.params, s.extra[i][m])
      /\ \A i \in DOMAIN s.extra : \A m \in DOMAIN s.extra[i] :
           \E k \in DOMAIN extra.conditions :
              Stands(extra.conditions[k], extra.params, s.extra[i][m])
  BY <1>2, TemplateStands
<1> HIDE DEF extra
<1>4. p0 \in Seq(S) /\ Len(p0) = Len(extra.params) /\ Len(p0) \in Nat
      /\ \A i \in 1 .. Len(p0) : p0[i] = <<extra.params[i]>>
  <2>1. /\ Len(extra.params) \in Nat /\ DOMAIN extra.params = 1 .. Len(extra.params)
        /\ \A i \in 1 .. Len(extra.params) : extra.params[i] \in Int
    BY <1>3, LenProperties, ElementOfSeq
  <2>2. p0 \in [1 .. Len(extra.params) -> S]
    BY <2>1
  <2>3. p0 \in Seq(S) /\ Len(p0) = Len(extra.params)
    BY <2>1, <2>2
  <2> QED BY <2>1, <2>3
<1>5. /\ p1 \in Seq(S) /\ Len(p1) \in Nat /\ Begins(p1, p0)
      /\ s.fts /\ count # "only" => text # <<>> /\ Finds(p1, Len(p0) + 1, <<FullText>>)
      /\ ~ (s.fts /\ count # "only") => text = <<>>
  <2> DEFINE x == <<FullText>>
             given == s.fts /\ count # "only"
  <2>1. x \in S /\ p0 \in Seq(S)
    BY <1>4 DEF FullText
  <2> HIDE DEF x, S, p0, given
  <2>2. text = IF given THEN <<x>> ELSE <<>>
    BY DEF x, given
  <2> HIDE DEF text
  <2> QED BY <2>1, <2>2, MaybeOneMore DEF x, given
<1>6. /\ p2 \in Seq(S) /\ Len(p2) \in Nat /\ Begins(p2, p1)
      /\ s.joined /\ count # "only" => join # <<>> /\ Finds(p2, Len(p1) + 1, <<As>>)
      /\ ~ (s.joined /\ count # "only") => join = <<>>
  <2> DEFINE x == <<As>>
             given == s.joined /\ count # "only"
  <2>1. x \in S /\ p1 \in Seq(S)
    BY <1>5 DEF As
  <2> HIDE DEF x, S, p1, given
  <2>2. join = IF given THEN <<x>> ELSE <<>>
    BY DEF x, given
  <2> HIDE DEF join
  <2> QED BY <2>1, <2>2, MaybeOneMore DEF x, given
<1>7. /\ p3 \in Seq(S) /\ Len(p3) \in Nat /\ Begins(p3, p2)
      /\ s.q # Undefined => q # <<>> /\ Finds(p3, Len(p2) + 1, <<s.q>>)
      /\ s.q = Undefined => q = <<>>
  <2> DEFINE x == <<s.q>>
             given == s.q # Undefined
  <2>1. (given => x \in S) /\ p2 \in Seq(S)
    BY <1>2, <1>6
  <2> HIDE DEF x, S, p2, given
  <2>2. q = IF given THEN <<x>> ELSE <<>>
    BY DEF x, given
  <2> HIDE DEF q
  <2> QED BY <2>1, <2>2, MaybeOneMore DEF x, given
<1>8. /\ p4 \in Seq(S) /\ Len(p4) \in Nat /\ Begins(p4, p3)
      /\ DOMAIN f.where = DOMAIN s.filters
      /\ \A i \in DOMAIN s.filters : Carries(f.where[i], p4, s.filters[i])
  <2>1. p3 \in Seq(Seq(Int)) /\ s.filters \in Seq(Condition)
    BY <1>2, <1>7
  <2> HIDE DEF p3
  <2>2. /\ p4 \in Seq(S) /\ Begins(p4, p3)
        /\ DOMAIN f.where = DOMAIN s.filters
        /\ \A i \in DOMAIN s.filters : Carries(f.where[i], p4, s.filters[i])
    BY <2>1, FiltersCarry
  <2>3. Len(p4) \in Nat
    <3> HIDE DEF p4
    <3> QED BY <2>2, LenProperties
  <2> QED BY <2>2, <2>3
<1>9. /\ p5 \in Seq(S) /\ Len(p5) \in Nat /\ Begins(p5, p4)
      /\ s.offset > 0 => o # <<>> /\ Finds(p5, Len(p4) + 1, <<s.offset>>)
      /\ ~ (s.offset > 0) => o = <<>>
  <2> DEFINE x == <<s.offset>>
             given == s.offset > 0
  <2>1. x \in S /\ p4 \in Seq(S)
    BY <1>2, <1>8
  <2> HIDE DEF x, S, p4, given
  <2>2. o = IF given THEN <<x>> ELSE <<>>
    BY DEF x, given
  <2> HIDE DEF o
  <2> QED BY <2>1, <2>2, MaybeOneMore DEF x, given
<1>10. /\ p6 \in Seq(S) /\ Len(p6) \in Nat /\ Begins(p6, p5)
       /\ limit > 0 => l # <<>> /\ Finds(p6, Len(p5) + 1, <<limit>>)
       /\ ~ (limit > 0) => l = <<>>
  <2> DEFINE x == <<limit>>
             given == limit > 0
  <2>1. x \in S /\ p5 \in Seq(S)
    BY <1>2, <1>9
  <2> HIDE DEF x, S, p5, given
  <2>2. l = IF given THEN <<x>> ELSE <<>>
    BY DEF x, given
  <2> HIDE DEF l
  <2> QED BY <2>1, <2>2, MaybeOneMore DEF x, given
<1> HIDE DEF p0, p1, p2, p3, p4, p5, p6, f, text, join, q, o, l, limit, S
<1>11. /\ Begins(p6, p4) /\ Begins(p6, p3) /\ Begins(p6, p2)
       /\ Begins(p6, p1) /\ Begins(p6, p0)
  <2>1. Begins(p6, p4)
    BY <1>8, <1>9, <1>10, BeginsFurther
  <2>2. Begins(p6, p3)
    BY <2>1, <1>7, <1>8, <1>10, BeginsFurther
  <2>3. Begins(p6, p2)
    BY <2>2, <1>6, <1>7, <1>10, BeginsFurther
  <2>4. Begins(p6, p1)
    BY <2>3, <1>5, <1>6, <1>10, BeginsFurther
  <2>5. Begins(p6, p0)
    BY <2>4, <1>4, <1>5, <1>10, BeginsFurther
  <2> QED BY <2>1, <2>2, <2>3, <2>4, <2>5
<1>12. ASSUME NEW c, NEW entry, Stands(c, extra.params, entry)
       PROVE  c.column = entry.column /\ Finds(b.params, c.index, <<entry.value>>)
  <2>1. c.column = entry.column /\ Finds(p0, c.index, <<entry.value>>)
    BY <1>4, <1>12 DEF Stands, Finds
  <2> QED BY <2>1, <1>1, <1>4, <1>10, <1>11, FindsFurther
<1>13. /\ \A k \in DOMAIN b.extra :
            \E i \in DOMAIN s.extra : \E m \in DOMAIN s.extra[i] :
               /\ b.extra[k].column = s.extra[i][m].column
               /\ Finds(b.params, b.extra[k].index, <<s.extra[i][m].value>>)
       /\ \A i \in DOMAIN s.extra : \A m \in DOMAIN s.extra[i] :
            \E k \in DOMAIN b.extra :
               /\ b.extra[k].column = s.extra[i][m].column
               /\ Finds(b.params, b.extra[k].index, <<s.extra[i][m].value>>)
  <2>1. ASSUME NEW k \in DOMAIN b.extra
        PROVE  \E i \in DOMAIN s.extra : \E m \in DOMAIN s.extra[i] :
                  /\ b.extra[k].column = s.extra[i][m].column
                  /\ Finds(b.params, b.extra[k].index, <<s.extra[i][m].value>>)
    <3>1. PICK i \in DOMAIN s.extra : \E m \in DOMAIN s.extra[i] :
                  Stands(b.extra[k], extra.params, s.extra[i][m])
      BY <1>1, <1>3
    <3>2. PICK m \in DOMAIN s.extra[i] : Stands(b.extra[k], extra.params, s.extra[i][m])
      BY <3>1
    <3> QED BY <3>2, <1>12
  <2>2. ASSUME NEW i \in DOMAIN s.extra, NEW m \in DOMAIN s.extra[i]
        PROVE  \E k \in DOMAIN b.extra :
                  /\ b.extra[k].column = s.extra[i][m].column
                  /\ Finds(b.params, b.extra[k].index, <<s.extra[i][m].value>>)
    <3>1. PICK k \in DOMAIN b.extra : Stands(b.extra[k], extra.params, s.extra[i][m])
      BY <1>1, <1>3
    <3> QED BY <3>1, <1>12
  <2> QED BY <2>1, <2>2
<1>14. /\ s.fts /\ count # "only" => Finds(b.params, b.text, <<FullText>>)
       /\ ~ (s.fts /\ count # "only") => b.text = 0
  <2>1. ASSUME s.fts /\ count # "only" PROVE Finds(b.params, b.text, <<FullText>>)
    <3>1. b.text = Len(p0) + 1 /\ Finds(p1, Len(p0) + 1, <<FullText>>)
      BY <2>1, <1>1, <1>4, <1>5
    <3> QED BY <3>1, <1>5, <1>1, <1>10, <1>11, FindsFurther
  <2> QED BY <2>1, <1>1, <1>5
<1>15. /\ s.joined /\ count # "only" => Finds(b.params, b.as, <<As>>)
       /\ ~ (s.joined /\ count # "only") => b.as = 0
  <2>1. ASSUME s.joined /\ count # "only" PROVE Finds(b.params, b.as, <<As>>)
    <3>1. b.as = Len(p1) + 1 /\ Finds(p2, Len(p1) + 1, <<As>>)
      BY <2>1, <1>1, <1>6
    <3> QED BY <3>1, <1>6, <1>1, <1>10, <1>11, FindsFurther
  <2> QED BY <2>1, <1>1, <1>6
<1>16. /\ s.q # Undefined => Finds(b.params, b.query, <<s.q>>)
       /\ s.q = Undefined => b.query = 0
  <2>1. ASSUME s.q # Undefined PROVE Finds(b.params, b.query, <<s.q>>)
    <3>1. b.query = Len(p2) + 1 /\ Finds(p3, Len(p2) + 1, <<s.q>>)
      BY <2>1, <1>1, <1>7
    <3> QED BY <3>1, <1>7, <1>1, <1>10, <1>11, FindsFurther
  <2> QED BY <2>1, <1>1, <1>7
<1>17. /\ DOMAIN b.where = DOMAIN s.filters
       /\ \A i \in DOMAIN s.filters : Carries(b.where[i], b.params, s.filters[i])
  <2>1. ASSUME NEW i \in DOMAIN s.filters PROVE Carries(f.where[i], b.params, s.filters[i])
    <3>1. Carries(f.where[i], p4, s.filters[i])
      BY <1>8
    <3> QED BY <3>1, <1>8, <1>1, <1>10, <1>11, CarriesFurther
  <2> QED BY <2>1, <1>1, <1>8
<1>18. /\ s.offset > 0 => Finds(b.params, b.offset, <<s.offset>>)
       /\ ~ (s.offset > 0) => b.offset = 0
  <2>1. ASSUME s.offset > 0 PROVE Finds(b.params, b.offset, <<s.offset>>)
    <3>1. b.offset = Len(p4) + 1 /\ Finds(p5, Len(p4) + 1, <<s.offset>>)
      BY <2>1, <1>1, <1>9
    <3> QED BY <3>1, <1>1, <1>9, <1>10, FindsFurther
  <2> QED BY <2>1, <1>1, <1>9
<1>19. /\ limit > 0 => Finds(b.params, b.limit, <<limit>>)
       /\ ~ (limit > 0) => b.limit = 0
  <2>1. ASSUME limit > 0 PROVE Finds(b.params, b.limit, <<limit>>)
    BY <2>1, <1>1, <1>10
  <2> QED BY <2>1, <1>1, <1>10
<1>20. Len(b.params) \in Nat
  BY <1>1, <1>10
<1> QED
  BY <1>1, <1>13, <1>14, <1>15, <1>16, <1>17, <1>18, <1>19, <1>20 DEF b, limit, ExtrasFound

\* A statement selects what the search wants.
LEMMA SelectedWanted ==
    ASSUME NEW s \in Option, NEW count, NEW j
    PROVE  Selected(j, Build(count, s)) <=> Wants(j, s)
<1> DEFINE b == Build(count, s)
<1>0. /\ ExtrasFound(b, s.extra)
      /\ s.q # Undefined => Finds(b.params, b.query, <<s.q>>)
      /\ s.q = Undefined => b.query = 0
      /\ DOMAIN b.where = DOMAIN s.filters
      /\ \A i \in DOMAIN s.filters : Carries(b.where[i], b.params, s.filters[i])
      /\ Len(b.params) \in Nat
  BY BuildFinds
<1> HIDE DEF b
<1>1. /\ \A k \in DOMAIN b.extra :
            \E i \in DOMAIN s.extra : \E m \in DOMAIN s.extra[i] :
               /\ b.extra[k].column = s.extra[i][m].column
               /\ Finds(b.params, b.extra[k].index, <<s.extra[i][m].value>>)
      /\ \A i \in DOMAIN s.extra : \A m \in DOMAIN s.extra[i] :
            \E k \in DOMAIN b.extra :
               /\ b.extra[k].column = s.extra[i][m].column
               /\ Finds(b.params, b.extra[k].index, <<s.extra[i][m].value>>)
      /\ s.q # Undefined => Finds(b.params, b.query, <<s.q>>)
      /\ s.q = Undefined => b.query = 0
      /\ DOMAIN b.where = DOMAIN s.filters
      /\ \A i \in DOMAIN s.filters : Carries(b.where[i], b.params, s.filters[i])
      /\ Len(b.params) \in Nat
  BY <1>0 DEF ExtrasFound
<1> DEFINE column(c) == IF c.field = 0 THEN Named(j.row, c.name)
                        ELSE Field(Named(j.row, c.name), b.params[c.field][1])
           A1 == \A i \in DOMAIN b.extra :
                    j.row[b.extra[i].column] = b.params[b.extra[i].index][1]
           A2 == b.query # 0 => j.row[Text] = b.params[b.query][1]
           A3 == \A i \in DOMAIN b.where :
                    Compares(column(b.where[i]), b.where[i].op, b.params[b.where[i].index])
           B1 == \A i \in DOMAIN s.extra : \A m \in DOMAIN s.extra[i] :
                    j.row[s.extra[i][m].column] = s.extra[i][m].value
           B2 == s.q # Undefined => j.row[Text] = s.q
           B3(f) == IF f.field = Undefined THEN Compares(Named(j.row, f.name), f.op, f.value)
                    ELSE Compares(Field(Named(j.row, f.name), f.field), f.op,
                                  [n \in DOMAIN f.value |-> Json(f.value[n])])
<1>2. Selected(j, b) <=> A1 /\ A2 /\ A3
  BY DEF Selected
<1>3. Wants(j, s) <=> B1 /\ B2 /\ \A i \in DOMAIN s.filters : B3(s.filters[i])
  BY DEF Wants
<1>4. ASSUME NEW i, NEW x, Finds(b.params, i, <<x>>)
      PROVE  i # 0 /\ b.params[i][1] = x
  BY <1>1, <1>4 DEF Finds
<1>5. A1 <=> B1
  <2>1. ASSUME A1, NEW i \in DOMAIN s.extra, NEW m \in DOMAIN s.extra[i]
        PROVE  j.row[s.extra[i][m].column] = s.extra[i][m].value
    <3>1. PICK k \in DOMAIN b.extra :
             /\ b.extra[k].column = s.extra[i][m].column
             /\ Finds(b.params, b.extra[k].index, <<s.extra[i][m].value>>)
      BY <1>1
    <3> QED BY <2>1, <3>1, <1>4
  <2>2. ASSUME B1, NEW k \in DOMAIN b.extra
        PROVE  j.row[b.extra[k].column] = b.params[b.extra[k].index][1]
    <3>1. PICK i \in DOMAIN s.extra : \E m \in DOMAIN s.extra[i] :
             /\ b.extra[k].column = s.extra[i][m].column
             /\ Finds(b.params, b.extra[k].index, <<s.extra[i][m].value>>)
      BY <1>1
    <3>2. PICK m \in DOMAIN s.extra[i] :
             /\ b.extra[k].column = s.extra[i][m].column
             /\ Finds(b.params, b.extra[k].index, <<s.extra[i][m].value>>)
      BY <3>1
    <3>3. b.params[b.extra[k].index][1] = s.extra[i][m].value
      BY <3>2, <1>4
    <3> QED BY <2>2, <3>2, <3>3
  <2> QED BY <2>1, <2>2
<1>6. A2 <=> B2
  BY <1>1, <1>4
<1>7. ASSUME NEW i \in DOMAIN s.filters
      PROVE  Compares(column(b.where[i]), b.where[i].op, b.params[b.where[i].index])
             <=> B3(s.filters[i])
  <2> DEFINE f == s.filters[i]
             c == b.where[i]
  <2>1. Carries(c, b.params, f)
    BY <1>1
  <2> HIDE DEF f, c
  <2>2. c.name = f.name /\ c.op = f.op /\ b.params[c.index] = Sought(f)
    BY <2>1 DEF Carries
  <2>3. CASE f.field = Undefined
    <3>1. column(c) = Named(j.row, f.name)
      BY <2>1, <2>2, <2>3 DEF Carries
    <3>2. Sought(f) = f.value
      BY <2>3 DEF Sought
    <3>3. Compares(column(c), c.op, b.params[c.index]) <=> B3(f)
      <4> HIDE DEF column
      <4> QED BY <2>2, <2>3, <3>1, <3>2
    <3> QED BY <3>3 DEF f, c
  <2>4. CASE f.field # Undefined
    <3>1. c.field # 0 /\ b.params[c.field][1] = f.field
      <4>1. Finds(b.params, c.field, <<f.field>>)
        BY <2>1, <2>4 DEF Carries, Finds
      <4> QED BY <4>1, <1>4
    <3>2. column(c) = Field(Named(j.row, f.name), f.field)
      BY <2>2, <3>1
    <3>3. Sought(f) = [n \in DOMAIN f.value |-> Json(f.value[n])]
      BY <2>4 DEF Sought
    <3>4. Compares(column(c), c.op, b.params[c.index]) <=> B3(f)
      <4> HIDE DEF column
      <4> QED BY <2>2, <2>4, <3>2, <3>3
    <3> QED BY <3>4 DEF f, c
  <2> QED BY <2>3, <2>4
<1>8. A3 <=> \A i \in DOMAIN s.filters : B3(s.filters[i])
  <2> HIDE DEF column, B3
  <2> QED BY <1>1, <1>7
<1> HIDE DEF A1, A2, A3, B1, B2, B3
<1> QED BY <1>2, <1>3, <1>5, <1>6, <1>8 DEF b

-----------------------------------------------------------------------------
(* The page and its total.                                                *)

LEMMA IsSequence ==
    ASSUME NEW k \in Nat, NEW f, f = [i \in 1 .. k |-> f[i]]
    PROVE  \E S : f \in Seq(S) /\ Len(f) = k
<1> DEFINE S == {f[i] : i \in 1 .. k}
<1>1. f \in [1 .. k -> S]
  OBVIOUS
<1> HIDE DEF S
<1>2. f \in Seq(S) /\ Len(f) = k
  BY <1>1
<1> QED BY <1>2

\* Where a page of n elements ends.
PageEnd(n, offset, limit) == IF limit = 0 \/ offset + limit > n THEN n ELSE offset + limit

LEMMA PageElements ==
    ASSUME NEW S, NEW s \in Seq(S), NEW offset \in Nat, NEW limit \in Nat
    PROVE  LET m == PageEnd(Len(s), offset, limit)
               page == Page(s, offset, limit)
           IN  /\ page = [i \in DOMAIN page |-> page[i]]
               /\ DOMAIN page = 1 .. (m - offset)
               /\ \A i \in 1 .. (m - offset) : page[i] = s[offset + i]
               /\ m \in Nat /\ m <= Len(s)
<1>1. Len(s) \in Nat
  BY LenProperties
<1> DEFINE m == PageEnd(Len(s), offset, limit)
<1>2. m \in Nat /\ m <= Len(s)
  BY <1>1 DEF PageEnd
<1>3. Page(s, offset, limit) = SubSeq(s, offset + 1, m)
  BY DEF Page, PageEnd
<1> HIDE DEF m
<1>4. SubSeq(s, offset + 1, m) = [i \in 1 .. (m - offset) |-> s[offset + i]]
  BY <1>2
<1> DEFINE page == Page(s, offset, limit)
<1>5. page = [i \in 1 .. (m - offset) |-> s[offset + i]]
  BY <1>3, <1>4
<1> HIDE DEF page
<1> QED BY <1>2, <1>5 DEF m, page

LEMMA ArrangedElements ==
    ASSUME NEW k \in Nat, NEW joins, DOMAIN joins = 1 .. k, NEW order
    PROVE  /\ DOMAIN Arranged(joins, order) = 1 .. k
           /\ Len(Arranged(joins, order)) = k
           /\ \E S : Arranged(joins, order) \in Seq(S)
<1> DEFINE a == Arranged(joins, order)
<1>1. DOMAIN a = 1 .. k /\ a = [i \in 1 .. k |-> a[i]]
  BY DEF Arranged
<1> HIDE DEF a
<1> QED BY <1>1, IsSequence DEF a

\* The total is right, and so are the rows unless only the total was asked for.
LEMMA AnswerIsRight ==
    ASSUME NEW s \in Option, NEW count, NEW rows \in Seq(Row)
    PROVE  LET answer == Answer(Build(count, s), rows)
           IN  /\ answer.total = Len(Wanted(s, rows))
               /\ count # "only" => answer.rows = Page(Wanted(s, rows), s.offset, LimitOf(s))
               /\ \E S : Wanted(s, rows) \in Seq(S)
               /\ Len(Wanted(s, rows)) \in Nat
<1> DEFINE b == Build(count, s)
           answer == Answer(b, rows)
           joins == Joins(rows, s.joined)
           I == {n \in DOMAIN joins : Wants(joins[n], s)}
           kept == Kept(joins, I)
           k == Cardinality(I)
           all == Arranged(kept, b.order)
           text == IF s.fts THEN FullText ELSE 0
           as == IF s.joined THEN As ELSE 0
           want == Wanted(s, rows)
<1>1. /\ Len(b.params) \in Nat
      /\ b.joined = s.joined
      /\ b.order = (IF count = "only" THEN <<>> ELSE OrderBy(s))
      /\ s.fts /\ count # "only" => Finds(b.params, b.text, <<FullText>>)
      /\ ~ (s.fts /\ count # "only") => b.text = 0
      /\ s.joined /\ count # "only" => Finds(b.params, b.as, <<As>>)
      /\ ~ (s.joined /\ count # "only") => b.as = 0
      /\ s.offset > 0 => Finds(b.params, b.offset, <<s.offset>>)
      /\ ~ (s.offset > 0) => b.offset = 0
      /\ LimitOf(s) > 0 => Finds(b.params, b.limit, <<LimitOf(s)>>)
      /\ ~ (LimitOf(s) > 0) => b.limit = 0
  BY BuildFinds
<1>2. joins \in Seq(Join)
  BY JoinsAreSequence
<1>3. \A n \in DOMAIN joins : Selected(joins[n], b) <=> Wants(joins[n], s)
  BY SelectedWanted
<1> HIDE DEF b
<1>4. k \in Nat /\ DOMAIN kept = 1 .. k
  <2>1. I \in SUBSET (DOMAIN joins)
    OBVIOUS
  <2> HIDE DEF joins, I
  <2> QED BY <1>2, <2>1, KeptElements
<1>5. \A order : /\ DOMAIN Arranged(kept, order) = 1 .. k
                 /\ Len(Arranged(kept, order)) = k
                 /\ \E S : Arranged(kept, order) \in Seq(S)
  <2> HIDE DEF kept, k
  <2> QED BY <1>4, ArrangedElements
<1> DEFINE param(i) == IF i = 0 THEN 0 ELSE b.params[i][1]
           page == Page(all, param(b.offset), param(b.limit))
<1>6. /\ answer.total = Len(all)
      /\ answer.rows = [i \in DOMAIN page |->
                          Result(page[i], param(b.text), param(b.as))]
  <2>1. Joins(rows, b.joined) = joins
    BY <1>1
  <2>2. {n \in DOMAIN joins : Selected(joins[n], b)} = I
    BY <1>3
  <2> HIDE DEF joins, I, all
  <2>3. Arranged(Kept(joins, {n \in DOMAIN joins : Selected(joins[n], b)}), b.order) = all
    BY <2>2 DEF all
  <2> HIDE DEF b
  <2>4. Answer(b, rows) = [total |-> Len(all),
                           rows |-> [i \in DOMAIN page |->
                                       Result(page[i], param(b.text), param(b.as))]]
    BY <2>1, <2>3 DEF Answer
  <2> HIDE DEF page, param
  <2> QED BY <2>4
<1> HIDE DEF answer
<1>7. want = [i \in DOMAIN Arranged(kept, OrderBy(s)) |->
                Result(Arranged(kept, OrderBy(s))[i], text, as)]
  BY DEF Wanted
<1> HIDE DEF want, joins, I, kept, k
<1>8. want = [i \in 1 .. k |-> Result(Arranged(kept, OrderBy(s))[i], text, as)]
  BY <1>5, <1>7
<1>9. PICK S : want \in Seq(S) /\ Len(want) = k
  <2>1. want = [i \in 1 .. k |-> want[i]]
    BY <1>8
  <2> QED BY <2>1, <1>4, IsSequence
<1>10. answer.total = Len(want)
  BY <1>5, <1>6, <1>9
<1>11. ASSUME count # "only"
       PROVE  answer.rows = Page(want, s.offset, LimitOf(s))
  <2>1. all = Arranged(kept, OrderBy(s))
    BY <1>1, <1>11
  <2> HIDE DEF all
  <2>2. PICK A : all \in Seq(A)
    BY <2>1, <1>5
  <2>3. Len(all) = k /\ DOMAIN all = 1 .. k
    BY <2>1, <1>5
  <2>4. s.offset \in Nat /\ LimitOf(s) \in Nat
    BY DEF Option, LimitOf, DefaultLimit
  <2>5. ASSUME NEW i, NEW x, Finds(b.params, i, <<x>>) PROVE param(i) = x
    BY <2>5, <1>1 DEF Finds
  <2>6. param(b.offset) = s.offset /\ param(b.limit) = LimitOf(s)
    BY <1>1, <2>4, <2>5
  <2>7. param(b.text) = text /\ param(b.as) = as
    BY <1>1, <1>11, <2>5
  <2> DEFINE m == PageEnd(k, s.offset, LimitOf(s)) - s.offset
  <2>8. page = [i \in 1 .. m |-> all[s.offset + i]]
    <3> DEFINE off == s.offset
               lim == LimitOf(s)
    <3>1. all \in Seq(A) /\ off \in Nat /\ lim \in Nat
      BY <2>2, <2>4
    <3>2. page = Page(all, off, lim)
      BY <2>6
    <3> HIDE DEF off, lim, page
    <3> DEFINE p == Page(all, off, lim)
    <3>3. /\ p = [i \in DOMAIN p |-> p[i]]
          /\ DOMAIN p = 1 .. (PageEnd(Len(all), off, lim) - off)
          /\ \A i \in 1 .. (PageEnd(Len(all), off, lim) - off) : p[i] = all[off + i]
      BY <3>1, PageElements
    <3> HIDE DEF p
    <3>4. p = [i \in 1 .. (PageEnd(k, off, lim) - off) |-> all[off + i]]
      BY <2>3, <3>3
    <3> QED BY <3>2, <3>4 DEF off, lim, p
  <2>9. Page(want, s.offset, LimitOf(s)) = [i \in 1 .. m |-> want[s.offset + i]]
    <3> DEFINE off == s.offset
               lim == LimitOf(s)
    <3>1. want \in Seq(S) /\ off \in Nat /\ lim \in Nat
      BY <1>9, <2>4
    <3> HIDE DEF off, lim
    <3> DEFINE p == Page(want, off, lim)
    <3>2. /\ p = [i \in DOMAIN p |-> p[i]]
          /\ DOMAIN p = 1 .. (PageEnd(Len(want), off, lim) - off)
          /\ \A i \in 1 .. (PageEnd(Len(want), off, lim) - off) : p[i] = want[off + i]
      BY <3>1, PageElements
    <3> HIDE DEF p
    <3>3. p = [i \in 1 .. (PageEnd(k, off, lim) - off) |-> want[off + i]]
      BY <1>9, <3>2
    <3> QED BY <3>3 DEF off, lim, p
  <2>10. PageEnd(k, s.offset, LimitOf(s)) \in Nat /\ PageEnd(k, s.offset, LimitOf(s)) <= k
    BY <1>9, <2>4, PageElements
  <2>11. ASSUME NEW i \in 1 .. m PROVE s.offset + i \in 1 .. k
    BY <2>4, <2>10, <1>4
  <2> HIDE DEF m, param, page
  <2>12. ASSUME NEW i \in 1 .. m
         PROVE  want[s.offset + i] = Result(page[i], text, as)
    BY <2>1, <2>8, <2>11, <1>8
  <2>13. answer.rows = [i \in 1 .. m |-> Result(page[i], text, as)]
    BY <1>6, <2>7, <2>8
  <2> QED BY <2>9, <2>12, <2>13
<1> QED BY <1>4, <1>9, <1>10, <1>11 DEF answer, want, b

-----------------------------------------------------------------------------
(* Every answer is of one moment.                                          *)

\* A search that counts asked for a page beyond the first.
Pending == \/ search = Nothing
           \/ search.phase = "counting" /\ search.asked \in Searches /\ search.asked.offset > 0
           \/ search.phase = "answered"

\* Neither the page nor the limit changes what is wanted.
LEMMA WantedAnyPage ==
    ASSUME NEW s, NEW t, NEW rows,
           t.extra = s.extra, t.q = s.q, t.filters = s.filters, t.joined = s.joined,
           t.fts = s.fts, t.sort = s.sort, t.desc = s.desc
    PROVE  Wanted(t, rows) = Wanted(s, rows)
<1>3. \A j : Wants(j, t) <=> Wants(j, s)
  BY DEF Wants
<1>4. OrderBy(t) = OrderBy(s)
  BY DEF OrderBy
<1> QED BY <1>3, <1>4 DEF Wanted

LEMMA FirstPageEmpty ==
    ASSUME NEW S, NEW all \in Seq(S), NEW limit \in Nat, Page(all, 0, limit) = <<>>
    PROVE  all = <<>>
<1> DEFINE m == PageEnd(Len(all), 0, limit)
           page == Page(all, 0, limit)
<1>1. Len(all) \in Nat
  BY LenProperties
<1>2. DOMAIN page = 1 .. (m - 0) /\ m \in Nat
  BY PageElements
<1>3. m = 0
  <2> HIDE DEF m
  <2>1. DOMAIN page = {}
    OBVIOUS
  <2> SUFFICES ASSUME m # 0 PROVE FALSE
    OBVIOUS
  <2>2. 1 \in 1 .. (m - 0)
    BY <1>2
  <2> QED BY <2>1, <2>2, <1>2
<1>4. Len(all) = 0
  BY <1>1, <1>3 DEF PageEnd
<1> QED BY <1>4, EmptySeq

LEMMA FirstIsRight ==
    ASSUME NEW s \in Option, table \in Seq(Row)
    PROVE  First(s) = Page(Wanted(s, table), 0, 1)
<1> DEFINE t == [s EXCEPT !.offset = 0, !.limit = 1]
<1>1. t \in Option /\ t.offset = 0 /\ t.limit = 1 /\ Wanted(t, table) = Wanted(s, table)
  <2>1. t \in Option /\ t.offset = 0 /\ t.limit = 1
    BY DEF Option
  <2>2. /\ t.extra = s.extra /\ t.q = s.q /\ t.filters = s.filters /\ t.joined = s.joined
        /\ t.fts = s.fts /\ t.sort = s.sort /\ t.desc = s.desc
    BY DEF Option
  <2> HIDE DEF t
  <2> QED BY <2>1, <2>2, WantedAnyPage
<1>2. LimitOf(t) = 1
  BY <1>1 DEF LimitOf, Undefined
<1>3. First(s) = Answer(Build("no", t), table).rows
  BY DEF First
<1> HIDE DEF t
<1>4. Answer(Build("no", t), table).rows = Page(Wanted(t, table), t.offset, LimitOf(t))
  BY <1>1, AnswerIsRight
<1> QED BY <1>1, <1>2, <1>3, <1>4

LEMMA AskIsRight ==
    ASSUME NEW s \in Searches, Ask(s), table \in Seq(Row)
    PROVE  (Pending /\ RightAnswer)'
<1> DEFINE page == PageOf(s)
           all == Wanted(s, table)
<1>1. s \in Option
  BY SearchAssumption
<1>2. s.offset \in Nat /\ LimitOf(s) \in Nat
  BY <1>1 DEF Option, LimitOf, DefaultLimit
<1>3. /\ page.total = Len(all) /\ page.rows = Page(all, s.offset, LimitOf(s))
      /\ \E S : all \in Seq(S)
  BY <1>1, AnswerIsRight DEF PageOf
<1>4. search' = IF page.rows # <<>> \/ s.offset = 0
                THEN Answered(s, table, IF page.rows = <<>> THEN 0 ELSE page.total,
                              page.rows)
                ELSE [phase |-> "counting", asked |-> s, seen |-> table]
  BY DEF Ask
<1> HIDE DEF page, all
<1>5. CASE page.rows # <<>>
  <2>1. search' = [phase |-> "answered", asked |-> s, seen |-> table,
                   total |-> Len(all), rows |-> page.rows]
    BY <1>3, <1>4, <1>5 DEF Answered
  <2> QED BY <2>1, <1>3, <1>5 DEF Pending, RightAnswer, LimitOf, all
<1>6. CASE page.rows = <<>> /\ s.offset = 0
  <2>1. search' = [phase |-> "answered", asked |-> s, seen |-> table,
                   total |-> 0, rows |-> <<>>]
    BY <1>4, <1>6 DEF Answered
  <2>2. all = <<>>
    BY <1>2, <1>3, <1>6, FirstPageEmpty
  <2>3. Len(all) = 0
    BY <2>2
  <2> QED BY <2>1, <2>2, <2>3 DEF Pending, RightAnswer, all
<1>7. CASE page.rows = <<>> /\ s.offset # 0
  <2>1. search' = [phase |-> "counting", asked |-> s, seen |-> table]
    BY <1>4, <1>7
  <2> QED BY <2>1, <1>2, <1>7 DEF Pending, RightAnswer
<1> QED BY <1>5, <1>6, <1>7

LEMMA CountIsRight ==
    ASSUME Pending, Count, table \in Seq(Row)
    PROVE  (Pending /\ RightAnswer)'
<1> DEFINE s == search.asked
           t == [s EXCEPT !.offset = 0, !.limit = Undefined]
<1>1. s \in Searches /\ s.offset > 0
  BY DEF Pending, Count, Nothing
<1>2. s \in Option
  BY <1>1, SearchAssumption
<1>3. t \in Option /\ Wanted(t, table) = Wanted(s, table)
  <2> HIDE DEF s
  <2>1. t \in Option
    BY <1>2 DEF Option
  <2>2. /\ t.extra = s.extra /\ t.q = s.q /\ t.filters = s.filters /\ t.joined = s.joined
        /\ t.fts = s.fts /\ t.sort = s.sort /\ t.desc = s.desc
    BY <1>2 DEF Option
  <2> HIDE DEF t
  <2> QED BY <2>1, <2>2, WantedAnyPage
<1>4. search' = Answered(s, table, Answer(Build("only", t), table).total, <<>>)
  BY DEF Count
<1> HIDE DEF s, t
<1>5. Answer(Build("only", t), table).total = Len(Wanted(s, table))
  BY <1>3, AnswerIsRight
<1>6. search' = [phase |-> "answered", asked |-> s, seen |-> table,
                 total |-> Len(Wanted(s, table)), rows |-> <<>>]
  BY <1>4, <1>5 DEF Answered
<1> QED BY <1>1, <1>6 DEF Pending, RightAnswer

\* Whatever the table, the options and the calls others make between the two
\* queries of a search, its answer is right about one moment.
THEOREM AnswersOfOneMoment == SearchSpec => []PageOfOneMoment
<1>1. SearchInit => Pending /\ RightAnswer
  BY DEF SearchInit, Pending, RightAnswer, Nothing
<1>2. TableOK(table) /\ Pending /\ RightAnswer /\ [SearchNext]_<<table, search>>
      => (Pending /\ RightAnswer)'
  <2> SUFFICES ASSUME TableOK(table), Pending, RightAnswer, [SearchNext]_<<table, search>>
               PROVE  (Pending /\ RightAnswer)'
    OBVIOUS
  <2>1. table \in Seq(Row)
    BY DEF TableOK
  <2>2. CASE UNCHANGED search
    BY <2>2 DEF Pending, RightAnswer
  <2>3. ASSUME NEW s \in Searches, Ask(s) PROVE (Pending /\ RightAnswer)'
    BY <2>1, <2>3, AskIsRight
  <2>4. CASE Count
    BY <2>1, <2>4, CountIsRight
  <2>5. CASE Taken
    BY <2>5 DEF Taken, Pending, RightAnswer, Nothing
  <2>6. ASSUME NEW call \in Call, Write(call) PROVE (Pending /\ RightAnswer)'
    BY <2>6, <2>2 DEF Write
  <2> QED BY <2>2, <2>3, <2>4, <2>5, <2>6 DEF SearchNext
<1>3. TableOK(table) /\ Pending /\ RightAnswer => PageOfOneMoment
  <2> SUFFICES ASSUME TableOK(table), RightAnswer, search = Nothing, NEW s \in Searches
               PROVE  First(s) = Page(Wanted(s, table), 0, 1)
    BY DEF PageOfOneMoment, RightFirst
  <2> QED BY SearchAssumption, FirstIsRight DEF TableOK
<1> QED BY <1>1, <1>2, <1>3, KeysUnique, PTL DEF SearchSpec
=============================================================================
