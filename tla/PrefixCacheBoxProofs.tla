------------------------ MODULE PrefixCacheBoxProofs ------------------------
(***************************************************************************)
(* Proofs about PrefixCacheBox, for every set of prompts, every grid and   *)
(* every budget: the invariants that the run `cache` checks hold in every  *)
(* reachable state.                                                        *)
(***************************************************************************)
EXTENDS PrefixCacheBoxInv, SequenceTheorems, FiniteSetTheorems, WellFoundedInduction, TLAPS

-----------------------------------------------------------------------------
(* Sequences, sets of sequences, and the operators of the model on them.   *)

(* Induction over the natural numbers, as a fact about a set.              *)
LEMMA SetInduction ==
  ASSUME NEW T, 0 \in T, \A n \in Nat : n \in T => n + 1 \in T
  PROVE  \A n \in Nat : n \in T
<1> SUFFICES ASSUME NEW n0 \in Nat, n0 \notin T PROVE FALSE
  OBVIOUS
<1> DEFINE U == {n \in Nat : n \notin T}
<1>1. \E m \in U : \A n \in U : <<n, m>> \notin OpToRel(<, Nat)
  BY WFMin, NatLessThanWellFounded, Zenon
<1>2. \E m \in U : \A n \in U : ~(n < m)
  BY <1>1, Zenon DEF OpToRel
<1>3. PICK m \in U : \A n \in U : ~(n < m)
  BY <1>2
<1>4. m \in Nat /\ m \notin T
  BY <1>3
<1>5. m # 0
  BY <1>4
<1>6. m - 1 \in Nat /\ m - 1 < m /\ m - 1 + 1 = m
  BY <1>4, <1>5
<1>7. m - 1 \in T
  BY <1>3, <1>6
<1> QED BY <1>4, <1>6, <1>7

LEMMA AsSet ==
  ASSUME NEW T, NEW s \in Seq(T)
  PROVE  /\ Len(s) \in Nat /\ DOMAIN s = 1..Len(s) /\ \A i \in 1..Len(s) : s[i] \in T
         /\ ToSet(s) = {s[i] : i \in 1..Len(s)} /\ ToSet(s) \subseteq T
         /\ s = <<>> <=> Len(s) = 0
         /\ s = <<>> <=> ToSet(s) = {}
<1>1. Len(s) \in Nat /\ DOMAIN s = 1..Len(s) /\ \A i \in 1..Len(s) : s[i] \in T
  BY LenProperties, ElementOfSeq
<1>2. ToSet(s) = {s[i] : i \in 1..Len(s)}
  BY <1>1 DEF ToSet
<1>3. s = <<>> <=> Len(s) = 0
  BY EmptySeq
<1>4. Len(s) # 0 => 1 \in 1..Len(s)
  BY <1>1
<1>5. Len(s) = 0 => ToSet(s) = {}
  BY <1>2
<1> QED BY <1>1, <1>2, <1>3, <1>4, <1>5

LEMMA AppendSet ==
  ASSUME NEW T, NEW s \in Seq(T), NEW x \in T
  PROVE  /\ Append(s, x) \in Seq(T) /\ ToSet(Append(s, x)) = ToSet(s) \cup {x}
         /\ Len(Append(s, x)) = Len(s) + 1
         /\ Distinct(s) /\ x \notin ToSet(s) => Distinct(Append(s, x))
<1>1. PICK t : t = Append(s, x)
  OBVIOUS
<1>2. /\ t \in Seq(T) /\ Len(t) = Len(s) + 1 /\ t[Len(s) + 1] = x
      /\ \A i \in 1..Len(s) : t[i] = s[i]
  BY <1>1, AppendProperties
<1>3. /\ Len(s) \in Nat /\ ToSet(s) = {s[i] : i \in 1..Len(s)} /\ ToSet(t) = {t[i] : i \in 1..Len(t)}
  BY <1>2, AsSet
<1>4. \A i \in 1..Len(t) : i \in 1..Len(s) \/ i = Len(s) + 1
  BY <1>2, <1>3
<1>5. 1..Len(s) \subseteq 1..Len(t) /\ Len(s) + 1 \in 1..Len(t)
  BY <1>2, <1>3
<1>6. ToSet(t) = ToSet(s) \cup {x}
  <2>1. ASSUME NEW y \in ToSet(t) PROVE y \in ToSet(s) \cup {x}
    BY <1>2, <1>3, <1>4
  <2>2. ASSUME NEW y \in ToSet(s) \cup {x} PROVE y \in ToSet(t)
    BY <1>2, <1>3, <1>5
  <2> QED BY <2>1, <2>2
<1>7. Distinct(s) /\ x \notin ToSet(s) => Distinct(t)
  <2> SUFFICES ASSUME Distinct(s), x \notin ToSet(s), NEW i \in 1..Len(t), NEW j \in 1..Len(t), t[i] = t[j]
               PROVE  i = j
    BY DEF Distinct
  <2>1. CASE i \in 1..Len(s) /\ j \in 1..Len(s)
    BY <1>2, <2>1 DEF Distinct
  <2>2. CASE i \in 1..Len(s) /\ j = Len(s) + 1
    BY <1>2, <1>3, <2>2
  <2>3. CASE i = Len(s) + 1 /\ j \in 1..Len(s)
    BY <1>2, <1>3, <2>3
  <2> QED BY <1>4, <2>1, <2>2, <2>3
<1> QED BY <1>1, <1>2, <1>6, <1>7

LEMMA ConcatSet ==
  ASSUME NEW T, NEW s \in Seq(T), NEW t \in Seq(T)
  PROVE  /\ s \o t \in Seq(T) /\ ToSet(s \o t) = ToSet(s) \cup ToSet(t)
         /\ Len(s \o t) = Len(s) + Len(t)
         /\ Distinct(s) /\ Distinct(t) /\ ToSet(s) \cap ToSet(t) = {} => Distinct(s \o t)
<1>1. PICK c : c = s \o t
  OBVIOUS
<1>2. PICK a \in Nat : a = Len(s)
  BY LenProperties
<1>3. PICK b \in Nat : b = Len(t)
  BY LenProperties
<1>4. /\ c \in Seq(T) /\ Len(c) = a + b
      /\ \A i \in 1..(a + b) : c[i] = IF i <= a THEN s[i] ELSE t[i - a]
  BY <1>1, <1>2, <1>3, ConcatProperties
<1>5. /\ ToSet(s) = {s[i] : i \in 1..a} /\ ToSet(t) = {t[i] : i \in 1..b}
      /\ ToSet(c) = {c[i] : i \in 1..(a + b)}
  BY <1>2, <1>3, <1>4, AsSet
<1>6. /\ \A i \in 1..a : i \in 1..(a + b) /\ c[i] = s[i]
      /\ \A i \in 1..b : a + i \in 1..(a + b) /\ c[a + i] = t[i]
      /\ \A i \in 1..(a + b) : (i \in 1..a /\ c[i] = s[i]) \/ (i - a \in 1..b /\ i > a /\ c[i] = t[i - a])
  <2>1. \A i \in 1..b : a + i \in 1..(a + b) /\ ~(a + i <= a) /\ a + i - a = i
    OBVIOUS
  <2>2. \A i \in 1..(a + b) : i \in 1..a \/ (i - a \in 1..b /\ i > a)
    OBVIOUS
  <2> QED BY <1>4, <2>1, <2>2
<1>7. ToSet(c) = ToSet(s) \cup ToSet(t)
  <2>1. ASSUME NEW y \in ToSet(c) PROVE y \in ToSet(s) \cup ToSet(t)
    BY <1>5, <1>6
  <2>2. ASSUME NEW y \in ToSet(s) \cup ToSet(t) PROVE y \in ToSet(c)
    BY <1>5, <1>6
  <2> QED BY <2>1, <2>2
<1>8. Distinct(s) /\ Distinct(t) /\ ToSet(s) \cap ToSet(t) = {} => Distinct(c)
  <2> SUFFICES ASSUME Distinct(s), Distinct(t), ToSet(s) \cap ToSet(t) = {},
                      NEW i \in 1..(a + b), NEW j \in 1..(a + b), c[i] = c[j]
               PROVE  i = j
    BY <1>4 DEF Distinct
  <2>1. CASE i \in 1..a /\ j \in 1..a
    BY <1>2, <1>6, <2>1 DEF Distinct
  <2>2. CASE i > a /\ i - a \in 1..b /\ c[i] = t[i - a] /\ j > a /\ j - a \in 1..b /\ c[j] = t[j - a]
    <3>1. i - a = j - a
      BY <1>3, <2>2 DEF Distinct
    <3> QED BY <3>1
  <2>3. CASE i \in 1..a /\ j - a \in 1..b /\ c[j] = t[j - a]
    BY <1>5, <1>6, <2>3
  <2>4. CASE j \in 1..a /\ i - a \in 1..b /\ c[i] = t[i - a]
    BY <1>5, <1>6, <2>4
  <2> QED BY <1>6, <2>1, <2>2, <2>3, <2>4
<1> QED BY <1>1, <1>2, <1>3, <1>4, <1>7, <1>8

LEMMA TailSet ==
  ASSUME NEW T, NEW s \in Seq(T), s # <<>>
  PROVE  /\ Tail(s) \in Seq(T) /\ s[1] \in T /\ ToSet(s) = ToSet(Tail(s)) \cup {s[1]}
         /\ Len(Tail(s)) = Len(s) - 1
         /\ Distinct(s) => Distinct(Tail(s)) /\ s[1] \notin ToSet(Tail(s))
<1>1. PICK t : t = Tail(s)
  OBVIOUS
<1>2. PICK a \in Nat \ {0} : a = Len(s)
  BY AsSet
<1>3. /\ t \in Seq(T) /\ Len(t) = a - 1 /\ \A i \in 1..(a - 1) : t[i] = s[i + 1]
  BY <1>1, <1>2, HeadTailProperties
<1>4. /\ \A i \in 1..a : s[i] \in T
      /\ ToSet(s) = {s[i] : i \in 1..a} /\ ToSet(t) = {t[i] : i \in 1..(a - 1)}
  BY <1>2, <1>3, AsSet
<1>5. /\ \A i \in 1..(a - 1) : i + 1 \in 1..a /\ i + 1 # 1
      /\ \A i \in 1..a : i = 1 \/ (i - 1 \in 1..(a - 1) /\ i - 1 + 1 = i)
      /\ 1 \in 1..a
  OBVIOUS
<1>6. ToSet(s) = ToSet(t) \cup {s[1]}
  <2>1. ASSUME NEW y \in ToSet(s) PROVE y \in ToSet(t) \cup {s[1]}
    <3>1. PICK i \in 1..a : y = s[i]
      BY <1>4
    <3>2. CASE i = 1
      BY <3>1, <3>2
    <3>3. CASE i # 1
      <4>1. PICK j \in 1..(a - 1) : j + 1 = i
        BY <1>5, <3>3
      <4>2. t[j] = y
        BY <1>3, <3>1, <4>1
      <4> QED BY <1>4, <4>2
    <3> QED BY <3>2, <3>3
  <2>2. ASSUME NEW y \in ToSet(t) \cup {s[1]} PROVE y \in ToSet(s)
    BY <1>3, <1>4, <1>5
  <2> QED BY <2>1, <2>2
<1>7. Distinct(s) => Distinct(t) /\ s[1] \notin ToSet(t)
  <2> SUFFICES ASSUME Distinct(s) PROVE Distinct(t) /\ s[1] \notin ToSet(t)
    OBVIOUS
  <2>1. \A i, j \in 1..a : s[i] = s[j] => i = j
    BY <1>2 DEF Distinct
  <2>2. s[1] \notin ToSet(t)
    BY <1>3, <1>4, <1>5, <2>1
  <2>3. ASSUME NEW i \in 1..(a - 1), NEW j \in 1..(a - 1), t[i] = t[j] PROVE i = j
    <3>1. i + 1 = j + 1
      BY <1>3, <1>5, <2>1, <2>3
    <3> QED BY <3>1
  <2>4. Len(t) = a - 1
    BY <1>3
  <2>5. Distinct(t)
    BY <2>3, <2>4 DEF Distinct
  <2> QED BY <2>2, <2>5
<1> QED BY <1>1, <1>2, <1>3, <1>4, <1>5, <1>6, <1>7

LEMMA SeqOfSet ==
  ASSUME NEW S, IsFiniteSet(S)
  PROVE  /\ SetToSeq(S) \in Seq(S) /\ Len(SetToSeq(S)) = Cardinality(S)
         /\ ToSet(SetToSeq(S)) = S /\ Distinct(SetToSeq(S))
<1>1. PICK n \in Nat : n = Cardinality(S)
  BY FS_CardinalityType
<1>2. \E f \in [1..n -> S] : IsInjective(f)
  BY <1>1, FS_CardinalityType DEF ExistsBijection, Bijection, Injection
<1>3. PICK t : t = SetToSeq(S)
  OBVIOUS
<1>4. t \in [1..n -> S] /\ IsInjective(t)
  BY <1>1, <1>2, <1>3 DEF SetToSeq
<1>5. t \in Seq(S) /\ Len(t) = n
  BY <1>4
<1>6. Distinct(t)
  BY <1>4, <1>5 DEF Distinct, IsInjective
<1>7. IsFiniteSet(1..n) /\ Cardinality(1..n) = n
  BY FS_Interval
<1>8. t \in Injection(1..n, S)
  BY <1>4 DEF Injection
<1>9. t \in Surjection(1..n, S)
  BY <1>1, <1>7, <1>8, FS_Injection
<1>10. ToSet(t) = S
  <2>1. ToSet(t) = {t[i] : i \in 1..n}
    BY <1>5, AsSet
  <2> QED BY <1>4, <1>9, <2>1 DEF Surjection
<1> QED BY <1>1, <1>3, <1>5, <1>6, <1>10

LEMMA FunctionIsSeq ==
  ASSUME NEW T, NEW n \in Nat, NEW f \in [1..n -> T]
  PROVE  f \in Seq(T) /\ Len(f) = n
OBVIOUS

(* The smallest of some numbers.                                           *)
LEMMA MinIn ==
  ASSUME NEW S \in SUBSET Nat, S # {}
  PROVE  Min(S) \in S /\ \A x \in S : Min(S) <= x
<1>1. \E m \in S : \A n \in S : <<n, m>> \notin OpToRel(<, Nat)
  BY WFMin, NatLessThanWellFounded, Zenon
<1>2. \E m \in S : \A n \in S : ~(n < m)
  BY <1>1, Zenon DEF OpToRel
<1>3. \E m \in S : \A n \in S : m <= n
  BY <1>2
<1> QED BY <1>3 DEF Min

(* The i-th of some numbers.                                               *)
LEMMA NthIn ==
  ASSUME NEW N \in Nat, NEW S \in SUBSET (1..N), NEW i \in 1..Cardinality(S)
  PROVE  Nth(S, i) \in S /\ Cardinality({y \in S : y <= Nth(S, i)}) = i
<1> DEFINE Has(n) == \A U \in SUBSET (1..n) : IsFiniteSet(U) /\
                       \A k \in 1..Cardinality(U) : \E x \in U : Cardinality({y \in U : y <= x}) = k
           T == {n \in Nat : Has(n)}
<1>1. 0 \in T
  <2>1. 1..0 = {}
    OBVIOUS
  <2>2. IsFiniteSet({}) /\ Cardinality({}) = 0
    BY FS_EmptySet
  <2>3. Has(0)
    BY <2>1, <2>2
  <2> QED BY <2>3
<1>2. ASSUME NEW n \in Nat, n \in T PROVE n + 1 \in T
  <2> SUFFICES ASSUME NEW U \in SUBSET (1..(n + 1)), NEW k \in 1..Cardinality(U)
               PROVE  IsFiniteSet(U) /\ \E x \in U : Cardinality({y \in U : y <= x}) = k
    <3>1. \A U \in SUBSET (1..(n + 1)) : IsFiniteSet(U)
      <4>1. IsFiniteSet(1..(n + 1))
        BY FS_Interval
      <4> QED BY <4>1, FS_Subset
    <3> QED BY <3>1
  <2>1. Has(n)
    BY <1>2
  <2>2. IsFiniteSet(U)
    <3>1. IsFiniteSet(1..(n + 1))
      BY FS_Interval
    <3> QED BY <3>1, FS_Subset
  <2>3. CASE n + 1 \notin U
    <3>1. U \in SUBSET (1..n)
      BY <2>3
    <3> QED BY <2>1, <2>2, <3>1
  <2>4. CASE n + 1 \in U
    <3>1. PICK V : V = U \ {n + 1}
      OBVIOUS
    <3>2. V \in SUBSET (1..n) /\ U = V \cup {n + 1} /\ n + 1 \notin V
      BY <2>4, <3>1
    <3>3. IsFiniteSet(V) /\ Cardinality(U) = Cardinality(V) + 1 /\ Cardinality(V) \in Nat
      <4>1. IsFiniteSet(V) /\ Cardinality(V) \in Nat
        BY <2>2, <3>1, FS_RemoveElement, FS_CardinalityType
      <4>2. Cardinality(V \cup {n + 1}) = Cardinality(V) + 1
        BY <3>2, <4>1, FS_AddElement
      <4> QED BY <3>2, <4>1, <4>2
    <3>4. CASE k \in 1..Cardinality(V)
      <4>1. PICK x \in V : Cardinality({y \in V : y <= x}) = k
        BY <2>1, <3>2, <3>4
      <4>2. {y \in U : y <= x} = {y \in V : y <= x}
        BY <3>2, <4>1
      <4> QED BY <2>2, <3>2, <4>1, <4>2
    <3>5. CASE k = Cardinality(U)
      <4>1. \A y \in U : y <= n + 1
        OBVIOUS
      <4>2. {y \in U : y <= n + 1} = U
        BY <4>1
      <4> QED BY <2>2, <2>4, <3>5, <4>2
    <3> QED BY <3>3, <3>4, <3>5
  <2> QED BY <2>3, <2>4
<1> HIDE DEF T
<1>3. \A n \in Nat : n \in T
  BY <1>1, <1>2, SetInduction
<1>4. Has(N)
  BY <1>3 DEF T
<1>5. \E x \in S : Cardinality({y \in S : y <= x}) = i
  BY <1>4
<1> QED BY <1>5 DEF Nth

LEMMA FlatExists ==
  ASSUME NEW ss
  PROVE  \A m \in Nat : \E f : Flat(ss, f, m)
<1> DEFINE T == {m \in Nat : \E f : Flat(ss, f, m)}
<1>1. 0 \in T
  <2>1. PICK f : f = [i \in 1..0 |-> <<>>]
    OBVIOUS
  <2>2. f = [i \in 1..0 |-> IF i = 1 THEN ss[i] ELSE f[i - 1] \o ss[i]]
    BY <2>1
  <2> QED BY <2>2 DEF Flat
<1>2. ASSUME NEW m \in Nat, m \in T PROVE m + 1 \in T
  <2>1. PICK f : Flat(ss, f, m)
    BY <1>2
  <2>2. PICK g : g = [i \in 1..(m + 1) |-> IF i <= m THEN f[i] ELSE IF i = 1 THEN ss[i] ELSE f[m] \o ss[i]]
    OBVIOUS
  <2>3. \A i \in 1..m : f[i] = IF i = 1 THEN ss[i] ELSE f[i - 1] \o ss[i]
    BY <2>1 DEF Flat
  <2>4. ASSUME NEW i \in 1..(m + 1)
        PROVE  g[i] = IF i = 1 THEN ss[i] ELSE g[i - 1] \o ss[i]
    <3>1. CASE i \in 1..m
      <4>1. i # 1 => i - 1 \in 1..(m + 1) /\ i - 1 <= m
        BY <3>1
      <4>2. i # 1 => g[i - 1] = f[i - 1]
        BY <2>2, <4>1
      <4>3. g[i] = f[i]
        BY <2>2, <3>1
      <4> QED BY <2>3, <3>1, <4>2, <4>3
    <3>2. CASE i = m + 1
      <4>1. g[i] = IF i = 1 THEN ss[i] ELSE f[m] \o ss[i]
        BY <2>2, <3>2
      <4>2. i # 1 => m \in 1..(m + 1) /\ i - 1 = m
        BY <3>2
      <4>3. i # 1 => g[i - 1] = f[m]
        BY <2>2, <4>2
      <4> QED BY <4>1, <4>3
    <3> QED BY <3>1, <3>2
  <2>5. g = [i \in 1..(m + 1) |-> g[i]]
    BY <2>2
  <2>6. g = [i \in 1..(m + 1) |-> IF i = 1 THEN ss[i] ELSE g[i - 1] \o ss[i]]
    BY <2>4, <2>5
  <2>7. Flat(ss, g, m + 1)
    BY <2>6 DEF Flat
  <2> QED BY <2>7
<1> HIDE DEF T
<1>3. \A m \in Nat : m \in T
  BY <1>1, <1>2, SetInduction
<1> QED BY <1>3 DEF T

LEMMA FlatSet ==
  ASSUME NEW T, NEW ss \in Seq(Seq(T))
  PROVE  /\ FlattenSeq(ss) \in Seq(T)
         /\ ToSet(FlattenSeq(ss)) = UNION {ToSet(ss[i]) : i \in 1..Len(ss)}
         /\ (\A i \in 1..Len(ss) : Distinct(ss[i])) /\ Disjoint(ss) => Distinct(FlattenSeq(ss))
<1>1. PICK a \in Nat : a = Len(ss)
  BY LenProperties
<1>2. \A i \in 1..a : ss[i] \in Seq(T)
  BY <1>1, ElementOfSeq
<1>3. CASE a = 0
  <2>1. ss = <<>> /\ FlattenSeq(ss) = <<>>
    BY <1>1, <1>3, EmptySeq DEF FlattenSeq
  <2>2. <<>> \in Seq(T) /\ ToSet(<<>>) = {} /\ Len(<<>>) = 0
    BY DEF ToSet
  <2>3. Distinct(<<>>)
    BY <2>2 DEF Distinct
  <2>4. UNION {ToSet(ss[i]) : i \in 1..Len(ss)} = {}
    BY <1>1, <1>3
  <2> QED BY <2>1, <2>2, <2>3, <2>4
<1>4. CASE a # 0
  <2> DEFINE F(f) == f = [i \in 1..Len(ss) |-> IF i = 1 THEN ss[i] ELSE f[i - 1] \o ss[i]]
  <2>1. \E f : F(f)
    <3>1. PICK f : Flat(ss, f, a)
      BY FlatExists
    <3> QED BY <1>1, <3>1 DEF Flat
  <2>2. PICK c : c = (CHOOSE f : F(f))
    OBVIOUS
  <2>3. FlattenSeq(ss) = c[a]
    BY <1>1, <1>4, <2>2 DEF FlattenSeq
  <2> HIDE DEF F
  <2>4. F(c)
    BY <2>1, <2>2
  <2>5. \A i \in 1..a : c[i] = IF i = 1 THEN ss[i] ELSE c[i - 1] \o ss[i]
    BY <1>1, <2>4 DEF F
  <2> DEFINE Good(n) == /\ c[n] \in Seq(T)
                        /\ ToSet(c[n]) = UNION {ToSet(ss[i]) : i \in 1..n}
                        /\ (\A i \in 1..a : Distinct(ss[i])) /\ Disjoint(ss) => Distinct(c[n])
             U == {n \in Nat : n \in 1..a => Good(n)}
  <2>6. 0 \in U
    OBVIOUS
  <2>7. ASSUME NEW n \in Nat, n \in U PROVE n + 1 \in U
    <3> SUFFICES ASSUME n + 1 \in 1..a PROVE Good(n + 1)
      OBVIOUS
    <3>1. CASE n = 0
      <4>1. c[1] = ss[1] /\ 1 \in 1..a /\ 1..1 = {1}
        BY <2>5, <3>1
      <4>2. UNION {ToSet(ss[i]) : i \in 1..1} = ToSet(ss[1])
        BY <4>1
      <4>3. n + 1 = 1
        BY <3>1
      <4>4. c[1] \in Seq(T)
        BY <1>2, <4>1
      <4>5. (\A i \in 1..a : Distinct(ss[i])) => Distinct(c[1])
        BY <4>1, Zenon
      <4>6. ToSet(c[1]) = UNION {ToSet(ss[i]) : i \in 1..1}
        BY <4>1, <4>2
      <4>7. Good(1)
        BY <4>4, <4>5, <4>6
      <4> QED BY <4>3, <4>7
    <3>2. CASE n # 0
      <4>1. n \in 1..a /\ n + 1 # 1 /\ n + 1 - 1 = n
        BY <3>2
      <4>2. Good(n)
        BY <2>7, <4>1
      <4>3. c[n + 1] = c[n] \o ss[n + 1]
        <5>1. c[n + 1] = IF n + 1 = 1 THEN ss[n + 1] ELSE c[(n + 1) - 1] \o ss[n + 1]
          BY <2>5
        <5>2. (n + 1) - 1 = n
          OBVIOUS
        <5> QED BY <4>1, <5>1, <5>2, Zenon
      <4>4. ss[n + 1] \in Seq(T)
        BY <1>2
      <4>5. /\ c[n + 1] \in Seq(T) /\ ToSet(c[n + 1]) = ToSet(c[n]) \cup ToSet(ss[n + 1])
            /\ Distinct(c[n]) /\ Distinct(ss[n + 1]) /\ ToSet(c[n]) \cap ToSet(ss[n + 1]) = {} => Distinct(c[n + 1])
        BY <4>2, <4>3, <4>4, ConcatSet
      <4>6. 1..(n + 1) = (1..n) \cup {n + 1}
        OBVIOUS
      <4>7. ToSet(c[n + 1]) = UNION {ToSet(ss[i]) : i \in 1..(n + 1)}
        <5>1. ToSet(c[n]) = UNION {ToSet(ss[i]) : i \in 1..n}
          BY <4>2, Zenon
        <5>2. UNION {ToSet(ss[i]) : i \in 1..(n + 1)} = (UNION {ToSet(ss[i]) : i \in 1..n}) \cup ToSet(ss[n + 1])
          BY <4>6
        <5> QED BY <4>5, <5>1, <5>2
      <4>8. ASSUME \A i \in 1..a : Distinct(ss[i]), Disjoint(ss) PROVE Distinct(c[n + 1])
        <5>1. \A i \in 1..n : ToSet(ss[i]) \cap ToSet(ss[n + 1]) = {}
          <6>1. \A i \in 1..n : i \in 1..a /\ n + 1 \in 1..a /\ i # n + 1
            BY <4>1
          <6>2. \A i, j \in 1..a : i # j => ToSet(ss[i]) \cap ToSet(ss[j]) = {}
            BY <1>1, <4>8, Zenon DEF Disjoint
          <6> QED BY <6>1, <6>2, Zenon
        <5>2. ToSet(c[n]) \cap ToSet(ss[n + 1]) = {}
          <6>1. ToSet(c[n]) = UNION {ToSet(ss[i]) : i \in 1..n}
            BY <4>2
          <6> QED BY <5>1, <6>1
        <5>3. Distinct(c[n])
          BY <4>2, <4>8
        <5> QED BY <4>5, <4>8, <5>2, <5>3
      <4> QED BY <4>5, <4>7, <4>8
    <3> QED BY <3>1, <3>2
  <2> HIDE DEF U
  <2>8. a \in U
    BY <2>6, <2>7, SetInduction
  <2>9. Good(a)
    BY <1>4, <2>8 DEF U
  <2> QED BY <1>1, <2>3, <2>9
<1> QED BY <1>3, <1>4

LEMMA WhereSet ==
  ASSUME NEW T, NEW s \in Seq(T), NEW S
  PROVE  /\ Where(s, S) \in Seq(T) /\ ToSet(Where(s, S)) = ToSet(s) \cap S
         /\ Distinct(s) => Distinct(Where(s, S))
<1>1. PICK n \in Nat : n = Len(s)
  BY LenProperties
<1>2. PICK ss : ss = [i \in 1..n |-> IF s[i] \in S THEN <<s[i]>> ELSE <<>>]
  OBVIOUS
<1>3. /\ \A i \in 1..n : s[i] \in T
      /\ ToSet(s) = {s[i] : i \in 1..n}
  BY <1>1, AsSet
<1>4. ss \in Seq(Seq(T)) /\ Len(ss) = n
  <2>1. ASSUME NEW i \in 1..n PROVE (IF s[i] \in S THEN <<s[i]>> ELSE <<>>) \in Seq(T)
    BY <1>3
  <2>2. ss \in [1..n -> Seq(T)]
    BY <1>2, <2>1
  <2> QED BY <2>2
<1>5. Where(s, S) = FlattenSeq(ss)
  BY <1>1, <1>2 DEF Where
<1>6. \A i \in 1..n : ToSet(ss[i]) = {s[i]} \cap S /\ Distinct(ss[i])
  <2> TAKE i \in 1..n
  <2>1. CASE s[i] \in S
    <3>1. ss[i] = <<s[i]>> /\ Len(<<s[i]>>) = 1 /\ 1..1 = {1} /\ <<s[i]>>[1] = s[i]
      BY <1>2, <2>1
    <3>2. ToSet(<<s[i]>>) = {s[i]}
      BY DEF ToSet
    <3>3. Distinct(<<s[i]>>)
      BY <3>1 DEF Distinct
    <3> QED BY <2>1, <3>1, <3>2, <3>3
  <2>2. CASE s[i] \notin S
    <3>1. ss[i] = <<>> /\ Len(<<>>) = 0
      BY <1>2, <2>2
    <3>2. ToSet(<<>>) = {} /\ Distinct(<<>>)
      BY DEF ToSet, Distinct
    <3> QED BY <2>2, <3>1, <3>2
  <2> QED BY <2>1, <2>2
<1>7. ToSet(FlattenSeq(ss)) = ToSet(s) \cap S
  <2>1. ToSet(FlattenSeq(ss)) = UNION {ToSet(ss[i]) : i \in 1..n}
    BY <1>4, FlatSet
  <2> QED BY <1>3, <1>6, <2>1
<1>8. Distinct(s) => Distinct(FlattenSeq(ss))
  <2> SUFFICES ASSUME Distinct(s) PROVE Distinct(FlattenSeq(ss))
    OBVIOUS
  <2>1. Disjoint(ss)
    <3>1. \A i, j \in 1..n : s[i] = s[j] => i = j
      BY <1>1, Zenon DEF Distinct
    <3>2. \A i, j \in 1..n : i # j => ToSet(ss[i]) \cap ToSet(ss[j]) = {}
      BY <1>6, <3>1
    <3> QED BY <1>4, <3>2, Zenon DEF Disjoint
  <2> QED BY <1>4, <1>6, <2>1, FlatSet
<1>9. FlattenSeq(ss) \in Seq(T)
  BY <1>4, FlatSet
<1> QED BY <1>5, <1>7, <1>8, <1>9

-----------------------------------------------------------------------------
(* What the chunk planner computes.                                        *)

(* Division, for the prover.                                               *)
LEMMA Quotient ==
  ASSUME NEW a \in Nat, NEW d \in Nat \ {0}
  PROVE  a \div d \in Nat /\ d * (a \div d) <= a /\ a < d * (a \div d) + d
OBVIOUS

LEMMA Cancel ==
  ASSUME NEW d \in Nat \ {0}, NEW x \in Int, NEW y \in Int, d * x < d * y
  PROVE  x < y
<1>1. SUFFICES ASSUME x >= y PROVE FALSE
  OBVIOUS
<1>2. d * (x - y) >= 0
  BY <1>1
<1>3. d * (x - y) = d * x - d * y
  OBVIOUS
<1> QED BY <1>2, <1>3

LEMMA QuotientIs ==
  ASSUME NEW a \in Nat, NEW d \in Nat \ {0}, NEW q \in Int, d * q <= a, a < d * q + d
  PROVE  a \div d = q
<1>1. a \div d \in Nat /\ d * (a \div d) <= a /\ a < d * (a \div d) + d
  BY Quotient
<1>2. d * (q + 1) = d * q + d /\ d * (a \div d + 1) = d * (a \div d) + d
  BY <1>1
<1>3. d * q < d * (a \div d + 1) /\ d * (a \div d) < d * (q + 1)
  BY <1>1, <1>2
<1>4. q < a \div d + 1 /\ a \div d < q + 1
  BY <1>1, <1>3, Cancel
<1> QED BY <1>1, <1>4

LEMMA GridCutsCover ==
  ASSUME NEW P \in Nat, NEW n1 \in Nat, P <= n1, NEW chunk \in Nat \ {0}
  PROVE  Covers(GridCuts(P, n1, chunk), P, n1, chunk)
<1>1. CASE P = n1
  <2>1. GridCuts(P, n1, chunk) = <<>>
    BY <1>1 DEF GridCuts
  <2>2. <<>> \in Seq(Nat \X Nat) /\ Len(<<>>) = 0 /\ 1..0 = {} /\ 1..(0 - 1) = {}
    OBVIOUS
  <2> QED BY <1>1, <2>1, <2>2 DEF Covers
<1>2. CASE P # n1
  <2>1. PICK q \in Nat : q = P \div chunk /\ chunk * q <= P /\ P < chunk * q + chunk
    BY Quotient
  <2>2. PICK first \in Nat : first = (P \div chunk + 1) * chunk
    BY <2>1
  <2>3. P < first /\ first <= P + chunk
    <3>1. first = chunk * q + chunk
      BY <2>1, <2>2
    <3> QED BY <2>1, <3>1
  <2>4. PICK inner : inner = IF first < n1 THEN (n1 - 1 - first) \div chunk + 1 ELSE 0
    OBVIOUS
  <2> DEFINE cut(i) == IF i = 0 THEN P ELSE IF i > inner THEN n1 ELSE first + (i - 1) * chunk
  <2>5. inner \in Nat /\ cut(0) = P /\ cut(inner + 1) = n1 /\
        \A i \in 0..inner : cut(i) \in Nat /\ cut(i) < cut(i + 1) /\ cut(i + 1) <= cut(i) + chunk /\ cut(i + 1) <= n1
    <3>1. CASE first < n1
      <4>1. n1 - 1 - first \in Nat
        BY <3>1
      <4>2. PICK m \in Nat : m = (n1 - 1 - first) \div chunk /\ chunk * m <= n1 - 1 - first /\ n1 - 1 - first < chunk * m + chunk
        BY <4>1, Quotient
      <4>3. inner = m + 1
        BY <2>4, <3>1, <4>2
      <4>4. cut(0) = P /\ cut(inner + 1) = n1
        BY <4>3
      <4>5. \A i \in 1..inner : cut(i) = first + (i - 1) * chunk
        BY <4>3
      <4>6. ASSUME NEW i \in 1..inner PROVE first + (i - 1) * chunk <= first + m * chunk /\ (i - 1) * chunk >= 0
        <5>1. i - 1 \in Nat /\ m - (i - 1) \in Nat
          BY <4>3
        <5>2. (m - (i - 1)) * chunk >= 0 /\ (i - 1) * chunk >= 0
          BY <5>1
        <5>3. (m - (i - 1)) * chunk = m * chunk - (i - 1) * chunk
          BY <5>1
        <5>4. (i - 1) * chunk \in Int /\ m * chunk \in Int
          BY <5>1
        <5> QED BY <5>2, <5>3, <5>4
      <4>7. first + m * chunk < n1 /\ n1 <= first + m * chunk + chunk
        BY <4>2
      <4>8. ASSUME NEW i \in 0..inner
            PROVE cut(i) \in Nat /\ cut(i) < cut(i + 1) /\ cut(i + 1) <= cut(i) + chunk /\ cut(i + 1) <= n1
        <5>1. CASE i = 0
          <6>1. cut(i) = P /\ cut(i + 1) = first + 0 * chunk
            BY <4>3, <4>5, <5>1
          <6>2. 0 * chunk = 0
            OBVIOUS
          <6> QED BY <2>3, <3>1, <6>1, <6>2
        <5>2. CASE i \in 1..m
          <6>1. i \in 1..inner /\ i + 1 \in 1..inner /\ (i + 1) - 1 = i
            BY <4>3, <5>2
          <6>2. cut(i) = first + (i - 1) * chunk /\ cut(i + 1) = first + i * chunk
            BY <4>5, <6>1
          <6>3. i * chunk = (i - 1) * chunk + chunk /\ (i - 1) * chunk \in Int
            BY <6>1
          <6>4. first + i * chunk <= first + m * chunk /\ (i - 1) * chunk >= 0
            BY <4>6, <6>1
          <6>5. m * chunk \in Int
            OBVIOUS
          <6> HIDE DEF cut
          <6>6. PICK x \in Int : x = (i - 1) * chunk
            BY <6>3
          <6>7. PICK y \in Int : y = m * chunk
            BY <6>5
          <6>8. cut(i) = first + x /\ cut(i + 1) = first + (x + chunk) /\ first + (x + chunk) <= first + y /\ x >= 0 /\ first + y < n1
            BY <6>2, <6>3, <6>4, <6>6, <6>7, <4>7
          <6> QED BY <6>8
        <5>3. CASE i = inner
          <6>1. cut(i) = first + m * chunk /\ cut(i + 1) = n1
            BY <4>3, <4>5, <5>3
          <6>2. m * chunk \in Nat
            OBVIOUS
          <6> QED BY <4>7, <6>1, <6>2
        <5> QED BY <4>3, <5>1, <5>2, <5>3
      <4> QED BY <4>3, <4>4, <4>8
    <3>2. CASE ~(first < n1)
      <4>1. inner = 0 /\ cut(0) = P /\ cut(1) = n1 /\ 0..0 = {0}
        BY <2>4, <3>2
      <4>2. P < n1 /\ n1 <= P + chunk
        BY <1>2, <2>3, <3>2
      <4> QED BY <4>1, <4>2
    <3> QED BY <3>1, <3>2
  <2>6. PICK cs : cs = GridCuts(P, n1, chunk)
    OBVIOUS
  <2>7. cs = [i \in 1..(inner + 1) |-> <<cut(i - 1), cut(i)>>]
    BY <1>2, <2>2, <2>4, <2>6, Zenon DEF GridCuts
  <2> HIDE DEF cut
  <2>8. \A i \in 1..(inner + 1) : i - 1 \in 0..inner /\ (i - 1) + 1 = i
    BY <2>5
  <2>9. \A i \in 1..(inner + 1) : cut(i - 1) \in Nat /\ cut(i) \in Nat
    <3>1. \A i \in 0..inner : i + 1 \in 0..inner \/ i + 1 = inner + 1
      BY <2>5
    <3> QED BY <2>5, <2>8, <3>1
  <2>10. cs \in Seq(Nat \X Nat) /\ Len(cs) = inner + 1
    <3>1. cs \in [1..(inner + 1) -> Nat \X Nat]
      BY <2>7, <2>9
    <3> QED BY <2>5, <2>7, <3>1
  <2>11. \A i \in 1..(inner + 1) : cs[i][1] = cut(i - 1) /\ cs[i][2] = cut(i)
    BY <2>7
  <2>12. cs # <<>> /\ cs[1][1] = P /\ cs[Len(cs)][2] = n1
    <3>1. 1 \in 1..(inner + 1) /\ inner + 1 \in 1..(inner + 1) /\ 1 - 1 = 0 /\ inner + 1 # 0
      BY <2>5
    <3> QED BY <2>5, <2>10, <2>11, <3>1, EmptySeq
  <2>13. \A i \in 1..Len(cs) : cs[i][1] < cs[i][2] /\ cs[i][2] <= cs[i][1] + chunk /\ cs[i][2] <= n1
    BY <2>5, <2>8, <2>10, <2>11
  <2>14. \A i \in 1..(Len(cs) - 1) : cs[i][2] = cs[i + 1][1]
    <3>1. \A i \in 1..(Len(cs) - 1) : i \in 1..(inner + 1) /\ i + 1 \in 1..(inner + 1) /\ (i + 1) - 1 = i
      BY <2>5, <2>10
    <3> QED BY <2>11, <3>1
  <2> QED BY <2>6, <2>10, <2>12, <2>13, <2>14 DEF Covers
<1> QED BY <1>1, <1>2

LEMMA JoinCovers ==
  ASSUME NEW P \in Nat, NEW n1 \in Nat, NEW chunk \in Nat, NEW cs, Covers(cs, P, n1, chunk),
         NEW lo \in 1..(Len(cs) - 1), Rows(cs[lo]) + Rows(cs[lo + 1]) <= chunk,
         NEW ds, Merged(cs, ds, lo)
  PROVE  Covers(ds, P, n1, chunk)
<1>1. PICK n \in Nat : n = Len(cs)
  BY LenProperties DEF Covers
<1>2. /\ \A i \in 1..n : cs[i] \in Nat \X Nat
      /\ \A i \in 1..n : cs[i][1] < cs[i][2] /\ cs[i][2] <= cs[i][1] + chunk /\ cs[i][2] <= n1
      /\ \A i \in 1..(n - 1) : cs[i][2] = cs[i + 1][1]
  BY <1>1, ElementOfSeq DEF Covers
<1>3. n > 1 /\ lo \in 1..n /\ lo + 1 \in 1..n /\ lo \in 1..(n - 1)
  BY <1>1
<1>4. cs[1][1] = P /\ cs[n][2] = n1
  BY <1>1, <1>3, EmptySeq DEF Covers
<1>5. /\ \A k \in 1..(lo - 1) : ds[k] = cs[k]
      /\ ds[lo] = <<cs[lo][1], cs[lo + 1][2]>>
      /\ \A k \in (lo + 1)..(n - 1) : ds[k] = cs[k + 1]
  BY <1>1, <1>3 DEF Merged
<1>6. ds \in Seq(Nat \X Nat) /\ Len(ds) = n - 1
  <2>1. \A k \in 1..(n - 1) : k \in 1..(lo - 1) \/ k = lo \/ (k \in (lo + 1)..(n - 1) /\ k + 1 \in 1..n)
    BY <1>3
  <2>2. \A k \in 1..(lo - 1) : k \in 1..n
    BY <1>3
  <2>3. <<cs[lo][1], cs[lo + 1][2]>> \in Nat \X Nat
    BY <1>2, <1>3
  <2>4. \A k \in 1..(n - 1) : ds[k] \in Nat \X Nat
    BY <1>2, <1>5, <2>1, <2>2, <2>3
  <2>5. PICK m \in Nat : m = n - 1
    BY <1>3
  <2>6. ds \in [1..m -> Nat \X Nat]
    BY <1>1, <2>4, <2>5 DEF Merged
  <2>7. ds \in Seq(Nat \X Nat) /\ Len(ds) = m
    BY <2>6, FunctionIsSeq, Zenon
  <2> QED BY <2>5, <2>7
<1>7. ds # <<>> /\ ds[1][1] = P /\ ds[n - 1][2] = n1
  <2>1. ds # <<>>
    BY <1>3, <1>6, EmptySeq
  <2>2. ds[1][1] = P
    <3>1. CASE lo = 1
      BY <1>4, <1>5, <3>1
    <3>2. CASE lo # 1
      <4>1. 1 \in 1..(lo - 1)
        BY <1>3, <3>2
      <4> QED BY <1>4, <1>5, <4>1
    <3> QED BY <3>1, <3>2
  <2>3. ds[n - 1][2] = n1
    <3>1. CASE lo = n - 1
      BY <1>4, <1>5, <3>1
    <3>2. CASE lo # n - 1
      <4>1. n - 1 \in (lo + 1)..(n - 1) /\ (n - 1) + 1 = n
        BY <1>3, <3>2
      <4> QED BY <1>4, <1>5, <4>1
    <3> QED BY <3>1, <3>2
  <2> QED BY <2>1, <2>2, <2>3
<1>8. \A i \in 1..n : cs[i][1] \in Nat /\ cs[i][2] \in Nat
  BY <1>2
<1>9. cs[lo][1] < cs[lo + 1][2] /\ cs[lo + 1][2] <= cs[lo][1] + chunk
  <2>1. PICK a \in Nat : a = cs[lo][1]
    BY <1>3, <1>8
  <2>2. PICK b \in Nat : b = cs[lo][2] /\ b = cs[lo + 1][1]
    BY <1>2, <1>3, <1>8
  <2>3. PICK d \in Nat : d = cs[lo + 1][2]
    BY <1>3, <1>8
  <2>4. a < b /\ b < d
    BY <1>2, <1>3, <2>1, <2>2, <2>3
  <2>5. (b - a) + (d - b) <= chunk
    BY <2>1, <2>2, <2>3 DEF Rows
  <2>6. d <= a + chunk
    BY <2>4, <2>5
  <2> QED BY <2>1, <2>3, <2>4, <2>6
<1>10. \A i \in 1..(n - 1) : ds[i][1] < ds[i][2] /\ ds[i][2] <= ds[i][1] + chunk /\ ds[i][2] <= n1
  <2> TAKE i \in 1..(n - 1)
  <2>1. CASE i < lo
    <3>1. i \in 1..n /\ i \in 1..(lo - 1)
      BY <1>3, <2>1
    <3> QED BY <1>2, <1>5, <3>1
  <2>2. CASE i = lo
    BY <1>2, <1>3, <1>5, <1>9, <2>2
  <2>3. CASE i > lo
    <3>1. i + 1 \in 1..n /\ i \in (lo + 1)..(n - 1)
      BY <1>3, <2>3
    <3> QED BY <1>2, <1>5, <3>1
  <2> QED BY <1>3, <2>1, <2>2, <2>3
<1>11. \A i \in 1..(n - 2) : ds[i][2] = ds[i + 1][1]
  <2> TAKE i \in 1..(n - 2)
  <2>1. i \in 1..(n - 1) /\ i + 1 \in 1..(n - 1)
    BY <1>3
  <2>2. CASE i + 1 < lo
    <3>1. i \in 1..(lo - 1) /\ i + 1 \in 1..(lo - 1)
      BY <1>3, <2>2
    <3> QED BY <1>2, <1>5, <2>1, <3>1
  <2>3. CASE i + 1 = lo
    <3>1. i \in 1..(lo - 1)
      BY <1>3, <2>3
    <3>2. ds[i] = cs[i] /\ ds[i + 1][1] = cs[i + 1][1]
      BY <1>5, <2>3, <3>1
    <3> QED BY <1>2, <2>1, <3>2
  <2>4. CASE i = lo
    <3>1. i + 1 \in (lo + 1)..(n - 1)
      BY <1>3, <2>4
    <3>2. ds[i][2] = cs[i + 1][2] /\ ds[i + 1] = cs[(i + 1) + 1]
      BY <1>5, <2>4, <3>1
    <3> QED BY <1>2, <2>1, <3>2
  <2>5. CASE i > lo
    <3>1. i \in (lo + 1)..(n - 1) /\ i + 1 \in (lo + 1)..(n - 1)
      BY <1>3, <2>5
    <3>2. ds[i] = cs[i + 1] /\ ds[i + 1] = cs[(i + 1) + 1]
      BY <1>5, <3>1
    <3> QED BY <1>2, <2>1, <3>2
  <2> QED BY <1>3, <2>2, <2>3, <2>4, <2>5
<1>12. (n - 1) - 1 = n - 2
  BY <1>3
<1> QED BY <1>6, <1>7, <1>10, <1>11, <1>12 DEF Covers

LEMMA MoveCovers ==
  ASSUME NEW P \in Nat, NEW n1 \in Nat, NEW chunk \in Nat, NEW cs, Covers(cs, P, n1, chunk),
         NEW lo \in 1..(Len(cs) - 1), NEW x \in Nat, NEW ds, Moved(cs, ds, lo, x, chunk)
  PROVE  Covers(ds, P, n1, chunk)
<1>1. PICK n \in Nat : n = Len(cs)
  BY LenProperties DEF Covers
<1>2. /\ \A i \in 1..n : cs[i] \in Nat \X Nat
      /\ \A i \in 1..n : cs[i][1] < cs[i][2] /\ cs[i][2] <= cs[i][1] + chunk /\ cs[i][2] <= n1
      /\ \A i \in 1..(n - 1) : cs[i][2] = cs[i + 1][1]
  BY <1>1, ElementOfSeq DEF Covers
<1>3. n > 1 /\ lo \in 1..n /\ lo + 1 \in 1..n /\ lo \in 1..(n - 1)
  BY <1>1
<1>4. cs[1][1] = P /\ cs[n][2] = n1
  BY <1>1, <1>3, EmptySeq DEF Covers
<1>5. \A i \in 1..n : cs[i][1] \in Nat /\ cs[i][2] \in Nat
  BY <1>2
<1>6. ds[lo][1] = cs[lo][1] /\ ds[lo][2] = x /\ ds[lo + 1][1] = x /\ ds[lo + 1][2] = cs[lo + 1][2]
  BY DEF Moved
<1>7. \A k \in 1..n : (k # lo + 1 => ds[k][1] = cs[k][1]) /\ (k # lo => ds[k][2] = cs[k][2])
  BY <1>1, <1>3, <1>6 DEF Moved
<1>8. ds # <<>> /\ ds[1][1] = P /\ ds[n][2] = n1
  <2>1. 1 \in 1..n /\ n \in 1..n /\ 1 # lo + 1 /\ n # lo
    BY <1>3
  <2>2. ds # <<>>
    BY <1>1, <1>3, EmptySeq DEF Moved
  <2> QED BY <1>4, <1>7, <2>1, <2>2
<1>9. \A i \in 1..n : ds[i][1] < ds[i][2] /\ ds[i][2] <= ds[i][1] + chunk /\ ds[i][2] <= n1
  <2> TAKE i \in 1..n
  <2>1. CASE i = lo
    <3>1. x <= n1
      <4>1. x < cs[lo + 1][2] /\ cs[lo + 1][2] \in Nat /\ cs[lo + 1][2] <= n1
        BY <1>2, <1>3, <1>5, Zenon DEF Moved
      <4> QED BY <4>1
    <3> QED BY <1>6, <2>1, <3>1 DEF Moved
  <2>2. CASE i = lo + 1
    BY <1>2, <1>3, <1>6, <2>2 DEF Moved
  <2>3. CASE i # lo /\ i # lo + 1
    BY <1>2, <1>7, <2>3
  <2> QED BY <2>1, <2>2, <2>3
<1>10. \A i \in 1..(n - 1) : ds[i][2] = ds[i + 1][1]
  <2> TAKE i \in 1..(n - 1)
  <2>1. i \in 1..n /\ i + 1 \in 1..n
    BY <1>3
  <2>2. CASE i = lo
    BY <1>6, <2>2
  <2>3. CASE i # lo
    <3>1. i + 1 # lo + 1
      BY <2>3
    <3>2. ds[i][2] = cs[i][2] /\ ds[i + 1][1] = cs[i + 1][1]
      BY <1>7, <2>1, <2>3, <3>1
    <3> QED BY <1>2, <3>2
  <2> QED BY <2>2, <2>3
<1> QED BY <1>1, <1>8, <1>9, <1>10 DEF Covers, Moved

LEMMA RepairIs ==
  ASSUME NEW P \in Nat, NEW n1 \in Nat, NEW chunk \in Nat, chunk > 2, NEW cs, Covers(cs, P, n1, chunk)
  PROVE  \/ /\ Repaired(cs, chunk) = cs
            /\ Len(cs) <= 1 \/ \A k \in 1..Len(cs) : Rows(cs[k]) # 1
         \/ \E i \in 1..Len(cs), lo \in 1..(Len(cs) - 1) : WorksOn(cs, Repaired(cs, chunk), chunk, i, lo)
<1>1. PICK n \in Nat : n = Len(cs)
  BY LenProperties DEF Covers
<1>2. PICK single : single = {i \in 1..n : Rows(cs[i]) = 1}
  OBVIOUS
<1>3. CASE n <= 1 \/ single = {}
  <2>1. Repaired(cs, chunk) = cs
    BY <1>1, <1>2, <1>3 DEF Repaired
  <2> QED BY <1>1, <1>2, <1>3, <2>1
<1>4. CASE ~(n <= 1 \/ single = {})
  <2>1. PICK i : i = Min(single)
    OBVIOUS
  <2>2. i \in 1..n /\ Rows(cs[i]) = 1 /\ \A k \in 1..n : Rows(cs[k]) = 1 => k >= i
    <3>1. single \in SUBSET Nat
      BY <1>2
    <3>2. i \in single /\ \A k \in single : i <= k
      BY <1>4, <2>1, <3>1, MinIn
    <3> QED BY <1>2, <3>2
  <2>3. PICK j : j = IF i < n THEN i + 1 ELSE i - 1
    OBVIOUS
  <2>4. Repaired(cs, chunk) = IF Rows(cs[i]) + Rows(cs[j]) <= chunk THEN Join(cs, i, j) ELSE TakeRow(cs, i, j)
    BY <1>1, <1>2, <1>4, <2>1, <2>3 DEF Repaired
  <2>5. PICK lo : lo = IF i < j THEN i ELSE j
    OBVIOUS
  <2>6. lo \in 1..(n - 1) /\ ((i = lo /\ j = lo + 1) \/ (j = lo /\ i = lo + 1)) /\ j \in 1..n
    BY <1>4, <2>2, <2>3, <2>5
  <2>7. /\ \A k \in 1..n : cs[k] \in Nat \X Nat
        /\ \A k \in 1..n : cs[k][1] < cs[k][2] /\ cs[k][2] <= cs[k][1] + chunk /\ cs[k][2] <= n1
        /\ \A k \in 1..(n - 1) : cs[k][2] = cs[k + 1][1]
    BY <1>1, ElementOfSeq DEF Covers
  <2>8. \A k \in 1..n : cs[k][1] \in Nat /\ cs[k][2] \in Nat
    BY <2>7
  <2>9. Rows(cs[i]) = cs[i][2] - cs[i][1] /\ Rows(cs[j]) = cs[j][2] - cs[j][1]
    BY DEF Rows
  <2>12. i = lo \/ (i = lo + 1 /\ i = n)
    BY <2>2, <2>3, <2>5, <2>6
  <2>10. CASE Rows(cs[i]) + Rows(cs[j]) <= chunk
    <3>1. Repaired(cs, chunk) = Join(cs, i, j)
      BY <2>4, <2>10
    <3>2. Rows(cs[lo]) + Rows(cs[lo + 1]) <= chunk
      BY <2>2, <2>6, <2>8, <2>9, <2>10
    <3>3. Merged(cs, Join(cs, i, j), lo)
      BY <2>5 DEF Join, Merged
    <3>4. WorksOn(cs, Join(cs, i, j), chunk, i, lo)
      BY <1>1, <2>2, <2>12, <3>2, <3>3 DEF WorksOn
    <3> QED BY <1>1, <2>2, <2>6, <3>1, <3>4
  <2>11. CASE ~(Rows(cs[i]) + Rows(cs[j]) <= chunk)
    <3>1. Repaired(cs, chunk) = TakeRow(cs, i, j)
      BY <2>4, <2>11
    <3>2. cs[i][2] = cs[i][1] + 1 /\ cs[j][2] >= cs[j][1] + chunk
      BY <2>2, <2>6, <2>8, <2>9, <2>11
    <3>3. PICK ds : ds = TakeRow(cs, i, j)
      OBVIOUS
    <3>4. CASE i = lo /\ j = lo + 1
      <4>1. ds = [cs EXCEPT ![i] = <<@[1], @[2] + 1>>, ![j] = <<@[1] + 1, @[2]>>]
        BY <3>3, <3>4, <2>6 DEF TakeRow
      <4>2. cs[i][2] = cs[j][1]
        BY <2>6, <2>7, <3>4
      <4>3. PICK x \in Nat : x = cs[i][2] + 1
        BY <2>2, <2>8
      <4>4. ds[lo] = <<cs[lo][1], x>> /\ ds[lo + 1] = <<x, cs[lo + 1][2]>>
        <5>1. DOMAIN cs = 1..n
          BY <1>1, LenProperties DEF Covers
        <5>2. i \in 1..n /\ j \in 1..n /\ i # j
          BY <2>2, <2>6
        <5>3. x = cs[i][2] + 1 /\ x = cs[j][1] + 1
          BY <4>2, <4>3, <2>6, <2>8, <5>2
        <5> QED BY <4>1, <5>1, <5>2, <5>3, <3>4
      <4>5. \A k \in 1..n : k # lo /\ k # lo + 1 => ds[k] = cs[k]
        BY <1>1, <3>4, <4>1, LenProperties DEF Covers
      <4>6. ds \in Seq(Nat \X Nat) /\ Len(ds) = n
        <5>1. cs \in [1..n -> Nat \X Nat]
          BY <1>1, LenProperties, ElementOfSeq DEF Covers
        <5>2. <<cs[lo][1], x>> \in Nat \X Nat /\ <<x, cs[lo + 1][2]>> \in Nat \X Nat
          BY <2>2, <2>6, <2>8, <3>4
        <5>3. \A k \in 1..n : ds[k] \in Nat \X Nat
          BY <2>7, <4>4, <4>5, <5>2
        <5>4. ds = [k \in 1..n |-> ds[k]]
          BY <4>1, <5>1
        <5>5. ds \in [1..n -> Nat \X Nat]
          BY <5>3, <5>4
        <5> QED BY <5>5
      <4>7. cs[lo][1] < x /\ x <= cs[lo][1] + chunk /\ x < cs[lo + 1][2] /\ cs[lo + 1][2] <= x + chunk
        BY <2>2, <2>6, <2>7, <2>8, <3>2, <3>4, <4>2, <4>3
      <4>9. x >= cs[lo][1] + 2 /\ cs[lo + 1][2] >= x + 2
        BY <2>2, <2>6, <2>7, <2>8, <3>2, <3>4, <4>2, <4>3
      <4>8. Moved(cs, ds, lo, x, chunk)
        BY <1>1, <4>4, <4>5, <4>6, <4>7 DEF Moved
      <4>10. WorksOn(cs, ds, chunk, i, lo)
        BY <1>1, <2>2, <2>12, <4>8, <4>9 DEF WorksOn
      <4> QED BY <1>1, <2>2, <2>6, <3>1, <3>3, <4>10
    <3>5. CASE j = lo /\ i = lo + 1
      <4>1. ds = [cs EXCEPT ![j] = <<@[1], @[2] - 1>>, ![i] = <<@[1] - 1, @[2]>>]
        BY <3>3, <3>5, <2>6 DEF TakeRow
      <4>2. cs[j][2] = cs[i][1]
        BY <2>6, <2>7, <3>5
      <4>3. PICK x \in Nat : x = cs[j][2] - 1
        BY <2>6, <2>7, <2>8
      <4>4. ds[lo] = <<cs[lo][1], x>> /\ ds[lo + 1] = <<x, cs[lo + 1][2]>>
        <5>1. DOMAIN cs = 1..n
          BY <1>1, LenProperties DEF Covers
        <5>2. i \in 1..n /\ j \in 1..n /\ i # j
          BY <2>2, <2>6
        <5>3. x = cs[j][2] - 1 /\ x = cs[i][1] - 1
          BY <4>2, <4>3, <2>6, <2>8, <5>2
        <5> QED BY <4>1, <5>1, <5>2, <5>3, <3>5
      <4>5. \A k \in 1..n : k # lo /\ k # lo + 1 => ds[k] = cs[k]
        BY <1>1, <3>5, <4>1, LenProperties DEF Covers
      <4>6. ds \in Seq(Nat \X Nat) /\ Len(ds) = n
        <5>1. cs \in [1..n -> Nat \X Nat]
          BY <1>1, LenProperties, ElementOfSeq DEF Covers
        <5>2. <<cs[lo][1], x>> \in Nat \X Nat /\ <<x, cs[lo + 1][2]>> \in Nat \X Nat
          BY <2>2, <2>6, <2>8, <3>5
        <5>3. \A k \in 1..n : ds[k] \in Nat \X Nat
          BY <2>7, <4>4, <4>5, <5>2
        <5>4. ds = [k \in 1..n |-> ds[k]]
          BY <4>1, <5>1
        <5>5. ds \in [1..n -> Nat \X Nat]
          BY <5>3, <5>4
        <5> QED BY <5>5
      <4>7. cs[lo][1] < x /\ x <= cs[lo][1] + chunk /\ x < cs[lo + 1][2] /\ cs[lo + 1][2] <= x + chunk
        BY <2>2, <2>6, <2>7, <2>8, <3>2, <3>5, <4>2, <4>3
      <4>9. x >= cs[lo][1] + 2 /\ cs[lo + 1][2] >= x + 2
        BY <2>2, <2>6, <2>7, <2>8, <3>2, <3>5, <4>2, <4>3
      <4>8. Moved(cs, ds, lo, x, chunk)
        BY <1>1, <4>4, <4>5, <4>6, <4>7 DEF Moved
      <4>10. WorksOn(cs, ds, chunk, i, lo)
        BY <1>1, <2>2, <2>12, <4>8, <4>9 DEF WorksOn
      <4> QED BY <1>1, <2>2, <2>6, <3>1, <3>3, <4>10
    <3> QED BY <2>6, <3>4, <3>5
  <2> QED BY <2>10, <2>11
<1> QED BY <1>3, <1>4

LEMMA RepairCovers ==
  ASSUME NEW P \in Nat, NEW n1 \in Nat, NEW chunk \in Nat, chunk > 2, NEW cs, Covers(cs, P, n1, chunk)
  PROVE  Covers(Repaired(cs, chunk), P, n1, chunk)
<1>1. PICK ds : ds = Repaired(cs, chunk)
  OBVIOUS
<1>2. CASE \E i \in 1..Len(cs), lo \in 1..(Len(cs) - 1) : WorksOn(cs, ds, chunk, i, lo)
  <2>1. PICK i \in 1..Len(cs), lo \in 1..(Len(cs) - 1) : WorksOn(cs, ds, chunk, i, lo)
    BY <1>2
  <2>2. CASE Rows(cs[lo]) + Rows(cs[lo + 1]) <= chunk /\ Merged(cs, ds, lo)
    BY <1>1, <2>2, JoinCovers
  <2>3. CASE \E x \in Nat : Moved(cs, ds, lo, x, chunk)
    BY <1>1, <2>3, MoveCovers
  <2> QED BY <2>1, <2>2, <2>3 DEF WorksOn
<1> QED BY <1>1, <1>2, RepairIs

LEMMA RepairLate ==
  ASSUME NEW P \in Nat, NEW n1 \in Nat, NEW chunk \in Nat, chunk > 2, NEW cs, Covers(cs, P, n1, chunk),
         NEW m \in Nat, Len(cs) <= 1 \/ Late(cs, m)
  PROVE  /\ Len(Repaired(cs, chunk)) <= Len(cs)
         /\ Len(Repaired(cs, chunk)) <= 1 \/ Late(Repaired(cs, chunk), m + 1)
<1>1. PICK n \in Nat : n = Len(cs)
  BY LenProperties DEF Covers
<1>2. PICK ds : ds = Repaired(cs, chunk)
  OBVIOUS
<1>3. CASE ds = cs /\ (n <= 1 \/ \A k \in 1..n : Rows(cs[k]) # 1)
  BY <1>1, <1>2, <1>3 DEF Late
<1>4. CASE \E i \in 1..n, lo \in 1..(n - 1) : WorksOn(cs, ds, chunk, i, lo)
  <2>1. PICK i \in 1..n, lo \in 1..(n - 1) : WorksOn(cs, ds, chunk, i, lo)
    BY <1>4
  <2>2. \A k \in 1..n : cs[k][1] \in Nat /\ cs[k][2] \in Nat /\ cs[k][1] < cs[k][2]
    BY <1>1, ElementOfSeq DEF Covers
  <2>3. /\ \A k \in 1..n : Rows(cs[k]) = 1 => k >= i
        /\ i > m
        /\ i = lo \/ (i = lo + 1 /\ i = n)
        /\ lo \in 1..n /\ lo + 1 \in 1..n /\ n > 1
    BY <1>1, <2>1 DEF WorksOn, Late
  <2>4. \A k \in 1..(lo - 1) : k \in 1..n /\ Rows(cs[k]) # 1
    BY <2>3
  <2>8. PICK a \in Nat : a = cs[lo][1]
    BY <2>2, <2>3
  <2>9. PICK b \in Nat : b = cs[lo][2] /\ b = cs[lo + 1][1]
    <3>1. cs[lo][2] = cs[lo + 1][1]
      BY <1>1, <2>3 DEF Covers
    <3> QED BY <2>2, <2>3, <3>1
  <2>10. PICK d \in Nat : d = cs[lo + 1][2]
    BY <2>2, <2>3
  <2>7. d >= a + 2
    <3>1. a < b /\ b < d
      BY <2>2, <2>3, <2>8, <2>9, <2>10
    <3> QED BY <3>1
  <2>5. CASE Merged(cs, ds, lo)
    <3>1. Len(ds) = n - 1
      BY <1>1, <2>3, <2>5 DEF Merged
    <3>2. ASSUME NEW k \in 1..(n - 1), Rows(ds[k]) = 1 PROVE k > m + 1
      <4>1. ds[k] = IF k < lo THEN cs[k] ELSE IF k = lo THEN <<cs[lo][1], cs[lo + 1][2]>> ELSE cs[k + 1]
        BY <1>1, <2>5 DEF Merged
      <4>2. ~(k < lo)
        BY <2>4, <3>2, <4>1
      <4>3. k # lo
        <5>3. CASE k = lo
          <6>1. ds[k][1] = a /\ ds[k][2] = d
            BY <2>8, <2>10, <4>1, <5>3
          <6> QED BY <2>7, <3>2, <6>1 DEF Rows
        <5> QED BY <5>3
      <4> QED BY <2>3, <4>2, <4>3
    <3> QED BY <1>1, <1>2, <3>1, <3>2 DEF Late
  <2>6. ASSUME NEW x \in Nat, Moved(cs, ds, lo, x, chunk), x >= cs[lo][1] + 2, cs[lo + 1][2] >= x + 2
        PROVE  Len(ds) = n /\ Late(ds, m + 1)
    <3>1. Len(ds) = n
      BY <1>1, <2>6 DEF Moved
    <3>3. ds[lo] = <<a, x>> /\ ds[lo + 1] = <<x, d>>
      BY <2>6, <2>8, <2>10, Zenon DEF Moved
    <3>4. x >= a + 2 /\ d >= x + 2
      BY <2>6, <2>8, <2>10, Zenon
    <3>2. ASSUME NEW k \in 1..n, Rows(ds[k]) = 1 PROVE k > m + 1
      <4>1. CASE k = lo
        <5>1. ds[k][1] = a /\ ds[k][2] = x
          BY <3>3, <4>1
        <5> QED BY <3>2, <3>4, <5>1 DEF Rows
      <4>2. CASE k = lo + 1
        <5>1. ds[k][1] = x /\ ds[k][2] = d
          BY <3>3, <4>2
        <5> QED BY <3>2, <3>4, <5>1 DEF Rows
      <4>3. CASE k # lo /\ k # lo + 1
        <5>1. ds[k] = cs[k]
          BY <1>1, <2>6, <4>3 DEF Moved
        <5>2. ~(k < lo)
          BY <2>4, <3>2, <5>1
        <5> QED BY <2>3, <4>3, <5>2
      <4> QED BY <4>1, <4>2, <4>3
    <3> QED BY <3>1, <3>2 DEF Late
  <2> QED BY <1>1, <1>2, <2>1, <2>5, <2>6 DEF WorksOn
<1> QED BY <1>1, <1>2, <1>3, <1>4, RepairIs

LEMMA RoundExists ==
  ASSUME NEW cuts, NEW chunk
  PROVE  \A m \in Nat : \E f : Round(cuts, chunk, f, m)
<1> DEFINE T == {m \in Nat : \E f : Round(cuts, chunk, f, m)}
<1>1. 0 \in T
  <2>1. PICK f : f = [n \in 0..0 |-> cuts]
    OBVIOUS
  <2>2. \A n \in 0..0 : n = 0
    OBVIOUS
  <2>3. Round(cuts, chunk, f, 0)
    BY <2>1, <2>2 DEF Round
  <2> QED BY <2>3
<1>2. ASSUME NEW m \in Nat, m \in T PROVE m + 1 \in T
  <2>1. PICK f : Round(cuts, chunk, f, m)
    BY <1>2
  <2>2. PICK g : g = [n \in 0..(m + 1) |-> IF n <= m THEN f[n] ELSE Repaired(f[m], chunk)]
    OBVIOUS
  <2>3. \A n \in 0..m : f[n] = IF n = 0 THEN cuts ELSE Repaired(f[n - 1], chunk)
    BY <2>1 DEF Round
  <2>4. ASSUME NEW n \in 0..(m + 1)
        PROVE  g[n] = IF n = 0 THEN cuts ELSE Repaired(g[n - 1], chunk)
    <3>1. CASE n \in 0..m
      <4>1. n # 0 => n - 1 \in 0..m /\ n - 1 <= m
        BY <3>1
      <4>2. n # 0 => g[n - 1] = f[n - 1]
        BY <2>2, <4>1
      <4>3. g[n] = f[n]
        BY <2>2, <3>1
      <4> QED BY <2>3, <3>1, <4>2, <4>3
    <3>2. CASE n = m + 1
      <4>1. g[n] = Repaired(f[m], chunk) /\ n # 0 /\ n - 1 = m
        BY <2>2, <3>2
      <4>2. g[m] = f[m]
        BY <2>2
      <4> QED BY <3>2, <4>1, <4>2
    <3> QED BY <3>1, <3>2
  <2>5. g = [n \in 0..(m + 1) |-> g[n]]
    BY <2>2
  <2>6. g = [n \in 0..(m + 1) |-> IF n = 0 THEN cuts ELSE Repaired(g[n - 1], chunk)]
    BY <2>4, <2>5
  <2>7. Round(cuts, chunk, g, m + 1)
    BY <2>6 DEF Round
  <2> QED BY <2>7
<1> HIDE DEF T
<1>3. \A m \in Nat : m \in T
  BY <1>1, <1>2, SetInduction
<1> QED BY <1>3 DEF T

LEMMA PlanRounds ==
  ASSUME NEW P \in Nat, NEW n1 \in Nat, P <= n1, NEW chunk \in Nat, chunk > 2, NEW cs, cs = PlanChunks(P, n1, chunk)
  PROVE  /\ Covers(cs, P, n1, chunk)
         /\ Len(cs) <= 1 \/ \A k \in 1..Len(cs) : Rows(cs[k]) # 1
<1>1. PICK cuts : cuts = GridCuts(P, n1, chunk)
  OBVIOUS
<1>2. Covers(cuts, P, n1, chunk)
  BY <1>1, GridCutsCover
<1>3. PICK m \in Nat : m = Len(cuts)
  BY <1>2, LenProperties DEF Covers
<1> DEFINE F(f) == f = [n \in 0..Len(cuts) |-> IF n = 0 THEN cuts ELSE Repaired(f[n - 1], chunk)]
<1>4. \E f : F(f)
  <2>1. PICK f : Round(cuts, chunk, f, m)
    BY RoundExists
  <2> QED BY <1>3, <2>1 DEF Round
<1>5. PICK c : c = (CHOOSE f : F(f))
  OBVIOUS
<1>6. PlanChunks(P, n1, chunk) = c[m]
  BY <1>1, <1>3, <1>5 DEF PlanChunks
<1> HIDE DEF F
<1>7. F(c)
  BY <1>4, <1>5
<1>8. \A n \in 0..m : c[n] = IF n = 0 THEN cuts ELSE Repaired(c[n - 1], chunk)
  BY <1>3, <1>7 DEF F
<1> DEFINE Good(cs0, n) == Covers(cs0, P, n1, chunk) /\ Len(cs0) <= m /\ (Len(cs0) <= 1 \/ Late(cs0, n))
<1> DEFINE U == {n \in Nat : n <= m => Good(c[n], n)}
<1>9. 0 \in U
  <2>1. c[0] = cuts
    BY <1>8
  <2>2. Late(cuts, 0)
    BY DEF Late
  <2> QED BY <1>2, <1>3, <2>1, <2>2
<1>10. ASSUME NEW n \in Nat, n \in U PROVE n + 1 \in U
  <2> SUFFICES ASSUME n + 1 <= m PROVE Good(c[n + 1], n + 1)
    OBVIOUS
  <2>1. c[n + 1] = Repaired(c[n], chunk)
    <3>1. n + 1 \in 0..m /\ n + 1 # 0 /\ (n + 1) - 1 = n
      OBVIOUS
    <3>2. c[n + 1] = IF n + 1 = 0 THEN cuts ELSE Repaired(c[(n + 1) - 1], chunk)
      BY <1>8, <3>1
    <3> QED BY <3>1, <3>2, Zenon
  <2>2. Good(c[n], n)
    BY <1>10
  <2>3. PICK p : p = c[n]
    OBVIOUS
  <2>4. PICK q : q = Repaired(p, chunk)
    OBVIOUS
  <2>5. Covers(q, P, n1, chunk)
    BY <2>2, <2>3, <2>4, RepairCovers
  <2>6. Len(q) <= Len(p) /\ (Len(q) <= 1 \/ Late(q, n + 1))
    BY <2>2, <2>3, <2>4, RepairLate
  <2>7. Len(p) \in Nat /\ Len(q) \in Nat /\ Len(p) <= m
    BY <2>2, <2>3, <2>5, LenProperties DEF Covers
  <2> QED BY <2>1, <2>3, <2>4, <2>5, <2>6, <2>7
<1> HIDE DEF U
<1>11. m \in U
  BY <1>9, <1>10, SetInduction
<1>12. Covers(cs, P, n1, chunk) /\ Len(cs) <= m /\ (Len(cs) <= 1 \/ Late(cs, m))
  BY <1>6, <1>11 DEF U
<1>13. Len(cs) \in Nat
  BY <1>12, LenProperties DEF Covers
<1> QED BY <1>12, <1>13 DEF Late

(* plan_chunks cuts the rows [P, n1) into chunks of at most `chunk` rows   *)
(* that follow one another.                                                *)
THEOREM PlanCovers ==
  ASSUME NEW P \in Nat, NEW n1 \in Nat, P <= n1, NEW chunk \in Nat, chunk > 2
  PROVE  Covers(PlanChunks(P, n1, chunk), P, n1, chunk)
BY PlanRounds

(* No chunk has a single row, unless the whole prefill is one row: "with   *)
(* no 1-row chunk", front.py 131-132.                                      *)
THEOREM PlanNoSingleRow ==
  ASSUME NEW P \in Nat, NEW n1 \in Nat, P <= n1, NEW chunk \in Nat, chunk > 2,
         NEW k \in 1..Len(PlanChunks(P, n1, chunk)), Rows(PlanChunks(P, n1, chunk)[k]) = 1
  PROVE  n1 = P + 1
<1>1. PICK cs : cs = PlanChunks(P, n1, chunk)
  OBVIOUS
<1>2. /\ Covers(cs, P, n1, chunk)
      /\ Len(cs) <= 1 \/ \A i \in 1..Len(cs) : Rows(cs[i]) # 1
  BY <1>1, PlanRounds
<1>3. PICK n \in Nat : n = Len(cs)
  BY <1>2, LenProperties DEF Covers
<1>4. n = 1 /\ k = 1
  BY <1>1, <1>2, <1>3
<1>5. cs # <<>>
  <2>1. Len(<<>>) = 0
    OBVIOUS
  <2>2. Len(cs) # 0
    BY <1>3, <1>4
  <2> QED BY <2>1, <2>2, Zenon
<1>6. cs[1][1] = P /\ cs[1][2] = n1
  BY <1>2, <1>3, <1>4, <1>5 DEF Covers
<1> QED BY <1>1, <1>4, <1>6 DEF Rows

-----------------------------------------------------------------------------
(* File names, files, stacks.                                              *)

LEMMA KeyNames ==
  ASSUME NEW key \in Keys
  PROVE  /\ Of({key}, {}) = {<<"idx", key, 0>>, <<"tail", key, 0>>, <<"ent", key, 0>>, <<"ent", key, 1>>}
         /\ \A f \in Of({key}, {}) : ~IsBlock(f) /\ f[2] = key
         /\ \A f \in Of({key}, {}) : f[1] = "idx" <=> f = <<"idx", key, 0>>
<1>1. \A f \in {<<"idx", key, 0>>, <<"tail", key, 0>>, <<"ent", key, 0>>, <<"ent", key, 1>>} :
        f \in FileNames /\ f[2] = key /\ f[1] \notin {"blk", "rows"}
  BY DEF FileNames, Ranks
<1>2. ASSUME NEW f \in FileNames, ~IsBlock(f), f[2] = key
      PROVE  f \in {<<"idx", key, 0>>, <<"tail", key, 0>>, <<"ent", key, 0>>, <<"ent", key, 1>>}
  BY <1>2 DEF FileNames, IsBlock, Ranks
<1>3. Of({key}, {}) = {<<"idx", key, 0>>, <<"tail", key, 0>>, <<"ent", key, 0>>, <<"ent", key, 1>>}
  BY <1>1, <1>2 DEF Of, IsBlock
<1>4. \A f \in Of({key}, {}) : ~IsBlock(f) /\ f[2] = key
  BY DEF Of
<1>5. \A f \in {<<"idx", key, 0>>, <<"tail", key, 0>>, <<"ent", key, 0>>, <<"ent", key, 1>>} :
        f[1] = "idx" <=> f = <<"idx", key, 0>>
  OBVIOUS
<1> QED BY <1>3, <1>4, <1>5

LEMMA BlockNames ==
  ASSUME NEW b \in Blocks
  PROVE  Of({}, {b}) = {<<"blk", b, 0>>, <<"blk", b, 1>>, <<"rows", b, 0>>}
<1>1. \A f \in {<<"blk", b, 0>>, <<"blk", b, 1>>, <<"rows", b, 0>>} :
        f \in FileNames /\ f[2] = b /\ f[1] \in {"blk", "rows"}
  BY DEF FileNames, Ranks
<1>2. ASSUME NEW f \in FileNames, IsBlock(f), f[2] = b
      PROVE  f \in {<<"blk", b, 0>>, <<"blk", b, 1>>, <<"rows", b, 0>>}
  BY <1>2 DEF FileNames, IsBlock, Ranks
<1> QED BY <1>1, <1>2 DEF Of, IsBlock

LEMMA NameTypes ==
  ASSUME NEW f \in FileNames
  PROVE  IF IsBlock(f) THEN f[2] \in Blocks ELSE f[2] \in Keys
BY DEF FileNames, IsBlock

LEMMA EntryFilesAre ==
  ASSUME NEW key \in Keys
  PROVE  /\ EntryFiles(key) \in Seq(FileNames) /\ ToSet(EntryFiles(key)) = Of({key}, {})
         /\ StateFiles(key) \in Seq(FileNames) /\ ToSet(StateFiles(key)) = Of({key}, {}) \ {<<"idx", key, 0>>}
<1>1. Of({key}, {}) = {<<"idx", key, 0>>, <<"tail", key, 0>>, <<"ent", key, 0>>, <<"ent", key, 1>>}
  BY KeyNames
<1>2. Of({key}, {}) \subseteq FileNames
  BY DEF Of
<1>3. PICK s : s = StateFiles(key)
  OBVIOUS
<1>4. s = << <<"tail", key, 0>>, <<"ent", key, 0>>, <<"ent", key, 1>> >>
  BY <1>3 DEF StateFiles
<1>5. s \in Seq(FileNames)
  BY <1>1, <1>2, <1>4
<1>6. ToSet(s) = {<<"tail", key, 0>>, <<"ent", key, 0>>, <<"ent", key, 1>>}
  <2>1. DOMAIN s = 1..3 /\ s[1] = <<"tail", key, 0>> /\ s[2] = <<"ent", key, 0>> /\ s[3] = <<"ent", key, 1>>
    BY <1>4
  <2>2. 1..3 = {1, 2, 3}
    OBVIOUS
  <2> QED BY <2>1, <2>2 DEF ToSet
<1>7. PICK h : h = << <<"idx", key, 0>> >>
  OBVIOUS
<1>8. h \in Seq(FileNames) /\ ToSet(h) = {<<"idx", key, 0>>}
  <2>1. DOMAIN h = 1..1 /\ h[1] = <<"idx", key, 0>> /\ 1..1 = {1}
    BY <1>7
  <2>2. h \in Seq(FileNames)
    BY <1>1, <1>2, <1>7
  <2>3. DOMAIN h = {1}
    BY <2>1
  <2>4. ToSet(h) = {h[1]}
    BY <2>3 DEF ToSet
  <2> QED BY <2>1, <2>2, <2>4
<1>9. EntryFiles(key) = h \o s
  BY <1>3, <1>7 DEF EntryFiles
<1>10. EntryFiles(key) \in Seq(FileNames) /\ ToSet(EntryFiles(key)) = ToSet(h) \cup ToSet(s)
  BY <1>5, <1>8, <1>9, ConcatSet
<1>11. ToSet(EntryFiles(key)) = Of({key}, {})
  BY <1>1, <1>6, <1>8, <1>10
<1>12. ToSet(s) = Of({key}, {}) \ {<<"idx", key, 0>>}
  <2>1. <<"idx", key, 0>> \notin {<<"tail", key, 0>>, <<"ent", key, 0>>, <<"ent", key, 1>>}
    OBVIOUS
  <2> QED BY <1>1, <1>6, <2>1
<1> QED BY <1>3, <1>5, <1>10, <1>11, <1>12

LEMMA BlockFilesAre ==
  ASSUME NEW b \in Blocks
  PROVE  BlockFiles(b) \in Seq(FileNames) /\ ToSet(BlockFiles(b)) = Of({}, {b})
<1>1. Of({}, {b}) = {<<"blk", b, 0>>, <<"blk", b, 1>>, <<"rows", b, 0>>} /\ Of({}, {b}) \subseteq FileNames
  BY BlockNames DEF Of
<1>2. PICK s : s = BlockFiles(b)
  OBVIOUS
<1>3. s = << <<"blk", b, 0>>, <<"blk", b, 1>>, <<"rows", b, 0>> >>
  BY <1>2 DEF BlockFiles
<1>4. s \in Seq(FileNames)
  BY <1>1, <1>3
<1>5. DOMAIN s = 1..3 /\ s[1] = <<"blk", b, 0>> /\ s[2] = <<"blk", b, 1>> /\ s[3] = <<"rows", b, 0>>
  BY <1>3
<1>6. 1..3 = {1, 2, 3}
  OBVIOUS
<1>7. ToSet(s) = {<<"blk", b, 0>>, <<"blk", b, 1>>, <<"rows", b, 0>>}
  BY <1>5, <1>6 DEF ToSet
<1> QED BY <1>1, <1>2, <1>4, <1>7

LEMMA FilesOfBlocksAre ==
  ASSUME NEW bs \in Seq(Blocks)
  PROVE  FilesOfBlocks(bs) \in Seq(FileNames) /\ ToSet(FilesOfBlocks(bs)) = Of({}, ToSet(bs))
<1>1. PICK n \in Nat : n = Len(bs)
  BY LenProperties
<1>2. PICK ss : ss = [i \in 1..n |-> BlockFiles(bs[i])]
  OBVIOUS
<1>3. (\A i \in 1..n : bs[i] \in Blocks) /\ ToSet(bs) = {bs[i] : i \in 1..n}
  BY <1>1, AsSet
<1>4. \A i \in 1..n : ss[i] \in Seq(FileNames) /\ ToSet(ss[i]) = Of({}, {bs[i]})
  BY <1>2, <1>3, BlockFilesAre
<1>5. ss \in Seq(Seq(FileNames)) /\ Len(ss) = n
  <2>1. ss \in [1..n -> Seq(FileNames)]
    BY <1>2, <1>4
  <2> QED BY <2>1, FunctionIsSeq, Zenon
<1>6. FilesOfBlocks(bs) = FlattenSeq(ss)
  BY <1>1, <1>2 DEF FilesOfBlocks
<1>7. FlattenSeq(ss) \in Seq(FileNames) /\ ToSet(FlattenSeq(ss)) = UNION {ToSet(ss[i]) : i \in 1..n}
  BY <1>5, FlatSet
<1>8. UNION {ToSet(ss[i]) : i \in 1..n} = Of({}, ToSet(bs))
  <2>1. ASSUME NEW f, f \in UNION {ToSet(ss[i]) : i \in 1..n} PROVE f \in Of({}, ToSet(bs))
    <3>1. PICK i \in 1..n : f \in ToSet(ss[i])
      BY <2>1
    <3>2. f \in Of({}, {bs[i]})
      BY <1>4, <3>1
    <3> QED BY <1>3, <3>2 DEF Of
  <2>2. ASSUME NEW f, f \in Of({}, ToSet(bs)) PROVE f \in UNION {ToSet(ss[i]) : i \in 1..n}
    <3>1. f \in FileNames /\ IsBlock(f) /\ f[2] \in ToSet(bs)
      BY <2>2 DEF Of
    <3>2. PICK i \in 1..n : f[2] = bs[i]
      BY <1>3, <3>1
    <3>3. f \in Of({}, {bs[i]})
      BY <3>1, <3>2 DEF Of
    <3>4. f \in ToSet(ss[i])
      BY <1>4, <3>3
    <3> QED BY <3>4
  <2> QED BY <2>1, <2>2
<1> QED BY <1>6, <1>7, <1>8

LEMMA AllFilesAre ==
  ASSUME NEW e, e.key \in Keys, e.blocks \in Seq(Blocks)
  PROVE  AllFiles(e) \in Seq(FileNames) /\ ToSet(AllFiles(e)) = Of({e.key}, ToSet(e.blocks))
<1>1. EntryFiles(e.key) \in Seq(FileNames) /\ ToSet(EntryFiles(e.key)) = Of({e.key}, {})
  BY EntryFilesAre
<1>2. FilesOfBlocks(e.blocks) \in Seq(FileNames) /\ ToSet(FilesOfBlocks(e.blocks)) = Of({}, ToSet(e.blocks))
  BY FilesOfBlocksAre
<1>3. AllFiles(e) \in Seq(FileNames) /\ ToSet(AllFiles(e)) = Of({e.key}, {}) \cup Of({}, ToSet(e.blocks))
  BY <1>1, <1>2, ConcatSet DEF AllFiles
<1>4. Of({e.key}, {}) \cup Of({}, ToSet(e.blocks)) = Of({e.key}, ToSet(e.blocks))
  BY DEF Of
<1> QED BY <1>3, <1>4

LEMMA FlatFiles ==
  ASSUME NEW n \in Nat, NEW ss, DOMAIN ss = 1..n, ss = [i \in 1..n |-> ss[i]],
         \A i \in 1..n : ss[i] \in Seq(FileNames)
  PROVE  /\ FlattenSeq(ss) \in Seq(FileNames)
         /\ ToSet(FlattenSeq(ss)) = UNION {ToSet(ss[i]) : i \in 1..n}
<1>1. ss \in [1..n -> Seq(FileNames)]
  OBVIOUS
<1>2. ss \in Seq(Seq(FileNames)) /\ Len(ss) = n
  BY <1>1, FunctionIsSeq, Zenon
<1> QED BY <1>2, FlatSet

LEMMA AllNamesAre ==
  AllNames \in Seq(FileNames) /\ ToSet(AllNames) = FileNames
<1>1. NKeys \in Nat /\ NBlocks \in Nat
  BY CacheAssumption
<1>2. PICK ss : ss = [key \in Keys |-> EntryFiles(key)]
  OBVIOUS
<1>3. PICK bs : bs = [b \in Blocks |-> b]
  OBVIOUS
<1>4. AllNames = FlattenSeq(ss) \o FilesOfBlocks(bs)
  BY <1>2, <1>3 DEF AllNames
<1>5. DOMAIN ss = 1..NKeys /\ ss = [i \in 1..NKeys |-> ss[i]] /\ \A i \in 1..NKeys : ss[i] \in Seq(FileNames) /\ ToSet(ss[i]) = Of({i}, {})
  BY <1>2, EntryFilesAre DEF Keys
<1>6. FlattenSeq(ss) \in Seq(FileNames) /\ ToSet(FlattenSeq(ss)) = UNION {ToSet(ss[i]) : i \in 1..NKeys}
  BY <1>1, <1>5, FlatFiles
<1>7. bs \in Seq(Blocks) /\ ToSet(bs) = Blocks
  <2>1. bs \in [1..NBlocks -> Blocks]
    BY <1>3 DEF Blocks
  <2>2. bs \in Seq(Blocks)
    BY <1>1, <2>1, FunctionIsSeq, Zenon
  <2> QED BY <1>3, <2>2 DEF ToSet
<1>8. FilesOfBlocks(bs) \in Seq(FileNames) /\ ToSet(FilesOfBlocks(bs)) = Of({}, Blocks)
  BY <1>7, FilesOfBlocksAre
<1>9. ToSet(FlattenSeq(ss)) = Of(Keys, {})
  <2>1. ASSUME NEW f, f \in Of(Keys, {}) PROVE f \in ToSet(FlattenSeq(ss))
    <3>1. f[2] \in 1..NKeys /\ f \in Of({f[2]}, {})
      BY <2>1 DEF Of, Keys
    <3>2. f \in ToSet(ss[f[2]])
      BY <1>5, <3>1
    <3> QED BY <1>6, <3>1, <3>2
  <2>2. ASSUME NEW f, f \in ToSet(FlattenSeq(ss)) PROVE f \in Of(Keys, {})
    <3>1. PICK i \in 1..NKeys : f \in ToSet(ss[i])
      BY <1>6, <2>2
    <3>2. f \in Of({i}, {})
      BY <1>5, <3>1
    <3> QED BY <3>1, <3>2 DEF Of, Keys
  <2> QED BY <2>1, <2>2
<1>10. AllNames \in Seq(FileNames) /\ ToSet(AllNames) = Of(Keys, {}) \cup Of({}, Blocks)
  BY <1>4, <1>6, <1>8, <1>9, ConcatSet
<1>11. Of(Keys, {}) \cup Of({}, Blocks) = FileNames
  BY NameTypes DEF Of
<1> QED BY <1>10, <1>11

(* The last element of a sequence, and the sequence with another one.      *)
LEMMA LastOf ==
  ASSUME NEW T, NEW s \in Seq(T), s # <<>>
  PROVE  /\ Len(s) \in Nat \ {0} /\ Last(s) = s[Len(s)] /\ Last(s) \in T
         /\ Front(s) \in Seq(T) /\ Len(Front(s)) = Len(s) - 1
         /\ \A i \in 1..(Len(s) - 1) : Front(s)[i] = s[i]
<1>1. PICK n \in Nat \ {0} : n = Len(s)
  BY EmptySeq
<1>2. \A i \in 1..n : s[i] \in T
  BY <1>1, ElementOfSeq
<1>3. Last(s) = s[n] /\ s[n] \in T
  BY <1>1, <1>2 DEF Last
<1>4. Front(s) = SubSeq(s, 1, n - 1)
  BY <1>1 DEF Front
<1>5. \A i \in 1..(n - 1) : s[i] \in T
  BY <1>2
<1>6. /\ SubSeq(s, 1, n - 1) \in Seq(T)
      /\ Len(SubSeq(s, 1, n - 1)) = IF 1 <= n - 1 THEN (n - 1) - 1 + 1 ELSE 0
      /\ \A i \in 1..((n - 1) - 1 + 1) : SubSeq(s, 1, n - 1)[i] = s[1 + i - 1]
  BY <1>5, SubSeqProperties
<1>7. Len(SubSeq(s, 1, n - 1)) = n - 1
  BY <1>6
<1>8. \A i \in 1..(n - 1) : SubSeq(s, 1, n - 1)[i] = s[i]
  <2>1. \A i \in 1..(n - 1) : i \in 1..((n - 1) - 1 + 1) /\ 1 + i - 1 = i
    OBVIOUS
  <2> QED BY <1>6, <2>1
<1> QED BY <1>1, <1>3, <1>4, <1>6, <1>7, <1>8

LEMMA ReplaceLast ==
  ASSUME NEW T, NEW s \in Seq(T), s # <<>>, NEW p \in T
  PROVE  /\ Append(Front(s), p) \in Seq(T) /\ Append(Front(s), p) # <<>>
         /\ Len(Append(Front(s), p)) = Len(s)
         /\ Last(Append(Front(s), p)) = p /\ Append(Front(s), p)[Len(s)] = p
         /\ Front(Append(Front(s), p)) = Front(s)
         /\ \A i \in 1..(Len(s) - 1) : Append(Front(s), p)[i] = s[i]
<1>1. PICK n \in Nat \ {0} : n = Len(s)
  BY EmptySeq
<1>2. PICK u \in Seq(T) : u = Front(s) /\ Len(u) = n - 1 /\ \A i \in 1..(n - 1) : u[i] = s[i]
  BY <1>1, LastOf
<1>3. PICK t : t = Append(u, p)
  OBVIOUS
<1>4. t \in Seq(T) /\ t # <<>> /\ Len(t) = n /\ t[n] = p /\ \A i \in 1..(n - 1) : t[i] = u[i]
  BY <1>1, <1>2, <1>3, AppendProperties
<1>5. Last(t) = p
  BY <1>4 DEF Last
<1>6. /\ Front(t) \in Seq(T) /\ Len(Front(t)) = n - 1
      /\ \A i \in 1..(n - 1) : Front(t)[i] = t[i]
  BY <1>4, LastOf
<1>7. Front(t) = u
  BY <1>2, <1>4, <1>6, SeqEqual
<1> QED BY <1>1, <1>2, <1>3, <1>4, <1>5, <1>7

LEMMA AppendLast ==
  ASSUME NEW T, NEW s \in Seq(T), NEW p \in T
  PROVE  /\ Append(s, p) \in Seq(T) /\ Append(s, p) # <<>> /\ Len(Append(s, p)) = Len(s) + 1
         /\ Last(Append(s, p)) = p /\ Append(s, p)[Len(s) + 1] = p
         /\ \A i \in 1..Len(s) : Append(s, p)[i] = s[i]
<1>1. PICK t : t = Append(s, p)
  OBVIOUS
<1>2. t \in Seq(T) /\ t # <<>> /\ Len(t) = Len(s) + 1 /\ t[Len(s) + 1] = p /\ \A i \in 1..Len(s) : t[i] = s[i]
  BY <1>1, AppendProperties
<1>3. Last(t) = p
  BY <1>2 DEF Last
<1> QED BY <1>1, <1>2, <1>3

LEMMA PrefixIs ==
  ASSUME NEW T, NEW s \in Seq(T), NEW n \in 0..Len(s)
  PROVE  /\ Prefix(s, n) \in Seq(T) /\ Len(Prefix(s, n)) = n
         /\ \A i \in 1..n : Prefix(s, n)[i] = s[i]
         /\ n = Len(s) => Prefix(s, n) = s
<1>1. Len(s) \in Nat /\ n \in Int /\ \A i \in 1..Len(s) : s[i] \in T
  BY AsSet
<1>2. \A i \in 1..n : s[i] \in T
  BY <1>1
<1>3. /\ SubSeq(s, 1, n) \in Seq(T) /\ Len(SubSeq(s, 1, n)) = IF 1 <= n THEN n - 1 + 1 ELSE 0
      /\ \A i \in 1..(n - 1 + 1) : SubSeq(s, 1, n)[i] = s[1 + i - 1]
  BY <1>1, <1>2, SubSeqProperties
<1>4. Len(SubSeq(s, 1, n)) = n
  BY <1>1, <1>3
<1>5. \A i \in 1..n : SubSeq(s, 1, n)[i] = s[i]
  <2>1. \A i \in 1..n : i \in 1..(n - 1 + 1) /\ 1 + i - 1 = i
    BY <1>1
  <2> QED BY <1>3, <2>1
<1>6. n = Len(s) => SubSeq(s, 1, n) = s
  BY <1>3, <1>4, <1>5, SeqEqual
<1> QED BY <1>3, <1>4, <1>5, <1>6 DEF Prefix

(* A prefix of a prefix.                                                   *)
LEMMA PrefixOfPrefix ==
  ASSUME NEW T, NEW s \in Seq(T), NEW n \in 0..Len(s), NEW m \in 0..n
  PROVE  Prefix(Prefix(s, n), m) = Prefix(s, m)
<1>1. Len(s) \in Nat
  BY LenProperties
<1>2. m \in 0..Len(s)
  BY <1>1
<1>3. PICK t \in Seq(T) : t = Prefix(s, n) /\ Len(t) = n /\ \A i \in 1..n : t[i] = s[i]
  BY PrefixIs
<1>4. Prefix(t, m) \in Seq(T) /\ Len(Prefix(t, m)) = m /\ \A i \in 1..m : Prefix(t, m)[i] = t[i]
  BY <1>3, PrefixIs
<1>5. Prefix(s, m) \in Seq(T) /\ Len(Prefix(s, m)) = m /\ \A i \in 1..m : Prefix(s, m)[i] = s[i]
  BY <1>2, PrefixIs
<1>6. \A i \in 1..m : i \in 1..n
  OBVIOUS
<1>7. \A i \in 1..m : Prefix(t, m)[i] = Prefix(s, m)[i]
  BY <1>3, <1>4, <1>5, <1>6
<1>8. Prefix(t, m) = Prefix(s, m)
  BY <1>4, <1>5, <1>7, SeqEqual
<1> QED BY <1>3, <1>8

-----------------------------------------------------------------------------
(* The shape of every state (Shape).                                       *)

LEMMA FewElements ==
  ASSUME NEW T, NEW s \in Seq(T)
  PROVE  IsFiniteSet(ToSet(s))
<1>1. Len(s) \in Nat /\ ToSet(s) = {s[i] : i \in 1..Len(s)}
  BY AsSet
<1>2. IsFiniteSet(1..Len(s))
  BY <1>1, FS_Interval
<1>3. PICK f : f = [i \in 1..Len(s) |-> s[i]]
  OBVIOUS
<1>4. f \in Surjection(1..Len(s), ToSet(s))
  BY <1>1, <1>3 DEF Surjection
<1> QED BY <1>2, <1>4, FS_Surjection

LEMMA FileNamesFinite == IsFiniteSet(FileNames)
BY AllNamesAre, FewElements

(* Free ids, one for each chunk that needs one.                            *)
LEMMA IdForIs ==
  ASSUME NEW N \in Nat, NEW free \in SUBSET (1..N), NEW m \in Nat, NEW S \in SUBSET (1..m),
         Cardinality(free) >= Cardinality(S)
  PROVE  /\ \A k \in 1..m : IF k \in S THEN IdFor(k, S, free) \in free ELSE IdFor(k, S, free) = 0
         /\ \A j, k \in S : IdFor(j, S, free) = IdFor(k, S, free) => j = k
<1>1. IsFiniteSet(S) /\ IsFiniteSet(free) /\ Cardinality(S) \in Nat /\ Cardinality(free) \in Nat
  <2>1. IsFiniteSet(1..m) /\ IsFiniteSet(1..N)
    BY FS_Interval
  <2> QED BY <2>1, FS_Subset, FS_CardinalityType
<1>2. ASSUME NEW k \in S
      PROVE  /\ IsFiniteSet(S \cap (1..k))
             /\ Cardinality(S \cap (1..k)) \in 1..Cardinality(free)
  <2>1. PICK U : U = S \cap (1..k)
    OBVIOUS
  <2>2. U \in SUBSET S /\ k \in U
    BY <2>1
  <2>3. IsFiniteSet(U) /\ Cardinality(U) <= Cardinality(S) /\ Cardinality(U) \in Nat
    BY <1>1, <2>2, FS_Subset, FS_CardinalityType
  <2>4. Cardinality(U) # 0
    BY <2>2, <2>3, FS_EmptySet
  <2> QED BY <1>1, <2>1, <2>3, <2>4
<1>3. ASSUME NEW k \in S
      PROVE  /\ IdFor(k, S, free) \in free
             /\ Cardinality({y \in free : y <= IdFor(k, S, free)}) = Cardinality(S \cap (1..k))
  <2>1. IdFor(k, S, free) = Nth(free, Cardinality(S \cap (1..k)))
    BY DEF IdFor
  <2>2. PICK c \in 1..Cardinality(free) : c = Cardinality(S \cap (1..k))
    BY <1>2
  <2>3. Nth(free, c) \in free /\ Cardinality({y \in free : y <= Nth(free, c)}) = c
    BY NthIn
  <2> QED BY <2>1, <2>2, <2>3
<1>4. ASSUME NEW j \in S, NEW k \in S, j < k PROVE IdFor(j, S, free) # IdFor(k, S, free)
  <2>1. PICK U : U = S \cap (1..j)
    OBVIOUS
  <2>2. PICK V : V = S \cap (1..k)
    OBVIOUS
  <2>3. U \in SUBSET V /\ k \in V /\ k \notin U /\ IsFiniteSet(V)
    BY <1>2, <1>4, <2>1, <2>2
  <2>4. Cardinality(U) # Cardinality(V)
    BY <2>3, FS_Subset
  <2> QED BY <1>3, <2>1, <2>2, <2>4
<1>5. \A j, k \in S : IdFor(j, S, free) = IdFor(k, S, free) => j = k
  <2>1. \A j, k \in S : j < k \/ j = k \/ k < j
    OBVIOUS
  <2> QED BY <1>4, <2>1
<1>6. \A k \in 1..m : k \notin S => IdFor(k, S, free) = 0
  BY DEF IdFor
<1> QED BY <1>3, <1>5, <1>6

LEMMA FirstIn ==
  ASSUME NEW T, index \in Seq(T), NEW S, S \subseteq Entries, S # {}
  PROVE  First(S) \in S
<1>1. PICK n \in Nat : n = Len(index)
  BY LenProperties
<1>2. Entries = {index[i] : i \in 1..n}
  BY <1>1, AsSet DEF Entries
<1>3. PICK at : at = {i \in 1..n : index[i] \in S}
  OBVIOUS
<1>4. at \in SUBSET Nat /\ at # {}
  BY <1>2, <1>3
<1>5. Min(at) \in at
  BY <1>4, MinIn
<1>6. First(S) = index[Min(at)]
  BY <1>1, <1>3 DEF First
<1> QED BY <1>3, <1>5, <1>6

LEMMA FreeTypes ==
  /\ FreeBlocks \in SUBSET (1..NBlocks) /\ FreeKeys \in SUBSET (1..NKeys)
  /\ FreeBlocks \subseteq Blocks /\ FreeKeys \subseteq Keys /\ 0 \notin Blocks /\ 0 \notin Keys
  /\ NBlocks \in Nat /\ NKeys \in Nat /\ Grid \in Nat \ {0} /\ Grid > 2 /\ Prompts \subseteq Text
BY CacheAssumption DEF FreeBlocks, FreeKeys, Blocks, Keys, Text

(* Where a chunk lies on the grid.                                         *)
LEMMA GridStep ==
  ASSUME NEW a \in Nat, NEW e \in Nat, a < e, e <= a + Grid
  PROVE  /\ Grid * (e \div Grid) > a => e \div Grid = a \div Grid + 1
         /\ Grid * (e \div Grid) <= a => e \div Grid = a \div Grid
         /\ e \div Grid \in Nat /\ a \div Grid \in Nat /\ Grid * (e \div Grid) \in 0..e
<1>1. Grid \in Nat \ {0}
  BY FreeTypes
<1>2. PICK q \in Nat : q = a \div Grid /\ Grid * q <= a /\ a < Grid * q + Grid
  BY <1>1, Quotient
<1>3. PICK g \in Nat : g = e \div Grid /\ Grid * g <= e /\ e < Grid * g + Grid
  BY <1>1, Quotient
<1>4. Grid * g < Grid * (q + 2)
  <2>1. Grid * (q + 2) = Grid * q + Grid + Grid
    BY <1>1
  <2> QED BY <1>1, <1>2, <1>3, <2>1
<1>5. g < q + 2
  BY <1>1, <1>4, Cancel
<1>6. Grid * q < Grid * (g + 1)
  <2>1. Grid * (g + 1) = Grid * g + Grid
    BY <1>1
  <2> QED BY <1>1, <1>2, <1>3, <2>1
<1>7. q < g + 1
  BY <1>1, <1>6, Cancel
<1>8. ASSUME Grid * g > a PROVE g = q + 1
  <2>1. Grid * q < Grid * g
    BY <1>1, <1>2, <1>8
  <2>2. q < g
    BY <1>1, <2>1, Cancel
  <2> QED BY <1>5, <2>2
<1>9. ASSUME Grid * g <= a PROVE g = q
  <2>1. Grid * g < Grid * (q + 1)
    <3>1. Grid * (q + 1) = Grid * q + Grid
      BY <1>1
    <3> QED BY <1>1, <1>2, <1>9, <3>1
  <2>2. g < q + 1
    BY <1>1, <2>1, Cancel
  <2> QED BY <1>7, <2>2
<1>10. Grid * g \in Nat
  BY <1>1
<1> QED BY <1>2, <1>3, <1>8, <1>9, <1>10

LEMMA PlanIs ==
  ASSUME index \in Seq(Entry), NEW ids \in Text, NEW P \in Nat, P <= Len(ids),
         Cardinality(FreeBlocks) >= Cardinality(NewBlocks(ids, P)),
         Cardinality(FreeKeys) >= Cardinality(NewEntries(ids, P))
  PROVE  PlanParts(ids, P, GridPlan(ids, P)) /\ Covers(Cuts(ids, P), P, Len(ids), Grid)
<1>1. Len(ids) \in Nat
  BY LenProperties DEF Text
<1>2. PICK plan : plan = Cuts(ids, P)
  OBVIOUS
<1>3. Covers(plan, P, Len(ids), Grid)
  BY <1>1, <1>2, FreeTypes, PlanCovers DEF Cuts
<1>4. PICK n \in Nat : n = Len(plan)
  BY <1>3, LenProperties DEF Covers
<1>5. \A k \in 1..n : plan[k][2] \in Nat
  <2>1. \A k \in 1..n : plan[k] \in Nat \X Nat
    BY <1>3, <1>4, ElementOfSeq DEF Covers
  <2> QED BY <2>1
<1>6. PICK new : new = NewBlocks(ids, P)
  OBVIOUS
<1>7. PICK marks : marks = NewEntries(ids, P)
  OBVIOUS
<1>8. new \in SUBSET (1..n) /\ marks \in SUBSET (1..n)
  BY <1>2, <1>4, <1>6, <1>7 DEF NewBlocks, NewEntries
<1>9. /\ \A k \in 1..n : IF k \in new THEN IdFor(k, new, FreeBlocks) \in FreeBlocks ELSE IdFor(k, new, FreeBlocks) = 0
      /\ \A j, k \in new : IdFor(j, new, FreeBlocks) = IdFor(k, new, FreeBlocks) => j = k
  <2>1. PICK free \in SUBSET (1..NBlocks) : free = FreeBlocks
    BY FreeTypes
  <2>2. NBlocks \in Nat /\ Cardinality(free) >= Cardinality(new)
    BY <1>6, <2>1, FreeTypes
  <2> QED BY <1>8, <2>1, <2>2, IdForIs
<1>10. /\ \A k \in 1..n : IF k \in marks THEN IdFor(k, marks, FreeKeys) \in FreeKeys ELSE IdFor(k, marks, FreeKeys) = 0
       /\ \A j, k \in marks : IdFor(j, marks, FreeKeys) = IdFor(k, marks, FreeKeys) => j = k
  <2>1. PICK free \in SUBSET (1..NKeys) : free = FreeKeys
    BY FreeTypes
  <2>2. NKeys \in Nat /\ Cardinality(free) >= Cardinality(marks)
    BY <1>7, <2>1, FreeTypes
  <2> QED BY <1>8, <2>1, <2>2, IdForIs
<1> DEFINE adopt(k) == IF Completes(plan[k]) /\ k \notin new
                       THEN First(Registered(Prefix(ids, BlockEnd(plan[k])))).blocks ELSE <<>>
<1>11. PICK cs : cs = GridPlan(ids, P)
  OBVIOUS
<1>12. cs = [k \in 1..n |-> [end |-> plan[k][2], block |-> IdFor(k, new, FreeBlocks),
                             adopt |-> adopt(k), key |-> IdFor(k, marks, FreeKeys)]]
  BY <1>2, <1>4, <1>6, <1>7, <1>11 DEF GridPlan
<1>13. ASSUME NEW k \in 1..n, Completes(plan[k]), k \notin new
       PROVE  \E e \in Entries : e.tokens = Prefix(ids, BlockEnd(plan[k])) /\ adopt(k) = e.blocks
  <2>1. PICK S : S = Registered(Prefix(ids, BlockEnd(plan[k])))
    OBVIOUS
  <2>2. S # {}
    BY <1>2, <1>4, <1>6, <1>13, <2>1 DEF NewBlocks
  <2>3. S \subseteq Entries /\ \A e \in S : e.tokens = Prefix(ids, BlockEnd(plan[k]))
    BY <2>1 DEF Registered
  <2>4. First(S) \in S
    BY <2>2, <2>3, FirstIn
  <2>5. adopt(k) = First(S).blocks
    BY <1>13, <2>1
  <2> QED BY <2>3, <2>4, <2>5
<1>14. \A e \in Entries : e.blocks \in Seq(Blocks)
  <2>1. Entries \subseteq Entry
    BY AsSet DEF Entries
  <2> QED BY <2>1 DEF Entry
<1>15. ASSUME NEW k \in 1..n PROVE adopt(k) \in Seq(Blocks)
  <2>1. CASE Completes(plan[k]) /\ k \notin new
    BY <1>13, <1>14, <2>1
  <2>2. CASE ~(Completes(plan[k]) /\ k \notin new)
    <3>1. adopt(k) = <<>>
      BY <2>2
    <3>2. <<>> \in Seq(Blocks)
      BY EmptySeq
    <3> QED BY <3>1, <3>2, Zenon
  <2> QED BY <2>1, <2>2
<1>16. \A k \in 1..n : ~(Completes(plan[k]) /\ k \notin new) => adopt(k) = <<>>
  OBVIOUS
<1> HIDE DEF adopt
<1>17. \A k \in 1..n : /\ cs[k].end = plan[k][2] /\ cs[k].block = IdFor(k, new, FreeBlocks)
                       /\ cs[k].adopt = adopt(k) /\ cs[k].key = IdFor(k, marks, FreeKeys)
  BY <1>12
<1>18. cs \in Seq(Chunk) /\ Len(cs) = n
  <2>1. ASSUME NEW k \in 1..n PROVE cs[k] \in Chunk
    <3>1. IdFor(k, new, FreeBlocks) \in Blocks \cup {0} /\ IdFor(k, marks, FreeKeys) \in Keys \cup {0}
      BY <1>9, <1>10, FreeTypes
    <3> QED BY <1>5, <1>12, <1>15, <3>1 DEF Chunk
  <2>2. cs \in [1..n -> Chunk]
    BY <1>12, <2>1
  <2> QED BY <2>2, FunctionIsSeq, Zenon
<1>19. \A k \in 1..n : FullBlock(cs[k]) = BlockEnd(plan[k])
  BY <1>17 DEF FullBlock, BlockEnd
<1>20. ASSUME NEW j \in 1..n, NEW k \in 1..n, j # k
       PROVE  /\ cs[j].block # 0 => cs[j].block # cs[k].block
              /\ cs[j].key # 0 => cs[j].key # cs[k].key
  <2>1. cs[j].block # 0 => j \in new
    BY <1>9, <1>17
  <2>2. cs[j].key # 0 => j \in marks
    BY <1>10, <1>17
  <2>3. cs[k].block # 0 => k \in new
    BY <1>9, <1>17
  <2>4. cs[k].key # 0 => k \in marks
    BY <1>10, <1>17
  <2> QED BY <1>9, <1>10, <1>17, <1>20, <2>1, <2>2, <2>3, <2>4
<1>21. ASSUME NEW k \in 1..n
       PROVE  /\ cs[k].end = plan[k][2]
              /\ IF k \in new THEN cs[k].block \in FreeBlocks ELSE cs[k].block = 0
              /\ IF Completes(plan[k]) /\ k \notin new
                 THEN \E e \in Entries : e.tokens = Prefix(ids, FullBlock(cs[k])) /\ cs[k].adopt = e.blocks
                 ELSE cs[k].adopt = <<>>
              /\ IF k \in marks THEN cs[k].key \in FreeKeys ELSE cs[k].key = 0
  BY <1>9, <1>10, <1>13, <1>16, <1>17, <1>19
<1>22. PlanParts(ids, P, cs)
  BY <1>2, <1>4, <1>6, <1>7, <1>18, <1>20, <1>21 DEF PlanParts
<1> QED BY <1>2, <1>3, <1>11, <1>22

-----------------------------------------------------------------------------
(* Every step keeps the shape.                                             *)

LEMMA FieldsOf ==
  ASSUME NEW p \in Prefill
  PROVE  /\ p \in Fields /\ p.ids \in Seq(Tokens) /\ p.P \in Nat /\ p.k \in Nat
         /\ p.chunks \in Seq(Chunk) /\ p.blocks \in Seq(Blocks) /\ p.new \in Seq(Blocks)
         /\ p.ents \in Seq(Entry) /\ p.key \in Keys \cup {0}
         /\ Len(p.ids) \in Nat /\ Len(p.chunks) \in Nat /\ Len(p.blocks) \in Nat /\ Len(p.ents) \in Nat
         /\ \A j \in 1..Len(p.chunks) : p.chunks[j] \in Chunk
         /\ Placed(p) /\ Tiled(p) /\ Counted(p)
<1>1. p \in Fields /\ Placed(p) /\ Tiled(p) /\ Counted(p)
  BY DEF Prefill
<1>2. /\ p.ids \in Seq(Tokens) /\ p.P \in Nat /\ p.k \in Nat
      /\ p.chunks \in Seq(Chunk) /\ p.blocks \in Seq(Blocks) /\ p.new \in Seq(Blocks)
      /\ p.ents \in Seq(Entry) /\ p.key \in Keys \cup {0}
  BY <1>1 DEF Fields, Text
<1>3. Len(p.ids) \in Nat /\ Len(p.chunks) \in Nat /\ Len(p.blocks) \in Nat /\ Len(p.ents) \in Nat
  BY <1>2, LenProperties
<1>4. \A j \in 1..Len(p.chunks) : p.chunks[j] \in Chunk
  BY <1>2, ElementOfSeq
<1> QED BY <1>1, <1>2, <1>3, <1>4

(* The prefill that runs.                                                  *)
LEMMA RunIs ==
  ASSUME stack \in Seq(Prefill), stack # <<>>
  PROVE  /\ run \in Prefill /\ Below \in Seq(Prefill) /\ Len(stack) \in Nat \ {0}
         /\ run = stack[Len(stack)] /\ Len(Below) = Len(stack) - 1
         /\ \A i \in 1..(Len(stack) - 1) : Below[i] = stack[i]
BY LastOf DEF run, Below

LEMMA BecomesIs ==
  ASSUME stack \in Seq(Prefill), stack # <<>>, NEW q \in Prefill, Becomes(q)
  PROVE  /\ stack' \in Seq(Prefill) /\ stack' # <<>> /\ Len(stack') = Len(stack)
         /\ run' = q /\ Below' = Below /\ stack'[Len(stack)] = q
         /\ \A i \in 1..(Len(stack) - 1) : stack'[i] = stack[i]
<1>1. PICK t : t = Append(Front(stack), q)
  OBVIOUS
<1>2. /\ t \in Seq(Prefill) /\ t # <<>> /\ Len(t) = Len(stack) /\ Last(t) = q /\ t[Len(stack)] = q
      /\ Front(t) = Front(stack) /\ \A i \in 1..(Len(stack) - 1) : t[i] = stack[i]
  BY <1>1, ReplaceLast
<1>3. stack' = t
  BY <1>1 DEF Becomes, Below
<1> QED BY <1>2, <1>3 DEF run, Below

LEMMA StepsIs ==
  ASSUME stack \in Seq(Prefill), stack # <<>>, NEW q \in Prefill, Becomes(q)
  PROVE  Steps /\ run' = q
BY RunIs, BecomesIs DEF Steps

LEMMA PopsIs ==
  ASSUME stack \in Seq(Prefill), stack # <<>>, stack' = Below
  PROVE  Pops
<1>1. /\ run \in Prefill /\ Below \in Seq(Prefill) /\ Len(stack) \in Nat \ {0}
      /\ run = stack[Len(stack)] /\ Len(Below) = Len(stack) - 1
      /\ \A i \in 1..(Len(stack) - 1) : Below[i] = stack[i]
  BY RunIs
<1>2. ASSUME stack' # <<>> PROVE run' = stack[Len(stack) - 1] /\ Len(stack) - 1 \in 1..Len(stack)
  <2>1. PICK s \in Seq(Prefill) : s = stack'
    BY <1>1
  <2>2. s # <<>> /\ Len(s) = Len(stack) - 1
    BY <1>1, <1>2, <2>1
  <2>3. Last(s) = s[Len(s)] /\ Len(s) \in Nat \ {0}
    BY <2>2, LastOf
  <2>4. Len(s) \in 1..(Len(stack) - 1)
    BY <1>1, <2>2, <2>3
  <2>5. run' = Last(s)
    BY <2>1 DEF run
  <2> QED BY <1>1, <2>1, <2>2, <2>3, <2>4, <2>5
<1> QED BY <1>1, <1>2 DEF Pops

LEMMA PushesIs ==
  ASSUME stack \in Seq(Prefill), NEW q \in Prefill, stack' = Append(stack, q)
  PROVE  Pushes /\ run' = q
<1>1. PICK t : t = Append(stack, q)
  OBVIOUS
<1>2. /\ t \in Seq(Prefill) /\ t # <<>> /\ Len(t) = Len(stack) + 1
      /\ Last(t) = q /\ t[Len(stack) + 1] = q
      /\ \A i \in 1..Len(stack) : t[i] = stack[i]
  BY <1>1, AppendLast
<1>3. Len(stack) \in Nat
  BY LenProperties
<1> QED BY <1>1, <1>2, <1>3 DEF Pushes, run

LEMMA SubmitIs ==
  ASSUME cmds \in [Ranks -> Seq(Command)], NEW c \in Command, Submit(c)
  PROVE  /\ cmds' \in [Ranks -> Seq(Command)]
         /\ \A r \in Ranks : /\ cmds'[r] = Append(cmds[r], c) /\ Len(cmds'[r]) = Len(cmds[r]) + 1
                             /\ ToSet(cmds'[r]) = ToSet(cmds[r]) \cup {c}
<1>1. ASSUME NEW r \in Ranks
      PROVE  /\ Append(cmds[r], c) \in Seq(Command) /\ ToSet(Append(cmds[r], c)) = ToSet(cmds[r]) \cup {c}
             /\ Len(Append(cmds[r], c)) = Len(cmds[r]) + 1
  <2>1. PICK s \in Seq(Command) : s = cmds[r]
    OBVIOUS
  <2> QED BY <2>1, AppendSet
<1> QED BY <1>1 DEF Submit

(* A chunk's command.                                                      *)
LEMMA ChunkCmdIs ==
  ASSUME NEW p \in Prefill, NEW k \in 1..Len(p.chunks)
  PROVE  /\ ChunkCmd(p, k) \in Command /\ ChunkCmd(p, k).op = "chunk"
         /\ ChunkCmd(p, k).ids = Prefix(p.ids, p.chunks[k].end) /\ Len(ChunkCmd(p, k).ids) = p.chunks[k].end
         /\ ChunkCmd(p, k).block = p.chunks[k].block /\ ChunkCmd(p, k).key = p.chunks[k].key
         /\ p.chunks[k].end \in 0..Len(p.ids)
<1>1. PICK c \in Chunk : c = p.chunks[k] /\ c.end <= Len(p.ids)
  BY FieldsOf DEF Tiled
<1>2. p.ids \in Seq(Tokens) /\ Len(p.ids) \in Nat /\ c.end \in Nat
  BY <1>1, FieldsOf DEF Chunk
<1>3. c.end \in 0..Len(p.ids)
  BY <1>1, <1>2
<1>4. PICK ids : ids = Prefix(p.ids, c.end)
  OBVIOUS
<1>5. ids \in Seq(Tokens) /\ Len(ids) = c.end
  BY <1>2, <1>3, <1>4, PrefixIs
<1>6. ChunkCmd(p, k) = [op |-> "chunk", ids |-> ids, block |-> c.block, key |-> c.key]
  BY <1>1, <1>4 DEF ChunkCmd
<1>7. c.block \in Blocks \cup {0} /\ c.key \in Keys \cup {0}
  BY DEF Chunk
<1> QED BY <1>1, <1>3, <1>4, <1>5, <1>6, <1>7 DEF Command, Text

(* The prefix that ends at the last grid line.                             *)
LEMMA BlockPrefix ==
  ASSUME NEW T, NEW ids \in Seq(T), NEW n \in 0..Len(ids)
  PROVE  /\ Grid * (n \div Grid) \in 0..n /\ Grid * (n \div Grid) \in 0..Len(ids)
         /\ Prefix(ids, Grid * (n \div Grid)) \in Seq(T)
         /\ Len(Prefix(ids, Grid * (n \div Grid))) = Grid * (n \div Grid)
         /\ (Grid * (n \div Grid)) \div Grid = n \div Grid
<1>1. Len(ids) \in Nat /\ n \in Nat /\ n <= Len(ids)
  BY LenProperties
<1>2. Grid \in Nat \ {0}
  BY FreeTypes
<1>3. PICK q \in Nat : q = n \div Grid /\ Grid * q <= n
  BY <1>1, <1>2, Quotient
<1>4. PICK m \in Nat : m = Grid * q
  BY <1>2
<1>5. m \in 0..n /\ m \in 0..Len(ids)
  BY <1>1, <1>3, <1>4
<1>6. Prefix(ids, m) \in Seq(T) /\ Len(Prefix(ids, m)) = m
  BY <1>5, PrefixIs
<1>7. m \div Grid = q
  BY <1>2, <1>4, QuotientIs
<1> QED BY <1>3, <1>4, <1>5, <1>6, <1>7

(* Prefills that differ only in how far they are.                          *)
LEMMA SameTiles ==
  ASSUME NEW p, NEW q, q.ids = p.ids, q.P = p.P, q.chunks = p.chunks
  PROVE  /\ \A j : Start(q, j) = Start(p, j)
         /\ Tiled(p) => Tiled(q)
<1>1. \A j : Start(q, j) = Start(p, j)
  BY DEF Start
<1> QED BY <1>1 DEF Tiled

LEMMA OpenIs ==
  ASSUME Shape, NEW ids \in Prompts, Open(ids)
  PROVE  /\ Pushes /\ MayEnter /\ Cardinality(FreeBlocks) >= Len(ids) \div Grid
         /\ Cardinality(FreeKeys) > Len(ids) \div Grid + Len(stack)
         /\ run'.ids = ids /\ run'.chunks = <<>> /\ run'.k = 0 /\ run'.new = <<>> /\ run'.ents = <<>> /\ run'.key = 0
         /\ \/ run'.pc = "plan" /\ run'.blocks = <<>> /\ UNCHANGED <<lru, cmds>>
            \/ \E e \in Entries : \E c \in Command :
                 /\ e \in Resumable(ids) /\ e \in Entry
                 /\ run'.pc = "restore" /\ run'.blocks = e.blocks
                 /\ lru' = Append(Where(lru, Keys \ {e.key}), e.key) /\ lru' \in Seq(Keys)
                 /\ c.op = "restore" /\ c.files = AllFiles(e) /\ Submit(c)
         /\ UNCHANGED <<index, refs, disk, dead, wq, history>>
<1>20. /\ MayEnter /\ Cardinality(FreeBlocks) >= Len(ids) \div Grid
       /\ Cardinality(FreeKeys) > Len(ids) \div Grid + Len(stack)
       /\ UNCHANGED <<index, refs, disk, dead, wq, history>>
  BY DEF Open
<1> DEFINE blank == [ids |-> ids, pc |-> "plan", P |-> 0, chunks |-> <<>>, k |-> 0,
                     blocks |-> <<>>, new |-> <<>>, ents |-> <<>>, key |-> 0]
<1>1. ids \in Seq(Tokens) /\ Len(ids) \in Nat /\ Grid \in Nat \ {0}
  BY FreeTypes, LenProperties DEF Text
<1>2. <<>> \in Seq(Blocks) /\ <<>> \in Seq(Entry) /\ <<>> \in Seq(Chunk) /\ Len(<<>>) = 0
  OBVIOUS
<1>3. ASSUME NEW pc \in {"restore", "plan"}, NEW P \in 0..Len(ids), NEW bs \in Seq(Blocks), Len(bs) = P \div Grid
      PROVE  [blank EXCEPT !.pc = pc, !.P = P, !.blocks = bs] \in Prefill
  <2>1. PICK p : p = [blank EXCEPT !.pc = pc, !.P = P, !.blocks = bs]
    OBVIOUS
  <2>2. p = [ids |-> ids, pc |-> pc, P |-> P, chunks |-> <<>>, k |-> 0,
             blocks |-> bs, new |-> <<>>, ents |-> <<>>, key |-> 0]
    BY <2>1
  <2>3. p \in Fields
    BY <1>1, <1>2, <2>2 DEF Fields, Text
  <2>4. Placed(p)
    BY <1>1, <1>2, <2>2 DEF Placed
  <2>5. Tiled(p)
    BY <1>2, <2>2 DEF Tiled
  <2>6. Counted(p)
    BY <1>3, <2>2 DEF Counted, Start
  <2> QED BY <2>1, <2>3, <2>4, <2>5, <2>6 DEF Prefill
<1>4. blank \in Prefill
  <2>1. 0 \div Grid = 0
    BY <1>1, QuotientIs
  <2>2. PICK p : p = [blank EXCEPT !.pc = "plan", !.P = 0, !.blocks = <<>>]
    OBVIOUS
  <2>3. "plan" \in {"restore", "plan"} /\ 0 \in 0..Len(ids) /\ Len(<<>>) = 0 \div Grid
    BY <1>1, <1>2, <2>1
  <2>4. p \in Prefill
    BY <1>2, <1>3, <2>2, <2>3
  <2>5. p = blank
    BY <2>2
  <2> QED BY <2>4, <2>5
<1>5. CASE Longest(Resumable(ids)) = {}
  <2>1. stack' = Append(stack, blank) /\ UNCHANGED <<lru, cmds>>
    BY <1>5 DEF Open
  <2>2. PICK p \in Prefill : p = blank
    BY <1>4
  <2>3. Pushes /\ run' = p
    BY <2>1, <2>2, PushesIs DEF Shape
  <2> QED BY <1>20, <2>1, <2>2, <2>3
<1>6. CASE Longest(Resumable(ids)) # {}
  <2>1. PICK e : e = First(Longest(Resumable(ids)))
    OBVIOUS
  <2>2. e \in Resumable(ids)
    <3>1. PICK S : S = Longest(Resumable(ids))
      OBVIOUS
    <3>2. S \subseteq Resumable(ids) /\ S \subseteq Entries /\ S # {}
      BY <1>6, <3>1 DEF Longest, Resumable
    <3>3. First(S) \in S
      BY <3>2, FirstIn DEF Shape
    <3> QED BY <2>1, <3>1, <3>2, <3>3
  <2>3. e \in Entry /\ Len(e.tokens) <= Len(ids)
    <3>1. Entries \subseteq Entry
      BY AsSet DEF Entries, Shape
    <3> QED BY <2>2, <3>1 DEF Resumable
  <2>4. /\ e.key \in Keys /\ e.tokens \in Seq(Tokens) /\ e.blocks \in Seq(Blocks)
        /\ Len(e.blocks) = Len(e.tokens) \div Grid
    BY <2>3 DEF Entry, Text
  <2>5. Len(e.tokens) \in 0..Len(ids)
    BY <1>1, <2>3, <2>4, LenProperties
  <2>6. PICK p : p = [blank EXCEPT !.pc = "restore", !.P = Len(e.tokens), !.blocks = e.blocks]
    OBVIOUS
  <2>7. p \in Prefill
    BY <1>3, <2>4, <2>5, <2>6
  <2>8. PICK c : c = [op |-> "restore", files |-> AllFiles(e)]
    OBVIOUS
  <2>9. c \in Command
    BY <2>4, <2>8, AllFilesAre DEF Command
  <2>10. /\ lru' = Append(Where(lru, Keys \ {e.key}), e.key) /\ stack' = Append(stack, p) /\ Submit(c)
    BY <1>6, <2>1, <2>6, <2>8 DEF Open
  <2>11. Pushes /\ run' = p
    BY <2>7, <2>10, PushesIs DEF Shape
  <2>12. /\ p.ids = ids /\ p.chunks = <<>> /\ p.k = 0 /\ p.new = <<>> /\ p.ents = <<>> /\ p.key = 0
         /\ p.pc = "restore" /\ p.blocks = e.blocks
    BY <2>6
  <2>13. lru' \in Seq(Keys)
    <3>1. Where(lru, Keys \ {e.key}) \in Seq(Keys)
      BY WhereSet DEF Shape
    <3> QED BY <2>4, <2>10, <3>1, AppendSet
  <2>14. e \in Entries
    BY <2>2 DEF Resumable
  <2>15. c.op = "restore" /\ c.files = AllFiles(e)
    BY <2>8
  <2> QED BY <1>20, <2>2, <2>3, <2>9, <2>10, <2>11, <2>12, <2>13, <2>14, <2>15
<1> QED BY <1>5, <1>6

LEMMA OpenShape ==
  ASSUME Shape, NEW ids \in Prompts, Open(ids)
  PROVE  Shape'
<1>1. Pushes /\ UNCHANGED <<index, refs, disk, wq>>
  BY OpenIs
<1>2. lru' \in Seq(Keys) /\ cmds' \in [Ranks -> Seq(Command)]
  <2>1. CASE UNCHANGED <<lru, cmds>>
    BY <2>1 DEF Shape
  <2>2. CASE lru' \in Seq(Keys) /\ \E c \in Command : Submit(c)
    BY <2>2, SubmitIs DEF Shape
  <2> QED BY <2>1, <2>2, OpenIs
<1> QED BY <1>1, <1>2 DEF Shape, Pushes

(* A step that only moves the running prefill on.                          *)
LEMMA RestoredIs ==
  ASSUME Shape, Restored \/ RestoreFails
  PROVE  /\ Steps /\ run.pc = "restore" /\ run'.pc = "plan" /\ dead = <<>> /\ cmds[0] = <<>>
         /\ run'.ids = run.ids /\ run.chunks = <<>> /\ run'.chunks = <<>> /\ run'.k = run.k
         /\ run.new = <<>> /\ run'.new = <<>> /\ run.ents = <<>> /\ run'.ents = <<>>
         /\ run.key = 0 /\ run'.key = 0
         /\ run'.blocks = run.blocks \/ run'.blocks = <<>>
         /\ UNCHANGED <<idx, disk, dead, ranks, failed, skipped, lost>>
<1>1. /\ stack \in Seq(Prefill) /\ stack # <<>> /\ run.pc = "restore" /\ dead = <<>> /\ cmds[0] = <<>>
      /\ UNCHANGED <<idx, disk, dead, ranks, failed, skipped, lost>>
  BY DEF Shape, Restored, RestoreFails, At, history
<1>2. run \in Prefill
  BY <1>1, RunIs
<1>3. PICK p \in Prefill : p = run
  BY <1>2
<1>4. p \in Fields /\ Placed(p) /\ Tiled(p) /\ Counted(p)
  BY FieldsOf
<1>7. p.chunks = <<>> /\ p.new = <<>> /\ p.ents = <<>> /\ p.key = 0
  BY <1>1, <1>3, <1>4 DEF Placed
<1>5. \E q \in Prefill :
        /\ Becomes(q) /\ q.ids = p.ids /\ q.chunks = p.chunks /\ q.k = p.k /\ q.pc = "plan"
        /\ q.new = p.new /\ q.ents = p.ents /\ q.key = p.key /\ (q.blocks = p.blocks \/ q.blocks = <<>>)
  <2>1. CASE Restored
    <3>1. PICK q : q = [p EXCEPT !.pc = "plan"]
      OBVIOUS
    <3>2. /\ q \in Fields /\ q.ids = p.ids /\ q.P = p.P /\ q.chunks = p.chunks /\ q.k = p.k /\ q.pc = "plan"
          /\ q.blocks = p.blocks /\ q.new = p.new /\ q.ents = p.ents /\ q.key = p.key
      BY <1>4, <3>1 DEF Fields
    <3>3. Tiled(q) /\ Counted(q)
      BY <1>4, <3>2, SameTiles DEF Counted
    <3>4. Placed(q)
      BY <1>1, <1>3, <1>4, <3>2 DEF Placed
    <3>5. Becomes(q)
      BY <1>3, <2>1, <3>1 DEF Restored
    <3> QED BY <3>2, <3>3, <3>4, <3>5 DEF Prefill
  <2>2. CASE RestoreFails
    <3>1. PICK q : q = [p EXCEPT !.pc = "plan", !.P = 0, !.blocks = <<>>]
      OBVIOUS
    <3>2. /\ q \in Fields /\ q.ids = p.ids /\ q.P = 0 /\ q.chunks = p.chunks /\ q.k = p.k /\ q.pc = "plan"
          /\ q.blocks = <<>> /\ q.new = p.new /\ q.ents = p.ents /\ q.key = p.key
      <4>1. 0 \in Nat /\ <<>> \in Seq(Blocks)
        OBVIOUS
      <4> QED BY <1>4, <3>1, <4>1 DEF Fields
    <3>3. p.chunks = <<>> /\ p.k <= Len(p.chunks)
      BY <1>1, <1>3, <1>4 DEF Placed
    <3>4. p.k = 0 /\ Len(p.ids) \in Nat
      BY <3>3, FieldsOf
    <3>5. Tiled(q)
      BY <3>2, <3>3 DEF Tiled
    <3>6. 0 \div Grid = 0
      BY FreeTypes, QuotientIs
    <3>7. Counted(q)
      BY <3>2, <3>4, <3>6 DEF Counted, Start
    <3>8. Placed(q)
      BY <1>1, <1>3, <1>4, <3>2, <3>4 DEF Placed
    <3>9. Becomes(q)
      BY <1>3, <2>2, <3>1 DEF RestoreFails
    <3> QED BY <3>2, <3>5, <3>7, <3>8, <3>9 DEF Prefill
  <2> QED BY <2>1, <2>2
<1>6. PICK q \in Prefill :
        /\ Becomes(q) /\ q.ids = p.ids /\ q.chunks = p.chunks /\ q.k = p.k /\ q.pc = "plan"
        /\ q.new = p.new /\ q.ents = p.ents /\ q.key = p.key /\ (q.blocks = p.blocks \/ q.blocks = <<>>)
  BY <1>5
<1>8. Steps /\ run' = q
  BY <1>1, <1>6, StepsIs
<1> QED BY <1>1, <1>3, <1>6, <1>7, <1>8

LEMMA RestoredShape ==
  ASSUME Shape, Restored \/ RestoreFails
  PROVE  Shape'
<1>1. Steps /\ UNCHANGED <<idx, disk, ranks>>
  BY RestoredIs
<1> QED BY <1>1 DEF Shape, Steps, idx, ranks

LEMMA PlannedIs ==
  ASSUME index \in Seq(Entry), NEW p \in Prefill, p.pc = "plan",
         Cardinality(FreeBlocks) >= Cardinality(NewBlocks(p.ids, p.P)),
         Cardinality(FreeKeys) >= Cardinality(NewEntries(p.ids, p.P))
  PROVE  LET chunks == GridPlan(p.ids, p.P)
             q == AsPlanned(p)
         IN  /\ q \in Prefill /\ q.chunks = chunks /\ q.k = 0 /\ q.pc = (IF chunks = <<>> THEN "end" ELSE "wait")
             /\ q.ids = p.ids /\ q.P = p.P /\ q.blocks = p.blocks /\ q.new = <<>> /\ q.ents = <<>> /\ q.key = 0
             /\ PlanParts(p.ids, p.P, chunks)
<1>15. PICK chunks : chunks = GridPlan(p.ids, p.P)
  OBVIOUS
<1>16. PICK q : q = AsPlanned(p)
  OBVIOUS
<1>17. q = [p EXCEPT !.chunks = chunks, !.pc = IF chunks = <<>> THEN "end" ELSE "wait"]
  BY <1>15, <1>16 DEF AsPlanned
<1>1. /\ p \in Fields /\ p.ids \in Seq(Tokens) /\ p.P \in Nat /\ p.P <= Len(p.ids) /\ p.k = 0 /\ p.key = 0
      /\ Len(p.ids) \in Nat /\ p.new = <<>> /\ p.ents = <<>> /\ p.chunks = <<>> /\ Len(p.blocks) = p.P \div Grid
  <2>1. p \in Fields /\ p.k \in Nat /\ p.P \in Nat /\ Placed(p) /\ Counted(p) /\ p.ids \in Seq(Tokens) /\ Len(p.ids) \in Nat
    BY FieldsOf
  <2>2. p.chunks = <<>> /\ p.k <= Len(p.chunks) /\ p.new = <<>> /\ p.ents = <<>> /\ p.key = 0 /\ p.P <= Len(p.ids)
    BY <2>1 DEF Placed
  <2>3. p.k = 0
    BY <2>1, <2>2
  <2>4. Start(p, p.k + 1) = p.P
    BY <2>3 DEF Start
  <2> QED BY <2>1, <2>2, <2>3, <2>4 DEF Counted
<1>2. PICK cuts : cuts = Cuts(p.ids, p.P)
  OBVIOUS
<1>3. PlanParts(p.ids, p.P, chunks) /\ Covers(cuts, p.P, Len(p.ids), Grid)
  BY <1>1, <1>2, <1>15, PlanIs DEF Text
<1>4. PICK n \in Nat : n = Len(cuts)
  BY <1>3, LenProperties DEF Covers
<1>5. /\ chunks \in Seq(Chunk) /\ Len(chunks) = n /\ \A j \in 1..n : chunks[j].end = cuts[j][2]
  BY <1>2, <1>3, <1>4 DEF PlanParts
<1>6. \A j \in 1..n : cuts[j] \in Nat \X Nat /\ cuts[j][1] \in Nat /\ cuts[j][2] \in Nat
  <2>1. \A j \in 1..n : cuts[j] \in Nat \X Nat
    BY <1>3, <1>4, ElementOfSeq DEF Covers
  <2> QED BY <2>1
<1>7. chunks = <<>> <=> n = 0
  BY <1>5, EmptySeq
<1>8. /\ q.chunks = chunks /\ q.k = 0 /\ q.pc = (IF chunks = <<>> THEN "end" ELSE "wait")
      /\ q.ids = p.ids /\ q.P = p.P /\ q.blocks = p.blocks /\ q.new = <<>> /\ q.ents = <<>> /\ q.key = 0
      /\ q \in Fields
  BY <1>1, <1>5, <1>17 DEF Fields
<1>9. \A j \in 1..n : Start(q, j) = cuts[j][1]
  <2>1. ASSUME NEW j \in 1..n, j = 1 PROVE Start(q, j) = cuts[j][1]
    <3>1. cuts # <<>>
      BY <1>3, <1>4, <2>1, EmptySeq
    <3> QED BY <1>3, <1>8, <2>1, <3>1 DEF Covers, Start
  <2>2. ASSUME NEW j \in 1..n, j # 1 PROVE Start(q, j) = cuts[j][1]
    <3>1. PICK i \in 1..(n - 1) : j = i + 1
      <4>1. j - 1 \in 1..(n - 1) /\ j = (j - 1) + 1
        BY <2>2
      <4> QED BY <4>1
    <3>2. cuts[i][2] = cuts[i + 1][1]
      BY <1>3, <1>4 DEF Covers
    <3>3. i \in 1..n /\ j - 1 = i
      BY <3>1
    <3> QED BY <1>5, <1>8, <2>2, <3>1, <3>2, <3>3 DEF Start
  <2> QED BY <2>1, <2>2
<1>10. Start(q, n + 1) = Len(p.ids)
  <2>1. CASE n = 0
    <3>1. cuts = <<>>
      BY <1>3, <1>4, <2>1, EmptySeq DEF Covers
    <3> QED BY <1>3, <1>8, <2>1, <3>1 DEF Covers, Start
  <2>2. CASE n # 0
    <3>1. cuts # <<>>
      BY <1>3, <1>4, <2>2, EmptySeq
    <3>2. cuts[n][2] = Len(p.ids) /\ n \in 1..n /\ n + 1 # 1 /\ (n + 1) - 1 = n
      BY <1>3, <1>4, <2>2, <3>1 DEF Covers
    <3> QED BY <1>5, <1>8, <3>2 DEF Start
  <2> QED BY <2>1, <2>2
<1>11. Placed(q)
  <2>1. q.pc \in {"end", "wait"}
    BY <1>8
  <2>2. q.P <= Len(q.ids) /\ q.k <= Len(q.chunks) /\ Start(q, Len(q.chunks) + 1) = Len(q.ids)
    BY <1>1, <1>5, <1>8, <1>10
  <2>3. q.pc = "wait" => q.k < Len(q.chunks)
    BY <1>5, <1>7, <1>8
  <2>4. q.pc = "end" => q.k = Len(q.chunks)
    BY <1>5, <1>7, <1>8
  <2> QED BY <1>8, <2>1, <2>2, <2>3, <2>4 DEF Placed
<1>12. ASSUME NEW j \in 1..n
       PROVE  LET c == q.chunks[j] IN
              /\ Start(q, j) < c.end /\ c.end <= Start(q, j) + Grid /\ c.end <= Len(q.ids)
              /\ FullBlock(c) > Start(q, j) => IF c.block # 0 THEN c.adopt = <<>> ELSE Len(c.adopt) = c.end \div Grid
              /\ FullBlock(c) <= Start(q, j) => c.block = 0 /\ c.adopt = <<>>
  <2>1. PICK c : c = q.chunks[j]
    OBVIOUS
  <2>2. PICK a \in Nat : a = cuts[j][1]
    BY <1>6
  <2>3. PICK e \in Nat : e = cuts[j][2]
    BY <1>6
  <2>4. c.end = e /\ Start(q, j) = a
    BY <1>5, <1>8, <1>9, <2>1, <2>2, <2>3
  <2>5. a < e /\ e <= a + Grid /\ e <= Len(p.ids)
    BY <1>3, <1>4, <2>2, <2>3 DEF Covers
  <2>6. /\ FullBlock(c) = BlockEnd(cuts[j]) /\ FullBlock(c) = Grid * (e \div Grid)
        /\ Completes(cuts[j]) <=> FullBlock(c) > a
    BY <2>2, <2>3, <2>4 DEF FullBlock, BlockEnd, Completes
  <2>7. e \in 0..Len(p.ids)
    BY <2>5, <1>1
  <2>8. /\ FullBlock(c) \in 0..Len(p.ids) /\ Len(Prefix(p.ids, FullBlock(c))) = FullBlock(c)
        /\ FullBlock(c) \div Grid = e \div Grid
    BY <1>1, <2>6, <2>7, BlockPrefix
  <2>9. /\ IF j \in NewBlocks(p.ids, p.P) THEN c.block \in FreeBlocks ELSE c.block = 0
        /\ IF Completes(cuts[j]) /\ j \notin NewBlocks(p.ids, p.P)
           THEN \E x \in Entries : x.tokens = Prefix(p.ids, FullBlock(c)) /\ c.adopt = x.blocks
           ELSE c.adopt = <<>>
    BY <1>2, <1>3, <1>5, <1>8, <2>1 DEF PlanParts
  <2>10. j \in NewBlocks(p.ids, p.P) => Completes(cuts[j])
    BY <1>2 DEF NewBlocks
  <2>11. 0 \notin FreeBlocks
    BY FreeTypes
  <2>12. ASSUME FullBlock(c) > a, c.block = 0 PROVE Len(c.adopt) = e \div Grid
    <3>1. Completes(cuts[j]) /\ j \notin NewBlocks(p.ids, p.P)
      BY <2>6, <2>9, <2>11, <2>12
    <3>2. PICK x \in Entries : x.tokens = Prefix(p.ids, FullBlock(c)) /\ c.adopt = x.blocks
      BY <2>9, <3>1
    <3>3. x \in Entry
      BY AsSet DEF Entries
    <3>4. Len(x.blocks) = Len(x.tokens) \div Grid
      BY <3>3 DEF Entry
    <3> QED BY <2>8, <3>2, <3>4
  <2>13. ASSUME c.block # 0 PROVE c.adopt = <<>>
    BY <2>9, <2>13
  <2>14. ASSUME FullBlock(c) <= a PROVE c.block = 0 /\ c.adopt = <<>>
    <3>1. ~Completes(cuts[j])
      BY <2>6, <2>8, <2>14
    <3> QED BY <2>9, <2>10, <3>1
  <2>15. Start(q, j) < c.end /\ c.end <= Start(q, j) + Grid /\ c.end <= Len(q.ids)
    BY <1>8, <2>4, <2>5
  <2> QED BY <2>1, <2>4, <2>12, <2>13, <2>14, <2>15
<1>13. Tiled(q)
  BY <1>5, <1>8, <1>12 DEF Tiled
<1>14. Counted(q)
  BY <1>1, <1>8 DEF Counted, Start
<1> QED BY <1>15, <1>16, <1>3, <1>8, <1>11, <1>13, <1>14 DEF Prefill

LEMMA PlanActs ==
  ASSUME Shape, Plan
  PROVE  /\ Steps /\ run.pc = "plan" /\ dead = <<>> /\ cmds[0] = <<>>
         /\ run'.chunks = GridPlan(run.ids, run.P) /\ PlanParts(run.ids, run.P, run'.chunks)
         /\ run'.pc = (IF run'.chunks = <<>> THEN "end" ELSE "wait")
         /\ run'.ids = run.ids /\ run.chunks = <<>> /\ run'.k = 0 /\ run'.blocks = run.blocks
         /\ run.new = <<>> /\ run'.new = <<>> /\ run.ents = <<>> /\ run'.ents = <<>>
         /\ run.key = 0 /\ run'.key = 0
         /\ IF run'.chunks = <<>> THEN UNCHANGED cmds
            ELSE \E c \in Command : 1 \in 1..Len(run'.chunks) /\ c = ChunkCmd(run', 1) /\ Submit(c)
         /\ cmds' \in [Ranks -> Seq(Command)]
         /\ UNCHANGED <<idx, disk, dead, wq, history>>
<1>1. /\ stack \in Seq(Prefill) /\ stack # <<>> /\ run.pc = "plan" /\ dead = <<>> /\ cmds[0] = <<>>
      /\ UNCHANGED <<idx, disk, dead, wq, history>>
      /\ cmds \in [Ranks -> Seq(Command)]
      /\ Cardinality(FreeBlocks) >= Cardinality(NewBlocks(run.ids, run.P))
      /\ Cardinality(FreeKeys) >= Cardinality(NewEntries(run.ids, run.P))
  BY DEF Shape, Plan, At
<1>2. PICK p \in Prefill : p = run
  BY <1>1, RunIs
<1>3. PICK chunks : chunks = GridPlan(p.ids, p.P)
  OBVIOUS
<1>4. PICK q : q = AsPlanned(p)
  OBVIOUS
<1>5. /\ q \in Prefill /\ q.chunks = chunks /\ q.k = 0 /\ q.pc = (IF chunks = <<>> THEN "end" ELSE "wait")
      /\ q.ids = p.ids /\ q.blocks = p.blocks /\ q.new = <<>> /\ q.ents = <<>> /\ q.key = 0
      /\ PlanParts(p.ids, p.P, chunks)
  <2>1. /\ p.pc = "plan" /\ index \in Seq(Entry)
        /\ Cardinality(FreeBlocks) >= Cardinality(NewBlocks(p.ids, p.P))
        /\ Cardinality(FreeKeys) >= Cardinality(NewEntries(p.ids, p.P))
    BY <1>1, <1>2 DEF Shape
  <2> QED BY <1>3, <1>4, <2>1, PlannedIs
<1>6. Becomes(q) /\ (IF chunks = <<>> THEN UNCHANGED cmds ELSE Submit(ChunkCmd(q, 1)))
  BY <1>2, <1>3, <1>4 DEF Plan, AsPlanned
<1>7. /\ IF chunks = <<>> THEN UNCHANGED cmds
         ELSE \E c \in Command : 1 \in 1..Len(q.chunks) /\ c = ChunkCmd(q, 1) /\ Submit(c)
      /\ cmds' \in [Ranks -> Seq(Command)]
  <2>1. CASE chunks = <<>>
    BY <1>1, <1>6, <2>1
  <2>2. CASE chunks # <<>>
    <3>1. 1 \in 1..Len(q.chunks)
      BY <1>5, <2>2, FieldsOf, EmptySeq
    <3>2. PICK c \in Command : c = ChunkCmd(q, 1)
      BY <1>5, <3>1, ChunkCmdIs
    <3> QED BY <1>1, <1>6, <2>2, <3>1, <3>2, SubmitIs
  <2> QED BY <2>1, <2>2
<1>8. Steps /\ run' = q
  BY <1>1, <1>5, <1>6, StepsIs
<1>9. p.chunks = <<>> /\ p.new = <<>> /\ p.ents = <<>> /\ p.key = 0
  BY <1>1, <1>2, FieldsOf DEF Placed
<1> QED BY <1>1, <1>2, <1>3, <1>5, <1>7, <1>8, <1>9

LEMMA PlanShape ==
  ASSUME Shape, Plan
  PROVE  Shape'
<1>1. Steps /\ UNCHANGED <<idx, disk, wq>> /\ cmds' \in [Ranks -> Seq(Command)]
  BY PlanActs
<1> QED BY <1>1 DEF Shape, Steps, idx

LEMMA ContinueIs ==
  ASSUME Shape, Continue
  PROVE  /\ Steps /\ run.pc = "wait" /\ run'.pc = "rows" /\ dead = <<>> /\ cmds[0] = <<>>
         /\ run'.ids = run.ids /\ run'.chunks = run.chunks /\ run'.k = run.k /\ run'.blocks = run.blocks
         /\ run'.new = run.new /\ run'.ents = run.ents /\ run'.key = run.key
         /\ run.k + 1 \in 1..Len(run.chunks)
         /\ IF run.k + 1 < Len(run.chunks)
            THEN \E c \in Command : /\ run.k + 2 \in 1..Len(run.chunks)
                                    /\ c = ChunkCmd(run, run.k + 2) /\ Submit(c)
            ELSE UNCHANGED cmds
         /\ cmds' \in [Ranks -> Seq(Command)]
         /\ UNCHANGED <<idx, disk, dead, wq, history>>
<1>1. /\ stack \in Seq(Prefill) /\ stack # <<>> /\ run.pc = "wait" /\ dead = <<>> /\ cmds[0] = <<>>
      /\ UNCHANGED <<idx, disk, dead, wq, history>>
      /\ cmds \in [Ranks -> Seq(Command)]
  BY DEF Shape, Continue, At
<1>2. PICK p \in Prefill : p = run
  BY <1>1, RunIs
<1>3. PICK q : q = [p EXCEPT !.pc = "rows"]
  OBVIOUS
<1>4. /\ q \in Prefill /\ q.ids = p.ids /\ q.chunks = p.chunks /\ q.k = p.k /\ q.pc = "rows"
      /\ q.blocks = p.blocks /\ q.new = p.new /\ q.ents = p.ents /\ q.key = p.key
  <2>1. p \in Fields /\ Placed(p) /\ Tiled(p) /\ Counted(p)
    BY FieldsOf
  <2>2. /\ q \in Fields /\ q.ids = p.ids /\ q.P = p.P /\ q.chunks = p.chunks /\ q.k = p.k /\ q.pc = "rows"
        /\ q.blocks = p.blocks /\ q.new = p.new /\ q.ents = p.ents /\ q.key = p.key
    BY <1>3, <2>1 DEF Fields
  <2>3. Tiled(q) /\ Counted(q)
    BY <2>1, <2>2, SameTiles DEF Counted
  <2>4. Placed(q)
    BY <1>1, <1>2, <2>1, <2>2, SameTiles DEF Placed
  <2> QED BY <2>2, <2>3, <2>4 DEF Prefill
<1>5. Becomes(q) /\ (IF p.k + 1 < Len(p.chunks) THEN Submit(ChunkCmd(p, p.k + 2)) ELSE UNCHANGED cmds)
  BY <1>2, <1>3 DEF Continue
<1>6. p.k + 1 \in 1..Len(p.chunks) /\ p.k \in Nat /\ Len(p.chunks) \in Nat
  BY <1>1, <1>2, FieldsOf DEF Placed
<1>7. /\ IF p.k + 1 < Len(p.chunks)
         THEN \E c \in Command : p.k + 2 \in 1..Len(p.chunks) /\ c = ChunkCmd(p, p.k + 2) /\ Submit(c)
         ELSE UNCHANGED cmds
      /\ cmds' \in [Ranks -> Seq(Command)]
  <2>1. CASE p.k + 1 < Len(p.chunks)
    <3>1. PICK k \in 1..Len(p.chunks) : k = p.k + 2
      BY <1>6, <2>1
    <3>2. PICK c \in Command : c = ChunkCmd(p, k)
      BY ChunkCmdIs
    <3> QED BY <1>1, <1>5, <2>1, <3>1, <3>2, SubmitIs
  <2>2. CASE ~(p.k + 1 < Len(p.chunks))
    BY <1>1, <1>5, <2>2
  <2> QED BY <2>1, <2>2
<1>8. Steps /\ run' = q
  BY <1>1, <1>4, <1>5, StepsIs
<1> QED BY <1>1, <1>2, <1>4, <1>6, <1>7, <1>8

LEMMA ContinueShape ==
  ASSUME Shape, Continue
  PROVE  Shape'
<1>1. Steps /\ UNCHANGED <<idx, disk, wq>> /\ cmds' \in [Ranks -> Seq(Command)]
  BY ContinueIs
<1> QED BY <1>1 DEF Shape, Steps, idx

LEMMA SavedIs ==
  ASSUME NEW p \in Prefill, p.pc = "rows"
  PROVE  LET q == Saved(p)
             c == p.chunks[p.k + 1]
             e == [key |-> c.key, tokens |-> Prefix(p.ids, c.end), blocks |-> q.blocks, capture |-> FALSE]
         IN  /\ q \in Prefill /\ q.ids = p.ids /\ q.P = p.P /\ q.chunks = p.chunks /\ q.key = 0 /\ p.key = 0
             /\ q.k = p.k + 1 /\ p.k + 1 \in 1..Len(p.chunks) /\ c \in Chunk
             /\ q.pc = (IF p.k + 1 < Len(p.chunks) THEN "wait" ELSE "end")
             /\ q.blocks = BlocksWith(p, c) /\ Len(q.blocks) = c.end \div Grid
             /\ q.new = (IF c.block = 0 THEN p.new ELSE Append(p.new, c.block))
             /\ q.ents = (IF c.key = 0 THEN p.ents ELSE Append(p.ents, e))
             /\ c.key # 0 => e \in Entry
             /\ c.end \in 0..Len(p.ids)
<1>1. /\ p \in Fields /\ p.ids \in Seq(Tokens) /\ p.P \in Nat /\ p.k \in Nat /\ p.blocks \in Seq(Blocks)
      /\ p.new \in Seq(Blocks) /\ p.ents \in Seq(Entry) /\ p.chunks \in Seq(Chunk)
      /\ Len(p.ids) \in Nat /\ Len(p.chunks) \in Nat /\ Len(p.blocks) \in Nat
      /\ Placed(p) /\ Tiled(p) /\ Counted(p)
      /\ \A j \in 1..Len(p.chunks) : p.chunks[j] \in Chunk
  BY FieldsOf
<1>2. p.k < Len(p.chunks) /\ p.key = 0 /\ Start(p, Len(p.chunks) + 1) = Len(p.ids)
  BY <1>1 DEF Placed
<1>3. PICK j \in 1..Len(p.chunks) : j = p.k + 1
  BY <1>1, <1>2
<1>4. PICK c \in Chunk : c = p.chunks[j]
  BY <1>1
<1>5. PICK a \in Nat : a = Start(p, j)
  <2>1. j # 1 => p.chunks[j - 1] \in Chunk
    BY <1>1, <1>3
  <2>2. Start(p, j) \in Nat
    BY <1>1, <2>1 DEF Start, Chunk
  <2> QED BY <2>2
<1>6. /\ a < c.end /\ c.end <= a + Grid /\ c.end <= Len(p.ids) /\ c.end \in Nat
      /\ FullBlock(c) > a => IF c.block # 0 THEN c.adopt = <<>> ELSE Len(c.adopt) = c.end \div Grid
      /\ FullBlock(c) <= a => c.block = 0 /\ c.adopt = <<>>
  BY <1>1, <1>4, <1>5 DEF Tiled, Chunk
<1>7. Len(p.blocks) = a \div Grid
  BY <1>1, <1>3, <1>5 DEF Counted
<1>8. /\ FullBlock(c) > a => c.end \div Grid = a \div Grid + 1
      /\ FullBlock(c) <= a => c.end \div Grid = a \div Grid
      /\ c.end \div Grid \in Nat /\ a \div Grid \in Nat /\ FullBlock(c) \in Nat
  <2>1. PICK e \in Nat : e = c.end
    BY <1>6
  <2>2. a < e /\ e <= a + Grid
    BY <1>6, <2>1
  <2>3. /\ Grid * (e \div Grid) > a => e \div Grid = a \div Grid + 1
        /\ Grid * (e \div Grid) <= a => e \div Grid = a \div Grid
        /\ e \div Grid \in Nat /\ a \div Grid \in Nat /\ Grid * (e \div Grid) \in 0..e
    BY <2>2, GridStep
  <2>4. Grid * (e \div Grid) \in Nat
    BY <2>3
  <2> QED BY <2>1, <2>3, <2>4 DEF FullBlock
<1>9. PICK blocks : blocks = BlocksWith(p, c)
  OBVIOUS
<1>10. c.block \in Blocks \cup {0} /\ c.adopt \in Seq(Blocks) /\ c.key \in Keys \cup {0}
  BY DEF Chunk
<1>11. blocks \in Seq(Blocks) /\ Len(blocks) = c.end \div Grid
  <2>1. CASE FullBlock(c) > a /\ c.block # 0
    <3>1. c.adopt = <<>> /\ c.block \in Blocks
      BY <1>6, <1>10, <2>1
    <3>2. blocks = Append(p.blocks, c.block)
      BY <1>9, <2>1, <3>1 DEF BlocksWith
    <3>3. Append(p.blocks, c.block) \in Seq(Blocks) /\ Len(Append(p.blocks, c.block)) = Len(p.blocks) + 1
      BY <1>1, <3>1, AppendSet
    <3> QED BY <1>7, <1>8, <2>1, <3>2, <3>3
  <2>2. CASE FullBlock(c) > a /\ c.block = 0
    <3>1. Len(c.adopt) = c.end \div Grid
      BY <1>6, <2>2
    <3>2. Len(c.adopt) # 0
      BY <1>8, <2>2, <3>1
    <3>3. c.adopt # <<>>
      BY <3>2, EmptySeq
    <3> QED BY <1>9, <1>10, <3>1, <3>3 DEF BlocksWith
  <2>3. CASE FullBlock(c) <= a
    <3>1. c.block = 0 /\ c.adopt = <<>>
      BY <1>6, <2>3
    <3> QED BY <1>1, <1>7, <1>8, <1>9, <2>3, <3>1 DEF BlocksWith
  <2> QED BY <1>8, <2>1, <2>2, <2>3
<1>12. c.end \in 0..Len(p.ids)
  BY <1>1, <1>6
<1>13. PICK tokens : tokens = Prefix(p.ids, c.end)
  OBVIOUS
<1>14. tokens \in Seq(Tokens) /\ Len(tokens) = c.end
  BY <1>1, <1>12, <1>13, PrefixIs
<1>15. PICK e : e = [key |-> c.key, tokens |-> tokens, blocks |-> blocks, capture |-> FALSE]
  OBVIOUS
<1>16. c.key # 0 => e \in Entry
  BY <1>10, <1>11, <1>14, <1>15 DEF Entry, Text
<1>17. PICK new : new = IF c.block = 0 THEN p.new ELSE Append(p.new, c.block)
  OBVIOUS
<1>18. new \in Seq(Blocks)
  <2>1. c.block # 0 => Append(p.new, c.block) \in Seq(Blocks)
    BY <1>1, <1>10, AppendSet
  <2> QED BY <1>1, <1>17, <2>1
<1>19. PICK ents : ents = IF c.key = 0 THEN p.ents ELSE Append(p.ents, e)
  OBVIOUS
<1>20. ents \in Seq(Entry)
  <2>1. c.key # 0 => Append(p.ents, e) \in Seq(Entry)
    BY <1>1, <1>16, AppendSet
  <2> QED BY <1>1, <1>19, <2>1
<1>21. PICK pc : pc = IF p.k + 1 < Len(p.chunks) THEN "wait" ELSE "end"
  OBVIOUS
<1>22. PICK q : q = Saved(p)
  OBVIOUS
<1>23. q = [p EXCEPT !.k = p.k + 1, !.blocks = blocks, !.new = new, !.ents = ents, !.pc = pc]
  <2>1. q = [p EXCEPT
         !.k = @ + 1, !.blocks = blocks,
         !.new = IF c.block = 0 THEN @ ELSE Append(@, c.block),
         !.ents = IF c.key = 0 THEN @ ELSE Append(@, e),
         !.pc = IF p.k + 1 < Len(p.chunks) THEN "wait" ELSE "end"]
    BY <1>3, <1>4, <1>9, <1>13, <1>15, <1>22 DEF Saved
  <2> QED BY <1>1, <1>17, <1>19, <1>21, <2>1 DEF Fields
<1>29. pc \in {"wait", "end"} /\ p.k + 1 \in Nat
  BY <1>1, <1>21
<1>24. /\ q \in Fields /\ q.ids = p.ids /\ q.P = p.P /\ q.chunks = p.chunks /\ q.key = p.key /\ q.k = p.k + 1
       /\ q.blocks = blocks /\ q.new = new /\ q.ents = ents /\ q.pc = pc
  BY <1>1, <1>11, <1>18, <1>20, <1>23, <1>29 DEF Fields
<1>25. Tiled(q) /\ \A i : Start(q, i) = Start(p, i)
  BY <1>1, <1>24, SameTiles
<1>26. Counted(q)
  <2>1. q.k + 1 # 1 /\ (q.k + 1) - 1 = j
    BY <1>1, <1>3, <1>24
  <2>2. Start(q, q.k + 1) = c.end
    BY <1>4, <1>24, <2>1 DEF Start
  <2> QED BY <1>11, <1>24, <2>2 DEF Counted
<1>27. Placed(q)
  <2>1. q.P <= Len(q.ids) /\ q.k <= Len(q.chunks) /\ q.key = 0 /\ Start(q, Len(q.chunks) + 1) = Len(q.ids)
    BY <1>1, <1>2, <1>24, <1>25 DEF Placed
  <2>2. q.pc \in {"wait", "end"} /\ (q.pc = "wait" => q.k < Len(q.chunks)) /\ (q.pc = "end" => q.k = Len(q.chunks))
    BY <1>1, <1>2, <1>21, <1>24
  <2> QED BY <2>1, <2>2 DEF Placed
<1>28. q \in Prefill
  BY <1>24, <1>25, <1>26, <1>27 DEF Prefill
<1> QED BY <1>2, <1>3, <1>4, <1>9, <1>11, <1>12, <1>13, <1>15, <1>16, <1>17, <1>19, <1>21, <1>22, <1>24, <1>28

LEMMA GridDoneIs ==
  ASSUME stack \in Seq(Prefill), GridDone
  PROVE  /\ Steps /\ run.pc = "rows" /\ dead = <<>> /\ run' = Saved(run) /\ disk' = RowsSaved(run)
         /\ UNCHANGED <<idx, dead, ranks, history>>
<1>1. stack # <<>> /\ run.pc = "rows" /\ dead = <<>> /\ UNCHANGED <<idx, dead, ranks, history>>
  BY DEF GridDone
<1>2. run \in Prefill
  BY <1>1, RunIs
<1>3. Becomes(Saved(run)) /\ disk' = RowsSaved(run)
  BY DEF GridDone, Saved, RowsSaved
<1>4. PICK q \in Prefill : q = Saved(run)
  BY <1>1, <1>2, SavedIs
<1>5. Steps /\ run' = q
  BY <1>1, <1>3, <1>4, StepsIs
<1> QED BY <1>1, <1>3, <1>4, <1>5

(* Writing a file of tokens.                                               *)
LEMMA WriteTyped ==
  ASSUME NEW d, Directory(d), NEW f \in FileNames, f[1] # "idx", NEW t \in Text
  PROVE  Directory(With(d, f, t))
<1>1. PICK w : w = With(d, f, t)
  OBVIOUS
<1>2. DOMAIN w = DOMAIN d \cup {f} /\ w[f] = t /\ \A y \in DOMAIN d : y # f => w[y] = d[y]
  BY <1>1 DEF With
<1>3. Directory(w)
  BY <1>2 DEF Directory
<1> QED BY <1>1, <1>3

LEMMA UnlinkTyped ==
  ASSUME NEW d, Directory(d), NEW S
  PROVE  Directory(Without(d, S))
<1>1. PICK w : w = Without(d, S)
  OBVIOUS
<1>2. DOMAIN w = DOMAIN d \ S /\ \A y \in DOMAIN d \ S : w[y] = d[y]
  BY <1>1 DEF Without
<1>3. Directory(w)
  BY <1>2 DEF Directory
<1> QED BY <1>1, <1>3

LEMMA RowsSavedTyped ==
  ASSUME Directory(disk), NEW p \in Prefill, p.pc = "rows"
  PROVE  Directory(RowsSaved(p))
<1>1. PICK c \in Chunk : c = p.chunks[p.k + 1] /\ c.end \in 0..Len(p.ids)
  BY SavedIs
<1>2. p.ids \in Seq(Tokens)
  BY FieldsOf
<1>3. PICK block \in Text : block = Prefix(p.ids, Grid * (c.end \div Grid))
  BY <1>1, <1>2, BlockPrefix DEF Text
<1>4. PICK tokens \in Text : tokens = Prefix(p.ids, c.end)
  BY <1>1, <1>2, PrefixIs DEF Text
<1>5. PICK rows : rows = IF c.block = 0 THEN disk ELSE With(disk, <<"rows", c.block, 0>>, block)
  OBVIOUS
<1>6. Directory(rows)
  <2>1. ASSUME c.block # 0 PROVE Directory(With(disk, <<"rows", c.block, 0>>, block))
    <3>1. c.block \in Blocks
      BY <2>1 DEF Chunk
    <3>2. PICK f : f = <<"rows", c.block, 0>>
      OBVIOUS
    <3>3. f \in FileNames /\ f[1] # "idx"
      BY <3>1, <3>2 DEF FileNames
    <3>4. Directory(With(disk, f, block))
      BY <3>3, WriteTyped
    <3> QED BY <3>2, <3>4
  <2> QED BY <1>5, <2>1
<1>7. ASSUME c.key # 0 PROVE Directory(With(rows, <<"tail", c.key, 0>>, tokens))
  <2>1. c.key \in Keys
    BY <1>7 DEF Chunk
  <2>2. PICK f : f = <<"tail", c.key, 0>>
    OBVIOUS
  <2>3. f \in FileNames /\ f[1] # "idx"
    BY <2>1, <2>2 DEF FileNames
  <2>4. Directory(With(rows, f, tokens))
    BY <1>6, <2>3, WriteTyped
  <2> QED BY <2>2, <2>4
<1>8. RowsSaved(p) = IF c.key = 0 THEN rows ELSE With(rows, <<"tail", c.key, 0>>, tokens)
  BY <1>1, <1>3, <1>4, <1>5 DEF RowsSaved
<1> QED BY <1>6, <1>7, <1>8

LEMMA GridDoneShape ==
  ASSUME Shape, GridDone
  PROVE  Shape'
<1>1. Steps /\ run.pc = "rows" /\ disk' = RowsSaved(run) /\ UNCHANGED <<idx, ranks>>
  BY GridDoneIs DEF Shape
<1>2. Directory(disk')
  <2>1. PICK p \in Prefill : p = run
    BY <1>1 DEF Steps
  <2> QED BY <1>1, <2>1, RowsSavedTyped DEF Shape
<1> QED BY <1>1, <1>2 DEF Shape, Steps, idx, ranks

LEMMA AbortIs ==
  ASSUME Shape, Fail \/ ChunkFails \/ ReplyFails
  PROVE  /\ Pops /\ dead = <<>> /\ UNCHANGED <<idx, disk, wq, skipped>> /\ (UNCHANGED failed \/ failed' = TRUE)
         /\ lost' = {"block", "entry"}
         /\ cmds' \in [Ranks -> Seq(Command)]
         /\ \/ cmds[0] = <<>> /\ UNCHANGED cmds
            \/ /\ run.pc = "wait" /\ cmds' = [r \in Ranks |-> <<>>]
               /\ \A r \in Ranks : Len(cmds[r]) = 1 /\ cmds[r] # <<>>
         /\ \/ UNCHANGED dead
            \/ dead' = Forgotten(run.new) \o FlattenSeq([i \in 1..Len(run.ents) |-> EntryFiles(run.ents[i].key)])
<1>1. /\ stack # <<>> /\ stack' = Below /\ dead = <<>> /\ UNCHANGED <<idx, disk, wq, skipped>>
      /\ lost' = {"block", "entry"} /\ (UNCHANGED failed \/ failed' = TRUE)
  BY DEF Fail, ChunkFails, ReplyFails, Aborts, At, ranks, WriteTears
<1>2. Pops
  BY <1>1, PopsIs DEF Shape
<1>3. \/ cmds[0] = <<>> /\ UNCHANGED cmds
      \/ /\ run.pc = "wait" /\ cmds' = [r \in Ranks |-> <<>>]
         /\ \A r \in Ranks : Len(cmds[r]) = 1
  BY DEF Fail, ChunkFails, ReplyFails, At, ranks
<1>4. cmds' \in [Ranks -> Seq(Command)]
  <2>1. [r \in Ranks |-> <<>>] \in [Ranks -> Seq(Command)]
    OBVIOUS
  <2> QED BY <1>3, <2>1 DEF Shape
<1>5. \A r \in Ranks : Len(cmds[r]) = 1 => cmds[r] # <<>>
  OBVIOUS
<1>6. \/ UNCHANGED dead
      \/ dead' = Forgotten(run.new) \o FlattenSeq([i \in 1..Len(run.ents) |-> EntryFiles(run.ents[i].key)])
  BY DEF Fail, ChunkFails, ReplyFails, Aborts
<1> QED BY <1>1, <1>2, <1>3, <1>4, <1>5, <1>6

LEMMA AbortShape ==
  ASSUME Shape, Fail \/ ChunkFails \/ ReplyFails
  PROVE  Shape'
<1>1. Pops /\ UNCHANGED <<idx, disk, wq>> /\ cmds' \in [Ranks -> Seq(Command)]
  BY AbortIs
<1> QED BY <1>1 DEF Shape, Pops, idx

LEMMA FinalIs ==
  ASSUME NEW p \in Prefill, p.pc \in {"end", "snap", "barrier"}, NEW ents \in Seq(Entry),
         NEW pc \in {"snap", "barrier"}, NEW key \in Keys \cup {0}, pc = "snap" => key # 0
  PROVE  LET q == Final(p, pc, key, ents) IN
         /\ q \in Prefill /\ q.ids = p.ids /\ q.P = p.P /\ q.chunks = p.chunks /\ q.k = p.k /\ q.pc = pc
         /\ q.blocks = p.blocks /\ q.new = p.new /\ q.ents = ents /\ q.key = key
         /\ p.k = Len(p.chunks) /\ Len(p.blocks) = Len(p.ids) \div Grid
<1>8. PICK q : q = Final(p, pc, key, ents)
  OBVIOUS
<1>1. p \in Fields /\ Placed(p) /\ Tiled(p) /\ Counted(p)
  BY FieldsOf
<1>2. /\ q \in Fields /\ q.ids = p.ids /\ q.P = p.P /\ q.chunks = p.chunks /\ q.k = p.k /\ q.pc = pc
      /\ q.blocks = p.blocks /\ q.new = p.new /\ q.ents = ents /\ q.key = key
  BY <1>1, <1>8 DEF Fields, Final
<1>3. /\ p.P <= Len(p.ids) /\ p.k <= Len(p.chunks) /\ p.k = Len(p.chunks)
      /\ Start(p, Len(p.chunks) + 1) = Len(p.ids)
  BY <1>1 DEF Placed
<1>4. Tiled(q) /\ \A i : Start(q, i) = Start(p, i)
  BY <1>1, <1>2, SameTiles
<1>5. Counted(q)
  BY <1>1, <1>2, <1>4 DEF Counted
<1>6. Placed(q)
  BY <1>2, <1>3, <1>4 DEF Placed
<1>7. Len(p.blocks) = Len(p.ids) \div Grid
  BY <1>1, <1>3 DEF Counted
<1> QED BY <1>2, <1>3, <1>4, <1>5, <1>6, <1>7, <1>8 DEF Prefill

LEMMA SnapshotIs ==
  ASSUME Shape, Snapshot
  PROVE  /\ Steps /\ run.pc = "end" /\ dead = <<>> /\ cmds[0] = <<>>
         /\ run'.ids = run.ids /\ run'.chunks = run.chunks /\ run'.k = run.k /\ run'.blocks = run.blocks
         /\ run'.new = run.new /\ run'.ents = run.ents /\ run.key = 0 /\ run.k = Len(run.chunks)
         /\ cmds' \in [Ranks -> Seq(Command)]
         /\ \E c \in Command :
              /\ Submit(c)
              /\ \/ run'.pc = "snap" /\ run'.key \in FreeKeys /\ c.op = "snapshot" /\ c.ids = run.ids
                    /\ c.block = 0 /\ c.key = run'.key
                 \/ run'.pc = "barrier" /\ run'.key = 0 /\ c.op = "barrier"
         /\ UNCHANGED <<idx, disk, dead, wq, history>>
<1>1. /\ stack \in Seq(Prefill) /\ stack # <<>> /\ run.pc = "end" /\ dead = <<>> /\ cmds[0] = <<>>
      /\ UNCHANGED <<idx, disk, dead, wq, history>>
      /\ cmds \in [Ranks -> Seq(Command)]
  BY DEF Shape, Snapshot, At
<1>2. PICK p \in Prefill : p = run
  BY <1>1, RunIs
<1>3. p \in Fields /\ p.ents \in Seq(Entry) /\ p.key = 0 /\ p.k = Len(p.chunks)
  BY <1>1, <1>2, FieldsOf DEF Placed
<1> DEFINE Ends(q, c) ==
      /\ Becomes(q) /\ Submit(c)
      /\ q.ids = p.ids /\ q.chunks = p.chunks /\ q.k = p.k /\ q.blocks = p.blocks
      /\ q.new = p.new /\ q.ents = p.ents
      /\ \/ q.pc = "snap" /\ q.key \in FreeKeys /\ c.op = "snapshot" /\ c.ids = p.ids
            /\ c.block = 0 /\ c.key = q.key
         \/ q.pc = "barrier" /\ q.key = 0 /\ c.op = "barrier"
<1>4. \E q \in Prefill : \E c \in Command : Ends(q, c)
  <2>1. CASE FreeKeys # {} /\ \E key \in {Nth(FreeKeys, 1)} :
               /\ Becomes([run EXCEPT !.pc = "snap", !.key = key])
               /\ Submit([op |-> "snapshot", ids |-> run.ids, block |-> 0, key |-> key])
    <3>1. PICK key : /\ key = Nth(FreeKeys, 1)
                     /\ Becomes([p EXCEPT !.pc = "snap", !.key = key])
                     /\ Submit([op |-> "snapshot", ids |-> p.ids, block |-> 0, key |-> key])
      BY <1>2, <2>1
    <3>2. key \in FreeKeys /\ key \in Keys /\ key # 0
      <4>1. PICK free \in SUBSET (1..NKeys) : free = FreeKeys
        BY FreeTypes
      <4>2. IsFiniteSet(free) /\ NKeys \in Nat
        <5>1. NKeys \in Nat
          BY FreeTypes
        <5>2. IsFiniteSet(1..NKeys)
          BY <5>1, FS_Interval
        <5> QED BY <5>1, <5>2, FS_Subset
      <4>3. Cardinality(free) \in Nat /\ Cardinality(free) # 0
        BY <2>1, <4>1, <4>2, FS_CardinalityType, FS_EmptySet
      <4>4. 1 \in 1..Cardinality(free)
        BY <4>3
      <4>5. Nth(free, 1) \in free
        BY <4>2, <4>4, NthIn
      <4> QED BY <3>1, <4>1, <4>5, FreeTypes DEF Keys
    <3>3. PICK q : q = Final(p, "snap", key, p.ents)
      OBVIOUS
    <3>4. /\ q \in Prefill /\ q.ids = p.ids /\ q.chunks = p.chunks /\ q.k = p.k /\ q.pc = "snap"
          /\ q.blocks = p.blocks /\ q.new = p.new /\ q.ents = p.ents /\ q.key = key
      BY <1>1, <1>2, <1>3, <3>2, <3>3, FinalIs
    <3>5. q = [p EXCEPT !.pc = "snap", !.key = key]
      BY <1>3, <3>3 DEF Fields, Final
    <3>6. PICK c \in Command : c = [op |-> "snapshot", ids |-> p.ids, block |-> 0, key |-> key]
      BY <1>3, <3>2 DEF Fields, Command
    <3>7. c.op = "snapshot" /\ c.ids = p.ids /\ c.block = 0 /\ c.key = key
      BY <3>6
    <3>8. Becomes(q) /\ Submit(c)
      BY <3>1, <3>5, <3>6
    <3>9. Ends(q, c)
      BY <3>2, <3>4, <3>7, <3>8
    <3> QED BY <3>4, <3>9
  <2>2. CASE Becomes([run EXCEPT !.pc = "barrier"]) /\ Submit([op |-> "barrier"])
    <3>1. PICK q : q = Final(p, "barrier", p.key, p.ents)
      OBVIOUS
    <3>2. /\ q \in Prefill /\ q.ids = p.ids /\ q.chunks = p.chunks /\ q.k = p.k /\ q.pc = "barrier"
          /\ q.blocks = p.blocks /\ q.new = p.new /\ q.ents = p.ents /\ q.key = 0
      BY <1>1, <1>2, <1>3, <3>1, FinalIs
    <3>3. q = [p EXCEPT !.pc = "barrier"]
      BY <1>3, <3>1 DEF Fields, Final
    <3>4. PICK c \in Command : c = [op |-> "barrier"]
      BY DEF Command
    <3>5. c.op = "barrier"
      BY <3>4
    <3>6. Becomes(q) /\ Submit(c)
      BY <1>2, <2>2, <3>3, <3>4
    <3>7. Ends(q, c)
      BY <3>2, <3>5, <3>6
    <3> QED BY <3>2, <3>7
  <2> QED BY <2>1, <2>2 DEF Snapshot
<1>5. PICK q \in Prefill, c \in Command : Ends(q, c)
  BY <1>4
<1>6. Steps /\ run' = q
  BY <1>1, <1>5, StepsIs
<1>7. cmds' \in [Ranks -> Seq(Command)]
  BY <1>1, <1>5, SubmitIs
<1> QED BY <1>1, <1>2, <1>3, <1>5, <1>6, <1>7

LEMMA SnapshotShape ==
  ASSUME Shape, Snapshot
  PROVE  Shape'
<1>1. Steps /\ UNCHANGED <<idx, disk, wq>> /\ cmds' \in [Ranks -> Seq(Command)]
  BY SnapshotIs
<1> QED BY <1>1 DEF Shape, Steps, idx

LEMMA SaveTailIs ==
  ASSUME Shape, SaveTail
  PROVE  LET e == [key |-> run.key, tokens |-> run.ids, blocks |-> run.blocks, capture |-> TRUE] IN
         /\ Steps /\ run.pc = "snap" /\ run'.pc = "barrier" /\ dead = <<>> /\ cmds[0] = <<>>
         /\ run'.ids = run.ids /\ run'.chunks = run.chunks /\ run'.k = run.k /\ run'.blocks = run.blocks
         /\ run'.new = run.new /\ run.key \in Keys /\ run'.key = run.key /\ run.k = Len(run.chunks)
         /\ e \in Entry /\ run'.ents = Append(run.ents, e)
         /\ disk' = With(disk, <<"tail", run.key, 0>>, run.ids)
         /\ \E c \in Command : c.op = "barrier" /\ Submit(c)
         /\ cmds' \in [Ranks -> Seq(Command)]
         /\ UNCHANGED <<idx, dead, wq, history>>
<1>1. /\ stack \in Seq(Prefill) /\ stack # <<>> /\ run.pc = "snap" /\ dead = <<>> /\ cmds[0] = <<>>
      /\ UNCHANGED <<idx, dead, wq, history>>
      /\ cmds \in [Ranks -> Seq(Command)] /\ Submit([op |-> "barrier"])
      /\ disk' = With(disk, <<"tail", run.key, 0>>, run.ids)
  BY DEF Shape, SaveTail, At
<1>2. PICK p \in Prefill : p = run
  BY <1>1, RunIs
<1>3. /\ p \in Fields /\ p.ents \in Seq(Entry) /\ p.key \in Keys /\ p.ids \in Seq(Tokens)
      /\ p.blocks \in Seq(Blocks)
  BY <1>1, <1>2, FieldsOf DEF Placed
<1>4. Len(p.blocks) = Len(p.ids) \div Grid
  BY <1>1, <1>2, <1>3, FinalIs
<1>5. PICK e : e = [key |-> p.key, tokens |-> p.ids, blocks |-> p.blocks, capture |-> TRUE]
  OBVIOUS
<1>6. e \in Entry
  BY <1>3, <1>4, <1>5 DEF Entry, Text
<1>7. PICK ents \in Seq(Entry) : ents = Append(p.ents, e)
  BY <1>3, <1>6, AppendSet
<1>8. PICK q : q = Final(p, "barrier", p.key, ents)
  OBVIOUS
<1>9. /\ q \in Prefill /\ q.ids = p.ids /\ q.chunks = p.chunks /\ q.k = p.k /\ q.pc = "barrier"
      /\ q.blocks = p.blocks /\ q.new = p.new /\ q.ents = ents /\ q.key = p.key /\ p.k = Len(p.chunks)
  BY <1>1, <1>2, <1>3, <1>8, FinalIs
<1>10. Becomes(q)
  <2>1. Becomes([p EXCEPT !.pc = "barrier", !.ents =
                   Append(@, [key |-> p.key, tokens |-> p.ids, blocks |-> p.blocks, capture |-> TRUE])])
    BY <1>2 DEF SaveTail
  <2>2. q = [p EXCEPT !.pc = "barrier", !.ents =
                   Append(@, [key |-> p.key, tokens |-> p.ids, blocks |-> p.blocks, capture |-> TRUE])]
    BY <1>3, <1>5, <1>7, <1>8 DEF Fields, Final
  <2> QED BY <2>1, <2>2
<1>11. PICK c \in Command : c = [op |-> "barrier"]
  BY DEF Command
<1>14. c.op = "barrier"
  BY <1>11
<1>12. Steps /\ run' = q
  BY <1>1, <1>9, <1>10, StepsIs
<1>13. cmds' \in [Ranks -> Seq(Command)] /\ Submit(c)
  BY <1>1, <1>11, SubmitIs
<1> QED BY <1>1, <1>2, <1>3, <1>5, <1>6, <1>7, <1>9, <1>12, <1>13, <1>14

LEMMA SaveTailShape ==
  ASSUME Shape, SaveTail
  PROVE  Shape'
<1>1. /\ Steps /\ UNCHANGED <<idx, wq>> /\ cmds' \in [Ranks -> Seq(Command)]
      /\ run.key \in Keys /\ disk' = With(disk, <<"tail", run.key, 0>>, run.ids)
  BY SaveTailIs
<1>2. PICK p \in Prefill : p = run
  BY <1>1 DEF Steps
<1>3. PICK f : f = <<"tail", p.key, 0>>
  OBVIOUS
<1>4. f \in FileNames /\ f[1] # "idx" /\ p.ids \in Text
  BY <1>1, <1>2, <1>3, FieldsOf DEF FileNames, Text
<1>5. Directory(With(disk, f, p.ids))
  BY <1>4, WriteTyped DEF Shape
<1> QED BY <1>1, <1>2, <1>3, <1>5 DEF Shape, Steps, idx

LEMMA RegisterIs ==
  ASSUME Shape, Register
  PROVE  LET e == Head(run.ents) IN
         /\ Steps /\ run.pc = "barrier" /\ run'.pc = "barrier" /\ dead = <<>> /\ cmds[0] = <<>>
         /\ run'.ids = run.ids /\ run'.chunks = run.chunks /\ run'.k = run.k /\ run'.blocks = run.blocks
         /\ run'.new = run.new /\ run'.key = run.key /\ run.k = Len(run.chunks)
         /\ run.ents # <<>> /\ run'.ents = Tail(run.ents)
         /\ e \in Entry /\ e = run.ents[1] /\ ToSet(run.ents) = ToSet(run'.ents) \cup {e}
         /\ \/ /\ Complete(e)
               /\ index' = Append(index, e) /\ lru' = Append(lru, e.key)
               /\ refs' = [b \in Blocks |-> refs[b] + (IF b \in ToSet(e.blocks) THEN 1 ELSE 0)]
               /\ disk' = With(disk, <<"idx", e.key, 0>>, e)
               /\ UNCHANGED skipped
            \/ /\ ~Complete(e)
               /\ disk' = Without(disk, ToSet(EntryFiles(e.key)))
               /\ skipped' = TRUE
               /\ UNCHANGED idx
         /\ UNCHANGED <<dead, ranks, faults, failed, lost>>
<1>1. /\ stack \in Seq(Prefill) /\ stack # <<>> /\ run.pc = "barrier" /\ run.ents # <<>>
      /\ dead = <<>> /\ cmds[0] = <<>>
      /\ UNCHANGED <<dead, ranks, faults, failed, lost>>
  BY DEF Shape, Register, At
<1>2. PICK p \in Prefill : p = run
  BY <1>1, RunIs
<1>3. p \in Fields /\ p.ents \in Seq(Entry) /\ p.ents # <<>> /\ p.key \in Keys \cup {0}
  BY <1>1, <1>2, FieldsOf
<1>4. PICK e \in Entry : e = Head(p.ents) /\ e = p.ents[1]
  BY <1>3, HeadTailProperties, TailSet
<1>5. PICK ents \in Seq(Entry) : ents = Tail(p.ents) /\ ToSet(p.ents) = ToSet(ents) \cup {e}
  BY <1>3, <1>4, TailSet
<1>6. PICK q : q = Final(p, "barrier", p.key, ents)
  OBVIOUS
<1>7. /\ q \in Prefill /\ q.ids = p.ids /\ q.chunks = p.chunks /\ q.k = p.k /\ q.pc = "barrier"
      /\ q.blocks = p.blocks /\ q.new = p.new /\ q.ents = ents /\ q.key = p.key /\ p.k = Len(p.chunks)
  BY <1>1, <1>2, <1>3, <1>6, FinalIs
<1>8. Becomes(q)
  <2>1. Becomes([p EXCEPT !.ents = Tail(@)])
    BY <1>2 DEF Register
  <2>2. q = [p EXCEPT !.ents = Tail(@)]
    BY <1>1, <1>2, <1>3, <1>5, <1>6 DEF Fields, Final
  <2> QED BY <2>1, <2>2
<1>9. Steps /\ run' = q
  BY <1>1, <1>7, <1>8, StepsIs
<1>10. \/ /\ Complete(e)
          /\ index' = Append(index, e) /\ lru' = Append(lru, e.key)
          /\ refs' = [b \in Blocks |-> refs[b] + (IF b \in ToSet(e.blocks) THEN 1 ELSE 0)]
          /\ disk' = With(disk, <<"idx", e.key, 0>>, e)
          /\ UNCHANGED skipped
       \/ /\ ~Complete(e)
          /\ disk' = Without(disk, ToSet(EntryFiles(e.key)))
          /\ skipped' = TRUE
          /\ UNCHANGED idx
  BY <1>2, <1>4 DEF Register
<1> QED BY <1>1, <1>2, <1>3, <1>4, <1>5, <1>7, <1>9, <1>10

LEMMA RegisterShape ==
  ASSUME Shape, Register
  PROVE  Shape'
<1>1. /\ Steps /\ UNCHANGED ranks
      /\ index \in Seq(Entry) /\ lru \in Seq(Keys) /\ refs \in [Blocks -> Int] /\ Directory(disk)
  BY RegisterIs DEF Shape
<1>2. PICK e \in Entry :
        \/ /\ index' = Append(index, e) /\ lru' = Append(lru, e.key)
           /\ refs' = [b \in Blocks |-> refs[b] + (IF b \in ToSet(e.blocks) THEN 1 ELSE 0)]
           /\ disk' = With(disk, <<"idx", e.key, 0>>, e)
        \/ /\ disk' = Without(disk, ToSet(EntryFiles(e.key))) /\ UNCHANGED idx
  BY RegisterIs
<1>3. CASE /\ index' = Append(index, e) /\ lru' = Append(lru, e.key)
           /\ refs' = [b \in Blocks |-> refs[b] + (IF b \in ToSet(e.blocks) THEN 1 ELSE 0)]
           /\ disk' = With(disk, <<"idx", e.key, 0>>, e)
  <2>1. /\ index' = Append(index, e) /\ lru' = Append(lru, e.key)
        /\ refs' = [b \in Blocks |-> refs[b] + (IF b \in ToSet(e.blocks) THEN 1 ELSE 0)]
        /\ disk' = With(disk, <<"idx", e.key, 0>>, e)
    BY <1>3
  <2>2. e.key \in Keys
    BY DEF Entry
  <2>3. index' \in Seq(Entry) /\ lru' \in Seq(Keys)
    BY <1>1, <2>1, <2>2, AppendSet
  <2>4. refs' \in [Blocks -> Int]
    BY <1>1, <2>1
  <2>5. Directory(disk')
    <3>1. PICK f : f = <<"idx", e.key, 0>>
      OBVIOUS
    <3>2. f \in FileNames /\ f[1] = "idx"
      BY <2>2, <3>1 DEF FileNames
    <3>3. PICK d : d = With(disk, f, e)
      OBVIOUS
    <3>4. DOMAIN d = DOMAIN disk \cup {f} /\ d[f] = e /\ \A y \in DOMAIN disk : y # f => d[y] = disk[y]
      BY <3>3 DEF With
    <3>5. Directory(d)
      BY <1>1, <3>1, <3>2, <3>4 DEF Directory
    <3> QED BY <2>1, <3>1, <3>3, <3>5
  <2> QED BY <1>1, <2>3, <2>4, <2>5 DEF Shape, Steps, ranks
<1>4. CASE disk' = Without(disk, ToSet(EntryFiles(e.key))) /\ UNCHANGED idx
  <2>1. Directory(disk')
    BY <1>1, <1>4, UnlinkTyped
  <2> QED BY <1>1, <1>4, <2>1 DEF Shape, Steps, idx, ranks
<1> QED BY <1>2, <1>3, <1>4

LEMMA RefsAfterTyped ==
  ASSUME refs \in [Blocks -> Int], NEW n \in Nat
  PROVE  RefsAfter(n) \in [Blocks -> Int]
<1>1. ASSUME NEW b \in Blocks
      PROVE  Cardinality({j \in 1..n : b \in ToSet(EntryOf(lru[j]).blocks)}) \in Nat
  <2>1. IsFiniteSet(1..n)
    BY FS_Interval
  <2>2. PICK S : S = {j \in 1..n : b \in ToSet(EntryOf(lru[j]).blocks)}
    OBVIOUS
  <2>3. S \in SUBSET (1..n)
    BY <2>2
  <2> QED BY <2>1, <2>2, <2>3, FS_Subset, FS_CardinalityType
<1> QED BY <1>1 DEF RefsAfter

LEMMA DropsIs ==
  ASSUME lru \in Seq(Keys)
  PROVE  Drops \in 0..Len(lru) /\ (~MayEvict => Drops = 0)
<1>1. PICK S : S = {k \in 0..Len(lru) : k = Len(lru) \/ TotalAfter(k) <= Budget}
  OBVIOUS
<1>2. Len(lru) \in Nat
  BY LenProperties
<1>3. S \in SUBSET Nat /\ S # {}
  BY <1>1, <1>2
<1>4. Min(S) \in S
  BY <1>3, MinIn
<1>5. Evicted \in 0..Len(lru)
  BY <1>1, <1>4 DEF Evicted
<1> QED BY <1>2, <1>5 DEF Drops

LEMMA FinishIs ==
  ASSUME Shape, Finish
  PROVE  /\ Pops /\ run.pc = "barrier" /\ run.ents = <<>> /\ dead = <<>> /\ cmds[0] = <<>>
         /\ Drops \in 0..Len(lru) /\ (Below # <<>> => Drops = 0)
         /\ dead' = Forgotten(run.new) \o FlattenSeq([j \in 1..Drops |-> FilesDroppedAt(j)])
         /\ index' = Where(index, {e \in Entries : e.key \notin {lru[j] : j \in 1..Drops}})
         /\ lru' = SubSeq(lru, Drops + 1, Len(lru)) /\ refs' = RefsAfter(Drops)
         /\ UNCHANGED <<disk, ranks, history>>
<1>1. /\ stack # <<>> /\ stack' = Below /\ run.pc = "barrier" /\ run.ents = <<>> /\ dead = <<>> /\ cmds[0] = <<>>
      /\ UNCHANGED <<disk, ranks, history>>
  BY DEF Finish, At
<1>2. Pops
  BY <1>1, PopsIs DEF Shape
<1>3. Drops \in 0..Len(lru) /\ (Below # <<>> => Drops = 0)
  BY DropsIs DEF Shape, MayEvict
<1>4. /\ dead' = Forgotten(run.new) \o FlattenSeq([j \in 1..Drops |-> FilesDroppedAt(j)])
      /\ index' = Where(index, {e \in Entries : e.key \notin {lru[j] : j \in 1..Drops}})
      /\ lru' = SubSeq(lru, Drops + 1, Len(lru)) /\ refs' = RefsAfter(Drops)
  BY DEF Finish, Drops
<1> QED BY <1>1, <1>2, <1>3, <1>4

LEMMA FinishShape ==
  ASSUME Shape, Finish
  PROVE  Shape'
<1>1. /\ Pops /\ UNCHANGED <<disk, ranks>>
      /\ index \in Seq(Entry) /\ lru \in Seq(Keys) /\ refs \in [Blocks -> Int]
  BY FinishIs DEF Shape
<1>2. PICK n \in 0..Len(lru) : n = Drops
  BY FinishIs
<1>3. /\ index' = Where(index, {e \in Entries : e.key \notin {lru[j] : j \in 1..n}})
      /\ lru' = SubSeq(lru, n + 1, Len(lru)) /\ refs' = RefsAfter(n)
  BY <1>2, FinishIs
<1>4. index' \in Seq(Entry)
  BY <1>1, <1>3, WhereSet
<1>5. lru' \in Seq(Keys)
  <2>1. Len(lru) \in Nat /\ \A i \in 1..Len(lru) : lru[i] \in Keys
    BY <1>1, AsSet
  <2>2. n + 1 \in Int /\ \A i \in (n + 1)..Len(lru) : lru[i] \in Keys
    BY <2>1
  <2>3. SubSeq(lru, n + 1, Len(lru)) \in Seq(Keys)
    BY <2>1, <2>2, SubSeqProperties
  <2> QED BY <1>3, <2>3
<1>6. refs' \in [Blocks -> Int]
  <2>1. n \in Nat
    BY <1>1, LenProperties
  <2> QED BY <1>1, <1>3, <2>1, RefsAfterTyped
<1> QED BY <1>1, <1>4, <1>5, <1>6 DEF Shape, Pops, ranks

LEMMA UnlinkShape ==
  ASSUME Shape, Unlink
  PROVE  Shape'
<1>1. disk' = Without(disk, {Head(dead)}) /\ UNCHANGED <<idx, stack, ranks>>
  BY DEF Unlink
<1>2. Directory(disk')
  BY <1>1, UnlinkTyped DEF Shape
<1> QED BY <1>1, <1>2 DEF Shape, idx, ranks

LEMMA ClearShape ==
  ASSUME Shape, Clear
  PROVE  Shape'
<1>1. /\ index' = <<>> /\ lru' = <<>> /\ refs' = [b \in Blocks |-> 0] /\ UNCHANGED <<disk, stack, ranks>>
  BY DEF Clear
<1>2. index' \in Seq(Entry) /\ lru' \in Seq(Keys) /\ refs' \in [Blocks -> Int]
  BY <1>1
<1> QED BY <1>1, <1>2 DEF Shape, ranks

LEMMA ExecutedIs ==
  ASSUME cmds \in [Ranks -> Seq(Command)], NEW r \in Ranks, cmds[r] # <<>>, Executed(r)
  PROVE  /\ cmds' \in [Ranks -> Seq(Command)] /\ cmds'[r] = Tail(cmds[r])
         /\ \A s \in Ranks : s # r => cmds'[s] = cmds[s]
<1>1. PICK c \in Seq(Command) : c = cmds[r] /\ c # <<>>
  OBVIOUS
<1>2. Tail(c) \in Seq(Command)
  BY <1>1, TailSet
<1> QED BY <1>1, <1>2 DEF Executed

LEMMA PutsTyped ==
  ASSUME NEW c \in Command, c.op \in {"chunk", "snapshot"}, NEW r \in Ranks
  PROVE  /\ BlockPut(c, r) \in Seq(Writing) /\ EntryPut(c, r) \in Seq(Writing)
         /\ c.ids \in Text /\ c.block \in Blocks \cup {0} /\ c.key \in Keys \cup {0}
         /\ c.op = "snapshot" => c.key \in Keys /\ c.key # 0
         /\ c.block # 0 => /\ File("blk", c.block, r, Prefix(c.ids, Grid * (Len(c.ids) \div Grid))) \in Writing
                           /\ ToSet(BlockPut(c, r)) = {File("blk", c.block, r, Prefix(c.ids, Grid * (Len(c.ids) \div Grid)))}
         /\ c.block = 0 => ToSet(BlockPut(c, r)) = {}
         /\ c.key # 0 => /\ File("ent", c.key, r, c.ids) \in Writing
                         /\ ToSet(EntryPut(c, r)) = {File("ent", c.key, r, c.ids)}
         /\ c.key = 0 => ToSet(EntryPut(c, r)) = {}
<1>1. /\ c.ids \in Seq(Tokens) /\ c.block \in Blocks \cup {0} /\ c.key \in Keys \cup {0} /\ Len(c.ids) \in Nat
      /\ c.op = "snapshot" => c.key \in Keys /\ c.key # 0
  <2>1. /\ c.ids \in Text /\ c.block \in Blocks \cup {0} /\ c.key \in Keys \cup {0}
        /\ c.op = "snapshot" => c.key \in Keys
    BY DEF Command
  <2>2. c.ids \in Seq(Tokens)
    BY <2>1 DEF Text
  <2> QED BY <2>1, <2>2, FreeTypes, LenProperties
<1>2. PICK t : t = Prefix(c.ids, Grid * (Len(c.ids) \div Grid))
  OBVIOUS
<1>3. t \in Seq(Tokens)
  <2>1. Len(c.ids) \in 0..Len(c.ids)
    BY <1>1
  <2> QED BY <1>1, <1>2, <2>1, BlockPrefix
<1>4. ASSUME NEW w \in Writing PROVE <<w>> \in Seq(Writing) /\ ToSet(<<w>>) = {w}
  <2>1. PICK s : s = <<w>>
    OBVIOUS
  <2>2. s \in Seq(Writing) /\ Len(s) = 1 /\ s[1] = w
    BY <2>1
  <2>3. ToSet(s) = {s[i] : i \in 1..1}
    BY <2>2, AsSet
  <2>4. {s[i] : i \in 1..1} = {w}
    BY <2>2
  <2> QED BY <2>1, <2>2, <2>3, <2>4
<1>5. ASSUME c.block # 0 PROVE File("blk", c.block, r, t) \in Writing
  <2>1. PICK f : f = <<"blk", c.block, r>>
    OBVIOUS
  <2>2. f \in FileNames /\ f[1] \in {"blk", "ent"}
    BY <1>1, <1>5, <2>1 DEF FileNames
  <2> QED BY <1>3, <2>1, <2>2 DEF File, Writing, Text
<1>6. ASSUME c.key # 0 PROVE File("ent", c.key, r, c.ids) \in Writing
  <2>1. PICK f : f = <<"ent", c.key, r>>
    OBVIOUS
  <2>2. f \in FileNames /\ f[1] \in {"blk", "ent"}
    BY <1>1, <1>6, <2>1 DEF FileNames
  <2> QED BY <1>1, <2>1, <2>2 DEF File, Writing, Text
<1>7. <<>> \in Seq(Writing) /\ ToSet(<<>>) = {}
  BY EmptySeq, AsSet
<1>8. BlockPut(c, r) = IF c.block = 0 THEN <<>> ELSE <<File("blk", c.block, r, t)>>
  BY <1>2 DEF BlockPut
<1>9. EntryPut(c, r) = IF c.key = 0 THEN <<>> ELSE <<File("ent", c.key, r, c.ids)>>
  BY DEF EntryPut
<1>10. /\ BlockPut(c, r) \in Seq(Writing)
       /\ c.block # 0 => ToSet(BlockPut(c, r)) = {File("blk", c.block, r, t)}
       /\ c.block = 0 => ToSet(BlockPut(c, r)) = {}
  <2>1. CASE c.block = 0
    BY <1>7, <1>8, <2>1
  <2>2. CASE c.block # 0
    BY <1>4, <1>5, <1>8, <2>2
  <2> QED BY <2>1, <2>2
<1>11. /\ EntryPut(c, r) \in Seq(Writing)
       /\ c.key # 0 => ToSet(EntryPut(c, r)) = {File("ent", c.key, r, c.ids)}
       /\ c.key = 0 => ToSet(EntryPut(c, r)) = {}
  <2>1. CASE c.key = 0
    BY <1>7, <1>9, <2>1
  <2>2. CASE c.key # 0
    BY <1>4, <1>6, <1>9, <2>2
  <2> QED BY <2>1, <2>2
<1> QED BY <1>1, <1>2, <1>5, <1>6, <1>10, <1>11 DEF Text

LEMMA ConcatThree ==
  ASSUME NEW s \in Seq(Writing), NEW t \in Seq(Writing), NEW u \in Seq(Writing), NEW v, Joins(v, s, t, u)
  PROVE  v \in Seq(Writing) /\ ToSet(v) = ToSet(s) \cup ToSet(t) \cup ToSet(u)
<1>1. PICK x : x = s \o t
  OBVIOUS
<1>2. s \o t \in Seq(Writing) /\ ToSet(s \o t) = ToSet(s) \cup ToSet(t)
  BY ConcatSet
<1>3. x \in Seq(Writing) /\ ToSet(x) = ToSet(s) \cup ToSet(t) /\ v = x \o u
  BY <1>1, <1>2, Zenon DEF Joins
<1>4. x \o u \in Seq(Writing) /\ ToSet(x \o u) = ToSet(x) \cup ToSet(u)
  BY <1>3, ConcatSet
<1> QED BY <1>3, <1>4, Zenon

LEMMA ExecChunkIs ==
  ASSUME cmds \in [Ranks -> Seq(Command)], wq \in [Ranks -> Seq(Writing)],
         NEW r \in Ranks, ExecChunk(r)
  PROVE  /\ cmds[r] # <<>> /\ cmds[r] \in Seq(Command) /\ cmds[r][1] \in Command /\ cmds[r][1].op = "chunk"
         /\ wq[r] \in Seq(Writing)
         /\ Len(cmds[1 - r]) <= Len(cmds[r]) /\ Executed(r)
         /\ wq' \in [Ranks -> Seq(Writing)]
         /\ ToSet(wq'[r]) = ToSet(wq[r]) \cup ToSet(BlockPut(cmds[r][1], r)) \cup ToSet(EntryPut(cmds[r][1], r))
         /\ \A s \in Ranks : s # r => wq'[s] = wq[s]
         /\ UNCHANGED <<idx, disk, dead, stack, history>>
<1>1. /\ cmds[r] # <<>> /\ Head(cmds[r]).op = "chunk" /\ Len(cmds[1 - r]) <= Len(cmds[r]) /\ Executed(r)
      /\ wq' = [wq EXCEPT ![r] = @ \o BlockPut(Head(cmds[r]), r) \o EntryPut(Head(cmds[r]), r)]
      /\ UNCHANGED <<idx, disk, dead, stack, history>>
  BY DEF ExecChunk, Does, BlockPut, EntryPut
<1>2. PICK s \in Seq(Command) : s = cmds[r]
  OBVIOUS
<1>3. s # <<>> /\ Head(s) = s[1] /\ s[1] \in Command
  BY <1>1, <1>2, TailSet, HeadTailProperties
<1>4. PICK c \in Command : c = s[1] /\ c.op = "chunk"
  BY <1>1, <1>2, <1>3
<1>5. PICK bp \in Seq(Writing) : bp = BlockPut(c, r)
  BY <1>4, PutsTyped
<1>6. PICK ep \in Seq(Writing) : ep = EntryPut(c, r)
  BY <1>4, PutsTyped
<1>7. PICK w \in Seq(Writing) : w = wq[r]
  OBVIOUS
<1>8. PICK v : Joins(v, w, bp, ep)
  BY DEF Joins
<1>9. v \in Seq(Writing) /\ ToSet(v) = ToSet(w) \cup ToSet(bp) \cup ToSet(ep)
  BY <1>8, ConcatThree
<1>13. Head(cmds[r]) = c
  BY <1>2, <1>3, <1>4
<1>14. wq' = [wq EXCEPT ![r] = @ \o bp \o ep]
  BY <1>1, <1>5, <1>6, <1>13, Zenon
<1>10. wq' = [wq EXCEPT ![r] = v]
  BY <1>7, <1>8, <1>14, Zenon DEF Joins
<1>11. /\ wq' \in [Ranks -> Seq(Writing)] /\ wq'[r] = v
       /\ \A t \in Ranks : t # r => wq'[t] = wq[t]
  BY <1>9, <1>10
<1>12. ToSet(wq'[r]) = ToSet(wq[r]) \cup ToSet(BlockPut(c, r)) \cup ToSet(EntryPut(c, r))
  BY <1>5, <1>6, <1>7, <1>9, <1>11, Zenon
<1> QED BY <1>1, <1>2, <1>3, <1>4, <1>7, <1>11, <1>12

LEMMA ExecSnapshotIs ==
  ASSUME cmds \in [Ranks -> Seq(Command)], wq \in [Ranks -> Seq(Writing)],
         NEW r \in Ranks, ExecSnapshot(r)
  PROVE  /\ cmds[r] # <<>> /\ cmds[r] \in Seq(Command) /\ cmds[r][1] \in Command /\ cmds[r][1].op = "snapshot"
         /\ cmds' \in [Ranks -> Seq(Command)] /\ cmds'[r] = <<[op |-> "flush"]>> \o Tail(cmds[r])
         /\ \A s \in Ranks : s # r => cmds'[s] = cmds[s]
         /\ File("ent", cmds[r][1].key, r, cmds[r][1].ids) \in Writing
         /\ wq' \in [Ranks -> Seq(Writing)]
         /\ ToSet(wq'[r]) = ToSet(wq[r]) \cup {File("ent", cmds[r][1].key, r, cmds[r][1].ids)}
         /\ \A s \in Ranks : s # r => wq'[s] = wq[s]
         /\ UNCHANGED <<idx, disk, dead, stack, history>>
<1>1. /\ cmds[r] # <<>> /\ Head(cmds[r]).op = "snapshot"
      /\ cmds' = [cmds EXCEPT ![r] = <<[op |-> "flush"]>> \o Tail(@)]
      /\ wq' = [wq EXCEPT ![r] = Append(@, File("ent", Head(cmds[r]).key, r, Head(cmds[r]).ids))]
      /\ UNCHANGED <<idx, disk, dead, stack, history>>
  BY DEF ExecSnapshot, Does
<1>2. PICK s \in Seq(Command) : s = cmds[r]
  OBVIOUS
<1>3. s # <<>> /\ Head(s) = s[1] /\ s[1] \in Command /\ Tail(s) \in Seq(Command)
  BY <1>1, <1>2, TailSet, HeadTailProperties
<1>4. PICK c \in Command : c = s[1] /\ c.op = "snapshot"
  BY <1>1, <1>2, <1>3
<1>5. PICK w \in Writing : w = File("ent", c.key, r, c.ids)
  BY <1>4, PutsTyped
<1>6. PICK q \in Seq(Writing) : q = wq[r]
  OBVIOUS
<1>7. Append(q, w) \in Seq(Writing) /\ ToSet(Append(q, w)) = ToSet(q) \cup {w}
  BY AppendSet
<1>8. /\ wq' \in [Ranks -> Seq(Writing)] /\ wq'[r] = Append(q, w) /\ \A t \in Ranks : t # r => wq'[t] = wq[t]
  BY <1>1, <1>2, <1>3, <1>4, <1>5, <1>6, <1>7
<1>9. PICK h \in Seq(Command) : h = <<[op |-> "flush"]>>
  <2>1. PICK c1 \in Command : c1 = [op |-> "flush"]
    BY DEF Command
  <2>2. <<c1>> \in Seq(Command)
    OBVIOUS
  <2> QED BY <2>1, <2>2
<1>10. h \o Tail(s) \in Seq(Command)
  BY <1>3, ConcatSet
<1>11. /\ cmds' \in [Ranks -> Seq(Command)] /\ cmds'[r] = h \o Tail(s)
       /\ \A t \in Ranks : t # r => cmds'[t] = cmds[t]
  BY <1>1, <1>2, <1>9, <1>10
<1> QED BY <1>1, <1>2, <1>3, <1>4, <1>5, <1>6, <1>7, <1>8, <1>9, <1>11

LEMMA ExecShape ==
  ASSUME Shape, NEW r \in Ranks, ExecChunk(r) \/ ExecSnapshot(r) \/ ExecRestore(r)
  PROVE  Shape'
<1>1. cmds \in [Ranks -> Seq(Command)] /\ wq \in [Ranks -> Seq(Writing)]
  BY DEF Shape
<1>2. UNCHANGED <<idx, disk, stack>>
  BY DEF ExecChunk, ExecSnapshot, ExecRestore
<1>3. cmds' \in [Ranks -> Seq(Command)] /\ wq' \in [Ranks -> Seq(Writing)]
  <2>1. CASE ExecChunk(r)
    BY <1>1, <2>1, ExecChunkIs, ExecutedIs
  <2>2. CASE ExecSnapshot(r)
    BY <1>1, <2>2, ExecSnapshotIs
  <2>3. CASE ExecRestore(r)
    <3>1. cmds[r] # <<>> /\ Executed(r) /\ UNCHANGED wq
      BY <2>3 DEF ExecRestore, Does
    <3> QED BY <1>1, <3>1, ExecutedIs
  <2> QED BY <2>1, <2>2, <2>3
<1> QED BY <1>2, <1>3 DEF Shape, idx

LEMMA BarrierIs ==
  ASSUME cmds \in [Ranks -> Seq(Command)], ExecBarrier
  PROVE  /\ cmds' \in [Ranks -> Seq(Command)]
         /\ \A r \in Ranks : /\ cmds[r] # <<>> /\ cmds[r][1].op = "barrier" /\ wq[r] = <<>>
                             /\ cmds'[r] = Tail(cmds[r])
         /\ UNCHANGED <<idx, disk, dead, stack, wq, history>>
<1>1. /\ \A r \in Ranks : cmds[r] # <<>> /\ Head(cmds[r]).op = "barrier" /\ wq[r] = <<>>
      /\ cmds' = [r \in Ranks |-> Tail(cmds[r])]
      /\ UNCHANGED <<idx, disk, dead, stack, wq, history>>
  BY DEF ExecBarrier, Does
<1>2. ASSUME NEW r \in Ranks PROVE Tail(cmds[r]) \in Seq(Command) /\ Head(cmds[r]) = cmds[r][1]
  <2>1. PICK s \in Seq(Command) : s = cmds[r] /\ s # <<>>
    BY <1>1
  <2> QED BY <2>1, TailSet, HeadTailProperties
<1> QED BY <1>1, <1>2

LEMMA WriteIs ==
  ASSUME wq \in [Ranks -> Seq(Writing)], NEW r \in Ranks, Write(r) \/ WriteFails(r)
  PROVE  /\ wq' \in [Ranks -> Seq(Writing)] /\ wq[r] # <<>> /\ wq[r][1] \in Writing
         /\ wq'[r] = Tail(wq[r]) /\ ToSet(wq[r]) = ToSet(wq'[r]) \cup {wq[r][1]}
         /\ \A s \in Ranks : s # r => wq'[s] = wq[s]
         /\ UNCHANGED <<idx, dead, stack, cmds, skipped, lost>>
         /\ Write(r) => disk' = With(disk, wq[r][1].file, wq[r][1].content) /\ UNCHANGED <<faults, failed>>
         /\ WriteFails(r) => UNCHANGED disk /\ failed' = TRUE
<1>1. wq[r] # <<>> /\ wq' = [wq EXCEPT ![r] = Tail(@)]
  BY DEF Write, WriteFails
<1>2. PICK s \in Seq(Writing) : s = wq[r] /\ s # <<>>
  BY <1>1
<1>3. Head(s) = s[1] /\ s[1] \in Writing /\ Tail(s) \in Seq(Writing) /\ ToSet(s) = ToSet(Tail(s)) \cup {s[1]}
  BY <1>2, TailSet, HeadTailProperties
<1>4. /\ wq' \in [Ranks -> Seq(Writing)] /\ wq'[r] = Tail(s) /\ \A t \in Ranks : t # r => wq'[t] = wq[t]
  BY <1>1, <1>2, <1>3
<1>5. UNCHANGED <<idx, dead, stack, cmds, skipped, lost>>
  BY DEF Write, WriteFails, history
<1>6. Write(r) => disk' = With(disk, s[1].file, s[1].content) /\ UNCHANGED <<faults, failed>>
  BY <1>2, <1>3 DEF Write, history
<1>7. WriteFails(r) => UNCHANGED disk /\ failed' = TRUE
  BY DEF WriteFails, WriteTears
<1> QED BY <1>1, <1>2, <1>3, <1>4, <1>5, <1>6, <1>7

LEMMA BarrierWriteShape ==
  ASSUME Shape, ExecBarrier \/ \E r \in Ranks : Write(r) \/ WriteFails(r)
  PROVE  Shape'
<1>1. CASE ExecBarrier
  BY <1>1, BarrierIs DEF Shape, idx
<1>2. ASSUME NEW r \in Ranks, Write(r) \/ WriteFails(r) PROVE Shape'
  <2>1. wq' \in [Ranks -> Seq(Writing)] /\ UNCHANGED <<idx, stack, cmds>>
    BY <1>2, WriteIs DEF Shape
  <2>2. Directory(disk')
    <3>1. CASE Write(r)
      <4>1. PICK w \in Writing : w = wq[r][1]
        BY <3>1, WriteIs DEF Shape
      <4>2. w.file \in FileNames /\ w.file[1] # "idx" /\ w.content \in Text
        BY DEF Writing
      <4>3. disk' = With(disk, w.file, w.content)
        BY <3>1, <4>1, WriteIs DEF Shape
      <4> QED BY <4>2, <4>3, WriteTyped DEF Shape
    <3>2. CASE WriteFails(r)
      BY <3>2, WriteIs DEF Shape
    <3> QED BY <1>2, <3>1, <3>2
  <2> QED BY <2>1, <2>2 DEF Shape, idx
<1> QED BY <1>1, <1>2

LEMMA RecsAre ==
  ASSUME Directory(disk)
  PROVE  /\ Recs \subseteq Entry /\ IsFiniteSet(Recs) /\ Whole \subseteq Recs
         /\ \A e \in Recs : <<"idx", e.key, 0>> \in DOMAIN disk /\ disk[<<"idx", e.key, 0>>] = e
         /\ \A d, e \in Recs : d.key = e.key => d = e
         /\ \A b \in Blocks : IsFiniteSet(Users(b)) /\ Cardinality(Users(b)) \in Nat
<1>1. PICK F : F = {x \in DOMAIN disk : x[1] = "idx"}
  OBVIOUS
<1>2. Recs = {disk[f] : f \in F} /\ F \subseteq FileNames
  BY <1>1 DEF Recs, Directory
<1>3. \A f \in F : disk[f] \in Entry /\ f = <<"idx", disk[f].key, 0>>
  BY <1>1 DEF Directory
<1>4. IsFiniteSet(F)
  BY <1>2, FileNamesFinite, FS_Subset
<1>5. IsFiniteSet(Recs)
  <2>1. PICK g : g = [f \in F |-> disk[f]]
    OBVIOUS
  <2>2. g \in Surjection(F, Recs)
    BY <1>2, <2>1 DEF Surjection
  <2> QED BY <1>4, <2>2, FS_Surjection
<1>6. \A e \in Recs : <<"idx", e.key, 0>> \in DOMAIN disk /\ disk[<<"idx", e.key, 0>>] = e
  <2>1. ASSUME NEW e \in Recs PROVE <<"idx", e.key, 0>> \in DOMAIN disk /\ disk[<<"idx", e.key, 0>>] = e
    <3>1. PICK f \in F : e = disk[f]
      BY <1>2
    <3> QED BY <1>1, <1>3, <3>1
  <2> QED BY <2>1
<1>7. \A d, e \in Recs : d.key = e.key => d = e
  BY <1>6
<1>8. \A b \in Blocks : IsFiniteSet(Users(b)) /\ Cardinality(Users(b)) \in Nat
  <2>1. ASSUME NEW b \in Blocks PROVE IsFiniteSet(Users(b)) /\ Cardinality(Users(b)) \in Nat
    <3>1. Users(b) \in SUBSET Recs
      BY DEF Users, Whole
    <3> QED BY <1>5, <3>1, FS_Subset, FS_CardinalityType
  <2> QED BY <2>1
<1> QED BY <1>2, <1>3, <1>5, <1>6, <1>7, <1>8 DEF Whole

LEMMA RestartIs ==
  ASSUME index \in Seq(Entry), Directory(disk), Restart
  PROVE  /\ index' \in Seq(Entry) /\ ToSet(index') = Whole
         /\ Distinct(index) => Distinct(index')
         /\ lru' \in Seq(Keys) /\ ToSet(lru') = {e.key : e \in Whole}
         /\ Distinct(index) => Distinct(lru')
         /\ refs' = [b \in Blocks |-> Cardinality(Users(b))] /\ refs' \in [Blocks -> Int]
         /\ disk' = Without(disk, Broken \cup Strays)
         /\ dead' = <<>> /\ stack' = <<>>
         /\ cmds' = [r \in Ranks |-> <<>>] /\ wq' = [r \in Ranks |-> <<>>]
         /\ faults' = faults + 1 /\ lost' = {"entry"} /\ failed' = FALSE /\ skipped' = FALSE
<1>1. /\ index' = SetToSeq(Whole \ Entries) \o Where(index, Whole)
      /\ lru' = [i \in 1..Len(index') |-> index'[i].key]
      /\ refs' = [b \in Blocks |-> Cardinality(Users(b))]
      /\ disk' = Without(disk, Broken \cup Strays)
      /\ dead' = <<>> /\ stack' = <<>>
      /\ cmds' = [r \in Ranks |-> <<>>] /\ wq' = [r \in Ranks |-> <<>>]
      /\ faults' = faults + 1 /\ lost' = {"entry"} /\ failed' = FALSE /\ skipped' = FALSE
  <2>1. \A f \in DOMAIN disk : f[1] \in {"blk", "rows"} => f[2] \in Blocks
    BY DEF Directory, FileNames
  <2>2. \A b \in Blocks : [c \in Blocks |-> Cardinality(Users(c))][b] = Cardinality(Users(b))
    OBVIOUS
  <2>3. Strays = {f \in DOMAIN disk : f[1] \in {"blk", "rows"} /\ [b \in Blocks |-> Cardinality(Users(b))][f[2]] = 0}
    BY <2>1, <2>2 DEF Strays
  <2>4. /\ index' = SetToSeq(Whole \ Entries) \o Where(index, Whole)
        /\ lru' = [i \in 1..Len(index') |-> index'[i].key]
        /\ refs' = [b \in Blocks |-> Cardinality(Users(b))]
        /\ disk' = Without(disk, Broken \cup {f \in DOMAIN disk : f[1] \in {"blk", "rows"} /\ [b \in Blocks |-> Cardinality(Users(b))][f[2]] = 0})
        /\ dead' = <<>> /\ stack' = <<>>
        /\ cmds' = [r \in Ranks |-> <<>>] /\ wq' = [r \in Ranks |-> <<>>]
        /\ faults' = faults + 1 /\ lost' = {"entry"} /\ failed' = FALSE /\ skipped' = FALSE
    BY DEF Restart, Recs, Whole, Users, Broken
  <2> QED BY <2>3, <2>4
<1>2. Whole \subseteq Entry /\ IsFiniteSet(Whole \ Entries) /\ \A d, e \in Whole : d.key = e.key => d = e
  <2>1. Recs \subseteq Entry /\ IsFiniteSet(Recs) /\ Whole \subseteq Recs /\ \A d, e \in Recs : d.key = e.key => d = e
    BY RecsAre
  <2>2. (Whole \ Entries) \in SUBSET Recs
    BY <2>1
  <2> QED BY <2>1, <2>2, FS_Subset
<1>3. PICK s : s = SetToSeq(Whole \ Entries)
  OBVIOUS
<1>4. s \in Seq(Entry) /\ ToSet(s) = Whole \ Entries /\ Distinct(s)
  <2>1. PICK S : S = Whole \ Entries
    OBVIOUS
  <2>2. s \in Seq(S) /\ ToSet(s) = S /\ Distinct(s)
    BY <1>2, <1>3, <2>1, SeqOfSet
  <2>3. S \subseteq Entry
    BY <1>2, <2>1
  <2>4. s \in Seq(Entry)
    BY <2>2, <2>3
  <2> QED BY <2>1, <2>2, <2>4
<1>5. PICK t : t = Where(index, Whole)
  OBVIOUS
<1>6. t \in Seq(Entry) /\ ToSet(t) = Entries \cap Whole /\ (Distinct(index) => Distinct(t))
  BY <1>5, WhereSet DEF Entries
<1>7. PICK u : u = s \o t
  OBVIOUS
<1>8. u \in Seq(Entry) /\ ToSet(u) = ToSet(s) \cup ToSet(t) /\ (Distinct(t) => Distinct(u))
  <2>1. ToSet(s) \cap ToSet(t) = {}
    BY <1>4, <1>6
  <2>2. u \in Seq(Entry) /\ ToSet(u) = ToSet(s) \cup ToSet(t)
    BY <1>4, <1>6, <1>7, ConcatSet
  <2>3. Distinct(t) => Distinct(u)
    BY <1>4, <1>6, <1>7, <2>1, ConcatSet
  <2> QED BY <2>2, <2>3
<1>9. ToSet(u) = Whole
  BY <1>4, <1>6, <1>8
<1>10. PICK n \in Nat : n = Len(u)
  BY <1>8, LenProperties
<1>11. (\A i \in 1..n : u[i] \in Entry) /\ Whole = {u[i] : i \in 1..n}
  BY <1>8, <1>9, <1>10, AsSet
<1>12. PICK l : l = [i \in 1..n |-> u[i].key]
  OBVIOUS
<1>13. l \in [1..n -> Keys]
  BY <1>11, <1>12 DEF Entry
<1>14. l \in Seq(Keys) /\ Len(l) = n
  BY <1>10, <1>13, FunctionIsSeq, Zenon
<1>15. ToSet(l) = {e.key : e \in Whole}
  <2>1. ToSet(l) = {l[i] : i \in 1..n}
    BY <1>14, AsSet
  <2> QED BY <1>11, <1>12, <2>1
<1>16. Distinct(u) => Distinct(l)
  <2>1. ASSUME Distinct(u), NEW i \in 1..n, NEW j \in 1..n, l[i] = l[j] PROVE i = j
    <3>1. u[i].key = u[j].key /\ u[i] \in Whole /\ u[j] \in Whole
      BY <1>11, <1>12, <2>1
    <3>2. u[i] = u[j]
      BY <1>2, <3>1
    <3> QED BY <1>10, <2>1, <3>2 DEF Distinct
  <2> QED BY <1>14, <2>1 DEF Distinct
<1>17. index' = u /\ lru' = l
  BY <1>1, <1>3, <1>5, <1>7, <1>10, <1>12
<1>18. refs' \in [Blocks -> Int]
  BY <1>1, RecsAre
<1> QED BY <1>1, <1>6, <1>8, <1>9, <1>14, <1>15, <1>16, <1>17, <1>18

LEMMA RestartShape ==
  ASSUME Shape, Restart
  PROVE  Shape'
<1>1. /\ index' \in Seq(Entry) /\ lru' \in Seq(Keys) /\ refs' \in [Blocks -> Int]
      /\ disk' = Without(disk, Broken \cup Strays) /\ stack' = <<>>
      /\ cmds' = [r \in Ranks |-> <<>>] /\ wq' = [r \in Ranks |-> <<>>]
  BY RestartIs DEF Shape
<1>2. Directory(disk')
  BY <1>1, UnlinkTyped DEF Shape
<1>3. cmds' \in [Ranks -> Seq(Command)] /\ wq' \in [Ranks -> Seq(Writing)] /\ stack' \in Seq(Prefill)
  BY <1>1
<1> QED BY <1>1, <1>2, <1>3 DEF Shape

LEMMA InitShape ==
  ASSUME Init
  PROVE  Shape
<1>1. /\ <<>> \in Seq(Entry) /\ <<>> \in Seq(Keys) /\ <<>> \in Seq(Prefill)
      /\ <<>> \in Seq(Command) /\ <<>> \in Seq(Writing) /\ DOMAIN <<>> = {}
  OBVIOUS
<1>2. Directory(disk)
  BY <1>1 DEF Init, Directory
<1> QED BY <1>1, <1>2 DEF Init, Shape

LEMMA NextShape ==
  ASSUME Shape, [Next]_vars
  PROVE  Shape'
<1>1. CASE Next
  <2>1. CASE \E ids \in Prompts : Open(ids)
    BY <2>1, OpenShape
  <2>2. CASE Restored \/ RestoreFails
    BY <2>2, RestoredShape
  <2>3. CASE Plan
    BY <2>3, PlanShape
  <2>4. CASE Continue
    BY <2>4, ContinueShape
  <2>5. CASE GridDone
    BY <2>5, GridDoneShape
  <2>6. CASE Fail \/ ChunkFails \/ ReplyFails
    BY <2>6, AbortShape
  <2>7. CASE Snapshot
    BY <2>7, SnapshotShape
  <2>8. CASE SaveTail
    BY <2>8, SaveTailShape
  <2>9. CASE Register
    BY <2>9, RegisterShape
  <2>10. CASE Finish
    BY <2>10, FinishShape
  <2>11. CASE Unlink
    BY <2>11, UnlinkShape
  <2>12. CASE Clear
    BY <2>12, ClearShape
  <2>13. CASE \E r \in Ranks : ExecChunk(r) \/ ExecSnapshot(r) \/ ExecRestore(r)
    BY <2>13, ExecShape
  <2>14. CASE ExecBarrier \/ \E r \in Ranks : Write(r) \/ WriteFails(r)
    BY <2>14, BarrierWriteShape
  <2>15. CASE Restart
    BY <2>15, RestartShape
  <2> QED BY <1>1, <2>1, <2>2, <2>3, <2>4, <2>5, <2>6, <2>7, <2>8, <2>9, <2>10, <2>11, <2>12, <2>13, <2>14, <2>15 DEF Next
<1>2. CASE UNCHANGED vars
  BY <1>2 DEF vars, idx, ranks, history, Shape
<1> QED BY <1>1, <1>2

LEMMA ShapeHolds == Spec => []Shape
BY InitShape, NextShape, PTL DEF Spec

(* _grid_done never meets blocks out of order, and a prefill that is at    *)
(* its end has every block of its prompt (front.py 754-769).               *)
THEOREM CacheGridOrder == Spec => []GridOrder
<1>1. ASSUME Shape PROVE GridOrder
  <2>1. ASSUME NEW i \in 1..Len(stack), NEW p, p = stack[i]
        PROVE  /\ p.pc = "rows" =>
                    LET c == p.chunks[p.k + 1] IN c.block # 0 => Len(p.blocks) = c.end \div Grid - 1
               /\ p.pc = "end" => Len(p.blocks) = Len(p.ids) \div Grid
    <3>1. p \in Prefill
      BY <1>1, <2>1, ElementOfSeq DEF Shape
    <3>2. p \in Fields /\ Placed(p) /\ Tiled(p) /\ Counted(p) /\ p.k \in Nat /\ p.P \in Nat /\ Len(p.chunks) \in Nat
      BY <3>1, FieldsOf
    <3>3. ASSUME p.pc = "rows", NEW c, c = p.chunks[p.k + 1], c.block # 0
          PROVE  Len(p.blocks) = c.end \div Grid - 1
      <4>1. PICK j \in 1..Len(p.chunks) : j = p.k + 1
        BY <3>2, <3>3 DEF Placed
      <4>2. c \in Chunk /\ \A m \in 1..Len(p.chunks) : p.chunks[m] \in Chunk
        BY <3>1, <3>3, <4>1, FieldsOf
      <4>3. PICK a \in Nat : a = Start(p, j)
        <5>1. j # 1 => p.chunks[j - 1] \in Chunk
          BY <3>2, <4>1, <4>2
        <5>2. Start(p, j) \in Nat
          BY <3>2, <5>1 DEF Start, Chunk
        <5> QED BY <5>2
      <4>4. PICK e \in Nat : e = c.end
        BY <4>2 DEF Chunk
      <4>5. a < e /\ e <= a + Grid /\ (FullBlock(c) <= a => c.block = 0) /\ FullBlock(c) = Grid * (e \div Grid)
        BY <3>2, <3>3, <4>1, <4>3, <4>4 DEF Tiled, FullBlock
      <4>6. /\ Grid * (e \div Grid) > a => e \div Grid = a \div Grid + 1
            /\ Grid * (e \div Grid) \in 0..e /\ a \div Grid \in Nat
        BY <4>5, GridStep
      <4>7. e \div Grid = a \div Grid + 1
        BY <3>3, <4>5, <4>6
      <4>8. Len(p.blocks) = a \div Grid
        BY <3>2, <4>1, <4>3 DEF Counted
      <4> QED BY <4>4, <4>6, <4>7, <4>8
    <3>4. p.pc = "end" => Len(p.blocks) = Len(p.ids) \div Grid
      BY <3>2 DEF Placed, Counted
    <3> QED BY <3>3, <3>4
  <2> QED BY <2>1 DEF GridOrder
<1> QED BY <1>1, ShapeHolds, PTL

-----------------------------------------------------------------------------
(* Who runs, and the barrier (Proto).                                      *)

LEMMA AppendBarrier ==
  ASSUME NEW s \in Seq(Command), NEW c \in Command, NoBarrier(s)
  PROVE  IF c.op = "barrier" THEN BarrierLast(Append(s, c)) ELSE NoBarrier(Append(s, c))
<1>1. PICK t : t = Append(s, c)
  OBVIOUS
<1>2. PICK n \in Nat : n = Len(s)
  BY LenProperties
<1>3. t \in Seq(Command) /\ t # <<>> /\ Len(t) = n + 1 /\ t[n + 1] = c /\ \A i \in 1..n : t[i] = s[i]
  BY <1>1, <1>2, AppendLast
<1>4. \A i \in 1..n : t[i].op # "barrier"
  BY <1>2, <1>3 DEF NoBarrier
<1> QED BY <1>1, <1>3, <1>4 DEF NoBarrier, BarrierLast

LEMMA TailBarrier ==
  ASSUME NEW s \in Seq(Command), s # <<>>
  PROVE  /\ Tail(s) \in Seq(Command) /\ s[1] \in Command /\ Head(s) = s[1]
         /\ NoBarrier(s) => NoBarrier(Tail(s)) /\ s[1].op # "barrier"
         /\ BarrierLast(s) /\ s[1].op # "barrier" => BarrierLast(Tail(s))
         /\ BarrierLast(s) /\ s[1].op = "barrier" => Tail(s) = <<>>
<1>1. PICK t \in Seq(Command) : t = Tail(s)
  BY TailSet
<1>2. PICK n \in Nat \ {0} : n = Len(s)
  BY EmptySeq
<1>3. Len(t) = n - 1 /\ \A i \in 1..(n - 1) : t[i] = s[i + 1]
  <2>1. Len(t) = n - 1
    BY <1>1, <1>2, TailSet
  <2> QED BY <1>1, <1>2, <2>1, HeadTailProperties
<1>4. s[1] \in Command /\ Head(s) = s[1]
  BY TailSet, HeadTailProperties
<1>5. NoBarrier(s) => NoBarrier(t) /\ s[1].op # "barrier"
  BY <1>2, <1>3 DEF NoBarrier
<1>6. ASSUME BarrierLast(s), s[1].op # "barrier" PROVE BarrierLast(t)
  <2>1. n # 1
    BY <1>2, <1>6 DEF BarrierLast
  <2>2. t # <<>> /\ n - 1 \in 1..(n - 1) /\ (n - 1) + 1 = n
    BY <1>3, <2>1, EmptySeq
  <2>3. t[n - 1] = s[n]
    BY <1>3, <2>2
  <2>4. \A i \in 1..(n - 2) : t[i].op # "barrier"
    <3>1. \A i \in 1..(n - 2) : i \in 1..(n - 1) /\ i + 1 \in 1..(n - 1)
      OBVIOUS
    <3> QED BY <1>2, <1>3, <1>6, <3>1 DEF BarrierLast
  <2> QED BY <1>2, <1>3, <1>6, <2>2, <2>3, <2>4 DEF BarrierLast
<1>7. ASSUME BarrierLast(s), s[1].op = "barrier" PROVE t = <<>>
  <2>1. n = 1
    BY <1>2, <1>7 DEF BarrierLast
  <2> QED BY <1>3, <2>1, EmptySeq
<1> QED BY <1>1, <1>4, <1>5, <1>6, <1>7

(* A flush in place of the snapshot.                                       *)
LEMMA FlushBarrier ==
  ASSUME NEW s \in Seq(Command), s # <<>>, s[1].op # "barrier"
  PROVE  LET t == <<[op |-> "flush"]>> \o Tail(s) IN
         /\ t \in Seq(Command) /\ t # <<>>
         /\ NoBarrier(s) => NoBarrier(t)
         /\ BarrierLast(s) => BarrierLast(t)
<1>1. PICK f \in Command : f = [op |-> "flush"]
  BY DEF Command
<1>2. f.op # "barrier"
  BY <1>1
<1>3. PICK u \in Seq(Command) : u = Tail(s)
  BY TailSet
<1>4. PICK n \in Nat \ {0} : n = Len(s)
  BY EmptySeq
<1>5. Len(u) = n - 1 /\ \A i \in 1..(n - 1) : u[i] = s[i + 1]
  <2>1. Len(u) = n - 1
    BY <1>3, <1>4, TailSet
  <2> QED BY <1>3, <1>4, <2>1, HeadTailProperties
<1>6. PICK t : t = <<f>> \o u
  OBVIOUS
<1>7. /\ t \in Seq(Command) /\ Len(t) = n /\ t[1] = f
      /\ \A i \in 2..n : t[i] = s[i]
  <2>1. <<f>> \in Seq(Command) /\ Len(<<f>>) = 1 /\ <<f>>[1] = f
    OBVIOUS
  <2>2. /\ t \in Seq(Command) /\ Len(t) = 1 + (n - 1)
        /\ \A i \in 1..Len(t) : t[i] = IF i <= 1 THEN <<f>>[i] ELSE u[i - 1]
    BY <1>5, <1>6, <2>1, ConcatProperties
  <2>3. Len(t) = n
    BY <2>2
  <2>4. \A i \in 2..n : i - 1 \in 1..(n - 1) /\ (i - 1) + 1 = i /\ i \in 1..n /\ ~(i <= 1)
    OBVIOUS
  <2>5. \A i \in 2..n : t[i] = s[i]
    <3>1. \A i \in 2..n : t[i] = u[i - 1]
      BY <2>2, <2>3, <2>4
    <3> QED BY <1>5, <2>4, <3>1
  <2>6. t[1] = f
    BY <2>1, <2>2, <2>3
  <2> QED BY <2>2, <2>3, <2>5, <2>6
<1>8. NoBarrier(s) => NoBarrier(t)
  <2>1. \A i \in 1..n : i = 1 \/ i \in 2..n
    OBVIOUS
  <2> QED BY <1>2, <1>4, <1>7, <2>1 DEF NoBarrier
<1>9. BarrierLast(s) => BarrierLast(t)
  <2>1. ASSUME BarrierLast(s) PROVE BarrierLast(t)
    <3>1. n # 1
      BY <1>4, <2>1 DEF BarrierLast
    <3>2. n \in 2..n /\ \A i \in 1..(n - 1) : i = 1 \/ i \in 2..n
      BY <3>1
    <3>3. t # <<>>
      BY <1>7, EmptySeq
    <3> QED BY <1>2, <1>4, <1>7, <2>1, <3>2, <3>3 DEF BarrierLast
  <2> QED BY <2>1
<1>10. t # <<>>
  BY <1>7, EmptySeq
<1> QED BY <1>1, <1>3, <1>6, <1>7, <1>8, <1>9, <1>10

LEMMA SubmitBarrier ==
  ASSUME cmds \in [Ranks -> Seq(Command)], NEW c \in Command, Submit(c),
         \A r \in Ranks : NoBarrier(cmds[r])
  PROVE  IF c.op = "barrier" THEN \A r \in Ranks : BarrierLast(cmds'[r])
                             ELSE \A r \in Ranks : NoBarrier(cmds'[r])
<1>1. ASSUME NEW r \in Ranks
      PROVE  IF c.op = "barrier" THEN BarrierLast(cmds'[r]) ELSE NoBarrier(cmds'[r])
  <2>1. PICK s \in Seq(Command) : s = cmds[r]
    OBVIOUS
  <2>2. cmds'[r] = Append(s, c)
    BY <2>1, SubmitIs
  <2> QED BY <2>1, <2>2, AppendBarrier
<1> QED BY <1>1

LEMMA StepTurns ==
  ASSUME Turns, Steps
  PROVE  Turns'
BY DEF Turns, Steps

LEMMA PopTurns ==
  ASSUME Turns, Pops
  PROVE  Turns' /\ (stack' # <<>> => run'.pc = "wait") /\ ~AtBarrier'
<1>1. Turns'
  <2>1. \A i \in 1..((Len(stack) - 1) - 1) : i \in 1..(Len(stack) - 1)
    BY DEF Pops
  <2> QED BY <2>1 DEF Turns, Pops
<1>2. stack' # <<>> => run'.pc = "wait"
  <2>1. ASSUME stack' # <<>> PROVE run'.pc = "wait"
    <3>1. run' = stack[Len(stack) - 1] /\ Len(stack) - 1 \in 1..(Len(stack) - 1)
      BY <2>1 DEF Pops
    <3> QED BY <3>1 DEF Turns
  <2> QED BY <2>1
<1> QED BY <1>1, <1>2 DEF AtBarrier

LEMMA EmptyNoBarrier == NoBarrier(<<>>)
BY DEF NoBarrier

LEMMA OpenProto ==
  ASSUME Shape, Proto, NEW ids \in Prompts, Open(ids)
  PROVE  Proto'
<1>1. Pushes /\ MayEnter
  BY OpenIs
<1>2. ~AtBarrier
  BY <1>1 DEF MayEnter, At, AtBarrier
<1>3. run'.pc \in {"plan", "restore"} /\ (UNCHANGED cmds \/ \E c \in Command : c.op = "restore" /\ Submit(c))
  BY OpenIs
<1>4. \A r \in Ranks : NoBarrier(cmds'[r])
  <2>1. \A r \in Ranks : NoBarrier(cmds[r])
    BY <1>2 DEF Proto, Barriers
  <2>2. CASE UNCHANGED cmds
    BY <2>1, <2>2
  <2>3. ASSUME NEW c \in Command, c.op = "restore", Submit(c) PROVE \A r \in Ranks : NoBarrier(cmds'[r])
    BY <2>1, <2>3, SubmitBarrier DEF Shape
  <2> QED BY <1>3, <2>2, <2>3
<1>5. Turns'
  <2>1. Len(stack) = 0 \/ (Len(stack) = 1 /\ run.pc = "wait" /\ run = stack[1])
    BY <1>1, RunIs DEF MayEnter, At, Pushes
  <2>2. CASE Len(stack) = 0
    BY <1>1, <2>2 DEF Turns, Pushes
  <2>3. CASE Len(stack) = 1 /\ run.pc = "wait" /\ run = stack[1]
    <3>1. Len(stack') = 2 /\ stack'[1].pc = "wait"
      BY <1>1, <2>3 DEF Pushes
    <3>2. \A i \in 1..(Len(stack') - 1) : i = 1
      BY <3>1
    <3> QED BY <3>1, <3>2 DEF Turns
  <2> QED BY <2>1, <2>2, <2>3
<1> QED BY <1>3, <1>4, <1>5 DEF Proto, Barriers, AtBarrier

LEMMA MoveProto ==
  ASSUME Shape, Proto, Restored \/ RestoreFails \/ Plan \/ Continue \/ GridDone
  PROVE  Proto'
<1>1. Steps /\ run.pc # "barrier" /\ run'.pc # "barrier"
  <2>1. CASE Restored \/ RestoreFails
    BY <2>1, RestoredIs
  <2>2. CASE Plan
    BY <2>2, PlanActs
  <2>3. CASE Continue
    BY <2>3, ContinueIs
  <2>4. CASE GridDone
    <3>1. Steps /\ run.pc = "rows" /\ run' = Saved(run)
      BY <2>4, GridDoneIs DEF Shape
    <3>2. PICK p \in Prefill : p = run
      BY <3>1 DEF Steps
    <3>3. Saved(p).pc \in {"wait", "end"}
      BY <3>1, <3>2, SavedIs
    <3> QED BY <3>1, <3>2, <3>3
  <2> QED BY <2>1, <2>2, <2>3, <2>4
<1>2. \A r \in Ranks : NoBarrier(cmds[r])
  BY <1>1 DEF Proto, Barriers, AtBarrier
<1>3. UNCHANGED cmds \/ \E c \in Command : c.op = "chunk" /\ Submit(c)
  <2>1. CASE Restored \/ RestoreFails
    BY <2>1, RestoredIs DEF ranks
  <2>2. CASE Plan
    <3>1. PICK p \in Prefill : p = run'
      BY <1>1 DEF Steps
    <3>2. \A k \in 1..Len(p.chunks) : ChunkCmd(p, k).op = "chunk"
      BY ChunkCmdIs
    <3> QED BY <2>2, <3>1, <3>2, PlanActs
  <2>3. CASE Continue
    <3>1. PICK p \in Prefill : p = run
      BY <1>1 DEF Steps
    <3>2. \A k \in 1..Len(p.chunks) : ChunkCmd(p, k).op = "chunk"
      BY ChunkCmdIs
    <3> QED BY <2>3, <3>1, <3>2, ContinueIs
  <2>4. CASE GridDone
    BY <2>4, GridDoneIs DEF Shape, ranks
  <2> QED BY <2>1, <2>2, <2>3, <2>4
<1>4. \A r \in Ranks : NoBarrier(cmds'[r])
  <2>1. CASE UNCHANGED cmds
    BY <1>2, <2>1
  <2>2. ASSUME NEW c \in Command, c.op = "chunk", Submit(c) PROVE \A r \in Ranks : NoBarrier(cmds'[r])
    BY <1>2, <2>2, SubmitBarrier DEF Shape
  <2> QED BY <1>3, <2>1, <2>2
<1>5. Turns'
  BY <1>1, StepTurns DEF Proto
<1> QED BY <1>1, <1>4, <1>5 DEF Proto, Barriers, AtBarrier

LEMMA EndProto ==
  ASSUME Shape, Proto, Fail \/ ChunkFails \/ ReplyFails \/ Finish
  PROVE  Proto'
<1>1. Pops
  BY AbortIs, FinishIs
<1>2. Turns' /\ ~AtBarrier'
  BY <1>1, PopTurns DEF Proto
<1>3. \A r \in Ranks : NoBarrier(cmds'[r])
  <2>1. CASE Fail \/ ChunkFails \/ ReplyFails
    <3>1. (cmds[0] = <<>> /\ UNCHANGED cmds) \/ cmds' = [r \in Ranks |-> <<>>]
      BY <2>1, AbortIs
    <3>2. CASE run.pc # "barrier"
      <4>1. \A r \in Ranks : NoBarrier(cmds[r])
        BY <3>2 DEF Proto, Barriers, AtBarrier
      <4> QED BY <3>1, <4>1, EmptyNoBarrier
    <3>3. CASE run.pc = "barrier" /\ cmds[0] = <<>> /\ UNCHANGED cmds
      <4>1. AtBarrier
        BY <1>1, <3>3 DEF AtBarrier, Pops
      <4>2. \A r \in Ranks : cmds[r] = <<>>
        BY <3>3, <4>1 DEF Proto, Barriers, BarrierLast, Ranks
      <4> QED BY <3>3, <4>2, EmptyNoBarrier
    <3>4. CASE cmds' = [r \in Ranks |-> <<>>]
      BY <3>4, EmptyNoBarrier
    <3> QED BY <3>1, <3>2, <3>3, <3>4
  <2>2. CASE Finish
    <3>1. AtBarrier /\ cmds[0] = <<>> /\ UNCHANGED cmds
      BY <2>2, FinishIs DEF AtBarrier, Pops, ranks
    <3>2. \A r \in Ranks : cmds[r] = <<>>
      BY <3>1 DEF Proto, Barriers, BarrierLast, Ranks
    <3> QED BY <3>1, <3>2, EmptyNoBarrier
  <2> QED BY <2>1, <2>2
<1> QED BY <1>2, <1>3 DEF Proto, Barriers

LEMMA SaveProto ==
  ASSUME Shape, Proto, Snapshot \/ SaveTail \/ Register
  PROVE  Proto'
<1>1. Steps
  BY SnapshotIs, SaveTailIs, RegisterIs
<1>2. Turns'
  BY <1>1, StepTurns DEF Proto
<1>3. CASE Snapshot \/ SaveTail
  <2>1. run.pc # "barrier"
    BY <1>3, SnapshotIs, SaveTailIs
  <2>2. \A r \in Ranks : NoBarrier(cmds[r])
    BY <2>1 DEF Proto, Barriers, AtBarrier
  <2>3. PICK c \in Command : Submit(c) /\ (IF c.op = "barrier" THEN run'.pc = "barrier" ELSE run'.pc # "barrier")
    <3>1. CASE Snapshot
      BY <3>1, SnapshotIs
    <3>2. CASE SaveTail
      BY <3>2, SaveTailIs
    <3> QED BY <1>3, <3>1, <3>2
  <2>4. IF c.op = "barrier" THEN \A r \in Ranks : BarrierLast(cmds'[r])
                            ELSE \A r \in Ranks : NoBarrier(cmds'[r])
    BY <2>2, <2>3, SubmitBarrier DEF Shape
  <2> QED BY <1>1, <1>2, <2>3, <2>4 DEF Proto, Barriers, AtBarrier, Steps
<1>4. CASE Register
  <2>1. AtBarrier /\ AtBarrier' /\ UNCHANGED ranks
    BY <1>4, RegisterIs DEF AtBarrier, Steps
  <2> QED BY <1>2, <2>1 DEF Proto, Barriers, ranks
<1> QED BY <1>3, <1>4

LEMMA ExecProto ==
  ASSUME Shape, Proto, NEW r \in Ranks, ExecChunk(r) \/ ExecSnapshot(r) \/ ExecRestore(r)
  PROVE  Proto'
<1>1. cmds \in [Ranks -> Seq(Command)] /\ wq \in [Ranks -> Seq(Writing)]
  BY DEF Shape
<1>2. UNCHANGED stack
  BY DEF ExecChunk, ExecSnapshot, ExecRestore
<1>3. PICK s \in Seq(Command) : s = cmds[r]
  BY <1>1
<1>4. s # <<>> /\ s[1].op # "barrier" /\ \A t \in Ranks : t # r => cmds'[t] = cmds[t]
  <2>1. CASE ExecChunk(r)
    BY <1>1, <1>3, <2>1, ExecChunkIs, ExecutedIs
  <2>2. CASE ExecSnapshot(r)
    BY <1>1, <1>3, <2>2, ExecSnapshotIs
  <2>3. CASE ExecRestore(r)
    <3>1. s # <<>> /\ Head(s).op # "barrier" /\ Executed(r)
      BY <1>3, <2>3 DEF ExecRestore, Does
    <3> QED BY <1>1, <1>3, <3>1, ExecutedIs, TailBarrier
  <2> QED BY <2>1, <2>2, <2>3
<1>5. PICK t \in Seq(Command) :
        t = cmds'[r] /\ (NoBarrier(s) => NoBarrier(t)) /\ (BarrierLast(s) => BarrierLast(t))
  <2>1. CASE ExecChunk(r)
    <3>1. cmds'[r] = Tail(s)
      BY <1>1, <1>3, <2>1, ExecChunkIs, ExecutedIs
    <3> QED BY <1>4, <3>1, TailBarrier
  <2>2. CASE ExecSnapshot(r)
    <3>1. cmds'[r] = <<[op |-> "flush"]>> \o Tail(s)
      BY <1>1, <1>3, <2>2, ExecSnapshotIs
    <3> QED BY <1>4, <3>1, FlushBarrier
  <2>3. CASE ExecRestore(r)
    <3>1. Executed(r)
      BY <2>3 DEF ExecRestore
    <3>2. cmds'[r] = Tail(s)
      BY <1>1, <1>3, <1>4, <3>1, ExecutedIs
    <3> QED BY <1>4, <3>2, TailBarrier
  <2> QED BY <2>1, <2>2, <2>3
<1>6. AtBarrier' <=> AtBarrier
  BY <1>2 DEF AtBarrier, run
<1>7. AtBarrier => \A q \in Ranks : BarrierLast(cmds[q])
  BY <1>3, <1>4 DEF Proto, Barriers
<1>8. AtBarrier => \A q \in Ranks : BarrierLast(cmds'[q])
  BY <1>3, <1>4, <1>5, <1>7
<1>9. ~AtBarrier => \A q \in Ranks : NoBarrier(cmds'[q])
  BY <1>3, <1>4, <1>5 DEF Proto, Barriers
<1>10. Turns'
  BY <1>2 DEF Proto, Turns
<1> QED BY <1>6, <1>8, <1>9, <1>10 DEF Proto, Barriers

LEMMA BarrierProto ==
  ASSUME Shape, Proto, ExecBarrier
  PROVE  Proto'
<1>1. /\ \A r \in Ranks : cmds[r] # <<>> /\ cmds[r][1].op = "barrier" /\ wq[r] = <<>> /\ cmds'[r] = Tail(cmds[r])
      /\ UNCHANGED <<stack, wq>> /\ cmds \in [Ranks -> Seq(Command)]
  BY BarrierIs DEF Shape
<1>2. AtBarrier
  <2>1. PICK s \in Seq(Command) : s = cmds[0]
    BY <1>1 DEF Ranks
  <2>2. ~NoBarrier(s)
    BY <1>1, <2>1, TailBarrier DEF Ranks
  <2> QED BY <2>1, <2>2 DEF Proto, Barriers, Ranks
<1>3. \A r \in Ranks : BarrierLast(cmds[r])
  BY <1>1, <1>2 DEF Proto, Barriers
<1>4. ASSUME NEW r \in Ranks PROVE cmds'[r] = <<>>
  <2>1. PICK s \in Seq(Command) : s = cmds[r]
    BY <1>1
  <2>2. Tail(s) = <<>>
    BY <1>1, <1>3, <2>1, TailBarrier
  <2> QED BY <1>1, <2>1, <2>2
<1>5. Turns' /\ AtBarrier'
  BY <1>1, <1>2 DEF Proto, Turns, AtBarrier, run
<1> QED BY <1>1, <1>4, <1>5 DEF Proto, Barriers

LEMMA WriteProto ==
  ASSUME Shape, Proto, NEW r \in Ranks, Write(r) \/ WriteFails(r)
  PROVE  Proto'
<1>1. UNCHANGED <<stack, cmds>> /\ wq[r] # <<>>
  BY WriteIs DEF Shape
<1>2. Turns' /\ (AtBarrier' <=> AtBarrier)
  BY <1>1 DEF Proto, Turns, AtBarrier, run
<1> QED BY <1>1, <1>2 DEF Proto, Barriers

LEMMA OtherProto ==
  ASSUME Proto, UNCHANGED <<stack, ranks>>
  PROVE  Proto'
BY DEF Proto, Turns, Barriers, AtBarrier, run, ranks

LEMMA StartProto ==
  ASSUME stack = <<>>, cmds = [r \in Ranks |-> <<>>]
  PROVE  Proto
<1>1. Len(stack) = 0
  OBVIOUS
<1> QED BY <1>1, EmptyNoBarrier DEF Proto, Turns, Barriers, AtBarrier

LEMMA NextProto ==
  ASSUME Shape, Proto, [Next]_vars
  PROVE  Proto'
<1>1. CASE Next
  <2>1. CASE \E ids \in Prompts : Open(ids)
    BY <2>1, OpenProto
  <2>2. CASE Restored \/ RestoreFails \/ Plan \/ Continue \/ GridDone
    BY <2>2, MoveProto
  <2>3. CASE Fail \/ ChunkFails \/ ReplyFails \/ Finish
    BY <2>3, EndProto
  <2>4. CASE Snapshot \/ SaveTail \/ Register
    BY <2>4, SaveProto
  <2>5. CASE Unlink \/ Clear
    BY <2>5, OtherProto DEF Unlink, Clear
  <2>6. CASE \E r \in Ranks : ExecChunk(r) \/ ExecSnapshot(r) \/ ExecRestore(r)
    BY <2>6, ExecProto
  <2>7. CASE \E r \in Ranks : Write(r) \/ WriteFails(r)
    BY <2>7, WriteProto
  <2>8. CASE ExecBarrier
    BY <2>8, BarrierProto
  <2>9. CASE Restart
    <3>1. stack' = <<>> /\ cmds' = [r \in Ranks |-> <<>>]
      BY <2>9 DEF Restart
    <3>2. Len(stack') = 0
      BY <3>1
    <3> QED BY <3>1, <3>2, EmptyNoBarrier DEF Proto, Turns, Barriers, AtBarrier
  <2> QED BY <1>1, <2>1, <2>2, <2>3, <2>4, <2>5, <2>6, <2>7, <2>8, <2>9 DEF Next
<1>2. CASE UNCHANGED vars
  BY <1>2, OtherProto DEF vars
<1> QED BY <1>1, <1>2

-----------------------------------------------------------------------------
(* Whose an id is (SlotInv).                                               *)

(* The running prefill moves on.                                           *)
LEMMA StepSlots ==
  ASSUME SlotInv, Steps, Slots(run'),
         \A i \in 1..(Len(stack) - 1) : Apart(run', stack[i])
  PROVE  SlotInv'
<1>1. PICK n \in Nat \ {0} : n = Len(stack) /\ n = Len(stack')
  BY DEF Steps
<1>2. stack'[n] = run' /\ \A i \in 1..n : i # n => i \in 1..(n - 1) /\ stack'[i] = stack[i]
  BY <1>1 DEF Steps
<1>3. \A i \in 1..n : Slots(stack'[i])
  BY <1>1, <1>2 DEF SlotInv
<1>4. ASSUME NEW i \in 1..n, NEW j \in 1..n, i # j PROVE Apart(stack'[i], stack'[j])
  <2>1. CASE i = n
    BY <1>1, <1>2, <1>4, <2>1
  <2>2. CASE j = n
    <3>1. Apart(run', stack[i])
      BY <1>1, <1>2, <1>4, <2>2
    <3>2. Apart(stack[i], run')
      BY <3>1 DEF Apart
    <3> QED BY <1>2, <1>4, <2>2, <3>2
  <2>3. CASE i # n /\ j # n
    BY <1>1, <1>2, <1>4, <2>3 DEF SlotInv
  <2> QED BY <2>1, <2>2, <2>3
<1> QED BY <1>1, <1>3, <1>4 DEF SlotInv

(* It has no ids it did not have.                                          *)
LEMMA SameSlots ==
  ASSUME SlotInv, Steps, Slots(run'),
         \A b \in Blocks : HasBlock(run', b) => HasBlock(run, b),
         \A key \in Keys : HasKey(run', key) => HasKey(run, key)
  PROVE  SlotInv'
<1>1. ASSUME NEW i \in 1..(Len(stack) - 1) PROVE Apart(run', stack[i])
  <2>1. Apart(run, stack[i])
    <3>1. Len(stack) \in 1..Len(stack) /\ i \in 1..Len(stack) /\ i # Len(stack) /\ run = stack[Len(stack)]
      BY DEF Steps
    <3> QED BY <3>1 DEF SlotInv
  <2> QED BY <2>1 DEF Apart
<1> QED BY <1>1, StepSlots

LEMMA PopSlots ==
  ASSUME SlotInv, Pops
  PROVE  SlotInv' /\ \A i \in 1..Len(stack') : stack'[i] = stack[i] /\ Apart(stack'[i], run) /\ Apart(run, stack'[i])
<1>1. PICK n \in Nat \ {0} : n = Len(stack) /\ n - 1 = Len(stack') /\ run = stack[n]
  BY DEF Pops
<1>2. \A i \in 1..(n - 1) : i \in 1..n /\ i # n /\ stack'[i] = stack[i]
  BY <1>1 DEF Pops
<1>3. n \in 1..n
  OBVIOUS
<1> QED BY <1>1, <1>2, <1>3 DEF SlotInv

LEMMA PushSlots ==
  ASSUME SlotInv, Pushes, Slots(run'), \A i \in 1..Len(stack) : Apart(run', stack[i])
  PROVE  SlotInv'
<1>1. PICK n \in Nat : n = Len(stack) /\ n + 1 = Len(stack') /\ stack'[n + 1] = run'
  BY DEF Pushes
<1>2. \A i \in 1..(n + 1) : i # n + 1 => i \in 1..n /\ stack'[i] = stack[i]
  BY <1>1 DEF Pushes
<1>3. \A i \in 1..(n + 1) : Slots(stack'[i])
  BY <1>1, <1>2 DEF SlotInv
<1>4. ASSUME NEW i \in 1..(n + 1), NEW j \in 1..(n + 1), i # j PROVE Apart(stack'[i], stack'[j])
  <2>1. CASE i = n + 1
    BY <1>1, <1>2, <1>4, <2>1
  <2>2. CASE j = n + 1
    <3>1. Apart(run', stack[i])
      BY <1>1, <1>2, <1>4, <2>2
    <3>2. Apart(stack[i], run')
      BY <3>1 DEF Apart
    <3> QED BY <1>1, <1>2, <1>4, <2>2, <3>2
  <2>3. CASE i # n + 1 /\ j # n + 1
    BY <1>1, <1>2, <1>4, <2>3 DEF SlotInv
  <2> QED BY <2>1, <2>2, <2>3
<1> QED BY <1>1, <1>3, <1>4 DEF SlotInv

(* A prefill without a plan.                                               *)
LEMMA NoSlots ==
  ASSUME NEW p, p.chunks = <<>>, p.new = <<>>, p.ents = <<>>, p.key = 0, p.k = 0
  PROVE  Slots(p) /\ (\A b : ~HasBlock(p, b)) /\ (\A key \in Keys : ~HasKey(p, key)) /\ \A q : Apart(p, q)
<1>1. Len(<<>>) = 0 /\ ToSet(<<>>) = {} /\ 1..0 = {}
  BY DEF ToSet
<1>2. 0 \notin Keys
  BY FreeTypes
<1>3. (\A b : ~HasBlock(p, b)) /\ (\A key \in Keys : ~HasKey(p, key))
  BY <1>1, <1>2 DEF HasBlock, HasKey
<1>4. Slots(p)
  BY <1>1 DEF Slots, OwnIds, OwnEntries, OwnBlocks
<1> QED BY <1>3, <1>4 DEF Apart

LEMMA FreeIds ==
  ASSUME stack \in Seq(Prefill), NEW i \in 1..Len(stack)
  PROVE  /\ \A b \in FreeBlocks : ~HasBlock(stack[i], b)
         /\ \A key \in FreeKeys : ~HasKey(stack[i], key)
<1>1. PICK p \in Prefill : p = stack[i] /\ p \in ToSet(stack)
  BY AsSet
<1>2. \A j \in 1..Len(p.chunks) : p.chunks[j] \in Planned
  <2>1. ToSet(p.chunks) = {p.chunks[j] : j \in 1..Len(p.chunks)}
    BY FieldsOf, AsSet
  <2> QED BY <1>1, <2>1 DEF Planned
<1> QED BY <1>1, <1>2 DEF FreeBlocks, FreeKeys, HasBlock, HasKey

LEMMA OpenSlot ==
  ASSUME Shape, SlotInv, NEW ids \in Prompts, Open(ids)
  PROVE  SlotInv'
BY OpenIs, NoSlots, PushSlots

LEMMA RestoredSlot ==
  ASSUME Shape, SlotInv, Restored \/ RestoreFails
  PROVE  SlotInv'
<1>1. /\ Steps /\ run'.chunks = <<>> /\ run'.new = <<>> /\ run'.ents = <<>> /\ run'.key = 0
  BY RestoredIs
<1>2. run'.k = 0
  <2>1. PICK q \in Prefill : q = run'
    BY <1>1 DEF Steps
  <2>2. q.k \in Nat /\ q.k <= Len(q.chunks)
    BY FieldsOf DEF Placed
  <2>3. Len(<<>>) = 0
    OBVIOUS
  <2> QED BY <1>1, <2>1, <2>2, <2>3
<1> QED BY <1>1, <1>2, NoSlots, StepSlots

LEMMA PlanSlot ==
  ASSUME Shape, SlotInv, Plan
  PROVE  SlotInv'
<1>1. /\ Steps /\ PlanParts(run.ids, run.P, run'.chunks) /\ run'.k = 0
      /\ run'.new = <<>> /\ run'.ents = <<>> /\ run'.key = 0
  BY PlanActs
<1>2. PICK q \in Prefill : q = run'
  BY <1>1 DEF Steps
<1>3. ASSUME NEW k \in 1..Len(q.chunks)
      PROVE  /\ q.chunks[k].block # 0 => q.chunks[k].block \in FreeBlocks
             /\ q.chunks[k].key # 0 => q.chunks[k].key \in FreeKeys
  BY <1>1, <1>2 DEF PlanParts
<1>4. Slots(q)
  <2>1. ToSet(<<>>) = {} /\ Len(<<>>) = 0 /\ 1..0 = {}
    BY DEF ToSet
  <2>2. OwnIds(q)
    BY <1>1, <1>2 DEF PlanParts, OwnIds
  <2>3. OwnEntries(q) /\ OwnBlocks(q)
    BY <1>1, <1>2, <2>1 DEF OwnEntries, OwnBlocks
  <2> QED BY <2>2, <2>3 DEF Slots
<1>5. ASSUME NEW i \in 1..(Len(stack) - 1) PROVE Apart(q, stack[i])
  <2>1. i \in 1..Len(stack)
    BY <1>1 DEF Steps
  <2>2. /\ \A b \in FreeBlocks : ~HasBlock(stack[i], b)
        /\ \A key \in FreeKeys : ~HasKey(stack[i], key)
    BY <2>1, FreeIds DEF Shape
  <2>3. \A b \in Blocks : HasBlock(q, b) => b \in FreeBlocks
    BY <1>3, FreeTypes DEF HasBlock
  <2>4. \A key \in Keys : HasKey(q, key) => key \in FreeKeys
    BY <1>1, <1>2, <1>3, FreeTypes DEF HasKey
  <2> QED BY <2>2, <2>3, <2>4 DEF Apart
<1> QED BY <1>1, <1>2, <1>4, <1>5, StepSlots

LEMMA ContinueSlot ==
  ASSUME Shape, SlotInv, Continue
  PROVE  SlotInv'
<1>1. /\ Steps /\ run.pc = "wait" /\ run'.pc = "rows" /\ run'.chunks = run.chunks /\ run'.k = run.k
      /\ run'.new = run.new /\ run'.ents = run.ents /\ run'.key = run.key
  BY ContinueIs
<1>2. Slots(run)
  BY <1>1 DEF SlotInv, Steps
<1>3. Slots(run')
  BY <1>1, <1>2 DEF Slots, OwnIds, OwnEntries, OwnBlocks, Named
<1>4. \A x : (HasBlock(run', x) <=> HasBlock(run, x)) /\ (HasKey(run', x) <=> HasKey(run, x))
  BY <1>1 DEF HasBlock, HasKey
<1> QED BY <1>1, <1>3, <1>4, SameSlots

LEMMA GridDoneSlot ==
  ASSUME Shape, SlotInv, GridDone
  PROVE  SlotInv'
<1>1. Steps /\ run.pc = "rows" /\ run' = Saved(run)
  BY GridDoneIs DEF Shape
<1>2. PICK p \in Prefill : p = run
  BY <1>1 DEF Steps
<1>3. PICK q \in Prefill : q = Saved(p)
  BY <1>1, <1>2, SavedIs
<1>4. PICK c \in Chunk : c = p.chunks[p.k + 1]
  BY <1>1, <1>2, SavedIs
<1>5. PICK e : e = [key |-> c.key, tokens |-> Prefix(p.ids, c.end), blocks |-> q.blocks, capture |-> FALSE]
  OBVIOUS
<1>6. /\ q.chunks = p.chunks /\ q.key = 0 /\ p.key = 0 /\ q.k = p.k + 1 /\ p.k + 1 \in 1..Len(p.chunks)
      /\ q.new = (IF c.block = 0 THEN p.new ELSE Append(p.new, c.block))
      /\ q.ents = (IF c.key = 0 THEN p.ents ELSE Append(p.ents, e))
      /\ c.key # 0 => e \in Entry
  BY <1>1, <1>2, <1>3, <1>4, <1>5, SavedIs
<1>7. /\ p.k \in Nat /\ p.new \in Seq(Blocks) /\ p.ents \in Seq(Entry) /\ Len(p.ents) \in Nat
      /\ c.block \in Blocks \cup {0} /\ c.key \in Keys \cup {0}
  BY FieldsOf DEF Chunk
<1>8. Slots(p)
  BY <1>1, <1>2 DEF SlotInv, Steps
<1>9. \A j \in 1..q.k : j = p.k + 1 \/ j \in 1..p.k
  BY <1>6, <1>7
<1>10. \A j \in 1..p.k : j \in 1..q.k /\ j \in 1..Len(p.chunks) /\ j # p.k + 1
  BY <1>6, <1>7
<1>11. OwnIds(q)
  BY <1>6, <1>8 DEF Slots, OwnIds
<1>12. \A key : Named(p, key) => Named(q, key)
  BY <1>1, <1>2, <1>6, <1>10 DEF Named
<1>13. OwnEntries(q)
  <2>1. CASE c.key = 0
    BY <1>6, <1>8, <1>12, <2>1 DEF Slots, OwnEntries
  <2>2. CASE c.key # 0
    <3>1. e \in Entry /\ e.key = c.key /\ q.ents = Append(p.ents, e)
      BY <1>5, <1>6, <2>2
    <3>2. PICK n \in Nat : n = Len(p.ents)
      BY <1>7
    <3>3. Len(q.ents) = n + 1 /\ q.ents[n + 1] = e /\ \A m \in 1..n : q.ents[m] = p.ents[m]
      BY <1>7, <3>1, <3>2, AppendLast
    <3>4. Named(q, c.key)
      BY <1>4, <1>6, <1>7 DEF Named
    <3>5. \A m \in 1..n : p.ents[m].key # c.key
      <4>1. ASSUME NEW m \in 1..n, p.ents[m].key = c.key PROVE FALSE
        <5>1. PICK j \in 1..p.k : p.chunks[j].key = c.key
          BY <1>1, <1>2, <1>8, <3>2, <4>1 DEF Slots, OwnEntries, Named
        <5> QED BY <1>4, <1>6, <1>8, <1>10, <2>2, <5>1 DEF Slots, OwnIds
      <4> QED BY <4>1
    <3>6. \A m \in 1..(n + 1) : m = n + 1 \/ m \in 1..n
      OBVIOUS
    <3>7. \A m, l \in 1..(n + 1) : q.ents[m].key = q.ents[l].key => m = l
      BY <1>8, <3>1, <3>2, <3>3, <3>5, <3>6 DEF Slots, OwnEntries
    <3>8. \A m \in 1..(n + 1) : Named(q, q.ents[m].key)
      BY <1>8, <1>12, <3>1, <3>2, <3>3, <3>4, <3>6 DEF Slots, OwnEntries
    <3> QED BY <3>3, <3>7, <3>8 DEF OwnEntries
  <2> QED BY <2>1, <2>2
<1>14. OwnBlocks(q)
  <2>1. ToSet(q.new) = (IF c.block = 0 THEN ToSet(p.new) ELSE ToSet(p.new) \cup {c.block})
    <3>1. PICK s \in Seq(Blocks) : s = p.new
      BY <1>7
    <3>2. PICK b : b = c.block
      OBVIOUS
    <3>3. b # 0 => ToSet(Append(s, b)) = ToSet(s) \cup {b}
      BY <1>7, <3>2, AppendSet
    <3> QED BY <1>6, <3>1, <3>2, <3>3
  <2>2. 0 \notin Blocks
    BY FreeTypes
  <2>3. p.k + 1 \in 1..q.k
    BY <1>6, <1>7
  <2>4. ASSUME NEW b \in Blocks PROVE b \in ToSet(q.new) <=> \E j \in 1..q.k : q.chunks[j].block = b
    <3>1. b \in ToSet(q.new) <=> b \in ToSet(p.new) \/ b = c.block
      BY <2>1, <2>2
    <3>2. b \in ToSet(p.new) <=> \E j \in 1..p.k : p.chunks[j].block = b
      BY <1>8 DEF Slots, OwnBlocks
    <3> QED BY <1>4, <1>6, <1>9, <1>10, <2>3, <3>1, <3>2
  <2> QED BY <2>4 DEF OwnBlocks
<1>15. Slots(q)
  BY <1>11, <1>13, <1>14 DEF Slots
<1>16. \A x : (HasBlock(q, x) <=> HasBlock(p, x)) /\ (HasKey(q, x) <=> HasKey(p, x))
  BY <1>6 DEF HasBlock, HasKey
<1>17. run' = q
  BY <1>1, <1>2, <1>3
<1> QED BY <1>1, <1>2, <1>15, <1>16, <1>17, SameSlots

LEMMA SnapshotSlot ==
  ASSUME Shape, SlotInv, Snapshot
  PROVE  SlotInv'
<1>1. /\ Steps /\ run.pc = "end" /\ run'.chunks = run.chunks /\ run'.k = run.k
      /\ run'.new = run.new /\ run'.ents = run.ents /\ run.key = 0
      /\ \/ run'.pc = "snap" /\ run'.key \in FreeKeys
         \/ run'.pc = "barrier" /\ run'.key = 0
  BY SnapshotIs
<1>2. Slots(run)
  BY <1>1 DEF SlotInv, Steps
<1>3. run'.key # 0 => run'.key \in FreeKeys
  BY <1>1
<1>4. ASSUME NEW i \in 1..Len(stack)
      PROVE  run'.key # 0 => ~HasKey(stack[i], run'.key)
  BY <1>3, FreeIds DEF Shape
<1>5. OwnIds(run')
  <2>1. run'.key # 0 => ~HasKey(run, run'.key)
    BY <1>1, <1>4 DEF Steps
  <2> QED BY <1>1, <1>2, <2>1 DEF Slots, OwnIds, HasKey
<1>6. OwnEntries(run')
  <2>1. \A key : Named(run, key) => Named(run', key)
    BY <1>1 DEF Named
  <2> QED BY <1>1, <1>2, <2>1 DEF Slots, OwnEntries
<1>7. OwnBlocks(run')
  BY <1>1, <1>2 DEF Slots, OwnBlocks
<1>8. ASSUME NEW i \in 1..(Len(stack) - 1) PROVE Apart(run', stack[i])
  <2>1. Apart(run, stack[i]) /\ i \in 1..Len(stack)
    BY <1>1 DEF SlotInv, Steps
  <2>2. \A b : HasBlock(run', b) <=> HasBlock(run, b)
    BY <1>1 DEF HasBlock
  <2>3. \A key \in Keys : HasKey(run', key) => HasKey(run, key) \/ (run'.key = key /\ key # 0)
    BY <1>1, FreeTypes DEF HasKey
  <2> QED BY <1>4, <2>1, <2>2, <2>3 DEF Apart
<1> QED BY <1>1, <1>5, <1>6, <1>7, <1>8, StepSlots DEF Slots

LEMMA SaveTailSlot ==
  ASSUME Shape, SlotInv, SaveTail
  PROVE  SlotInv'
<1>1. /\ Steps /\ run.pc = "snap" /\ run'.pc = "barrier" /\ run'.chunks = run.chunks /\ run'.k = run.k
      /\ run'.new = run.new /\ run.key \in Keys /\ run'.key = run.key
  BY SaveTailIs
<1>2. PICK p \in Prefill : p = run
  BY <1>1 DEF Steps
<1>3. PICK q \in Prefill : q = run'
  BY <1>1 DEF Steps
<1>4. PICK e \in Entry : e.key = p.key /\ q.ents = Append(p.ents, e)
  BY <1>2, <1>3, SaveTailIs
<1>5. Slots(p)
  BY <1>1, <1>2 DEF SlotInv, Steps
<1>6. p.ents \in Seq(Entry) /\ Len(p.ents) \in Nat /\ p.k <= Len(p.chunks) /\ p.k \in Nat /\ Len(p.chunks) \in Nat
  BY FieldsOf DEF Placed
<1>7. OwnIds(q) /\ OwnBlocks(q)
  BY <1>1, <1>2, <1>3, <1>5 DEF Slots, OwnIds, OwnBlocks
<1>8. \A key : Named(p, key) => Named(q, key)
  BY <1>1, <1>2, <1>3 DEF Named
<1>9. OwnEntries(q)
  <2>1. PICK n \in Nat : n = Len(p.ents)
    BY <1>6
  <2>2. Len(q.ents) = n + 1 /\ q.ents[n + 1] = e /\ \A m \in 1..n : q.ents[m] = p.ents[m]
    BY <1>4, <1>6, <2>1, AppendLast
  <2>3. Named(q, e.key)
    BY <1>1, <1>2, <1>3, <1>4 DEF Named
  <2>4. \A m \in 1..n : p.ents[m].key # e.key
    <3>1. ASSUME NEW m \in 1..n, p.ents[m].key = e.key PROVE FALSE
      <4>1. PICK j \in 1..p.k : p.chunks[j].key = e.key
        BY <1>1, <1>2, <1>5, <2>1, <3>1 DEF Slots, OwnEntries, Named
      <4>2. j \in 1..Len(p.chunks) /\ p.key # 0
        BY <1>1, <1>2, <1>6, FreeTypes
      <4> QED BY <1>4, <1>5, <4>1, <4>2 DEF Slots, OwnIds
    <3> QED BY <3>1
  <2>5. \A m \in 1..(n + 1) : m = n + 1 \/ m \in 1..n
    OBVIOUS
  <2>6. \A m, l \in 1..(n + 1) : q.ents[m].key = q.ents[l].key => m = l
    BY <1>5, <2>1, <2>2, <2>4, <2>5 DEF Slots, OwnEntries
  <2>7. \A m \in 1..(n + 1) : Named(q, q.ents[m].key)
    BY <1>5, <1>8, <2>1, <2>2, <2>3, <2>5 DEF Slots, OwnEntries
  <2> QED BY <2>2, <2>6, <2>7 DEF OwnEntries
<1>10. \A x : (HasBlock(q, x) <=> HasBlock(p, x)) /\ (HasKey(q, x) <=> HasKey(p, x))
  BY <1>1, <1>2, <1>3 DEF HasBlock, HasKey
<1> QED BY <1>1, <1>2, <1>3, <1>7, <1>9, <1>10, SameSlots DEF Slots

LEMMA RegisterSlot ==
  ASSUME Shape, SlotInv, Register
  PROVE  /\ SlotInv'
         /\ \A m \in 1..Len(run'.ents) : run'.ents[m].key # Head(run.ents).key
         /\ \A i \in 1..(Len(stack) - 1) : ~HasKey(stack[i], Head(run.ents).key)
         /\ Named(run, Head(run.ents).key) /\ HasKey(run, Head(run.ents).key)
<1>1. /\ Steps /\ run.pc = "barrier" /\ run'.pc = "barrier" /\ run'.chunks = run.chunks /\ run'.k = run.k
      /\ run'.new = run.new /\ run'.key = run.key /\ run.ents # <<>> /\ run'.ents = Tail(run.ents)
      /\ Head(run.ents) = run.ents[1] /\ Head(run.ents) \in Entry
  BY RegisterIs
<1>2. PICK p \in Prefill : p = run
  BY <1>1 DEF Steps
<1>3. PICK q \in Prefill : q = run'
  BY <1>1 DEF Steps
<1>4. Slots(p)
  BY <1>1, <1>2 DEF SlotInv, Steps
<1>5. p.ents \in Seq(Entry) /\ p.k <= Len(p.chunks) /\ p.k \in Nat /\ Len(p.chunks) \in Nat
  BY FieldsOf DEF Placed
<1>6. PICK n \in Nat \ {0} : n = Len(p.ents)
  BY <1>1, <1>2, <1>5, EmptySeq
<1>7. Len(q.ents) = n - 1 /\ \A m \in 1..(n - 1) : q.ents[m] = p.ents[m + 1]
  <2>1. PICK s : s = p.ents
    OBVIOUS
  <2>2. s \in Seq(Entry) /\ s # <<>> /\ Len(s) = n /\ q.ents = Tail(s)
    BY <1>1, <1>2, <1>3, <1>5, <1>6, <2>1
  <2>3. Len(q.ents) = n - 1
    BY <2>2, TailSet
  <2>4. \A m \in 1..Len(Tail(s)) : Tail(s)[m] = s[m + 1]
    BY <2>2, HeadTailProperties
  <2> QED BY <2>1, <2>2, <2>3, <2>4
<1>8. \A m \in 1..(n - 1) : m + 1 \in 1..n /\ m + 1 # 1
  OBVIOUS
<1>9. \A key : Named(q, key) <=> Named(p, key)
  BY <1>1, <1>2, <1>3 DEF Named
<1>10. OwnEntries(q)
  <2>1. \A m, l \in 1..(n - 1) : q.ents[m].key = q.ents[l].key => m = l
    <3>1. ASSUME NEW m \in 1..(n - 1), NEW l \in 1..(n - 1), q.ents[m].key = q.ents[l].key PROVE m = l
      <4>1. \A i, j \in 1..n : p.ents[i].key = p.ents[j].key => i = j
        BY <1>4, <1>6 DEF Slots, OwnEntries
      <4>2. PICK i \in 1..n : i = m + 1 /\ q.ents[m] = p.ents[i]
        BY <1>7, <1>8
      <4>3. PICK j \in 1..n : j = l + 1 /\ q.ents[l] = p.ents[j]
        BY <1>7, <1>8
      <4>4. i = j
        BY <3>1, <4>1, <4>2, <4>3
      <4> QED BY <4>2, <4>3, <4>4
    <3> QED BY <3>1
  <2>2. \A m \in 1..(n - 1) : Named(q, q.ents[m].key)
    BY <1>4, <1>6, <1>7, <1>8, <1>9 DEF Slots, OwnEntries
  <2> QED BY <1>7, <2>1, <2>2 DEF OwnEntries
<1>11. OwnIds(q) /\ OwnBlocks(q)
  BY <1>1, <1>2, <1>3, <1>4 DEF Slots, OwnIds, OwnBlocks
<1>12. \A x : (HasBlock(q, x) <=> HasBlock(p, x)) /\ (HasKey(q, x) <=> HasKey(p, x))
  BY <1>1, <1>2, <1>3 DEF HasBlock, HasKey
<1>13. SlotInv'
  BY <1>1, <1>2, <1>3, <1>10, <1>11, <1>12, SameSlots DEF Slots
<1>14. PICK e \in Entry : e = Head(p.ents) /\ e = p.ents[1]
  BY <1>1, <1>2
<1>15. 1 \in 1..n
  OBVIOUS
<1>16. Named(p, e.key)
  BY <1>4, <1>6, <1>14, <1>15 DEF Slots, OwnEntries
<1>17. HasKey(p, e.key)
  BY <1>5, <1>16 DEF Named, HasKey
<1>18. \A m \in 1..(n - 1) : q.ents[m].key # e.key
  BY <1>4, <1>6, <1>7, <1>8, <1>14, <1>15 DEF Slots, OwnEntries
<1>19. ASSUME NEW i \in 1..(Len(stack) - 1) PROVE ~HasKey(stack[i], e.key)
  <2>1. Apart(p, stack[i])
    BY <1>1, <1>2 DEF SlotInv, Steps
  <2>2. e.key \in Keys
    BY DEF Entry
  <2> QED BY <1>17, <2>1, <2>2 DEF Apart
<1> QED BY <1>2, <1>3, <1>7, <1>13, <1>14, <1>16, <1>17, <1>18, <1>19

LEMMA NextSlot ==
  ASSUME Shape, SlotInv, [Next]_vars
  PROVE  SlotInv'
<1>1. CASE Next
  <2>1. CASE \E ids \in Prompts : Open(ids)
    BY <2>1, OpenSlot
  <2>2. CASE Restored \/ RestoreFails
    BY <2>2, RestoredSlot
  <2>3. CASE Plan
    BY <2>3, PlanSlot
  <2>4. CASE Continue
    BY <2>4, ContinueSlot
  <2>5. CASE GridDone
    BY <2>5, GridDoneSlot
  <2>6. CASE Fail \/ ChunkFails \/ ReplyFails
    BY <2>6, AbortIs, PopSlots
  <2>7. CASE Snapshot
    BY <2>7, SnapshotSlot
  <2>8. CASE SaveTail
    BY <2>8, SaveTailSlot
  <2>9. CASE Register
    BY <2>9, RegisterSlot
  <2>10. CASE Finish
    BY <2>10, FinishIs, PopSlots
  <2>11. CASE UNCHANGED stack
    BY <2>11 DEF SlotInv
  <2>12. CASE Unlink \/ Clear \/ ExecBarrier
    <3>1. UNCHANGED stack
      BY <2>12 DEF Unlink, Clear, ExecBarrier
    <3> QED BY <2>11, <3>1
  <2>13. ASSUME NEW r \in Ranks, ExecChunk(r) \/ ExecSnapshot(r) \/ ExecRestore(r) \/ Write(r) \/ WriteFails(r)
         PROVE  SlotInv'
    <3>1. UNCHANGED stack
      BY <2>13 DEF ExecChunk, ExecSnapshot, ExecRestore, Write, WriteFails
    <3> QED BY <2>11, <3>1
  <2>14. CASE Restart
    <3>1. stack' = <<>>
      BY <2>14 DEF Restart
    <3>2. Len(stack') = 0
      BY <3>1
    <3> QED BY <3>2 DEF SlotInv
  <2> QED BY <1>1, <2>1, <2>2, <2>3, <2>4, <2>5, <2>6, <2>7, <2>8, <2>9, <2>10, <2>12, <2>13, <2>14 DEF Next
<1>2. CASE UNCHANGED vars
  BY <1>2 DEF vars, SlotInv
<1> QED BY <1>1, <1>2

-----------------------------------------------------------------------------
(* The index, the directory and the references (EntryInv).                 *)

LEMMA EntriesTyped ==
  ASSUME index \in Seq(Entry)
  PROVE  /\ IsFiniteSet(Entries) /\ Entries \subseteq Entry
         /\ \A b : IsFiniteSet(EntriesWith(b)) /\ Cardinality(EntriesWith(b)) \in Nat
         /\ \A b : Cardinality(EntriesWith(b)) = 0 <=> EntriesWith(b) = {}
         /\ \A e \in Entries : /\ e.key \in Keys /\ e.blocks \in Seq(Blocks) /\ e.tokens \in Seq(Tokens)
                               /\ ToSet(AllFiles(e)) = Of({e.key}, ToSet(e.blocks))
                               /\ AllFiles(e) \in Seq(FileNames)
<1>1. IsFiniteSet(Entries) /\ Entries \subseteq Entry
  BY AsSet, FewElements DEF Entries
<1>2. \A b : /\ IsFiniteSet(EntriesWith(b)) /\ Cardinality(EntriesWith(b)) \in Nat
             /\ Cardinality(EntriesWith(b)) = 0 <=> EntriesWith(b) = {}
  <2>1. ASSUME NEW b PROVE /\ IsFiniteSet(EntriesWith(b)) /\ Cardinality(EntriesWith(b)) \in Nat
                           /\ Cardinality(EntriesWith(b)) = 0 <=> EntriesWith(b) = {}
    <3>1. EntriesWith(b) \in SUBSET Entries
      BY DEF EntriesWith
    <3> QED BY <1>1, <3>1, FS_Subset, FS_CardinalityType, FS_EmptySet
  <2> QED BY <2>1
<1>3. \A e \in Entries : /\ e.key \in Keys /\ e.blocks \in Seq(Blocks) /\ e.tokens \in Seq(Tokens)
                         /\ ToSet(AllFiles(e)) = Of({e.key}, ToSet(e.blocks))
                         /\ AllFiles(e) \in Seq(FileNames)
  <2>1. ASSUME NEW e \in Entries
        PROVE /\ e.key \in Keys /\ e.blocks \in Seq(Blocks) /\ e.tokens \in Seq(Tokens)
              /\ ToSet(AllFiles(e)) = Of({e.key}, ToSet(e.blocks))
              /\ AllFiles(e) \in Seq(FileNames)
    <3>1. e.key \in Keys /\ e.blocks \in Seq(Blocks) /\ e.tokens \in Seq(Tokens)
      BY <1>1 DEF Entry, Text
    <3> QED BY <3>1, AllFilesAre
  <2> QED BY <2>1
<1> QED BY <1>1, <1>2, <1>3

(* What the names of an entry are.                                         *)
LEMMA InOf ==
  ASSUME NEW K, NEW B
  PROVE  /\ \A key \in Keys : IdxFile(key) \in FileNames /\ ~IsBlock(IdxFile(key)) /\ IdxFile(key)[2] = key
         /\ \A key \in Keys : IdxFile(key) \in Of(K, B) <=> key \in K
         /\ \A f : f \in Of(K, B) <=> f \in FileNames /\ (IF IsBlock(f) THEN f[2] \in B ELSE f[2] \in K)
<1>1. \A key \in Keys : IdxFile(key) \in FileNames /\ ~IsBlock(IdxFile(key)) /\ IdxFile(key)[2] = key
  BY DEF FileNames, IdxFile, IsBlock
<1> QED BY <1>1 DEF Of

LEMMA OneEntry ==
  ASSUME index \in Seq(Entry), Stored
  PROVE  /\ \A d, e \in Entries : d.key = e.key => d = e
         /\ \A e \in Entries : IdxFile(e.key) \in DOMAIN disk
<1>1. \A d, e \in Entries : d.key = e.key => d = e
  BY DEF Stored, Intact
<1>2. ASSUME NEW e \in Entries PROVE IdxFile(e.key) \in DOMAIN disk
  <2>1. e.key \in Keys /\ ToSet(AllFiles(e)) = Of({e.key}, ToSet(e.blocks))
    BY EntriesTyped
  <2>2. IdxFile(e.key) \in ToSet(AllFiles(e))
    BY <2>1, InOf
  <2> QED BY <2>2 DEF Stored, Intact, OnDisk
<1> QED BY <1>1, <1>2

LEMMA EntryOfIs ==
  ASSUME index \in Seq(Entry), Stored, Listed, NEW key, key \in ToSet(lru)
  PROVE  EntryOf(key) \in Entries /\ EntryOf(key).key = key
BY DEF EntryOf, Listed

(* A block in use is on disk.                                              *)
LEMMA UsedBlock ==
  ASSUME Shape, Stored, Counts, NEW b \in Blocks, refs[b] # 0
  PROVE  Of({}, {b}) \subseteq DOMAIN disk /\ \E e \in Entries : b \in ToSet(e.blocks)
<1>1. EntriesWith(b) # {}
  BY EntriesTyped DEF Shape, Counts
<1>2. PICK e \in Entries : b \in ToSet(e.blocks)
  BY <1>1 DEF EntriesWith
<1>3. ToSet(AllFiles(e)) = Of({e.key}, ToSet(e.blocks)) /\ ToSet(AllFiles(e)) \subseteq DOMAIN disk
  BY EntriesTyped DEF Shape, Stored, Intact, OnDisk
<1>4. Of({}, {b}) \subseteq Of({e.key}, ToSet(e.blocks))
  BY <1>2 DEF Of
<1> QED BY <1>2, <1>3, <1>4

LEMMA UnusedBlock ==
  ASSUME Shape, Counts, NEW b \in Blocks, refs[b] = 0
  PROVE  \A e \in Entries : b \notin ToSet(e.blocks)
<1>1. EntriesWith(b) = {}
  BY EntriesTyped DEF Shape, Counts
<1> QED BY <1>1 DEF EntriesWith

LEMMA ForgottenIs ==
  ASSUME NEW bs \in Seq(Blocks)
  PROVE  Forgotten(bs) \in Seq(FileNames) /\ ToSet(Forgotten(bs)) = Of({}, ToSet(bs) \cap Unused)
<1>1. PICK s \in Seq(Blocks) : s = Where(bs, Unused) /\ ToSet(s) = ToSet(bs) \cap Unused
  BY WhereSet
<1>2. FilesOfBlocks(s) \in Seq(FileNames) /\ ToSet(FilesOfBlocks(s)) = Of({}, ToSet(s))
  BY FilesOfBlocksAre
<1> QED BY <1>1, <1>2 DEF Forgotten

LEMMA KeepsIs ==
  ASSUME Shape, EntryInv, Keeps, UNCHANGED dead
  PROVE  Stored' /\ Recorded' /\ Counts'
<1>1. Entries' = Entries /\ \A b : EntriesWith(b)' = EntriesWith(b)
  BY DEF Keeps, Entries, EntriesWith
<1>2. ASSUME NEW e \in Entries PROVE Intact(e)'
  <2>1. Intact(e) /\ IdxFile(e.key) \in DOMAIN disk
    BY OneEntry DEF Shape, EntryInv, Stored
  <2>2. IdxFile(e.key)[1] = "idx"
    BY DEF IdxFile
  <2>3. disk'[IdxFile(e.key)] = disk[IdxFile(e.key)]
    BY <2>1, <2>2 DEF Keeps
  <2> QED BY <2>1, <2>3 DEF Keeps, Intact, OnDisk
<1>3. Stored'
  BY <1>1, <1>2 DEF EntryInv, Stored
<1>4. Recorded'
  BY <1>1 DEF EntryInv, Recorded, Keeps
<1>5. Counts'
  BY <1>1 DEF EntryInv, Counts, Keeps
<1> QED BY <1>3, <1>4, <1>5

LEMMA SameListed ==
  ASSUME Listed, UNCHANGED <<index, lru>>
  PROVE  Listed'
BY DEF Listed, Entries

LEMMA SameWanted ==
  ASSUME Wanted, Entries \subseteq Entries',
         \A r \in Ranks : \A c \in Commands(r)' : c.op = "restore" => c \in Commands(r)
  PROVE  Wanted'
BY DEF Wanted

LEMMA FreeKeyFiles ==
  ASSUME NEW key \in FreeKeys
  PROVE  key \in Keys /\ \A f \in DOMAIN disk : f[1] \in {"idx", "tail", "ent"} => f[2] # key
BY DEF FreeKeys, Files

(* No key is pending that was not pending or free, and no new record.      *)
LEMMA StepUnrecorded ==
  ASSUME Unrecorded, Steps,
         \A f \in DOMAIN disk' : f[1] = "idx" => f \in DOMAIN disk,
         \A key \in Keys : Pends(run', key) => Pends(run, key) \/ key \in FreeKeys
  PROVE  Unrecorded'
<1>1. ASSUME NEW key \in Keys PROVE IdxFile(key) \in DOMAIN disk' => IdxFile(key) \in DOMAIN disk
  BY DEF IdxFile
<1>2. ASSUME NEW key \in FreeKeys PROVE IdxFile(key) \notin DOMAIN disk
  BY <1>2, FreeKeyFiles DEF IdxFile
<1>3. ASSUME NEW i \in 1..Len(stack'), NEW key \in Keys, Pends(stack'[i], key)
      PROVE  IdxFile(key) \notin DOMAIN disk'
  <2>1. i \in 1..Len(stack) /\ Len(stack) \in 1..Len(stack)
    BY DEF Steps
  <2>2. CASE i = Len(stack)
    <3>1. Pends(run, key) \/ key \in FreeKeys
      BY <1>3, <2>2 DEF Steps
    <3> QED BY <1>1, <1>2, <2>1, <3>1 DEF Unrecorded, Steps
  <2>3. CASE i # Len(stack)
    <3>1. stack'[i] = stack[i]
      BY <2>1, <2>3 DEF Steps
    <3> QED BY <1>1, <1>3, <2>1, <3>1 DEF Unrecorded
  <2> QED BY <2>2, <2>3
<1> QED BY <1>3 DEF Unrecorded

LEMMA PopUnrecorded ==
  ASSUME Unrecorded, Pops, UNCHANGED disk
  PROVE  Unrecorded'
<1>1. \A i \in 1..Len(stack') : i \in 1..Len(stack) /\ stack'[i] = stack[i]
  BY DEF Pops
<1> QED BY <1>1 DEF Unrecorded

LEMMA PendsHas ==
  ASSUME NEW p \in Prefill, Slots(p), NEW key, Pends(p, key)
  PROVE  HasKey(p, key)
<1>1. p.k \in Nat /\ Len(p.chunks) \in Nat /\ p.k <= Len(p.chunks)
  BY FieldsOf DEF Placed
<1>2. \A j \in (p.k + 1)..Len(p.chunks) : j \in 1..Len(p.chunks)
  BY <1>1
<1>3. \A j \in 1..p.k : j \in 1..Len(p.chunks)
  BY <1>1
<1>4. CASE \E j \in (p.k + 1)..Len(p.chunks) : p.chunks[j].key = key
  BY <1>2, <1>4 DEF HasKey
<1>5. CASE \E m \in 1..Len(p.ents) : p.ents[m].key = key
  <2>1. Named(p, key)
    BY <1>5 DEF Slots, OwnEntries
  <2> QED BY <1>3, <2>1 DEF Named, HasKey
<1>6. CASE p.pc = "snap" /\ p.key = key
  BY <1>6 DEF HasKey
<1> QED BY <1>4, <1>5, <1>6 DEF Pends

LEMMA OpenEntry ==
  ASSUME Shape, EntryInv, NEW ids \in Prompts, Open(ids)
  PROVE  EntryInv'
<1>1. Pushes /\ UNCHANGED <<index, refs, disk, dead>>
      /\ run'.chunks = <<>> /\ run'.ents = <<>> /\ run'.pc # "snap" /\ run'.k = 0
  BY OpenIs
<1>2. Stored' /\ Recorded' /\ Counts'
  BY <1>1, KeepsIs DEF Keeps
<1>3. Entries' = Entries
  BY <1>1 DEF Entries
<1>4. Unrecorded'
  <2>1. Len(<<>>) = 0
    OBVIOUS
  <2>2. \A key : ~Pends(run', key)
    BY <1>1, <2>1 DEF Pends
  <2>3. ASSUME NEW i \in 1..Len(stack') PROVE stack'[i] = run' \/ (i \in 1..Len(stack) /\ stack'[i] = stack[i])
    BY <1>1 DEF Pushes
  <2> QED BY <1>1, <2>2, <2>3 DEF EntryInv, Unrecorded
<1>5. CASE run'.pc = "plan" /\ UNCHANGED <<lru, cmds>>
  <2>1. Listed'
    BY <1>1, <1>5, SameListed DEF EntryInv
  <2>2. Wanted'
    BY <1>3, <1>5 DEF EntryInv, Wanted, Commands
  <2> QED BY <1>2, <1>4, <2>1, <2>2 DEF EntryInv
<1>6. ASSUME NEW e \in Entries, NEW c \in Command, e \in Entry,
             lru' = Append(Where(lru, Keys \ {e.key}), e.key),
             c.op = "restore", c.files = AllFiles(e), Submit(c)
      PROVE  Listed' /\ Wanted'
  <2>1. PICK t \in Seq(Keys) : /\ t = Where(lru, Keys \ {e.key})
                               /\ ToSet(t) = ToSet(lru) \cap (Keys \ {e.key}) /\ Distinct(t)
    BY WhereSet DEF Shape, EntryInv, Listed
  <2>2. PICK key \in Keys : key = e.key
    BY <1>6 DEF Entry
  <2>3. ToSet(Append(t, key)) = ToSet(t) \cup {key} /\ Distinct(Append(t, key))
    <3>1. key \notin ToSet(t)
      BY <2>1, <2>2
    <3>2. Append(t, key) \in Seq(Keys) /\ ToSet(Append(t, key)) = ToSet(t) \cup {key}
      BY AppendSet
    <3>3. Distinct(Append(t, key))
      BY <2>1, <3>1, AppendSet
    <3> QED BY <3>2, <3>3
  <2>4. ToSet(lru) \subseteq Keys /\ key \in ToSet(lru)
    <3>1. lru \in Seq(Keys) /\ ToSet(lru) = {d.key : d \in Entries}
      BY DEF Shape, EntryInv, Listed
    <3> QED BY <1>6, <2>2, <3>1, AsSet
  <2>5. ToSet(Append(t, key)) = ToSet(lru)
    BY <2>1, <2>2, <2>3, <2>4
  <2>6. Listed'
    BY <1>1, <1>3, <1>6, <2>1, <2>2, <2>3, <2>5 DEF EntryInv, Listed
  <2>7. \A r \in Ranks : Commands(r)' = Commands(r) \cup {c}
    BY <1>6, SubmitIs DEF Commands, Shape
  <2>8. Wanted'
    BY <1>3, <1>6, <2>7 DEF EntryInv, Wanted
  <2> QED BY <2>6, <2>8
<1>7. (run'.pc = "plan" /\ UNCHANGED <<lru, cmds>>) \/ (Listed' /\ Wanted')
  BY <1>6, OpenIs
<1> QED BY <1>2, <1>4, <1>5, <1>7 DEF EntryInv

(* Steps of the running prefill that leave the index alone.                *)
LEMMA MoveEntry ==
  ASSUME Shape, EntryInv, Steps, Keeps, UNCHANGED <<lru, dead>>,
         \A key \in Keys : Pends(run', key) => Pends(run, key) \/ key \in FreeKeys,
         \A r \in Ranks : \A c \in Commands(r)' : c.op = "restore" => c \in Commands(r)
  PROVE  EntryInv'
<1>1. Stored' /\ Recorded' /\ Counts'
  BY KeepsIs
<1>2. Unrecorded'
  <2>1. \A f \in DOMAIN disk' : f[1] = "idx" => f \in DOMAIN disk
    BY DEF Keeps
  <2> QED BY <2>1, StepUnrecorded DEF EntryInv
<1>3. Listed'
  BY SameListed DEF EntryInv, Keeps
<1>4. Wanted'
  <2>1. Entries' = Entries
    BY DEF Keeps, Entries
  <2> QED BY <2>1, SameWanted DEF EntryInv
<1> QED BY <1>1, <1>2, <1>3, <1>4 DEF EntryInv

LEMMA SubmitOther ==
  ASSUME Shape, UNCHANGED cmds \/ \E c \in Command : c.op # "restore" /\ Submit(c)
  PROVE  \A r \in Ranks : \A c \in Commands(r)' : c.op = "restore" => c \in Commands(r)
<1>1. CASE UNCHANGED cmds
  BY <1>1 DEF Commands
<1>2. ASSUME NEW d \in Command, d.op # "restore", Submit(d)
      PROVE  \A r \in Ranks : \A c \in Commands(r)' : c.op = "restore" => c \in Commands(r)
  <2>1. \A r \in Ranks : Commands(r)' = Commands(r) \cup {d}
    BY <1>2, SubmitIs DEF Commands, Shape
  <2> QED BY <1>2, <2>1
<1> QED BY <1>1, <1>2

LEMMA RestoredEntry ==
  ASSUME Shape, EntryInv, Restored \/ RestoreFails
  PROVE  EntryInv'
<1>1. /\ Steps /\ run'.pc = "plan" /\ run'.chunks = <<>> /\ run'.ents = <<>>
      /\ UNCHANGED <<idx, disk, dead, ranks>>
  BY RestoredIs
<1>2. run'.k = 0
  <2>1. PICK q \in Prefill : q = run'
    BY <1>1 DEF Steps
  <2>2. q.k \in Nat /\ q.k <= Len(q.chunks)
    BY FieldsOf DEF Placed
  <2>3. Len(<<>>) = 0
    OBVIOUS
  <2> QED BY <1>1, <2>1, <2>2, <2>3
<1>3. \A key : ~Pends(run', key)
  <2>1. Len(<<>>) = 0
    OBVIOUS
  <2> QED BY <1>1, <1>2, <2>1 DEF Pends
<1>4. Keeps /\ UNCHANGED <<lru, dead, cmds>>
  BY <1>1 DEF Keeps, idx, ranks
<1> QED BY <1>1, <1>3, <1>4, SubmitOther, MoveEntry

LEMMA PlanEntry ==
  ASSUME Shape, EntryInv, Plan
  PROVE  EntryInv'
<1>1. /\ Steps /\ run'.pc \in {"end", "wait"} /\ run'.ents = <<>> /\ run'.k = 0
      /\ PlanParts(run.ids, run.P, run'.chunks)
      /\ UNCHANGED <<idx, disk, dead>>
      /\ UNCHANGED cmds \/ \E c \in Command : 1 \in 1..Len(run'.chunks) /\ c = ChunkCmd(run', 1) /\ Submit(c)
  BY PlanActs
<1>2. PICK q \in Prefill : q = run'
  BY <1>1 DEF Steps
<1>3. \A key \in Keys : Pends(q, key) => key \in FreeKeys
  <2>1. Len(<<>>) = 0
    OBVIOUS
  <2>2. \A k \in 1..Len(q.chunks) : q.chunks[k].key # 0 => q.chunks[k].key \in FreeKeys
    BY <1>1, <1>2 DEF PlanParts
  <2> QED BY <1>1, <1>2, <2>1, <2>2, FreeTypes DEF Pends
<1>4. UNCHANGED cmds \/ \E c \in Command : c.op # "restore" /\ Submit(c)
  BY <1>1, <1>2, ChunkCmdIs
<1>5. Keeps /\ UNCHANGED <<lru, dead>>
  BY <1>1 DEF Keeps, idx
<1> QED BY <1>1, <1>2, <1>3, <1>4, <1>5, SubmitOther, MoveEntry

LEMMA ContinueEntry ==
  ASSUME Shape, EntryInv, Continue
  PROVE  EntryInv'
<1>1. /\ Steps /\ run'.pc = "rows" /\ run'.chunks = run.chunks /\ run'.k = run.k /\ run'.ents = run.ents
      /\ UNCHANGED <<idx, disk, dead>>
      /\ UNCHANGED cmds \/ \E c \in Command : run.k + 2 \in 1..Len(run.chunks) /\ c = ChunkCmd(run, run.k + 2) /\ Submit(c)
  BY ContinueIs
<1>2. PICK p \in Prefill : p = run
  BY <1>1 DEF Steps
<1>3. \A key : Pends(run', key) => Pends(run, key)
  BY <1>1 DEF Pends
<1>4. UNCHANGED cmds \/ \E c \in Command : c.op # "restore" /\ Submit(c)
  BY <1>1, <1>2, ChunkCmdIs
<1>5. Keeps /\ UNCHANGED <<lru, dead>>
  BY <1>1 DEF Keeps, idx
<1> QED BY <1>1, <1>3, <1>4, <1>5, SubmitOther, MoveEntry

LEMMA RowsSavedParts ==
  ASSUME NEW p
  PROVE  /\ DOMAIN RowsSaved(p) = DOMAIN disk \cup (IF DoneChunk(p).block = 0 THEN {} ELSE {RowsFile(p)})
                                              \cup (IF DoneChunk(p).key = 0 THEN {} ELSE {TailFile(p)})
         /\ \A f \in DOMAIN disk : /\ f # RowsFile(p) \/ DoneChunk(p).block = 0
                                   /\ f # TailFile(p) \/ DoneChunk(p).key = 0
                                   => RowsSaved(p)[f] = disk[f]
         /\ DoneChunk(p).block # 0 => RowsSaved(p)[RowsFile(p)] = Prefix(p.ids, FullBlock(DoneChunk(p)))
         /\ DoneChunk(p).key # 0 => RowsSaved(p)[TailFile(p)] = Prefix(p.ids, DoneChunk(p).end)
<1>1. PICK c : c = DoneChunk(p)
  OBVIOUS
<1>2. PICK block : block = Prefix(p.ids, Grid * (c.end \div Grid))
  OBVIOUS
<1>3. PICK tokens : tokens = Prefix(p.ids, c.end)
  OBVIOUS
<1>4. PICK rf : rf = <<"rows", c.block, 0>>
  OBVIOUS
<1>5. PICK tf : tf = <<"tail", c.key, 0>>
  OBVIOUS
<1>6. rf # tf /\ RowsFile(p) = rf /\ TailFile(p) = tf /\ FullBlock(c) = Grid * (c.end \div Grid)
  BY <1>1, <1>4, <1>5 DEF RowsFile, TailFile, FullBlock
<1>7. PICK rows : rows = IF c.block = 0 THEN disk ELSE With(disk, rf, block)
  OBVIOUS
<1>8. PICK d : d = IF c.key = 0 THEN rows ELSE With(rows, tf, tokens)
  OBVIOUS
<1>9. RowsSaved(p) = d
  BY <1>1, <1>2, <1>3, <1>4, <1>5, <1>7, <1>8 DEF RowsSaved, DoneChunk
<1>10. /\ DOMAIN rows = DOMAIN disk \cup (IF c.block = 0 THEN {} ELSE {rf})
       /\ \A f \in DOMAIN disk : f # rf \/ c.block = 0 => rows[f] = disk[f]
       /\ c.block # 0 => rows[rf] = block
  BY <1>7 DEF With
<1>11. /\ DOMAIN d = DOMAIN rows \cup (IF c.key = 0 THEN {} ELSE {tf})
       /\ \A f \in DOMAIN rows : f # tf \/ c.key = 0 => d[f] = rows[f]
       /\ c.key # 0 => d[tf] = tokens
  BY <1>8 DEF With
<1>12. c.block # 0 => d[rf] = block
  BY <1>6, <1>10, <1>11
<1>13. \A f \in DOMAIN disk : f \in DOMAIN rows
  BY <1>10
<1>14. \A f \in DOMAIN disk : (f # rf \/ c.block = 0) /\ (f # tf \/ c.key = 0) => d[f] = disk[f]
  BY <1>10, <1>11, <1>13
<1>15. DOMAIN d = DOMAIN disk \cup (IF c.block = 0 THEN {} ELSE {rf}) \cup (IF c.key = 0 THEN {} ELSE {tf})
  BY <1>10, <1>11
<1> QED BY <1>1, <1>2, <1>3, <1>6, <1>9, <1>11, <1>12, <1>14, <1>15

(* An entry is pending when its chunk is done, no other key is.            *)
LEMMA SavedPends ==
  ASSUME NEW p \in Prefill, p.pc = "rows", NEW key, key # 0
  PROVE  Pends(Saved(p), key) <=> Pends(p, key)
<1>1. PICK q \in Prefill : q = Saved(p)
  BY SavedIs
<1>2. PICK c \in Chunk : c = p.chunks[p.k + 1]
  BY SavedIs
<1>3. PICK e : e = [key |-> c.key, tokens |-> Prefix(p.ids, c.end), blocks |-> q.blocks, capture |-> FALSE]
  OBVIOUS
<1>4. /\ q.chunks = p.chunks /\ q.k = p.k + 1 /\ p.k + 1 \in 1..Len(p.chunks) /\ q.pc \in {"wait", "end"}
      /\ q.ents = (IF c.key = 0 THEN p.ents ELSE Append(p.ents, e))
      /\ c.key # 0 => e \in Entry
  BY <1>1, <1>2, <1>3, SavedIs
<1>5. p.k \in Nat /\ Len(p.chunks) \in Nat /\ p.ents \in Seq(Entry) /\ Len(p.ents) \in Nat
  BY FieldsOf
<1>6. (\E j \in (p.k + 1)..Len(p.chunks) : p.chunks[j].key = key)
        <=> c.key = key \/ \E j \in (q.k + 1)..Len(p.chunks) : p.chunks[j].key = key
  <2>1. \A j \in (p.k + 1)..Len(p.chunks) : j = p.k + 1 \/ j \in (q.k + 1)..Len(p.chunks)
    BY <1>4, <1>5
  <2>2. p.k + 1 \in (p.k + 1)..Len(p.chunks) /\ \A j \in (q.k + 1)..Len(p.chunks) : j \in (p.k + 1)..Len(p.chunks)
    BY <1>4, <1>5
  <2> QED BY <1>2, <2>1, <2>2
<1>7. (\E m \in 1..Len(q.ents) : q.ents[m].key = key)
        <=> c.key = key \/ \E m \in 1..Len(p.ents) : p.ents[m].key = key
  <2>1. CASE c.key = 0
    BY <1>4, <2>1
  <2>2. CASE c.key # 0
    <3>1. PICK n \in Nat : n = Len(p.ents)
      BY <1>5
    <3>2. Len(q.ents) = n + 1 /\ q.ents[n + 1] = e /\ \A m \in 1..n : q.ents[m] = p.ents[m]
      BY <1>4, <1>5, <2>2, <3>1, AppendLast
    <3>3. e.key = c.key
      BY <1>3
    <3>4. n + 1 \in 1..(n + 1) /\ \A m \in 1..(n + 1) : m = n + 1 \/ m \in 1..n
      OBVIOUS
    <3>5. ASSUME NEW m \in 1..Len(q.ents), q.ents[m].key = key
          PROVE  c.key = key \/ \E h \in 1..Len(p.ents) : p.ents[h].key = key
      BY <3>1, <3>2, <3>3, <3>4, <3>5
    <3>6. n + 1 \in 1..Len(q.ents) /\ q.ents[n + 1].key = c.key
      BY <3>2, <3>3, <3>4
    <3>7. ASSUME NEW m \in 1..Len(p.ents)
          PROVE  m \in 1..Len(q.ents) /\ q.ents[m].key = p.ents[m].key
      BY <3>1, <3>2
    <3> QED BY <3>5, <3>6, <3>7
  <2> QED BY <2>1, <2>2
<1> QED BY <1>1, <1>4, <1>6, <1>7 DEF Pends

LEMMA GridDoneEntry ==
  ASSUME Shape, EntryInv, GridDone
  PROVE  EntryInv'
<1>1. Steps /\ run.pc = "rows" /\ run' = Saved(run) /\ disk' = RowsSaved(run) /\ UNCHANGED <<idx, dead, ranks>>
  BY GridDoneIs DEF Shape
<1>2. PICK p \in Prefill : p = run
  BY <1>1 DEF Steps
<1>3. PICK d : d = RowsSaved(p) /\ disk' = d
  BY <1>1, <1>2
<1>4. /\ DOMAIN disk \subseteq DOMAIN d /\ \A f \in DOMAIN d : f \in DOMAIN disk \/ f = RowsFile(p) \/ f = TailFile(p)
      /\ \A f \in DOMAIN disk : f # RowsFile(p) /\ f # TailFile(p) => d[f] = disk[f]
  BY <1>3, RowsSavedParts
<1>5. RowsFile(p)[1] # "idx" /\ TailFile(p)[1] # "idx"
  BY DEF RowsFile, TailFile
<1>6. Keeps
  BY <1>1, <1>3, <1>4, <1>5 DEF Keeps, idx
<1>7. \A key \in Keys : Pends(run', key) => Pends(run, key)
  BY <1>1, <1>2, SavedPends, FreeTypes
<1>8. UNCHANGED <<lru, dead, cmds>>
  BY <1>1 DEF idx, ranks
<1> QED BY <1>1, <1>6, <1>7, <1>8, SubmitOther, MoveEntry

LEMMA SnapshotEntry ==
  ASSUME Shape, EntryInv, Snapshot
  PROVE  EntryInv'
<1>1. /\ Steps /\ run'.chunks = run.chunks /\ run'.k = run.k /\ run'.ents = run.ents
      /\ UNCHANGED <<idx, disk, dead>>
  BY SnapshotIs
<1>2. run'.pc = "barrier" \/ (run'.pc = "snap" /\ run'.key \in FreeKeys)
  BY SnapshotIs
<1>3. \E c \in Command : c.op # "restore" /\ Submit(c)
  BY SnapshotIs
<1>4. \A key \in Keys : Pends(run', key) => Pends(run, key) \/ key \in FreeKeys
  BY <1>1, <1>2 DEF Pends
<1>5. Keeps /\ UNCHANGED <<lru, dead>>
  BY <1>1 DEF Keeps, idx
<1> QED BY <1>1, <1>3, <1>4, <1>5, SubmitOther, MoveEntry

LEMMA SaveTailEntry ==
  ASSUME Shape, EntryInv, SaveTail
  PROVE  EntryInv'
<1>1. /\ Steps /\ run.pc = "snap" /\ run'.pc = "barrier" /\ run'.chunks = run.chunks /\ run'.k = run.k
      /\ run.key \in Keys /\ run'.key = run.key
      /\ disk' = With(disk, <<"tail", run.key, 0>>, run.ids)
      /\ UNCHANGED <<idx, dead>>
  BY SaveTailIs
<1>2. PICK p \in Prefill : p = run
  BY <1>1 DEF Steps
<1>3. PICK e \in Entry : e.key = p.key /\ run'.ents = Append(p.ents, e)
  BY <1>2, SaveTailIs
<1>4. \E c \in Command : c.op # "restore" /\ Submit(c)
  BY SaveTailIs
<1>5. \A key \in Keys : Pends(run', key) => Pends(run, key)
  <2>1. PICK n \in Nat : n = Len(p.ents) /\ p.ents \in Seq(Entry)
    BY FieldsOf
  <2>2. Len(run'.ents) = n + 1 /\ run'.ents[n + 1] = e /\ \A m \in 1..n : run'.ents[m] = p.ents[m]
    BY <1>3, <2>1, AppendLast
  <2>3. \A m \in 1..(n + 1) : m = n + 1 \/ m \in 1..n
    OBVIOUS
  <2> QED BY <1>1, <1>2, <1>3, <2>1, <2>2, <2>3 DEF Pends
<1>6. PICK tf : tf = <<"tail", p.key, 0>>
  OBVIOUS
<1>7. tf[1] # "idx"
  BY <1>6
<1>8. disk' = With(disk, tf, p.ids)
  BY <1>1, <1>2, <1>6
<1>9. Keeps /\ UNCHANGED <<lru, dead>>
  BY <1>1, <1>7, <1>8 DEF Keeps, idx, With
<1> QED BY <1>1, <1>4, <1>5, <1>9, SubmitOther, MoveEntry

(* The ranks.                                                              *)
LEMMA RankEntry ==
  ASSUME Shape, EntryInv, Keeps, UNCHANGED <<lru, dead, stack>>,
         \A r \in Ranks : \A c \in Commands(r)' : c.op = "restore" => c \in Commands(r)
  PROVE  EntryInv'
<1>1. Stored' /\ Recorded' /\ Counts'
  BY KeepsIs
<1>2. Unrecorded'
  <2>1. \A key : IdxFile(key)[1] = "idx"
    BY DEF IdxFile
  <2> QED BY <2>1 DEF EntryInv, Unrecorded, Keeps
<1>3. Listed'
  BY SameListed DEF EntryInv, Keeps
<1>4. Wanted'
  <2>1. Entries' = Entries
    BY DEF Keeps, Entries
  <2> QED BY <2>1, SameWanted DEF EntryInv
<1> QED BY <1>1, <1>2, <1>3, <1>4 DEF EntryInv

LEMMA TailCommands ==
  ASSUME NEW s \in Seq(Command), s # <<>>
  PROVE  /\ ToSet(Tail(s)) \subseteq ToSet(s)
         /\ ToSet(<<[op |-> "flush"]>> \o Tail(s)) \subseteq ToSet(s) \cup {[op |-> "flush"]}
<1>1. Tail(s) \in Seq(Command) /\ ToSet(Tail(s)) \subseteq ToSet(s)
  BY TailSet
<1>2. PICK f \in Command : f = [op |-> "flush"]
  BY DEF Command
<1>3. <<f>> \in Seq(Command) /\ ToSet(<<f>>) = {f}
  <2>1. DOMAIN <<f>> = {1}
    OBVIOUS
  <2> QED BY <2>1 DEF ToSet
<1>4. ToSet(<<f>> \o Tail(s)) = ToSet(<<f>>) \cup ToSet(Tail(s))
  <2>1. PICK h \in Seq(Command) : h = <<f>>
    BY <1>3
  <2>2. PICK t \in Seq(Command) : t = Tail(s)
    BY <1>1
  <2>3. ToSet(h \o t) = ToSet(h) \cup ToSet(t)
    BY ConcatSet
  <2> QED BY <2>1, <2>2, <2>3
<1> QED BY <1>1, <1>2, <1>3, <1>4

(* A rank's commands become fewer, but for a flush.                        *)
LEMMA ExecCommands ==
  ASSUME Shape, ExecBarrier \/ \E r \in Ranks : ExecChunk(r) \/ ExecSnapshot(r) \/ ExecRestore(r)
  PROVE  /\ \A r \in Ranks : \A c \in Commands(r)' : c.op # "flush" => c \in Commands(r)
         /\ UNCHANGED <<idx, disk, dead, stack, history>>
<1>1. cmds \in [Ranks -> Seq(Command)] /\ wq \in [Ranks -> Seq(Writing)]
  BY DEF Shape
<1>2. CASE ExecBarrier
  <2>1. \A r \in Ranks : cmds[r] # <<>> /\ cmds'[r] = Tail(cmds[r])
    BY <1>1, <1>2, BarrierIs
  <2> QED BY <1>1, <1>2, <2>1, TailCommands, BarrierIs DEF Commands
<1>3. ASSUME NEW r \in Ranks, ExecChunk(r) \/ ExecSnapshot(r) \/ ExecRestore(r)
      PROVE  /\ \A t \in Ranks : \A c \in Commands(t)' : c.op # "flush" => c \in Commands(t)
             /\ UNCHANGED <<idx, disk, dead, stack, history>>
  <2>1. PICK s \in Seq(Command) : s = cmds[r]
    BY <1>1
  <2>2. s # <<>> /\ (cmds'[r] = Tail(s) \/ cmds'[r] = <<[op |-> "flush"]>> \o Tail(s))
        /\ \A t \in Ranks : t # r => cmds'[t] = cmds[t]
    <3>1. CASE ExecChunk(r)
      BY <1>1, <2>1, <3>1, ExecChunkIs, ExecutedIs
    <3>2. CASE ExecSnapshot(r)
      BY <1>1, <2>1, <3>2, ExecSnapshotIs
    <3>3. CASE ExecRestore(r)
      <4>1. s # <<>> /\ Executed(r)
        BY <2>1, <3>3 DEF ExecRestore, Does
      <4> QED BY <1>1, <2>1, <4>1, ExecutedIs
    <3> QED BY <1>3, <3>1, <3>2, <3>3
  <2>3. PICK f : f = [op |-> "flush"]
    OBVIOUS
  <2>4. f.op = "flush"
    BY <2>3
  <2>5. ToSet(cmds'[r]) \subseteq ToSet(s) \cup {f}
    BY <2>2, <2>3, TailCommands, Zenon
  <2>6. UNCHANGED <<idx, disk, dead, stack, history>>
    BY <1>3, Zenon DEF ExecChunk, ExecSnapshot, ExecRestore
  <2> QED BY <2>1, <2>2, <2>4, <2>5, <2>6 DEF Commands
<1> QED BY <1>2, <1>3

LEMMA ExecEntry ==
  ASSUME Shape, EntryInv, ExecBarrier \/ \E r \in Ranks : ExecChunk(r) \/ ExecSnapshot(r) \/ ExecRestore(r)
  PROVE  EntryInv'
<1>1. /\ \A r \in Ranks : \A c \in Commands(r)' : c.op = "restore" => c \in Commands(r)
      /\ UNCHANGED <<idx, disk, dead, stack>>
  BY ExecCommands
<1>2. Keeps
  BY <1>1 DEF Keeps, idx
<1> QED BY <1>1, <1>2, RankEntry DEF idx

LEMMA WriteEntry ==
  ASSUME Shape, EntryInv, NEW r \in Ranks, Write(r) \/ WriteFails(r)
  PROVE  EntryInv'
<1>1. UNCHANGED <<idx, dead, stack, cmds>> /\ wq[r][1] \in Writing
      /\ (UNCHANGED disk \/ disk' = With(disk, wq[r][1].file, wq[r][1].content))
  BY WriteIs DEF Shape
<1>2. PICK w \in Writing : w = wq[r][1]
  BY <1>1
<1>3. w.file[1] # "idx"
  BY DEF Writing
<1>4. Keeps
  <2>1. CASE UNCHANGED disk
    BY <1>1, <2>1 DEF Keeps, idx
  <2>2. CASE disk' = With(disk, w.file, w.content)
    <3>1. DOMAIN disk' = DOMAIN disk \cup {w.file} /\ \A f \in DOMAIN disk : f # w.file => disk'[f] = disk[f]
      BY <2>2 DEF With
    <3> QED BY <1>1, <1>3, <3>1 DEF Keeps, idx
  <2> QED BY <1>1, <1>2, <2>1, <2>2
<1> QED BY <1>1, <1>4, RankEntry, SubmitOther DEF idx

(* A prefill that failed leaves no file of an entry in the list.           *)
LEMMA AbortDead ==
  ASSUME Shape, SlotInv, EntryInv, Fail \/ ChunkFails \/ ReplyFails
  PROVE  /\ dead' \in Seq(FileNames)
         /\ \A f \in ToSet(dead') : IF IsBlock(f) THEN HasBlock(run, f[2]) /\ refs[f[2]] = 0
                                    ELSE \E m \in 1..Len(run.ents) : run.ents[m].key = f[2]
<1>1. Pops /\ dead = <<>> /\ (UNCHANGED dead
        \/ dead' = Forgotten(run.new) \o FlattenSeq([i \in 1..Len(run.ents) |-> EntryFiles(run.ents[i].key)]))
  BY AbortIs
<1>2. PICK p \in Prefill : p = run
  BY <1>1 DEF Pops
<1>3. CASE UNCHANGED dead
  <2>1. ToSet(<<>>) = {} /\ <<>> \in Seq(FileNames)
    BY DEF ToSet
  <2> QED BY <1>1, <1>3, <2>1
<1>4. CASE dead' = Forgotten(run.new) \o FlattenSeq([i \in 1..Len(run.ents) |-> EntryFiles(run.ents[i].key)])
  <2>1. p.new \in Seq(Blocks) /\ p.ents \in Seq(Entry) /\ p.k \in Nat /\ p.k <= Len(p.chunks) /\ Len(p.chunks) \in Nat
    BY FieldsOf DEF Placed
  <2>2. PICK n \in Nat : n = Len(p.ents)
    BY FieldsOf
  <2>3. PICK ss : ss = [i \in 1..n |-> EntryFiles(p.ents[i].key)]
    OBVIOUS
  <2>4. \A i \in 1..n : p.ents[i].key \in Keys
    <3>1. \A i \in 1..n : p.ents[i] \in Entry
      BY <2>1, <2>2, ElementOfSeq
    <3> QED BY <3>1 DEF Entry
  <2>5. \A i \in 1..n : ss[i] \in Seq(FileNames) /\ ToSet(ss[i]) = Of({p.ents[i].key}, {})
    BY <2>3, <2>4, EntryFilesAre
  <2>6. FlattenSeq(ss) \in Seq(FileNames) /\ ToSet(FlattenSeq(ss)) = UNION {ToSet(ss[i]) : i \in 1..n}
    <3>1. DOMAIN ss = 1..n /\ ss = [i \in 1..n |-> ss[i]] /\ \A i \in 1..n : ss[i] \in Seq(FileNames)
      BY <2>3, <2>5
    <3> QED BY <3>1, FlatFiles
  <2>7. PICK g \in Seq(FileNames) : g = Forgotten(p.new) /\ ToSet(g) = Of({}, ToSet(p.new) \cap Unused)
    BY <2>1, ForgottenIs
  <2>8. dead' = g \o FlattenSeq(ss)
    BY <1>2, <1>4, <2>2, <2>3, <2>7
  <2>9. dead' \in Seq(FileNames) /\ ToSet(dead') = ToSet(g) \cup ToSet(FlattenSeq(ss))
    BY <2>6, <2>7, <2>8, ConcatSet
  <2>10. Slots(p)
    BY <1>1, <1>2 DEF SlotInv, Pops
  <2>11. ASSUME NEW f \in ToSet(g) PROVE IsBlock(f) /\ HasBlock(p, f[2]) /\ refs[f[2]] = 0
    <3>1. IsBlock(f) /\ f[2] \in ToSet(p.new) /\ f[2] \in Unused
      BY <2>7 DEF Of
    <3>2. PICK j \in 1..p.k : p.chunks[j].block = f[2]
      BY <2>10, <3>1 DEF Slots, OwnBlocks, Unused
    <3> QED BY <2>1, <3>1, <3>2 DEF HasBlock, Unused
  <2>12. ASSUME NEW f \in ToSet(FlattenSeq(ss)) PROVE ~IsBlock(f) /\ \E m \in 1..n : p.ents[m].key = f[2]
    <3>1. PICK i \in 1..n : f \in Of({p.ents[i].key}, {})
      BY <2>5, <2>6
    <3> QED BY <3>1 DEF Of
  <2> QED BY <1>2, <2>2, <2>9, <2>11, <2>12
<1> QED BY <1>1, <1>3, <1>4

LEMMA AbortEntry ==
  ASSUME Shape, SlotInv, EntryInv, Fail \/ ChunkFails \/ ReplyFails
  PROVE  EntryInv'
<1>1. Pops /\ dead = <<>> /\ UNCHANGED <<idx, disk>>
      /\ (UNCHANGED cmds \/ cmds' = [r \in Ranks |-> <<>>])
  BY AbortIs
<1>2. /\ dead' \in Seq(FileNames)
      /\ \A f \in ToSet(dead') : IF IsBlock(f) THEN refs[f[2]] = 0
                                 ELSE \E m \in 1..Len(run.ents) : run.ents[m].key = f[2]
  BY AbortDead
<1>3. Entries' = Entries /\ (\A b : EntriesWith(b)' = EntriesWith(b)) /\ UNCHANGED <<index, lru, refs>>
  BY <1>1 DEF idx, Entries, EntriesWith
<1>4. ASSUME NEW e \in Entries PROVE Intact(e)'
  <2>1. Intact(e) /\ ToSet(AllFiles(e)) = Of({e.key}, ToSet(e.blocks)) /\ e.key \in Keys
    BY EntriesTyped DEF EntryInv, Stored, Shape
  <2>2. ASSUME NEW f \in ToSet(AllFiles(e)), f \in ToSet(dead') PROVE FALSE
    <3>1. f \in FileNames /\ (IF IsBlock(f) THEN f[2] \in ToSet(e.blocks) ELSE f[2] = e.key)
      BY <2>1, <2>2 DEF Of
    <3>2. CASE IsBlock(f)
      <4>1. f[2] \in Blocks /\ refs[f[2]] = 0 /\ f[2] \in ToSet(e.blocks)
        BY <1>2, <2>2, <3>1, <3>2, NameTypes
      <4> QED BY <4>1, UnusedBlock DEF EntryInv
    <3>3. CASE ~IsBlock(f)
      <4>1. \E m \in 1..Len(run.ents) : run.ents[m].key = e.key
        BY <1>2, <2>2, <3>1, <3>3
      <4>2. Pends(run, e.key)
        BY <4>1 DEF Pends
      <4>3. Len(stack) \in 1..Len(stack) /\ run = stack[Len(stack)]
        BY <1>1 DEF Pops
      <4>4. IdxFile(e.key) \notin DOMAIN disk
        BY <2>1, <4>2, <4>3 DEF EntryInv, Unrecorded
      <4> QED BY <4>4, OneEntry DEF EntryInv, Shape
    <3> QED BY <3>2, <3>3
  <2>3. ToSet(AllFiles(e)) \cap ToSet(dead') = {}
    BY <2>2
  <2> QED BY <1>1, <2>1, <2>3 DEF Intact, OnDisk
<1>5. Stored'
  BY <1>2, <1>3, <1>4 DEF Stored
<1>6. Recorded'
  <2>1. ToSet(dead) = {}
    BY <1>1 DEF ToSet
  <2> QED BY <1>1, <1>3, <2>1 DEF EntryInv, Recorded
<1>7. Counts'
  BY <1>3 DEF EntryInv, Counts
<1>8. Unrecorded'
  BY <1>1, PopUnrecorded DEF EntryInv
<1>9. Wanted'
  <2>1. ToSet(<<>>) = {}
    BY DEF ToSet
  <2> QED BY <1>1, <1>3, <2>1 DEF EntryInv, Wanted, Commands
<1>10. Listed'
  BY <1>3, SameListed DEF EntryInv
<1> QED BY <1>5, <1>6, <1>7, <1>8, <1>9, <1>10 DEF EntryInv

-----------------------------------------------------------------------------
(* Registering, evicting, clearing, starting again; the invariant.         *)

(* Complete says what it is to say.                                        *)
LEMMA CompleteIs ==
  ASSUME Shape, NEW e \in Entry
  PROVE  Complete(e) <=> /\ Of({e.key}, {}) \ {IdxFile(e.key)} \subseteq DOMAIN disk
                         /\ Of({}, ToSet(e.blocks) \cap Unused) \subseteq DOMAIN disk
<1>1. e.key \in Keys /\ e.blocks \in Seq(Blocks)
  BY DEF Entry
<1>2. PICK s \in Seq(FileNames) : s = StateFiles(e.key) /\ ToSet(s) = Of({e.key}, {}) \ {IdxFile(e.key)}
  BY <1>1, EntryFilesAre DEF IdxFile
<1>3. PICK g \in Seq(FileNames) : /\ g = FilesOfBlocks(Where(e.blocks, Unused))
                                  /\ ToSet(g) = Of({}, ToSet(e.blocks) \cap Unused)
  BY <1>1, ForgottenIs DEF Forgotten
<1>4. ToSet(s \o g) = ToSet(s) \cup ToSet(g)
  BY ConcatSet
<1>5. Complete(e) <=> ToSet(s \o g) \subseteq DOMAIN disk
  BY <1>2, <1>3 DEF Complete, OnDisk
<1> QED BY <1>2, <1>3, <1>4, <1>5

LEMMA RegisterEntry ==
  ASSUME Shape, SlotInv, EntryInv, Register
  PROVE  EntryInv'
<1>1. PICK e : e = Head(run.ents)
  OBVIOUS
<1>2. /\ Steps /\ run.pc = "barrier" /\ run'.pc = "barrier" /\ dead = <<>> /\ UNCHANGED <<dead, ranks>>
      /\ run'.chunks = run.chunks /\ run'.k = run.k
      /\ run.ents # <<>> /\ run'.ents = Tail(run.ents) /\ e = run.ents[1] /\ e \in Entry
  BY <1>1, RegisterIs
<1>3. \/ /\ Complete(e)
         /\ index' = Append(index, e) /\ lru' = Append(lru, e.key)
         /\ refs' = [b \in Blocks |-> refs[b] + (IF b \in ToSet(e.blocks) THEN 1 ELSE 0)]
         /\ disk' = With(disk, IdxFile(e.key), e)
      \/ disk' = Without(disk, ToSet(EntryFiles(e.key))) /\ UNCHANGED idx
  BY <1>1, RegisterIs DEF IdxFile
<1>4. /\ SlotInv' /\ \A m \in 1..Len(run'.ents) : run'.ents[m].key # e.key
      /\ \A i \in 1..(Len(stack) - 1) : ~HasKey(stack[i], e.key)
  BY <1>1, RegisterSlot
<1>5. e.key \in Keys /\ e.blocks \in Seq(Blocks)
  BY <1>2 DEF Entry
<1>6. PICK p \in Prefill : p = run /\ p.ents \in Seq(Entry) /\ Len(p.ents) \in Nat /\ Len(p.ents) # 0 /\ p.k = Len(p.chunks)
  <2>1. PICK p \in Prefill : p = run
    BY <1>2 DEF Steps
  <2>2. p.ents \in Seq(Entry) /\ Len(p.ents) \in Nat /\ p.k = Len(p.chunks)
    BY <1>2, <2>1, FieldsOf DEF Placed
  <2>3. Len(p.ents) # 0
    BY <1>2, <2>1, <2>2, EmptySeq
  <2> QED BY <2>1, <2>2, <2>3
<1>7. IdxFile(e.key) \notin DOMAIN disk /\ \A d \in Entries : d.key # e.key
  <2>1. Pends(run, e.key)
    BY <1>2, <1>6 DEF Pends
  <2>2. Len(stack) \in 1..Len(stack) /\ run = stack[Len(stack)]
    BY <1>2 DEF Steps
  <2>3. IdxFile(e.key) \notin DOMAIN disk
    BY <1>5, <2>1, <2>2 DEF EntryInv, Unrecorded
  <2> QED BY <2>3, OneEntry DEF Shape, EntryInv
<1>8. \A key \in Keys : Pends(run', key) => key # e.key /\ Pends(run, key)
  <2>1. PICK q \in Prefill : q = run'
    BY <1>2 DEF Steps
  <2>2. \A m \in 1..Len(q.ents) : m + 1 \in 1..Len(p.ents) /\ q.ents[m] = p.ents[m + 1]
    <3>1. PICK s \in Seq(Entry) : s = p.ents /\ s # <<>>
      BY <1>2, <1>6
    <3>2. q.ents = Tail(s) /\ Len(Tail(s)) = Len(s) - 1 /\ Len(s) \in Nat
      BY <1>2, <1>6, <2>1, <3>1, TailSet
    <3>3. \A m \in 1..Len(Tail(s)) : Tail(s)[m] = s[m + 1]
      BY <3>1, HeadTailProperties
    <3> QED BY <3>1, <3>2, <3>3
  <2>3. ASSUME NEW key, Pends(q, key) PROVE key # e.key /\ Pends(p, key)
    <3>1. q.k = Len(q.chunks) /\ q.pc = "barrier" /\ Len(p.chunks) \in Nat
      BY <1>2, <1>6, <2>1, FieldsOf
    <3>2. ~\E j \in (q.k + 1)..Len(q.chunks) : q.chunks[j].key = key
      BY <1>2, <1>6, <2>1, <3>1
    <3>3. PICK m \in 1..Len(q.ents) : q.ents[m].key = key
      BY <2>3, <3>1, <3>2 DEF Pends
    <3> QED BY <1>4, <2>1, <2>2, <3>3 DEF Pends
  <2> QED BY <1>6, <2>1, <2>3
<1>9. ASSUME NEW i \in 1..Len(stack'), NEW key \in Keys, Pends(stack'[i], key)
      PROVE  key # e.key /\ IdxFile(key) \notin DOMAIN disk
  <2>1. i \in 1..Len(stack) /\ Len(stack) \in 1..Len(stack) /\ run = stack[Len(stack)] /\ run' = stack'[Len(stack)]
    BY <1>2 DEF Steps
  <2>2. CASE i = Len(stack)
    <3>1. key # e.key /\ Pends(run, key)
      BY <1>8, <1>9, <2>1, <2>2
    <3> QED BY <2>1, <3>1 DEF EntryInv, Unrecorded
  <2>3. CASE i # Len(stack)
    <3>1. stack'[i] = stack[i] /\ i \in 1..(Len(stack) - 1)
      BY <1>2, <2>1, <2>3 DEF Steps
    <3>2. stack[i] \in Prefill /\ Slots(stack[i])
      BY <2>1, ElementOfSeq DEF Shape, SlotInv
    <3>3. HasKey(stack[i], key)
      BY <1>9, <3>1, <3>2, PendsHas
    <3> QED BY <1>4, <1>9, <2>1, <3>1, <3>3 DEF EntryInv, Unrecorded
  <2> QED BY <2>2, <2>3
<1>10. Commands(0)' = Commands(0) /\ Commands(1)' = Commands(1) /\ \A r \in Ranks : Commands(r)' = Commands(r)
  BY <1>2 DEF Commands, ranks
<1>11. ToSet(dead) = {} /\ ToSet(dead') = {} /\ dead' \in Seq(FileNames)
  BY <1>2 DEF ToSet, EntryInv, Stored
<1>12. CASE /\ Complete(e)
            /\ index' = Append(index, e) /\ lru' = Append(lru, e.key)
            /\ refs' = [b \in Blocks |-> refs[b] + (IF b \in ToSet(e.blocks) THEN 1 ELSE 0)]
            /\ disk' = With(disk, IdxFile(e.key), e)
  <2>1. e \notin Entries
    BY <1>7
  <2>2. Entries' = Entries \cup {e} /\ Distinct(index')
    <3>1. PICK s \in Seq(Entry) : s = index
      BY DEF Shape
    <3>2. ToSet(Append(s, e)) = ToSet(s) \cup {e} /\ (Distinct(s) /\ e \notin ToSet(s) => Distinct(Append(s, e)))
      BY <1>2, AppendSet
    <3> QED BY <1>12, <2>1, <3>1, <3>2 DEF Entries, EntryInv, Listed
  <2>3. Listed'
    <3>1. PICK s \in Seq(Keys) : s = lru
      BY DEF Shape
    <3>2. ToSet(Append(s, e.key)) = ToSet(s) \cup {e.key} /\ (Distinct(s) /\ e.key \notin ToSet(s) => Distinct(Append(s, e.key)))
      BY <1>5, AppendSet
    <3>3. ToSet(s) = {d.key : d \in Entries} /\ Distinct(s)
      BY <3>1 DEF EntryInv, Listed
    <3>4. e.key \notin ToSet(s)
      BY <1>7, <3>3
    <3>5. {d.key : d \in Entries \cup {e}} = ToSet(s) \cup {e.key}
      BY <3>3
    <3> QED BY <1>12, <2>2, <3>1, <3>2, <3>3, <3>4, <3>5 DEF Listed
  <2>4. DOMAIN disk' = DOMAIN disk \cup {IdxFile(e.key)} /\ disk'[IdxFile(e.key)] = e
        /\ \A f \in DOMAIN disk : f # IdxFile(e.key) => disk'[f] = disk[f]
    BY <1>12 DEF With
  <2>5. Of({e.key}, ToSet(e.blocks)) \subseteq DOMAIN disk'
    <3>1. /\ Of({e.key}, {}) \ {IdxFile(e.key)} \subseteq DOMAIN disk
          /\ Of({}, ToSet(e.blocks) \cap Unused) \subseteq DOMAIN disk
      BY <1>2, <1>12, CompleteIs
    <3>2. ASSUME NEW f \in Of({e.key}, ToSet(e.blocks)) PROVE f \in DOMAIN disk'
      <4>1. f \in FileNames /\ (IF IsBlock(f) THEN f[2] \in ToSet(e.blocks) ELSE f[2] = e.key)
        BY DEF Of
      <4>2. CASE IsBlock(f)
        <5>1. f[2] \in Blocks
          BY <4>1, <4>2, NameTypes
        <5>2. CASE refs[f[2]] = 0
          <6>1. f \in Of({}, ToSet(e.blocks) \cap Unused)
            BY <4>1, <4>2, <5>1, <5>2 DEF Of, Unused
          <6> QED BY <2>4, <3>1, <6>1
        <5>3. CASE refs[f[2]] # 0
          <6>1. f \in Of({}, {f[2]})
            BY <4>1, <4>2 DEF Of
          <6>2. Of({}, {f[2]}) \subseteq DOMAIN disk
            BY <5>1, <5>3, UsedBlock DEF EntryInv
          <6> QED BY <2>4, <6>1, <6>2
        <5> QED BY <5>2, <5>3
      <4>3. CASE ~IsBlock(f)
        <5>1. f \in Of({e.key}, {})
          BY <4>1, <4>3 DEF Of
        <5> QED BY <2>4, <3>1, <5>1
      <4> QED BY <4>2, <4>3
    <3> QED BY <3>2
  <2>6. ASSUME NEW d \in Entries' PROVE Intact(d)'
    <3>1. CASE d = e
      <4>1. ToSet(AllFiles(e)) = Of({e.key}, ToSet(e.blocks))
        BY <1>5, AllFilesAre
      <4>2. ToSet(AllFiles(e)) \subseteq DOMAIN disk' /\ disk'[IdxFile(e.key)] = e /\ ToSet(AllFiles(e)) \cap ToSet(dead') = {}
        BY <1>11, <2>4, <2>5, <4>1
      <4> QED BY <3>1, <4>2 DEF Intact, OnDisk
    <3>2. CASE d \in Entries
      <4>1. Intact(d) /\ d.key # e.key /\ IdxFile(d.key) \in DOMAIN disk
        BY <1>7, <3>2, OneEntry DEF EntryInv, Stored, Shape
      <4>2. IdxFile(d.key) # IdxFile(e.key)
        BY <4>1 DEF IdxFile
      <4>3. ToSet(AllFiles(d)) \subseteq DOMAIN disk /\ disk[IdxFile(d.key)] = d
        BY <4>1 DEF Intact, OnDisk
      <4>4. ToSet(AllFiles(d)) \subseteq DOMAIN disk' /\ disk'[IdxFile(d.key)] = d /\ ToSet(AllFiles(d)) \cap ToSet(dead') = {}
        BY <1>11, <2>4, <4>1, <4>2, <4>3
      <4> QED BY <4>4 DEF Intact, OnDisk
    <3> QED BY <2>2, <3>1, <3>2
  <2>7. Stored'
    BY <1>11, <2>6 DEF Stored
  <2>8. Recorded'
    <3>1. ASSUME NEW f \in DOMAIN disk', f[1] = "idx" PROVE disk'[f] \in Entries'
      <4>1. CASE f = IdxFile(e.key)
        BY <2>2, <2>4, <4>1
      <4>2. CASE f # IdxFile(e.key)
        <5>1. f \in DOMAIN disk /\ disk'[f] = disk[f]
          BY <2>4, <4>2
        <5>2. disk[f] \in Entries
          BY <1>11, <3>1, <5>1 DEF EntryInv, Recorded
        <5> QED BY <2>2, <5>1, <5>2
      <4> QED BY <4>1, <4>2
    <3> QED BY <3>1 DEF Recorded
  <2>9. Counts'
    <3>1. ASSUME NEW b \in Blocks PROVE refs'[b] = Cardinality(EntriesWith(b)')
      <4>1. IsFiniteSet(EntriesWith(b)) /\ Cardinality(EntriesWith(b)) \in Nat /\ refs[b] = Cardinality(EntriesWith(b))
        BY EntriesTyped DEF Shape, EntryInv, Counts
      <4>2. EntriesWith(b)' = EntriesWith(b) \cup (IF b \in ToSet(e.blocks) THEN {e} ELSE {})
        BY <2>2 DEF EntriesWith
      <4>3. CASE b \in ToSet(e.blocks)
        <5>1. PICK S : S = EntriesWith(b)
          OBVIOUS
        <5>2. e \notin S
          BY <2>1, <5>1 DEF EntriesWith
        <5>3. Cardinality(S \cup {e}) = Cardinality(S) + 1
          BY <4>1, <5>1, <5>2, FS_AddElement
        <5> QED BY <1>12, <4>1, <4>2, <4>3, <5>1, <5>3
      <4>4. CASE b \notin ToSet(e.blocks)
        <5>1. EntriesWith(b)' = EntriesWith(b)
          BY <4>2, <4>4
        <5> QED BY <1>12, <4>1, <4>4, <5>1
      <4> QED BY <4>3, <4>4
    <3> QED BY <3>1 DEF Counts
  <2>10. Unrecorded'
    <3>1. \A key \in Keys : key # e.key => IdxFile(key) # IdxFile(e.key)
      BY DEF IdxFile
    <3> QED BY <1>9, <2>4, <3>1 DEF Unrecorded
  <2>11. Wanted'
    BY <1>10, <2>2 DEF EntryInv, Wanted
  <2> QED BY <2>3, <2>7, <2>8, <2>9, <2>10, <2>11 DEF EntryInv
<1>13. CASE disk' = Without(disk, ToSet(EntryFiles(e.key))) /\ UNCHANGED idx
  <2>1. ToSet(EntryFiles(e.key)) = Of({e.key}, {})
    BY <1>5, EntryFilesAre
  <2>2. DOMAIN disk' = DOMAIN disk \ Of({e.key}, {}) /\ \A f \in DOMAIN disk' : disk'[f] = disk[f]
    BY <1>13, <2>1 DEF Without
  <2>3. Entries' = Entries /\ (\A b : EntriesWith(b)' = EntriesWith(b)) /\ UNCHANGED <<index, lru, refs>>
    BY <1>13 DEF idx, Entries, EntriesWith
  <2>4. ASSUME NEW d \in Entries PROVE Intact(d)'
    <3>1. Intact(d) /\ d.key # e.key /\ IdxFile(d.key) \in DOMAIN disk /\ d.key \in Keys
          /\ ToSet(AllFiles(d)) = Of({d.key}, ToSet(d.blocks))
      BY <1>7, OneEntry, EntriesTyped DEF EntryInv, Stored, Shape
    <3>2. Of({d.key}, ToSet(d.blocks)) \cap Of({e.key}, {}) = {}
      BY <3>1 DEF Of
    <3>3. IdxFile(d.key) \in Of({d.key}, ToSet(d.blocks))
      BY <3>1, InOf
    <3>4. ToSet(AllFiles(d)) \subseteq DOMAIN disk /\ disk[IdxFile(d.key)] = d
      BY <3>1 DEF Intact, OnDisk
    <3>5. ToSet(AllFiles(d)) \subseteq DOMAIN disk' /\ disk'[IdxFile(d.key)] = d /\ ToSet(AllFiles(d)) \cap ToSet(dead') = {}
      BY <1>11, <2>2, <3>1, <3>2, <3>3, <3>4
    <3> QED BY <3>5 DEF Intact, OnDisk
  <2>5. Stored'
    BY <1>11, <2>3, <2>4 DEF Stored
  <2>6. Recorded'
    BY <1>11, <2>2, <2>3 DEF EntryInv, Recorded
  <2>7. Counts'
    BY <2>3 DEF EntryInv, Counts
  <2>8. Unrecorded'
    BY <1>9, <2>2 DEF Unrecorded
  <2>9. Wanted'
    BY <1>10, <2>3 DEF EntryInv, Wanted
  <2>10. Listed'
    BY <2>3, SameListed DEF EntryInv
  <2> QED BY <2>5, <2>6, <2>7, <2>8, <2>9, <2>10 DEF EntryInv
<1> QED BY <1>3, <1>12, <1>13

LEMMA RefsAfterIs ==
  ASSUME Shape, Listed, Stored, Counts, NEW k \in 0..Len(lru), NEW b \in Blocks
  PROVE  /\ RefsAfter(k)[b] = Cardinality(Left(k, b)) /\ IsFiniteSet(Left(k, b))
         /\ RefsAfter(k)[b] = 0 <=> Left(k, b) = {}
         /\ RefsAfter(k)[b] \in Nat
<1>1. PICK n \in Nat : n = Len(lru)
  BY LenProperties DEF Shape
<1>2. (\A j \in 1..n : lru[j] \in ToSet(lru)) /\ (\A i, j \in 1..n : lru[i] = lru[j] => i = j)
  <2>1. PICK s \in Seq(Keys) : s = lru
    BY DEF Shape
  <2>2. \A j \in 1..Len(s) : s[j] \in ToSet(s)
    BY AsSet
  <2>3. \A i, j \in 1..Len(s) : s[i] = s[j] => i = j
    BY <2>1 DEF Listed, Distinct
  <2> QED BY <1>1, <2>1, <2>2, <2>3
<1>3. PICK S : S = EntriesWith(b)
  OBVIOUS
<1>4. IsFiniteSet(S) /\ Cardinality(S) \in Nat /\ refs[b] = Cardinality(S) /\ S \subseteq Entries
  BY <1>3, EntriesTyped DEF Shape, Counts, EntriesWith
<1>5. PICK J : J = {j \in 1..k : b \in ToSet(EntryOf(lru[j]).blocks)}
  OBVIOUS
<1>6. PICK T : T = {e \in S : e.key \in Oldest(k)}
  OBVIOUS
<1>7. IsFiniteSet(T) /\ T \in SUBSET S
  BY <1>4, <1>6, FS_Subset
<1>8. PICK f : f = [j \in J |-> EntryOf(lru[j])]
  OBVIOUS
<1>9. \A j \in 1..k : EntryOf(lru[j]) \in Entries /\ EntryOf(lru[j]).key = lru[j] /\ j \in 1..n
  BY <1>1, <1>2, EntryOfIs DEF Shape
<1>10. \A d, e \in Entries : d.key = e.key => d = e
  BY OneEntry DEF Shape
<1>11. f \in Bijection(J, T)
  <2>1. \A j \in J : f[j] \in T
    BY <1>3, <1>5, <1>6, <1>8, <1>9 DEF EntriesWith, Oldest
  <2>2. f \in [J -> T]
    BY <1>8, <2>1
  <2>3. \A i, j \in J : f[i] = f[j] => i = j
    BY <1>2, <1>5, <1>8, <1>9
  <2>4. ASSUME NEW e \in T PROVE \E j \in J : f[j] = e
    <3>1. PICK j \in 1..k : e.key = lru[j]
      BY <1>6 DEF Oldest
    <3>2. EntryOf(lru[j]) = e
      BY <1>4, <1>6, <1>9, <1>10, <3>1
    <3>3. j \in J
      BY <1>3, <1>5, <1>6, <3>2 DEF EntriesWith
    <3> QED BY <1>8, <3>2, <3>3
  <2>5. f \in Injection(J, T)
    BY <2>2, <2>3 DEF Injection, IsInjective
  <2>6. f \in Surjection(J, T)
    BY <2>2, <2>4 DEF Surjection
  <2> QED BY <2>5, <2>6 DEF Bijection
<1>12. Cardinality(J) = Cardinality(T)
  <2>1. PICK I : I = 1..k /\ J \in SUBSET I
    BY <1>5
  <2>2. IsFiniteSet(I)
    <3>1. 1 \in Int /\ k \in Int
      BY <1>1
    <3> QED BY <2>1, <3>1, FS_Interval
  <2>3. IsFiniteSet(J)
    BY <2>1, <2>2, FS_Subset
  <2>4. ExistsBijection(J, T)
    BY <1>11 DEF ExistsBijection
  <2> QED BY <2>3, <2>4, FS_Bijection
<1>13. Cardinality(S \ T) = Cardinality(S) - Cardinality(T)
  <2>1. Cardinality(S \ T) = Cardinality(S) - Cardinality(S \cap T)
    BY <1>4, FS_Difference
  <2>2. S \cap T = T
    BY <1>7
  <2> QED BY <2>1, <2>2
<1>14. Left(k, b) = S \ T
  BY <1>3, <1>6 DEF Left
<1>15. RefsAfter(k)[b] = refs[b] - Cardinality(J)
  BY <1>5 DEF RefsAfter
<1>16. IsFiniteSet(S \ T)
  BY <1>4, FS_Subset
<1>17. Cardinality(S \ T) \in Nat /\ (Cardinality(S \ T) = 0 <=> S \ T = {})
  BY <1>16, FS_CardinalityType, FS_EmptySet
<1> QED BY <1>4, <1>12, <1>13, <1>14, <1>15, <1>16, <1>17

LEMMA FilesDroppedIs ==
  ASSUME Shape, Listed, Stored, NEW j \in 1..Len(lru)
  PROVE  /\ FilesDroppedAt(j) \in Seq(FileNames)
         /\ ToSet(FilesDroppedAt(j)) =
              Of({lru[j]}, {b \in ToSet(EntryOf(lru[j]).blocks) : RefsAfter(j)[b] = 0})
         /\ lru[j] \in Keys /\ EntryOf(lru[j]) \in Entries /\ EntryOf(lru[j]).key = lru[j]
<1>1. lru[j] \in Keys /\ lru[j] \in ToSet(lru)
  BY AsSet DEF Shape
<1>2. PICK e \in Entries : e = EntryOf(lru[j]) /\ e.key = lru[j]
  BY <1>1, EntryOfIs DEF Shape
<1>3. e.blocks \in Seq(Blocks) /\ ToSet(e.blocks) \subseteq Blocks
  BY EntriesTyped, AsSet DEF Shape
<1>4. PICK h \in Seq(FileNames) : h = EntryFiles(lru[j]) /\ ToSet(h) = Of({lru[j]}, {})
  BY <1>1, EntryFilesAre
<1>5. PICK U : U = {b \in Blocks : RefsAfter(j)[b] = 0}
  OBVIOUS
<1>6. PICK s \in Seq(Blocks) : s = Where(e.blocks, U) /\ ToSet(s) = ToSet(e.blocks) \cap U
  BY <1>3, WhereSet
<1>7. PICK g \in Seq(FileNames) : g = FilesOfBlocks(s) /\ ToSet(g) = Of({}, ToSet(s))
  BY FilesOfBlocksAre
<1>8. FilesDroppedAt(j) = h \o g
  BY <1>2, <1>4, <1>5, <1>6, <1>7 DEF FilesDroppedAt
<1>9. h \o g \in Seq(FileNames) /\ ToSet(h \o g) = ToSet(h) \cup ToSet(g)
  BY ConcatSet
<1>10. ToSet(h) \cup ToSet(g) = Of({lru[j]}, ToSet(e.blocks) \cap U)
  BY <1>4, <1>6, <1>7 DEF Of
<1>11. ToSet(e.blocks) \cap U = {b \in ToSet(e.blocks) : RefsAfter(j)[b] = 0}
  BY <1>3, <1>5
<1> QED BY <1>1, <1>2, <1>8, <1>9, <1>10, <1>11

(* The files Finish is about to unlink.                                    *)
LEMMA FinishDead ==
  ASSUME Shape, EntryInv, Finish
  PROVE  /\ dead' \in Seq(FileNames)
         /\ \A f : f \in ToSet(dead') <=>
              \/ f \in Of({}, ToSet(run.new) \cap Unused)
              \/ \E j \in 1..Drops : f \in Of({lru[j]}, {b \in ToSet(EntryOf(lru[j]).blocks) : RefsAfter(j)[b] = 0})
<1>1. Pops /\ Drops \in 0..Len(lru) /\ dead' = Forgotten(run.new) \o FlattenSeq([j \in 1..Drops |-> FilesDroppedAt(j)])
  BY FinishIs
<1>2. PICK p \in Prefill : p = run
  BY <1>1 DEF Pops
<1>3. PICK n \in Nat : n = Drops /\ \A j \in 1..n : j \in 1..Len(lru)
  <2>1. Len(lru) \in Nat
    BY LenProperties DEF Shape
  <2> QED BY <1>1, <2>1
<1>4. PICK ss : ss = [j \in 1..n |-> FilesDroppedAt(j)]
  OBVIOUS
<1>5. \A j \in 1..n : ss[j] \in Seq(FileNames)
        /\ ToSet(ss[j]) = Of({lru[j]}, {b \in ToSet(EntryOf(lru[j]).blocks) : RefsAfter(j)[b] = 0})
  BY <1>3, <1>4, FilesDroppedIs DEF EntryInv
<1>6. FlattenSeq(ss) \in Seq(FileNames) /\ ToSet(FlattenSeq(ss)) = UNION {ToSet(ss[i]) : i \in 1..n}
  <2>1. DOMAIN ss = 1..n /\ ss = [i \in 1..n |-> ss[i]] /\ \A i \in 1..n : ss[i] \in Seq(FileNames)
    BY <1>4, <1>5
  <2> QED BY <2>1, FlatFiles
<1>7. PICK g \in Seq(FileNames) : g = Forgotten(p.new) /\ ToSet(g) = Of({}, ToSet(p.new) \cap Unused)
  <2>1. p.new \in Seq(Blocks)
    BY FieldsOf
  <2> QED BY <2>1, ForgottenIs
<1>8. dead' = g \o FlattenSeq(ss)
  BY <1>1, <1>2, <1>3, <1>4, <1>7
<1>9. dead' \in Seq(FileNames) /\ ToSet(dead') = ToSet(g) \cup ToSet(FlattenSeq(ss))
  BY <1>6, <1>8, ConcatSet
<1>10. \A f : f \in ToSet(FlattenSeq(ss)) <=> \E j \in 1..n : f \in ToSet(ss[j])
  BY <1>6
<1> DEFINE G == Of({}, ToSet(p.new) \cap Unused)
<1> DEFINE D(j) == Of({lru[j]}, {b \in ToSet(EntryOf(lru[j]).blocks) : RefsAfter(j)[b] = 0})
<1>11. ToSet(g) = G /\ \A j \in 1..n : ToSet(ss[j]) = D(j)
  BY <1>5, <1>7
<1> HIDE DEF G, D
<1>12. \A f : f \in ToSet(dead') <=> f \in G \/ \E j \in 1..n : f \in D(j)
  BY <1>9, <1>10, <1>11
<1> USE DEF G, D
<1> QED BY <1>2, <1>3, <1>9, <1>12

LEMMA FinishEntry ==
  ASSUME Shape, Proto, EntryInv, Finish
  PROVE  EntryInv' /\ \A r \in Ranks : cmds[r] = <<>> /\ wq[r] = <<>>
<1>1. /\ Pops /\ run.pc = "barrier" /\ dead = <<>> /\ cmds[0] = <<>>
      /\ index' = Where(index, {e \in Entries : e.key \notin {lru[j] : j \in 1..Drops}})
      /\ lru' = SubSeq(lru, Drops + 1, Len(lru)) /\ refs' = RefsAfter(Drops)
      /\ UNCHANGED <<disk, ranks>>
  BY FinishIs
<1>2. PICK n \in Nat : n = Drops /\ n \in 0..Len(lru)
  <2>1. Len(lru) \in Nat
    BY LenProperties DEF Shape
  <2> QED BY <2>1, FinishIs
<1>3. PICK m \in Nat : m = Len(lru)
  BY LenProperties DEF Shape
<1>4. \A r \in Ranks : cmds[r] = <<>> /\ wq[r] = <<>>
  <2>1. AtBarrier
    BY <1>1 DEF AtBarrier, Pops
  <2> QED BY <1>1, <2>1 DEF Proto, Barriers, BarrierLast, Ranks
<1>5. Entries' = {e \in Entries : e.key \notin Oldest(n)} /\ Distinct(index')
  <2>1. PICK S : S = {e \in Entries : e.key \notin Oldest(n)}
    OBVIOUS
  <2>2. ToSet(Where(index, S)) = ToSet(index) \cap S /\ Distinct(Where(index, S))
    BY WhereSet DEF Shape, EntryInv, Listed
  <2>3. index' = Where(index, S)
    BY <1>1, <1>2, <2>1 DEF Oldest
  <2> QED BY <2>1, <2>2, <2>3 DEF Entries
<1>6. /\ \A j \in 1..m : lru[j] \in Keys
      /\ \A i, j \in 1..m : lru[i] = lru[j] => i = j
      /\ {lru[j] : j \in 1..m} = {e.key : e \in Entries}
  BY <1>3, AsSet DEF Shape, EntryInv, Listed, Distinct
<1>7. Listed'
  <2>1. PICK t : t = SubSeq(lru, n + 1, m)
    OBVIOUS
  <2>2. n + 1 \in Int /\ m \in Int /\ \A j \in (n + 1)..m : j \in 1..m /\ lru[j] \in Keys
    BY <1>6
  <2>3. /\ t \in Seq(Keys) /\ Len(t) = IF n + 1 <= m THEN m - (n + 1) + 1 ELSE 0
        /\ \A i \in 1..(m - (n + 1) + 1) : t[i] = lru[(n + 1) + i - 1]
    BY <2>1, <2>2, SubSeqProperties
  <2>4. Len(t) = m - n
    BY <1>2, <1>3, <2>3
  <2>5. \A i \in 1..(m - n) : t[i] = lru[n + i] /\ n + i \in 1..m
    <3>1. \A i \in 1..(m - n) : i \in 1..(m - (n + 1) + 1) /\ (n + 1) + i - 1 = n + i /\ n + i \in 1..m
      BY <1>2, <1>3
    <3> QED BY <2>3, <3>1
  <2>6. Distinct(t)
    <3>1. ASSUME NEW i \in 1..(m - n), NEW j \in 1..(m - n), t[i] = t[j] PROVE i = j
      <4>1. n + i = n + j
        BY <1>6, <2>5, <3>1
      <4> QED BY <4>1
    <3> QED BY <2>4, <3>1 DEF Distinct
  <2>7. ToSet(t) = {t[i] : i \in 1..(m - n)}
    BY <2>3, <2>4, AsSet
  <2>8. ASSUME NEW key PROVE key \in ToSet(t) <=> key \in {e.key : e \in Entries} /\ key \notin Oldest(n)
    <3>1. ASSUME key \in ToSet(t) PROVE key \in {e.key : e \in Entries} /\ key \notin Oldest(n)
      <4>1. PICK i \in 1..(m - n) : key = lru[n + i] /\ n + i \in 1..m
        BY <2>5, <2>7, <3>1
      <4>2. \A j \in 1..n : j \in 1..m /\ j # n + i
        BY <1>2, <1>3
      <4> QED BY <1>6, <4>1, <4>2 DEF Oldest
    <3>2. ASSUME key \in {e.key : e \in Entries}, key \notin Oldest(n) PROVE key \in ToSet(t)
      <4>1. PICK j \in 1..m : key = lru[j]
        BY <1>6, <3>2
      <4>2. j \notin 1..n
        BY <3>2, <4>1 DEF Oldest
      <4>3. j - n \in 1..(m - n) /\ n + (j - n) = j
        BY <1>2, <1>3, <4>2
      <4> QED BY <2>5, <2>7, <4>1, <4>3
    <3> QED BY <3>1, <3>2
  <2>9. ToSet(t) = {e.key : e \in Entries'}
    BY <1>5, <2>8
  <2> QED BY <1>1, <1>2, <1>3, <1>5, <2>1, <2>6, <2>9 DEF Listed
<1>8. \A b : EntriesWith(b)' = Left(n, b)
  BY <1>5 DEF EntriesWith, Left
<1>9. Counts'
  BY <1>1, <1>2, <1>8, RefsAfterIs DEF EntryInv, Counts
<1>10. ASSUME NEW d \in Entries' PROVE Intact(d)'
  <2>1. d \in Entries /\ d.key \notin Oldest(n) /\ Intact(d) /\ d.key \in Keys
        /\ ToSet(AllFiles(d)) = Of({d.key}, ToSet(d.blocks)) /\ d.blocks \in Seq(Blocks)
    BY <1>5, EntriesTyped DEF EntryInv, Stored, Shape
  <2>2. ASSUME NEW f \in ToSet(AllFiles(d)), f \in ToSet(dead') PROVE FALSE
    <3>1. f \in FileNames /\ (IF IsBlock(f) THEN f[2] \in ToSet(d.blocks) ELSE f[2] = d.key)
      BY <2>1, <2>2 DEF Of
    <3>2. CASE f \in Of({}, ToSet(run.new) \cap Unused)
      <4>1. IsBlock(f) /\ f[2] \in Blocks /\ refs[f[2]] = 0
        BY <3>2 DEF Of, Unused
      <4> QED BY <2>1, <3>1, <4>1, UnusedBlock DEF EntryInv
    <3>3. ASSUME NEW j \in 1..n,
                 f \in Of({lru[j]}, {b \in ToSet(EntryOf(lru[j]).blocks) : RefsAfter(j)[b] = 0})
          PROVE  FALSE
      <4>1. j \in 0..Len(lru) /\ lru[j] \in Oldest(n)
        BY <1>2, <1>3 DEF Oldest
      <4>2. CASE IsBlock(f)
        <5>1. f[2] \in Blocks /\ RefsAfter(j)[f[2]] = 0
          BY <3>1, <3>3, <4>2, NameTypes DEF Of
        <5>2. Left(j, f[2]) = {}
          BY <4>1, <5>1, RefsAfterIs DEF EntryInv
        <5>3. d.key \notin Oldest(j)
          <6>1. \A i \in 1..j : i \in 1..n
            OBVIOUS
          <6> QED BY <2>1, <6>1 DEF Oldest
        <5> QED BY <2>1, <3>1, <4>2, <5>2, <5>3 DEF Left, EntriesWith
      <4>3. CASE ~IsBlock(f)
        BY <2>1, <3>1, <3>3, <4>1, <4>3 DEF Of
      <4> QED BY <4>2, <4>3
    <3> QED BY <1>2, <2>2, <3>2, <3>3, FinishDead
  <2>3. ToSet(AllFiles(d)) \cap ToSet(dead') = {}
    BY <2>2
  <2> QED BY <1>1, <2>1, <2>3 DEF Intact, OnDisk
<1>11. Stored'
  BY <1>10, FinishDead DEF Stored
<1>12. Recorded'
  <2>1. ASSUME NEW f \in DOMAIN disk, f[1] = "idx", disk[f] \notin Entries' PROVE f \in ToSet(dead')
    <3>1. ToSet(dead) = {}
      BY <1>1 DEF ToSet
    <3>2. PICK e \in Entries : e = disk[f]
      BY <2>1, <3>1 DEF EntryInv, Recorded
    <3>3. f = IdxFile(e.key) /\ e.key \in Keys
      BY <2>1, <3>2, EntriesTyped DEF Shape, Directory, IdxFile
    <3>4. PICK j \in 1..n : e.key = lru[j]
      BY <1>5, <2>1, <3>2 DEF Oldest
    <3>5. f \in Of({lru[j]}, {b \in ToSet(EntryOf(lru[j]).blocks) : RefsAfter(j)[b] = 0})
      BY <3>3, <3>4, InOf
    <3> QED BY <1>2, <3>5, FinishDead
  <2> QED BY <1>1, <2>1 DEF Recorded
<1>13. Unrecorded'
  BY <1>1, PopUnrecorded DEF EntryInv
<1>14. Wanted'
  <2>1. ToSet(<<>>) = {}
    BY DEF ToSet
  <2> QED BY <1>1, <1>4, <2>1 DEF Wanted, Commands, ranks
<1> QED BY <1>4, <1>7, <1>9, <1>11, <1>12, <1>13, <1>14 DEF EntryInv

LEMMA UnlinkEntry ==
  ASSUME Shape, EntryInv, Unlink
  PROVE  EntryInv'
<1>1. dead # <<>> /\ disk' = Without(disk, {Head(dead)}) /\ dead' = Tail(dead) /\ UNCHANGED <<idx, stack, ranks>>
  BY DEF Unlink
<1>2. PICK s \in Seq(FileNames) : s = dead /\ s # <<>>
  BY <1>1 DEF EntryInv, Stored
<1>3. Head(s) = s[1] /\ Tail(s) \in Seq(FileNames) /\ ToSet(s) = ToSet(Tail(s)) \cup {s[1]}
  BY <1>2, TailSet, HeadTailProperties
<1>4. DOMAIN disk' = DOMAIN disk \ {s[1]} /\ \A f \in DOMAIN disk' : disk'[f] = disk[f]
  BY <1>1, <1>2, <1>3 DEF Without
<1>5. ToSet(dead') \subseteq ToSet(dead) /\ s[1] \in ToSet(dead) /\ dead' \in Seq(FileNames)
      /\ \A f \in ToSet(dead) : f = s[1] \/ f \in ToSet(dead')
  BY <1>1, <1>2, <1>3
<1>6. Entries' = Entries /\ (\A b : EntriesWith(b)' = EntriesWith(b)) /\ UNCHANGED <<index, lru, refs>>
  BY <1>1 DEF idx, Entries, EntriesWith
<1>7. ASSUME NEW d \in Entries PROVE Intact(d)'
  <2>1. Intact(d) /\ ToSet(AllFiles(d)) = Of({d.key}, ToSet(d.blocks)) /\ d.key \in Keys
    BY EntriesTyped DEF EntryInv, Stored, Shape
  <2>2. s[1] \notin ToSet(AllFiles(d)) /\ ToSet(AllFiles(d)) \subseteq DOMAIN disk
        /\ disk[IdxFile(d.key)] = d /\ IdxFile(d.key) \in ToSet(AllFiles(d))
    BY <1>5, <2>1, InOf DEF Intact, OnDisk
  <2>3. ToSet(AllFiles(d)) \subseteq DOMAIN disk' /\ disk'[IdxFile(d.key)] = d /\ ToSet(AllFiles(d)) \cap ToSet(dead') = {}
    BY <1>4, <1>5, <2>1, <2>2 DEF Intact
  <2> QED BY <2>3 DEF Intact, OnDisk
<1>8. Stored'
  BY <1>5, <1>6, <1>7 DEF Stored
<1>9. Recorded'
  BY <1>4, <1>5, <1>6 DEF EntryInv, Recorded
<1>10. Counts'
  BY <1>6 DEF EntryInv, Counts
<1>11. Unrecorded'
  BY <1>1, <1>4 DEF EntryInv, Unrecorded
<1>12. Wanted'
  BY <1>1, <1>6 DEF EntryInv, Wanted, Commands, ranks
<1>13. Listed'
  BY <1>6, SameListed DEF EntryInv
<1> QED BY <1>8, <1>9, <1>10, <1>11, <1>12, <1>13 DEF EntryInv

LEMMA EmptyEntries ==
  ASSUME index = <<>>, lru = <<>>, refs = [b \in Blocks |-> 0]
  PROVE  Entries = {} /\ Listed /\ Counts
<1>1. ToSet(<<>>) = {} /\ Distinct(<<>>)
  BY DEF ToSet, Distinct
<1>2. Entries = {}
  BY <1>1 DEF Entries
<1>3. Listed
  BY <1>1, <1>2 DEF Listed
<1>4. \A b : EntriesWith(b) = {}
  BY <1>2 DEF EntriesWith
<1>5. Cardinality({}) = 0
  BY FS_EmptySet
<1> QED BY <1>2, <1>3, <1>4, <1>5 DEF Counts

LEMMA ClearEntry ==
  ASSUME Shape, EntryInv, Clear
  PROVE  EntryInv' /\ ToSet(dead') = DOMAIN disk
<1>1. /\ stack = <<>> /\ index' = <<>> /\ lru' = <<>> /\ refs' = [b \in Blocks |-> 0]
      /\ dead' = Where(AllNames, DOMAIN disk) /\ UNCHANGED <<disk, stack, ranks>>
      /\ \A r \in Ranks : cmds[r] = <<>>
  BY DEF Clear
<1>2. Entries' = {} /\ Listed' /\ Counts'
  <2>1. Entries' = {} /\ Distinct(index') /\ Distinct(lru') /\ ToSet(lru') = {}
    BY <1>1 DEF Entries, ToSet, Distinct
  <2>2. \A b : EntriesWith(b)' = {}
    BY <2>1 DEF EntriesWith
  <2>3. Cardinality({}) = 0
    BY FS_EmptySet
  <2> QED BY <1>1, <2>1, <2>2, <2>3 DEF Listed, Counts
<1>3. dead' \in Seq(FileNames) /\ ToSet(dead') = DOMAIN disk
  <2>1. AllNames \in Seq(FileNames) /\ ToSet(AllNames) = FileNames
    BY AllNamesAre
  <2>2. DOMAIN disk \subseteq FileNames
    BY DEF Shape, Directory
  <2>3. PICK s \in Seq(FileNames) : s = AllNames /\ ToSet(s) = FileNames
    BY <2>1
  <2>4. PICK U : U = DOMAIN disk
    OBVIOUS
  <2>5. Where(s, U) \in Seq(FileNames) /\ ToSet(Where(s, U)) = ToSet(s) \cap U
    BY WhereSet
  <2>6. dead' = Where(s, U)
    BY <1>1, <2>3, <2>4
  <2> QED BY <2>2, <2>3, <2>4, <2>5, <2>6
<1>4. Stored' /\ Recorded'
  BY <1>1, <1>2, <1>3 DEF Stored, Recorded
<1>5. Unrecorded'
  BY <1>1 DEF EntryInv, Unrecorded
<1>6. Wanted'
  <2>1. ToSet(<<>>) = {}
    BY DEF ToSet
  <2> QED BY <1>1, <2>1 DEF Wanted, Commands, ranks
<1> QED BY <1>2, <1>3, <1>4, <1>5, <1>6 DEF EntryInv

LEMMA RestartEntry ==
  ASSUME Shape, EntryInv, Restart
  PROVE  EntryInv'
<1>1. /\ ToSet(index') = Whole /\ Distinct(index')
      /\ ToSet(lru') = {e.key : e \in Whole} /\ Distinct(lru')
      /\ refs' = [b \in Blocks |-> Cardinality(Users(b))]
      /\ disk' = Without(disk, Broken \cup Strays)
      /\ dead' = <<>> /\ stack' = <<>> /\ cmds' = [r \in Ranks |-> <<>>]
  BY RestartIs DEF Shape, EntryInv, Listed
<1>2. Entries' = Whole /\ \A b : EntriesWith(b)' = Users(b)
  BY <1>1 DEF Entries, EntriesWith, Users
<1>3. Listed' /\ Counts'
  BY <1>1, <1>2 DEF Listed, Counts
<1>4. /\ Recs \subseteq Entry /\ Whole \subseteq Recs
      /\ \A e \in Recs : IdxFile(e.key) \in DOMAIN disk /\ disk[IdxFile(e.key)] = e
      /\ \A d, e \in Recs : d.key = e.key => d = e
      /\ \A b \in Blocks : IsFiniteSet(Users(b))
  BY RecsAre DEF Shape, IdxFile
<1>5. \A e \in Recs : e.key \in Keys /\ e.blocks \in Seq(Blocks)
  BY <1>4 DEF Entry
<1>6. \A e \in Recs : ToSet(AllFiles(e)) = Of({e.key}, ToSet(e.blocks)) /\ ToSet(EntryFiles(e.key)) = Of({e.key}, {})
  BY <1>5, AllFilesAre, EntryFilesAre
<1>7. DOMAIN disk' = DOMAIN disk \ (Broken \cup Strays) /\ \A f \in DOMAIN disk' : disk'[f] = disk[f]
  BY <1>1 DEF Without
<1>8. ToSet(dead') = {} /\ dead' \in Seq(FileNames)
  BY <1>1 DEF ToSet
<1>9. ASSUME NEW e \in Whole PROVE Intact(e)'
  <2>1. e \in Recs /\ ToSet(AllFiles(e)) \subseteq DOMAIN disk
    BY <1>4 DEF Whole, OnDisk
  <2>2. ASSUME NEW f \in ToSet(AllFiles(e)) PROVE f \notin Broken /\ f \notin Strays
    <3>1. f \in FileNames /\ (IF IsBlock(f) THEN f[2] \in ToSet(e.blocks) ELSE f[2] = e.key)
      BY <1>6, <2>1, <2>2 DEF Of
    <3>2. ASSUME f \in Broken PROVE FALSE
      <4>1. PICK d \in Recs \ Whole : f \in Of({d.key}, {})
        BY <1>6, <3>2 DEF Broken
      <4>2. f[2] = d.key /\ ~IsBlock(f)
        BY <4>1 DEF Of
      <4> QED BY <1>4, <2>1, <3>1, <4>2
    <3>3. ASSUME f \in Strays PROVE FALSE
      <4>1. IsBlock(f) /\ Cardinality(Users(f[2])) = 0
        BY <3>3 DEF Strays, IsBlock
      <4>2. f[2] \in Blocks /\ e \in Users(f[2])
        BY <3>1, <4>1, NameTypes DEF Users
      <4>3. Users(f[2]) = {}
        BY <1>4, <4>1, <4>2, FS_EmptySet
      <4> QED BY <4>2, <4>3
    <3> QED BY <3>2, <3>3
  <2>3. IdxFile(e.key) \in ToSet(AllFiles(e)) /\ disk[IdxFile(e.key)] = e
    <3>1. e.key \in Keys /\ ToSet(AllFiles(e)) = Of({e.key}, ToSet(e.blocks))
      BY <1>5, <1>6, <2>1
    <3>2. IdxFile(e.key) \in Of({e.key}, ToSet(e.blocks))
      BY <3>1, InOf
    <3> QED BY <1>4, <2>1, <3>1, <3>2
  <2>4. ToSet(AllFiles(e)) \subseteq DOMAIN disk' /\ disk'[IdxFile(e.key)] = e /\ ToSet(AllFiles(e)) \cap ToSet(dead') = {}
    BY <1>7, <1>8, <2>1, <2>2, <2>3
  <2> QED BY <2>4 DEF Intact, OnDisk
<1>10. Stored'
  BY <1>2, <1>8, <1>9 DEF Stored
<1>11. Recorded'
  <2>1. ASSUME NEW f \in DOMAIN disk', f[1] = "idx" PROVE disk'[f] \in Whole
    <3>1. f \in DOMAIN disk /\ f \notin Broken /\ disk'[f] = disk[f]
      BY <1>7
    <3>2. PICK e \in Recs : e = disk[f]
      BY <2>1, <3>1 DEF Recs
    <3>3. f = IdxFile(e.key)
      BY <2>1, <3>1, <3>2 DEF Shape, Directory, IdxFile
    <3>4. ASSUME e \notin Whole PROVE FALSE
      <4>1. f \in Of({e.key}, {})
        BY <1>5, <3>3, InOf
      <4>2. f \in Broken
        BY <1>6, <3>4, <4>1 DEF Broken
      <4> QED BY <3>1, <4>2
    <3> QED BY <3>1, <3>2, <3>4
  <2> QED BY <1>2, <2>1 DEF Recorded
<1>12. Unrecorded'
  <2>1. Len(stack') = 0
    BY <1>1
  <2> QED BY <2>1 DEF Unrecorded
<1>13. Wanted'
  <2>1. ToSet(<<>>) = {}
    BY DEF ToSet
  <2> QED BY <1>1, <2>1 DEF Wanted, Commands
<1> QED BY <1>3, <1>10, <1>11, <1>12, <1>13 DEF EntryInv

LEMMA InitEntry ==
  ASSUME Init
  PROVE  SlotInv /\ EntryInv
<1>1. ToSet(<<>>) = {} /\ Len(<<>>) = 0 /\ DOMAIN <<>> = {}
  BY DEF ToSet
<1>2. Entries = {} /\ Listed /\ Counts
  BY EmptyEntries DEF Init
<1>3. SlotInv /\ Unrecorded
  BY <1>1 DEF Init, SlotInv, Unrecorded
<1>4. Stored /\ Recorded
  BY <1>1, <1>2 DEF Init, Stored, Recorded
<1>5. Wanted
  BY <1>1 DEF Init, Wanted, Commands
<1> QED BY <1>2, <1>3, <1>4, <1>5 DEF EntryInv

LEMMA NextEntry ==
  ASSUME Shape, Proto, SlotInv, EntryInv, [Next]_vars
  PROVE  EntryInv'
<1>1. CASE Next
  <2>1. CASE \E ids \in Prompts : Open(ids)
    BY <2>1, OpenEntry
  <2>2. CASE Restored \/ RestoreFails
    BY <2>2, RestoredEntry
  <2>3. CASE Plan
    BY <2>3, PlanEntry
  <2>4. CASE Continue
    BY <2>4, ContinueEntry
  <2>5. CASE GridDone
    BY <2>5, GridDoneEntry
  <2>6. CASE Fail \/ ChunkFails \/ ReplyFails
    BY <2>6, AbortEntry
  <2>7. CASE Snapshot
    BY <2>7, SnapshotEntry
  <2>8. CASE SaveTail
    BY <2>8, SaveTailEntry
  <2>9. CASE Register
    BY <2>9, RegisterEntry
  <2>10. CASE Finish
    BY <2>10, FinishEntry
  <2>11. CASE Unlink
    BY <2>11, UnlinkEntry
  <2>12. CASE Clear
    BY <2>12, ClearEntry
  <2>13. CASE ExecBarrier \/ \E r \in Ranks : ExecChunk(r) \/ ExecSnapshot(r) \/ ExecRestore(r)
    BY <2>13, ExecEntry
  <2>14. CASE \E r \in Ranks : Write(r) \/ WriteFails(r)
    BY <2>14, WriteEntry
  <2>15. CASE Restart
    BY <2>15, RestartEntry
  <2> QED BY <1>1, <2>1, <2>2, <2>3, <2>4, <2>5, <2>6, <2>7, <2>8, <2>9, <2>10, <2>11, <2>12, <2>13, <2>14, <2>15 DEF Next
<1>2. CASE UNCHANGED vars
  <2>1. Keeps /\ UNCHANGED <<lru, dead, stack, cmds>>
    BY <1>2 DEF vars, idx, ranks, Keeps
  <2> QED BY <2>1, SubmitOther, RankEntry
<1> QED BY <1>1, <1>2

LEMMA CacheInvHolds == Spec => []CacheInv
<1>1. Init => CacheInv
  BY InitShape, StartProto, InitEntry DEF Init, CacheInv
<1>2. CacheInv /\ [Next]_vars => CacheInv'
  BY NextShape, NextProto, NextSlot, NextEntry DEF CacheInv
<1> QED BY <1>1, <1>2, PTL DEF Spec

(* No eviction, clear or clean-up takes a file away from a restore that a  *)
(* rank, however late, has still to execute (front.py 819).                *)
THEOREM CacheRestoreSafe == Spec => []RestoreSafe
<1>1. CacheInv => RestoreSafe
  <2>1. ASSUME CacheInv, NEW r \in Ranks, NEW c \in Commands(r), c.op = "restore" PROVE OnDisk(c.files)
    <3>1. PICK e \in Entries : c.files = AllFiles(e)
      BY <2>1 DEF CacheInv, EntryInv, Wanted
    <3> QED BY <2>1, <3>1 DEF CacheInv, EntryInv, Stored, Intact
  <2> QED BY <2>1 DEF RestoreSafe
<1> QED BY <1>1, CacheInvHolds, PTL

-----------------------------------------------------------------------------
(* What is seen has an owner (LeakInv).                                    *)

LEMMA MoveLeak ==
  ASSUME LeakInv, UNCHANGED lost,
         \A b \in Blocks : BlockSeen(b)' => BlockSeen(b) \/ OwnedBlock(b)',
         \A b \in Blocks : OwnedBlock(b) => OwnedBlock(b)',
         \A key \in Keys : KeySeen(key)' => KeySeen(key) \/ OwnedKey(key)',
         \A key \in Keys : OwnedKey(key) => OwnedKey(key)'
  PROVE  LeakInv'
BY DEF LeakInv

(* The running prefill keeps its ids.                                      *)
LEMMA StepOwned ==
  ASSUME Steps
  PROVE  /\ \A b : HasBlock(run', b) => OwnedBlock(b)'
         /\ \A key : Pends(run', key) => OwnedKey(key)'
         /\ (\A b \in Blocks : HasBlock(run, b) => HasBlock(run', b)) /\ UNCHANGED refs
               => \A b \in Blocks : OwnedBlock(b) => OwnedBlock(b)'
         /\ \A key : (Pends(run, key) => Pends(run', key)) /\ OwnedKey(key) /\ Entries \subseteq Entries' => OwnedKey(key)'
<1>1. PICK n \in Nat \ {0} : n = Len(stack) /\ n = Len(stack')
  BY DEF Steps
<1>2. n \in 1..n /\ stack'[n] = run' /\ stack[n] = run /\ \A i \in 1..n : i = n \/ stack'[i] = stack[i]
  BY <1>1 DEF Steps
<1>3. (\A b : HasBlock(run', b) => OwnedBlock(b)') /\ (\A key : Pends(run', key) => OwnedKey(key)')
  BY <1>1, <1>2 DEF OwnedBlock, OwnedKey
<1>4. ASSUME \A b \in Blocks : HasBlock(run, b) => HasBlock(run', b), UNCHANGED refs, NEW b \in Blocks, OwnedBlock(b)
      PROVE  OwnedBlock(b)'
  <2>1. CASE refs[b] > 0
    BY <1>4, <2>1 DEF OwnedBlock
  <2>2. ASSUME NEW i \in 1..n, HasBlock(stack[i], b) PROVE HasBlock(stack'[i], b)
    BY <1>2, <1>4, <2>2
  <2> QED BY <1>1, <1>4, <2>1, <2>2 DEF OwnedBlock
<1>5. ASSUME NEW key, Pends(run, key) => Pends(run', key), OwnedKey(key), Entries \subseteq Entries'
      PROVE  OwnedKey(key)'
  <2>1. ASSUME NEW i \in 1..n, Pends(stack[i], key) PROVE Pends(stack'[i], key)
    BY <1>2, <1>5, <2>1
  <2> QED BY <1>1, <1>5, <2>1 DEF OwnedKey
<1> QED BY <1>3, <1>4, <1>5

LEMMA SameSeen ==
  ASSUME UNCHANGED <<disk, dead, wq, cmds>>
  PROVE  \A x : (BlockSeen(x)' <=> BlockSeen(x)) /\ (KeySeen(x)' <=> KeySeen(x))
BY DEF BlockSeen, KeySeen, Files0, Queued, Commands

LEMMA SubmitSeen ==
  ASSUME cmds \in [Ranks -> Seq(Command)], NEW c \in Command, Submit(c), UNCHANGED <<disk, dead, wq>>
  PROVE  \A x : /\ BlockSeen(x)' => BlockSeen(x) \/ (c.op = "chunk" /\ c.block = x)
                /\ KeySeen(x)' => KeySeen(x) \/ (c.op \in {"chunk", "snapshot"} /\ c.key = x)
<1>1. \A r \in Ranks : Commands(r)' = Commands(r) \cup {c}
  BY SubmitIs DEF Commands
<1>2. Files0' = Files0 /\ \A r \in Ranks : Queued(r)' = Queued(r)
  BY DEF Files0, Queued
<1> QED BY <1>1, <1>2 DEF BlockSeen, KeySeen

LEMMA OpenLeak ==
  ASSUME Shape, LeakInv, NEW ids \in Prompts, Open(ids)
  PROVE  LeakInv'
<1>1. Pushes /\ UNCHANGED <<index, refs, disk, dead, wq, history>>
      /\ (UNCHANGED cmds \/ \E c \in Command : c.op = "restore" /\ Submit(c))
  BY OpenIs
<1>2. \A x : (BlockSeen(x)' => BlockSeen(x)) /\ (KeySeen(x)' => KeySeen(x))
  <2>1. CASE UNCHANGED cmds
    BY <1>1, <2>1, SameSeen
  <2>2. ASSUME NEW c \in Command, c.op = "restore", Submit(c)
        PROVE  \A x : (BlockSeen(x)' => BlockSeen(x)) /\ (KeySeen(x)' => KeySeen(x))
    BY <1>1, <2>2, SubmitSeen DEF Shape
  <2> QED BY <1>1, <2>1, <2>2
<1>3. \A i \in 1..Len(stack) : i \in 1..Len(stack') /\ stack'[i] = stack[i]
  BY <1>1 DEF Pushes
<1>4. \A x : (OwnedBlock(x) => OwnedBlock(x)') /\ (OwnedKey(x) => OwnedKey(x)')
  BY <1>1, <1>3 DEF OwnedBlock, OwnedKey, Entries
<1>5. UNCHANGED lost
  BY <1>1 DEF history
<1> QED BY <1>2, <1>4, <1>5, MoveLeak

(* A prefill that sends a chunk has its ids.                               *)
LEMMA ChunkOwned ==
  ASSUME NEW p \in Prefill, NEW k \in (p.k + 1)..Len(p.chunks)
  PROVE  HasBlock(p, ChunkCmd(p, k).block) /\ Pends(p, ChunkCmd(p, k).key)
<1>1. k \in 1..Len(p.chunks)
  BY FieldsOf
<1> QED BY <1>1, ChunkCmdIs DEF HasBlock, Pends

LEMMA StepLeak ==
  ASSUME Shape, LeakInv, Steps, UNCHANGED <<index, refs, disk, dead, wq, lost>>,
         \A b \in Blocks : HasBlock(run, b) => HasBlock(run', b),
         \A key \in Keys : Pends(run, key) => Pends(run', key),
         \/ UNCHANGED cmds
         \/ \E c \in Command : /\ Submit(c)
                               /\ c.op = "chunk" => HasBlock(run', c.block)
                               /\ c.op \in {"chunk", "snapshot"} => Pends(run', c.key)
  PROVE  LeakInv'
<1>1. Entries' = Entries
  BY DEF Entries
<1>2. \A b \in Blocks : OwnedBlock(b) => OwnedBlock(b)'
  BY StepOwned
<1>3. \A key \in Keys : OwnedKey(key) => OwnedKey(key)'
  BY <1>1, StepOwned
<1>4. \A x : (BlockSeen(x)' => BlockSeen(x) \/ OwnedBlock(x)') /\ (KeySeen(x)' => KeySeen(x) \/ OwnedKey(x)')
  <2>1. CASE UNCHANGED cmds
    BY <2>1, SameSeen
  <2>2. ASSUME NEW c \in Command, Submit(c), c.op = "chunk" => HasBlock(run', c.block),
               c.op \in {"chunk", "snapshot"} => Pends(run', c.key)
        PROVE  \A x : (BlockSeen(x)' => BlockSeen(x) \/ OwnedBlock(x)') /\ (KeySeen(x)' => KeySeen(x) \/ OwnedKey(x)')
    BY <2>2, SubmitSeen, StepOwned DEF Shape
  <2> QED BY <2>1, <2>2
<1> QED BY <1>2, <1>3, <1>4, MoveLeak

LEMMA PlainLeak ==
  ASSUME Shape, LeakInv, Restored \/ RestoreFails \/ Plan \/ Continue \/ Snapshot
  PROVE  LeakInv'
<1>1. Len(<<>>) = 0
  OBVIOUS
<1>2. CASE Restored \/ RestoreFails
  <2>1. /\ Steps /\ run.pc = "restore" /\ run.chunks = <<>> /\ run.ents = <<>>
        /\ UNCHANGED <<index, refs, disk, dead, wq, cmds, lost>>
    BY <1>2, RestoredIs DEF idx, ranks
  <2>2. \A x : ~HasBlock(run, x) /\ ~Pends(run, x)
    <3>1. PICK p \in Prefill : p = run
      BY <2>1 DEF Steps
    <3>2. p.k \in Nat
      BY FieldsOf
    <3> QED BY <1>1, <2>1, <3>1, <3>2 DEF HasBlock, Pends
  <2> QED BY <2>1, <2>2, StepLeak
<1>3. CASE Plan
  <2>1. /\ Steps /\ run.pc = "plan" /\ run.chunks = <<>> /\ run.ents = <<>> /\ run'.k = 0
        /\ (UNCHANGED cmds \/ \E c \in Command : 1 \in 1..Len(run'.chunks) /\ c = ChunkCmd(run', 1) /\ Submit(c))
        /\ UNCHANGED <<index, refs, disk, dead, wq, lost>>
    BY <1>3, PlanActs DEF idx, history
  <2>2. \A x : ~HasBlock(run, x) /\ ~Pends(run, x)
    <3>1. PICK p \in Prefill : p = run
      BY <2>1 DEF Steps
    <3>2. p.k \in Nat
      BY FieldsOf
    <3> QED BY <1>1, <2>1, <3>1, <3>2 DEF HasBlock, Pends
  <2>3. PICK q \in Prefill : q = run'
    BY <2>1 DEF Steps
  <2>4. 1 \in 1..Len(q.chunks) => HasBlock(q, ChunkCmd(q, 1).block) /\ Pends(q, ChunkCmd(q, 1).key)
    <3>1. ASSUME 1 \in 1..Len(q.chunks) PROVE 1 \in (q.k + 1)..Len(q.chunks)
      BY <2>1, <2>3, <3>1
    <3> QED BY <3>1, ChunkOwned
  <2>5. UNCHANGED cmds \/ \E c \in Command : Submit(c) /\ HasBlock(run', c.block) /\ Pends(run', c.key)
    BY <2>1, <2>3, <2>4
  <2> QED BY <2>1, <2>2, <2>5, StepLeak
<1>4. CASE Continue
  <2>1. /\ Steps /\ run.pc = "wait" /\ run'.pc = "rows"
        /\ run'.chunks = run.chunks /\ run'.k = run.k /\ run'.ents = run.ents /\ run'.key = run.key
        /\ UNCHANGED <<index, refs, disk, dead, wq, lost>>
    BY <1>4, ContinueIs DEF idx, history
  <2>2. UNCHANGED cmds \/ \E c \in Command : run.k + 2 \in 1..Len(run.chunks) /\ c = ChunkCmd(run, run.k + 2) /\ Submit(c)
    BY <1>4, ContinueIs
  <2>3. PICK p \in Prefill : p = run
    BY <2>1 DEF Steps
  <2>4. \A x : (HasBlock(p, x) => HasBlock(run', x)) /\ (Pends(p, x) => Pends(run', x))
    BY <2>1, <2>3 DEF HasBlock, Pends
  <2>5. p.k + 2 \in 1..Len(p.chunks) => HasBlock(p, ChunkCmd(p, p.k + 2).block) /\ Pends(p, ChunkCmd(p, p.k + 2).key)
    <3>1. p.k + 2 \in 1..Len(p.chunks) => p.k + 2 \in (p.k + 1)..Len(p.chunks)
      BY FieldsOf
    <3> QED BY <3>1, ChunkOwned
  <2>6. UNCHANGED cmds \/ \E c \in Command : Submit(c) /\ HasBlock(run', c.block) /\ Pends(run', c.key)
    BY <2>2, <2>3, <2>4, <2>5
  <2> QED BY <2>1, <2>3, <2>4, <2>6, StepLeak
<1>5. CASE Snapshot
  <2>1. /\ Steps /\ run.pc = "end" /\ run'.chunks = run.chunks /\ run'.k = run.k /\ run'.ents = run.ents
        /\ UNCHANGED <<index, refs, disk, dead, wq, lost>>
    BY <1>5, SnapshotIs DEF idx, history
  <2>2. \E c \in Command : Submit(c) /\ (\/ run'.pc = "snap" /\ c.op = "snapshot" /\ c.key = run'.key
                                         \/ c.op = "barrier")
    BY <1>5, SnapshotIs
  <2>3. \A x : (HasBlock(run, x) => HasBlock(run', x)) /\ (Pends(run, x) => Pends(run', x))
    BY <2>1 DEF HasBlock, Pends
  <2>4. \E c \in Command : /\ Submit(c) /\ c.op # "chunk"
                           /\ c.op \in {"chunk", "snapshot"} => Pends(run', c.key)
    BY <2>2 DEF Pends
  <2> QED BY <2>1, <2>3, <2>4, StepLeak
<1> QED BY <1>2, <1>3, <1>4, <1>5

(* What a prefill writes itself is its own.                                *)
LEMMA NewFilesLeak ==
  ASSUME LeakInv, Steps, UNCHANGED <<dead, wq, lost, refs>>, Entries \subseteq Entries',
         \A b \in Blocks : HasBlock(run, b) => HasBlock(run', b),
         \A key \in Keys : OwnedKey(key) => OwnedKey(key)',
         \A r \in Ranks : \A c \in Commands(r)' : c.op \in {"chunk", "snapshot"} => c \in Commands(r),
         \A f \in DOMAIN disk' : f \notin DOMAIN disk =>
            IF IsBlock(f) THEN HasBlock(run', f[2]) ELSE OwnedKey(f[2])'
  PROVE  LeakInv'
<1>1. \A b \in Blocks : OwnedBlock(b) => OwnedBlock(b)'
  BY StepOwned
<1>2. \A r \in Ranks : Queued(r)' = Queued(r)
  BY DEF Queued
<1>3. ASSUME NEW b \in Blocks, BlockSeen(b)' PROVE BlockSeen(b) \/ OwnedBlock(b)'
  <2>1. ASSUME NEW f \in Files0', IsBlock(f), f[2] = b PROVE BlockSeen(b) \/ OwnedBlock(b)'
    <3>1. CASE f \in DOMAIN disk
      BY <2>1, <3>1 DEF Files0, BlockSeen
    <3>2. CASE f \notin DOMAIN disk
      BY <2>1, <3>2, StepOwned DEF Files0
    <3> QED BY <3>1, <3>2
  <2> QED BY <1>2, <1>3, <2>1 DEF BlockSeen
<1>4. ASSUME NEW key \in Keys, KeySeen(key)' PROVE KeySeen(key) \/ OwnedKey(key)'
  <2>1. ASSUME NEW f \in Files0', ~IsBlock(f), f[2] = key PROVE KeySeen(key) \/ OwnedKey(key)'
    BY <2>1 DEF Files0, KeySeen
  <2> QED BY <1>2, <1>4, <2>1 DEF KeySeen
<1> QED BY <1>1, <1>3, <1>4, MoveLeak

LEMMA GridDoneLeak ==
  ASSUME Shape, LeakInv, GridDone
  PROVE  LeakInv'
<1>1. Steps /\ run.pc = "rows" /\ run' = Saved(run) /\ disk' = RowsSaved(run)
      /\ UNCHANGED <<idx, dead, ranks, history>>
  BY GridDoneIs DEF Shape
<1>2. PICK p \in Prefill : p = run
  BY <1>1 DEF Steps
<1>3. PICK q \in Prefill : q = Saved(p)
  BY <1>1, <1>2, SavedIs
<1>4. PICK c \in Chunk : c = p.chunks[p.k + 1]
  BY <1>1, <1>2, SavedIs
<1>5. q.chunks = p.chunks /\ p.k + 1 \in 1..Len(p.chunks) /\ run' = q
  BY <1>1, <1>2, <1>3, SavedIs
<1>6. UNCHANGED <<dead, wq, lost, refs, cmds, index>> /\ Entries' = Entries
  BY <1>1 DEF idx, ranks, history, Entries
<1>7. \A b : HasBlock(p, b) => HasBlock(q, b)
  BY <1>5 DEF HasBlock
<1>8. \A key \in Keys : Pends(q, key) <=> Pends(p, key)
  BY <1>1, <1>2, <1>3, SavedPends, FreeTypes
<1>9. \A key \in Keys : OwnedKey(key) => OwnedKey(key)'
  BY <1>1, <1>2, <1>5, <1>6, <1>8, StepOwned
<1>10. HasBlock(q, c.block)
  BY <1>4, <1>5 DEF HasBlock
<1>11. c.key # 0 => Pends(p, c.key) /\ c.key \in Keys
  <2>1. p.k + 1 \in (p.k + 1)..Len(p.chunks)
    BY <1>5, FieldsOf
  <2> QED BY <1>4, <2>1 DEF Pends, Chunk
<1>12. c.key # 0 => OwnedKey(c.key)'
  BY <1>1, <1>5, <1>8, <1>11, StepOwned
<1>13. PICK rf : rf = <<"rows", c.block, 0>>
  OBVIOUS
<1>14. PICK tf : tf = <<"tail", c.key, 0>>
  OBVIOUS
<1>15. IsBlock(rf) /\ rf[2] = c.block /\ ~IsBlock(tf) /\ tf[2] = c.key
  BY <1>13, <1>14 DEF IsBlock
<1>16. DOMAIN disk' = DOMAIN disk \cup (IF c.block = 0 THEN {} ELSE {rf}) \cup (IF c.key = 0 THEN {} ELSE {tf})
  <2>1. PICK d : d = RowsSaved(p)
    OBVIOUS
  <2>2. DoneChunk(p) = c /\ RowsFile(p) = rf /\ TailFile(p) = tf
    BY <1>4, <1>13, <1>14 DEF DoneChunk, RowsFile, TailFile
  <2>3. p.pc = "rows" /\ disk' = d
    BY <1>1, <1>2, <2>1
  <2>4. DOMAIN d = DOMAIN disk \cup (IF c.block = 0 THEN {} ELSE {rf}) \cup (IF c.key = 0 THEN {} ELSE {tf})
    BY <2>1, <2>2, <2>3, RowsSavedParts
  <2> QED BY <2>3, <2>4
<1>17. ASSUME NEW f \in DOMAIN disk', f \notin DOMAIN disk
       PROVE  IF IsBlock(f) THEN HasBlock(q, f[2]) ELSE OwnedKey(f[2])'
  BY <1>10, <1>12, <1>15, <1>16, <1>17
<1>18. \A r \in Ranks : Commands(r)' = Commands(r)
  BY <1>6 DEF Commands
<1> QED BY <1>1, <1>2, <1>5, <1>6, <1>7, <1>9, <1>17, <1>18, NewFilesLeak

LEMMA SaveTailLeak ==
  ASSUME Shape, LeakInv, SaveTail
  PROVE  LeakInv'
<1>1. /\ Steps /\ run.pc = "snap" /\ run'.pc = "barrier" /\ run'.chunks = run.chunks /\ run'.k = run.k
      /\ run.key \in Keys /\ run'.key = run.key
      /\ disk' = With(disk, <<"tail", run.key, 0>>, run.ids)
      /\ UNCHANGED <<idx, dead, wq, history>>
  BY SaveTailIs
<1>2. PICK p \in Prefill : p = run
  BY <1>1 DEF Steps
<1>3. PICK e \in Entry : e.key = p.key /\ run'.ents = Append(p.ents, e)
  BY <1>2, SaveTailIs
<1>4. \A key : Pends(p, key) => Pends(run', key)
  <2>1. PICK n \in Nat : n = Len(p.ents) /\ p.ents \in Seq(Entry)
    BY FieldsOf
  <2>2. Len(run'.ents) = n + 1 /\ run'.ents[n + 1] = e /\ \A m \in 1..n : run'.ents[m] = p.ents[m]
    BY <1>3, <2>1, AppendLast
  <2>3. n + 1 \in 1..(n + 1) /\ \A m \in 1..n : m \in 1..(n + 1)
    OBVIOUS
  <2> QED BY <1>1, <1>2, <1>3, <2>1, <2>2, <2>3 DEF Pends
<1>5. Pends(run', p.key)
  BY <1>1, <1>2, <1>4 DEF Pends
<1>6. UNCHANGED <<dead, wq, lost, refs, index>> /\ Entries' = Entries
  BY <1>1 DEF idx, history, Entries
<1>7. \A b : HasBlock(p, b) => HasBlock(run', b)
  BY <1>1, <1>2 DEF HasBlock
<1>8. \A key \in Keys : OwnedKey(key) => OwnedKey(key)'
  BY <1>1, <1>2, <1>4, <1>6, StepOwned
<1>9. PICK tf : tf = <<"tail", p.key, 0>>
  OBVIOUS
<1>10. ~IsBlock(tf) /\ tf[2] = p.key
  BY <1>9 DEF IsBlock
<1>11. DOMAIN disk' = DOMAIN disk \cup {tf}
  BY <1>1, <1>2, <1>9 DEF With
<1>12. OwnedKey(p.key)'
  BY <1>1, <1>5, StepOwned
<1>13. PICK c \in Command : c.op = "barrier" /\ Submit(c)
  BY SaveTailIs
<1>14. \A r \in Ranks : Commands(r)' = Commands(r) \cup {c}
  BY <1>13, SubmitIs DEF Commands, Shape
<1>15. \A f \in DOMAIN disk' : f \notin DOMAIN disk => ~IsBlock(f) /\ OwnedKey(f[2])'
  BY <1>10, <1>11, <1>12
<1>16. \A r \in Ranks : \A d \in Commands(r)' : d.op \in {"chunk", "snapshot"} => d \in Commands(r)
  BY <1>13, <1>14
<1> QED BY <1>1, <1>2, <1>6, <1>7, <1>8, <1>15, <1>16, NewFilesLeak

(* The ranks: what is written was a command, what is on disk was queued.   *)
LEMMA RankLeak ==
  ASSUME LeakInv, UNCHANGED <<idx, dead, stack, lost>>,
         \A f \in DOMAIN disk' : f \in DOMAIN disk \/ \E r \in Ranks : \E w \in Queued(r) : w.file = f,
         \A r \in Ranks : \A w \in Queued(r)' : \/ w \in Queued(r)
                                                \/ \E c \in Commands(r) : /\ c.op \in {"chunk", "snapshot"}
                                                                          /\ IF IsBlock(w.file) THEN c.op = "chunk" /\ w.file[2] = c.block
                                                                                                ELSE w.file[2] = c.key,
         \A r \in Ranks : \A c \in Commands(r)' : c.op # "flush" => c \in Commands(r)
  PROVE  LeakInv'
<1>1. \A x : (OwnedBlock(x) => OwnedBlock(x)') /\ (OwnedKey(x) => OwnedKey(x)')
  BY DEF OwnedBlock, OwnedKey, Entries, idx
<1>2. ASSUME NEW f \in Files0', f \notin Files0 PROVE \E r \in Ranks : \E w \in Queued(r) : w.file = f
  BY <1>2 DEF Files0
<1>3. ASSUME NEW b \in Blocks, BlockSeen(b)' PROVE BlockSeen(b)
  <2>1. CASE \E f \in Files0' : IsBlock(f) /\ f[2] = b
    BY <1>2, <2>1 DEF BlockSeen
  <2>2. CASE \E r \in Ranks : \E w \in Queued(r)' : IsBlock(w.file) /\ w.file[2] = b
    BY <2>2 DEF BlockSeen
  <2>3. CASE \E r \in Ranks : \E c \in Commands(r)' : c.op = "chunk" /\ c.block = b
    BY <2>3 DEF BlockSeen
  <2> QED BY <1>3, <2>1, <2>2, <2>3 DEF BlockSeen
<1>4. ASSUME NEW key \in Keys, KeySeen(key)' PROVE KeySeen(key)
  <2>1. CASE \E f \in Files0' : ~IsBlock(f) /\ f[2] = key
    BY <1>2, <2>1 DEF KeySeen
  <2>2. CASE \E r \in Ranks : \E w \in Queued(r)' : ~IsBlock(w.file) /\ w.file[2] = key
    BY <2>2 DEF KeySeen
  <2>3. CASE \E r \in Ranks : \E c \in Commands(r)' : c.op \in {"chunk", "snapshot"} /\ c.key = key
    BY <2>3 DEF KeySeen
  <2> QED BY <1>4, <2>1, <2>2, <2>3 DEF KeySeen
<1> QED BY <1>1, <1>3, <1>4, MoveLeak

(* The writes a command leads to.                                          *)
LEMMA PutFiles ==
  ASSUME NEW c \in Command, c.op \in {"chunk", "snapshot"}, NEW r \in Ranks
  PROVE  /\ \A w \in ToSet(BlockPut(c, r)) : IsBlock(w.file) /\ w.file[2] = c.block /\ c.block # 0
         /\ \A w \in ToSet(EntryPut(c, r)) : ~IsBlock(w.file) /\ w.file[2] = c.key /\ c.key # 0
         /\ ~IsBlock(File("ent", c.key, r, c.ids).file) /\ File("ent", c.key, r, c.ids).file[2] = c.key
<1>1. PICK t : t = Prefix(c.ids, Grid * (Len(c.ids) \div Grid))
  OBVIOUS
<1>2. PICK u : u = File("blk", c.block, r, t)
  OBVIOUS
<1>3. PICK v : v = File("ent", c.key, r, c.ids)
  OBVIOUS
<1>4. IsBlock(u.file) /\ u.file[2] = c.block /\ ~IsBlock(v.file) /\ v.file[2] = c.key
  BY <1>2, <1>3 DEF File, IsBlock
<1>5. \A w \in ToSet(BlockPut(c, r)) : w = u /\ c.block # 0
  BY <1>1, <1>2, PutsTyped
<1>6. \A w \in ToSet(EntryPut(c, r)) : w = v /\ c.key # 0
  BY <1>3, PutsTyped
<1> QED BY <1>3, <1>4, <1>5, <1>6

LEMMA ExecLeak ==
  ASSUME Shape, LeakInv, ExecBarrier \/ \E r \in Ranks : ExecChunk(r) \/ ExecSnapshot(r) \/ ExecRestore(r)
  PROVE  LeakInv'
<1>1. /\ \A r \in Ranks : \A c \in Commands(r)' : c.op # "flush" => c \in Commands(r)
      /\ UNCHANGED <<idx, disk, dead, stack, history>>
  BY ExecCommands
<1> DEFINE Come(t, w) == \/ w \in Queued(t)
                         \/ \E c \in Commands(t) : /\ c.op \in {"chunk", "snapshot"}
                                                   /\ IF IsBlock(w.file) THEN c.op = "chunk" /\ w.file[2] = c.block
                                                                         ELSE w.file[2] = c.key
<1>2. \A t \in Ranks : \A w \in Queued(t)' : Come(t, w)
  <2>1. CASE UNCHANGED wq
    BY <2>1 DEF Queued
  <2>2. ASSUME NEW r \in Ranks, ExecChunk(r) \/ ExecSnapshot(r) PROVE \A t \in Ranks : \A w \in Queued(t)' : Come(t, w)
    <3>1. PICK s \in Seq(Command) : s = cmds[r]
      BY DEF Shape
    <3>2. PICK c \in Command : c = s[1] /\ s # <<>> /\ c.op \in {"chunk", "snapshot"} /\ (ExecChunk(r) => c.op = "chunk")
      <4>1. s # <<>> /\ s[1] \in Command /\ s[1].op \in {"chunk", "snapshot"} /\ (ExecChunk(r) => s[1].op = "chunk")
        <5>1. CASE ExecChunk(r)
          <6>1. s # <<>> /\ s[1] \in Command /\ s[1].op = "chunk"
            BY <3>1, <5>1, ExecChunkIs DEF Shape
          <6> QED BY <6>1
        <5>2. CASE ExecSnapshot(r)
          <6>1. s # <<>> /\ s[1] \in Command /\ s[1].op = "snapshot"
            BY <3>1, <5>2, ExecSnapshotIs DEF Shape
          <6>2. ExecChunk(r) => s[1].op = "chunk"
            BY <3>1, ExecChunkIs DEF Shape
          <6> QED BY <6>1, <6>2
        <5> QED BY <2>2, <5>1, <5>2
      <4> QED BY <4>1
    <3>3. c \in Commands(r)
      BY <3>1, <3>2, TailSet DEF Commands
    <3>4. \A t \in Ranks : t # r => Queued(t)' = Queued(t)
      BY <2>2, ExecChunkIs, ExecSnapshotIs DEF Shape, Queued
    <3>5. CASE ExecChunk(r)
      <4>1. ToSet(wq'[r]) = ToSet(wq[r]) \cup ToSet(BlockPut(c, r)) \cup ToSet(EntryPut(c, r))
        BY <3>1, <3>2, <3>5, ExecChunkIs DEF Shape
      <4>2. \A w \in Queued(r)' : Come(r, w)
        BY <3>2, <3>3, <3>5, <4>1, PutFiles DEF Queued
      <4> QED BY <3>4, <4>2
    <3>6. CASE ExecSnapshot(r)
      <4>1. PICK v : v = File("ent", c.key, r, c.ids)
        OBVIOUS
      <4>2. ToSet(wq'[r]) = ToSet(wq[r]) \cup {v}
        BY <3>1, <3>2, <3>6, <4>1, ExecSnapshotIs DEF Shape
      <4>3. \A w \in Queued(r)' : Come(r, w)
        BY <3>2, <3>3, <4>1, <4>2, PutFiles DEF Queued
      <4> QED BY <3>4, <4>3
    <3> QED BY <2>2, <3>5, <3>6
  <2>3. ExecBarrier \/ (\E r \in Ranks : ExecRestore(r)) => UNCHANGED wq
    BY DEF ExecBarrier, ExecRestore
  <2> QED BY <2>1, <2>2, <2>3
<1>3. UNCHANGED <<idx, dead, stack, lost>> /\ DOMAIN disk' = DOMAIN disk
  BY <1>1 DEF history
<1> QED BY <1>1, <1>2, <1>3, RankLeak

LEMMA WriteLeak ==
  ASSUME Shape, LeakInv, NEW r \in Ranks, Write(r) \/ WriteFails(r)
  PROVE  LeakInv'
<1>1. PICK w : w = wq[r][1]
  OBVIOUS
<1>2. UNCHANGED <<idx, dead, stack, cmds, lost>> /\ ToSet(wq[r]) = ToSet(wq'[r]) \cup {w}
      /\ (\A s \in Ranks : s # r => wq'[s] = wq[s])
      /\ (UNCHANGED disk \/ disk' = With(disk, w.file, w.content))
  BY <1>1, WriteIs DEF Shape
<1>3. \A t \in Ranks : \A v \in Queued(t)' : v \in Queued(t)
  BY <1>2 DEF Queued
<1>4. w \in Queued(r)
  BY <1>2 DEF Queued
<1>5. \A f \in DOMAIN disk' : f \in DOMAIN disk \/ f = w.file
  BY <1>2 DEF With
<1>6. \A t \in Ranks : Commands(t)' = Commands(t)
  BY <1>2 DEF Commands
<1> QED BY <1>2, <1>3, <1>4, <1>5, <1>6, RankLeak

LEMMA UnlinkLeak ==
  ASSUME EntryInv, LeakInv, Unlink
  PROVE  LeakInv'
<1>1. dead # <<>> /\ disk' = Without(disk, {Head(dead)}) /\ dead' = Tail(dead) /\ UNCHANGED <<idx, stack, ranks, history>>
  BY DEF Unlink
<1>2. PICK s \in Seq(FileNames) : s = dead /\ s # <<>>
  BY <1>1 DEF EntryInv, Stored
<1>3. Head(s) = s[1] /\ ToSet(s) = ToSet(Tail(s)) \cup {s[1]}
  BY <1>2, TailSet, HeadTailProperties
<1>4. DOMAIN disk' = DOMAIN disk \ {s[1]}
  BY <1>1, <1>2, <1>3 DEF Without
<1>5. Files0' \subseteq Files0
  BY <1>1, <1>2, <1>3, <1>4 DEF Files0
<1>6. \A r \in Ranks : Queued(r)' = Queued(r) /\ Commands(r)' = Commands(r)
  BY <1>1 DEF ranks, Queued, Commands
<1>7. \A x : (BlockSeen(x)' => BlockSeen(x)) /\ (KeySeen(x)' => KeySeen(x))
  BY <1>5, <1>6 DEF BlockSeen, KeySeen
<1>8. \A x : (OwnedBlock(x) => OwnedBlock(x)') /\ (OwnedKey(x) => OwnedKey(x)')
  BY <1>1 DEF OwnedBlock, OwnedKey, Entries, idx
<1>9. UNCHANGED lost
  BY <1>1 DEF history
<1> QED BY <1>7, <1>8, <1>9, MoveLeak

(* With nothing to do or to write, what is seen is on disk.                *)
LEMMA IdleSeen ==
  ASSUME \A r \in Ranks : cmds[r] = <<>> /\ wq[r] = <<>>
  PROVE  \A x : /\ BlockSeen(x) <=> \E f \in Files0 : IsBlock(f) /\ f[2] = x
                /\ KeySeen(x) <=> \E f \in Files0 : ~IsBlock(f) /\ f[2] = x
<1>1. ToSet(<<>>) = {}
  BY DEF ToSet
<1>2. \A r \in Ranks : Commands(r) = {} /\ Queued(r) = {}
  BY <1>1 DEF Commands, Queued
<1> QED BY <1>2 DEF BlockSeen, KeySeen

LEMMA ClearLeak ==
  ASSUME Shape, EntryInv, Clear
  PROVE  LeakInv'
<1>1. ToSet(dead') = DOMAIN disk /\ UNCHANGED <<disk, ranks>> /\ \A r \in Ranks : cmds[r] = <<>> /\ wq[r] = <<>>
  BY ClearEntry DEF Clear
<1>2. Files0' = {}
  BY <1>1 DEF Files0
<1>3. \A r \in Ranks : Commands(r)' = {} /\ Queued(r)' = {}
  <2>1. ToSet(<<>>) = {}
    BY DEF ToSet
  <2> QED BY <1>1, <2>1 DEF ranks, Commands, Queued
<1>4. \A x : ~BlockSeen(x)' /\ ~KeySeen(x)'
  BY <1>2, <1>3 DEF BlockSeen, KeySeen
<1> QED BY <1>4 DEF LeakInv

LEMMA RestartLeak ==
  ASSUME Shape, Restart
  PROVE  LeakInv'
<1>1. /\ refs' = [b \in Blocks |-> Cardinality(Users(b))]
      /\ disk' = Without(disk, Broken \cup Strays)
      /\ dead' = <<>> /\ cmds' = [r \in Ranks |-> <<>>] /\ wq' = [r \in Ranks |-> <<>>] /\ lost' = {"entry"}
  BY RestartIs DEF Shape
<1>2. ToSet(<<>>) = {}
  BY DEF ToSet
<1>3. \A r \in Ranks : Commands(r)' = {} /\ Queued(r)' = {}
  BY <1>1, <1>2 DEF Commands, Queued
<1>4. DOMAIN disk' = DOMAIN disk \ (Broken \cup Strays)
  BY <1>1 DEF Without
<1>5. ASSUME NEW b \in Blocks, BlockSeen(b)' PROVE OwnedBlock(b)'
  <2>1. PICK f \in DOMAIN disk : f \notin Strays /\ IsBlock(f) /\ f[2] = b
    BY <1>3, <1>4, <1>5 DEF BlockSeen, Files0
  <2>2. Cardinality(Users(b)) # 0
    BY <2>1 DEF Strays, IsBlock
  <2>3. Cardinality(Users(b)) \in Nat
    BY RecsAre DEF Shape
  <2> QED BY <1>1, <2>2, <2>3 DEF OwnedBlock
<1> QED BY <1>1, <1>5 DEF LeakInv

LEMMA AbortLeak ==
  ASSUME Shape, Fail \/ ChunkFails \/ ReplyFails
  PROVE  LeakInv'
BY AbortIs DEF LeakInv

(* When rank 0 has executed the barrier nothing is under way.              *)
LEMMA BarrierIdle ==
  ASSUME Proto, stack # <<>>, run.pc = "barrier", cmds[0] = <<>>
  PROVE  \A r \in Ranks : cmds[r] = <<>> /\ wq[r] = <<>>
BY DEF AtBarrier, Proto, Barriers, BarrierLast, Ranks

(* The keys a prefill is still to register, when one has been.             *)
LEMMA RegisterPends ==
  ASSUME Shape, SlotInv, Register
  PROVE  \A key : Pends(run, key) => Pends(run', key) \/ key = Head(run.ents).key
<1>1. /\ Steps /\ run'.chunks = run.chunks /\ run'.k = run.k /\ run'.pc = "barrier" /\ run.pc = "barrier"
      /\ run.ents # <<>> /\ run'.ents = Tail(run.ents) /\ Head(run.ents) = run.ents[1]
  BY RegisterIs
<1>2. PICK p \in Prefill : p = run
  BY <1>1 DEF Steps
<1>3. PICK s \in Seq(Entry) : s = p.ents /\ s # <<>>
  BY <1>1, <1>2, FieldsOf
<1>4. PICK n \in Nat \ {0} : n = Len(s)
  BY <1>3, EmptySeq
<1>5. Len(Tail(s)) = n - 1 /\ \A m \in 1..(n - 1) : Tail(s)[m] = s[m + 1]
  <2>1. Len(Tail(s)) = n - 1
    BY <1>3, <1>4, TailSet
  <2>2. \A m \in 1..Len(Tail(s)) : Tail(s)[m] = s[m + 1]
    BY <1>3, HeadTailProperties
  <2> QED BY <2>1, <2>2
<1>6. \A m \in 1..n : m = 1 \/ (m - 1 \in 1..(n - 1) /\ (m - 1) + 1 = m)
  OBVIOUS
<1>7. ASSUME NEW key, NEW m \in 1..Len(p.ents), p.ents[m].key = key
      PROVE  key = s[1].key \/ \E l \in 1..Len(Tail(s)) : Tail(s)[l].key = key
  <2>1. m \in 1..n /\ s[m].key = key
    BY <1>3, <1>4, <1>7
  <2>2. CASE m = 1
    BY <2>1, <2>2
  <2>3. CASE m # 1
    <3>1. m - 1 \in 1..(n - 1) /\ (m - 1) + 1 = m
      BY <1>6, <2>1, <2>3
    <3>2. Tail(s)[m - 1] = s[m]
      BY <1>5, <3>1
    <3> QED BY <1>5, <2>1, <3>1, <3>2
  <2> QED BY <2>2, <2>3
<1> QED BY <1>1, <1>2, <1>3, <1>7 DEF Pends

LEMMA RegisterLeak ==
  ASSUME Shape, Proto, SlotInv, EntryInv, LeakInv, Register
  PROVE  LeakInv'
<1>1. PICK e : e = Head(run.ents)
  OBVIOUS
<1>2. /\ Steps /\ run.pc = "barrier" /\ cmds[0] = <<>> /\ dead = <<>> /\ UNCHANGED <<dead, ranks>>
      /\ run'.chunks = run.chunks /\ e \in Entry
      /\ \/ /\ index' = Append(index, e)
            /\ refs' = [b \in Blocks |-> refs[b] + (IF b \in ToSet(e.blocks) THEN 1 ELSE 0)]
            /\ disk' = With(disk, IdxFile(e.key), e)
         \/ disk' = Without(disk, ToSet(EntryFiles(e.key))) /\ UNCHANGED idx
  BY <1>1, RegisterIs DEF IdxFile
<1>3. UNCHANGED lost
  BY DEF Register
<1>4. \A r \in Ranks : cmds[r] = <<>> /\ wq[r] = <<>>
  BY <1>2, BarrierIdle DEF Steps
<1>5. \A r \in Ranks : cmds'[r] = <<>> /\ wq'[r] = <<>>
  BY <1>2, <1>4 DEF ranks
<1>6. \A x : /\ BlockSeen(x) <=> \E f \in Files0 : IsBlock(f) /\ f[2] = x
             /\ KeySeen(x) <=> \E f \in Files0 : ~IsBlock(f) /\ f[2] = x
  BY <1>4, IdleSeen
<1>7. \A x : /\ BlockSeen(x)' <=> \E f \in Files0' : IsBlock(f) /\ f[2] = x
             /\ KeySeen(x)' <=> \E f \in Files0' : ~IsBlock(f) /\ f[2] = x
  <2>1. ToSet(<<>>) = {}
    BY DEF ToSet
  <2>2. \A r \in Ranks : Commands(r)' = {} /\ Queued(r)' = {}
    BY <1>5, <2>1 DEF Commands, Queued
  <2> QED BY <2>2 DEF BlockSeen, KeySeen
<1>8. Files0 = DOMAIN disk /\ Files0' = DOMAIN disk'
  <2>1. ToSet(<<>>) = {}
    BY DEF ToSet
  <2> QED BY <1>2, <2>1 DEF Files0
<1>9. Entries \subseteq Entries' /\ (disk' = With(disk, IdxFile(e.key), e) => e \in Entries') /\ e.key \in Keys
      /\ (\A b \in Blocks : refs[b] > 0 => refs'[b] > 0)
  <2>1. CASE /\ index' = Append(index, e)
             /\ refs' = [b \in Blocks |-> refs[b] + (IF b \in ToSet(e.blocks) THEN 1 ELSE 0)]
    <3>1. PICK s \in Seq(Entry) : s = index
      BY DEF Shape
    <3>2. ToSet(Append(s, e)) = ToSet(s) \cup {e}
      BY <1>2, AppendSet
    <3>3. Entries' = Entries \cup {e}
      BY <2>1, <3>1, <3>2 DEF Entries
    <3>4. \A b \in Blocks : refs[b] \in Int
      BY DEF Shape
    <3>5. \A b \in Blocks : refs[b] > 0 => refs'[b] > 0
      BY <2>1, <3>4
    <3> QED BY <1>2, <3>3, <3>5 DEF Entry
  <2>2. CASE disk' = Without(disk, ToSet(EntryFiles(e.key))) /\ UNCHANGED idx
    <3>5. e \in Entry /\ e.key \in Keys
      BY <1>2 DEF Entry
    <3>6. ToSet(EntryFiles(e.key)) = Of({e.key}, {}) /\ IdxFile(e.key) \in Of({e.key}, {})
      BY <3>5, EntryFilesAre, InOf
    <3>1. IdxFile(e.key) \in ToSet(EntryFiles(e.key)) /\ e.key \in Keys
      BY <3>5, <3>6
    <3>2. IdxFile(e.key) \notin DOMAIN disk'
      BY <2>2, <3>1 DEF Without
    <3>3. IdxFile(e.key) \in DOMAIN With(disk, IdxFile(e.key), e)
      BY DEF With
    <3> QED BY <2>2, <3>1, <3>2, <3>3 DEF idx, Entries
  <2> QED BY <1>2, <2>1, <2>2
<1>10. \A key : Pends(run, key) => Pends(run', key) \/ key = e.key
  BY <1>1, RegisterPends
<1>11. ASSUME NEW b \in Blocks, OwnedBlock(b) PROVE OwnedBlock(b)'
  <2>1. CASE refs[b] > 0
    BY <1>9, <2>1 DEF OwnedBlock
  <2>2. ASSUME NEW i \in 1..Len(stack), HasBlock(stack[i], b) PROVE OwnedBlock(b)'
    <3>1. HasBlock(stack'[i], b) /\ i \in 1..Len(stack')
      BY <1>2, <2>2 DEF Steps, HasBlock
    <3> QED BY <3>1 DEF OwnedBlock
  <2> QED BY <1>11, <2>1, <2>2 DEF OwnedBlock
<1>12. ASSUME NEW key \in Keys, OwnedKey(key), key # e.key PROVE OwnedKey(key)'
  BY <1>2, <1>9, <1>10, <1>12, StepOwned
<1>13. CASE disk' = With(disk, IdxFile(e.key), e)
  <2>1. DOMAIN disk' = DOMAIN disk \cup {IdxFile(e.key)}
    BY <1>13 DEF With
  <2>2. ~IsBlock(IdxFile(e.key)) /\ IdxFile(e.key)[2] = e.key
    BY DEF IdxFile, IsBlock
  <2>3. OwnedKey(e.key)'
    BY <1>9, <1>13 DEF OwnedKey
  <2>4. \A b \in Blocks : BlockSeen(b)' => BlockSeen(b)
    BY <1>6, <1>7, <1>8, <2>1, <2>2
  <2>5. \A key \in Keys : KeySeen(key)' => KeySeen(key) \/ key = e.key
    BY <1>6, <1>7, <1>8, <2>1, <2>2
  <2> QED BY <1>3, <1>11, <1>12, <2>3, <2>4, <2>5, MoveLeak
<1>14. CASE disk' = Without(disk, ToSet(EntryFiles(e.key)))
  <2>1. DOMAIN disk' = DOMAIN disk \ Of({e.key}, {})
    BY <1>9, <1>14, EntryFilesAre DEF Without
  <2>2. DOMAIN disk \subseteq FileNames
    BY DEF Shape, Directory
  <2>3. \A f \in DOMAIN disk' : ~IsBlock(f) => f[2] # e.key
    BY <2>1, <2>2 DEF Of
  <2>4. \A b \in Blocks : BlockSeen(b)' => BlockSeen(b)
    BY <1>6, <1>7, <1>8, <2>1
  <2>5. ASSUME NEW key \in Keys, KeySeen(key)' PROVE KeySeen(key) /\ key # e.key
    <3>1. PICK f \in DOMAIN disk' : ~IsBlock(f) /\ f[2] = key
      BY <1>7, <1>8, <2>5
    <3>2. f \in DOMAIN disk
      BY <2>1
    <3> QED BY <1>6, <1>8, <2>3, <3>1, <3>2
  <2> QED BY <1>3, <1>11, <1>12, <2>4, <2>5 DEF LeakInv
<1> QED BY <1>2, <1>13, <1>14

(* A block that loses its last entry goes with the files of that entry.    *)
LEMMA LastEntry ==
  ASSUME Shape, EntryInv, NEW n \in 0..Len(lru), NEW b \in Blocks, refs[b] # 0, RefsAfter(n)[b] = 0
  PROVE  \E j \in 1..n : b \in ToSet(EntryOf(lru[j]).blocks) /\ RefsAfter(j)[b] = 0
<1>1. Listed /\ Stored /\ Counts
  BY DEF EntryInv
<1>2. n \in Nat /\ Len(lru) \in Nat /\ \A j \in 0..n : j \in 0..Len(lru)
  BY LenProperties DEF Shape
<1>3. PICK S : S = {j \in 0..n : Left(j, b) = {}}
  OBVIOUS
<1>4. n \in S
  <2>1. Left(n, b) = {}
    BY <1>1, RefsAfterIs
  <2> QED BY <1>2, <1>3, <2>1
<1>5. PICK m \in S : \A j \in S : m <= j
  <2>1. S \in SUBSET Nat /\ S # {}
    BY <1>2, <1>3, <1>4
  <2> QED BY <2>1, MinIn
<1>6. m \in 0..n /\ Left(m, b) = {}
  BY <1>3
<1>7. m # 0
  <2>1. Left(0, b) = EntriesWith(b)
    BY DEF Left, Oldest
  <2>2. EntriesWith(b) # {}
    BY <1>1, EntriesTyped DEF Shape, Counts
  <2> QED BY <1>6, <2>1, <2>2
<1>8. m \in 1..n /\ m - 1 \in 0..n /\ m - 1 \notin S
  BY <1>2, <1>5, <1>6, <1>7
<1>9. PICK e \in Left(m - 1, b) : TRUE
  BY <1>3, <1>8
<1>10. e \in Entries /\ b \in ToSet(e.blocks) /\ e.key \notin Oldest(m - 1) /\ e.key \in Oldest(m)
  BY <1>6, <1>9 DEF Left, EntriesWith
<1>11. e.key = lru[m]
  <2>1. PICK i \in 1..m : e.key = lru[i]
    BY <1>10 DEF Oldest
  <2>2. i \notin 1..(m - 1)
    BY <1>10, <2>1 DEF Oldest
  <2>3. i = m
    BY <1>8, <2>1, <2>2
  <2> QED BY <2>1, <2>3
<1>12. EntryOf(lru[m]) = e
  <2>1. m \in 1..Len(lru)
    BY <1>2, <1>8
  <2>2. EntryOf(lru[m]) \in Entries /\ EntryOf(lru[m]).key = lru[m]
    BY <1>1, <2>1, FilesDroppedIs
  <2> QED BY <1>1, <1>10, <1>11, <2>2, OneEntry DEF Shape
<1>13. RefsAfter(m)[b] = 0
  BY <1>1, <1>2, <1>6, RefsAfterIs
<1> QED BY <1>8, <1>10, <1>12, <1>13

LEMMA FinishLeak ==
  ASSUME Shape, Proto, SlotInv, EntryInv, LeakInv, Finish
  PROVE  LeakInv'
<1>1. /\ Pops /\ run.pc = "barrier" /\ run.ents = <<>> /\ dead = <<>>
      /\ index' = Where(index, {e \in Entries : e.key \notin {lru[j] : j \in 1..Drops}})
      /\ refs' = RefsAfter(Drops) /\ UNCHANGED <<disk, ranks, lost>>
  BY FinishIs DEF history
<1>2. PICK n \in Nat : n = Drops /\ n \in 0..Len(lru)
  <2>1. Len(lru) \in Nat
    BY LenProperties DEF Shape
  <2> QED BY <2>1, FinishIs
<1>3. \A r \in Ranks : cmds[r] = <<>> /\ wq[r] = <<>> /\ Commands(r)' = {} /\ Queued(r)' = {}
  <2>1. ToSet(<<>>) = {}
    BY DEF ToSet
  <2> QED BY <1>1, <2>1, FinishEntry DEF ranks, Commands, Queued
<1>4. \A x : /\ BlockSeen(x) <=> \E f \in DOMAIN disk : IsBlock(f) /\ f[2] = x
             /\ KeySeen(x) <=> \E f \in DOMAIN disk : ~IsBlock(f) /\ f[2] = x
  <2>1. ToSet(<<>>) = {}
    BY DEF ToSet
  <2>2. Files0 = DOMAIN disk
    BY <1>1, <2>1 DEF Files0
  <2> QED BY <1>3, <2>2, IdleSeen
<1>5. \A x : /\ BlockSeen(x)' => \E f \in DOMAIN disk : IsBlock(f) /\ f[2] = x /\ f \notin ToSet(dead')
             /\ KeySeen(x)' => \E f \in DOMAIN disk : ~IsBlock(f) /\ f[2] = x /\ f \notin ToSet(dead')
  <2>1. Files0' = DOMAIN disk \ ToSet(dead')
    BY <1>1 DEF Files0
  <2> QED BY <1>3, <2>1 DEF BlockSeen, KeySeen
<1>6. \A f \in DOMAIN disk : f \in FileNames
  BY DEF Shape, Directory
<1>7. \A f : f \in ToSet(dead') <=>
        \/ f \in Of({}, ToSet(run.new) \cap Unused)
        \/ \E j \in 1..n : f \in Of({lru[j]}, {b \in ToSet(EntryOf(lru[j]).blocks) : RefsAfter(j)[b] = 0})
  BY <1>2, FinishDead
<1>8. PICK p \in Prefill : p = run /\ p.k = Len(p.chunks) /\ Len(p.chunks) \in Nat /\ Slots(p)
  <2>1. PICK p \in Prefill : p = run
    BY <1>1 DEF Pops
  <2>2. p.k = Len(p.chunks) /\ Len(p.chunks) \in Nat
    BY <1>1, <2>1, FieldsOf DEF Placed
  <2>3. Slots(p)
    BY <1>1, <2>1 DEF Pops, SlotInv
  <2> QED BY <2>1, <2>2, <2>3
<1>9. \A i \in 1..Len(stack) : i = Len(stack) \/ (i \in 1..Len(stack') /\ stack'[i] = stack[i])
  BY <1>1 DEF Pops
<1>10. ASSUME NEW b \in Blocks, BlockSeen(b)', "block" \notin lost PROVE OwnedBlock(b)'
  <2>1. PICK f \in DOMAIN disk : IsBlock(f) /\ f[2] = b /\ f \notin ToSet(dead') /\ f \in FileNames
    BY <1>5, <1>6, <1>10
  <2>2. OwnedBlock(b)
    BY <1>4, <1>10, <2>1 DEF LeakInv
  <2>3. CASE refs[b] # 0
    <3>1. RefsAfter(n)[b] \in Nat
      BY <1>2, RefsAfterIs DEF EntryInv
    <3>2. ASSUME RefsAfter(n)[b] = 0 PROVE FALSE
      <4>1. PICK j \in 1..n : b \in ToSet(EntryOf(lru[j]).blocks) /\ RefsAfter(j)[b] = 0
        BY <1>2, <2>3, <3>2, LastEntry
      <4>2. f \in Of({lru[j]}, {a \in ToSet(EntryOf(lru[j]).blocks) : RefsAfter(j)[a] = 0})
        BY <2>1, <4>1 DEF Of
      <4> QED BY <1>7, <2>1, <4>2
    <3>3. refs'[b] > 0
      BY <1>1, <1>2, <3>1, <3>2
    <3> QED BY <3>3 DEF OwnedBlock
  <2>4. ASSUME refs[b] = 0 PROVE OwnedBlock(b)'
    <3>1. PICK i \in 1..Len(stack) : HasBlock(stack[i], b)
      BY <2>2, <2>4 DEF OwnedBlock
    <3>2. CASE i = Len(stack)
      <4>1. HasBlock(p, b)
        BY <1>1, <1>8, <3>1, <3>2 DEF Pops
      <4>2. b \in ToSet(p.new)
        BY <1>8, <4>1 DEF HasBlock, Slots, OwnBlocks
      <4>3. f \in Of({}, ToSet(run.new) \cap Unused)
        BY <1>8, <2>1, <2>4, <4>2 DEF Of, Unused
      <4> QED BY <1>7, <2>1, <4>3
    <3>3. CASE i # Len(stack)
      BY <1>9, <3>1, <3>3 DEF OwnedBlock
    <3> QED BY <3>2, <3>3
  <2> QED BY <2>3, <2>4
<1>11. ASSUME NEW key \in Keys, KeySeen(key)', "entry" \notin lost PROVE OwnedKey(key)'
  <2>1. PICK f \in DOMAIN disk : ~IsBlock(f) /\ f[2] = key /\ f \notin ToSet(dead') /\ f \in FileNames
    BY <1>5, <1>6, <1>11
  <2>2. OwnedKey(key)
    BY <1>4, <1>11, <2>1 DEF LeakInv
  <2>3. ASSUME NEW e \in Entries, e.key = key PROVE OwnedKey(key)'
    <3>1. ASSUME NEW j \in 1..n, lru[j] = key PROVE FALSE
      <4>1. f \in Of({lru[j]}, {a \in ToSet(EntryOf(lru[j]).blocks) : RefsAfter(j)[a] = 0})
        BY <2>1, <3>1 DEF Of
      <4> QED BY <1>7, <2>1, <4>1
    <3>2. PICK S : S = {d \in Entries : d.key \notin {lru[j] : j \in 1..n}}
      OBVIOUS
    <3>3. ToSet(Where(index, S)) = ToSet(index) \cap S
      BY WhereSet DEF Shape
    <3>4. index' = Where(index, S)
      BY <1>1, <1>2, <3>2
    <3>5. e \in Entries'
      BY <2>3, <3>1, <3>2, <3>3, <3>4 DEF Entries
    <3> QED BY <2>3, <3>5 DEF OwnedKey
  <2>4. ASSUME NEW i \in 1..Len(stack), Pends(stack[i], key) PROVE OwnedKey(key)'
    <3>1. CASE i = Len(stack)
      <4>1. Pends(p, key) /\ p.pc = "barrier" /\ p.ents = <<>>
        BY <1>1, <1>8, <2>4, <3>1 DEF Pops
      <4>2. Len(<<>>) = 0
        OBVIOUS
      <4> QED BY <1>8, <4>1, <4>2 DEF Pends
    <3>2. CASE i # Len(stack)
      BY <1>9, <2>4, <3>2 DEF OwnedKey
    <3> QED BY <3>1, <3>2
  <2> QED BY <2>2, <2>3, <2>4 DEF OwnedKey
<1> QED BY <1>1, <1>10, <1>11 DEF LeakInv

LEMMA InitLeak ==
  ASSUME Init
  PROVE  LeakInv
<1>1. ToSet(<<>>) = {} /\ DOMAIN <<>> = {}
  BY DEF ToSet
<1>2. Files0 = {} /\ \A r \in Ranks : Commands(r) = {} /\ Queued(r) = {}
  BY <1>1 DEF Init, Files0, Commands, Queued
<1> QED BY <1>2 DEF LeakInv, BlockSeen, KeySeen

LEMMA NextLeak ==
  ASSUME CacheInv, LeakInv, [Next]_vars
  PROVE  LeakInv'
<1>1. Shape /\ Proto /\ SlotInv /\ EntryInv
  BY DEF CacheInv
<1>2. CASE Next
  <2>1. CASE \E ids \in Prompts : Open(ids)
    BY <1>1, <2>1, OpenLeak
  <2>2. CASE Restored \/ RestoreFails \/ Plan \/ Continue \/ Snapshot
    BY <1>1, <2>2, PlainLeak
  <2>3. CASE GridDone
    BY <1>1, <2>3, GridDoneLeak
  <2>4. CASE Fail \/ ChunkFails \/ ReplyFails
    BY <1>1, <2>4, AbortLeak
  <2>5. CASE SaveTail
    BY <1>1, <2>5, SaveTailLeak
  <2>6. CASE Register
    BY <1>1, <2>6, RegisterLeak
  <2>7. CASE Finish
    BY <1>1, <2>7, FinishLeak
  <2>8. CASE Unlink
    BY <1>1, <2>8, UnlinkLeak
  <2>9. CASE Clear
    BY <1>1, <2>9, ClearLeak
  <2>10. CASE ExecBarrier \/ \E r \in Ranks : ExecChunk(r) \/ ExecSnapshot(r) \/ ExecRestore(r)
    BY <1>1, <2>10, ExecLeak
  <2>11. CASE \E r \in Ranks : Write(r) \/ WriteFails(r)
    BY <1>1, <2>11, WriteLeak
  <2>12. CASE Restart
    BY <1>1, <2>12, RestartLeak
  <2> QED BY <1>2, <2>1, <2>2, <2>3, <2>4, <2>5, <2>6, <2>7, <2>8, <2>9, <2>10, <2>11, <2>12 DEF Next
<1>3. CASE UNCHANGED vars
  <2>1. UNCHANGED <<index, refs, disk, dead, stack, cmds, wq, lost>>
    BY <1>3 DEF vars, idx, ranks, history
  <2>2. \A x : (OwnedBlock(x) => OwnedBlock(x)') /\ (OwnedKey(x) => OwnedKey(x)')
    BY <2>1 DEF OwnedBlock, OwnedKey, Entries
  <2> QED BY <2>1, <2>2, SameSeen, MoveLeak
<1> QED BY <1>2, <1>3

LEMMA LeakInvHolds == Spec => []LeakInv
<1>1. CacheInv /\ LeakInv /\ [Next]_vars => LeakInv'
  BY NextLeak
<1> QED BY <1>1, InitLeak, CacheInvHolds, PTL DEF Spec

(* Only a write that failed leaves a .tmp file.                            *)
TornInv == torn # 0 => failed

LEMMA TornHolds == Spec => []TornInv
<1>1. Init => TornInv
  BY DEF Init, TornInv
<1>2. TornInv /\ Next => TornInv'
  <2>1. SUFFICES ASSUME TornInv, Next PROVE UNCHANGED <<failed, torn>> \/ failed' = TRUE \/ torn' = 0
    BY DEF TornInv
  <2>2. CASE (\E ids \in Prompts : Open(ids)) \/ Restored \/ RestoreFails \/ Plan \/ Continue \/ GridDone
    BY <2>2 DEF Open, Restored, RestoreFails, Plan, Continue, GridDone, history
  <2>3. CASE Fail \/ ChunkFails \/ ReplyFails
    BY <2>3 DEF Fail, ChunkFails, ReplyFails, WriteTears
  <2>4. CASE Snapshot \/ SaveTail \/ Register \/ Finish \/ Unlink \/ Clear \/ Restart
    BY <2>4 DEF Snapshot, SaveTail, Register, Finish, Unlink, Clear, Restart, history
  <2>5. CASE ExecBarrier \/ \E r \in Ranks : ExecChunk(r) \/ ExecSnapshot(r) \/ ExecRestore(r) \/ Write(r) \/ WriteFails(r)
    BY <2>5 DEF ExecBarrier, ExecChunk, ExecSnapshot, ExecRestore, Write, WriteFails, WriteTears, history
  <2> QED BY <2>1, <2>2, <2>3, <2>4, <2>5 DEF Next
<1>3. TornInv /\ UNCHANGED vars => TornInv'
  BY DEF TornInv, vars, history
<1> QED BY <1>1, <1>2, <1>3, PTL DEF Spec

(* When nothing is under way the directory holds the index's files and no  *)
(* other whole file: the other files of an entry one write of which failed,*)
(* a block nobody uses and an evicted entry are unlinked, save what a      *)
(* failed prefill or a crash is known to lose; and no .tmp file, unless a  *)
(* write failed since the engine started or the cache was cleared.         *)
THEOREM CacheNoLeak == Spec => []NoLeak
<1>1. CacheInv /\ LeakInv /\ TornInv => NoLeak
  <2>1. SUFFICES ASSUME CacheInv, LeakInv, TornInv, Quiet PROVE NoLeak
    BY DEF NoLeak
  <2>2. DOMAIN disk \subseteq FileNames
    BY <2>1 DEF CacheInv, Shape, Directory
  <2>3. ToSet(<<>>) = {} /\ Len(<<>>) = 0
    BY DEF ToSet
  <2>4a. stack = <<>> /\ dead = <<>>
    BY <2>1 DEF Quiet
  <2>4b. ToSet(dead) = {} /\ Len(stack) = 0
    BY <2>3, <2>4a
  <2>4c. Files0 = DOMAIN disk
    BY <2>4b DEF Files0
  <2>4. Files0 = DOMAIN disk /\ \A i \in 1..Len(stack) : FALSE
    BY <2>4b, <2>4c
  <2>5. \A f \in DOMAIN disk : IF IsBlock(f) THEN f[2] \in Blocks /\ BlockSeen(f[2]) ELSE f[2] \in Keys /\ KeySeen(f[2])
    BY <2>2, <2>4, NameTypes DEF BlockSeen, KeySeen
  <2>6. "block" \notin lost => NoStrayBlock
    BY <2>1, <2>4, <2>5 DEF LeakInv, OwnedBlock, NoStrayBlock, BlockFilesOnDisk, IsBlock
  <2>7. "entry" \notin lost => \A f \in DOMAIN disk \ BlockFilesOnDisk : \E e \in Entries : e.key = f[2]
    BY <2>1, <2>4, <2>5 DEF LeakInv, OwnedKey, BlockFilesOnDisk, IsBlock
  <2> QED BY <2>1, <2>6, <2>7 DEF NoLeak, TornInv
<1> QED BY <1>1, CacheInvHolds, LeakInvHolds, TornHolds, PTL

-----------------------------------------------------------------------------
(* What a prefill holds (HeldInv).                                         *)

LEMMA StillShared ==
  ASSUME Entries \subseteq Entries'
  PROVE  Shared \subseteq Shared' /\ \A p : Held(p, Shared) => Held(p, Shared')
<1>1. Shared \subseteq Shared'
  BY DEF Shared
<1> QED BY <1>1 DEF Held

LEMMA SameHeld ==
  ASSUME HeldInv, UNCHANGED stack, Entries \subseteq Entries', ToSet(dead') \subseteq ToSet(dead)
  PROVE  HeldInv'
BY StillShared DEF HeldInv, Spares

(* The running prefill moves on.                                           *)
LEMMA StepHeld ==
  ASSUME HeldInv, Steps, dead = <<>>, UNCHANGED dead, Entries \subseteq Entries', Held(run', Shared')
  PROVE  HeldInv'
<1>1. PICK n \in Nat \ {0} : n = Len(stack) /\ n = Len(stack') /\ stack'[n] = run'
  BY DEF Steps
<1>2. \A i \in 1..n : i # n => i \in 1..(n - 1)
  OBVIOUS
<1>3. \A i \in 1..(n - 1) : stack'[i] = stack[i] /\ i \in 1..n
  BY <1>1 DEF Steps
<1>4. \A p : Held(p, Shared) => Held(p, Shared')
  BY StillShared
<1>5. \A p : Spares(p, ToSet(dead'))
  BY DEF Spares, ToSet
<1>6. \A i \in 1..n : Held(stack'[i], Shared')
  BY <1>1, <1>2, <1>3, <1>4 DEF HeldInv
<1> QED BY <1>1, <1>5, <1>6 DEF HeldInv

LEMMA PopHeld ==
  ASSUME HeldInv, SlotInv, Pops, Entries \subseteq Entries',
         \A f \in ToSet(dead') : IF IsBlock(f) THEN f[2] \in Blocks /\ HasBlock(run, f[2])
                                              ELSE f[2] \in Keys /\ HasKey(run, f[2])
  PROVE  HeldInv'
<1>1. ASSUME NEW i \in 1..Len(stack') PROVE Held(stack'[i], Shared') /\ Spares(stack'[i], ToSet(dead'))
  <2>1. stack'[i] = stack[i] /\ Apart(stack'[i], run) /\ i \in 1..Len(stack)
    BY PopSlots DEF Pops
  <2>2. Held(stack'[i], Shared')
    BY <2>1, StillShared DEF HeldInv
  <2>3. Spares(stack'[i], ToSet(dead'))
    BY <2>1 DEF Spares, Apart
  <2> QED BY <2>2, <2>3
<1> QED BY <1>1 DEF HeldInv

(* A prefill without a plan holds what it resumed from.                    *)
LEMMA NothingNew ==
  ASSUME NEW p, NEW shared, p.chunks = <<>>, p.ents = <<>>, ToSet(p.blocks) \subseteq shared
  PROVE  Held(p, shared)
BY DEF Held, ToSet

LEMMA OpenHeld ==
  ASSUME Shape, HeldInv, NEW ids \in Prompts, Open(ids)
  PROVE  HeldInv'
<1>1. /\ Pushes /\ MayEnter /\ run'.chunks = <<>> /\ run'.ents = <<>>
      /\ \/ run'.blocks = <<>>
         \/ \E e \in Entries : run'.blocks = e.blocks
      /\ UNCHANGED <<index, dead>>
  BY OpenIs
<1>2. PICK n \in Nat : n = Len(stack) /\ n + 1 = Len(stack') /\ stack'[n + 1] = run'
  BY <1>1 DEF Pushes
<1>3. \A i \in 1..(n + 1) : i # n + 1 => i \in 1..n /\ stack'[i] = stack[i]
  BY <1>1, <1>2 DEF Pushes
<1>4. \A p : Spares(p, ToSet(dead'))
  BY <1>1 DEF MayEnter, Spares, ToSet
<1>5. Shared' = Shared
  BY <1>1 DEF Shared, Entries
<1>6. ToSet(run'.blocks) \subseteq Shared
  BY <1>1 DEF Shared, ToSet
<1>7. Held(run', Shared)
  BY <1>1, <1>6, NothingNew
<1>8. \A i \in 1..(n + 1) : Held(stack'[i], Shared)
  BY <1>2, <1>3, <1>7 DEF HeldInv
<1> QED BY <1>2, <1>4, <1>5, <1>8 DEF HeldInv

LEMMA RestoredHeld ==
  ASSUME Shape, HeldInv, Restored \/ RestoreFails
  PROVE  HeldInv'
<1>1. /\ Steps /\ dead = <<>> /\ run'.chunks = <<>> /\ run'.ents = <<>> /\ run.new = <<>>
      /\ run'.blocks = run.blocks \/ run'.blocks = <<>>
      /\ UNCHANGED <<index, dead>>
  BY RestoredIs DEF idx
<1>2. Shared' = Shared /\ Entries' = Entries
  BY <1>1 DEF Shared, Entries
<1>3. Held(run, Shared)
  BY <1>1 DEF HeldInv, Steps
<1>4. ToSet(run'.blocks) \subseteq Shared
  BY <1>1, <1>3 DEF Held, ToSet
<1>5. Held(run', Shared')
  BY <1>1, <1>2, <1>4, NothingNew
<1> QED BY <1>1, <1>2, <1>5, StepHeld

(* What a prefill adopts are blocks of an entry.                           *)
LEMMA PlanHeld ==
  ASSUME Shape, HeldInv, Plan
  PROVE  HeldInv'
<1>1. /\ Steps /\ dead = <<>> /\ PlanParts(run.ids, run.P, run'.chunks)
      /\ run'.blocks = run.blocks /\ run.new = <<>> /\ run'.new = <<>> /\ run'.ents = <<>>
      /\ UNCHANGED <<index, dead>>
  BY PlanActs DEF idx
<1>2. Shared' = Shared /\ Entries' = Entries
  BY <1>1 DEF Shared, Entries
<1>3. PICK chunks : chunks = run'.chunks
  OBVIOUS
<1>4. ASSUME NEW j \in 1..Len(chunks) PROVE ToSet(chunks[j].adopt) \subseteq Shared
  <2>1. chunks[j].adopt = <<>> \/ \E e \in Entries : chunks[j].adopt = e.blocks
    BY <1>1, <1>3 DEF PlanParts
  <2> QED BY <2>1 DEF Shared, ToSet
<1>5. Held(run, Shared)
  BY <1>1 DEF HeldInv, Steps
<1>6. Held(run', Shared')
  BY <1>1, <1>2, <1>3, <1>4, <1>5 DEF Held, ToSet
<1> QED BY <1>1, <1>2, <1>6, StepHeld

LEMMA ContinueHeld ==
  ASSUME Shape, HeldInv, Continue \/ Snapshot
  PROVE  HeldInv'
<1>1. /\ Steps /\ dead = <<>> /\ run'.blocks = run.blocks /\ run'.chunks = run.chunks
      /\ run'.new = run.new /\ run'.ents = run.ents /\ UNCHANGED <<index, dead>>
  BY ContinueIs, SnapshotIs DEF idx
<1>2. Shared' = Shared /\ Entries' = Entries
  BY <1>1 DEF Shared, Entries
<1>3. Held(run, Shared)
  BY <1>1 DEF HeldInv, Steps
<1>4. Held(run', Shared')
  BY <1>1, <1>2, <1>3 DEF Held
<1> QED BY <1>1, <1>2, <1>4, StepHeld

LEMMA GridDoneHeld ==
  ASSUME Shape, HeldInv, GridDone
  PROVE  HeldInv'
<1>1. Steps /\ run.pc = "rows" /\ dead = <<>> /\ run' = Saved(run) /\ UNCHANGED <<index, dead>>
  BY GridDoneIs DEF Shape, idx
<1>2. PICK p \in Prefill : p = run
  BY <1>1 DEF Steps
<1>3. PICK q \in Prefill : q = Saved(p)
  BY <1>1, <1>2, SavedIs
<1>4. PICK c \in Chunk : c = p.chunks[p.k + 1] /\ p.k + 1 \in 1..Len(p.chunks)
  BY <1>1, <1>2, SavedIs
<1>5. /\ q.chunks = p.chunks /\ q.blocks = BlocksWith(p, c)
      /\ q.new = (IF c.block = 0 THEN p.new ELSE Append(p.new, c.block))
      /\ \/ q.ents = p.ents
         \/ \E e \in Entry : e.blocks = q.blocks /\ q.ents = Append(p.ents, e)
  <2>1. PICK e : e = [key |-> c.key, tokens |-> Prefix(p.ids, c.end), blocks |-> q.blocks, capture |-> FALSE]
    OBVIOUS
  <2>2. /\ q.chunks = p.chunks /\ q.blocks = BlocksWith(p, c)
        /\ q.new = (IF c.block = 0 THEN p.new ELSE Append(p.new, c.block))
        /\ q.ents = (IF c.key = 0 THEN p.ents ELSE Append(p.ents, e)) /\ (c.key # 0 => e \in Entry)
    BY <1>1, <1>2, <1>3, <1>4, <2>1, SavedIs
  <2>3. e.blocks = q.blocks
    BY <2>1
  <2> QED BY <2>2, <2>3
<1>6. p.new \in Seq(Blocks) /\ p.blocks \in Seq(Blocks) /\ p.ents \in Seq(Entry) /\ Len(p.ents) \in Nat
      /\ c.block \in Blocks \cup {0}
  BY FieldsOf DEF Chunk
<1>7. Held(p, Shared)
  BY <1>1, <1>2 DEF HeldInv, Steps
<1>8. ToSet(p.new) \subseteq ToSet(q.new) /\ (c.block # 0 => c.block \in ToSet(q.new))
  BY <1>5, <1>6, AppendSet
<1>9. ToSet(c.adopt) \subseteq Shared
  BY <1>4, <1>7 DEF Held
<1>10. c.block # 0 => ToSet(Append(p.blocks, c.block)) = ToSet(p.blocks) \cup {c.block}
  BY <1>6, AppendSet
<1>11. ToSet(q.blocks) \subseteq Shared \cup ToSet(q.new)
  BY <1>5, <1>7, <1>8, <1>9, <1>10 DEF BlocksWith, Held
<1>12. \A m \in 1..Len(p.ents) : ToSet(p.ents[m].blocks) \subseteq Shared \cup ToSet(q.new)
  BY <1>7, <1>8 DEF Held
<1>13. \A m \in 1..Len(q.ents) : ToSet(q.ents[m].blocks) \subseteq Shared \cup ToSet(q.new)
  <2>1. CASE q.ents = p.ents
    BY <1>12, <2>1
  <2>2. ASSUME NEW e \in Entry, e.blocks = q.blocks, q.ents = Append(p.ents, e)
        PROVE  \A m \in 1..Len(q.ents) : ToSet(q.ents[m].blocks) \subseteq Shared \cup ToSet(q.new)
    <3>1. PICK n \in Nat : n = Len(p.ents)
      BY <1>6
    <3>2. Len(q.ents) = n + 1 /\ q.ents[n + 1] = e /\ \A m \in 1..n : q.ents[m] = p.ents[m]
      BY <1>6, <2>2, <3>1, AppendLast
    <3>3. \A m \in 1..(n + 1) : m = n + 1 \/ m \in 1..n
      OBVIOUS
    <3> QED BY <1>11, <1>12, <2>2, <3>1, <3>2, <3>3
  <2> QED BY <1>5, <2>1, <2>2
<1>14. Held(q, Shared)
  BY <1>5, <1>7, <1>11, <1>13 DEF Held
<1>15. Shared' = Shared /\ Entries' = Entries
  BY <1>1 DEF Shared, Entries
<1> QED BY <1>1, <1>2, <1>3, <1>14, <1>15, StepHeld

LEMMA SaveTailHeld ==
  ASSUME Shape, HeldInv, SaveTail
  PROVE  HeldInv'
<1>1. /\ Steps /\ dead = <<>> /\ run'.blocks = run.blocks /\ run'.chunks = run.chunks
      /\ run'.new = run.new /\ UNCHANGED <<index, dead>>
      /\ \E e \in Entry : e.blocks = run.blocks /\ run'.ents = Append(run.ents, e)
  BY SaveTailIs DEF idx
<1>2. PICK p \in Prefill : p = run
  BY <1>1 DEF Steps
<1>3. PICK q \in Prefill : q = run'
  BY <1>1 DEF Steps
<1>4. PICK e \in Entry : e.blocks = p.blocks /\ q.ents = Append(p.ents, e)
  BY <1>1, <1>2, <1>3
<1>5. Held(p, Shared)
  BY <1>1, <1>2 DEF HeldInv, Steps
<1>6. PICK n \in Nat : n = Len(p.ents)
  BY FieldsOf
<1>7. Len(q.ents) = n + 1 /\ q.ents[n + 1] = e /\ \A m \in 1..n : q.ents[m] = p.ents[m]
  BY <1>4, <1>6, FieldsOf, AppendLast
<1>8. \A m \in 1..(n + 1) : m = n + 1 \/ m \in 1..n
  OBVIOUS
<1>9. \A m \in 1..(n + 1) : ToSet(q.ents[m].blocks) \subseteq Shared \cup ToSet(p.new)
  BY <1>4, <1>5, <1>6, <1>7, <1>8 DEF Held
<1>10. Shared' = Shared /\ Entries' = Entries
  BY <1>1 DEF Shared, Entries
<1>11. Held(q, Shared)
  BY <1>1, <1>2, <1>3, <1>5, <1>7, <1>9 DEF Held
<1> QED BY <1>1, <1>3, <1>10, <1>11, StepHeld

LEMMA RegisterHeld ==
  ASSUME Shape, HeldInv, Register
  PROVE  HeldInv'
<1>1. /\ Steps /\ dead = <<>> /\ run'.blocks = run.blocks /\ run'.chunks = run.chunks
      /\ run'.new = run.new /\ UNCHANGED dead /\ run.ents # <<>> /\ run'.ents = Tail(run.ents)
      /\ UNCHANGED index \/ \E e \in Entry : index' = Append(index, e)
  BY RegisterIs DEF idx
<1>2. PICK p \in Prefill : p = run
  BY <1>1 DEF Steps
<1>3. PICK q \in Prefill : q = run'
  BY <1>1 DEF Steps
<1>4. Entries \subseteq Entries'
  <2>1. CASE UNCHANGED index
    BY <2>1 DEF Entries
  <2>2. ASSUME NEW e \in Entry, index' = Append(index, e) PROVE Entries \subseteq Entries'
    <3>1. PICK s \in Seq(Entry) : s = index
      BY DEF Shape
    <3>2. ToSet(Append(s, e)) = ToSet(s) \cup {e}
      BY AppendSet
    <3> QED BY <2>2, <3>1, <3>2 DEF Entries
  <2> QED BY <1>1, <2>1, <2>2
<1>5. Held(p, Shared')
  BY <1>1, <1>2, <1>4, StillShared DEF HeldInv, Steps
<1>6. p.ents \in Seq(Entry) /\ p.ents # <<>> /\ q.ents = Tail(p.ents)
  BY <1>1, <1>2, <1>3, FieldsOf
<1>7. PICK n \in Nat : n = Len(p.ents)
  BY FieldsOf
<1>8. Len(q.ents) = n - 1 /\ \A m \in 1..(n - 1) : q.ents[m] = p.ents[m + 1] /\ m + 1 \in 1..n
  BY <1>6, <1>7, HeadTailProperties
<1>9. \A m \in 1..Len(q.ents) : ToSet(q.ents[m].blocks) \subseteq Shared' \cup ToSet(q.new)
  BY <1>1, <1>2, <1>3, <1>5, <1>7, <1>8 DEF Held
<1>10. Held(q, Shared')
  BY <1>1, <1>2, <1>3, <1>5, <1>9 DEF Held
<1> QED BY <1>1, <1>3, <1>4, <1>10, StepHeld

LEMMA AbortHeld ==
  ASSUME Shape, SlotInv, EntryInv, HeldInv, Fail \/ ChunkFails \/ ReplyFails
  PROVE  HeldInv'
<1>1. Pops /\ UNCHANGED index
  BY AbortIs DEF idx
<1>2. PICK p \in Prefill : p = run
  BY <1>1 DEF Pops
<1>3. Slots(p) /\ p.ents \in Seq(Entry)
  BY <1>1, <1>2, FieldsOf DEF SlotInv, Pops
<1>4. dead' \in Seq(FileNames) /\ ToSet(dead') \subseteq FileNames
  BY AbortDead, AsSet
<1>5. ASSUME NEW f \in ToSet(dead')
      PROVE IF IsBlock(f) THEN f[2] \in Blocks /\ HasBlock(p, f[2]) ELSE f[2] \in Keys /\ HasKey(p, f[2])
  <2>1. IF IsBlock(f) THEN f[2] \in Blocks ELSE f[2] \in Keys
    BY <1>4, NameTypes
  <2>2. IF IsBlock(f) THEN HasBlock(p, f[2]) ELSE \E m \in 1..Len(p.ents) : p.ents[m].key = f[2]
    BY <1>2, AbortDead
  <2>3. ASSUME NEW m \in 1..Len(p.ents) PROVE HasKey(p, p.ents[m].key)
    BY <1>3, PendsHas DEF Pends
  <2> QED BY <2>1, <2>2, <2>3
<1>6. Entries \subseteq Entries'
  BY <1>1 DEF Entries
<1> QED BY <1>1, <1>2, <1>5, <1>6, PopHeld

(* Nothing is evicted while a prefill is suspended.                        *)
LEMMA FinishHeld ==
  ASSUME Shape, SlotInv, EntryInv, HeldInv, Finish
  PROVE  HeldInv'
<1>1. /\ Pops /\ run \in Prefill /\ index \in Seq(Entry) /\ (Below # <<>> => Drops = 0)
      /\ index' = Where(index, {e \in Entries : e.key \notin {lru[j] : j \in 1..Drops}})
  BY FinishIs DEF Pops, Shape
<1>2. CASE Below = <<>>
  <2>1. stack' = <<>> /\ Len(<<>>) = 0 /\ 1..0 = {}
    BY <1>1, <1>2 DEF Pops
  <2> QED BY <2>1 DEF HeldInv
<1>3. CASE Below # <<>>
  <2>1. Drops = 0 /\ 1..0 = {}
    BY <1>1, <1>3
  <2>2. {e \in Entries : e.key \notin {lru[j] : j \in 1..Drops}} = Entries
    <3>1. {lru[j] : j \in 1..Drops} = {}
      BY <2>1
    <3> QED BY <3>1
  <2>3. Entries' = Entries
    <3>1. PICK s \in Seq(Entry) : s = index /\ index' = Where(s, Entries)
      BY <1>1, <2>2
    <3>2. ToSet(Where(s, Entries)) = ToSet(s) \cap Entries
      BY WhereSet
    <3> QED BY <3>1, <3>2 DEF Entries
  <2>4. PICK p \in Prefill : p = run
    BY <1>1
  <2>5. Slots(p)
    BY <1>1, <2>4 DEF SlotInv, Pops
  <2>6. ASSUME NEW f \in ToSet(dead')
        PROVE IF IsBlock(f) THEN f[2] \in Blocks /\ HasBlock(p, f[2]) ELSE f[2] \in Keys /\ HasKey(p, f[2])
    <3>1. f \in Of({}, ToSet(p.new) \cap Unused)
      BY <2>1, <2>4, <2>6, FinishDead
    <3>2. IsBlock(f) /\ f[2] \in ToSet(p.new) /\ f[2] \in Blocks
      BY <3>1 DEF Of, Unused
    <3>3. PICK j \in 1..p.k : p.chunks[j].block = f[2]
      BY <2>5, <3>2 DEF Slots, OwnBlocks
    <3>4. p.k \in Nat /\ Len(p.chunks) \in Nat /\ p.k <= Len(p.chunks)
      BY FieldsOf DEF Placed
    <3> QED BY <3>2, <3>3, <3>4 DEF HasBlock
  <2> QED BY <1>1, <2>3, <2>4, <2>6, PopHeld
<1> QED BY <1>2, <1>3

LEMMA UnlinkHeld ==
  ASSUME EntryInv, HeldInv, Unlink
  PROVE  HeldInv'
<1>1. PICK s \in Seq(FileNames) : s = dead /\ s # <<>> /\ dead' = Tail(s)
  BY DEF Unlink, EntryInv, Stored
<1>2. ToSet(dead') \subseteq ToSet(dead)
  BY <1>1, TailSet
<1>3. UNCHANGED stack /\ Entries' = Entries
  BY DEF Unlink, Entries, idx
<1> QED BY <1>2, <1>3, SameHeld

LEMMA RankHeld ==
  ASSUME Shape, HeldInv,
         \/ ExecBarrier \/ \E r \in Ranks : ExecChunk(r) \/ ExecSnapshot(r) \/ ExecRestore(r)
         \/ \E r \in Ranks : Write(r) \/ WriteFails(r)
  PROVE  HeldInv'
<1>1. UNCHANGED <<index, dead, stack>>
  BY ExecCommands, WriteIs DEF Shape, idx
<1> QED BY <1>1, SameHeld DEF Entries

LEMMA NextHeld ==
  ASSUME CacheInv, HeldInv, [Next]_vars
  PROVE  HeldInv'
<1>1. Shape /\ SlotInv /\ EntryInv
  BY DEF CacheInv
<1>2. CASE Next
  <2>1. CASE \E ids \in Prompts : Open(ids)
    BY <1>1, <2>1, OpenHeld
  <2>2. CASE Restored \/ RestoreFails
    BY <1>1, <2>2, RestoredHeld
  <2>3. CASE Plan
    BY <1>1, <2>3, PlanHeld
  <2>4. CASE Continue \/ Snapshot
    BY <1>1, <2>4, ContinueHeld
  <2>5. CASE GridDone
    BY <1>1, <2>5, GridDoneHeld
  <2>6. CASE Fail \/ ChunkFails \/ ReplyFails
    BY <1>1, <2>6, AbortHeld
  <2>7. CASE SaveTail
    BY <1>1, <2>7, SaveTailHeld
  <2>8. CASE Register
    BY <1>1, <2>8, RegisterHeld
  <2>9. CASE Finish
    BY <1>1, <2>9, FinishHeld
  <2>10. CASE Unlink
    BY <1>1, <2>10, UnlinkHeld
  <2>11. CASE Clear \/ Restart
    <3>1. stack' = <<>>
      BY <2>11 DEF Clear, Restart
    <3> QED BY <3>1 DEF HeldInv
  <2>12. CASE \/ ExecBarrier \/ \E r \in Ranks : ExecChunk(r) \/ ExecSnapshot(r) \/ ExecRestore(r)
              \/ \E r \in Ranks : Write(r) \/ WriteFails(r)
    BY <1>1, <2>12, RankHeld
  <2> QED BY <1>2, <2>1, <2>2, <2>3, <2>4, <2>5, <2>6, <2>7, <2>8, <2>9, <2>10, <2>11, <2>12 DEF Next
<1>3. CASE UNCHANGED vars
  BY <1>3, SameHeld DEF vars, idx, Entries
<1> QED BY <1>2, <1>3

-----------------------------------------------------------------------------
(* What is on disk or on its way there (Sends, StageInv).                  *)

LEMMA TailLast ==
  ASSUME NEW T, NEW s \in Seq(T), s # <<>>, NEW c, LastIs(s, c)
  PROVE  /\ LastIs(Tail(s), c) /\ (Tail(s) = <<>> => s[1] = c)
         /\ \A x \in T : s[1] # c => LastIs(<<x>> \o Tail(s), c)
<1>1. PICK n \in Nat \ {0} : n = Len(s) /\ s[n] = c
  BY EmptySeq DEF LastIs
<1>2. Tail(s) \in Seq(T) /\ Len(Tail(s)) = n - 1 /\ \A i \in 1..(n - 1) : Tail(s)[i] = s[i + 1]
  BY <1>1, HeadTailProperties
<1>3. LastIs(Tail(s), c) /\ (Tail(s) = <<>> => s[1] = c)
  <2>1. PICK t \in Seq(T) : t = Tail(s) /\ Len(t) = n - 1 /\ \A i \in 1..(n - 1) : t[i] = s[i + 1]
    BY <1>2
  <2>2. t # <<>> => t[n - 1] = c
    <3>1. t # <<>> => n - 1 \in 1..(n - 1) /\ n - 1 + 1 = n
      BY <2>1, EmptySeq
    <3> QED BY <1>1, <2>1, <3>1
  <2>3. t = <<>> => s[1] = c
    <3>1. t = <<>> => n = 1
      <4>1. Len(<<>>) = 0
        OBVIOUS
      <4>2. Len(t) = n - 1
        BY <2>1
      <4> QED BY <4>1, <4>2
    <3> QED BY <1>1, <3>1
  <2> QED BY <2>1, <2>2, <2>3 DEF LastIs
<1>4. ASSUME NEW x \in T, s[1] # c PROVE LastIs(<<x>> \o Tail(s), c)
  <2>1. n - 1 \in 1..(n - 1) /\ n > 1
    BY <1>1, <1>4
  <2>2. PICK t \in Seq(T) : t = Tail(s) /\ Len(t) = n - 1 /\ t[n - 1] = c
    <3>1. PICK t \in Seq(T) : t = Tail(s) /\ Len(t) = n - 1 /\ \A i \in 1..(n - 1) : t[i] = s[i + 1]
      BY <1>2
    <3>2. n - 1 + 1 = n
      BY <2>1
    <3>3. t[n - 1] = c
      BY <1>1, <2>1, <3>1, <3>2
    <3> QED BY <3>1, <3>3
  <2>3. Len(<<x>> \o t) = n /\ (<<x>> \o t)[n] = t[n - 1]
    <3>1. <<x>> \in Seq(T) /\ Len(<<x>>) = 1
      OBVIOUS
    <3>2. PICK u \in Seq(T) : u = <<x>> /\ Len(u) = 1
      BY <3>1
    <3>3. Len(u \o t) = Len(u) + Len(t) /\ \A i \in 1..(Len(u) + Len(t)) : (u \o t)[i] = IF i <= Len(u) THEN u[i] ELSE t[i - Len(u)]
      BY ConcatProperties
    <3>4. Len(u \o t) = n /\ (u \o t)[n] = t[n - 1]
      BY <2>1, <2>2, <3>2, <3>3
    <3> QED BY <3>2, <3>4
  <2> QED BY <2>2, <2>3 DEF LastIs
<1> QED BY <1>3, <1>4

(* The names of a command's chunk stay its prefill's.                      *)
LEMMA StillChunk ==
  ASSUME NEW p, NEW q, q.chunks = p.chunks, q.key = p.key, NEW c, OfChunk(p, c)
  PROVE  OfChunk(q, c)
BY DEF OfChunk, HasBlock, HasKey

LEMMA SubmitSends ==
  ASSUME cmds \in [Ranks -> Seq(Command)], cmds[0] = <<>>, NEW c \in Command, Submit(c), OfChunk(run', c)
  PROVE  Sends'
<1>1. PICK s \in Seq(Command) : s = cmds[1]
  BY DEF Ranks
<1>2. cmds'[0] = Append(<<>>, c) /\ cmds'[1] = Append(s, c)
  BY <1>1 DEF Submit, Ranks
<1>3. PICK t : t = Append(s, c) /\ LastIs(t, c)
  <2>1. PICK t : t = Append(s, c)
    OBVIOUS
  <2>2. Len(t) = Len(s) + 1 /\ t[Len(s) + 1] = c
    BY <2>1, AppendLast
  <2>3. LastIs(t, c)
    BY <2>2 DEF LastIs
  <2> QED BY <2>1, <2>3
<1>4. Append(<<>>, c) = <<c>>
  OBVIOUS
<1>5. cmds'[0] = <<c>> /\ LastIs(cmds'[1], c)
  BY <1>2, <1>3, <1>4
<1> QED BY <1>5 DEF Sends

LEMMA IdleSends ==
  ASSUME cmds'[0] = <<>> \/ ~AtChunk'
  PROVE  Sends'
BY DEF Sends

LEMMA ChunkOf ==
  ASSUME NEW p \in Prefill, NEW k \in 1..Len(p.chunks)
  PROVE  OfChunk(p, ChunkCmd(p, k))
BY ChunkCmdIs DEF OfChunk, HasBlock, HasKey

LEMMA FrontSends ==
  ASSUME Shape, Sends,
         \/ (\E ids \in Prompts : Open(ids)) \/ Restored \/ RestoreFails \/ Plan \/ Continue \/ GridDone
         \/ Fail \/ ChunkFails \/ ReplyFails \/ Snapshot \/ SaveTail \/ Register \/ Finish \/ Clear \/ Restart
  PROVE  Sends'
<1>1. CASE (\E ids \in Prompts : Open(ids)) \/ Restored \/ RestoreFails \/ Snapshot \/ SaveTail \/ Register
  <2>1. run'.pc \in {"plan", "restore", "snap", "barrier"}
    BY <1>1, OpenIs, RestoredIs, SnapshotIs, SaveTailIs, RegisterIs
  <2> QED BY <2>1, IdleSends DEF AtChunk
<1>2. CASE Fail \/ ChunkFails \/ ReplyFails \/ Finish
  <2>1. cmds'[0] = <<>>
    BY <1>2, AbortIs, FinishIs DEF ranks, Ranks
  <2> QED BY <2>1, IdleSends
<1>3. CASE Clear \/ Restart
  <2>1. stack' = <<>>
    BY <1>3 DEF Clear, Restart
  <2> QED BY <2>1, IdleSends DEF AtChunk
<1>4. CASE Plan
  <2>1. /\ Steps /\ cmds[0] = <<>>
        /\ \/ UNCHANGED cmds
           \/ \E c \in Command : 1 \in 1..Len(run'.chunks) /\ c = ChunkCmd(run', 1) /\ Submit(c)
    BY <1>4, PlanActs
  <2>2. CASE UNCHANGED cmds
    BY <2>1, <2>2, IdleSends
  <2>3. ASSUME NEW c \in Command, 1 \in 1..Len(run'.chunks), c = ChunkCmd(run', 1), Submit(c) PROVE Sends'
    <3>1. PICK q \in Prefill : q = run'
      BY <2>1 DEF Steps
    <3>2. OfChunk(q, c)
      BY <2>3, <3>1, ChunkOf
    <3> QED BY <2>1, <2>3, <3>1, <3>2, SubmitSends DEF Shape
  <2> QED BY <2>1, <2>2, <2>3
<1>5. CASE Continue
  <2>1. /\ Steps /\ cmds[0] = <<>> /\ run'.chunks = run.chunks /\ run'.key = run.key
        /\ \/ UNCHANGED cmds
           \/ \E c \in Command : run.k + 2 \in 1..Len(run.chunks) /\ c = ChunkCmd(run, run.k + 2) /\ Submit(c)
    BY <1>5, ContinueIs
  <2>2. CASE UNCHANGED cmds
    BY <2>1, <2>2, IdleSends
  <2>3. ASSUME NEW c \in Command, run.k + 2 \in 1..Len(run.chunks), c = ChunkCmd(run, run.k + 2), Submit(c)
        PROVE  Sends'
    <3>1. PICK p \in Prefill : p = run
      BY <2>1 DEF Steps
    <3>2. OfChunk(p, c)
      BY <2>3, <3>1, ChunkOf
    <3>3. OfChunk(run', c)
      BY <2>1, <3>1, <3>2, StillChunk
    <3> QED BY <2>1, <2>3, <3>3, SubmitSends DEF Shape
  <2> QED BY <2>1, <2>2, <2>3
<1>6. CASE GridDone
  <2>1. Steps /\ run.pc = "rows" /\ run' = Saved(run) /\ UNCHANGED cmds
    BY <1>6, GridDoneIs DEF Shape, ranks
  <2>2. PICK p \in Prefill : p = run
    BY <2>1 DEF Steps
  <2>3. PICK q \in Prefill : q = Saved(p) /\ q.chunks = p.chunks /\ q.key = p.key
    <3>1. PICK q \in Prefill : q = Saved(p)
      BY <2>1, <2>2, SavedIs
    <3>2. p.pc = "rows"
      BY <2>1, <2>2
    <3>3. q.chunks = p.chunks /\ q.key = 0 /\ p.key = 0
      BY <3>1, <3>2, SavedIs
    <3> QED BY <3>1, <3>3
  <2>4. ASSUME cmds[0] # <<>> PROVE \E c \in Command : OfChunk(q, c) /\ cmds[0] = <<c>> /\ LastIs(cmds[1], c)
    <3>1. AtChunk
      BY <2>1 DEF AtChunk, Steps
    <3>2. PICK c \in Command : OfChunk(p, c) /\ cmds[0] = <<c>> /\ LastIs(cmds[1], c)
      BY <2>2, <2>4, <3>1 DEF Sends
    <3>3. OfChunk(q, c)
      BY <2>3, <3>2, StillChunk
    <3> QED BY <3>2, <3>3
  <2> QED BY <2>1, <2>2, <2>3, <2>4 DEF Sends
<1> QED BY <1>1, <1>2, <1>3, <1>4, <1>5, <1>6

LEMMA RankSends ==
  ASSUME Shape, Sends,
         ExecBarrier \/ \E r \in Ranks : ExecChunk(r) \/ ExecSnapshot(r) \/ ExecRestore(r)
  PROVE  Sends'
<1>1. SUFFICES ASSUME AtChunk', cmds'[0] # <<>>
               PROVE  \E c \in Command : OfChunk(run', c) /\ cmds'[0] = <<c>> /\ LastIs(cmds'[1], c)
  BY DEF Sends
<1>2. UNCHANGED stack
  BY ExecCommands
<1>3. run' = run /\ AtChunk
  <2>1. run' = run
    BY <1>2 DEF run
  <2> QED BY <1>1, <1>2, <2>1 DEF AtChunk
<1>4. PICK s \in Seq(Command) : s = cmds[0]
  BY DEF Shape, Ranks
<1>5. PICK t \in Seq(Command) : t = cmds[1]
  BY DEF Shape, Ranks
<1>6. ASSUME NEW x \in Command PROVE Tail(<<x>>) = <<>>
  <2>1. <<x>> \in Seq(Command) /\ <<x>> # <<>> /\ Len(<<x>>) = 1
    OBVIOUS
  <2>2. Tail(<<x>>) \in Seq(Command) /\ Len(Tail(<<x>>)) = 0
    BY <2>1, HeadTailProperties
  <2> QED BY <2>2, EmptySeq
<1>7. ASSUME ExecBarrier \/ ExecChunk(0) \/ ExecSnapshot(0) \/ ExecRestore(0) PROVE FALSE
  <2>1. /\ s # <<>>
        /\ \/ cmds'[0] = Tail(s) /\ Tail(s) # <<>>
           \/ s[1].op = "snapshot"
    <3>1. CASE ExecBarrier
      BY <1>1, <1>4, <3>1, BarrierIs DEF Shape, Ranks
    <3>2. CASE ExecChunk(0)
      BY <1>1, <1>4, <3>2 DEF ExecChunk, Does, Executed, Shape, Ranks
    <3>3. CASE ExecRestore(0)
      BY <1>1, <1>4, <3>3 DEF ExecRestore, Does, Executed, Shape, Ranks
    <3>4. CASE ExecSnapshot(0)
      BY <1>4, <3>4 DEF ExecSnapshot, Does
    <3> QED BY <1>7, <3>1, <3>2, <3>3, <3>4
  <2>2. PICK c \in Command : s = <<c>> /\ c.op = "chunk"
    BY <1>3, <1>4, <2>1 DEF Sends, OfChunk
  <2> QED BY <1>6, <2>1, <2>2
<1>8. ASSUME ExecChunk(1) \/ ExecSnapshot(1) \/ ExecRestore(1)
      PROVE  \E c \in Command : OfChunk(run', c) /\ cmds'[0] = <<c>> /\ LastIs(cmds'[1], c)
  <2>1. /\ t # <<>> /\ cmds'[0] = s
        /\ \/ cmds'[1] = Tail(t)
           \/ t[1].op = "snapshot" /\ cmds'[1] = <<[op |-> "flush"]>> \o Tail(t)
    <3>1. CASE ExecChunk(1)
      BY <1>4, <1>5, <3>1 DEF ExecChunk, Does, Executed, Shape, Ranks
    <3>2. CASE ExecRestore(1)
      BY <1>4, <1>5, <3>2 DEF ExecRestore, Does, Executed, Shape, Ranks
    <3>3. CASE ExecSnapshot(1)
      BY <1>4, <1>5, <3>3 DEF ExecSnapshot, Does, Shape, Ranks
    <3> QED BY <1>8, <3>1, <3>2, <3>3
  <2>2. PICK c \in Command : OfChunk(run, c) /\ s = <<c>> /\ LastIs(t, c)
    BY <1>1, <1>3, <1>4, <1>5, <2>1 DEF Sends
  <2>3. LastIs(cmds'[1], c)
    <3>1. LastIs(Tail(t), c) /\ \A x \in Command : t[1] # c => LastIs(<<x>> \o Tail(t), c)
      BY <2>1, <2>2, TailLast
    <3>3. [op |-> "flush"] \in Command
      BY DEF Command
    <3>2. t[1].op = "snapshot" => t[1] # c
      BY <2>2 DEF OfChunk
    <3> QED BY <2>1, <3>1, <3>2, <3>3
  <2> QED BY <1>3, <2>1, <2>2, <2>3
<1>9. \A r \in Ranks : r = 0 \/ r = 1
  BY DEF Ranks
<1> QED BY <1>7, <1>8, <1>9

LEMMA SubmitArrives ==
  ASSUME cmds \in [Ranks -> Seq(Command)], NEW c \in Command, Submit(c), UNCHANGED <<disk, wq>>
  PROVE  /\ Arriving \subseteq Arriving'
         /\ \A r \in Ranks : \A f \in FileNames : Brings(c, r, f) => f \in Arriving'
<1>1. \A r \in Ranks : Commands(r)' = Commands(r) \cup {c}
  BY SubmitIs DEF Commands
<1>2. \A r \in Ranks : Queued(r)' = Queued(r)
  BY DEF Queued
<1>3. \A f : Arrives(f) => Arrives(f)'
  BY <1>1, <1>2 DEF Arrives
<1>4. \A r \in Ranks : \A f : Brings(c, r, f) => Arrives(f)'
  BY <1>1 DEF Arrives
<1> QED BY <1>3, <1>4 DEF Arriving

LEMMA DiskArrives ==
  ASSUME DOMAIN disk \subseteq DOMAIN disk', UNCHANGED <<cmds, wq>>
  PROVE  Arriving \subseteq Arriving'
BY DEF Arriving, Arrives, Queued, Commands

LEMMA PutsArrive ==
  ASSUME NEW c \in Command, c.op \in {"chunk", "snapshot"}, NEW r \in Ranks, NEW f, Brings(c, r, f)
  PROVE  \/ \E w \in ToSet(BlockPut(c, r)) : w.file = f /\ c.op = "chunk"
         \/ \E w \in ToSet(EntryPut(c, r)) : w.file = f /\ w = File("ent", c.key, r, c.ids)
<1>1. \A kind, id, content : File(kind, id, r, content).file = <<kind, id, r>>
  BY DEF File
<1>2. CASE c.op = "chunk" /\ c.block # 0 /\ f = <<"blk", c.block, r>>
  <2>1. PICK w : w = File("blk", c.block, r, Prefix(c.ids, Grid * (Len(c.ids) \div Grid)))
    OBVIOUS
  <2>2. w \in ToSet(BlockPut(c, r))
    BY <1>2, <2>1, PutsTyped
  <2> QED BY <1>1, <1>2, <2>1, <2>2
<1>3. CASE c.key # 0 /\ f = <<"ent", c.key, r>>
  <2>1. PICK w : w = File("ent", c.key, r, c.ids)
    OBVIOUS
  <2>2. w \in ToSet(EntryPut(c, r))
    BY <1>3, <2>1, PutsTyped
  <2> QED BY <1>1, <1>3, <2>1, <2>2
<1> QED BY <1>2, <1>3 DEF Brings

LEMMA ExecArrives ==
  ASSUME Shape, ExecBarrier \/ \E r \in Ranks : ExecChunk(r) \/ ExecSnapshot(r) \/ ExecRestore(r)
  PROVE  Arriving \subseteq Arriving'
<1>1. UNCHANGED disk
  BY ExecCommands
<1>2. ASSUME NEW t \in Ranks, NEW s \in Seq(Command), s = cmds[t], s # <<>>,
             NEW f, NEW c \in Commands(t), Brings(c, t, f),
             cmds'[t] = Tail(s) \/ cmds'[t] = <<[op |-> "flush"]>> \o Tail(s)
      PROVE  c \in Commands(t)' \/ c = s[1]
  <2>1. ToSet(s) = ToSet(Tail(s)) \cup {s[1]} /\ Tail(s) \in Seq(Command)
    BY <1>2, TailSet
  <2>2. ToSet(Tail(s)) \subseteq ToSet(cmds'[t])
    <3>1. <<[op |-> "flush"]>> \in Seq(Command)
      BY DEF Command
    <3>2. PICK u \in Seq(Command) : u = <<[op |-> "flush"]>>
      BY <3>1
    <3>3. PICK v \in Seq(Command) : v = Tail(s)
      BY <2>1
    <3>4. ToSet(u \o v) = ToSet(u) \cup ToSet(v)
      BY ConcatSet
    <3> QED BY <1>2, <3>2, <3>3, <3>4
  <2> QED BY <1>2, <2>1, <2>2 DEF Commands
<1>3. CASE ExecBarrier
  <2>1. ASSUME NEW t \in Ranks, NEW f, NEW c \in Commands(t), Brings(c, t, f) PROVE c \in Commands(t)'
    <3>1. PICK s \in Seq(Command) : s = cmds[t]
      BY DEF Shape
    <3>2. s # <<>> /\ s[1].op = "barrier" /\ cmds'[t] = Tail(s)
      BY <1>3, <3>1, BarrierIs DEF Shape
    <3>3. c # s[1]
      BY <2>1, <3>2 DEF Brings
    <3> QED BY <1>2, <2>1, <3>1, <3>2, <3>3
  <2>2. UNCHANGED wq
    BY <1>3 DEF ExecBarrier
  <2> QED BY <1>1, <2>1, <2>2 DEF Arriving, Arrives, Queued
<1>4. ASSUME NEW r \in Ranks, ExecRestore(r) PROVE Arriving \subseteq Arriving'
  <2>1. PICK s \in Seq(Command) : s = cmds[r]
    BY DEF Shape
  <2>2. /\ s # <<>> /\ s[1].op \in {"restore", "flush"} /\ cmds'[r] = Tail(s)
        /\ (\A t \in Ranks : t # r => cmds'[t] = cmds[t]) /\ UNCHANGED wq
    <3>1. s # <<>> /\ s[1].op \in {"restore", "flush"} /\ Executed(r) /\ UNCHANGED wq
      BY <1>4, <2>1 DEF ExecRestore, Does
    <3> QED BY <2>1, <3>1, ExecutedIs DEF Shape
  <2>3. ASSUME NEW t \in Ranks, NEW f, NEW c \in Commands(t), Brings(c, t, f) PROVE c \in Commands(t)'
    <3>1. CASE t = r
      <4>1. c # s[1]
        BY <2>2, <2>3 DEF Brings
      <4> QED BY <1>2, <2>1, <2>2, <2>3, <3>1, <4>1
    <3>2. CASE t # r
      BY <2>2, <2>3, <3>2 DEF Commands
    <3> QED BY <3>1, <3>2
  <2> QED BY <1>1, <2>2, <2>3 DEF Arriving, Arrives, Queued
<1>5. ASSUME NEW r \in Ranks, ExecChunk(r) \/ ExecSnapshot(r) PROVE Arriving \subseteq Arriving'
  <2>1. PICK s \in Seq(Command) : s = cmds[r]
    BY DEF Shape
  <2>2. PICK c \in Command : c = s[1] /\ c.op \in {"chunk", "snapshot"}
    <3>1. CASE ExecChunk(r)
      BY <2>1, <3>1, ExecChunkIs DEF Shape
    <3>2. CASE ExecSnapshot(r)
      BY <2>1, <3>2, ExecSnapshotIs DEF Shape
    <3> QED BY <1>5, <3>1, <3>2
  <2>3. /\ s # <<>> /\ (cmds'[r] = Tail(s) \/ cmds'[r] = <<[op |-> "flush"]>> \o Tail(s))
        /\ \A t \in Ranks : t # r => cmds'[t] = cmds[t] /\ wq'[t] = wq[t]
    <3>1. CASE ExecChunk(r)
      <4>1. s # <<>> /\ Executed(r) /\ \A t \in Ranks : t # r => wq'[t] = wq[t]
        BY <2>1, <3>1, ExecChunkIs DEF Shape
      <4> QED BY <2>1, <4>1, ExecutedIs DEF Shape
    <3>2. CASE ExecSnapshot(r)
      BY <2>1, <3>2, ExecSnapshotIs DEF Shape
    <3> QED BY <1>5, <3>1, <3>2
  <2>4. Queued(r) \subseteq Queued(r)' /\ \A f : Brings(c, r, f) => \E w \in Queued(r)' : w.file = f
    <3>1. CASE ExecChunk(r)
      <4>1. ToSet(wq'[r]) = ToSet(wq[r]) \cup ToSet(BlockPut(c, r)) \cup ToSet(EntryPut(c, r))
        BY <2>1, <2>2, <3>1, ExecChunkIs DEF Shape
      <4> QED BY <2>2, <4>1, PutsArrive DEF Queued
    <3>2. CASE ExecSnapshot(r)
      <4>1. PICK v : v = File("ent", c.key, r, c.ids)
        OBVIOUS
      <4>2. ToSet(wq'[r]) = ToSet(wq[r]) \cup {v} /\ c.op = "snapshot"
        BY <2>1, <2>2, <3>2, <4>1, ExecSnapshotIs DEF Shape
      <4>3. ASSUME NEW f, Brings(c, r, f) PROVE v.file = f
        BY <4>1, <4>2, <4>3 DEF Brings, File
      <4> QED BY <4>2, <4>3 DEF Queued
    <3> QED BY <1>5, <3>1, <3>2
  <2>5. ASSUME NEW f, NEW t \in Ranks, NEW d \in Commands(t), Brings(d, t, f)
        PROVE  d \in Commands(t)' \/ \E w \in Queued(t)' : w.file = f
    <3>1. CASE t = r
      <4>1. s = cmds[t] /\ s # <<>> /\ (cmds'[t] = Tail(s) \/ cmds'[t] = <<[op |-> "flush"]>> \o Tail(s))
        BY <2>1, <2>3, <3>1
      <4>2. d \in Commands(t)' \/ d = s[1]
        BY <1>2, <2>5, <4>1
      <4>3. d = c => \E w \in Queued(t)' : w.file = f
        BY <2>4, <2>5, <3>1
      <4> QED BY <2>2, <4>2, <4>3
    <3>2. CASE t # r
      BY <2>3, <2>5, <3>2 DEF Commands
    <3> QED BY <3>1, <3>2
  <2>6. \A t \in Ranks : Queued(t) \subseteq Queued(t)'
    BY <2>3, <2>4 DEF Queued
  <2>7. ASSUME NEW f, Arrives(f) PROVE Arrives(f)'
    BY <1>1, <2>5, <2>6, <2>7 DEF Arrives
  <2> QED BY <2>7 DEF Arriving
<1> QED BY <1>3, <1>4, <1>5

LEMMA WriteArrives ==
  ASSUME Shape, NEW r \in Ranks, Write(r)
  PROVE  DOMAIN disk \subseteq DOMAIN disk' /\ Arriving \subseteq Arriving'
<1>1. PICK w : w = wq[r][1]
  OBVIOUS
<1>2. UNCHANGED cmds /\ ToSet(wq[r]) = ToSet(wq'[r]) \cup {w} /\ (\A s \in Ranks : s # r => wq'[s] = wq[s])
      /\ disk' = With(disk, w.file, w.content)
  BY <1>1, WriteIs DEF Shape
<1>3. DOMAIN disk' = DOMAIN disk \cup {w.file}
  BY <1>2 DEF With
<1>4. \A t \in Ranks : \A v \in Queued(t) : v \in Queued(t)' \/ v = w
  BY <1>2 DEF Queued
<1>5. \A f : Arrives(f) => Arrives(f)'
  BY <1>2, <1>3, <1>4 DEF Arrives, Commands
<1> QED BY <1>3, <1>5 DEF Arriving

LEMMA StillStaged ==
  ASSUME NEW p \in Prefill, Slots(p), NEW A, NEW B, NEW C, NEW D, Staged(p, A, C),
         \A f \in A : Mine(p, f) => f \in B, \A f \in C : Mine(p, f) => f \in D
  PROVE  Staged(p, B, D)
<1>1. /\ p.chunks \in Seq(Chunk) /\ p.new \in Seq(Blocks) /\ p.ents \in Seq(Entry) /\ p.key \in Keys \cup {0}
      /\ \A j \in 1..Len(p.chunks) : p.chunks[j] \in Chunk
      /\ p.k \in Nat /\ p.k <= Len(p.chunks) /\ Len(p.chunks) \in Nat
  BY FieldsOf DEF Placed
<1>2. \A b, r : /\ IsBlock(<<"blk", b, r>>) /\ <<"blk", b, r>>[2] = b
                /\ IsBlock(<<"rows", b, r>>) /\ <<"rows", b, r>>[2] = b
                /\ ~IsBlock(<<"ent", b, r>>) /\ <<"ent", b, r>>[2] = b
                /\ ~IsBlock(<<"tail", b, r>>) /\ <<"tail", b, r>>[2] = b
  BY DEF IsBlock
<1>3. ASSUME NEW j \in 1..Len(p.chunks), IsSent(p, j), NEW r \in Ranks
      PROVE  /\ p.chunks[j].block # 0 => <<"blk", p.chunks[j].block, r>> \in B
             /\ p.chunks[j].key # 0 => <<"ent", p.chunks[j].key, r>> \in B
  <2>1. PICK c \in Chunk : c = p.chunks[j]
    BY <1>1
  <2>2. c.block \in Blocks \cup {0} /\ c.key \in Keys \cup {0}
    BY DEF Chunk
  <2>3. c.block # 0 => Mine(p, <<"blk", c.block, r>>)
    BY <1>2, <2>1, <2>2 DEF Mine, HasBlock
  <2>4. c.key # 0 => Mine(p, <<"ent", c.key, r>>)
    BY <1>2, <2>1, <2>2 DEF Mine, HasKey
  <2>5. (c.block # 0 => <<"blk", c.block, r>> \in A) /\ (c.key # 0 => <<"ent", c.key, r>> \in A)
    BY <1>3, <2>1 DEF Staged
  <2> QED BY <2>1, <2>3, <2>4, <2>5
<1>4. ASSUME p.key # 0, NEW r \in Ranks PROVE <<"ent", p.key, r>> \in B
  <2>1. Mine(p, <<"ent", p.key, r>>)
    BY <1>1, <1>2, <1>4 DEF Mine, HasKey
  <2> QED BY <1>4, <2>1 DEF Staged
<1>5. ASSUME NEW b \in ToSet(p.new) PROVE <<"rows", b, 0>> \in D
  <2>1. b \in Blocks
    BY <1>1, AsSet
  <2>2. PICK j \in 1..p.k : p.chunks[j].block = b
    BY <2>1 DEF Slots, OwnBlocks
  <2>3. j \in 1..Len(p.chunks)
    BY <1>1
  <2>4. Mine(p, <<"rows", b, 0>>)
    BY <1>2, <2>1, <2>2, <2>3 DEF Mine, HasBlock
  <2> QED BY <2>4 DEF Staged
<1>6. ASSUME NEW m \in 1..Len(p.ents) PROVE <<"tail", p.ents[m].key, 0>> \in D
  <2>1. PICK e \in Entry : e = p.ents[m]
    BY <1>1, ElementOfSeq
  <2>2. e.key \in Keys
    BY DEF Entry
  <2>3. HasKey(p, e.key)
    BY <2>1, PendsHas DEF Pends
  <2>4. Mine(p, <<"tail", e.key, 0>>)
    BY <1>2, <2>2, <2>3 DEF Mine
  <2> QED BY <2>1, <2>4 DEF Staged
<1> QED BY <1>3, <1>4, <1>5, <1>6 DEF Staged

LEMMA MoreStaged ==
  ASSUME NEW p, NEW A, NEW B, NEW C, NEW D, A \subseteq B, C \subseteq D, Staged(p, A, C)
  PROVE  Staged(p, B, D)
BY DEF Staged

(* The running prefill moves on.                                           *)
LEMMA StepStage ==
  ASSUME StageInv, Steps, UNCHANGED <<failed, skipped>>,
         Arriving \subseteq Arriving', DOMAIN disk \subseteq DOMAIN disk',
         Staged(run, Arriving', DOMAIN disk') => Staged(run', Arriving', DOMAIN disk')
  PROVE  StageInv'
<1>1. SUFFICES ASSUME ~failed PROVE AllStaged'
  BY DEF StageInv
<1>2. PICK n \in Nat \ {0} : n = Len(stack) /\ n = Len(stack') /\ stack'[n] = run' /\ stack[n] = run
  BY DEF Steps
<1>3. \A i \in 1..n : i # n => i \in 1..(n - 1)
  OBVIOUS
<1>4. \A i \in 1..(n - 1) : stack'[i] = stack[i] /\ i \in 1..n
  BY <1>2 DEF Steps
<1>5. \A i \in 1..n : Staged(stack[i], Arriving, DOMAIN disk)
  BY <1>1, <1>2 DEF StageInv, AllStaged
<1>6. \A i \in 1..n : Staged(stack[i], Arriving', DOMAIN disk')
  BY <1>5, MoreStaged
<1>7. n \in 1..n
  OBVIOUS
<1>8. \A i \in 1..n : Staged(stack'[i], Arriving', DOMAIN disk')
  BY <1>2, <1>3, <1>4, <1>6, <1>7
<1> QED BY <1>2, <1>8 DEF AllStaged

LEMMA SameStage ==
  ASSUME StageInv, UNCHANGED <<stack, failed, skipped>>,
         Arriving \subseteq Arriving', DOMAIN disk \subseteq DOMAIN disk'
  PROVE  StageInv'
<1>1. \A i \in 1..Len(stack) : Staged(stack[i], Arriving, DOMAIN disk) => Staged(stack[i], Arriving', DOMAIN disk')
  BY MoreStaged
<1> QED BY <1>1 DEF StageInv, AllStaged

(* It ends: the suspended one keeps its files.                             *)
LEMMA PopStage ==
  ASSUME Shape, SlotInv, StageInv, Pops, UNCHANGED <<failed, skipped, disk>>,
         \A i \in 1..Len(stack') : \A f \in Arriving : Mine(stack[i], f) => f \in Arriving'
  PROVE  StageInv'
<1>1. SUFFICES ASSUME ~failed, NEW i \in 1..Len(stack') PROVE Staged(stack'[i], Arriving', DOMAIN disk')
  BY DEF StageInv, AllStaged
<1>2. stack'[i] = stack[i] /\ i \in 1..Len(stack)
  BY DEF Pops
<1>3. PICK p \in Prefill : p = stack[i]
  BY <1>2 DEF Shape
<1>4. Slots(p) /\ Staged(p, Arriving, DOMAIN disk)
  BY <1>1, <1>2, <1>3 DEF SlotInv, StageInv, AllStaged
<1>5. \A f \in Arriving : Mine(p, f) => f \in Arriving'
  BY <1>3
<1>6. \A f \in DOMAIN disk : Mine(p, f) => f \in DOMAIN disk'
  OBVIOUS
<1> QED BY <1>2, <1>3, <1>4, <1>5, <1>6, StillStaged

LEMMA SentArrives ==
  ASSUME Shape, NEW c \in Command, Submit(c), UNCHANGED <<disk, wq>>
  PROVE  \A r \in Ranks :
           /\ c.op = "chunk" /\ c.block # 0 => <<"blk", c.block, r>> \in Arriving'
           /\ c.op \in {"chunk", "snapshot"} /\ c.key # 0 => <<"ent", c.key, r>> \in Arriving'
<1>1. ASSUME NEW r \in Ranks, c.op = "chunk", c.block # 0 PROVE <<"blk", c.block, r>> \in Arriving'
  <2>1. c.block \in Blocks
    BY <1>1, PutsTyped
  <2>2. <<"blk", c.block, r>> \in FileNames
    BY <2>1 DEF FileNames
  <2>3. Brings(c, r, <<"blk", c.block, r>>)
    BY <1>1 DEF Brings
  <2> QED BY <2>2, <2>3, SubmitArrives DEF Shape
<1>2. ASSUME NEW r \in Ranks, c.op \in {"chunk", "snapshot"}, c.key # 0 PROVE <<"ent", c.key, r>> \in Arriving'
  <2>1. c.key \in Keys
    BY <1>2, PutsTyped
  <2>2. <<"ent", c.key, r>> \in FileNames
    BY <2>1 DEF FileNames
  <2>3. Brings(c, r, <<"ent", c.key, r>>)
    BY <1>2 DEF Brings
  <2> QED BY <2>2, <2>3, SubmitArrives DEF Shape
<1> QED BY <1>1, <1>2

LEMMA SubmitStage ==
  ASSUME Shape, UNCHANGED <<disk, wq>>, UNCHANGED cmds \/ \E c \in Command : Submit(c)
  PROVE  Arriving \subseteq Arriving' /\ DOMAIN disk \subseteq DOMAIN disk'
<1>1. CASE UNCHANGED cmds
  BY <1>1, DiskArrives
<1>2. CASE \E c \in Command : Submit(c)
  BY <1>2, SubmitArrives DEF Shape
<1> QED BY <1>1, <1>2

LEMMA NothingStaged ==
  ASSUME NEW p, NEW A, NEW D, p.chunks = <<>>, p.new = <<>>, p.ents = <<>>, p.key = 0
  PROVE  Staged(p, A, D)
<1>1. Len(<<>>) = 0 /\ ToSet(<<>>) = {} /\ 1..0 = {}
  BY DEF ToSet
<1> QED BY <1>1 DEF Staged

LEMMA OpenStage ==
  ASSUME Shape, StageInv, NEW ids \in Prompts, Open(ids)
  PROVE  StageInv'
<1>1. /\ Pushes /\ run'.chunks = <<>> /\ run'.new = <<>> /\ run'.ents = <<>> /\ run'.key = 0
      /\ UNCHANGED cmds \/ \E c \in Command : Submit(c)
      /\ UNCHANGED <<disk, wq, failed, skipped>>
  BY OpenIs DEF history
<1>2. Arriving \subseteq Arriving' /\ DOMAIN disk \subseteq DOMAIN disk'
  BY <1>1, SubmitStage
<1>3. SUFFICES ASSUME ~failed PROVE AllStaged'
  BY <1>1 DEF StageInv
<1>4. PICK n \in Nat : n = Len(stack) /\ n + 1 = Len(stack') /\ stack'[n + 1] = run'
  BY <1>1 DEF Pushes
<1>5. \A i \in 1..(n + 1) : i # n + 1 => i \in 1..n /\ stack'[i] = stack[i]
  BY <1>1, <1>4 DEF Pushes
<1>6. \A i \in 1..n : Staged(stack[i], Arriving, DOMAIN disk)
  BY <1>3, <1>4 DEF StageInv, AllStaged
<1>7. \A i \in 1..n : Staged(stack[i], Arriving', DOMAIN disk')
  BY <1>2, <1>6, MoreStaged
<1>8. Staged(run', Arriving', DOMAIN disk')
  BY <1>1, NothingStaged
<1>9. \A i \in 1..(n + 1) : Staged(stack'[i], Arriving', DOMAIN disk')
  BY <1>4, <1>5, <1>7, <1>8
<1> QED BY <1>4, <1>9 DEF AllStaged

LEMMA RestoredStage ==
  ASSUME Shape, StageInv, Restored \/ RestoreFails
  PROVE  StageInv'
<1>1. /\ Steps /\ run'.chunks = <<>> /\ run'.new = <<>> /\ run'.ents = <<>> /\ run'.key = 0
      /\ UNCHANGED <<disk, cmds, wq, failed, skipped>>
  BY RestoredIs DEF ranks
<1>2. Staged(run', Arriving', DOMAIN disk')
  BY <1>1, NothingStaged
<1>3. Arriving \subseteq Arriving' /\ DOMAIN disk \subseteq DOMAIN disk'
  BY <1>1, SubmitStage
<1> QED BY <1>1, <1>2, <1>3, StepStage

(* A chunk's files arrive once its command is sent.                        *)
LEMMA ChunkArrives ==
  ASSUME Shape, NEW c \in Command, Submit(c), UNCHANGED <<disk, wq>>,
         NEW p \in Prefill, NEW k \in 1..Len(p.chunks), c = ChunkCmd(p, k)
  PROVE  \A r \in Ranks : /\ p.chunks[k].block # 0 => <<"blk", p.chunks[k].block, r>> \in Arriving'
                          /\ p.chunks[k].key # 0 => <<"ent", p.chunks[k].key, r>> \in Arriving'
<1>1. c.op = "chunk" /\ c.block = p.chunks[k].block /\ c.key = p.chunks[k].key
  BY ChunkCmdIs
<1> QED BY <1>1, SentArrives

LEMMA PlanStage ==
  ASSUME Shape, StageInv, Plan
  PROVE  StageInv'
<1>1. /\ Steps /\ run'.pc = (IF run'.chunks = <<>> THEN "end" ELSE "wait")
      /\ run'.k = 0 /\ run'.new = <<>> /\ run'.ents = <<>> /\ run'.key = 0
      /\ IF run'.chunks = <<>> THEN UNCHANGED cmds
         ELSE \E c \in Command : 1 \in 1..Len(run'.chunks) /\ c = ChunkCmd(run', 1) /\ Submit(c)
      /\ UNCHANGED <<disk, wq, failed, skipped>>
  BY PlanActs DEF history
<1>2. Arriving \subseteq Arriving' /\ DOMAIN disk \subseteq DOMAIN disk'
  BY <1>1, SubmitStage
<1>3. PICK q \in Prefill : q = run'
  BY <1>1 DEF Steps
<1>4. Staged(q, Arriving', DOMAIN disk')
  <2>1. CASE q.chunks = <<>>
    BY <1>1, <1>3, <2>1, NothingStaged
  <2>2. CASE q.chunks # <<>>
    <3>1. PICK c \in Command : 1 \in 1..Len(q.chunks) /\ c = ChunkCmd(q, 1) /\ Submit(c)
      BY <1>1, <1>3, <2>2
    <3>2. \A r \in Ranks : /\ q.chunks[1].block # 0 => <<"blk", q.chunks[1].block, r>> \in Arriving'
                           /\ q.chunks[1].key # 0 => <<"ent", q.chunks[1].key, r>> \in Arriving'
      BY <1>1, <3>1, ChunkArrives
    <3>3. \A j \in 1..Len(q.chunks) : IsSent(q, j) => j = 1
      BY <1>1, <1>3, <2>2, FieldsOf DEF IsSent
    <3>4. ToSet(<<>>) = {} /\ Len(<<>>) = 0 /\ 1..0 = {}
      BY DEF ToSet
    <3> QED BY <1>1, <1>3, <3>2, <3>3, <3>4 DEF Staged
  <2> QED BY <2>1, <2>2
<1> QED BY <1>1, <1>2, <1>3, <1>4, StepStage

LEMMA ContinueStage ==
  ASSUME Shape, StageInv, Continue
  PROVE  StageInv'
<1>1. /\ Steps /\ run.pc = "wait" /\ run'.pc = "rows" /\ run'.chunks = run.chunks /\ run'.k = run.k
      /\ run'.new = run.new /\ run'.ents = run.ents /\ run'.key = run.key
      /\ run.k + 1 \in 1..Len(run.chunks)
      /\ IF run.k + 1 < Len(run.chunks)
         THEN \E c \in Command : run.k + 2 \in 1..Len(run.chunks) /\ c = ChunkCmd(run, run.k + 2) /\ Submit(c)
         ELSE UNCHANGED cmds
      /\ UNCHANGED <<disk, wq, failed, skipped>>
  BY ContinueIs DEF history
<1>2. Arriving \subseteq Arriving' /\ DOMAIN disk \subseteq DOMAIN disk'
  BY <1>1, SubmitStage
<1>3. PICK p \in Prefill : p = run
  BY <1>1 DEF Steps
<1>4. PICK q \in Prefill : q = run'
  BY <1>1 DEF Steps
<1>5. p.k \in Nat /\ Len(p.chunks) \in Nat
  BY FieldsOf
<1>6. ASSUME p.k + 2 \in 1..Len(p.chunks)
      PROVE  \A r \in Ranks : /\ p.chunks[p.k + 2].block # 0 => <<"blk", p.chunks[p.k + 2].block, r>> \in Arriving'
                              /\ p.chunks[p.k + 2].key # 0 => <<"ent", p.chunks[p.k + 2].key, r>> \in Arriving'
  <2>1. p.k + 1 < Len(p.chunks)
    BY <1>5, <1>6
  <2>2. PICK c \in Command : c = ChunkCmd(p, p.k + 2) /\ Submit(c)
    BY <1>1, <1>3, <2>1
  <2>3. PICK k \in 1..Len(p.chunks) : k = p.k + 2
    BY <1>6
  <2>4. c = ChunkCmd(p, k)
    BY <2>2, <2>3
  <2> QED BY <1>1, <2>2, <2>3, <2>4, ChunkArrives
<1>7. \A j \in 1..Len(p.chunks) : IsSent(q, j) => IsSent(p, j) \/ j = p.k + 2
  BY <1>1, <1>3, <1>4, <1>5 DEF IsSent
<1>8. Staged(p, Arriving', DOMAIN disk') => Staged(q, Arriving', DOMAIN disk')
  BY <1>1, <1>3, <1>4, <1>6, <1>7 DEF Staged
<1> QED BY <1>1, <1>2, <1>3, <1>4, <1>8, StepStage

LEMMA GridDoneStage ==
  ASSUME Shape, StageInv, GridDone
  PROVE  StageInv'
<1>1. Steps /\ run.pc = "rows" /\ run' = Saved(run) /\ disk' = RowsSaved(run)
      /\ UNCHANGED <<cmds, wq, failed, skipped>>
  BY GridDoneIs DEF Shape, ranks, history
<1>2. PICK p \in Prefill : p = run /\ p.pc = "rows"
  BY <1>1 DEF Steps
<1>3. PICK q \in Prefill : q = Saved(p)
  BY <1>2, SavedIs
<1>4. PICK c \in Chunk : c = p.chunks[p.k + 1] /\ p.k + 1 \in 1..Len(p.chunks)
  BY <1>2, SavedIs
<1>5. PICK d : d = RowsSaved(p)
  OBVIOUS
<1>6. PICK e : e = [key |-> c.key, tokens |-> Prefix(p.ids, c.end), blocks |-> q.blocks, capture |-> FALSE]
  OBVIOUS
<1>7. /\ q.chunks = p.chunks /\ q.key = p.key /\ q.k = p.k + 1 /\ q.pc = (IF p.k + 1 < Len(p.chunks) THEN "wait" ELSE "end")
      /\ q.new = (IF c.block = 0 THEN p.new ELSE Append(p.new, c.block))
      /\ q.ents = (IF c.key = 0 THEN p.ents ELSE Append(p.ents, e)) /\ (c.key # 0 => e \in Entry) /\ e.key = c.key
  <2>1. /\ q.chunks = p.chunks /\ q.key = 0 /\ p.key = 0 /\ q.k = p.k + 1
        /\ q.pc = (IF p.k + 1 < Len(p.chunks) THEN "wait" ELSE "end")
    BY <1>2, <1>3, SavedIs
  <2>2. /\ q.new = (IF c.block = 0 THEN p.new ELSE Append(p.new, c.block))
        /\ q.ents = (IF c.key = 0 THEN p.ents ELSE Append(p.ents, e))
        /\ (c.key # 0 => e \in Entry)
    BY <1>2, <1>3, <1>4, <1>6, SavedIs
  <2>3. e.key = c.key
    BY <1>6
  <2> QED BY <2>1, <2>2, <2>3
<1>8. DoneChunk(p) = c /\ RowsFile(p) = <<"rows", c.block, 0>> /\ TailFile(p) = <<"tail", c.key, 0>>
  BY <1>4 DEF DoneChunk, RowsFile, TailFile
<1>9. DOMAIN d = DOMAIN disk \cup (IF c.block = 0 THEN {} ELSE {<<"rows", c.block, 0>>})
                             \cup (IF c.key = 0 THEN {} ELSE {<<"tail", c.key, 0>>})
  BY <1>5, <1>8, RowsSavedParts
<1>10. disk' = d
  BY <1>1, <1>2, <1>5
<1>11. DOMAIN disk \subseteq DOMAIN disk' /\ Arriving \subseteq Arriving'
  BY <1>1, <1>9, <1>10, DiskArrives
<1>12. p.k \in Nat /\ Len(p.chunks) \in Nat /\ p.new \in Seq(Blocks) /\ p.ents \in Seq(Entry) /\ Len(p.ents) \in Nat
       /\ c.block \in Blocks \cup {0}
  BY FieldsOf DEF Chunk
<1>13. \A j \in 1..Len(p.chunks) : IsSent(q, j) => IsSent(p, j)
  BY <1>2, <1>7, <1>12 DEF IsSent
<1>14. ASSUME Staged(p, Arriving', DOMAIN d) PROVE Staged(q, Arriving', DOMAIN d)
  <2>1. ASSUME NEW b \in ToSet(q.new) PROVE <<"rows", b, 0>> \in DOMAIN d
    <3>1. b \in ToSet(p.new) \/ (c.block # 0 /\ b = c.block)
      BY <1>7, <1>12, <2>1, AppendSet
    <3> QED BY <1>9, <1>14, <3>1 DEF Staged
  <2>2. ASSUME NEW m \in 1..Len(q.ents) PROVE <<"tail", q.ents[m].key, 0>> \in DOMAIN d
    <3>1. CASE c.key = 0
      BY <1>7, <1>14, <2>2, <3>1 DEF Staged
    <3>2. CASE c.key # 0
      <4>1. PICK n \in Nat : n = Len(p.ents)
        BY <1>12
      <4>2. Len(q.ents) = n + 1 /\ q.ents[n + 1] = e /\ \A i \in 1..n : q.ents[i] = p.ents[i]
        BY <1>7, <1>12, <3>2, <4>1, AppendLast
      <4>3. m = n + 1 \/ m \in 1..n
        BY <2>2, <4>2
      <4>4. m \in 1..n => <<"tail", q.ents[m].key, 0>> \in DOMAIN d
        BY <1>14, <4>1, <4>2 DEF Staged
      <4>5. m = n + 1 => q.ents[m].key = c.key
        BY <1>7, <4>2
      <4> QED BY <1>9, <3>2, <4>3, <4>4, <4>5
    <3> QED BY <3>1, <3>2
  <2> QED BY <1>7, <1>13, <1>14, <2>1, <2>2 DEF Staged
<1> QED BY <1>1, <1>2, <1>3, <1>10, <1>11, <1>14, StepStage

LEMMA SnapshotStage ==
  ASSUME Shape, StageInv, Snapshot
  PROVE  StageInv'
<1>1. /\ Steps /\ run.pc = "end" /\ run'.pc \in {"snap", "barrier"} /\ run'.chunks = run.chunks
      /\ run'.new = run.new /\ run'.ents = run.ents
      /\ \E c \in Command : Submit(c) /\ (run'.key = 0 \/ (c.op = "snapshot" /\ c.key = run'.key))
      /\ UNCHANGED <<disk, wq, failed, skipped>>
  BY SnapshotIs DEF history
<1>2. Arriving \subseteq Arriving' /\ DOMAIN disk \subseteq DOMAIN disk'
  BY <1>1, SubmitStage
<1>3. PICK p \in Prefill : p = run
  BY <1>1 DEF Steps
<1>4. PICK q \in Prefill : q = run'
  BY <1>1 DEF Steps
<1>5. q.key # 0 => \A r \in Ranks : <<"ent", q.key, r>> \in Arriving'
  <2>1. PICK c \in Command : Submit(c) /\ (q.key = 0 \/ (c.op = "snapshot" /\ c.key = q.key))
    BY <1>1, <1>4
  <2>2. \A r \in Ranks : c.op \in {"chunk", "snapshot"} /\ c.key # 0 => <<"ent", c.key, r>> \in Arriving'
    BY <1>1, <2>1, SentArrives
  <2> QED BY <2>1, <2>2
<1>6. \A j : IsSent(p, j)
  BY <1>1, <1>3 DEF IsSent
<1>7. Staged(p, Arriving', DOMAIN disk') => Staged(q, Arriving', DOMAIN disk')
  BY <1>1, <1>3, <1>4, <1>5, <1>6 DEF Staged
<1> QED BY <1>1, <1>2, <1>3, <1>4, <1>7, StepStage

LEMMA SaveTailStage ==
  ASSUME Shape, StageInv, SaveTail
  PROVE  StageInv'
<1>1. /\ Steps /\ run.pc = "snap" /\ run'.pc = "barrier" /\ run'.chunks = run.chunks
      /\ run'.new = run.new /\ run'.key = run.key
      /\ \E e \in Entry : e.key = run.key /\ run'.ents = Append(run.ents, e)
      /\ disk' = With(disk, <<"tail", run.key, 0>>, run.ids)
      /\ \E c \in Command : Submit(c)
      /\ UNCHANGED <<wq, failed, skipped>>
  BY SaveTailIs DEF history
<1>2. PICK p \in Prefill : p = run
  BY <1>1 DEF Steps
<1>3. PICK q \in Prefill : q = run'
  BY <1>1 DEF Steps
<1>4. PICK e \in Entry : e.key = p.key /\ q.ents = Append(p.ents, e)
  BY <1>1, <1>2, <1>3
<1>5. DOMAIN disk' = DOMAIN disk \cup {<<"tail", p.key, 0>>}
  BY <1>1, <1>2 DEF With
<1>6. Arriving \subseteq Arriving'
  <2>1. PICK c \in Command : Submit(c)
    BY <1>1
  <2>2. \A r \in Ranks : Commands(r)' = Commands(r) \cup {c}
    BY <2>1, SubmitIs DEF Commands, Shape
  <2>3. \A f : Arrives(f) => Arrives(f)'
    BY <1>1, <1>5, <2>2 DEF Arrives, Queued
  <2> QED BY <2>3 DEF Arriving
<1>7. \A j : IsSent(p, j)
  BY <1>1, <1>2 DEF IsSent
<1>8. ASSUME Staged(p, Arriving', DOMAIN disk') PROVE Staged(q, Arriving', DOMAIN disk')
  <2>1. PICK n \in Nat : n = Len(p.ents)
    BY FieldsOf
  <2>2. Len(q.ents) = n + 1 /\ q.ents[n + 1] = e /\ \A m \in 1..n : q.ents[m] = p.ents[m]
    BY <1>4, <2>1, FieldsOf, AppendLast
  <2>3. \A m \in 1..(n + 1) : m = n + 1 \/ m \in 1..n
    OBVIOUS
  <2>4. \A m \in 1..(n + 1) : <<"tail", q.ents[m].key, 0>> \in DOMAIN disk'
    <3>1. <<"tail", q.ents[n + 1].key, 0>> \in DOMAIN disk'
      BY <1>4, <1>5, <2>2
    <3>2. \A m \in 1..n : <<"tail", q.ents[m].key, 0>> \in DOMAIN disk'
      BY <1>8, <2>1, <2>2, Zenon DEF Staged
    <3> QED BY <2>3, <3>1, <3>2, Zenon
  <2>5. q.chunks = p.chunks /\ q.new = p.new /\ q.key = p.key
    BY <1>1, <1>2, <1>3
  <2>6. \A m \in 1..Len(q.ents) : <<"tail", q.ents[m].key, 0>> \in DOMAIN disk'
    BY <2>2, <2>4, Zenon
  <2>7. \A j : IsSent(q, j) => IsSent(p, j)
    BY <1>7, Zenon
  <2> QED BY <1>8, <2>5, <2>6, <2>7, Zenon DEF Staged
<1>9. DOMAIN disk \subseteq DOMAIN disk'
  BY <1>5
<1> QED BY <1>1, <1>2, <1>3, <1>6, <1>8, <1>9, StepStage

(* With nothing failed, an entry has its files when the barrier is through.*)
LEMMA RegisterComplete ==
  ASSUME Shape, Proto, SlotInv, EntryInv, HeldInv, AllStaged, Register
  PROVE  Complete(Head(run.ents))
<1>1. /\ Steps /\ run.pc = "barrier" /\ cmds[0] = <<>> /\ run.ents # <<>>
      /\ Head(run.ents) \in Entry /\ Head(run.ents) = run.ents[1]
      /\ Named(run, Head(run.ents).key)
  BY RegisterIs, RegisterSlot
<1>2. PICK p \in Prefill : p = run /\ p.pc = "barrier"
  BY <1>1 DEF Steps
<1>3. PICK e \in Entry : e = p.ents[1] /\ e = Head(run.ents)
  BY <1>1, <1>2
<1>4. Arriving \subseteq DOMAIN disk
  <2>1. \A r \in Ranks : cmds[r] = <<>> /\ wq[r] = <<>>
    BY <1>1, BarrierIdle DEF Steps
  <2>2. ToSet(<<>>) = {}
    BY DEF ToSet
  <2> QED BY <2>1, <2>2 DEF Arriving, Arrives, Queued, Commands
<1>5. Staged(p, Arriving, DOMAIN disk) /\ Held(p, Shared) /\ Slots(p)
  BY <1>1, <1>2 DEF AllStaged, HeldInv, SlotInv, Steps
<1>6. p.k \in Nat /\ Len(p.chunks) \in Nat /\ p.k <= Len(p.chunks) /\ 1 \in 1..Len(p.ents)
  <2>1. Len(p.ents) \in Nat \ {0}
    BY <1>1, <1>2, FieldsOf, EmptySeq
  <2> QED BY <2>1, FieldsOf DEF Placed
<1>7. e.key \in Keys /\ e.blocks \in Seq(Blocks)
  BY DEF Entry
<1>8. \A j : IsSent(p, j)
  BY <1>2 DEF IsSent
<1>9. \A r \in Ranks : <<"ent", e.key, r>> \in DOMAIN disk
  <2>1. CASE p.key = e.key
    BY <1>4, <1>5, <1>7, <2>1, FreeTypes DEF Staged
  <2>2. ASSUME NEW j \in 1..p.k, p.chunks[j].key = e.key PROVE \A r \in Ranks : <<"ent", e.key, r>> \in DOMAIN disk
    <3>1. j \in 1..Len(p.chunks) /\ p.chunks[j].key # 0
      BY <1>6, <1>7, <2>2, FreeTypes
    <3> QED BY <1>4, <1>5, <1>8, <2>2, <3>1 DEF Staged
  <2> QED BY <1>1, <1>2, <1>3, <2>1, <2>2 DEF Named
<1>10. <<"tail", e.key, 0>> \in DOMAIN disk
  BY <1>3, <1>5, <1>6 DEF Staged
<1>11. Of({e.key}, {}) \ {IdxFile(e.key)} \subseteq DOMAIN disk
  BY <1>7, <1>9, <1>10, KeyNames DEF IdxFile, Ranks
<1>12. ASSUME NEW f \in Of({}, ToSet(e.blocks) \cap Unused) PROVE f \in DOMAIN disk
  <2>1. PICK b \in Blocks : b = f[2] /\ b \in ToSet(e.blocks) /\ refs[b] = 0 /\ f \in Of({}, {b})
    BY <1>12 DEF Of, Unused
  <2>2. b \notin Shared
    BY <2>1, UnusedBlock DEF Shared, EntryInv
  <2>3. b \in ToSet(p.new)
    BY <1>3, <1>5, <1>6, <2>1, <2>2 DEF Held
  <2>4. PICK j \in 1..p.k : p.chunks[j].block = b
    BY <1>5, <2>3 DEF Slots, OwnBlocks
  <2>5. j \in 1..Len(p.chunks) /\ p.chunks[j].block # 0
    BY <1>6, <2>4, FreeTypes
  <2>6. \A r \in Ranks : <<"blk", b, r>> \in DOMAIN disk
    BY <1>4, <1>5, <1>8, <2>4, <2>5 DEF Staged
  <2>7. <<"rows", b, 0>> \in DOMAIN disk
    BY <1>5, <2>3 DEF Staged
  <2> QED BY <2>1, <2>6, <2>7, BlockNames DEF Ranks
<1>13. Complete(e)
  BY <1>11, <1>12, CompleteIs
<1> QED BY <1>3, <1>13

LEMMA RegisterStage ==
  ASSUME Shape, Proto, SlotInv, EntryInv, HeldInv, StageInv, Register
  PROVE  StageInv'
<1>1. /\ Steps /\ run'.pc = run.pc /\ run.pc = "barrier" /\ run'.chunks = run.chunks /\ run'.new = run.new
      /\ run'.key = run.key /\ run.ents # <<>> /\ run'.ents = Tail(run.ents)
      /\ UNCHANGED <<cmds, wq, failed>>
  BY RegisterIs DEF ranks
<1>2. CASE failed
  BY <1>1, <1>2 DEF StageInv
<1>3. CASE ~failed
  <2>1. Complete(Head(run.ents))
    BY <1>3, RegisterComplete DEF StageInv
  <2>2. PICK e : disk' = With(disk, <<"idx", e.key, 0>>, e) /\ UNCHANGED skipped
    BY <2>1, RegisterIs
  <2>3. DOMAIN disk \subseteq DOMAIN disk'
    BY <2>2 DEF With
  <2>4. Arriving \subseteq Arriving'
    BY <1>1, <2>3, DiskArrives
  <2>5. PICK p \in Prefill : p = run
    BY <1>1 DEF Steps
  <2>6. PICK q \in Prefill : q = run'
    BY <1>1 DEF Steps
  <2>7. PICK n \in Nat : n = Len(p.ents)
    BY FieldsOf
  <2>8. Len(q.ents) = n - 1 /\ \A m \in 1..(n - 1) : q.ents[m] = p.ents[m + 1] /\ m + 1 \in 1..n
    <3>1. p.ents \in Seq(Entry) /\ p.ents # <<>> /\ q.ents = Tail(p.ents)
      BY <1>1, <2>5, <2>6, FieldsOf
    <3> QED BY <2>7, <3>1, HeadTailProperties
  <2>9. \A j : IsSent(p, j)
    BY <1>1, <2>5 DEF IsSent
  <2>10. ASSUME Staged(p, Arriving', DOMAIN disk') PROVE Staged(q, Arriving', DOMAIN disk')
    <3>1. \A m \in 1..(n - 1) : <<"tail", q.ents[m].key, 0>> \in DOMAIN disk'
      BY <2>7, <2>8, <2>10 DEF Staged
    <3> QED BY <1>1, <2>5, <2>6, <2>8, <2>9, <2>10, <3>1 DEF Staged
  <2> QED BY <1>1, <2>2, <2>3, <2>4, <2>5, <2>6, <2>10, StepStage
<1> QED BY <1>2, <1>3

(* A chunk that raises takes its own command away, no other's.             *)
LEMMA AbortStage ==
  ASSUME Shape, SlotInv, Sends, StageInv, Fail \/ ChunkFails \/ ReplyFails
  PROVE  StageInv'
<1>1. /\ Pops /\ UNCHANGED <<disk, wq, skipped>>
      /\ \/ UNCHANGED cmds
         \/ /\ run.pc = "wait"
            /\ \A r \in Ranks : Len(cmds[r]) = 1 /\ cmds[r] # <<>>
  BY AbortIs
<1>4. CASE failed' = TRUE
  BY <1>4 DEF StageInv
<1>2. CASE UNCHANGED failed /\ UNCHANGED cmds
  <2>1. Arriving \subseteq Arriving'
    BY <1>1, <1>2, DiskArrives
  <2> QED BY <1>1, <1>2, <2>1, PopStage
<1>3. CASE UNCHANGED failed /\ run.pc = "wait" /\ \A r \in Ranks : Len(cmds[r]) = 1 /\ cmds[r] # <<>>
  <2>1. PICK s \in Seq(Command) : s = cmds[1] /\ Len(s) = 1 /\ s # <<>>
    BY <1>3 DEF Shape, Ranks
  <2>2. PICK c \in Command : OfChunk(run, c) /\ cmds[0] = <<c>> /\ LastIs(s, c)
    BY <1>1, <1>3, <2>1 DEF Sends, AtChunk, Pops, Ranks
  <2>3. \A r \in Ranks : \A d \in Commands(r) : d = c
    <3>1. ToSet(<<c>>) = {c}
      BY DEF ToSet
    <3>2. ToSet(s) = {c}
      BY <2>1, <2>2, AsSet DEF LastIs
    <3> QED BY <2>1, <2>2, <3>1, <3>2 DEF Commands, Ranks
  <2>4. ASSUME NEW i \in 1..Len(stack'), NEW f \in Arriving, Mine(stack[i], f) PROVE f \in Arriving'
    <3>1. Apart(stack[i], run)
      BY <1>1, PopSlots
    <3>2. ASSUME NEW r \in Ranks, Brings(c, r, f) PROVE FALSE
      <4>1. \/ IsBlock(f) /\ f[2] = c.block
            \/ ~IsBlock(f) /\ f[2] = c.key
        BY <3>2 DEF Brings, IsBlock
      <4> QED BY <2>2, <2>4, <3>1, <4>1 DEF OfChunk, Mine, Apart
    <3>3. f \in DOMAIN disk \/ \E r \in Ranks : \E w \in Queued(r) : w.file = f
      BY <2>3, <3>2 DEF Arriving, Arrives
    <3> QED BY <1>1, <3>3 DEF Arriving, Arrives, Queued
  <2> QED BY <1>1, <1>3, <2>4, PopStage
<1>5. UNCHANGED failed \/ failed' = TRUE
  BY AbortIs
<1> QED BY <1>1, <1>2, <1>3, <1>4, <1>5

LEMMA FinishStage ==
  ASSUME Shape, SlotInv, StageInv, Finish
  PROVE  StageInv'
<1>1. Pops /\ UNCHANGED <<disk, cmds, wq, failed, skipped>>
  BY FinishIs DEF ranks, history
<1>2. Arriving \subseteq Arriving'
  BY <1>1, DiskArrives
<1> QED BY <1>1, <1>2, PopStage

LEMMA UnlinkStage ==
  ASSUME Shape, SlotInv, EntryInv, HeldInv, StageInv, Unlink
  PROVE  StageInv'
<1>1. UNCHANGED <<stack, cmds, wq, failed, skipped>>
  BY DEF Unlink, ranks, history
<1>2. PICK s \in Seq(FileNames) : s = dead /\ s # <<>> /\ s[1] = Head(dead) /\ s[1] \in ToSet(s)
  <2>1. PICK s \in Seq(FileNames) : s = dead /\ s # <<>>
    BY DEF EntryInv, Stored, Unlink
  <2> QED BY <2>1, TailSet
<1>3. DOMAIN disk' = DOMAIN disk \ {s[1]}
  BY <1>2 DEF Unlink, Without
<1>4. SUFFICES ASSUME ~failed, NEW i \in 1..Len(stack) PROVE Staged(stack[i], Arriving', DOMAIN disk')
  BY <1>1 DEF StageInv, AllStaged
<1>5. PICK p \in Prefill : p = stack[i]
  BY DEF Shape
<1>6. Slots(p) /\ Staged(p, Arriving, DOMAIN disk) /\ Spares(p, ToSet(dead))
  BY <1>4, <1>5 DEF SlotInv, StageInv, AllStaged, HeldInv
<1>7. ~Mine(p, s[1])
  BY <1>2, <1>6 DEF Spares, Mine
<1>8. \A f \in DOMAIN disk : Mine(p, f) => f \in DOMAIN disk'
  BY <1>3, <1>7
<1>9. \A f \in Arriving : Mine(p, f) => f \in Arriving'
  BY <1>1, <1>8 DEF Arriving, Arrives, Queued, Commands
<1> QED BY <1>5, <1>6, <1>8, <1>9, StillStaged

LEMMA NextStage ==
  ASSUME CacheInv, HeldInv, Sends, StageInv, [Next]_vars
  PROVE  StageInv' /\ Sends'
<1>1. Shape /\ Proto /\ SlotInv /\ EntryInv
  BY DEF CacheInv
<1>2. CASE Next
  <2>1. CASE \E ids \in Prompts : Open(ids)
    BY <1>1, <2>1, OpenStage, FrontSends
  <2>2. CASE Restored \/ RestoreFails
    BY <1>1, <2>2, RestoredStage, FrontSends
  <2>3. CASE Plan
    BY <1>1, <2>3, PlanStage, FrontSends
  <2>4. CASE Continue
    BY <1>1, <2>4, ContinueStage, FrontSends
  <2>5. CASE GridDone
    BY <1>1, <2>5, GridDoneStage, FrontSends
  <2>6. CASE Fail \/ ChunkFails \/ ReplyFails
    BY <1>1, <2>6, AbortStage, FrontSends
  <2>7. CASE Snapshot
    BY <1>1, <2>7, SnapshotStage, FrontSends
  <2>8. CASE SaveTail
    BY <1>1, <2>8, SaveTailStage, FrontSends
  <2>9. CASE Register
    BY <1>1, <2>9, RegisterStage, FrontSends
  <2>10. CASE Finish
    BY <1>1, <2>10, FinishStage, FrontSends
  <2>11. CASE Clear \/ Restart
    <3>1. stack' = <<>> /\ skipped' = FALSE
      BY <2>11 DEF Clear, Restart
    <3>2. Len(<<>>) = 0 /\ 1..0 = {}
      OBVIOUS
    <3>3. StageInv'
      BY <3>1, <3>2 DEF StageInv, AllStaged
    <3> QED BY <1>1, <2>11, <3>3, FrontSends
  <2>12. CASE Unlink
    <3>1. UNCHANGED <<stack, cmds>>
      BY <2>12 DEF Unlink, ranks
    <3>2. Sends'
      BY <3>1 DEF Sends, AtChunk, run
    <3> QED BY <1>1, <2>12, <3>2, UnlinkStage
  <2>13. CASE ExecBarrier \/ \E r \in Ranks : ExecChunk(r) \/ ExecSnapshot(r) \/ ExecRestore(r)
    <3>1. UNCHANGED <<disk, stack, failed, skipped>> /\ Arriving \subseteq Arriving'
      BY <1>1, <2>13, ExecCommands, ExecArrives DEF history
    <3> QED BY <1>1, <2>13, <3>1, SameStage, RankSends
  <2>14. CASE \E r \in Ranks : Write(r) \/ WriteFails(r)
    <3>1. PICK r \in Ranks : Write(r) \/ WriteFails(r)
      BY <2>14
    <3>2. UNCHANGED <<stack, cmds, skipped>>
      BY <1>1, <3>1, WriteIs DEF Shape
    <3>3. Sends'
      BY <3>2 DEF Sends, AtChunk, run
    <3>4. CASE Write(r)
      <4>1. UNCHANGED failed
        BY <3>4 DEF Write, history
      <4>2. StageInv'
        BY <1>1, <3>2, <3>4, <4>1, WriteArrives, SameStage
      <4> QED BY <3>3, <4>2
    <3>5. CASE WriteFails(r)
      BY <3>3, <3>5 DEF StageInv, WriteFails, WriteTears
    <3> QED BY <3>1, <3>4, <3>5
  <2> QED BY <1>2, <2>1, <2>2, <2>3, <2>4, <2>5, <2>6, <2>7, <2>8, <2>9, <2>10, <2>11, <2>12, <2>13, <2>14 DEF Next
<1>3. CASE UNCHANGED vars
  <2>1. UNCHANGED <<stack, cmds, wq, disk, failed, skipped>>
    BY <1>3 DEF vars, ranks, history
  <2>2. Arriving \subseteq Arriving'
    BY <2>1, DiskArrives
  <2>3. Sends'
    BY <2>1 DEF Sends, AtChunk, run
  <2> QED BY <2>1, <2>2, <2>3, SameStage
<1> QED BY <1>2, <1>3

LEMMA StageHolds == Spec => [](HeldInv /\ Sends /\ StageInv)
<1>1. Init => HeldInv /\ Sends /\ StageInv
  BY DEF Init, HeldInv, Sends, AtChunk, StageInv, AllStaged
<1>2. CacheInv /\ (HeldInv /\ Sends /\ StageInv) /\ [Next]_vars => (HeldInv /\ Sends /\ StageInv)'
  BY NextHeld, NextStage
<1> QED BY <1>1, <1>2, CacheInvHolds, PTL DEF Spec

(* An entry is given up only when a write failed: what a prefill resumed   *)
(* from or planned to adopt is still there when it registers.              *)
THEOREM CacheSkipped == Spec => []SkippedOnlyIfFailed
<1>1. StageInv => SkippedOnlyIfFailed
  BY DEF StageInv, SkippedOnlyIfFailed
<1> QED BY <1>1, StageHolds, PTL

-----------------------------------------------------------------------------
(* What is said of an id (ClaimInv).                                       *)

LEMMA FewerClaims ==
  ASSUME ClaimInv, \A x \in Ids : \A t : Says(x, t)' => Says(x, t)
  PROVE  ClaimInv'
BY DEF ClaimInv

(* The running prefill moves on: it alone may say something else.          *)
LEMMA StepSays ==
  ASSUME Steps, NEW x, NEW t, StackSays(x, t)'
  PROVE  StackSays(x, t) \/ PrefillSays(run', x, t)
<1>1. PICK n \in Nat \ {0} : n = Len(stack) /\ n = Len(stack') /\ stack'[n] = run'
  BY DEF Steps
<1>2. PICK i \in 1..n : PrefillSays(stack'[i], x, t)
  BY <1>1 DEF StackSays
<1>3. i # n => stack'[i] = stack[i] /\ i \in 1..n
  BY <1>1 DEF Steps
<1> QED BY <1>1, <1>2, <1>3 DEF StackSays

LEMMA RunSays ==
  ASSUME Steps \/ Pops, NEW x, NEW t, PrefillSays(run, x, t)
  PROVE  StackSays(x, t)
BY DEF Steps, Pops, StackSays

LEMMA PopSays ==
  ASSUME Pops, NEW x, NEW t, StackSays(x, t)'
  PROVE  StackSays(x, t)
<1>1. PICK n \in Nat \ {0} : n = Len(stack) /\ n - 1 = Len(stack')
  BY DEF Pops
<1>2. PICK i \in 1..(n - 1) : PrefillSays(stack'[i], x, t)
  BY <1>1 DEF StackSays
<1>3. stack'[i] = stack[i] /\ i \in 1..n
  BY <1>1 DEF Pops
<1> QED BY <1>1, <1>2, <1>3 DEF StackSays

LEMMA PushSays ==
  ASSUME Pushes, NEW x, NEW t, StackSays(x, t)'
  PROVE  StackSays(x, t) \/ PrefillSays(run', x, t)
<1>1. PICK n \in Nat : n = Len(stack) /\ n + 1 = Len(stack') /\ stack'[n + 1] = run'
  BY DEF Pushes
<1>2. PICK i \in 1..(n + 1) : PrefillSays(stack'[i], x, t)
  BY <1>1 DEF StackSays
<1>3. i # n + 1 => stack'[i] = stack[i] /\ i \in 1..n
  BY <1>1 DEF Pushes
<1> QED BY <1>1, <1>2, <1>3 DEF StackSays

LEMMA SubmitSays ==
  ASSUME Shape, NEW c \in Command, Submit(c), NEW x, NEW t, OrderSays(x, t)'
  PROVE  OrderSays(x, t) \/ CommandSays(c, x, t)
<1>1. \A r \in Ranks : Commands(r)' = Commands(r) \cup {c}
  BY SubmitIs DEF Commands, Shape
<1> QED BY <1>1 DEF OrderSays

(* A command that names nothing.                                           *)
LEMMA SilentCommand ==
  ASSUME NEW c \in Command, c.op \notin {"chunk", "snapshot"}
  PROVE  \A x, t : ~CommandSays(c, x, t)
BY DEF CommandSays

LEMMA SameSays ==
  ASSUME NEW x, NEW t
  PROVE  /\ UNCHANGED disk /\ DiskSays(x, t)' => DiskSays(x, t)
         /\ UNCHANGED wq /\ QueueSays(x, t)' => QueueSays(x, t)
         /\ UNCHANGED cmds /\ OrderSays(x, t)' => OrderSays(x, t)
         /\ UNCHANGED stack /\ StackSays(x, t)' => StackSays(x, t)
BY DEF DiskSays, QueueSays, OrderSays, StackSays, Queued, Commands

(* Blocks that hold the prefixes of a prefix hold those of the whole.      *)
LEMMA ListsPrefix ==
  ASSUME NEW T, NEW ids \in Seq(T), NEW n \in 0..Len(ids), NEW bs, Len(bs) \in Nat, Len(bs) <= n \div Grid, NEW x, NEW t
  PROVE  Lists(bs, Prefix(ids, n), x, t) <=> Lists(bs, ids, x, t)
<1>1. Grid \in Nat \ {0} /\ Len(ids) \in Nat
  BY FreeTypes
<1>2. ASSUME NEW i \in 1..Len(bs) PROVE Prefix(Prefix(ids, n), i * Grid) = Prefix(ids, i * Grid)
  <2>1. PICK m \in Nat : m = n \div Grid
    BY <1>1
  <2>2. m * Grid <= n
    BY <1>1, <2>1
  <2>3. i <= m /\ i \in Nat
    BY <1>2, <2>1
  <2>4. i * Grid <= m * Grid /\ i * Grid \in Nat
    BY <1>1, <2>3
  <2>5. i * Grid \in 0..n
    BY <1>1, <2>2, <2>4
  <2> QED BY <2>5, PrefixOfPrefix
<1> QED BY <1>2 DEF Lists

(* An entry whose tokens are a prefix of a prompt.                         *)
LEMMA ListsOfEntry ==
  ASSUME NEW e \in Entry, NEW ids \in Text, IsPrefix(e.tokens, ids), NEW x, NEW t, Lists(e.blocks, ids, x, t)
  PROVE  Lists(e.blocks, e.tokens, x, t)
<1>1. e.tokens \in Seq(Tokens) /\ e.blocks \in Seq(Blocks) /\ Len(e.blocks) = Len(e.tokens) \div Grid
  BY DEF Entry, Text
<1>2. ids \in Seq(Tokens) /\ Len(ids) \in Nat /\ Len(e.tokens) \in Nat /\ Len(e.blocks) \in Nat
  BY <1>1 DEF Text
<1>3. Len(e.tokens) \in 0..Len(ids) /\ Prefix(ids, Len(e.tokens)) = e.tokens
  <2>1. PICK s \in Seq(Tokens) : s = e.tokens /\ IsPrefix(s, ids)
    BY <1>1
  <2>2. Len(s) <= Len(ids) /\ s = SubSeq(ids, 1, Len(s))
    BY <1>2, <2>1 DEF IsPrefix
  <2> QED BY <1>2, <2>1, <2>2 DEF Prefix
<1> QED BY <1>1, <1>2, <1>3, ListsPrefix

(* Of a free id nothing is said.                                           *)
LEMMA FreeBlockSays ==
  ASSUME Shape, SlotInv, EntryInv, HeldInv, dead = <<>>, NEW b \in FreeBlocks, NEW x, x = <<"block", b>>, NEW t
  PROVE  ~Says(x, t)
<1>1. b \in Blocks
  BY FreeTypes
<1>2. \A f \in Files : f[1] \in {"blk", "rows"} => f[2] # b
  BY DEF FreeBlocks
<1>3. b \notin Shared
  <2>1. SUFFICES ASSUME NEW e \in Entries, b \in ToSet(e.blocks) PROVE FALSE
    BY DEF Shared
  <2>2. Of({}, {b}) \subseteq DOMAIN disk
    <3>1. ToSet(AllFiles(e)) = Of({e.key}, ToSet(e.blocks)) /\ ToSet(AllFiles(e)) \subseteq DOMAIN disk
      BY <2>1, EntriesTyped DEF Shape, EntryInv, Stored, Intact, OnDisk
    <3> QED BY <2>1, <3>1 DEF Of
  <2>3. PICK f \in DOMAIN disk : f = <<"blk", b, 0>>
    BY <1>1, <2>2, BlockNames
  <2> QED BY <1>2, <2>3 DEF Files
<1>4. \A e : EntrySays(e, x, t) => b \in ToSet(e.blocks)
  BY DEF EntrySays, Lists, ToSet
<1>5. ~DiskSays(x, t)
  <2>1. SUFFICES ASSUME NEW f \in DOMAIN disk, FileSays(f, disk[f], x, t) PROVE FALSE
    BY DEF DiskSays
  <2>2. CASE f[1] = "idx"
    <3>1. disk[f] \in Entries
      BY <2>2 DEF EntryInv, Recorded, ToSet
    <3>2. b \in ToSet(disk[f].blocks)
      BY <1>4, <2>1, <2>2 DEF FileSays
    <3> QED BY <1>3, <3>1, <3>2 DEF Shared
  <2>3. CASE f[1] # "idx"
    <3>1. IsBlock(f) /\ f[2] = b
      BY <2>1, <2>3 DEF FileSays
    <3> QED BY <1>2, <3>1 DEF IsBlock, Files
  <2> QED BY <2>2, <2>3
<1>6. ~QueueSays(x, t)
  <2>1. SUFFICES ASSUME NEW r \in Ranks, NEW w \in Queued(r), FileSays(w.file, w.content, x, t) PROVE FALSE
    BY DEF QueueSays
  <2>2. w \in Writing
    BY AsSet DEF Shape, Queued
  <2>3. w.file[1] # "idx"
    BY <2>2 DEF Writing
  <2>4. IsBlock(w.file) /\ w.file[2] = b
    BY <2>1, <2>3 DEF FileSays
  <2>5. w.file \in Files
    BY DEF Files
  <2> QED BY <1>2, <2>4, <2>5 DEF IsBlock
<1>7. ~OrderSays(x, t)
  <2>1. SUFFICES ASSUME NEW r \in Ranks, NEW c \in Commands(r), CommandSays(c, x, t) PROVE FALSE
    BY DEF OrderSays
  <2>2. c.block = b /\ c \in Sent
    BY <2>1 DEF CommandSays, Sent
  <2> QED BY <2>2 DEF FreeBlocks
<1>8. ~StackSays(x, t)
  <2>1. SUFFICES ASSUME NEW i \in 1..Len(stack), PrefillSays(stack[i], x, t) PROVE FALSE
    BY DEF StackSays
  <2>2. PICK p \in Prefill : p = stack[i]
    BY DEF Shape
  <2>3. Held(p, Shared) /\ Slots(p) /\ ~HasBlock(p, b)
    BY <2>2, FreeIds DEF HeldInv, SlotInv, Shape
  <2>4. b \notin ToSet(p.new)
    <3>1. SUFFICES ASSUME b \in ToSet(p.new) PROVE FALSE
      OBVIOUS
    <3>2. PICK j \in 1..p.k : p.chunks[j].block = b
      BY <1>1, <2>3, <3>1 DEF Slots, OwnBlocks
    <3>3. p.k \in Nat /\ Len(p.chunks) \in Nat /\ p.k <= Len(p.chunks)
      BY FieldsOf DEF Placed
    <3> QED BY <2>3, <3>2, <3>3 DEF HasBlock
  <2>5. \A bs : Lists(bs, p.ids, x, t) => b \in ToSet(bs)
    BY DEF Lists, ToSet
  <2>6. ~Lists(p.blocks, p.ids, x, t) /\ \A m \in 1..Len(p.ents) : ~EntrySays(p.ents[m], x, t)
    BY <1>3, <1>4, <2>3, <2>4, <2>5 DEF Held
  <2>7. ASSUME NEW j \in 1..Len(p.chunks) PROVE ~Lists(p.chunks[j].adopt, p.ids, x, t) /\ ~CommandSays(ChunkCmd(p, j), x, t)
    <3>1. ~Lists(p.chunks[j].adopt, p.ids, x, t)
      BY <1>3, <2>3, <2>5 DEF Held
    <3>2. ChunkCmd(p, j).block # b
      BY <2>3, ChunkCmdIs DEF HasBlock
    <3> QED BY <3>1, <3>2 DEF CommandSays
  <2>8. x # <<"key", p.key>>
    OBVIOUS
  <2> QED BY <2>1, <2>2, <2>6, <2>7, <2>8 DEF PrefillSays
<1> QED BY <1>5, <1>6, <1>7, <1>8 DEF Says

LEMMA FreeKeySays ==
  ASSUME Shape, SlotInv, NEW key \in FreeKeys, NEW x, x = <<"key", key>>, NEW t
  PROVE  ~Says(x, t)
<1>1. key \in Keys
  BY FreeTypes
<1>2. \A f \in Files : f[1] \in {"idx", "tail", "ent"} => f[2] # key
  BY DEF FreeKeys
<1>3. \A e : EntrySays(e, x, t) => e.key = key
  BY DEF EntrySays, Lists
<1>4. \A f \in FileNames : ~IsBlock(f) => f[1] \in {"idx", "tail", "ent"}
  BY DEF FileNames, IsBlock
<1>5. ~DiskSays(x, t)
  <2>1. SUFFICES ASSUME NEW f \in DOMAIN disk, FileSays(f, disk[f], x, t) PROVE FALSE
    BY DEF DiskSays
  <2>2. f \in FileNames /\ f \in Files
    BY DEF Shape, Directory, Files
  <2>3. CASE f[1] = "idx"
    <3>1. f = <<"idx", disk[f].key, 0>>
      BY <2>3 DEF Shape, Directory
    <3>2. disk[f].key = key
      BY <1>3, <2>1, <2>3 DEF FileSays
    <3> QED BY <1>2, <2>2, <2>3, <3>1, <3>2
  <2>4. CASE f[1] # "idx"
    <3>1. ~IsBlock(f) /\ f[2] = key
      BY <2>1, <2>4 DEF FileSays
    <3> QED BY <1>2, <1>4, <2>2, <3>1
  <2> QED BY <2>3, <2>4
<1>6. ~QueueSays(x, t)
  <2>1. SUFFICES ASSUME NEW r \in Ranks, NEW w \in Queued(r), FileSays(w.file, w.content, x, t) PROVE FALSE
    BY DEF QueueSays
  <2>2. w \in Writing
    BY AsSet DEF Shape, Queued
  <2>3. w.file[1] # "idx" /\ w.file \in FileNames
    BY <2>2 DEF Writing
  <2>4. ~IsBlock(w.file) /\ w.file[2] = key
    BY <2>1, <2>3 DEF FileSays
  <2>5. w.file \in Files
    BY DEF Files
  <2> QED BY <1>2, <1>4, <2>3, <2>4, <2>5
<1>7. ~OrderSays(x, t)
  <2>1. SUFFICES ASSUME NEW r \in Ranks, NEW c \in Commands(r), CommandSays(c, x, t) PROVE FALSE
    BY DEF OrderSays
  <2>2. c.key = key /\ c \in Sent
    BY <2>1 DEF CommandSays, Sent
  <2> QED BY <2>2 DEF FreeKeys
<1>8. ~StackSays(x, t)
  <2>1. SUFFICES ASSUME NEW i \in 1..Len(stack), PrefillSays(stack[i], x, t) PROVE FALSE
    BY DEF StackSays
  <2>2. PICK p \in Prefill : p = stack[i]
    BY DEF Shape
  <2>3. Slots(p) /\ ~HasKey(p, key)
    BY <2>2, FreeIds DEF SlotInv, Shape
  <2>4. \A bs : ~Lists(bs, p.ids, x, t)
    BY DEF Lists
  <2>5. \A m \in 1..Len(p.ents) : ~EntrySays(p.ents[m], x, t)
    <3>1. ASSUME NEW m \in 1..Len(p.ents) PROVE p.ents[m].key # key
      BY <2>3, PendsHas DEF Pends
    <3> QED BY <1>3, <3>1
  <2>6. ASSUME NEW j \in 1..Len(p.chunks) PROVE ~CommandSays(ChunkCmd(p, j), x, t)
    <3>1. ChunkCmd(p, j).key # key
      BY <2>3, ChunkCmdIs DEF HasKey
    <3> QED BY <3>1 DEF CommandSays
  <2>7. x # <<"key", p.key>>
    BY <2>3 DEF HasKey
  <2> QED BY <2>1, <2>2, <2>4, <2>5, <2>6, <2>7 DEF PrefillSays
<1> QED BY <1>5, <1>6, <1>7, <1>8 DEF Says

(* The parts of what is said, one by one.                                  *)
LEMMA MoveClaim ==
  ASSUME ClaimInv,
         \A x \in Ids : \A t : DiskSays(x, t)' \/ QueueSays(x, t)' \/ OrderSays(x, t)' \/ StackSays(x, t)' => Says(x, t)
  PROVE  ClaimInv'
<1>1. \A x \in Ids : \A t : Says(x, t)' => Says(x, t)
  BY DEF Says
<1> QED BY <1>1, FewerClaims

(* Commands may speak of what nobody spoke of.                             *)
LEMMA NewClaims ==
  ASSUME ClaimInv, NEW C,
         \A x \in Ids : \A t : Says(x, t)' => Says(x, t) \/ \E c \in C : CommandSays(c, x, t),
         \A c \in C : \A x \in Ids : \A t, u : CommandSays(c, x, t) => ~Says(x, u),
         \A c, d \in C : \A x \in Ids : \A t, u : CommandSays(c, x, t) /\ CommandSays(d, x, u) => t = u
  PROVE  ClaimInv'
<1>1. SUFFICES ASSUME NEW x \in Ids, NEW t, NEW u, Says(x, t)', Says(x, u)' PROVE t = u
  BY DEF ClaimInv
<1>2. CASE Says(x, t) /\ Says(x, u)
  BY <1>2 DEF ClaimInv
<1>3. CASE ~Says(x, t)
  <2>1. PICK c \in C : CommandSays(c, x, t)
    BY <1>1, <1>3
  <2>2. ~Says(x, u)
    BY <2>1
  <2>3. PICK d \in C : CommandSays(d, x, u)
    BY <1>1, <2>2
  <2> QED BY <2>1, <2>3
<1>4. CASE ~Says(x, u)
  <2>1. PICK c \in C : CommandSays(c, x, u)
    BY <1>1, <1>4
  <2>2. ~Says(x, t)
    BY <2>1
  <2>3. PICK d \in C : CommandSays(d, x, t)
    BY <1>1, <2>2
  <2> QED BY <2>1, <2>3
<1> QED BY <1>2, <1>3, <1>4

LEMMA FreshCommand ==
  ASSUME Shape, SlotInv, EntryInv, HeldInv, dead = <<>>, NEW c,
         c.block \in FreeBlocks \cup {0}, c.key \in FreeKeys \cup {0},
         NEW x \in Ids, NEW t, NEW u, CommandSays(c, x, t)
  PROVE  ~Says(x, u)
<1>1. CASE x = <<"block", c.block>>
  <2>1. c.block \in Blocks
    BY <1>1 DEF Ids
  <2>2. PICK b \in FreeBlocks : b = c.block /\ x = <<"block", b>>
    BY <1>1, <2>1, FreeTypes
  <2> QED BY <2>2, FreeBlockSays
<1>2. CASE x = <<"key", c.key>>
  <2>1. c.key \in Keys
    BY <1>2 DEF Ids
  <2>2. PICK key \in FreeKeys : key = c.key /\ x = <<"key", key>>
    BY <1>2, <2>1, FreeTypes
  <2> QED BY <2>2, FreeKeySays
<1> QED BY <1>1, <1>2 DEF CommandSays

(* What an entry says its record says.                                     *)
LEMMA EntryOnDisk ==
  ASSUME Shape, EntryInv, NEW e \in Entries, NEW x, NEW t, EntrySays(e, x, t)
  PROVE  DiskSays(x, t)
<1>1. IdxFile(e.key) \in DOMAIN disk
  BY OneEntry DEF Shape, EntryInv
<1>2. disk[IdxFile(e.key)] = e
  BY DEF EntryInv, Stored, Intact
<1>3. FileSays(IdxFile(e.key), e, x, t)
  BY DEF FileSays, IdxFile
<1> QED BY <1>1, <1>2, <1>3 DEF DiskSays

LEMMA NoPlanSays ==
  ASSUME NEW p, p.chunks = <<>>, p.ents = <<>>, p.key = 0, NEW x \in Ids, NEW t, PrefillSays(p, x, t)
  PROVE  Lists(p.blocks, p.ids, x, t)
<1>1. Len(<<>>) = 0 /\ 1..0 = {}
  OBVIOUS
<1>2. x # <<"key", 0>>
  BY FreeTypes DEF Ids
<1> QED BY <1>1, <1>2 DEF PrefillSays

LEMMA NothingListed ==
  ASSUME NEW ids, NEW x, NEW t
  PROVE  ~Lists(<<>>, ids, x, t)
<1>1. Len(<<>>) = 0 /\ 1..0 = {}
  OBVIOUS
<1> QED BY <1>1 DEF Lists

(* The running prefill goes on.                                            *)
LEMMA StepClaim ==
  ASSUME Shape, ClaimInv, Steps, UNCHANGED wq,
         \A x \in Ids : \A t : PrefillSays(run', x, t) => Says(x, t),
         \A x \in Ids : \A t : DiskSays(x, t)' => Says(x, t),
         \/ UNCHANGED cmds
         \/ \E c \in Command : Submit(c) /\ \A x \in Ids : \A t : CommandSays(c, x, t) => Says(x, t)
  PROVE  ClaimInv'
<1>1. ASSUME NEW x \in Ids, NEW t, DiskSays(x, t)' \/ QueueSays(x, t)' \/ OrderSays(x, t)' \/ StackSays(x, t)'
      PROVE  Says(x, t)
  <2>1. CASE DiskSays(x, t)'
    BY <2>1
  <2>2. CASE QueueSays(x, t)'
    BY <2>2, SameSays DEF Says
  <2>3. CASE OrderSays(x, t)'
    <3>1. CASE UNCHANGED cmds
      BY <2>3, <3>1, SameSays DEF Says
    <3>2. ASSUME NEW c \in Command, Submit(c), \A y \in Ids : \A u : CommandSays(c, y, u) => Says(y, u)
          PROVE  Says(x, t)
      <4>1. OrderSays(x, t) \/ CommandSays(c, x, t)
        BY <2>3, <3>2, SubmitSays
      <4> QED BY <3>2, <4>1 DEF Says
    <3> QED BY <3>1, <3>2
  <2>4. CASE StackSays(x, t)'
    <3>1. StackSays(x, t) \/ PrefillSays(run', x, t)
      BY <2>4, StepSays
    <3> QED BY <3>1 DEF Says
  <2> QED BY <1>1, <2>1, <2>2, <2>3, <2>4
<1> QED BY <1>1, MoveClaim

LEMMA OpenClaim ==
  ASSUME Shape, EntryInv, ClaimInv, NEW ids \in Prompts, Open(ids)
  PROVE  ClaimInv'
<1>1. /\ Pushes /\ run'.ids = ids /\ run'.chunks = <<>> /\ run'.ents = <<>> /\ run'.key = 0
      /\ \/ run'.blocks = <<>> /\ UNCHANGED cmds
         \/ \E e \in Entries : \E c \in Command :
              /\ e \in Resumable(ids) /\ e \in Entry /\ run'.blocks = e.blocks
              /\ c.op = "restore" /\ Submit(c)
      /\ UNCHANGED <<disk, wq>>
  BY OpenIs
<1>2. ids \in Text
  BY FreeTypes
<1>3. ASSUME NEW x \in Ids, NEW t, PrefillSays(run', x, t) PROVE Says(x, t)
  <2>1. PICK q : q = run'
    OBVIOUS
  <2>2. Lists(q.blocks, ids, x, t)
    BY <1>1, <1>3, <2>1, NoPlanSays
  <2>3. PICK e \in Entries : e \in Resumable(ids) /\ e \in Entry /\ q.blocks = e.blocks
    BY <1>1, <2>1, <2>2, NothingListed
  <2>4. IsPrefix(e.tokens, ids)
    BY <2>3 DEF Resumable
  <2>5. Lists(e.blocks, e.tokens, x, t)
    BY <1>2, <2>2, <2>3, <2>4, ListsOfEntry
  <2> QED BY <2>5, EntryOnDisk DEF EntrySays, Says
<1>4. ASSUME NEW x \in Ids, NEW t, OrderSays(x, t)' PROVE Says(x, t)
  <2>1. CASE UNCHANGED cmds
    BY <1>4, <2>1, SameSays DEF Says
  <2>2. ASSUME NEW c \in Command, c.op = "restore", Submit(c) PROVE Says(x, t)
    <3>1. OrderSays(x, t) \/ CommandSays(c, x, t)
      BY <1>4, <2>2, SubmitSays
    <3> QED BY <2>2, <3>1, SilentCommand DEF Says
  <2> QED BY <1>1, <2>1, <2>2
<1>5. ASSUME NEW x \in Ids, NEW t, StackSays(x, t)' PROVE Says(x, t)
  <2>1. StackSays(x, t) \/ PrefillSays(run', x, t)
    BY <1>1, <1>5, PushSays
  <2> QED BY <1>3, <2>1 DEF Says
<1>6. \A x \in Ids : \A t : DiskSays(x, t)' \/ QueueSays(x, t)' => Says(x, t)
  BY <1>1, SameSays DEF Says
<1> QED BY <1>4, <1>5, <1>6, MoveClaim

LEMMA RestoredClaim ==
  ASSUME Shape, ClaimInv, Restored \/ RestoreFails
  PROVE  ClaimInv'
<1>1. /\ Steps /\ run'.ids = run.ids /\ run'.chunks = <<>> /\ run'.ents = <<>> /\ run'.key = 0
      /\ run'.blocks = run.blocks \/ run'.blocks = <<>>
      /\ UNCHANGED <<disk, cmds, wq>>
  BY RestoredIs DEF ranks
<1>2. ASSUME NEW x \in Ids, NEW t, PrefillSays(run', x, t) PROVE Says(x, t)
  <2>1. PICK q : q = run'
    OBVIOUS
  <2>2. Lists(q.blocks, run.ids, x, t)
    BY <1>1, <1>2, <2>1, NoPlanSays
  <2>3. Lists(run.blocks, run.ids, x, t)
    BY <1>1, <2>1, <2>2, NothingListed
  <2>4. PrefillSays(run, x, t)
    BY <2>3 DEF PrefillSays
  <2> QED BY <1>1, <2>4, RunSays DEF Says
<1>3. \A x \in Ids : \A t : DiskSays(x, t)' => Says(x, t)
  BY <1>1, SameSays DEF Says
<1> QED BY <1>1, <1>2, <1>3, StepClaim

(* A plan adopts what entries say and takes free ids for the rest.         *)
LEMMA PlannedSays ==
  ASSUME Shape, EntryInv, NEW q \in Prefill, PlanParts(q.ids, q.P, q.chunks), q.ents = <<>>, q.key = 0,
         NEW x \in Ids, NEW t, PrefillSays(q, x, t)
  PROVE  \/ Lists(q.blocks, q.ids, x, t)
         \/ DiskSays(x, t)
         \/ \E j \in 1..Len(q.chunks) : CommandSays(ChunkCmd(q, j), x, t)
<1>1. x # <<"key", 0>>
  BY FreeTypes DEF Ids
<1>2. Len(<<>>) = 0 /\ 1..0 = {}
  OBVIOUS
<1>3. ASSUME NEW j \in 1..Len(q.chunks), Lists(q.chunks[j].adopt, q.ids, x, t) PROVE DiskSays(x, t)
  <2>1. q.chunks[j].adopt # <<>>
    BY <1>3, NothingListed
  <2>2. PICK e \in Entries : e.tokens = Prefix(q.ids, FullBlock(q.chunks[j])) /\ q.chunks[j].adopt = e.blocks
    BY <2>1 DEF PlanParts
  <2>3. e \in Entry
    BY EntriesTyped DEF Shape
  <2>4. q.ids \in Seq(Tokens) /\ Len(q.ids) \in Nat /\ q.chunks[j].end \in 0..Len(q.ids)
    BY FieldsOf, ChunkCmdIs
  <2>5. FullBlock(q.chunks[j]) \in 0..Len(q.ids)
    BY <2>4, BlockPrefix DEF FullBlock
  <2>6. PICK n \in 0..Len(q.ids) : n = FullBlock(q.chunks[j])
    BY <2>5
  <2>7. e.tokens = Prefix(q.ids, n) /\ Len(e.tokens) = n
    BY <2>2, <2>4, <2>6, PrefixIs
  <2>8. Len(e.blocks) \in Nat /\ Len(e.blocks) <= n \div Grid
    BY <2>3, <2>4, <2>7, FreeTypes DEF Entry
  <2>9. Lists(e.blocks, Prefix(q.ids, n), x, t)
    BY <1>3, <2>2, <2>4, <2>8, ListsPrefix
  <2> QED BY <2>7, <2>9, EntryOnDisk DEF EntrySays
<1> QED BY <1>1, <1>2, <1>3 DEF PrefillSays

LEMMA PlanClaim ==
  ASSUME Shape, SlotInv, EntryInv, HeldInv, ClaimInv, Plan
  PROVE  ClaimInv'
<1>1. /\ Steps /\ dead = <<>> /\ PlanParts(run.ids, run.P, run'.chunks)
      /\ run'.ids = run.ids /\ run'.blocks = run.blocks /\ run'.ents = <<>> /\ run'.key = 0
      /\ IF run'.chunks = <<>> THEN UNCHANGED cmds
         ELSE \E c \in Command : 1 \in 1..Len(run'.chunks) /\ c = ChunkCmd(run', 1) /\ Submit(c)
      /\ UNCHANGED <<disk, wq>>
  BY PlanActs
<1>2. PICK p \in Prefill : p = run
  BY <1>1 DEF Steps
<1>3. PICK q \in Prefill : q = run'
  BY <1>1 DEF Steps
<1>4. q.P = p.P
  <2>1. PICK r \in Prefill : r = AsPlanned(p) /\ r.P = p.P
    BY <1>2, PlannedIs DEF Plan, At, Shape
  <2>2. run' = AsPlanned(run)
    <3>1. Becomes(AsPlanned(p)) /\ stack # <<>>
      BY <1>2 DEF Plan, AsPlanned, At
    <3> QED BY <1>2, <2>1, <3>1, StepsIs DEF Shape
  <2> QED BY <1>2, <1>3, <2>1, <2>2
<1>5. PlanParts(q.ids, q.P, q.chunks)
  BY <1>1, <1>2, <1>3, <1>4
<1>6. PICK C : C = {ChunkCmd(q, j) : j \in 1..Len(q.chunks)}
  OBVIOUS
<1>7. ASSUME NEW x \in Ids, NEW t, Says(x, t)' PROVE Says(x, t) \/ \E c \in C : CommandSays(c, x, t)
  <2>1. CASE DiskSays(x, t)' \/ QueueSays(x, t)'
    BY <1>1, <2>1, SameSays DEF Says
  <2>2. CASE OrderSays(x, t)'
    <3>1. CASE UNCHANGED cmds
      BY <2>2, <3>1, SameSays DEF Says
    <3>2. ASSUME NEW c \in Command, 1 \in 1..Len(q.chunks), c = ChunkCmd(q, 1), Submit(c)
          PROVE  Says(x, t) \/ \E d \in C : CommandSays(d, x, t)
      <4>1. OrderSays(x, t) \/ CommandSays(c, x, t)
        BY <2>2, <3>2, SubmitSays
      <4>2. c \in C
        BY <1>6, <3>2
      <4> QED BY <4>1, <4>2 DEF Says
    <3> QED BY <1>1, <1>3, <3>1, <3>2
  <2>3. CASE StackSays(x, t)'
    <3>1. StackSays(x, t) \/ PrefillSays(q, x, t)
      BY <1>1, <1>3, <2>3, StepSays
    <3>2. ASSUME PrefillSays(q, x, t) PROVE Says(x, t) \/ \E c \in C : CommandSays(c, x, t)
      <4>1. q.ents = <<>> /\ q.key = 0 /\ q.ids = p.ids /\ q.blocks = p.blocks
        BY <1>1, <1>2, <1>3
      <4>2. \/ Lists(q.blocks, q.ids, x, t)
            \/ DiskSays(x, t)
            \/ \E j \in 1..Len(q.chunks) : CommandSays(ChunkCmd(q, j), x, t)
        BY <1>5, <3>2, <4>1, PlannedSays
      <4>3. Lists(q.blocks, q.ids, x, t) => PrefillSays(run, x, t)
        BY <1>2, <4>1 DEF PrefillSays
      <4>4. Lists(q.blocks, q.ids, x, t) => StackSays(x, t)
        BY <1>1, <4>3, RunSays
      <4> QED BY <1>6, <4>2, <4>4 DEF Says
    <3> QED BY <3>1, <3>2 DEF Says
  <2> QED BY <1>7, <2>1, <2>2, <2>3 DEF Says
<1>8. ASSUME NEW c \in C, NEW x \in Ids, NEW t, NEW u, CommandSays(c, x, t) PROVE ~Says(x, u)
  <2>1. PICK j \in 1..Len(q.chunks) : c = ChunkCmd(q, j)
    BY <1>6
  <2>2. c.block = q.chunks[j].block /\ c.key = q.chunks[j].key
    BY <2>1, ChunkCmdIs
  <2>3. c.block \in FreeBlocks \cup {0} /\ c.key \in FreeKeys \cup {0}
    BY <1>5, <2>2 DEF PlanParts
  <2> QED BY <1>1, <1>8, <2>3, FreshCommand
<1>9. ASSUME NEW c \in C, NEW d \in C, NEW x \in Ids, NEW t, NEW u, CommandSays(c, x, t), CommandSays(d, x, u)
      PROVE  t = u
  <2>1. PICK i \in 1..Len(q.chunks) : c = ChunkCmd(q, i)
    BY <1>6
  <2>2. PICK j \in 1..Len(q.chunks) : d = ChunkCmd(q, j)
    BY <1>6
  <2>3. /\ c.block = q.chunks[i].block /\ c.key = q.chunks[i].key
        /\ d.block = q.chunks[j].block /\ d.key = q.chunks[j].key
    BY <2>1, <2>2, ChunkCmdIs
  <2>4. /\ x = <<"block", c.block>> => c.block # 0
        /\ x = <<"key", c.key>> => c.key # 0
    BY FreeTypes DEF Ids
  <2>5. c.block = d.block /\ c.block # 0 => i = j
    BY <1>5, <2>3 DEF PlanParts
  <2>6. c.key = d.key /\ c.key # 0 => i = j
    BY <1>5, <2>3 DEF PlanParts
  <2>7. i = j => c = d
    BY <2>1, <2>2
  <2> QED BY <1>9, <2>4, <2>5, <2>6, <2>7 DEF CommandSays
<1> QED BY <1>7, <1>8, <1>9, NewClaims

(* Prefills that say the same.                                             *)
LEMMA SamePrefillSays ==
  ASSUME NEW p, NEW q, q.ids = p.ids, q.blocks = p.blocks, q.chunks = p.chunks, q.ents = p.ents,
         NEW x, NEW t, PrefillSays(q, x, t), x # <<"key", q.key>>
  PROVE  PrefillSays(p, x, t)
<1>1. \A j : ChunkCmd(q, j) = ChunkCmd(p, j)
  BY DEF ChunkCmd
<1> QED BY <1>1 DEF PrefillSays

LEMMA ContinueClaim ==
  ASSUME Shape, ClaimInv, Continue
  PROVE  ClaimInv'
<1>1. /\ Steps /\ run'.ids = run.ids /\ run'.chunks = run.chunks /\ run'.blocks = run.blocks
      /\ run'.ents = run.ents /\ run'.key = run.key
      /\ IF run.k + 1 < Len(run.chunks)
         THEN \E c \in Command : /\ run.k + 2 \in 1..Len(run.chunks)
                                 /\ c = ChunkCmd(run, run.k + 2) /\ Submit(c)
         ELSE UNCHANGED cmds
      /\ UNCHANGED <<disk, wq>>
  BY ContinueIs
<1>2. PICK p \in Prefill : p = run
  BY <1>1 DEF Steps
<1>3. PICK q \in Prefill : q = run'
  BY <1>1 DEF Steps
<1>4. ASSUME NEW x \in Ids, NEW t, PrefillSays(q, x, t) PROVE PrefillSays(p, x, t)
  <2>1. /\ q.ids = p.ids /\ q.blocks = p.blocks /\ q.chunks = p.chunks /\ q.ents = p.ents /\ q.key = p.key
    BY <1>1, <1>2, <1>3
  <2>2. CASE x # <<"key", q.key>>
    BY <1>4, <2>1, <2>2, SamePrefillSays
  <2>3. CASE x = <<"key", q.key>> /\ t = q.ids
    BY <2>1, <2>3 DEF PrefillSays
  <2>4. \A j : ChunkCmd(q, j) = ChunkCmd(p, j)
    BY <2>1 DEF ChunkCmd
  <2> QED BY <1>4, <2>1, <2>2, <2>3, <2>4 DEF PrefillSays
<1>5. ASSUME NEW x \in Ids, NEW t, PrefillSays(p, x, t) PROVE Says(x, t)
  BY <1>1, <1>2, <1>5, RunSays DEF Says
<1>6. \/ UNCHANGED cmds
      \/ \E c \in Command : Submit(c) /\ \A x \in Ids : \A t : CommandSays(c, x, t) => Says(x, t)
  <2>1. ASSUME NEW c \in Command, p.k + 2 \in 1..Len(p.chunks), c = ChunkCmd(p, p.k + 2)
        PROVE  \A x \in Ids : \A t : CommandSays(c, x, t) => Says(x, t)
    <3>1. \A x \in Ids : \A t : CommandSays(c, x, t) => PrefillSays(p, x, t)
      BY <2>1 DEF PrefillSays
    <3> QED BY <1>5, <3>1
  <2> QED BY <1>1, <1>2, <2>1
<1>7. \A x \in Ids : \A t : DiskSays(x, t)' => Says(x, t)
  BY <1>1, SameSays DEF Says
<1> QED BY <1>1, <1>3, <1>4, <1>5, <1>6, <1>7, StepClaim

(* What a chunk's command says of its ids.                                 *)
LEMMA ChunkSays ==
  ASSUME NEW p \in Prefill, NEW j \in 1..Len(p.chunks)
  PROVE  /\ CommandSays(ChunkCmd(p, j), <<"block", p.chunks[j].block>>, Prefix(p.ids, FullBlock(p.chunks[j])))
         /\ CommandSays(ChunkCmd(p, j), <<"key", p.chunks[j].key>>, Prefix(p.ids, p.chunks[j].end))
<1>1. p.ids \in Seq(Tokens) /\ p.chunks[j].end \in 0..Len(p.ids) /\ Len(p.ids) \in Nat
  BY FieldsOf, ChunkCmdIs
<1>2. PICK n \in 0..Len(p.ids) : n = p.chunks[j].end
  BY <1>1
<1>3. PICK c : c = ChunkCmd(p, j)
  OBVIOUS
<1>4. /\ c.op = "chunk" /\ c.ids = Prefix(p.ids, n) /\ Len(c.ids) = n
      /\ c.block = p.chunks[j].block /\ c.key = p.chunks[j].key
  BY <1>2, <1>3, ChunkCmdIs
<1>5. Prefix(Prefix(p.ids, n), Grid * (n \div Grid)) = Prefix(p.ids, Grid * (n \div Grid))
  <2>1. PICK m \in 0..n : m = Grid * (n \div Grid)
    BY <1>1, BlockPrefix
  <2> QED BY <1>1, <2>1, PrefixOfPrefix
<1>6. FullBlock(p.chunks[j]) = Grid * (n \div Grid)
  BY <1>2 DEF FullBlock
<1> QED BY <1>2, <1>3, <1>4, <1>5, <1>6 DEF CommandSays

(* What a prefill says when a chunk's rows are saved it said before.       *)
LEMMA SavedSays ==
  ASSUME NEW p \in Prefill, p.pc = "rows", NEW x \in Ids, NEW t, PrefillSays(Saved(p), x, t)
  PROVE  PrefillSays(p, x, t)
<1>1. PICK q \in Prefill : q = Saved(p)
  BY SavedIs
<1>2. PICK j \in 1..Len(p.chunks) : j = p.k + 1
  BY SavedIs
<1>3. PICK c \in Chunk : c = p.chunks[j] /\ c.end \in 0..Len(p.ids)
  BY <1>2, SavedIs
<1>4. PICK e : e = [key |-> c.key, tokens |-> Prefix(p.ids, c.end), blocks |-> q.blocks, capture |-> FALSE]
  OBVIOUS
<1>5. /\ q.ids = p.ids /\ q.chunks = p.chunks /\ q.key = 0
      /\ q.blocks = BlocksWith(p, c) /\ Len(q.blocks) = c.end \div Grid
      /\ q.ents = (IF c.key = 0 THEN p.ents ELSE Append(p.ents, e))
  BY <1>1, <1>2, <1>3, <1>4, SavedIs
<1>6. p.blocks \in Seq(Blocks) /\ p.ents \in Seq(Entry) /\ p.ids \in Seq(Tokens) /\ Len(p.ents) \in Nat
      /\ Len(p.blocks) \in Nat
  BY FieldsOf
<1>7. \A u : CommandSays(ChunkCmd(p, j), x, u) => PrefillSays(p, x, u)
  BY DEF PrefillSays
<1>8. ASSUME Lists(q.blocks, p.ids, x, t) PROVE PrefillSays(p, x, t)
  <2>1. CASE c.adopt # <<>>
    <3>1. Lists(p.chunks[j].adopt, p.ids, x, t)
      BY <1>3, <1>5, <1>8, <2>1 DEF BlocksWith
    <3> QED BY <3>1 DEF PrefillSays
  <2>2. CASE c.adopt = <<>> /\ c.block = 0
    <3>1. q.blocks = p.blocks
      BY <1>5, <2>2 DEF BlocksWith
    <3> QED BY <1>8, <3>1 DEF PrefillSays
  <2>3. CASE c.adopt = <<>> /\ c.block # 0
    <3>1. PICK n \in Nat : n = Len(p.blocks)
      BY <1>6
    <3>2. q.blocks = Append(p.blocks, c.block) /\ c.block \in Blocks
      BY <1>5, <2>3 DEF BlocksWith, Chunk
    <3>3. Len(q.blocks) = n + 1 /\ q.blocks[n + 1] = c.block /\ \A i \in 1..n : q.blocks[i] = p.blocks[i]
      BY <1>6, <3>1, <3>2, AppendLast
    <3>4. PICK i \in 1..(n + 1) : x = <<"block", q.blocks[i]>> /\ t = Prefix(p.ids, i * Grid)
      BY <1>8, <3>3 DEF Lists
    <3>5. CASE i \in 1..n
      BY <3>1, <3>3, <3>4, <3>5 DEF Lists, PrefillSays
    <3>6. CASE i = n + 1
      <4>1. n + 1 = c.end \div Grid
        BY <1>5, <3>3
      <4>2. (n + 1) * Grid = FullBlock(c)
        <5>1. (n + 1) * Grid = Grid * (n + 1)
          BY FreeTypes
        <5> QED BY <4>1, <5>1 DEF FullBlock
      <4>3. x = <<"block", c.block>> /\ t = Prefix(p.ids, FullBlock(c))
        BY <3>3, <3>4, <3>6, <4>2
      <4>4. CommandSays(ChunkCmd(p, j), <<"block", c.block>>, Prefix(p.ids, FullBlock(c)))
        BY <1>3, ChunkSays
      <4>5. CommandSays(ChunkCmd(p, j), x, t)
        BY <4>3, <4>4
      <4> QED BY <1>7, <4>5
    <3>7. i \in 1..n \/ i = n + 1
      BY <3>1
    <3> QED BY <3>5, <3>6, <3>7
  <2> QED BY <2>1, <2>2, <2>3
<1>9. ASSUME c.key # 0, EntrySays(e, x, t) PROVE PrefillSays(p, x, t)
  <2>1. e.key = c.key /\ e.tokens = Prefix(p.ids, c.end) /\ e.blocks = q.blocks
    BY <1>4
  <2>2. CASE x = <<"key", e.key>> /\ t = e.tokens
    <3>1. CommandSays(ChunkCmd(p, j), <<"key", c.key>>, Prefix(p.ids, c.end))
      BY <1>3, ChunkSays
    <3> QED BY <1>7, <2>1, <2>2, <3>1
  <2>3. CASE Lists(e.blocks, e.tokens, x, t)
    <3>1. PICK n \in 0..Len(p.ids) : n = c.end
      BY <1>3
    <3>2. Lists(q.blocks, Prefix(p.ids, n), x, t)
      BY <2>1, <2>3, <3>1
    <3>3. Len(q.blocks) \in Nat /\ Len(q.blocks) <= n \div Grid
      <4>1. Len(q.blocks) \in Nat
        BY FieldsOf
      <4>2. Len(q.blocks) = n \div Grid
        BY <1>5, <3>1
      <4> QED BY <4>1, <4>2
    <3>4. Lists(q.blocks, p.ids, x, t)
      BY <1>6, <3>2, <3>3, ListsPrefix
    <3> QED BY <1>8, <3>4
  <2> QED BY <1>9, <2>2, <2>3 DEF EntrySays
<1>10. ASSUME NEW m \in 1..Len(q.ents), EntrySays(q.ents[m], x, t) PROVE PrefillSays(p, x, t)
  <2>1. CASE c.key = 0
    BY <1>5, <1>10, <2>1 DEF PrefillSays
  <2>2. CASE c.key # 0
    <3>1. e \in Entry
      BY <1>1, <1>2, <1>3, <1>4, <2>2, SavedIs
    <3>2. PICK n \in Nat : n = Len(p.ents)
      BY <1>6
    <3>3. q.ents = Append(p.ents, e)
      BY <1>5, <2>2
    <3>4. Len(q.ents) = n + 1 /\ q.ents[n + 1] = e /\ \A i \in 1..n : q.ents[i] = p.ents[i]
      BY <1>6, <3>1, <3>2, <3>3, AppendLast
    <3>5. m \in 1..n \/ m = n + 1
      BY <3>4
    <3>6. CASE m \in 1..n
      BY <1>10, <3>2, <3>4, <3>6 DEF PrefillSays
    <3>7. CASE m = n + 1
      BY <1>9, <1>10, <2>2, <3>4, <3>7
    <3> QED BY <3>5, <3>6, <3>7
  <2> QED BY <2>1, <2>2
<1>11. x # <<"key", q.key>>
  BY <1>5, FreeTypes DEF Ids
<1>12. \A i : ChunkCmd(q, i) = ChunkCmd(p, i)
  BY <1>5 DEF ChunkCmd
<1>13. PrefillSays(q, x, t)
  BY <1>1
<1>14. CASE \E i \in 1..Len(p.chunks) : Lists(p.chunks[i].adopt, p.ids, x, t) \/ CommandSays(ChunkCmd(p, i), x, t)
  BY <1>14 DEF PrefillSays
<1> QED BY <1>5, <1>8, <1>10, <1>11, <1>12, <1>13, <1>14 DEF PrefillSays

LEMMA GridDoneClaim ==
  ASSUME Shape, ClaimInv, GridDone
  PROVE  ClaimInv'
<1>1. Steps /\ run.pc = "rows" /\ run' = Saved(run) /\ disk' = RowsSaved(run) /\ UNCHANGED <<cmds, wq>>
  BY GridDoneIs DEF Shape, ranks
<1>2. PICK p \in Prefill : p = run
  BY <1>1 DEF Steps
<1>3. ASSUME NEW x \in Ids, NEW t, PrefillSays(p, x, t) PROVE Says(x, t)
  BY <1>1, <1>2, <1>3, RunSays DEF Says
<1>4. \A x \in Ids : \A t : PrefillSays(run', x, t) => Says(x, t)
  <2>1. ASSUME NEW x \in Ids, NEW t, PrefillSays(Saved(p), x, t) PROVE Says(x, t)
    BY <1>1, <1>2, <1>3, <2>1, SavedSays
  <2> QED BY <1>1, <1>2, <2>1
<1>5. PICK j \in 1..Len(p.chunks) : j = p.k + 1
  BY <1>1, <1>2, SavedIs
<1>6. PICK c \in Chunk : c = p.chunks[j] /\ c = DoneChunk(p)
  BY <1>5, FieldsOf DEF DoneChunk
<1>7. \A x \in Ids : \A t : CommandSays(ChunkCmd(p, j), x, t) => Says(x, t)
  <2>1. \A x \in Ids : \A t : CommandSays(ChunkCmd(p, j), x, t) => PrefillSays(p, x, t)
    BY DEF PrefillSays
  <2> QED BY <1>3, <2>1
<1>8. /\ CommandSays(ChunkCmd(p, j), <<"block", c.block>>, Prefix(p.ids, FullBlock(c)))
      /\ CommandSays(ChunkCmd(p, j), <<"key", c.key>>, Prefix(p.ids, c.end))
  BY <1>6, ChunkSays
<1>9. /\ DOMAIN RowsSaved(p) = DOMAIN disk \cup (IF c.block = 0 THEN {} ELSE {<<"rows", c.block, 0>>})
                                           \cup (IF c.key = 0 THEN {} ELSE {<<"tail", c.key, 0>>})
      /\ \A f \in DOMAIN disk : /\ f # <<"rows", c.block, 0>> \/ c.block = 0
                                /\ f # <<"tail", c.key, 0>> \/ c.key = 0
                                => RowsSaved(p)[f] = disk[f]
      /\ c.block # 0 => RowsSaved(p)[<<"rows", c.block, 0>>] = Prefix(p.ids, FullBlock(c))
      /\ c.key # 0 => RowsSaved(p)[<<"tail", c.key, 0>>] = Prefix(p.ids, c.end)
  BY <1>6, RowsSavedParts DEF RowsFile, TailFile
<1>10. ASSUME NEW x \in Ids, NEW t, DiskSays(x, t)' PROVE Says(x, t)
  <2>1. PICK d : d = RowsSaved(p) /\ disk' = d
    BY <1>1, <1>2
  <2>2. PICK f \in DOMAIN d : FileSays(f, d[f], x, t)
    BY <1>10, <2>1 DEF DiskSays
  <2>3. CASE f = <<"rows", c.block, 0>> /\ c.block # 0
    <3>1. x = <<"block", c.block>> /\ t = Prefix(p.ids, FullBlock(c))
      BY <1>9, <2>1, <2>2, <2>3 DEF FileSays, IsBlock
    <3> QED BY <1>7, <1>8, <3>1
  <2>4. CASE f = <<"tail", c.key, 0>> /\ c.key # 0
    <3>1. x = <<"key", c.key>> /\ t = Prefix(p.ids, c.end)
      BY <1>9, <2>1, <2>2, <2>4 DEF FileSays, IsBlock
    <3> QED BY <1>7, <1>8, <3>1
  <2>5. CASE /\ f # <<"rows", c.block, 0>> \/ c.block = 0
             /\ f # <<"tail", c.key, 0>> \/ c.key = 0
    <3>1. f \in DOMAIN disk /\ d[f] = disk[f]
      BY <1>9, <2>1, <2>2, <2>5
    <3> QED BY <2>2, <3>1 DEF DiskSays, Says
  <2> QED BY <2>3, <2>4, <2>5
<1> QED BY <1>1, <1>4, <1>10, StepClaim

LEMMA SnapshotClaim ==
  ASSUME Shape, SlotInv, EntryInv, HeldInv, ClaimInv, Snapshot
  PROVE  ClaimInv'
<1>1. /\ Steps /\ dead = <<>>
      /\ run'.ids = run.ids /\ run'.chunks = run.chunks /\ run'.blocks = run.blocks /\ run'.ents = run.ents
      /\ UNCHANGED <<disk, wq>>
  BY SnapshotIs
<1>2. PICK c \in Command :
        /\ Submit(c)
        /\ \/ run'.pc = "snap" /\ run'.key \in FreeKeys /\ c.op = "snapshot" /\ c.ids = run.ids
              /\ c.block = 0 /\ c.key = run'.key
           \/ run'.pc = "barrier" /\ run'.key = 0 /\ c.op = "barrier"
  BY SnapshotIs
<1>3. PICK p \in Prefill : p = run
  BY <1>1 DEF Steps
<1>4. PICK q \in Prefill : q = run'
  BY <1>1 DEF Steps
<1>5. ASSUME NEW x \in Ids, NEW t, PrefillSays(q, x, t) PROVE PrefillSays(p, x, t) \/ CommandSays(c, x, t)
  <2>1. CASE x # <<"key", q.key>>
    BY <1>1, <1>3, <1>4, <1>5, <2>1, SamePrefillSays
  <2>2. CASE x = <<"key", q.key>> /\ t = q.ids
    <3>1. q.key # 0
      BY <2>2, FreeTypes DEF Ids
    <3> QED BY <1>1, <1>2, <1>3, <1>4, <2>2, <3>1 DEF CommandSays
  <2>3. \A j : ChunkCmd(q, j) = ChunkCmd(p, j)
    BY <1>1, <1>3, <1>4 DEF ChunkCmd
  <2> QED BY <1>1, <1>3, <1>4, <1>5, <2>1, <2>2, <2>3 DEF PrefillSays
<1>6. ASSUME NEW x \in Ids, NEW t, Says(x, t)' PROVE Says(x, t) \/ \E d \in {c} : CommandSays(d, x, t)
  <2>1. CASE DiskSays(x, t)' \/ QueueSays(x, t)'
    BY <1>1, <2>1, SameSays DEF Says
  <2>2. CASE OrderSays(x, t)'
    <3>1. OrderSays(x, t) \/ CommandSays(c, x, t)
      BY <1>2, <2>2, SubmitSays
    <3> QED BY <3>1 DEF Says
  <2>3. CASE StackSays(x, t)'
    <3>1. StackSays(x, t) \/ PrefillSays(q, x, t)
      BY <1>1, <1>4, <2>3, StepSays
    <3>2. StackSays(x, t) \/ PrefillSays(p, x, t) \/ CommandSays(c, x, t)
      BY <1>5, <3>1
    <3>3. PrefillSays(p, x, t) => StackSays(x, t)
      BY <1>1, <1>3, RunSays
    <3> QED BY <3>2, <3>3 DEF Says
  <2> QED BY <1>6, <2>1, <2>2, <2>3 DEF Says
<1>7. ASSUME NEW x \in Ids, NEW t, NEW u, CommandSays(c, x, t) PROVE ~Says(x, u)
  <2>1. c.block \in FreeBlocks \cup {0} /\ c.key \in FreeKeys \cup {0}
    BY <1>2, <1>7 DEF CommandSays
  <2> QED BY <1>1, <1>7, <2>1, FreshCommand
<1>8. ASSUME NEW x \in Ids, NEW t, NEW u, CommandSays(c, x, t), CommandSays(c, x, u) PROVE t = u
  BY <1>8 DEF CommandSays
<1>9. PICK C : C = {c}
  OBVIOUS
<1>10. \A x \in Ids : \A t : Says(x, t)' => Says(x, t) \/ \E d \in C : CommandSays(d, x, t)
  BY <1>6, <1>9
<1>11. \A d \in C : \A x \in Ids : \A t, u : CommandSays(d, x, t) => ~Says(x, u)
  BY <1>7, <1>9
<1>12. \A d, g \in C : \A x \in Ids : \A t, u : CommandSays(d, x, t) /\ CommandSays(g, x, u) => t = u
  BY <1>8, <1>9
<1> QED BY <1>10, <1>11, <1>12, NewClaims

(* A file written.                                                         *)
LEMMA WrittenSays ==
  ASSUME NEW file, NEW content, disk' = With(disk, file, content), NEW x, NEW t, DiskSays(x, t)'
  PROVE  DiskSays(x, t) \/ FileSays(file, content, x, t)
<1>1. PICK f \in DOMAIN disk' : FileSays(f, disk'[f], x, t)
  BY DEF DiskSays
<1>2. f # file => f \in DOMAIN disk /\ disk'[f] = disk[f]
  BY <1>1 DEF With
<1>3. f = file => disk'[f] = content
  BY <1>1 DEF With
<1> QED BY <1>1, <1>2, <1>3 DEF DiskSays

LEMMA SaveTailClaim ==
  ASSUME Shape, ClaimInv, SaveTail
  PROVE  ClaimInv'
<1>1. PICK e : e = [key |-> run.key, tokens |-> run.ids, blocks |-> run.blocks, capture |-> TRUE]
  OBVIOUS
<1>2. /\ Steps /\ run'.ids = run.ids /\ run'.chunks = run.chunks /\ run'.blocks = run.blocks
      /\ run'.key = run.key /\ run.key \in Keys
      /\ e \in Entry /\ run'.ents = Append(run.ents, e)
      /\ disk' = With(disk, <<"tail", run.key, 0>>, run.ids)
      /\ \E c \in Command : c.op = "barrier" /\ Submit(c)
      /\ UNCHANGED wq
  BY <1>1, SaveTailIs
<1>3. PICK p \in Prefill : p = run
  BY <1>2 DEF Steps
<1>4. PICK q \in Prefill : q = run'
  BY <1>2 DEF Steps
<1>5. e.key = p.key /\ e.tokens = p.ids /\ e.blocks = p.blocks /\ q.key = p.key /\ q.ids = p.ids
      /\ q.chunks = p.chunks /\ q.blocks = p.blocks /\ q.ents = Append(p.ents, e) /\ e \in Entry
  BY <1>1, <1>2, <1>3, <1>4
<1>6. ASSUME NEW x \in Ids, NEW t, PrefillSays(p, x, t) PROVE Says(x, t)
  BY <1>2, <1>3, <1>6, RunSays DEF Says
<1>7. ASSUME NEW x, NEW t, EntrySays(e, x, t) PROVE PrefillSays(p, x, t)
  BY <1>5, <1>7 DEF EntrySays, PrefillSays
<1>8. ASSUME NEW x \in Ids, NEW t, PrefillSays(q, x, t) PROVE PrefillSays(p, x, t)
  <2>1. PICK n \in Nat : n = Len(p.ents)
    BY FieldsOf
  <2>2. Len(q.ents) = n + 1 /\ q.ents[n + 1] = e /\ \A i \in 1..n : q.ents[i] = p.ents[i]
    BY <1>5, <2>1, AppendLast, FieldsOf
  <2>3. ASSUME NEW m \in 1..Len(q.ents), EntrySays(q.ents[m], x, t) PROVE PrefillSays(p, x, t)
    <3>1. m \in 1..n \/ m = n + 1
      BY <2>2
    <3>2. CASE m \in 1..n
      BY <2>1, <2>2, <2>3, <3>2 DEF PrefillSays
    <3>3. CASE m = n + 1
      BY <1>7, <2>2, <2>3, <3>3
    <3> QED BY <3>1, <3>2, <3>3
  <2>4. \A j : ChunkCmd(q, j) = ChunkCmd(p, j)
    BY <1>5 DEF ChunkCmd
  <2>5. CASE \E m \in 1..Len(q.ents) : EntrySays(q.ents[m], x, t)
    BY <2>3, <2>5
  <2> QED BY <1>5, <1>8, <2>4, <2>5 DEF PrefillSays
<1>9. \A x \in Ids : \A t : PrefillSays(run', x, t) => Says(x, t)
  BY <1>4, <1>6, <1>8
<1>10. ASSUME NEW x \in Ids, NEW t, DiskSays(x, t)' PROVE Says(x, t)
  <2>1. DiskSays(x, t) \/ FileSays(<<"tail", p.key, 0>>, p.ids, x, t)
    BY <1>2, <1>3, <1>10, WrittenSays
  <2>2. ASSUME FileSays(<<"tail", p.key, 0>>, p.ids, x, t) PROVE Says(x, t)
    <3>1. x = <<"key", p.key>> /\ t = p.ids
      BY <2>2 DEF FileSays, IsBlock
    <3>2. PrefillSays(p, x, t)
      BY <3>1 DEF PrefillSays
    <3> QED BY <1>6, <3>2
  <2> QED BY <2>1, <2>2 DEF Says
<1>11. \E c \in Command : Submit(c) /\ \A x \in Ids : \A t : CommandSays(c, x, t) => Says(x, t)
  BY <1>2, SilentCommand
<1> QED BY <1>2, <1>9, <1>10, <1>11, StepClaim

LEMMA RegisterClaim ==
  ASSUME Shape, ClaimInv, Register
  PROVE  ClaimInv'
<1>1. /\ Steps /\ run'.ids = run.ids /\ run'.chunks = run.chunks /\ run'.blocks = run.blocks
      /\ run'.key = run.key /\ run.ents # <<>> /\ run'.ents = Tail(run.ents)
      /\ Head(run.ents) = run.ents[1]
      /\ \/ disk' = With(disk, <<"idx", Head(run.ents).key, 0>>, Head(run.ents))
         \/ disk' = Without(disk, ToSet(EntryFiles(Head(run.ents).key)))
      /\ UNCHANGED <<cmds, wq>>
  BY RegisterIs DEF ranks
<1>2. PICK p \in Prefill : p = run
  BY <1>1 DEF Steps
<1>3. PICK q \in Prefill : q = run'
  BY <1>1 DEF Steps
<1>4. /\ q.ids = p.ids /\ q.chunks = p.chunks /\ q.blocks = p.blocks /\ q.key = p.key
      /\ p.ents # <<>> /\ q.ents = Tail(p.ents) /\ p.ents \in Seq(Entry)
  BY <1>1, <1>2, <1>3, FieldsOf
<1>5. PICK n \in Nat \ {0} : n = Len(p.ents)
  BY <1>4, EmptySeq
<1>6. Len(q.ents) = n - 1 /\ \A m \in 1..(n - 1) : q.ents[m] = p.ents[m + 1] /\ m + 1 \in 1..n
  BY <1>4, <1>5, HeadTailProperties
<1>7. PICK e : e = p.ents[1]
  OBVIOUS
<1>8. ASSUME NEW x \in Ids, NEW t, PrefillSays(p, x, t) PROVE Says(x, t)
  BY <1>1, <1>2, <1>8, RunSays DEF Says
<1>9. ASSUME NEW x \in Ids, NEW t, PrefillSays(q, x, t) PROVE PrefillSays(p, x, t)
  <2>1. ASSUME NEW m \in 1..Len(q.ents), EntrySays(q.ents[m], x, t) PROVE PrefillSays(p, x, t)
    BY <1>5, <1>6, <2>1 DEF PrefillSays
  <2>2. \A j : ChunkCmd(q, j) = ChunkCmd(p, j)
    BY <1>4 DEF ChunkCmd
  <2>3. CASE \E m \in 1..Len(q.ents) : EntrySays(q.ents[m], x, t)
    BY <2>1, <2>3
  <2> QED BY <1>4, <1>9, <2>2, <2>3 DEF PrefillSays
<1>10. \A x \in Ids : \A t : PrefillSays(run', x, t) => Says(x, t)
  BY <1>3, <1>8, <1>9
<1>11. ASSUME NEW x \in Ids, NEW t, DiskSays(x, t)' PROVE Says(x, t)
  <2>1. CASE disk' = With(disk, <<"idx", e.key, 0>>, e)
    <3>1. DiskSays(x, t) \/ FileSays(<<"idx", e.key, 0>>, e, x, t)
      BY <1>11, <2>1, WrittenSays
    <3>2. ASSUME FileSays(<<"idx", e.key, 0>>, e, x, t) PROVE Says(x, t)
      <4>1. EntrySays(e, x, t)
        BY <3>2 DEF FileSays
      <4>2. 1 \in 1..Len(p.ents)
        BY <1>5
      <4>3. PrefillSays(p, x, t)
        BY <1>7, <4>1, <4>2 DEF PrefillSays
      <4> QED BY <1>8, <4>3
    <3> QED BY <3>1, <3>2 DEF Says
  <2>2. ASSUME disk' = Without(disk, ToSet(EntryFiles(e.key))) PROVE Says(x, t)
    <3>1. PICK S : S = ToSet(EntryFiles(e.key))
      OBVIOUS
    <3>2. disk' = Without(disk, S)
      BY <2>2, <3>1
    <3>3. \A f \in DOMAIN disk' : f \in DOMAIN disk /\ disk'[f] = disk[f]
      BY <3>2 DEF Without
    <3> QED BY <1>11, <3>3 DEF DiskSays, Says
  <2> QED BY <1>1, <1>2, <1>7, <2>1, <2>2
<1> QED BY <1>1, <1>10, <1>11, StepClaim

(* The prefill ends, or everybody does.                                    *)
LEMMA EndClaim ==
  ASSUME ClaimInv, Pops, UNCHANGED <<disk, wq>>, \A r \in Ranks : Commands(r)' \subseteq Commands(r)
  PROVE  ClaimInv'
<1>1. \A x \in Ids : \A t : DiskSays(x, t)' \/ QueueSays(x, t)' => Says(x, t)
  BY SameSays DEF Says
<1>2. \A x \in Ids : \A t : OrderSays(x, t)' => Says(x, t)
  BY DEF OrderSays, Says
<1>3. \A x \in Ids : \A t : StackSays(x, t)' => Says(x, t)
  BY PopSays DEF Says
<1> QED BY <1>1, <1>2, <1>3, MoveClaim

LEMMA AbortClaim ==
  ASSUME Shape, ClaimInv, Fail \/ ChunkFails \/ ReplyFails \/ Finish
  PROVE  ClaimInv'
<1>1. Pops /\ UNCHANGED <<disk, wq>> /\ (UNCHANGED cmds \/ cmds' = [r \in Ranks |-> <<>>])
  BY AbortIs, FinishIs DEF ranks
<1>2. ToSet(<<>>) = {}
  BY DEF ToSet
<1>3. \A r \in Ranks : Commands(r)' \subseteq Commands(r)
  BY <1>1, <1>2 DEF Commands
<1> QED BY <1>1, <1>3, EndClaim

(* Nobody is at work any more.                                             *)
LEMMA StopClaim ==
  ASSUME ClaimInv, Clear \/ Restart
  PROVE  ClaimInv'
<1>1. Len(<<>>) = 0 /\ 1..0 = {}
  OBVIOUS
<1>2. stack' = <<>>
  BY DEF Clear, Restart
<1>3. \A x, t : ~StackSays(x, t)'
  BY <1>1, <1>2 DEF StackSays
<1>4. ToSet(<<>>) = {}
  BY DEF ToSet
<1>5. UNCHANGED <<cmds, wq>> \/ (cmds' = [r \in Ranks |-> <<>>] /\ wq' = [r \in Ranks |-> <<>>])
  BY DEF Clear, Restart, ranks
<1>6. \A x, t : OrderSays(x, t)' => OrderSays(x, t)
  BY <1>4, <1>5 DEF OrderSays, Commands
<1>7. \A x, t : QueueSays(x, t)' => QueueSays(x, t)
  BY <1>4, <1>5 DEF QueueSays, Queued
<1>8. \E S : disk' = disk \/ disk' = Without(disk, S)
  BY DEF Clear, Restart
<1>9. \A f \in DOMAIN disk' : f \in DOMAIN disk /\ disk'[f] = disk[f]
  BY <1>8 DEF Without
<1>10. \A x, t : DiskSays(x, t)' => DiskSays(x, t)
  BY <1>9 DEF DiskSays
<1> QED BY <1>3, <1>6, <1>7, <1>10, MoveClaim DEF Says

LEMMA UnlinkClaim ==
  ASSUME ClaimInv, Unlink
  PROVE  ClaimInv'
<1>1. disk' = Without(disk, {Head(dead)}) /\ UNCHANGED <<stack, cmds, wq>>
  BY DEF Unlink, ranks
<1>2. \A f \in DOMAIN disk' : f \in DOMAIN disk /\ disk'[f] = disk[f]
  BY <1>1 DEF Without
<1>3. \A x \in Ids : \A t : DiskSays(x, t)' => Says(x, t)
  BY <1>2 DEF DiskSays, Says
<1>4. \A x \in Ids : \A t : QueueSays(x, t)' \/ OrderSays(x, t)' \/ StackSays(x, t)' => Says(x, t)
  BY <1>1, SameSays DEF Says
<1> QED BY <1>3, <1>4, MoveClaim

(* What a rank puts into its queue its command says.                       *)
LEMMA PutSays ==
  ASSUME NEW c \in Command, c.op \in {"chunk", "snapshot"}, NEW r \in Ranks, NEW x, NEW t
  PROVE  /\ \A w \in ToSet(BlockPut(c, r)) : FileSays(w.file, w.content, x, t) => CommandSays(c, x, t)
         /\ \A w \in ToSet(EntryPut(c, r)) : FileSays(w.file, w.content, x, t) => CommandSays(c, x, t)
         /\ LET w == File("ent", c.key, r, c.ids) IN FileSays(w.file, w.content, x, t) => CommandSays(c, x, t)
<1>1. ASSUME NEW w, w = File("ent", c.key, r, c.ids), FileSays(w.file, w.content, x, t) PROVE CommandSays(c, x, t)
  <2>1. w.file = <<"ent", c.key, r>> /\ w.content = c.ids
    BY <1>1 DEF File
  <2>2. x = <<"key", c.key>> /\ t = c.ids
    BY <1>1, <2>1 DEF FileSays, IsBlock
  <2> QED BY <2>2 DEF CommandSays
<1>2. ASSUME NEW w, w = File("blk", c.block, r, Prefix(c.ids, Grid * (Len(c.ids) \div Grid))),
             FileSays(w.file, w.content, x, t)
      PROVE  CommandSays(c, x, t)
  <2>1. PICK v : v = Prefix(c.ids, Grid * (Len(c.ids) \div Grid))
    OBVIOUS
  <2>2. w.file = <<"blk", c.block, r>> /\ w.content = v
    BY <1>2, <2>1 DEF File
  <2>3. x = <<"block", c.block>> /\ t = v
    BY <1>2, <2>2 DEF FileSays, IsBlock
  <2> QED BY <2>1, <2>3 DEF CommandSays
<1>3. \A w \in ToSet(BlockPut(c, r)) : w = File("blk", c.block, r, Prefix(c.ids, Grid * (Len(c.ids) \div Grid)))
  BY PutsTyped
<1>4. \A w \in ToSet(EntryPut(c, r)) : w = File("ent", c.key, r, c.ids)
  BY PutsTyped
<1> QED BY <1>1, <1>2, <1>3, <1>4

LEMMA ExecClaim ==
  ASSUME Shape, ClaimInv, ExecBarrier \/ \E r \in Ranks : ExecChunk(r) \/ ExecSnapshot(r) \/ ExecRestore(r)
  PROVE  ClaimInv'
<1>1. (\A r \in Ranks : \A c \in Commands(r)' : c.op # "flush" => c \in Commands(r)) /\ UNCHANGED <<disk, stack>>
  BY ExecCommands
<1>2. \A x, t : OrderSays(x, t)' => OrderSays(x, t)
  BY <1>1 DEF OrderSays, CommandSays
<1>3. ASSUME NEW x, NEW t, QueueSays(x, t)' PROVE QueueSays(x, t) \/ OrderSays(x, t)
  <2>1. CASE UNCHANGED wq
    BY <1>3, <2>1, SameSays
  <2>2. ASSUME NEW r \in Ranks, ExecChunk(r) \/ ExecSnapshot(r) PROVE QueueSays(x, t) \/ OrderSays(x, t)
    <3>1. PICK s \in Seq(Command) : s = cmds[r] /\ s # <<>> /\ s[1] \in Command /\ s[1].op \in {"chunk", "snapshot"}
      BY <2>2, ExecChunkIs, ExecSnapshotIs DEF Shape
    <3>2. PICK c \in Command : c = s[1]
      BY <3>1
    <3>3. /\ \A w \in ToSet(wq'[r]) : \/ w \in ToSet(wq[r])
                                      \/ w \in ToSet(BlockPut(c, r)) \/ w \in ToSet(EntryPut(c, r))
                                      \/ w = File("ent", c.key, r, c.ids)
          /\ \A i \in Ranks : i # r => wq'[i] = wq[i]
      <4>1. CASE ExecChunk(r)
        BY <3>1, <3>2, <4>1, ExecChunkIs DEF Shape
      <4>2. CASE ExecSnapshot(r)
        BY <3>1, <3>2, <4>2, ExecSnapshotIs DEF Shape
      <4> QED BY <2>2, <4>1, <4>2, Zenon
    <3>4. c \in Commands(r)
      BY <3>1, <3>2, TailSet DEF Commands
    <3>10. PICK i \in Ranks : \E w \in ToSet(wq'[i]) : FileSays(w.file, w.content, x, t)
      BY <1>3 DEF QueueSays, Queued
    <3>5. PICK w \in ToSet(wq'[i]) : FileSays(w.file, w.content, x, t)
      BY <3>10
    <3>6. CASE w \in ToSet(wq[i])
      BY <3>5, <3>6 DEF QueueSays, Queued
    <3>7. CASE w \notin ToSet(wq[i])
      <4>1. w \in ToSet(BlockPut(c, r)) \/ w \in ToSet(EntryPut(c, r)) \/ w = File("ent", c.key, r, c.ids)
        BY <3>3, <3>5, <3>7
      <4>2. CommandSays(c, x, t)
        BY <3>1, <3>2, <3>5, <4>1, PutSays
      <4> QED BY <3>4, <4>2 DEF OrderSays
    <3> QED BY <3>6, <3>7
  <2> QED BY <2>1, <2>2 DEF ExecBarrier, ExecRestore
<1>4. \A x \in Ids : \A t : DiskSays(x, t)' \/ StackSays(x, t)' => Says(x, t)
  BY <1>1, SameSays DEF Says
<1> QED BY <1>2, <1>3, <1>4, MoveClaim DEF Says

LEMMA WriteClaim ==
  ASSUME Shape, ClaimInv, NEW r \in Ranks, Write(r) \/ WriteFails(r)
  PROVE  ClaimInv'
<1>1. PICK w \in Writing : w = wq[r][1]
  BY WriteIs DEF Shape
<1>2. /\ ToSet(wq[r]) = ToSet(wq'[r]) \cup {w} /\ \A s \in Ranks : s # r => wq'[s] = wq[s]
      /\ UNCHANGED <<stack, cmds>>
      /\ UNCHANGED disk \/ disk' = With(disk, w.file, w.content)
  BY <1>1, WriteIs DEF Shape
<1>3. \A x, t : QueueSays(x, t)' => QueueSays(x, t)
  BY <1>2 DEF QueueSays, Queued
<1>4. \A x, t : FileSays(w.file, w.content, x, t) => QueueSays(x, t)
  BY <1>2 DEF QueueSays, Queued
<1>5. ASSUME NEW x, NEW t, DiskSays(x, t)' PROVE DiskSays(x, t) \/ QueueSays(x, t)
  <2>1. CASE UNCHANGED disk
    BY <1>5, <2>1, SameSays
  <2>2. CASE disk' = With(disk, w.file, w.content)
    <3>1. DiskSays(x, t) \/ FileSays(w.file, w.content, x, t)
      BY <1>5, <2>2, WrittenSays
    <3> QED BY <1>4, <3>1
  <2> QED BY <1>2, <2>1, <2>2
<1>6. \A x \in Ids : \A t : OrderSays(x, t)' \/ StackSays(x, t)' => Says(x, t)
  BY <1>2, SameSays DEF Says
<1> QED BY <1>3, <1>5, <1>6, MoveClaim DEF Says

LEMMA InitClaim ==
  ASSUME Init
  PROVE  ClaimInv
<1>1. Len(<<>>) = 0 /\ 1..0 = {}
  OBVIOUS
<1>2. ToSet(<<>>) = {}
  BY DEF ToSet
<1>3. DOMAIN disk = {} /\ stack = <<>> /\ \A r \in Ranks : cmds[r] = <<>> /\ wq[r] = <<>>
  BY <1>1 DEF Init
<1>4. \A x, t : ~Says(x, t)
  BY <1>1, <1>2, <1>3 DEF Says, DiskSays, QueueSays, OrderSays, StackSays, Queued, Commands
<1> QED BY <1>4 DEF ClaimInv

LEMMA NextClaim ==
  ASSUME CacheInv, HeldInv, ClaimInv, [Next]_vars
  PROVE  ClaimInv'
<1>1. Shape /\ SlotInv /\ EntryInv
  BY DEF CacheInv
<1>2. CASE Next
  <2>1. CASE \E ids \in Prompts : Open(ids)
    BY <1>1, <2>1, OpenClaim
  <2>2. CASE Restored \/ RestoreFails
    BY <1>1, <2>2, RestoredClaim
  <2>3. CASE Plan
    BY <1>1, <2>3, PlanClaim
  <2>4. CASE Continue
    BY <1>1, <2>4, ContinueClaim
  <2>5. CASE GridDone
    BY <1>1, <2>5, GridDoneClaim
  <2>6. CASE Fail \/ ChunkFails \/ ReplyFails \/ Finish
    BY <1>1, <2>6, AbortClaim
  <2>7. CASE Snapshot
    BY <1>1, <2>7, SnapshotClaim
  <2>8. CASE SaveTail
    BY <1>1, <2>8, SaveTailClaim
  <2>9. CASE Register
    BY <1>1, <2>9, RegisterClaim
  <2>10. CASE Unlink
    BY <2>10, UnlinkClaim
  <2>11. CASE Clear \/ Restart
    BY <2>11, StopClaim
  <2>12. CASE ExecBarrier \/ \E r \in Ranks : ExecChunk(r) \/ ExecSnapshot(r) \/ ExecRestore(r)
    BY <1>1, <2>12, ExecClaim
  <2>13. CASE \E r \in Ranks : Write(r) \/ WriteFails(r)
    BY <1>1, <2>13, WriteClaim
  <2> QED BY <1>2, <2>1, <2>2, <2>3, <2>4, <2>5, <2>6, <2>7, <2>8, <2>9, <2>10, <2>11, <2>12, <2>13 DEF Next
<1>3. CASE UNCHANGED vars
  <2>1. \A x \in Ids : \A t : DiskSays(x, t)' \/ QueueSays(x, t)' \/ OrderSays(x, t)' \/ StackSays(x, t)' => Says(x, t)
    BY <1>3, SameSays DEF vars, ranks, Says
  <2> QED BY <2>1, MoveClaim
<1> QED BY <1>2, <1>3

(* All that speaks of an entry says what its record says.                  *)
LEMMA RestorableOf ==
  ASSUME CacheInv, ClaimInv
  PROVE  Restorable
<1>1. Shape /\ EntryInv
  BY DEF CacheInv
<1>2. SUFFICES ASSUME NEW e \in Entries
      PROVE  /\ OnDisk(AllFiles(e)) /\ disk[<<"idx", e.key, 0>>] = e
             /\ \A f \in ToSet(StateFiles(e.key)) : disk[f] = e.tokens
             /\ Len(e.blocks) = Len(e.tokens) \div Grid
             /\ \A i \in 1..Len(e.blocks) : \A f \in ToSet(BlockFiles(e.blocks[i])) :
                  disk[f] = Prefix(e.tokens, i * Grid)
  BY DEF Restorable
<1>3. /\ OnDisk(AllFiles(e)) /\ disk[<<"idx", e.key, 0>>] = e
      /\ e \in Entry /\ e.key \in Keys /\ e.blocks \in Seq(Blocks)
      /\ ToSet(AllFiles(e)) = Of({e.key}, ToSet(e.blocks))
  BY <1>1, EntriesTyped DEF Shape, EntryInv, Stored, Intact, IdxFile
<1>4. Of({e.key}, ToSet(e.blocks)) \subseteq DOMAIN disk
  BY <1>3 DEF OnDisk
<1>5. ASSUME NEW x \in Ids, NEW t, NEW u, EntrySays(e, x, t), DiskSays(x, u) PROVE t = u
  BY <1>1, <1>5, EntryOnDisk DEF ClaimInv, Says
<1>6. ASSUME NEW f \in ToSet(StateFiles(e.key)) PROVE disk[f] = e.tokens
  <2>1. PICK key \in Keys : key = e.key
    BY <1>3
  <2>2. f \in Of({key}, {}) \ {<<"idx", key, 0>>}
    BY <1>6, <2>1, EntryFilesAre
  <2>3. ~IsBlock(f) /\ f[2] = key /\ f[1] # "idx"
    BY <2>2, KeyNames
  <2>4. f \in DOMAIN disk
    BY <1>4, <2>1, <2>2 DEF Of
  <2>5. FileSays(f, disk[f], <<"key", key>>, disk[f])
    BY <2>3 DEF FileSays
  <2>6. DiskSays(<<"key", key>>, disk[f])
    BY <2>4, <2>5 DEF DiskSays
  <2>7. EntrySays(e, <<"key", key>>, e.tokens) /\ <<"key", key>> \in Ids
    BY <2>1 DEF EntrySays, Ids
  <2> QED BY <1>5, <2>6, <2>7
<1>7. Len(e.blocks) = Len(e.tokens) \div Grid
  BY <1>3 DEF Entry
<1>8. ASSUME NEW i \in 1..Len(e.blocks), NEW f \in ToSet(BlockFiles(e.blocks[i]))
      PROVE  disk[f] = Prefix(e.tokens, i * Grid)
  <2>1. PICK b \in Blocks : b = e.blocks[i] /\ b \in ToSet(e.blocks)
    BY <1>3, AsSet
  <2>2. f \in Of({}, {b})
    BY <1>8, <2>1, BlockFilesAre
  <2>3. IsBlock(f) /\ f[2] = b /\ f[1] # "idx"
    BY <2>2 DEF Of, IsBlock
  <2>4. f \in DOMAIN disk
    BY <1>4, <2>1, <2>2 DEF Of
  <2>5. FileSays(f, disk[f], <<"block", b>>, disk[f])
    BY <2>3 DEF FileSays
  <2>6. DiskSays(<<"block", b>>, disk[f])
    BY <2>4, <2>5 DEF DiskSays
  <2>7. Lists(e.blocks, e.tokens, <<"block", b>>, Prefix(e.tokens, i * Grid))
    BY <2>1 DEF Lists
  <2>8. EntrySays(e, <<"block", b>>, Prefix(e.tokens, i * Grid)) /\ <<"block", b>> \in Ids
    BY <2>7 DEF EntrySays, Ids
  <2> QED BY <1>5, <2>6, <2>8
<1> QED BY <1>3, <1>6, <1>7, <1>8

(* Every entry a lookup can return can be restored: its files are all      *)
(* there, on both ranks, and hold the state of exactly these tokens        *)
(* (the docstring of save_snapshot: "resumes stay exact").                 *)
THEOREM CacheRestorable == Spec => []Restorable
<1>1. Init => ClaimInv
  BY InitClaim
<1>2. CacheInv /\ HeldInv /\ ClaimInv /\ [Next]_vars => ClaimInv'
  BY NextClaim
<1>3. CacheInv /\ ClaimInv => Restorable
  BY RestorableOf
<1> QED BY <1>1, <1>2, <1>3, CacheInvHolds, StageHolds, PTL DEF Spec
=============================================================================
