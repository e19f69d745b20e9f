----------------------- MODULE EngineSchedulerProofs -----------------------
(***************************************************************************)
(* For any number of requests, clients' aborts and retry budgets, any cap  *)
(* of the store gate and any sequence of faults, at most one in a step:    *)
(* where a request is, which rows the generator keeps, what is given back, *)
(* how many caches are held, and that every client gets one answer.        *)
(*                                                                         *)
(* PlacedInv says where the requests are: a known request waits, prefills, *)
(* is held between queues, runs or has its cache stored, and does one of   *)
(* these only.  RowsInv adds the rows and the two uid maps, LoadInv the    *)
(* room the store gate leaves, SerialInv who is at work while a request is *)
(* retried serially, and LedgerInv the answers.  Each action's effect on   *)
(* the queues is a lemma of its own (..Moves), which all of them use.      *)
(***************************************************************************)
EXTENDS EngineScheduler, SequenceTheorems, FiniteSetTheorems, WellFoundedInduction, TLAPS

(* Induction over the natural numbers, as a fact about a set.              *)
LEMMA SetInduction ==
  ASSUME NEW T, 0 \in T, \A n \in Nat : n \in T => n + 1 \in T
  PROVE  \A n \in Nat : n \in T
<1> SUFFICES ASSUME NEW n0 \in Nat, n0 \notin T PROVE FALSE
  OBVIOUS
<1> DEFINE U == {n \in Nat : n \notin T}
<1>1. \E m \in U : \A n \in U : <<n, m>> \notin OpToRel(<, Nat)
  BY WFMin, NatLessThanWellFounded, Zenon
<1>2. \E m \in U : \A n \in U : ~(n < m)
  BY <1>1, Zenon DEF OpToRel
<1>3. PICK m \in U : \A n \in U : ~(n < m)
  BY <1>2
<1>4. m \in Nat /\ m \notin T
  BY <1>3
<1>5. m # 0
  BY <1>4
<1>6. m - 1 \in Nat /\ m - 1 < m /\ m - 1 + 1 = m
  BY <1>4, <1>5
<1>7. m - 1 \in T
  BY <1>3, <1>6
<1> QED
  BY <1>4, <1>6, <1>7

Extended(s, at, before, n) == IF n \in at THEN Append(before, s[n]) ELSE before
UpTo(s, at, f, m) == f = [n \in 0..m |-> IF n = 0 THEN <<>> ELSE Extended(s, at, f[n - 1], n)]

LEMMA UpToExists ==
  ASSUME NEW s, NEW at
  PROVE  \A m \in Nat : \E f : UpTo(s, at, f, m)
<1> DEFINE T == {m \in Nat : \E f : UpTo(s, at, f, m)}
<1>1. 0 \in T
  <2>1. PICK f : f = [n \in 0..0 |-> <<>>]
    OBVIOUS
  <2>2. \A n \in 0..0 : n = 0
    OBVIOUS
  <2>3. UpTo(s, at, f, 0)
    BY <2>1, <2>2 DEF UpTo
  <2> QED
    BY <2>3
<1>2. ASSUME NEW m \in Nat, m \in T PROVE m + 1 \in T
  <2>1. PICK f : UpTo(s, at, f, m)
    BY <1>2
  <2>2. PICK g : g = [n \in 0..(m + 1) |-> IF n <= m THEN f[n] ELSE Extended(s, at, f[m], m + 1)]
    OBVIOUS
  <2>3. \A n \in 0..m : f[n] = IF n = 0 THEN <<>> ELSE Extended(s, at, f[n - 1], n)
    BY <2>1 DEF UpTo
  <2>4. ASSUME NEW n \in 0..(m + 1)
        PROVE  g[n] = IF n = 0 THEN <<>> ELSE Extended(s, at, g[n - 1], n)
    <3>1. CASE n \in 0..m
      <4>1. n # 0 => n - 1 \in 0..m /\ n - 1 <= m
        BY <3>1
      <4>2. n # 0 => g[n - 1] = f[n - 1]
        BY <2>2, <4>1
      <4>3. g[n] = f[n]
        BY <2>2, <3>1
      <4> QED
        BY <2>3, <3>1, <4>2, <4>3
    <3>2. CASE n = m + 1
      <4>1. g[n] = Extended(s, at, f[m], m + 1) /\ n # 0 /\ n - 1 = m
        BY <2>2, <3>2
      <4>2. g[m] = f[m]
        BY <2>2
      <4> QED
        BY <3>2, <4>1, <4>2
    <3> QED
      BY <3>1, <3>2
  <2>5. g = [n \in 0..(m + 1) |-> g[n]]
    BY <2>2
  <2>6. g = [n \in 0..(m + 1) |-> IF n = 0 THEN <<>> ELSE Extended(s, at, g[n - 1], n)]
    BY <2>4, <2>5
  <2>7. UpTo(s, at, g, m + 1)
    BY <2>6 DEF UpTo
  <2> QED
    BY <2>7
<1> HIDE DEF T
<1>3. \A m \in Nat : m \in T
  BY <1>1, <1>2, SetInduction
<1> QED
  BY <1>3 DEF T

LEMMA ChosenUpTo ==
  ASSUME NEW s, NEW at, Len(s) \in Nat
  PROVE  \E f : UpTo(s, at, f, Len(s)) /\ Chosen(s, at) = f[Len(s)]
<1> DEFINE F(f) == f = [n \in 0..Len(s) |->
                         IF n = 0 THEN <<>>
                         ELSE IF n \in at THEN Append(f[n - 1], s[n]) ELSE f[n - 1]]
<1>1. \E f : F(f)
  <2>1. PICK f : UpTo(s, at, f, Len(s))
    BY UpToExists
  <2>2. F(f)
    BY <2>1 DEF UpTo, Extended
  <2> QED
    BY <2>2
<1>2. PICK c : c = (CHOOSE f : F(f))
  OBVIOUS
<1>3. Chosen(s, at) = c[Len(s)]
  BY <1>2 DEF Chosen
<1> HIDE DEF F
<1>4. F(c)
  BY <1>1, <1>2
<1>5. UpTo(s, at, c, Len(s))
  BY <1>4 DEF UpTo, Extended, F
<1> QED
  BY <1>3, <1>5

(* Sequences as sets, and sequences without a repetition.                  *)
Distinct(s) == \A i, j \in 1..Len(s) : s[i] = s[j] => i = j

LEMMA AsSet ==
  ASSUME NEW T, NEW s \in Seq(T)
  PROVE  /\ Len(s) \in Nat /\ DOMAIN s = 1..Len(s) /\ \A i \in 1..Len(s) : s[i] \in T
         /\ ToSet(s) = {s[i] : i \in 1..Len(s)} /\ ToSet(s) \subseteq T
         /\ s = <<>> <=> Len(s) = 0
         /\ s = <<>> <=> ToSet(s) = {}
<1>1. Len(s) \in Nat /\ DOMAIN s = 1..Len(s) /\ \A i \in 1..Len(s) : s[i] \in T
  BY LenProperties, ElementOfSeq
<1>2. ToSet(s) = {s[i] : i \in 1..Len(s)}
  BY <1>1 DEF ToSet
<1>3. s = <<>> <=> Len(s) = 0
  BY EmptySeq
<1>4. Len(s) # 0 => 1 \in 1..Len(s)
  BY <1>1
<1>5. Len(s) = 0 => ToSet(s) = {}
  BY <1>2
<1> QED
  BY <1>1, <1>2, <1>3, <1>4, <1>5

LEMMA AppendSet ==
  ASSUME NEW T, NEW s \in Seq(T), NEW x \in T
  PROVE  /\ Append(s, x) \in Seq(T) /\ ToSet(Append(s, x)) = ToSet(s) \cup {x}
         /\ Len(Append(s, x)) = Len(s) + 1
         /\ Distinct(s) /\ x \notin ToSet(s) => Distinct(Append(s, x))
<1>1. PICK t : t = Append(s, x)
  OBVIOUS
<1>2. /\ t \in Seq(T) /\ Len(t) = Len(s) + 1 /\ t[Len(s) + 1] = x
      /\ \A i \in 1..Len(s) : t[i] = s[i]
  BY <1>1, AppendProperties
<1>3. /\ Len(s) \in Nat /\ ToSet(s) = {s[i] : i \in 1..Len(s)} /\ ToSet(t) = {t[i] : i \in 1..Len(t)}
  BY <1>2, AsSet
<1>4. \A i \in 1..Len(t) : i \in 1..Len(s) \/ i = Len(s) + 1
  BY <1>2, <1>3
<1>5. 1..Len(s) \subseteq 1..Len(t) /\ Len(s) + 1 \in 1..Len(t)
  BY <1>2, <1>3
<1>6. ToSet(t) = ToSet(s) \cup {x}
  <2>1. ASSUME NEW y \in ToSet(t) PROVE y \in ToSet(s) \cup {x}
    BY <1>2, <1>3, <1>4
  <2>2. ASSUME NEW y \in ToSet(s) \cup {x} PROVE y \in ToSet(t)
    BY <1>2, <1>3, <1>5
  <2> QED
    BY <2>1, <2>2
<1>7. Distinct(s) /\ x \notin ToSet(s) => Distinct(t)
  <2> SUFFICES ASSUME Distinct(s), x \notin ToSet(s), NEW i \in 1..Len(t), NEW j \in 1..Len(t), t[i] = t[j]
               PROVE  i = j
    BY DEF Distinct
  <2>1. CASE i \in 1..Len(s) /\ j \in 1..Len(s)
    BY <1>2, <2>1 DEF Distinct
  <2>2. CASE i \in 1..Len(s) /\ j = Len(s) + 1
    BY <1>2, <1>3, <2>2
  <2>3. CASE i = Len(s) + 1 /\ j \in 1..Len(s)
    BY <1>2, <1>3, <2>3
  <2> QED
    BY <1>4, <2>1, <2>2, <2>3
<1> QED
  BY <1>1, <1>2, <1>6, <1>7

LEMMA ConcatSet ==
  ASSUME NEW T, NEW s \in Seq(T), NEW t \in Seq(T)
  PROVE  /\ s \o t \in Seq(T) /\ ToSet(s \o t) = ToSet(s) \cup ToSet(t)
         /\ Len(s \o t) = Len(s) + Len(t)
         /\ Distinct(s) /\ Distinct(t) /\ ToSet(s) \cap ToSet(t) = {} => Distinct(s \o t)
<1>1. PICK c : c = s \o t
  OBVIOUS
<1>2. PICK a \in Nat : a = Len(s)
  BY LenProperties
<1>3. PICK b \in Nat : b = Len(t)
  BY LenProperties
<1>4. /\ c \in Seq(T) /\ Len(c) = a + b
      /\ \A i \in 1..(a + b) : c[i] = IF i <= a THEN s[i] ELSE t[i - a]
  BY <1>1, <1>2, <1>3, ConcatProperties
<1>5. /\ ToSet(s) = {s[i] : i \in 1..a} /\ ToSet(t) = {t[i] : i \in 1..b}
      /\ ToSet(c) = {c[i] : i \in 1..(a + b)}
  BY <1>2, <1>3, <1>4, AsSet
<1>6. /\ \A i \in 1..a : i \in 1..(a + b) /\ c[i] = s[i]
      /\ \A i \in 1..b : a + i \in 1..(a + b) /\ c[a + i] = t[i]
      /\ \A i \in 1..(a + b) : (i \in 1..a /\ c[i] = s[i]) \/ (i - a \in 1..b /\ i > a /\ c[i] = t[i - a])
  <2>1. \A i \in 1..b : a + i \in 1..(a + b) /\ ~(a + i <= a) /\ a + i - a = i
    OBVIOUS
  <2>2. \A i \in 1..(a + b) : i \in 1..a \/ (i - a \in 1..b /\ i > a)
    OBVIOUS
  <2> QED
    BY <1>4, <2>1, <2>2
<1>7. ToSet(c) = ToSet(s) \cup ToSet(t)
  <2>1. ASSUME NEW y \in ToSet(c) PROVE y \in ToSet(s) \cup ToSet(t)
    BY <1>5, <1>6
  <2>2. ASSUME NEW y \in ToSet(s) \cup ToSet(t) PROVE y \in ToSet(c)
    BY <1>5, <1>6
  <2> QED
    BY <2>1, <2>2
<1>8. Distinct(s) /\ Distinct(t) /\ ToSet(s) \cap ToSet(t) = {} => Distinct(c)
  <2> SUFFICES ASSUME Distinct(s), Distinct(t), ToSet(s) \cap ToSet(t) = {},
                      NEW i \in 1..(a + b), NEW j \in 1..(a + b), c[i] = c[j]
               PROVE  i = j
    BY <1>4 DEF Distinct
  <2>1. CASE i \in 1..a /\ j \in 1..a
    BY <1>2, <1>6, <2>1 DEF Distinct
  <2>2. CASE i > a /\ i - a \in 1..b /\ c[i] = t[i - a] /\ j > a /\ j - a \in 1..b /\ c[j] = t[j - a]
    <3>1. i - a = j - a
      BY <1>3, <2>2 DEF Distinct
    <3> QED
      BY <3>1
  <2>3. CASE i \in 1..a /\ j - a \in 1..b /\ c[j] = t[j - a]
    BY <1>5, <1>6, <2>3
  <2>4. CASE j \in 1..a /\ i - a \in 1..b /\ c[i] = t[i - a]
    BY <1>5, <1>6, <2>4
  <2> QED
    BY <1>6, <2>1, <2>2, <2>3, <2>4
<1> QED
  BY <1>1, <1>2, <1>3, <1>4, <1>7, <1>8

LEMMA TailSet ==
  ASSUME NEW T, NEW s \in Seq(T), s # <<>>
  PROVE  /\ Tail(s) \in Seq(T) /\ s[1] \in T /\ ToSet(s) = ToSet(Tail(s)) \cup {s[1]}
         /\ Len(Tail(s)) = Len(s) - 1
         /\ Distinct(s) => Distinct(Tail(s)) /\ s[1] \notin ToSet(Tail(s))
<1>1. PICK t : t = Tail(s)
  OBVIOUS
<1>2. PICK a \in Nat \ {0} : a = Len(s)
  BY AsSet
<1>3. /\ t \in Seq(T) /\ Len(t) = a - 1 /\ \A i \in 1..(a - 1) : t[i] = s[i + 1]
  BY <1>1, <1>2, HeadTailProperties
<1>4. /\ \A i \in 1..a : s[i] \in T
      /\ ToSet(s) = {s[i] : i \in 1..a} /\ ToSet(t) = {t[i] : i \in 1..(a - 1)}
  BY <1>2, <1>3, AsSet
<1>5. /\ \A i \in 1..(a - 1) : i + 1 \in 1..a /\ i + 1 # 1
      /\ \A i \in 1..a : i = 1 \/ (i - 1 \in 1..(a - 1) /\ i - 1 + 1 = i)
      /\ 1 \in 1..a
  OBVIOUS
<1>6. ToSet(s) = ToSet(t) \cup {s[1]}
  <2>1. ASSUME NEW y \in ToSet(s) PROVE y \in ToSet(t) \cup {s[1]}
    <3>1. PICK i \in 1..a : y = s[i]
      BY <1>4
    <3>2. CASE i = 1
      BY <3>1, <3>2
    <3>3. CASE i # 1
      <4>1. PICK j \in 1..(a - 1) : j + 1 = i
        BY <1>5, <3>3
      <4>2. t[j] = y
        BY <1>3, <3>1, <4>1
      <4> QED
        BY <1>4, <4>2
    <3> QED
      BY <3>2, <3>3
  <2>2. ASSUME NEW y \in ToSet(t) \cup {s[1]} PROVE y \in ToSet(s)
    BY <1>3, <1>4, <1>5
  <2> QED
    BY <2>1, <2>2
<1>7. Distinct(s) => Distinct(t) /\ s[1] \notin ToSet(t)
  <2> SUFFICES ASSUME Distinct(s) PROVE Distinct(t) /\ s[1] \notin ToSet(t)
    OBVIOUS
  <2>1. \A i, j \in 1..a : s[i] = s[j] => i = j
    BY <1>2 DEF Distinct
  <2>2. s[1] \notin ToSet(t)
    BY <1>3, <1>4, <1>5, <2>1
  <2>3. ASSUME NEW i \in 1..(a - 1), NEW j \in 1..(a - 1), t[i] = t[j] PROVE i = j
    <3>1. i + 1 = j + 1
      BY <1>3, <1>5, <2>1, <2>3
    <3> QED
      BY <3>1
  <2>4. Len(t) = a - 1
    BY <1>3
  <2>5. Distinct(t)
    BY <2>3, <2>4 DEF Distinct
  <2> QED
    BY <2>2, <2>5
<1> QED
  BY <1>1, <1>2, <1>3, <1>4, <1>5, <1>6, <1>7

LEMMA ChosenSet ==
  ASSUME NEW T, NEW s \in Seq(T), NEW at
  PROVE  /\ Chosen(s, at) \in Seq(T) /\ Len(Chosen(s, at)) <= Len(s)
         /\ ToSet(Chosen(s, at)) = {s[i] : i \in at \cap (1..Len(s))}
         /\ (\A i, j \in at \cap (1..Len(s)) : s[i] = s[j] => i = j) => Distinct(Chosen(s, at))
<1>1. PICK a \in Nat : a = Len(s)
  BY LenProperties
<1>2. PICK f : UpTo(s, at, f, a) /\ Chosen(s, at) = f[a]
  BY <1>1, ChosenUpTo
<1>3. /\ \A n \in 0..a : f[n] = IF n = 0 THEN <<>> ELSE Extended(s, at, f[n - 1], n)
      /\ \A i \in 1..a : s[i] \in T
  BY <1>1, <1>2, ElementOfSeq DEF UpTo
<1> DEFINE Good(n) == /\ f[n] \in Seq(T) /\ Len(f[n]) <= n
                      /\ ToSet(f[n]) = {s[i] : i \in at \cap (1..n)}
                      /\ (\A i, j \in at \cap (1..a) : s[i] = s[j] => i = j) => Distinct(f[n])
           U == {n \in Nat : n <= a => Good(n)}
<1>4. 0 \in U
  <2>1. f[0] = <<>>
    BY <1>3
  <2>2. <<>> \in Seq(T) /\ Len(<<>>) = 0 /\ 1..0 = {}
    OBVIOUS
  <2>3. ToSet(<<>>) = {} /\ Distinct(<<>>)
    BY <2>2 DEF ToSet, Distinct
  <2>4. Good(0)
    BY <2>1, <2>2, <2>3
  <2> QED
    BY <2>4
<1>5. ASSUME NEW n \in Nat, n \in U PROVE n + 1 \in U
  <2> SUFFICES ASSUME n + 1 <= a PROVE Good(n + 1)
    OBVIOUS
  <2>1. Good(n)
    BY <1>5
  <2>2. n + 1 \in 1..a /\ n + 1 \in 0..a /\ n + 1 - 1 = n /\ n + 1 # 0
    OBVIOUS
  <2>3. f[n + 1] = Extended(s, at, f[n], n + 1)
    BY <1>3, <2>2
  <2>4. s[n + 1] \in T
    BY <1>3, <2>2
  <2>5. 1..(n + 1) = (1..n) \cup {n + 1} /\ n + 1 \notin 1..n /\ Len(f[n]) \in Nat
    BY <2>1, LenProperties
  <2>6. CASE n + 1 \in at
    <3>1. f[n + 1] = Append(f[n], s[n + 1])
      BY <2>3, <2>6 DEF Extended
    <3>2. /\ f[n + 1] \in Seq(T) /\ ToSet(f[n + 1]) = ToSet(f[n]) \cup {s[n + 1]}
          /\ Len(f[n + 1]) = Len(f[n]) + 1
          /\ Distinct(f[n]) /\ s[n + 1] \notin ToSet(f[n]) => Distinct(f[n + 1])
      BY <2>1, <2>4, <3>1, AppendSet
    <3>3. ToSet(f[n + 1]) = {s[i] : i \in at \cap (1..(n + 1))}
      <4>1. ToSet(f[n]) = {s[i] : i \in at \cap (1..n)}
        BY <2>1
      <4>2. at \cap (1..(n + 1)) = (at \cap (1..n)) \cup {n + 1}
        BY <2>5, <2>6
      <4>3. ASSUME NEW y \in ToSet(f[n + 1]) PROVE y \in {s[i] : i \in at \cap (1..(n + 1))}
        BY <3>2, <4>1, <4>2
      <4>4. ASSUME NEW y \in {s[i] : i \in at \cap (1..(n + 1))} PROVE y \in ToSet(f[n + 1])
        BY <3>2, <4>1, <4>2
      <4> QED
        BY <4>3, <4>4
    <3>4. ASSUME \A i, j \in at \cap (1..a) : s[i] = s[j] => i = j PROVE Distinct(f[n + 1])
      <4>1. ASSUME s[n + 1] \in ToSet(f[n]) PROVE FALSE
        <5>1. PICK i \in at \cap (1..n) : s[i] = s[n + 1]
          BY <2>1, <4>1
        <5>2. i \in at \cap (1..a) /\ n + 1 \in at \cap (1..a) /\ i # n + 1
          BY <2>2, <2>6, <5>1
        <5> QED
          BY <3>4, <5>1, <5>2
      <4> QED
        BY <2>1, <3>2, <3>4, <4>1
    <3>5. Len(f[n + 1]) <= n + 1
      BY <2>1, <2>5, <3>2
    <3> QED
      BY <3>2, <3>3, <3>4, <3>5
  <2>7. CASE n + 1 \notin at
    <3>1. f[n + 1] = f[n]
      BY <2>3, <2>7 DEF Extended
    <3>2. at \cap (1..(n + 1)) = at \cap (1..n)
      BY <2>5, <2>7
    <3> QED
      BY <2>1, <2>5, <3>1, <3>2
  <2> QED
    BY <2>6, <2>7
<1> HIDE DEF U
<1>6. a \in U
  BY <1>4, <1>5, SetInduction
<1>7. Good(a)
  BY <1>6 DEF U
<1> QED
  BY <1>1, <1>2, <1>7

LEMMA WithoutSet ==
  ASSUME NEW T, NEW s \in Seq(T), NEW S
  PROVE  /\ Without(s, S) \in Seq(T) /\ Len(Without(s, S)) <= Len(s)
         /\ ToSet(Without(s, S)) = ToSet(s) \ S
         /\ Distinct(s) => Distinct(Without(s, S))
<1>1. PICK at : at = {i \in 1..Len(s) : s[i] \notin S}
  OBVIOUS
<1>2. Without(s, S) = Chosen(s, at)
  BY <1>1 DEF Without
<1>3. /\ Chosen(s, at) \in Seq(T) /\ Len(Chosen(s, at)) <= Len(s)
      /\ ToSet(Chosen(s, at)) = {s[i] : i \in at \cap (1..Len(s))}
      /\ (\A i, j \in at \cap (1..Len(s)) : s[i] = s[j] => i = j) => Distinct(Chosen(s, at))
  BY ChosenSet
<1>4. ToSet(s) = {s[i] : i \in 1..Len(s)}
  BY AsSet
<1>5. ToSet(Chosen(s, at)) = ToSet(s) \ S
  BY <1>1, <1>3, <1>4
<1>6. Distinct(s) => Distinct(Chosen(s, at))
  BY <1>3 DEF Distinct
<1> QED
  BY <1>2, <1>3, <1>5, <1>6

(* The length of a selection, and of what is left without a set.           *)
LEMMA ChosenLen ==
  ASSUME NEW T, NEW s \in Seq(T), NEW at
  PROVE  /\ IsFiniteSet(at \cap (1..Len(s)))
         /\ Len(Chosen(s, at)) = Cardinality(at \cap (1..Len(s)))
<1>1. PICK a \in Nat : a = Len(s)
  BY LenProperties
<1>2. PICK f : UpTo(s, at, f, a) /\ Chosen(s, at) = f[a]
  BY <1>1, ChosenUpTo
<1>3. /\ \A n \in 0..a : f[n] = IF n = 0 THEN <<>> ELSE Extended(s, at, f[n - 1], n)
      /\ \A i \in 1..a : s[i] \in T
  BY <1>1, <1>2, ElementOfSeq DEF UpTo
<1> DEFINE Good(n) == /\ f[n] \in Seq(T) /\ IsFiniteSet(at \cap (1..n))
                      /\ Len(f[n]) = Cardinality(at \cap (1..n))
           U == {n \in Nat : n <= a => Good(n)}
<1>4. 0 \in U
  <2>1. f[0] = <<>>
    BY <1>3
  <2>2. <<>> \in Seq(T) /\ Len(<<>>) = 0 /\ at \cap (1..0) = {}
    OBVIOUS
  <2>3. Good(0)
    BY <2>1, <2>2, FS_EmptySet
  <2> QED
    BY <2>3
<1>5. ASSUME NEW n \in Nat, n \in U PROVE n + 1 \in U
  <2> SUFFICES ASSUME n + 1 <= a PROVE Good(n + 1)
    OBVIOUS
  <2>1. Good(n)
    BY <1>5
  <2>2. n + 1 \in 1..a /\ n + 1 \in 0..a /\ n + 1 - 1 = n /\ n + 1 # 0
    OBVIOUS
  <2>3. f[n + 1] = Extended(s, at, f[n], n + 1)
    BY <1>3, <2>2
  <2>4. s[n + 1] \in T
    BY <1>3, <2>2
  <2>5. 1..(n + 1) = (1..n) \cup {n + 1} /\ n + 1 \notin 1..n
    OBVIOUS
  <2>6. CASE n + 1 \in at
    <3>1. f[n + 1] = Append(f[n], s[n + 1])
      BY <2>3, <2>6 DEF Extended
    <3>2. at \cap (1..(n + 1)) = (at \cap (1..n)) \cup {n + 1} /\ n + 1 \notin at \cap (1..n)
      BY <2>5, <2>6
    <3>3. /\ IsFiniteSet(at \cap (1..(n + 1)))
          /\ Cardinality(at \cap (1..(n + 1))) = Cardinality(at \cap (1..n)) + 1
      <4>1. PICK old : old = at \cap (1..n)
        OBVIOUS
      <4>2. IsFiniteSet(old) /\ n + 1 \notin old /\ at \cap (1..(n + 1)) = old \cup {n + 1}
        BY <2>1, <3>2, <4>1
      <4>3. Cardinality(old \cup {n + 1}) = Cardinality(old) + 1 /\ IsFiniteSet(old \cup {n + 1})
        BY <4>2, FS_AddElement
      <4> QED
        BY <4>1, <4>2, <4>3
    <3>4. f[n + 1] \in Seq(T) /\ Len(f[n + 1]) = Len(f[n]) + 1
      BY <2>1, <2>4, <3>1, AppendSet
    <3> QED
      BY <2>1, <3>3, <3>4
  <2>7. CASE n + 1 \notin at
    <3>1. f[n + 1] = f[n]
      BY <2>3, <2>7 DEF Extended
    <3>2. at \cap (1..(n + 1)) = at \cap (1..n)
      BY <2>5, <2>7
    <3> QED
      BY <2>1, <3>1, <3>2
  <2> QED
    BY <2>6, <2>7
<1> HIDE DEF U
<1>6. a \in U
  BY <1>4, <1>5, SetInduction
<1>7. Good(a)
  BY <1>6 DEF U
<1> QED
  BY <1>1, <1>2, <1>7

(* A sequence has at least as many positions as elements.                  *)
LEMMA FewElements ==
  ASSUME NEW T, NEW s \in Seq(T)
  PROVE  IsFiniteSet(ToSet(s)) /\ Cardinality(ToSet(s)) <= Len(s) /\ Cardinality(ToSet(s)) \in Nat
<1>1. Len(s) \in Nat /\ ToSet(s) = {s[i] : i \in 1..Len(s)}
  BY AsSet
<1>2. IsFiniteSet(1..Len(s)) /\ Cardinality(1..Len(s)) = Len(s)
  BY <1>1, FS_Interval
<1>3. PICK f : f = [i \in 1..Len(s) |-> s[i]]
  OBVIOUS
<1>4. f \in Surjection(1..Len(s), ToSet(s))
  BY <1>1, <1>3 DEF Surjection
<1> QED
  BY <1>2, <1>4, FS_Surjection, FS_CardinalityType

LEMMA WithoutLen ==
  ASSUME NEW T, NEW s \in Seq(T), NEW S, S \subseteq ToSet(s)
  PROVE  IsFiniteSet(S) /\ Len(Without(s, S)) + Cardinality(S) <= Len(s)
<1>1. PICK n \in Nat : n = Len(s)
  BY LenProperties
<1>2. PICK at : at = {i \in 1..n : s[i] \notin S}
  OBVIOUS
<1>3. PICK gone1 : gone1 = {i \in 1..n : s[i] \in S}
  OBVIOUS
<1>4. Without(s, S) = Chosen(s, at)
  BY <1>1, <1>2 DEF Without
<1>5. IsFiniteSet(1..n) /\ Cardinality(1..n) = n
  BY FS_Interval
<1>6. at \cap (1..n) = at /\ at = (1..n) \ gone1 /\ (1..n) \cap gone1 = gone1 /\ gone1 \in SUBSET (1..n)
  BY <1>2, <1>3
<1>7. Len(Without(s, S)) = n - Cardinality(gone1)
  <2>1. Len(Chosen(s, at)) = Cardinality(at)
    BY <1>1, <1>6, ChosenLen
  <2>2. Cardinality((1..n) \ gone1) = Cardinality(1..n) - Cardinality((1..n) \cap gone1)
    BY <1>5, FS_Difference
  <2> QED
    BY <1>4, <1>5, <1>6, <2>1, <2>2
<1>8. IsFiniteSet(gone1) /\ Cardinality(gone1) \in Nat
  BY <1>5, <1>6, FS_Subset, FS_CardinalityType
<1>9. PICK f : f = [i \in gone1 |-> s[i]]
  OBVIOUS
<1>10. ToSet(s) = {s[i] : i \in 1..n}
  BY <1>1, AsSet
<1>11. f \in Surjection(gone1, S)
  <2>1. f \in [gone1 -> S]
    BY <1>3, <1>9
  <2>2. ASSUME NEW t \in S PROVE \E i \in gone1 : f[i] = t
    <3>1. PICK i \in 1..n : s[i] = t
      BY <1>10
    <3> QED
      BY <1>3, <1>9, <3>1
  <2> QED
    BY <2>1, <2>2 DEF Surjection
<1>12. IsFiniteSet(S) /\ Cardinality(S) <= Cardinality(gone1) /\ Cardinality(S) \in Nat
  BY <1>8, <1>11, FS_Surjection, FS_CardinalityType
<1> QED
  BY <1>1, <1>7, <1>8, <1>12

(* SetToSeq: every element once.                                           *)
LEMMA SeqOfSet ==
  ASSUME NEW S, IsFiniteSet(S)
  PROVE  /\ SetToSeq(S) \in Seq(S) /\ Len(SetToSeq(S)) = Cardinality(S)
         /\ ToSet(SetToSeq(S)) = S /\ Distinct(SetToSeq(S))
<1>1. PICK n \in Nat : n = Cardinality(S)
  BY FS_CardinalityType
<1>2. \E f \in [1..n -> S] : IsInjective(f)
  BY <1>1, FS_CardinalityType DEF ExistsBijection, Bijection, Injection
<1>3. PICK t : t = SetToSeq(S)
  OBVIOUS
<1>4. t \in [1..n -> S] /\ IsInjective(t)
  BY <1>1, <1>2, <1>3 DEF SetToSeq
<1>5. t \in Seq(S) /\ Len(t) = n
  BY <1>4
<1>6. Distinct(t)
  BY <1>4, <1>5 DEF Distinct, IsInjective
<1>7. IsFiniteSet(1..n) /\ Cardinality(1..n) = n
  BY FS_Interval
<1>8. t \in Injection(1..n, S)
  BY <1>4 DEF Injection
<1>9. t \in Surjection(1..n, S)
  BY <1>1, <1>7, <1>8, FS_Injection
<1>10. ToSet(t) = S
  <2>1. ToSet(t) = {t[i] : i \in 1..n}
    BY <1>5, AsSet
  <2> QED
    BY <1>4, <1>9, <2>1 DEF Surjection
<1> QED
  BY <1>1, <1>3, <1>5, <1>6, <1>10

(* Reverse keeps the elements.                                             *)
LEMMA ReverseSet ==
  ASSUME NEW T, NEW s \in Seq(T)
  PROVE  /\ Reverse(s) \in Seq(T) /\ ToSet(Reverse(s)) = ToSet(s)
         /\ Distinct(s) => Distinct(Reverse(s))
<1>1. PICK n \in Nat : n = Len(s)
  BY LenProperties
<1>2. PICK t : t = Reverse(s)
  OBVIOUS
<1>3. t = [i \in 1..n |-> s[(n - i) + 1]]
  BY <1>1, <1>2 DEF Reverse
<1>4. /\ \A i \in 1..n : s[i] \in T
      /\ ToSet(s) = {s[i] : i \in 1..n}
  BY <1>1, AsSet
<1>5. \A i \in 1..n : (n - i) + 1 \in 1..n /\ (n - ((n - i) + 1)) + 1 = i
  OBVIOUS
<1>6. t \in Seq(T) /\ Len(t) = n
  <2>1. t \in [1..n -> T]
    BY <1>3, <1>4, <1>5
  <2> QED
    BY <2>1
<1>7. ToSet(t) = {t[i] : i \in 1..n}
  BY <1>6, AsSet
<1>8. ToSet(t) = ToSet(s)
  <2>1. ASSUME NEW y \in ToSet(t) PROVE y \in ToSet(s)
    <3>1. PICK i \in 1..n : y = t[i]
      BY <1>7
    <3>2. y = s[(n - i) + 1] /\ (n - i) + 1 \in 1..n
      BY <1>3, <1>5, <3>1
    <3> QED
      BY <1>4, <3>2
  <2>2. ASSUME NEW y \in ToSet(s) PROVE y \in ToSet(t)
    <3>1. PICK i \in 1..n : y = s[i]
      BY <1>4
    <3>2. PICK j \in 1..n : (n - j) + 1 = i
      BY <1>5
    <3>3. t[j] = y
      BY <1>3, <3>1, <3>2
    <3> QED
      BY <1>7, <3>3
  <2> QED
    BY <2>1, <2>2
<1>9. Distinct(s) => Distinct(t)
  <2> SUFFICES ASSUME Distinct(s), NEW i \in 1..n, NEW j \in 1..n, t[i] = t[j] PROVE i = j
    BY <1>6 DEF Distinct
  <2>1. (n - i) + 1 = (n - j) + 1
    BY <1>1, <1>3, <1>5 DEF Distinct
  <2> QED
    BY <2>1
<1> QED
  BY <1>2, <1>6, <1>8, <1>9

(* RemoveFirst: nothing but one occurrence of the element goes.            *)
LEMMA FirstAt ==
  ASSUME NEW n \in Nat, NEW I \in SUBSET (1..n), I # {}
  PROVE  Min(I) \in I /\ \A i \in I : Min(I) <= i
<1>1. \E m \in I : \A k \in I : <<k, m>> \notin OpToRel(<, Nat)
  <2>1. I \subseteq Nat
    OBVIOUS
  <2> QED
    BY <2>1, WFMin, NatLessThanWellFounded, Zenon
<1>2. \E m \in I : \A k \in I : ~(k < m)
  <2>1. I \subseteq Nat
    OBVIOUS
  <2> QED
    BY <1>1, <2>1, Zenon DEF OpToRel
<1>3. \E m \in I : \A k \in I : m <= k
  BY <1>2
<1> QED
  BY <1>3 DEF Min

LEMMA RemoveFirstSet ==
  ASSUME NEW T, NEW s \in Seq(T), NEW e
  PROVE  /\ RemoveFirst(s, e) \in Seq(T) /\ ToSet(RemoveFirst(s, e)) \subseteq ToSet(s)
         /\ ToSet(s) \subseteq ToSet(RemoveFirst(s, e)) \cup {e}
         /\ Distinct(s) => Distinct(RemoveFirst(s, e)) /\ e \notin ToSet(RemoveFirst(s, e))
<1>1. PICK n \in Nat : n = Len(s)
  BY LenProperties
<1>2. /\ \A i \in 1..n : s[i] \in T
      /\ ToSet(s) = {s[i] : i \in 1..n}
  BY <1>1, AsSet
<1>3. CASE ~\E i \in 1..n : s[i] = e
  <2>1. RemoveFirst(s, e) = s
    BY <1>1, <1>3 DEF RemoveFirst
  <2>2. e \notin ToSet(s)
    BY <1>2, <1>3
  <2> QED
    BY <2>1, <2>2
<1>4. CASE \E i \in 1..n : s[i] = e
  <2>1. PICK k : k = Min({i \in 1..n : s[i] = e})
    OBVIOUS
  <2>2. k \in 1..n /\ s[k] = e
    <3>1. PICK I : I = {i \in 1..n : s[i] = e}
      OBVIOUS
    <3>2. I \in SUBSET (1..n) /\ I # {}
      BY <1>4, <3>1
    <3>3. k \in I
      BY <2>1, <3>1, <3>2, FirstAt
    <3> QED
      BY <3>1, <3>3
  <2>3. SelectInSeq(s, LAMBDA v : v = e) = k
    BY <1>1, <1>4, <2>1 DEF SelectInSeq
  <2>4. PICK p : p = SubSeq(s, 1, k - 1)
    OBVIOUS
  <2>5. PICK q : q = SubSeq(s, k + 1, n)
    OBVIOUS
  <2>6. RemoveFirst(s, e) = p \o q
    BY <1>1, <1>4, <2>3, <2>4, <2>5 DEF RemoveFirst, RemoveAt
  <2>7. /\ p \in Seq(T) /\ Len(p) = k - 1 /\ \A i \in 1..(k - 1) : p[i] = s[i]
    <3>1. 1 \in Int /\ k - 1 \in Int /\ (k - 1) - 1 + 1 = k - 1 /\ (1 <= k - 1 \/ k - 1 = 0)
          /\ \A i \in 1..(k - 1) : i \in 1..n /\ 1 + i - 1 = i
      BY <2>2
    <3>2. \A i \in 1..(k - 1) : s[i] \in T
      BY <1>2, <3>1
    <3>3. /\ SubSeq(s, 1, k - 1) \in Seq(T)
          /\ Len(SubSeq(s, 1, k - 1)) = IF 1 <= k - 1 THEN (k - 1) - 1 + 1 ELSE 0
          /\ \A i \in 1..((k - 1) - 1 + 1) : SubSeq(s, 1, k - 1)[i] = s[1 + i - 1]
      BY <3>1, <3>2, SubSeqProperties
    <3> QED
      BY <2>4, <3>1, <3>3
  <2>8. /\ q \in Seq(T) /\ Len(q) = n - k /\ \A i \in 1..(n - k) : q[i] = s[k + i]
    <3>1. k + 1 \in Int /\ n \in Int /\ n - (k + 1) + 1 = n - k /\ (k + 1 <= n \/ n - k = 0)
          /\ \A i \in 1..(n - k) : k + 1 + i - 1 = k + i
      BY <2>2
    <3>2. \A i \in (k + 1)..n : s[i] \in T
      BY <1>2, <2>2
    <3>3. /\ SubSeq(s, k + 1, n) \in Seq(T)
          /\ Len(SubSeq(s, k + 1, n)) = IF k + 1 <= n THEN n - (k + 1) + 1 ELSE 0
          /\ \A i \in 1..(n - (k + 1) + 1) : SubSeq(s, k + 1, n)[i] = s[k + 1 + i - 1]
      BY <3>1, <3>2, SubSeqProperties
    <3> QED
      BY <2>5, <3>1, <3>3
  <2>9. /\ ToSet(p) = {s[i] : i \in 1..(k - 1)}
    <3>1. ToSet(p) = {p[i] : i \in 1..(k - 1)}
      BY <2>7, AsSet
    <3> QED
      BY <2>7, <3>1
  <2>10. ToSet(q) = {s[k + i] : i \in 1..(n - k)}
    <3>1. ToSet(q) = {q[i] : i \in 1..(n - k)}
      BY <2>8, AsSet
    <3> QED
      BY <2>8, <3>1
  <2>11. /\ p \o q \in Seq(T) /\ ToSet(p \o q) = ToSet(p) \cup ToSet(q)
         /\ Distinct(p) /\ Distinct(q) /\ ToSet(p) \cap ToSet(q) = {} => Distinct(p \o q)
    BY <2>7, <2>8, ConcatSet
  <2>12. /\ \A i \in 1..(k - 1) : i \in 1..n /\ i # k
         /\ \A i \in 1..(n - k) : k + i \in 1..n /\ k + i # k
         /\ \A i \in 1..n : i \in 1..(k - 1) \/ i = k \/ (i - k \in 1..(n - k) /\ k + (i - k) = i)
         /\ \A i \in 1..(k - 1), j \in 1..(n - k) : i # k + j
         /\ \A i, j \in 1..(n - k) : k + i = k + j => i = j
    BY <2>2
  <2>13. ToSet(p) \subseteq ToSet(s) /\ ToSet(q) \subseteq ToSet(s)
    BY <1>2, <2>9, <2>10, <2>12
  <2>14. ToSet(s) \subseteq ToSet(p) \cup ToSet(q) \cup {e}
    <3> SUFFICES ASSUME NEW i \in 1..n PROVE s[i] \in ToSet(p) \cup ToSet(q) \cup {e}
      BY <1>2
    <3>1. CASE i \in 1..(k - 1)
      BY <2>9, <3>1
    <3>2. CASE i = k
      BY <2>2, <3>2
    <3>3. CASE i - k \in 1..(n - k) /\ k + (i - k) = i
      BY <2>10, <3>3
    <3> QED
      BY <2>12, <3>1, <3>2, <3>3
  <2>15. ASSUME Distinct(s)
         PROVE  Distinct(p) /\ Distinct(q) /\ ToSet(p) \cap ToSet(q) = {} /\ e \notin ToSet(p) \cup ToSet(q)
    <3>1. \A i, j \in 1..n : s[i] = s[j] => i = j
      BY <1>1, <2>15 DEF Distinct
    <3>2. Distinct(p)
      <4>1. \A i, j \in 1..(k - 1) : p[i] = p[j] => i = j
        BY <2>7, <2>12, <3>1
      <4> QED
        BY <2>7, <4>1 DEF Distinct
    <3>3. Distinct(q)
      <4>1. \A i, j \in 1..(n - k) : q[i] = q[j] => i = j
        <5> TAKE i, j \in 1..(n - k)
        <5> HAVE q[i] = q[j]
        <5>1. s[k + i] = s[k + j]
          BY <2>8
        <5>2. k + i = k + j
          BY <2>12, <3>1, <5>1
        <5> QED
          BY <2>12, <5>2
      <4>2. Len(q) = n - k
        BY <2>8
      <4> QED
        BY <4>1, <4>2 DEF Distinct
    <3>4. ToSet(p) \cap ToSet(q) = {}
      <4> SUFFICES ASSUME NEW i \in 1..(k - 1), NEW j \in 1..(n - k), s[i] = s[k + j] PROVE FALSE
        BY <2>9, <2>10
      <4> QED
        BY <2>12, <3>1
    <3>5. e \notin ToSet(p)
      BY <2>2, <2>9, <2>12, <3>1
    <3>6. e \notin ToSet(q)
      BY <2>2, <2>10, <2>12, <3>1
    <3> QED
      BY <3>2, <3>3, <3>4, <3>5, <3>6
  <2> QED
    BY <2>6, <2>11, <2>13, <2>14, <2>15
<1> QED
  BY <1>3, <1>4

-----------------------------------------------------------------------------
(* What step() may have left to do.                                        *)
Plans ==
  {<<"idle">>, <<"aborts", "pick">>, <<"pick">>,
   <<"admit", "decode", "finish">>, <<"prefill", "admit", "decode", "finish">>,
   <<"admit", "advance", "chunks", "decode", "finish">>,
   <<"prefill", "admit", "advance", "chunks", "decode", "finish">>,
   <<"advance", "chunks", "decode", "finish">>, <<"chunks", "decode", "finish">>,
   <<"advance", "chunks", "admit", "decode", "finish">>, <<"chunks", "admit", "decode", "finish">>,
   <<"decode", "finish">>, <<"finish">>}

(* A sequence with one more element in front.                              *)
LEMMA Longer3 ==
  ASSUME NEW a, NEW b, NEW c, NEW d
  PROVE  <<a>> \o <<b, c, d>> = <<a, b, c, d>>
<1>1. PICK T : T = {a, b, c, d}
  OBVIOUS
<1>2. PICK s : s = <<b, c, d>>
  OBVIOUS
<1>3. PICK q : q = <<a>>
  OBVIOUS
<1>4. q \in Seq(T) /\ Len(q) = 1 /\ s \in Seq(T) /\ Len(s) = 3
  BY <1>1, <1>2, <1>3
<1>5. PICK u : u = q \o s
  OBVIOUS
<1>6. /\ u \in Seq(T) /\ Len(u) = 4
      /\ \A i \in 1..4 : u[i] = IF i <= 1 THEN q[i] ELSE s[i - 1]
  <2>1. /\ q \o s \in Seq(T) /\ Len(q \o s) = Len(q) + Len(s)
        /\ \A i \in 1..(Len(q) + Len(s)) : (q \o s)[i] = IF i <= Len(q) THEN q[i] ELSE s[i - Len(q)]
    BY <1>4, ConcatProperties
  <2>2. Len(q) + Len(s) = 4
    BY <1>4
  <2> QED
    BY <1>4, <1>5, <2>1, <2>2
<1>7. u[1] = q[1] /\ u[2] = s[1] /\ u[3] = s[2] /\ u[4] = s[3]
  BY <1>6
<1>8. u[1] = a /\ u[2] = b /\ u[3] = c /\ u[4] = d
  BY <1>2, <1>3, <1>7
<1>9. PICK v : v = <<a, b, c, d>>
  OBVIOUS
<1>10. v \in Seq(T) /\ Len(v) = 4 /\ v[1] = a /\ v[2] = b /\ v[3] = c /\ v[4] = d
  BY <1>1, <1>9
<1>11. \A i \in 1..4 : i = 1 \/ i = 2 \/ i = 3 \/ i = 4
  OBVIOUS
<1>12. \A i \in 1..Len(u) : u[i] = v[i]
  BY <1>6, <1>8, <1>10, <1>11
<1>13. u = v
  BY <1>6, <1>10, <1>12, SeqEqual
<1> QED
  BY <1>2, <1>3, <1>5, <1>9, <1>13

LEMMA Longer5 ==
  ASSUME NEW a, NEW b, NEW c, NEW d, NEW e, NEW f
  PROVE  <<a>> \o <<b, c, d, e, f>> = <<a, b, c, d, e, f>>
<1>1. PICK T : T = {a, b, c, d, e, f}
  OBVIOUS
<1>2. PICK s : s = <<b, c, d, e, f>>
  OBVIOUS
<1>3. PICK q : q = <<a>>
  OBVIOUS
<1>4. q \in Seq(T) /\ Len(q) = 1 /\ s \in Seq(T) /\ Len(s) = 5
  BY <1>1, <1>2, <1>3
<1>5. PICK u : u = q \o s
  OBVIOUS
<1>6. /\ u \in Seq(T) /\ Len(u) = 6
      /\ \A i \in 1..6 : u[i] = IF i <= 1 THEN q[i] ELSE s[i - 1]
  <2>1. /\ q \o s \in Seq(T) /\ Len(q \o s) = Len(q) + Len(s)
        /\ \A i \in 1..(Len(q) + Len(s)) : (q \o s)[i] = IF i <= Len(q) THEN q[i] ELSE s[i - Len(q)]
    BY <1>4, ConcatProperties
  <2>2. Len(q) + Len(s) = 6
    BY <1>4
  <2> QED
    BY <1>4, <1>5, <2>1, <2>2
<1>7. u[1] = q[1] /\ u[2] = s[1] /\ u[3] = s[2] /\ u[4] = s[3] /\ u[5] = s[4] /\ u[6] = s[5]
  BY <1>6
<1>8. u[1] = a /\ u[2] = b /\ u[3] = c /\ u[4] = d /\ u[5] = e /\ u[6] = f
  BY <1>2, <1>3, <1>7
<1>9. PICK v : v = <<a, b, c, d, e, f>>
  OBVIOUS
<1>10. v \in Seq(T) /\ Len(v) = 6 /\ v[1] = a /\ v[2] = b /\ v[3] = c /\ v[4] = d /\ v[5] = e /\ v[6] = f
  BY <1>1, <1>9
<1>11. \A i \in 1..6 : i = 1 \/ i = 2 \/ i = 3 \/ i = 4 \/ i = 5 \/ i = 6
  OBVIOUS
<1>12. \A i \in 1..Len(u) : u[i] = v[i]
  BY <1>6, <1>8, <1>10, <1>11
<1>13. u = v
  BY <1>6, <1>10, <1>12, SeqEqual
<1> QED
  BY <1>2, <1>3, <1>5, <1>9, <1>13

LEMMA Phases ==
  ASSUME NEW t \in Plans
  PROVE  /\ t[1] = "aborts" => Tail(t) \in Plans /\ Tail(t)[1] = "pick"
         /\ t[1] = "advance" => Tail(t) \in Plans /\ Tail(t)[1] = "chunks"
         /\ t[1] = "chunks" => Tail(t) \in Plans /\ Tail(t)[1] \in {"admit", "decode"}
         /\ t[1] = "admit" => /\ Tail(t) \in Plans /\ Tail(t)[1] \in {"advance", "decode"}
                              /\ <<"prefill">> \o t \in Plans /\ (<<"prefill">> \o t)[1] = "prefill"
         /\ t[1] = "prefill" => /\ Tail(t) \in Plans /\ Tail(t)[1] = "admit"
                                /\ Tail(Tail(t)) \in Plans /\ Tail(Tail(t))[1] \in {"advance", "decode"}
         /\ t[1] = "decode" => Tail(t) \in Plans /\ Tail(t)[1] = "finish"
<1> DEFINE short == <<"decode", "finish">>
           early == <<"advance", "chunks", "decode", "finish">>
           late == <<"chunks", "admit", "decode", "finish">>
<1>1. CASE t \in {<<"idle">>, <<"aborts", "pick">>, <<"pick">>, short, <<"finish">>}
  <2>1. t = <<"idle">> => t[1] = "idle"
    OBVIOUS
  <2>2. t = <<"aborts", "pick">> => t[1] = "aborts" /\ Tail(t) = <<"pick">>
    OBVIOUS
  <2>3. t = <<"pick">> => t[1] = "pick"
    OBVIOUS
  <2>4. t = short => t[1] = "decode" /\ Tail(t) = <<"finish">>
    OBVIOUS
  <2>5. t = <<"finish">> => t[1] = "finish"
    OBVIOUS
  <2> QED
    BY <1>1, <2>1, <2>2, <2>3, <2>4, <2>5 DEF Plans
<1>2. CASE t = <<"admit", "decode", "finish">>
  <2>1. Tail(t) = short /\ t[1] = "admit"
    BY <1>2
  <2>2. <<"prefill">> \o t = <<"prefill", "admit", "decode", "finish">>
    BY <1>2, Longer3
  <2> QED
    BY <2>1, <2>2 DEF Plans
<1>3. CASE t = <<"admit", "advance", "chunks", "decode", "finish">>
  <2>1. Tail(t) = early /\ t[1] = "admit"
    BY <1>3
  <2>2. <<"prefill">> \o t = <<"prefill", "admit", "advance", "chunks", "decode", "finish">>
    BY <1>3, Longer5
  <2> QED
    BY <2>1, <2>2 DEF Plans
<1>4. CASE t = <<"prefill", "admit", "decode", "finish">>
  <2>1. Tail(t) = <<"admit", "decode", "finish">> /\ Tail(Tail(t)) = short /\ t[1] = "prefill"
    BY <1>4
  <2> QED
    BY <2>1 DEF Plans
<1>5. CASE t = <<"prefill", "admit", "advance", "chunks", "decode", "finish">>
  <2>1. Tail(t) = <<"admit", "advance", "chunks", "decode", "finish">>
    BY <1>5
  <2>2. Tail(Tail(t)) = early /\ t[1] = "prefill"
    BY <1>5, <2>1
  <2> QED
    BY <2>1, <2>2 DEF Plans
<1>6. CASE t = early \/ t = <<"chunks", "decode", "finish">>
  <2>1. t = early => Tail(t) = <<"chunks", "decode", "finish">> /\ t[1] = "advance"
    OBVIOUS
  <2>2. t = <<"chunks", "decode", "finish">> => Tail(t) = short /\ t[1] = "chunks"
    OBVIOUS
  <2> QED
    BY <1>6, <2>1, <2>2 DEF Plans
<1>7. CASE t = <<"advance", "chunks", "admit", "decode", "finish">> \/ t = late
  <2>1. t = <<"advance", "chunks", "admit", "decode", "finish">> => Tail(t) = late /\ t[1] = "advance"
    OBVIOUS
  <2>2. t = late => Tail(t) = <<"admit", "decode", "finish">> /\ t[1] = "chunks"
    OBVIOUS
  <2> QED
    BY <1>7, <2>1, <2>2 DEF Plans
<1> QED
  BY <1>1, <1>2, <1>3, <1>4, <1>5, <1>6, <1>7 DEF Plans

LEMMA FirstPhases ==
  /\ <<"idle">> \in Plans /\ <<"aborts", "pick">> \in Plans /\ <<"finish">> \in Plans
  /\ <<"admit", "decode", "finish">> \in Plans
  /\ <<"admit", "advance", "chunks", "decode", "finish">> \in Plans
  /\ <<"advance", "chunks", "admit", "decode", "finish">> \in Plans
  BY DEF Plans

LEMMA Dropped ==
  ASSUME NEW f, NEW S
  PROVE  DOMAIN Drop(f, S) = DOMAIN f \ S /\ \A y \in DOMAIN f \ S : Drop(f, S)[y] = f[y]
  BY DEF Drop

-----------------------------------------------------------------------------
(* The types.                                                              *)
Held == IF At("prefill") THEN {cur} ELSE {}
InRound == IF At("chunks") THEN ToSet(round) \cup ToSet(still) ELSE ToSet(prefilling)
RoundLen == IF At("chunks") THEN Len(round) + Len(still) ELSE Len(prefilling)
Places == ToSet(waiting) \cup ToSet(running) \cup InRound \cup Held

PlanTypes ==
  /\ todo \in Plans
  /\ IF At("prefill") THEN cur \in Reqs ELSE cur = None
  /\ ~At("chunks") => round = <<>> /\ still = <<>>
QueueTypes ==
  /\ waiting \in Seq(Reqs) /\ prefilling \in Seq(Reqs) /\ running \in Seq(Reqs)
  /\ round \in Seq(Reqs) /\ still \in Seq(Reqs)
BookTypes ==
  /\ pend \in Seq([uid : Nat, req : Reqs])
  /\ nextUid \in Nat /\ DOMAIN uidOf \subseteq Reqs /\ \A r \in DOMAIN uidOf : uidOf[r] \in Nat
  /\ requests \subseteq Reqs /\ asked \subseteq Reqs
  /\ left \in [Reqs -> Nat] /\ told \in [Reqs -> Nat]
  /\ world \in Worlds /\ stepFaults \in Nat
SchedTypes == PlanTypes /\ QueueTypes /\ BookTypes

LEMMA BasicTypes ==
  /\ NReqs \in Nat /\ Reqs \subseteq Nat /\ None \notin Reqs /\ IsFiniteSet(Reqs)
  /\ MaxSeqs \in Nat \ {0}
  /\ \A w \in Worlds : w.cap \in 1..MaxSeqs /\ w.chunks \in Nat
<1>1. IsFiniteSet(1..NReqs)
  BY SchedulerAssumption, FS_Interval
<1> QED
  BY <1>1, SchedulerAssumption DEF Reqs

LEMMA QueuesEmpty == <<>> \in Seq(Reqs) /\ Len(<<>>) = 0 /\ ToSet(<<>>) = {} /\ Distinct(<<>>)
<1>1. <<>> \in Seq(Reqs) /\ Len(<<>>) = 0
  OBVIOUS
<1>2. ToSet(<<>>) = {}
  BY <1>1, AsSet
<1> QED
  BY <1>1, <1>2 DEF Distinct

LEMMA SchedTypesInit == Init => SchedTypes
<1> SUFFICES ASSUME Init PROVE SchedTypes
  OBVIOUS
<1>1. todo = <<"idle">> /\ At("idle") /\ ~At("prefill") /\ ~At("chunks")
  BY DEF Init, At
<1>2. PlanTypes
  BY <1>1, FirstPhases DEF Init, PlanTypes
<1>3. QueueTypes
  BY QueuesEmpty DEF Init, QueueTypes
<1>4. DOMAIN uidOf = {}
  BY DEF Init
<1>5. pend \in Seq([uid : Nat, req : Reqs])
  BY DEF Init
<1>6. BookTypes
  BY <1>4, <1>5 DEF Init, BookTypes
<1> QED
  BY <1>2, <1>3, <1>6 DEF SchedTypes

(* What the pieces of the actions do to the queues.                        *)
LEMMA InsertMoves ==
  ASSUME SchedTypes, NEW r \in Reqs, Insert(r)
  PROVE  /\ running' \in Seq(Reqs) /\ ToSet(running') = ToSet(running) \cup {r}
         /\ Len(running') <= Len(running) + 1 /\ Len(running') \in Nat
         /\ Distinct(running) => Distinct(running')
         /\ nextUid' \in Nat /\ DOMAIN uidOf' \subseteq Reqs /\ \A x \in DOMAIN uidOf' : uidOf'[x] \in Nat
<1>1. /\ running \in Seq(Reqs) /\ nextUid \in Nat /\ DOMAIN uidOf \subseteq Reqs
      /\ \A x \in DOMAIN uidOf : uidOf[x] \in Nat /\ Len(running) \in Nat
  BY LenProperties DEF SchedTypes, QueueTypes, BookTypes
<1>2. uidOf' = Put(uidOf, r, nextUid) /\ nextUid' = nextUid + 1
  BY DEF Insert
<1>3. running' = IF r \in ToSet(running) THEN running ELSE Append(running, r)
  BY DEF Insert
<1>4. DOMAIN uidOf' \subseteq Reqs /\ \A x \in DOMAIN uidOf' : uidOf'[x] \in Nat
  <2>1. DOMAIN Put(uidOf, r, nextUid) = DOMAIN uidOf \cup {r} /\ Put(uidOf, r, nextUid)[r] = nextUid
        /\ \A y \in DOMAIN uidOf \ {r} : Put(uidOf, r, nextUid)[y] = uidOf[y]
    BY DEF Put
  <2>2. PICK m : m = Put(uidOf, r, nextUid)
    OBVIOUS
  <2>3. DOMAIN m \subseteq Reqs /\ \A x \in DOMAIN m : m[x] \in Nat
    BY <1>1, <2>1, <2>2
  <2> QED
    BY <1>2, <2>2, <2>3
<1>5. CASE r \in ToSet(running)
  <2>1. running' = running
    BY <1>3, <1>5
  <2>2. ToSet(running') = ToSet(running) \cup {r}
    BY <1>5, <2>1
  <2>3. Distinct(running) => Distinct(running')
    BY <2>1
  <2>4. nextUid' \in Nat
    BY <1>1, <1>2
  <2> QED
    BY <1>1, <1>4, <2>1, <2>2, <2>3, <2>4
<1>6. CASE r \notin ToSet(running)
  <2>1. /\ Append(running, r) \in Seq(Reqs) /\ ToSet(Append(running, r)) = ToSet(running) \cup {r}
        /\ Len(Append(running, r)) = Len(running) + 1
        /\ Distinct(running) => Distinct(Append(running, r))
    BY <1>1, <1>6, AppendSet
  <2> QED
    BY <1>1, <1>2, <1>3, <1>4, <1>6, <2>1
<1> QED
  BY <1>5, <1>6

LEMMA FrontSet ==
  ASSUME NEW s \in Seq(Reqs), NEW r \in Reqs
  PROVE  /\ <<r>> \o s \in Seq(Reqs) /\ ToSet(<<r>> \o s) = {r} \cup ToSet(s)
         /\ Distinct(s) /\ r \notin ToSet(s) => Distinct(<<r>> \o s)
<1>1. PICK q : q = <<r>>
  OBVIOUS
<1>2. q \in Seq(Reqs) /\ Len(q) = 1 /\ q[1] = r
  BY <1>1
<1>3. 1..1 = {1}
  OBVIOUS
<1>4. ToSet(q) = {r}
  BY <1>2, <1>3, AsSet
<1>5. Distinct(q)
  BY <1>2, <1>3 DEF Distinct
<1>6. /\ q \o s \in Seq(Reqs) /\ ToSet(q \o s) = ToSet(q) \cup ToSet(s)
      /\ Distinct(q) /\ Distinct(s) /\ ToSet(q) \cap ToSet(s) = {} => Distinct(q \o s)
  BY <1>2, ConcatSet
<1> QED
  BY <1>1, <1>4, <1>5, <1>6

LEMMA RequeueMoves ==
  ASSUME SchedTypes, NEW r \in Reqs, Requeue(r)
  PROVE  /\ waiting' \in Seq(Reqs) /\ ToSet(waiting') = {r} \cup ToSet(waiting)
         /\ Distinct(waiting) /\ r \notin ToSet(waiting) => Distinct(waiting')
         /\ requests' = requests \cup {r} /\ rej' = rej
         /\ stepFaults' = stepFaults + 1 /\ world' = world /\ lost' = lost
<1>1. waiting \in Seq(Reqs)
  BY DEF SchedTypes, QueueTypes
<1>2. waiting' = <<r>> \o waiting
  BY DEF Requeue
<1> QED
  BY <1>1, <1>2, FrontSet DEF Requeue, Fault, Strikes

LEMMA RejectMoves ==
  ASSUME NEW r \in Reqs, Reject(r)
  PROVE  /\ waiting' = waiting /\ requests' = requests \ {r} /\ rej' = rej \cup {r}
         /\ stepFaults' = stepFaults + 1 /\ world' = world /\ lost' = lost
  BY DEF Reject, Fault, Strikes

LEMMA OrphanSet ==
  ASSUME SchedTypes
  PROVE  \E s \in Seq(Reqs) :
           /\ s = SetToSeq(requests \ (ToSet(running) \cup ToSet(prefilling) \cup ToSet(waiting)))
           /\ ToSet(s) = requests \ (ToSet(running) \cup ToSet(prefilling) \cup ToSet(waiting))
<1>1. PICK S : S = requests \ (ToSet(running) \cup ToSet(prefilling) \cup ToSet(waiting))
  OBVIOUS
<1>2. S \in SUBSET Reqs
  BY <1>1 DEF SchedTypes, BookTypes
<1>3. IsFiniteSet(S)
  BY <1>2, BasicTypes, FS_Subset
<1>4. SetToSeq(S) \in Seq(S) /\ ToSet(SetToSeq(S)) = S
  BY <1>3, SeqOfSet
<1>5. SetToSeq(S) \in Seq(Reqs)
  BY <1>2, <1>4, SeqMonotonic
<1> QED
  BY <1>1, <1>4, <1>5

AffectedSet == (ToSet(running) \cup ToSet(prefilling) \cup (requests \ ToSet(waiting))) \ InFlight

LEMMA AffectedMoves ==
  ASSUME SchedTypes
  PROVE  Affected \in Seq(Reqs) /\ Distinct(Affected) /\ ToSet(Affected) = AffectedSet
<1>1. running \in Seq(Reqs) /\ prefilling \in Seq(Reqs)
  BY DEF SchedTypes, QueueTypes
<1>2. PICK s \in Seq(Reqs) :
        /\ s = SetToSeq(requests \ (ToSet(running) \cup ToSet(prefilling) \cup ToSet(waiting)))
        /\ ToSet(s) = requests \ (ToSet(running) \cup ToSet(prefilling) \cup ToSet(waiting))
  BY OrphanSet
<1>3. PICK all : all = running \o prefilling \o s
  OBVIOUS
<1>4. /\ all \in Seq(Reqs)
      /\ ToSet(all) = ToSet(running) \cup ToSet(prefilling) \cup ToSet(s)
  <2>1. running \o prefilling \in Seq(Reqs) /\ ToSet(running \o prefilling) = ToSet(running) \cup ToSet(prefilling)
    BY <1>1, ConcatSet
  <2>2. PICK p \in Seq(Reqs) : p = running \o prefilling /\ ToSet(p) = ToSet(running) \cup ToSet(prefilling)
    BY <2>1
  <2>3. p \o s \in Seq(Reqs) /\ ToSet(p \o s) = ToSet(p) \cup ToSet(s)
    BY ConcatSet
  <2> QED
    BY <1>3, <2>2, <2>3
<1>5. PICK n \in Nat : n = Len(all)
  BY <1>4, LenProperties
<1>6. ToSet(all) = {all[i] : i \in 1..n}
  BY <1>4, <1>5, AsSet
<1>7. PICK at : at = {i \in 1..n : all[i] \notin InFlight /\ \A j \in 1..(i - 1) : all[j] # all[i]}
  OBVIOUS
<1>8. Affected = Chosen(all, at)
  BY <1>2, <1>3, <1>5, <1>7 DEF Affected
<1>9. /\ Chosen(all, at) \in Seq(Reqs)
      /\ ToSet(Chosen(all, at)) = {all[i] : i \in at \cap (1..n)}
      /\ (\A i, j \in at \cap (1..n) : all[i] = all[j] => i = j) => Distinct(Chosen(all, at))
  BY <1>4, <1>5, ChosenSet
<1>10. at \cap (1..n) = at
  BY <1>7
<1>11. ASSUME NEW i \in at, NEW j \in at, all[i] = all[j] PROVE i = j
  <2>1. i \in 1..n /\ j \in 1..n
    BY <1>7
  <2>2. ~(i < j)
    <3> SUFFICES ASSUME i < j PROVE FALSE
      OBVIOUS
    <3>1. i \in 1..(j - 1)
      BY <2>1
    <3> QED
      BY <1>7, <1>11, <3>1
  <2>3. ~(j < i)
    <3> SUFFICES ASSUME j < i PROVE FALSE
      OBVIOUS
    <3>1. j \in 1..(i - 1)
      BY <2>1
    <3> QED
      BY <1>7, <1>11, <3>1
  <2> QED
    BY <2>1, <2>2, <2>3
<1>12. {all[i] : i \in at} = ToSet(all) \ InFlight
  <2>1. ASSUME NEW y \in {all[i] : i \in at} PROVE y \in ToSet(all) \ InFlight
    BY <1>6, <1>7
  <2>2. ASSUME NEW y \in ToSet(all) \ InFlight PROVE y \in {all[i] : i \in at}
    <3>1. PICK I : I = {i \in 1..n : all[i] = y}
      OBVIOUS
    <3>2. I \in SUBSET (1..n) /\ I # {}
      BY <1>6, <3>1
    <3>3. PICK m : m = Min(I)
      OBVIOUS
    <3>4. m \in I /\ \A i \in I : m <= i
      BY <3>2, <3>3, FirstAt
    <3>5. m \in 1..n /\ all[m] = y
      BY <3>1, <3>4
    <3>6. ASSUME NEW j \in 1..(m - 1) PROVE all[j] # y
      <4>1. j \in 1..n /\ ~(m <= j)
        BY <3>5
      <4> QED
        BY <3>1, <3>4, <4>1
    <3>7. m \in at
      BY <1>7, <3>5, <3>6
    <3> QED
      BY <3>5, <3>7
  <2> QED
    BY <2>1, <2>2
<1>13. ToSet(all) \ InFlight = AffectedSet
  BY <1>2, <1>4 DEF AffectedSet
<1> QED
  BY <1>8, <1>9, <1>10, <1>11, <1>12, <1>13

LEMMA ShorterMoves ==
  ASSUME NEW s \in Seq(Reqs), NEW S
  PROVE  /\ Without(s, S) \in Seq(Reqs) /\ ToSet(Without(s, S)) = ToSet(s) \ S
         /\ Len(Without(s, S)) <= Len(s) /\ Len(s) \in Nat /\ Len(Without(s, S)) \in Nat
         /\ Distinct(s) => Distinct(Without(s, S))
  BY WithoutSet, LenProperties

Failed(kind, budget) == {r \in AffectedSet : tries[r][kind] >= budget}
Dropped0 == IF At("decode") THEN {} ELSE rej

LEMMA RetryMoves ==
  ASSUME SchedTypes, NEW kind, NEW budget, NEW order \in Seq(Reqs), Distinct(order),
         ToSet(order) = AffectedSet, Retry(kind, budget, order)
  PROVE  /\ waiting' \in Seq(Reqs)
         /\ ToSet(waiting') = (AffectedSet \ Failed(kind, budget)) \cup ToSet(waiting)
         /\ Distinct(waiting) /\ AffectedSet \cap ToSet(waiting) = {} => Distinct(waiting')
         /\ running' \in Seq(Reqs) /\ ToSet(running') = ToSet(running) \ AffectedSet
         /\ Distinct(running) => Distinct(running')
         /\ prefilling' \in Seq(Reqs) /\ ToSet(prefilling') = ToSet(prefilling) \ AffectedSet
         /\ Distinct(prefilling) => Distinct(prefilling')
         /\ Len(running') <= Len(running) /\ Len(prefilling') <= Len(prefilling)
         /\ Len(running') \in Nat /\ Len(prefilling') \in Nat
         /\ requests' = requests \ Failed(kind, budget)
         /\ rej' = {} /\ out' = out \cup Failed(kind, budget) \cup (rej \ Dropped0) /\ lost' = lost \cup Dropped0
         /\ left' = [r \in Reqs |-> IF r \in AffectedSet THEN 0 ELSE left[r]]
         /\ todo' = <<"finish">> /\ cur' = None /\ round' = <<>> /\ still' = <<>>
         /\ nextUid' = 0 /\ uidOf' = <<>> /\ reqOf' = <<>> /\ rows' = <<>> /\ stepFaults' = stepFaults + 1
         /\ pend' = pend /\ stored' = stored /\ aborts' = aborts
         /\ asked' = asked /\ gone' = gone /\ told' = told /\ twice' = twice \cup LeftRound
<1>1. waiting \in Seq(Reqs) /\ running \in Seq(Reqs) /\ prefilling \in Seq(Reqs)
  BY DEF SchedTypes, QueueTypes
<1>2. ToSet(Affected) = AffectedSet
  BY AffectedMoves
<1>3. PICK A : A = AffectedSet
  OBVIOUS
<1>4. PICK F : F = Failed(kind, budget)
  OBVIOUS
<1>5. F = {r \in ToSet(Affected) : tries[r][kind] >= budget}
  BY <1>2, <1>4 DEF Failed
<1>6. /\ waiting' = Without(order, F) \o waiting
      /\ running' = Without(running, A) /\ prefilling' = Without(prefilling, A)
      /\ left' = [r \in Reqs |-> IF r \in A THEN 0 ELSE left[r]]
      /\ requests' = requests \ F
      /\ rej' = {} /\ out' = out \cup F \cup (rej \ Dropped0) /\ lost' = lost \cup Dropped0
  BY <1>2, <1>3, <1>5 DEF Retry, Dropped0
<1>7. PICK o \in Seq(Reqs) : o = Without(order, F) /\ ToSet(o) = A \ F /\ Distinct(o)
  BY <1>3, ShorterMoves
<1>8. /\ o \o waiting \in Seq(Reqs) /\ ToSet(o \o waiting) = ToSet(o) \cup ToSet(waiting)
      /\ Distinct(o) /\ Distinct(waiting) /\ ToSet(o) \cap ToSet(waiting) = {} => Distinct(o \o waiting)
  BY <1>1, <1>7, ConcatSet
<1>9. /\ waiting' \in Seq(Reqs) /\ ToSet(waiting') = (A \ F) \cup ToSet(waiting)
      /\ Distinct(waiting) /\ A \cap ToSet(waiting) = {} => Distinct(waiting')
  BY <1>6, <1>7, <1>8
<1>10. /\ running' \in Seq(Reqs) /\ ToSet(running') = ToSet(running) \ A
       /\ Distinct(running) => Distinct(running')
       /\ Len(running') <= Len(running) /\ Len(running') \in Nat
  BY <1>1, <1>6, ShorterMoves
<1>11. /\ prefilling' \in Seq(Reqs) /\ ToSet(prefilling') = ToSet(prefilling) \ A
       /\ Distinct(prefilling) => Distinct(prefilling')
       /\ Len(prefilling') <= Len(prefilling) /\ Len(prefilling') \in Nat
  BY <1>1, <1>6, ShorterMoves
<1>12. /\ todo' = <<"finish">> /\ cur' = None /\ round' = <<>> /\ still' = <<>>
       /\ nextUid' = 0 /\ uidOf' = <<>> /\ reqOf' = <<>> /\ rows' = <<>> /\ stepFaults' = stepFaults + 1
       /\ pend' = pend /\ stored' = stored /\ aborts' = aborts
       /\ asked' = asked /\ gone' = gone /\ told' = told /\ twice' = twice \cup LeftRound
  BY DEF Retry, stores, clients
<1> QED
  BY <1>3, <1>4, <1>6, <1>9, <1>10, <1>11, <1>12

LEMMA FailAllMoves ==
  ASSUME SchedTypes, FailAll
  PROVE  \E failed :
         /\ failed = ToSet(running) \cup ToSet(prefilling) \cup ToSet(waiting) \cup (requests \ InFlight)
         /\ waiting' = <<>> /\ prefilling' = <<>> /\ running' = <<>>
         /\ left' = [r \in Reqs |-> 0] /\ requests' = requests \ failed
         /\ uidOf' = Drop(uidOf, failed) /\ nextUid' = 0 /\ rows' = <<>>
         /\ reqOf' = Drop(reqOf, {uidOf[r] : r \in failed \cap DOMAIN uidOf})
         /\ serial' = serial \ failed
         /\ told' = [r \in Reqs |-> IF r \in failed THEN told[r] + 1 ELSE told[r]]
         /\ todo' = <<"idle">> /\ cur' = None /\ round' = <<>> /\ still' = <<>>
         /\ rej' = {} /\ out' = {} /\ lost' = lost \cup rej \cup out /\ stepFaults' = 0
         /\ pend' = pend /\ stored' = stored /\ asked' = asked /\ gone' = gone
  BY DEF FailAll, stores

LEMMA DropTypes ==
  ASSUME SchedTypes, NEW S
  PROVE  DOMAIN Drop(uidOf, S) = DOMAIN uidOf \ S /\ DOMAIN Drop(uidOf, S) \subseteq Reqs
         /\ \A r \in DOMAIN Drop(uidOf, S) : Drop(uidOf, S)[r] = uidOf[r] /\ Drop(uidOf, S)[r] \in Nat
<1>1. DOMAIN uidOf \subseteq Reqs /\ \A r \in DOMAIN uidOf : uidOf[r] \in Nat
  BY DEF SchedTypes, BookTypes
<1>2. PICK m : m = Drop(uidOf, S)
  OBVIOUS
<1>3. DOMAIN m = DOMAIN uidOf \ S /\ \A r \in DOMAIN uidOf \ S : m[r] = uidOf[r]
  BY <1>2 DEF Drop
<1> QED
  BY <1>1, <1>2, <1>3

(* Draining: the entries that are done go, the others stay.                *)
LEMMA DrainMoves ==
  ASSUME SchedTypes, Drain
  PROVE  \E ended \in SUBSET InFlight :
         /\ pend' \in Seq([uid : Nat, req : Reqs]) /\ Len(pend') <= Len(pend)
         /\ Len(pend) \in Nat /\ Len(pend') \in Nat
         /\ {pend'[i].req : i \in 1..Len(pend')} = InFlight \ ended
         /\ ended = InFlight \cap stored
         /\ requests' = requests \ ended /\ uidOf' = Drop(uidOf, ended)
         /\ nextUid' = nextUid /\ world' = world /\ stepFaults' = stepFaults /\ lost' = lost
<1>1. pend \in Seq([uid : Nat, req : Reqs])
  BY DEF SchedTypes, BookTypes
<1>2. PICK n \in Nat : n = Len(pend)
  BY <1>1, LenProperties
<1>3. PICK ready : ready = {i \in 1..n : pend[i].req \in stored}
  OBVIOUS
<1>4. PICK ended : ended = {pend[i].req : i \in ready}
  OBVIOUS
<1>5. /\ pend' = Chosen(pend, 1..n \ ready) /\ requests' = requests \ ended /\ uidOf' = Drop(uidOf, ended)
      /\ nextUid' = nextUid /\ world' = world /\ stepFaults' = stepFaults /\ lost' = lost
  BY <1>2, <1>3, <1>4 DEF Drain
<1>6. InFlight = {pend[i].req : i \in 1..n}
  BY <1>2 DEF InFlight
<1>7. ended \in SUBSET InFlight /\ ended = InFlight \cap stored
  BY <1>3, <1>4, <1>6
<1>8. PICK q : q = Chosen(pend, 1..n \ ready)
  OBVIOUS
<1>9. /\ q \in Seq([uid : Nat, req : Reqs]) /\ Len(q) <= n
      /\ ToSet(q) = {pend[i] : i \in (1..n \ ready) \cap (1..n)}
  BY <1>1, <1>2, <1>8, ChosenSet
<1>10. Len(q) \in Nat /\ ToSet(q) = {q[i] : i \in 1..Len(q)}
  <2>1. PICK E : E = [uid : Nat, req : Reqs]
    OBVIOUS
  <2>2. q \in Seq(E)
    BY <1>9, <2>1
  <2> QED
    BY <2>2, AsSet
<1>11. {q[i].req : i \in 1..Len(q)} = InFlight \ ended
  <2>1. ASSUME NEW y \in {q[i].req : i \in 1..Len(q)} PROVE y \in InFlight \ ended
    <3>1. PICK i \in 1..Len(q) : y = q[i].req
      OBVIOUS
    <3>2. PICK j \in 1..n \ ready : q[i] = pend[j]
      BY <1>9, <1>10, <3>1
    <3>3. y = pend[j].req /\ y \notin stored
      BY <1>3, <3>1, <3>2
    <3> QED
      BY <1>6, <1>7, <3>3
  <2>2. ASSUME NEW y \in InFlight \ ended PROVE y \in {q[i].req : i \in 1..Len(q)}
    <3>1. PICK j \in 1..n : y = pend[j].req
      BY <1>6
    <3>2. j \notin ready
      BY <1>4, <2>2, <3>1
    <3>3. pend[j] \in ToSet(q)
      BY <1>9, <3>2
    <3>4. PICK i \in 1..Len(q) : q[i] = pend[j]
      BY <1>10, <3>3
    <3> QED
      BY <3>1, <3>4
  <2> QED
    BY <2>1, <2>2
<1>12. pend' = q
  BY <1>5, <1>8
<1>13. /\ pend' \in Seq([uid : Nat, req : Reqs]) /\ Len(pend') <= Len(pend)
       /\ Len(pend) \in Nat /\ Len(pend') \in Nat
       /\ {pend'[i].req : i \in 1..Len(pend')} = InFlight \ ended
  BY <1>2, <1>9, <1>10, <1>11, <1>12
<1> QED
  BY <1>5, <1>7, <1>13

(* Aborting: the request leaves the queue it is in.                        *)
LEMMA RemovedMoves ==
  ASSUME SchedTypes, NEW r \in Reqs, Removed(r)
  PROVE  /\ waiting' \in Seq(Reqs) /\ ToSet(waiting') \subseteq ToSet(waiting)
         /\ ToSet(waiting) \subseteq ToSet(waiting') \cup {r}
         /\ Distinct(waiting) => /\ Distinct(waiting')
                                 /\ r \notin ToSet(running) => r \notin ToSet(waiting')
         /\ running' \in Seq(Reqs) /\ ToSet(running') = ToSet(running) \ {r}
         /\ Distinct(running) => Distinct(running')
         /\ Len(running') <= Len(running) /\ Len(running') \in Nat
         /\ prefilling' \in Seq(Reqs) /\ Len(prefilling') <= Len(prefilling) /\ Len(prefilling') \in Nat
         /\ ToSet(prefilling') = IF left[r] > 0 THEN ToSet(prefilling) \ {r} ELSE ToSet(prefilling)
         /\ Distinct(prefilling) => Distinct(prefilling')
         /\ left' = [left EXCEPT ![r] = 0] /\ requests' = requests \ {r}
<1>1. waiting \in Seq(Reqs) /\ running \in Seq(Reqs) /\ prefilling \in Seq(Reqs)
  BY DEF SchedTypes, QueueTypes
<1>2. PICK w \in Seq(Reqs) :
        /\ w = RemoveFirst(waiting, r) /\ ToSet(w) \subseteq ToSet(waiting)
        /\ ToSet(waiting) \subseteq ToSet(w) \cup {r}
        /\ Distinct(waiting) => Distinct(w) /\ r \notin ToSet(w)
  BY <1>1, RemoveFirstSet
<1>3. waiting' = IF r \in ToSet(running) THEN waiting ELSE w
  BY <1>2 DEF Removed
<1>4. /\ waiting' \in Seq(Reqs) /\ ToSet(waiting') \subseteq ToSet(waiting)
      /\ ToSet(waiting) \subseteq ToSet(waiting') \cup {r}
      /\ Distinct(waiting) => /\ Distinct(waiting')
                              /\ r \notin ToSet(running) => r \notin ToSet(waiting')
  <2>1. CASE r \in ToSet(running)
    <3>1. waiting' = waiting
      BY <1>3, <2>1
    <3> QED
      BY <1>1, <2>1, <3>1
  <2>2. CASE r \notin ToSet(running)
    <3>1. waiting' = w
      BY <1>3, <2>2
    <3> QED
      BY <1>2, <3>1
  <2> QED
    BY <2>1, <2>2
<1>5. /\ running' \in Seq(Reqs) /\ ToSet(running') = ToSet(running) \ {r}
      /\ Distinct(running) => Distinct(running')
      /\ Len(running') <= Len(running) /\ Len(running') \in Nat
  BY <1>1, ShorterMoves DEF Removed
<1>6. PICK p \in Seq(Reqs) :
        /\ p = Without(prefilling, {r}) /\ ToSet(p) = ToSet(prefilling) \ {r}
        /\ Distinct(prefilling) => Distinct(p)
        /\ Len(p) <= Len(prefilling) /\ Len(p) \in Nat
  BY <1>1, ShorterMoves
<1>7. prefilling' = IF left[r] > 0 THEN p ELSE prefilling
  BY <1>6 DEF Removed
<1>8. Len(prefilling) \in Nat
  BY <1>1, LenProperties
<1>9. /\ prefilling' \in Seq(Reqs) /\ Len(prefilling') <= Len(prefilling) /\ Len(prefilling') \in Nat
      /\ ToSet(prefilling') = IF left[r] > 0 THEN ToSet(prefilling) \ {r} ELSE ToSet(prefilling)
      /\ Distinct(prefilling) => Distinct(prefilling')
  <2>1. CASE left[r] > 0
    <3>1. prefilling' = p
      BY <1>7, <2>1
    <3> QED
      BY <1>6, <2>1, <3>1
  <2>2. CASE ~(left[r] > 0)
    <3>1. prefilling' = prefilling
      BY <1>7, <2>2
    <3> QED
      BY <1>1, <1>8, <2>2, <3>1
  <2> QED
    BY <2>1, <2>2
<1>10. left' = [left EXCEPT ![r] = 0] /\ requests' = requests \ {r}
  BY DEF Removed
<1> QED
  BY <1>4, <1>5, <1>9, <1>10

(* The end of a decode: what is kept for the store takes the finished ones' *)
(* places.                                                                 *)
LEMMA CleanUpMoves ==
  ASSUME SchedTypes, NEW finished, NEW kept, NEW made, finished \subseteq ToSet(running),
         kept \subseteq finished, CleanUp(finished, kept, made)
  PROVE  /\ running' \in Seq(Reqs) /\ ToSet(running') = ToSet(running) \ finished
         /\ Distinct(running) => Distinct(running')
         /\ pend' \in Seq([uid : Nat, req : Reqs])
         /\ {pend'[i].req : i \in 1..Len(pend')} = InFlight \cup (kept \cap DOMAIN uidOf)
         /\ Len(pend') + Len(running') <= Len(pend) + Len(running)
         /\ Len(pend') \in Nat /\ Len(running') \in Nat
         /\ uidOf' = Drop(uidOf, finished \ kept)
         /\ requests' = requests \ (finished \ kept)
<1>1. /\ running \in Seq(Reqs) /\ pend \in Seq([uid : Nat, req : Reqs])
      /\ DOMAIN uidOf \subseteq Reqs /\ \A r \in DOMAIN uidOf : uidOf[r] \in Nat
  BY DEF SchedTypes, QueueTypes, BookTypes
<1>2. PICK late : late = {[uid |-> uidOf[r], req |-> r] : r \in kept \cap DOMAIN uidOf}
  OBVIOUS
<1>3. /\ pend' = pend \o SetToSeq(late) /\ running' = Without(running, finished)
      /\ uidOf' = Drop(uidOf, finished \ kept)
      /\ requests' = requests \ (finished \ kept)
  BY <1>2 DEF CleanUp
<1>4. /\ running' \in Seq(Reqs) /\ ToSet(running') = ToSet(running) \ finished
      /\ Distinct(running) => Distinct(running')
      /\ Len(running) \in Nat /\ Len(running') \in Nat
  BY <1>1, <1>3, ShorterMoves
<1>5. IsFiniteSet(finished) /\ Len(running') + Cardinality(finished) <= Len(running)
  BY <1>1, <1>3, WithoutLen
<1>6. PICK K : K = kept \cap DOMAIN uidOf
  OBVIOUS
<1>7. K \in SUBSET finished
  BY <1>6
<1>8. /\ IsFiniteSet(K) /\ Cardinality(K) <= Cardinality(finished)
      /\ Cardinality(K) \in Nat /\ Cardinality(finished) \in Nat
  BY <1>5, <1>7, FS_Subset, FS_CardinalityType
<1>9. PICK f : f = [r \in K |-> [uid |-> uidOf[r], req |-> r]]
  OBVIOUS
<1>10. f \in Surjection(K, late)
  BY <1>2, <1>6, <1>9 DEF Surjection
<1>11. IsFiniteSet(late) /\ Cardinality(late) <= Cardinality(K) /\ Cardinality(late) \in Nat
  BY <1>8, <1>10, FS_Surjection, FS_CardinalityType
<1>12. PICK s \in Seq(late) : s = SetToSeq(late) /\ Len(s) = Cardinality(late) /\ ToSet(s) = late
  BY <1>11, SeqOfSet
<1>13. late \subseteq [uid : Nat, req : Reqs]
  BY <1>1, <1>2
<1>14. s \in Seq([uid : Nat, req : Reqs])
  BY <1>12, <1>13, SeqMonotonic
<1>15. PICK p : p = pend \o s
  OBVIOUS
<1>16. /\ p \in Seq([uid : Nat, req : Reqs]) /\ ToSet(p) = ToSet(pend) \cup ToSet(s)
       /\ Len(p) = Len(pend) + Len(s)
  BY <1>1, <1>14, <1>15, ConcatSet
<1>17. pend' = p
  BY <1>3, <1>12, <1>15
<1>18. Len(pend) \in Nat /\ Len(p) \in Nat
  BY <1>1, <1>16, LenProperties
<1>19. {p[i].req : i \in 1..Len(p)} = InFlight \cup K
  <2>1. ToSet(p) = {p[i] : i \in 1..Len(p)} /\ ToSet(pend) = {pend[i] : i \in 1..Len(pend)}
    <3>1. PICK E : E = [uid : Nat, req : Reqs]
      OBVIOUS
    <3>2. p \in Seq(E) /\ pend \in Seq(E)
      BY <1>1, <1>16, <3>1
    <3> QED
      BY <3>2, AsSet
  <2>2. InFlight = {e.req : e \in ToSet(pend)}
    BY <2>1 DEF InFlight
  <2>3. {p[i].req : i \in 1..Len(p)} = {e.req : e \in ToSet(p)}
    BY <2>1
  <2>4. {e.req : e \in late} = K
    <3>1. late = {[uid |-> uidOf[r], req |-> r] : r \in K}
      BY <1>2, <1>6
    <3>2. ASSUME NEW y \in {e.req : e \in late} PROVE y \in K
      BY <3>1
    <3>3. ASSUME NEW y \in K PROVE y \in {e.req : e \in late}
      <4>1. [uid |-> uidOf[y], req |-> y] \in late
        BY <3>1
      <4> QED
        BY <4>1
    <3> QED
      BY <3>2, <3>3
  <2> QED
    BY <1>12, <1>16, <2>2, <2>3, <2>4
<1> QED
  BY <1>3, <1>4, <1>5, <1>6, <1>8, <1>11, <1>12, <1>16, <1>17, <1>18, <1>19

-----------------------------------------------------------------------------
RoundDistinct ==
  IF At("chunks") THEN Distinct(round) /\ Distinct(still) /\ ToSet(round) \cap ToSet(still) = {}
  ELSE Distinct(prefilling)
One == IF At("prefill") THEN 1 ELSE 0

(* Nobody moves: what a step that touches no queue leaves as it was.       *)
Quiet ==
  /\ waiting' = waiting /\ running' = running /\ prefilling' = prefilling /\ pend' = pend
  /\ InRound' = InRound /\ RoundLen' = RoundLen /\ RoundDistinct' = RoundDistinct
  /\ Held' = Held /\ One' = One /\ InFlight' = InFlight

LEMMA QuietMoves ==
  ASSUME UNCHANGED <<waiting, running, prefilling, pend, round, still, cur>>,
         At("chunks")' = At("chunks"), At("prefill")' = At("prefill")
  PROVE  Quiet
<1>1. Held' = Held /\ One' = One
  BY DEF Held, One
<1>2. InRound' = InRound /\ RoundLen' = RoundLen
  BY DEF InRound, RoundLen
<1>3. RoundDistinct' = RoundDistinct
  BY DEF RoundDistinct
<1>4. InFlight' = InFlight
  BY DEF InFlight
<1> QED
  BY <1>1, <1>2, <1>3, <1>4 DEF Quiet

LEMMA SameBooks ==
  ASSUME BookTypes, UNCHANGED <<pend, nextUid, uidOf, requests, asked, left, told, world, stepFaults>>
  PROVE  BookTypes'
  BY DEF BookTypes
LEMMA SameQueues ==
  ASSUME QueueTypes, UNCHANGED <<waiting, prefilling, running, round, still>>
  PROVE  QueueTypes'
  BY DEF QueueTypes
LEMMA SamePlan ==
  ASSUME PlanTypes, UNCHANGED <<todo, cur, round, still>>
  PROVE  PlanTypes'
  BY DEF PlanTypes, At

LEMMA AddRequestMoves ==
  ASSUME SchedTypes, NEW r \in Reqs, AddRequest(r)
  PROVE  /\ SchedTypes'
         /\ At("idle") /\ todo' = todo
         /\ asked = 1..(r - 1) /\ asked' = asked \cup {r} /\ r \notin asked /\ requests' = requests \cup {r}
         /\ ToSet(waiting') = ToSet(waiting) \cup {r}
         /\ Distinct(waiting) /\ r \notin ToSet(waiting) => Distinct(waiting')
         /\ UNCHANGED <<running, prefilling, round, still, cur, pend, left, serial, aborts, rej, out, gone, told,
                        world, stepFaults, lost>>
<1>1. /\ At("idle") /\ todo' = todo
      /\ asked = 1..(r - 1) /\ asked' = asked \cup {r} /\ requests' = requests \cup {r}
      /\ waiting' = Append(waiting, r)
      /\ UNCHANGED <<running, prefilling, round, still, cur, pend, left, serial, aborts, rej, out, gone, told,
                     world, stepFaults, lost, nextUid, uidOf>>
  BY DEF AddRequest, batch, stores, retry, loop, env
<1>2. waiting \in Seq(Reqs) /\ r \in Nat
  BY BasicTypes DEF SchedTypes, QueueTypes
<1>3. r \notin asked
  BY <1>1, <1>2
<1>4. /\ waiting' \in Seq(Reqs) /\ ToSet(waiting') = ToSet(waiting) \cup {r}
      /\ Distinct(waiting) /\ r \notin ToSet(waiting) => Distinct(waiting')
  BY <1>1, <1>2, AppendSet
<1>5. PlanTypes'
  BY <1>1, SamePlan DEF SchedTypes
<1>6. QueueTypes'
  BY <1>1, <1>4 DEF SchedTypes, QueueTypes
<1>7. BookTypes'
  BY <1>1 DEF SchedTypes, BookTypes
<1> QED
  BY <1>1, <1>3, <1>4, <1>5, <1>6, <1>7 DEF SchedTypes

LEMMA AbortMoves ==
  ASSUME SchedTypes, NEW r \in Reqs, Abort(r)
  PROVE  /\ SchedTypes' /\ Quiet
         /\ gone' = gone \cup {r} /\ aborts' = aborts \cup {r} /\ r \in asked
         /\ UNCHANGED <<todo, requests, left, serial, rej, out, asked, told, world, stepFaults, lost, cur>>
<1>1. /\ UNCHANGED <<todo, requests, left, serial, rej, out, asked, told, world, stepFaults, lost,
                     waiting, running, prefilling, round, still, cur, pend, nextUid, uidOf>>
      /\ gone' = gone \cup {r} /\ aborts' = aborts \cup {r} /\ r \in asked
  BY DEF Abort, queues, batch, stores, retry, loop, env
<1>2. Quiet
  BY <1>1, QuietMoves DEF At
<1> QED
  BY <1>1, <1>2, SameBooks, SameQueues, SamePlan DEF SchedTypes

LEMMA StoreDoneMoves ==
  ASSUME SchedTypes, NEW r \in Reqs, StoreDone(r)
  PROVE  /\ SchedTypes' /\ Quiet
         /\ UNCHANGED <<todo, requests, left, serial, aborts, rej, out, asked, gone, told, world, stepFaults, lost, cur>>
<1>1. /\ UNCHANGED <<todo, requests, left, serial, aborts, rej, out, asked, gone, told, world, stepFaults, lost,
                     waiting, running, prefilling, round, still, cur, pend, nextUid, uidOf>>
  BY DEF StoreDone, queues, batch, retry, loop, env, clients
<1>2. Quiet
  BY <1>1, QuietMoves DEF At
<1> QED
  BY <1>1, <1>2, SameBooks, SameQueues, SamePlan DEF SchedTypes

LEMMA NewPlan ==
  ASSUME SchedTypes, NEW t \in Plans, todo' = t, t[1] \notin {"prefill"}, cur' = None,
         t[1] # "chunks" => round' = <<>> /\ still' = <<>>
  PROVE  PlanTypes'
  BY DEF PlanTypes, At

(* The steps that only choose what comes next.                             *)
LEMMA TurnMoves ==
  ASSUME SchedTypes, NEW t \in Plans, todo' = t, t[1] \notin {"prefill", "chunks"},
         ~At("prefill"), ~At("chunks"),
         UNCHANGED <<waiting, running, prefilling, pend, round, still, cur>>
  PROVE  PlanTypes' /\ QueueTypes' /\ Quiet /\ ~At("prefill")' /\ ~At("chunks")'
<1>1. cur = None /\ round = <<>> /\ still = <<>>
  BY DEF SchedTypes, PlanTypes
<1>2. PlanTypes'
  BY <1>1, NewPlan
<1>3. QueueTypes'
  BY SameQueues DEF SchedTypes
<1>4. At("chunks")' = At("chunks") /\ At("prefill")' = At("prefill") /\ ~At("prefill")' /\ ~At("chunks")'
  BY DEF At
<1> QED
  BY <1>2, <1>3, <1>4, QuietMoves

LEMMA BeginStepMoves ==
  ASSUME SchedTypes, BeginStep
  PROVE  /\ SchedTypes' /\ Quiet /\ At("idle") /\ ~At("idle")' /\ ~At("chunks")' /\ ~At("prefill")'
         /\ UNCHANGED <<requests, left, serial, aborts, rej, out, asked, gone, told, world, stepFaults, lost, cur>>
<1>1. /\ UNCHANGED <<requests, left, serial, aborts, rej, out, asked, gone, told, world, stepFaults, lost,
                     waiting, running, prefilling, round, still, cur, pend, nextUid, uidOf>>
      /\ At("idle") /\ todo' = <<"aborts", "pick">>
  BY DEF BeginStep, queues, batch, stores, retry, loop, env, clients
<1>2. ~At("prefill") /\ ~At("chunks") /\ ~At("idle")'
  BY <1>1 DEF At
<1>3. PICK t \in Plans : t = <<"aborts", "pick">> /\ t[1] \notin {"prefill", "chunks"}
  BY FirstPhases
<1>4. PlanTypes' /\ QueueTypes' /\ Quiet /\ ~At("prefill")' /\ ~At("chunks")'
  BY <1>1, <1>2, <1>3, TurnMoves
<1> QED
  BY <1>1, <1>2, <1>4, SameBooks DEF SchedTypes

LEMMA PickMoves ==
  ASSUME SchedTypes, Pick
  PROVE  /\ SchedTypes' /\ Quiet /\ At("pick") /\ ~At("idle")' /\ ~At("chunks")' /\ ~At("prefill")'
         /\ UNCHANGED <<requests, left, serial, aborts, rej, out, asked, gone, told, world, stepFaults, lost, cur>>
<1>1. /\ UNCHANGED <<requests, left, serial, aborts, rej, out, asked, gone, told, world, stepFaults, lost,
                     waiting, running, prefilling, round, still, cur, pend, nextUid, uidOf>>
      /\ At("pick")
  BY DEF Pick, queues, batch, stores, retry, env, clients
<1>2. ~At("prefill") /\ ~At("chunks")
  BY <1>1 DEF At
<1>3. todo' \in {<<"admit", "decode", "finish">>, <<"admit", "advance", "chunks", "decode", "finish">>,
                 <<"advance", "chunks", "admit", "decode", "finish">>}
  BY DEF Pick
<1>4. PICK t \in Plans : t = todo' /\ t[1] \notin {"prefill", "chunks", "idle"}
  <2>1. <<"admit", "decode", "finish">>[1] = "admit"
    OBVIOUS
  <2>2. <<"admit", "advance", "chunks", "decode", "finish">>[1] = "admit"
    OBVIOUS
  <2>3. <<"advance", "chunks", "admit", "decode", "finish">>[1] = "advance"
    OBVIOUS
  <2> QED
    BY <1>3, <2>1, <2>2, <2>3, FirstPhases
<1>5. PlanTypes' /\ QueueTypes' /\ Quiet /\ ~At("prefill")' /\ ~At("chunks")'
  BY <1>1, <1>2, <1>4, TurnMoves
<1>6. ~At("idle")'
  BY <1>4 DEF At
<1> QED
  BY <1>1, <1>5, <1>6, SameBooks DEF SchedTypes

(* Admission ends without a request.                                       *)
LEMMA AdmitEnds ==
  ASSUME SchedTypes, At("admit"), Then, UNCHANGED <<waiting, running, prefilling, pend, round, still, cur>>
  PROVE  PlanTypes' /\ QueueTypes' /\ Quiet /\ ~At("idle")' /\ ~At("chunks")' /\ ~At("prefill")'
<1>1. todo \in Plans
  BY DEF SchedTypes, PlanTypes
<1>2. PICK t \in Plans : t = todo' /\ t[1] \in {"advance", "decode"}
  BY <1>1, Phases DEF At, Then
<1>3. ~At("prefill") /\ ~At("chunks") /\ ~At("idle")'
  BY <1>2 DEF At
<1> QED
  BY <1>2, <1>3, TurnMoves

AdmitQuiet == AdmitDone \/ AdmitHeld \/ AdmitDeferred
LEMMA AdmitQuietMoves ==
  ASSUME SchedTypes, AdmitQuiet
  PROVE  /\ SchedTypes' /\ Quiet /\ At("admit") /\ ~At("idle")' /\ ~At("chunks")' /\ ~At("prefill")'
         /\ UNCHANGED <<requests, left, serial, aborts, rej, out, asked, gone, told, world, stepFaults, lost, cur>>
<1>1. /\ UNCHANGED <<requests, left, serial, aborts, rej, out, asked, gone, told, world, stepFaults, lost,
                     waiting, running, prefilling, round, still, cur, pend, nextUid, uidOf>>
      /\ At("admit") /\ Then
  BY DEF AdmitQuiet, AdmitDone, AdmitHeld, AdmitDeferred, Admitting, Break, Room, queues, batch, stores, loop, env, clients
<1>2. PlanTypes' /\ QueueTypes' /\ Quiet /\ ~At("idle")' /\ ~At("chunks")' /\ ~At("prefill")'
  BY <1>1, AdmitEnds
<1> QED
  BY <1>1, <1>2, SameBooks DEF SchedTypes

(* The head of the queue leaves it.                                        *)
LEMMA HeadLeaves ==
  ASSUME SchedTypes, waiting # <<>>
  PROVE  /\ Tail(waiting) \in Seq(Reqs) /\ waiting[1] \in Reqs
         /\ ToSet(waiting) = ToSet(Tail(waiting)) \cup {waiting[1]}
         /\ Distinct(waiting) => Distinct(Tail(waiting)) /\ waiting[1] \notin ToSet(Tail(waiting))
  BY TailSet DEF SchedTypes, QueueTypes

LEMMA AdmitBlockedMoves ==
  ASSUME SchedTypes, AdmitBlocked
  PROVE  /\ SchedTypes' /\ At("admit") /\ ~At("idle")' /\ ~At("chunks")' /\ ~At("prefill")'
         /\ \/ Quiet /\ requests' = requests /\ rej' = rej
            \/ \E r \in ToSet(waiting) :
                 /\ ToSet(waiting) = ToSet(waiting') \cup {r}
                 /\ Distinct(waiting) => Distinct(waiting') /\ r \notin ToSet(waiting')
                 /\ requests' = requests \ {r} /\ rej' = rej \cup {r}
         /\ InRound' = InRound /\ RoundLen' = RoundLen /\ RoundDistinct' = RoundDistinct
         /\ Held' = Held /\ One' = One /\ InFlight' = InFlight
         /\ UNCHANGED <<running, prefilling, pend, left, serial, aborts, out, asked, gone, told, world, stepFaults, lost, cur>>
<1>1. /\ At("admit") /\ waiting # <<>> /\ Then
      /\ \/ waiting' = waiting /\ requests' = requests /\ rej' = rej
         \/ waiting' = Tail(waiting) /\ requests' = requests \ {waiting[1]} /\ rej' = rej \cup {waiting[1]}
  <2>1. ASSUME NEW k, NEW others, Stall(k, others)
        PROVE  \/ waiting' = waiting /\ requests' = requests /\ rej' = rej
               \/ waiting' = Tail(waiting) /\ requests' = requests \ {waiting[1]} /\ rej' = rej \cup {waiting[1]}
    BY <2>1 DEF Stall, Head1
  <2>2. Stall("memory", blocked) \/ \E k \in Blockers : Stall(k, [b \in Blockers |-> Cleared(b)])
    BY DEF AdmitBlocked
  <2>3. At("admit") /\ waiting # <<>> /\ Then
    BY DEF AdmitBlocked, Room, Break
  <2> QED
    BY <2>1, <2>2, <2>3
<1>2. UNCHANGED <<running, prefilling, pend, left, serial, aborts, out, asked, gone, told, world, stepFaults, lost, cur,
                  round, still, nextUid, uidOf>>
  BY DEF AdmitBlocked, Break, Admitting, batch, stores, loop, env, clients
<1>3. todo \in Plans /\ cur = None /\ round = <<>> /\ still = <<>> /\ ~At("chunks") /\ ~At("prefill")
  BY <1>1 DEF SchedTypes, PlanTypes, At
<1>4. PICK t \in Plans : t = todo' /\ t[1] \in {"advance", "decode"}
  BY <1>1, <1>3, Phases DEF At, Then
<1>5. PlanTypes'
  BY <1>2, <1>3, <1>4, NewPlan
<1>6. ~At("idle")' /\ ~At("chunks")' /\ ~At("prefill")'
  BY <1>4 DEF At
<1>7. /\ InRound' = InRound /\ RoundLen' = RoundLen /\ RoundDistinct' = RoundDistinct
      /\ Held' = Held /\ One' = One /\ InFlight' = InFlight
  <2>1. Held' = Held /\ One' = One
    BY <1>3, <1>6 DEF Held, One
  <2>2. InRound' = InRound /\ RoundLen' = RoundLen
    BY <1>2, <1>3, <1>6 DEF InRound, RoundLen
  <2>3. RoundDistinct' = RoundDistinct
    BY <1>2, <1>3, <1>6 DEF RoundDistinct
  <2>4. InFlight' = InFlight
    BY <1>2 DEF InFlight
  <2> QED
    BY <2>1, <2>2, <2>3, <2>4
<1>8. waiting \in Seq(Reqs) /\ requests \subseteq Reqs
  BY DEF SchedTypes, QueueTypes, BookTypes
<1>9. CASE waiting' = waiting /\ requests' = requests /\ rej' = rej
  <2>1. QueueTypes'
    BY <1>2, <1>9, SameQueues DEF SchedTypes
  <2>2. BookTypes'
    BY <1>2, <1>9, SameBooks DEF SchedTypes
  <2>3. Quiet
    BY <1>2, <1>7, <1>9 DEF Quiet
  <2> QED
    BY <1>1, <1>2, <1>5, <1>6, <1>7, <1>9, <2>1, <2>2, <2>3 DEF SchedTypes
<1>10. CASE waiting' = Tail(waiting) /\ requests' = requests \ {waiting[1]} /\ rej' = rej \cup {waiting[1]}
  <2>1. PICK r \in Reqs :
          /\ r = waiting[1] /\ Tail(waiting) \in Seq(Reqs)
          /\ ToSet(waiting) = ToSet(Tail(waiting)) \cup {r}
          /\ Distinct(waiting) => Distinct(Tail(waiting)) /\ r \notin ToSet(Tail(waiting))
    BY <1>1, HeadLeaves
  <2>2. /\ waiting' \in Seq(Reqs) /\ ToSet(waiting) = ToSet(waiting') \cup {r}
        /\ Distinct(waiting) => Distinct(waiting') /\ r \notin ToSet(waiting')
        /\ requests' = requests \ {r} /\ rej' = rej \cup {r}
    BY <1>10, <2>1
  <2>3. QueueTypes'
    BY <1>2, <2>2 DEF SchedTypes, QueueTypes
  <2>4. BookTypes'
    BY <1>2, <2>2 DEF SchedTypes, BookTypes
  <2>5. r \in ToSet(waiting)
    BY <2>2
  <2> QED
    BY <1>1, <1>2, <1>5, <1>6, <1>7, <2>2, <2>3, <2>4, <2>5 DEF SchedTypes
<1> QED
  BY <1>1, <1>9, <1>10

LEMMA TakeMoves ==
  ASSUME SchedTypes, Take
  PROVE  /\ SchedTypes' /\ Room /\ Len(pend) < world.cap /\ At("prefill")' /\ cur' \in Reqs
         /\ Held = {} /\ Held' = {cur'} /\ One = 0 /\ One' = 1
         /\ ToSet(waiting) = ToSet(waiting') \cup {cur'}
         /\ Distinct(waiting) => Distinct(waiting') /\ cur' \notin ToSet(waiting')
         /\ InRound = ToSet(prefilling) /\ InRound' = InRound
         /\ RoundLen = Len(prefilling) /\ RoundLen' = RoundLen /\ RoundDistinct' = RoundDistinct
         /\ InFlight' = InFlight
         /\ UNCHANGED <<running, prefilling, pend, requests, left, serial, aborts, rej, out, asked, gone, told, world,
                        stepFaults, lost>>
<1>1. /\ Room /\ At("admit") /\ waiting # <<>> /\ ~Full
      /\ cur' = waiting[1] /\ waiting' = Tail(waiting) /\ todo' = <<"prefill">> \o todo
      /\ UNCHANGED <<running, prefilling, pend, requests, left, serial, aborts, rej, out, asked, gone, told, world,
                     stepFaults, lost, round, still, nextUid, uidOf>>
  BY DEF Take, Room, Head1, Admitting, batch, stores, env, clients
<1>2. /\ todo \in Plans /\ round = <<>> /\ still = <<>> /\ ~At("chunks") /\ ~At("prefill")
      /\ pend \in Seq([uid : Nat, req : Reqs]) /\ world \in Worlds /\ waiting \in Seq(Reqs)
  BY <1>1 DEF SchedTypes, PlanTypes, BookTypes, QueueTypes, At
<1>3. todo' \in Plans /\ todo'[1] = "prefill"
  BY <1>1, <1>2, Phases DEF At
<1>4. PICK r \in Reqs :
        /\ r = waiting[1] /\ Tail(waiting) \in Seq(Reqs)
        /\ ToSet(waiting) = ToSet(Tail(waiting)) \cup {r}
        /\ Distinct(waiting) => Distinct(Tail(waiting)) /\ r \notin ToSet(Tail(waiting))
  BY <1>1, HeadLeaves
<1>5. /\ cur' = r /\ waiting' \in Seq(Reqs)
      /\ ToSet(waiting) = ToSet(waiting') \cup {r}
      /\ Distinct(waiting) => Distinct(waiting') /\ r \notin ToSet(waiting')
  BY <1>1, <1>4
<1>6. At("prefill")' /\ ~At("chunks")'
  BY <1>3 DEF At
<1>7. PlanTypes'
  BY <1>1, <1>2, <1>3, <1>5, <1>6 DEF PlanTypes
<1>8. QueueTypes'
  BY <1>1, <1>5 DEF SchedTypes, QueueTypes
<1>9. BookTypes'
  BY <1>1, SameBooks DEF SchedTypes
<1>10. Len(pend) \in Nat /\ world.cap \in Nat
  BY <1>2, BasicTypes, LenProperties
<1>11. Len(pend) < world.cap
  BY <1>1, <1>10 DEF Full
<1>12. Held = {} /\ Held' = {cur'} /\ One = 0 /\ One' = 1
  BY <1>2, <1>6 DEF Held, One
<1>13. InRound = ToSet(prefilling) /\ InRound' = InRound /\ RoundLen = Len(prefilling) /\ RoundLen' = RoundLen
  BY <1>1, <1>2, <1>6 DEF InRound, RoundLen
<1>14. RoundDistinct' = RoundDistinct
  BY <1>1, <1>2, <1>6 DEF RoundDistinct
<1>15. InFlight' = InFlight
  BY <1>1 DEF InFlight
<1> QED
  BY <1>1, <1>5, <1>6, <1>7, <1>8, <1>9, <1>11, <1>12, <1>13, <1>14, <1>15 DEF SchedTypes

(* What every end of a prefill has in common.                              *)
PrefillFrame(t) ==
  /\ At("prefill") /\ cur \in Reqs /\ Held = {cur} /\ One = 1
  /\ t \in Plans /\ todo' = t /\ t[1] \in {"admit", "advance", "decode"}
  /\ cur' = None /\ PlanTypes' /\ Held' = {} /\ One' = 0
  /\ ~At("chunks") /\ ~At("idle")' /\ ~At("chunks")' /\ ~At("prefill")'
  /\ round' = round /\ still' = still

LEMMA PrefillEnds ==
  ASSUME SchedTypes, Taken, Then \/ todo' = Tail(Tail(todo))
  PROVE  \E t : PrefillFrame(t)
<1>1. At("prefill") /\ cur' = None /\ round' = round /\ still' = still
  BY DEF Taken
<1>2. todo \in Plans /\ cur \in Reqs /\ ~At("chunks") /\ round = <<>> /\ still = <<>>
  BY <1>1 DEF SchedTypes, PlanTypes, At
<1>3. PICK t \in Plans : t = todo' /\ t[1] \in {"admit", "advance", "decode"}
  <2>1. /\ Tail(todo) \in Plans /\ Tail(todo)[1] = "admit"
        /\ Tail(Tail(todo)) \in Plans /\ Tail(Tail(todo))[1] \in {"advance", "decode"}
    BY <1>1, <1>2, Phases DEF At
  <2> QED
    BY <2>1 DEF Then
<1>4. ~At("idle")' /\ ~At("chunks")' /\ ~At("prefill")'
  BY <1>3 DEF At
<1>5. PlanTypes'
  BY <1>1, <1>2, <1>3, NewPlan
<1>6. Held = {cur} /\ One = 1 /\ Held' = {} /\ One' = 0
  BY <1>1, <1>4 DEF Held, One
<1> QED
  BY <1>1, <1>2, <1>3, <1>4, <1>5, <1>6 DEF PrefillFrame

PrefillCommon ==
  /\ At("prefill") /\ cur \in Reqs /\ Held = {cur} /\ One = 1 /\ Held' = {} /\ One' = 0
  /\ ~At("idle")' /\ ~At("chunks")' /\ ~At("prefill")'
  /\ InRound = ToSet(prefilling) /\ RoundLen = Len(prefilling)
  /\ InRound' = ToSet(prefilling') /\ RoundLen' = Len(prefilling')
  /\ RoundDistinct = Distinct(prefilling) /\ RoundDistinct' = Distinct(prefilling')

LEMMA CommonOfFrame ==
  ASSUME NEW t, PrefillFrame(t)
  PROVE  PrefillCommon /\ PlanTypes'
<1>1. /\ At("prefill") /\ cur \in Reqs /\ Held = {cur} /\ One = 1 /\ Held' = {} /\ One' = 0
      /\ ~At("idle")' /\ ~At("chunks")' /\ ~At("prefill")' /\ ~At("chunks") /\ PlanTypes'
  BY DEF PrefillFrame
<1>2. InRound = ToSet(prefilling) /\ RoundLen = Len(prefilling)
  BY <1>1 DEF InRound, RoundLen
<1>3. InRound' = ToSet(prefilling') /\ RoundLen' = Len(prefilling')
  BY <1>1 DEF InRound, RoundLen
<1>4. RoundDistinct = Distinct(prefilling) /\ RoundDistinct' = Distinct(prefilling')
  BY <1>1, Zenon DEF RoundDistinct
<1> QED
  BY <1>1, <1>2, <1>3, <1>4 DEF PrefillCommon

LEMMA PrefilledMoves ==
  ASSUME SchedTypes, Prefilled, UNCHANGED <<stores, serial, out, clients>>
  PROVE  /\ SchedTypes' /\ PrefillCommon
         /\ ToSet(running') = ToSet(running) \cup {cur} /\ Len(running') <= Len(running) + 1
         /\ Len(running') \in Nat
         /\ Distinct(running) => Distinct(running')
         /\ InFlight' = InFlight
         /\ UNCHANGED <<waiting, prefilling, pend, requests, left, serial, aborts, rej, out, asked, gone, told, world,
                        stepFaults, lost>>
<1>1. PICK t : PrefillFrame(t)
  BY PrefillEnds DEF Prefilled
<1>2. PrefillCommon /\ PlanTypes' /\ cur \in Reqs
  BY <1>1, CommonOfFrame DEF PrefillFrame
<1>3. UNCHANGED <<waiting, prefilling, pend, requests, left, serial, aborts, rej, out, asked, gone, told, world,
                  stepFaults, lost, round, still>>
  BY <1>1 DEF Prefilled, stores, clients, env, PrefillFrame
<1>4. Insert(cur)
  BY DEF Prefilled
<1>5. /\ running' \in Seq(Reqs) /\ ToSet(running') = ToSet(running) \cup {cur}
      /\ Len(running') <= Len(running) + 1 /\ Len(running') \in Nat
      /\ Distinct(running) => Distinct(running')
      /\ nextUid' \in Nat /\ DOMAIN uidOf' \subseteq Reqs /\ \A x \in DOMAIN uidOf' : uidOf'[x] \in Nat
  BY <1>2, <1>4, InsertMoves
<1>6. QueueTypes'
  BY <1>3, <1>5 DEF SchedTypes, QueueTypes
<1>7. BookTypes'
  BY <1>3, <1>5 DEF SchedTypes, BookTypes
<1>8. InFlight' = InFlight
  BY <1>3 DEF InFlight
<1> QED
  BY <1>2, <1>3, <1>5, <1>6, <1>7, <1>8 DEF SchedTypes

LEMMA FirstChunkMoves ==
  ASSUME SchedTypes, FirstChunk, UNCHANGED <<stores, serial, out, clients>>
  PROVE  /\ SchedTypes' /\ PrefillCommon
         /\ ToSet(prefilling') = ToSet(prefilling) \cup {cur} /\ Len(prefilling') = Len(prefilling) + 1
         /\ Distinct(prefilling) /\ cur \notin ToSet(prefilling) => Distinct(prefilling')
         /\ left'[cur] > 0 /\ \A r \in Reqs \ {cur} : left'[r] = left[r]
         /\ InFlight' = InFlight
         /\ UNCHANGED <<waiting, running, pend, requests, serial, aborts, rej, out, asked, gone, told, world,
                        stepFaults, lost>>
<1>1. PICK t : PrefillFrame(t)
  BY PrefillEnds DEF FirstChunk
<1>2. PrefillCommon /\ PlanTypes' /\ cur \in Reqs
  BY <1>1, CommonOfFrame DEF PrefillFrame
<1>3. /\ UNCHANGED <<waiting, running, pend, requests, serial, aborts, rej, out, asked, gone, told, world,
                     stepFaults, lost, round, still, nextUid, uidOf>>
      /\ prefilling' = Append(prefilling, cur)
  BY <1>1 DEF FirstChunk, batch, stores, clients, env, PrefillFrame
<1>4. PICK n \in 1..(world.chunks - 1) : left' = [left EXCEPT ![cur] = n]
  BY DEF FirstChunk
<1>5. prefilling \in Seq(Reqs) /\ left \in [Reqs -> Nat]
  BY DEF SchedTypes, QueueTypes, BookTypes
<1>6. /\ prefilling' \in Seq(Reqs) /\ ToSet(prefilling') = ToSet(prefilling) \cup {cur}
      /\ Len(prefilling') = Len(prefilling) + 1
      /\ Distinct(prefilling) /\ cur \notin ToSet(prefilling) => Distinct(prefilling')
  BY <1>2, <1>3, <1>5, AppendSet
<1>7. n \in Nat /\ n > 0
  BY SchedulerAssumption
<1>8. left' \in [Reqs -> Nat] /\ left'[cur] > 0 /\ \A r \in Reqs \ {cur} : left'[r] = left[r]
  BY <1>2, <1>4, <1>5, <1>7
<1>9. QueueTypes'
  BY <1>3, <1>6 DEF SchedTypes, QueueTypes
<1>10. BookTypes'
  BY <1>3, <1>8 DEF SchedTypes, BookTypes
<1>11. InFlight' = InFlight
  BY <1>3 DEF InFlight
<1> QED
  BY <1>2, <1>3, <1>6, <1>8, <1>9, <1>10, <1>11 DEF SchedTypes

LEMMA PrefillFailsMoves ==
  ASSUME SchedTypes, PrefillFails, UNCHANGED <<stores, serial, out, clients>>
  PROVE  /\ SchedTypes' /\ PrefillCommon
         /\ \/ /\ ToSet(waiting') = {cur} \cup ToSet(waiting)
               /\ Distinct(waiting) /\ cur \notin ToSet(waiting) => Distinct(waiting')
               /\ requests' = requests \cup {cur} /\ rej' = rej
            \/ waiting' = waiting /\ requests' = requests \ {cur} /\ rej' = rej \cup {cur}
         /\ stepFaults' = stepFaults + 1
         /\ InFlight' = InFlight
         /\ UNCHANGED <<prefilling, running, pend, left, serial, aborts, out, asked, gone, told, world, lost>>
<1>1. PICK t : PrefillFrame(t)
  BY PrefillEnds DEF PrefillFails
<1>2. PrefillCommon /\ PlanTypes' /\ cur \in Reqs
  BY <1>1, CommonOfFrame DEF PrefillFrame
<1>3. UNCHANGED <<prefilling, running, pend, left, serial, aborts, out, asked, gone, told, round, still, nextUid, uidOf>>
  BY <1>1 DEF PrefillFails, batch, stores, clients, PrefillFrame
<1>4. /\ \/ /\ waiting' \in Seq(Reqs)
            /\ ToSet(waiting') = {cur} \cup ToSet(waiting)
            /\ Distinct(waiting) /\ cur \notin ToSet(waiting) => Distinct(waiting')
            /\ requests' = requests \cup {cur} /\ rej' = rej
         \/ waiting' = waiting /\ requests' = requests \ {cur} /\ rej' = rej \cup {cur}
      /\ stepFaults' = stepFaults + 1 /\ world' = world /\ lost' = lost
  <2>1. CASE Requeue(cur)
    BY <1>2, <2>1, RequeueMoves
  <2>2. CASE Reject(cur)
    BY <1>2, <2>2, RejectMoves
  <2> QED
    BY <2>1, <2>2 DEF PrefillFails
<1>5. waiting' \in Seq(Reqs) /\ requests' \subseteq Reqs /\ stepFaults' \in Nat
  BY <1>2, <1>4 DEF SchedTypes, QueueTypes, BookTypes
<1>6. QueueTypes'
  BY <1>3, <1>5 DEF SchedTypes, QueueTypes
<1>7. BookTypes'
  BY <1>3, <1>4, <1>5 DEF SchedTypes, BookTypes
<1>8. InFlight' = InFlight
  BY <1>3 DEF InFlight
<1> QED
  BY <1>2, <1>3, <1>4, <1>6, <1>7, <1>8 DEF SchedTypes

LEMMA PrefillPausedMoves ==
  ASSUME SchedTypes, PrefillPaused, UNCHANGED <<stores, serial, out, clients>>
  PROVE  /\ SchedTypes' /\ PrefillCommon
         /\ ToSet(waiting') = {cur} \cup ToSet(waiting)
         /\ Distinct(waiting) /\ cur \notin ToSet(waiting) => Distinct(waiting')
         /\ stepFaults' = stepFaults + 1
         /\ InFlight' = InFlight
         /\ UNCHANGED <<prefilling, running, pend, requests, left, serial, aborts, rej, out, asked, gone, told, world, lost>>
<1>1. PICK t : PrefillFrame(t)
  BY PrefillEnds DEF PrefillPaused
<1>2. PrefillCommon /\ PlanTypes' /\ cur \in Reqs
  BY <1>1, CommonOfFrame DEF PrefillFrame
<1>3. /\ UNCHANGED <<prefilling, running, pend, requests, left, serial, aborts, rej, out, asked, gone, told, world, lost,
                     round, still, nextUid, uidOf>>
      /\ waiting' = <<cur>> \o waiting /\ stepFaults' = stepFaults + 1
  BY <1>1 DEF PrefillPaused, Fault, Strikes, batch, stores, clients, PrefillFrame
<1>4. waiting \in Seq(Reqs) /\ stepFaults \in Nat
  BY DEF SchedTypes, QueueTypes, BookTypes
<1>5. /\ waiting' \in Seq(Reqs) /\ ToSet(waiting') = {cur} \cup ToSet(waiting)
      /\ Distinct(waiting) /\ cur \notin ToSet(waiting) => Distinct(waiting')
  BY <1>2, <1>3, <1>4, FrontSet
<1>6. QueueTypes'
  BY <1>3, <1>5 DEF SchedTypes, QueueTypes
<1>7. BookTypes'
  BY <1>3, <1>4 DEF SchedTypes, BookTypes
<1>8. InFlight' = InFlight
  BY <1>3 DEF InFlight
<1> QED
  BY <1>2, <1>3, <1>5, <1>6, <1>7, <1>8 DEF SchedTypes

LEMMA PrefillAbortedMoves ==
  ASSUME SchedTypes, PrefillAborted, UNCHANGED <<stores, serial, out, clients>>
  PROVE  /\ SchedTypes' /\ PrefillCommon
         /\ cur \in aborts /\ aborts' = aborts \ {cur} /\ requests' = requests \ {cur}
         /\ InFlight' = InFlight
         /\ UNCHANGED <<waiting, prefilling, running, pend, left, serial, rej, out, asked, gone, told, world, stepFaults, lost>>
<1>1. PICK t : PrefillFrame(t)
  BY PrefillEnds DEF PrefillAborted
<1>2. PrefillCommon /\ PlanTypes' /\ cur \in Reqs
  BY <1>1, CommonOfFrame DEF PrefillFrame
<1>3. /\ UNCHANGED <<waiting, prefilling, running, pend, left, serial, rej, out, asked, gone, told, world, stepFaults, lost,
                     round, still, nextUid, uidOf>>
      /\ cur \in aborts /\ aborts' = aborts \ {cur} /\ requests' = requests \ {cur}
  BY <1>1 DEF PrefillAborted, batch, stores, clients, env, PrefillFrame
<1>4. QueueTypes'
  BY <1>3, SameQueues DEF SchedTypes
<1>5. BookTypes'
  BY <1>3 DEF SchedTypes, BookTypes
<1>6. InFlight' = InFlight
  BY <1>3 DEF InFlight
<1> QED
  BY <1>2, <1>3, <1>4, <1>5, <1>6 DEF SchedTypes

-----------------------------------------------------------------------------
(* A round of chunks.                                                      *)
AdvanceFrame == UNCHANGED <<stores, aborts, serial, admitNext, blocked, todo, out, clients>>
InChunks ==
  /\ At("chunks") /\ At("chunks")' /\ ~At("idle")' /\ ~At("prefill")' /\ ~At("prefill") /\ todo' = todo /\ cur' = cur
  /\ Held = {} /\ Held' = {} /\ One = 0 /\ One' = 0
  /\ InRound = ToSet(round) \cup ToSet(still) /\ RoundLen = Len(round) + Len(still)

LEMMA InChunksHolds ==
  ASSUME SchedTypes, At("chunks"), todo' = todo, cur' = cur
  PROVE  InChunks /\ PlanTypes'
<1>1. At("chunks")' /\ ~At("idle")' /\ ~At("prefill")' /\ ~At("prefill")
  BY DEF At
<1>2. Held = {} /\ Held' = {} /\ One = 0 /\ One' = 0
  BY <1>1 DEF Held, One
<1>3. InRound = ToSet(round) \cup ToSet(still) /\ RoundLen = Len(round) + Len(still)
  BY DEF InRound, RoundLen
<1>4. todo \in Plans /\ cur = None
  BY <1>1 DEF SchedTypes, PlanTypes
<1>5. PlanTypes'
  BY <1>1, <1>4 DEF PlanTypes
<1> QED
  BY <1>1, <1>2, <1>3, <1>5 DEF InChunks

Leaves(c) ==
  /\ c = round[1] /\ c \in Reqs /\ c \in InRound
  /\ round' \in Seq(Reqs) /\ still' \in Seq(Reqs)
  /\ InRound = InRound' \cup {c} /\ RoundLen = RoundLen' + 1
  /\ RoundDistinct => RoundDistinct' /\ c \notin InRound'
  /\ RoundLen \in Nat /\ RoundLen' \in Nat

LEMMA ChunkLeaves ==
  ASSUME SchedTypes, At("chunks"), At("chunks")', round # <<>>, round' = Tail(round), still' = still
  PROVE  Leaves(Chunk)
<1>1. round \in Seq(Reqs) /\ still \in Seq(Reqs)
  BY DEF SchedTypes, QueueTypes
<1>2. PICK c : c = Chunk
  OBVIOUS
<1>3. /\ round' \in Seq(Reqs) /\ c \in Reqs /\ ToSet(round) = ToSet(round') \cup {c}
      /\ Len(round') = Len(round) - 1
      /\ Distinct(round) => Distinct(round') /\ c \notin ToSet(round')
  BY <1>1, <1>2, TailSet DEF Chunk
<1>4. Len(round) \in Nat /\ Len(still) \in Nat /\ Len(round') \in Nat
  BY <1>1, <1>3, LenProperties
<1>5. InRound = InRound' \cup {c} /\ c \in InRound
  BY <1>3 DEF InRound
<1>6. RoundLen = RoundLen' + 1 /\ RoundLen \in Nat /\ RoundLen' \in Nat
  BY <1>3, <1>4 DEF RoundLen
<1>7. RoundDistinct => RoundDistinct' /\ c \notin InRound'
  BY <1>3 DEF RoundDistinct, InRound
<1> QED
  BY <1>1, <1>2, <1>3, <1>5, <1>6, <1>7 DEF Leaves, Chunk

Stays ==
  /\ round' \in Seq(Reqs) /\ still' \in Seq(Reqs)
  /\ InRound' = InRound /\ RoundLen' = RoundLen /\ RoundLen \in Nat
  /\ RoundDistinct => RoundDistinct'

LEMMA ChunkStays ==
  ASSUME SchedTypes, At("chunks"), At("chunks")',
         \/ round # <<>> /\ round' = Tail(round) /\ still' = Append(still, Chunk)
         \/ round' = <<>> /\ still' = still \o round
         \/ round' = <<>> /\ still' = round \o still
  PROVE  Stays
<1>1. round \in Seq(Reqs) /\ still \in Seq(Reqs) /\ Len(round) \in Nat /\ Len(still) \in Nat
  BY LenProperties DEF SchedTypes, QueueTypes
<1>2. /\ InRound = ToSet(round) \cup ToSet(still) /\ InRound' = ToSet(round') \cup ToSet(still')
      /\ RoundLen = Len(round) + Len(still) /\ RoundLen' = Len(round') + Len(still')
  BY DEF InRound, RoundLen
<1>3. /\ RoundDistinct => Distinct(round) /\ Distinct(still) /\ ToSet(round) \cap ToSet(still) = {}
      /\ Distinct(round') /\ Distinct(still') /\ ToSet(round') \cap ToSet(still') = {} => RoundDistinct'
  BY DEF RoundDistinct
<1>4. CASE round # <<>> /\ round' = Tail(round) /\ still' = Append(still, Chunk)
  <2>1. PICK c : c = Chunk
    OBVIOUS
  <2>2. /\ round' \in Seq(Reqs) /\ c \in Reqs /\ ToSet(round) = ToSet(round') \cup {c}
        /\ Len(round') = Len(round) - 1
        /\ Distinct(round) => Distinct(round') /\ c \notin ToSet(round')
    BY <1>1, <1>4, <2>1, TailSet DEF Chunk
  <2>3. still' = Append(still, c)
    BY <1>4, <2>1
  <2>4. /\ still' \in Seq(Reqs) /\ ToSet(still') = ToSet(still) \cup {c}
        /\ Len(still') = Len(still) + 1
        /\ Distinct(still) /\ c \notin ToSet(still) => Distinct(still')
    BY <1>1, <2>2, <2>3, AppendSet
  <2>5. InRound' = InRound
    BY <1>2, <2>2, <2>4
  <2>6. RoundLen' = RoundLen /\ RoundLen \in Nat
    BY <1>1, <1>2, <2>2, <2>4
  <2>7. RoundDistinct => RoundDistinct'
    BY <1>3, <2>2, <2>4
  <2> QED
    BY <2>2, <2>4, <2>5, <2>6, <2>7 DEF Stays
<1>5. CASE round' = <<>> /\ still' \in {still \o round, round \o still}
  <2>1. /\ still' \in Seq(Reqs) /\ ToSet(still') = ToSet(still) \cup ToSet(round)
        /\ Len(still') = Len(still) + Len(round)
        /\ Distinct(still) /\ Distinct(round) /\ ToSet(round) \cap ToSet(still) = {} => Distinct(still')
    <3>1. CASE still' = still \o round
      <4>1. /\ still \o round \in Seq(Reqs) /\ ToSet(still \o round) = ToSet(still) \cup ToSet(round)
            /\ Len(still \o round) = Len(still) + Len(round)
            /\ Distinct(still) /\ Distinct(round) /\ ToSet(still) \cap ToSet(round) = {} => Distinct(still \o round)
        BY <1>1, ConcatSet
      <4> QED
        BY <3>1, <4>1
    <3>2. CASE still' = round \o still
      <4>1. /\ round \o still \in Seq(Reqs) /\ ToSet(round \o still) = ToSet(round) \cup ToSet(still)
            /\ Len(round \o still) = Len(round) + Len(still)
            /\ Distinct(round) /\ Distinct(still) /\ ToSet(round) \cap ToSet(still) = {} => Distinct(round \o still)
        BY <1>1, ConcatSet
      <4>2. Len(round) + Len(still) = Len(still) + Len(round)
        BY <1>1
      <4> QED
        BY <3>2, <4>1, <4>2
    <3> QED
      BY <1>5, <3>1, <3>2
  <2>2. round' \in Seq(Reqs) /\ Len(round') = 0 /\ ToSet(round') = {} /\ Distinct(round')
    BY <1>5, QueuesEmpty
  <2>3. InRound' = InRound
    BY <1>2, <2>1, <2>2
  <2>4. RoundLen' = RoundLen /\ RoundLen \in Nat
    BY <1>1, <1>2, <2>1, <2>2
  <2>5. RoundDistinct => RoundDistinct'
    BY <1>3, <2>1, <2>2
  <2> QED
    BY <2>1, <2>2, <2>3, <2>4, <2>5 DEF Stays
<1> QED
  BY <1>4, <1>5

LEMMA ChunkRunsMoves ==
  ASSUME SchedTypes, ChunkRuns, AdvanceFrame
  PROVE  /\ SchedTypes' /\ InChunks /\ Stays /\ InFlight' = InFlight
         /\ Chunk \in Reqs /\ left'[Chunk] > 0 /\ \A r \in Reqs \ {Chunk} : left'[r] = left[r]
         /\ UNCHANGED <<waiting, prefilling, running, pend, requests, serial, aborts, rej, out, asked, gone, told, world,
                        stepFaults, lost>>
<1>1. /\ At("chunks") /\ todo' = todo /\ cur' = cur /\ round # <<>> /\ left[Chunk] > 1
      /\ round' = Tail(round) /\ still' = Append(still, Chunk) /\ left' = [left EXCEPT ![Chunk] = @ - 1]
      /\ UNCHANGED <<waiting, prefilling, running, pend, requests, serial, aborts, rej, out, asked, gone, told, world,
                     stepFaults, lost, nextUid, uidOf>>
  BY DEF ChunkRuns, ChunkDue, Advancing, AdvanceFrame, stores, clients, env, batch
<1>2. InChunks /\ PlanTypes'
  BY <1>1, InChunksHolds
<1>3. Stays
  BY <1>1, <1>2, ChunkStays DEF InChunks
<1>4. round \in Seq(Reqs) /\ left \in [Reqs -> Nat]
  BY DEF SchedTypes, QueueTypes, BookTypes
<1>5. Chunk \in Reqs
  BY <1>1, <1>4, TailSet DEF Chunk
<1>6. left' \in [Reqs -> Nat] /\ left'[Chunk] > 0 /\ \A r \in Reqs \ {Chunk} : left'[r] = left[r]
  BY <1>1, <1>4, <1>5
<1>7. QueueTypes'
  BY <1>1, <1>3 DEF SchedTypes, QueueTypes, Stays
<1>8. BookTypes'
  BY <1>1, <1>6 DEF SchedTypes, BookTypes
<1>9. InFlight' = InFlight
  BY <1>1 DEF InFlight
<1> QED
  BY <1>1, <1>2, <1>3, <1>5, <1>6, <1>7, <1>8, <1>9 DEF SchedTypes

LEMMA ChunkEndsMoves ==
  ASSUME SchedTypes, ChunkEnds, AdvanceFrame
  PROVE  /\ SchedTypes' /\ InChunks /\ Leaves(Chunk) /\ InFlight' = InFlight
         /\ ToSet(running') = ToSet(running) \cup {Chunk} /\ Len(running') <= Len(running) + 1
         /\ Len(running') \in Nat /\ (Distinct(running) => Distinct(running'))
         /\ left' = [left EXCEPT ![Chunk] = 0]
         /\ UNCHANGED <<waiting, prefilling, pend, requests, serial, aborts, rej, out, asked, gone, told, world,
                        stepFaults, lost>>
<1>1. /\ At("chunks") /\ todo' = todo /\ cur' = cur /\ round # <<>> /\ Insert(Chunk)
      /\ round' = Tail(round) /\ still' = still /\ left' = [left EXCEPT ![Chunk] = 0]
      /\ UNCHANGED <<waiting, prefilling, pend, requests, serial, aborts, rej, out, asked, gone, told, world,
                     stepFaults, lost>>
  BY DEF ChunkEnds, ChunkDue, Advancing, AdvanceFrame, stores, clients, env
<1>2. InChunks /\ PlanTypes'
  BY <1>1, InChunksHolds
<1>3. Leaves(Chunk)
  BY <1>1, <1>2, ChunkLeaves DEF InChunks
<1>4. Chunk \in Reqs
  BY <1>3 DEF Leaves
<1>5. /\ running' \in Seq(Reqs) /\ ToSet(running') = ToSet(running) \cup {Chunk}
      /\ Len(running') <= Len(running) + 1 /\ Len(running') \in Nat
      /\ Distinct(running) => Distinct(running')
      /\ nextUid' \in Nat /\ DOMAIN uidOf' \subseteq Reqs /\ \A x \in DOMAIN uidOf' : uidOf'[x] \in Nat
  BY <1>1, <1>4, InsertMoves
<1>6. left' \in [Reqs -> Nat]
  BY <1>1, <1>4 DEF SchedTypes, BookTypes
<1>7. QueueTypes'
  BY <1>1, <1>3, <1>5 DEF SchedTypes, QueueTypes, Leaves
<1>8. BookTypes'
  BY <1>1, <1>5, <1>6 DEF SchedTypes, BookTypes
<1>9. InFlight' = InFlight
  BY <1>1 DEF InFlight
<1> QED
  BY <1>1, <1>2, <1>3, <1>5, <1>7, <1>8, <1>9 DEF SchedTypes

LEMMA ChunkFailsMoves ==
  ASSUME SchedTypes, ChunkFails, AdvanceFrame
  PROVE  /\ SchedTypes' /\ InChunks /\ Leaves(Chunk) /\ InFlight' = InFlight
         /\ \/ /\ ToSet(waiting') = {Chunk} \cup ToSet(waiting)
               /\ Distinct(waiting) /\ Chunk \notin ToSet(waiting) => Distinct(waiting')
               /\ requests' = requests \cup {Chunk} /\ rej' = rej
            \/ waiting' = waiting /\ requests' = requests \ {Chunk} /\ rej' = rej \cup {Chunk}
         /\ stepFaults' = stepFaults + 1
         /\ left' = [left EXCEPT ![Chunk] = 0]
         /\ UNCHANGED <<prefilling, running, pend, serial, aborts, out, asked, gone, told, world, lost>>
<1>1. /\ At("chunks") /\ todo' = todo /\ cur' = cur /\ round # <<>> /\ (Requeue(Chunk) \/ Reject(Chunk))
      /\ round' = Tail(round) /\ still' = still /\ left' = [left EXCEPT ![Chunk] = 0]
      /\ UNCHANGED <<prefilling, running, pend, serial, aborts, out, asked, gone, told, nextUid, uidOf>>
  BY DEF ChunkFails, ChunkDue, Advancing, AdvanceFrame, stores, clients, batch
<1>2. InChunks /\ PlanTypes'
  BY <1>1, InChunksHolds
<1>3. Leaves(Chunk)
  BY <1>1, <1>2, ChunkLeaves DEF InChunks
<1>4. Chunk \in Reqs
  BY <1>3 DEF Leaves
<1>5. /\ \/ /\ waiting' \in Seq(Reqs)
            /\ ToSet(waiting') = {Chunk} \cup ToSet(waiting)
            /\ Distinct(waiting) /\ Chunk \notin ToSet(waiting) => Distinct(waiting')
            /\ requests' = requests \cup {Chunk} /\ rej' = rej
         \/ waiting' = waiting /\ requests' = requests \ {Chunk} /\ rej' = rej \cup {Chunk}
      /\ stepFaults' = stepFaults + 1 /\ world' = world /\ lost' = lost
  <2>1. CASE Requeue(Chunk)
    BY <1>4, <2>1, RequeueMoves
  <2>2. CASE Reject(Chunk)
    BY <1>4, <2>2, RejectMoves
  <2> QED
    BY <1>1, <2>1, <2>2
<1>6. waiting' \in Seq(Reqs) /\ requests' \subseteq Reqs /\ stepFaults' \in Nat /\ left' \in [Reqs -> Nat]
  BY <1>1, <1>4, <1>5 DEF SchedTypes, QueueTypes, BookTypes
<1>7. QueueTypes'
  BY <1>1, <1>3, <1>6 DEF SchedTypes, QueueTypes, Leaves
<1>8. BookTypes'
  BY <1>1, <1>5, <1>6 DEF SchedTypes, BookTypes
<1>9. InFlight' = InFlight
  BY <1>1 DEF InFlight
<1> QED
  BY <1>1, <1>2, <1>3, <1>5, <1>7, <1>8, <1>9 DEF SchedTypes

LEMMA ChunkGoneMoves ==
  ASSUME SchedTypes, ChunkGone, AdvanceFrame
  PROVE  /\ SchedTypes' /\ InChunks /\ Leaves(Chunk) /\ InFlight' = InFlight /\ left[Chunk] = 0
         /\ UNCHANGED <<waiting, prefilling, running, pend, requests, left, serial, aborts, rej, out, asked, gone, told,
                        world, stepFaults, lost>>
<1>1. /\ At("chunks") /\ todo' = todo /\ cur' = cur /\ round # <<>> /\ left[Chunk] = 0
      /\ round' = Tail(round) /\ still' = still
      /\ UNCHANGED <<waiting, prefilling, running, pend, requests, left, serial, aborts, rej, out, asked, gone, told,
                     world, stepFaults, lost, nextUid, uidOf>>
  BY DEF ChunkGone, Advancing, AdvanceFrame, stores, clients, env, batch, queues
<1>2. InChunks /\ PlanTypes'
  BY <1>1, InChunksHolds
<1>3. Leaves(Chunk)
  BY <1>1, <1>2, ChunkLeaves DEF InChunks
<1>4. QueueTypes'
  BY <1>1, <1>3 DEF SchedTypes, QueueTypes, Leaves
<1>5. BookTypes'
  BY <1>1, SameBooks DEF SchedTypes
<1>6. InFlight' = InFlight
  BY <1>1 DEF InFlight
<1> QED
  BY <1>1, <1>2, <1>3, <1>4, <1>5, <1>6 DEF SchedTypes

ChunkHeld == ChunkPaused \/ ChunkDeferred
LEMMA ChunkHeldMoves ==
  ASSUME SchedTypes, ChunkHeld, AdvanceFrame
  PROVE  /\ SchedTypes' /\ InChunks /\ Stays /\ InFlight' = InFlight
         /\ stepFaults' \in {stepFaults, stepFaults + 1}
         /\ UNCHANGED <<waiting, prefilling, running, pend, requests, left, serial, aborts, rej, out, asked, gone, told,
                        world, lost>>
<1>1. /\ At("chunks") /\ todo' = todo /\ cur' = cur
      /\ round' = <<>> /\ still' \in {still \o round, round \o still}
      /\ stepFaults' \in {stepFaults, stepFaults + 1}
      /\ UNCHANGED <<waiting, prefilling, running, pend, requests, left, serial, aborts, rej, out, asked, gone, told,
                     world, lost, nextUid, uidOf>>
  <2>1. CASE ChunkPaused
    BY <2>1 DEF ChunkPaused, ChunkDue, Fault, Strikes, Advancing, AdvanceFrame, stores, clients, batch, queues
  <2>2. CASE ChunkDeferred
    BY <2>2 DEF ChunkDeferred, Advancing, AdvanceFrame, stores, clients, env, batch, queues
  <2> QED
    BY <2>1, <2>2 DEF ChunkHeld
<1>2. InChunks /\ PlanTypes'
  BY <1>1, InChunksHolds
<1>3. Stays
  BY <1>1, <1>2, ChunkStays DEF InChunks
<1>4. QueueTypes'
  BY <1>1, <1>3 DEF SchedTypes, QueueTypes, Stays
<1>5. BookTypes'
  BY <1>1 DEF SchedTypes, BookTypes
<1>6. InFlight' = InFlight
  BY <1>1 DEF InFlight
<1> QED
  BY <1>1, <1>2, <1>3, <1>4, <1>5, <1>6 DEF SchedTypes

LEMMA StartAdvanceMoves ==
  ASSUME SchedTypes, StartAdvance
  PROVE  /\ SchedTypes' /\ ~At("idle")' /\ ~At("prefill")' /\ At("chunks")' /\ ~At("chunks") /\ ~At("prefill")
         /\ Held' = Held /\ One' = One /\ InRound' = InRound /\ RoundLen' = RoundLen
         /\ InRound = ToSet(prefilling) /\ (RoundDistinct => RoundDistinct') /\ InFlight' = InFlight
         /\ UNCHANGED <<waiting, prefilling, running, pend, requests, left, serial, aborts, rej, out, asked, gone, told,
                        world, stepFaults, lost>>
<1>1. /\ At("advance") /\ round' = prefilling /\ still' = still /\ cur' = cur /\ Then
      /\ UNCHANGED <<waiting, prefilling, running, pend, requests, left, serial, aborts, rej, out, asked, gone, told,
                     world, stepFaults, lost, nextUid, uidOf>>
  BY DEF StartAdvance, stores, clients, env, batch, queues, retry
<1>2. todo \in Plans /\ cur = None /\ still = <<>> /\ ~At("chunks") /\ ~At("prefill")
  BY <1>1 DEF SchedTypes, PlanTypes, At
<1>3. PICK t \in Plans : t = todo' /\ t[1] = "chunks"
  BY <1>1, <1>2, Phases DEF At, Then
<1>4. ~At("idle")' /\ ~At("prefill")' /\ At("chunks")'
  BY <1>3 DEF At
<1>5. PlanTypes'
  BY <1>1, <1>2, <1>3, NewPlan
<1>6. QueueTypes'
  BY <1>1 DEF SchedTypes, QueueTypes
<1>7. BookTypes'
  BY <1>1, SameBooks DEF SchedTypes
<1>8. prefilling \in Seq(Reqs) /\ Len(prefilling) \in Nat
  BY LenProperties DEF SchedTypes, QueueTypes
<1>9. still' = <<>> /\ ToSet(still') = {} /\ Len(still') = 0 /\ Distinct(still')
  BY <1>1, <1>2, QueuesEmpty
<1>10. InRound' = InRound /\ InRound = ToSet(prefilling)
  BY <1>1, <1>2, <1>4, <1>9 DEF InRound
<1>11. RoundLen' = RoundLen
  BY <1>1, <1>2, <1>4, <1>8, <1>9 DEF RoundLen
<1>12. RoundDistinct => RoundDistinct'
  BY <1>1, <1>2, <1>4, <1>9 DEF RoundDistinct
<1>13. Held' = Held /\ One' = One
  BY <1>2, <1>4 DEF Held, One
<1>14. InFlight' = InFlight
  BY <1>1 DEF InFlight
<1> QED
  BY <1>1, <1>2, <1>4, <1>5, <1>6, <1>7, <1>10, <1>11, <1>12, <1>13, <1>14 DEF SchedTypes

LEMMA AdvanceDoneMoves ==
  ASSUME SchedTypes, AdvanceDone
  PROVE  /\ SchedTypes' /\ ~At("idle")' /\ ~At("prefill")' /\ ~At("chunks")' /\ At("chunks")
         /\ Held' = Held /\ One' = One /\ InRound' = InRound /\ RoundLen' = RoundLen
         /\ InRound' = ToSet(prefilling') /\ (RoundDistinct => RoundDistinct') /\ InFlight' = InFlight
         /\ UNCHANGED <<waiting, running, pend, requests, left, serial, aborts, rej, out, asked, gone, told,
                        world, stepFaults, lost>>
<1>1. /\ At("chunks") /\ prefilling' = still /\ still' = <<>> /\ round = <<>> /\ round' = round /\ cur' = cur /\ Then
      /\ UNCHANGED <<waiting, running, pend, requests, left, serial, aborts, rej, out, asked, gone, told,
                     world, stepFaults, lost, nextUid, uidOf>>
  BY DEF AdvanceDone, stores, clients, env, batch, retry
<1>2. todo \in Plans /\ cur = None /\ ~At("prefill")
  BY <1>1 DEF SchedTypes, PlanTypes, At
<1>3. PICK t \in Plans : t = todo' /\ t[1] \in {"admit", "decode"}
  BY <1>1, <1>2, Phases DEF At, Then
<1>4. ~At("idle")' /\ ~At("prefill")' /\ ~At("chunks")'
  BY <1>3 DEF At
<1>5. PlanTypes'
  BY <1>1, <1>2, <1>3, NewPlan
<1>6. still \in Seq(Reqs) /\ Len(still) \in Nat
  BY LenProperties DEF SchedTypes, QueueTypes
<1>7. ToSet(round) = {} /\ Len(round) = 0 /\ <<>> \in Seq(Reqs)
  BY <1>1, QueuesEmpty
<1>8. QueueTypes'
  BY <1>1, <1>6, <1>7 DEF SchedTypes, QueueTypes
<1>9. BookTypes'
  BY <1>1, SameBooks DEF SchedTypes
<1>10. InRound' = InRound /\ InRound' = ToSet(prefilling')
  BY <1>1, <1>4, <1>7 DEF InRound
<1>11. RoundLen' = RoundLen
  BY <1>1, <1>4, <1>6, <1>7 DEF RoundLen
<1>12. RoundDistinct => RoundDistinct'
  BY <1>1, <1>4 DEF RoundDistinct
<1>13. Held' = Held /\ One' = One
  BY <1>2, <1>4 DEF Held, One
<1>14. InFlight' = InFlight
  BY <1>1 DEF InFlight
<1> QED
  BY <1>1, <1>4, <1>5, <1>8, <1>9, <1>10, <1>11, <1>12, <1>13, <1>14 DEF SchedTypes

-----------------------------------------------------------------------------
(* Steps outside a round and outside a prefill.                            *)
Outside ==
  /\ ~At("chunks") /\ ~At("chunks")' /\ ~At("prefill") /\ ~At("prefill")'
  /\ Held = {} /\ Held' = {} /\ One = 0 /\ One' = 0
  /\ InRound = ToSet(prefilling) /\ InRound' = ToSet(prefilling')
  /\ RoundLen = Len(prefilling) /\ RoundLen' = Len(prefilling')
  /\ RoundDistinct = Distinct(prefilling) /\ RoundDistinct' = Distinct(prefilling')

LEMMA OutsideHolds ==
  ASSUME ~At("chunks"), ~At("chunks")', ~At("prefill"), ~At("prefill")'
  PROVE  Outside
<1>1. Held = {} /\ Held' = {} /\ One = 0 /\ One' = 0
  BY DEF Held, One
<1>2. InRound = ToSet(prefilling) /\ InRound' = ToSet(prefilling')
  BY DEF InRound
<1>3. RoundLen = Len(prefilling) /\ RoundLen' = Len(prefilling')
  BY DEF RoundLen
<1>4. RoundDistinct = Distinct(prefilling) /\ RoundDistinct' = Distinct(prefilling')
  BY Zenon DEF RoundDistinct
<1> QED
  BY <1>1, <1>2, <1>3, <1>4 DEF Outside

InFlightNext == {pend'[i].req : i \in 1..Len(pend')}
LEMMA InFlightPrimed == InFlight' = InFlightNext
  BY DEF InFlight, InFlightNext

LEMMA AbortKnownMoves ==
  ASSUME SchedTypes, NEW r \in Reqs, ProcessAbort(r), AbortKnown(r)
  PROVE  /\ SchedTypes' /\ Outside /\ ~At("idle")' /\ r \in aborts /\ aborts' = aborts \ {r}
         /\ r \in requests \ InFlight
         /\ InFlight' = InFlight
         /\ ToSet(waiting') \subseteq ToSet(waiting) /\ ToSet(waiting) \subseteq ToSet(waiting') \cup {r}
         /\ Distinct(waiting) => /\ Distinct(waiting')
                                 /\ r \notin ToSet(running) => r \notin ToSet(waiting')
         /\ ToSet(running') = ToSet(running) \ {r}
         /\ Distinct(running) => Distinct(running')
         /\ Len(running') <= Len(running) /\ Len(running') \in Nat
         /\ Len(prefilling') <= Len(prefilling) /\ Len(prefilling') \in Nat
         /\ ToSet(prefilling') = IF left[r] > 0 THEN ToSet(prefilling) \ {r} ELSE ToSet(prefilling)
         /\ Distinct(prefilling) => Distinct(prefilling')
         /\ left' = [left EXCEPT ![r] = 0] /\ requests' = requests \ {r}
         /\ UNCHANGED <<pend, serial, rej, out, asked, gone, told, world, stepFaults, lost>>
<1>1. /\ At("aborts") /\ todo' = todo /\ cur' = cur /\ round' = round /\ still' = still /\ Removed(r)
      /\ r \in aborts /\ aborts' = aborts \ {r} /\ r \in requests \ InFlight
      /\ uidOf' = Drop(uidOf, {r})
      /\ UNCHANGED <<pend, serial, rej, out, asked, gone, told, world, stepFaults, lost, nextUid>>
  BY DEF ProcessAbort, AbortKnown, stores, env, clients, loop, retry
<1>2. ~At("chunks") /\ ~At("chunks")' /\ ~At("prefill") /\ ~At("prefill")' /\ ~At("idle")'
  BY <1>1 DEF At
<1>3. Outside
  BY <1>2, OutsideHolds
<1>4. PlanTypes'
  BY <1>1, SamePlan DEF SchedTypes
<1>5. /\ waiting' \in Seq(Reqs) /\ ToSet(waiting') \subseteq ToSet(waiting)
      /\ ToSet(waiting) \subseteq ToSet(waiting') \cup {r}
      /\ Distinct(waiting) => /\ Distinct(waiting')
                              /\ r \notin ToSet(running) => r \notin ToSet(waiting')
      /\ running' \in Seq(Reqs) /\ ToSet(running') = ToSet(running) \ {r}
      /\ Distinct(running) => Distinct(running')
      /\ Len(running') <= Len(running) /\ Len(running') \in Nat
      /\ prefilling' \in Seq(Reqs) /\ Len(prefilling') <= Len(prefilling) /\ Len(prefilling') \in Nat
      /\ ToSet(prefilling') = IF left[r] > 0 THEN ToSet(prefilling) \ {r} ELSE ToSet(prefilling)
      /\ Distinct(prefilling) => Distinct(prefilling')
      /\ left' = [left EXCEPT ![r] = 0] /\ requests' = requests \ {r}
  BY <1>1, RemovedMoves
<1>6. QueueTypes'
  BY <1>1, <1>5 DEF SchedTypes, QueueTypes
<1>7. DOMAIN uidOf' \subseteq Reqs /\ \A x \in DOMAIN uidOf' : uidOf'[x] \in Nat
  BY <1>1, DropTypes
<1>8. BookTypes'
  BY <1>1, <1>5, <1>7 DEF SchedTypes, BookTypes
<1>9. InFlight' = InFlight
  BY <1>1 DEF InFlight
<1> QED
  BY <1>1, <1>2, <1>3, <1>4, <1>5, <1>6, <1>8, <1>9 DEF SchedTypes

(* A drain, at its place in the step or for an abort.                      *)
Draining ==
  /\ Drain /\ At("aborts") /\ ~At("idle")' /\ ~At("chunks")' /\ ~At("prefill")'
  /\ UNCHANGED <<waiting, prefilling, running, left, serial, rej, out, asked, gone, told, cur, round, still>>

LEMMA DrainingMoves ==
  ASSUME SchedTypes, Draining
  PROVE  /\ QueueTypes' /\ BookTypes' /\ Outside
         /\ Len(pend') <= Len(pend) /\ Len(pend) \in Nat /\ Len(pend') \in Nat
         /\ InFlight' \subseteq InFlight /\ requests' = requests \ (InFlight \ InFlight')
         /\ UNCHANGED <<waiting, prefilling, running, left, serial, rej, out, asked, gone, told, world, stepFaults, lost>>
<1>1. PICK ended \in SUBSET InFlight :
         /\ pend' \in Seq([uid : Nat, req : Reqs]) /\ Len(pend') <= Len(pend)
         /\ Len(pend) \in Nat /\ Len(pend') \in Nat
         /\ {pend'[i].req : i \in 1..Len(pend')} = InFlight \ ended
         /\ requests' = requests \ ended /\ uidOf' = Drop(uidOf, ended)
         /\ nextUid' = nextUid /\ world' = world /\ stepFaults' = stepFaults /\ lost' = lost
  BY DrainMoves DEF Draining
<1>2. /\ ~At("chunks") /\ ~At("chunks")' /\ ~At("prefill") /\ ~At("prefill")'
      /\ UNCHANGED <<waiting, prefilling, running, left, serial, rej, out, asked, gone, told, cur, round, still>>
  BY DEF Draining, At
<1>3. Outside
  BY <1>2, OutsideHolds
<1>4. InFlight' = InFlight \ ended
  BY <1>1, InFlightPrimed DEF InFlightNext
<1>5. DOMAIN uidOf' \subseteq Reqs /\ \A x \in DOMAIN uidOf' : uidOf'[x] \in Nat
  BY <1>1, DropTypes
<1>6. QueueTypes'
  BY <1>2, SameQueues DEF SchedTypes
<1>7. BookTypes'
  BY <1>1, <1>2, <1>5 DEF SchedTypes, BookTypes
<1>8. ended = InFlight \ InFlight'
  BY <1>4
<1> QED
  BY <1>1, <1>2, <1>3, <1>4, <1>6, <1>7, <1>8

LEMMA AbortStoredMoves ==
  ASSUME SchedTypes, NEW r \in Reqs, ProcessAbort(r), AbortStored(r)
  PROVE  SchedTypes' /\ Draining /\ r \in aborts /\ aborts' = aborts \ {r}
<1>1. /\ Drain /\ At("aborts") /\ todo' = todo /\ r \in aborts /\ aborts' = aborts \ {r}
      /\ UNCHANGED <<waiting, prefilling, running, left, serial, rej, out, asked, gone, told, cur, round, still>>
  BY DEF ProcessAbort, AbortStored, retry, loop, clients
<1>2. ~At("idle")' /\ ~At("chunks")' /\ ~At("prefill")'
  BY <1>1 DEF At
<1>3. Draining
  BY <1>1, <1>2 DEF Draining
<1>4. PlanTypes'
  BY <1>1, SamePlan DEF SchedTypes
<1> QED
  BY <1>1, <1>3, <1>4, DrainingMoves DEF SchedTypes

LEMMA DrainStepMoves ==
  ASSUME SchedTypes, DrainStep
  PROVE  SchedTypes' /\ Draining /\ aborts = {} /\ aborts' = aborts
<1>1. /\ Drain /\ At("aborts") /\ Then /\ aborts = {} /\ aborts' = aborts
      /\ UNCHANGED <<waiting, prefilling, running, left, serial, rej, out, asked, gone, told, cur, round, still>>
  BY DEF DrainStep, retry, loop, clients
<1>2. todo \in Plans /\ cur = None /\ round = <<>> /\ still = <<>>
  BY <1>1 DEF SchedTypes, PlanTypes, At
<1>3. PICK t \in Plans : t = todo' /\ t[1] = "pick"
  BY <1>1, <1>2, Phases DEF At, Then
<1>4. ~At("idle")' /\ ~At("chunks")' /\ ~At("prefill")'
  BY <1>3 DEF At
<1>5. PlanTypes'
  BY <1>1, <1>2, <1>3, NewPlan
<1>6. Draining
  BY <1>1, <1>4 DEF Draining
<1> QED
  BY <1>1, <1>5, <1>6, DrainingMoves DEF SchedTypes

LEMMA AbortIgnoredMoves ==
  ASSUME SchedTypes, NEW r \in Reqs, ProcessAbort(r), AbortIgnored(r)
  PROVE  /\ SchedTypes' /\ Quiet /\ ~At("idle")' /\ r \in aborts /\ aborts' = aborts \ {r}
         /\ r \notin requests \/ r \in InFlight
         /\ UNCHANGED <<todo, requests, left, serial, rej, out, asked, gone, told, world, stepFaults, lost, cur>>
<1>1. /\ At("aborts") /\ r \in aborts /\ aborts' = aborts \ {r} /\ (r \notin requests \/ r \in InFlight)
      /\ UNCHANGED <<todo, requests, left, serial, rej, out, asked, gone, told, world, stepFaults, lost,
                     waiting, running, prefilling, round, still, cur, pend, nextUid, uidOf>>
  BY DEF ProcessAbort, AbortIgnored, queues, batch, stores, retry, loop, env, clients
<1>2. Quiet /\ ~At("idle")'
  BY <1>1, QuietMoves DEF At
<1> QED
  BY <1>1, <1>2, SameBooks, SameQueues, SamePlan DEF SchedTypes

LEMMA DecodeMoves ==
  ASSUME SchedTypes, Decode
  PROVE  /\ SchedTypes' /\ Outside /\ ~At("idle")' /\ At("decode")
         /\ \E finished, kept :
              /\ finished \subseteq ToSet(running) /\ kept \subseteq finished
              /\ ToSet(running') = ToSet(running) \ finished
              /\ InFlight' = InFlight \cup (kept \cap DOMAIN uidOf)
              /\ requests' = requests \ (finished \ kept)
              /\ uidOf' = Drop(uidOf, finished \ kept)
              /\ out' = out \cup rej \cup finished
         /\ Distinct(running) => Distinct(running')
         /\ Len(pend') + Len(running') <= Len(pend) + Len(running)
         /\ Len(pend') \in Nat /\ Len(running') \in Nat
         /\ rej' = {}
         /\ UNCHANGED <<waiting, prefilling, left, serial, aborts, asked, gone, told, world, stepFaults, lost>>
<1>1. /\ At("decode") /\ Then /\ rej' = {}
      /\ UNCHANGED <<waiting, prefilling, left, serial, aborts, asked, gone, told, world, stepFaults, lost, nextUid, cur,
                     round, still>>
  BY DEF Decode, Decoding, retry, loop, clients, env
<1>2. PICK finished, kept, made :
        /\ finished \subseteq ToSet(running) /\ kept \subseteq finished
        /\ CleanUp(finished, kept, made) /\ out' = out \cup rej \cup finished
  <2>1. PICK ends \in SUBSET Stepping, stops \in SUBSET Stepping :
          LET finished == EndedBy(ends \cup stops) IN
            /\ \E kept \in SUBSET finished :
                 CleanUp(finished, kept, [u \in DOMAIN rows \ ends |-> Tokens(u)])
            /\ out' = out \cup rej \cup finished
    BY DEF Decode
  <2>2. PICK finished : finished = EndedBy(ends \cup stops)
    OBVIOUS
  <2>3. PICK made : made = [u \in DOMAIN rows \ ends |-> Tokens(u)]
    OBVIOUS
  <2>4. PICK kept \in SUBSET EndedBy(ends \cup stops) :
          CleanUp(EndedBy(ends \cup stops), kept, [u \in DOMAIN rows \ ends |-> Tokens(u)])
    BY <2>1
  <2>5. CleanUp(finished, kept, made)
    BY <2>2, <2>3, <2>4 DEF CleanUp
  <2>6. finished \subseteq ToSet(running)
    BY <2>2 DEF EndedBy
  <2> QED
    BY <2>1, <2>2, <2>4, <2>5, <2>6
<1>3. /\ running' \in Seq(Reqs) /\ ToSet(running') = ToSet(running) \ finished
      /\ Distinct(running) => Distinct(running')
      /\ pend' \in Seq([uid : Nat, req : Reqs])
      /\ {pend'[i].req : i \in 1..Len(pend')} = InFlight \cup (kept \cap DOMAIN uidOf)
      /\ Len(pend') + Len(running') <= Len(pend) + Len(running)
      /\ Len(pend') \in Nat /\ Len(running') \in Nat
      /\ uidOf' = Drop(uidOf, finished \ kept)
      /\ requests' = requests \ (finished \ kept)
  BY <1>2, CleanUpMoves
<1>4. todo \in Plans /\ cur = None /\ round = <<>> /\ still = <<>> /\ ~At("chunks") /\ ~At("prefill")
  BY <1>1 DEF SchedTypes, PlanTypes, At
<1>5. PICK t \in Plans : t = todo' /\ t[1] = "finish"
  BY <1>1, <1>4, Phases DEF At, Then
<1>6. ~At("idle")' /\ ~At("chunks")' /\ ~At("prefill")'
  BY <1>5 DEF At
<1>7. Outside
  BY <1>4, <1>6, OutsideHolds
<1>8. PlanTypes'
  BY <1>1, <1>4, <1>5, NewPlan
<1>9. InFlight' = InFlight \cup (kept \cap DOMAIN uidOf)
  BY <1>3, InFlightPrimed DEF InFlightNext
<1>10. DOMAIN uidOf' \subseteq Reqs /\ \A x \in DOMAIN uidOf' : uidOf'[x] \in Nat
  BY <1>3, DropTypes
<1>11. QueueTypes'
  BY <1>1, <1>3 DEF SchedTypes, QueueTypes
<1>12. BookTypes'
  BY <1>1, <1>3, <1>10 DEF SchedTypes, BookTypes
<1> QED
  BY <1>1, <1>2, <1>3, <1>6, <1>7, <1>8, <1>9, <1>11, <1>12 DEF SchedTypes

LEMMA NoDecodeMoves ==
  ASSUME SchedTypes, NoDecode
  PROVE  /\ SchedTypes' /\ Quiet /\ ~At("idle")' /\ out' = out \cup rej /\ rej' = {}
         /\ ~At("chunks")' /\ ~At("prefill")'
         /\ UNCHANGED <<requests, left, serial, aborts, asked, gone, told, world, stepFaults, lost, cur>>
<1>1. /\ UNCHANGED <<requests, left, serial, aborts, asked, gone, told, world, stepFaults, lost,
                     waiting, running, prefilling, round, still, cur, pend, nextUid, uidOf>>
      /\ At("decode") /\ Then /\ out' = out \cup rej /\ rej' = {}
  BY DEF NoDecode, queues, batch, stores, retry, loop, env, clients
<1>2. todo \in Plans /\ ~At("chunks") /\ ~At("prefill")
  BY <1>1 DEF SchedTypes, PlanTypes, At
<1>3. PICK t \in Plans : t = todo' /\ t[1] = "finish"
  BY <1>1, <1>2, Phases DEF At, Then
<1>4. PlanTypes' /\ QueueTypes' /\ Quiet /\ ~At("chunks")' /\ ~At("prefill")'
  BY <1>1, <1>2, <1>3, TurnMoves
<1>5. ~At("idle")'
  BY <1>3 DEF At
<1> QED
  BY <1>1, <1>4, <1>5, SameBooks DEF SchedTypes

LEMMA FinishMoves ==
  ASSUME SchedTypes, Finish
  PROVE  /\ SchedTypes' /\ Quiet /\ At("finish") /\ ~At("chunks")' /\ ~At("prefill")'
         /\ told' = [r \in Reqs |-> IF r \in out THEN told[r] + 1 ELSE told[r]]
         /\ out' = {} /\ serial' = serial \cap Active
         /\ UNCHANGED <<requests, left, aborts, rej, asked, gone, world, lost, cur>>
<1>1. /\ UNCHANGED <<requests, left, aborts, rej, asked, gone, world, lost,
                     waiting, running, prefilling, round, still, cur, pend, nextUid, uidOf>>
      /\ At("finish") /\ todo' = <<"idle">> /\ out' = {} /\ serial' = serial \cap Active
      /\ told' = [r \in Reqs |-> IF r \in out THEN told[r] + 1 ELSE told[r]] /\ stepFaults' = 0
  BY DEF Finish, queues, batch, stores, loop
<1>2. ~At("chunks") /\ ~At("prefill")
  BY <1>1 DEF At
<1>3. PICK t \in Plans : t = <<"idle">> /\ t[1] \notin {"prefill", "chunks"}
  BY FirstPhases
<1>4. PlanTypes' /\ QueueTypes' /\ Quiet /\ ~At("chunks")' /\ ~At("prefill")'
  BY <1>1, <1>2, <1>3, TurnMoves
<1>5. told' \in [Reqs -> Nat]
  BY <1>1 DEF SchedTypes, BookTypes
<1>6. BookTypes'
  BY <1>1, <1>5 DEF SchedTypes, BookTypes
<1> QED
  BY <1>1, <1>4, <1>6 DEF SchedTypes

(* A failure that is retried.                                              *)
Retrying(kind, budget) ==
  /\ ToSet(waiting') = (AffectedSet \ Failed(kind, budget)) \cup ToSet(waiting)
  /\ Distinct(waiting) /\ AffectedSet \cap ToSet(waiting) = {} => Distinct(waiting')
  /\ ToSet(running') = ToSet(running) \ AffectedSet
  /\ Distinct(running) => Distinct(running')
  /\ ToSet(prefilling') = ToSet(prefilling) \ AffectedSet
  /\ Distinct(prefilling) => Distinct(prefilling')
  /\ Len(running') <= Len(running) /\ Len(prefilling') <= Len(prefilling)
  /\ Len(running') \in Nat /\ Len(prefilling') \in Nat
  /\ requests' = requests \ Failed(kind, budget)
  /\ rej' = {} /\ out' = out \cup Failed(kind, budget) \cup (rej \ Dropped0) /\ lost' = lost \cup Dropped0
  /\ left' = [r \in Reqs |-> IF r \in AffectedSet THEN 0 ELSE left[r]]
  /\ uidOf' = <<>> /\ reqOf' = <<>> /\ rows' = <<>>
  /\ stepFaults' = stepFaults + 1 /\ twice' = twice \cup LeftRound
  /\ Held' = {} /\ One' = 0 /\ InRound' = ToSet(prefilling') /\ RoundLen' = Len(prefilling')
  /\ RoundDistinct' = Distinct(prefilling')
  /\ ~At("idle")' /\ ~At("chunks")' /\ ~At("prefill")' /\ ~At("idle")
  /\ InFlight' = InFlight
  /\ UNCHANGED <<pend, stored, aborts, asked, gone, told, world>>

LEMMA RetryKept ==
  ASSUME SchedTypes, NEW kind, NEW budget, NEW order \in Seq(Reqs), Distinct(order), ToSet(order) = AffectedSet,
         Retry(kind, budget, order), MayRaise, Strikes(kind)
  PROVE  SchedTypes' /\ Retrying(kind, budget)
<1>1. /\ waiting' \in Seq(Reqs)
      /\ ToSet(waiting') = (AffectedSet \ Failed(kind, budget)) \cup ToSet(waiting)
      /\ Distinct(waiting) /\ AffectedSet \cap ToSet(waiting) = {} => Distinct(waiting')
      /\ running' \in Seq(Reqs) /\ ToSet(running') = ToSet(running) \ AffectedSet
      /\ Distinct(running) => Distinct(running')
      /\ prefilling' \in Seq(Reqs) /\ ToSet(prefilling') = ToSet(prefilling) \ AffectedSet
      /\ Distinct(prefilling) => Distinct(prefilling')
      /\ Len(running') <= Len(running) /\ Len(prefilling') <= Len(prefilling)
      /\ Len(running') \in Nat /\ Len(prefilling') \in Nat
      /\ requests' = requests \ Failed(kind, budget)
      /\ rej' = {} /\ out' = out \cup Failed(kind, budget) \cup (rej \ Dropped0) /\ lost' = lost \cup Dropped0
      /\ left' = [r \in Reqs |-> IF r \in AffectedSet THEN 0 ELSE left[r]]
      /\ todo' = <<"finish">> /\ cur' = None /\ round' = <<>> /\ still' = <<>>
      /\ nextUid' = 0 /\ uidOf' = <<>> /\ reqOf' = <<>> /\ rows' = <<>> /\ stepFaults' = stepFaults + 1
      /\ pend' = pend /\ stored' = stored /\ aborts' = aborts
      /\ asked' = asked /\ gone' = gone /\ told' = told /\ twice' = twice \cup LeftRound
  BY RetryMoves
<1>2. world' = world
  BY DEF Strikes
<1>3. ~At("idle") /\ ~At("idle")' /\ ~At("chunks")' /\ ~At("prefill")'
  BY <1>1 DEF MayRaise, ChunkDue, Decoding, At
<1>4. PICK t \in Plans : t = <<"finish">> /\ t[1] \notin {"prefill", "chunks"}
  BY FirstPhases
<1>5. PlanTypes'
  BY <1>1, <1>4, NewPlan
<1>6. QueueTypes'
  BY <1>1, QueuesEmpty DEF QueueTypes
<1>7. left' \in [Reqs -> Nat] /\ DOMAIN uidOf' = {}
  BY <1>1 DEF SchedTypes, BookTypes
<1>8. BookTypes'
  BY <1>1, <1>2, <1>7 DEF SchedTypes, BookTypes
<1>9. Held' = {} /\ One' = 0 /\ InRound' = ToSet(prefilling') /\ RoundLen' = Len(prefilling')
  BY <1>3 DEF Held, One, InRound, RoundLen
<1>10. RoundDistinct' = Distinct(prefilling')
  BY <1>3, Zenon DEF RoundDistinct
<1>11. InFlight' = InFlight
  BY <1>1 DEF InFlight
<1> QED
  BY <1>1, <1>2, <1>3, <1>5, <1>6, <1>8, <1>9, <1>10, <1>11 DEF Retrying, SchedTypes

LEMMA CorruptMoves ==
  ASSUME SchedTypes, Corrupt
  PROVE  SchedTypes' /\ Retrying("corrupt", CorruptTries) /\ serial' = serial
<1>1. Affected \in Seq(Reqs) /\ Distinct(Affected) /\ ToSet(Affected) = AffectedSet
  BY AffectedMoves
<1>2. PICK order \in Seq(Reqs) : order = Reverse(Affected) /\ Distinct(order) /\ ToSet(order) = AffectedSet
  BY <1>1, ReverseSet
<1>3. MayRaise /\ Strikes("corrupt") /\ serial' = serial
  BY DEF Corrupt
<1>4. Retry("corrupt", CorruptTries, order)
  BY <1>2 DEF Corrupt, Retry
<1> QED
  BY <1>2, <1>3, <1>4, RetryKept

LEMMA OverflowMoves ==
  ASSUME SchedTypes, Overflow
  PROVE  /\ SchedTypes' /\ Retrying("overflow", OverflowTries)
         /\ serial' \subseteq AffectedSet
<1>1. Affected \in Seq(Reqs) /\ Distinct(Affected) /\ ToSet(Affected) = AffectedSet
  BY AffectedMoves
<1>2. PICK order \in Seq(Reqs) : order = Affected /\ Distinct(order) /\ ToSet(order) = AffectedSet
  BY <1>1
<1>3. MayRaise /\ Strikes("overflow") /\ serial' \subseteq AffectedSet
  BY <1>1 DEF Overflow
<1>4. Retry("overflow", OverflowTries, order)
  BY <1>2 DEF Overflow, Retry
<1> QED
  BY <1>2, <1>3, <1>4, RetryKept

(* A failure that takes everything.                                        *)
FailedAll == ToSet(running) \cup ToSet(prefilling) \cup ToSet(waiting) \cup (requests \ InFlight)
FailingAll ==
  /\ ToSet(waiting') = {} /\ ToSet(running') = {} /\ ToSet(prefilling') = {}
  /\ Distinct(waiting') /\ Distinct(running') /\ RoundDistinct'
  /\ Len(running') = 0 /\ RoundLen' = 0 /\ InRound' = {} /\ Held' = {} /\ One' = 0
  /\ At("idle")' /\ ~At("chunks")' /\ ~At("prefill")'
  /\ left' = [r \in Reqs |-> 0] /\ requests' = requests \ FailedAll
  /\ uidOf' = Drop(uidOf, FailedAll) /\ rows' = <<>>
  /\ reqOf' = Drop(reqOf, {uidOf[r] : r \in FailedAll \cap DOMAIN uidOf})
  /\ serial' = serial \ FailedAll
  /\ told' = [r \in Reqs |-> IF r \in FailedAll THEN told[r] + 1 ELSE told[r]]
  /\ rej' = {} /\ out' = {} /\ lost' = lost \cup rej \cup out
  /\ stepFaults' = 0
  /\ InFlight' = InFlight
  /\ UNCHANGED <<pend, stored, asked, gone, world>>

LEMMA FailAllKept ==
  ASSUME SchedTypes, FailAll, world' = world
  PROVE  SchedTypes' /\ FailingAll
<1>1. /\ waiting' = <<>> /\ prefilling' = <<>> /\ running' = <<>>
      /\ left' = [r \in Reqs |-> 0] /\ requests' = requests \ FailedAll
      /\ uidOf' = Drop(uidOf, FailedAll) /\ nextUid' = 0 /\ rows' = <<>>
      /\ reqOf' = Drop(reqOf, {uidOf[r] : r \in FailedAll \cap DOMAIN uidOf})
      /\ serial' = serial \ FailedAll
      /\ told' = [r \in Reqs |-> IF r \in FailedAll THEN told[r] + 1 ELSE told[r]]
      /\ todo' = <<"idle">> /\ cur' = None /\ round' = <<>> /\ still' = <<>>
      /\ rej' = {} /\ out' = {} /\ lost' = lost \cup rej \cup out /\ stepFaults' = 0
      /\ pend' = pend /\ stored' = stored /\ asked' = asked /\ gone' = gone
  <2>1. PICK failed :
         /\ failed = ToSet(running) \cup ToSet(prefilling) \cup ToSet(waiting) \cup (requests \ InFlight)
         /\ waiting' = <<>> /\ prefilling' = <<>> /\ running' = <<>>
         /\ left' = [r \in Reqs |-> 0] /\ requests' = requests \ failed
         /\ uidOf' = Drop(uidOf, failed) /\ nextUid' = 0 /\ rows' = <<>>
         /\ reqOf' = Drop(reqOf, {uidOf[r] : r \in failed \cap DOMAIN uidOf})
         /\ serial' = serial \ failed
         /\ told' = [r \in Reqs |-> IF r \in failed THEN told[r] + 1 ELSE told[r]]
         /\ todo' = <<"idle">> /\ cur' = None /\ round' = <<>> /\ still' = <<>>
         /\ rej' = {} /\ out' = {} /\ lost' = lost \cup rej \cup out /\ stepFaults' = 0
         /\ pend' = pend /\ stored' = stored /\ asked' = asked /\ gone' = gone
    BY FailAllMoves
  <2>2. failed = FailedAll
    BY <2>1 DEF FailedAll
  <2> QED
    BY <2>1, <2>2
<1>2. At("idle")' /\ ~At("chunks")' /\ ~At("prefill")'
  BY <1>1 DEF At
<1>3. PICK t \in Plans : t = <<"idle">> /\ t[1] \notin {"prefill", "chunks"}
  BY FirstPhases
<1>4. PlanTypes'
  BY <1>1, <1>3, NewPlan
<1>5. QueueTypes'
  BY <1>1, QueuesEmpty DEF QueueTypes
<1>6. left' \in [Reqs -> Nat] /\ told' \in [Reqs -> Nat]
  BY <1>1 DEF SchedTypes, BookTypes
<1>7. DOMAIN uidOf' \subseteq Reqs /\ \A x \in DOMAIN uidOf' : uidOf'[x] \in Nat
  BY <1>1, DropTypes
<1>8. BookTypes'
  BY <1>1, <1>6, <1>7 DEF SchedTypes, BookTypes
<1>9. /\ ToSet(waiting') = {} /\ ToSet(running') = {} /\ ToSet(prefilling') = {}
      /\ Distinct(waiting') /\ Distinct(running') /\ Distinct(prefilling')
      /\ Len(running') = 0 /\ Len(prefilling') = 0
  BY <1>1, QueuesEmpty
<1>10. Held' = {} /\ One' = 0 /\ InRound' = {} /\ RoundLen' = 0
  BY <1>2, <1>9 DEF Held, One, InRound, RoundLen
<1>11. RoundDistinct'
  BY <1>2, <1>9 DEF RoundDistinct
<1>12. InFlight' = InFlight
  BY <1>1 DEF InFlight
<1> QED
  BY <1>1, <1>2, <1>4, <1>5, <1>8, <1>9, <1>10, <1>11, <1>12 DEF FailingAll, SchedTypes

LEMMA FatalMoves ==
  ASSUME SchedTypes, Fatal
  PROVE  SchedTypes' /\ FailingAll /\ aborts' = aborts
<1>1. FailAll /\ world' = world /\ aborts' = aborts
  BY DEF Fatal, Strikes
<1> QED
  BY <1>1, FailAllKept

LEMMA AbortRaisesMoves ==
  ASSUME SchedTypes, AbortRaises
  PROVE  SchedTypes' /\ FailingAll /\ aborts' \subseteq aborts /\ At("aborts")
<1>1. FailAll /\ world' = world /\ aborts' \subseteq aborts /\ At("aborts")
  BY DEF AbortRaises
<1> QED
  BY <1>1, FailAllKept

LEMMA StutterMoves ==
  ASSUME SchedTypes, UNCHANGED vars
  PROVE  /\ SchedTypes' /\ Quiet
         /\ UNCHANGED <<todo, requests, left, serial, aborts, rej, out, asked, gone, told, world, stepFaults, lost, cur>>
<1>1. UNCHANGED <<todo, requests, left, serial, aborts, rej, out, asked, gone, told, world, stepFaults, lost,
                  waiting, running, prefilling, round, still, cur, pend, nextUid, uidOf>>
  BY DEF vars, queues, batch, stores, retry, loop, env, clients
<1>2. Quiet
  BY <1>1, QuietMoves DEF At
<1> QED
  BY <1>1, <1>2, SameBooks, SameQueues, SamePlan DEF SchedTypes

-----------------------------------------------------------------------------
(* Where the requests are.                                                 *)
Parts(W, R, I, H, F, Q) ==
  /\ Q = W \cup R \cup I \cup H \cup F
  /\ W \cap R = {} /\ W \cap I = {} /\ W \cap H = {} /\ W \cap F = {}
  /\ R \cap I = {} /\ R \cap H = {} /\ R \cap F = {}
  /\ I \cap H = {} /\ I \cap F = {} /\ H \cap F = {}

Placement == Parts(ToSet(waiting), ToSet(running), InRound, Held, InFlight, requests)
Singly == Distinct(waiting) /\ Distinct(running) /\ RoundDistinct
RoundFresh ==
  /\ ToSet(prefilling) \subseteq InRound \cup ToSet(running) \cup ToSet(waiting) \cup rej
  /\ ToSet(prefilling) \cap InFlight = {}
HasLeft == \A r \in Reqs : (left[r] > 0 <=> r \in InRound)
HasUids == ToSet(running) \subseteq DOMAIN uidOf
PlacedInv ==
  SchedTypes /\ Placement /\ Singly /\ RoundFresh /\ HasLeft /\ requests \subseteq asked

LEMMA BetweenRounds == ~At("chunks") => InRound = ToSet(prefilling)
  BY DEF InRound

LEMMA PlacedKept ==
  ASSUME SchedTypes', Placement', Singly', HasLeft', requests' \subseteq asked',
         At("chunks")' => RoundFresh'
  PROVE  PlacedInv'
<1>1. (~At("chunks") => InRound = ToSet(prefilling))'
  BY BetweenRounds, PTL
<1>2. ~At("chunks")' => RoundFresh'
  BY <1>1 DEF RoundFresh, Placement, Parts
<1> QED
  BY <1>2 DEF PlacedInv

LEMMA PlacedQuiet ==
  ASSUME PlacedInv, SchedTypes', Quiet, requests' = requests, left' = left, asked \subseteq asked',
         At("chunks")' => rej' = rej
  PROVE  PlacedInv'
<1>1. /\ waiting' = waiting /\ running' = running /\ prefilling' = prefilling
      /\ InRound' = InRound /\ RoundDistinct' = RoundDistinct /\ Held' = Held /\ InFlight' = InFlight
  BY DEF Quiet
<1>2. Placement'
  BY <1>1 DEF PlacedInv, Placement
<1>3. Singly'
  BY <1>1 DEF PlacedInv, Singly
<1>4. HasLeft'
  BY <1>1 DEF PlacedInv, HasLeft
<1>5. At("chunks")' => RoundFresh'
  BY <1>1 DEF PlacedInv, RoundFresh
<1>6. requests' \subseteq asked'
  BY DEF PlacedInv
<1> QED
  BY <1>2, <1>3, <1>4, <1>5, <1>6, PlacedKept

LEMMA NoElements ==
  ASSUME NEW s \in Seq(Reqs), ToSet(s) = {}
  PROVE  Distinct(s) /\ Len(s) = 0
<1>1. PICK n \in Nat : n = Len(s)
  BY LenProperties
<1>2. ToSet(s) = {s[i] : i \in 1..n}
  BY <1>1, AsSet
<1>3. n = 0
  <2>1. CASE n # 0
    <3>1. 1 \in 1..n
      BY <2>1
    <3> QED
      BY <1>2, <3>1
  <2> QED
    BY <2>1
<1>4. 1..0 = {}
  OBVIOUS
<1>5. Len(s) = 0 /\ 1..Len(s) = {}
  BY <1>1, <1>3, <1>4
<1>6. Distinct(s)
  BY <1>5 DEF Distinct
<1> QED
  BY <1>5, <1>6

LEMMA PlacedInit == Init => PlacedInv
<1> SUFFICES ASSUME Init PROVE PlacedInv
  OBVIOUS
<1>1. SchedTypes
  BY SchedTypesInit
<1>2. todo = <<"idle">>
  BY DEF Init
<1>3. ~At("chunks") /\ ~At("prefill")
  BY <1>2 DEF At
<1>4. ToSet(waiting) = {} /\ ToSet(running) = {} /\ ToSet(prefilling) = {}
  BY QueuesEmpty DEF Init
<1>5. InRound = {} /\ Held = {}
  BY <1>3, <1>4 DEF InRound, Held
<1>6. InFlight = {}
  <2>1. Len(<<>>) = 0 /\ 1..0 = {}
    OBVIOUS
  <2> QED
    BY <2>1 DEF Init, InFlight
<1>7. requests = {} /\ asked = {} /\ left = [r \in Reqs |-> 0]
  BY DEF Init
<1>8. Placement
  BY <1>4, <1>5, <1>6, <1>7 DEF Placement, Parts
<1>9. Singly
  <2>1. Distinct(waiting) /\ Distinct(running) /\ Distinct(prefilling)
    BY QueuesEmpty DEF Init
  <2>2. RoundDistinct
    BY <1>3, <2>1 DEF RoundDistinct
  <2> QED
    BY <2>1, <2>2 DEF Singly
<1>10. HasLeft
  BY <1>5, <1>7 DEF HasLeft
<1>11. RoundFresh
  BY <1>4 DEF RoundFresh
<1> QED
  BY <1>1, <1>7, <1>8, <1>9, <1>10, <1>11 DEF PlacedInv

(* As long as no recovery has collected a request whose chunk had failed   *)
(* earlier in the round: nothing takes a member out of twice.              *)
Once == twice = {}

LEMMA TwiceGrows ==
  ASSUME [Next]_vars, Once'
  PROVE  Once
<1>1. CASE \E r \in Reqs : AddRequest(r) \/ Abort(r) \/ StoreDone(r) \/ ProcessAbort(r)
  <2>1. twice' = twice
    BY <1>1 DEF AddRequest, Abort, StoreDone, ProcessAbort, AbortKnown, AbortStored, AbortIgnored, Drain, env
  <2> QED
    BY <2>1 DEF Once
<1>2. CASE BeginStep \/ DrainStep \/ Pick \/ StartAdvance \/ AdvanceDone \/ UNCHANGED vars
  <2>1. twice' = twice
    BY <1>2 DEF BeginStep, DrainStep, Drain, Pick, StartAdvance, AdvanceDone, vars, env
  <2> QED
    BY <2>1 DEF Once
<1>3. CASE AdmitDone \/ AdmitHeld \/ AdmitBlocked \/ AdmitDeferred \/ Take
  <2>1. twice' = twice
    BY <1>3 DEF AdmitDone, AdmitHeld, AdmitBlocked, AdmitDeferred, Take, Admitting, env
  <2> QED
    BY <2>1 DEF Once
<1>4. CASE Advance
  <2>1. twice' = twice
    BY <1>4 DEF Advance, ChunkRuns, ChunkEnds, ChunkFails, ChunkPaused, ChunkGone, ChunkDeferred, Requeue, Reject, Fault, env
  <2> QED
    BY <2>1 DEF Once
<1>5. CASE Prefill
  <2>1. twice' = twice
    BY <1>5 DEF Prefill, Prefilled, FirstChunk, PrefillFails, PrefillPaused, PrefillAborted, Requeue, Reject, Fault, env
  <2> QED
    BY <2>1 DEF Once
<1>6. CASE Decode \/ NoDecode \/ Finish \/ Fatal \/ AbortRaises
  <2>1. twice' = twice
    BY <1>6 DEF Decode, NoDecode, Finish, Fatal, AbortRaises, env
  <2> QED
    BY <2>1 DEF Once
<1>7. CASE Corrupt \/ Overflow
  <2>1. twice' = twice \cup LeftRound
    BY <1>7 DEF Corrupt, Overflow, Retry
  <2> QED
    BY <2>1 DEF Once
<1> QED
  BY <1>1, <1>2, <1>3, <1>4, <1>5, <1>6, <1>7 DEF Next, Step

(* What a retry affects is then what is at work.                           *)
LEMMA FirstFault ==
  ASSUME PlacedInv, LeftRound = {}
  PROVE  /\ AffectedSet = ToSet(running) \cup InRound \cup Held
         /\ ToSet(prefilling) \subseteq InRound \cup ToSet(running)
<1>1. ToSet(prefilling) \subseteq InRound \cup ToSet(running)
  BY BetweenRounds DEF LeftRound, InRound
<1> QED
  BY <1>1 DEF PlacedInv, Placement, Parts, AffectedSet

LEMMA PlacedRetry ==
  ASSUME Once', PlacedInv, SchedTypes', NEW kind, NEW budget, Retrying(kind, budget)
  PROVE  PlacedInv' /\ ToSet(running') = {} /\ ToSet(prefilling') = {}
         /\ AffectedSet = ToSet(running) \cup InRound \cup Held
<1>1. LeftRound = {}
  BY DEF Retrying, Once
<1>2. /\ AffectedSet = ToSet(running) \cup InRound \cup Held
      /\ ToSet(prefilling) \subseteq InRound \cup ToSet(running)
  BY <1>1, FirstFault
<1>3. PICK A, B : A = AffectedSet /\ B = Failed(kind, budget)
  OBVIOUS
<1>4. B \subseteq A
  BY <1>3 DEF Failed
<1>5. /\ ToSet(waiting') = (A \ B) \cup ToSet(waiting)
      /\ Distinct(waiting) /\ A \cap ToSet(waiting) = {} => Distinct(waiting')
      /\ ToSet(running') = ToSet(running) \ A /\ ToSet(prefilling') = ToSet(prefilling) \ A
      /\ InRound' = ToSet(prefilling') /\ Held' = {} /\ InFlight' = InFlight
      /\ requests' = requests \ B /\ asked' = asked /\ ~At("chunks")'
      /\ left' = [r \in Reqs |-> IF r \in A THEN 0 ELSE left[r]]
      /\ RoundDistinct' = Distinct(prefilling')
  BY <1>3 DEF Retrying
<1>6. ToSet(running') = {} /\ ToSet(prefilling') = {} /\ InRound' = {}
  BY <1>2, <1>3, <1>5
<1>7. Placement'
  BY <1>2, <1>3, <1>4, <1>5, <1>6 DEF PlacedInv, Placement, Parts
<1>8. Singly'
  <2>1. A \cap ToSet(waiting) = {}
    BY <1>2, <1>3 DEF PlacedInv, Placement, Parts
  <2>2. Distinct(waiting')
    BY <1>5, <2>1 DEF PlacedInv, Singly
  <2>3. running' \in Seq(Reqs) /\ prefilling' \in Seq(Reqs)
    BY DEF SchedTypes, QueueTypes
  <2>4. PICK s, t \in Seq(Reqs) : s = running' /\ t = prefilling'
    BY <2>3
  <2>5. ToSet(s) = {} /\ ToSet(t) = {}
    BY <1>6, <2>4
  <2>6. Distinct(s) /\ Distinct(t)
    BY <2>5, NoElements
  <2> QED
    BY <1>5, <2>2, <2>4, <2>6 DEF Singly
<1>9. HasLeft'
  <2>1. \A r \in Reqs : left[r] > 0 <=> r \in InRound
    BY DEF PlacedInv, HasLeft
  <2>2. ASSUME NEW r \in Reqs PROVE ~(left'[r] > 0)
    <3>1. CASE r \in A
      BY <1>5, <3>1
    <3>2. CASE r \notin A
      BY <1>2, <1>3, <1>5, <2>1, <3>2
    <3> QED
      BY <3>1, <3>2
  <2> QED
    BY <1>6, <2>2 DEF HasLeft
<1>10. requests' \subseteq asked'
  BY <1>5 DEF PlacedInv
<1> QED
  BY <1>2, <1>5, <1>6, <1>7, <1>8, <1>9, <1>10, PlacedKept

LEMMA PlacedFailAll ==
  ASSUME PlacedInv, SchedTypes', FailingAll
  PROVE  /\ PlacedInv' /\ requests' = InFlight
         /\ requests \ InFlight \subseteq FailedAll /\ FailedAll \subseteq (requests \ InFlight) \cup rej
<1>1. /\ ToSet(prefilling) \subseteq InRound \cup ToSet(running) \cup ToSet(waiting) \cup rej
      /\ ToSet(prefilling) \cap InFlight = {}
  BY DEF PlacedInv, RoundFresh
<1>2. /\ requests \ InFlight \subseteq FailedAll /\ FailedAll \subseteq (requests \ InFlight) \cup rej
      /\ FailedAll \cap InFlight = {} /\ InFlight \subseteq requests
  BY <1>1 DEF PlacedInv, Placement, Parts, FailedAll
<1>3. /\ ToSet(waiting') = {} /\ ToSet(running') = {} /\ InRound' = {} /\ Held' = {} /\ InFlight' = InFlight
      /\ Distinct(waiting') /\ Distinct(running') /\ RoundDistinct' /\ ~At("chunks")'
      /\ left' = [r \in Reqs |-> 0] /\ requests' = requests \ FailedAll /\ asked' = asked
  BY DEF FailingAll
<1>4. requests' = InFlight
  BY <1>2, <1>3
<1>5. Placement'
  BY <1>3, <1>4 DEF Placement, Parts
<1>6. Singly'
  BY <1>3 DEF Singly
<1>7. HasLeft'
  BY <1>3 DEF HasLeft
<1>8. requests' \subseteq asked'
  BY <1>3 DEF PlacedInv
<1> QED
  BY <1>2, <1>3, <1>4, <1>5, <1>6, <1>7, <1>8, PlacedKept

LEMMA PlacedPrefill ==
  ASSUME PlacedInv, Prefill
  PROVE  PlacedInv'
<1>0. UNCHANGED <<stores, serial, out, clients>>
  BY DEF Prefill
<1>1. SchedTypes
  BY DEF PlacedInv
<1>2. /\ Placement /\ Singly /\ HasLeft /\ requests \subseteq asked
  BY DEF PlacedInv
<1>3. ASSUME SchedTypes', PrefillCommon, Placement', Singly', HasLeft', requests' \subseteq asked'
      PROVE  PlacedInv'
  BY <1>3, PlacedKept DEF PrefillCommon
<1>4. CASE Prefilled
  <2>1. /\ SchedTypes' /\ PrefillCommon
        /\ ToSet(running') = ToSet(running) \cup {cur}
        /\ Distinct(running) => Distinct(running')
        /\ InFlight' = InFlight
        /\ UNCHANGED <<waiting, prefilling, requests, left, asked>>
    BY <1>0, <1>1, <1>4, PrefilledMoves
  <2>2. InRound' = InRound /\ RoundDistinct' = RoundDistinct
    BY <2>1 DEF PrefillCommon
  <2>3. Placement'
    BY <1>2, <2>1, <2>2 DEF Placement, Parts, PrefillCommon
  <2>4. Singly'
    BY <1>2, <2>1, <2>2 DEF Singly
  <2>5. HasLeft'
    BY <1>2, <2>1, <2>2 DEF HasLeft
  <2> QED
    BY <1>2, <1>3, <2>1, <2>3, <2>4, <2>5
<1>5. CASE FirstChunk
  <2>1. /\ SchedTypes' /\ PrefillCommon
        /\ ToSet(prefilling') = ToSet(prefilling) \cup {cur}
        /\ Distinct(prefilling) /\ cur \notin ToSet(prefilling) => Distinct(prefilling')
        /\ left'[cur] > 0 /\ \A r \in Reqs \ {cur} : left'[r] = left[r]
        /\ InFlight' = InFlight
        /\ UNCHANGED <<waiting, running, requests, asked>>
    BY <1>0, <1>1, <1>5, FirstChunkMoves
  <2>2. InRound' = InRound \cup {cur} /\ Held = {cur} /\ Held' = {} /\ InRound = ToSet(prefilling) /\ cur \in Reqs
    BY <2>1 DEF PrefillCommon
  <2>3. Placement'
    BY <1>2, <2>1, <2>2 DEF Placement, Parts
  <2>4. Singly'
    <3>1. cur \notin ToSet(prefilling) /\ Distinct(prefilling)
      BY <1>2, <2>1, <2>2 DEF Placement, Parts, Singly, PrefillCommon
    <3> QED
      BY <1>2, <2>1, <3>1 DEF Singly, PrefillCommon
  <2>5. HasLeft'
    <3>1. ASSUME NEW r \in Reqs PROVE (left'[r] > 0 <=> r \in InRound')
      <4>1. CASE r = cur
        BY <2>1, <2>2, <4>1
      <4>2. CASE r # cur
        BY <1>2, <2>1, <2>2, <4>2 DEF HasLeft
      <4> QED
        BY <4>1, <4>2
    <3> QED
      BY <3>1 DEF HasLeft
  <2> QED
    BY <1>2, <1>3, <2>1, <2>3, <2>4, <2>5
<1>6. ASSUME SchedTypes', PrefillCommon, InFlight' = InFlight, UNCHANGED <<prefilling, running, left, asked>>,
             \/ /\ ToSet(waiting') = {cur} \cup ToSet(waiting)
                /\ Distinct(waiting) /\ cur \notin ToSet(waiting) => Distinct(waiting')
                /\ requests' \in {requests, requests \cup {cur}}
             \/ waiting' = waiting /\ requests' = requests \ {cur}
      PROVE  PlacedInv'
  <2>1. InRound' = InRound /\ Held = {cur} /\ Held' = {} /\ RoundDistinct' = RoundDistinct /\ running' = running
    BY <1>6 DEF PrefillCommon
  <2>2. cur \in requests /\ cur \notin ToSet(waiting)
    BY <1>2, <2>1 DEF Placement, Parts
  <2>3. Placement'
    BY <1>2, <1>6, <2>1, <2>2 DEF Placement, Parts
  <2>4. Singly'
    BY <1>2, <1>6, <2>1, <2>2 DEF Singly
  <2>5. HasLeft'
    BY <1>2, <1>6, <2>1 DEF HasLeft
  <2>6. requests' \subseteq asked'
    BY <1>2, <1>6, <2>2
  <2> QED
    BY <1>3, <1>6, <2>3, <2>4, <2>5, <2>6
<1>7. CASE PrefillFails
  BY <1>0, <1>1, <1>6, <1>7, PrefillFailsMoves
<1>8. CASE PrefillPaused
  BY <1>0, <1>1, <1>6, <1>8, PrefillPausedMoves
<1>9. CASE PrefillAborted
  BY <1>0, <1>1, <1>6, <1>9, PrefillAbortedMoves
<1> QED
  BY <1>4, <1>5, <1>7, <1>8, <1>9 DEF Prefill

LEMMA PlacedAdvance ==
  ASSUME PlacedInv, Advance
  PROVE  PlacedInv'
<1>0. AdvanceFrame
  BY DEF Advance, AdvanceFrame
<1>1. SchedTypes
  BY DEF PlacedInv
<1>2. Placement /\ Singly /\ HasLeft /\ requests \subseteq asked /\ RoundFresh
  BY DEF PlacedInv
<1>3. ASSUME SchedTypes', InChunks, Stays, InFlight' = InFlight, HasLeft',
             UNCHANGED <<waiting, prefilling, running, requests, asked, rej>>
      PROVE  PlacedInv'
  <2>1. InRound' = InRound /\ Held' = Held /\ (RoundDistinct => RoundDistinct')
    BY <1>3 DEF Stays, InChunks
  <2>2. Placement'
    BY <1>2, <1>3, <2>1 DEF Placement
  <2>3. Singly'
    BY <1>2, <1>3, <2>1 DEF Singly
  <2>4. RoundFresh'
    BY <1>2, <1>3, <2>1 DEF RoundFresh
  <2> QED
    BY <1>2, <1>3, <2>2, <2>3, <2>4, PlacedKept
<1>4. CASE ChunkRuns
  <2>1. /\ SchedTypes' /\ InChunks /\ Stays /\ InFlight' = InFlight
        /\ Chunk \in Reqs /\ left'[Chunk] > 0 /\ \A r \in Reqs \ {Chunk} : left'[r] = left[r]
        /\ UNCHANGED <<waiting, prefilling, running, requests, asked, rej>>
    BY <1>0, <1>1, <1>4, ChunkRunsMoves
  <2>2. left[Chunk] > 0 /\ InRound' = InRound
    BY <1>4, <2>1 DEF ChunkRuns, ChunkDue, Stays
  <2>3. Chunk \in InRound
    BY <1>2, <2>1, <2>2 DEF HasLeft
  <2>4. ASSUME NEW r \in Reqs PROVE (left'[r] > 0 <=> r \in InRound')
    <3>1. CASE r = Chunk
      BY <2>1, <2>2, <2>3, <3>1
    <3>2. CASE r # Chunk
      BY <1>2, <2>1, <2>2, <3>2 DEF HasLeft
    <3> QED
      BY <3>1, <3>2
  <2>5. HasLeft'
    BY <2>4 DEF HasLeft
  <2> QED
    BY <1>3, <2>1, <2>5
<1>5. CASE ChunkHeld
  <2>1. /\ SchedTypes' /\ InChunks /\ Stays /\ InFlight' = InFlight
        /\ UNCHANGED <<waiting, prefilling, running, requests, left, asked, rej>>
    BY <1>0, <1>1, <1>5, ChunkHeldMoves
  <2>2. HasLeft'
    BY <1>2, <2>1 DEF HasLeft, Stays
  <2> QED
    BY <1>3, <2>1, <2>2
<1>6. CASE ChunkGone
  <2>1. InChunks /\ Leaves(Chunk) /\ left[Chunk] = 0
    BY <1>0, <1>1, <1>6, ChunkGoneMoves
  <2>2. Chunk \in Reqs /\ Chunk \in InRound
    BY <2>1 DEF Leaves
  <2> QED
    BY <1>2, <2>1, <2>2 DEF HasLeft
<1>7. ASSUME SchedTypes', InChunks, Leaves(Chunk), InFlight' = InFlight, left' = [left EXCEPT ![Chunk] = 0]
      PROVE  /\ Chunk \in Reqs /\ Chunk \in InRound /\ InRound' = InRound \ {Chunk} /\ RoundDistinct' /\ Held' = Held
             /\ HasLeft'
  <2>1. /\ Chunk \in Reqs /\ Chunk \in InRound /\ InRound' = InRound \ {Chunk} /\ RoundDistinct'
    BY <1>2, <1>7 DEF Leaves, Singly
  <2>2. left \in [Reqs -> Nat] /\ Held' = Held
    BY <1>1, <1>7 DEF SchedTypes, BookTypes, InChunks
  <2>3. ASSUME NEW r \in Reqs PROVE (left'[r] > 0 <=> r \in InRound')
    <3>1. CASE r = Chunk
      BY <1>7, <2>1, <2>2, <3>1
    <3>2. CASE r # Chunk
      BY <1>2, <1>7, <2>1, <2>2, <3>2 DEF HasLeft
    <3> QED
      BY <3>1, <3>2
  <2> QED
    BY <2>1, <2>2, <2>3 DEF HasLeft
<1>8. CASE ChunkEnds
  <2>1. /\ SchedTypes' /\ InChunks /\ Leaves(Chunk) /\ InFlight' = InFlight /\ left' = [left EXCEPT ![Chunk] = 0]
        /\ ToSet(running') = ToSet(running) \cup {Chunk} /\ (Distinct(running) => Distinct(running'))
        /\ UNCHANGED <<waiting, prefilling, requests, asked, rej>>
    BY <1>0, <1>1, <1>8, ChunkEndsMoves
  <2>2. /\ Chunk \in Reqs /\ Chunk \in InRound /\ InRound' = InRound \ {Chunk} /\ RoundDistinct' /\ Held' = Held
        /\ HasLeft'
    BY <1>7, <2>1
  <2>3. Placement'
    BY <1>2, <2>1, <2>2 DEF Placement, Parts
  <2>4. Singly'
    BY <1>2, <2>1, <2>2 DEF Singly
  <2>5. RoundFresh'
    BY <1>2, <2>1, <2>2 DEF RoundFresh
  <2> QED
    BY <1>2, <2>1, <2>2, <2>3, <2>4, <2>5, PlacedKept
<1>9. CASE ChunkFails
  <2>1. /\ SchedTypes' /\ InChunks /\ Leaves(Chunk) /\ InFlight' = InFlight /\ left' = [left EXCEPT ![Chunk] = 0]
        /\ \/ /\ ToSet(waiting') = {Chunk} \cup ToSet(waiting)
              /\ Distinct(waiting) /\ Chunk \notin ToSet(waiting) => Distinct(waiting')
              /\ requests' = requests \cup {Chunk} /\ rej' = rej
           \/ waiting' = waiting /\ requests' = requests \ {Chunk} /\ rej' = rej \cup {Chunk}
        /\ UNCHANGED <<prefilling, running, asked>>
    BY <1>0, <1>1, <1>9, ChunkFailsMoves
  <2>2. /\ Chunk \in Reqs /\ Chunk \in InRound /\ InRound' = InRound \ {Chunk} /\ RoundDistinct' /\ Held' = Held
        /\ HasLeft'
    BY <1>7, <2>1
  <2>3. Chunk \in requests /\ Chunk \notin ToSet(waiting)
    BY <1>2, <2>2 DEF Placement, Parts
  <2>4. Placement'
    BY <1>2, <2>1, <2>2, <2>3 DEF Placement, Parts
  <2>5. Singly'
    BY <1>2, <2>1, <2>2, <2>3 DEF Singly
  <2>6. RoundFresh'
    BY <1>2, <2>1, <2>2 DEF RoundFresh
  <2>7. requests' \subseteq asked'
    BY <1>2, <2>1, <2>3
  <2> QED
    BY <2>1, <2>2, <2>4, <2>5, <2>6, <2>7, PlacedKept
<1> QED
  BY <1>4, <1>5, <1>6, <1>8, <1>9 DEF Advance, ChunkHeld

LEMMA PlacedAbort ==
  ASSUME PlacedInv, NEW r \in Reqs, ProcessAbort(r)
  PROVE  PlacedInv'
<1>1. SchedTypes
  BY DEF PlacedInv
<1>2. Placement /\ Singly /\ HasLeft /\ requests \subseteq asked
  BY DEF PlacedInv
<1>3. CASE AbortKnown(r)
  <2>1. /\ SchedTypes' /\ Outside /\ r \in requests \ InFlight /\ InFlight' = InFlight
        /\ ToSet(waiting') \subseteq ToSet(waiting) /\ ToSet(waiting) \subseteq ToSet(waiting') \cup {r}
        /\ Distinct(waiting) => /\ Distinct(waiting')
                                /\ r \notin ToSet(running) => r \notin ToSet(waiting')
        /\ ToSet(running') = ToSet(running) \ {r} /\ (Distinct(running) => Distinct(running'))
        /\ ToSet(prefilling') = IF left[r] > 0 THEN ToSet(prefilling) \ {r} ELSE ToSet(prefilling)
        /\ Distinct(prefilling) => Distinct(prefilling')
        /\ left' = [left EXCEPT ![r] = 0] /\ requests' = requests \ {r} /\ asked' = asked
    BY <1>1, <1>3, AbortKnownMoves
  <2>2. /\ Held = {} /\ Held' = {} /\ InRound = ToSet(prefilling) /\ InRound' = ToSet(prefilling')
        /\ (RoundDistinct => RoundDistinct') /\ ~At("chunks")'
    BY <2>1 DEF Outside
  <2>3. InRound' = InRound \ {r}
    BY <1>2, <2>1, <2>2 DEF HasLeft
  <2>4. ToSet(waiting') = ToSet(waiting) \ {r}
    <3>1. CASE r \in ToSet(running)
      BY <1>2, <2>1, <3>1 DEF Placement, Parts
    <3>2. CASE r \notin ToSet(running)
      BY <1>2, <2>1, <3>2 DEF Singly
    <3> QED
      BY <3>1, <3>2
  <2>5. Placement'
    BY <1>2, <2>1, <2>2, <2>3, <2>4 DEF Placement, Parts
  <2>6. Singly'
    BY <1>2, <2>1, <2>2 DEF Singly
  <2>7. HasLeft'
    <3>1. left \in [Reqs -> Nat]
      BY <1>1 DEF SchedTypes, BookTypes
    <3> QED
      BY <1>2, <2>1, <2>3, <3>1 DEF HasLeft
  <2> QED
    BY <1>2, <2>1, <2>2, <2>5, <2>6, <2>7, PlacedKept
<1>4. CASE AbortIgnored(r)
  <2>1. SchedTypes' /\ Quiet /\ UNCHANGED <<requests, left, asked, rej>>
    BY <1>1, <1>4, AbortIgnoredMoves
  <2> QED
    BY <2>1, PlacedQuiet
<1>5. ASSUME SchedTypes', Draining PROVE PlacedInv'
  <2>1. /\ Outside /\ InFlight' \subseteq InFlight /\ requests' = requests \ (InFlight \ InFlight')
        /\ UNCHANGED <<waiting, prefilling, running, left, asked>>
    BY <1>1, <1>5, DrainingMoves
  <2>2. Held' = Held /\ InRound' = InRound /\ RoundDistinct' = RoundDistinct /\ ~At("chunks")'
    BY <2>1 DEF Outside
  <2>3. Placement'
    BY <1>2, <2>1, <2>2 DEF Placement, Parts
  <2>4. Singly' /\ HasLeft'
    BY <1>2, <2>1, <2>2 DEF Singly, HasLeft
  <2> QED
    BY <1>2, <1>5, <2>1, <2>2, <2>3, <2>4, PlacedKept
<1>6. CASE AbortStored(r)
  BY <1>1, <1>5, <1>6, AbortStoredMoves
<1> QED
  BY <1>3, <1>4, <1>6 DEF ProcessAbort

LEMMA PlacedDrain ==
  ASSUME PlacedInv, DrainStep
  PROVE  PlacedInv'
<1>1. SchedTypes
  BY DEF PlacedInv
<1>2. Placement /\ Singly /\ HasLeft /\ requests \subseteq asked
  BY DEF PlacedInv
<1>3. SchedTypes' /\ Draining
  BY <1>1, DrainStepMoves
<1>4. /\ Outside /\ InFlight' \subseteq InFlight /\ requests' = requests \ (InFlight \ InFlight')
      /\ UNCHANGED <<waiting, prefilling, running, left, asked>>
  BY <1>1, <1>3, DrainingMoves
<1>5. Held' = Held /\ InRound' = InRound /\ RoundDistinct' = RoundDistinct /\ ~At("chunks")'
  BY <1>4 DEF Outside
<1>6. Placement'
  BY <1>2, <1>4, <1>5 DEF Placement, Parts
<1>7. Singly' /\ HasLeft'
  BY <1>2, <1>4, <1>5 DEF Singly, HasLeft
<1> QED
  BY <1>2, <1>3, <1>4, <1>5, <1>6, <1>7, PlacedKept

LEMMA PlacedAdmit ==
  ASSUME PlacedInv, AdmitBlocked \/ Take
  PROVE  PlacedInv'
<1>1. SchedTypes
  BY DEF PlacedInv
<1>2. Placement /\ Singly /\ HasLeft /\ requests \subseteq asked /\ RoundFresh
  BY DEF PlacedInv
<1>3. CASE AdmitBlocked
  <2>1. /\ SchedTypes' /\ ~At("chunks")'
        /\ \/ Quiet /\ requests' = requests
           \/ \E r \in ToSet(waiting) :
                /\ ToSet(waiting) = ToSet(waiting') \cup {r}
                /\ Distinct(waiting) => Distinct(waiting') /\ r \notin ToSet(waiting')
                /\ requests' = requests \ {r}
        /\ InRound' = InRound /\ RoundDistinct' = RoundDistinct /\ Held' = Held /\ InFlight' = InFlight
        /\ UNCHANGED <<running, prefilling, left, asked>>
    BY <1>1, <1>3, AdmitBlockedMoves
  <2>2. CASE Quiet /\ requests' = requests
    BY <2>1, <2>2, PlacedQuiet
  <2>3. ASSUME NEW r \in ToSet(waiting),
               ToSet(waiting) = ToSet(waiting') \cup {r},
               Distinct(waiting) => Distinct(waiting') /\ r \notin ToSet(waiting'),
               requests' = requests \ {r}
        PROVE  PlacedInv'
    <3>1. Distinct(waiting') /\ r \notin ToSet(waiting')
      BY <1>2, <2>3 DEF Singly
    <3>2. Placement'
      BY <1>2, <2>1, <2>3, <3>1 DEF Placement, Parts
    <3>3. Singly' /\ HasLeft'
      BY <1>2, <2>1, <3>1 DEF Singly, HasLeft
    <3> QED
      BY <1>2, <2>1, <2>3, <3>2, <3>3, PlacedKept
  <2> QED
    BY <2>1, <2>2, <2>3
<1>4. CASE Take
  <2>1. /\ SchedTypes' /\ Held = {} /\ Held' = {cur'} /\ At("prefill")'
        /\ ToSet(waiting) = ToSet(waiting') \cup {cur'}
        /\ Distinct(waiting) => Distinct(waiting') /\ cur' \notin ToSet(waiting')
        /\ InRound' = InRound /\ RoundDistinct' = RoundDistinct /\ InFlight' = InFlight
        /\ UNCHANGED <<running, prefilling, requests, left, asked>>
    BY <1>1, <1>4, TakeMoves
  <2>2. PICK r : r = cur'
    OBVIOUS
  <2>3. Distinct(waiting') /\ r \notin ToSet(waiting')
    BY <1>2, <2>1, <2>2 DEF Singly
  <2>4. Placement'
    BY <1>2, <2>1, <2>2, <2>3 DEF Placement, Parts
  <2>5. Singly' /\ HasLeft'
    BY <1>2, <2>1, <2>3 DEF Singly, HasLeft
  <2>6. ~At("chunks")'
    BY <2>1 DEF At
  <2> QED
    BY <1>2, <2>1, <2>4, <2>5, <2>6, PlacedKept
<1> QED
  BY <1>3, <1>4

LEMMA PlacedDecode ==
  ASSUME PlacedInv, HasUids, Decode
  PROVE  PlacedInv'
<1>1. SchedTypes
  BY DEF PlacedInv
<1>2. Placement /\ Singly /\ HasLeft /\ requests \subseteq asked
  BY DEF PlacedInv
<1>3. /\ SchedTypes' /\ Outside
      /\ Distinct(running) => Distinct(running')
      /\ UNCHANGED <<waiting, prefilling, left, asked>>
  BY <1>1, DecodeMoves
<1>4. PICK finished, kept :
        /\ finished \subseteq ToSet(running) /\ kept \subseteq finished
        /\ ToSet(running') = ToSet(running) \ finished
        /\ InFlight' = InFlight \cup (kept \cap DOMAIN uidOf)
        /\ requests' = requests \ (finished \ kept)
  <2>1. \E finished, kept :
        /\ finished \subseteq ToSet(running) /\ kept \subseteq finished
        /\ ToSet(running') = ToSet(running) \ finished
        /\ InFlight' = InFlight \cup (kept \cap DOMAIN uidOf)
        /\ requests' = requests \ (finished \ kept)
        /\ uidOf' = Drop(uidOf, finished \ kept)
        /\ out' = out \cup rej \cup finished
    BY <1>1, DecodeMoves
  <2> QED
    BY <2>1
<1>5. InFlight' = InFlight \cup kept
  BY <1>4 DEF HasUids
<1>6. Held' = Held /\ InRound' = InRound /\ RoundDistinct' = RoundDistinct /\ ~At("chunks")'
  BY <1>3 DEF Outside
<1>7. Placement'
  BY <1>2, <1>3, <1>4, <1>5, <1>6 DEF Placement, Parts
<1>8. Singly' /\ HasLeft'
  BY <1>2, <1>3, <1>6 DEF Singly, HasLeft
<1> QED
  BY <1>2, <1>3, <1>4, <1>6, <1>7, <1>8, PlacedKept

LEMMA PlacedAdd ==
  ASSUME PlacedInv, NEW r \in Reqs, AddRequest(r)
  PROVE  PlacedInv'
<1>1. SchedTypes
  BY DEF PlacedInv
<1>2. Placement /\ Singly /\ HasLeft /\ requests \subseteq asked
  BY DEF PlacedInv
<1>3. /\ SchedTypes' /\ At("idle") /\ todo' = todo
      /\ asked' = asked \cup {r} /\ r \notin asked /\ requests' = requests \cup {r}
      /\ ToSet(waiting') = ToSet(waiting) \cup {r}
      /\ Distinct(waiting) /\ r \notin ToSet(waiting) => Distinct(waiting')
      /\ UNCHANGED <<running, prefilling, round, still, cur, pend, left>>
  BY <1>1, AddRequestMoves
<1>4. /\ ~At("chunks")' /\ At("chunks")' = At("chunks") /\ At("prefill")' = At("prefill")
  BY <1>3 DEF At
<1>5. InRound' = InRound /\ Held' = Held /\ InFlight' = InFlight
  BY <1>3, <1>4 DEF InRound, Held, InFlight
<1>6. RoundDistinct' = RoundDistinct
  BY <1>3, <1>4 DEF RoundDistinct
<1>7. r \notin requests
  BY <1>2, <1>3
<1>8. Placement'
  BY <1>2, <1>3, <1>5, <1>7 DEF Placement, Parts
<1>9. r \notin ToSet(waiting)
  BY <1>2, <1>7 DEF Placement, Parts
<1>10. Singly' /\ HasLeft'
  BY <1>2, <1>3, <1>5, <1>6, <1>9 DEF Singly, HasLeft
<1> QED
  BY <1>2, <1>3, <1>4, <1>8, <1>10, PlacedKept

LEMMA PlacedRound ==
  ASSUME PlacedInv, StartAdvance \/ AdvanceDone
  PROVE  PlacedInv'
<1>1. SchedTypes
  BY DEF PlacedInv
<1>2. Placement /\ Singly /\ HasLeft /\ requests \subseteq asked
  BY DEF PlacedInv
<1>3. /\ SchedTypes' /\ Held' = Held /\ InRound' = InRound
      /\ (RoundDistinct => RoundDistinct') /\ InFlight' = InFlight
      /\ UNCHANGED <<waiting, running, requests, left, asked>>
  BY <1>1, StartAdvanceMoves, AdvanceDoneMoves
<1>4. At("chunks")' => InRound' = ToSet(prefilling')
  BY <1>1, StartAdvanceMoves, AdvanceDoneMoves
<1>5. Placement'
  BY <1>2, <1>3 DEF Placement
<1>6. At("chunks")' => RoundFresh'
  BY <1>4, <1>5 DEF RoundFresh, Placement, Parts
<1>7. Singly' /\ HasLeft'
  BY <1>2, <1>3 DEF Singly, HasLeft
<1> QED
  BY <1>2, <1>3, <1>5, <1>6, <1>7, PlacedKept

-----------------------------------------------------------------------------
(* Which steps touch the batch generator and the uid maps.                 *)
SameRows == UNCHANGED <<rows, nextUid, uidOf, reqOf, running, pend, stolen>>
Joins(r) == Insert(r) /\ (r \in InRound \/ r \in Held) /\ r \in Reqs /\ pend' = pend /\ stolen' = stolen
Drains == Drain /\ running' = running
Aborted(r) == AbortKnown(r) /\ r \in Reqs
Resets == rows' = <<>> /\ nextUid' = 0 /\ uidOf' = <<>> /\ reqOf' = <<>> /\ ToSet(running') = {}

LEMMA RowSteps ==
  ASSUME Once', PlacedInv, [Next]_vars
  PROVE  \/ SameRows \/ Drains \/ Decode
         \/ \E r \in Reqs : Joins(r) \/ Aborted(r)
         \/ Resets
         \/ FailAll /\ SchedTypes' /\ FailingAll
<1>1. ASSUME NEW r \in Reqs, AddRequest(r) \/ Abort(r) \/ StoreDone(r) PROVE SameRows
  BY <1>1 DEF AddRequest, Abort, StoreDone, SameRows, queues, batch, env, stores
<1>2. CASE BeginStep \/ Pick \/ StartAdvance \/ AdvanceDone \/ NoDecode \/ Finish
  <2>1. SameRows
    BY <1>2 DEF BeginStep, Pick, StartAdvance, AdvanceDone, NoDecode, Finish, SameRows, queues, batch, env, stores
  <2> QED
    BY <2>1
<1>3. CASE AdmitDone \/ AdmitHeld \/ AdmitBlocked \/ AdmitDeferred \/ Take
  <2>1. SameRows
    BY <1>3 DEF AdmitDone, AdmitHeld, AdmitBlocked, AdmitDeferred, Take, Admitting, SameRows, queues, batch, env, stores
  <2> QED
    BY <2>1
<1>4. CASE UNCHANGED vars
  <2>1. SameRows
    BY <1>4 DEF vars, SameRows, queues, batch, env, stores
  <2> QED
    BY <2>1
<1>5. CASE DrainStep
  BY <1>5 DEF DrainStep, Drains
<1>6. ASSUME NEW r \in Reqs, ProcessAbort(r)
      PROVE  SameRows \/ Drains \/ Aborted(r)
  BY <1>6 DEF ProcessAbort, AbortStored, AbortIgnored, Aborted, Drains, SameRows, queues, batch, env, stores
<1>7. CASE Prefill
  <2>1. CASE Prefilled
    <3>1. At("prefill") /\ Insert(cur) /\ pend' = pend /\ stolen' = stolen
      BY <1>7, <2>1 DEF Prefill, Prefilled, Taken, stores, env
    <3>2. cur \in Held /\ cur \in Reqs
      BY <3>1 DEF Held, PlacedInv, SchedTypes, PlanTypes
    <3>3. Joins(cur)
      BY <3>1, <3>2 DEF Joins
    <3> QED
      BY <3>2, <3>3
  <2>2. CASE FirstChunk \/ PrefillFails \/ PrefillPaused \/ PrefillAborted
    <3>1. SameRows
      BY <1>7, <2>2 DEF Prefill, FirstChunk, PrefillFails, PrefillPaused, PrefillAborted, Requeue, Reject, Fault, Strikes,
         SameRows, batch, env, stores
    <3> QED
      BY <3>1
  <2> QED
    BY <1>7, <2>1, <2>2 DEF Prefill
<1>8. CASE Advance
  <2>1. CASE ChunkEnds
    <3>1. AdvanceFrame /\ SchedTypes
      BY <1>8 DEF Advance, AdvanceFrame, PlacedInv
    <3>2. Leaves(Chunk)
      BY <2>1, <3>1, ChunkEndsMoves
    <3>3. Chunk \in Reqs /\ Chunk \in InRound
      BY <3>2 DEF Leaves
    <3>4. Insert(Chunk) /\ pend' = pend /\ stolen' = stolen
      BY <1>8, <2>1 DEF ChunkEnds, Advance, stores, env
    <3>5. Joins(Chunk)
      BY <3>3, <3>4 DEF Joins
    <3> QED
      BY <3>3, <3>5
  <2>2. CASE ChunkRuns \/ ChunkFails \/ ChunkPaused \/ ChunkGone \/ ChunkDeferred
    <3>1. SameRows
      BY <1>8, <2>2 DEF Advance, ChunkRuns, ChunkFails, ChunkPaused, ChunkGone, ChunkDeferred, Requeue, Reject, Fault, Strikes,
         SameRows, queues, batch, env, stores
    <3> QED
      BY <3>1
  <2> QED
    BY <1>8, <2>1, <2>2 DEF Advance
<1>9. ASSUME NEW kind, NEW budget, NEW order, Retry(kind, budget, order), SchedTypes', Retrying(kind, budget)
      PROVE  Resets
  <2>1. ToSet(running') = {}
    BY <1>9, PlacedRetry
  <2> QED
    BY <1>9, <2>1 DEF Retry, Resets
<1>10. CASE Corrupt
  <2>1. SchedTypes
    BY DEF PlacedInv
  <2>2. SchedTypes' /\ Retrying("corrupt", CorruptTries)
    BY <1>10, <2>1, CorruptMoves
  <2>3. Retry("corrupt", CorruptTries, Reverse(Affected))
    BY <1>10 DEF Corrupt
  <2> QED
    BY <1>9, <2>2, <2>3
<1>11. CASE Overflow
  <2>1. SchedTypes
    BY DEF PlacedInv
  <2>2. SchedTypes' /\ Retrying("overflow", OverflowTries)
    BY <1>11, <2>1, OverflowMoves
  <2>3. Retry("overflow", OverflowTries, Affected)
    BY <1>11 DEF Overflow
  <2> QED
    BY <1>9, <2>2, <2>3
<1>12. CASE Fatal
  <2>1. SchedTypes' /\ FailingAll
    BY <1>12, FatalMoves DEF PlacedInv
  <2>2. FailAll
    BY <1>12 DEF Fatal
  <2> QED
    BY <2>1, <2>2
<1>13. CASE AbortRaises
  <2>1. SchedTypes' /\ FailingAll /\ At("aborts")
    BY <1>13, AbortRaisesMoves DEF PlacedInv
  <2>2. FailAll
    BY <1>13 DEF AbortRaises
  <2> QED
    BY <2>1, <2>2
<1> QED
  BY <1>1, <1>2, <1>3, <1>4, <1>5, <1>6, <1>7, <1>8, <1>10, <1>11, <1>12, <1>13 DEF Next, Step

(* The placement holds, and every running request has its uid.             *)
LEMMA PlacedNext ==
  ASSUME Once', PlacedInv, HasUids, [Next]_vars
  PROVE  PlacedInv'
<1>1. SchedTypes
  BY DEF PlacedInv
<1>2. ASSUME NEW r \in Reqs, AddRequest(r) PROVE PlacedInv'
  BY <1>2, PlacedAdd
<1>3. ASSUME NEW r \in Reqs, Abort(r) \/ StoreDone(r) PROVE PlacedInv'
  <2>1. SchedTypes' /\ Quiet /\ UNCHANGED <<requests, left, asked, rej>>
    BY <1>1, <1>3, AbortMoves, StoreDoneMoves
  <2> QED
    BY <2>1, PlacedQuiet
<1>4. CASE BeginStep \/ Pick \/ AdmitQuiet \/ NoDecode \/ UNCHANGED vars
  <2>1. SchedTypes' /\ Quiet /\ UNCHANGED <<requests, left, asked>> /\ (At("chunks")' => rej' = rej)
    BY <1>1, <1>4, BeginStepMoves, PickMoves, AdmitQuietMoves, NoDecodeMoves, StutterMoves
  <2> QED
    BY <2>1, PlacedQuiet
<1>5. CASE Finish
  <2>1. SchedTypes' /\ Quiet /\ UNCHANGED <<requests, left, asked>> /\ ~At("chunks")'
    BY <1>1, <1>5, FinishMoves
  <2> QED
    BY <2>1, PlacedQuiet
<1>6. ASSUME NEW r \in Reqs, ProcessAbort(r) PROVE PlacedInv'
  BY <1>6, PlacedAbort
<1>7. CASE DrainStep
  BY <1>7, PlacedDrain
<1>8. CASE StartAdvance \/ AdvanceDone
  BY <1>8, PlacedRound
<1>9. CASE Advance
  BY <1>9, PlacedAdvance
<1>10. CASE AdmitBlocked \/ Take
  BY <1>10, PlacedAdmit
<1>11. CASE Prefill
  BY <1>11, PlacedPrefill
<1>12. CASE Decode
  BY <1>12, PlacedDecode
<1>13. CASE Corrupt
  <2>1. SchedTypes' /\ Retrying("corrupt", CorruptTries)
    BY <1>1, <1>13, CorruptMoves
  <2> QED
    BY <2>1, PlacedRetry
<1>14. CASE Overflow
  <2>1. SchedTypes' /\ Retrying("overflow", OverflowTries)
    BY <1>1, <1>14, OverflowMoves
  <2> QED
    BY <2>1, PlacedRetry
<1>15. CASE Fatal \/ AbortRaises
  <2>1. SchedTypes' /\ FailingAll
    BY <1>1, <1>15, FatalMoves, AbortRaisesMoves
  <2> QED
    BY <2>1, PlacedFailAll
<1> QED
  BY <1>2, <1>3, <1>4, <1>5, <1>6, <1>7, <1>8, <1>9, <1>10, <1>11, <1>12, <1>13, <1>14, <1>15
     DEF Next, Step, AdmitQuiet

-----------------------------------------------------------------------------
(* Uids, rows and the entries that wait for a store.                       *)
Mapping(f) == f = [x \in DOMAIN f |-> f[x]]
Ended(E) == {e.req : e \in E}

RowsFit(uf, rf, D, R, E, n, st) ==
  /\ Mapping(uf) /\ Mapping(rf)
  /\ R \subseteq DOMAIN uf /\ DOMAIN uf \subseteq R \cup Ended(E)
  /\ \A u \in DOMAIN rf : rf[u] \in DOMAIN uf /\ uf[rf[u]] = u
  /\ \A e \in E : e.req \in DOMAIN uf => uf[e.req] = e.uid
  /\ \A r \in R : uf[r] < n
  /\ \A r \in R : \A q \in R : uf[q] = uf[r] => q = r
  /\ \A r \in R : uf[r] \in DOMAIN rf => rf[uf[r]] = r
  /\ \A u \in D : (u \in DOMAIN rf /\ rf[u] \in R) \/ \E e \in E : e.uid = u
  /\ \A r \in R \ st : uf[r] \in DOMAIN rf /\ uf[r] \in D

LEMMA EmptyMap ==
  /\ Mapping(<<>>) /\ DOMAIN <<>> = {}
  /\ \A f : Mapping(f) /\ DOMAIN f = {} => f = <<>>
<1>1. PICK q : q = <<>>
  OBVIOUS
<1>2. q \in Seq({}) /\ Len(q) = 0
  BY <1>1
<1>3. q \in [1..Len(q) -> {}]
  BY <1>2, LenProperties
<1>4. 1..0 = {}
  OBVIOUS
<1>5. q \in [{} -> {}]
  BY <1>2, <1>3, <1>4
<1>6. ASSUME NEW f, Mapping(f), DOMAIN f = {} PROVE f = q
  BY <1>5, <1>6 DEF Mapping
<1> QED
  BY <1>1, <1>5, <1>6 DEF Mapping

LEMMA FitInsert ==
  ASSUME NEW uf, NEW rf, NEW D, NEW R, NEW E, NEW n \in Nat, NEW st,
         RowsFit(uf, rf, D, R, E, n, st), \A x \in DOMAIN uf : uf[x] \in Nat,
         NEW r, r \notin R, r \notin Ended(E)
  PROVE  RowsFit(Put(uf, r, n), Put(rf, n, r), D \cup {n}, R \cup {r}, E, n + 1, st)
<1>1. PICK uf2, rf2 : uf2 = Put(uf, r, n) /\ rf2 = Put(rf, n, r)
  OBVIOUS
<1>2. /\ DOMAIN uf2 = DOMAIN uf \cup {r} /\ Mapping(uf2) /\ uf2[r] = n /\ \A y \in DOMAIN uf \ {r} : uf2[y] = uf[y]
      /\ DOMAIN rf2 = DOMAIN rf \cup {n} /\ Mapping(rf2) /\ rf2[n] = r /\ \A y \in DOMAIN rf \ {n} : rf2[y] = rf[y]
  <2>1. DOMAIN uf2 = DOMAIN uf \cup {r} /\ Mapping(uf2) /\ uf2[r] = n /\ \A y \in DOMAIN uf \ {r} : uf2[y] = uf[y]
    BY <1>1 DEF Put, Mapping
  <2>2. DOMAIN rf2 = DOMAIN rf \cup {n} /\ Mapping(rf2) /\ rf2[n] = r /\ \A y \in DOMAIN rf \ {n} : rf2[y] = rf[y]
    BY <1>1 DEF Put, Mapping
  <2> QED
    BY <2>1, <2>2
<1>3. r \notin DOMAIN uf /\ R \subseteq DOMAIN uf /\ DOMAIN uf \subseteq R \cup Ended(E)
  BY DEF RowsFit
<1>4. \A u \in DOMAIN rf : rf[u] \in DOMAIN uf /\ uf[rf[u]] = u
  BY DEF RowsFit
<1>5. \A e \in E : e.req \in DOMAIN uf => uf[e.req] = e.uid
  BY DEF RowsFit
<1>6. \A q \in R : uf[q] < n /\ uf[q] \in Nat
  BY <1>3 DEF RowsFit
<1>7. \A u \in DOMAIN rf2 : rf2[u] \in DOMAIN uf2 /\ uf2[rf2[u]] = u
  BY <1>2, <1>3, <1>4
<1>8. \A e \in E : e.req \in DOMAIN uf2 => uf2[e.req] = e.uid
  BY <1>2, <1>3, <1>5 DEF Ended
<1>9. \A q \in R : uf2[q] = uf[q] /\ uf2[q] # n
  BY <1>2, <1>3, <1>6
<1>10. \A q \in R \cup {r} : uf2[q] < n + 1
  BY <1>2, <1>6, <1>9
<1>11. \A q, p \in R \cup {r} : uf2[p] = uf2[q] => p = q
  BY <1>2, <1>9 DEF RowsFit
<1>12. \A q \in R \cup {r} : uf2[q] \in DOMAIN rf2 => rf2[uf2[q]] = q
  BY <1>2, <1>9 DEF RowsFit
<1>13. \A u \in D \cup {n} : (u \in DOMAIN rf2 /\ rf2[u] \in R \cup {r}) \/ \E e \in E : e.uid = u
  BY <1>2 DEF RowsFit
<1>14. \A q \in (R \cup {r}) \ st : uf2[q] \in DOMAIN rf2 /\ uf2[q] \in D \cup {n}
  BY <1>2, <1>9 DEF RowsFit
<1>15. R \cup {r} \subseteq DOMAIN uf2 /\ DOMAIN uf2 \subseteq (R \cup {r}) \cup Ended(E)
  BY <1>2, <1>3
<1>16. RowsFit(uf2, rf2, D \cup {n}, R \cup {r}, E, n + 1, st)
  BY <1>2, <1>7, <1>8, <1>10, <1>11, <1>12, <1>13, <1>14, <1>15 DEF RowsFit
<1> QED
  BY <1>1, <1>16

LEMMA FitDrain ==
  ASSUME NEW uf, NEW rf, NEW D, NEW R, NEW E, NEW n, NEW st, RowsFit(uf, rf, D, R, E, n, st),
         R \cap Ended(E) = {}, NEW S, NEW U, NEW X,
         U = {e.uid : e \in {e \in E : e.req \in S}}, X = Ended(E) \cap S
  PROVE  RowsFit(Drop(uf, X), Drop(rf, U), D \ U, R, {e \in E : e.req \notin S}, n,
                 st \cup ({rf[u] : u \in U \cap DOMAIN rf} \ X))
<1>1. PICK uf2, rf2, F : uf2 = Drop(uf, X) /\ rf2 = Drop(rf, U) /\ F = {e \in E : e.req \notin S}
  OBVIOUS
<1>2. /\ DOMAIN uf2 = DOMAIN uf \ X /\ Mapping(uf2) /\ \A y \in DOMAIN uf \ X : uf2[y] = uf[y]
      /\ DOMAIN rf2 = DOMAIN rf \ U /\ Mapping(rf2) /\ \A y \in DOMAIN rf \ U : rf2[y] = rf[y]
  <2>1. DOMAIN uf2 = DOMAIN uf \ X /\ Mapping(uf2) /\ \A y \in DOMAIN uf \ X : uf2[y] = uf[y]
    BY <1>1 DEF Drop, Mapping
  <2>2. DOMAIN rf2 = DOMAIN rf \ U /\ Mapping(rf2) /\ \A y \in DOMAIN rf \ U : rf2[y] = rf[y]
    BY <1>1 DEF Drop, Mapping
  <2> QED
    BY <2>1, <2>2
<1>3. R \subseteq DOMAIN uf /\ DOMAIN uf \subseteq R \cup Ended(E)
  BY DEF RowsFit
<1>4. \A u \in DOMAIN rf : rf[u] \in DOMAIN uf /\ uf[rf[u]] = u
  BY DEF RowsFit
<1>5. \A e \in E : e.req \in DOMAIN uf => uf[e.req] = e.uid
  BY DEF RowsFit
<1>6. \A x \in X : x \in DOMAIN uf => uf[x] \in U
  BY <1>5 DEF Ended
<1>7. \A u \in DOMAIN rf2 : rf2[u] \in DOMAIN uf2 /\ uf2[rf2[u]] = u
  BY <1>2, <1>4, <1>6
<1>8. \A e \in F : e.req \in DOMAIN uf2 => uf2[e.req] = e.uid
  BY <1>1, <1>2, <1>5
<1>9. \A q \in R : q \notin X /\ q \in DOMAIN uf2 /\ uf2[q] = uf[q]
  BY <1>2, <1>3
<1>10. \A q \in R : uf2[q] < n
  BY <1>9 DEF RowsFit
<1>11. \A q, p \in R : uf2[p] = uf2[q] => p = q
  BY <1>9 DEF RowsFit
<1>12. \A q \in R : uf2[q] \in DOMAIN rf2 => rf2[uf2[q]] = q
  BY <1>2, <1>9 DEF RowsFit
<1>13. \A u \in D \ U : (u \in DOMAIN rf2 /\ rf2[u] \in R) \/ \E e \in F : e.uid = u
  <2>1. ASSUME NEW u \in D \ U, NEW e \in E, e.uid = u PROVE \E g \in F : g.uid = u
    BY <1>1, <2>1
  <2>2. \A u \in D : (u \in DOMAIN rf /\ rf[u] \in R) \/ \E e \in E : e.uid = u
    BY DEF RowsFit
  <2>3. ASSUME NEW u \in D \ U PROVE (u \in DOMAIN rf2 /\ rf2[u] \in R) \/ \E e \in F : e.uid = u
    BY <1>2, <2>1, <2>2
  <2> QED
    BY <2>3
<1>14. ASSUME NEW q \in R \ (st \cup ({rf[u] : u \in U \cap DOMAIN rf} \ X))
       PROVE  uf2[q] \in DOMAIN rf2 /\ uf2[q] \in D \ U
  <2>1. uf2[q] = uf[q] /\ uf[q] \in DOMAIN rf /\ uf[q] \in D /\ rf[uf[q]] = q
    BY <1>9 DEF RowsFit
  <2>2. uf[q] \notin U
    BY <1>9, <2>1
  <2> QED
    BY <1>2, <2>1, <2>2
<1>15. R \subseteq DOMAIN uf2 /\ DOMAIN uf2 \subseteq R \cup Ended(F)
  <2>1. ASSUME NEW x \in Ended(E), x \notin X PROVE x \in Ended(F)
    BY <1>1, <2>1 DEF Ended
  <2> QED
    BY <1>2, <1>3, <1>9, <2>1
<1>16. RowsFit(uf2, rf2, D \ U, R, F, n, st \cup ({rf[u] : u \in U \cap DOMAIN rf} \ X))
  BY <1>2, <1>7, <1>8, <1>10, <1>11, <1>12, <1>13, <1>14, <1>15 DEF RowsFit
<1> QED
  BY <1>1, <1>16

LEMMA FitAbort ==
  ASSUME NEW uf, NEW rf, NEW D, NEW R, NEW E, NEW n, NEW st, RowsFit(uf, rf, D, R, E, n, st),
         NEW r, r \notin Ended(E), r \in DOMAIN uf => uf[r] \in DOMAIN rf,
         NEW V, V = IF r \in DOMAIN uf THEN {uf[r]} ELSE {}
  PROVE  RowsFit(Drop(uf, {r}), Drop(rf, V), D \ V, R \ {r}, E, n, st)
<1>1. PICK uf2, rf2 : uf2 = Drop(uf, {r}) /\ rf2 = Drop(rf, V)
  OBVIOUS
<1>2. /\ DOMAIN uf2 = DOMAIN uf \ {r} /\ Mapping(uf2) /\ \A y \in DOMAIN uf \ {r} : uf2[y] = uf[y]
      /\ DOMAIN rf2 = DOMAIN rf \ V /\ Mapping(rf2) /\ \A y \in DOMAIN rf \ V : rf2[y] = rf[y]
  <2>1. DOMAIN uf2 = DOMAIN uf \ {r} /\ Mapping(uf2) /\ \A y \in DOMAIN uf \ {r} : uf2[y] = uf[y]
    BY <1>1 DEF Drop, Mapping
  <2>2. DOMAIN rf2 = DOMAIN rf \ V /\ Mapping(rf2) /\ \A y \in DOMAIN rf \ V : rf2[y] = rf[y]
    BY <1>1 DEF Drop, Mapping
  <2> QED
    BY <2>1, <2>2
<1>3. R \subseteq DOMAIN uf /\ DOMAIN uf \subseteq R \cup Ended(E)
  BY DEF RowsFit
<1>4. \A u \in DOMAIN rf : rf[u] \in DOMAIN uf /\ uf[rf[u]] = u
  BY DEF RowsFit
<1>5. \A u \in DOMAIN rf2 : rf[u] # r
  BY <1>2, <1>4
<1>6. \A u \in DOMAIN rf2 : rf2[u] \in DOMAIN uf2 /\ uf2[rf2[u]] = u
  BY <1>2, <1>4, <1>5
<1>7. \A e \in E : e.req \in DOMAIN uf2 => uf2[e.req] = e.uid
  BY <1>2 DEF RowsFit
<1>8. \A q \in R \ {r} : uf2[q] = uf[q] /\ uf[q] \notin V
  <2>1. r \in DOMAIN uf => r \in R
    BY <1>3
  <2>2. \A q \in R, p \in R : uf[q] = uf[p] => q = p
    BY DEF RowsFit
  <2> QED
    BY <1>2, <1>3, <2>1, <2>2
<1>9. \A q \in R \ {r} : uf2[q] < n
  BY <1>8 DEF RowsFit
<1>10. \A q, p \in R \ {r} : uf2[p] = uf2[q] => p = q
  BY <1>8 DEF RowsFit
<1>11. \A q \in R \ {r} : uf2[q] \in DOMAIN rf2 => rf2[uf2[q]] = q
  BY <1>2, <1>8 DEF RowsFit
<1>12. \A u \in D \ V : (u \in DOMAIN rf2 /\ rf2[u] \in R \ {r}) \/ \E e \in E : e.uid = u
  BY <1>2, <1>5 DEF RowsFit
<1>13. \A q \in (R \ {r}) \ st : uf2[q] \in DOMAIN rf2 /\ uf2[q] \in D \ V
  BY <1>2, <1>8 DEF RowsFit
<1>14. R \ {r} \subseteq DOMAIN uf2 /\ DOMAIN uf2 \subseteq (R \ {r}) \cup Ended(E)
  BY <1>2, <1>3
<1>15. RowsFit(uf2, rf2, D \ V, R \ {r}, E, n, st)
  BY <1>2, <1>6, <1>7, <1>9, <1>10, <1>11, <1>12, <1>13, <1>14 DEF RowsFit
<1> QED
  BY <1>1, <1>15

LEMMA FitDecode ==
  ASSUME NEW uf, NEW rf, NEW D, NEW R, NEW E, NEW n, NEW st, RowsFit(uf, rf, D, R, E, n, st),
         NEW ends, NEW fin \in SUBSET R, NEW kept \in SUBSET fin,
         \A u \in ends : u \in DOMAIN rf /\ rf[u] \in R => rf[u] \in fin,
         NEW free, free = {uf[r] : r \in (fin \ kept) \cap DOMAIN uf}
  PROVE  RowsFit(Drop(uf, fin \ kept), Drop(rf, free), (D \ ends) \ free, R \ fin,
                 E \cup {[uid |-> uf[r], req |-> r] : r \in kept \cap DOMAIN uf}, n, st)
<1>1. PICK uf2, rf2, F : /\ uf2 = Drop(uf, fin \ kept) /\ rf2 = Drop(rf, free)
                         /\ F = E \cup {[uid |-> uf[r], req |-> r] : r \in kept \cap DOMAIN uf}
  OBVIOUS
<1>2. /\ DOMAIN uf2 = DOMAIN uf \ (fin \ kept) /\ Mapping(uf2) /\ \A y \in DOMAIN uf \ (fin \ kept) : uf2[y] = uf[y]
      /\ DOMAIN rf2 = DOMAIN rf \ free /\ Mapping(rf2) /\ \A y \in DOMAIN rf \ free : rf2[y] = rf[y]
  <2>1. DOMAIN uf2 = DOMAIN uf \ (fin \ kept) /\ Mapping(uf2) /\ \A y \in DOMAIN uf \ (fin \ kept) : uf2[y] = uf[y]
    BY <1>1 DEF Drop, Mapping
  <2>2. DOMAIN rf2 = DOMAIN rf \ free /\ Mapping(rf2) /\ \A y \in DOMAIN rf \ free : rf2[y] = rf[y]
    BY <1>1 DEF Drop, Mapping
  <2> QED
    BY <2>1, <2>2
<1>3. R \subseteq DOMAIN uf /\ DOMAIN uf \subseteq R \cup Ended(E)
  BY DEF RowsFit
<1>4. \A u \in DOMAIN rf : rf[u] \in DOMAIN uf /\ uf[rf[u]] = u
  BY DEF RowsFit
<1>5. \A u \in DOMAIN rf2 : rf[u] \notin fin \ kept
  BY <1>2, <1>4
<1>6. \A u \in DOMAIN rf2 : rf2[u] \in DOMAIN uf2 /\ uf2[rf2[u]] = u
  BY <1>2, <1>4, <1>5
<1>7. \A e \in E : e.req \in DOMAIN uf => uf[e.req] = e.uid
  BY DEF RowsFit
<1>8. ASSUME NEW e \in F, e.req \in DOMAIN uf2 PROVE uf2[e.req] = e.uid
  <2>1. CASE e \in E
    BY <1>2, <1>7, <1>8, <2>1
  <2>2. CASE e \notin E
    <3>1. PICK r \in kept \cap DOMAIN uf : e = [uid |-> uf[r], req |-> r]
      BY <1>1, <2>2
    <3>2. e.req = r /\ e.uid = uf[r]
      BY <3>1
    <3> QED
      BY <1>2, <3>2
  <2> QED
    BY <2>1, <2>2
<1>9. \A q \in R, p \in R : uf[q] = uf[p] => q = p
  BY DEF RowsFit
<1>10. \A q \in R \ fin : uf2[q] = uf[q] /\ uf[q] \notin free
  BY <1>2, <1>3, <1>9
<1>11. \A q \in R \ fin : uf2[q] < n
  BY <1>10 DEF RowsFit
<1>12. \A q, p \in R \ fin : uf2[p] = uf2[q] => p = q
  BY <1>9, <1>10
<1>13. \A q \in R \ fin : uf2[q] \in DOMAIN rf2 => rf2[uf2[q]] = q
  BY <1>2, <1>10 DEF RowsFit
<1>14. \A u \in D : (u \in DOMAIN rf /\ rf[u] \in R) \/ \E e \in E : e.uid = u
  BY DEF RowsFit
<1>15. ASSUME NEW u \in (D \ ends) \ free
       PROVE  (u \in DOMAIN rf2 /\ rf2[u] \in R \ fin) \/ \E e \in F : e.uid = u
  <2>1. CASE \E e \in E : e.uid = u
    BY <1>1, <2>1
  <2>2. CASE u \in DOMAIN rf /\ rf[u] \in R
    <3>1. u \in DOMAIN rf2 /\ rf2[u] = rf[u] /\ rf[u] \notin fin \ kept
      BY <1>2, <1>5, <2>2
    <3>2. CASE rf[u] \in kept
      <4>1. rf[u] \in kept \cap DOMAIN uf /\ uf[rf[u]] = u
        BY <1>4, <2>2, <3>2
      <4>2. [uid |-> uf[rf[u]], req |-> rf[u]] \in F
        BY <1>1, <4>1
      <4> QED
        BY <4>1, <4>2
    <3>3. CASE rf[u] \notin kept
      BY <2>2, <3>1, <3>3
    <3> QED
      BY <3>2, <3>3
  <2> QED
    BY <1>14, <2>1, <2>2
<1>16. ASSUME NEW q \in (R \ fin) \ st PROVE uf2[q] \in DOMAIN rf2 /\ uf2[q] \in (D \ ends) \ free
  <2>1. uf[q] \in DOMAIN rf /\ uf[q] \in D /\ rf[uf[q]] = q
    BY DEF RowsFit
  <2>2. uf[q] \notin ends
    BY <2>1
  <2> QED
    BY <1>2, <1>10, <2>1, <2>2
<1>17. R \ fin \subseteq DOMAIN uf2
  BY <1>2, <1>3
<1>18. ASSUME NEW x \in DOMAIN uf2 PROVE x \in (R \ fin) \cup Ended(F)
  <2>1. CASE x \in kept
    <3>1. [uid |-> uf[x], req |-> x] \in F
      BY <1>1, <1>2, <2>1
    <3> QED
      BY <3>1 DEF Ended
  <2>2. CASE x \in Ended(E)
    BY <1>1, <2>2 DEF Ended
  <2> QED
    BY <1>2, <1>3, <2>1, <2>2
<1>19. RowsFit(uf2, rf2, (D \ ends) \ free, R \ fin, F, n, st)
  BY <1>2, <1>6, <1>8, <1>11, <1>12, <1>13, <1>15, <1>16, <1>17, <1>18 DEF RowsFit
<1> QED
  BY <1>1, <1>19

LEMMA FitFail ==
  ASSUME NEW uf, NEW rf, NEW D, NEW R, NEW E, NEW n, NEW st, RowsFit(uf, rf, D, R, E, n, st),
         NEW X, R \subseteq X, NEW st2
  PROVE  RowsFit(Drop(uf, X), Drop(rf, {uf[r] : r \in X \cap DOMAIN uf}), {}, {}, E, 0, st2)
<1>1. PICK uf2, rf2, V : uf2 = Drop(uf, X) /\ V = {uf[r] : r \in X \cap DOMAIN uf} /\ rf2 = Drop(rf, V)
  OBVIOUS
<1>2. /\ DOMAIN uf2 = DOMAIN uf \ X /\ Mapping(uf2) /\ \A y \in DOMAIN uf \ X : uf2[y] = uf[y]
      /\ DOMAIN rf2 = DOMAIN rf \ V /\ Mapping(rf2) /\ \A y \in DOMAIN rf \ V : rf2[y] = rf[y]
  <2>1. DOMAIN uf2 = DOMAIN uf \ X /\ Mapping(uf2) /\ \A y \in DOMAIN uf \ X : uf2[y] = uf[y]
    BY <1>1 DEF Drop, Mapping
  <2>2. DOMAIN rf2 = DOMAIN rf \ V /\ Mapping(rf2) /\ \A y \in DOMAIN rf \ V : rf2[y] = rf[y]
    BY <1>1 DEF Drop, Mapping
  <2> QED
    BY <2>1, <2>2
<1>3. DOMAIN uf2 \subseteq Ended(E)
  BY <1>2 DEF RowsFit
<1>4. \A u \in DOMAIN rf : rf[u] \in DOMAIN uf /\ uf[rf[u]] = u
  BY DEF RowsFit
<1>5. \A u \in DOMAIN rf2 : rf2[u] \in DOMAIN uf2 /\ uf2[rf2[u]] = u
  BY <1>1, <1>2, <1>4
<1>6. \A e \in E : e.req \in DOMAIN uf2 => uf2[e.req] = e.uid
  BY <1>2 DEF RowsFit
<1>7. RowsFit(uf2, rf2, {}, {}, E, 0, st2)
  BY <1>2, <1>3, <1>5, <1>6 DEF RowsFit
<1> QED
  BY <1>1, <1>7

LEMMA FitReset ==
  ASSUME NEW E, NEW st
  PROVE  RowsFit(<<>>, <<>>, {}, {}, E, 0, st)
  BY EmptyMap DEF RowsFit

Rowed == RowsFit(uidOf, reqOf, DOMAIN rows, ToSet(running), ToSet(pend), nextUid, stolen)
RowsInv == PlacedInv /\ Rowed

LEMMA EndedInFlight ==
  ASSUME SchedTypes
  PROVE  Ended(ToSet(pend)) = InFlight /\ ToSet(pend) = {pend[i] : i \in 1..Len(pend)}
<1>1. PICK E, p : E = [uid : Nat, req : Reqs] /\ p = pend
  OBVIOUS
<1>2. p \in Seq(E)
  BY <1>1 DEF SchedTypes, BookTypes
<1>3. ToSet(p) = {p[i] : i \in 1..Len(p)}
  BY <1>2, AsSet
<1>4. ToSet(pend) = {pend[i] : i \in 1..Len(pend)}
  BY <1>1, <1>3
<1> QED
  BY <1>4 DEF Ended, InFlight

LEMMA RowsInit == Init => RowsInv
<1> SUFFICES ASSUME Init PROVE RowsInv
  OBVIOUS
<1>1. PlacedInv
  BY PlacedInit
<1>2. ToSet(running) = {} /\ DOMAIN rows = {}
  BY QueuesEmpty DEF Init
<1>3. uidOf = <<>> /\ reqOf = <<>> /\ nextUid = 0
  BY DEF Init
<1>4. RowsFit(<<>>, <<>>, {}, {}, ToSet(pend), 0, stolen)
  BY FitReset
<1>5. Rowed
  BY <1>2, <1>3, <1>4 DEF Rowed
<1> QED
  BY <1>1, <1>5 DEF RowsInv

LEMMA RowsJoin ==
  ASSUME RowsInv, NEW r \in Reqs, Joins(r)
  PROVE  Rowed'
<1>1. SchedTypes /\ Placement /\ Rowed
  BY DEF RowsInv, PlacedInv
<1>2. /\ uidOf' = Put(uidOf, r, nextUid) /\ reqOf' = Put(reqOf, nextUid, r)
      /\ rows' = Put(rows, nextUid, -1) /\ nextUid' = nextUid + 1 /\ pend' = pend /\ stolen' = stolen
  BY DEF Joins, Insert
<1>3. r \notin ToSet(running) /\ r \notin InFlight
  BY <1>1 DEF Joins, Placement, Parts
<1>4. Insert(r)
  BY DEF Joins
<1>5. ToSet(running') = ToSet(running) \cup {r}
  BY <1>1, <1>4, InsertMoves
<1>6. DOMAIN rows' = DOMAIN rows \cup {nextUid}
  BY <1>2 DEF Put
<1>7. nextUid \in Nat /\ \A x \in DOMAIN uidOf : uidOf[x] \in Nat
  BY <1>1 DEF SchedTypes, BookTypes
<1>8. r \notin Ended(ToSet(pend))
  BY <1>1, <1>3, EndedInFlight
<1>9. PICK D, R, E, n : D = DOMAIN rows /\ R = ToSet(running) /\ E = ToSet(pend) /\ n = nextUid
  OBVIOUS
<1>10. RowsFit(uidOf, reqOf, D, R, E, n, stolen)
  BY <1>1, <1>9 DEF Rowed
<1>11. n \in Nat /\ (\A x \in DOMAIN uidOf : uidOf[x] \in Nat) /\ r \notin R /\ r \notin Ended(E)
  BY <1>3, <1>7, <1>8, <1>9
<1>12. RowsFit(Put(uidOf, r, n), Put(reqOf, n, r), D \cup {n}, R \cup {r}, E, n + 1, stolen)
  BY <1>10, <1>11, FitInsert
<1> QED
  BY <1>2, <1>5, <1>6, <1>9, <1>12 DEF Rowed

LEMMA RowsDrain ==
  ASSUME RowsInv, Drains
  PROVE  Rowed'
<1>1. SchedTypes /\ Placement /\ Rowed
  BY DEF RowsInv, PlacedInv
<1>2. pend \in Seq([uid : Nat, req : Reqs])
  BY <1>1 DEF SchedTypes, BookTypes
<1>3. PICK n \in Nat : n = Len(pend)
  BY <1>2, LenProperties
<1>4. PICK ready : ready = {i \in 1..n : pend[i].req \in stored}
  OBVIOUS
<1>5. PICK U, X : U = {pend[i].uid : i \in ready} /\ X = {pend[i].req : i \in ready}
  OBVIOUS
<1>6. /\ pend' = Chosen(pend, 1..n \ ready) /\ rows' = Drop(rows, U) /\ reqOf' = Drop(reqOf, U)
      /\ uidOf' = Drop(uidOf, X) /\ stolen' = stolen \cup ({reqOf[u] : u \in U \cap DOMAIN reqOf} \ X)
      /\ nextUid' = nextUid /\ running' = running
  BY <1>3, <1>4, <1>5 DEF Drains, Drain
<1>7. PICK E : E = ToSet(pend)
  OBVIOUS
<1>8. E = {pend[i] : i \in 1..n} /\ Ended(E) = InFlight
  BY <1>1, <1>3, <1>7, EndedInFlight
<1>9. U = {e.uid : e \in {e \in E : e.req \in stored}}
  BY <1>4, <1>5, <1>8
<1>10. X = Ended(E) \cap stored
  BY <1>4, <1>5, <1>8 DEF Ended
<1>11. ToSet(pend') = {e \in E : e.req \notin stored}
  <2>1. PICK T, p : T = [uid : Nat, req : Reqs] /\ p = pend
    OBVIOUS
  <2>2. p \in Seq(T)
    BY <1>2, <2>1
  <2>3. ToSet(Chosen(p, 1..n \ ready)) = {p[i] : i \in (1..n \ ready) \cap (1..Len(p))}
    BY <2>2, ChosenSet
  <2>4. {p[i] : i \in (1..n \ ready) \cap (1..Len(p))} = {e \in E : e.req \notin stored}
    <3>1. Len(p) = n
      BY <1>3, <2>1
    <3>2. ASSUME NEW e \in {p[i] : i \in (1..n \ ready) \cap (1..Len(p))} PROVE e \in {x \in E : x.req \notin stored}
      BY <1>4, <1>8, <2>1, <3>1
    <3>3. ASSUME NEW e \in {x \in E : x.req \notin stored} PROVE e \in {p[i] : i \in (1..n \ ready) \cap (1..Len(p))}
      BY <1>4, <1>8, <2>1, <3>1
    <3> QED
      BY <3>2, <3>3
  <2> QED
    BY <1>6, <2>1, <2>3, <2>4
<1>12. DOMAIN rows' = DOMAIN rows \ U
  BY <1>6 DEF Drop
<1>13. PICK D, R, k, S : D = DOMAIN rows /\ R = ToSet(running) /\ k = nextUid /\ S = stored
  OBVIOUS
<1>14. RowsFit(uidOf, reqOf, D, R, E, k, stolen)
  BY <1>1, <1>7, <1>13 DEF Rowed
<1>15. R \cap Ended(E) = {}
  BY <1>1, <1>8, <1>13 DEF Placement, Parts
<1>16. U = {e.uid : e \in {e \in E : e.req \in S}} /\ X = Ended(E) \cap S
  BY <1>9, <1>10, <1>13
<1>17. RowsFit(Drop(uidOf, X), Drop(reqOf, U), D \ U, R, {e \in E : e.req \notin S}, k,
               stolen \cup ({reqOf[u] : u \in U \cap DOMAIN reqOf} \ X))
  BY <1>14, <1>15, <1>16, FitDrain
<1> QED
  BY <1>6, <1>11, <1>12, <1>13, <1>17 DEF Rowed

LEMMA RowsAbort ==
  ASSUME RowsInv, NEW r \in Reqs, Aborted(r)
  PROVE  Rowed'
<1>1. SchedTypes /\ Placement /\ Rowed
  BY DEF RowsInv, PlacedInv
<1>2. PICK V : V = IF r \in DOMAIN uidOf THEN {uidOf[r]} ELSE {}
  OBVIOUS
<1>3. /\ rows' = Drop(rows, V) /\ reqOf' = Drop(reqOf, V) /\ uidOf' = Drop(uidOf, {r})
      /\ nextUid' = nextUid /\ pend' = pend /\ stolen' = stolen /\ r \notin InFlight
      /\ (r \in DOMAIN uidOf => uidOf[r] \in DOMAIN reqOf)
  BY <1>2 DEF Aborted, AbortKnown, HasUid, Unmapped, stores, env
<1>4. ToSet(running') = ToSet(running) \ {r}
  BY <1>1, RemovedMoves DEF Aborted, AbortKnown
<1>5. DOMAIN rows' = DOMAIN rows \ V
  BY <1>3 DEF Drop
<1>6. PICK D, R, E, n : D = DOMAIN rows /\ R = ToSet(running) /\ E = ToSet(pend) /\ n = nextUid
  OBVIOUS
<1>7. RowsFit(uidOf, reqOf, D, R, E, n, stolen) /\ r \notin Ended(E)
  BY <1>1, <1>3, <1>6, EndedInFlight DEF Rowed
<1>8. RowsFit(Drop(uidOf, {r}), Drop(reqOf, V), D \ V, R \ {r}, E, n, stolen)
  BY <1>2, <1>3, <1>7, FitAbort
<1> QED
  BY <1>3, <1>4, <1>5, <1>6, <1>8 DEF Rowed

LEMMA RowsDecode ==
  ASSUME RowsInv, Decode
  PROVE  Rowed'
<1>1. SchedTypes /\ Placement /\ Rowed
  BY DEF RowsInv, PlacedInv
<1>2. PICK ends, stops, finished, kept :
        /\ finished = EndedBy(ends \cup stops) /\ kept \in SUBSET finished
        /\ CleanUp(finished, kept, [u \in DOMAIN rows \ ends |-> Tokens(u)])
  BY Zenon DEF Decode
<1>3. nextUid' = nextUid /\ stolen' = stolen
  BY DEF Decode, env
<1>4. PICK made : made = [u \in DOMAIN rows \ ends |-> Tokens(u)]
  OBVIOUS
<1>5. finished \subseteq ToSet(running)
  BY <1>2 DEF EndedBy
<1>6. \A u \in ends : u \in DOMAIN reqOf /\ reqOf[u] \in ToSet(running) => reqOf[u] \in finished
  BY <1>2 DEF EndedBy
<1>7. PICK free, late : /\ free = {uidOf[r] : r \in (finished \ kept) \cap DOMAIN uidOf}
                        /\ late = {[uid |-> uidOf[r], req |-> r] : r \in kept \cap DOMAIN uidOf}
  OBVIOUS
<1>8. CleanUp(finished, kept, made)
  BY <1>2, <1>4
<1>9. /\ rows' = Drop(made, free) /\ reqOf' = Drop(reqOf, free) /\ uidOf' = Drop(uidOf, finished \ kept)
      /\ pend' = pend \o SetToSeq(late)
  BY <1>7, <1>8 DEF CleanUp
<1>10. ToSet(running') = ToSet(running) \ finished
  BY <1>1, <1>2, <1>5, <1>8, CleanUpMoves
<1>11. DOMAIN rows' = (DOMAIN rows \ ends) \ free
  <2>1. DOMAIN made = DOMAIN rows \ ends
    BY <1>4
  <2> QED
    BY <1>9, <2>1 DEF Drop
<1>12. ToSet(pend') = ToSet(pend) \cup late
  <2>1. /\ running \in Seq(Reqs) /\ pend \in Seq([uid : Nat, req : Reqs])
        /\ DOMAIN uidOf \subseteq Reqs /\ \A r \in DOMAIN uidOf : uidOf[r] \in Nat
    BY <1>1 DEF SchedTypes, QueueTypes, BookTypes
  <2>2. IsFiniteSet(kept)
    <3>1. PICK R : R = ToSet(running)
      OBVIOUS
    <3>2. IsFiniteSet(R)
      BY <2>1, <3>1, FewElements
    <3> QED
      BY <1>2, <1>5, <3>1, <3>2, FS_Subset
  <2>3. PICK K : K = kept \cap DOMAIN uidOf
    OBVIOUS
  <2>4. IsFiniteSet(K)
    BY <2>2, <2>3, FS_Subset
  <2>5. PICK f : f = [r \in K |-> [uid |-> uidOf[r], req |-> r]]
    OBVIOUS
  <2>6. f \in Surjection(K, late)
    BY <1>7, <2>3, <2>5 DEF Surjection
  <2>7. IsFiniteSet(late)
    BY <2>4, <2>6, FS_Surjection
  <2>8. PICK s \in Seq(late) : s = SetToSeq(late) /\ ToSet(s) = late
    BY <2>7, SeqOfSet
  <2>9. late \subseteq [uid : Nat, req : Reqs]
    BY <1>7, <2>1
  <2>10. s \in Seq([uid : Nat, req : Reqs])
    BY <2>8, <2>9, SeqMonotonic
  <2>11. PICK p : p = pend \o s
    OBVIOUS
  <2>12. ToSet(p) = ToSet(pend) \cup ToSet(s)
    BY <2>1, <2>10, <2>11, ConcatSet
  <2> QED
    BY <1>9, <2>8, <2>11, <2>12
<1>13. PICK D, R, E, n, uf, rf : /\ D = DOMAIN rows /\ R = ToSet(running) /\ E = ToSet(pend) /\ n = nextUid
                                 /\ uf = uidOf /\ rf = reqOf
  OBVIOUS
<1>14. RowsFit(uf, rf, D, R, E, n, stolen)
  BY <1>1, <1>13 DEF Rowed
<1>15. /\ finished \in SUBSET R /\ kept \in SUBSET finished
       /\ (\A u \in ends : u \in DOMAIN rf /\ rf[u] \in R => rf[u] \in finished)
       /\ free = {uf[r] : r \in (finished \ kept) \cap DOMAIN uf}
       /\ late = {[uid |-> uf[r], req |-> r] : r \in kept \cap DOMAIN uf}
  BY <1>2, <1>5, <1>6, <1>7, <1>13
<1>16. RowsFit(Drop(uf, finished \ kept), Drop(rf, free), (D \ ends) \ free, R \ finished,
               E \cup {[uid |-> uf[r], req |-> r] : r \in kept \cap DOMAIN uf}, n, stolen)
  BY <1>14, <1>15, FitDecode
<1> QED
  BY <1>3, <1>9, <1>10, <1>11, <1>12, <1>13, <1>15, <1>16 DEF Rowed

LEMMA RowsFail ==
  ASSUME RowsInv, FailAll, SchedTypes', FailingAll
  PROVE  Rowed'
<1>1. PlacedInv /\ Rowed
  BY DEF RowsInv
<1>2. ToSet(running) \subseteq FailedAll
  BY DEF FailedAll
<1>3. PICK X : X = FailedAll
  OBVIOUS
<1>4. /\ uidOf' = Drop(uidOf, X) /\ rows' = <<>> /\ reqOf' = Drop(reqOf, {uidOf[r] : r \in X \cap DOMAIN uidOf})
      /\ ToSet(running') = {} /\ pend' = pend
  BY <1>3 DEF FailingAll
<1>5. nextUid' = 0
  BY DEF FailAll
<1>6. PICK st : st = stolen'
  OBVIOUS
<1>7. DOMAIN rows' = {}
  BY <1>4, EmptyMap
<1>8. RowsFit(uidOf, reqOf, DOMAIN rows, ToSet(running), ToSet(pend), nextUid, stolen)
  BY <1>1 DEF Rowed
<1>9. PICK D, R, E, n, st0 : /\ D = DOMAIN rows /\ R = ToSet(running) /\ E = ToSet(pend) /\ n = nextUid
                              /\ st0 = stolen
  OBVIOUS
<1>10. RowsFit(uidOf, reqOf, D, R, E, n, st0) /\ R \subseteq X
  BY <1>2, <1>3, <1>8, <1>9
<1>11. RowsFit(Drop(uidOf, X), Drop(reqOf, {uidOf[r] : r \in X \cap DOMAIN uidOf}), {}, {}, E, 0, st)
  BY <1>10, FitFail
<1> QED
  BY <1>4, <1>5, <1>6, <1>7, <1>9, <1>11 DEF Rowed

LEMMA RowsNext == RowsInv /\ Once' /\ [Next]_vars => RowsInv'
<1> SUFFICES ASSUME RowsInv, Once', [Next]_vars PROVE RowsInv'
  OBVIOUS
<1>1. PlacedInv /\ Rowed
  BY DEF RowsInv
<1>2. HasUids
  BY <1>1 DEF Rowed, RowsFit, HasUids
<1>3. PlacedInv'
  BY <1>1, <1>2, PlacedNext
<1>4. \/ SameRows \/ Drains \/ Decode
      \/ \E r \in Reqs : Joins(r) \/ Aborted(r)
      \/ Resets
      \/ FailAll /\ SchedTypes' /\ FailingAll
  BY <1>1, RowSteps
<1>5. ASSUME SameRows PROVE Rowed'
  BY <1>1, <1>5 DEF Rowed, SameRows
<1>6. ASSUME Drains PROVE Rowed'
  BY <1>6, RowsDrain
<1>7. ASSUME Decode PROVE Rowed'
  BY <1>7, RowsDecode
<1>8. ASSUME NEW r \in Reqs, Joins(r) \/ Aborted(r) PROVE Rowed'
  BY <1>8, RowsJoin, RowsAbort
<1>9. ASSUME Resets PROVE Rowed'
  <2>1. uidOf' = <<>> /\ reqOf' = <<>> /\ rows' = <<>> /\ nextUid' = 0 /\ ToSet(running') = {}
    BY <1>9 DEF Resets
  <2>2. DOMAIN rows' = {}
    BY <2>1, EmptyMap
  <2>3. PICK E, st : E = ToSet(pend') /\ st = stolen'
    OBVIOUS
  <2>4. RowsFit(<<>>, <<>>, {}, {}, E, 0, st)
    BY FitReset
  <2> QED
    BY <2>1, <2>2, <2>3, <2>4 DEF Rowed
<1>10. ASSUME FailAll /\ SchedTypes' /\ FailingAll PROVE Rowed'
  BY <1>10, RowsFail
<1>11. Rowed'
  BY <1>4, <1>5, <1>6, <1>7, <1>8, <1>9, <1>10
<1> QED
  BY <1>3, <1>11 DEF RowsInv

LEMMA OnceFirst == [Next]_vars /\ Once' => Once
  BY TwiceGrows

LEMMA RowsSafe == Spec => [](Once => RowsInv)
<1>1. RowsInv /\ Once' /\ [Next]_vars => RowsInv'
  BY RowsNext
<1> QED
  BY <1>1, OnceFirst, RowsInit, PTL DEF Spec

LEMMA HasRowOfInv == RowsInv => RunningHasRow
<1> SUFFICES ASSUME RowsInv, NEW r \in ToSet(running) \ (stolen \cup twice) PROVE HasRow(r)
  BY DEF RunningHasRow
<1>1. Rowed
  BY DEF RowsInv
<1>2. r \in DOMAIN uidOf /\ uidOf[r] \in DOMAIN reqOf /\ reqOf[uidOf[r]] = r /\ uidOf[r] \in DOMAIN rows
  BY <1>1 DEF Rowed, RowsFit
<1> QED
  BY <1>2 DEF HasRow, HasUid

LEMMA NoGhostOfInv == RowsInv => NoGhostRow
<1> SUFFICES ASSUME RowsInv, NEW u \in DOMAIN rows
             PROVE  \/ u \in DOMAIN reqOf /\ reqOf[u] \in ToSet(running) \cup twice
                    \/ \E i \in 1..Len(pend) : pend[i].uid = u
  BY DEF NoGhostRow
<1>1. ToSet(pend) = {pend[i] : i \in 1..Len(pend)}
  BY EndedInFlight DEF RowsInv, PlacedInv
<1>2. (u \in DOMAIN reqOf /\ reqOf[u] \in ToSet(running)) \/ \E e \in ToSet(pend) : e.uid = u
  BY DEF RowsInv, Rowed, RowsFit
<1> QED
  BY <1>1, <1>2

LEMMA NothingLeftOfInv == RowsInv => NothingLeft
<1> SUFFICES ASSUME RowsInv, At("idle"), ~HasRequests
             PROVE  requests = {} /\ DOMAIN uidOf = {} /\ DOMAIN reqOf = {} /\ \A r \in Reqs : left[r] = 0
  BY DEF NothingLeft
<1>1. SchedTypes /\ Placement /\ HasLeft /\ Rowed
  BY DEF RowsInv, PlacedInv
<1>2. waiting = <<>> /\ prefilling = <<>> /\ running = <<>> /\ pend = <<>>
  BY DEF HasRequests
<1>3. ToSet(waiting) = {} /\ ToSet(prefilling) = {} /\ ToSet(running) = {}
  BY <1>2, QueuesEmpty
<1>4. ToSet(pend) = {}
  BY <1>2, QueuesEmpty
<1>5. InFlight = {}
  BY <1>1, <1>4, EndedInFlight DEF Ended
<1>6. ~At("chunks") /\ ~At("prefill")
  BY DEF At
<1>7. InRound = {} /\ Held = {}
  BY <1>3, <1>6 DEF InRound, Held
<1>8. requests = {}
  BY <1>1, <1>3, <1>5, <1>7 DEF Placement, Parts
<1>9. DOMAIN uidOf = {} /\ Mapping(uidOf) /\ Mapping(reqOf)
  <2>1. /\ DOMAIN uidOf \subseteq ToSet(running) \cup Ended(ToSet(pend))
        /\ Mapping(uidOf) /\ Mapping(reqOf)
    BY <1>1 DEF Rowed, RowsFit
  <2>2. Ended(ToSet(pend)) = {}
    BY <1>1, <1>5, EndedInFlight
  <2> QED
    BY <1>3, <2>1, <2>2
<1>10. \A u \in DOMAIN reqOf : reqOf[u] \in DOMAIN uidOf
  BY <1>1 DEF Rowed, RowsFit
<1>11. DOMAIN reqOf = {}
  BY <1>9, <1>10
<1>12. ASSUME NEW r \in Reqs PROVE left[r] = 0
  <2>1. left[r] \in Nat /\ ~(left[r] > 0)
    BY <1>1, <1>7 DEF HasLeft, SchedTypes, BookTypes
  <2> QED
    BY <2>1
<1> QED
  BY <1>8, <1>9, <1>11, <1>12

(* The theorems below hold as long as no recovery has collected a request  *)
(* whose chunk had been requeued or rejected earlier in the round.         *)

(* A running request decodes: its uid leads to it and to a row of the      *)
(* generator, unless another request's deferred clean-up took the row.     *)
THEOREM EngineRunningHasRow == Spec => [](twice = {} => RunningHasRow)
  BY RowsSafe, HasRowOfInv, PTL DEF Once

(* Between steps every row of the generator belongs to a running request   *)
(* or to one whose cache is being stored.                                  *)
THEOREM EngineNoGhostRow == Spec => [](twice = {} => NoGhostRow)
  BY RowsSafe, NoGhostOfInv, PTL DEF Once

(* When has_requests() is false between steps, every request, uid and      *)
(* prefill state has been given back.                                      *)
THEOREM EngineNothingLeft == Spec => [](twice = {} => NothingLeft)
  BY RowsSafe, NothingLeftOfInv, PTL DEF Once

-----------------------------------------------------------------------------
(* What the store gate bounds.                                             *)
LoadFits == Len(pend) + Len(running) + RoundLen + One <= world.cap - 1 + MaxSeqs
RoundKnown == At("chunks") => InRound \subseteq ToSet(prefilling)
LoadInv == SchedTypes /\ RoundKnown /\ LoadFits /\ StoreBound

LEMMA WorkFits ==
  ASSUME SchedTypes
  PROVE  /\ Cardinality(AtWork) <= Len(running) + Len(prefilling) /\ Cardinality(AtWork) \in Nat /\ IsFiniteSet(AtWork)
         /\ Len(running) \in Nat /\ Len(prefilling) \in Nat /\ Len(pend) \in Nat /\ world.cap \in Nat /\ world.cap >= 1
         /\ MaxSeqs \in Nat
<1>1. running \in Seq(Reqs) /\ prefilling \in Seq(Reqs) /\ pend \in Seq([uid : Nat, req : Reqs]) /\ world \in Worlds
  BY DEF SchedTypes, QueueTypes, BookTypes
<1>2. Len(running) \in Nat /\ Len(prefilling) \in Nat /\ Len(pend) \in Nat
  BY <1>1, LenProperties
<1>3. world.cap \in Nat /\ world.cap >= 1 /\ MaxSeqs \in Nat
  BY <1>1, BasicTypes
<1>4. PICK R, P : R = ToSet(running) /\ P = ToSet(prefilling)
  OBVIOUS
<1>5. /\ IsFiniteSet(R) /\ Cardinality(R) <= Len(running) /\ Cardinality(R) \in Nat
      /\ IsFiniteSet(P) /\ Cardinality(P) <= Len(prefilling) /\ Cardinality(P) \in Nat
  BY <1>1, <1>4, FewElements
<1>6. /\ IsFiniteSet(R \cup P) /\ IsFiniteSet(R \cap P)
      /\ Cardinality(R \cup P) = Cardinality(R) + Cardinality(P) - Cardinality(R \cap P)
  BY <1>5, FS_Union, FS_Intersection
<1>7. Cardinality(R \cup P) \in Nat /\ Cardinality(R \cap P) \in Nat
  BY <1>6, FS_CardinalityType
<1>8. AtWork = R \cup P
  BY <1>4 DEF AtWork
<1> QED
  BY <1>2, <1>3, <1>5, <1>6, <1>7, <1>8

LEMMA BoundOfLoad ==
  ASSUME SchedTypes, LoadFits, ~At("chunks")
  PROVE  StoreBound
<1>1. RoundLen = Len(prefilling) /\ One \in {0, 1}
  BY DEF RoundLen, One
<1> QED
  BY <1>1, WorkFits DEF LoadFits, StoreBound

LEMMA LoadKept ==
  ASSUME LoadInv, SchedTypes', RoundKnown', LoadFits', At("chunks")' => StoreBound'
  PROVE  LoadInv'
<1>1. (SchedTypes /\ LoadFits /\ ~At("chunks") => StoreBound)'
  BY BoundOfLoad, PTL
<1> QED
  BY <1>1 DEF LoadInv

LEMMA LoadQuiet ==
  ASSUME LoadInv, SchedTypes', Quiet, world' = world, At("chunks")' => At("chunks")
  PROVE  LoadInv'
<1>1. /\ waiting' = waiting /\ running' = running /\ prefilling' = prefilling /\ pend' = pend
      /\ InRound' = InRound /\ RoundLen' = RoundLen /\ One' = One
  BY DEF Quiet
<1>2. RoundKnown'
  BY <1>1 DEF LoadInv, RoundKnown
<1>3. LoadFits'
  BY <1>1 DEF LoadInv, LoadFits
<1>4. StoreBound'
  BY <1>1 DEF LoadInv, StoreBound, AtWork
<1> QED
  BY <1>2, <1>3, <1>4, LoadKept

LEMMA LoadFewer ==
  ASSUME LoadInv, SchedTypes', world' = world, ~At("chunks")', NEW load \in Int, NEW late \in Int,
         load = Len(pend) + Len(running) + RoundLen + One,
         late = Len(pend') + Len(running') + RoundLen' + One', late <= load
  PROVE  LoadInv'
<1>1. RoundKnown'
  BY DEF RoundKnown
<1>2. load <= world.cap - 1 + MaxSeqs
  BY DEF LoadInv, LoadFits
<1>3. world.cap \in Nat /\ MaxSeqs \in Nat
  BY WorkFits DEF LoadInv
<1>4. late <= world.cap - 1 + MaxSeqs
  BY <1>2, <1>3
<1>5. LoadFits'
  BY <1>4 DEF LoadFits
<1> QED
  BY <1>1, <1>5, LoadKept

LEMMA LenTypes ==
  ASSUME SchedTypes
  PROVE  RoundLen \in Nat /\ One \in {0, 1} /\ Len(round) \in Nat /\ Len(still) \in Nat /\ Len(prefilling) \in Nat
<1>1. round \in Seq(Reqs) /\ still \in Seq(Reqs) /\ prefilling \in Seq(Reqs)
  BY DEF SchedTypes, QueueTypes
<1>2. Len(round) \in Nat /\ Len(still) \in Nat /\ Len(prefilling) \in Nat
  BY <1>1, LenProperties
<1> QED
  BY <1>2 DEF RoundLen, One

LEMMA LoadInit == Init => LoadInv
<1> SUFFICES ASSUME Init PROVE LoadInv
  OBVIOUS
<1>1. SchedTypes
  BY SchedTypesInit
<1>2. todo = <<"idle">>
  BY DEF Init
<1>3. ~At("chunks") /\ ~At("prefill")
  BY <1>2 DEF At
<1>4. RoundLen = 0 /\ One = 0
  BY <1>3, QueuesEmpty DEF Init, RoundLen, One
<1>5. Len(pend) = 0 /\ Len(running) = 0
  BY DEF Init
<1>6. LoadFits
  BY <1>1, <1>4, <1>5, WorkFits DEF LoadFits
<1>7. StoreBound
  BY <1>1, <1>3, <1>6, BoundOfLoad
<1> QED
  BY <1>1, <1>3, <1>6, <1>7 DEF LoadInv, RoundKnown

LEMMA LoadNext == Once' /\ PlacedInv /\ LoadInv /\ [Next]_vars => LoadInv'
<1> SUFFICES ASSUME Once', PlacedInv, LoadInv, [Next]_vars PROVE LoadInv'
  OBVIOUS
<1> USE DEF LoadInv
<1>0. /\ Len(pend) \in Nat /\ Len(running) \in Nat /\ Len(prefilling) \in Nat /\ RoundLen \in Nat /\ One \in {0, 1}
      /\ world.cap \in Nat /\ world.cap >= 1 /\ MaxSeqs \in Nat
  BY WorkFits, LenTypes
<1>1. ASSUME NEW r \in Reqs, AddRequest(r) PROVE LoadInv'
  <2>1. /\ SchedTypes' /\ todo' = todo /\ At("idle")
        /\ UNCHANGED <<running, prefilling, round, still, cur, pend, world>>
    BY <1>1, AddRequestMoves
  <2>2. ~At("chunks") /\ ~At("prefill") /\ ~At("chunks")' /\ ~At("prefill")'
    BY <2>1 DEF At
  <2>3. RoundLen' = RoundLen /\ One' = One
    BY <2>1, <2>2 DEF RoundLen, One
  <2>4. LoadFits'
    BY <2>1, <2>3 DEF LoadFits
  <2>5. RoundKnown'
    BY <2>2 DEF RoundKnown
  <2> QED
    BY <2>1, <2>2, <2>4, <2>5, LoadKept
<1>2. ASSUME NEW r \in Reqs, Abort(r) PROVE LoadInv'
  <2>1. SchedTypes' /\ Quiet /\ UNCHANGED <<todo, world>>
    BY <1>2, AbortMoves
  <2> QED
    BY <2>1, LoadQuiet DEF At
<1>3. ASSUME NEW r \in Reqs, StoreDone(r) PROVE LoadInv'
  <2>1. SchedTypes' /\ Quiet /\ UNCHANGED <<todo, world>>
    BY <1>3, StoreDoneMoves
  <2> QED
    BY <2>1, LoadQuiet DEF At
<1>4. CASE BeginStep
  BY <1>4, BeginStepMoves, LoadQuiet
<1>5. CASE Pick
  BY <1>5, PickMoves, LoadQuiet
<1>6. CASE AdmitQuiet
  BY <1>6, AdmitQuietMoves, LoadQuiet
<1>7. CASE NoDecode
  BY <1>7, NoDecodeMoves, LoadQuiet
<1>8. CASE Finish
  BY <1>8, FinishMoves, LoadQuiet
<1>9. CASE UNCHANGED vars
  <2>1. SchedTypes' /\ Quiet /\ UNCHANGED <<todo, world>>
    BY <1>9, StutterMoves
  <2> QED
    BY <2>1, LoadQuiet DEF At
<1>10. ASSUME NEW r \in Reqs, ProcessAbort(r) PROVE LoadInv'
  <2>1. CASE AbortKnown(r)
    <3>1. /\ SchedTypes' /\ Outside /\ Len(running') <= Len(running) /\ Len(running') \in Nat
          /\ Len(prefilling') <= Len(prefilling) /\ Len(prefilling') \in Nat /\ pend' = pend /\ world' = world
      BY <1>10, <2>1, AbortKnownMoves
    <3>2. PICK load \in Int : load = Len(pend) + Len(running) + RoundLen + One
      BY <1>0
    <3>3. PICK late \in Int : late = Len(pend') + Len(running') + RoundLen' + One'
      BY <1>0, <3>1 DEF Outside
    <3>4. late <= load
      BY <1>0, <3>1, <3>2, <3>3 DEF Outside
    <3> QED
      BY <3>1, <3>2, <3>3, <3>4, LoadFewer DEF Outside
  <2>2. CASE AbortStored(r)
    <3>1. SchedTypes' /\ Draining
      BY <1>10, <2>2, AbortStoredMoves
    <3>2. /\ Outside /\ Len(pend') <= Len(pend) /\ Len(pend') \in Nat /\ prefilling' = prefilling /\ running' = running
          /\ world' = world
      BY <3>1, DrainingMoves
    <3>3. PICK load \in Int : load = Len(pend) + Len(running) + RoundLen + One
      BY <1>0
    <3>4. PICK late \in Int : late = Len(pend') + Len(running') + RoundLen' + One'
      BY <1>0, <3>2 DEF Outside
    <3>5. late <= load
      BY <1>0, <3>2, <3>3, <3>4 DEF Outside
    <3> QED
      BY <3>1, <3>2, <3>3, <3>4, <3>5, LoadFewer DEF Outside
  <2>3. CASE AbortIgnored(r)
    <3>1. SchedTypes' /\ Quiet /\ UNCHANGED <<todo, world>>
      BY <1>10, <2>3, AbortIgnoredMoves
    <3> QED
      BY <3>1, LoadQuiet DEF At
  <2> QED
    BY <1>10, <2>1, <2>2, <2>3 DEF ProcessAbort
<1>11. CASE DrainStep
  <2>1. SchedTypes' /\ Draining
    BY <1>11, DrainStepMoves
  <2>2. /\ Outside /\ Len(pend') <= Len(pend) /\ Len(pend') \in Nat /\ prefilling' = prefilling /\ running' = running
        /\ world' = world
    BY <2>1, DrainingMoves
  <2>3. PICK load \in Int : load = Len(pend) + Len(running) + RoundLen + One
    BY <1>0
  <2>4. PICK late \in Int : late = Len(pend') + Len(running') + RoundLen' + One'
    BY <1>0, <2>2 DEF Outside
  <2>5. late <= load
    BY <1>0, <2>2, <2>3, <2>4 DEF Outside
  <2> QED
    BY <2>1, <2>2, <2>3, <2>4, <2>5, LoadFewer DEF Outside
<1>12. CASE StartAdvance
  <2>1. /\ SchedTypes' /\ One' = One /\ InRound' = InRound /\ RoundLen' = RoundLen /\ InRound = ToSet(prefilling)
        /\ UNCHANGED <<prefilling, running, pend, world>>
    BY <1>12, StartAdvanceMoves
  <2>2. LoadFits'
    BY <2>1 DEF LoadFits
  <2>3. RoundKnown'
    BY <2>1 DEF RoundKnown
  <2>4. StoreBound'
    BY <2>1 DEF StoreBound, AtWork
  <2> QED
    BY <2>1, <2>2, <2>3, <2>4, LoadKept
<1>13. CASE Advance
  <2>0. AdvanceFrame
    BY <1>13 DEF Advance, AdvanceFrame
  <2>1. CASE ChunkRuns \/ ChunkHeld
    <3>1. SchedTypes' /\ InChunks /\ Stays /\ UNCHANGED <<prefilling, running, pend, world>>
      BY <2>0, <2>1, ChunkRunsMoves, ChunkHeldMoves
    <3>2. LoadFits' /\ RoundKnown' /\ StoreBound'
      BY <3>1 DEF LoadFits, RoundKnown, StoreBound, AtWork, InChunks, Stays
    <3> QED
      BY <3>1, <3>2, LoadKept
  <2>2. CASE ChunkEnds
    <3>1. /\ SchedTypes' /\ InChunks /\ Leaves(Chunk) /\ ToSet(running') = ToSet(running) \cup {Chunk}
          /\ Len(running') <= Len(running) + 1 /\ Len(running') \in Nat
          /\ UNCHANGED <<prefilling, pend, world>>
      BY <2>0, <2>2, ChunkEndsMoves
    <3>2. /\ RoundLen = RoundLen' + 1 /\ RoundLen' \in Nat /\ One' = 0 /\ One = 0 /\ InRound' \subseteq InRound
          /\ Chunk \in InRound /\ At("chunks") /\ At("chunks")'
      BY <3>1 DEF InChunks, Leaves
    <3>3. LoadFits'
      <4>1. PICK late \in Int : late = Len(pend') + Len(running') + RoundLen' + One'
        BY <1>0, <3>1, <3>2
      <4>2. PICK load \in Int : load = Len(pend) + Len(running) + RoundLen + One
        BY <1>0
      <4>3. late <= load
        BY <1>0, <3>1, <3>2, <4>1, <4>2
      <4>4. load <= world.cap - 1 + MaxSeqs /\ world' = world
        BY <3>1, <4>2 DEF LoadFits
      <4>5. late <= world'.cap - 1 + MaxSeqs
        BY <1>0, <4>3, <4>4
      <4> QED
        BY <4>1, <4>5 DEF LoadFits
    <3>4. RoundKnown'
      BY <3>1, <3>2 DEF RoundKnown
    <3>5. AtWork' = AtWork
      BY <3>1, <3>2 DEF AtWork, RoundKnown
    <3>6. StoreBound'
      BY <3>1, <3>5 DEF StoreBound
    <3> QED
      BY <3>1, <3>3, <3>4, <3>6, LoadKept
  <2>3. CASE ChunkFails \/ ChunkGone
    <3>1. SchedTypes' /\ InChunks /\ Leaves(Chunk) /\ UNCHANGED <<prefilling, running, pend, world>>
      BY <2>0, <2>3, ChunkFailsMoves, ChunkGoneMoves
    <3>2. /\ RoundLen = RoundLen' + 1 /\ RoundLen' \in Nat /\ One' = 0 /\ One = 0 /\ InRound' \subseteq InRound
          /\ At("chunks") /\ At("chunks")'
      BY <3>1 DEF InChunks, Leaves
    <3>3. LoadFits'
      BY <1>0, <3>1, <3>2 DEF LoadFits
    <3>4. RoundKnown'
      BY <3>1, <3>2 DEF RoundKnown
    <3>5. StoreBound'
      BY <3>1 DEF StoreBound, AtWork
    <3> QED
      BY <3>1, <3>3, <3>4, <3>5, LoadKept
  <2> QED
    BY <1>13, <2>1, <2>2, <2>3 DEF Advance, ChunkHeld
<1>14. CASE AdvanceDone
  <2>1. /\ SchedTypes' /\ ~At("chunks")' /\ One' = One /\ RoundLen' = RoundLen
        /\ UNCHANGED <<running, pend, world>>
    BY <1>14, AdvanceDoneMoves
  <2>2. LoadFits' /\ RoundKnown'
    BY <2>1 DEF LoadFits, RoundKnown
  <2> QED
    BY <2>1, <2>2, LoadKept
<1>15. CASE AdmitBlocked
  <2>1. SchedTypes' /\ ~At("chunks")' /\ One' = One /\ RoundLen' = RoundLen /\ UNCHANGED <<running, pend, world>>
    BY <1>15, AdmitBlockedMoves
  <2>2. LoadFits' /\ RoundKnown'
    BY <2>1 DEF LoadFits, RoundKnown
  <2> QED
    BY <2>1, <2>2, LoadKept
<1>16. CASE Take
  <2>1. /\ SchedTypes' /\ Room /\ Len(pend) < world.cap /\ At("prefill")' /\ One' = 1
        /\ RoundLen = Len(prefilling) /\ RoundLen' = RoundLen /\ UNCHANGED <<running, pend, world>>
    BY <1>16, TakeMoves
  <2>2. ~At("chunks")'
    BY <2>1 DEF At
  <2>3. Len(running) + Len(prefilling) < MaxSeqs
    <3>1. Admitted < Limit /\ Limit \in {1, MaxSeqs} /\ MaxSeqs >= 1
      BY <2>1, BasicTypes DEF Room, Limit
    <3> QED
      BY <1>0, <3>1 DEF Admitted
  <2>4. LoadFits'
    BY <1>0, <2>1, <2>3 DEF LoadFits
  <2>5. RoundKnown'
    BY <2>2 DEF RoundKnown
  <2> QED
    BY <2>1, <2>2, <2>4, <2>5, LoadKept
<1>17. CASE Prefill
  <2>0. UNCHANGED <<stores, serial, out, clients>>
    BY <1>17 DEF Prefill
  <2>1. CASE Prefilled
    <3>1. /\ SchedTypes' /\ PrefillCommon /\ Len(running') <= Len(running) + 1 /\ Len(running') \in Nat
          /\ UNCHANGED <<prefilling, pend, world>>
      BY <2>0, <2>1, PrefilledMoves
    <3>2. PICK load \in Int : load = Len(pend) + Len(running) + RoundLen + One
      BY <1>0
    <3>3. PICK late \in Int : late = Len(pend') + Len(running') + RoundLen' + One'
      BY <1>0, <3>1 DEF PrefillCommon
    <3>4. late <= load
      BY <1>0, <3>1, <3>2, <3>3 DEF PrefillCommon
    <3> QED
      BY <3>1, <3>2, <3>3, <3>4, LoadFewer DEF PrefillCommon
  <2>2. CASE FirstChunk
    <3>1. /\ SchedTypes' /\ PrefillCommon /\ Len(prefilling') = Len(prefilling) + 1
          /\ UNCHANGED <<running, pend, world>>
      BY <2>0, <2>2, FirstChunkMoves
    <3>2. PICK load \in Int : load = Len(pend) + Len(running) + RoundLen + One
      BY <1>0
    <3>3. PICK late \in Int : late = Len(pend') + Len(running') + RoundLen' + One'
      BY <1>0, <3>1 DEF PrefillCommon
    <3>4. late <= load
      BY <1>0, <3>1, <3>2, <3>3 DEF PrefillCommon
    <3> QED
      BY <3>1, <3>2, <3>3, <3>4, LoadFewer DEF PrefillCommon
  <2>3. CASE PrefillFails \/ PrefillPaused \/ PrefillAborted
    <3>1. SchedTypes' /\ PrefillCommon /\ UNCHANGED <<prefilling, running, pend, world>>
      BY <2>0, <2>3, PrefillFailsMoves, PrefillPausedMoves, PrefillAbortedMoves
    <3>2. PICK load \in Int : load = Len(pend) + Len(running) + RoundLen + One
      BY <1>0
    <3>3. PICK late \in Int : late = Len(pend') + Len(running') + RoundLen' + One'
      BY <1>0, <3>1 DEF PrefillCommon
    <3>4. late <= load
      BY <1>0, <3>1, <3>2, <3>3 DEF PrefillCommon
    <3> QED
      BY <3>1, <3>2, <3>3, <3>4, LoadFewer DEF PrefillCommon
  <2> QED
    BY <1>17, <2>1, <2>2, <2>3 DEF Prefill
<1>18. CASE Decode
  <2>1. /\ SchedTypes' /\ Outside /\ Len(pend') + Len(running') <= Len(pend) + Len(running)
        /\ Len(pend') \in Nat /\ Len(running') \in Nat /\ UNCHANGED <<prefilling, world>>
    BY <1>18, DecodeMoves
  <2>2. PICK load \in Int : load = Len(pend) + Len(running) + RoundLen + One
    BY <1>0
  <2>3. PICK late \in Int : late = Len(pend') + Len(running') + RoundLen' + One'
    BY <1>0, <2>1 DEF Outside
  <2>4. late <= load
    BY <1>0, <2>1, <2>2, <2>3 DEF Outside
  <2> QED
    BY <2>1, <2>2, <2>3, <2>4, LoadFewer DEF Outside
<1>19. ASSUME NEW kind, NEW budget, SchedTypes', Retrying(kind, budget) PROVE LoadInv'
  <2>1. /\ ~At("chunks")' /\ Len(running') <= Len(running) /\ Len(prefilling') <= Len(prefilling)
        /\ Len(running') \in Nat /\ Len(prefilling') \in Nat /\ One' = 0 /\ RoundLen' = Len(prefilling')
        /\ pend' = pend /\ world' = world /\ ToSet(running') \subseteq ToSet(running)
        /\ ToSet(prefilling') \subseteq ToSet(prefilling)
    BY <1>19 DEF Retrying
  <2>2. RoundKnown'
    BY <2>1 DEF RoundKnown
  <2>3. CASE ~At("chunks")
    <3>1. RoundLen = Len(prefilling)
      BY <2>3 DEF RoundLen
    <3>2. PICK load \in Int : load = Len(pend) + Len(running) + RoundLen + One
      BY <1>0
    <3>3. PICK late \in Int : late = Len(pend') + Len(running') + RoundLen' + One'
      BY <1>0, <2>1
    <3>4. late <= load
      BY <1>0, <2>1, <3>1, <3>2, <3>3
    <3> QED
      BY <1>19, <2>1, <3>2, <3>3, <3>4, LoadFewer
  <2>4. CASE At("chunks")
    <3>1. ToSet(running') = {} /\ ToSet(prefilling') = {}
      BY <1>19, PlacedRetry
    <3>2. PICK s, t \in Seq(Reqs) : s = running' /\ t = prefilling'
      BY <1>19 DEF SchedTypes, QueueTypes
    <3>3. Len(s) = 0 /\ Len(t) = 0
      BY <3>1, <3>2, NoElements
    <3>4. Len(running') = 0 /\ Len(prefilling') = 0
      BY <3>2, <3>3
    <3>5. PICK load \in Int : load = Len(pend) + Len(running) + RoundLen + One
      BY <1>0
    <3>6. PICK late \in Int : late = Len(pend') + Len(running') + RoundLen' + One'
      BY <1>0, <2>1
    <3>7. late <= load
      BY <1>0, <2>1, <3>4, <3>5, <3>6
    <3> QED
      BY <1>19, <2>1, <3>5, <3>6, <3>7, LoadFewer
  <2> QED
    BY <2>3, <2>4
<1>20. CASE Corrupt
  BY <1>19, <1>20, CorruptMoves
<1>21. CASE Overflow
  BY <1>19, <1>21, OverflowMoves
<1>22. ASSUME SchedTypes', FailingAll PROVE LoadInv'
  <2>1. ~At("chunks")' /\ Len(running') = 0 /\ RoundLen' = 0 /\ One' = 0 /\ pend' = pend /\ world' = world
    BY <1>22 DEF FailingAll
  <2>2. PICK load \in Int : load = Len(pend) + Len(running) + RoundLen + One
    BY <1>0
  <2>3. PICK late \in Int : late = Len(pend') + Len(running') + RoundLen' + One'
    BY <1>0, <2>1
  <2>4. late <= load
    BY <1>0, <2>1, <2>2, <2>3
  <2> QED
    BY <1>22, <2>1, <2>2, <2>3, <2>4, LoadFewer
<1>23. CASE Fatal \/ AbortRaises
  BY <1>22, <1>23, FatalMoves, AbortRaisesMoves
<1> QED
  BY <1>1, <1>2, <1>3, <1>4, <1>5, <1>6, <1>7, <1>8, <1>9, <1>10, <1>11, <1>12, <1>13, <1>14, <1>15, <1>16, <1>17,
     <1>18, <1>20, <1>21, <1>23 DEF Next, Step, AdmitQuiet

(* Caches kept for the store worker and requests that may still add one    *)
(* stay within the gate's cap and one batch, whatever is admitted between. *)
THEOREM EngineStoreBound == Spec => [](twice = {} => StoreBound)
<1>1. Once' /\ PlacedInv /\ LoadInv /\ [Next]_vars => LoadInv'
  BY LoadNext
<1>2. RowsInv => PlacedInv
  BY DEF RowsInv
<1>3. LoadInv => StoreBound
  BY DEF LoadInv
<1> QED
  BY <1>1, <1>2, <1>3, LoadInit, OnceFirst, RowsSafe, PTL DEF Spec, Once

-----------------------------------------------------------------------------
(* While a request is retried serially.                                    *)
Alive == Active \cup Held
Alone == serial \cap Alive # {} => Cardinality(AtWork) <= 1 /\ (At("prefill") => AtWork = {})
SerialInv == serial \subseteq asked /\ Alone

LEMMA AloneFewer ==
  ASSUME SchedTypes, Alone, serial' \subseteq serial, Alive' \cap serial \subseteq Alive, AtWork' \subseteq AtWork,
         At("prefill")' => At("prefill")
  PROVE  Alone'
<1> SUFFICES ASSUME serial' \cap Alive' # {} PROVE Cardinality(AtWork') <= 1 /\ (At("prefill")' => AtWork' = {})
  BY DEF Alone
<1>1. serial \cap Alive # {}
  OBVIOUS
<1>2. Cardinality(AtWork) <= 1 /\ (At("prefill") => AtWork = {})
  BY <1>1 DEF Alone
<1>3. IsFiniteSet(AtWork) /\ Cardinality(AtWork) \in Nat
  BY WorkFits
<1>4. PICK A, B : A = AtWork /\ B = AtWork'
  OBVIOUS
<1>5. IsFiniteSet(A) /\ B \in SUBSET A
  BY <1>3, <1>4
<1>6. Cardinality(B) <= Cardinality(A) /\ Cardinality(B) \in Nat
  BY <1>5, FS_Subset, FS_CardinalityType
<1> QED
  BY <1>2, <1>3, <1>4, <1>6

LEMMA AloneNobody ==
  ASSUME AtWork' = {}
  PROVE  Alone'
<1>1. Cardinality({}) = 0
  BY FS_EmptySet
<1> QED
  BY <1>1 DEF Alone

LEMMA AloneFirst ==
  ASSUME At("prefill"), Alone, serial' = serial, Alive' \subseteq Alive, NEW r, AtWork' \subseteq AtWork \cup {r},
         ~At("prefill")'
  PROVE  Alone'
<1> SUFFICES ASSUME serial' \cap Alive' # {} PROVE Cardinality(AtWork') <= 1
  BY DEF Alone
<1>1. AtWork = {}
  BY DEF Alone
<1>2. PICK B : B = AtWork'
  OBVIOUS
<1>3. B \in SUBSET {r}
  BY <1>1, <1>2
<1>4. IsFiniteSet({r}) /\ Cardinality({r}) = 1
  BY FS_Singleton
<1>5. Cardinality(B) <= 1
  BY <1>3, <1>4, FS_Subset
<1> QED
  BY <1>2, <1>5

LEMMA SerialInit == Init => SerialInv
<1> SUFFICES ASSUME Init PROVE SerialInv
  OBVIOUS
<1>1. serial = {}
  BY DEF Init
<1> QED
  BY <1>1 DEF SerialInv, Alone

LEMMA SerialNext == Once' /\ PlacedInv /\ RoundKnown /\ SerialInv /\ [Next]_vars => SerialInv'
<1> SUFFICES ASSUME Once', PlacedInv, RoundKnown, SerialInv, [Next]_vars PROVE SerialInv'
  OBVIOUS
<1>0. SchedTypes /\ Placement /\ requests \subseteq asked /\ serial \subseteq asked /\ Alone
  BY DEF PlacedInv, SerialInv
<1>q. ASSUME Quiet, UNCHANGED <<serial, asked>> PROVE SerialInv'
  <2>1. /\ waiting' = waiting /\ running' = running /\ prefilling' = prefilling /\ Held' = Held /\ One' = One
    BY <1>q DEF Quiet
  <2>2. Alive' = Alive /\ AtWork' = AtWork
    BY <2>1 DEF Alive, Active, AtWork
  <2>3. At("prefill")' => At("prefill")
    BY <2>1 DEF One
  <2>4. Alone'
    BY <1>0, <1>q, <2>2, <2>3, AloneFewer
  <2> QED
    BY <1>0, <1>q, <2>4 DEF SerialInv
<1>f. ASSUME UNCHANGED <<serial, asked>>, AtWork' \subseteq AtWork, Alive' \subseteq Alive, ~At("prefill")' PROVE SerialInv'
  <2>1. Alone'
    BY <1>0, <1>f, AloneFewer
  <2> QED
    BY <1>0, <1>f, <2>1 DEF SerialInv
<1>1. ASSUME NEW r \in Reqs, AddRequest(r) PROVE SerialInv'
  <2>1. /\ At("idle") /\ todo' = todo /\ asked' = asked \cup {r} /\ r \notin asked
        /\ ToSet(waiting') = ToSet(waiting) \cup {r}
        /\ UNCHANGED <<running, prefilling, cur, serial>>
    BY <1>0, <1>1, AddRequestMoves
  <2>2. ~At("prefill") /\ ~At("prefill")'
    BY <2>1 DEF At
  <2>3. Alive' = Alive \cup {r} /\ AtWork' = AtWork
    BY <2>1, <2>2 DEF Alive, Active, AtWork, Held
  <2>4. Alive' \cap serial \subseteq Alive
    BY <1>0, <2>1, <2>3
  <2>5. Alone'
    BY <1>0, <2>1, <2>2, <2>3, <2>4, AloneFewer
  <2> QED
    BY <1>0, <2>1, <2>5 DEF SerialInv
<1>2. ASSUME NEW r \in Reqs, Abort(r) \/ StoreDone(r) PROVE SerialInv'
  <2>1. Quiet /\ UNCHANGED <<serial, asked>>
    BY <1>0, <1>2, AbortMoves, StoreDoneMoves
  <2> QED
    BY <1>q, <2>1
<1>3. CASE BeginStep \/ Pick \/ AdmitQuiet \/ NoDecode \/ UNCHANGED vars
  <2>1. Quiet /\ UNCHANGED <<serial, asked>>
    BY <1>0, <1>3, BeginStepMoves, PickMoves, AdmitQuietMoves, NoDecodeMoves, StutterMoves
  <2> QED
    BY <1>q, <2>1
<1>4. CASE Finish
  <2>1. Quiet /\ serial' = serial \cap Active /\ asked' = asked /\ ~At("prefill")'
    BY <1>0, <1>4, FinishMoves
  <2>2. /\ waiting' = waiting /\ running' = running /\ prefilling' = prefilling /\ Held' = Held
    BY <2>1 DEF Quiet
  <2>3. Alive' = Alive /\ AtWork' = AtWork
    BY <2>2 DEF Alive, Active, AtWork
  <2>4. Alone'
    BY <1>0, <2>1, <2>3, AloneFewer
  <2> QED
    BY <1>0, <2>1, <2>4 DEF SerialInv
<1>5. ASSUME NEW r \in Reqs, ProcessAbort(r) PROVE SerialInv'
  <2>1. CASE AbortKnown(r)
    <3>1. /\ Outside /\ ToSet(waiting') \subseteq ToSet(waiting) /\ ToSet(running') = ToSet(running) \ {r}
          /\ ToSet(prefilling') = IF left[r] > 0 THEN ToSet(prefilling) \ {r} ELSE ToSet(prefilling)
          /\ UNCHANGED <<serial, asked>>
      BY <1>0, <1>5, <2>1, AbortKnownMoves
    <3>2. Held' = Held /\ ~At("prefill")' /\ ToSet(prefilling') \subseteq ToSet(prefilling)
      BY <3>1 DEF Outside
    <3>3. Alive' \subseteq Alive /\ AtWork' \subseteq AtWork
      BY <3>1, <3>2 DEF Alive, Active, AtWork
    <3> QED
      BY <1>f, <3>1, <3>2, <3>3
  <2>2. CASE AbortIgnored(r)
    <3>1. Quiet /\ UNCHANGED <<serial, asked>>
      BY <1>0, <1>5, <2>2, AbortIgnoredMoves
    <3> QED
      BY <1>q, <3>1
  <2>3. CASE AbortStored(r)
    <3>1. Draining
      BY <1>0, <1>5, <2>3, AbortStoredMoves
    <3>2. Outside /\ UNCHANGED <<waiting, prefilling, running, serial, asked>>
      BY <1>0, <3>1, DrainingMoves
    <3>3. Held' = Held /\ ~At("prefill")'
      BY <3>2 DEF Outside
    <3>4. Alive' = Alive /\ AtWork' = AtWork
      BY <3>2, <3>3 DEF Alive, Active, AtWork
    <3> QED
      BY <1>f, <3>2, <3>3, <3>4
  <2> QED
    BY <1>5, <2>1, <2>2, <2>3 DEF ProcessAbort
<1>6. CASE DrainStep
  <2>1. Draining
    BY <1>0, <1>6, DrainStepMoves
  <2>2. Outside /\ UNCHANGED <<waiting, prefilling, running, serial, asked>>
    BY <1>0, <2>1, DrainingMoves
  <2>3. Held' = Held /\ ~At("prefill")'
    BY <2>2 DEF Outside
  <2>4. Alive' = Alive /\ AtWork' = AtWork
    BY <2>2, <2>3 DEF Alive, Active, AtWork
  <2> QED
    BY <1>f, <2>2, <2>3, <2>4
<1>7. CASE StartAdvance
  <2>1. Held' = Held /\ ~At("prefill")' /\ UNCHANGED <<waiting, prefilling, running, serial, asked>>
    BY <1>0, <1>7, StartAdvanceMoves
  <2>2. Alive' = Alive /\ AtWork' = AtWork
    BY <2>1 DEF Alive, Active, AtWork
  <2> QED
    BY <1>f, <2>1, <2>2
<1>8. CASE AdvanceDone
  <2>1. /\ Held' = Held /\ ~At("prefill")' /\ At("chunks") /\ InRound' = InRound /\ InRound' = ToSet(prefilling')
        /\ UNCHANGED <<waiting, running, serial, asked>>
    BY <1>0, <1>8, AdvanceDoneMoves
  <2>2. ToSet(prefilling') \subseteq ToSet(prefilling)
    BY <2>1 DEF RoundKnown
  <2>3. Alive' \subseteq Alive /\ AtWork' \subseteq AtWork
    BY <2>1, <2>2 DEF Alive, Active, AtWork
  <2> QED
    BY <1>f, <2>1, <2>3
<1>9. CASE Advance
  <2>0. AdvanceFrame
    BY <1>9 DEF Advance, AdvanceFrame
  <2>1. CASE ChunkRuns \/ ChunkHeld \/ ChunkGone
    <3>1. InChunks /\ UNCHANGED <<waiting, prefilling, running, serial, asked>>
      BY <1>0, <2>0, <2>1, ChunkRunsMoves, ChunkHeldMoves, ChunkGoneMoves
    <3>2. Held' = Held /\ ~At("prefill")'
      BY <3>1 DEF InChunks
    <3>3. Alive' = Alive /\ AtWork' = AtWork
      BY <3>1, <3>2 DEF Alive, Active, AtWork
    <3> QED
      BY <1>f, <3>1, <3>2, <3>3
  <2>2. CASE ChunkEnds
    <3>1. /\ InChunks /\ Leaves(Chunk) /\ ToSet(running') = ToSet(running) \cup {Chunk}
          /\ UNCHANGED <<waiting, prefilling, serial, asked>>
      BY <1>0, <2>0, <2>2, ChunkEndsMoves
    <3>2. Held' = Held /\ ~At("prefill")' /\ Chunk \in ToSet(prefilling)
      BY <3>1 DEF InChunks, Leaves, RoundKnown
    <3>3. Alive' = Alive /\ AtWork' = AtWork
      BY <3>1, <3>2 DEF Alive, Active, AtWork
    <3> QED
      BY <1>f, <3>1, <3>2, <3>3
  <2>3. CASE ChunkFails
    <3>1. /\ InChunks /\ Leaves(Chunk)
          /\ ToSet(waiting') = {Chunk} \cup ToSet(waiting) \/ waiting' = waiting
          /\ UNCHANGED <<prefilling, running, serial, asked>>
      BY <1>0, <2>0, <2>3, ChunkFailsMoves
    <3>2. Held' = Held /\ ~At("prefill")' /\ Chunk \in ToSet(prefilling)
      BY <3>1 DEF InChunks, Leaves, RoundKnown
    <3>3. Alive' \subseteq Alive /\ AtWork' = AtWork
      BY <3>1, <3>2 DEF Alive, Active, AtWork
    <3> QED
      BY <1>f, <3>1, <3>2, <3>3
  <2> QED
    BY <1>9, <2>1, <2>2, <2>3 DEF Advance, ChunkHeld
<1>10. CASE AdmitBlocked
  <2>1. /\ ToSet(waiting') \subseteq ToSet(waiting) /\ Held' = Held /\ ~At("prefill")'
        /\ UNCHANGED <<running, prefilling, serial, asked>>
    <3>1. /\ \/ Quiet /\ requests' = requests /\ rej' = rej
             \/ \E r \in ToSet(waiting) :
                  /\ ToSet(waiting) = ToSet(waiting') \cup {r}
                  /\ Distinct(waiting) => Distinct(waiting') /\ r \notin ToSet(waiting')
                  /\ requests' = requests \ {r} /\ rej' = rej \cup {r}
          /\ Held' = Held /\ ~At("prefill")' /\ UNCHANGED <<running, prefilling, serial, asked>>
      BY <1>0, <1>10, AdmitBlockedMoves
    <3> QED
      BY <3>1 DEF Quiet
  <2>2. Alive' \subseteq Alive /\ AtWork' = AtWork
    BY <2>1 DEF Alive, Active, AtWork
  <2> QED
    BY <1>f, <2>1, <2>2
<1>11. CASE Take
  <2>1. /\ Room /\ Held = {} /\ Held' = {cur'}
        /\ ToSet(waiting) = ToSet(waiting') \cup {cur'}
        /\ UNCHANGED <<running, prefilling, serial, asked>>
    BY <1>0, <1>11, TakeMoves
  <2>2. Alive' = Alive /\ AtWork' = AtWork /\ Alive = Active
    BY <2>1 DEF Alive, Active, AtWork
  <2>3. CASE serial \cap Active = {}
    BY <1>0, <2>1, <2>2, <2>3 DEF SerialInv, Alone
  <2>4. CASE serial \cap Active # {}
    <3>1. Len(running) + Len(prefilling) < 1
      BY <2>1, <2>4 DEF Room, Admitted, Limit
    <3>2. running \in Seq(Reqs) /\ prefilling \in Seq(Reqs)
      BY <1>0 DEF SchedTypes, QueueTypes
    <3>3. Len(running) \in Nat /\ Len(prefilling) \in Nat
      BY <3>2, LenProperties
    <3>4. Len(running) = 0 /\ Len(prefilling) = 0
      BY <3>1, <3>3
    <3>5. ToSet(running) = {} /\ ToSet(prefilling) = {}
      BY <3>2, <3>4, AsSet
    <3>6. AtWork' = {}
      BY <2>2, <3>5 DEF AtWork
    <3> QED
      BY <1>0, <2>1, <3>6, AloneNobody DEF SerialInv
  <2> QED
    BY <2>3, <2>4
<1>12. CASE Prefill
  <2>0. UNCHANGED <<stores, serial, out, clients>> /\ asked' = asked
    BY <1>12 DEF Prefill, clients
  <2>1. CASE Prefilled
    <3>1. PrefillCommon /\ ToSet(running') = ToSet(running) \cup {cur} /\ UNCHANGED <<waiting, prefilling>>
      BY <1>0, <2>0, <2>1, PrefilledMoves
    <3>2. Held = {cur} /\ Held' = {} /\ At("prefill") /\ ~At("prefill")'
      BY <3>1 DEF PrefillCommon
    <3>3. Alive' = Alive /\ AtWork' = AtWork \cup {cur}
      BY <3>1, <3>2 DEF Alive, Active, AtWork
    <3> QED
      BY <1>0, <2>0, <3>2, <3>3, AloneFirst DEF SerialInv
  <2>2. CASE FirstChunk
    <3>1. PrefillCommon /\ ToSet(prefilling') = ToSet(prefilling) \cup {cur} /\ UNCHANGED <<waiting, running>>
      BY <1>0, <2>0, <2>2, FirstChunkMoves
    <3>2. Held = {cur} /\ Held' = {} /\ At("prefill") /\ ~At("prefill")'
      BY <3>1 DEF PrefillCommon
    <3>3. Alive' = Alive /\ AtWork' = AtWork \cup {cur}
      BY <3>1, <3>2 DEF Alive, Active, AtWork
    <3> QED
      BY <1>0, <2>0, <3>2, <3>3, AloneFirst DEF SerialInv
  <2>3. CASE PrefillFails \/ PrefillPaused \/ PrefillAborted
    <3>1. /\ PrefillCommon /\ UNCHANGED <<prefilling, running>>
          /\ ToSet(waiting') = {cur} \cup ToSet(waiting) \/ waiting' = waiting
      BY <1>0, <2>0, <2>3, PrefillFailsMoves, PrefillPausedMoves, PrefillAbortedMoves
    <3>2. Held = {cur} /\ Held' = {} /\ ~At("prefill")'
      BY <3>1 DEF PrefillCommon
    <3>3. Alive' \subseteq Alive /\ AtWork' = AtWork
      BY <3>1, <3>2 DEF Alive, Active, AtWork
    <3> QED
      BY <1>f, <2>0, <3>2, <3>3
  <2> QED
    BY <1>12, <2>1, <2>2, <2>3 DEF Prefill
<1>13. CASE Decode
  <2>1. /\ Outside /\ UNCHANGED <<waiting, prefilling, serial, asked>>
        /\ \E finished, kept :
              /\ finished \subseteq ToSet(running) /\ kept \subseteq finished
              /\ ToSet(running') = ToSet(running) \ finished
              /\ InFlight' = InFlight \cup (kept \cap DOMAIN uidOf)
              /\ requests' = requests \ (finished \ kept)
              /\ uidOf' = Drop(uidOf, finished \ kept)
              /\ out' = out \cup rej \cup finished
    BY <1>0, <1>13, DecodeMoves
  <2>2. ToSet(running') \subseteq ToSet(running)
    BY <2>1
  <2>3. Held' = Held /\ ~At("prefill")'
    BY <2>1 DEF Outside
  <2>4. Alive' \subseteq Alive /\ AtWork' \subseteq AtWork
    BY <2>1, <2>2, <2>3 DEF Alive, Active, AtWork
  <2> QED
    BY <1>f, <2>1, <2>3, <2>4
<1>14. CASE Corrupt
  <2>1. SchedTypes' /\ Retrying("corrupt", CorruptTries) /\ serial' = serial
    BY <1>0, <1>14, CorruptMoves
  <2>2. AtWork' = {}
    BY <2>1, PlacedRetry DEF AtWork
  <2>3. asked' = asked
    BY <2>1 DEF Retrying
  <2> QED
    BY <1>0, <2>1, <2>2, <2>3, AloneNobody DEF SerialInv
<1>15. CASE Overflow
  <2>1. SchedTypes' /\ Retrying("overflow", OverflowTries) /\ serial' \subseteq AffectedSet
    BY <1>0, <1>15, OverflowMoves
  <2>2. AtWork' = {} /\ AffectedSet = ToSet(running) \cup InRound \cup Held
    BY <2>1, PlacedRetry DEF AtWork
  <2>3. asked' = asked
    BY <2>1 DEF Retrying
  <2>4. serial' \subseteq asked'
    BY <1>0, <2>1, <2>2, <2>3 DEF Placement, Parts
  <2> QED
    BY <2>2, <2>4, AloneNobody DEF SerialInv
<1>16. CASE Fatal \/ AbortRaises
  <2>1. FailingAll
    BY <1>0, <1>16, FatalMoves, AbortRaisesMoves
  <2>2. AtWork' = {} /\ serial' \subseteq serial /\ asked' = asked
    BY <2>1 DEF FailingAll, AtWork
  <2> QED
    BY <1>0, <2>2, AloneNobody DEF SerialInv
<1> QED
  BY <1>1, <1>2, <1>3, <1>4, <1>5, <1>6, <1>7, <1>8, <1>9, <1>10, <1>11, <1>12, <1>13, <1>14, <1>15, <1>16
     DEF Next, Step, AdmitQuiet

(* While a request that overflowed is in the scheduler, at most one        *)
(* request is decoding or prefilling.                                      *)
THEOREM EngineSerialRetry == Spec => [](twice = {} => SerialRetry)
<1>1. Once' /\ PlacedInv /\ LoadInv /\ [Next]_vars => LoadInv'
  BY LoadNext
<1>2. RowsInv => PlacedInv
  BY DEF RowsInv
<1>3. LoadInv => RoundKnown
  BY DEF LoadInv
<1>4. Once' /\ PlacedInv /\ RoundKnown /\ SerialInv /\ [Next]_vars => SerialInv'
  BY SerialNext
<1>5. SerialInv => SerialRetry
  BY DEF SerialInv, Alone, Alive, SerialRetry
<1> QED
  BY <1>1, <1>2, <1>3, <1>4, <1>5, LoadInit, SerialInit, OnceFirst, RowsSafe, PTL DEF Spec, Once

-----------------------------------------------------------------------------
(* Who has been answered, who is still to be.                              *)
Settled(A, G, B, P, J, O, L, T) ==
  /\ B \subseteq G /\ G \subseteq A /\ A \subseteq Reqs /\ L \subseteq A /\ P \cup J \cup O \subseteq A
  /\ P \cap J = {} /\ P \cap O = {} /\ J \cap O = {}
  /\ T \in [Reqs -> Nat]
  /\ \A r \in A \ G : /\ T[r] <= 1
                      /\ T[r] = 1 => r \notin P \cup J \cup O
                      /\ T[r] = 0 /\ r \notin L => r \in P \cup J \cup O
  /\ \A r \in Reqs \ A : T[r] = 0

LEMMA SettledMove ==
  ASSUME NEW A, NEW G, NEW B, NEW P, NEW J, NEW O, NEW L, NEW T, Settled(A, G, B, P, J, O, L, T),
         NEW G2, NEW B2, NEW P2, NEW J2, NEW O2, NEW L2,
         B2 \subseteq G2, G \subseteq G2, G2 \subseteq A, L \subseteq L2, L2 \subseteq A,
         P2 \cup J2 \cup O2 \subseteq P \cup J \cup O, P \cup J \cup O \subseteq P2 \cup J2 \cup O2 \cup G2 \cup L2,
         P2 \cap J2 = {}, P2 \cap O2 = {}, J2 \cap O2 = {}
  PROVE  Settled(A, G2, B2, P2, J2, O2, L2, T)
<1>1. \A r \in A \ G2 : /\ T[r] <= 1
                        /\ T[r] = 1 => r \notin P2 \cup J2 \cup O2
                        /\ T[r] = 0 /\ r \notin L2 => r \in P2 \cup J2 \cup O2
  <2> SUFFICES ASSUME NEW r \in A \ G2
               PROVE  /\ T[r] <= 1
                      /\ T[r] = 1 => r \notin P2 \cup J2 \cup O2
                      /\ T[r] = 0 /\ r \notin L2 => r \in P2 \cup J2 \cup O2
    OBVIOUS
  <2>1. /\ T[r] <= 1
        /\ T[r] = 1 => r \notin P \cup J \cup O
        /\ T[r] = 0 /\ r \notin L => r \in P \cup J \cup O
    BY DEF Settled
  <2> QED
    BY <2>1
<1> QED
  BY <1>1 DEF Settled

LEMMA SettledAdd ==
  ASSUME NEW A, NEW G, NEW B, NEW P, NEW J, NEW O, NEW L, NEW T, Settled(A, G, B, P, J, O, L, T),
         NEW r \in Reqs \ A
  PROVE  Settled(A \cup {r}, G, B, P \cup {r}, J, O, L, T)
<1>1. \A q \in (A \cup {r}) \ G :
        /\ T[q] <= 1
        /\ T[q] = 1 => q \notin P \cup {r} \cup J \cup O
        /\ T[q] = 0 /\ q \notin L => q \in P \cup {r} \cup J \cup O
  <2> SUFFICES ASSUME NEW q \in (A \cup {r}) \ G
               PROVE  /\ T[q] <= 1
                      /\ T[q] = 1 => q \notin P \cup {r} \cup J \cup O
                      /\ T[q] = 0 /\ q \notin L => q \in P \cup {r} \cup J \cup O
    OBVIOUS
  <2>1. CASE q = r
    BY <2>1 DEF Settled
  <2>2. CASE q # r
    BY <2>2 DEF Settled
  <2> QED
    BY <2>1, <2>2
<1> QED
  BY <1>1 DEF Settled

(* The answers reach the clients; those of the set S are answered.         *)
LEMMA SettledTell ==
  ASSUME NEW A, NEW G, NEW B, NEW P, NEW J, NEW O, NEW L, NEW T, Settled(A, G, B, P, J, O, L, T),
         NEW S \in SUBSET (P \cup J \cup O), NEW P2 \in SUBSET P, NEW J2 \in SUBSET J, NEW L2, NEW B2 \in SUBSET B,
         P2 \cap S = {}, J2 \cap S = {}, P \cup J \cup O \subseteq P2 \cup J2 \cup S \cup L2,
         L \subseteq L2, L2 \subseteq A
  PROVE  Settled(A, G, B2, P2, J2, {}, L2, [r \in Reqs |-> IF r \in S THEN T[r] + 1 ELSE T[r]])
<1> DEFINE T2 == [r \in Reqs |-> IF r \in S THEN T[r] + 1 ELSE T[r]]
<1>1. T2 \in [Reqs -> Nat]
  BY DEF Settled
<1>2. ASSUME NEW r \in A \ G
      PROVE  /\ T2[r] <= 1
             /\ T2[r] = 1 => r \notin P2 \cup J2 \cup {}
             /\ T2[r] = 0 /\ r \notin L2 => r \in P2 \cup J2 \cup {}
  <2>1. /\ r \in Reqs /\ T[r] \in Nat /\ T[r] <= 1
        /\ T[r] = 1 => r \notin P \cup J \cup O
        /\ T[r] = 0 /\ r \notin L => r \in P \cup J \cup O
    BY <1>2 DEF Settled
  <2>2. CASE r \in S
    <3>1. T2[r] = 1
      BY <2>1, <2>2
    <3> QED
      BY <2>2, <3>1
  <2>3. CASE r \notin S
    <3>1. T2[r] = T[r]
      BY <2>1, <2>3
    <3>2. T[r] = 1 => r \notin P2 \cup J2
      BY <2>1
    <3>3. T[r] = 0 /\ r \notin L2 => r \in P2 \cup J2
      BY <2>1, <2>3
    <3> QED
      BY <2>1, <3>1, <3>2, <3>3
  <2> QED
    BY <2>2, <2>3
<1>3. ASSUME NEW r \in Reqs \ A PROVE T2[r] = 0
  BY <1>3 DEF Settled
<1>4. /\ B2 \subseteq G /\ G \subseteq A /\ A \subseteq Reqs /\ P2 \cup J2 \cup {} \subseteq A
      /\ P2 \cap J2 = {}
  BY DEF Settled
<1> HIDE DEF T2
<1>5. Settled(A, G, B2, P2, J2, {}, L2, T2)
  BY <1>1, <1>2, <1>3, <1>4 DEF Settled
<1> QED
  BY <1>5 DEF T2

Accounts == Settled(asked, gone, aborts, Places, rej, out, lost, told)
Desk == (At("idle") \/ At("finish") => rej = {}) /\ (At("idle") => out = {})
LedgerInv == Accounts /\ Desk

LEMMA DeskKept ==
  ASSUME Desk, \/ todo' = todo /\ rej' = rej /\ out' = out
               \/ ~At("idle")' /\ ~At("finish")'
               \/ ~At("idle")' /\ rej' = {}
               \/ rej' = {} /\ out' = {}
  PROVE  Desk'
<1>1. CASE todo' = todo /\ rej' = rej /\ out' = out
  BY <1>1 DEF Desk, At
<1>2. CASE ~(todo' = todo /\ rej' = rej /\ out' = out)
  BY <1>2 DEF Desk
<1> QED
  BY <1>1, <1>2

LEMMA DeskNext ==
  ASSUME SchedTypes, Desk, [Next]_vars
  PROVE  Desk'
<1>0. todo \in Plans
  BY DEF SchedTypes, PlanTypes
<1>1. CASE \E r \in Reqs : AddRequest(r) \/ Abort(r) \/ StoreDone(r) \/ ProcessAbort(r)
  <2>1. todo' = todo /\ rej' = rej /\ out' = out
    BY <1>1 DEF AddRequest, Abort, StoreDone, ProcessAbort
  <2> QED
    BY <2>1, DeskKept
<1>2. CASE BeginStep \/ Pick
  <2>1. ~At("idle")' /\ ~At("finish")'
    BY <1>2 DEF BeginStep, Pick, At
  <2> QED
    BY <2>1, DeskKept
<1>3. CASE DrainStep \/ StartAdvance \/ AdvanceDone \/ AdmitDone \/ AdmitHeld \/ AdmitBlocked \/ AdmitDeferred
  <2>1. todo' = Tail(todo) /\ todo[1] \in {"aborts", "advance", "chunks", "admit"}
    BY <1>3 DEF DrainStep, StartAdvance, AdvanceDone, AdmitDone, AdmitHeld, AdmitBlocked, AdmitDeferred, Room, Break,
                Then, At
  <2>2. Tail(todo)[1] \in {"pick", "chunks", "admit", "decode", "advance"}
    BY <1>0, <2>1, Phases
  <2>3. ~At("idle")' /\ ~At("finish")'
    BY <2>1, <2>2 DEF At
  <2> QED
    BY <2>3, DeskKept
<1>4. CASE Take
  <2>1. At("prefill")'
    BY <1>4, TakeMoves
  <2>2. ~At("idle")' /\ ~At("finish")'
    BY <2>1 DEF At
  <2> QED
    BY <2>2, DeskKept
<1>5. CASE Prefill
  <2>1. todo[1] = "prefill" /\ todo' \in {Tail(todo), Tail(Tail(todo))}
    BY <1>5 DEF Prefill, Prefilled, FirstChunk, PrefillFails, PrefillPaused, PrefillAborted, Taken, At, Then
  <2>2. todo'[1] \in {"admit", "advance", "decode"}
    BY <1>0, <2>1, Phases
  <2>3. ~At("idle")' /\ ~At("finish")'
    BY <2>2 DEF At
  <2> QED
    BY <2>3, DeskKept
<1>6. CASE Advance
  <2>1. todo' = todo /\ todo[1] = "chunks"
    BY <1>6 DEF Advance, ChunkRuns, ChunkEnds, ChunkFails, ChunkPaused, ChunkGone, ChunkDeferred, ChunkDue, At
  <2>2. ~At("idle")' /\ ~At("finish")'
    BY <2>1 DEF At
  <2> QED
    BY <2>2, DeskKept
<1>7. CASE Decode \/ NoDecode \/ Corrupt \/ Overflow
  <2>1. ~At("idle")' /\ rej' = {}
    BY <1>7, DecodeMoves, NoDecodeMoves, CorruptMoves, OverflowMoves DEF Retrying
  <2> QED
    BY <2>1, DeskKept
<1>8. CASE Finish
  <2>1. At("finish") /\ rej' = rej /\ out' = {}
    BY <1>8 DEF Finish
  <2>2. rej' = {}
    BY <2>1 DEF Desk
  <2> QED
    BY <2>1, <2>2, DeskKept
<1>9. CASE Fatal \/ AbortRaises
  <2>1. rej' = {} /\ out' = {}
    BY <1>9 DEF Fatal, AbortRaises, FailAll
  <2> QED
    BY <2>1, DeskKept
<1>10. CASE UNCHANGED vars
  <2>1. todo' = todo /\ rej' = rej /\ out' = out
    BY <1>10 DEF vars
  <2> QED
    BY <2>1, DeskKept
<1> QED
  BY <1>1, <1>2, <1>3, <1>4, <1>5, <1>6, <1>7, <1>8, <1>9, <1>10 DEF Next, Step

(* A step that moves requests and answers, and tells nobody.               *)
Moving ==
  /\ asked' = asked /\ told' = told /\ aborts' \subseteq gone' /\ gone \subseteq gone' /\ gone' \subseteq asked
  /\ lost \subseteq lost' /\ lost' \subseteq asked
  /\ Places' \cup rej' \cup out' \subseteq Places \cup rej \cup out
  /\ Places \cup rej \cup out \subseteq Places' \cup rej' \cup out' \cup gone' \cup lost'
  /\ Places' \cap rej' = {} /\ Places' \cap out' = {} /\ rej' \cap out' = {}

LEMMA AccountsMove ==
  ASSUME Accounts, Moving
  PROVE  Accounts'
<1>1. PICK G2, B2, P2, J2, O2, L2 :
        G2 = gone' /\ B2 = aborts' /\ P2 = Places' /\ J2 = rej' /\ O2 = out' /\ L2 = lost'
  OBVIOUS
<1>2. PICK A, G, B, P, J, O, L, T :
        A = asked /\ G = gone /\ B = aborts /\ P = Places /\ J = rej /\ O = out /\ L = lost /\ T = told
  OBVIOUS
<1>3. Settled(A, G, B, P, J, O, L, T)
  BY <1>2 DEF Accounts
<1>4. /\ B2 \subseteq G2 /\ G \subseteq G2 /\ G2 \subseteq A /\ L \subseteq L2 /\ L2 \subseteq A
      /\ P2 \cup J2 \cup O2 \subseteq P \cup J \cup O
      /\ P \cup J \cup O \subseteq P2 \cup J2 \cup O2 \cup G2 \cup L2
      /\ P2 \cap J2 = {} /\ P2 \cap O2 = {} /\ J2 \cap O2 = {}
  BY <1>1, <1>2 DEF Moving
<1>5. Settled(A, G2, B2, P2, J2, O2, L2, T)
  BY <1>3, <1>4, SettledMove
<1>6. asked' = A /\ told' = T
  BY <1>2 DEF Moving
<1> QED
  BY <1>1, <1>5, <1>6 DEF Accounts

(* The shape of the accounts, as facts to compute with.                    *)
AccountFacts ==
  /\ aborts \subseteq gone /\ gone \subseteq asked /\ lost \subseteq asked
  /\ Places \cup rej \cup out \subseteq asked
  /\ Places \cap rej = {} /\ Places \cap out = {} /\ rej \cap out = {}

LEMMA FactsHold == Accounts => AccountFacts
  BY DEF Accounts, Settled, AccountFacts

(* Everybody where they were.                                              *)
LEMMA AccountsQuiet ==
  ASSUME Accounts, Places' = Places, UNCHANGED <<asked, told, gone, rej, out, lost>>, aborts' \subseteq aborts
  PROVE  Accounts'
<1>1. AccountFacts
  BY FactsHold
<1>2. Moving
  BY <1>1 DEF Moving, AccountFacts
<1> QED
  BY <1>2, AccountsMove

LEMMA QuietPlaces == Quiet => Places' = Places
  BY DEF Quiet, Places

LEMMA AccountsAdd ==
  ASSUME PlacedInv, Accounts, NEW r \in Reqs, AddRequest(r)
  PROVE  Accounts'
<1>1. SchedTypes
  BY DEF PlacedInv
<1>2. /\ At("idle") /\ todo' = todo /\ asked' = asked \cup {r} /\ r \notin asked
      /\ ToSet(waiting') = ToSet(waiting) \cup {r}
      /\ UNCHANGED <<running, prefilling, round, still, cur, aborts, rej, out, gone, told, lost>>
  BY <1>1, AddRequestMoves
<1>3. Held' = Held /\ InRound' = InRound
  BY <1>2 DEF Held, InRound, At
<1>4. Places' = Places \cup {r}
  BY <1>2, <1>3 DEF Places
<1>5. PICK A, G, B, P, J, O, L, T :
        A = asked /\ G = gone /\ B = aborts /\ P = Places /\ J = rej /\ O = out /\ L = lost /\ T = told
  OBVIOUS
<1>6. Settled(A, G, B, P, J, O, L, T) /\ r \in Reqs \ A
  BY <1>2, <1>5 DEF Accounts
<1>7. Settled(A \cup {r}, G, B, P \cup {r}, J, O, L, T)
  BY <1>6, SettledAdd
<1> QED
  BY <1>2, <1>4, <1>5, <1>7 DEF Accounts

LEMMA AccountsAbort ==
  ASSUME PlacedInv, Accounts, NEW r \in Reqs, Abort(r)
  PROVE  Accounts'
<1>1. SchedTypes
  BY DEF PlacedInv
<1>2. /\ Quiet /\ gone' = gone \cup {r} /\ aborts' = aborts \cup {r} /\ r \in asked
      /\ UNCHANGED <<rej, out, asked, told, lost>>
  BY <1>1, AbortMoves
<1>3. Places' = Places
  BY <1>2, QuietPlaces
<1>4. AccountFacts
  BY FactsHold
<1>5. Moving
  BY <1>2, <1>3, <1>4 DEF Moving, AccountFacts
<1> QED
  BY <1>5, AccountsMove

LEMMA AccountsProcess ==
  ASSUME PlacedInv, Accounts, NEW r \in Reqs, ProcessAbort(r)
  PROVE  Accounts'
<1>1. SchedTypes /\ Placement
  BY DEF PlacedInv
<1>2. CASE AbortKnown(r)
  <2>1. /\ Outside /\ r \in aborts /\ aborts' = aborts \ {r}
        /\ ToSet(waiting') \subseteq ToSet(waiting) /\ ToSet(waiting) \subseteq ToSet(waiting') \cup {r}
        /\ ToSet(running') = ToSet(running) \ {r}
        /\ ToSet(prefilling') = IF left[r] > 0 THEN ToSet(prefilling) \ {r} ELSE ToSet(prefilling)
        /\ UNCHANGED <<rej, out, asked, gone, told, lost>>
    BY <1>1, <1>2, AbortKnownMoves
  <2>2. Places' \subseteq Places /\ Places \subseteq Places' \cup {r}
    BY <2>1 DEF Places, Outside
  <2>3. AccountFacts
    BY FactsHold
  <2>4. Moving
    BY <2>1, <2>2, <2>3 DEF Moving, AccountFacts
  <2> QED
    BY <2>4, AccountsMove
<1>3. CASE AbortIgnored(r)
  <2>1. Quiet /\ aborts' = aborts \ {r} /\ UNCHANGED <<rej, out, asked, gone, told, lost>>
    BY <1>1, <1>3, AbortIgnoredMoves
  <2> QED
    BY <2>1, QuietPlaces, AccountsQuiet
<1>4. CASE AbortStored(r)
  <2>1. Draining /\ aborts' = aborts \ {r}
    BY <1>1, <1>4, AbortStoredMoves
  <2>2. Outside /\ UNCHANGED <<waiting, prefilling, running, rej, out, asked, gone, told, lost>>
    BY <1>1, <2>1, DrainingMoves
  <2>3. Places' = Places
    BY <2>2 DEF Places, Outside
  <2> QED
    BY <2>1, <2>2, <2>3, AccountsQuiet
<1> QED
  BY <1>2, <1>3, <1>4 DEF ProcessAbort

LEMMA AccountsRound ==
  ASSUME PlacedInv, PlacedInv', Accounts, DrainStep \/ StartAdvance \/ AdvanceDone \/ Advance
  PROVE  Accounts'
<1>1. SchedTypes /\ Placement /\ Placement' /\ AccountFacts
  BY FactsHold DEF PlacedInv
<1>2. CASE DrainStep
  <2>1. Draining /\ aborts' = aborts
    BY <1>1, <1>2, DrainStepMoves
  <2>2. Outside /\ UNCHANGED <<waiting, prefilling, running, rej, out, asked, gone, told, lost>>
    BY <1>1, <2>1, DrainingMoves
  <2>3. Places' = Places
    BY <2>2 DEF Places, Outside
  <2> QED
    BY <2>1, <2>2, <2>3, AccountsQuiet
<1>3. CASE StartAdvance \/ AdvanceDone
  <2>1. Held' = Held /\ InRound' = InRound /\ UNCHANGED <<waiting, running, aborts, rej, out, asked, gone, told, lost>>
    BY <1>1, <1>3, StartAdvanceMoves, AdvanceDoneMoves
  <2>2. Places' = Places
    BY <2>1 DEF Places
  <2> QED
    BY <2>1, <2>2, AccountsQuiet
<1>4. CASE Advance
  <2>0. AdvanceFrame
    BY <1>4 DEF Advance, AdvanceFrame
  <2>1. CASE ChunkRuns \/ ChunkHeld
    <3>1. InChunks /\ Stays /\ UNCHANGED <<waiting, running, aborts, rej, out, asked, gone, told, lost>>
      BY <1>1, <2>0, <2>1, ChunkRunsMoves, ChunkHeldMoves
    <3>2. Places' = Places
      BY <3>1 DEF Places, InChunks, Stays
    <3> QED
      BY <3>1, <3>2, AccountsQuiet
  <2>2. CASE ChunkGone
    <3>1. InChunks /\ Leaves(Chunk) /\ left[Chunk] = 0
      BY <1>1, <2>0, <2>2, ChunkGoneMoves
    <3>2. Chunk \in Reqs /\ Chunk \in InRound
      BY <3>1 DEF Leaves
    <3> QED
      BY <3>1, <3>2 DEF PlacedInv, HasLeft
  <2>3. CASE ChunkEnds
    <3>1. /\ InChunks /\ Leaves(Chunk) /\ ToSet(running') = ToSet(running) \cup {Chunk}
          /\ UNCHANGED <<waiting, aborts, rej, out, asked, gone, told, lost>>
      BY <1>1, <2>0, <2>3, ChunkEndsMoves
    <3>2. Places' = Places
      BY <3>1 DEF Places, InChunks, Leaves
    <3> QED
      BY <3>1, <3>2, AccountsQuiet
  <2>4. CASE ChunkFails
    <3>1. /\ InChunks /\ Leaves(Chunk)
          /\ \/ ToSet(waiting') = {Chunk} \cup ToSet(waiting) /\ rej' = rej
             \/ waiting' = waiting /\ rej' = rej \cup {Chunk} /\ requests' = requests \ {Chunk}
          /\ UNCHANGED <<running, aborts, out, asked, gone, told, lost>>
      BY <1>1, <2>0, <2>4, ChunkFailsMoves
    <3>2. CASE ToSet(waiting') = {Chunk} \cup ToSet(waiting) /\ rej' = rej
      <4>1. Places' = Places
        BY <3>1, <3>2 DEF Places, InChunks, Leaves
      <4> QED
        BY <3>1, <3>2, <4>1, AccountsQuiet
    <3>3. CASE waiting' = waiting /\ rej' = rej \cup {Chunk} /\ requests' = requests \ {Chunk}
      <4>1. Chunk \in Places /\ Chunk \notin requests' /\ Places' \cup {Chunk} = Places
        BY <3>1, <3>3 DEF Places, InChunks, Leaves
      <4>2. Chunk \notin Places'
        BY <1>1, <4>1 DEF Placement, Parts, Places
      <4>3. Moving
        BY <1>1, <3>1, <3>3, <4>1, <4>2 DEF Moving, AccountFacts
      <4> QED
        BY <4>3, AccountsMove
    <3> QED
      BY <3>1, <3>2, <3>3
  <2> QED
    BY <1>4, <2>1, <2>2, <2>3, <2>4 DEF Advance, ChunkHeld
<1> QED
  BY <1>2, <1>3, <1>4

LEMMA AccountsAdmit ==
  ASSUME PlacedInv, Accounts, AdmitBlocked \/ Take
  PROVE  Accounts'
<1>1. SchedTypes /\ Placement /\ Singly /\ AccountFacts
  BY FactsHold DEF PlacedInv
<1>2. CASE AdmitBlocked
  <2>1. /\ \/ Quiet /\ requests' = requests /\ rej' = rej
           \/ \E r \in ToSet(waiting) :
                /\ ToSet(waiting) = ToSet(waiting') \cup {r}
                /\ Distinct(waiting) => Distinct(waiting') /\ r \notin ToSet(waiting')
                /\ requests' = requests \ {r} /\ rej' = rej \cup {r}
        /\ InRound' = InRound /\ Held' = Held
        /\ UNCHANGED <<running, prefilling, aborts, out, asked, gone, told, lost>>
    BY <1>1, <1>2, AdmitBlockedMoves
  <2>2. CASE Quiet /\ requests' = requests /\ rej' = rej
    BY <2>1, <2>2, QuietPlaces, AccountsQuiet
  <2>3. ASSUME NEW r \in ToSet(waiting),
               ToSet(waiting) = ToSet(waiting') \cup {r},
               Distinct(waiting) => Distinct(waiting') /\ r \notin ToSet(waiting'),
               rej' = rej \cup {r}
        PROVE  Accounts'
    <3>1. r \notin ToSet(waiting')
      BY <1>1, <2>3 DEF Singly
    <3>2. Places' \cup {r} = Places /\ r \notin Places'
      BY <1>1, <2>1, <2>3, <3>1 DEF Placement, Parts, Places
    <3>3. Moving
      BY <1>1, <2>1, <2>3, <3>2 DEF Moving, AccountFacts
    <3> QED
      BY <3>3, AccountsMove
  <2> QED
    BY <2>1, <2>2, <2>3
<1>3. CASE Take
  <2>1. /\ Held = {} /\ Held' = {cur'} /\ ToSet(waiting) = ToSet(waiting') \cup {cur'} /\ InRound' = InRound
        /\ UNCHANGED <<running, prefilling, aborts, rej, out, asked, gone, told, lost>>
    BY <1>1, <1>3, TakeMoves
  <2>2. Places' = Places
    BY <2>1 DEF Places
  <2> QED
    BY <2>1, <2>2, AccountsQuiet
<1> QED
  BY <1>2, <1>3

LEMMA AccountsPrefill ==
  ASSUME PlacedInv, Accounts, Prefill
  PROVE  Accounts'
<1>0. UNCHANGED <<stores, serial, out, clients>>
  BY DEF Prefill
<1>1. SchedTypes /\ Placement /\ AccountFacts
  BY FactsHold DEF PlacedInv
<1>2. CASE Prefilled
  <2>1. /\ PrefillCommon /\ ToSet(running') = ToSet(running) \cup {cur}
        /\ UNCHANGED <<waiting, prefilling, aborts, rej, out, asked, gone, told, lost>>
    BY <1>0, <1>1, <1>2, PrefilledMoves
  <2>2. Places' = Places
    BY <2>1 DEF Places, PrefillCommon
  <2> QED
    BY <2>1, <2>2, AccountsQuiet
<1>3. CASE FirstChunk
  <2>1. /\ PrefillCommon /\ ToSet(prefilling') = ToSet(prefilling) \cup {cur}
        /\ UNCHANGED <<waiting, running, aborts, rej, out, asked, gone, told, lost>>
    BY <1>0, <1>1, <1>3, FirstChunkMoves
  <2>2. Places' = Places
    BY <2>1 DEF Places, PrefillCommon
  <2> QED
    BY <2>1, <2>2, AccountsQuiet
<1>4. ASSUME PrefillCommon, ToSet(waiting') = {cur} \cup ToSet(waiting), rej' = rej,
             UNCHANGED <<prefilling, running, aborts, out, asked, gone, told, lost>>
      PROVE  Accounts'
  <2>1. Places' = Places
    BY <1>4 DEF Places, PrefillCommon
  <2> QED
    BY <1>4, <2>1, AccountsQuiet
<1>5. ASSUME PrefillCommon, waiting' = waiting, UNCHANGED <<prefilling, running>>
      PROVE  Places' \cup {cur} = Places /\ cur \notin Places'
  BY <1>1, <1>5 DEF Placement, Parts, Places, PrefillCommon
<1>6. CASE PrefillFails
  <2>1. /\ PrefillCommon
        /\ \/ ToSet(waiting') = {cur} \cup ToSet(waiting) /\ rej' = rej
           \/ waiting' = waiting /\ rej' = rej \cup {cur}
        /\ UNCHANGED <<prefilling, running, aborts, out, asked, gone, told, lost>>
    BY <1>0, <1>1, <1>6, PrefillFailsMoves
  <2>2. CASE waiting' = waiting /\ rej' = rej \cup {cur}
    <3>1. Places' \cup {cur} = Places /\ cur \notin Places'
      BY <1>5, <2>1, <2>2
    <3>2. Moving
      BY <1>1, <2>1, <2>2, <3>1 DEF Moving, AccountFacts
    <3> QED
      BY <3>2, AccountsMove
  <2> QED
    BY <1>4, <2>1, <2>2
<1>7. CASE PrefillPaused
  <2>1. /\ PrefillCommon /\ ToSet(waiting') = {cur} \cup ToSet(waiting)
        /\ UNCHANGED <<prefilling, running, aborts, rej, out, asked, gone, told, lost>>
    BY <1>0, <1>1, <1>7, PrefillPausedMoves
  <2> QED
    BY <1>4, <2>1
<1>8. CASE PrefillAborted
  <2>1. /\ PrefillCommon /\ cur \in aborts /\ aborts' = aborts \ {cur}
        /\ UNCHANGED <<waiting, prefilling, running, rej, out, asked, gone, told, lost>>
    BY <1>0, <1>1, <1>8, PrefillAbortedMoves
  <2>2. Places' \cup {cur} = Places /\ cur \notin Places'
    BY <1>5, <2>1
  <2>3. Moving
    BY <1>1, <2>1, <2>2 DEF Moving, AccountFacts
  <2> QED
    BY <2>3, AccountsMove
<1> QED
  BY <1>2, <1>3, <1>6, <1>7, <1>8 DEF Prefill

LEMMA AccountsDecode ==
  ASSUME PlacedInv, Accounts, Decode \/ NoDecode
  PROVE  Accounts'
<1>1. SchedTypes /\ Placement /\ AccountFacts
  BY FactsHold DEF PlacedInv
<1>2. CASE NoDecode
  <2>1. /\ Quiet /\ out' = out \cup rej /\ rej' = {} /\ UNCHANGED <<aborts, asked, gone, told, lost>>
    BY <1>1, <1>2, NoDecodeMoves
  <2>2. Places' = Places
    BY <2>1, QuietPlaces
  <2>3. Moving
    BY <1>1, <2>1, <2>2 DEF Moving, AccountFacts
  <2> QED
    BY <2>3, AccountsMove
<1>3. CASE Decode
  <2>1. /\ Outside /\ rej' = {} /\ UNCHANGED <<waiting, prefilling, aborts, asked, gone, told, lost>>
        /\ \E finished, kept :
              /\ finished \subseteq ToSet(running) /\ kept \subseteq finished
              /\ ToSet(running') = ToSet(running) \ finished
              /\ InFlight' = InFlight \cup (kept \cap DOMAIN uidOf)
              /\ requests' = requests \ (finished \ kept)
              /\ uidOf' = Drop(uidOf, finished \ kept)
              /\ out' = out \cup rej \cup finished
    BY <1>1, <1>3, DecodeMoves
  <2>2. PICK finished : /\ finished \subseteq ToSet(running) /\ ToSet(running') = ToSet(running) \ finished
                        /\ out' = out \cup rej \cup finished
    BY <2>1
  <2>3. Places' = Places \ finished /\ finished \subseteq Places
    BY <1>1, <2>1, <2>2 DEF Places, Outside, Placement, Parts
  <2>4. Moving
    BY <1>1, <2>1, <2>2, <2>3 DEF Moving, AccountFacts
  <2> QED
    BY <2>4, AccountsMove
<1> QED
  BY <1>2, <1>3

LEMMA AccountsFinish ==
  ASSUME PlacedInv, Accounts, Finish
  PROVE  Accounts'
<1>1. SchedTypes /\ AccountFacts
  BY FactsHold DEF PlacedInv
<1>2. /\ Quiet /\ told' = [r \in Reqs |-> IF r \in out THEN told[r] + 1 ELSE told[r]] /\ out' = {}
      /\ UNCHANGED <<aborts, rej, asked, gone, lost>>
  BY <1>1, FinishMoves
<1>3. Places' = Places
  BY <1>2, QuietPlaces
<1>4. PICK A, G, B, P, J, O, L, T :
        A = asked /\ G = gone /\ B = aborts /\ P = Places /\ J = rej /\ O = out /\ L = lost /\ T = told
  OBVIOUS
<1>5. Settled(A, G, B, P, J, O, L, T) /\ P \cap O = {} /\ J \cap O = {} /\ L \subseteq A
  BY <1>1, <1>4 DEF Accounts, AccountFacts
<1>6. Settled(A, G, B, P, J, {}, L, [r \in Reqs |-> IF r \in O THEN T[r] + 1 ELSE T[r]])
  BY <1>5, SettledTell
<1> QED
  BY <1>2, <1>3, <1>4, <1>6 DEF Accounts

LEMMA AccountsRetry ==
  ASSUME Once', PlacedInv, SchedTypes', Accounts, NEW kind, NEW budget, Retrying(kind, budget)
  PROVE  Accounts'
<1>1. SchedTypes /\ Placement /\ AccountFacts
  BY FactsHold DEF PlacedInv
<1>2. /\ ToSet(running') = {} /\ ToSet(prefilling') = {} /\ AffectedSet = ToSet(running) \cup InRound \cup Held
  BY PlacedRetry
<1>3. PICK F, D : F = Failed(kind, budget) /\ D = Dropped0
  OBVIOUS
<1>4. F \subseteq AffectedSet /\ D \in {{}, rej}
  BY <1>3 DEF Failed, Dropped0
<1>5. /\ ToSet(waiting') = (AffectedSet \ F) \cup ToSet(waiting)
      /\ rej' = {} /\ out' = out \cup F \cup (rej \ D) /\ lost' = lost \cup D
      /\ Held' = {} /\ InRound' = ToSet(prefilling')
      /\ UNCHANGED <<aborts, asked, gone, told>>
  BY <1>3 DEF Retrying
<1>6. Places' = Places \ F /\ F \subseteq Places
  BY <1>1, <1>2, <1>4, <1>5 DEF Places, Placement, Parts
<1>7. Moving
  BY <1>1, <1>4, <1>5, <1>6 DEF Moving, AccountFacts
<1> QED
  BY <1>7, AccountsMove

LEMMA AccountsFail ==
  ASSUME PlacedInv, SchedTypes', Accounts, FailingAll, aborts' \subseteq aborts
  PROVE  Accounts'
<1>1. SchedTypes /\ Placement /\ AccountFacts
  BY FactsHold DEF PlacedInv
<1>2. requests \ InFlight \subseteq FailedAll /\ FailedAll \subseteq (requests \ InFlight) \cup rej
  BY PlacedFailAll
<1>3. Places \subseteq FailedAll /\ FailedAll \subseteq Places \cup rej
  BY <1>1, <1>2 DEF Placement, Parts, Places
<1>4. /\ Places' = {} /\ rej' = {} /\ out' = {} /\ lost' = lost \cup rej \cup out
      /\ told' = [r \in Reqs |-> IF r \in FailedAll THEN told[r] + 1 ELSE told[r]]
      /\ UNCHANGED <<asked, gone>>
  BY <1>3 DEF FailingAll, Places
<1>5. PICK A, G, B, P, J, O, L, T :
        A = asked /\ G = gone /\ B = aborts /\ P = Places /\ J = rej /\ O = out /\ L = lost /\ T = told
  OBVIOUS
<1>6. PICK B2, S : B2 = aborts' /\ S = FailedAll
  OBVIOUS
<1>7. /\ Settled(A, G, B, P, J, O, L, T) /\ B2 \in SUBSET B /\ S \in SUBSET (P \cup J \cup O)
      /\ {} \in SUBSET P /\ {} \in SUBSET J /\ {} \cap S = {}
      /\ P \cup J \cup O \subseteq {} \cup {} \cup S \cup (L \cup J \cup O)
      /\ L \subseteq L \cup J \cup O /\ L \cup J \cup O \subseteq A
  BY <1>1, <1>3, <1>5, <1>6 DEF Accounts, AccountFacts
<1>8. Settled(A, G, B2, {}, {}, {}, L \cup J \cup O, [r \in Reqs |-> IF r \in S THEN T[r] + 1 ELSE T[r]])
  BY <1>7, SettledTell
<1> QED
  BY <1>4, <1>5, <1>6, <1>8 DEF Accounts

LEMMA LedgerInit == Init => LedgerInv
<1> SUFFICES ASSUME Init PROVE LedgerInv
  OBVIOUS
<1>1. /\ asked = {} /\ gone = {} /\ aborts = {} /\ rej = {} /\ out = {} /\ lost = {}
      /\ told = [r \in Reqs |-> 0] /\ todo = <<"idle">>
  BY DEF Init
<1>2. ~At("prefill") /\ ~At("chunks")
  BY <1>1 DEF At
<1>3. ToSet(waiting) = {} /\ ToSet(running) = {} /\ ToSet(prefilling) = {}
  BY QueuesEmpty DEF Init
<1>4. Places = {}
  BY <1>2, <1>3 DEF Places, InRound, Held
<1>5. Accounts
  BY <1>1, <1>4 DEF Accounts, Settled
<1>6. Desk
  BY <1>1 DEF Desk
<1> QED
  BY <1>5, <1>6 DEF LedgerInv

LEMMA LedgerNext == Once' /\ PlacedInv /\ PlacedInv' /\ LedgerInv /\ [Next]_vars => LedgerInv'
<1> SUFFICES ASSUME Once', PlacedInv, PlacedInv', LedgerInv, [Next]_vars PROVE LedgerInv'
  OBVIOUS
<1>0. SchedTypes /\ SchedTypes' /\ Accounts /\ Desk
  BY DEF PlacedInv, LedgerInv
<1>1. Desk'
  BY <1>0, DeskNext
<1> SUFFICES Accounts'
  BY <1>1 DEF LedgerInv
<1>2. ASSUME NEW r \in Reqs, AddRequest(r) \/ Abort(r) \/ ProcessAbort(r) PROVE Accounts'
  BY <1>0, <1>2, AccountsAdd, AccountsAbort, AccountsProcess
<1>3. ASSUME Quiet, UNCHANGED <<aborts, rej, out, asked, gone, told, lost>> PROVE Accounts'
  BY <1>0, <1>3, QuietPlaces, AccountsQuiet
<1>4. ASSUME NEW r \in Reqs, StoreDone(r) PROVE Accounts'
  BY <1>0, <1>3, <1>4, StoreDoneMoves
<1>5. CASE BeginStep \/ Pick \/ AdmitQuiet \/ UNCHANGED vars
  BY <1>0, <1>3, <1>5, BeginStepMoves, PickMoves, AdmitQuietMoves, StutterMoves
<1>6. CASE DrainStep \/ StartAdvance \/ AdvanceDone \/ Advance
  BY <1>0, <1>6, AccountsRound
<1>7. CASE AdmitBlocked \/ Take
  BY <1>0, <1>7, AccountsAdmit
<1>8. CASE Prefill
  BY <1>0, <1>8, AccountsPrefill
<1>9. CASE Decode \/ NoDecode
  BY <1>0, <1>9, AccountsDecode
<1>10. CASE Finish
  BY <1>0, <1>10, AccountsFinish
<1>11. CASE Corrupt
  BY <1>0, <1>11, CorruptMoves, AccountsRetry
<1>12. CASE Overflow
  BY <1>0, <1>12, OverflowMoves, AccountsRetry
<1>13. CASE Fatal \/ AbortRaises
  <2>1. FailingAll /\ aborts' \subseteq aborts
    BY <1>0, <1>13, FatalMoves, AbortRaisesMoves
  <2> QED
    BY <1>0, <2>1, AccountsFail
<1> QED
  BY <1>2, <1>4, <1>5, <1>6, <1>7, <1>8, <1>9, <1>10, <1>11, <1>12, <1>13 DEF Next, Step, AdmitQuiet

LEMMA LedgerSafe == Spec => [](Once => LedgerInv)
<1>1. Once' /\ PlacedInv /\ PlacedInv' /\ LedgerInv /\ [Next]_vars => LedgerInv'
  BY LedgerNext
<1>2. RowsInv => PlacedInv
  BY DEF RowsInv
<1> QED
  BY <1>1, <1>2, LedgerInit, OnceFirst, RowsSafe, PTL DEF Spec

LEMMA TimesOnce ==
  ASSUME NEW s \in Seq(Reqs), Distinct(s), NEW r
  PROVE  Times(s, r) = IF r \in ToSet(s) THEN 1 ELSE 0
<1> DEFINE S == {i \in 1..Len(s) : s[i] = r}
<1>1. ToSet(s) = {s[i] : i \in 1..Len(s)}
  BY AsSet
<1>2. Times(s, r) = Cardinality(S)
  BY DEF Times
<1>3. CASE r \in ToSet(s)
  <2>1. PICK i \in 1..Len(s) : s[i] = r
    BY <1>1, <1>3
  <2>2. S = {i}
    BY <2>1 DEF Distinct
  <2>3. Cardinality({i}) = 1
    BY FS_Singleton
  <2> QED
    BY <1>2, <1>3, <2>2, <2>3
<1>4. CASE r \notin ToSet(s)
  <2>1. S = {}
    BY <1>1, <1>4
  <2>2. Cardinality({}) = 0
    BY FS_EmptySet
  <2> QED
    BY <1>2, <1>4, <2>1, <2>2
<1> QED
  BY <1>3, <1>4

LEMMA OnePlaceOfInv == PlacedInv /\ LedgerInv => OnePlace
<1> SUFFICES ASSUME PlacedInv, LedgerInv, At("idle"), NEW r \in Owed \ (lost \cup twice) PROVE InOnePlace(r)
  BY DEF OnePlace
<1>1. SchedTypes /\ Placement /\ Singly /\ Accounts /\ rej = {} /\ out = {}
  BY DEF PlacedInv, LedgerInv, Desk
<1>2. ~At("chunks") /\ ~At("prefill")
  BY DEF At
<1>3. InRound = ToSet(prefilling) /\ Held = {} /\ Distinct(prefilling)
  BY <1>1, <1>2 DEF InRound, Held, RoundDistinct, Singly
<1>4. r \in Places
  BY <1>1 DEF Accounts, Settled, Owed
<1>5. r \in ToSet(waiting) \cup ToSet(prefilling) \cup ToSet(running)
  BY <1>3, <1>4 DEF Places
<1>6. /\ waiting \in Seq(Reqs) /\ prefilling \in Seq(Reqs) /\ running \in Seq(Reqs)
      /\ Distinct(waiting) /\ Distinct(running)
  BY <1>1 DEF SchedTypes, QueueTypes, Singly
<1>7. /\ Times(waiting, r) = IF r \in ToSet(waiting) THEN 1 ELSE 0
      /\ Times(prefilling, r) = IF r \in ToSet(prefilling) THEN 1 ELSE 0
      /\ Times(running, r) = IF r \in ToSet(running) THEN 1 ELSE 0
  BY <1>3, <1>6, TimesOnce
<1>8. /\ r \in requests
      /\ ~(r \in ToSet(waiting) /\ r \in ToSet(prefilling)) /\ ~(r \in ToSet(waiting) /\ r \in ToSet(running))
      /\ ~(r \in ToSet(prefilling) /\ r \in ToSet(running))
  BY <1>1, <1>3, <1>5 DEF Placement, Parts
<1>9. Times(waiting, r) + Times(prefilling, r) + Times(running, r) = 1
  <2>1. CASE r \in ToSet(waiting)
    BY <1>7, <1>8, <2>1
  <2>2. CASE r \in ToSet(prefilling)
    BY <1>7, <1>8, <2>2
  <2>3. CASE r \in ToSet(running)
    BY <1>7, <1>8, <2>3
  <2> QED
    BY <1>5, <2>1, <2>2, <2>3
<1> QED
  BY <1>8, <1>9 DEF InOnePlace

(* Between steps a request whose client waits is in exactly one queue,     *)
(* unless a step that raised took its answer along.                        *)
THEOREM EngineOnePlace == Spec => [](twice = {} => OnePlace)
<1>1. RowsInv => PlacedInv
  BY DEF RowsInv
<1> QED
  BY <1>1, RowsSafe, LedgerSafe, OnePlaceOfInv, PTL DEF Once

(* No client that stays gets two final answers, whatever is retried,       *)
(* rejected or failed.                                                     *)
THEOREM EngineAnsweredOnce == Spec => [](twice = {} => AnsweredOnce)
<1>1. LedgerInv => AnsweredOnce
  BY DEF LedgerInv, Accounts, Settled, AnsweredOnce
<1> QED
  BY <1>1, LedgerSafe, PTL DEF Once
=============================================================================
