------------------------- MODULE OverlapBatonProofs -------------------------
(***************************************************************************)
(* The copy-engine all-reduce, for any number of rounds: the reads of the  *)
(* peer's buffers are stable, and the protocol implements AllReduce.       *)
(* The prefill overlap, for any chunk, steps, failure and lag: what the    *)
(* halves issue is a behaviour of the copy-engine all-reduce, and so       *)
(* inherits what is shown of it for any order of the two streams; both     *)
(* ranks issue their collectives in one order, none beside another; and    *)
(* each half runs every segment with its own globals.                      *)
(***************************************************************************)
EXTENDS OverlapBaton, SequenceTheorems, TLAPS

(***************************************************************************)
(* The copy-engine all-reduce (CEAllReduce.tla).                           *)
(***************************************************************************)

Nothing == {"copyS", "setS"}                               \* S of this round not announced
Reduced == {"idle", "waitG", "readG"}                      \* S2 of this round announced
Received == {"readS", "add", "copyG", "setG", "waitG", "readG", "idle"}
Before == {"copyS", "setS", "waitS", "readS", "add"}       \* S2 still the previous round's

(* Each flag is the round its buffer was last announced for.               *)
Flags(r) ==
  /\ pc[r] # "idle" => k[r] > 0
  /\ flag_s[r] = IF pc[r] \in Nothing THEN k[r] - 1 ELSE k[r]
  /\ flag_g[r] = IF pc[r] \in Reduced THEN k[r] ELSE k[r] - 1

(* What a rank has waited for stays true: the peer's flags only grow.      *)
Waited(r) ==
  /\ flag_g[Peer(r)] >= k[r] - 1
  /\ pc[r] \in Received => flag_s[Peer(r)] >= k[r]
  /\ pc[r] \in {"readG", "idle"} => flag_g[Peer(r)] >= k[r]

(* What the buffers hold at each place of the round.                       *)
Holds(r) ==
  /\ pc[r] # "copyS" /\ k[r] > 0 => S[r] = Partial(r, k[r])
  /\ pc[r] = "copyS" => x[r][Peer(r)] = Partial(r, k[r])
  /\ pc[r] \in Before => x[r][r] = Partial(r, k[r])
  /\ pc[r] \in {"readS", "add"} => R[r] = Partial(Peer(r), k[r])
  /\ pc[r] \in {"copyG", "setG", "waitG", "readG"} => x[r][r] = Sum(k[r])
  /\ pc[r] \in {"setG", "waitG", "readG", "idle"} /\ k[r] > 0 => S2[r] = Sum(k[r])
  /\ pc[r] \in Before /\ k[r] > 1 => S2[r] = Sum(k[r] - 1)
  /\ pc[r] = "readG" => x[r][Peer(r)] = Sum(k[r])

CEInv == TypeOK /\ \A r \in Ranks : Flags(r) /\ Waited(r) /\ Holds(r)

LEMMA TwoRanks ==
  /\ \A r \in Ranks : Peer(r) \in Ranks /\ Peer(r) # r /\ Peer(Peer(r)) = r
  /\ \A r, u \in Ranks : u = r \/ u = Peer(r)
BY DEF Ranks, Peer

LEMMA PlusType ==
  ASSUME NEW a \in Value, NEW b \in Value
  PROVE  Plus(a, b) \in Value
BY RoundsAssumption DEF Value, Plus, Torn

LEMMA CopiedType ==
  ASSUME NEW a \in Value, NEW b \in Value
  PROVE  Copied(a, b) \in Value
BY RoundsAssumption DEF Value, Copied, Torn

LEMMA ValueTypes ==
  /\ Torn \in Value
  /\ \A r \in Ranks : \A n \in 0..MaxRounds : Partial(r, n) \in Value /\ Sum(n) \in Value
BY RoundsAssumption DEF Value, Torn, Partial, Sum

(* A rank that reads its peer's S finds it in the same round, past the     *)
(* copy: a peer one round ahead would have waited for this rank's flag_g.  *)
LEMMA ReadingS ==
  ASSUME CEInv, NEW r \in Ranks,
         pc[r] \in Before, flag_s[Peer(r)] >= k[r]
  PROVE  k[Peer(r)] = k[r] /\ pc[Peer(r)] \notin Nothing /\ S[Peer(r)] = Partial(Peer(r), k[r])
<1> DEFINE p == Peer(r)
<1>1. p \in Ranks /\ Peer(p) = r
  BY TwoRanks
<1> HIDE DEF p
<1>2. k[r] \in Nat /\ k[p] \in Nat
  BY <1>1 DEF CEInv, TypeOK
<1>3. Flags(r) /\ Flags(p) /\ Waited(p) /\ Holds(p)
  BY <1>1 DEF CEInv
<1>4. flag_g[r] = k[r] - 1 /\ k[r] > 0
  BY <1>3 DEF Flags, Reduced, Before
<1>5. k[p] <= k[r]
  BY <1>1, <1>2, <1>3, <1>4 DEF Waited
<1>6. k[p] = k[r] /\ pc[p] \notin Nothing
  BY <1>2, <1>3, <1>5 DEF Flags, p
<1> QED
  BY <1>3, <1>4, <1>6 DEF Holds, Nothing, p

(* A rank that reads its peer's S2 finds it announced for this round; the  *)
(* peer may have begun the next round but cannot be past its wait there.   *)
LEMMA ReadingS2 ==
  ASSUME CEInv, NEW r \in Ranks,
         pc[r] \in {"waitG", "readG"}, flag_g[Peer(r)] >= k[r]
  PROVE  pc[Peer(r)] # "copyG" /\ S2[Peer(r)] = Sum(k[r])
<1> DEFINE p == Peer(r)
<1>1. p \in Ranks /\ Peer(p) = r
  BY TwoRanks
<1> HIDE DEF p
<1>2. k[r] \in Nat /\ k[p] \in Nat /\ pc[p] \in Round \cup {"idle"}
  BY <1>1 DEF CEInv, TypeOK
<1>3. Flags(r) /\ Flags(p) /\ Waited(p) /\ Holds(p)
  BY <1>1 DEF CEInv
<1>4. flag_g[r] = k[r] /\ flag_s[r] = k[r] /\ k[r] > 0 /\ flag_g[p] >= k[r]
  BY <1>3 DEF Flags, Reduced, Nothing, p
<1>5. k[p] <= k[r] + 1
  BY <1>1, <1>2, <1>3, <1>4 DEF Waited
<1>6. CASE k[p] = k[r] + 1
  <2>1. pc[p] \notin Received
    BY <1>1, <1>2, <1>3, <1>4, <1>6 DEF Waited
  <2>2. pc[p] \in Before /\ pc[p] # "copyG"
    BY <1>2, <2>1 DEF Received, Before, Round
  <2> QED
    BY <1>2, <1>3, <1>4, <1>6, <2>2 DEF Holds, p
<1>7. CASE k[p] <= k[r]
  <2>1. k[p] = k[r] /\ pc[p] \in Reduced
    BY <1>2, <1>3, <1>4, <1>7 DEF Flags
  <2> QED
    BY <1>3, <1>4, <2>1 DEF Holds, Reduced, p
<1> QED
  BY <1>2, <1>5, <1>6, <1>7

LEMMA TypeStep == TypeOK /\ [Next]_vars => TypeOK'
<1> USE RoundsAssumption
<1> SUFFICES ASSUME TypeOK, [Next]_vars PROVE TypeOK'
  OBVIOUS
<1>1. ASSUME NEW r \in Ranks, Start(r) PROVE TypeOK'
  <2>1. k[r] + 1 \in 0..MaxRounds
    BY <1>1 DEF TypeOK, Start
  <2>2. [h \in Ranks |-> Partial(r, k[r] + 1)] \in [Ranks -> Value]
    BY <2>1, ValueTypes
  <2>3. x' \in [Ranks -> [Ranks -> Value]] /\ S' \in [Ranks -> Value]
    BY <1>1, <2>2, ValueTypes DEF TypeOK, Start, Set
  <2> QED
    BY <1>1, <2>1, <2>3 DEF TypeOK, Start, Set, Goto, Round
<1>2. ASSUME NEW r \in Ranks, CopyS(r) PROVE TypeOK'
  <2>1. S' \in [Ranks -> Value]
    BY <1>2, TwoRanks DEF TypeOK, CopyS, Set
  <2> QED
    BY <1>2, <2>1 DEF TypeOK, CopyS, Goto, Round
<1>3. ASSUME NEW r \in Ranks, SetS(r) PROVE TypeOK'
  BY <1>3 DEF TypeOK, SetS, Set, Goto, Round
<1>4. ASSUME NEW r \in Ranks, WaitS(r) PROVE TypeOK'
  <2>1. R' \in [Ranks -> Value]
    BY <1>4, TwoRanks DEF TypeOK, WaitS, Set
  <2> QED
    BY <1>4, <2>1 DEF TypeOK, WaitS, Goto, Round
<1>5. ASSUME NEW r \in Ranks, ReadS(r) PROVE TypeOK'
  <2>1. Copied(R[r], S[Peer(r)]) \in Value
    BY TwoRanks, CopiedType DEF TypeOK
  <2>2. R' \in [Ranks -> Value]
    BY <1>5, <2>1 DEF TypeOK, ReadS, Set
  <2> QED
    BY <1>5, <2>2 DEF TypeOK, ReadS, Goto, Round
<1>6. ASSUME NEW r \in Ranks, Add(r) PROVE TypeOK'
  <2>1. Plus(x[r][r], R[r]) \in Value
    BY PlusType DEF TypeOK
  <2>2. [h \in Ranks |-> IF h = r THEN Plus(x[r][r], R[r]) ELSE x[r][h]] \in [Ranks -> Value]
    BY <2>1 DEF TypeOK
  <2>3. x' \in [Ranks -> [Ranks -> Value]] /\ S2' \in [Ranks -> Value]
    BY <1>6, <2>2, ValueTypes DEF TypeOK, Add, Set
  <2> QED
    BY <1>6, <2>3 DEF TypeOK, Add, Goto, Round
<1>7. ASSUME NEW r \in Ranks, CopyG(r) PROVE TypeOK'
  <2>1. S2' \in [Ranks -> Value]
    BY <1>7 DEF TypeOK, CopyG, Set
  <2> QED
    BY <1>7, <2>1 DEF TypeOK, CopyG, Goto, Round
<1>8. ASSUME NEW r \in Ranks, SetG(r) PROVE TypeOK'
  BY <1>8 DEF TypeOK, SetG, Set, Goto, Round
<1>9. ASSUME NEW r \in Ranks, WaitG(r) PROVE TypeOK'
  <2>1. [h \in Ranks |-> IF h = r THEN x[r][r] ELSE S2[Peer(r)]] \in [Ranks -> Value]
    BY TwoRanks DEF TypeOK
  <2>2. x' \in [Ranks -> [Ranks -> Value]]
    BY <1>9, <2>1 DEF TypeOK, WaitG, Set
  <2> QED
    BY <1>9, <2>2 DEF TypeOK, WaitG, Goto, Round
<1>10. ASSUME NEW r \in Ranks, ReadG(r) PROVE TypeOK'
  <2>1. \A h \in Ranks : Copied(x[r][h], S2[h]) \in Value
    BY CopiedType DEF TypeOK
  <2>2. [h \in Ranks |-> IF h = r THEN x[r][r] ELSE Copied(x[r][h], S2[h])] \in [Ranks -> Value]
    BY <2>1 DEF TypeOK
  <2>3. x' \in [Ranks -> [Ranks -> Value]]
    BY <1>10, <2>2 DEF TypeOK, ReadG, Set
  <2>4. result' \in [Ranks -> [Ranks -> Value]]
    BY <1>10, <2>3 DEF TypeOK, ReadG, Set
  <2> QED
    BY <1>10, <2>3, <2>4 DEF TypeOK, ReadG, Goto, Round
<1>11. CASE UNCHANGED vars
  BY <1>11 DEF TypeOK, vars
<1> QED
  BY <1>1, <1>2, <1>3, <1>4, <1>5, <1>6, <1>7, <1>8, <1>9, <1>10, <1>11 DEF Next, StreamStep


(* A rank's step leaves its peer as it was and lowers no flag.             *)
PeerStill(r) ==
  LET p == Peer(r) IN
    /\ pc'[p] = pc[p] /\ k'[p] = k[p] /\ flag_s'[p] = flag_s[p] /\ flag_g'[p] = flag_g[p]
    /\ x'[p] = x[p] /\ S'[p] = S[p] /\ S2'[p] = S2[p] /\ R'[p] = R[p]
    /\ flag_s'[r] >= flag_s[r] /\ flag_g'[r] >= flag_g[r]

LEMMA PeerKeeps ==
  ASSUME CEInv, TypeOK', NEW r \in Ranks, PeerStill(r),
         Flags(r)', Waited(r)', Holds(r)'
  PROVE  CEInv'
<1> DEFINE p == Peer(r)
<1>1. p \in Ranks /\ Peer(p) = r /\ \A u \in Ranks : u = r \/ u = p
  BY TwoRanks
<1>2. Flags(p) /\ Waited(p) /\ Holds(p)
  BY <1>1 DEF CEInv
<1>3. /\ pc'[p] = pc[p] /\ k'[p] = k[p] /\ flag_s'[p] = flag_s[p] /\ flag_g'[p] = flag_g[p]
      /\ x'[p] = x[p] /\ S'[p] = S[p] /\ S2'[p] = S2[p] /\ R'[p] = R[p]
      /\ flag_s'[r] >= flag_s[r] /\ flag_g'[r] >= flag_g[r]
  BY DEF PeerStill
<1> HIDE DEF p
<1>4. Flags(p)'
  BY <1>2, <1>3 DEF Flags
<1>5. Holds(p)'
  BY <1>2, <1>3 DEF Holds
<1>6. /\ flag_s[r] \in Int /\ flag_g[r] \in Int /\ flag_s'[r] \in Int /\ flag_g'[r] \in Int
      /\ k[p] \in Int
  BY <1>1 DEF CEInv, TypeOK
<1>7. Waited(p)'
  BY <1>1, <1>2, <1>3, <1>6 DEF Waited
<1> QED
  BY <1>1, <1>4, <1>5, <1>7 DEF CEInv

(* What a single rank's move looks like, place by place.                   *)
LEMMA Moves ==
  ASSUME TypeOK, NEW r \in Ranks, NEW l, Goto(r, l)
  PROVE  pc'[r] = l /\ pc'[Peer(r)] = pc[Peer(r)]
BY TwoRanks DEF TypeOK, Goto

LEMMA CEInvStep == CEInv /\ [Next]_vars => CEInv'
<1> SUFFICES ASSUME CEInv, [Next]_vars PROVE CEInv'
  OBVIOUS
<1>0. TypeOK /\ TypeOK'
  BY TypeStep DEF CEInv
<1> DEFINE Mine(r) == Flags(r)' /\ Waited(r)' /\ Holds(r)'
<1>a. ASSUME NEW r \in Ranks, Start(r) PROVE PeerStill(r) /\ Mine(r)
  <2>1. /\ pc[r] = "idle" /\ pc'[r] = "copyS" /\ pc'[Peer(r)] = pc[Peer(r)]
    BY <1>0, <1>a, Moves DEF Start
  <2>2. /\ k'[r] = k[r] + 1 /\ k'[Peer(r)] = k[Peer(r)]
        /\ S'[Peer(r)] = S[Peer(r)]
        /\ x'[r] = [h \in Ranks |-> Partial(r, k[r] + 1)] /\ x'[Peer(r)] = x[Peer(r)]
        /\ UNCHANGED <<flag_s, flag_g, S2, R>>
    BY <1>0, <1>a, TwoRanks DEF Start, TypeOK, Set
  <2>3. Flags(r) /\ Waited(r) /\ Holds(r) /\ k[r] \in Nat /\ Peer(r) \in Ranks
    BY <1>0, TwoRanks DEF CEInv, TypeOK
  <2>4. flag_s[r] \in Int /\ flag_g[r] \in Int
    BY <1>0 DEF TypeOK
  <2>5. Flags(r)' /\ Waited(r)'
    BY <2>1, <2>2, <2>3 DEF Flags, Waited, Nothing, Reduced, Received
  <2>6. Holds(r)'
    BY <2>1, <2>2, <2>3 DEF Holds, Before
  <2> QED
    BY <2>1, <2>2, <2>4, <2>5, <2>6 DEF PeerStill
<1>b. ASSUME NEW r \in Ranks, CopyS(r) PROVE PeerStill(r) /\ Mine(r)
  <2>1. /\ pc[r] = "copyS" /\ pc'[r] = "setS" /\ pc'[Peer(r)] = pc[Peer(r)]
    BY <1>0, <1>b, Moves DEF CopyS
  <2>2. /\ S'[r] = x[r][Peer(r)] /\ S'[Peer(r)] = S[Peer(r)]
        /\ UNCHANGED <<k, flag_s, flag_g, x, S2, R>>
    BY <1>0, <1>b, TwoRanks DEF CopyS, TypeOK, Set
  <2>3. Flags(r) /\ Waited(r) /\ Holds(r) /\ flag_s[r] \in Int /\ flag_g[r] \in Int
    BY <1>0 DEF CEInv, TypeOK
  <2>4. Flags(r)' /\ Waited(r)'
    BY <2>1, <2>2, <2>3 DEF Flags, Waited, Nothing, Reduced, Received
  <2>5. Holds(r)'
    BY <2>1, <2>2, <2>3 DEF Holds, Before
  <2> QED
    BY <2>1, <2>2, <2>3, <2>4, <2>5 DEF PeerStill
<1>c. ASSUME NEW r \in Ranks, SetS(r) PROVE PeerStill(r) /\ Mine(r)
  <2>1. /\ pc[r] = "setS" /\ pc'[r] = "waitS" /\ pc'[Peer(r)] = pc[Peer(r)]
    BY <1>0, <1>c, Moves DEF SetS
  <2>2. /\ flag_s'[r] = k[r] /\ flag_s'[Peer(r)] = flag_s[Peer(r)]
        /\ UNCHANGED <<k, flag_g, x, S, S2, R>>
    BY <1>0, <1>c, TwoRanks DEF SetS, TypeOK, Set
  <2>3. Flags(r) /\ Waited(r) /\ Holds(r) /\ flag_g[r] \in Int /\ k[r] \in Int
    BY <1>0 DEF CEInv, TypeOK
  <2>4. Flags(r)' /\ Waited(r)' /\ flag_s'[r] >= flag_s[r]
    BY <2>1, <2>2, <2>3 DEF Flags, Waited, Nothing, Reduced, Received
  <2>5. Holds(r)'
    BY <2>1, <2>2, <2>3 DEF Holds, Before
  <2> QED
    BY <2>1, <2>2, <2>3, <2>4, <2>5 DEF PeerStill
<1>d. ASSUME NEW r \in Ranks, WaitS(r) PROVE PeerStill(r) /\ Mine(r)
  <2>1. /\ pc[r] = "waitS" /\ pc'[r] = "readS" /\ pc'[Peer(r)] = pc[Peer(r)]
    BY <1>0, <1>d, Moves DEF WaitS
  <2>2. /\ R'[r] = S[Peer(r)] /\ R'[Peer(r)] = R[Peer(r)] /\ flag_s[Peer(r)] >= k[r]
        /\ UNCHANGED <<k, flag_s, flag_g, x, S, S2>>
    BY <1>0, <1>d, TwoRanks DEF WaitS, TypeOK, Set
  <2>3. Flags(r) /\ Waited(r) /\ Holds(r) /\ flag_s[r] \in Int /\ flag_g[r] \in Int
    BY <1>0 DEF CEInv, TypeOK
  <2>4. S[Peer(r)] = Partial(Peer(r), k[r])
    BY <2>1, <2>2, ReadingS DEF Before
  <2>5. Flags(r)' /\ Waited(r)'
    BY <2>1, <2>2, <2>3 DEF Flags, Waited, Nothing, Reduced, Received
  <2>6. Holds(r)'
    BY <2>1, <2>2, <2>3, <2>4 DEF Holds, Before
  <2> QED
    BY <2>1, <2>2, <2>3, <2>5, <2>6 DEF PeerStill
<1>e. ASSUME NEW r \in Ranks, ReadS(r) PROVE PeerStill(r) /\ Mine(r)
  <2>1. /\ pc[r] = "readS" /\ pc'[r] = "add" /\ pc'[Peer(r)] = pc[Peer(r)]
    BY <1>0, <1>e, Moves DEF ReadS
  <2>2. /\ R'[r] = Copied(R[r], S[Peer(r)]) /\ R'[Peer(r)] = R[Peer(r)]
        /\ UNCHANGED <<k, flag_s, flag_g, x, S, S2>>
    BY <1>0, <1>e, TwoRanks DEF ReadS, TypeOK, Set
  <2>3. Flags(r) /\ Waited(r) /\ Holds(r) /\ flag_s[r] \in Int /\ flag_g[r] \in Int
    BY <1>0 DEF CEInv, TypeOK
  <2>4. S[Peer(r)] = Partial(Peer(r), k[r]) /\ R[r] = Partial(Peer(r), k[r])
    BY <2>1, <2>3, ReadingS DEF Before, Received, Waited, Holds
  <2>5. R'[r] = Partial(Peer(r), k[r])
    BY <2>2, <2>4 DEF Copied
  <2>6. Flags(r)' /\ Waited(r)'
    BY <2>1, <2>2, <2>3 DEF Flags, Waited, Nothing, Reduced, Received
  <2>7. Holds(r)'
    BY <2>1, <2>2, <2>3, <2>5 DEF Holds, Before
  <2> QED
    BY <2>1, <2>2, <2>3, <2>6, <2>7 DEF PeerStill
<1>f. ASSUME NEW r \in Ranks, Add(r) PROVE PeerStill(r) /\ Mine(r)
  <2>1. /\ pc[r] = "add" /\ pc'[r] = "copyG" /\ pc'[Peer(r)] = pc[Peer(r)]
    BY <1>0, <1>f, Moves DEF Add
  <2>2. /\ x'[r] = [h \in Ranks |-> IF h = r THEN Plus(x[r][r], R[r]) ELSE x[r][h]]
        /\ x'[Peer(r)] = x[Peer(r)] /\ S2'[Peer(r)] = S2[Peer(r)]
        /\ UNCHANGED <<k, flag_s, flag_g, S, R>>
    BY <1>0, <1>f, TwoRanks DEF Add, TypeOK, Set
  <2>3. Flags(r) /\ Waited(r) /\ Holds(r) /\ flag_s[r] \in Int /\ flag_g[r] \in Int
    BY <1>0 DEF CEInv, TypeOK
  <2>4. x[r][r] = Partial(r, k[r]) /\ R[r] = Partial(Peer(r), k[r])
    BY <2>1, <2>3 DEF Before, Holds
  <2>5. {r} \cup {Peer(r)} = Ranks
    BY TwoRanks
  <2>6. Plus(x[r][r], R[r]) = Sum(k[r])
    BY <2>4, <2>5 DEF Plus, Partial, Sum
  <2>7. Flags(r)' /\ Waited(r)'
    BY <2>1, <2>2, <2>3 DEF Flags, Waited, Nothing, Reduced, Received
  <2>8. x'[r][r] = Sum(k[r])
    BY <2>2, <2>6
  <2>9. Holds(r)'
    BY <2>1, <2>2, <2>3, <2>8 DEF Holds, Before
  <2> QED
    BY <2>1, <2>2, <2>3, <2>7, <2>9 DEF PeerStill
<1>g. ASSUME NEW r \in Ranks, CopyG(r) PROVE PeerStill(r) /\ Mine(r)
  <2>1. /\ pc[r] = "copyG" /\ pc'[r] = "setG" /\ pc'[Peer(r)] = pc[Peer(r)]
    BY <1>0, <1>g, Moves DEF CopyG
  <2>2. /\ S2'[r] = x[r][r] /\ S2'[Peer(r)] = S2[Peer(r)]
        /\ UNCHANGED <<k, flag_s, flag_g, x, S, R>>
    BY <1>0, <1>g, TwoRanks DEF CopyG, TypeOK, Set
  <2>3. Flags(r) /\ Waited(r) /\ Holds(r) /\ flag_s[r] \in Int /\ flag_g[r] \in Int
    BY <1>0 DEF CEInv, TypeOK
  <2>4. Flags(r)' /\ Waited(r)'
    BY <2>1, <2>2, <2>3 DEF Flags, Waited, Nothing, Reduced, Received
  <2>5. Holds(r)'
    BY <2>1, <2>2, <2>3 DEF Holds, Before
  <2> QED
    BY <2>1, <2>2, <2>3, <2>4, <2>5 DEF PeerStill
<1>h. ASSUME NEW r \in Ranks, SetG(r) PROVE PeerStill(r) /\ Mine(r)
  <2>1. /\ pc[r] = "setG" /\ pc'[r] = "waitG" /\ pc'[Peer(r)] = pc[Peer(r)]
    BY <1>0, <1>h, Moves DEF SetG
  <2>2. /\ flag_g'[r] = k[r] /\ flag_g'[Peer(r)] = flag_g[Peer(r)]
        /\ UNCHANGED <<k, flag_s, x, S, S2, R>>
    BY <1>0, <1>h, TwoRanks DEF SetG, TypeOK, Set
  <2>3. Flags(r) /\ Waited(r) /\ Holds(r) /\ flag_s[r] \in Int /\ k[r] \in Int
    BY <1>0 DEF CEInv, TypeOK
  <2>4. Flags(r)' /\ Waited(r)' /\ flag_g'[r] >= flag_g[r]
    BY <2>1, <2>2, <2>3 DEF Flags, Waited, Nothing, Reduced, Received
  <2>5. Holds(r)'
    BY <2>1, <2>2, <2>3 DEF Holds, Before
  <2> QED
    BY <2>1, <2>2, <2>3, <2>4, <2>5 DEF PeerStill
<1>i. ASSUME NEW r \in Ranks, WaitG(r) PROVE PeerStill(r) /\ Mine(r)
  <2>1. /\ pc[r] = "waitG" /\ pc'[r] = "readG" /\ pc'[Peer(r)] = pc[Peer(r)]
    BY <1>0, <1>i, Moves DEF WaitG
  <2>2. /\ x'[r] = [h \in Ranks |-> IF h = r THEN x[r][r] ELSE S2[Peer(r)]]
        /\ x'[Peer(r)] = x[Peer(r)] /\ flag_g[Peer(r)] >= k[r]
        /\ UNCHANGED <<k, flag_s, flag_g, S, S2, R>>
    BY <1>0, <1>i, TwoRanks DEF WaitG, TypeOK, Set
  <2>3. Flags(r) /\ Waited(r) /\ Holds(r) /\ flag_s[r] \in Int /\ flag_g[r] \in Int
    BY <1>0 DEF CEInv, TypeOK
  <2>4. S2[Peer(r)] = Sum(k[r])
    BY <2>1, <2>2, ReadingS2
  <2>5. x'[r][r] = x[r][r] /\ x'[r][Peer(r)] = Sum(k[r])
    BY <2>2, <2>4, TwoRanks
  <2>6. Flags(r)' /\ Waited(r)'
    BY <2>1, <2>2, <2>3 DEF Flags, Waited, Nothing, Reduced, Received
  <2>7. Holds(r)'
    BY <2>1, <2>2, <2>3, <2>5 DEF Holds, Before
  <2> QED
    BY <2>1, <2>2, <2>3, <2>6, <2>7 DEF PeerStill
<1>j. ASSUME NEW r \in Ranks, ReadG(r) PROVE PeerStill(r) /\ Mine(r)
  <2>1. /\ pc[r] = "readG" /\ pc'[r] = "idle" /\ pc'[Peer(r)] = pc[Peer(r)]
    BY <1>0, <1>j, Moves DEF ReadG
  <2>2. /\ x'[Peer(r)] = x[Peer(r)]
        /\ UNCHANGED <<k, flag_s, flag_g, S, S2, R>>
    BY <1>0, <1>j, TwoRanks DEF ReadG, TypeOK, Set
  <2>3. Flags(r) /\ Waited(r) /\ Holds(r) /\ flag_s[r] \in Int /\ flag_g[r] \in Int
    BY <1>0 DEF CEInv, TypeOK
  <2>4. Flags(r)' /\ Waited(r)'
    BY <2>1, <2>2, <2>3 DEF Flags, Waited, Nothing, Reduced, Received
  <2>5. Holds(r)'
    BY <2>1, <2>2, <2>3 DEF Holds, Before
  <2> QED
    BY <2>1, <2>2, <2>3, <2>4, <2>5 DEF PeerStill
<1>k. CASE UNCHANGED vars
  BY <1>k DEF vars, CEInv, TypeOK, Flags, Waited, Holds
<1> QED
  BY <1>0, <1>a, <1>b, <1>c, <1>d, <1>e, <1>f, <1>g, <1>h, <1>i, <1>j, <1>k, PeerKeeps
     DEF Next, StreamStep

LEMMA CEInvInit == Init => CEInv
<1> SUFFICES ASSUME Init PROVE CEInv
  OBVIOUS
<1>1. TypeOK
  BY RoundsAssumption DEF Init, TypeOK, Value, Torn, Sum
<1>2. \A r \in Ranks : Flags(r) /\ Waited(r) /\ Holds(r)
  BY TwoRanks DEF Init, Flags, Waited, Holds, Nothing, Reduced, Received, Before
<1> QED
  BY <1>1, <1>2 DEF CEInv

(* The buffers and flags hold values of their types, for any number of     *)
(* rounds: no round number but one that was issued is ever announced.      *)
THEOREM CETypes == Spec => []TypeOK
<1>1. CEInv => TypeOK
  BY DEF CEInv
<1> QED
  BY <1>1, CEInvInit, CEInvStep, PTL DEF Spec

(* No read of the peer's memory overlaps a write to it, and each reads     *)
(* this round's data: the docstring's buffer-reuse argument.               *)
THEOREM CEStableReads == Spec => []StableReads
<1>1. CEInv => StableReads
  <2> SUFFICES ASSUME CEInv, NEW r \in Ranks
               PROVE  /\ pc[r] = "readS" => pc[Peer(r)] # "copyS" /\ S[Peer(r)] = Partial(Peer(r), k[r])
                      /\ pc[r] = "readG" => pc[Peer(r)] # "copyG" /\ S2[Peer(r)] = Sum(k[r])
    BY DEF StableReads
  <2>1. Waited(r)
    BY DEF CEInv
  <2> QED
    BY <2>1, ReadingS, ReadingS2 DEF Waited, Received, Before, Nothing
<1> QED
  BY <1>1, CEInvInit, CEInvStep, PTL DEF Spec

(* The protocol implements the abstract all-reduce: starting a round gives *)
(* a partial, the end of the last copy takes the sum of that round, which  *)
(* the peer has given by then, and every other step changes nothing seen.  *)
THEOREM CEImplements == Spec => ImplementsAllReduce
<1> DEFINE taken == [r \in Ranks |-> IF pc[r] = "idle" THEN k[r] ELSE k[r] - 1]
<1>0. AR!Ranks = Ranks /\ \A n : AR!Sum(n) = Sum(n)
  BY DEF AR!Ranks, AR!Sum, Ranks, Sum
<1>1. Init => AR!Init
  BY <1>0 DEF Init, AR!Init, AR!Ranks, Ranks, AR!Sum, Sum
<1>2. CEInv /\ CEInv' /\ [Next]_vars => [AR!Next]_<<k, taken, result>>
  <2> SUFFICES ASSUME CEInv, CEInv', [Next]_vars PROVE [AR!Next]_<<k, taken, result>>
    OBVIOUS
  <2>0. TypeOK /\ taken \in [Ranks -> Int]
    BY DEF CEInv, TypeOK
  <2>1. ASSUME NEW r \in Ranks, Start(r) PROVE AR!Give(r)
    <3>1. /\ pc[r] = "idle" /\ k[r] < MaxRounds /\ k' = [k EXCEPT ![r] = k[r] + 1]
          /\ pc' = [pc EXCEPT ![r] = "copyS"] /\ result' = result
      BY <2>1 DEF Start, Set, Goto
    <3>2. k \in [Ranks -> Nat] /\ pc \in [Ranks -> Round \cup {"idle"}]
      BY <2>0, RoundsAssumption DEF TypeOK
    <3>3. \A u \in Ranks : taken'[u] = taken[u]
      BY <3>1, <3>2
    <3>4. taken' = taken
      BY <3>3
    <3> QED
      BY <3>1, <3>2, <3>4 DEF AR!Give
  <2>2. ASSUME NEW r \in Ranks, NEW l, pc[r] # "idle", l # "idle", Goto(r, l), UNCHANGED <<k, result>>
        PROVE  UNCHANGED <<k, taken, result>>
    <3>1. pc \in [Ranks -> Round \cup {"idle"}] /\ pc' = [pc EXCEPT ![r] = l]
      BY <2>0, <2>2 DEF TypeOK, Goto
    <3>2. \A u \in Ranks : taken'[u] = taken[u]
      BY <2>2, <3>1
    <3> QED
      BY <2>2, <3>2
  <2>3. ASSUME NEW r \in Ranks, ReadG(r) PROVE AR!Take(r)
    <3>1. /\ pc[r] = "readG" /\ pc' = [pc EXCEPT ![r] = "idle"] /\ k' = k
          /\ result' = [result EXCEPT ![r] = x'[r]]
          /\ x' = [x EXCEPT ![r] = [h \in Ranks |-> IF h = r THEN x[r][r] ELSE Copied(x[r][h], S2[h])]]
      BY <2>3 DEF ReadG, Set, Goto
    <3>2. /\ k[r] \in Nat /\ k[Peer(r)] \in Nat /\ Peer(r) \in Ranks
          /\ pc \in [Ranks -> Round \cup {"idle"}] /\ x \in [Ranks -> [Ranks -> Value]]
      BY <2>0, RoundsAssumption, TwoRanks DEF TypeOK
    <3>3. Flags(r) /\ Waited(r) /\ Holds(r) /\ Flags(Peer(r))
      BY <3>2 DEF CEInv
    <3>4. S2[Peer(r)] = Sum(k[r])
      BY <3>1, <3>3, ReadingS2 DEF Waited
    <3>5. x[r][r] = Sum(k[r]) /\ x[r][Peer(r)] = Sum(k[r])
      BY <3>1, <3>3 DEF Holds
    <3>6. \A h \in Ranks : (IF h = r THEN x[r][r] ELSE Copied(x[r][h], S2[h])) = Sum(k[r])
      BY <3>4, <3>5, TwoRanks DEF Copied
    <3>7. x'[r] = [h \in Ranks |-> Sum(k[r])]
      BY <3>1, <3>2, <3>6
    <3>8. k[1 - r] >= k[r]
      <4>1. flag_s[Peer(r)] >= k[r] /\ flag_s[Peer(r)] <= k[Peer(r)]
        BY <3>1, <3>2, <3>3 DEF Waited, Flags, Received
      <4> QED
        BY <3>2, <4>1, <2>0 DEF Peer, TypeOK
    <3>9. taken[r] = k[r] - 1
      BY <3>1
    <3>10. \A u \in Ranks : taken'[u] = IF u = r THEN k[r] ELSE taken[u]
      BY <3>1, <3>2
    <3>11. taken' = [taken EXCEPT ![r] = k[r]]
      BY <3>10
    <3>12. result' = [result EXCEPT ![r] = [h \in AR!Ranks |-> AR!Sum(k[r])]]
      BY <1>0, <3>1, <3>7
    <3>13. taken[r] < k[r]
      BY <3>2, <3>9
    <3> QED
      BY <3>1, <3>8, <3>11, <3>12, <3>13, Zenon DEF AR!Take
  <2>4. ASSUME NEW r \in Ranks, StreamStep(r)
        PROVE  AR!Take(r) \/ UNCHANGED <<k, taken, result>>
    <3>1. CASE CopyS(r) \/ SetS(r) \/ WaitS(r) \/ ReadS(r)
      BY <2>2, <3>1 DEF CopyS, SetS, WaitS, ReadS
    <3>2. CASE Add(r) \/ CopyG(r) \/ SetG(r) \/ WaitG(r)
      BY <2>2, <3>2 DEF Add, CopyG, SetG, WaitG
    <3> QED
      BY <2>3, <2>4, <3>1, <3>2 DEF StreamStep
  <2>5. CASE UNCHANGED vars
    BY <2>5 DEF vars
  <2> QED
    BY <1>0, <2>1, <2>4, <2>5 DEF Next, AR!Next
<1> QED
  BY <1>1, <1>2, CEInvInit, CEInvStep, PTL DEF Spec, ImplementsAllReduce, AR!Spec

(***************************************************************************)
(* The overlapped halves (OverlapBaton.tla).                               *)
(***************************************************************************)

LEMMA OverlapIsCE == OverlapSpec => Spec
<1>1. OverlapInit => Init
  BY DEF OverlapInit
<1>2. [OverlapNext]_<<overlapVars, vars>> => [Next]_vars
  <2> SUFFICES ASSUME OverlapNext \/ UNCHANGED <<overlapVars, vars>>
               PROVE  Next \/ UNCHANGED vars
    OBVIOUS
  <2>1. ASSUME NEW r \in Ranks, Python(r)
        PROVE  UNCHANGED vars
    BY <2>1 DEF Python, Segment, HasBaton
  <2>2. ASSUME NEW r \in Ranks, Compute(r)
        PROVE  UNCHANGED vars
    BY <2>2 DEF Compute
  <2>3. ASSUME NEW r \in Ranks, Comm(r)
        PROVE  Next
    BY <2>3 DEF Comm, Begin, Reduce, Next
  <2>4. CASE ComputeStep
    BY <2>4 DEF ComputeStep
  <2>5. CASE UNCHANGED <<overlapVars, vars>>
    BY <2>5
  <2> QED
    BY <2>1, <2>2, <2>3, <2>4, <2>5 DEF OverlapNext
<1> QED
  BY <1>1, <1>2, PTL DEF OverlapSpec, Spec

(* Whatever the halves, the steps between their layers and a failure do,   *)
(* no staging buffer is written while the peer reads it.                   *)
THEOREM OverlapStableReads == OverlapSpec => []StableReads
BY OverlapIsCE, CEStableReads, PTL

(* Each all-reduce of a half gives the sum of both ranks' partials of that *)
(* round, although the other half's is issued before it is waited for.     *)
THEOREM OverlapImplements == OverlapSpec => ImplementsAllReduce
BY OverlapIsCE, CEImplements, PTL

-----------------------------------------------------------------------------
Ops == [op : {"wait", "mark", "segment", "step"}, n : Nat]
Calls == [by : {"A", "B", "step"}, n : Nat]
Modes == {"off", "extend"}

BatonTypes ==
  /\ chunk \in Chunks
  /\ turn \in [Ranks -> Halves] /\ alive \in [Ranks -> SUBSET Halves]
  /\ seg \in [Ranks -> [Halves -> 0..Segs]] /\ begun \in [Ranks -> SUBSET Halves]
  /\ inflight \in [Ranks -> [Halves -> Nat]]
  /\ mode \in [Ranks -> Modes] /\ saved \in [Ranks -> [Halves -> Modes]]
  /\ right \in [Ranks -> SUBSET (Halves \X (0..Segs))]
  /\ points \in Seq(Nat) /\ passed \in [Ranks -> Nat]
  /\ calls \in [Ranks -> Seq(Calls)]
  /\ queue \in [Ranks -> Seq(Ops)] /\ ready \in [Ranks -> Nat]

(* A half that runs has its own globals, and what it ran it ran with them. *)
Kept(r) ==
  /\ \A h \in alive[r] \cap begun[r] : saved[r][h] = "extend"
  /\ chunk.fault = NoFault =>
       \A h \in Halves : /\ \A i \in 0..(seg[r][h] - 1) : <<h, i>> \in right[r]
                         /\ h \notin alive[r] => seg[r][h] = Segs /\ <<h, Segs>> \in right[r]

(* The rounds a rank has issued are those the compute stream makes; the    *)
(* newest is under way for a half, or waited for.                          *)
Awaited(r, p, m) ==
  \/ m <= RoundsDone(r)
  \/ \E q \in 1..(p - 1) : queue[r][q].op = "wait" /\ queue[r][q].n >= m

Known(r) ==
  /\ k[r] <= ready[r] /\ ready[r] <= Issued(r)
  /\ \A q \in 1..Len(queue[r]) : queue[r][q].op = "segment" =>
       /\ ready[r] < queue[r][q].n /\ queue[r][q].n <= Issued(r)
       /\ \A p \in 1..(q - 1) : queue[r][p].op = "segment" => queue[r][p].n < queue[r][q].n
  /\ \/ Awaited(r, Len(queue[r]) + 1, Issued(r))
     \/ \E h \in Halves : inflight[r][h] = Issued(r)

(* Before a step, every round made ahead of it is waited for.              *)
Ahead(r, p, m) ==
  \/ m <= ready[r]
  \/ \E q \in 1..(p - 1) : queue[r][q].op = "segment" /\ queue[r][q].n >= m

Fenced(r) ==
  \A p \in 1..Len(queue[r]) : queue[r][p].op = "step" =>
    \A m \in Nat : Ahead(r, p, m) => Awaited(r, p, m)

-----------------------------------------------------------------------------
(* The pieces of what a segment enqueues and issues.                       *)
LEMMA OpTypes ==
  ASSUME BatonTypes, NEW r \in Ranks, NEW h \in Halves, NEW steps \in Nat
  PROVE  /\ OwnWait(r, h) \in Seq(Ops) /\ Mark(r, h) \in Seq(Ops)
         /\ Fence(r, h) \in Seq(Ops) /\ [i \in 1..steps |-> Op("step", i)] \in Seq(Ops)
         /\ Inline(r, h, steps) \in Seq(Ops)
<1>1. Other(h) \in Halves
  BY DEF Other, Halves
<1>2. inflight[r][h] \in Nat /\ inflight[r][Other(h)] \in Nat
  BY <1>1 DEF BatonTypes
<1>3. \A n \in Nat : \A o \in {"wait", "mark", "segment", "step"} : Op(o, n) \in Ops
  BY DEF Op, Ops
<1>4. OwnWait(r, h) \in Seq(Ops) /\ Fence(r, h) \in Seq(Ops)
  <2>1. \A n \in Nat : <<Op("wait", n)>> \in Seq(Ops)
    BY <1>3
  <2> QED
    BY <1>2, <2>1 DEF OwnWait, Fence
<1>5. Mark(r, h) \in Seq(Ops)
  <2>1. <<Op("mark", 0)>> \in Seq(Ops)
    BY <1>3
  <2> QED
    BY <2>1 DEF Mark
<1>6. [i \in 1..steps |-> Op("step", i)] \in Seq(Ops)
  <2>1. [i \in 1..steps |-> Op("step", i)] \in [1..steps -> Ops]
    BY <1>3
  <2> QED
    BY <2>1, SeqDef
<1>7. Inline(r, h, steps) \in Seq(Ops)
  <2> DEFINE t == [i \in 1..steps |-> Op("step", i)]
  <2>1. Fence(r, h) \o t \in Seq(Ops)
    <3> HIDE DEF t
    <3>1. t \in Seq(Ops)
      BY <1>6 DEF t
    <3> QED
      BY <1>4, <3>1, ConcatProperties
  <2>2. <<>> \in Seq(Ops)
    OBVIOUS
  <2> QED
    BY <2>1, <2>2 DEF Inline
<1> QED
  BY <1>4, <1>5, <1>6, <1>7

LEMMA CallTypes ==
  ASSUME NEW steps \in Nat, NEW h \in Halves, NEW i \in Nat
  PROVE  /\ Steps(steps) \in Seq(Calls) /\ Append(Steps(steps), Call(h, i)) \in Seq(Calls)
<1>1. \A n \in Nat : \A by \in {"A", "B", "step"} : Call(by, n) \in Calls
  BY DEF Call, Calls
<1>2. Steps(steps) \in [1..steps -> Calls]
  BY <1>1 DEF Steps
<1>3. Steps(steps) \in Seq(Calls)
  BY <1>2, SeqDef
<1>4. Call(h, i) \in Calls
  BY <1>1 DEF Halves
<1> QED
  BY <1>3, <1>4, AppendProperties

(* What a half does with the baton, apart from its steps.                  *)
Ends(r, h) == chunk.fault = <<h, seg[r][h]>> \/ seg[r][h] = Segs

LEMMA SegmentMoves ==
  ASSUME BatonTypes, NEW r \in Ranks, NEW h \in Halves, Segment(r, h)
  PROVE  /\ h \in alive[r] /\ turn[r] = h
         /\ UNCHANGED <<chunk, ready, k, pc>>
         /\ begun' = [begun EXCEPT ![r] = @ \cup {h}]
         /\ inflight' = [inflight EXCEPT ![r][h] = IF Ends(r, h) THEN 0 ELSE Issued(r) + 1]
         /\ right' = IF chunk.fault # <<h, seg[r][h]>> /\ Restored(r, h) = "extend"
                     THEN [right EXCEPT ![r] = @ \cup {<<h, seg[r][h]>>}] ELSE right
         /\ IF Ends(r, h) THEN Returns(r, h) ELSE Passes(r, h)
BY DEF Segment, HasBaton, Ends, vars

LEMMA SegmentTypes ==
  ASSUME BatonTypes, NEW r \in Ranks, NEW h \in Halves, Segment(r, h)
  PROVE  BatonTypes'
<1>1. PICK steps \in 0..chunk.steps :
        LET before == OwnWait(r, h) \o Mark(r, h) \o Inline(r, h, steps)
            n == Issued(r) + 1
            raises == chunk.fault = <<h, seg[r][h]>>
            ends == raises \/ seg[r][h] = Segs
        IN  /\ IF AtPoint(r, h) THEN Point(r, steps) ELSE steps = 0 /\ UNCHANGED <<points, passed>>
            /\ Enqueues(r, IF ends THEN before ELSE Append(before, Op("segment", n)),
                        IF ends THEN Steps(steps) ELSE Append(Steps(steps), Call(h, seg[r][h])))
  BY DEF Segment
<1>2. steps \in Nat
  <2>1. chunk.steps \in Nat
    BY OverlapAssumption DEF BatonTypes
  <2> QED
    BY <2>1
<1>3. Issued(r) \in Nat /\ seg[r][h] \in 0..Segs /\ seg[r] \in [Halves -> 0..Segs] /\ Segs \in Nat
  BY OverlapAssumption DEF BatonTypes, Issued, Halves
<1>4. Restored(r, h) \in Modes
  BY DEF Restored, BatonTypes, Modes
<1> DEFINE before == OwnWait(r, h) \o Mark(r, h) \o Inline(r, h, steps)
           n == Issued(r) + 1
           ops == IF Ends(r, h) THEN before ELSE Append(before, Op("segment", n))
           made == IF Ends(r, h) THEN Steps(steps) ELSE Append(Steps(steps), Call(h, seg[r][h]))
<1>5. Enqueues(r, ops, made)
  BY <1>1 DEF Ends
<1>6. ops \in Seq(Ops) /\ made \in Seq(Calls)
  <2>1. before \in Seq(Ops)
    <3>1. OwnWait(r, h) \o Mark(r, h) \in Seq(Ops)
      BY <1>2, OpTypes, ConcatProperties
    <3> QED
      BY <1>2, <3>1, OpTypes, ConcatProperties
  <2>2. Op("segment", n) \in Ops
    BY <1>3 DEF Op, Ops
  <2> HIDE DEF before
  <2>3. Append(before, Op("segment", n)) \in Seq(Ops)
    BY <2>1, <2>2, AppendProperties
  <2>4. made \in Seq(Calls)
    BY <1>2, <1>3, CallTypes
  <2> QED
    BY <2>1, <2>3, <2>4
<1> HIDE DEF ops, made, before, n
<1>7. queue' \in [Ranks -> Seq(Ops)] /\ calls' \in [Ranks -> Seq(Calls)]
  <2>1. queue[r] \o ops \in Seq(Ops) /\ calls[r] \o made \in Seq(Calls)
    BY <1>6, ConcatProperties DEF BatonTypes
  <2> QED
    BY <1>5, <2>1 DEF Enqueues, BatonTypes
<1>8. points' \in Seq(Nat) /\ passed' \in [Ranks -> Nat]
  <2>1. Append(points, steps) \in Seq(Nat)
    BY <1>2, AppendProperties DEF BatonTypes
  <2>2. passed[r] + 1 \in Nat
    BY DEF BatonTypes
  <2>3. points' \in {points, Append(points, steps)}
    BY <1>1 DEF Point
  <2>4. passed' \in {passed, [passed EXCEPT ![r] = @ + 1]}
    BY <1>1 DEF Point
  <2> QED
    BY <2>1, <2>2, <2>3, <2>4 DEF BatonTypes
<1>9. begun' \in [Ranks -> SUBSET Halves] /\ chunk' \in Chunks /\ ready' \in [Ranks -> Nat]
  <2>1. begun[r] \cup {h} \in SUBSET Halves
    BY DEF BatonTypes
  <2>2. begun' = [begun EXCEPT ![r] = begun[r] \cup {h}] /\ UNCHANGED <<chunk, ready>>
    BY SegmentMoves
  <2> QED
    BY <2>1, <2>2 DEF BatonTypes
<1>10. inflight' \in [Ranks -> [Halves -> Nat]]
  <2>1. inflight' = [inflight EXCEPT ![r][h] = IF Ends(r, h) THEN 0 ELSE Issued(r) + 1]
    BY SegmentMoves
  <2>2. (IF Ends(r, h) THEN 0 ELSE Issued(r) + 1) \in Nat
    BY <1>3
  <2> QED
    BY <2>1, <2>2 DEF BatonTypes
<1>11. right' \in [Ranks -> SUBSET (Halves \X (0..Segs))]
  <2>1. <<h, seg[r][h]>> \in Halves \X (0..Segs)
    BY <1>3
  <2>2. right[r] \cup {<<h, seg[r][h]>>} \in SUBSET (Halves \X (0..Segs))
    BY <2>1 DEF BatonTypes
  <2>3. right' = right \/ right' = [right EXCEPT ![r] = right[r] \cup {<<h, seg[r][h]>>}]
    BY SegmentMoves
  <2> QED
    BY <2>2, <2>3 DEF BatonTypes
<1>12. /\ turn' \in [Ranks -> Halves] /\ alive' \in [Ranks -> SUBSET Halves]
       /\ mode' \in [Ranks -> Modes] /\ saved' \in [Ranks -> [Halves -> Modes]]
       /\ seg' \in [Ranks -> [Halves -> 0..Segs]]
  <2>1. Other(h) \in Halves
    BY DEF Other, Halves
  <2>2. CASE Ends(r, h)
    <3>1. alive[r] \ {h} \in SUBSET Halves /\ "off" \in Modes
      BY DEF BatonTypes, Modes
    <3>2. /\ alive' = [alive EXCEPT ![r] = alive[r] \ {h}] /\ turn' = [turn EXCEPT ![r] = Other(h)]
          /\ mode' = [mode EXCEPT ![r] = "off"] /\ UNCHANGED <<saved, seg>>
      BY <2>2, SegmentMoves DEF Returns, Finish
    <3> QED
      BY <2>1, <3>1, <3>2 DEF BatonTypes
  <2>3. CASE ~Ends(r, h)
    <3>1. seg[r][h] + 1 \in 0..Segs
      BY <1>3, <2>3 DEF Ends
    <3>2. /\ turn' = [turn EXCEPT ![r] = IF Other(h) \in alive[r] THEN Other(h) ELSE h]
          /\ saved' = [saved EXCEPT ![r][h] = Restored(r, h)] /\ mode' = [mode EXCEPT ![r] = Restored(r, h)]
          /\ seg' = [seg EXCEPT ![r][h] = seg[r][h] + 1] /\ UNCHANGED alive
      BY <2>3, SegmentMoves DEF Passes
    <3>3. saved' \in [Ranks -> [Halves -> Modes]]
      BY <1>4, <3>2 DEF BatonTypes
    <3>4. seg' \in [Ranks -> [Halves -> 0..Segs]]
      BY <3>1, <3>2 DEF BatonTypes
    <3> QED
      BY <1>4, <2>1, <3>2, <3>3, <3>4 DEF BatonTypes
  <2> QED
    BY <2>2, <2>3
<1> QED
  BY <1>7, <1>8, <1>9, <1>10, <1>11, <1>12 DEF BatonTypes

LEMMA PopTypes ==
  ASSUME BatonTypes, NEW r \in Ranks, queue[r] # <<>>
  PROVE  /\ Tail(queue[r]) \in Seq(Ops) /\ First(r) \in Ops
         /\ Len(Tail(queue[r])) = Len(queue[r]) - 1 /\ Len(queue[r]) \in Nat \ {0}
         /\ \A q \in 1..(Len(queue[r]) - 1) : Tail(queue[r])[q] = queue[r][q + 1]
<1>1. queue[r] \in Seq(Ops)
  BY DEF BatonTypes
<1>2. Len(queue[r]) \in Nat \ {0}
  BY <1>1, LenProperties, EmptySeq
<1>3. First(r) \in Ops
  BY <1>1, <1>2, ElementOfSeq DEF First
<1> QED
  BY <1>1, <1>2, <1>3, HeadTailProperties

(* What the streams leave alone.                                           *)
LEMMA OtherTypes ==
  ASSUME BatonTypes, ComputeStep \/ (\E r \in Ranks : Compute(r) \/ Comm(r)) \/ UNCHANGED <<overlapVars, vars>>
  PROVE  BatonTypes'
<1>1. ASSUME NEW r \in Ranks, Compute(r)
      PROVE  BatonTypes'
  <2>1. /\ queue[r] # <<>> /\ queue' = [queue EXCEPT ![r] = Tail(@)]
        /\ ready' \in {ready, [ready EXCEPT ![r] = First(r).n]}
        /\ UNCHANGED <<chunk, turn, alive, seg, begun, inflight, mode, saved, right, points, passed, calls>>
    BY <1>1 DEF Compute, Popped, baton
  <2>2. Tail(queue[r]) \in Seq(Ops) /\ First(r).n \in Nat
    BY <2>1, PopTypes DEF Ops
  <2> QED
    BY <2>1, <2>2 DEF BatonTypes
<1>2. CASE ComputeStep
  <2>1. /\ queue[0] # <<>> /\ queue[1] # <<>> /\ queue' = [r \in Ranks |-> Tail(queue[r])]
        /\ UNCHANGED <<chunk, turn, alive, seg, begun, inflight, mode, saved, right, points, passed, calls, ready>>
    BY <1>2 DEF ComputeStep, AtStep, baton
  <2>2. \A r \in Ranks : Tail(queue[r]) \in Seq(Ops)
    BY <2>1, PopTypes DEF Ranks
  <2> QED
    BY <2>1, <2>2 DEF BatonTypes
<1>3. CASE UNCHANGED overlapVars
  BY <1>3 DEF overlapVars, baton, gpu, BatonTypes
<1> QED
  BY <1>1, <1>2, <1>3 DEF Comm, Begin, Reduce

LEMMA InitTypes == OverlapInit => BatonTypes
<1> SUFFICES ASSUME OverlapInit PROVE BatonTypes
  OBVIOUS
<1>1. <<>> \in Seq(Nat) /\ <<>> \in Seq(Ops) /\ <<>> \in Seq(Calls)
  OBVIOUS
<1>2. 0 \in 0..Segs
  BY OverlapAssumption
<1> QED
  BY <1>1, <1>2 DEF OverlapInit, BatonTypes, Halves, Modes

LEMMA TypesStep == BatonTypes /\ [OverlapNext]_<<overlapVars, vars>> => BatonTypes'
<1> SUFFICES ASSUME BatonTypes, [OverlapNext]_<<overlapVars, vars>> PROVE BatonTypes'
  OBVIOUS
<1> QED
  BY SegmentTypes, OtherTypes DEF OverlapNext, Python

(* The same, of one rank and of the other.                                 *)
LEMMA SegmentOfRank ==
  ASSUME BatonTypes, NEW u \in Ranks, NEW h \in Halves, Segment(u, h)
  PROVE  /\ \A r \in Ranks \ {u} : /\ alive'[r] = alive[r] /\ turn'[r] = turn[r] /\ seg'[r] = seg[r]
                                   /\ begun'[r] = begun[r] /\ saved'[r] = saved[r] /\ right'[r] = right[r]
                                   /\ inflight'[r] = inflight[r]
         /\ begun'[u] = begun[u] \cup {h}
         /\ inflight'[u] = [inflight[u] EXCEPT ![h] = IF Ends(u, h) THEN 0 ELSE Issued(u) + 1]
         /\ right'[u] = IF chunk.fault # <<h, seg[u][h]>> /\ Restored(u, h) = "extend"
                        THEN right[u] \cup {<<h, seg[u][h]>>} ELSE right[u]
         /\ IF Ends(u, h)
            THEN /\ alive'[u] = alive[u] \ {h} /\ turn'[u] = Other(h)
                 /\ seg'[u] = seg[u] /\ saved'[u] = saved[u]
            ELSE /\ alive'[u] = alive[u] /\ turn'[u] = IF Other(h) \in alive[u] THEN Other(h) ELSE h
                 /\ seg'[u] = [seg[u] EXCEPT ![h] = seg[u][h] + 1]
                 /\ saved'[u] = [saved[u] EXCEPT ![h] = Restored(u, h)]
<1>1. /\ begun'[u] = begun[u] \cup {h} /\ \A r \in Ranks \ {u} : begun'[r] = begun[r]
  BY SegmentMoves DEF BatonTypes
<1>2. /\ inflight'[u] = [inflight[u] EXCEPT ![h] = IF Ends(u, h) THEN 0 ELSE Issued(u) + 1]
      /\ \A r \in Ranks \ {u} : inflight'[r] = inflight[r]
  <2>1. PICK n : n = IF Ends(u, h) THEN 0 ELSE Issued(u) + 1
    OBVIOUS
  <2>2. inflight' = [inflight EXCEPT ![u][h] = n]
    BY <2>1, SegmentMoves
  <2>3. inflight'[u] = [inflight[u] EXCEPT ![h] = n] /\ \A r \in Ranks \ {u} : inflight'[r] = inflight[r]
    BY <2>2 DEF BatonTypes
  <2> QED
    BY <2>1, <2>3
<1>3. /\ right'[u] = IF chunk.fault # <<h, seg[u][h]>> /\ Restored(u, h) = "extend"
                     THEN right[u] \cup {<<h, seg[u][h]>>} ELSE right[u]
      /\ \A r \in Ranks \ {u} : right'[r] = right[r]
  <2>1. \/ /\ chunk.fault # <<h, seg[u][h]>> /\ Restored(u, h) = "extend"
           /\ right' = [right EXCEPT ![u] = right[u] \cup {<<h, seg[u][h]>>}]
        \/ ~(chunk.fault # <<h, seg[u][h]>> /\ Restored(u, h) = "extend") /\ right' = right
    BY SegmentMoves
  <2> QED
    BY <2>1 DEF BatonTypes
<1>4. CASE Ends(u, h)
  <2>1. /\ alive' = [alive EXCEPT ![u] = alive[u] \ {h}] /\ turn' = [turn EXCEPT ![u] = Other(h)]
        /\ UNCHANGED <<saved, seg>>
    BY <1>4, SegmentMoves DEF Returns, Finish
  <2> QED
    BY <1>1, <1>2, <1>3, <1>4, <2>1 DEF BatonTypes
<1>5. CASE ~Ends(u, h)
  <2>1. /\ turn' = [turn EXCEPT ![u] = IF Other(h) \in alive[u] THEN Other(h) ELSE h]
        /\ saved' = [saved EXCEPT ![u][h] = Restored(u, h)]
        /\ seg' = [seg EXCEPT ![u][h] = seg[u][h] + 1] /\ UNCHANGED alive
    BY <1>5, SegmentMoves DEF Passes
  <2>2. saved'[u] = [saved[u] EXCEPT ![h] = Restored(u, h)] /\ \A r \in Ranks \ {u} : saved'[r] = saved[r]
    BY <2>1 DEF BatonTypes
  <2>3. seg'[u] = [seg[u] EXCEPT ![h] = seg[u][h] + 1] /\ \A r \in Ranks \ {u} : seg'[r] = seg[r]
    BY <2>1 DEF BatonTypes
  <2>4. /\ turn'[u] = IF Other(h) \in alive[u] THEN Other(h) ELSE h
        /\ \A r \in Ranks \ {u} : turn'[r] = turn[r]
    BY <2>1 DEF BatonTypes
  <2> QED
    BY <1>1, <1>2, <1>3, <1>5, <2>1, <2>2, <2>3, <2>4
<1> QED
  BY <1>4, <1>5

LEMMA KeptStep ==
  ASSUME BatonTypes, NEW u \in Ranks, NEW h \in Halves, Segment(u, h), NEW r \in Ranks, Kept(r)
  PROVE  Kept(r)'
<1>1. UNCHANGED chunk /\ h \in alive[u]
  BY SegmentMoves
<1>2. CASE r # u
  <2>1. /\ alive'[r] = alive[r] /\ seg'[r] = seg[r] /\ begun'[r] = begun[r] /\ saved'[r] = saved[r]
        /\ right'[r] = right[r]
    BY <1>2, SegmentOfRank
  <2> QED
    BY <1>1, <2>1 DEF Kept
<1>3. CASE r = u
  <2>0. Kept(u)
    BY <1>3
  <2>1. Restored(u, h) = "extend"
    BY <1>1, <2>0 DEF Kept, Restored
  <2>2. \A g \in alive'[u] \cap begun'[u] : saved'[u][g] = "extend"
    <3>1. CASE Ends(u, h)
      <4>1. alive'[u] = alive[u] \ {h} /\ saved'[u] = saved[u] /\ begun'[u] = begun[u] \cup {h}
        BY <3>1, SegmentOfRank
      <4> QED
        BY <2>0, <4>1 DEF Kept
    <3>2. CASE ~Ends(u, h)
      <4>1. /\ alive'[u] = alive[u] /\ begun'[u] = begun[u] \cup {h}
            /\ saved'[u] = [saved[u] EXCEPT ![h] = "extend"]
        <5>1. PICK m : m = Restored(u, h)
          OBVIOUS
        <5>2. /\ alive'[u] = alive[u] /\ begun'[u] = begun[u] \cup {h}
              /\ saved'[u] = [saved[u] EXCEPT ![h] = m]
          BY <3>2, <5>1, SegmentOfRank
        <5> QED
          BY <2>1, <5>1, <5>2
      <4>2. alive[u] \subseteq Halves /\ saved[u] \in [Halves -> Modes]
        BY DEF BatonTypes
      <4> QED
        BY <2>0, <4>1, <4>2 DEF Kept
    <3> QED
      BY <3>1, <3>2
  <2>3. ASSUME chunk.fault = NoFault, NEW g \in Halves
        PROVE  /\ \A i \in 0..(seg'[u][g] - 1) : <<g, i>> \in right'[u]
               /\ g \notin alive'[u] => seg'[u][g] = Segs /\ <<g, Segs>> \in right'[u]
    <3>1. /\ \A i \in 0..(seg[u][g] - 1) : <<g, i>> \in right[u]
          /\ g \notin alive[u] => seg[u][g] = Segs /\ <<g, Segs>> \in right[u]
      BY <2>0, <2>3 DEF Kept
    <3>2. seg[u] \in [Halves -> 0..Segs] /\ Segs \in Nat
      BY OverlapAssumption DEF BatonTypes
    <3>3. NoFault # <<h, seg[u][h]>>
      BY DEF NoFault, Halves
    <3>4. right'[u] = right[u] \cup {<<h, seg[u][h]>>}
      BY <2>1, <2>3, <3>3, SegmentOfRank
    <3>5. CASE Ends(u, h)
      <4>1. seg[u][h] = Segs /\ alive'[u] = alive[u] \ {h} /\ seg'[u] = seg[u]
        BY <2>3, <3>3, <3>5, SegmentOfRank DEF Ends
      <4> QED
        BY <3>1, <3>4, <4>1
    <3>6. CASE ~Ends(u, h)
      <4>1. alive'[u] = alive[u] /\ seg'[u] = [seg[u] EXCEPT ![h] = seg[u][h] + 1]
        BY <3>6, SegmentOfRank
      <4>2. CASE g = h
        <5>1. seg'[u][g] = seg[u][g] + 1 /\ g \in alive'[u]
          BY <1>1, <3>2, <4>1, <4>2
        <5>2. ASSUME NEW i \in 0..(seg'[u][g] - 1) PROVE <<g, i>> \in right'[u]
          <6>1. i \in 0..(seg[u][g] - 1) \/ i = seg[u][g]
            BY <3>2, <5>1
          <6> QED
            BY <3>1, <3>4, <4>2, <6>1
        <5> QED
          BY <5>1, <5>2
      <4>3. CASE g # h
        <5>1. seg'[u][g] = seg[u][g]
          BY <3>2, <4>1, <4>3
        <5> QED
          BY <3>1, <3>4, <4>1, <5>1
      <4> QED
        BY <4>2, <4>3
    <3> QED
      BY <3>5, <3>6
  <2>4. Kept(u)'
    BY <1>1, <2>2, <2>3 DEF Kept
  <2> QED
    BY <1>3, <2>4 DEF Kept
<1> QED
  BY <1>2, <1>3

LEMMA KeptInv == OverlapSpec => [](BatonTypes /\ \A r \in Ranks : Kept(r))
<1>1. OverlapInit => \A r \in Ranks : Kept(r)
  <2> SUFFICES ASSUME OverlapInit, NEW r \in Ranks PROVE Kept(r)
    OBVIOUS
  <2>1. begun[r] = {} /\ alive[r] = Halves /\ \A h \in Halves : seg[r][h] = 0
    BY DEF OverlapInit
  <2>2. 0..(0 - 1) = {}
    OBVIOUS
  <2> QED
    BY <2>1, <2>2 DEF Kept
<1>2. (BatonTypes /\ \A r \in Ranks : Kept(r)) /\ [OverlapNext]_<<overlapVars, vars>>
        => (BatonTypes /\ \A r \in Ranks : Kept(r))'
  <2> SUFFICES ASSUME BatonTypes, \A r \in Ranks : Kept(r), [OverlapNext]_<<overlapVars, vars>>
               PROVE  \A r \in Ranks : Kept(r)'
    BY TypesStep
  <2>1. CASE \E u \in Ranks : Python(u)
    BY <2>1, KeptStep DEF Python
  <2>2. CASE UNCHANGED <<chunk, baton>>
    BY <2>2 DEF baton, Kept
  <2>3. ComputeStep \/ (\E r \in Ranks : Compute(r) \/ Comm(r)) \/ UNCHANGED <<overlapVars, vars>> => UNCHANGED <<chunk, baton>>
    BY DEF ComputeStep, Compute, Comm, Begin, Reduce, overlapVars
  <2> QED
    BY <2>1, <2>2, <2>3 DEF OverlapNext
<1> QED
  BY <1>1, <1>2, InitTypes, PTL DEF OverlapSpec

(* Each half has captured the rows of every layer of the chunk.            *)
THEOREM OverlapHalvesApart == OverlapSpec => []HalvesApart
<1>1. (BatonTypes /\ \A r \in Ranks : Kept(r)) => HalvesApart
  <2> SUFFICES ASSUME BatonTypes, NEW r \in Ranks, Kept(r), alive[r] = {}, chunk.fault = NoFault
               PROVE  right[r] = Halves \X (0..Segs)
    BY DEF HalvesApart
  <2>1. right[r] \subseteq Halves \X (0..Segs) /\ Segs \in Nat
    BY OverlapAssumption DEF BatonTypes
  <2>2. ASSUME NEW h \in Halves, NEW i \in 0..Segs PROVE <<h, i>> \in right[r]
    <3>1. /\ \A j \in 0..(seg[r][h] - 1) : <<h, j>> \in right[r]
          /\ seg[r][h] = Segs /\ <<h, Segs>> \in right[r]
      BY DEF Kept
    <3>2. i \in 0..(Segs - 1) \/ i = Segs
      BY <2>1
    <3> QED
      BY <3>1, <3>2
  <2>3. Halves \X (0..Segs) \subseteq right[r]
    BY <2>2
  <2> QED
    BY <2>1, <2>3
<1> QED
  BY <1>1, KeptInv, PTL

-----------------------------------------------------------------------------
(* Operations without one of a kind, and steps behind a wait for round n.  *)
Without(s, name) == \A j \in 1..Len(s) : s[j].op # name
Behind(s, n) == \A j \in 1..Len(s) : s[j].op = "step" => \E i \in 1..(j - 1) : s[i] = Op("wait", n)

LEMMA ConcatAt ==
  ASSUME NEW T, NEW s \in Seq(T), NEW t \in Seq(T)
  PROVE  /\ s \o t \in Seq(T) /\ Len(s) \in Nat /\ Len(t) \in Nat /\ Len(s \o t) = Len(s) + Len(t)
         /\ \A i \in 1..Len(s) : (s \o t)[i] = s[i]
         /\ \A i \in 1..Len(t) : (s \o t)[Len(s) + i] = t[i]
         /\ \A j \in 1..Len(s \o t) : j \in 1..Len(s) \/ (j > Len(s) /\ j - Len(s) \in 1..Len(t) /\ (s \o t)[j] = t[j - Len(s)])
<1>1. Len(s) \in Nat /\ Len(t) \in Nat
  BY LenProperties
<1>2. /\ s \o t \in Seq(T) /\ Len(s \o t) = Len(s) + Len(t)
      /\ \A i \in 1..(Len(s) + Len(t)) : (s \o t)[i] = IF i <= Len(s) THEN s[i] ELSE t[i - Len(s)]
  BY ConcatProperties
<1> DEFINE c == s \o t
           a == Len(s)
           b == Len(t)
<1>3. c \in Seq(T) /\ Len(c) = a + b /\ \A i \in 1..(a + b) : c[i] = IF i <= a THEN s[i] ELSE t[i - a]
  BY <1>2
<1>4. a \in Nat /\ b \in Nat
  BY <1>1
<1> HIDE DEF c, a, b
<1>5. \A i \in 1..a : c[i] = s[i]
  BY <1>3, <1>4
<1>6. \A i \in 1..b : c[a + i] = t[i]
  BY <1>3, <1>4
<1>7. \A j \in 1..(a + b) : j \in 1..a \/ (j > a /\ j - a \in 1..b /\ c[j] = t[j - a])
  BY <1>3, <1>4
<1> QED
  BY <1>3, <1>4, <1>5, <1>6, <1>7 DEF a, b, c

LEMMA WithoutConcat ==
  ASSUME NEW s \in Seq(Ops), NEW t \in Seq(Ops), NEW name, Without(s, name), Without(t, name)
  PROVE  Without(s \o t, name)
<1> DEFINE c == s \o t
<1>1. /\ \A i \in 1..Len(s) : c[i] = s[i]
      /\ \A j \in 1..Len(c) : j \in 1..Len(s) \/ (j > Len(s) /\ j - Len(s) \in 1..Len(t) /\ c[j] = t[j - Len(s)])
  BY ConcatAt
<1> HIDE DEF c
<1>2. Without(c, name)
  BY <1>1 DEF Without
<1> QED
  BY <1>2 DEF c

LEMMA BehindConcat ==
  ASSUME NEW s \in Seq(Ops), NEW t \in Seq(Ops), NEW n, Without(s, "step"), Behind(t, n)
  PROVE  Behind(s \o t, n)
<1> DEFINE c == s \o t
<1>1. /\ \A i \in 1..Len(s) : c[i] = s[i]
      /\ \A i \in 1..Len(t) : c[Len(s) + i] = t[i]
      /\ \A j \in 1..Len(c) : j \in 1..Len(s) \/ (j > Len(s) /\ j - Len(s) \in 1..Len(t) /\ c[j] = t[j - Len(s)])
      /\ Len(s) \in Nat /\ Len(t) \in Nat
  BY ConcatAt
<1> HIDE DEF c
<1>2. ASSUME NEW j \in 1..Len(c), c[j].op = "step"
      PROVE  \E i \in 1..(j - 1) : c[i] = Op("wait", n)
  <2>1. j - Len(s) \in 1..Len(t) /\ c[j] = t[j - Len(s)] /\ j > Len(s)
    BY <1>1, <1>2 DEF Without
  <2>2. PICK i \in 1..(j - Len(s) - 1) : t[i] = Op("wait", n)
    BY <1>2, <2>1 DEF Behind
  <2>3. i \in 1..Len(t) /\ Len(s) + i \in 1..(j - 1)
    BY <1>1, <2>1, <2>2
  <2> QED
    BY <1>1, <2>2, <2>3
<1>3. Behind(c, n)
  BY <1>2 DEF Behind
<1> QED
  BY <1>3 DEF c

LEMMA FenceFirst ==
  ASSUME NEW n \in Nat, NEW t \in Seq(Ops)
  PROVE  Behind(<<Op("wait", n)>> \o t, n)
<1> DEFINE s == <<Op("wait", n)>>
           c == s \o t
<1>1. s \in Seq(Ops) /\ Len(s) = 1 /\ s[1] = Op("wait", n)
  BY DEF Op, Ops
<1> HIDE DEF s
<1>a. s \in Seq(Ops)
  BY <1>1
<1>2. /\ \A i \in 1..Len(s) : c[i] = s[i]
      /\ \A j \in 1..Len(c) : j \in 1..Len(s) \/ (j > Len(s) /\ j - Len(s) \in 1..Len(t) /\ c[j] = t[j - Len(s)])
      /\ 1 \in 1..Len(c)
  <2>1. /\ Len(c) = Len(s) + Len(t) /\ Len(t) \in Nat
        /\ \A i \in 1..Len(s) : c[i] = s[i]
        /\ \A j \in 1..Len(c) : j \in 1..Len(s) \/ (j > Len(s) /\ j - Len(s) \in 1..Len(t) /\ c[j] = t[j - Len(s)])
    BY <1>a, ConcatAt
  <2> QED
    BY <1>1, <2>1
<1> HIDE DEF c
<1>3. c[1] = Op("wait", n) /\ c[1].op # "step"
  BY <1>1, <1>2 DEF Op
<1>4. ASSUME NEW j \in 1..Len(c), c[j].op = "step"
      PROVE  \E i \in 1..(j - 1) : c[i] = Op("wait", n)
  <2>1. 1 \in 1..(j - 1)
    BY <1>3, <1>4
  <2> QED
    BY <1>3, <2>1
<1>5. Behind(c, n)
  BY <1>4 DEF Behind
<1> QED
  BY <1>5 DEF c, s

(* What a segment puts on the compute stream.                              *)
Enqueued(ops, own, other, next) ==
  /\ ops \in Seq(Ops)
  /\ \A j \in 1..Len(ops) : ops[j].op = "segment" => j = Len(ops) /\ ops[j].n = next
  /\ own > 0 => 1 \in 1..Len(ops) /\ ops[1] = Op("wait", own)
  /\ other > 0 => Behind(ops, other)

LEMMA SegmentEnqueues ==
  ASSUME BatonTypes, NEW u \in Ranks, NEW h \in Halves, Segment(u, h)
  PROVE  /\ \A r \in Ranks \ {u} : queue'[r] = queue[r]
         /\ \E ops : /\ Enqueued(ops, inflight[u][h], inflight[u][Other(h)], Issued(u) + 1)
                     /\ Ends(u, h) => Without(ops, "segment")
                     /\ queue'[u] = queue[u] \o ops
<1>1. PICK steps \in 0..chunk.steps :
        LET before == OwnWait(u, h) \o Mark(u, h) \o Inline(u, h, steps)
            n == Issued(u) + 1
            raises == chunk.fault = <<h, seg[u][h]>>
            ends == raises \/ seg[u][h] = Segs
        IN  Enqueues(u, IF ends THEN before ELSE Append(before, Op("segment", n)),
                        IF ends THEN Steps(steps) ELSE Append(Steps(steps), Call(h, seg[u][h])))
  BY DEF Segment
<1>2. steps \in Nat
  <2>1. chunk.steps \in Nat
    BY OverlapAssumption DEF BatonTypes
  <2> QED
    BY <2>1
<1>3. Other(h) \in Halves /\ inflight[u][h] \in Nat /\ inflight[u][Other(h)] \in Nat /\ Issued(u) \in Nat
  <2>1. Other(h) \in Halves
    BY DEF Other, Halves
  <2>2. seg[u]["A"] \in Nat /\ seg[u]["B"] \in Nat
    BY OverlapAssumption DEF BatonTypes, Halves
  <2>3. Issued(u) \in Nat
    BY <2>2 DEF Issued
  <2>4. inflight[u] \in [Halves -> Nat]
    BY DEF BatonTypes
  <2> QED
    BY <2>1, <2>3, <2>4
<1>4. PICK w : w = OwnWait(u, h)
  OBVIOUS
<1>5. PICK m : m = Mark(u, h)
  OBVIOUS
<1>6. PICK b : b = Inline(u, h, steps)
  OBVIOUS
<1>7. PICK before : before = w \o m \o b
  OBVIOUS
<1>8. PICK last : last = Op("segment", Issued(u) + 1)
  OBVIOUS
<1>9. PICK ops : ops = IF Ends(u, h) THEN before ELSE Append(before, last)
  OBVIOUS
<1>10. queue' = [queue EXCEPT ![u] = queue[u] \o ops]
  BY <1>1, <1>4, <1>5, <1>6, <1>7, <1>8, <1>9 DEF Enqueues, Ends
<1>11. w \in Seq(Ops) /\ m \in Seq(Ops) /\ b \in Seq(Ops)
  BY <1>2, <1>4, <1>5, <1>6, OpTypes
<1>12. /\ Without(w, "step") /\ Without(w, "segment")
       /\ Without(m, "step") /\ Without(m, "segment")
  <2>1. \A o : Len(<<o>>) = 1 /\ <<o>>[1] = o
    OBVIOUS
  <2>2. 1..1 = {1} /\ Len(<<>>) = 0 /\ 1..0 = {}
    OBVIOUS
  <2>3. \A n : Without(<<Op("wait", n)>>, "step") /\ Without(<<Op("wait", n)>>, "segment")
    BY <2>1, <2>2 DEF Without, Op
  <2>4. Without(<<Op("mark", 0)>>, "step") /\ Without(<<Op("mark", 0)>>, "segment")
    BY <2>1, <2>2 DEF Without, Op
  <2>5. Without(<<>>, "step") /\ Without(<<>>, "segment")
    BY <2>2 DEF Without
  <2> QED
    BY <1>4, <1>5, <2>3, <2>4, <2>5 DEF OwnWait, Mark
<1>13. Without(b, "segment") /\ (inflight[u][Other(h)] > 0 => Behind(b, inflight[u][Other(h)]))
  <2>1. PICK t : t = [i \in 1..steps |-> Op("step", i)]
    OBVIOUS
  <2>2. PICK f : f = Fence(u, h)
    OBVIOUS
  <2>3. t \in Seq(Ops) /\ f \in Seq(Ops) /\ Len(t) = steps
    BY <1>2, <2>1, <2>2, OpTypes
  <2>4. Without(t, "segment")
    BY <1>2, <2>1, <2>3 DEF Without, Op
  <2>5. f = <<>> \/ f = <<Op("wait", inflight[u][Other(h)])>>
    BY <2>2 DEF Fence
  <2>6. Without(f, "segment")
    <3>1. \A o : Len(<<o>>) = 1 /\ <<o>>[1] = o
      OBVIOUS
    <3>2. 1..1 = {1} /\ Len(<<>>) = 0 /\ 1..0 = {}
      OBVIOUS
    <3> QED
      BY <2>5, <3>1, <3>2 DEF Without, Op
  <2>7. CASE steps = 0
    <3>1. b = <<>> /\ Len(b) = 0
      BY <1>6, <2>7 DEF Inline
    <3> QED
      BY <3>1 DEF Without, Behind
  <2>8. CASE steps # 0
    <3>1. b = f \o t
      BY <1>6, <2>1, <2>2, <2>8 DEF Inline
    <3>2. Without(b, "segment")
      BY <2>3, <2>4, <2>6, <3>1, WithoutConcat
    <3>3. ASSUME inflight[u][Other(h)] > 0 PROVE Behind(b, inflight[u][Other(h)])
      <4>1. f = <<Op("wait", inflight[u][Other(h)])>>
        BY <2>2, <3>3 DEF Fence
      <4> QED
        BY <1>3, <2>3, <3>1, <4>1, FenceFirst
    <3> QED
      BY <3>2, <3>3
  <2> QED
    BY <2>7, <2>8
<1>14. /\ w \o m \in Seq(Ops) /\ Without(w \o m, "step") /\ Without(w \o m, "segment")
       /\ before \in Seq(Ops) /\ Len(before) \in Nat
  <2>1. w \o m \in Seq(Ops) /\ Without(w \o m, "step") /\ Without(w \o m, "segment")
    BY <1>11, <1>12, WithoutConcat, ConcatAt
  <2>2. before \in Seq(Ops)
    BY <1>7, <1>11, <2>1, ConcatAt
  <2> QED
    BY <2>1, <2>2, LenProperties
<1>15. Without(before, "segment") /\ (inflight[u][Other(h)] > 0 => Behind(before, inflight[u][Other(h)]))
  <2>1. Without(before, "segment")
    BY <1>7, <1>11, <1>13, <1>14, WithoutConcat
  <2>2. inflight[u][Other(h)] > 0 => Behind(before, inflight[u][Other(h)])
    BY <1>7, <1>11, <1>13, <1>14, BehindConcat
  <2> QED
    BY <2>1, <2>2
<1>16. ASSUME inflight[u][h] > 0
       PROVE  1 \in 1..Len(before) /\ before[1] = Op("wait", inflight[u][h])
  <2>1. w = <<Op("wait", inflight[u][h])>>
    BY <1>4, <1>16 DEF OwnWait
  <2>2. Len(w) = 1 /\ w[1] = Op("wait", inflight[u][h])
    BY <2>1
  <2>3. 1 \in 1..Len(w)
    BY <2>2
  <2>4. (w \o m)[1] = w[1] /\ 1 \in 1..Len(w \o m)
    <3>1. Len(w \o m) = Len(w) + Len(m) /\ Len(m) \in Nat /\ \A i \in 1..Len(w) : (w \o m)[i] = w[i]
      BY <1>11, ConcatAt
    <3> QED
      BY <2>2, <2>3, <3>1
  <2>5. before[1] = (w \o m)[1] /\ 1 \in 1..Len(before)
    <3>1. /\ Len(before) = Len(w \o m) + Len(b) /\ Len(w \o m) \in Nat /\ Len(b) \in Nat
          /\ \A i \in 1..Len(w \o m) : before[i] = (w \o m)[i]
      BY <1>7, <1>11, <1>14, ConcatAt
    <3> QED
      BY <2>4, <3>1
  <2> QED
    BY <2>2, <2>4, <2>5
<1>17. Enqueued(ops, inflight[u][h], inflight[u][Other(h)], Issued(u) + 1)
       /\ (Ends(u, h) => Without(ops, "segment"))
  <2>1. CASE Ends(u, h)
    <3>1. ops = before
      BY <1>9, <2>1
    <3>2. \A j \in 1..Len(ops) : ops[j].op # "segment"
      BY <1>15, <3>1 DEF Without
    <3> QED
      BY <1>14, <1>15, <1>16, <3>1, <3>2 DEF Enqueued
  <2>2. CASE ~Ends(u, h)
    <3>1. ops = Append(before, last)
      BY <1>9, <2>2
    <3>2. last \in Ops /\ last.op = "segment" /\ last.n = Issued(u) + 1
      BY <1>3, <1>8 DEF Op, Ops
    <3>3. /\ ops \in Seq(Ops) /\ Len(ops) = Len(before) + 1
          /\ \A j \in 1..Len(before) : ops[j] = before[j]
          /\ ops[Len(before) + 1] = last
      BY <1>14, <3>1, <3>2, AppendProperties
    <3>4. \A j \in 1..Len(ops) : j \in 1..Len(before) \/ j = Len(before) + 1
      BY <1>14, <3>3
    <3>5. ASSUME NEW j \in 1..Len(ops), ops[j].op = "segment"
          PROVE  j = Len(ops) /\ ops[j].n = Issued(u) + 1
      BY <1>15, <3>2, <3>3, <3>4, <3>5 DEF Without
    <3>6. inflight[u][h] > 0 => 1 \in 1..Len(ops) /\ ops[1] = Op("wait", inflight[u][h])
      BY <1>14, <1>16, <3>3
    <3>7. ASSUME inflight[u][Other(h)] > 0, NEW j \in 1..Len(ops), ops[j].op = "step"
          PROVE  \E i \in 1..(j - 1) : ops[i] = Op("wait", inflight[u][Other(h)])
      <4>1. j \in 1..Len(before) /\ before[j].op = "step"
        BY <3>2, <3>3, <3>4, <3>7
      <4>2. PICK i \in 1..(j - 1) : before[i] = Op("wait", inflight[u][Other(h)])
        BY <1>15, <3>7, <4>1 DEF Behind
      <4>3. i \in 1..Len(before)
        BY <1>14, <4>1, <4>2
      <4> QED
        BY <3>3, <4>2, <4>3
    <3> QED
      BY <2>2, <3>3, <3>5, <3>6, <3>7 DEF Enqueued, Behind
  <2> QED
    BY <2>1, <2>2
<1> QED
  BY <1>10, <1>17 DEF BatonTypes

(* Queued: the part of the invariant that is about a rank's streams.       *)
Queued(r) == Known(r) /\ Fenced(r)

LEMMA Numbers ==
  ASSUME BatonTypes, TypeOK, \A r \in Ranks : Flags(r), NEW r \in Ranks
  PROVE  /\ Issued(r) \in Nat /\ ready[r] \in Nat /\ k[r] \in Nat /\ RoundsDone(r) \in Nat
         /\ Len(queue[r]) \in Nat /\ queue[r] \in Seq(Ops) /\ inflight[r] \in [Halves -> Nat]
         /\ seg[r]["A"] \in Nat /\ seg[r]["B"] \in Nat
         /\ \A q \in 1..Len(queue[r]) : queue[r][q] \in Ops /\ queue[r][q].n \in Nat
<1>1. seg[r]["A"] \in Nat /\ seg[r]["B"] \in Nat
  BY OverlapAssumption DEF BatonTypes, Halves
<1>2. Issued(r) \in Nat
  BY <1>1 DEF Issued
<1>3. queue[r] \in Seq(Ops)
  BY DEF BatonTypes
<1>4. Len(queue[r]) \in Nat /\ \A q \in 1..Len(queue[r]) : queue[r][q] \in Ops
  BY <1>3, LenProperties, ElementOfSeq
<1>5. k[r] \in Nat /\ (pc[r] # "idle" => k[r] > 0)
  BY RoundsAssumption DEF TypeOK, Flags
<1>6. RoundsDone(r) \in Nat
  BY <1>5 DEF RoundsDone
<1>7. ready[r] \in Nat /\ inflight[r] \in [Halves -> Nat]
  BY DEF BatonTypes
<1> QED
  BY <1>1, <1>2, <1>3, <1>4, <1>5, <1>6, <1>7 DEF Ops

(* Half h of rank u goes on: its queue is longer, its newest round awaits. *)
LEMMA SegmentQueued ==
  ASSUME BatonTypes, BatonTypes', CEInv, NEW u \in Ranks, NEW h \in Halves, Segment(u, h), Queued(u)
  PROVE  Queued(u)'
<1>0. TypeOK /\ \A r \in Ranks : Flags(r)
  BY DEF CEInv
<1>1. PICK ops : /\ Enqueued(ops, inflight[u][h], inflight[u][Other(h)], Issued(u) + 1)
                 /\ Ends(u, h) => Without(ops, "segment")
                 /\ queue'[u] = queue[u] \o ops
  BY SegmentEnqueues
<1> DEFINE q0 == queue[u]
           q1 == queue'[u]
           a == Len(q0)
           b == Len(ops)
<1>2. /\ Issued(u) \in Nat /\ ready[u] \in Nat /\ k[u] \in Nat /\ RoundsDone(u) \in Nat
      /\ a \in Nat /\ q0 \in Seq(Ops) /\ inflight[u] \in [Halves -> Nat]
      /\ \A i \in 1..a : q0[i] \in Ops /\ q0[i].n \in Nat
  BY <1>0, Numbers
<1>3. /\ ops \in Seq(Ops) /\ b \in Nat /\ Len(q1) = a + b
      /\ \A i \in 1..a : q1[i] = q0[i]
      /\ \A i \in 1..b : q1[a + i] = ops[i]
      /\ \A j \in 1..(a + b) : j \in 1..a \/ (j > a /\ j - a \in 1..b /\ q1[j] = ops[j - a])
  <2>1. ops \in Seq(Ops)
    BY <1>1 DEF Enqueued
  <2> QED
    BY <1>1, <1>2, <2>1, ConcatAt
<1>4. UNCHANGED <<ready, k, pc>> /\ RoundsDone(u)' = RoundsDone(u)
  BY SegmentMoves DEF RoundsDone
<1>5. Other(h) \in Halves /\ Other(h) # h /\ \A g \in Halves : g = h \/ g = Other(h)
  BY DEF Other, Halves
<1>6. Issued(u)' = IF Ends(u, h) THEN Issued(u) ELSE Issued(u) + 1
  <2>1. CASE Ends(u, h)
    BY <2>1, SegmentOfRank DEF Issued
  <2>2. CASE ~Ends(u, h)
    <3>1. seg'[u] = [seg[u] EXCEPT ![h] = seg[u][h] + 1] /\ seg[u] \in [Halves -> 0..Segs]
      BY <2>2, SegmentOfRank DEF BatonTypes
    <3>2. seg[u]["A"] \in Nat /\ seg[u]["B"] \in Nat
      BY <1>0, Numbers
    <3>3. seg'[u][h] = seg[u][h] + 1 /\ seg'[u][Other(h)] = seg[u][Other(h)]
      BY <1>5, <3>1
    <3>4. (h = "A" /\ Other(h) = "B") \/ (h = "B" /\ Other(h) = "A")
      BY DEF Other, Halves
    <3> QED
      BY <2>2, <3>2, <3>3, <3>4 DEF Issued
  <2> QED
    BY <2>1, <2>2
<1>7. /\ inflight'[u][h] = IF Ends(u, h) THEN 0 ELSE Issued(u) + 1
      /\ inflight'[u][Other(h)] = inflight[u][Other(h)]
  <2>1. PICK n : n = IF Ends(u, h) THEN 0 ELSE Issued(u) + 1
    OBVIOUS
  <2>2. inflight'[u] = [inflight[u] EXCEPT ![h] = n]
    BY <2>1, SegmentOfRank
  <2> QED
    BY <1>2, <1>5, <2>1, <2>2
<1>8. /\ \A j \in 1..b : ops[j].op = "segment" => j = b /\ ops[j].n = Issued(u) + 1 /\ ~Ends(u, h)
      /\ inflight[u][h] > 0 => 1 \in 1..b /\ ops[1] = Op("wait", inflight[u][h])
      /\ inflight[u][Other(h)] > 0 => Behind(ops, inflight[u][Other(h)])
  BY <1>1 DEF Enqueued, Without
<1> HIDE DEF q0, q1, a, b
<1> DEFINE W(p, m) == m <= RoundsDone(u) \/ \E i \in 1..(p - 1) : q1[i].op = "wait" /\ q1[i].n >= m
<1>9. ASSUME NEW m \in Nat, NEW n \in Nat, m <= n, Awaited(u, a + 1, n), NEW p \in Nat, p > a
      PROVE  W(p, m)
  <2>1. CASE n <= RoundsDone(u)
    BY <1>2, <1>9, <2>1
  <2>2. CASE ~(n <= RoundsDone(u))
    <3>0. \E i \in 1..(a + 1 - 1) : queue[u][i].op = "wait" /\ queue[u][i].n >= n
      BY <1>2, <1>9, <2>2 DEF Awaited
    <3>1. PICK i \in 1..(a + 1 - 1) : q0[i].op = "wait" /\ q0[i].n >= n
      BY <3>0 DEF q0
    <3>2. i \in 1..a /\ i \in 1..(p - 1)
      BY <1>2, <1>9, <3>1
    <3>3. q1[i].op = "wait" /\ q1[i].n >= m
      BY <1>2, <1>3, <1>9, <3>1, <3>2
    <3> QED
      BY <3>2, <3>3
  <2> QED
    BY <2>1, <2>2
<1>11. ASSUME NEW p \in Nat, p > a + 1, NEW n \in Nat, inflight[u][h] = n, NEW m \in Nat, m <= n
       PROVE  W(p, m)
  <2>1. CASE n = 0
    BY <1>2, <1>11, <2>1
  <2>2. CASE n > 0
    <3>1. 1 \in 1..b /\ ops[1] = Op("wait", n)
      BY <1>8, <1>11, <2>2
    <3>2. q1[a + 1] = Op("wait", n) /\ a + 1 \in 1..(p - 1)
      BY <1>2, <1>3, <1>11, <3>1
    <3>3. q1[a + 1].op = "wait" /\ q1[a + 1].n >= m
      BY <1>11, <3>2 DEF Op
    <3> QED
      BY <3>2, <3>3
  <2> QED
    BY <1>11, <2>1, <2>2
<1>12. \/ Awaited(u, a + 1, Issued(u))
       \/ \E g \in Halves : inflight[u][g] = Issued(u)
  BY DEF Queued, Known, a, q0
<1>10. Known(u)'
  <2>1. k'[u] <= ready'[u] /\ ready'[u] <= Issued(u)'
    BY <1>2, <1>4, <1>6 DEF Queued, Known
  <2>2. ASSUME NEW j \in 1..(a + b), q1[j].op = "segment"
        PROVE  /\ ready[u] < q1[j].n /\ q1[j].n <= Issued(u)'
               /\ \A p \in 1..(j - 1) : q1[p].op = "segment" => q1[p].n < q1[j].n
    <3>0. \A i \in 1..a : q0[i].op = "segment" =>
            /\ ready[u] < q0[i].n /\ q0[i].n <= Issued(u)
            /\ \A p \in 1..(i - 1) : q0[p].op = "segment" => q0[p].n < q0[i].n
      BY DEF Queued, Known, q0, a
    <3>1. CASE j \in 1..a
      <4>1. q1[j] = q0[j] /\ q0[j].n \in Nat
        BY <1>2, <1>3, <3>1
      <4>2. \A p \in 1..(j - 1) : p \in 1..a /\ q1[p] = q0[p]
        BY <1>2, <1>3, <3>1
      <4>3. ready[u] < q0[j].n /\ q0[j].n <= Issued(u)'
        BY <1>2, <1>6, <2>2, <3>0, <3>1, <4>1
      <4> QED
        BY <2>2, <3>0, <3>1, <4>1, <4>2, <4>3
    <3>2. CASE j > a /\ j - a \in 1..b /\ q1[j] = ops[j - a]
      <4>1. j - a = b /\ q1[j].n = Issued(u) + 1 /\ ~Ends(u, h)
        BY <1>8, <2>2, <3>2
      <4>2. ASSUME NEW p \in 1..(j - 1), q1[p].op = "segment"
            PROVE  q1[p].n < q1[j].n
        <5>1. p \in 1..(a + b) /\ p # j
          BY <1>2, <1>3, <2>2, <4>2
        <5>2. CASE p \in 1..a
          <6>1. q0[p].n <= Issued(u) /\ q1[p] = q0[p] /\ q0[p].n \in Nat
            BY <1>2, <1>3, <3>0, <4>2, <5>2
          <6> QED
            BY <1>2, <4>1, <6>1
        <5>3. CASE p > a /\ p - a \in 1..b /\ q1[p] = ops[p - a]
          <6>1. p - a = b
            BY <1>8, <4>2, <5>3
          <6> QED
            BY <1>2, <4>1, <5>1, <5>3, <6>1
        <5> QED
          BY <1>3, <5>1, <5>2, <5>3
      <4>3. ready[u] < Issued(u) + 1 /\ Issued(u)' = Issued(u) + 1
        BY <1>2, <1>6, <4>1 DEF Queued, Known
      <4> QED
        BY <1>2, <4>1, <4>2, <4>3
    <3> QED
      BY <1>3, <3>1, <3>2
  <2>3. PICK n1 : n1 = Issued(u)'
    OBVIOUS
  <2>4. W(a + b + 1, n1) \/ \E g \in Halves : inflight'[u][g] = n1
    <3>1. CASE ~Ends(u, h)
      BY <1>6, <1>7, <2>3, <3>1
    <3>2. CASE Ends(u, h)
      <4>1. n1 = Issued(u) /\ n1 \in Nat
        BY <1>2, <1>6, <2>3, <3>2
      <4>2. CASE Awaited(u, a + 1, Issued(u))
        <5>1. a + b + 1 \in Nat /\ a + b + 1 > a /\ n1 <= n1
          BY <1>2, <1>3, <4>1
        <5> HIDE DEF W
        <5> QED
          BY <1>9, <4>1, <4>2, <5>1
      <4>3. CASE inflight[u][Other(h)] = Issued(u)
        BY <1>5, <1>7, <4>1, <4>3
      <4>4. CASE inflight[u][h] = Issued(u)
        <5>1. CASE n1 = 0
          BY <1>2, <5>1
        <5>2. CASE n1 # 0
          <6>1. b > 0
            BY <1>3, <1>8, <4>1, <4>4, <5>2
          <6>2. a + b + 1 \in Nat /\ a + b + 1 > a + 1 /\ n1 <= n1
            BY <1>2, <1>3, <4>1, <6>1
          <6> HIDE DEF W
          <6> QED
            BY <1>11, <4>1, <4>4, <6>2
        <5> QED
          BY <5>1, <5>2
      <4> HIDE DEF W
      <4> QED
        BY <1>5, <1>12, <4>2, <4>3, <4>4
    <3> QED
      BY <3>1, <3>2
  <2>5. \/ Issued(u)' <= RoundsDone(u)'
        \/ \E i \in 1..(Len(queue'[u]) + 1 - 1) : queue'[u][i].op = "wait" /\ queue'[u][i].n >= Issued(u)'
        \/ \E g \in Halves : inflight'[u][g] = Issued(u)'
    BY <1>2, <1>3, <1>4, <2>3, <2>4 DEF q1
  <2> QED
    BY <1>3, <1>4, <2>1, <2>2, <2>5 DEF Known, Awaited, q1
<1>13. ASSUME NEW p \in 1..(a + b), q1[p].op = "step", NEW m \in Nat,
              \/ m <= ready[u]
              \/ \E q \in 1..(p - 1) : q1[q].op = "segment" /\ q1[q].n >= m
       PROVE  W(p, m)
  <2>0. p \in Nat
    BY <1>2, <1>3, <1>13
  <2>1. CASE p \in 1..a
    <3>1. \A q \in 1..p : q \in 1..a /\ q1[q] = q0[q]
      BY <1>2, <1>3, <2>1
    <3>2. Ahead(u, p, m)
      BY <1>2, <1>13, <2>1, <3>1 DEF Ahead, q0
    <3>3. q0[p].op = "step"
      BY <1>13, <2>1, <3>1
    <3>4. Awaited(u, p, m)
      BY <2>1, <3>2, <3>3 DEF Queued, Fenced, q0, a
    <3>5. \A q \in 1..(p - 1) : q \in 1..p
      BY <1>2, <2>1
    <3> QED
      BY <3>1, <3>4, <3>5 DEF Awaited, q0
  <2>2. CASE p > a /\ p - a \in 1..b /\ q1[p] = ops[p - a]
    <3>1. ready[u] <= Issued(u)
      BY DEF Queued, Known
    <3>2. m <= Issued(u)
      <4>1. CASE m <= ready[u]
        BY <1>2, <3>1, <4>1
      <4>2. CASE \E q \in 1..(p - 1) : q1[q].op = "segment" /\ q1[q].n >= m
        <5>1. PICK q \in 1..(p - 1) : q1[q].op = "segment" /\ q1[q].n >= m
          BY <4>2
        <5>2. q \in 1..(a + b)
          BY <1>2, <1>3, <2>0, <5>1
        <5>3. CASE q \in 1..a
          <6>1. q1[q] = q0[q] /\ q0[q].n \in Nat
            BY <1>2, <1>3, <5>3
          <6>2. q0[q].n <= Issued(u)
            BY <5>1, <5>3, <6>1 DEF Queued, Known, q0, a
          <6> QED
            BY <1>2, <5>1, <6>1, <6>2
        <5>4. CASE q > a /\ q - a \in 1..b /\ q1[q] = ops[q - a]
          <6>1. q - a = b
            BY <1>8, <5>1, <5>4
          <6> QED
            BY <1>2, <1>3, <2>0, <5>1, <6>1
        <5> QED
          BY <1>3, <5>2, <5>3, <5>4
      <4> QED
        BY <1>13, <4>1, <4>2
    <3>3. CASE Awaited(u, a + 1, Issued(u))
      <4> HIDE DEF W
      <4> QED
        BY <1>2, <1>9, <2>0, <2>2, <3>2, <3>3
    <3>4. CASE inflight[u][h] = Issued(u)
      <4>1. CASE Issued(u) = 0
        BY <1>2, <3>2, <4>1
      <4>2. CASE Issued(u) # 0
        <5>1. ops[1] = Op("wait", Issued(u))
          BY <1>2, <1>8, <3>4, <4>2
        <5>2. p - a # 1
          BY <1>13, <2>2, <5>1 DEF Op
        <5>3. p > a + 1
          BY <1>2, <2>0, <2>2, <5>2
        <5> HIDE DEF W
        <5> QED
          BY <1>2, <1>11, <2>0, <3>2, <3>4, <5>3
      <4> QED
        BY <4>1, <4>2
    <3>5. CASE inflight[u][Other(h)] = Issued(u)
      <4>1. CASE Issued(u) = 0
        BY <1>2, <3>2, <4>1
      <4>2. CASE Issued(u) # 0
        <5>1. Behind(ops, Issued(u))
          BY <1>2, <1>8, <3>5, <4>2
        <5>2. ops[p - a].op = "step" /\ p - a \in 1..Len(ops)
          BY <1>13, <2>2 DEF b
        <5>3. PICK i \in 1..(p - a - 1) : ops[i] = Op("wait", Issued(u))
          BY <5>1, <5>2 DEF Behind
        <5>4. i \in 1..b /\ a + i \in 1..(p - 1)
          BY <1>2, <1>3, <2>0, <2>2, <5>3
        <5>5. q1[a + i] = Op("wait", Issued(u))
          BY <1>3, <5>3, <5>4
        <5>6. q1[a + i].op = "wait" /\ q1[a + i].n >= m
          BY <3>2, <5>5 DEF Op
        <5> QED
          BY <5>4, <5>6
      <4> QED
        BY <4>1, <4>2
    <3> HIDE DEF W
    <3> QED
      BY <1>5, <1>12, <3>3, <3>4, <3>5
  <2> HIDE DEF W
  <2> QED
    BY <1>3, <1>13, <2>1, <2>2
<1>14. Fenced(u)'
  BY <1>3, <1>4, <1>13 DEF Fenced, Ahead, Awaited, q1
<1> QED
  BY <1>10, <1>14 DEF Queued

(* A rank whose stream is as it was, its rounds as far or further.         *)
LEMMA QueuedKept ==
  ASSUME BatonTypes, CEInv, NEW r \in Ranks, Queued(r),
         queue'[r] = queue[r], ready'[r] = ready[r], seg'[r] = seg[r], inflight'[r] = inflight[r],
         k'[r] <= ready[r], RoundsDone(r)' \in Nat, RoundsDone(r) <= RoundsDone(r)'
  PROVE  Queued(r)'
<1>0. TypeOK /\ \A u \in Ranks : Flags(u)
  BY DEF CEInv
<1>1. /\ Issued(r) \in Nat /\ ready[r] \in Nat /\ RoundsDone(r) \in Nat /\ Len(queue[r]) \in Nat
      /\ \A q \in 1..Len(queue[r]) : queue[r][q].n \in Nat
  BY <1>0, Numbers
<1>2. Issued(r)' = Issued(r)
  BY DEF Issued
<1>3. ASSUME NEW p \in Nat, NEW m \in Nat, Awaited(r, p, m) PROVE Awaited(r, p, m)'
  BY <1>1, <1>3 DEF Awaited
<1>4. ASSUME NEW p \in Nat, NEW m \in Nat, Ahead(r, p, m)' PROVE Ahead(r, p, m)
  BY <1>4 DEF Ahead
<1>5. Fenced(r)'
  <2> SUFFICES ASSUME NEW p \in 1..Len(queue[r]), queue[r][p].op = "step", NEW m \in Nat, Ahead(r, p, m)'
               PROVE  Awaited(r, p, m)'
    BY DEF Fenced
  <2>1. p \in Nat
    BY <1>1
  <2>2. Awaited(r, p, m)
    BY <1>4, <2>1 DEF Queued, Fenced
  <2> QED
    BY <1>3, <2>1, <2>2
<1>6. Known(r)'
  <2>1. PICK n : n = Issued(r)
    OBVIOUS
  <2>2. n \in Nat /\ Issued(r)' = n /\ Len(queue[r]) + 1 \in Nat
    BY <1>1, <1>2, <2>1
  <2>3. Awaited(r, Len(queue[r]) + 1, n) \/ \E h \in Halves : inflight[r][h] = n
    BY <2>1 DEF Queued, Known
  <2>4. PICK p : p = Len(queue[r]) + 1
    OBVIOUS
  <2>5. Awaited(r, p, n)' \/ \E h \in Halves : inflight[r][h] = n
    BY <1>3, <2>2, <2>3, <2>4
  <2>6. \/ n <= RoundsDone(r)'
        \/ \E q \in 1..(Len(queue[r]) + 1 - 1) : queue[r][q].op = "wait" /\ queue[r][q].n >= n
        \/ \E h \in Halves : inflight[r][h] = n
    BY <2>4, <2>5 DEF Awaited
  <2>7. /\ k'[r] <= ready[r] /\ ready[r] <= n
        /\ \A q \in 1..Len(queue[r]) : queue[r][q].op = "segment" =>
             /\ ready[r] < queue[r][q].n /\ queue[r][q].n <= n
             /\ \A p1 \in 1..(q - 1) : queue[r][p1].op = "segment" => queue[r][p1].n < queue[r][q].n
    BY <2>1 DEF Queued, Known
  <2> QED
    BY <2>2, <2>6, <2>7 DEF Known, Awaited
<1> QED
  BY <1>5, <1>6 DEF Queued

(* The first operation of a rank's stream is executed.                     *)
LEMMA PopQueued ==
  ASSUME BatonTypes, CEInv, NEW r \in Ranks, Queued(r), queue[r] # <<>>,
         queue'[r] = Tail(queue[r]), seg'[r] = seg[r], inflight'[r] = inflight[r], k' = k, pc' = pc,
         ready'[r] = IF First(r).op = "segment" THEN First(r).n ELSE ready[r],
         First(r).op = "wait" => RoundsDone(r) >= First(r).n
  PROVE  Queued(r)'
<1>0. TypeOK /\ \A u \in Ranks : Flags(u)
  BY DEF CEInv
<1> DEFINE q0 == queue[r]
           q1 == queue'[r]
           a == Len(q0)
<1>1. /\ Issued(r) \in Nat /\ ready[r] \in Nat /\ k[r] \in Nat /\ RoundsDone(r) \in Nat
      /\ \A q \in 1..a : q0[q].n \in Nat
  BY <1>0, Numbers
<1>2. /\ a \in Nat \ {0} /\ Len(q1) = a - 1 /\ \A q \in 1..(a - 1) : q1[q] = q0[q + 1]
      /\ First(r) = q0[1]
  BY PopTypes DEF First
<1>3. Issued(r)' = Issued(r) /\ RoundsDone(r)' = RoundsDone(r)
  BY DEF Issued, RoundsDone
<1>4. /\ k[r] <= ready[r] /\ ready[r] <= Issued(r)
      /\ \A q \in 1..a : q0[q].op = "segment" =>
           /\ ready[r] < q0[q].n /\ q0[q].n <= Issued(r)
           /\ \A p \in 1..(q - 1) : q0[p].op = "segment" => q0[p].n < q0[q].n
  BY DEF Queued, Known
<1> HIDE DEF q0, q1, a
<1>5. 1 \in 1..a /\ \A q \in 1..(a - 1) : q + 1 \in 1..a
  BY <1>2
<1>6. /\ k[r] <= ready'[r] /\ ready'[r] <= Issued(r) /\ ready'[r] \in Nat /\ ready[r] <= ready'[r]
      /\ ready'[r] = ready[r] \/ (q0[1].op = "segment" /\ ready'[r] = q0[1].n)
  <2>1. CASE q0[1].op = "segment"
    <3>1. ready'[r] = q0[1].n /\ q0[1].n \in Nat /\ ready[r] < q0[1].n /\ q0[1].n <= Issued(r)
      BY <1>1, <1>2, <1>4, <1>5, <2>1
    <3> QED
      BY <1>1, <1>4, <2>1, <3>1
  <2>2. CASE q0[1].op # "segment"
    BY <1>1, <1>2, <1>4, <2>2
  <2> QED
    BY <2>1, <2>2
<1>7. ASSUME NEW q \in 1..(a - 1), q1[q].op = "segment"
      PROVE  /\ ready'[r] < q1[q].n /\ q1[q].n <= Issued(r)
             /\ \A p \in 1..(q - 1) : q1[p].op = "segment" => q1[p].n < q1[q].n
  <2>1. q1[q] = q0[q + 1] /\ q + 1 \in 1..a /\ q0[q + 1].n \in Nat
    BY <1>1, <1>2, <1>5
  <2>2. /\ ready[r] < q0[q + 1].n /\ q0[q + 1].n <= Issued(r)
        /\ \A p \in 1..(q + 1 - 1) : q0[p].op = "segment" => q0[p].n < q0[q + 1].n
    BY <1>4, <1>7, <2>1
  <2>3. ready'[r] < q0[q + 1].n
    <3>1. 1 \in 1..(q + 1 - 1)
      BY <1>2
    <3> QED
      BY <1>6, <2>2, <3>1
  <2>4. ASSUME NEW p \in 1..(q - 1), q1[p].op = "segment" PROVE q1[p].n < q1[q].n
    <3>1. p \in 1..(a - 1) /\ p + 1 \in 1..(q + 1 - 1)
      BY <1>2
    <3>2. q1[p] = q0[p + 1]
      BY <1>2, <3>1
    <3> QED
      BY <2>1, <2>2, <2>4, <3>1, <3>2
  <2> QED
    BY <2>1, <2>2, <2>3, <2>4
<1> DEFINE W(p, m) == m <= RoundsDone(r) \/ \E q \in 1..(p - 1) : q1[q].op = "wait" /\ q1[q].n >= m
<1>8. ASSUME NEW p \in 1..a, NEW m \in Nat, Awaited(r, p + 1, m) PROVE W(p, m)
  <2>1. CASE m <= RoundsDone(r)
    BY <2>1
  <2>2. CASE ~(m <= RoundsDone(r))
    <3>1. PICK q \in 1..(p + 1 - 1) : q0[q].op = "wait" /\ q0[q].n >= m
      BY <1>2, <1>8, <2>2 DEF Awaited, q0
    <3>2. q \in 1..a /\ q0[q].n \in Nat
      BY <1>1, <1>2, <3>1
    <3>3. q # 1
      BY <1>1, <1>2, <2>2, <3>1, <3>2
    <3>4. q - 1 \in 1..(p - 1) /\ q - 1 \in 1..(a - 1) /\ q - 1 + 1 = q
      BY <1>2, <3>1, <3>2, <3>3
    <3>5. q1[q - 1] = q0[q]
      BY <1>2, <3>4
    <3> QED
      BY <3>1, <3>4, <3>5
  <2> QED
    BY <2>1, <2>2
<1>9. ASSUME NEW p \in 1..(a - 1), q1[p].op = "step", NEW m \in Nat,
             \/ m <= ready'[r]
             \/ \E q \in 1..(p - 1) : q1[q].op = "segment" /\ q1[q].n >= m
      PROVE  W(p, m)
  <2>1. p \in 1..a /\ p + 1 \in 1..a /\ q0[p + 1].op = "step" /\ 1 \in 1..(p + 1 - 1)
    BY <1>2, <1>5, <1>9
  <2>2. \/ m <= ready[r]
        \/ \E q \in 1..(p + 1 - 1) : q0[q].op = "segment" /\ q0[q].n >= m
    <3>1. CASE m <= ready'[r]
      <4>1. CASE ready'[r] = ready[r]
        BY <3>1, <4>1
      <4>2. CASE q0[1].op = "segment" /\ ready'[r] = q0[1].n
        <5>1. q0[1].n >= m
          BY <1>6, <3>1, <4>2
        <5> QED
          BY <2>1, <4>2, <5>1
      <4> QED
        BY <1>6, <4>1, <4>2
    <3>2. CASE \E q \in 1..(p - 1) : q1[q].op = "segment" /\ q1[q].n >= m
      <4>1. PICK q \in 1..(p - 1) : q1[q].op = "segment" /\ q1[q].n >= m
        BY <3>2
      <4>2. q \in 1..(a - 1) /\ q + 1 \in 1..(p + 1 - 1)
        BY <1>2, <4>1
      <4>3. q0[q + 1].op = "segment" /\ q0[q + 1].n >= m
        BY <1>2, <4>1, <4>2
      <4> QED
        BY <4>2, <4>3
    <3> QED
      BY <1>9, <3>1, <3>2
  <2>3. Ahead(r, p + 1, m)
    BY <2>1, <2>2 DEF Ahead, q0
  <2>4. Awaited(r, p + 1, m)
    BY <2>1, <2>3 DEF Queued, Fenced, q0, a
  <2> HIDE DEF W
  <2> QED
    BY <1>8, <2>1, <2>4
<1>10. Fenced(r)'
  BY <1>2, <1>3, <1>9 DEF Fenced, Ahead, Awaited, q1
<1>11. Known(r)'
  <2>1. PICK n : n = Issued(r)
    OBVIOUS
  <2>2. W(a, n) \/ \E h \in Halves : inflight[r][h] = n
    <3>1. Awaited(r, a + 1, n) \/ \E h \in Halves : inflight[r][h] = n
      BY <2>1 DEF Queued, Known, q0, a
    <3>2. a \in 1..a /\ n \in Nat
      BY <1>1, <1>2, <2>1
    <3> HIDE DEF W
    <3> QED
      BY <1>8, <3>1, <3>2
  <2>3. Issued(r)' = n /\ a - 1 + 1 - 1 = a - 1
    BY <1>2, <1>3, <2>1
  <2>4. \/ Issued(r)' <= RoundsDone(r)'
        \/ \E i \in 1..(Len(queue'[r]) + 1 - 1) : queue'[r][i].op = "wait" /\ queue'[r][i].n >= Issued(r)'
        \/ \E g \in Halves : inflight'[r][g] = Issued(r)'
    BY <1>2, <1>3, <2>2, <2>3 DEF q1
  <2>5. /\ k'[r] <= ready'[r] /\ ready'[r] <= Issued(r)'
        /\ \A q \in 1..Len(queue'[r]) : queue'[r][q].op = "segment" =>
             /\ ready'[r] < queue'[r][q].n /\ queue'[r][q].n <= Issued(r)'
             /\ \A p \in 1..(q - 1) : queue'[r][p].op = "segment" => queue'[r][p].n < queue'[r][q].n
    <3> HIDE DEF W
    <3> QED
      BY <1>2, <1>3, <1>6, <1>7 DEF q1
  <2> QED
    BY <2>4, <2>5 DEF Known, Awaited
<1> QED
  BY <1>10, <1>11 DEF Queued

(* The rounds a rank has behind it never become fewer.                     *)
LEMMA RoundsGrow ==
  ASSUME BatonTypes, CEInv, CEInv', NEW r \in Ranks, Comm(r), NEW u \in Ranks, k[u] <= ready[u]
  PROVE  k'[u] <= ready[u] /\ RoundsDone(u)' \in Nat /\ RoundsDone(u) <= RoundsDone(u)'
<1>1. /\ k[u] \in Nat /\ ready[u] \in Nat /\ k'[u] \in Nat
      /\ pc \in [Ranks -> Round \cup {"idle"}] /\ k \in [Ranks -> 0..MaxRounds]
  <2>1. ready[u] \in Nat
    BY DEF BatonTypes
  <2>2. pc \in [Ranks -> Round \cup {"idle"}] /\ k \in [Ranks -> 0..MaxRounds]
    BY DEF CEInv, TypeOK
  <2>3. k' \in [Ranks -> 0..MaxRounds]
    BY DEF CEInv, TypeOK
  <2> QED
    BY RoundsAssumption, <2>1, <2>2, <2>3
<1>2. (pc[u] # "idle" => k[u] > 0) /\ (pc'[u] # "idle" => k'[u] > 0)
  BY DEF CEInv, Flags
<1>3. RoundsDone(u)' \in Nat
  BY <1>1, <1>2 DEF RoundsDone
<1>4. CASE Begin(r)
  <2>1. pc[r] = "idle" /\ k[r] < ready[r] /\ k' = [k EXCEPT ![r] = k[r] + 1] /\ pc' = [pc EXCEPT ![r] = "copyS"]
    BY <1>4 DEF Begin, Start, Set, Goto
  <2>2. CASE u = r
    <3>1. k'[u] = k[u] + 1 /\ pc'[u] = "copyS" /\ pc[u] = "idle" /\ k[u] < ready[u]
      BY <1>1, <2>1, <2>2
    <3> QED
      BY <1>1, <1>3, <3>1 DEF RoundsDone
  <2>3. CASE u # r
    <3>1. k'[u] = k[u] /\ pc'[u] = pc[u]
      BY <1>1, <2>1, <2>3
    <3> QED
      BY <1>1, <1>2, <1>3, <3>1 DEF RoundsDone
  <2> QED
    BY <2>2, <2>3
<1>5. CASE Reduce(r)
  <2>1. k' = k /\ pc[r] # "idle" /\ \E l \in Round \cup {"idle"} : pc' = [pc EXCEPT ![r] = l]
    <3>1. StreamStep(r)
      BY <1>5 DEF Reduce
    <3>2. CASE CopyS(r)
      BY <3>2 DEF CopyS, Goto, Round
    <3>3. CASE SetS(r)
      BY <3>3 DEF SetS, Goto, Round
    <3>4. CASE WaitS(r)
      BY <3>4 DEF WaitS, Goto, Round
    <3>5. CASE ReadS(r)
      BY <3>5 DEF ReadS, Goto, Round
    <3>6. CASE Add(r)
      BY <3>6 DEF Add, Goto, Round
    <3>7. CASE CopyG(r)
      BY <3>7 DEF CopyG, Goto, Round
    <3>8. CASE SetG(r)
      BY <3>8 DEF SetG, Goto, Round
    <3>9. CASE WaitG(r)
      BY <3>9 DEF WaitG, Goto, Round
    <3>10. CASE ReadG(r)
      BY <3>10 DEF ReadG, Goto, Round
    <3> QED
      BY <3>1, <3>2, <3>3, <3>4, <3>5, <3>6, <3>7, <3>8, <3>9, <3>10 DEF StreamStep
  <2>2. PICK l \in Round \cup {"idle"} : pc' = [pc EXCEPT ![r] = l]
    BY <2>1
  <2>3. pc[u] = "idle" => pc'[u] = "idle"
    <3>1. CASE u = r
      BY <2>1, <3>1
    <3>2. CASE u # r
      BY <1>1, <2>2, <3>2
    <3> QED
      BY <3>1, <3>2
  <2> QED
    BY <1>1, <1>2, <1>3, <2>1, <2>3 DEF RoundsDone
<1> QED
  BY <1>4, <1>5 DEF Comm

LEMMA QueuedInit == OverlapInit => \A r \in Ranks : Queued(r)
<1> SUFFICES ASSUME OverlapInit, NEW r \in Ranks PROVE Queued(r)
  OBVIOUS
<1>1. /\ queue[r] = <<>> /\ ready[r] = 0 /\ k[r] = 0 /\ pc[r] = "idle"
      /\ seg[r]["A"] = 0 /\ seg[r]["B"] = 0
  BY DEF OverlapInit, Init, Halves
<1>2. Issued(r) = 0 /\ RoundsDone(r) = 0
  BY <1>1 DEF Issued, RoundsDone
<1>3. Len(<<>>) = 0 /\ 1..0 = {}
  OBVIOUS
<1>4. Awaited(r, Len(queue[r]) + 1, Issued(r))
  BY <1>2 DEF Awaited
<1> QED
  BY <1>1, <1>2, <1>3, <1>4 DEF Queued, Known, Fenced

LEMMA QueuedStep ==
  ASSUME BatonTypes, BatonTypes', CEInv, CEInv', \A u \in Ranks : Queued(u), OverlapNext, NEW r \in Ranks
  PROVE  Queued(r)'
<1>0. TypeOK /\ \A u \in Ranks : Flags(u)
  BY DEF CEInv
<1>1. k[r] <= ready[r] /\ RoundsDone(r) \in Nat
  BY <1>0, Numbers DEF Queued, Known
<1>2. ASSUME NEW u \in Ranks, Python(u) PROVE Queued(r)'
  <2>1. PICK h \in Halves : Segment(u, h)
    BY <1>2 DEF Python
  <2>2. CASE u = r
    BY <2>1, <2>2, SegmentQueued
  <2>3. CASE u # r
    <3>1. queue'[r] = queue[r] /\ seg'[r] = seg[r] /\ inflight'[r] = inflight[r]
      <4>1. r \in Ranks \ {u}
        BY <2>3
      <4>2. \A v \in Ranks \ {u} : queue'[v] = queue[v]
        BY <2>1, SegmentEnqueues
      <4>3. \A v \in Ranks \ {u} : seg'[v] = seg[v] /\ inflight'[v] = inflight[v]
        BY <2>1, SegmentOfRank
      <4> QED
        BY <4>1, <4>2, <4>3
    <3>2. ready' = ready /\ k' = k /\ pc' = pc
      BY <2>1, SegmentMoves
    <3>3. RoundsDone(r)' = RoundsDone(r)
      BY <3>2 DEF RoundsDone
    <3> QED
      BY <1>1, <3>1, <3>2, <3>3, QueuedKept
  <2> QED
    BY <2>2, <2>3
<1>3. ASSUME NEW u \in Ranks, Compute(u) PROVE Queued(r)'
  <2>1. /\ queue[u] # <<>> /\ queue' = [queue EXCEPT ![u] = Tail(queue[u])]
        /\ UNCHANGED <<seg, inflight, k, pc>>
        /\ \/ First(u).op = "wait" /\ RoundsDone(u) >= First(u).n /\ ready' = ready
           \/ First(u).op = "mark" /\ ready' = ready
           \/ First(u).op = "segment" /\ ready' = [ready EXCEPT ![u] = First(u).n]
    BY <1>3 DEF Compute, Popped, baton, vars
  <2>2. CASE u = r
    <3>1. queue[r] # <<>> /\ queue'[r] = Tail(queue[r])
      BY <2>1, <2>2 DEF BatonTypes
    <3>2. ready'[r] = IF First(r).op = "segment" THEN First(r).n ELSE ready[r]
      BY <2>1, <2>2 DEF BatonTypes
    <3>3. First(r).op = "wait" => RoundsDone(r) >= First(r).n
      BY <2>1, <2>2
    <3> QED
      BY <2>1, <3>1, <3>2, <3>3, PopQueued
  <2>3. CASE u # r
    <3>1. queue'[r] = queue[r] /\ ready'[r] = ready[r]
      BY <2>1, <2>3 DEF BatonTypes
    <3>2. RoundsDone(r)' = RoundsDone(r)
      BY <2>1 DEF RoundsDone
    <3> QED
      BY <1>1, <2>1, <3>1, <3>2, QueuedKept
  <2> QED
    BY <2>2, <2>3
<1>4. CASE ComputeStep
  <2>1. /\ queue[r] # <<>> /\ First(r).op = "step" /\ queue'[r] = Tail(queue[r])
        /\ UNCHANGED <<seg, inflight, k, pc, ready>>
    BY <1>4 DEF ComputeStep, AtStep, baton, vars, Ranks
  <2> QED
    BY <2>1, PopQueued
<1>5. ASSUME NEW u \in Ranks, Comm(u) PROVE Queued(r)'
  <2>1. UNCHANGED <<queue, ready, seg, inflight>>
    BY <1>5 DEF Comm, Begin, Reduce, overlapVars, baton, gpu
  <2> QED
    BY <1>1, <1>5, <2>1, RoundsGrow, QueuedKept
<1> QED
  BY <1>2, <1>3, <1>4, <1>5 DEF OverlapNext

OrderedInv == BatonTypes /\ CEInv /\ \A r \in Ranks : Queued(r)

LEMMA OrderedHolds == OverlapSpec => []OrderedInv
<1>1. OverlapInit => OrderedInv
  BY InitTypes, QueuedInit, CEInvInit DEF OverlapInit, OrderedInv
<1>2. OrderedInv /\ [OverlapNext]_<<overlapVars, vars>> /\ [Next]_vars => OrderedInv'
  <2> SUFFICES ASSUME OrderedInv, [OverlapNext]_<<overlapVars, vars>>, [Next]_vars PROVE OrderedInv'
    OBVIOUS
  <2>1. BatonTypes /\ CEInv /\ BatonTypes' /\ CEInv'
    BY TypesStep, CEInvStep DEF OrderedInv
  <2>2. CASE OverlapNext
    BY <2>1, <2>2, QueuedStep DEF OrderedInv
  <2>3. CASE UNCHANGED <<overlapVars, vars>>
    <3>1. UNCHANGED <<queue, ready, seg, inflight, k, pc>>
      BY <2>3 DEF overlapVars, baton, gpu, vars
    <3>2. \A r \in Ranks : Queued(r)'
      BY <3>1 DEF OrderedInv, Queued, Known, Fenced, Awaited, Ahead, Issued, RoundsDone
    <3> QED
      BY <2>1, <3>2 DEF OrderedInv
  <2> QED
    BY <2>2, <2>3
<1>3. OverlapSpec => Spec
  BY OverlapIsCE
<1> QED
  BY <1>1, <1>2, <1>3, PTL DEF OverlapSpec, Spec

(* A step that is to run finds every round made and reduced.               *)
LEMMA StepsFindIdle ==
  ASSUME OrderedInv, NEW r \in Ranks, AtStep(r)
  PROVE  pc[r] = "idle" /\ ready[r] = k[r]
<1>1. queue[r] # <<>> /\ queue[r][1].op = "step"
  BY DEF AtStep, First
<1>2. 1 \in 1..Len(queue[r]) /\ 1..(1 - 1) = {}
  BY <1>1, PopTypes DEF OrderedInv
<1>3. ready[r] \in Nat /\ k[r] \in Nat /\ (pc[r] # "idle" => k[r] > 0)
  BY RoundsAssumption DEF OrderedInv, CEInv, TypeOK, Flags, BatonTypes
<1>4. Ahead(r, 1, ready[r])
  BY <1>3 DEF Ahead
<1>5. Awaited(r, 1, ready[r])
  BY <1>1, <1>2, <1>3, <1>4 DEF OrderedInv, Queued, Fenced
<1>6. ready[r] <= RoundsDone(r) /\ k[r] <= ready[r]
  BY <1>2, <1>5 DEF Awaited, OrderedInv, Queued, Known
<1> QED
  BY <1>3, <1>6 DEF RoundsDone

-----------------------------------------------------------------------------
(* Where a rank's Python is, and what it has issued on the way there.      *)
Row(r) == [turn |-> turn[r], alive |-> alive[r], seg |-> seg[r], passed |-> passed[r], calls |-> calls[r]]

(* The half whose turn it is goes on: only the steps come from elsewhere.  *)
PointOf(row) == chunk.preempt /\ row.seg[row.turn] > 0
EndOf(row) == chunk.fault = <<row.turn, row.seg[row.turn]>> \/ row.seg[row.turn] = Segs
Made(row, steps) ==
  IF EndOf(row) THEN Steps(steps) ELSE Append(Steps(steps), Call(row.turn, row.seg[row.turn]))
Moved(row, steps) ==
  [turn |-> IF EndOf(row) \/ Other(row.turn) \in row.alive THEN Other(row.turn) ELSE row.turn,
   alive |-> IF EndOf(row) THEN row.alive \ {row.turn} ELSE row.alive,
   seg |-> IF EndOf(row) THEN row.seg ELSE [row.seg EXCEPT ![row.turn] = row.seg[row.turn] + 1],
   passed |-> IF PointOf(row) THEN row.passed + 1 ELSE row.passed,
   calls |-> row.calls \o Made(row, steps)]
Told(row) == IF PointOf(row) THEN points[row.passed + 1] ELSE 0

LEMMA SegmentRow ==
  ASSUME BatonTypes, NEW u \in Ranks, NEW h \in Halves, Segment(u, h)
  PROVE  /\ \A r \in Ranks \ {u} : Row(r)' = Row(r)
         /\ u # 0 => passed'[0] = passed[0]
         /\ chunk' = chunk
         /\ \E steps \in Nat :
              /\ Row(u)' = Moved(Row(u), steps)
              /\ IF PointOf(Row(u))
                 THEN IF u = 0 THEN points' = Append(points, steps)
                               ELSE passed[1] < Len(points) /\ steps = Told(Row(u)) /\ points' = points
                 ELSE steps = Told(Row(u)) /\ points' = points
<1>1. PICK steps \in 0..chunk.steps :
        LET before == OwnWait(u, h) \o Mark(u, h) \o Inline(u, h, steps)
            n == Issued(u) + 1
            raises == chunk.fault = <<h, seg[u][h]>>
            ends == raises \/ seg[u][h] = Segs
        IN  /\ IF AtPoint(u, h) THEN Point(u, steps) ELSE steps = 0 /\ UNCHANGED <<points, passed>>
            /\ Enqueues(u, IF ends THEN before ELSE Append(before, Op("segment", n)),
                        IF ends THEN Steps(steps) ELSE Append(Steps(steps), Call(h, seg[u][h])))
  BY DEF Segment
<1>2. steps \in Nat
  <2>1. chunk.steps \in Nat
    BY OverlapAssumption DEF BatonTypes
  <2> QED
    BY <2>1
<1>3. PICK row : row = Row(u)
  OBVIOUS
<1>4. /\ row.turn = h /\ row.turn = turn[u] /\ row.alive = alive[u] /\ row.seg = seg[u]
      /\ row.passed = passed[u] /\ row.calls = calls[u]
  BY <1>3, SegmentMoves DEF Row
<1>5. /\ (PointOf(row) <=> AtPoint(u, h)) /\ (EndOf(row) <=> Ends(u, h))
  BY <1>4 DEF PointOf, AtPoint, EndOf, Ends
<1>6. PICK made : made = Made(row, steps)
  OBVIOUS
<1>7. calls' = [calls EXCEPT ![u] = calls[u] \o made]
  BY <1>1, <1>4, <1>5, <1>6 DEF Enqueues, Ends, Made
<1>8. calls'[u] = row.calls \o made /\ \A r \in Ranks \ {u} : calls'[r] = calls[r]
  BY <1>4, <1>7 DEF BatonTypes
<1>9. passed' = IF PointOf(row) THEN [passed EXCEPT ![u] = passed[u] + 1] ELSE passed
  BY <1>1, <1>5 DEF Point
<1>10. /\ passed'[u] = IF PointOf(row) THEN row.passed + 1 ELSE row.passed
       /\ \A r \in Ranks \ {u} : passed'[r] = passed[r]
  BY <1>4, <1>9 DEF BatonTypes
<1>13. Row(u)' = Moved(row, steps)
  <2>1. CASE Ends(u, h)
    <3>1. alive'[u] = alive[u] \ {h} /\ turn'[u] = Other(h) /\ seg'[u] = seg[u]
      BY <2>1, SegmentOfRank
    <3>2. alive'[u] = row.alive \ {row.turn} /\ turn'[u] = Other(row.turn) /\ seg'[u] = row.seg
      BY <1>4, <3>1
    <3> QED
      BY <1>5, <1>6, <1>8, <1>10, <2>1, <3>2 DEF Row, Moved
  <2>2. CASE ~Ends(u, h)
    <3>1. /\ alive'[u] = alive[u] /\ turn'[u] = IF Other(h) \in alive[u] THEN Other(h) ELSE h
          /\ seg'[u] = [seg[u] EXCEPT ![h] = seg[u][h] + 1]
      BY <2>2, SegmentOfRank
    <3>2. /\ alive'[u] = row.alive
          /\ turn'[u] = IF Other(row.turn) \in row.alive THEN Other(row.turn) ELSE row.turn
          /\ seg'[u] = [row.seg EXCEPT ![row.turn] = row.seg[row.turn] + 1]
      BY <1>4, <3>1
    <3> QED
      BY <1>5, <1>6, <1>8, <1>10, <2>2, <3>2 DEF Row, Moved
  <2> QED
    BY <2>1, <2>2
<1>14. \A r \in Ranks \ {u} : Row(r)' = Row(r)
  <2>1. \A r \in Ranks \ {u} : alive'[r] = alive[r] /\ turn'[r] = turn[r] /\ seg'[r] = seg[r]
    BY SegmentOfRank
  <2> QED
    BY <1>8, <1>10, <2>1 DEF Row
<1>15. IF PointOf(row)
       THEN IF u = 0 THEN points' = Append(points, steps)
                     ELSE passed[1] < Len(points) /\ steps = Told(row) /\ points' = points
       ELSE steps = Told(row) /\ points' = points
  <2>1. CASE PointOf(row)
    <3>1. Point(u, steps) /\ (u # 0 => u = 1)
      BY <1>1, <1>5, <2>1 DEF Ranks
    <3> QED
      BY <1>4, <2>1, <3>1 DEF Point, Told
  <2>2. CASE ~PointOf(row)
    BY <1>1, <1>5, <2>2 DEF Told
  <2> QED
    BY <2>1, <2>2
<1>16. chunk' = chunk /\ (u # 0 => passed'[0] = passed[0])
  BY <1>10, SegmentMoves DEF Ranks
<1> QED
  BY <1>2, <1>3, <1>13, <1>14, <1>15, <1>16

Prefix(s, t) == Len(s) <= Len(t) /\ \A n \in 1..Len(s) : t[n] = s[n]

LEMMA PrefixConcat ==
  ASSUME NEW s \in Seq(Calls), NEW t \in Seq(Calls), NEW m \in Seq(Calls), Prefix(s, t)
  PROVE  Prefix(s, t \o m)
<1> DEFINE c == t \o m
<1>1. /\ Len(s) \in Nat /\ Len(t) \in Nat /\ Len(m) \in Nat /\ Len(c) = Len(t) + Len(m)
      /\ \A i \in 1..Len(t) : c[i] = t[i]
  BY ConcatAt, LenProperties
<1> HIDE DEF c
<1>2. Prefix(s, c)
  BY <1>1 DEF Prefix
<1> QED
  BY <1>2 DEF c

(* The rows that a rank may be at: each follows from the one before.       *)
Planned(last, plan) ==
  /\ \A t \in 0..last : plan[t].calls \in Seq(Calls) /\ plan[t].passed \in Nat
  /\ \A t \in 0..(last - 1) : /\ PointOf(plan[t]) => plan[t].passed < Len(points)
                              /\ plan[t + 1] = Moved(plan[t], Told(plan[t]))
  /\ \A t, w \in 0..last : t <= w => Prefix(plan[t].calls, plan[w].calls)

Shared ==
  /\ Len(points) = passed[0]
  /\ \E last \in Nat : \E plan : /\ Planned(last, plan)
                                 /\ \A r \in Ranks : \E t \in 0..last : Row(r) = plan[t]

LEMMA ChunkOnly ==
  ASSUME chunk' = chunk, NEW row, NEW steps
  PROVE  (PointOf(row)' <=> PointOf(row)) /\ Moved(row, steps)' = Moved(row, steps)
BY DEF PointOf, Moved, EndOf, Made

(* A rank that is behind goes where the other one went; the first to get   *)
(* there adds its row, and rank 0 its message if a point lies before it.   *)
LEMMA SharedStep ==
  ASSUME BatonTypes, BatonTypes', Shared, NEW u \in Ranks, NEW h \in Halves, Segment(u, h)
  PROVE  Shared'
<1>1. PICK row : row = Row(u)
  OBVIOUS
<1>2. PICK steps \in Nat :
        /\ Row(u)' = Moved(row, steps)
        /\ IF PointOf(row)
           THEN IF u = 0 THEN points' = Append(points, steps)
                         ELSE passed[1] < Len(points) /\ steps = Told(row) /\ points' = points
           ELSE steps = Told(row) /\ points' = points
  BY <1>1, SegmentRow
<1>3. /\ \A r \in Ranks \ {u} : Row(r)' = Row(r)
      /\ u # 0 => passed'[0] = passed[0]
      /\ chunk' = chunk
  BY SegmentRow
<1>4. PICK next : next = Moved(row, steps)
  OBVIOUS
<1>5. /\ row.passed = passed[u] /\ row.calls = calls[u] /\ row.turn = turn[u] /\ row.seg = seg[u]
      /\ next.calls = row.calls \o Made(row, steps)
      /\ next.passed = IF PointOf(row) THEN row.passed + 1 ELSE row.passed
  BY <1>1, <1>4 DEF Row, Moved
<1>6. next.passed = passed'[u] /\ next.calls = calls'[u]
  BY <1>2, <1>4 DEF Row
<1>7. /\ passed[0] \in Nat /\ passed[u] \in Nat /\ passed'[u] \in Nat /\ calls[u] \in Seq(Calls)
      /\ calls'[u] \in Seq(Calls) /\ points \in Seq(Nat) /\ Len(points) \in Nat
  <2>1. /\ passed[0] \in Nat /\ passed[u] \in Nat /\ calls[u] \in Seq(Calls) /\ points \in Seq(Nat)
    BY DEF BatonTypes, Ranks
  <2>2. passed'[u] \in Nat /\ calls'[u] \in Seq(Calls)
    BY DEF BatonTypes
  <2> QED
    BY <2>1, <2>2, LenProperties
<1>8. Made(row, steps) \in Seq(Calls)
  <2>1. turn[u] \in Halves /\ seg[u][turn[u]] \in Nat
    BY OverlapAssumption DEF BatonTypes
  <2> QED
    BY <1>5, <2>1, CallTypes DEF Made
<1>9. /\ Len(points) = passed[0]
      /\ \E last \in Nat : \E plan : /\ Planned(last, plan)
                                     /\ \A r \in Ranks : \E t \in 0..last : Row(r) = plan[t]
  BY DEF Shared
<1>10. PICK last \in Nat : \E plan : /\ Planned(last, plan)
                                     /\ \A r \in Ranks : \E t \in 0..last : Row(r) = plan[t]
  BY <1>9
<1>11. PICK plan : /\ Planned(last, plan)
                   /\ \A r \in Ranks : \E t \in 0..last : Row(r) = plan[t]
  BY <1>10
<1>12. PICK at \in 0..last : row = plan[at]
  BY <1>1, <1>11
<1>13. /\ \A t \in 0..last : plan[t].calls \in Seq(Calls) /\ plan[t].passed \in Nat
       /\ \A t \in 0..(last - 1) : /\ PointOf(plan[t]) => plan[t].passed < Len(points)
                                   /\ plan[t + 1] = Moved(plan[t], Told(plan[t]))
       /\ \A t, w \in 0..last : t <= w => Prefix(plan[t].calls, plan[w].calls)
  BY <1>11 DEF Planned
<1>14. /\ Len(points)' = passed'[0]
       /\ Len(points)' >= Len(points)
       /\ \A i \in 1..Len(points) : points'[i] = points[i]
  <2>1. CASE points' = points
    <3>1. passed'[0] = passed[0]
      <4>1. CASE u = 0
        <5>1. ~PointOf(row)
          <6>1. ASSUME PointOf(row) PROVE FALSE
            <7>1. points = Append(points, steps)
              BY <1>2, <2>1, <4>1, <6>1
            <7>2. Len(points) = Len(points) + 1
              BY <1>7, <7>1, AppendProperties
            <7> QED
              BY <1>7, <7>2
          <6> QED
            BY <6>1
        <5> QED
          BY <1>5, <1>6, <4>1, <5>1
      <4> QED
        BY <1>3, <4>1
    <3> QED
      BY <1>7, <1>9, <2>1, <3>1
  <2>2. CASE points' # points
    <3>1. PointOf(row) /\ u = 0 /\ points' = Append(points, steps)
      BY <1>2, <2>2
    <3>2. /\ Len(Append(points, steps)) = Len(points) + 1
          /\ \A i \in 1..Len(points) : Append(points, steps)[i] = points[i]
      BY <1>7, AppendProperties
    <3>3. passed'[0] = passed[0] + 1
      BY <1>5, <1>6, <3>1
    <3> QED
      BY <1>7, <1>9, <3>1, <3>2, <3>3
  <2> QED
    BY <2>1, <2>2
<1>15. ASSUME NEW t \in 0..(last - 1)
       PROVE  /\ PointOf(plan[t])' => plan[t].passed < Len(points)'
              /\ plan[t + 1] = Moved(plan[t], Told(plan[t]))'
  <2>1. PICK p : p = plan[t]
    OBVIOUS
  <2>2. p.passed \in Nat /\ (PointOf(p) => p.passed < Len(points)) /\ plan[t + 1] = Moved(p, Told(p))
    BY <1>13, <2>1
  <2>3. (PointOf(p)' <=> PointOf(p)) /\ (PointOf(p) => p.passed < Len(points)')
    <3>1. PointOf(p)' <=> PointOf(p)
      BY <1>3, ChunkOnly
    <3>2. Len(points)' \in Nat
      BY <1>14, <1>7 DEF BatonTypes, Ranks
    <3> QED
      BY <1>7, <1>14, <2>2, <3>1, <3>2
  <2>4. Told(p)' = Told(p)
    <3>1. CASE PointOf(p)
      <4>1. p.passed + 1 \in 1..Len(points)
        BY <1>7, <2>2, <3>1
      <4> QED
        BY <1>14, <2>3, <3>1, <4>1 DEF Told
    <3>2. CASE ~PointOf(p)
      BY <2>3, <3>2 DEF Told
    <3> QED
      BY <3>1, <3>2
  <2>5. PICK told : told = Told(p)
    OBVIOUS
  <2>6. Moved(p, told)' = Moved(p, told)
    BY <1>3, ChunkOnly
  <2>7. Moved(p, Told(p))' = Moved(p, told)'
    BY <2>4, <2>5 DEF Moved, Made
  <2> QED
    BY <2>1, <2>2, <2>3, <2>5, <2>6, <2>7
<1>16. CASE at < last
  <2>1. at \in 0..(last - 1)
    BY <1>12, <1>16
  <2>2. steps = Told(row)
    <3>1. CASE PointOf(row) /\ u = 0
      <4>1. row.passed < Len(points)
        BY <1>12, <1>13, <2>1, <3>1
      <4> QED
        BY <1>5, <1>7, <1>9, <3>1, <4>1
    <3> QED
      BY <1>2, <3>1
  <2>3. Row(u)' = plan[at + 1] /\ at + 1 \in 0..last
    BY <1>2, <1>12, <1>13, <2>1, <2>2
  <2>4. \A r \in Ranks : \E t \in 0..last : Row(r)' = plan[t]
    BY <1>3, <1>11, <2>3
  <2>5. Planned(last, plan)'
    BY <1>13, <1>15 DEF Planned
  <2> QED
    BY <1>14, <2>4, <2>5 DEF Shared
<1>17. CASE at = last
  <2>1. PICK more : more = [t \in 0..(last + 1) |-> IF t <= last THEN plan[t] ELSE next]
    OBVIOUS
  <2>2. /\ \A t \in 0..last : t \in 0..(last + 1) /\ more[t] = plan[t]
        /\ last + 1 \in 0..(last + 1) /\ more[last + 1] = next
        /\ \A t \in 0..(last + 1) : t \in 0..last \/ t = last + 1
    BY <2>1
  <2>3. \A t \in 0..(last + 1) : more[t].calls \in Seq(Calls) /\ more[t].passed \in Nat
    BY <1>6, <1>7, <1>13, <2>2
  <2>4. ASSUME NEW t \in 0..(last + 1 - 1)
        PROVE  /\ PointOf(more[t])' => more[t].passed < Len(points)'
               /\ more[t + 1] = Moved(more[t], Told(more[t]))'
    <3>1. PICK p : p = more[t]
      OBVIOUS
    <3>2. CASE t \in 0..(last - 1)
      <4>1. p = plan[t] /\ more[t + 1] = plan[t + 1]
        BY <2>2, <3>1, <3>2
      <4> QED
        BY <1>15, <3>1, <3>2, <4>1
    <3>3. CASE t = last
      <4>1. p = row /\ more[t + 1] = next
        BY <1>12, <1>17, <2>2, <3>1, <3>3
      <4>2. PointOf(row)' <=> PointOf(row)
        BY <1>3, ChunkOnly
      <4>3. PointOf(row) => row.passed < Len(points)' /\ points'[row.passed + 1] = steps
        <5>1. CASE PointOf(row) /\ u = 0
          <6>1. points' = Append(points, steps) /\ row.passed = Len(points)
            BY <1>2, <1>5, <1>9, <5>1
          <6>2. Len(Append(points, steps)) = Len(points) + 1 /\ Append(points, steps)[Len(points) + 1] = steps
            BY <1>7, AppendProperties
          <6> QED
            BY <1>7, <6>1, <6>2
        <5>2. CASE PointOf(row) /\ u # 0
          <6>1. u = 1
            BY <5>2 DEF Ranks
          <6> QED
            BY <1>2, <1>5, <5>2, <6>1 DEF Told
        <5> QED
          BY <5>1, <5>2
      <4>4. Told(row)' = steps
        BY <1>2, <4>2, <4>3 DEF Told
      <4>5. Moved(row, steps)' = Moved(row, steps)
        BY <1>3, ChunkOnly
      <4>6. Moved(row, Told(row))' = Moved(row, steps)'
        BY <4>4 DEF Moved, Made
      <4> QED
        BY <1>4, <3>1, <4>1, <4>2, <4>3, <4>5, <4>6
    <3> QED
      BY <3>2, <3>3
  <2>5. ASSUME NEW t \in 0..(last + 1), NEW w \in 0..(last + 1), t <= w
        PROVE  Prefix(more[t].calls, more[w].calls)
    <3>1. CASE w \in 0..last
      <4>1. t \in 0..last
        BY <2>5, <3>1
      <4> QED
        BY <1>13, <2>2, <2>5, <3>1, <4>1
    <3>2. CASE w = last + 1 /\ t \in 0..last
      <4>1. Prefix(plan[t].calls, row.calls)
        BY <1>12, <1>13, <1>17, <3>2
      <4>2. Prefix(plan[t].calls, next.calls)
        BY <1>5, <1>7, <1>8, <1>13, <3>2, <4>1, PrefixConcat
      <4> QED
        BY <2>2, <3>2, <4>2
    <3>3. CASE w = last + 1 /\ t = last + 1
      <4>1. Len(next.calls) \in Nat
        BY <1>6, <1>7, LenProperties
      <4> QED
        BY <2>2, <3>3, <4>1 DEF Prefix
    <3> QED
      BY <2>2, <3>1, <3>2, <3>3
  <2>6. Planned(last + 1, more)'
    <3>1. PICK n : n = last + 1
      OBVIOUS
    <3>2. \A t \in 0..(n - 1) : /\ PointOf(more[t])' => more[t].passed < Len(points)'
                                /\ more[t + 1] = Moved(more[t], Told(more[t]))'
      BY <2>4, <3>1
    <3>3. \A t \in 0..n : more[t].calls \in Seq(Calls) /\ more[t].passed \in Nat
      BY <2>3, <3>1
    <3>4. \A t, w \in 0..n : t <= w => Prefix(more[t].calls, more[w].calls)
      BY <2>5, <3>1
    <3>5. Planned(n, more)'
      BY <3>2, <3>3, <3>4 DEF Planned
    <3> QED
      BY <3>1, <3>5
  <2>7. \A r \in Ranks : \E t \in 0..(last + 1) : Row(r)' = more[t]
    BY <1>2, <1>3, <1>4, <1>11, <2>2
  <2>8. last + 1 \in Nat
    OBVIOUS
  <2> QED
    BY <1>14, <2>6, <2>7, <2>8 DEF Shared
<1> QED
  BY <1>12, <1>16, <1>17

LEMMA SharedInit == OverlapInit => Shared
<1> SUFFICES ASSUME OverlapInit PROVE Shared
  OBVIOUS
<1>1. /\ points = <<>> /\ Row(0) = Row(1) /\ calls[0] = <<>> /\ passed[0] = 0
  BY DEF OverlapInit, Row, Ranks
<1>2. PICK row : row = Row(0)
  OBVIOUS
<1>3. row.calls = <<>> /\ row.passed = 0 /\ \A r \in Ranks : Row(r) = row
  BY <1>1, <1>2 DEF Row, Ranks
<1>4. PICK plan : plan = [t \in {0} |-> row]
  OBVIOUS
<1>5. plan[0] = row /\ 0..0 = {0} /\ 0..(0 - 1) = {} /\ Len(<<>>) = 0 /\ <<>> \in Seq(Calls) /\ 1..0 = {}
  BY <1>4
<1>6. Planned(0, plan)
  <2>1. PICK n : n = 0
    OBVIOUS
  <2>2. /\ \A t \in 0..n : t = 0
        /\ \A t \in 0..(n - 1) : FALSE
    BY <2>1
  <2>3. Prefix(plan[0].calls, plan[0].calls) /\ plan[0].calls \in Seq(Calls) /\ plan[0].passed \in Nat
    <3>1. Prefix(<<>>, <<>>)
      BY <1>5 DEF Prefix
    <3>2. plan[0].calls = <<>> /\ plan[0].passed = 0 /\ <<>> \in Seq(Calls)
      BY <1>3, <1>5
    <3>3. Prefix(plan[0].calls, plan[0].calls)
      BY ONLY <3>1, <3>2
    <3> QED
      BY <3>2, <3>3
  <2>4. Planned(n, plan)
    BY <2>2, <2>3 DEF Planned
  <2> QED
    BY <2>1, <2>4
<1>7. \A r \in Ranks : \E t \in 0..0 : Row(r) = plan[t]
  BY <1>3, <1>5
<1>8. Len(points) = passed[0]
  BY <1>1, <1>5
<1> QED
  BY <1>6, <1>7, <1>8 DEF Shared

LEMMA SharedHolds == OverlapSpec => [](BatonTypes /\ Shared)
<1>1. (BatonTypes /\ Shared) /\ [OverlapNext]_<<overlapVars, vars>> => (BatonTypes /\ Shared)'
  <2> SUFFICES ASSUME BatonTypes, Shared, [OverlapNext]_<<overlapVars, vars>>
               PROVE  Shared'
    BY TypesStep
  <2>1. BatonTypes'
    BY TypesStep
  <2>2. CASE \E u \in Ranks : Python(u)
    BY <2>1, <2>2, SharedStep DEF Python
  <2>3. CASE UNCHANGED <<chunk, turn, alive, seg, points, passed, calls>>
    <3>1. PICK last \in Nat : \E plan : /\ Planned(last, plan)
                                        /\ \A r \in Ranks : \E t \in 0..last : Row(r) = plan[t]
      BY DEF Shared
    <3>2. PICK plan : /\ Planned(last, plan)
                      /\ \A r \in Ranks : \E t \in 0..last : Row(r) = plan[t]
      BY <3>1
    <3>3. \A r \in Ranks : Row(r)' = Row(r)
      BY <2>3 DEF Row
    <3>4. \A row : (PointOf(row)' <=> PointOf(row)) /\ Moved(row, Told(row))' = Moved(row, Told(row))
      BY <2>3 DEF PointOf, Moved, Told, EndOf, Made
    <3>5. Planned(last, plan)'
      BY <2>3, <3>2, <3>4 DEF Planned
    <3>6. Len(points)' = passed'[0]
      BY <2>3 DEF Shared
    <3> QED
      BY <3>2, <3>3, <3>5, <3>6 DEF Shared
  <2>4. ComputeStep \/ (\E r \in Ranks : Compute(r) \/ Comm(r)) \/ UNCHANGED <<overlapVars, vars>>
          => UNCHANGED <<chunk, turn, alive, seg, points, passed, calls>>
    BY DEF ComputeStep, Compute, Comm, Begin, Reduce, overlapVars, baton
  <2> QED
    BY <2>2, <2>3, <2>4 DEF OverlapNext
<1> QED
  BY <1>1, InitTypes, SharedInit, PTL DEF OverlapSpec

(* Both ranks issue their collectives in one order, and a step finds the   *)
(* comm stream of its rank idle, every round it was given behind it.       *)
THEOREM OverlapCollectivesInOrder == OverlapSpec => []CollectivesInOrder
<1>1. BatonTypes /\ Shared /\ OrderedInv => CollectivesInOrder
  <2> SUFFICES ASSUME BatonTypes, Shared, OrderedInv PROVE CollectivesInOrder
    OBVIOUS
  <2>1. PICK last \in Nat : \E plan : /\ Planned(last, plan)
                                      /\ \A r \in Ranks : \E t \in 0..last : Row(r) = plan[t]
    BY DEF Shared
  <2>2. PICK plan : /\ Planned(last, plan)
                    /\ \A r \in Ranks : \E t \in 0..last : Row(r) = plan[t]
    BY <2>1
  <2>3. PICK t \in 0..last : Row(0) = plan[t]
    BY <2>2 DEF Ranks
  <2>4. PICK w \in 0..last : Row(1) = plan[w]
    BY <2>2 DEF Ranks
  <2>5. plan[t].calls = calls[0] /\ plan[w].calls = calls[1]
    BY <2>3, <2>4 DEF Row
  <2>6. Prefix(calls[0], calls[1]) \/ Prefix(calls[1], calls[0])
    <3>1. t <= w \/ w <= t
      BY <2>3, <2>4
    <3> QED
      BY <2>2, <2>5, <3>1 DEF Planned
  <2>7. Len(calls[0]) \in Nat /\ Len(calls[1]) \in Nat
    BY LenProperties DEF BatonTypes, Ranks
  <2>8. \A n \in 1..Len(calls[0]) : n <= Len(calls[1]) => calls[0][n] = calls[1][n]
    BY <2>6, <2>7 DEF Prefix
  <2> QED
    BY <2>8, StepsFindIdle DEF CollectivesInOrder
<1> QED
  BY <1>1, SharedHolds, OrderedHolds, PTL
=============================================================================
