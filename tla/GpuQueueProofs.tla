--------------------------- MODULE GpuQueueProofs ---------------------------
(***************************************************************************)
(* For any set of connections, any jobs and any bounds: a queued job that  *)
(* is next for the GPU overtakes no step, every request that waits for its *)
(* answer is in exactly one place, and the two ranks are never in          *)
(* different forwards.                                                     *)
(***************************************************************************)
EXTENDS GpuQueue, FiniteSetTheorems, FunctionTheorems, SequenceTheorems, TLAPS

(* StepsFirst alone is not inductive: the loop's place must be the only    *)
(* one from which step_cv is held, or Enter could run behind its back.     *)
StepsInv ==
  /\ pc \in [Conns -> ConnPc]
  /\ StepsFirst
  /\ cv = Loop => lpc = "lock"

LEMMA RegisteredFinite == IsFiniteSet(Registered)
<1>1. Registered \in SUBSET Conns
  BY DEF Registered
<1> QED
  BY <1>1, QueueAssumption, FS_Subset

(* Steps that leave the connections' places and the counter alone: what    *)
(* remains to show is the loop's side.                                     *)
LEMMA ConnsStill ==
  ASSUME StepsInv, UNCHANGED <<pc, waiters>>,
         lpc' = "lock" => cv' = Loop /\ Registered = {},
         cv' = Loop => lpc' = "lock"
  PROVE  StepsInv'
<1>1. Registered' = Registered
  BY DEF Registered
<1> QED
  BY <1>1 DEF StepsInv, StepsFirst

(* ... and the steps of one connection that do not register or unregister. *)
LEMMA OneMoves ==
  ASSUME StepsInv, NEW t \in Conns, NEW l \in ConnPc, pc' = [pc EXCEPT ![t] = l],
         l \in {"lock", "leave"} <=> pc[t] \in {"lock", "leave"},
         UNCHANGED <<waiters, cv, lpc>>
  PROVE  StepsInv'
<1>1. pc \in [Conns -> ConnPc]
  BY DEF StepsInv
<1>2. \A u \in Conns : pc'[u] = IF u = t THEN l ELSE pc[u]
  BY <1>1
<1>3. Registered' = Registered
  BY <1>2 DEF Registered
<1>4. pc' \in [Conns -> ConnPc]
  BY <1>1
<1> QED
  BY <1>3, <1>4 DEF StepsInv, StepsFirst

LEMMA EnterStep ==
  ASSUME StepsInv, NEW t \in Conns, Enter(t)
  PROVE  StepsInv'
<1>1. /\ pc[t] = "enter" /\ pc' = [pc EXCEPT ![t] = "lock"]
      /\ cv = None /\ waiters' = waiters + 1 /\ cv' = cv /\ lpc' = lpc
  BY DEF Enter, Goto, loop
<1>2. pc \in [Conns -> ConnPc] /\ waiters = Cardinality(Registered)
  BY DEF StepsInv, StepsFirst
<1>3. \A u \in Conns : pc'[u] = IF u = t THEN "lock" ELSE pc[u]
  BY <1>1, <1>2
<1>4. Registered' = Registered \cup {t} /\ t \notin Registered
  BY <1>1, <1>3 DEF Registered
<1>5. Cardinality(Registered') = Cardinality(Registered) + 1
  BY <1>4, RegisteredFinite, FS_AddElement
<1>6. lpc # "lock" /\ cv # Loop
  BY <1>1, QueueAssumption DEF StepsInv, StepsFirst
<1>7. pc' \in [Conns -> ConnPc]
  BY <1>1, <1>2 DEF ConnPc
<1> QED
  BY <1>1, <1>2, <1>5, <1>6, <1>7 DEF StepsInv, StepsFirst

LEMMA LeaveStep ==
  ASSUME StepsInv, NEW t \in Conns, LeaveCv(t)
  PROVE  StepsInv'
<1>1. /\ pc[t] = "leave" /\ pc' = [pc EXCEPT ![t] = "send"]
      /\ cv = None /\ waiters' = waiters - 1 /\ cv' = cv
      /\ lpc' = IF lpc = "sleep" THEN "cv" ELSE lpc
  BY DEF LeaveCv, Goto
<1>2. pc \in [Conns -> ConnPc] /\ waiters = Cardinality(Registered)
  BY DEF StepsInv, StepsFirst
<1>3. \A u \in Conns : pc'[u] = IF u = t THEN "send" ELSE pc[u]
  BY <1>1, <1>2
<1>4. Registered' = Registered \ {t} /\ t \in Registered
  BY <1>1, <1>3 DEF Registered
<1>5. Cardinality(Registered') = Cardinality(Registered) - 1
  BY <1>4, RegisteredFinite, FS_RemoveElement
<1>6. lpc # "lock" /\ cv # Loop
  BY <1>1, QueueAssumption DEF StepsInv, StepsFirst
<1>7. pc' \in [Conns -> ConnPc]
  BY <1>1, <1>2 DEF ConnPc
<1> QED
  BY <1>1, <1>2, <1>5, <1>6, <1>7 DEF StepsInv, StepsFirst

LEMMA ConnStepsKeep ==
  ASSUME StepsInv, NEW t \in Conns, Request(t) \/ ConnStep(t)
  PROVE  StepsInv'
<1>1. CASE Request(t)
  <2>1. PICK l \in {"wait", "park", "enter"} : pc' = [pc EXCEPT ![t] = l]
    BY <1>1 DEF Request, Goto
  <2>2. pc[t] = "idle" /\ UNCHANGED <<waiters, cv, lpc>>
    BY <1>1 DEF Request, loop, locks
  <2> QED
    BY <2>1, <2>2, OneMoves DEF ConnPc
<1>2. CASE Park(t)
  <2>1. PICK l \in {"wait", "enter"} : pc' = [pc EXCEPT ![t] = l]
    BY <1>2 DEF Park, Goto
  <2>2. pc[t] = "park" /\ UNCHANGED <<waiters, cv, lpc>>
    BY <1>2 DEF Park, loop, locks
  <2> QED
    BY <2>1, <2>2, OneMoves DEF ConnPc
<1>3. CASE Enter(t)
  BY <1>3, EnterStep
<1>4. CASE LockGpu(t)
  <2>1. /\ pc[t] = "lock" /\ pc' = [pc EXCEPT ![t] = "leave"]
        /\ UNCHANGED <<waiters, cv, lpc>>
    BY <1>4 DEF LockGpu, Goto, loop
  <2> QED
    BY <2>1, OneMoves DEF ConnPc
<1>5. CASE LeaveCv(t)
  BY <1>5, LeaveStep
<1>6. CASE SendStep(t)
  <2>1. /\ pc[t] = "send" /\ pc' = [pc EXCEPT ![t] = "run"]
        /\ UNCHANGED <<waiters, cv, lpc>>
    BY <1>6 DEF SendStep, Goto, loop, locks
  <2> QED
    BY <2>1, OneMoves DEF ConnPc
<1>7. CASE EndStep(t)
  <2>1. /\ pc[t] = "run" /\ pc' = [pc EXCEPT ![t] = "wait"]
        /\ UNCHANGED <<waiters, cv, lpc>>
    BY <1>7 DEF EndStep, Goto, loop
  <2> QED
    BY <2>1, OneMoves DEF ConnPc
<1>8. CASE Answer(t)
  <2>1. /\ pc[t] = "wait" /\ pc' = [pc EXCEPT ![t] = "idle"]
        /\ UNCHANGED <<waiters, cv, lpc>>
    BY <1>8 DEF Answer, Goto, loop, locks
  <2> QED
    BY <2>1, OneMoves DEF ConnPc
<1> QED
  BY <1>1, <1>2, <1>3, <1>4, <1>5, <1>6, <1>7, <1>8 DEF ConnStep

(* The loop reaches "lock" only through TakeCv, which has just seen        *)
(* step_waiters at zero with step_cv in its hands, and keeps it.           *)
LEMMA LoopStepsKeep ==
  ASSUME StepsInv, LoopStep
  PROVE  StepsInv'
<1>1. CASE TakeCv
  <2>1. /\ lpc = "cv" /\ cv = None /\ UNCHANGED <<pc, waiters>>
        /\ IF waiters > 0 THEN lpc' = "sleep" /\ cv' = cv ELSE lpc' = "lock" /\ cv' = Loop
    BY <1>1 DEF TakeCv, conn
  <2>2. waiters = Cardinality(Registered) /\ Cardinality(Registered) \in Nat
    BY RegisteredFinite, FS_CardinalityType DEF StepsInv, StepsFirst
  <2>3. ~(waiters > 0) => Registered = {}
    BY <2>2, RegisteredFinite, FS_EmptySet
  <2>4. None # Loop
    BY QueueAssumption
  <2> QED
    BY <2>1, <2>3, <2>4, ConnsStill
<1>2. CASE LoopLock
  <2>1. UNCHANGED <<pc, waiters>> /\ cv' = None /\ lpc' # "lock"
    BY <1>2 DEF LoopLock, conn
  <2> QED
    BY <2>1, QueueAssumption, ConnsStill
<1>3. ASSUME UNCHANGED <<pc, waiters, cv>>, lpc # "lock", lpc' # "lock" PROVE StepsInv'
  BY <1>3, ConnsStill DEF StepsInv
<1>4. CASE Get \/ Open \/ SendJob
  <2>1. UNCHANGED <<pc, waiters, cv>> /\ lpc # "lock" /\ lpc' # "lock"
    BY <1>4 DEF Get, Open, SendJob, conn, locks
  <2> QED
    BY <2>1, <1>3
<1>5. CASE TakePoint \/ RunInline \/ EndInline \/ Layer
  <2>1. UNCHANGED <<pc, waiters, cv>> /\ lpc # "lock" /\ lpc' # "lock"
    BY <1>5 DEF TakePoint, RunInline, EndInline, Layer, conn, locks
  <2> QED
    BY <2>1, <1>3
<1>6. CASE EndJob \/ Close \/ SendLeft \/ EndLeft \/ Release
  <2>1. UNCHANGED <<pc, waiters, cv>> /\ lpc # "lock" /\ lpc' # "lock"
    BY <1>6 DEF EndJob, Close, SendLeft, EndLeft, Release, conn, locks
  <2> QED
    BY <2>1, <1>3
<1> QED
  BY <1>1, <1>2, <1>4, <1>5, <1>6 DEF LoopStep

LEMMA StepsInvStep == StepsInv /\ [Next]_vars => StepsInv'
<1> SUFFICES ASSUME StepsInv, [Next]_vars PROVE StepsInv'
  OBVIOUS
<1>1. CASE \E t \in Conns : Request(t) \/ ConnStep(t)
  BY <1>1, ConnStepsKeep
<1>2. CASE LoopStep
  BY <1>2, LoopStepsKeep
<1>3. CASE Rank1Step \/ Join \/ AllAnswered \/ UNCHANGED vars
  <2>1. UNCHANGED <<pc, waiters, cv, lpc>>
    BY <1>3 DEF Rank1Step, Recv1, Point1, Run1, Join, AllAnswered, vars, conn, loop, locks
  <2> QED
    BY <2>1, ConnsStill DEF StepsInv, StepsFirst
<1> QED
  BY <1>1, <1>2, <1>3 DEF Next

(* A STEP on its connection's thread goes before any queued job, and the   *)
(* two locks of run_now and gpu_loop are never held crosswise.             *)
THEOREM QueueStepsFirst == Spec => []StepsFirst
<1>1. Init => StepsInv
  <2> SUFFICES ASSUME Init PROVE StepsInv
    OBVIOUS
  <2>1. pc = [t \in Conns |-> "idle"] /\ waiters = 0 /\ lpc = "get" /\ cv = None
    BY DEF Init
  <2>2. Registered = {}
    BY <2>1 DEF Registered
  <2>3. Cardinality(Registered) = 0
    BY <2>2, FS_EmptySet
  <2> QED
    BY <2>1, <2>3, QueueAssumption DEF StepsInv, StepsFirst, ConnPc
<1>2. StepsInv => StepsFirst
  BY DEF StepsInv
<1> QED
  BY <1>1, <1>2, StepsInvStep, PTL DEF Spec

-----------------------------------------------------------------------------
(* No request is lost or run twice.                                        *)

(* How often a connection stands in a sequence: the places of NoJobLost    *)
(* change by Append, Tail and RemoveAt only.                               *)
At(s, t) == {i \in 1..Len(s) : s[i] = t}

LEMMA AtFinite ==
  ASSUME NEW s \in Seq(Conns), NEW t
  PROVE  IsFiniteSet(At(s, t)) /\ Occurs(s, t) = Cardinality(At(s, t)) /\ Occurs(s, t) \in Nat
<1>1. Len(s) \in Nat /\ IsFiniteSet(1..Len(s))
  BY LenProperties, FS_Interval
<1>2. At(s, t) \in SUBSET (1..Len(s))
  BY DEF At
<1>3. IsFiniteSet(At(s, t))
  BY <1>1, <1>2, FS_Subset
<1> QED
  BY <1>3, FS_CardinalityType DEF Occurs, At

LEMMA OccursZero ==
  ASSUME NEW s \in Seq(Conns), NEW t
  PROVE  Occurs(s, t) = 0 <=> t \notin ToSet(s)
<1>1. Occurs(s, t) = 0 <=> At(s, t) = {}
  BY AtFinite, FS_EmptySet
<1>2. DOMAIN s = 1..Len(s)
  BY LenProperties
<1>3. At(s, t) = {} <=> t \notin ToSet(s)
  BY <1>2 DEF At, ToSet
<1> QED
  BY <1>1, <1>3

LEMMA OccursEmpty == \A t : Occurs(<<>>, t) = 0
<1> TAKE t
<1>1. <<>> \in Seq(Conns) /\ ToSet(<<>>) = {}
  BY DEF ToSet
<1> QED
  BY <1>1, OccursZero

LEMMA OccursAppend ==
  ASSUME NEW s \in Seq(Conns), NEW c \in Conns
  PROVE  /\ Append(s, c) \in Seq(Conns)
         /\ \A t : Occurs(Append(s, c), t) = Occurs(s, t) + (IF c = t THEN 1 ELSE 0)
<1> DEFINE u == Append(s, c)
<1>1. /\ Len(s) \in Nat /\ u \in Seq(Conns) /\ Len(u) = Len(s) + 1
      /\ \A i \in 1..Len(s) : u[i] = s[i]
      /\ u[Len(s) + 1] = c
  BY AppendProperties, LenProperties
<1> HIDE DEF u
<1>2. ASSUME NEW t PROVE Occurs(u, t) = Occurs(s, t) + (IF c = t THEN 1 ELSE 0)
  <2>1. CASE c = t
    <3>1. At(u, t) = At(s, t) \cup {Len(s) + 1} /\ Len(s) + 1 \notin At(s, t)
      BY <1>1, <2>1 DEF At
    <3> QED
      BY <2>1, <3>1, <1>1, AtFinite, FS_AddElement
  <2>2. CASE c # t
    <3>1. At(u, t) = At(s, t)
      BY <1>1, <2>2 DEF At
    <3> QED
      BY <2>2, <3>1, <1>1, AtFinite
  <2> QED
    BY <2>1, <2>2
<1> QED
  BY <1>1, <1>2 DEF u

(* A sequence without its k-th element.                                    *)
LEMMA OccursWithout ==
  ASSUME NEW s \in Seq(Conns), NEW u \in Seq(Conns), NEW k \in 1..Len(s),
         Len(u) = Len(s) - 1,
         \A j \in 1..Len(u) : u[j] = IF j < k THEN s[j] ELSE s[j + 1]
  PROVE  \A t : Occurs(s, t) = Occurs(u, t) + (IF s[k] = t THEN 1 ELSE 0)
<1> TAKE t
<1> DEFINE f == [j \in At(u, t) |-> IF j < k THEN j ELSE j + 1]
           T == At(s, t) \ {k}
<1>1. Len(s) \in Nat /\ k \in Nat
  BY LenProperties
<1>2. \A j \in At(u, t) : f[j] \in T
  BY <1>1 DEF At
<1>3. \A i, j \in At(u, t) : f[i] = f[j] => i = j
  BY <1>1 DEF At
<1>4. \A n \in T : \E j \in At(u, t) : f[j] = n
  <2> TAKE n \in T
  <2>1. CASE n < k
    BY <1>1, <2>1 DEF At
  <2>2. CASE n > k
    <3>1. n - 1 \in At(u, t) /\ f[n - 1] = n
      BY <1>1, <2>2 DEF At
    <3> QED
      BY <3>1
  <2>3. n \in Nat /\ n # k
    BY <1>1 DEF At
  <2> HIDE DEF f, T
  <2> QED
    BY <1>1, <2>1, <2>2, <2>3
<1>5. f \in [At(u, t) -> T]
  BY <1>2
<1>6. f \in Bijection(At(u, t), T)
  BY <1>3, <1>4, <1>5, Fun_IsBij
<1>7. Cardinality(T) = Cardinality(At(u, t))
  BY <1>6, AtFinite, FS_Bijection DEF ExistsBijection
<1>8. Cardinality(T) = IF k \in At(s, t) THEN Cardinality(At(s, t)) - 1 ELSE Cardinality(At(s, t))
  BY AtFinite, FS_RemoveElement
<1>9. k \in At(s, t) <=> s[k] = t
  BY DEF At
<1>10. /\ Occurs(s, t) = Cardinality(At(s, t)) /\ Occurs(s, t) \in Nat
       /\ Occurs(u, t) = Cardinality(At(u, t)) /\ Occurs(u, t) \in Nat
  BY AtFinite
<1> HIDE DEF f, T
<1>11. CASE s[k] = t
  <2>1. Occurs(u, t) = Occurs(s, t) - 1
    BY <1>7, <1>8, <1>9, <1>10, <1>11
  <2> QED
    BY <1>10, <1>11, <2>1
<1>12. CASE s[k] # t
  <2>1. Occurs(u, t) = Occurs(s, t)
    BY <1>7, <1>8, <1>9, <1>10, <1>12
  <2> QED
    BY <1>10, <1>12, <2>1
<1> QED
  BY <1>11, <1>12

LEMMA OccursTail ==
  ASSUME NEW s \in Seq(Conns), s # <<>>
  PROVE  /\ Tail(s) \in Seq(Conns) /\ s[1] \in Conns
         /\ \A t : Occurs(s, t) = Occurs(Tail(s), t) + (IF s[1] = t THEN 1 ELSE 0)
<1>1. /\ Tail(s) \in Seq(Conns) /\ Len(Tail(s)) = Len(s) - 1
      /\ \A i \in 1..Len(Tail(s)) : Tail(s)[i] = s[i + 1]
      /\ Len(s) \in Nat \ {0}
  BY HeadTailProperties, LenProperties, EmptySeq
<1>2. 1 \in 1..Len(s)
  BY <1>1
<1>3. s[1] \in Conns
  BY <1>2, ElementOfSeq
<1>4. \A j \in 1..Len(Tail(s)) : Tail(s)[j] = IF j < 1 THEN s[j] ELSE s[j + 1]
  BY <1>1
<1> QED
  BY <1>1, <1>2, <1>3, <1>4, OccursWithout

LEMMA OccursRemoveAt ==
  ASSUME NEW s \in Seq(Conns), NEW k \in 1..Len(s)
  PROVE  /\ RemoveAt(s, k) \in Seq(Conns) /\ s[k] \in Conns
         /\ \A t : Occurs(s, t) = Occurs(RemoveAt(s, k), t) + (IF s[k] = t THEN 1 ELSE 0)
<1> DEFINE a == SubSeq(s, 1, k - 1)
           b == SubSeq(s, k + 1, Len(s))
           u == RemoveAt(s, k)
<1>1. Len(s) \in Nat /\ k \in Nat /\ s[k] \in Conns /\ \A i \in 1..Len(s) : s[i] \in Conns
  BY LenProperties, ElementOfSeq
<1>2. /\ a \in Seq(Conns) /\ Len(a) = k - 1 /\ \A i \in 1..(k - 1) : a[i] = s[i]
  BY <1>1, SubSeqProperties
<1>3. /\ b \in Seq(Conns) /\ Len(b) = Len(s) - k /\ \A i \in 1..(Len(s) - k) : b[i] = s[k + i]
  BY <1>1, SubSeqProperties
<1>4. u = a \o b
  BY DEF RemoveAt
<1> HIDE DEF a, b, u
<1>5. /\ u \in Seq(Conns) /\ Len(u) = Len(s) - 1
      /\ \A i \in 1..Len(u) : u[i] = IF i <= Len(a) THEN a[i] ELSE b[i - Len(a)]
  <2>1. /\ a \o b \in Seq(Conns) /\ Len(a \o b) = Len(a) + Len(b)
        /\ \A i \in 1..(Len(a) + Len(b)) : (a \o b)[i] = IF i <= Len(a) THEN a[i] ELSE b[i - Len(a)]
    BY <1>2, <1>3, ConcatProperties
  <2>2. Len(a) + Len(b) = Len(s) - 1
    BY <1>1, <1>2, <1>3
  <2> QED
    BY <1>4, <2>1, <2>2
<1>6. ASSUME NEW j \in 1..Len(u) PROVE u[j] = IF j < k THEN s[j] ELSE s[j + 1]
  <2>1. CASE j < k
    BY <1>1, <1>2, <1>5, <2>1
  <2>2. CASE ~(j < k)
    <3>1. u[j] = b[j - (k - 1)] /\ j - (k - 1) \in 1..(Len(s) - k) /\ k + (j - (k - 1)) = j + 1
      BY <1>1, <1>2, <1>5, <2>2
    <3>2. b[j - (k - 1)] = s[k + (j - (k - 1))]
      BY <1>3, <3>1
    <3> QED
      BY <2>2, <3>1, <3>2
  <2> QED
    BY <2>1, <2>2
<1>7. \A t : Occurs(s, t) = Occurs(u, t) + (IF s[k] = t THEN 1 ELSE 0)
  BY <1>5, <1>6, OccursWithout
<1> QED
  BY <1>1, <1>5, <1>7 DEF u

LoopPc == {"get", "cv", "sleep", "lock", "open", "send", "point", "inline", "join",
           "end", "close", "left", "leftRun", "release"}
Over == {"close", "left", "leftRun", "release"}

(* What NoJobLost needs beside itself: the loop holds a job outside "get"  *)
(* and steps only where it runs them, and a request that is not yet with   *)
(* the loop has no answer.                                                 *)
PlaceTypes ==
  /\ pc \in [Conns -> ConnPc] /\ done \in [Conns -> BOOLEAN]
  /\ jobs \in Seq(Conns) /\ pq \in Seq(Conns) /\ batch \in Seq(Conns)
  /\ lpc \in LoopPc /\ cur \in Conns \cup {None}

LoopHolds ==
  /\ lpc = "get" <=> cur = None
  /\ batch # <<>> => lpc \in {"inline", "join", "left", "leftRun"}
  /\ lpc \in {"join", "leftRun"} => batch # <<>>

Fresh == \A t \in Conns : pc[t] \notin {"idle", "wait"} => ~done[t]

PlaceInv == PlaceTypes /\ LoopHolds /\ Fresh /\ NoJobLost

LEMMA PlacesNat ==
  ASSUME PlaceTypes
  PROVE  \A t : Occurs(jobs, t) \in Nat /\ Occurs(pq, t) \in Nat /\ Occurs(batch, t) \in Nat
BY AtFinite DEF PlaceTypes

(* A request in any place waits for its answer, and is in no other.        *)
LEMMA Placed ==
  ASSUME PlaceInv, NEW t \in Conns
  PROVE  /\ t \in ToSet(jobs) \/ t \in ToSet(pq) \/ t \in ToSet(batch) \/ (cur = t /\ lpc \notin Over)
              => pc[t] = "wait" /\ ~done[t]
         /\ t \in ToSet(batch) => Occurs(batch, t) = 1 /\ Occurs(jobs, t) = 0 /\ Occurs(pq, t) = 0
                                  /\ ~(cur = t /\ lpc \notin Over)
         /\ cur = t /\ lpc \notin Over
              => Occurs(batch, t) = 0 /\ Occurs(jobs, t) = 0 /\ Occurs(pq, t) = 0
<1>1. Occurs(jobs, t) \in Nat /\ Occurs(pq, t) \in Nat /\ Occurs(batch, t) \in Nat
  BY PlacesNat DEF PlaceInv
<1>2. /\ Occurs(jobs, t) # 0 <=> t \in ToSet(jobs)
      /\ Occurs(pq, t) # 0 <=> t \in ToSet(pq)
      /\ Occurs(batch, t) # 0 <=> t \in ToSet(batch)
  BY OccursZero DEF PlaceInv, PlaceTypes
<1>3. Occurs(jobs, t) + Occurs(pq, t) + Occurs(batch, t) + (IF cur = t /\ lpc \notin Over THEN 1 ELSE 0)
        = (IF pc[t] = "wait" /\ ~done[t] THEN 1 ELSE 0)
  BY DEF PlaceInv, NoJobLost, Over
<1> QED
  BY <1>1, <1>2, <1>3

(* Steps that move no request.                                             *)
LEMMA PlacesStill ==
  ASSUME PlaceInv, UNCHANGED <<jobs, pq, batch, cur, pc, done>>,
         lpc' \in LoopPc, lpc' \in Over <=> lpc \in Over, lpc' = "get" <=> lpc = "get",
         batch # <<>> => lpc' \in {"inline", "join", "left", "leftRun"},
         lpc' \in {"join", "leftRun"} => batch # <<>>
  PROVE  PlaceInv'
<1>1. PlaceTypes' /\ LoopHolds' /\ Fresh'
  BY DEF PlaceInv, PlaceTypes, LoopHolds, Fresh
<1>2. NoJobLost'
  <2> SUFFICES ASSUME NEW t \in Conns
               PROVE  Occurs(jobs, t) + Occurs(pq, t) + Occurs(batch, t)
                        + (IF cur = t /\ lpc' \notin Over THEN 1 ELSE 0)
                        = (IF pc[t] = "wait" /\ ~done[t] THEN 1 ELSE 0)
    BY DEF NoJobLost, Occurs, Over
  <2> QED
    BY DEF PlaceInv, NoJobLost, Over
<1> QED
  BY <1>1, <1>2 DEF PlaceInv

(* ... and steps of one connection that is in no place before and after.   *)
LEMMA PlacesWalk ==
  ASSUME PlaceInv, NEW t \in Conns, NEW l \in ConnPc,
         UNCHANGED <<jobs, pq, batch, cur>>, lpc' = lpc \/ (lpc = "sleep" /\ lpc' = "cv"),
         pc' = [pc EXCEPT ![t] = l],
         done' = done \/ done' = [done EXCEPT ![t] = TRUE],
         pc[t] = "wait" => done[t], l = "wait" => done'[t],
         l \notin {"idle", "wait"} => pc[t] \notin {"idle", "wait"} /\ done' = done
  PROVE  PlaceInv'
<1>1. /\ \A u \in Conns : u # t => pc'[u] = pc[u] /\ done'[u] = done[u]
      /\ pc'[t] = l
      /\ pc' \in [Conns -> ConnPc] /\ done' \in [Conns -> BOOLEAN]
  BY DEF PlaceInv, PlaceTypes
<1>2. PlaceTypes' /\ LoopHolds' /\ (lpc \in Over <=> lpc' \in Over)
  BY <1>1 DEF PlaceInv, PlaceTypes, LoopHolds, LoopPc, Over
<1>3. Fresh'
  <2> SUFFICES ASSUME NEW u \in Conns, pc'[u] \notin {"idle", "wait"} PROVE ~done'[u]
    BY DEF Fresh
  <2>1. CASE u = t
    BY <1>1, <2>1 DEF PlaceInv, Fresh
  <2>2. CASE u # t
    BY <1>1, <2>2 DEF PlaceInv, Fresh
  <2> QED
    BY <2>1, <2>2
<1>4. NoJobLost'
  <2> SUFFICES ASSUME NEW u \in Conns
               PROVE  Occurs(jobs, u) + Occurs(pq, u) + Occurs(batch, u)
                        + (IF cur = u /\ lpc' \notin Over THEN 1 ELSE 0)
                        = (IF pc'[u] = "wait" /\ ~done'[u] THEN 1 ELSE 0)
    BY DEF NoJobLost, Occurs, Over
  <2>1. Occurs(jobs, u) + Occurs(pq, u) + Occurs(batch, u)
          + (IF cur = u /\ lpc' \notin Over THEN 1 ELSE 0)
          = (IF pc[u] = "wait" /\ ~done[u] THEN 1 ELSE 0)
    BY <1>2 DEF PlaceInv, NoJobLost, Over
  <2>2. pc'[u] = "wait" /\ ~done'[u] <=> pc[u] = "wait" /\ ~done[u]
    BY <1>1
  <2> QED
    BY <2>1, <2>2
<1> QED
  BY <1>2, <1>3, <1>4 DEF PlaceInv

LEMMA RequestPlaces ==
  ASSUME PlaceInv, NEW t \in Conns, Request(t)
  PROVE  PlaceInv'
<1>1. PICK l \in {"wait", "park", "enter"} :
        /\ pc' = [pc EXCEPT ![t] = l]
        /\ jobs' = IF l = "wait" THEN Append(jobs, t) ELSE jobs
  BY DEF Request, Goto
<1>2. /\ pc[t] = "idle" /\ done' = [done EXCEPT ![t] = FALSE]
      /\ UNCHANGED <<pq, batch, cur, lpc>>
  BY DEF Request, loop, park
<1>3. /\ \A u \in Conns : pc'[u] = (IF u = t THEN l ELSE pc[u])
                          /\ done'[u] = (IF u = t THEN FALSE ELSE done[u])
      /\ pc' \in [Conns -> ConnPc] /\ done' \in [Conns -> BOOLEAN]
  BY <1>1, <1>2 DEF PlaceInv, PlaceTypes, ConnPc
<1>4. /\ jobs' \in Seq(Conns)
      /\ \A u \in Conns : Occurs(jobs', u) = Occurs(jobs, u) + (IF u = t /\ l = "wait" THEN 1 ELSE 0)
  <2>1. \A u \in Conns : Occurs(jobs, u) \in Nat
    BY PlacesNat DEF PlaceInv
  <2>2. /\ Append(jobs, t) \in Seq(Conns)
        /\ \A u : Occurs(Append(jobs, t), u) = Occurs(jobs, u) + (IF t = u THEN 1 ELSE 0)
    BY OccursAppend DEF PlaceInv, PlaceTypes
  <2>3. CASE l = "wait"
    BY <1>1, <2>1, <2>2, <2>3
  <2>4. CASE l # "wait"
    BY <1>1, <2>1, <2>4 DEF PlaceInv, PlaceTypes
  <2> QED
    BY <2>3, <2>4
<1>5. PlaceTypes' /\ LoopHolds'
  BY <1>2, <1>3, <1>4 DEF PlaceInv, PlaceTypes, LoopHolds
<1>6. Fresh'
  BY <1>3 DEF PlaceInv, Fresh
<1>7. NoJobLost'
  <2> SUFFICES ASSUME NEW u \in Conns
               PROVE  Occurs(jobs', u) + Occurs(pq, u) + Occurs(batch, u)
                        + (IF cur = u /\ lpc \notin Over THEN 1 ELSE 0)
                        = (IF pc'[u] = "wait" /\ ~done'[u] THEN 1 ELSE 0)
    BY <1>2 DEF NoJobLost, Occurs, Over
  <2>1. Occurs(jobs, u) + Occurs(pq, u) + Occurs(batch, u)
          + (IF cur = u /\ lpc \notin Over THEN 1 ELSE 0)
          = (IF pc[u] = "wait" /\ ~done[u] THEN 1 ELSE 0)
    BY DEF PlaceInv, NoJobLost, Over
  <2>2. Occurs(jobs, u) \in Nat /\ Occurs(pq, u) \in Nat /\ Occurs(batch, u) \in Nat
    BY PlacesNat DEF PlaceInv
  <2>3. Occurs(jobs', u) = Occurs(jobs, u) + (IF u = t /\ l = "wait" THEN 1 ELSE 0)
    BY <1>4
  <2>4. CASE u = t
    BY <1>2, <1>3, <2>1, <2>2, <2>3, <2>4
  <2>5. CASE u # t
    <3>1. Occurs(jobs', u) = Occurs(jobs, u)
      BY <2>2, <2>3, <2>5
    <3>2. pc'[u] = pc[u] /\ done'[u] = done[u]
      BY <1>3, <2>5
    <3> QED
      BY <2>1, <3>1, <3>2
  <2> QED
    BY <2>4, <2>5
<1> QED
  BY <1>5, <1>6, <1>7 DEF PlaceInv

LEMMA ParkPlaces ==
  ASSUME PlaceInv, NEW t \in Conns, Park(t)
  PROVE  PlaceInv'
<1>1. /\ pc[t] = "park" /\ UNCHANGED <<done, jobs, batch, cur, lpc>>
      /\ \/ pq' = Append(pq, t) /\ pc' = [pc EXCEPT ![t] = "wait"]
         \/ pq' = pq /\ pc' = [pc EXCEPT ![t] = "enter"]
  BY DEF Park, Goto, loop
<1>2. CASE pq' = pq /\ pc' = [pc EXCEPT ![t] = "enter"]
  BY <1>1, <1>2, PlacesWalk DEF ConnPc
<1>3. CASE pq' = Append(pq, t) /\ pc' = [pc EXCEPT ![t] = "wait"]
  <2>1. /\ \A u \in Conns : pc'[u] = (IF u = t THEN "wait" ELSE pc[u])
        /\ pc' \in [Conns -> ConnPc] /\ ~done[t]
    BY <1>1, <1>3 DEF PlaceInv, PlaceTypes, Fresh, ConnPc
  <2>2. /\ pq' \in Seq(Conns)
        /\ \A u \in Conns : Occurs(pq', u) = Occurs(pq, u) + (IF t = u THEN 1 ELSE 0)
    BY <1>3, OccursAppend DEF PlaceInv, PlaceTypes
  <2>3. PlaceTypes' /\ LoopHolds' /\ Fresh'
    BY <1>1, <2>1, <2>2 DEF PlaceInv, PlaceTypes, LoopHolds, Fresh
  <2>4. NoJobLost'
    <3> SUFFICES ASSUME NEW u \in Conns
                 PROVE  Occurs(jobs, u) + Occurs(pq', u) + Occurs(batch, u)
                          + (IF cur = u /\ lpc \notin Over THEN 1 ELSE 0)
                          = (IF pc'[u] = "wait" /\ ~done[u] THEN 1 ELSE 0)
      BY <1>1 DEF NoJobLost, Occurs, Over
    <3>1. Occurs(jobs, u) + Occurs(pq, u) + Occurs(batch, u)
            + (IF cur = u /\ lpc \notin Over THEN 1 ELSE 0)
            = (IF pc[u] = "wait" /\ ~done[u] THEN 1 ELSE 0)
      BY DEF PlaceInv, NoJobLost, Over
    <3>2. Occurs(jobs, u) \in Nat /\ Occurs(pq, u) \in Nat /\ Occurs(batch, u) \in Nat
      BY PlacesNat DEF PlaceInv
    <3>3. Occurs(pq', u) = Occurs(pq, u) + (IF t = u THEN 1 ELSE 0)
      BY <2>2
    <3>4. CASE u = t
      BY <1>1, <2>1, <3>1, <3>2, <3>3, <3>4
    <3>5. CASE u # t
      BY <2>1, <3>1, <3>2, <3>3, <3>5
    <3> QED
      BY <3>4, <3>5
  <2> QED
    BY <2>3, <2>4 DEF PlaceInv
<1> QED
  BY <1>1, <1>2, <1>3

LEMMA ConnPlaces ==
  ASSUME PlaceInv, NEW t \in Conns, Request(t) \/ ConnStep(t)
  PROVE  PlaceInv'
<1>1. ASSUME NEW l \in ConnPc \ {"idle", "wait"}, pc[t] \notin {"idle", "wait"},
             UNCHANGED <<jobs, pq, batch, cur, done>>, lpc' = lpc \/ (lpc = "sleep" /\ lpc' = "cv"),
             pc' = [pc EXCEPT ![t] = l]
      PROVE  PlaceInv'
  BY <1>1, PlacesWalk
<1>2. CASE Enter(t) \/ LockGpu(t) \/ LeaveCv(t) \/ SendStep(t)
  <2>1. /\ pc[t] \in {"enter", "lock", "leave", "send"}
        /\ UNCHANGED <<jobs, pq, batch, cur, done>>
        /\ lpc' = lpc \/ (lpc = "sleep" /\ lpc' = "cv")
    BY <1>2 DEF Enter, LockGpu, LeaveCv, SendStep, loop, park
  <2>2. \E l \in {"lock", "leave", "send", "run"} : pc' = [pc EXCEPT ![t] = l]
    BY <1>2 DEF Enter, LockGpu, LeaveCv, SendStep, Goto
  <2> QED
    BY <1>1, <2>1, <2>2 DEF ConnPc
<1>3. CASE EndStep(t)
  <2>1. /\ pc[t] = "run" /\ pc' = [pc EXCEPT ![t] = "wait"]
        /\ done' = [u \in Conns |-> done[u] \/ u \in {t}]
        /\ UNCHANGED <<jobs, pq, batch, cur, lpc>>
    BY <1>3 DEF EndStep, Goto, Finish, loop, park
  <2>2. done \in [Conns -> BOOLEAN]
    BY DEF PlaceInv, PlaceTypes
  <2>3. done' = [done EXCEPT ![t] = TRUE]
    BY <2>1, <2>2
  <2> QED
    BY <2>1, <2>2, <2>3, PlacesWalk DEF ConnPc
<1>4. CASE Answer(t)
  BY <1>4, PlacesWalk DEF Answer, Goto, loop, park, ConnPc
<1> QED
  BY <1>2, <1>3, <1>4, RequestPlaces, ParkPlaces DEF ConnStep

(* The loop's steps that move requests: what they do to the places, told   *)
(* by the connections they answer (S) and the change of each place.        *)
LEMMA PlacesMove ==
  ASSUME PlaceInv, PlaceTypes', LoopHolds', pc' = pc,
         NEW S \in SUBSET Conns, done' = [t \in Conns |-> done[t] \/ t \in S],
         \A t \in S : pc[t] = "wait",
         \A t \in Conns :
           Occurs(jobs', t) + Occurs(pq', t) + Occurs(batch', t)
             + (IF cur' = t /\ lpc' \notin Over THEN 1 ELSE 0)
           = IF t \in S THEN 0
             ELSE Occurs(jobs, t) + Occurs(pq, t) + Occurs(batch, t)
                    + (IF cur = t /\ lpc \notin Over THEN 1 ELSE 0)
  PROVE  PlaceInv'
<1>1. \A t \in Conns : done'[t] <=> done[t] \/ t \in S
  BY DEF PlaceInv, PlaceTypes
<1>2. Fresh'
  BY <1>1 DEF PlaceInv, Fresh
<1>3. NoJobLost'
  <2> SUFFICES ASSUME NEW t \in Conns
               PROVE  Occurs(jobs', t) + Occurs(pq', t) + Occurs(batch', t)
                        + (IF cur' = t /\ lpc' \notin Over THEN 1 ELSE 0)
                        = (IF pc'[t] = "wait" /\ ~done'[t] THEN 1 ELSE 0)
    BY DEF NoJobLost, Occurs, Over
  <2>1. Occurs(jobs, t) + Occurs(pq, t) + Occurs(batch, t)
          + (IF cur = t /\ lpc \notin Over THEN 1 ELSE 0)
          = (IF pc[t] = "wait" /\ ~done[t] THEN 1 ELSE 0)
    BY DEF PlaceInv, NoJobLost, Over
  <2>2. CASE t \in S
    BY <1>1, <2>2
  <2>3. CASE t \notin S
    BY <1>1, <2>1, <2>3
  <2> QED
    BY <2>2, <2>3
<1> QED
  BY <1>2, <1>3 DEF PlaceInv

(* ... and the answer to nobody.                                           *)
LEMMA PlacesMoveOnly ==
  ASSUME PlaceInv, PlaceTypes', LoopHolds', UNCHANGED <<pc, done>>,
         \A t \in Conns :
           Occurs(jobs', t) + Occurs(pq', t) + Occurs(batch', t)
             + (IF cur' = t /\ lpc' \notin Over THEN 1 ELSE 0)
           = Occurs(jobs, t) + Occurs(pq, t) + Occurs(batch, t)
               + (IF cur = t /\ lpc \notin Over THEN 1 ELSE 0)
  PROVE  PlaceInv'
<1>1. done' = [t \in Conns |-> done[t] \/ t \in {}]
  BY DEF PlaceInv, PlaceTypes
<1> DEFINE S == {}
<1>2. /\ S \in SUBSET Conns /\ done' = [t \in Conns |-> done[t] \/ t \in S]
      /\ \A t \in S : pc[t] = "wait"
  BY <1>1
<1>3. \A t \in Conns : t \notin S
  OBVIOUS
<1> HIDE DEF S
<1>4. \A t \in Conns :
        Occurs(jobs', t) + Occurs(pq', t) + Occurs(batch', t)
          + (IF cur' = t /\ lpc' \notin Over THEN 1 ELSE 0)
        = IF t \in S THEN 0
          ELSE Occurs(jobs, t) + Occurs(pq, t) + Occurs(batch, t)
                 + (IF cur = t /\ lpc \notin Over THEN 1 ELSE 0)
  BY <1>3
<1> QED
  BY <1>2, <1>4, PlacesMove

LEMMA GetPlaces ==
  ASSUME PlaceInv, Get
  PROVE  PlaceInv'
<1>1. PICK i \in 1..Len(jobs) : cur' = jobs[i] /\ jobs' = RemoveAt(jobs, i)
  BY DEF Get
<1>2. /\ lpc = "get" /\ lpc' = "cv" /\ cur = None
      /\ UNCHANGED <<pc, done, pq, batch>>
  BY DEF Get, conn, park, PlaceInv, LoopHolds
<1>3. /\ jobs' \in Seq(Conns) /\ cur' \in Conns
      /\ \A t : Occurs(jobs, t) = Occurs(jobs', t) + (IF cur' = t THEN 1 ELSE 0)
  BY <1>1, OccursRemoveAt DEF PlaceInv, PlaceTypes
<1>4. PlaceTypes' /\ LoopHolds'
  BY <1>2, <1>3, QueueAssumption DEF PlaceInv, PlaceTypes, LoopHolds, LoopPc
<1>5. ASSUME NEW t \in Conns
      PROVE  Occurs(jobs', t) + Occurs(pq', t) + Occurs(batch', t)
               + (IF cur' = t /\ lpc' \notin Over THEN 1 ELSE 0)
             = Occurs(jobs, t) + Occurs(pq, t) + Occurs(batch, t)
                 + (IF cur = t /\ lpc \notin Over THEN 1 ELSE 0)
  <2>1. Occurs(jobs, t) = Occurs(jobs', t) + (IF cur' = t THEN 1 ELSE 0)
    BY <1>3
  <2>2. lpc' \notin Over /\ cur # t
    BY <1>2, QueueAssumption DEF Over
  <2>3. Occurs(jobs', t) \in Nat /\ Occurs(pq, t) \in Nat /\ Occurs(batch, t) \in Nat
    BY <1>4, PlacesNat, AtFinite DEF PlaceInv, PlaceTypes
  <2>4. pq' = pq /\ batch' = batch
    BY <1>2
  <2> QED
    BY <2>1, <2>2, <2>3, <2>4
<1> QED
  BY <1>2, <1>4, <1>5, PlacesMoveOnly

(* Steps moved from the parking place to the loop's hands, or left there.  *)
LEMMA TakePlaces ==
  ASSUME PlaceInv, TakePoint \/ Close
  PROVE  PlaceInv'
<1>1. /\ batch = <<>> /\ UNCHANGED <<pc, done, jobs, cur>>
      /\ \/ pq' = <<>> /\ batch' = pq
         \/ pq' = pq /\ batch' = <<>>
      /\ \/ lpc = "point" /\ lpc' = "inline"
         \/ lpc = "close" /\ lpc' = "left"
  <2>1. CASE TakePoint
    <3>1. lpc = "point" /\ lpc' = "inline" /\ UNCHANGED <<pc, done, jobs, cur>>
      BY <2>1 DEF TakePoint, conn
    <3>2. PICK take \in BOOLEAN : /\ batch' = IF take THEN pq ELSE <<>>
                                  /\ pq' = IF take THEN <<>> ELSE pq
      BY <2>1 DEF TakePoint
    <3> QED
      BY <3>1, <3>2 DEF PlaceInv, LoopHolds
  <2>2. CASE Close
    BY <2>2 DEF Close, conn, PlaceInv, LoopHolds
  <2> QED
    BY <2>1, <2>2
<1>2. /\ PlaceTypes' /\ LoopHolds' /\ (lpc' \in Over <=> lpc \in Over)
  BY <1>1 DEF PlaceInv, PlaceTypes, LoopHolds, LoopPc, Over
<1>3. ASSUME NEW t \in Conns
      PROVE  Occurs(jobs', t) + Occurs(pq', t) + Occurs(batch', t)
               + (IF cur' = t /\ lpc' \notin Over THEN 1 ELSE 0)
             = Occurs(jobs, t) + Occurs(pq, t) + Occurs(batch, t)
                 + (IF cur = t /\ lpc \notin Over THEN 1 ELSE 0)
  <2>1. Occurs(<<>>, t) = 0 /\ Occurs(pq, t) \in Nat /\ Occurs(jobs, t) \in Nat
    BY OccursEmpty, PlacesNat DEF PlaceInv
  <2>2. Occurs(pq', t) + Occurs(batch', t) = Occurs(pq, t) + Occurs(batch, t)
    BY <1>1, <2>1
  <2>3. Occurs(pq', t) \in Nat /\ Occurs(batch', t) \in Nat /\ Occurs(batch, t) \in Nat
    BY <1>1, <2>1
  <2>4. jobs' = jobs /\ cur' = cur /\ (lpc' \in Over <=> lpc \in Over)
    BY <1>1, <1>2
  <2> QED
    BY <2>1, <2>2, <2>3, <2>4
<1> QED
  BY <1>1, <1>2, <1>3, PlacesMoveOnly

(* A step of the batch has run and is answered.                            *)
LEMMA AnswerFirst ==
  ASSUME PlaceInv, batch # <<>>, batch' = Tail(batch), Finish({batch[1]}),
         UNCHANGED <<pc, jobs, cur, pq>>,
         \/ lpc = "join" /\ lpc' = "inline"
         \/ lpc = "leftRun" /\ lpc' = "left"
  PROVE  PlaceInv'
<1>1. /\ Tail(batch) \in Seq(Conns) /\ batch[1] \in Conns
      /\ \A t : Occurs(batch, t) = Occurs(Tail(batch), t) + (IF batch[1] = t THEN 1 ELSE 0)
  BY OccursTail DEF PlaceInv, PlaceTypes
<1>2. batch[1] \in ToSet(batch)
  <2>1. Occurs(Tail(batch), batch[1]) \in Nat
    BY <1>1, AtFinite
  <2>2. Occurs(batch, batch[1]) # 0
    BY <1>1, <2>1
  <2> QED
    BY <2>2, OccursZero DEF PlaceInv, PlaceTypes
<1>3. /\ pc[batch[1]] = "wait" /\ Occurs(batch, batch[1]) = 1 /\ Occurs(jobs, batch[1]) = 0
      /\ Occurs(pq, batch[1]) = 0 /\ ~(cur = batch[1] /\ lpc \notin Over)
  BY <1>1, <1>2, Placed
<1>4. PlaceTypes' /\ LoopHolds' /\ (lpc' \in Over <=> lpc \in Over)
  BY <1>1 DEF PlaceInv, PlaceTypes, LoopHolds, LoopPc, Over, Finish
<1>5. ASSUME NEW t \in Conns
      PROVE  Occurs(jobs', t) + Occurs(pq', t) + Occurs(batch', t)
               + (IF cur' = t /\ lpc' \notin Over THEN 1 ELSE 0)
             = IF t \in {batch[1]} THEN 0
               ELSE Occurs(jobs, t) + Occurs(pq, t) + Occurs(batch, t)
                      + (IF cur = t /\ lpc \notin Over THEN 1 ELSE 0)
  <2>1. /\ Occurs(batch, t) = Occurs(batch', t) + (IF batch[1] = t THEN 1 ELSE 0)
        /\ Occurs(batch', t) \in Nat
    BY <1>1, AtFinite
  <2>2. jobs' = jobs /\ pq' = pq /\ (cur' = t /\ lpc' \notin Over <=> cur = t /\ lpc \notin Over)
    BY <1>4
  <2>3. CASE t = batch[1]
    BY <1>3, <2>1, <2>2, <2>3
  <2>4. CASE t # batch[1]
    <3>1. Occurs(batch, t) = Occurs(batch', t)
      BY <2>1, <2>4
    <3> QED
      BY <2>2, <2>4, <3>1
  <2> QED
    BY <2>3, <2>4
<1>6. done' = [t \in Conns |-> done[t] \/ t \in {batch[1]}]
  BY DEF Finish
<1>7. {batch[1]} \in SUBSET Conns /\ \A t \in {batch[1]} : pc[t] = "wait"
  BY <1>1, <1>3
<1> QED
  BY <1>4, <1>5, <1>6, <1>7, PlacesMove

(* A step that raises: the whole batch is answered.                        *)
LEMMA AnswerBatch ==
  ASSUME PlaceInv, lpc = "inline", batch # <<>>, Finish(ToSet(batch)), batch' = <<>>, lpc' = "end",
         UNCHANGED <<pc, jobs, cur, pq>>
  PROVE  PlaceInv'
<1>1. ToSet(batch) \in SUBSET Conns
  BY ElementOfSeq, LenProperties DEF ToSet, PlaceInv, PlaceTypes
<1>2. \A t \in ToSet(batch) :
        /\ pc[t] = "wait" /\ Occurs(jobs, t) = 0
        /\ Occurs(pq, t) = 0 /\ ~(cur = t /\ lpc \notin Over)
  BY <1>1, Placed
<1>3. <<>> \in Seq(Conns)
  OBVIOUS
<1>4. PlaceTypes' /\ LoopHolds' /\ lpc \notin Over /\ lpc' \notin Over
  BY <1>3 DEF PlaceInv, PlaceTypes, LoopHolds, LoopPc, Over, Finish
<1>5. ASSUME NEW t \in Conns
      PROVE  Occurs(jobs', t) + Occurs(pq', t) + Occurs(batch', t)
               + (IF cur' = t /\ lpc' \notin Over THEN 1 ELSE 0)
             = IF t \in ToSet(batch) THEN 0
               ELSE Occurs(jobs, t) + Occurs(pq, t) + Occurs(batch, t)
                      + (IF cur = t /\ lpc \notin Over THEN 1 ELSE 0)
  <2>1. Occurs(batch', t) = 0
    BY OccursEmpty
  <2>2. t \notin ToSet(batch) => Occurs(batch, t) = 0
    BY OccursZero DEF PlaceInv, PlaceTypes
  <2>3. jobs' = jobs /\ pq' = pq /\ cur' = cur
    OBVIOUS
  <2>4. CASE t \in ToSet(batch)
    BY <1>2, <1>4, <2>1, <2>3, <2>4
  <2>5. CASE t \notin ToSet(batch)
    BY <1>4, <2>1, <2>2, <2>3, <2>5
  <2> QED
    BY <2>4, <2>5
<1>6. done' = [t \in Conns |-> done[t] \/ t \in ToSet(batch)]
  BY DEF Finish
<1> QED
  BY <1>1, <1>2, <1>4, <1>5, <1>6, PlacesMove

LEMMA EndJobPlaces ==
  ASSUME PlaceInv, EndJob
  PROVE  PlaceInv'
<1>1. /\ lpc = "end" /\ Finish({cur}) /\ lpc' \in {"close", "release"}
      /\ UNCHANGED <<pc, jobs, cur, pq, batch>>
  BY DEF EndJob, park
<1>2. cur \in Conns /\ batch = <<>>
  BY <1>1 DEF PlaceInv, PlaceTypes, LoopHolds
<1>3. pc[cur] = "wait" /\ Occurs(batch, cur) = 0 /\ Occurs(jobs, cur) = 0 /\ Occurs(pq, cur) = 0
  BY <1>1, <1>2, Placed DEF Over
<1>4. PlaceTypes' /\ LoopHolds' /\ lpc \notin Over /\ lpc' \in Over
  BY <1>1, <1>2 DEF PlaceInv, PlaceTypes, LoopHolds, LoopPc, Over, Finish
<1>5. ASSUME NEW t \in Conns
      PROVE  Occurs(jobs', t) + Occurs(pq', t) + Occurs(batch', t)
               + (IF cur' = t /\ lpc' \notin Over THEN 1 ELSE 0)
             = IF t \in {cur} THEN 0
               ELSE Occurs(jobs, t) + Occurs(pq, t) + Occurs(batch, t)
                      + (IF cur = t /\ lpc \notin Over THEN 1 ELSE 0)
  <2>1. jobs' = jobs /\ pq' = pq /\ batch' = batch
    BY <1>1
  <2>2. CASE t = cur
    BY <1>3, <1>4, <2>1, <2>2
  <2>3. CASE t # cur
    BY <1>4, <2>1, <2>3
  <2> QED
    BY <2>2, <2>3
<1>6. done' = [t \in Conns |-> done[t] \/ t \in {cur}]
  BY <1>1 DEF Finish
<1>7. {cur} \in SUBSET Conns /\ \A t \in {cur} : pc[t] = "wait"
  BY <1>2, <1>3
<1> QED
  BY <1>1, <1>4, <1>5, <1>6, <1>7, PlacesMove

LEMMA ReleasePlaces ==
  ASSUME PlaceInv, Release
  PROVE  PlaceInv'
<1>1. /\ lpc \in {"release", "left"} /\ batch = <<>>
      /\ cur' = None /\ lpc' = "get" /\ UNCHANGED <<pc, done, jobs, pq, batch>>
  BY DEF Release, conn, park, PlaceInv, LoopHolds
<1>2. PlaceTypes' /\ LoopHolds'
  BY <1>1 DEF PlaceInv, PlaceTypes, LoopHolds, LoopPc
<1>3. \A t \in Conns : cur' # t /\ lpc \in Over
  BY <1>1, QueueAssumption DEF Over
<1> QED
  BY <1>1, <1>2, <1>3, PlacesMoveOnly

LEMMA LoopPlaces ==
  ASSUME PlaceInv, LoopStep
  PROVE  PlaceInv'
<1>1. CASE TakeCv \/ LoopLock \/ Open \/ SendJob \/ Layer \/ SendLeft
  <2>1. UNCHANGED <<jobs, pq, batch, cur, pc, done>>
    BY <1>1 DEF TakeCv, LoopLock, Open, SendJob, Layer, SendLeft, conn, park
  <2>2. \/ lpc = "cv" /\ lpc' \in {"sleep", "lock"}
        \/ lpc = "lock" /\ lpc' \in {"open", "send"}
        \/ lpc = "open" /\ lpc' = "send"
        \/ lpc = "send" /\ lpc' \in {"point", "end"}
        \/ lpc = "inline" /\ batch = <<>> /\ lpc' \in {"end", "point"}
        \/ lpc = "left" /\ batch # <<>> /\ lpc' = "leftRun"
    BY <1>1 DEF TakeCv, LoopLock, Open, SendJob, Layer, SendLeft
  <2>3. batch # <<>> => lpc \in {"inline", "join", "left", "leftRun"}
    BY DEF PlaceInv, LoopHolds
  <2> QED
    BY <2>1, <2>2, <2>3, PlacesStill DEF LoopPc, Over
<1>2. CASE RunInline
  <2>1. lpc = "inline" /\ batch # <<>> /\ UNCHANGED <<pc, jobs, cur, pq>>
    BY <1>2 DEF RunInline, park
  <2>2. CASE Finish(ToSet(batch)) /\ batch' = <<>> /\ lpc' = "end"
    BY <2>1, <2>2, AnswerBatch
  <2>3. CASE lpc' = "join" /\ UNCHANGED <<done, batch>>
    BY <2>1, <2>3, PlacesStill DEF LoopPc, Over
  <2> QED
    BY <1>2, <2>2, <2>3 DEF RunInline
<1>3. CASE EndInline
  <2>1. lpc = "join" /\ batch # <<>>
    BY <1>3 DEF EndInline, PlaceInv, LoopHolds
  <2> QED
    BY <1>3, <2>1, AnswerFirst DEF EndInline, park
<1>4. CASE EndLeft
  <2>1. lpc = "leftRun" /\ batch # <<>>
    BY <1>4 DEF EndLeft, PlaceInv, LoopHolds
  <2> QED
    BY <1>4, <2>1, AnswerFirst DEF EndLeft, park
<1> QED
  BY <1>1, <1>2, <1>3, <1>4, GetPlaces, TakePlaces, EndJobPlaces, ReleasePlaces DEF LoopStep

LEMMA PlaceInvStep == PlaceInv /\ [Next]_vars => PlaceInv'
<1> SUFFICES ASSUME PlaceInv, [Next]_vars PROVE PlaceInv'
  OBVIOUS
<1>1. CASE \E t \in Conns : Request(t) \/ ConnStep(t)
  BY <1>1, ConnPlaces
<1>2. CASE LoopStep
  BY <1>2, LoopPlaces
<1>3. CASE Rank1Step \/ Join \/ AllAnswered \/ UNCHANGED vars
  <2>1. UNCHANGED <<jobs, pq, batch, cur, pc, done, lpc>>
    BY <1>3 DEF Rank1Step, Recv1, Point1, Run1, Join, AllAnswered, vars, conn, loop, park
  <2>2. lpc \in LoopPc /\ (batch # <<>> => lpc \in {"inline", "join", "left", "leftRun"})
        /\ (lpc \in {"join", "leftRun"} => batch # <<>>)
    BY DEF PlaceInv, PlaceTypes, LoopHolds
  <2> QED
    BY <2>1, <2>2, PlacesStill
<1> QED
  BY <1>1, <1>2, <1>3 DEF Next

LEMMA PlaceInvInit == Init => PlaceInv
<1> SUFFICES ASSUME Init PROVE PlaceInv
  OBVIOUS
<1>1. /\ pc = [t \in Conns |-> "idle"] /\ done = [t \in Conns |-> FALSE]
      /\ jobs = <<>> /\ pq = <<>> /\ batch = <<>> /\ lpc = "get" /\ cur = None
  BY DEF Init
<1>2. PlaceTypes /\ LoopHolds /\ Fresh
  BY <1>1 DEF PlaceTypes, LoopHolds, Fresh, ConnPc, LoopPc
<1>3. NoJobLost
  BY <1>1, OccursEmpty, QueueAssumption DEF NoJobLost
<1> QED
  BY <1>2, <1>3 DEF PlaceInv

(* Every request that waits for its answer is in exactly one place, and    *)
(* one that has its answer is in none that would run it again.             *)
THEOREM QueueNoJobLost == Spec => []NoJobLost
<1>1. PlaceInv => NoJobLost
  BY DEF PlaceInv
<1> QED
  BY <1>1, PlaceInvInit, PlaceInvStep, PTL DEF Spec

-----------------------------------------------------------------------------
(* Both ranks run the same forwards, in the same order.                    *)

CommandType == [conn : Conns, nr : Nat, job : JobType]
Message == [kind : {"cmd"}, cmd : CommandType, k : {0}, steps : {<<>>}]
             \cup [kind : {"pp"}, cmd : {None}, k : Nat, steps : Seq(CommandType)]

RankTypes ==
  /\ job \in [Conns -> JobType] /\ asked \in [Conns -> Nat]
  /\ point \in Nat /\ point1 \in Nat
  /\ pipe \in Seq(Message)
  /\ batch1 \in Seq(CommandType \cup {None})
  /\ chunk1 \in CommandType \cup {None}

Newest == pipe[Len(pipe)]
Opens(m) == m.kind = "cmd" /\ Preemptible(m.cmd.job) /\ Collective(m.cmd.job)
Easy(m) == IF m.kind = "cmd" THEN Preemptible(m.cmd.job) \/ ~Collective(m.cmd.job)
           ELSE m.steps # <<>> /\ m.steps[1].job.bad
Clear1 == op1 = None /\ (batch1 # <<>> => batch1[1] # None /\ batch1[1].job.bad)
InChunk1 == chunk1 # None /\ batch1 = <<>>

(* Rank 0 runs ahead of rank 1 only over what needs no collective: a       *)
(* message that is not the newest takes rank 1 into no forward, and rank 1 *)
(* meets a point of a chunk exactly where it waits for one.                *)
PipeShape ==
  /\ pipe # <<>> => Clear1 /\ (pipe[1].kind = "pp" <=> InChunk1)
  /\ pipe # <<>> /\ pipe[1].kind = "pp" => pipe[1].k = point1
  /\ \A i \in 1..(Len(pipe) - 1) :
       /\ Easy(pipe[i])
       /\ pipe[i + 1].kind = "pp" <=> Opens(pipe[i])
       /\ pipe[i + 1].kind = "pp" => pipe[i + 1].k = 0

(* Where rank 1 is going: nowhere, ...                                     *)
AtRest == IF pipe = <<>> THEN Clear1 /\ ~InChunk1 ELSE Easy(Newest) /\ ~Opens(Newest)

(* ... into the forward of command c, ...                                  *)
SentOne(c) == IF pipe = <<>> THEN op1 = Pass(c, 0) /\ chunk1 = None /\ batch1 = <<>>
              ELSE Newest.kind = "cmd" /\ Newest.cmd = c

(* ... to point k of chunk c, ...                                          *)
Waiting(c, k) ==
  IF pipe = <<>> THEN Clear1 /\ InChunk1 /\ chunk1 = c /\ point1 = k
  ELSE Newest.kind = "cmd" /\ Newest.cmd = c /\ k = 0

(* ... or through the steps cs and the layers behind that point.           *)
Announced(c, k, cs) ==
  /\ Newest.kind = "pp" /\ Newest.k + 1 = k /\ Newest.steps = cs
  /\ IF Len(pipe) = 1 THEN chunk1 = c ELSE pipe[Len(pipe) - 1].cmd = c
Taken(c, k, cs) ==
  /\ point1 = k
  /\ \/ op1 = None /\ chunk1 = c /\ batch1 = Append(cs, None)
     \/ /\ cs # <<>> /\ ~cs[1].job.bad
        /\ op1 = Pass(cs[1], 0) /\ chunk1 = c /\ batch1 = Append(Tail(cs), None)
     \/ /\ cs # <<>> /\ cs[1].job.bad
        /\ op1 = None /\ chunk1 = None /\ batch1 = <<>>
     \/ /\ cs = <<>>
        /\ op1 = Pass(c, k) /\ batch1 = <<>>
        /\ chunk1 = IF k = MaxPoints THEN None ELSE c
Inside(c, k, cs) == IF pipe = <<>> THEN Taken(c, k, cs) ELSE Announced(c, k, cs)

-----------------------------------------------------------------------------
(* None, commands, forward passes and messages.                            *)
LEMMA NotNone ==
  /\ \A c \in CommandType : c # None
  /\ \A c \in CommandType, k \in Nat : Pass(c, k) # None
<1>1. None \notin CommandType /\ None \notin Conns \X Nat \X Nat
  BY QueueAssumption DEF CommandType
<1>2. ASSUME NEW c \in CommandType, NEW k \in Nat PROVE Pass(c, k) # None
  <2>1. c.conn \in Conns /\ c.nr \in Nat
    BY DEF CommandType
  <2>2. <<c.conn, c.nr, k>> \in Conns \X Nat \X Nat
    BY <2>1
  <2> QED
    BY <1>1, <2>2 DEF Pass
<1> QED
  BY <1>1, <1>2

LEMMA MessageShape ==
  ASSUME NEW m \in Message
  PROVE  /\ m.kind \in {"cmd", "pp"} /\ m.k \in Nat
         /\ m.kind = "cmd" => m.cmd \in CommandType
         /\ m.kind = "pp" => m.steps \in Seq(CommandType)
BY DEF Message

LEMMA PipeElement ==
  ASSUME RankTypes, NEW i \in 1..Len(pipe)
  PROVE  pipe[i] \in Message
BY ElementOfSeq DEF RankTypes

(* Rank 1 takes the first message.                                         *)
LEMMA PipeTail ==
  ASSUME RankTypes, pipe # <<>>, pipe' = Tail(pipe)
  PROVE  /\ Len(pipe) \in Nat \ {0} /\ Len(pipe') = Len(pipe) - 1 /\ pipe' \in Seq(Message)
         /\ \A i \in 1..Len(pipe') : pipe'[i] = pipe[i + 1]
         /\ pipe' = <<>> <=> Len(pipe) = 1
         /\ pipe[1] \in Message
         /\ Len(pipe) = 1 => Newest = pipe[1]
         /\ Len(pipe) # 1 => Newest' = Newest
<1>1. /\ Len(pipe) \in Nat \ {0} /\ pipe' \in Seq(Message) /\ Len(pipe') = Len(pipe) - 1
      /\ \A i \in 1..Len(pipe') : pipe'[i] = pipe[i + 1]
  BY HeadTailProperties, EmptySeq, LenProperties DEF RankTypes
<1>2. pipe' = <<>> <=> Len(pipe) = 1
  <2>1. pipe' = <<>> <=> Len(pipe') = 0
    BY <1>1, EmptySeq
  <2> QED
    BY <1>1, <2>1
<1>3. pipe[1] \in Message
  BY <1>1, PipeElement
<1>4. Len(pipe) # 1 => pipe'[Len(pipe')] = pipe[Len(pipe)]
  BY <1>1
<1> QED
  BY <1>1, <1>2, <1>3, <1>4 DEF Newest

(* Rank 0 sends one.                                                       *)
LEMMA PipeAppend ==
  ASSUME RankTypes, NEW m \in Message, pipe' = Append(pipe, m)
  PROVE  /\ Len(pipe) \in Nat /\ Len(pipe') = Len(pipe) + 1 /\ pipe' \in Seq(Message) /\ pipe' # <<>>
         /\ \A i \in 1..Len(pipe) : pipe'[i] = pipe[i]
         /\ Newest' = m
         /\ pipe = <<>> <=> Len(pipe) = 0
         /\ pipe # <<>> => pipe'[1] = pipe[1] /\ pipe'[Len(pipe') - 1] = Newest
         /\ pipe = <<>> => pipe'[1] = m
<1>1. /\ Len(pipe) \in Nat /\ pipe' \in Seq(Message) /\ Len(pipe') = Len(pipe) + 1 /\ pipe' # <<>>
      /\ \A i \in 1..Len(pipe) : pipe'[i] = pipe[i]
      /\ pipe'[Len(pipe) + 1] = m
  BY AppendProperties, LenProperties DEF RankTypes
<1>2. pipe = <<>> <=> Len(pipe) = 0
  BY <1>1, EmptySeq DEF RankTypes
<1>3. Newest' = m
  BY <1>1 DEF Newest
<1>4. ASSUME pipe # <<>> PROVE pipe'[1] = pipe[1] /\ pipe'[Len(pipe') - 1] = Newest
  <2>1. 1 \in 1..Len(pipe) /\ Len(pipe) \in 1..Len(pipe) /\ Len(pipe') - 1 = Len(pipe)
    BY <1>1, <1>2, <1>4
  <2> QED
    BY <1>1, <2>1 DEF Newest
<1>5. pipe = <<>> => pipe'[1] = m
  BY <1>1, <1>2
<1> QED
  BY <1>1, <1>2, <1>3, <1>4, <1>5

-----------------------------------------------------------------------------
(* Rank 1's steps, one lemma per step: the shape of the pipe and each of   *)
(* the four destinations are kept.                                         *)
Kept ==
  /\ PipeShape'
  /\ AtRest => AtRest'
  /\ \A c \in CommandType : Collective(c.job) /\ ~Preemptible(c.job) /\ SentOne(c) => SentOne(c)'
  /\ \A c \in CommandType, k \in Nat : Collective(c.job) /\ Preemptible(c.job) /\ Waiting(c, k) => Waiting(c, k)'
  /\ \A c \in CommandType, k \in Nat, cs \in Seq(CommandType) : Inside(c, k, cs) => Inside(c, k, cs)'

LEMMA Recv1Keeps ==
  ASSUME RankTypes, PipeShape, Recv1
  PROVE  Kept
<1> DEFINE m == pipe[1]
<1>1. /\ op1 = None /\ chunk1 = None /\ batch1 = <<>> /\ pipe # <<>> /\ pipe' = Tail(pipe)
      /\ point1' = 0 /\ batch1' = <<>>
      /\ \/ /\ m.kind = "cmd" /\ Collective(m.cmd.job) /\ Preemptible(m.cmd.job)
            /\ chunk1' = m.cmd /\ op1' = None
         \/ /\ m.kind = "cmd" /\ Collective(m.cmd.job) /\ ~Preemptible(m.cmd.job)
            /\ op1' = Pass(m.cmd, 0) /\ chunk1' = None
         \/ /\ ~(m.kind = "cmd" /\ Collective(m.cmd.job))
            /\ op1' = None /\ chunk1' = None
  BY DEF Recv1
<1>2. m \in Message /\ m.kind = "cmd" /\ m.cmd \in CommandType
  BY <1>1, PipeTail, MessageShape DEF PipeShape, InChunk1
<1>3. m.cmd # None /\ Pass(m.cmd, 0) # None
  BY <1>2, NotNone
<1>4. /\ Len(pipe) \in Nat \ {0} /\ Len(pipe') = Len(pipe) - 1
      /\ \A i \in 1..Len(pipe') : pipe'[i] = pipe[i + 1]
      /\ pipe' = <<>> <=> Len(pipe) = 1
      /\ Len(pipe) = 1 => Newest = m
      /\ Len(pipe) # 1 => Newest' = Newest
  BY <1>1, PipeTail
<1> HIDE DEF m
<1>5. CASE Len(pipe) = 1
  <2>1. PipeShape'
    BY <1>4, <1>5 DEF PipeShape
  <2>2. AtRest => AtRest'
    BY <1>1, <1>2, <1>4, <1>5 DEF AtRest, Easy, Opens, Clear1, InChunk1
  <2>3. \A c \in CommandType : Collective(c.job) /\ ~Preemptible(c.job) /\ SentOne(c) => SentOne(c)'
    BY <1>1, <1>2, <1>4, <1>5 DEF SentOne
  <2>4. \A c \in CommandType, k \in Nat :
          Collective(c.job) /\ Preemptible(c.job) /\ Waiting(c, k) => Waiting(c, k)'
    BY <1>1, <1>2, <1>3, <1>4, <1>5 DEF Waiting, Clear1, InChunk1
  <2>5. \A c \in CommandType, k \in Nat, cs \in Seq(CommandType) : Inside(c, k, cs) => Inside(c, k, cs)'
    BY <1>1, <1>2, <1>4, <1>5 DEF Inside, Announced
  <2> QED
    BY <2>1, <2>2, <2>3, <2>4, <2>5 DEF Kept
<1>6. CASE Len(pipe) # 1
  <2>1. /\ Easy(m) /\ (pipe[2].kind = "pp" <=> Opens(m)) /\ (pipe[2].kind = "pp" => pipe[2].k = 0)
    BY <1>4, <1>6 DEF PipeShape, m
  <2>2. /\ op1' = None
        /\ chunk1' = IF Opens(m) THEN m.cmd ELSE None
    BY <1>1, <1>2, <2>1 DEF Easy, Opens
  <2>3. pipe'[1] = pipe[2] /\ pipe' # <<>>
    BY <1>4, <1>6
  <2>4. PipeShape'
    <3>1. Clear1' /\ (pipe'[1].kind = "pp" <=> InChunk1') /\ (pipe'[1].kind = "pp" => pipe'[1].k = point1')
      BY <1>1, <1>3, <2>1, <2>2, <2>3 DEF Clear1, InChunk1
    <3>2. ASSUME NEW i \in 1..(Len(pipe') - 1)
          PROVE  /\ Easy(pipe'[i]) /\ (pipe'[i + 1].kind = "pp" <=> Opens(pipe'[i]))
                 /\ (pipe'[i + 1].kind = "pp" => pipe'[i + 1].k = 0)
      <4>1. i \in 1..Len(pipe') /\ i + 1 \in 1..Len(pipe') /\ i + 1 \in 1..(Len(pipe) - 1)
        BY <1>4
      <4>2. pipe'[i] = pipe[i + 1] /\ pipe'[i + 1] = pipe[(i + 1) + 1]
        BY <1>4, <4>1
      <4> QED
        BY <4>1, <4>2 DEF PipeShape
    <3> QED
      BY <3>1, <3>2 DEF PipeShape, Easy, Opens
  <2>5. \A c \in CommandType, k \in Nat, cs \in Seq(CommandType) : Inside(c, k, cs) => Inside(c, k, cs)'
    <3> SUFFICES ASSUME NEW c \in CommandType, NEW k \in Nat, NEW cs \in Seq(CommandType),
                        Announced(c, k, cs)
                 PROVE  Announced(c, k, cs)'
      BY <1>1, <2>3 DEF Inside
    <3>1. Newest'.kind = "pp" /\ Newest'.k + 1 = k /\ Newest'.steps = cs /\ pipe[Len(pipe) - 1].cmd = c
      BY <1>4, <1>6 DEF Announced
    <3>2. CASE Len(pipe) = 2
      <4>1. Opens(m)
        BY <1>4, <1>6, <2>1, <3>1, <3>2 DEF Newest
      <4> QED
        BY <1>4, <2>2, <3>1, <3>2, <4>1 DEF Announced, m
    <3>3. CASE Len(pipe) # 2
      <4>1. Len(pipe') # 1 /\ pipe'[Len(pipe') - 1] = pipe[Len(pipe) - 1]
        BY <1>4, <1>6, <3>3
      <4> QED
        BY <3>1, <4>1 DEF Announced
    <3> QED
      BY <3>2, <3>3
  <2>6. /\ AtRest => AtRest'
        /\ \A c \in CommandType : SentOne(c) => SentOne(c)'
        /\ \A c \in CommandType, k \in Nat : Waiting(c, k) => Waiting(c, k)'
    BY <1>1, <1>4, <1>6, <2>3 DEF AtRest, SentOne, Waiting, Easy, Opens
  <2> QED
    BY <2>4, <2>5, <2>6 DEF Kept
<1> QED
  BY <1>5, <1>6

(* A sequence of commands with None behind it.                             *)
LEMMA WithNone ==
  ASSUME NEW cs \in Seq(CommandType)
  PROVE  /\ Append(cs, None) \in Seq(CommandType \cup {None}) /\ Append(cs, None) # <<>>
         /\ cs = <<>> => Append(cs, None)[1] = None /\ Tail(Append(cs, None)) = <<>>
         /\ cs # <<>> => /\ Append(cs, None)[1] = cs[1] /\ cs[1] \in CommandType /\ cs[1] # None
                         /\ Tail(cs) \in Seq(CommandType)
                         /\ Tail(Append(cs, None)) = Append(Tail(cs), None)
<1>1. cs \in Seq(CommandType \cup {None})
  BY SeqMonotonic
<1>2. /\ Append(cs, None) \in Seq(CommandType \cup {None}) /\ Append(cs, None) # <<>>
      /\ \A i \in 1..Len(cs) : Append(cs, None)[i] = cs[i]
      /\ Append(cs, None)[Len(cs) + 1] = None
  BY <1>1, AppendProperties
<1>3. Tail(Append(cs, None)) = IF cs = <<>> THEN <<>> ELSE Append(Tail(cs), None)
  BY HeadTailAppend
<1>4. ASSUME cs # <<>> PROVE /\ 1 \in 1..Len(cs) /\ cs[1] \in CommandType
                             /\ Tail(cs) \in Seq(CommandType)
  <2>1. Len(cs) \in Nat \ {0}
    BY <1>4, EmptySeq
  <2> QED
    BY <1>4, <2>1, ElementOfSeq, HeadTailProperties
<1>5. cs = <<>> => Len(cs) = 0
  OBVIOUS
<1> QED
  BY <1>2, <1>3, <1>4, <1>5, NotNone

LEMMA Point1Keeps ==
  ASSUME RankTypes, PipeShape, Point1
  PROVE  Kept
<1> DEFINE m == pipe[1]
<1>1. /\ op1 = None /\ chunk1 # None /\ batch1 = <<>> /\ pipe # <<>> /\ pipe' = Tail(pipe) /\ op1' = op1
      /\ \/ /\ m.kind = "pp" /\ m.k = point1
            /\ batch1' = Append(m.steps, None) /\ point1' = point1 + 1 /\ chunk1' = chunk1
         \/ ~(m.kind = "pp" /\ m.k = point1)
  BY DEF Point1
<1>2. /\ m \in Message /\ m.kind = "pp" /\ m.k = point1 /\ m.steps \in Seq(CommandType)
      /\ batch1' = Append(m.steps, None) /\ point1' = point1 + 1 /\ chunk1' = chunk1 /\ point1 \in Nat
  BY <1>1, PipeTail, MessageShape DEF PipeShape, InChunk1, RankTypes
<1>3. /\ batch1' # <<>>
      /\ m.steps # <<>> => batch1'[1] = m.steps[1] /\ m.steps[1] # None
  BY <1>2, WithNone
<1>4. /\ Len(pipe) \in Nat \ {0} /\ Len(pipe') = Len(pipe) - 1
      /\ \A i \in 1..Len(pipe') : pipe'[i] = pipe[i + 1]
      /\ pipe' = <<>> <=> Len(pipe) = 1
      /\ Len(pipe) = 1 => Newest = m
      /\ Len(pipe) # 1 => Newest' = Newest
  BY <1>1, PipeTail
<1> HIDE DEF m
<1>5. CASE Len(pipe) = 1
  <2>1. PipeShape'
    BY <1>4, <1>5 DEF PipeShape
  <2>2. AtRest => AtRest'
    BY <1>1, <1>2, <1>3, <1>4, <1>5 DEF AtRest, Easy, Clear1, InChunk1
  <2>3. \A c \in CommandType : SentOne(c) => SentOne(c)'
    BY <1>1, <1>2, <1>4, <1>5 DEF SentOne
  <2>4. \A c \in CommandType, k \in Nat : Waiting(c, k) => Waiting(c, k)'
    BY <1>1, <1>2, <1>4, <1>5 DEF Waiting
  <2>5. ASSUME NEW c \in CommandType, NEW k \in Nat, NEW cs \in Seq(CommandType), Inside(c, k, cs)
        PROVE  Inside(c, k, cs)'
    <3>1. m.k + 1 = k /\ m.steps = cs /\ chunk1 = c
      BY <1>1, <1>4, <1>5, <2>5 DEF Inside, Announced
    <3>2. Taken(c, k, cs)'
      BY <1>1, <1>2, <3>1 DEF Taken
    <3> QED
      BY <1>4, <1>5, <3>2 DEF Inside
  <2> QED
    BY <2>1, <2>2, <2>3, <2>4, <2>5 DEF Kept
<1>6. CASE Len(pipe) # 1
  <2>1. /\ Easy(m) /\ (pipe[2].kind = "pp" <=> Opens(m))
    BY <1>4, <1>6 DEF PipeShape, m
  <2>2. m.steps # <<>> /\ m.steps[1].job.bad /\ pipe[2].kind # "pp"
    BY <1>2, <2>1 DEF Easy, Opens
  <2>3. pipe'[1] = pipe[2] /\ pipe' # <<>>
    BY <1>4, <1>6
  <2>4. PipeShape'
    <3>1. Clear1' /\ ~InChunk1' /\ pipe'[1].kind # "pp"
      BY <1>1, <1>3, <2>2, <2>3 DEF Clear1, InChunk1
    <3>2. ASSUME NEW i \in 1..(Len(pipe') - 1)
          PROVE  /\ Easy(pipe'[i]) /\ (pipe'[i + 1].kind = "pp" <=> Opens(pipe'[i]))
                 /\ (pipe'[i + 1].kind = "pp" => pipe'[i + 1].k = 0)
      <4>1. i \in 1..Len(pipe') /\ i + 1 \in 1..Len(pipe') /\ i + 1 \in 1..(Len(pipe) - 1)
        BY <1>4
      <4>2. pipe'[i] = pipe[i + 1] /\ pipe'[i + 1] = pipe[(i + 1) + 1]
        BY <1>4, <4>1
      <4> QED
        BY <4>1, <4>2 DEF PipeShape
    <3> QED
      BY <3>1, <3>2 DEF PipeShape, Easy, Opens
  <2>5. \A c \in CommandType, k \in Nat, cs \in Seq(CommandType) : Inside(c, k, cs) => Inside(c, k, cs)'
    <3> SUFFICES ASSUME NEW c \in CommandType, NEW k \in Nat, NEW cs \in Seq(CommandType),
                        Announced(c, k, cs)
                 PROVE  Announced(c, k, cs)'
      BY <1>1, <2>3 DEF Inside
    <3>1. Newest'.kind = "pp" /\ Newest'.k + 1 = k /\ Newest'.steps = cs /\ pipe[Len(pipe) - 1].cmd = c
      BY <1>4, <1>6 DEF Announced
    <3>2. Len(pipe) # 2
      BY <2>2, <3>1, <1>4, <1>6 DEF Newest
    <3>3. Len(pipe') # 1 /\ pipe'[Len(pipe') - 1] = pipe[Len(pipe) - 1]
      BY <1>4, <1>6, <3>2
    <3> QED
      BY <3>1, <3>3 DEF Announced
  <2>6. /\ AtRest => AtRest'
        /\ \A c \in CommandType : SentOne(c) => SentOne(c)'
        /\ \A c \in CommandType, k \in Nat : Waiting(c, k) => Waiting(c, k)'
    BY <1>1, <1>4, <1>6, <2>3 DEF AtRest, SentOne, Waiting, Easy, Opens
  <2> QED
    BY <2>4, <2>5, <2>6 DEF Kept
<1> QED
  BY <1>5, <1>6

LEMMA Run1Keeps ==
  ASSUME RankTypes, PipeShape, Run1
  PROVE  Kept
<1> DEFINE b == batch1[1]
<1>1. /\ op1 = None /\ batch1 # <<>> /\ pipe' = pipe /\ point1' = point1
      /\ \/ b # None /\ b.job.bad /\ batch1' = <<>> /\ chunk1' = None /\ op1' = op1
         \/ b # None /\ ~b.job.bad /\ op1' = Pass(b, 0) /\ batch1' = Tail(batch1) /\ chunk1' = chunk1
         \/ /\ b = None /\ op1' = Pass(chunk1, point1) /\ batch1' = <<>>
            /\ chunk1' = IF point1 = MaxPoints THEN None ELSE chunk1
  BY DEF Run1
<1> HIDE DEF b
<1>2. CASE pipe # <<>>
  <2>1. /\ b # None /\ b.job.bad /\ batch1' = <<>> /\ chunk1' = None /\ op1' = None
        /\ pipe[1].kind # "pp"
    BY <1>1, <1>2 DEF PipeShape, Clear1, InChunk1, b
  <2>2. PipeShape'
    BY <1>1, <1>2, <2>1 DEF PipeShape, Clear1, InChunk1, Easy, Opens
  <2>3. Newest' = Newest
    BY <1>1 DEF Newest
  <2>4. \A c \in CommandType, k \in Nat, cs \in Seq(CommandType) : Inside(c, k, cs) => Inside(c, k, cs)'
    <3>1. \A c \in CommandType, k \in Nat, cs \in Seq(CommandType) :
            Announced(c, k, cs) => Len(pipe) # 1
      BY <2>1 DEF Announced, Newest
    <3>2. \A c \in CommandType, k \in Nat, cs \in Seq(CommandType) :
            Announced(c, k, cs) => Announced(c, k, cs)'
      BY <1>1, <2>3, <3>1 DEF Announced
    <3> QED
      BY <1>1, <1>2, <3>2 DEF Inside
  <2> QED
    BY <1>1, <1>2, <2>2, <2>3, <2>4 DEF Kept, AtRest, SentOne, Waiting, Easy, Opens
<1>3. CASE pipe = <<>>
  <2>1. PipeShape'
    BY <1>1, <1>3 DEF PipeShape
  <2>2. AtRest => AtRest'
    BY <1>1, <1>3 DEF AtRest, Clear1, InChunk1, b
  <2>3. /\ \A c \in CommandType : SentOne(c) => FALSE
        /\ \A c \in CommandType, k \in Nat : Waiting(c, k) => FALSE
    BY <1>1, <1>3 DEF SentOne, Waiting, InChunk1
  <2>4. ASSUME NEW c \in CommandType, NEW k \in Nat, NEW cs \in Seq(CommandType), Inside(c, k, cs)
        PROVE  Inside(c, k, cs)'
    <3>1. /\ point1 = k /\ chunk1 = c /\ batch1 = Append(cs, None)
      <4>1. Taken(c, k, cs)
        BY <1>3, <2>4 DEF Inside
      <4>2. cs # <<>> => Pass(cs[1], 0) # None
        BY WithNone, NotNone
      <4> QED
        BY <1>1, <4>1, <4>2 DEF Taken
    <3>2. CASE cs = <<>>
      <4>1. b = None
        BY <3>1, <3>2, WithNone DEF b
      <4> QED
        BY <1>1, <1>3, <3>1, <3>2, <4>1 DEF Inside, Taken
    <3>3. CASE cs # <<>>
      <4>1. b = cs[1] /\ b # None /\ Tail(batch1) = Append(Tail(cs), None)
        BY <3>1, <3>3, WithNone DEF b
      <4> QED
        BY <1>1, <1>3, <3>1, <3>3, <4>1 DEF Inside, Taken
    <3> QED
      BY <3>2, <3>3
  <2> QED
    BY <2>1, <2>2, <2>3, <2>4 DEF Kept
<1> QED
  BY <1>2, <1>3

-----------------------------------------------------------------------------
(* A forward that ends on both ranks was the only thing rank 1 was at.     *)
LEMMA JoinShape ==
  ASSUME RankTypes, PipeShape, Join
  PROVE  /\ PipeShape' /\ op0' = None /\ op1' = None /\ pipe = <<>> /\ pipe' = <<>>
         /\ op1 # None /\ op0 = op1 /\ UNCHANGED <<chunk1, point1, batch1>>
         /\ \A c \in CommandType : SentOne(c) => AtRest'
         /\ \A c \in CommandType, k \in Nat :
              Inside(c, k, <<>>) => IF k = MaxPoints THEN AtRest' ELSE Waiting(c, k)'
         /\ \A c \in CommandType, k \in Nat, cs \in Seq(CommandType) :
              Inside(c, k, cs) /\ cs # <<>> => Taken(c, k, Tail(cs))'
<1>1. /\ op0 # None /\ op0 = op1 /\ op0' = None /\ op1' = None
      /\ UNCHANGED <<pipe, chunk1, point1, batch1>>
  BY DEF Join
<1>2. pipe = <<>>
  BY <1>1 DEF PipeShape, Clear1
<1>3. PipeShape'
  BY <1>1, <1>2 DEF PipeShape
<1>4. \A c \in CommandType : SentOne(c) => AtRest'
  BY <1>1, <1>2 DEF SentOne, AtRest, Clear1, InChunk1
<1>5. \A c \in CommandType, k \in Nat :
        Inside(c, k, <<>>) => IF k = MaxPoints THEN AtRest' ELSE Waiting(c, k)'
  BY <1>1, <1>2, NotNone DEF Inside, Taken, AtRest, Waiting, Clear1, InChunk1
<1>6. \A c \in CommandType, k \in Nat, cs \in Seq(CommandType) :
        Inside(c, k, cs) /\ cs # <<>> => Taken(c, k, Tail(cs))'
  BY <1>1, <1>2 DEF Inside, Taken
<1> QED
  BY <1>1, <1>2, <1>3, <1>4, <1>5, <1>6

(* Rank 0 sends only when the stream so far takes rank 1 nowhere, or to    *)
(* the point it sends.                                                     *)
LEMMA SendCmd ==
  ASSUME RankTypes, PipeShape, AtRest, NEW c \in CommandType, UNCHANGED rank1,
         pipe' = Append(pipe, [kind |-> "cmd", cmd |-> c, k |-> 0, steps |-> <<>>])
  PROVE  /\ PipeShape'
         /\ ~Collective(c.job) => AtRest'
         /\ Collective(c.job) /\ ~Preemptible(c.job) => SentOne(c)'
         /\ Collective(c.job) /\ Preemptible(c.job) => Waiting(c, 0)'
<1> DEFINE m == [kind |-> "cmd", cmd |-> c, k |-> 0, steps |-> <<>>]
<1>1. m \in Message /\ m.kind = "cmd" /\ m.cmd = c
  BY DEF Message
<1>2. pipe' = Append(pipe, m)
  OBVIOUS
<1> HIDE DEF m
<1>3. /\ Len(pipe) \in Nat /\ Len(pipe') = Len(pipe) + 1 /\ pipe' # <<>>
      /\ \A i \in 1..Len(pipe) : pipe'[i] = pipe[i]
      /\ Newest' = m
      /\ pipe = <<>> <=> Len(pipe) = 0
      /\ pipe # <<>> => pipe'[1] = pipe[1]
      /\ pipe = <<>> => pipe'[1] = m
      /\ pipe'[Len(pipe) + 1] = m
  BY <1>1, <1>2, PipeAppend DEF Newest
<1>4. Clear1' /\ (pipe'[1].kind = "pp" <=> InChunk1') /\ (pipe'[1].kind = "pp" => pipe'[1].k = point1')
  BY <1>1, <1>3 DEF PipeShape, AtRest, Clear1, InChunk1, rank1
<1>5. ASSUME NEW i \in 1..(Len(pipe') - 1)
      PROVE  /\ Easy(pipe'[i]) /\ (pipe'[i + 1].kind = "pp" <=> Opens(pipe'[i]))
             /\ (pipe'[i + 1].kind = "pp" => pipe'[i + 1].k = 0)
  <2>1. CASE i = Len(pipe)
    <3>1. pipe'[i] = Newest /\ pipe'[i + 1] = m /\ pipe # <<>>
      BY <1>3, <2>1 DEF Newest
    <3> QED
      BY <1>1, <3>1 DEF AtRest
  <2>2. CASE i # Len(pipe)
    <3>1. i \in 1..(Len(pipe) - 1) /\ pipe'[i] = pipe[i] /\ pipe'[i + 1] = pipe[i + 1]
      BY <1>3, <2>2
    <3> QED
      BY <3>1 DEF PipeShape
  <2> QED
    BY <2>1, <2>2
<1>6. PipeShape'
  BY <1>4, <1>5 DEF PipeShape, Easy, Opens
<1> QED
  BY <1>1, <1>3, <1>6 DEF AtRest, SentOne, Waiting, Easy, Opens

LEMMA SendPoint ==
  ASSUME RankTypes, PipeShape, NEW c \in CommandType, NEW k \in Nat, NEW cs \in Seq(CommandType),
         Collective(c.job), Preemptible(c.job), Waiting(c, k), UNCHANGED rank1,
         pipe' = Append(pipe, [kind |-> "pp", cmd |-> None, k |-> k, steps |-> cs])
  PROVE  PipeShape' /\ Inside(c, k + 1, cs)'
<1> DEFINE m == [kind |-> "pp", cmd |-> None, k |-> k, steps |-> cs]
<1>1. m \in Message /\ m.kind = "pp" /\ m.k = k /\ m.steps = cs
  BY DEF Message
<1>2. pipe' = Append(pipe, m)
  OBVIOUS
<1> HIDE DEF m
<1>3. /\ Len(pipe) \in Nat /\ Len(pipe') = Len(pipe) + 1 /\ pipe' # <<>>
      /\ \A i \in 1..Len(pipe) : pipe'[i] = pipe[i]
      /\ Newest' = m
      /\ pipe = <<>> <=> Len(pipe) = 0
      /\ pipe # <<>> => pipe'[1] = pipe[1] /\ pipe'[Len(pipe') - 1] = Newest
      /\ pipe = <<>> => pipe'[1] = m
      /\ pipe'[Len(pipe) + 1] = m
  BY <1>1, <1>2, PipeAppend DEF Newest
<1>4. Clear1' /\ (pipe'[1].kind = "pp" <=> InChunk1') /\ (pipe'[1].kind = "pp" => pipe'[1].k = point1')
  BY <1>1, <1>3 DEF PipeShape, Waiting, Clear1, InChunk1, rank1
<1>5. ASSUME NEW i \in 1..(Len(pipe') - 1)
      PROVE  /\ Easy(pipe'[i]) /\ (pipe'[i + 1].kind = "pp" <=> Opens(pipe'[i]))
             /\ (pipe'[i + 1].kind = "pp" => pipe'[i + 1].k = 0)
  <2>1. CASE i = Len(pipe)
    <3>1. pipe'[i] = Newest /\ pipe'[i + 1] = m /\ pipe # <<>>
      BY <1>3, <2>1 DEF Newest
    <3> QED
      BY <1>1, <3>1 DEF Waiting, Easy, Opens
  <2>2. CASE i # Len(pipe)
    <3>1. i \in 1..(Len(pipe) - 1) /\ pipe'[i] = pipe[i] /\ pipe'[i + 1] = pipe[i + 1]
      BY <1>3, <2>2
    <3> QED
      BY <3>1 DEF PipeShape
  <2> QED
    BY <2>1, <2>2
<1>6. PipeShape'
  BY <1>4, <1>5 DEF PipeShape, Easy, Opens
<1>7. Announced(c, k + 1, cs)'
  BY <1>1, <1>3 DEF Announced, Waiting, rank1
<1> QED
  BY <1>3, <1>6, <1>7 DEF Inside

(* Only steps are parked or run off the queue.                             *)
StepJobs ==
  /\ \A t \in Conns : pc[t] \in ConnPc \ {"idle", "wait"} => job[t].kind = "step"
  /\ \A t \in ToSet(pq) \cup ToSet(batch) : job[t].kind = "step"

(* gpu_lock: one thread between its acquire and its release.               *)
HasGpu == {"open", "send", "point", "inline", "join", "end", "close", "left", "leftRun", "release"}
OneHolder ==
  /\ \A t \in Conns : pc[t] \in {"leave", "send", "run"} <=> gpu = t
  /\ lpc \in HasGpu <=> gpu = Loop

InWindow == lpc \in {"point", "inline", "join"} => Preemptible(job[cur]) /\ Collective(job[cur])

-----------------------------------------------------------------------------
LEMMA CommandIs ==
  ASSUME RankTypes, NEW t \in Conns
  PROVE  Command(t) \in CommandType /\ Command(t).job = job[t]
BY DEF RankTypes, Command, CommandType

Cmds(ts) == [i \in 1..Len(ts) |-> Command(ts[i])]

LEMMA CmdsAre ==
  ASSUME RankTypes, NEW ts \in Seq(Conns)
  PROVE  /\ Cmds(ts) \in Seq(CommandType) /\ (Cmds(ts) = <<>> <=> ts = <<>>)
         /\ ts # <<>> => /\ Cmds(ts)[1] = Command(ts[1]) /\ ts[1] \in Conns
                         /\ Tail(ts) \in Seq(Conns) /\ Tail(Cmds(ts)) = Cmds(Tail(ts))
<1>1. Len(ts) \in Nat /\ \A i \in 1..Len(ts) : ts[i] \in Conns
  BY LenProperties, ElementOfSeq
<1>2. \A us \in Seq(Conns) : Cmds(us) \in Seq(CommandType) /\ Len(Cmds(us)) = Len(us)
  <2> TAKE us \in Seq(Conns)
  <2>1. Len(us) \in Nat /\ \A i \in 1..Len(us) : us[i] \in Conns
    BY LenProperties, ElementOfSeq
  <2>2. Cmds(us) \in [1..Len(us) -> CommandType]
    BY <2>1, CommandIs DEF Cmds
  <2> QED
    BY <2>1, <2>2 DEF Cmds
<1>3. Cmds(ts) = <<>> <=> ts = <<>>
  BY <1>2, EmptySeq
<1>4. ASSUME ts # <<>>
      PROVE  /\ Cmds(ts)[1] = Command(ts[1]) /\ ts[1] \in Conns
             /\ Tail(ts) \in Seq(Conns) /\ Tail(Cmds(ts)) = Cmds(Tail(ts))
  <2>1. Len(ts) \in Nat \ {0} /\ 1 \in 1..Len(ts)
    BY <1>4, EmptySeq, <1>1
  <2>2. Cmds(ts)[1] = Command(ts[1]) /\ ts[1] \in Conns
    BY <1>1, <2>1 DEF Cmds
  <2>3. /\ Tail(ts) \in Seq(Conns) /\ Len(Tail(ts)) = Len(ts) - 1
        /\ \A i \in 1..Len(Tail(ts)) : Tail(ts)[i] = ts[i + 1]
    BY <1>4, HeadTailProperties
  <2>4. /\ Tail(Cmds(ts)) \in Seq(CommandType) /\ Len(Tail(Cmds(ts))) = Len(ts) - 1
        /\ \A i \in 1..(Len(ts) - 1) : Tail(Cmds(ts))[i] = Cmds(ts)[i + 1]
    BY <1>2, <1>3, <1>4, HeadTailProperties
  <2>5. Cmds(Tail(ts)) \in Seq(CommandType) /\ Len(Cmds(Tail(ts))) = Len(ts) - 1
    BY <1>2, <2>3
  <2>6. \A i \in 1..(Len(ts) - 1) : Tail(Cmds(ts))[i] = Cmds(Tail(ts))[i]
    <3> TAKE i \in 1..(Len(ts) - 1)
    <3>1. i + 1 \in 1..Len(ts) /\ i \in 1..Len(Tail(ts))
      BY <1>1, <2>3
    <3>2. Cmds(ts)[i + 1] = Command(ts[i + 1])
      BY <3>1 DEF Cmds
    <3>3. Cmds(Tail(ts))[i] = Command(Tail(ts)[i])
      BY <3>1 DEF Cmds
    <3>4. Tail(ts)[i] = ts[i + 1] /\ Tail(Cmds(ts))[i] = Cmds(ts)[i + 1]
      BY <2>3, <2>4, <3>1
    <3> QED
      BY <3>2, <3>3, <3>4
  <2>7. Tail(Cmds(ts)) = Cmds(Tail(ts))
    BY <2>4, <2>5, <2>6, SeqEqual
  <2> QED
    BY <2>2, <2>3, <2>7
<1> QED
  BY <1>2, <1>3, <1>4

LEMMA Sent ==
  ASSUME RankTypes
  PROVE  /\ \A t \in Conns : /\ Cmd(t) \in Message
                             /\ Cmd(t) = [kind |-> "cmd", cmd |-> Command(t), k |-> 0, steps |-> <<>>]
         /\ \A k \in Nat, ts \in Seq(Conns) :
              /\ Point(k, ts) \in Message
              /\ Point(k, ts) = [kind |-> "pp", cmd |-> None, k |-> k, steps |-> Cmds(ts)]
<1>1. \A t \in Conns : Cmd(t) \in Message
  BY CommandIs DEF Cmd, Message
<1>2. \A ts : Point(point, ts).steps = Cmds(ts)
  BY DEF Point, Cmds
<1>3. \A k \in Nat, ts \in Seq(Conns) : Point(k, ts) = [kind |-> "pp", cmd |-> None, k |-> k, steps |-> Cmds(ts)]
  BY DEF Point, Cmds
<1>4. \A k \in Nat, ts \in Seq(Conns) : Point(k, ts) \in Message
  BY <1>3, CmdsAre DEF Message
<1> QED
  BY <1>1, <1>3, <1>4 DEF Cmd

LEMMA TypesStep ==
  ASSUME PlaceInv, PlaceInv', RankTypes, [Next]_vars
  PROVE  RankTypes'
<1>1. job' \in [Conns -> JobType] /\ asked' \in [Conns -> Nat]
  <2>1. CASE UNCHANGED <<job, asked>>
    BY <2>1 DEF RankTypes
  <2>2. CASE \E t \in Conns : Request(t)
    BY <2>2, QueueAssumption DEF Request, RankTypes
  <2>3. CASE \E t \in Conns : Answer(t)
    <3>1. AnyJob \in JobType
      BY QueueAssumption DEF AnyJob
    <3> QED
      BY <2>3, <3>1 DEF Answer, RankTypes
  <2>4. [Next]_vars => \/ UNCHANGED <<job, asked>>
                       \/ \E t \in Conns : Request(t)
                       \/ \E t \in Conns : Answer(t)
    BY DEF Next, vars, conn, ConnStep, Park, Enter, LockGpu, LeaveCv, SendStep, EndStep,
           LoopStep, Get, TakeCv, LoopLock, Open, SendJob, TakePoint, RunInline, EndInline, Layer,
           EndJob, Close, SendLeft, EndLeft, Release, Rank1Step, Recv1, Point1, Run1, Join, AllAnswered
  <2> QED
    BY <2>1, <2>2, <2>3, <2>4
<1>2. point' \in Nat
  <2>1. [Next]_vars => point' \in {point, 0, point + 1}
    BY DEF Next, vars, loop, Request, ConnStep, Park, Enter, LockGpu, LeaveCv, SendStep, EndStep, Answer,
           LoopStep, Get, TakeCv, LoopLock, Open, SendJob, TakePoint, RunInline, EndInline, Layer,
           EndJob, Close, SendLeft, EndLeft, Release, Rank1Step, Recv1, Point1, Run1, Join, AllAnswered
  <2> QED
    BY <2>1 DEF RankTypes
<1>3. /\ pipe' \in Seq(Message)
  <2>1. CASE \E t \in Conns : SendStep(t)
    BY <2>1, Sent, PipeAppend DEF SendStep, Send
  <2>2. CASE SendJob
    <3>1. cur \in Conns
      BY <2>2, QueueAssumption DEF SendJob, PlaceInv, PlaceTypes, LoopHolds
    <3> QED
      BY <2>2, <3>1, Sent, PipeAppend DEF SendJob, Send
  <2>3. CASE SendLeft
    <3>1. batch[1] \in Conns
      BY <2>3, OccursTail DEF SendLeft, PlaceInv, PlaceTypes
    <3> QED
      BY <2>3, <3>1, Sent, PipeAppend DEF SendLeft, Send
  <2>4. CASE TakePoint
    <3>1. batch' \in Seq(Conns) /\ pipe' = Append(pipe, Point(point, batch')) /\ point \in Nat
      BY <2>4 DEF TakePoint, Send, PlaceInv, PlaceTypes, RankTypes
    <3> QED
      BY <3>1, Sent, PipeAppend
  <2>5. CASE UNCHANGED pipe
    BY <2>5 DEF RankTypes
  <2>6. CASE Recv1 \/ Point1
    BY <2>6, PipeTail DEF Recv1, Point1
  <2>7. [Next]_vars => \/ UNCHANGED pipe \/ Recv1 \/ Point1
                       \/ (\E t \in Conns : SendStep(t)) \/ SendJob \/ SendLeft \/ TakePoint
    BY DEF Next, vars, Request, ConnStep, Park, Enter, LockGpu, LeaveCv, EndStep, Answer,
           LoopStep, Get, TakeCv, LoopLock, Open, RunInline, EndInline, Layer,
           EndJob, Close, EndLeft, Release, Rank1Step, Run1, Join, AllAnswered
  <2> QED
    BY <2>1, <2>2, <2>3, <2>4, <2>5, <2>6, <2>7
<1>4. point1' \in Nat /\ batch1' \in Seq(CommandType \cup {None}) /\ chunk1' \in CommandType \cup {None}
  <2>1. CASE Recv1
    <3>1. pipe[1] \in Message
      BY <2>1, PipeTail DEF Recv1
    <3> QED
      BY <2>1, <3>1, MessageShape DEF Recv1, RankTypes
  <2>2. CASE Point1
    <3>1. pipe[1] \in Message
      BY <2>2, PipeTail DEF Point1
    <3>2. pipe[1].kind = "pp" => Append(pipe[1].steps, None) \in Seq(CommandType \cup {None})
      BY <3>1, MessageShape, WithNone
    <3>3. CASE pipe[1].kind = "pp" /\ pipe[1].k = point1
      <4>1. batch1' = Append(pipe[1].steps, None) /\ point1' = point1 + 1 /\ chunk1' = chunk1
        BY <2>2, <3>3 DEF Point1
      <4> QED
        BY <3>2, <3>3, <4>1 DEF RankTypes
    <3>4. CASE ~(pipe[1].kind = "pp" /\ pipe[1].k = point1)
      BY <2>2, <3>4 DEF Point1, RankTypes
    <3> QED
      BY <3>3, <3>4
  <2>3. CASE Run1
    <3>1. Tail(batch1) \in Seq(CommandType \cup {None}) /\ <<>> \in Seq(CommandType \cup {None})
      BY <2>3, HeadTailProperties DEF Run1, RankTypes
    <3> QED
      BY <2>3, <3>1 DEF Run1, RankTypes
  <2>4. CASE UNCHANGED <<chunk1, point1, batch1>>
    BY <2>4 DEF RankTypes
  <2>5. [Next]_vars => Recv1 \/ Point1 \/ Run1 \/ UNCHANGED <<chunk1, point1, batch1>>
    BY DEF Next, vars, rank1, Request, ConnStep, Park, Enter, LockGpu, LeaveCv, SendStep, EndStep, Answer,
           LoopStep, Get, TakeCv, LoopLock, Open, SendJob, TakePoint, RunInline, EndInline, Layer,
           EndJob, Close, SendLeft, EndLeft, Release, Rank1Step, Join, AllAnswered
  <2> QED
    BY <2>1, <2>2, <2>3, <2>4, <2>5
<1> QED
  BY <1>1, <1>2, <1>3, <1>4 DEF RankTypes

LEMMA HolderStep ==
  ASSUME PlaceInv, OneHolder, [Next]_vars
  PROVE  OneHolder'
<1>0. /\ \A t \in Conns : t # Loop /\ t # None
      /\ None # Loop /\ pc \in [Conns -> ConnPc]
  BY QueueAssumption DEF PlaceInv, PlaceTypes
<1>1. ASSUME NEW t \in Conns, Request(t) \/ ConnStep(t) PROVE OneHolder'
  <2>1. \A u \in Conns : u # t => pc'[u] = pc[u]
    BY <1>0, <1>1 DEF Request, ConnStep, Park, Enter, LockGpu, LeaveCv, SendStep, EndStep, Answer, Goto
  <2>2. lpc' = lpc \/ (lpc = "sleep" /\ lpc' = "cv")
    BY <1>1 DEF Request, ConnStep, Park, Enter, LockGpu, LeaveCv, SendStep, EndStep, Answer, loop
  <2>3. CASE LockGpu(t)
    <3>1. pc[t] = "lock" /\ gpu = None /\ gpu' = t /\ pc'[t] = "leave" /\ lpc' = lpc
      BY <1>0, <2>3 DEF LockGpu, Goto, loop
    <3> QED
      BY <1>0, <2>1, <3>1 DEF OneHolder
  <2>4. CASE EndStep(t)
    <3>1. pc[t] = "run" /\ gpu' = None /\ pc'[t] = "wait" /\ lpc' = lpc
      BY <1>0, <2>4 DEF EndStep, Goto, loop
    <3> QED
      BY <1>0, <2>1, <3>1 DEF OneHolder
  <2>5. CASE ~LockGpu(t) /\ ~EndStep(t)
    <3>1. gpu' = gpu /\ (pc'[t] \in {"leave", "send", "run"} <=> pc[t] \in {"leave", "send", "run"})
      BY <1>0, <1>1, <2>5 DEF Request, ConnStep, Park, Enter, LeaveCv, SendStep, Answer, Goto, locks
    <3> QED
      BY <2>1, <2>2, <3>1 DEF OneHolder, HasGpu
  <2> QED
    BY <2>3, <2>4, <2>5
<1>2. CASE LoopLock
  <2>1. lpc = "lock" /\ gpu = None /\ gpu' = Loop /\ pc' = pc /\ lpc' \in {"open", "send"}
    BY <1>2 DEF LoopLock, conn
  <2> QED
    BY <1>0, <2>1 DEF OneHolder, HasGpu
<1>3. CASE Release
  <2>1. lpc \in {"release", "left"} /\ gpu' = None /\ pc' = pc /\ lpc' = "get"
    BY <1>3 DEF Release, conn
  <2> QED
    BY <1>0, <2>1 DEF OneHolder, HasGpu
<1>4. CASE LoopStep /\ ~LoopLock /\ ~Release
  <2>1. gpu' = gpu /\ pc' = pc /\ (lpc' \in HasGpu <=> lpc \in HasGpu)
    BY <1>4 DEF LoopStep, Get, TakeCv, Open, SendJob, TakePoint, RunInline, EndInline, Layer,
                EndJob, Close, SendLeft, EndLeft, conn, locks, HasGpu
  <2> QED
    BY <2>1 DEF OneHolder
<1>5. CASE Rank1Step \/ Join \/ AllAnswered \/ UNCHANGED vars
  <2>1. UNCHANGED <<gpu, pc, lpc>>
    BY <1>5 DEF Rank1Step, Recv1, Point1, Run1, Join, AllAnswered, vars, conn, loop, locks
  <2> QED
    BY <2>1 DEF OneHolder
<1> QED
  BY <1>1, <1>2, <1>3, <1>4, <1>5 DEF Next

(* Where rank 0 is, and where its messages are taking rank 1: the same     *)
(* way.                                                                    *)
Chunk0 == Command(cur)
Steps0 == Cmds(batch)
InForward(c) == Collective(c.job) /\ ~Preemptible(c.job) /\ op0 = Pass(c, 0) /\ SentOne(c)
Running(c) == (op0 = None /\ AtRest) \/ InForward(c)
InLayers == op0 = Pass(Chunk0, point) /\ Inside(Chunk0, point, <<>>)
Between == lpc \notin {"point", "inline", "join", "end", "leftRun"} /\ \A t \in Conns : pc[t] # "run"

Stance ==
  /\ lpc = "point" => point # MaxPoints /\ ((op0 = None /\ Waiting(Chunk0, point)) \/ InLayers)
  /\ lpc = "inline" => op0 = None /\ Inside(Chunk0, point, Steps0)
  /\ lpc = "join" => \/ op0 = None /\ pipe = <<>> /\ Taken(Chunk0, point, Tail(Steps0))
                     \/ op0 = Pass(Steps0[1], 0) /\ ~Steps0[1].job.bad /\ Inside(Chunk0, point, Steps0)
  /\ lpc = "end" => Running(Chunk0) \/ (point = MaxPoints /\ InLayers)
  /\ lpc = "leftRun" => Running(Steps0[1])
  /\ \A t \in Conns : pc[t] = "run" => Running(Command(t))
  /\ Between => op0 = None /\ AtRest

RanksInv == PlaceInv /\ RankTypes /\ StepJobs /\ OneHolder /\ InWindow /\ PipeShape /\ Stance

-----------------------------------------------------------------------------
LEMMA Held ==
  ASSUME PlaceInv
  PROVE  /\ lpc # "get" => cur \in Conns
         /\ batch # <<>> => batch[1] \in Conns /\ batch[1] \in ToSet(batch) /\ Tail(batch) \in Seq(Conns)
         /\ lpc \in {"join", "leftRun"} => batch # <<>>
         /\ ToSet(batch) \subseteq Conns /\ ToSet(pq) \subseteq Conns
<1>1. ASSUME batch # <<>> PROVE batch[1] \in ToSet(batch)
  <2>1. 1 \in 1..Len(batch) /\ DOMAIN batch = 1..Len(batch)
    BY <1>1, EmptySeq, LenProperties DEF PlaceInv, PlaceTypes
  <2> QED
    BY <2>1 DEF ToSet
<1>2. ToSet(batch) \subseteq Conns /\ ToSet(pq) \subseteq Conns
  BY LenProperties, ElementOfSeq DEF PlaceInv, PlaceTypes, ToSet
<1> QED
  BY <1>1, <1>2, OccursTail DEF PlaceInv, PlaceTypes, LoopHolds

LEMMA HeldCommands ==
  ASSUME PlaceInv, RankTypes
  PROVE  /\ lpc # "get" => Chunk0 \in CommandType /\ Chunk0.job = job[cur]
         /\ Steps0 \in Seq(CommandType) /\ (Steps0 = <<>> <=> batch = <<>>)
         /\ batch # <<>> => /\ Steps0[1] = Command(batch[1]) /\ Steps0[1] \in CommandType
                            /\ Steps0[1].job = job[batch[1]] /\ Tail(Steps0) = Cmds(Tail(batch))
BY Held, CmdsAre, CommandIs DEF Chunk0, Steps0, PlaceInv, PlaceTypes

(* The record of a request that the loop holds does not change.            *)
LEMMA RecordsStay ==
  ASSUME PlaceInv, PlaceInv', RankTypes, [Next]_vars
  PROVE  /\ \A t \in Conns : pc[t] \notin {"idle", "wait"} => UNCHANGED <<job[t], asked[t]>>
         /\ \A t \in ToSet(batch) \cup ToSet(pq) : UNCHANGED <<job[t], asked[t]>>
         /\ lpc \notin Over \cup {"get"} => UNCHANGED <<job[cur], asked[cur]>>
<1>1. ASSUME NEW t \in Conns, ~(pc[t] = "idle" \/ (pc[t] = "wait" /\ done[t]))
      PROVE  job'[t] = job[t] /\ asked'[t] = asked[t]
  <2>1. CASE UNCHANGED <<job, asked>>
    BY <2>1
  <2>2. CASE \E u \in Conns : Request(u)
    BY <1>1, <2>2 DEF Request, RankTypes
  <2>3. CASE \E u \in Conns : Answer(u)
    BY <1>1, <2>3 DEF Answer, RankTypes
  <2>4. [Next]_vars => \/ UNCHANGED <<job, asked>>
                       \/ \E u \in Conns : Request(u)
                       \/ \E u \in Conns : Answer(u)
    BY DEF Next, vars, conn, ConnStep, Park, Enter, LockGpu, LeaveCv, SendStep, EndStep,
           LoopStep, Get, TakeCv, LoopLock, Open, SendJob, TakePoint, RunInline, EndInline, Layer,
           EndJob, Close, SendLeft, EndLeft, Release, Rank1Step, Recv1, Point1, Run1, Join, AllAnswered
  <2> QED
    BY <2>1, <2>2, <2>3, <2>4
<1>2. ASSUME NEW t \in ToSet(batch) \cup ToSet(pq) PROVE t \in Conns /\ pc[t] = "wait" /\ ~done[t]
  BY Held, Placed
<1>3. lpc \notin Over \cup {"get"} => cur \in Conns /\ pc[cur] = "wait" /\ ~done[cur]
  BY Held, Placed
<1>4. ASSUME lpc \notin Over \cup {"get"} PROVE job'[cur] = job[cur] /\ asked'[cur] = asked[cur]
  BY <1>1, <1>3, <1>4
<1>5. \A t \in ToSet(batch) \cup ToSet(pq) : job'[t] = job[t] /\ asked'[t] = asked[t]
  BY <1>1, <1>2
<1>6. \A t \in Conns : pc[t] \notin {"idle", "wait"} => job'[t] = job[t] /\ asked'[t] = asked[t]
  BY <1>1
<1>7. [Next]_vars /\ lpc \notin Over \cup {"get"} => cur' = cur
  BY DEF Next, vars, loop, Request, ConnStep, Park, Enter, LockGpu, LeaveCv, SendStep, EndStep, Answer,
         LoopStep, Get, TakeCv, LoopLock, Open, SendJob, TakePoint, RunInline, EndInline, Layer,
         EndJob, Close, SendLeft, EndLeft, Release, Rank1Step, Recv1, Point1, Run1, Join, AllAnswered, Over
<1> QED
  BY <1>4, <1>5, <1>6, <1>7

LEMMA CommandsStay ==
  ASSUME PlaceInv, PlaceInv', RankTypes, [Next]_vars
  PROVE  /\ lpc \notin Over \cup {"get"} => cur' = cur /\ Chunk0' = Chunk0
         /\ \A t \in Conns : pc[t] \notin {"idle", "wait"} => Command(t)' = Command(t)
         /\ \A t \in ToSet(batch) \cup ToSet(pq) : Command(t)' = Command(t)
         /\ batch' = batch => Steps0' = Steps0
<1>1. [Next]_vars /\ lpc \notin Over \cup {"get"} => cur' = cur
  BY DEF Next, vars, loop, Request, ConnStep, Park, Enter, LockGpu, LeaveCv, SendStep, EndStep, Answer,
         LoopStep, Get, TakeCv, LoopLock, Open, SendJob, TakePoint, RunInline, EndInline, Layer,
         EndJob, Close, SendLeft, EndLeft, Release, Rank1Step, Recv1, Point1, Run1, Join, AllAnswered, Over
<1>2. lpc \notin Over \cup {"get"} => Chunk0' = Chunk0
  BY <1>1, RecordsStay DEF Chunk0, Command
<1>3. \A t \in Conns : pc[t] \notin {"idle", "wait"} => Command(t)' = Command(t)
  BY RecordsStay DEF Command
<1>4. \A t \in ToSet(batch) \cup ToSet(pq) : Command(t)' = Command(t)
  BY RecordsStay DEF Command
<1>5. ASSUME batch' = batch PROVE Steps0' = Steps0
  <2>1. \A i \in 1..Len(batch) : batch[i] \in ToSet(batch)
    BY LenProperties DEF PlaceInv, PlaceTypes, ToSet
  <2>2. \A i \in 1..Len(batch) : Command(batch[i])' = Command(batch[i])
    BY <1>4, <1>5, <2>1
  <2> QED
    BY <1>5, <2>2 DEF Steps0, Cmds
<1> QED
  BY <1>1, <1>2, <1>3, <1>4, <1>5

LEMMA StreamStill ==
  ASSUME PipeShape, UNCHANGED <<pipe, op1, chunk1, point1, batch1>>
  PROVE  /\ PipeShape' /\ (AtRest => AtRest')
         /\ \A c : SentOne(c) => SentOne(c)'
         /\ \A c, k : Waiting(c, k) => Waiting(c, k)'
         /\ \A c, k, cs : Inside(c, k, cs) => Inside(c, k, cs)'
         /\ \A c, k, cs : Taken(c, k, cs) => Taken(c, k, cs)'
<1>1. PipeShape'
  BY DEF PipeShape, Clear1, InChunk1, Easy, Opens
<1>2. AtRest => AtRest'
  BY DEF AtRest, Clear1, InChunk1, Newest, Easy, Opens
<1>3. \A c : SentOne(c) => SentOne(c)'
  BY DEF SentOne, Newest
<1>4. \A c, k : Waiting(c, k) => Waiting(c, k)'
  BY DEF Waiting, Clear1, InChunk1, Newest
<1>5. \A c, k, cs : Taken(c, k, cs) => Taken(c, k, cs)'
  BY DEF Taken
<1>6. \A c, k, cs : Announced(c, k, cs) => Announced(c, k, cs)'
  BY DEF Announced, Newest
<1> QED
  BY <1>1, <1>2, <1>3, <1>4, <1>5, <1>6 DEF Inside

(* The loop is in a window, in a forward, or outside: one conjunct of      *)
(* Stance tells where.                                                     *)
LEMMA Alone ==
  ASSUME OneHolder
  PROVE  /\ lpc \in HasGpu => \A t \in Conns : pc[t] \notin {"leave", "send", "run"}
         /\ \A t \in Conns : pc[t] \in {"leave", "send", "run"} =>
              lpc \notin HasGpu /\ \A u \in Conns \ {t} : pc[u] \notin {"leave", "send", "run"}
BY QueueAssumption DEF OneHolder

(* Rank 1 moves on.                                                        *)
LEMMA Rank1Stance ==
  ASSUME RanksInv, PlaceInv', [Next]_vars, Rank1Step
  PROVE  PipeShape' /\ Stance'
<1>1. Kept
  BY Recv1Keeps, Point1Keeps, Run1Keeps DEF Rank1Step, RanksInv
<1>2. UNCHANGED <<pc, job, asked, lpc, cur, batch, point, op0>> /\ (pipe = <<>> => pipe' = <<>>)
  BY DEF Rank1Step, Recv1, Point1, Run1, conn, loop
<1>3. /\ Chunk0' = Chunk0 /\ Steps0' = Steps0 /\ \A t : Command(t)' = Command(t)
  BY <1>2 DEF Chunk0, Steps0, Cmds, Command
<1>4. /\ lpc # "get" => Chunk0 \in CommandType /\ Chunk0.job = job[cur]
      /\ Steps0 \in Seq(CommandType)
      /\ lpc \in {"join", "leftRun"} => Steps0[1] \in CommandType /\ Tail(Steps0) \in Seq(CommandType)
      /\ \A t \in Conns : Command(t) \in CommandType
      /\ point \in Nat
  <2>1. lpc \in {"join", "leftRun"} => /\ Steps0[1] \in CommandType
                                       /\ Tail(Steps0) = Cmds(Tail(batch)) /\ Tail(batch) \in Seq(Conns)
    BY Held, HeldCommands DEF RanksInv
  <2> QED
    BY <2>1, HeldCommands, CmdsAre, CommandIs DEF RanksInv, RankTypes
<1>5. \A c \in CommandType : Running(c) => Running(c)'
  BY <1>1, <1>2 DEF Kept, Running, InForward
<1>6. lpc # "get" => (InLayers => InLayers')
  <2>1. <<>> \in Seq(CommandType)
    OBVIOUS
  <2> QED
    BY <1>1, <1>2, <1>3, <1>4, <2>1 DEF Kept, InLayers
<1>7. lpc = "point" => point # MaxPoints /\ ((op0' = None /\ Waiting(Chunk0, point)') \/ InLayers')
  BY <1>1, <1>2, <1>3, <1>4, <1>6 DEF Kept, RanksInv, Stance, InWindow
<1>8. lpc = "inline" => op0' = None /\ Inside(Chunk0, point, Steps0)'
  BY <1>1, <1>2, <1>3, <1>4 DEF Kept, RanksInv, Stance
<1>9. lpc = "join" => \/ op0' = None /\ pipe' = <<>> /\ Taken(Chunk0, point, Tail(Steps0))'
                      \/ op0' = Pass(Steps0[1], 0) /\ ~Steps0[1].job.bad /\ Inside(Chunk0, point, Steps0)'
  <2> SUFFICES ASSUME lpc = "join" PROVE \/ op0' = None /\ pipe' = <<>> /\ Taken(Chunk0, point, Tail(Steps0))'
                                         \/ op0' = Pass(Steps0[1], 0) /\ ~Steps0[1].job.bad /\ Inside(Chunk0, point, Steps0)'
    OBVIOUS
  <2>1. CASE op0 = None /\ pipe = <<>> /\ Taken(Chunk0, point, Tail(Steps0))
    <3>1. Inside(Chunk0, point, Tail(Steps0))
      BY <2>1 DEF Inside
    <3>2. Inside(Chunk0, point, Tail(Steps0))'
      BY <1>1, <1>2, <1>3, <1>4, <3>1 DEF Kept
    <3> QED
      BY <1>2, <2>1, <3>2 DEF Inside
  <2>2. CASE op0 = Pass(Steps0[1], 0) /\ ~Steps0[1].job.bad /\ Inside(Chunk0, point, Steps0)
    BY <1>1, <1>2, <1>3, <1>4, <2>2 DEF Kept
  <2> QED
    BY <2>1, <2>2 DEF RanksInv, Stance
<1>10. Between' => op0' = None /\ AtRest'
  BY <1>1, <1>2 DEF Kept, RanksInv, Stance, Between
<1>11. lpc = "end" => Running(Chunk0)' \/ (point = MaxPoints /\ InLayers')
  BY <1>2, <1>3, <1>4, <1>5, <1>6 DEF RanksInv, Stance
<1>12. lpc = "leftRun" => Running(Steps0[1])'
  BY <1>2, <1>3, <1>4, <1>5 DEF RanksInv, Stance
<1>13. \A t \in Conns : pc[t] = "run" => Running(Command(t))'
  BY <1>3, <1>4, <1>5 DEF RanksInv, Stance
<1>14. PipeShape'
  BY <1>1 DEF Kept
<1> QED
  BY <1>2, <1>3, <1>7, <1>8, <1>9, <1>10, <1>11, <1>12, <1>13, <1>14 DEF Stance

LEMMA JoinStance ==
  ASSUME RanksInv, Join
  PROVE  PipeShape' /\ Stance'
<1>1. /\ UNCHANGED <<pc, job, asked, lpc, cur, batch, point, chunk1, point1, batch1>>
      /\ op0 # None /\ op0' = None /\ op1' = None /\ pipe' = <<>> /\ pipe = <<>> /\ PipeShape'
  BY JoinShape DEF Join, conn, loop, RanksInv
<1>2. /\ \A c \in CommandType : SentOne(c) => AtRest'
      /\ \A c \in CommandType, k \in Nat :
           Inside(c, k, <<>>) => IF k = MaxPoints THEN AtRest' ELSE Waiting(c, k)'
      /\ \A c \in CommandType, k \in Nat, cs \in Seq(CommandType) :
           Inside(c, k, cs) /\ cs # <<>> => Taken(c, k, Tail(cs))'
  BY JoinShape DEF RanksInv
<1>3. /\ Chunk0' = Chunk0 /\ Steps0' = Steps0 /\ \A t : Command(t)' = Command(t)
  BY <1>1 DEF Chunk0, Steps0, Cmds, Command
<1>4. /\ lpc # "get" => Chunk0 \in CommandType
      /\ Steps0 \in Seq(CommandType) /\ (lpc \in {"join", "leftRun"} => Steps0 # <<>> /\ Steps0[1] \in CommandType)
      /\ \A t \in Conns : Command(t) \in CommandType
      /\ point \in Nat
  BY Held, HeldCommands, CommandIs DEF RanksInv, RankTypes
<1>5. \A c \in CommandType : Running(c) => Running(c)'
  BY <1>1, <1>2 DEF Running, InForward
<1>6. lpc = "point" => point # MaxPoints /\ op0' = None /\ Waiting(Chunk0, point)'
  BY <1>1, <1>2, <1>3, <1>4 DEF RanksInv, Stance, InLayers
<1>7. lpc # "inline"
  BY <1>1 DEF RanksInv, Stance
<1>8. lpc = "join" => op0' = None /\ pipe' = <<>> /\ Taken(Chunk0, point, Tail(Steps0))'
  BY <1>1, <1>2, <1>3, <1>4 DEF RanksInv, Stance
<1>9. lpc = "end" => Running(Chunk0)'
  BY <1>1, <1>2, <1>3, <1>4, <1>5 DEF RanksInv, Stance, InLayers, Running
<1>10. lpc = "leftRun" => Running(Steps0[1])'
  BY <1>1, <1>3, <1>4, <1>5 DEF RanksInv, Stance
<1>11. \A t \in Conns : pc[t] = "run" => Running(Command(t))'
  BY <1>3, <1>4, <1>5 DEF RanksInv, Stance
<1>12. ~Between
  BY <1>1 DEF RanksInv, Stance
<1> QED
  BY <1>1, <1>3, <1>6, <1>7, <1>8, <1>9, <1>10, <1>11, <1>12 DEF Stance, Between

(* Steps that touch neither rank 1 nor the pipe nor op0.                   *)
LEMMA StanceFrame ==
  ASSUME RanksInv, PlaceInv', [Next]_vars,
         UNCHANGED <<pipe, op0, op1, chunk1, point1, batch1, batch, point>>,
         \/ lpc' = lpc
         \/ {lpc, lpc'} \cap {"point", "inline", "join", "end", "leftRun"} = {},
         \A t \in Conns : pc'[t] = "run" <=> pc[t] = "run"
  PROVE  PipeShape' /\ Stance'
<1>1. /\ PipeShape' /\ (AtRest => AtRest')
      /\ \A c : SentOne(c) => SentOne(c)'
      /\ \A c, k : Waiting(c, k) => Waiting(c, k)'
      /\ \A c, k, cs : Inside(c, k, cs) => Inside(c, k, cs)'
      /\ \A c, k, cs : Taken(c, k, cs) => Taken(c, k, cs)'
  BY StreamStill DEF RanksInv
<1>2. /\ lpc \in {"point", "inline", "join", "end"} => Chunk0' = Chunk0
      /\ Steps0' = Steps0
      /\ \A t \in Conns : pc[t] = "run" => Command(t)' = Command(t)
  BY CommandsStay DEF RanksInv, Over
<1>3. \A c : Running(c) => Running(c)'
  BY <1>1 DEF Running, InForward
<1>4. lpc \in {"point", "end"} => (InLayers => InLayers')
  BY <1>1, <1>2 DEF InLayers
<1>5. Between' <=> Between
  BY DEF Between
<1>6. /\ lpc' = "point" => point # MaxPoints /\ ((op0' = None /\ Waiting(Chunk0, point)') \/ InLayers')
      /\ lpc' = "inline" => op0' = None /\ Inside(Chunk0, point, Steps0)'
      /\ lpc' = "join" => \/ op0' = None /\ pipe' = <<>> /\ Taken(Chunk0, point, Tail(Steps0))'
                          \/ op0' = Pass(Steps0[1], 0)' /\ (~Steps0[1].job.bad)' /\ Inside(Chunk0, point, Steps0)'
  BY <1>1, <1>2, <1>4 DEF RanksInv, Stance
<1>7. /\ lpc' = "end" => Running(Chunk0)' \/ (point = MaxPoints /\ InLayers')
      /\ lpc' = "leftRun" => Running(Steps0[1])'
  BY <1>2, <1>3, <1>4 DEF RanksInv, Stance
<1>8. \A t \in Conns : pc'[t] = "run" => Running(Command(t))'
  BY <1>2, <1>3 DEF RanksInv, Stance
<1>9. Between' => op0' = None /\ AtRest'
  BY <1>1, <1>5 DEF RanksInv, Stance
<1> QED
  BY <1>1, <1>6, <1>7, <1>8, <1>9 DEF Stance

LEMMA ConnStance ==
  ASSUME RanksInv, PlaceInv', [Next]_vars, NEW t \in Conns, Request(t) \/ ConnStep(t)
  PROVE  PipeShape' /\ Stance'
<1>0. pc \in [Conns -> ConnPc]
  BY DEF RanksInv, PlaceInv, PlaceTypes
<1>1. CASE SendStep(t)
  <2>1. /\ pc[t] = "send" /\ pipe' = Append(pipe, Cmd(t)) /\ op0' = Execute(t)
        /\ pc' = [pc EXCEPT ![t] = "run"] /\ UNCHANGED <<job, asked, lpc>> /\ UNCHANGED rank1
    BY <1>1 DEF SendStep, Send, Goto, loop
  <2>2. lpc \notin HasGpu /\ \A u \in Conns \ {t} : pc[u] # "run"
    BY <2>1, Alone DEF RanksInv
  <2>3. op0 = None /\ AtRest
    BY <2>1, <2>2 DEF RanksInv, Stance, Between, HasGpu
  <2>4. /\ Command(t) \in CommandType /\ Command(t).job = job[t] /\ job[t].kind = "step"
        /\ Command(t)' = Command(t)
    BY <2>1, CommandIs DEF RanksInv, StepJobs, ConnPc, Command
  <2>5. /\ PipeShape'
        /\ ~Collective(job[t]) => AtRest'
        /\ Collective(job[t]) => SentOne(Command(t))'
    BY <2>1, <2>3, <2>4, SendCmd DEF RanksInv, Cmd, Preemptible
  <2>6. Running(Command(t))'
    BY <2>1, <2>4, <2>5 DEF Running, InForward, Execute, Preemptible
  <2>7. \A u \in Conns : pc'[u] = "run" => u = t
    BY <1>0, <2>1, <2>2
  <2>8. pc'[t] = "run"
    BY <1>0, <2>1
  <2> QED
    BY <2>1, <2>2, <2>5, <2>6, <2>7, <2>8 DEF Stance, Between, HasGpu
<1>2. CASE EndStep(t)
  <2>1. /\ pc[t] = "run" /\ op0 = None /\ pc' = [pc EXCEPT ![t] = "wait"]
        /\ UNCHANGED <<pipe, op0, op1, chunk1, point1, batch1, lpc>>
    BY <1>2 DEF EndStep, Goto, loop, rank1
  <2>2. lpc \notin HasGpu /\ \A u \in Conns \ {t} : pc[u] # "run"
    BY <2>1, Alone DEF RanksInv
  <2>3. AtRest
    <3>1. Pass(Command(t), 0) # None
      BY CommandIs, NotNone DEF RanksInv
    <3> QED
      BY <2>1, <3>1 DEF RanksInv, Stance, Running, InForward
  <2>4. PipeShape' /\ AtRest'
    BY <2>1, <2>3, StreamStill DEF RanksInv
  <2>5. \A u \in Conns : pc'[u] # "run"
    BY <1>0, <2>1, <2>2
  <2> QED
    BY <2>1, <2>2, <2>4, <2>5 DEF Stance, HasGpu
<1>3. CASE ~SendStep(t) /\ ~EndStep(t)
  <2>1. UNCHANGED <<pipe, op0, op1, chunk1, point1, batch1, batch, point>>
    BY <1>3 DEF Request, ConnStep, Park, Enter, LockGpu, LeaveCv, Answer, loop, rank1
  <2>2. lpc' = lpc \/ {lpc, lpc'} \cap {"point", "inline", "join", "end", "leftRun"} = {}
    <3>1. lpc' = lpc \/ (lpc = "sleep" /\ lpc' = "cv")
      BY <1>3 DEF Request, ConnStep, Park, Enter, LockGpu, LeaveCv, Answer, loop
    <3> QED
      BY <3>1
  <2>3. \A u \in Conns : pc'[u] = "run" <=> pc[u] = "run"
    BY <1>0, <1>3 DEF Request, ConnStep, Park, Enter, LockGpu, LeaveCv, Answer, Goto
  <2> QED
    BY <2>1, <2>2, <2>3, StanceFrame
<1> QED
  BY <1>1, <1>2, <1>3

-----------------------------------------------------------------------------
(* What is left to show for a step of the loop while it has the GPU.       *)
LEMMA LoopHasGpu ==
  ASSUME RanksInv, lpc \in HasGpu, pc' = pc
  PROVE  /\ \A t \in Conns : pc'[t] # "run"
         /\ Between <=> lpc \notin {"point", "inline", "join", "end", "leftRun"}
         /\ Between' <=> lpc' \notin {"point", "inline", "join", "end", "leftRun"}
         /\ lpc' = "point" /\ point' # MaxPoints /\ ((op0 = None /\ Waiting(Chunk0, point))' \/ InLayers')
              => Stance'
         /\ lpc' = "inline" /\ (op0 = None /\ Inside(Chunk0, point, Steps0))' => Stance'
         /\ lpc' = "end" /\ (Running(Chunk0)' \/ (point' = MaxPoints /\ InLayers')) => Stance'
         /\ lpc' = "leftRun" /\ Running(Steps0[1])' => Stance'
         /\ lpc' \notin {"point", "inline", "join", "end", "leftRun"} /\ (op0 = None /\ AtRest)' => Stance'
<1>1. \A t \in Conns : pc[t] # "run" /\ pc'[t] # "run"
  BY Alone DEF RanksInv
<1>2. /\ Between <=> lpc \notin {"point", "inline", "join", "end", "leftRun"}
      /\ Between' <=> lpc' \notin {"point", "inline", "join", "end", "leftRun"}
  BY <1>1 DEF Between
<1> QED
  BY <1>1, <1>2 DEF Stance

LEMMA SendJobStance ==
  ASSUME RanksInv, SendJob
  PROVE  PipeShape' /\ Stance'
<1>1. /\ lpc = "send" /\ pipe' = Append(pipe, Cmd(cur)) /\ point' = 0
      /\ UNCHANGED <<pc, job, asked, cur, rank1>>
      /\ IF Preemptible(job[cur]) /\ Collective(job[cur]) THEN lpc' = "point" /\ op0' = None
         ELSE lpc' = "end" /\ op0' = Execute(cur)
  BY DEF SendJob, Send, conn
<1>2. lpc \in HasGpu /\ cur \in Conns
  BY <1>1, Held DEF HasGpu, RanksInv
<1>3. op0 = None /\ AtRest
  BY <1>1, <1>2, LoopHasGpu DEF RanksInv, Stance
<1>4. Chunk0 \in CommandType /\ Chunk0.job = job[cur] /\ Chunk0' = Chunk0 /\ Chunk0 = Command(cur)
  BY <1>1, <1>2, CommandIs DEF Chunk0, RanksInv, Command
<1>5. /\ PipeShape'
      /\ ~Collective(job[cur]) => AtRest'
      /\ Collective(job[cur]) /\ ~Preemptible(job[cur]) => SentOne(Chunk0)'
      /\ Collective(job[cur]) /\ Preemptible(job[cur]) => Waiting(Chunk0, 0)'
  BY <1>1, <1>3, <1>4, SendCmd DEF RanksInv, Cmd
<1>6. CASE Preemptible(job[cur]) /\ Collective(job[cur])
  <2>1. MaxPoints # 0
    BY QueueAssumption
  <2>2. Waiting(Chunk0, point)'
    BY <1>1, <1>4, <1>5, <1>6
  <2> QED
    BY <1>1, <1>2, <1>5, <1>6, <2>1, <2>2, LoopHasGpu
<1>7. CASE ~(Preemptible(job[cur]) /\ Collective(job[cur]))
  <2>1. Running(Chunk0)'
    BY <1>1, <1>4, <1>5, <1>7 DEF Running, InForward, Execute
  <2> QED
    BY <1>1, <1>2, <1>5, <1>7, <2>1, LoopHasGpu
<1> QED
  BY <1>6, <1>7

LEMMA SendLeftStance ==
  ASSUME RanksInv, SendLeft
  PROVE  PipeShape' /\ Stance'
<1>1. /\ lpc = "left" /\ batch # <<>> /\ pipe' = Append(pipe, Cmd(batch[1]))
      /\ op0' = Execute(batch[1]) /\ lpc' = "leftRun"
      /\ UNCHANGED <<pc, job, asked, batch, rank1>>
  BY DEF SendLeft, Send, conn
<1>2. lpc \in HasGpu /\ batch[1] \in Conns /\ job[batch[1]].kind = "step"
  BY <1>1, Held DEF HasGpu, RanksInv, StepJobs
<1>3. op0 = None /\ AtRest
  BY <1>1, <1>2, LoopHasGpu DEF RanksInv, Stance
<1>4. /\ Steps0[1] \in CommandType /\ Steps0[1].job = job[batch[1]] /\ Steps0[1] = Command(batch[1])
      /\ Steps0' = Steps0
  BY <1>1, HeldCommands DEF RanksInv, Steps0, Cmds, Command
<1>5. /\ PipeShape'
      /\ ~Collective(job[batch[1]]) => AtRest'
      /\ Collective(job[batch[1]]) => SentOne(Steps0[1])'
  BY <1>1, <1>2, <1>3, <1>4, SendCmd DEF RanksInv, Cmd, Preemptible
<1>6. Running(Steps0[1])'
  BY <1>1, <1>2, <1>4, <1>5 DEF Running, InForward, Execute, Preemptible
<1> QED
  BY <1>1, <1>2, <1>5, <1>6, LoopHasGpu

LEMMA TakePointStance ==
  ASSUME RanksInv, PlaceInv', [Next]_vars, TakePoint
  PROVE  PipeShape' /\ Stance'
<1>1. /\ lpc = "point" /\ op0 = None /\ pipe' = Append(pipe, Point(point, batch'))
      /\ point' = point + 1 /\ lpc' = "inline" /\ op0' = None
      /\ UNCHANGED <<pc, job, asked, cur, rank1>>
  BY DEF TakePoint, Send, conn
<1>2. /\ lpc \in HasGpu /\ cur \in Conns /\ batch' \in Seq(Conns) /\ point \in Nat
  BY <1>1, Held DEF HasGpu, RanksInv, PlaceInv, PlaceTypes, RankTypes
<1>3. /\ Chunk0 \in CommandType /\ Chunk0.job = job[cur] /\ Chunk0' = Chunk0
      /\ Collective(job[cur]) /\ Preemptible(job[cur])
  BY <1>1, <1>2, HeldCommands DEF RanksInv, InWindow, Chunk0, Command
<1>4. Pass(Chunk0, point) # None
  BY <1>2, <1>3, NotNone
<1>5. Waiting(Chunk0, point)
  BY <1>1, <1>4 DEF RanksInv, Stance, InLayers
<1>6. \A ts : Cmds(ts)' = Cmds(ts)
  BY <1>1 DEF Cmds, Command
<1>7. /\ Steps0' = Cmds(batch') /\ Steps0' \in Seq(CommandType)
      /\ pipe' = Append(pipe, [kind |-> "pp", cmd |-> None, k |-> point, steps |-> Steps0'])
  BY <1>1, <1>2, <1>6, CmdsAre, Sent DEF RanksInv, Steps0
<1>8. PipeShape' /\ Inside(Chunk0, point, Steps0)'
  BY <1>1, <1>2, <1>3, <1>5, <1>7, SendPoint DEF RanksInv
<1> QED
  BY <1>1, <1>2, <1>8, LoopHasGpu

(* A step that raises takes rank 1 out of the chunk as well: rank 1 has    *)
(* found it already, or meets it next.                                     *)
LEMMA DoomedRests ==
  ASSUME RankTypes, PipeShape, NEW c \in CommandType, NEW k \in Nat, NEW cs \in Seq(CommandType),
         Inside(c, k, cs), cs # <<>>, cs[1].job.bad
  PROVE  AtRest
<1>1. CASE pipe = <<>>
  <2>1. /\ Append(cs, None) # <<>> /\ Append(cs, None)[1] = cs[1] /\ cs[1] # None
    BY WithNone
  <2> QED
    BY <1>1, <2>1 DEF Inside, Taken, AtRest, Clear1, InChunk1
<1>2. CASE pipe # <<>>
  BY <1>2 DEF Inside, Announced, AtRest, Easy, Opens
<1> QED
  BY <1>1, <1>2

LEMMA RunInlineStance ==
  ASSUME RanksInv, RunInline
  PROVE  PipeShape' /\ Stance'
<1>1. /\ lpc = "inline" /\ batch # <<>>
      /\ UNCHANGED <<pc, job, asked, cur, point, pipe, op1, chunk1, point1, batch1>>
  BY DEF RunInline, rank1
<1>2. lpc \in HasGpu /\ cur \in Conns
  BY <1>1, Held DEF HasGpu, RanksInv
<1>3. op0 = None /\ Inside(Chunk0, point, Steps0)
  BY <1>1 DEF RanksInv, Stance
<1>4. /\ Chunk0 \in CommandType /\ Steps0 \in Seq(CommandType) /\ Steps0 # <<>> /\ point \in Nat
      /\ Steps0[1] = Command(batch[1]) /\ Steps0[1].job = job[batch[1]]
  BY <1>1, <1>2, HeldCommands DEF RanksInv, RankTypes
<1>5. /\ PipeShape' /\ (AtRest => AtRest')
      /\ Inside(Chunk0, point, Steps0) => \A c, k, cs : c = Chunk0 /\ k = point /\ cs = Steps0 => Inside(c, k, cs)'
  BY <1>1, StreamStill DEF RanksInv
<1>6. CASE job[batch[1]].bad
  <2>1. lpc' = "end" /\ op0' = None
    BY <1>1, <1>3, <1>6 DEF RunInline
  <2>2. AtRest
    BY <1>3, <1>4, <1>6, DoomedRests DEF RanksInv
  <2> QED
    BY <1>1, <1>2, <1>5, <2>1, <2>2, LoopHasGpu DEF Running
<1>7. CASE ~job[batch[1]].bad
  <2>1. lpc' = "join" /\ op0' = Execute(batch[1]) /\ batch' = batch
    BY <1>1, <1>7 DEF RunInline
  <2>2. Collective(job[batch[1]])
    <3>1. job[batch[1]].kind = "step"
      BY <1>1, Held DEF RanksInv, StepJobs
    <3> QED
      BY <1>7, <3>1 DEF Collective
  <2>3. Chunk0' = Chunk0 /\ Steps0' = Steps0
    BY <1>1, <2>1 DEF Chunk0, Steps0, Cmds, Command
  <2>4. op0' = Pass(Steps0[1], 0) /\ Inside(Chunk0, point, Steps0)'
    BY <1>1, <1>3, <1>4, <1>5, <2>1, <2>2, <2>3 DEF Execute
  <2>5. \A t \in Conns : pc'[t] # "run"
    BY <1>1, <1>2, LoopHasGpu
  <2> QED
    BY <1>4, <1>5, <1>7, <2>1, <2>3, <2>4, <2>5 DEF Stance, Between
<1> QED
  BY <1>6, <1>7

LEMMA EndInlineStance ==
  ASSUME RanksInv, PlaceInv', [Next]_vars, EndInline
  PROVE  PipeShape' /\ Stance'
<1>1. /\ lpc = "join" /\ op0 = None /\ batch' = Tail(batch) /\ lpc' = "inline" /\ op0' = None
      /\ UNCHANGED <<pc, job, asked, cur, point, pipe, op1, chunk1, point1, batch1>>
  BY DEF EndInline, rank1
<1>2. lpc \in HasGpu /\ batch # <<>>
  BY <1>1, Held DEF HasGpu, RanksInv
<1>3. /\ Steps0[1] \in CommandType /\ Tail(Steps0) = Cmds(Tail(batch))
  BY <1>2, HeldCommands DEF RanksInv
<1>4. pipe = <<>> /\ Taken(Chunk0, point, Tail(Steps0))
  <2>1. Pass(Steps0[1], 0) # None
    BY <1>3, NotNone
  <2> QED
    BY <1>1, <2>1 DEF RanksInv, Stance
<1>5. Chunk0' = Chunk0 /\ Steps0' = Tail(Steps0)
  <2>1. \A ts : Cmds(ts)' = Cmds(ts)
    BY <1>1 DEF Cmds, Command
  <2> QED
    BY <1>1, <1>3, <2>1 DEF Chunk0, Steps0, Command
<1>6. PipeShape' /\ Taken(Chunk0, point, Steps0)'
  BY <1>1, <1>4, <1>5, StreamStill DEF RanksInv
<1>7. Inside(Chunk0, point, Steps0)'
  BY <1>1, <1>4, <1>6 DEF Inside
<1> QED
  BY <1>1, <1>2, <1>6, <1>7, LoopHasGpu

LEMMA LayerStance ==
  ASSUME RanksInv, Layer
  PROVE  PipeShape' /\ Stance'
<1>1. /\ lpc = "inline" /\ batch = <<>> /\ op0' = Pass(Chunk0, point)
      /\ lpc' = (IF point = MaxPoints THEN "end" ELSE "point")
      /\ UNCHANGED <<pc, job, asked, cur, batch, point, pipe, op1, chunk1, point1, batch1>>
  BY DEF Layer, conn, rank1, Chunk0
<1>2. lpc \in HasGpu
  BY <1>1 DEF HasGpu
<1>3. Inside(Chunk0, point, Steps0) /\ Steps0 = <<>>
  BY <1>1, HeldCommands DEF RanksInv, Stance
<1>4. Chunk0' = Chunk0
  BY <1>1 DEF Chunk0, Command
<1>5. PipeShape' /\ \A c, k, cs : Inside(c, k, cs) => Inside(c, k, cs)'
  BY <1>1, StreamStill DEF RanksInv
<1>6. InLayers'
  BY <1>1, <1>3, <1>4, <1>5 DEF InLayers
<1> QED
  BY <1>1, <1>2, <1>5, <1>6, LoopHasGpu

(* The end of a command, of a left-over step, and the close of the window. *)
LEMMA EndStance ==
  ASSUME RanksInv, EndJob \/ EndLeft \/ Close
  PROVE  PipeShape' /\ Stance'
<1>1. /\ UNCHANGED <<pc, pipe, op0, op1, chunk1, point1, batch1>>
      /\ \/ lpc = "end" /\ op0 = None /\ lpc' \in {"close", "release"}
         \/ lpc = "leftRun" /\ op0 = None /\ lpc' = "left"
         \/ lpc = "close" /\ lpc' = "left"
  BY DEF EndJob, EndLeft, Close, conn, rank1
<1>2. lpc \in HasGpu
  BY <1>1 DEF HasGpu
<1>3. op0 = None /\ AtRest
  <2>1. lpc = "end" => Pass(Chunk0, 0) # None /\ Pass(Chunk0, point) # None
    <3>1. lpc = "end" => Chunk0 \in CommandType
      BY HeldCommands DEF RanksInv
    <3>2. point \in Nat /\ 0 \in Nat
      BY DEF RanksInv, RankTypes
    <3> QED
      BY <3>1, <3>2, NotNone
  <2>2. lpc = "leftRun" => Pass(Steps0[1], 0) # None
    BY Held, HeldCommands, NotNone DEF RanksInv
  <2>3. CASE lpc = "close"
    BY <1>1, <1>2, <2>3, LoopHasGpu DEF RanksInv, Stance
  <2>4. CASE lpc = "end"
    <3>1. Running(Chunk0) \/ InLayers
      BY <2>4 DEF RanksInv, Stance
    <3> QED
      BY <1>1, <2>1, <2>4, <3>1 DEF Running, InForward, InLayers
  <2>5. CASE lpc = "leftRun"
    <3>1. Running(Steps0[1])
      BY <2>5 DEF RanksInv, Stance
    <3> QED
      BY <1>1, <2>2, <2>5, <3>1 DEF Running, InForward
  <2> QED
    BY <1>1, <2>3, <2>4, <2>5
<1>4. PipeShape' /\ AtRest'
  BY <1>1, <1>3, StreamStill DEF RanksInv
<1> QED
  BY <1>1, <1>2, <1>3, <1>4, LoopHasGpu

LEMMA LoopStance ==
  ASSUME RanksInv, PlaceInv', [Next]_vars, LoopStep
  PROVE  PipeShape' /\ Stance'
<1>1. CASE Get \/ TakeCv \/ LoopLock \/ Open \/ Release
  <2>1. UNCHANGED <<pc, pipe, op0, op1, chunk1, point1, batch1, batch, point>>
    BY <1>1 DEF Get, TakeCv, LoopLock, Open, Release, conn, rank1
  <2>2. {lpc, lpc'} \cap {"point", "inline", "join", "end", "leftRun"} = {}
    BY <1>1 DEF Get, TakeCv, LoopLock, Open, Release
  <2> QED
    BY <2>1, <2>2, StanceFrame
<1> QED
  BY <1>1, SendJobStance, SendLeftStance, TakePointStance, RunInlineStance, EndInlineStance,
     LayerStance, EndStance DEF LoopStep

-----------------------------------------------------------------------------
LEMMA StepJobsStep ==
  ASSUME RanksInv, PlaceInv', [Next]_vars
  PROVE  StepJobs'
<1>0. pc \in [Conns -> ConnPc] /\ job \in [Conns -> JobType]
  BY DEF RanksInv, RankTypes, PlaceInv, PlaceTypes
<1>1. \A t \in Conns : pc'[t] \in ConnPc \ {"idle", "wait"} => job'[t].kind = "step"
  <2> SUFFICES ASSUME NEW t \in Conns, pc'[t] \in ConnPc \ {"idle", "wait"} PROVE job'[t].kind = "step"
    OBVIOUS
  <2>1. CASE pc[t] \notin {"idle", "wait"}
    <3>1. job'[t] = job[t]
      BY <2>1, RecordsStay DEF RanksInv
    <3> QED
      BY <1>0, <2>1, <3>1 DEF RanksInv, StepJobs, ConnPc
  <2>2. CASE pc[t] \in {"idle", "wait"}
    <3>1. [Next]_vars /\ pc'[t] # pc[t] => \E u \in Conns : Request(u) \/ ConnStep(u)
      BY DEF Next, vars, conn, LoopStep, Get, TakeCv, LoopLock, Open, SendJob, TakePoint, RunInline, EndInline,
             Layer, EndJob, Close, SendLeft, EndLeft, Release, Rank1Step, Recv1, Point1, Run1, Join, AllAnswered
    <3>2. PICK u \in Conns : Request(u) \/ ConnStep(u)
      BY <2>2, <3>1
    <3>3. u = t
      BY <1>0, <2>2, <3>2 DEF Request, ConnStep, Park, Enter, LockGpu, LeaveCv, SendStep, EndStep, Answer, Goto
    <3>4. Request(t)
      BY <1>0, <2>2, <3>2, <3>3 DEF ConnStep, Park, Enter, LockGpu, LeaveCv, SendStep, EndStep, Answer, Goto
    <3> QED
      BY <1>0, <3>4 DEF Request, Goto
  <2> QED
    BY <2>1, <2>2
<1>2. \A t \in ToSet(pq') \cup ToSet(batch') : job'[t].kind = "step"
  <2>1. \A t \in ToSet(pq) \cup ToSet(batch) : job'[t].kind = "step"
    BY RecordsStay DEF RanksInv, StepJobs
  <2>2. CASE \E t \in Conns : Park(t)
    <3>1. PICK t \in Conns : Park(t)
      BY <2>2
    <3>2. pc[t] = "park" /\ job' = job /\ batch' = batch /\ pq' \in {pq, Append(pq, t)}
      BY <3>1 DEF Park, loop
    <3>3. job'[t].kind = "step"
      BY <3>2 DEF RanksInv, StepJobs, ConnPc
    <3>4. ToSet(Append(pq, t)) = ToSet(pq) \cup {t}
      <4>1. /\ Append(pq, t) \in Seq(Conns) /\ Len(Append(pq, t)) = Len(pq) + 1
            /\ \A i \in 1..Len(pq) : Append(pq, t)[i] = pq[i]
            /\ Append(pq, t)[Len(pq) + 1] = t
        BY AppendProperties DEF RanksInv, PlaceInv, PlaceTypes
      <4>2. /\ DOMAIN pq = 1..Len(pq) /\ Len(pq) \in Nat
            /\ DOMAIN Append(pq, t) = 1..Len(Append(pq, t))
        BY <4>1, LenProperties DEF RanksInv, PlaceInv, PlaceTypes
      <4> QED
        BY <4>1, <4>2 DEF ToSet
    <3> QED
      BY <2>1, <3>2, <3>3, <3>4
  <2>3. CASE EndInline \/ EndLeft
    <3>1. batch # <<>> /\ batch' = Tail(batch) /\ pq' = pq
      BY <2>3, Held DEF EndInline, EndLeft, park, RanksInv
    <3>2. ToSet(Tail(batch)) \subseteq ToSet(batch)
      <4>1. /\ Tail(batch) \in Seq(Conns) /\ Len(Tail(batch)) = Len(batch) - 1
            /\ \A i \in 1..Len(Tail(batch)) : Tail(batch)[i] = batch[i + 1]
        BY <3>1, HeadTailProperties DEF RanksInv, PlaceInv, PlaceTypes
      <4>2. /\ DOMAIN batch = 1..Len(batch) /\ Len(batch) \in Nat
            /\ DOMAIN Tail(batch) = 1..Len(Tail(batch))
        BY <4>1, LenProperties DEF RanksInv, PlaceInv, PlaceTypes
      <4> QED
        BY <4>1, <4>2 DEF ToSet
    <3> QED
      BY <2>1, <3>1, <3>2
  <2>4. [Next]_vars => \/ \E t \in Conns : Park(t)
                       \/ EndInline \/ EndLeft
                       \/ pq' \in {pq, <<>>} /\ batch' \in {batch, pq, <<>>}
    BY DEF Next, vars, loop, park, Request, ConnStep, Enter, LockGpu, LeaveCv, SendStep, EndStep, Answer,
           LoopStep, Get, TakeCv, LoopLock, Open, SendJob, TakePoint, RunInline, Layer,
           EndJob, Close, SendLeft, Release, Rank1Step, Recv1, Point1, Run1, Join, AllAnswered
  <2>5. ToSet(<<>>) = {}
    BY DEF ToSet
  <2> QED
    BY <2>1, <2>2, <2>3, <2>4, <2>5
<1> QED
  BY <1>1, <1>2 DEF StepJobs

LEMMA InWindowStep ==
  ASSUME RanksInv, PlaceInv', [Next]_vars
  PROVE  InWindow'
<1>1. CASE SendJob
  BY <1>1 DEF SendJob, InWindow, conn
<1>2. CASE lpc \in {"point", "inline", "join"}
  <2>1. UNCHANGED cur /\ job'[cur] = job[cur]
    BY <1>2, RecordsStay, CommandsStay DEF RanksInv, Over
  <2> QED
    BY <1>2, <2>1 DEF RanksInv, InWindow
<1>3. [Next]_vars => SendJob \/ lpc \in {"point", "inline", "join"} \/ lpc' \notin {"point", "inline", "join"}
  BY DEF Next, vars, loop, Request, ConnStep, Park, Enter, LockGpu, LeaveCv, SendStep, EndStep, Answer,
         LoopStep, Get, TakeCv, LoopLock, Open, TakePoint, RunInline, EndInline, Layer,
         EndJob, Close, SendLeft, EndLeft, Release, Rank1Step, Recv1, Point1, Run1, Join, AllAnswered
<1> QED
  BY <1>1, <1>2, <1>3 DEF InWindow

LEMMA RanksInvStep == RanksInv /\ [Next]_vars => RanksInv'
<1> SUFFICES ASSUME RanksInv, [Next]_vars PROVE RanksInv'
  OBVIOUS
<1>1. PlaceInv'
  BY PlaceInvStep DEF RanksInv
<1>2. RankTypes' /\ OneHolder' /\ StepJobs' /\ InWindow'
  BY <1>1, TypesStep, HolderStep, StepJobsStep, InWindowStep DEF RanksInv
<1>3. PipeShape' /\ Stance'
  <2>1. CASE UNCHANGED vars \/ AllAnswered
    <3>1. UNCHANGED <<pc, lpc, pipe, op0, op1, chunk1, point1, batch1, batch, point>>
      BY <2>1 DEF AllAnswered, vars, conn, loop, rank1
    <3> QED
      BY <1>1, <3>1, StanceFrame
  <2> QED
    BY <1>1, <2>1, ConnStance, LoopStance, Rank1Stance, JoinStance DEF Next
<1> QED
  BY <1>1, <1>2, <1>3 DEF RanksInv

LEMMA RanksInvInit == Init => RanksInv
<1> SUFFICES ASSUME Init PROVE RanksInv
  OBVIOUS
<1>1. PlaceInv
  BY PlaceInvInit
<1>2. RankTypes
  <2>1. AnyJob \in JobType
    BY QueueAssumption DEF AnyJob
  <2> QED
    BY <2>1 DEF Init, RankTypes
<1>3. StepJobs
  BY DEF Init, StepJobs, ToSet
<1>4. OneHolder /\ InWindow
  BY QueueAssumption DEF Init, OneHolder, InWindow, HasGpu
<1>5. PipeShape
  BY DEF Init, PipeShape
<1>6. Stance
  BY DEF Init, Stance, Between, AtRest, Clear1, InChunk1
<1> QED
  BY <1>1, <1>2, <1>3, <1>4, <1>5, <1>6 DEF RanksInv

LEMMA RanksInvAgree == RanksInv => RanksAgree
<1> SUFFICES ASSUME RanksInv PROVE RanksAgree
  OBVIOUS
<1>1. ASSUME chunk1 # None, op1 = None, batch1 = <<>>, pipe # <<>>
      PROVE  pipe[1].kind = "pp" /\ pipe[1].k = point1
  BY <1>1 DEF RanksInv, PipeShape, InChunk1
<1>2. ASSUME op0 # None, op1 # None PROVE op0 = op1
  <2>1. pipe = <<>>
    BY <1>2 DEF RanksInv, PipeShape, Clear1
  <2>2. ASSUME NEW c, Running(c) PROVE op0 = op1
    BY <1>2, <2>1, <2>2 DEF Running, InForward, SentOne
  <2>3. InLayers => op0 = op1
    BY <1>2, <2>1 DEF InLayers, Inside, Taken
  <2>4. lpc = "join" => op0 = op1
    <3>1. lpc = "join" => Steps0 # <<>>
      BY Held, HeldCommands DEF RanksInv
    <3> QED
      BY <1>2, <2>1, <3>1 DEF RanksInv, Stance, Inside, Taken
  <2> QED
    BY <1>2, <2>2, <2>3, <2>4 DEF RanksInv, Stance, Between
<1> QED
  BY <1>1, <1>2 DEF RanksAgree

(* Two ranks inside a forward are inside the same one, and rank 1 is never *)
(* sent something else than the point it waits for: for any jobs, any      *)
(* number of points and any depth of the pipe.                             *)
THEOREM QueueRanksAgree == Spec => []RanksAgree
BY RanksInvInit, RanksInvStep, RanksInvAgree, PTL DEF Spec

=============================================================================
