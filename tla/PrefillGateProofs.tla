------------------------- MODULE PrefillGateProofs -------------------------
(***************************************************************************)
(* For any set of threads, prompt lengths, flag values and share: the      *)
(* types, one owner at a time, one suspended prefill at a time, whom a     *)
(* prompt may overtake, and how long a long prefill is suspended.  The     *)
(* last two rest on the queue: a ticket is in it once, while its thread    *)
(* waits to be admitted, and the prompt a prefill was suspended for is in  *)
(* it or active.                                                           *)
(***************************************************************************)
EXTENDS PrefillGate, SequenceTheorems, TLAPS

(* Removing one element leaves a sequence over the same set, one shorter.  *)
LEMMA RemoveAtType ==
  ASSUME NEW S, NEW s \in Seq(S), NEW i \in 1..Len(s)
  PROVE  RemoveAt(s, i) \in Seq(S) /\ Len(RemoveAt(s, i)) = Len(s) - 1
<1> DEFINE a == SubSeq(s, 1, i - 1)
           b == SubSeq(s, i + 1, Len(s))
<1>1. Len(s) \in Nat /\ i \in Int
  BY LenProperties
<1>2. a \in Seq(S) /\ Len(a) = i - 1
  BY SubSeqProperties
<1>3. b \in Seq(S) /\ Len(b) = Len(s) - i
  BY SubSeqProperties
<1>4. RemoveAt(s, i) = a \o b
  BY DEF RemoveAt
<1> HIDE DEF a, b
<1>5. a \o b \in Seq(S) /\ Len(a \o b) = Len(a) + Len(b)
  BY <1>2, <1>3, ConcatProperties
<1> QED
  BY <1>1, <1>2, <1>3, <1>4, <1>5

LEMMA InitTypes == Init => TypeOK
<1> SUFFICES ASSUME Init PROVE TypeOK
  OBVIOUS
<1>1. turned \in BOOLEAN
  BY Zenon DEF Init
<1>2. byp \in [Threads -> BOOLEAN]
  BY Zenon DEF Init
<1> QED
  BY <1>1, <1>2, GateAssumption DEF Init, TypeOK, Outside

(* The variables only ever hold values of their types.                     *)
THEOREM GateTypes == Spec => []TypeOK
<1> USE GateAssumption
<1>1. Init => TypeOK
  BY InitTypes
<1>2. TypeOK /\ [Next]_vars => TypeOK'
  <2> SUFFICES ASSUME TypeOK, [Next]_vars PROVE TypeOK'
    OBVIOUS
  <2> USE DEF Goto, Notify, Outside, Owning, Waiting, Locking, ticket, gate, clock
  <2>1. ASSUME NEW t \in Threads, Arrive(t) PROVE TypeOK'
    <3>1. fifo' \in Seq(Threads)
      BY <2>1, AppendProperties DEF TypeOK, Arrive
    <3>2. /\ tokens' \in [Threads -> TokenCounts \cup {None}]
          /\ work' \in [Threads -> 0..MaxWork]
      <4>1. PICK n \in TokenCounts \cup {None}, w \in 1..MaxWork :
              tokens' = [tokens EXCEPT ![t] = n] /\ work' = [work EXCEPT ![t] = w]
        BY <2>1 DEF Arrive
      <4>2. w \in 0..MaxWork
        OBVIOUS
      <4> QED
        BY <4>1, <4>2 DEF TypeOK
    <3> QED
      BY <2>1, <3>1, <3>2 DEF TypeOK, Arrive
  <2>2. ASSUME NEW t \in Threads, Check(t) PROVE TypeOK'
    <3>1. fifo' \in Seq(Threads)
      BY <2>2, RemoveAtType DEF TypeOK, Check
    <3> QED
      BY <2>2, <3>1 DEF TypeOK, Check
  <2>3. ASSUME NEW t \in Threads, Acquire(t) PROVE TypeOK'
    BY <2>3 DEF TypeOK, Acquire
  <2>4. ASSUME NEW t \in Threads, Reenter(t) PROVE TypeOK'
    <3>1. depth' \in [Threads -> 0..2]
      BY <2>4 DEF TypeOK, Reenter
    <3> QED
      BY <2>4, <3>1 DEF TypeOK, Reenter
  <2>5. ASSUME NEW t \in Threads, LeaveInner(t) PROVE TypeOK'
    <3>1. depth' \in [Threads -> 0..2]
      BY <2>5 DEF TypeOK, LeaveInner
    <3>2. work' \in [Threads -> 0..MaxWork]
      BY <2>5 DEF TypeOK, LeaveInner
    <3> QED
      BY <2>5, <3>1, <3>2 DEF TypeOK, LeaveInner
  <2>6. ASSUME NEW t \in Threads, Chunk(t) PROVE TypeOK'
    <3>0. work \in [Threads -> 0..MaxWork] /\ work' = [work EXCEPT ![t] = @ - 1] /\ work[t] > 0
      BY <2>6 DEF TypeOK, Chunk
    <3>1. work' \in [Threads -> 0..MaxWork]
      BY <3>0
    <3> DEFINE held == ToSet(suspended)
    <3>2. /\ elapsed' = [u \in Threads |-> IF u \in held \cup {t} THEN elapsed[u] + 1 ELSE elapsed[u]]
          /\ susp' = [u \in Threads |-> IF u \in held THEN susp[u] + 1 ELSE susp[u]]
      BY <2>6 DEF Chunk
    <3> HIDE DEF held
    <3>3. elapsed \in [Threads -> Nat] /\ susp \in [Threads -> Nat]
      BY DEF TypeOK
    <3>4. \A u \in Threads : elapsed[u] \in Nat /\ elapsed[u] + 1 \in Nat /\ susp[u] \in Nat /\ susp[u] + 1 \in Nat
      BY <3>3
    <3>5. elapsed' \in [Threads -> Nat] /\ susp' \in [Threads -> Nat]
      BY <3>2, <3>4, Zenon
    <3> QED
      BY <2>6, <3>1, <3>5 DEF TypeOK, Chunk
  <2>7. ASSUME NEW t \in Threads, Yield(t) PROVE TypeOK'
    BY <2>7 DEF TypeOK, Yield
  <2>8. ASSUME NEW t \in Threads, YieldReturn(t) PROVE TypeOK'
    BY <2>8 DEF TypeOK, YieldReturn
  <2>9. ASSUME NEW t \in Threads, Suspend(t) PROVE TypeOK'
    <3>1. bypass' \in Threads
      BY <2>9, ElementOfSeq DEF TypeOK, Suspend
    <3>2. suspended' \in Seq(Threads)
      BY <2>9, AppendProperties DEF TypeOK, Suspend
    <3> QED
      BY <2>9, <3>1, <3>2 DEF TypeOK, Suspend
  <2>10. ASSUME NEW t \in Threads, PeekBypass(t) PROVE TypeOK'
    BY <2>10 DEF TypeOK, PeekBypass, Sleep
  <2>11. ASSUME NEW t \in Threads, PeekActive(t) PROVE TypeOK'
    BY <2>11 DEF TypeOK, PeekActive, Sleep
  <2>12. ASSUME NEW t \in Threads, Reacquire(t) PROVE TypeOK'
    BY <2>12 DEF TypeOK, Reacquire
  <2>13. ASSUME NEW t \in Threads, Resume(t) PROVE TypeOK'
    <3>1. suspended' \in Seq(Threads)
      BY <2>13, RemoveAtType DEF TypeOK, Resume
    <3> QED
      BY <2>13, <3>1 DEF TypeOK, Resume
  <2>14. ASSUME NEW t \in Threads, Leave(t) PROVE TypeOK'
    <3>1. depth' \in [Threads -> 0..2]
      BY <2>14 DEF TypeOK, Leave
    <3>2. work' \in [Threads -> 0..MaxWork]
      BY <2>14 DEF TypeOK, Leave
    <3>3. active' \in Threads \cup {None} /\ bypass' \in Threads \cup {None}
      BY <2>14 DEF TypeOK, Leave
    <3> QED
      BY <2>14, <3>1, <3>2, <3>3 DEF TypeOK, Leave
  <2>15. ASSUME NEW t \in Threads, Release(t) PROVE TypeOK'
    BY <2>15 DEF TypeOK, Release
  <2>17. CASE UNCHANGED vars
    BY <2>17 DEF TypeOK, vars
  <2> QED
    BY <2>1, <2>2, <2>3, <2>4, <2>5, <2>6, <2>7, <2>8, <2>9, <2>10, <2>11, <2>12,
       <2>13, <2>14, <2>15, <2>17 DEF Next, Step
<1> QED
  BY <1>1, <1>2, PTL DEF Spec

-----------------------------------------------------------------------------
(* The inductive invariant: `active`, `suspended`, `bypass` and the lock   *)
(* tell exactly where the threads are.                                     *)
ActiveOwns == \A t \in Threads : pc[t] \in Owning <=> active = t

SuspendedWaits ==
  /\ suspended = <<>> \/ \E t \in Threads : suspended = <<t>>
  /\ \A t \in Threads : pc[t] \in Waiting <=> suspended = <<t>>

BypassOnly ==
  /\ bypass # None => suspended # <<>> /\ active \in {None, bypass}
  /\ suspended # <<>> /\ active # None => bypass = active /\ byp[active]
  /\ \A t \in Threads : pc[t] \in Owning /\ byp[t] => bypass = t
  /\ \A t \in Threads : pc[t] \in Waiting \cup {"loop"} => ~byp[t]
  /\ \A t \in Threads : pc[t] \in {"peek2", "resume"} => bypass = None

LockOwned == \A t \in Threads : pc[t] \in Locking <=> lock = t

GateInv == TypeOK /\ ActiveOwns /\ SuspendedWaits /\ BypassOnly /\ LockOwned

LEMMA GateInvImplies == GateInv => Exclusive /\ SuspendedAlone
<1> SUFFICES ASSUME GateInv PROVE Exclusive /\ SuspendedAlone
  OBVIOUS
<1>1. \A t, u \in Threads : pc[t] \in Owning /\ pc[u] \in Owning => t = u
  BY DEF GateInv, ActiveOwns
<1>1a. \A t \in Threads : pc[t] \in {"run", "gap", "loop"} => active = t /\ lock = t
  <2> SUFFICES ASSUME NEW t \in Threads, pc[t] \in {"run", "gap", "loop"}
               PROVE  active = t /\ lock = t
    OBVIOUS
  <2>1. pc[t] \in Owning /\ pc[t] \in Locking
    BY DEF Owning, Locking
  <2> QED
    BY <2>1 DEF GateInv, ActiveOwns, LockOwned
<1>2. \A t, u \in Threads : pc[t] \in Waiting /\ pc[u] \in Waiting => t = u
  BY DEF GateInv, SuspendedWaits
<1>3. Len(suspended) <= 1
  <2>1. CASE suspended = <<>>
    BY <2>1
  <2>2. CASE \E t \in Threads : suspended = <<t>>
    BY <2>2
  <2> QED
    BY <2>1, <2>2 DEF GateInv, SuspendedWaits
<1>4. suspended # <<>> => \A u \in Threads : pc[u] \in Owning => byp[u] /\ bypass = u
  BY GateAssumption DEF GateInv, BypassOnly, ActiveOwns
<1> QED
  BY <1>1, <1>1a, <1>2, <1>3, <1>4 DEF Exclusive, SuspendedAlone

(* One step of one thread keeps the invariant.                             *)
LEMMA GateInvStep == TypeOK' /\ GateInv /\ [Next]_vars => GateInv'
<1> SUFFICES ASSUME TypeOK', GateInv, [Next]_vars
             PROVE  ActiveOwns' /\ SuspendedWaits' /\ BypassOnly' /\ LockOwned'
  BY DEF GateInv
<1> DEFINE Goal == ActiveOwns' /\ SuspendedWaits' /\ BypassOnly' /\ LockOwned'
<1>0. /\ TypeOK /\ ActiveOwns /\ SuspendedWaits /\ BypassOnly /\ LockOwned
      /\ None \notin Threads
  BY GateAssumption DEF GateInv
<1>1. ASSUME NEW t \in Threads, Arrive(t) PROVE Goal
  <2>1. ActiveOwns'
    BY <1>0, <1>1 DEF TypeOK, Arrive, Goto, Notify, gate, ticket, ActiveOwns, Owning
  <2>2. SuspendedWaits'
    BY <1>0, <1>1 DEF TypeOK, Arrive, Goto, Notify, gate, ticket, SuspendedWaits, Waiting
  <2>3. BypassOnly'
    BY <1>0, <1>1 DEF TypeOK, Arrive, Goto, Notify, gate, ticket, ActiveOwns, SuspendedWaits, BypassOnly, Owning, Waiting
  <2>4. LockOwned'
    BY <1>0, <1>1 DEF TypeOK, Arrive, Goto, Notify, gate, ticket, LockOwned, Locking
  <2> QED
    BY <2>1, <2>2, <2>3, <2>4
<1>2. ASSUME NEW t \in Threads, Check(t) PROVE Goal
  <2>1. CASE ~MayRun(t)
    <3>1. pc' = [pc EXCEPT ![t] = "parked"] /\ UNCHANGED <<byp, active, bypass, suspended, lock>>
      BY <1>2, <2>1 DEF Check, Goto
    <3>2. pc[t] = "check"
      BY <1>2 DEF Check
    <3> QED
      BY <1>0, <3>1, <3>2 DEF TypeOK, ActiveOwns, SuspendedWaits, BypassOnly, LockOwned, Owning, Waiting, Locking
  <2>2. CASE MayRun(t)
    <3>1. /\ pc[t] = "check" /\ pc' = [pc EXCEPT ![t] = "admitted"]
          /\ byp' = [byp EXCEPT ![t] = (bypass = t)] /\ active' = t
          /\ UNCHANGED <<bypass, suspended, lock>>
      BY <1>2, <2>2 DEF Check, Goto
    <3>2. active # t
      BY <1>0, <3>1 DEF ActiveOwns, Owning
    <3>3. active = None /\ (bypass # t => bypass = None /\ suspended = <<>>)
      BY <1>0, <2>2, <3>2 DEF MayRun, BypassOnly
    <3>4. \A u \in Threads : pc[u] \notin Owning
      BY <1>0, <3>3 DEF ActiveOwns
    <3>5. ActiveOwns'
      BY <1>0, <3>1, <3>4 DEF TypeOK, ActiveOwns, Owning
    <3>6. SuspendedWaits'
      BY <1>0, <3>1 DEF TypeOK, SuspendedWaits, Waiting
    <3>7. BypassOnly'
      <4>1. /\ pc'[t] = "admitted" /\ (byp'[t] <=> bypass = t)
            /\ \A u \in Threads \ {t} : pc'[u] = pc[u] /\ byp'[u] = byp[u]
        BY <1>0, <3>1 DEF TypeOK
      <4>2. suspended' # <<>> => bypass' = t /\ byp'[t]
        BY <1>0, <3>1, <3>3, <4>1 DEF BypassOnly
      <4>3. bypass' # None => suspended' # <<>> /\ active' = bypass'
        BY <1>0, <3>1, <3>3 DEF BypassOnly
      <4> QED
        BY <1>0, <3>1, <3>3, <3>4, <4>1, <4>2, <4>3 DEF BypassOnly, Owning, Waiting
    <3>8. LockOwned'
      BY <1>0, <3>1 DEF TypeOK, LockOwned, Locking
    <3> QED
      BY <3>5, <3>6, <3>7, <3>8
  <2> QED
    BY <2>1, <2>2
<1>3. ASSUME NEW t \in Threads, Acquire(t) PROVE Goal
  <2>1. ActiveOwns'
    BY <1>0, <1>3 DEF TypeOK, Acquire, Goto, Notify, gate, ticket, ActiveOwns, Owning
  <2>2. SuspendedWaits'
    BY <1>0, <1>3 DEF TypeOK, Acquire, Goto, Notify, gate, ticket, SuspendedWaits, Waiting
  <2>3. BypassOnly'
    BY <1>0, <1>3 DEF TypeOK, Acquire, Goto, Notify, gate, ticket, ActiveOwns, SuspendedWaits, BypassOnly, Owning, Waiting
  <2>4. LockOwned'
    BY <1>0, <1>3 DEF TypeOK, Acquire, Goto, Notify, gate, ticket, LockOwned, Locking
  <2> QED
    BY <2>1, <2>2, <2>3, <2>4
<1>4. ASSUME NEW t \in Threads, Reenter(t) PROVE Goal
  <2>1. ActiveOwns'
    BY <1>0, <1>4 DEF TypeOK, Reenter, Goto, Notify, gate, ticket, ActiveOwns, Owning
  <2>2. SuspendedWaits'
    BY <1>0, <1>4 DEF TypeOK, Reenter, Goto, Notify, gate, ticket, SuspendedWaits, Waiting
  <2>3. BypassOnly'
    BY <1>0, <1>4 DEF TypeOK, Reenter, Goto, Notify, gate, ticket, ActiveOwns, SuspendedWaits, BypassOnly, Owning, Waiting
  <2>4. LockOwned'
    BY <1>0, <1>4 DEF TypeOK, Reenter, Goto, Notify, gate, ticket, LockOwned, Locking
  <2> QED
    BY <2>1, <2>2, <2>3, <2>4
<1>5. ASSUME NEW t \in Threads, LeaveInner(t) PROVE Goal
  <2>1. ActiveOwns'
    BY <1>0, <1>5 DEF TypeOK, LeaveInner, Goto, Notify, gate, ticket, ActiveOwns, Owning
  <2>2. SuspendedWaits'
    BY <1>0, <1>5 DEF TypeOK, LeaveInner, Goto, Notify, gate, ticket, SuspendedWaits, Waiting
  <2>3. BypassOnly'
    BY <1>0, <1>5 DEF TypeOK, LeaveInner, Goto, Notify, gate, ticket, ActiveOwns, SuspendedWaits, BypassOnly, Owning, Waiting
  <2>4. LockOwned'
    BY <1>0, <1>5 DEF TypeOK, LeaveInner, Goto, Notify, gate, ticket, LockOwned, Locking
  <2> QED
    BY <2>1, <2>2, <2>3, <2>4
<1>6. ASSUME NEW t \in Threads, Chunk(t) PROVE Goal
  <2>0. /\ pc[t] = "run" /\ pc' \in {pc, [pc EXCEPT ![t] = "gap"]}
        /\ UNCHANGED <<byp, gate, lock>>
    BY <1>0, <1>6 DEF TypeOK, Chunk, Goto, ticket
  <2>1. ActiveOwns'
    BY <1>0, <2>0 DEF TypeOK, gate, ActiveOwns, Owning
  <2>2. SuspendedWaits'
    BY <1>0, <2>0 DEF TypeOK, gate, SuspendedWaits, Waiting
  <2>3. BypassOnly'
    BY <1>0, <2>0 DEF TypeOK, gate, ActiveOwns, SuspendedWaits, BypassOnly, Owning, Waiting
  <2>4. LockOwned'
    BY <1>0, <2>0 DEF TypeOK, gate, LockOwned, Locking
  <2> QED
    BY <2>1, <2>2, <2>3, <2>4
<1>7. ASSUME NEW t \in Threads, Yield(t) PROVE Goal
  <2>1. ActiveOwns'
    BY <1>0, <1>7 DEF TypeOK, Yield, Goto, Notify, gate, ticket, ActiveOwns, Owning
  <2>2. SuspendedWaits'
    BY <1>0, <1>7 DEF TypeOK, Yield, Goto, Notify, gate, ticket, SuspendedWaits, Waiting
  <2>3. BypassOnly'
    BY <1>0, <1>7 DEF TypeOK, Yield, Goto, Notify, gate, ticket, ActiveOwns, SuspendedWaits, BypassOnly, Owning, Waiting
  <2>4. LockOwned'
    BY <1>0, <1>7 DEF TypeOK, Yield, Goto, Notify, gate, ticket, LockOwned, Locking
  <2> QED
    BY <2>1, <2>2, <2>3, <2>4
<1>8. ASSUME NEW t \in Threads, YieldReturn(t) PROVE Goal
  <2>1. ActiveOwns'
    BY <1>0, <1>8 DEF TypeOK, YieldReturn, Goto, Notify, gate, ticket, ActiveOwns, Owning
  <2>2. SuspendedWaits'
    BY <1>0, <1>8 DEF TypeOK, YieldReturn, Goto, Notify, gate, ticket, SuspendedWaits, Waiting
  <2>3. BypassOnly'
    BY <1>0, <1>8 DEF TypeOK, YieldReturn, Goto, Notify, gate, ticket, ActiveOwns, SuspendedWaits, BypassOnly, Owning, Waiting
  <2>4. LockOwned'
    BY <1>0, <1>8 DEF TypeOK, YieldReturn, Goto, Notify, gate, ticket, LockOwned, Locking
  <2> QED
    BY <2>1, <2>2, <2>3, <2>4
<1>9. ASSUME NEW t \in Threads, Suspend(t) PROVE Goal
  <2>1. /\ pc[t] = "loop" /\ bypass' \in Threads /\ active' = None /\ suspended' = Append(suspended, t)
        /\ \A u \in Threads : pc'[u] = IF u = t THEN "peek" ELSE IF pc[u] = "parked" THEN "check" ELSE pc[u]
        /\ UNCHANGED <<byp, lock>>
    <3>1. bypass' \in Threads
      BY <1>0, <1>9, ElementOfSeq DEF TypeOK, Suspend
    <3>2. pc' = [Notify(pc, "parked", "check") EXCEPT ![t] = "peek"]
      BY <1>9 DEF Suspend
    <3>3. \A u \in Threads : pc'[u] = IF u = t THEN "peek" ELSE IF pc[u] = "parked" THEN "check" ELSE pc[u]
      BY <3>2 DEF Notify
    <3> QED
      BY <1>9, <3>1, <3>3 DEF Suspend, ticket
  <2>2. active = t /\ ~byp[t]
    BY <1>0, <2>1 DEF ActiveOwns, BypassOnly, Owning
  <2>3. suspended = <<>>
    BY <1>0, <2>2 DEF BypassOnly
  <2>4. suspended' = <<t>>
    BY <2>1, <2>3
  <2>5. ActiveOwns'
    BY <1>0, <2>1, <2>2 DEF ActiveOwns, Owning
  <2>6. SuspendedWaits'
    <3>1. \A u \in Threads : pc[u] \notin Waiting
      BY <1>0, <2>3 DEF SuspendedWaits
    <3> QED
      BY <3>1, <2>1, <2>4 DEF SuspendedWaits, Waiting
  <2>7. BypassOnly'
    <3>1. \A u \in Threads : pc'[u] \notin Owning
      BY <1>0, <2>1, <2>5 DEF ActiveOwns
    <3>2. \A u \in Threads : pc'[u] \in Waiting => u = t /\ pc'[u] = "peek"
      BY <1>0, <2>1, <2>3 DEF SuspendedWaits, Waiting
    <3> QED
      BY <1>0, <2>1, <2>2, <2>4, <3>1, <3>2 DEF BypassOnly, Owning, Waiting
  <2>8. LockOwned'
    BY <1>0, <2>1 DEF LockOwned, Locking
  <2> QED
    BY <2>5, <2>6, <2>7, <2>8
<1>10. ASSUME NEW t \in Threads, PeekBypass(t) PROVE Goal
  <2>1. ActiveOwns'
    BY <1>0, <1>10 DEF TypeOK, PeekBypass, Goto, Notify, gate, ticket, Sleep, ActiveOwns, Owning
  <2>2. SuspendedWaits'
    BY <1>0, <1>10 DEF TypeOK, PeekBypass, Goto, Notify, gate, ticket, Sleep, SuspendedWaits, Waiting
  <2>3. BypassOnly'
    BY <1>0, <1>10 DEF TypeOK, PeekBypass, Goto, Notify, gate, ticket, Sleep, ActiveOwns, SuspendedWaits, BypassOnly, Owning, Waiting
  <2>4. LockOwned'
    <3>1. pc[t] = "peek" /\ lock = t
      BY <1>0, <1>10 DEF PeekBypass, LockOwned, Locking
    <3>2. CASE pc' = [pc EXCEPT ![t] = "peek2"] /\ lock' = lock
      BY <1>0, <3>1, <3>2 DEF TypeOK, LockOwned, Locking
    <3>3. CASE pc' = [pc EXCEPT ![t] = "asleep"] /\ lock' = None
      BY <1>0, <3>1, <3>3 DEF TypeOK, LockOwned, Locking
    <3> QED
      BY <1>10, <3>2, <3>3 DEF PeekBypass, Sleep, Goto
  <2> QED
    BY <2>1, <2>2, <2>3, <2>4
<1>11. ASSUME NEW t \in Threads, PeekActive(t) PROVE Goal
  <2>1. ActiveOwns'
    BY <1>0, <1>11 DEF TypeOK, PeekActive, Goto, Notify, gate, ticket, Sleep, ActiveOwns, Owning
  <2>2. SuspendedWaits'
    BY <1>0, <1>11 DEF TypeOK, PeekActive, Goto, Notify, gate, ticket, Sleep, SuspendedWaits, Waiting
  <2>3. BypassOnly'
    BY <1>0, <1>11 DEF TypeOK, PeekActive, Goto, Notify, gate, ticket, Sleep, ActiveOwns, SuspendedWaits, BypassOnly, Owning, Waiting
  <2>4. LockOwned'
    <3>1. pc[t] = "peek2" /\ lock = t
      BY <1>0, <1>11 DEF PeekActive, LockOwned, Locking
    <3>2. CASE pc' = [pc EXCEPT ![t] = "resume"] /\ lock' = lock
      BY <1>0, <3>1, <3>2 DEF TypeOK, LockOwned, Locking
    <3>3. CASE pc' = [pc EXCEPT ![t] = "asleep"] /\ lock' = None
      BY <1>0, <3>1, <3>3 DEF TypeOK, LockOwned, Locking
    <3> QED
      BY <1>11, <3>2, <3>3 DEF PeekActive, Sleep, Goto
  <2> QED
    BY <2>1, <2>2, <2>3, <2>4
<1>12. ASSUME NEW t \in Threads, Reacquire(t) PROVE Goal
  <2>1. ActiveOwns'
    BY <1>0, <1>12 DEF TypeOK, Reacquire, Goto, Notify, gate, ticket, ActiveOwns, Owning
  <2>2. SuspendedWaits'
    BY <1>0, <1>12 DEF TypeOK, Reacquire, Goto, Notify, gate, ticket, SuspendedWaits, Waiting
  <2>3. BypassOnly'
    BY <1>0, <1>12 DEF TypeOK, Reacquire, Goto, Notify, gate, ticket, ActiveOwns, SuspendedWaits, BypassOnly, Owning, Waiting
  <2>4. LockOwned'
    BY <1>0, <1>12 DEF TypeOK, Reacquire, Goto, Notify, gate, ticket, LockOwned, Locking
  <2> QED
    BY <2>1, <2>2, <2>3, <2>4
<1>13. ASSUME NEW t \in Threads, Resume(t) PROVE Goal
  <2>1. /\ pc[t] = "resume" /\ pc' = [pc EXCEPT ![t] = "loop"] /\ active' = t
        /\ UNCHANGED <<byp, bypass, lock>>
    BY <1>13 DEF Resume, Goto, ticket
  <2>2. suspended = <<t>> /\ bypass = None /\ active = None
    BY <1>0, <2>1 DEF SuspendedWaits, BypassOnly, Waiting
  <2>3. suspended' = <<>>
    <3>1. PICK i \in 1..Len(suspended) : suspended' = RemoveAt(suspended, i)
      BY <1>13 DEF Resume
    <3>2. suspended' \in Seq(Threads) /\ Len(suspended') = 0
      <4>1. suspended \in Seq(Threads) /\ Len(suspended) = 1
        BY <1>0, <2>2 DEF TypeOK
      <4>2. RemoveAt(suspended, i) \in Seq(Threads) /\ Len(RemoveAt(suspended, i)) = Len(suspended) - 1
        BY <4>1, RemoveAtType
      <4> QED
        BY <4>1, <4>2, <3>1
    <3> QED
      BY <3>2, EmptySeq
  <2>4. ~byp[t] /\ \A u \in Threads : pc[u] \notin Owning /\ (pc[u] \in Waiting => u = t)
    BY <1>0, <2>1, <2>2 DEF ActiveOwns, SuspendedWaits, BypassOnly, Waiting
  <2>5. ActiveOwns'
    BY <1>0, <2>1, <2>4 DEF TypeOK, ActiveOwns, Owning
  <2>6. SuspendedWaits'
    BY <1>0, <2>1, <2>3, <2>4 DEF TypeOK, SuspendedWaits, Waiting
  <2>7. BypassOnly'
    BY <1>0, <2>1, <2>2, <2>3, <2>4 DEF TypeOK, BypassOnly, Owning, Waiting
  <2>8. LockOwned'
    BY <1>0, <2>1 DEF TypeOK, LockOwned, Locking
  <2> QED
    BY <2>5, <2>6, <2>7, <2>8
<1>14. ASSUME NEW t \in Threads, Leave(t) PROVE Goal
  <2>1. ActiveOwns'
    BY <1>0, <1>14 DEF TypeOK, Leave, Goto, Notify, gate, ticket, ActiveOwns, Owning
  <2>2. SuspendedWaits'
    BY <1>0, <1>14 DEF TypeOK, Leave, Goto, Notify, gate, ticket, SuspendedWaits, Waiting
  <2>3. BypassOnly'
    BY <1>0, <1>14 DEF TypeOK, Leave, Goto, Notify, gate, ticket, ActiveOwns, SuspendedWaits, BypassOnly, Owning, Waiting
  <2>4. LockOwned'
    BY <1>0, <1>14 DEF TypeOK, Leave, Goto, Notify, gate, ticket, LockOwned, Locking
  <2> QED
    BY <2>1, <2>2, <2>3, <2>4
<1>15. ASSUME NEW t \in Threads, Release(t) PROVE Goal
  <2>1. ActiveOwns'
    BY <1>0, <1>15 DEF TypeOK, Release, Goto, Notify, gate, ticket, ActiveOwns, Owning
  <2>2. SuspendedWaits'
    BY <1>0, <1>15 DEF TypeOK, Release, Goto, Notify, gate, ticket, SuspendedWaits, Waiting
  <2>3. BypassOnly'
    BY <1>0, <1>15 DEF TypeOK, Release, Goto, Notify, gate, ticket, ActiveOwns, SuspendedWaits, BypassOnly, Owning, Waiting
  <2>4. LockOwned'
    BY <1>0, <1>15 DEF TypeOK, Release, Goto, Notify, gate, ticket, LockOwned, Locking
  <2> QED
    BY <2>1, <2>2, <2>3, <2>4
<1>16. ASSUME UNCHANGED vars PROVE Goal
  <2>1. UNCHANGED <<pc, byp, gate, lock>>
    BY <1>16 DEF vars, ticket
  <2> QED
    BY <1>0, <2>1 DEF gate, ActiveOwns, SuspendedWaits, BypassOnly, LockOwned
<1> QED
  BY <1>1, <1>2, <1>3, <1>4, <1>5, <1>6, <1>7, <1>8, <1>9, <1>10, <1>11, <1>12, <1>13, <1>14, <1>15, <1>16 DEF Next, Step

LEMMA GateInit == Init => GateInv
<1> SUFFICES ASSUME Init PROVE GateInv
  OBVIOUS
<1>1. TypeOK
  BY InitTypes
<1> QED
  BY <1>1, GateAssumption DEF Init, GateInv, ActiveOwns, SuspendedWaits, BypassOnly, LockOwned,
     Owning, Waiting, Locking

(* "Entrants run one at a time", for every number of threads.              *)
THEOREM GateExclusive == Spec => []Exclusive
BY GateInit, GateInvStep, GateInvImplies, GateTypes, PTL DEF Spec

(* `suspended` is a list of which the code reads the last element only: it *)
(* never has a second one, and what runs meanwhile is the short prompt.    *)
THEOREM GateSuspendedAlone == Spec => []SuspendedAlone
BY GateInit, GateInvStep, GateInvImplies, GateTypes, PTL DEF Spec

-----------------------------------------------------------------------------
Queued == {"check", "parked"}

QueueInv ==
  /\ \A i, j \in 1..Len(fifo) : fifo[i] = fifo[j] => i = j
  /\ \A i \in 1..Len(fifo) : pc[fifo[i]] \in Queued
  /\ bypass # None => active = bypass \/ \E i \in 1..Len(fifo) : fifo[i] = bypass

(* Prompts in front of the one that was let in need more tokens than it,   *)
(* unless the limit was not the same throughout the search that chose it.  *)
Overtakes(t, u) == tokens[u] = None \/ tokens[u] > tokens[t] \/ turned

OrderInv ==
  bypass # None => \A i \in 1..Len(fifo) : fifo[i] = bypass =>
    tokens[bypass] # None /\ \A k \in 1..(i - 1) : Overtakes(bypass, fifo[k])

FairInv == QueueInv /\ OrderInv

LEMMA RemoveAtElements ==
  ASSUME NEW S, NEW s \in Seq(S), NEW i \in 1..Len(s), NEW j \in 1..(Len(s) - 1)
  PROVE  RemoveAt(s, i)[j] = IF j < i THEN s[j] ELSE s[j + 1]
<1> DEFINE a == SubSeq(s, 1, i - 1)
           b == SubSeq(s, i + 1, Len(s))
<1>1. Len(s) \in Nat /\ i \in Int /\ j \in Int
  BY LenProperties
<1>2. a \in Seq(S) /\ Len(a) = i - 1 /\ \A k \in 1..(i - 1) : a[k] = s[k]
  BY SubSeqProperties
<1>3. b \in Seq(S) /\ Len(b) = Len(s) - i /\ \A k \in 1..(Len(s) - i) : b[k] = s[i + k]
  BY SubSeqProperties
<1>4. RemoveAt(s, i) = a \o b
  BY DEF RemoveAt
<1> HIDE DEF a, b
<1>5. \A k \in 1..(Len(a) + Len(b)) : (a \o b)[k] = IF k <= Len(a) THEN a[k] ELSE b[k - Len(a)]
  BY <1>2, <1>3, ConcatProperties
<1>6. CASE j < i
  BY <1>1, <1>2, <1>3, <1>4, <1>5, <1>6
<1>7. CASE j >= i
  <2>1. (a \o b)[j] = b[j - (i - 1)]
    BY <1>1, <1>2, <1>3, <1>5, <1>7
  <2>2. j - (i - 1) \in 1..(Len(s) - i) /\ i + (j - (i - 1)) = j + 1
    BY <1>1, <1>7
  <2>3. b[j - (i - 1)] = s[i + (j - (i - 1))]
    BY <1>3, <2>2
  <2> QED
    BY <1>1, <1>4, <1>7, <2>1, <2>2, <2>3
<1> QED
  BY <1>1, <1>6, <1>7

(* A step that leaves the queue and the tickets in it alone.               *)
LEMMA FairKept ==
  ASSUME TypeOK, FairInv, fifo' = fifo,
         \A u \in Threads : pc[u] \in Queued => pc'[u] \in Queued /\ tokens'[u] = tokens[u],
         bypass' # None => bypass' = bypass /\ (active = bypass => active' = bypass),
         turned' = turned
  PROVE  FairInv'
<1>1. \A i \in 1..Len(fifo) : fifo[i] \in Threads /\ pc[fifo[i]] \in Queued
  BY ElementOfSeq DEF TypeOK, FairInv, QueueInv
<1>2. QueueInv'
  BY <1>1 DEF FairInv, QueueInv
<1>3. OrderInv'
  <2> SUFFICES ASSUME bypass' # None, NEW i \in 1..Len(fifo), fifo[i] = bypass
               PROVE  tokens'[bypass] # None /\ \A k \in 1..(i - 1) : Overtakes(bypass, fifo[k])'
    BY DEF OrderInv
  <2>1. tokens'[bypass] = tokens[bypass]
    BY <1>1
  <2>2. \A k \in 1..(i - 1) : k \in 1..Len(fifo)
    BY LenProperties DEF TypeOK
  <2> QED
    BY <1>1, <2>1, <2>2 DEF FairInv, OrderInv, Overtakes
<1> QED
  BY <1>2, <1>3 DEF FairInv

LEMMA FairArrive ==
  ASSUME TypeOK, GateInv, FairInv, NEW t \in Threads, Arrive(t)
  PROVE  FairInv'
<1>1. /\ fifo \in Seq(Threads) /\ Len(fifo) \in Nat /\ fifo' = Append(fifo, t)
      /\ Len(fifo') = Len(fifo) + 1 /\ fifo'[Len(fifo) + 1] = t
      /\ \A i \in 1..Len(fifo) : fifo'[i] = fifo[i]
  BY AppendProperties, LenProperties DEF TypeOK, Arrive
<1>2. /\ pc[t] = "out" /\ pc'[t] = "check" /\ bypass' = bypass /\ active' = active /\ turned' = turned
      /\ \A u \in Threads \ {t} : pc'[u] = pc[u] /\ tokens'[u] = tokens[u]
  BY DEF TypeOK, Arrive, Goto
<1>3. \A i \in 1..Len(fifo) : fifo[i] \in Threads \ {t}
  BY <1>1, <1>2, ElementOfSeq DEF FairInv, QueueInv, Queued
<1>4. bypass # t
  BY <1>2, <1>3, GateAssumption DEF FairInv, QueueInv, GateInv, ActiveOwns, Owning
<1>5. QueueInv'
  <2>1. ASSUME NEW i \in 1..Len(fifo'), NEW j \in 1..Len(fifo'), fifo'[i] = fifo'[j] PROVE i = j
    BY <1>1, <1>3, <2>1 DEF FairInv, QueueInv
  <2>2. ASSUME NEW i \in 1..Len(fifo') PROVE pc'[fifo'[i]] \in Queued
    <3>1. CASE i = Len(fifo) + 1
      BY <1>1, <1>2, <3>1 DEF Queued
    <3>2. CASE i \in 1..Len(fifo)
      BY <1>1, <1>2, <1>3, <3>2 DEF FairInv, QueueInv
    <3> QED
      BY <1>1, <3>1, <3>2
  <2>3. ASSUME bypass # None, active # bypass PROVE \E i \in 1..Len(fifo') : fifo'[i] = bypass
    <3>1. PICK i \in 1..Len(fifo) : fifo[i] = bypass
      BY <2>3 DEF FairInv, QueueInv
    <3> QED
      BY <1>1, <3>1
  <2> QED
    BY <1>2, <2>1, <2>2, <2>3 DEF QueueInv
<1>6. OrderInv'
  <2> SUFFICES ASSUME bypass # None, NEW i \in 1..Len(fifo'), fifo'[i] = bypass
               PROVE  tokens'[bypass] # None /\ \A k \in 1..(i - 1) : Overtakes(bypass, fifo[k])'
    BY <1>1, <1>2 DEF OrderInv, Overtakes
  <2>1. i \in 1..Len(fifo) /\ fifo[i] = bypass
    BY <1>1, <1>4
  <2>2. \A k \in 1..(i - 1) : k \in 1..Len(fifo) /\ fifo'[k] = fifo[k]
    BY <1>1, <2>1
  <2> QED
    BY <1>2, <1>3, <2>1, <2>2 DEF FairInv, OrderInv, Overtakes
<1> QED
  BY <1>5, <1>6 DEF FairInv

LEMMA FairAdmit ==
  ASSUME TypeOK, GateInv, FairInv, NEW t \in Threads, Check(t), MayRun(t)
  PROVE  FairInv'
<1>1. PICK i \in 1..Len(fifo) : fifo[i] = t /\ fifo' = RemoveAt(fifo, i)
  BY DEF Check
<1>2. /\ fifo \in Seq(Threads) /\ Len(fifo) \in Nat /\ Len(fifo') = Len(fifo) - 1
      /\ \A j \in 1..(Len(fifo) - 1) : fifo'[j] = IF j < i THEN fifo[j] ELSE fifo[j + 1]
  BY <1>1, RemoveAtType, RemoveAtElements, LenProperties DEF TypeOK
<1>3. /\ active' = t /\ bypass' = bypass
      /\ \A u \in Threads \ {t} : pc'[u] = pc[u]
  BY DEF Check, TypeOK, Goto
<1>4. bypass \in {None, t}
  BY DEF MayRun
<1>5. \A j \in 1..Len(fifo') : fifo'[j] \in Threads \ {t} /\ pc'[fifo'[j]] \in Queued
  <2> TAKE j \in 1..Len(fifo')
  <2>1. PICK k \in 1..Len(fifo) : fifo'[j] = fifo[k] /\ k # i
    BY <1>2
  <2>2. fifo[k] \in Threads /\ fifo[k] # t
    BY <1>1, <1>2, <2>1, ElementOfSeq DEF FairInv, QueueInv
  <2> QED
    BY <1>3, <2>1, <2>2 DEF FairInv, QueueInv
<1>6. ASSUME NEW j \in 1..Len(fifo'), NEW k \in 1..Len(fifo'), fifo'[j] = fifo'[k] PROVE j = k
  <2> DEFINE Old(n) == IF n < i THEN n ELSE n + 1
  <2>1. /\ fifo'[j] = fifo[Old(j)] /\ fifo'[k] = fifo[Old(k)]
        /\ Old(j) \in 1..Len(fifo) /\ Old(k) \in 1..Len(fifo)
    BY <1>2
  <2>2. Old(j) = Old(k)
    BY <1>6, <2>1 DEF FairInv, QueueInv
  <2> QED
    BY <2>2
<1> QED
  BY <1>3, <1>4, <1>5, <1>6 DEF FairInv, QueueInv, OrderInv

LEMMA FairSuspend ==
  ASSUME TypeOK, FairInv, NEW t \in Threads, Suspend(t)
  PROVE  FairInv'
<1>0. PICK i \in 1..Len(fifo) : \E limit \in [1..i -> Limits] :
        /\ IsCandidate(i, limit)
        /\ bypass' = fifo[i]
        /\ turned' = (\E j \in 1..i : limit[j] # limit[i])
  BY DEF Suspend
<1>1. PICK limit \in [1..i -> Limits] :
        /\ IsCandidate(i, limit)
        /\ bypass' = fifo[i]
        /\ turned' = (\E j \in 1..i : limit[j] # limit[i])
  BY <1>0
<1>2. fifo' = fifo /\ tokens' = tokens
  BY DEF Suspend, ticket
<1>3. \A k \in 1..Len(fifo) : fifo[k] \in Threads /\ pc'[fifo[k]] \in Queued
  <2> TAKE k \in 1..Len(fifo)
  <2>1. fifo[k] \in Threads /\ pc[fifo[k]] \in Queued
    BY ElementOfSeq DEF TypeOK, FairInv, QueueInv
  <2> QED
    BY <2>1 DEF Suspend, Notify, Queued, TypeOK
<1>4. QueueInv'
  BY <1>1, <1>2, <1>3 DEF FairInv, QueueInv
<1>5. OrderInv'
  <2> SUFFICES ASSUME NEW j \in 1..Len(fifo), fifo[j] = fifo[i]
               PROVE  tokens[fifo[i]] # None /\ \A k \in 1..(j - 1) : Overtakes(fifo[i], fifo[k])'
    BY <1>1, <1>2 DEF OrderInv
  <2>1. j = i
    BY DEF FairInv, QueueInv
  <2>2. Small(fifo[i], limit[i])
    BY <1>1 DEF IsCandidate
  <2>3. ASSUME NEW k \in 1..(i - 1) PROVE Overtakes(fifo[i], fifo[k])'
    <3>0. k \in 1..Len(fifo)
      BY LenProperties DEF TypeOK
    <3>1. ~Small(fifo[k], limit[k]) /\ fifo[k] \in Threads
      BY <1>1, <1>3, <3>0 DEF IsCandidate
    <3>2. tokens[fifo[k]] = None \/ tokens[fifo[k]] \in Nat
      BY <3>1, GateAssumption DEF TypeOK
    <3>3. tokens[fifo[i]] \in Nat /\ limit[i] \in Nat
      <4>1. tokens[fifo[i]] \in Nat
        BY <1>3, <2>2, GateAssumption DEF TypeOK, Small
      <4>2. Limits \subseteq Nat
        BY GateAssumption DEF Limits
      <4>3. i \in Nat /\ 1 <= i
        BY LenProperties DEF TypeOK
      <4>4. i \in 1..i
        BY <4>3
      <4> QED
        BY <1>1, <4>1, <4>2, <4>4
    <3>4. CASE turned'
      BY <3>4 DEF Overtakes
    <3>5. CASE ~turned'
      <4>1. limit[k] = limit[i]
        <5>1. k \in 1..i
          BY LenProperties DEF TypeOK
        <5>2. \A n \in 1..i : ~(limit[n] # limit[i])
          BY <1>1, <3>5, Zenon
        <5> QED
          BY <5>1, <5>2
      <4>2. tokens[fifo[k]] = None \/ tokens[fifo[k]] > tokens[fifo[i]]
        BY <2>2, <3>1, <3>2, <3>3, <4>1 DEF Small
      <4> QED
        BY <1>2, <4>2 DEF Overtakes
    <3> QED
      BY <3>4, <3>5
  <2> QED
    BY <1>2, <2>1, <2>2, <2>3 DEF Small
<1> QED
  BY <1>4, <1>5 DEF FairInv

LEMMA FairStep == GateInv /\ FairInv /\ [Next]_vars => FairInv'
<1> SUFFICES ASSUME GateInv, FairInv, [Next]_vars PROVE FairInv'
  OBVIOUS
<1>0. TypeOK
  BY DEF GateInv
<1>1. ASSUME NEW t \in Threads, Arrive(t) PROVE FairInv'
  BY <1>0, <1>1, FairArrive
<1>2. ASSUME NEW t \in Threads, Check(t) PROVE FairInv'
  <2>1. CASE MayRun(t)
    BY <1>0, <1>2, <2>1, FairAdmit
  <2>2. CASE ~MayRun(t)
    <3>1. UNCHANGED <<fifo, tokens, active, bypass, turned>> /\ pc' = [pc EXCEPT ![t] = "parked"]
      BY <1>2, <2>2 DEF Check, Goto
    <3>2. \A u \in Threads : pc[u] \in Queued => pc'[u] \in Queued /\ tokens'[u] = tokens[u]
      BY <1>0, <3>1 DEF TypeOK, Queued
    <3> QED
      BY <1>0, <3>1, <3>2, FairKept
  <2> QED
    BY <2>1, <2>2
<1>3. ASSUME NEW t \in Threads, Suspend(t) PROVE FairInv'
  BY <1>0, <1>3, FairSuspend
<1>4. ASSUME NEW t \in Threads, Leave(t) PROVE FairInv'
  <2>1. \A u \in Threads : pc[u] \in Queued => pc'[u] \in Queued /\ tokens'[u] = tokens[u]
    BY <1>0, <1>4 DEF Leave, Notify, TypeOK, Queued
  <2>2. fifo' = fifo /\ turned' = turned
        /\ (bypass' # None => bypass' = bypass /\ (active = bypass => active' = bypass))
    BY <1>4 DEF Leave
  <2> QED
    BY <1>0, <2>1, <2>2, FairKept
<1>5. ASSUME NEW t \in Threads, Release(t) PROVE FairInv'
  <2>1. \A u \in Threads : pc[u] \in Queued => pc'[u] \in Queued /\ tokens'[u] = tokens[u]
    BY <1>0, <1>5 DEF Release, Notify, TypeOK, Queued
  <2>2. UNCHANGED <<fifo, active, bypass, turned>>
    BY <1>5 DEF Release, gate
  <2> QED
    BY <1>0, <2>1, <2>2, FairKept
<1>6. ASSUME NEW t \in Threads, Resume(t) PROVE FairInv'
  <2>1. bypass' = None
    BY <1>6 DEF Resume, GateInv, BypassOnly
  <2>2. \A u \in Threads : pc[u] \in Queued => pc'[u] \in Queued /\ tokens'[u] = tokens[u]
    BY <1>0, <1>6 DEF Resume, Goto, TypeOK, Queued, ticket
  <2>3. fifo' = fifo /\ turned' = turned
    BY <1>6 DEF Resume
  <2> QED
    BY <1>0, <2>1, <2>2, <2>3, FairKept
<1>7. ASSUME NEW t \in Threads,
             \/ Acquire(t) \/ Reenter(t) \/ LeaveInner(t) \/ Chunk(t) \/ Yield(t) \/ YieldReturn(t)
             \/ PeekBypass(t) \/ PeekActive(t) \/ Reacquire(t)
      PROVE  FairInv'
  <2>1. /\ pc[t] \notin Queued
        /\ UNCHANGED <<fifo, active, bypass, tokens, turned>>
        /\ pc' = pc \/ \E l : pc' = [pc EXCEPT ![t] = l]
    BY <1>7 DEF Acquire, Reenter, LeaveInner, Chunk, Yield, YieldReturn, PeekBypass, PeekActive,
       Reacquire, Sleep, Goto, gate, ticket, Queued
  <2>2. \A u \in Threads : pc[u] \in Queued => pc'[u] \in Queued /\ tokens'[u] = tokens[u]
    BY <1>0, <2>1 DEF TypeOK
  <2> QED
    BY <1>0, <2>1, <2>2, FairKept
<1>8. ASSUME UNCHANGED vars PROVE FairInv'
  <2>1. UNCHANGED <<pc, tokens, fifo, active, bypass, turned>>
    BY <1>8 DEF vars, ticket, gate
  <2> QED
    BY <1>0, <2>1, FairKept
<1> QED
  BY <1>1, <1>2, <1>3, <1>4, <1>5, <1>6, <1>7, <1>8 DEF Next, Step

-----------------------------------------------------------------------------
(* s suspended chunks and r more to come, of e elapsed ones.               *)
Within(s, r, e) == s * ShareDen + r * ShareDen <= ShareNum * e + MaxWork * ShareDen

(* Chunks the short prompt that was let in still has to run.               *)
Rest == IF bypass = None THEN 0 ELSE work[bypass]

ShareInv ==
  \A t \in Threads :
    /\ Within(susp[t], 0, elapsed[t])
    /\ suspended = <<t>> => Within(susp[t], Rest, elapsed[t])

LEMMA WithinTick ==
  ASSUME NEW s \in Nat, NEW r \in Nat \ {0}, NEW e \in Nat, Within(s, r, e)
  PROVE  Within(s + 1, r - 1, e + 1)
<1>1. (s + 1) * ShareDen = s * ShareDen + ShareDen /\ (r - 1) * ShareDen = r * ShareDen - ShareDen
  BY GateAssumption
<1>2. ShareNum * (e + 1) = ShareNum * e + ShareNum
  BY GateAssumption
<1>3. s * ShareDen \in Nat /\ r * ShareDen \in Nat /\ ShareNum * e \in Nat /\ MaxWork * ShareDen \in Nat
  BY GateAssumption
<1> QED
  BY <1>1, <1>2, <1>3, GateAssumption DEF Within

LEMMA WithinFewer ==
  ASSUME NEW s \in Nat, NEW r \in Nat, NEW q \in Nat, NEW e \in Nat, q <= r, Within(s, r, e)
  PROVE  Within(s, q, e)
<1>1. r * ShareDen = q * ShareDen + (r - q) * ShareDen /\ (r - q) * ShareDen \in Nat
  BY GateAssumption
<1>2. s * ShareDen \in Nat /\ q * ShareDen \in Nat /\ ShareNum * e \in Nat /\ MaxWork * ShareDen \in Nat
  BY GateAssumption
<1> QED
  BY <1>1, <1>2 DEF Within

LEMMA WithinLater ==
  ASSUME NEW s \in Nat, NEW r \in Nat, NEW e \in Nat, Within(s, r, e)
  PROVE  Within(s, r, e + 1)
<1>1. ShareNum * (e + 1) = ShareNum * e + ShareNum
  BY GateAssumption
<1>2. s * ShareDen \in Nat /\ r * ShareDen \in Nat /\ ShareNum * e \in Nat /\ MaxWork * ShareDen \in Nat
  BY GateAssumption
<1> QED
  BY <1>1, <1>2, GateAssumption DEF Within

LEMMA WithinStart ==
  ASSUME NEW s \in Nat, NEW r \in 0..MaxWork, NEW e \in Nat, s * ShareDen <= ShareNum * e
  PROVE  Within(s, r, e)
<1>1. MaxWork * ShareDen = r * ShareDen + (MaxWork - r) * ShareDen /\ (MaxWork - r) * ShareDen \in Nat
  BY GateAssumption
<1>2. s * ShareDen \in Nat /\ r * ShareDen \in Nat /\ ShareNum * e \in Nat
  BY GateAssumption
<1> QED
  BY <1>1, <1>2 DEF Within

LEMMA WithinNothing == Within(0, 0, 0)
BY GateAssumption DEF Within

(* A step that leaves the clocks and the suspended prefill alone, and does *)
(* not give the one it was suspended for more to do.                       *)
LEMMA ShareKept ==
  ASSUME TypeOK, TypeOK', ShareInv, UNCHANGED <<susp, elapsed>>,
         \A t \in Threads : suspended' = <<t>> => suspended = <<t>> /\ Rest' <= Rest
  PROVE  ShareInv'
<1>1. Rest \in Nat /\ Rest' \in Nat
  BY GateAssumption DEF TypeOK, Rest
<1>2. ASSUME NEW t \in Threads, suspended' = <<t>> PROVE Within(susp[t], Rest', elapsed[t])
  BY <1>1, <1>2, WithinFewer DEF ShareInv, TypeOK
<1>3. \A t \in Threads : Within(susp[t], 0, elapsed[t])
  BY DEF ShareInv
<1> QED
  BY <1>2, <1>3 DEF ShareInv, Within

LEMMA ShareChunk ==
  ASSUME TypeOK, GateInv, ShareInv, NEW t \in Threads, Chunk(t)
  PROVE  ShareInv'
<1>1. pc[t] = "run" /\ work[t] \in Nat \ {0} /\ active = t
  BY GateAssumption DEF Chunk, TypeOK, GateInv, ActiveOwns, Owning
<1>0. \A u \in Threads : susp[u] \in Nat /\ elapsed[u] \in Nat
  BY DEF TypeOK
<1>2. CASE suspended = <<>>
  <2>1. ToSet(suspended) = {}
    BY <1>2 DEF ToSet
  <2>2. /\ suspended' = <<>>
        /\ \A u \in Threads : susp'[u] = susp[u] /\ elapsed'[u] \in {elapsed[u], elapsed[u] + 1}
    BY <1>2, <2>1 DEF Chunk, gate
  <2>3. ASSUME NEW u \in Threads PROVE Within(susp'[u], 0, elapsed'[u])
    <3>1. Within(susp[u], 0, elapsed[u])
      BY DEF ShareInv
    <3>2. Within(susp[u], 0, elapsed[u] + 1)
      BY <1>0, <3>1, WithinLater
    <3> QED
      BY <2>2, <3>1, <3>2
  <2> QED
    BY <2>2, <2>3 DEF ShareInv, Within
<1>3. ASSUME NEW u \in Threads, suspended = <<u>> PROVE ShareInv'
  <2>1. bypass = t /\ Rest = work[t] /\ u # t
    <3>1. bypass = active /\ active # None
      BY <1>1, <1>3, GateAssumption DEF GateInv, BypassOnly
    <3>2. pc[u] \in Waiting
      BY <1>3 DEF GateInv, SuspendedWaits
    <3> QED
      BY <1>1, <3>1, <3>2, GateAssumption DEF Rest, Waiting
  <2>2. ToSet(suspended) = {u}
    BY <1>3 DEF ToSet
  <2>3. /\ susp'[u] = susp[u] + 1 /\ elapsed'[u] = elapsed[u] + 1
        /\ \A v \in Threads \ {u} : susp'[v] = susp[v] /\ elapsed'[v] \in {elapsed[v], elapsed[v] + 1}
        /\ suspended' = suspended
    BY <2>2 DEF Chunk, gate
  <2>4. Rest' = work[t] - 1
    BY <1>1, <2>1, GateAssumption DEF Chunk, Rest, gate, TypeOK
  <2>5. Within(susp[u] + 1, work[t] - 1, elapsed[u] + 1)
    <3>1. Within(susp[u], work[t], elapsed[u])
      BY <1>3, <2>1 DEF ShareInv
    <3> QED
      BY <1>0, <1>1, <3>1, WithinTick
  <2>6. Within(susp[u] + 1, 0, elapsed[u] + 1)
    <3>1. work[t] - 1 \in Nat /\ 0 <= work[t] - 1 /\ susp[u] + 1 \in Nat /\ elapsed[u] + 1 \in Nat
      BY <1>0, <1>1
    <3> QED
      BY <2>5, <3>1, WithinFewer
  <2>7. ASSUME NEW v \in Threads \ {u} PROVE Within(susp'[v], 0, elapsed'[v])
    <3>1. Within(susp[v], 0, elapsed[v])
      BY DEF ShareInv
    <3>2. Within(susp[v], 0, elapsed[v] + 1)
      BY <1>0, <3>1, WithinLater
    <3> QED
      BY <2>3, <3>1, <3>2
  <2> QED
    BY <1>3, <2>3, <2>4, <2>5, <2>6, <2>7 DEF ShareInv, Within
<1> QED
  BY <1>2, <1>3 DEF GateInv, SuspendedWaits

(* The suspension begins within the share, and one short prompt is let in. *)
LEMMA ShareSuspend ==
  ASSUME TypeOK, TypeOK', GateInv, GateInv', ShareInv, NEW t \in Threads, Suspend(t)
  PROVE  ShareInv'
<1>1. susp' = susp /\ elapsed' = elapsed /\ work' = work
  BY DEF Suspend, clock, ticket
<1>2. susp[t] * ShareDen <= ShareNum * elapsed[t]
  <2>0. susp[t] \in Nat /\ elapsed[t] \in Nat
    BY DEF TypeOK
  <2>1. susp[t] * ShareDen \in Nat /\ ShareNum * elapsed[t] \in Nat
    BY <2>0, GateAssumption
  <2> QED
    BY <2>1 DEF Suspend, OverShare
<1>3. Rest' \in 0..MaxWork
  BY GateAssumption DEF TypeOK, Rest
<1>4. suspended' = <<t>>
  <2>1. pc'[t] = "peek"
    BY DEF Suspend, TypeOK, Notify
  <2> QED
    BY <2>1 DEF GateInv, SuspendedWaits, Waiting
<1>5. Within(susp[t], Rest', elapsed[t])
  BY <1>2, <1>3, WithinStart DEF TypeOK
<1> QED
  BY <1>1, <1>4, <1>5 DEF ShareInv, Within

LEMMA ShareRelease ==
  ASSUME TypeOK, GateInv, ShareInv, NEW t \in Threads, Release(t)
  PROVE  ShareInv'
<1>1. susp'[t] = 0 /\ elapsed'[t] = 0 /\ suspended' = suspended /\ Rest' = Rest
  BY DEF Release, TypeOK, gate, Rest
<1>2. \A u \in Threads \ {t} : susp'[u] = susp[u] /\ elapsed'[u] = elapsed[u]
  BY DEF Release, TypeOK
<1>3. suspended # <<t>>
  BY DEF Release, GateInv, SuspendedWaits, Waiting
<1> QED
  BY <1>1, <1>2, <1>3, WithinNothing DEF ShareInv, Within

LEMMA ShareStep == GateInv /\ GateInv' /\ FairInv /\ ShareInv /\ [Next]_vars => ShareInv'
<1> SUFFICES ASSUME GateInv, GateInv', FairInv, ShareInv, [Next]_vars PROVE ShareInv'
  OBVIOUS
<1>0. TypeOK /\ TypeOK'
  BY DEF GateInv
<1>1. ASSUME NEW t \in Threads, Arrive(t) PROVE ShareInv'
  <2>1. pc[t] = "out" /\ UNCHANGED <<bypass, suspended, susp, elapsed>>
    BY <1>1 DEF Arrive, clock
  <2>2. bypass # t
    <3>1. \A i \in 1..Len(fifo) : pc[fifo[i]] \in Queued
      BY DEF FairInv, QueueInv
    <3>2. active # t
      BY <2>1 DEF GateInv, ActiveOwns, Owning
    <3> QED
      BY <2>1, <3>1, <3>2, GateAssumption DEF FairInv, QueueInv, Queued
  <2>3. Rest' = Rest
    BY <1>0, <1>1, <2>1, <2>2 DEF Arrive, Rest, TypeOK
  <2>4. Rest \in Nat
    BY <1>0, GateAssumption DEF TypeOK, Rest
  <2> QED
    BY <1>0, <2>1, <2>3, <2>4, ShareKept
<1>2. ASSUME NEW t \in Threads, Chunk(t) PROVE ShareInv'
  BY <1>0, <1>2, ShareChunk
<1>3. ASSUME NEW t \in Threads, Suspend(t) PROVE ShareInv'
  BY <1>0, <1>3, ShareSuspend
<1>4. ASSUME NEW t \in Threads, Release(t) PROVE ShareInv'
  BY <1>0, <1>4, ShareRelease
<1>5. ASSUME NEW t \in Threads, Resume(t) PROVE ShareInv'
  <2>1. \A u \in Threads : suspended' # <<u>>
    <3>1. \A u \in Threads : pc'[u] \notin Waiting
      <4>1. pc[t] = "resume" /\ pc' = [pc EXCEPT ![t] = "loop"]
        BY <1>5 DEF Resume, Goto
      <4>2. \A u \in Threads : pc[u] \in Waiting => u = t
        BY <4>1 DEF GateInv, SuspendedWaits, Waiting
      <4> QED
        BY <1>0, <4>1, <4>2 DEF TypeOK, Waiting
    <3> QED
      BY <3>1 DEF GateInv, SuspendedWaits
  <2>2. UNCHANGED <<susp, elapsed>>
    BY <1>5 DEF Resume, clock
  <2> QED
    BY <1>0, <2>1, <2>2, ShareKept
<1>6. ASSUME NEW t \in Threads, LeaveInner(t) \/ Leave(t) PROVE ShareInv'
  <2>1. UNCHANGED <<suspended, susp, elapsed>>
    BY <1>6 DEF LeaveInner, Leave, gate, clock
  <2>2. Rest' \in {0, Rest}
    <3>1. work' = [work EXCEPT ![t] = 0] /\ (bypass' = bypass \/ bypass' = None)
      BY <1>6 DEF LeaveInner, Leave, gate
    <3> QED
      BY <1>0, <3>1 DEF Rest, TypeOK
  <2>3. Rest \in Nat
    BY <1>0, GateAssumption DEF TypeOK, Rest
  <2> QED
    BY <1>0, <2>1, <2>2, <2>3, ShareKept
<1>7. ASSUME NEW t \in Threads,
             \/ Check(t) \/ Acquire(t) \/ Reenter(t) \/ Yield(t) \/ YieldReturn(t)
             \/ PeekBypass(t) \/ PeekActive(t) \/ Reacquire(t)
      PROVE  ShareInv'
  <2>1. UNCHANGED <<work, bypass, suspended, susp, elapsed>>
    BY <1>7 DEF Check, Acquire, Reenter, Yield, YieldReturn, PeekBypass, PeekActive, Reacquire,
       gate, ticket, clock
  <2>2. Rest' = Rest /\ Rest \in Nat
    BY <1>0, <2>1, GateAssumption DEF Rest, TypeOK
  <2> QED
    BY <1>0, <2>1, <2>2, ShareKept
<1>8. ASSUME UNCHANGED vars PROVE ShareInv'
  <2>1. UNCHANGED <<work, bypass, suspended, susp, elapsed>>
    BY <1>8 DEF vars, gate, ticket, clock
  <2>2. Rest' = Rest /\ Rest \in Nat
    BY <1>0, <2>1, GateAssumption DEF Rest, TypeOK
  <2> QED
    BY <1>0, <2>1, <2>2, ShareKept
<1> QED
  BY <1>1, <1>2, <1>3, <1>4, <1>5, <1>6, <1>7, <1>8 DEF Next, Step

-----------------------------------------------------------------------------
LEMMA FairInit == Init => FairInv /\ ShareInv
<1> SUFFICES ASSUME Init PROVE FairInv /\ ShareInv
  OBVIOUS
<1>1. FairInv
  BY DEF Init, FairInv, QueueInv, OrderInv
<1>2. ShareInv
  BY WithinNothing DEF Init, ShareInv
<1> QED
  BY <1>1, <1>2

(* The time a long prefill is suspended stays within its share of the time *)
(* since it began to run plus the one short prompt that was let in while   *)
(* the share still held (`t.suspended_s > self.share * elapsed`), for any  *)
(* share, any prompt lengths and any number of threads.                    *)
THEOREM GateShareSlack == Spec => []ShareSlack
<1>1. TypeOK /\ ShareInv => ShareSlack
  <2> SUFFICES ASSUME TypeOK, ShareInv, NEW t \in Threads
               PROVE  susp[t] * ShareDen <= ShareNum * elapsed[t] + MaxWork * ShareDen
    BY DEF ShareSlack
  <2>1. susp[t] \in Nat /\ elapsed[t] \in Nat
    BY DEF TypeOK
  <2>2. susp[t] * ShareDen \in Nat /\ 0 * ShareDen = 0
    BY <2>1, GateAssumption
  <2>3. Within(susp[t], 0, elapsed[t])
    BY DEF ShareInv
  <2> QED
    BY <2>2, <2>3 DEF Within
<1> QED
  BY <1>1, GateInit, FairInit, GateInvStep, FairStep, ShareStep, GateTypes, PTL DEF Spec

(* A prompt admitted over an earlier one was let in by a suspension, and   *)
(* the earlier one is not eligible or needs more tokens, or the flag was   *)
(* changed during that search: the head of the queue is admitted           *)
(* otherwise, and nothing is in front of it.                               *)
LEMMA AdmitInOrder ==
  ASSUME GateInv, FairInv, NEW t \in Threads, NEW u \in Threads, [Next]_vars,
         pc[t] = "check", pc'[t] = "admitted", Before(u, t)
  PROVE  byp'[t] /\ (tokens[u] = None \/ tokens[u] > tokens[t] \/ turned)
<1>0. TypeOK
  BY DEF GateInv
<1>1. Check(t) /\ MayRun(t)
  <2>1. Check(t)
    BY <1>0 DEF Next, Step, vars, Arrive, Check, Acquire, Reenter, LeaveInner, Chunk, Yield,
       YieldReturn, Suspend, PeekBypass, PeekActive, Reacquire, Sleep, Resume, Leave, Release,
       Goto, Notify, TypeOK
  <2> QED
    BY <1>0, <2>1 DEF Check, Goto, TypeOK
<1>2. PICK i \in 1..Len(fifo), j \in 1..Len(fifo) : i < j /\ fifo[i] = u /\ fifo[j] = t
  BY DEF Before
<1>3. bypass = t
  <2> SUFFICES ASSUME bypass # t PROVE FALSE
    OBVIOUS
  <2>1. fifo # <<>> /\ fifo[1] = t
    BY <1>1 DEF MayRun
  <2>2. Len(fifo) \in Nat /\ 1 \in 1..Len(fifo)
    BY <1>0, <1>2, LenProperties DEF TypeOK
  <2>3. j = 1
    BY <1>2, <2>1, <2>2 DEF FairInv, QueueInv
  <2> QED
    BY <1>2, <2>2, <2>3
<1>4. byp'[t]
  BY <1>0, <1>1, <1>3 DEF Check, TypeOK
<1>5. Overtakes(t, u)
  <2>1. \A k \in 1..(j - 1) : Overtakes(bypass, fifo[k])
    BY <1>2, <1>3, GateAssumption DEF FairInv, OrderInv
  <2>2. i \in 1..(j - 1)
    BY <1>0, <1>2, LenProperties DEF TypeOK
  <2> QED
    BY <1>2, <1>3, <2>1, <2>2
<1> QED
  BY <1>4, <1>5 DEF Overtakes

(* Long prompts never overtake, and short ones are served in the order of  *)
(* their arrival, even when the limit changes while they wait, unless it   *)
(* changes between two tickets of the search that chooses one of them.     *)
THEOREM GateArrivalOrder == Spec => ArrivalOrder
<1> DEFINE InOrder ==
      \A t, u \in Threads :
        pc[t] = "check" /\ pc'[t] = "admitted" /\ Before(u, t)
          => /\ byp'[t]
             /\ tokens[u] = None \/ tokens[u] > tokens[t] \/ turned
<1>1. GateInv /\ FairInv /\ [Next]_vars => [InOrder]_vars
  BY AdmitInOrder DEF InOrder
<1>2. ArrivalOrder <=> [][InOrder]_vars
  BY DEF ArrivalOrder, InOrder
<1> HIDE DEF InOrder
<1> QED
  BY <1>1, <1>2, GateInit, FairInit, GateInvStep, FairStep, GateTypes, PTL DEF Spec
=============================================================================
