---------------------------- MODULE PrefillGate ----------------------------
(***************************************************************************)
(* The prefill admission gate of the box front end: class PrefillGate of   *)
(* kernels/split-nv/src/hooks/split_nv/fair.py, with the calls that        *)
(* Front.prefill, Front._handle_open and Front.cache_clear make on it.     *)
(*                                                                         *)
(* One prompt is prefilled at a time, in arrival order.  With the bypass   *)
(* on, a long prefill checks the gate between two chunks; if a short       *)
(* prompt waits, the long one gives the gate and the lock away, the short  *)
(* one runs to its end, and the long one resumes.                          *)
(*                                                                         *)
(* Every block under the mutex `mu` is one step.  The condition variables  *)
(* are explicit: a thread whose pc is "parked" sleeps on cv and one whose  *)
(* pc is "asleep" sleeps on rcv; only a notification moves them.  Time is  *)
(* counted in units of GPU work: a chunk takes one, and so does a holder   *)
(* that computes no chunk (a full cache hit, a refused prompt, a clear).   *)
(* limit() reads a flag file that anybody may write at any time: each of   *)
(* its calls returns some member of Limits, whatever the last one did.     *)
(***************************************************************************)
EXTENDS Integers, SequencesExt

CONSTANTS Threads,      (* connection threads, one prefill (or clear) each      *)
          None,         (* Python's None                                        *)
          TokenCounts,  (* new tokens a prompt may need                         *)
          BypassTokens, (* SPLIT_NV_BYPASS_TOKENS                               *)
          FlagLimits,   (* values the runtime flag bypass_tokens is set to      *)
          MaxWork,      (* bound: chunks of one prefill                         *)
          ShareNum, ShareDen  (* SPLIT_NV_BYPASS_SHARE as a fraction            *)

ASSUME GateAssumption ==
  /\ None \notin Threads
  /\ TokenCounts \subseteq Nat
  /\ None \notin Nat
  /\ BypassTokens \in Nat
  /\ FlagLimits \subseteq Nat
  /\ MaxWork \in Nat
  /\ ShareNum \in Nat /\ ShareDen \in Nat \ {0}

VARIABLES
  pc,         \* where each thread is
  tokens,     \* Ticket.new_tokens (None: not eligible for a bypass)
  byp,        \* Ticket.bypass
  depth,      \* the re-entrancy depth kept in `tickets`
  work,       \* chunks the thread's prefill still has to run
  fifo, active, bypass, suspended,      \* the gate, guarded by mu
  lock,       \* owner of the re-entrant prefill lock
  elapsed, susp, \* chunks since t_run, and Ticket.suspended_s, per thread
  turned      \* history: the flag changed during the search of the queue that
              \* chose the bypass; FALSE again once that one is admitted

gate == <<fifo, active, bypass, suspended>>
clock == <<elapsed, susp>>
ticket == <<tokens, byp, depth, work>>
vars == <<pc, ticket, gate, lock, clock, turned>>

Goto(t, l) == pc' = [pc EXCEPT ![t] = l]
Notify(f, from, to) == [u \in Threads |-> IF f[u] = from THEN to ELSE f[u]]

-----------------------------------------------------------------------------
(* What a call of limit() may return: the flag is looked at only when the  *)
(* environment enabled the bypass, and defaults to the environment's value.*)
Limits == IF BypassTokens = 0 THEN {0} ELSE FlagLimits \cup {BypassTokens}

Small(t, limit) == limit > 0 /\ tokens[t] # None /\ tokens[t] <= limit

(* Variants of a definition, each with one slip, stand before it: the runs *)
(* must tell them from the code (PROJECT.json, "mutants").                 *)
MayRunBesideActive(t) ==
  bypass = t \/ (bypass = None /\ suspended = <<>> /\ fifo # <<>> /\ fifo[1] = t)
MayRunBesideSuspended(t) ==
  bypass = t \/ (active = None /\ bypass = None /\ fifo # <<>> /\ fifo[1] = t)

MayRun(t) ==
  \/ bypass = t
  \/ active = None /\ bypass = None /\ suspended = <<>> /\ fifo # <<>> /\ fifo[1] = t

IsAnySmall(i, limit) == Small(fifo[i], limit[i])

(* `next((w for w in self.fifo if self.small(w)), None)`: the limit is read*)
(* anew for each ticket that is looked at.                                 *)
IsCandidate(i, limit) ==
  /\ Small(fifo[i], limit[i])
  /\ \A j \in 1..(i - 1) : ~Small(fifo[j], limit[j])

ShareUnlimited(t) == FALSE

(* t.suspended_s > self.share * elapsed                                    *)
OverShare(t) == susp[t] * ShareDen > ShareNum * elapsed[t]

Init ==
  /\ pc = [t \in Threads |-> "out"]
  /\ tokens = [t \in Threads |-> None] /\ byp = [t \in Threads |-> FALSE]
  /\ depth = [t \in Threads |-> 0] /\ work = [t \in Threads |-> 0]
  /\ fifo = <<>> /\ active = None /\ bypass = None /\ suspended = <<>>
  /\ lock = None
  /\ elapsed = [t \in Threads |-> 0] /\ susp = [t \in Threads |-> 0]
  /\ turned = FALSE

(* A thread enters the gate: its ticket joins the queue.  The wait_for     *)
(* that follows evaluates its predicate in Check.                          *)
Arrive(t) ==
  /\ pc[t] = "out"
  /\ \E n \in TokenCounts \cup {None}, w \in 1..MaxWork :
       tokens' = [tokens EXCEPT ![t] = n] /\ work' = [work EXCEPT ![t] = w]
  /\ fifo' = Append(fifo, t)
  /\ Goto(t, "check")
  /\ UNCHANGED <<byp, depth, active, bypass, suspended, lock, clock, turned>>

(* One evaluation of the wait_for predicate under mu: admission, or sleep. *)
Check(t) ==
  /\ pc[t] = "check"
  /\ \/ /\ MayRun(t)
        /\ \E i \in 1..Len(fifo) : fifo[i] = t /\ fifo' = RemoveAt(fifo, i)
        /\ byp' = [byp EXCEPT ![t] = (bypass = t)]
        /\ active' = t
        /\ turned' = FALSE
        /\ Goto(t, "admitted")
     \/ /\ ~MayRun(t)
        /\ Goto(t, "parked")
        /\ UNCHANGED <<fifo, byp, active, turned>>
  /\ UNCHANGED <<tokens, depth, work, bypass, suspended, lock, clock>>

Acquire(t) ==
  /\ pc[t] = "admitted" /\ lock = None
  /\ lock' = t
  /\ depth' = [depth EXCEPT ![t] = 1]
  /\ Goto(t, "run")
  /\ UNCHANGED <<tokens, byp, work, gate, clock, turned>>

(* Front.prefill enters the gate again below _handle_open: only the depth  *)
(* moves, and the inner exit gives nothing back.                           *)
Reenter(t) ==
  /\ pc[t] = "run" /\ depth[t] = 1 /\ work[t] > 0
  /\ depth' = [depth EXCEPT ![t] = 2]
  /\ UNCHANGED <<pc, tokens, byp, work, gate, lock, clock, turned>>

LeaveInner(t) ==
  /\ pc[t] = "run" /\ depth[t] = 2 /\ elapsed[t] > 0
  /\ depth' = [depth EXCEPT ![t] = 1]
  /\ work' = [work EXCEPT ![t] = 0]
  /\ UNCHANGED <<pc, tokens, byp, gate, lock, clock, turned>>

(* One unit of work; time passes for the thread and for the suspended one. *)
(* A prefill looks at the gate afterwards; a clear, which has no token     *)
(* count either, does not.                                                 *)
Chunk(t) ==
  /\ pc[t] = "run" /\ work[t] > 0
  /\ work' = [work EXCEPT ![t] = @ - 1]
  /\ LET held == ToSet(suspended) IN
       /\ elapsed' = [u \in Threads |-> IF u \in held \cup {t} THEN elapsed[u] + 1 ELSE elapsed[u]]
       /\ susp' = [u \in Threads |-> IF u \in held THEN susp[u] + 1 ELSE susp[u]]
  /\ \/ Goto(t, "gap")
     \/ tokens[t] = None /\ Goto(t, "run")
  /\ UNCHANGED <<tokens, byp, depth, gate, lock, turned>>

(* prefill_yield: the early returns, with a read of the limit each.        *)
Yield(t) ==
  /\ pc[t] = "gap"
  /\ \E l, m \in Limits :
       Goto(t, IF l = 0 \/ byp[t] \/ Small(t, m) THEN "run" ELSE "loop")
  /\ UNCHANGED <<ticket, gate, lock, clock, turned>>

(* prefill_yield: nothing to let in front, or the share is used up.        *)
YieldReturn(t) ==
  /\ pc[t] = "loop"
  /\ (\A i \in 1..Len(fifo) : \E l \in Limits : ~Small(fifo[i], l)) \/ OverShare(t)
  /\ Goto(t, "run")
  /\ UNCHANGED <<ticket, gate, lock, clock, turned>>

(* prefill_yield: hand the gate to the first short prompt in the queue.    *)
Suspend(t) ==
  /\ pc[t] = "loop" /\ ~OverShare(t)
  /\ \E i \in 1..Len(fifo) : \E limit \in [1..i -> Limits] :
       /\ IsCandidate(i, limit)
       /\ bypass' = fifo[i]
       /\ turned' = (\E j \in 1..i : limit[j] # limit[i])
  /\ active' = None
  /\ suspended' = Append(suspended, t)
  /\ pc' = [Notify(pc, "parked", "check") EXCEPT ![t] = "peek"]
  /\ UNCHANGED <<ticket, fifo, lock, clock>>

(* The predicate of rcv.wait_for, read with the lock held but without mu:  *)
(* first self.bypass, then the rest.  A false one sleeps and gives up the  *)
(* lock whatever its depth.                                                *)
Sleep(t) == lock' = None /\ Goto(t, "asleep")

PeekBypass(t) ==
  /\ pc[t] = "peek"
  /\ \/ bypass = None /\ Goto(t, "peek2") /\ UNCHANGED lock
     \/ bypass # None /\ Sleep(t)
  /\ UNCHANGED <<ticket, gate, clock, turned>>

PeekActive(t) ==
  /\ pc[t] = "peek2"
  /\ IF active = None /\ Last(suspended) = t THEN Goto(t, "resume") /\ UNCHANGED lock ELSE Sleep(t)
  /\ UNCHANGED <<ticket, gate, clock, turned>>

(* A notified waiter of rcv gets the lock back and evaluates again.        *)
Reacquire(t) ==
  /\ pc[t] = "rewake" /\ lock = None
  /\ lock' = t
  /\ Goto(t, "peek")
  /\ UNCHANGED <<ticket, gate, clock, turned>>

Resume(t) ==
  /\ pc[t] = "resume"
  /\ \E i \in 1..Len(suspended) : suspended[i] = t /\ suspended' = RemoveAt(suspended, i)
  /\ active' = t
  /\ Goto(t, "loop")
  /\ UNCHANGED <<ticket, fifo, bypass, lock, clock, turned>>

(* The outer exit, at the prefill's end or on its failure: mu first, then  *)
(* rcv is notified with the lock still held, and the lock is released.     *)
Leave(t) ==
  /\ pc[t] = "run" /\ depth[t] = 1 /\ elapsed[t] > 0
  /\ active' = IF active = t THEN None ELSE active
  /\ bypass' = IF bypass = t THEN None ELSE bypass
  /\ pc' = [Notify(pc, "parked", "check") EXCEPT ![t] = "leaving"]
  /\ depth' = [depth EXCEPT ![t] = 0]
  /\ work' = [work EXCEPT ![t] = 0]
  /\ UNCHANGED <<tokens, byp, fifo, suspended, lock, clock, turned>>

ReleaseSilently(t) ==
  /\ pc[t] = "leaving"
  /\ Goto(t, "out")
  /\ lock' = None
  /\ tokens' = [tokens EXCEPT ![t] = None]
  /\ byp' = [byp EXCEPT ![t] = FALSE]
  /\ elapsed' = [elapsed EXCEPT ![t] = 0] /\ susp' = [susp EXCEPT ![t] = 0]
  /\ UNCHANGED <<depth, work, gate, turned>>

Release(t) ==
  /\ pc[t] = "leaving"
  /\ pc' = [Notify(pc, "asleep", "rewake") EXCEPT ![t] = "out"]
  /\ lock' = None
  /\ tokens' = [tokens EXCEPT ![t] = None]
  /\ byp' = [byp EXCEPT ![t] = FALSE]
  /\ elapsed' = [elapsed EXCEPT ![t] = 0] /\ susp' = [susp EXCEPT ![t] = 0]
  /\ UNCHANGED <<depth, work, gate, turned>>

Step(t) ==
  \/ Check(t) \/ Acquire(t) \/ Reenter(t) \/ LeaveInner(t) \/ Chunk(t)
  \/ Yield(t) \/ YieldReturn(t) \/ Suspend(t)
  \/ PeekBypass(t) \/ PeekActive(t) \/ Reacquire(t) \/ Resume(t)
  \/ Leave(t) \/ Release(t)

Next == \E t \in Threads : Arrive(t) \/ Step(t)

Spec == Init /\ [][Next]_vars

(* Every thread that can run does: the GPU work of a prefill ends, and a   *)
(* thread inside the gate is scheduled.  Arrivals and flags are not fair.  *)
FairSpec == Spec /\ \A t \in Threads : WF_vars(Step(t))

-----------------------------------------------------------------------------
Outside  == {"out", "check", "parked"}
Owning   == {"admitted", "run", "gap", "loop"}
Waiting  == {"peek", "peek2", "asleep", "rewake", "resume"}
Locking  == {"run", "gap", "loop", "peek", "peek2", "resume", "leaving"}

(* Types of the gate's state.                                              *)
TypeOK ==
  /\ pc \in [Threads -> Outside \cup Owning \cup Waiting \cup Locking]
  /\ tokens \in [Threads -> TokenCounts \cup {None}]
  /\ byp \in [Threads -> BOOLEAN]
  /\ depth \in [Threads -> 0..2]
  /\ work \in [Threads -> 0..MaxWork]
  /\ fifo \in Seq(Threads) /\ suspended \in Seq(Threads)
  /\ active \in Threads \cup {None} /\ bypass \in Threads \cup {None}
  /\ lock \in Threads \cup {None}
  /\ turned \in BOOLEAN
  /\ elapsed \in [Threads -> Nat] /\ susp \in [Threads -> Nat]

(* "Entrants run one at a time": two prefills never own the gate together, *)
(* and the one that runs is the gate's active one and holds the lock that  *)
(* protects the engine's global capture state.                             *)
Exclusive ==
  /\ \A t, u \in Threads : pc[t] \in Owning /\ pc[u] \in Owning => t = u
  /\ \A t \in Threads : pc[t] \in {"run", "gap", "loop"} => active = t /\ lock = t

(* At most one prefill is suspended (the code's `suspended` is a list and  *)
(* looks at its last element only), and while one is, whatever else owns   *)
(* the gate is the short prompt it was suspended for.                      *)
SuspendedAlone ==
  /\ \A t, u \in Threads : pc[t] \in Waiting /\ pc[u] \in Waiting => t = u
  /\ Len(suspended) <= 1
  /\ suspended # <<>> => \A u \in Threads : pc[u] \in Owning => byp[u] /\ bypass = u

(* The time a long prefill is suspended: its share of the elapsed time     *)
(* plus the one short prompt that was let in while the share still held.   *)
ShareSlack ==
  \A t \in Threads : susp[t] * ShareDen <= ShareNum * elapsed[t] + MaxWork * ShareDen

Before(u, t) == \E i, j \in 1..Len(fifo) : i < j /\ fifo[i] = u /\ fifo[j] = t

(* A prompt that is admitted over one that arrived before it is a bypass,  *)
(* and the one it overtakes is not eligible or needs strictly more tokens, *)
(* even if the limit changes before or after it was chosen: long ones      *)
(* never overtake, and "shorts are served in arrival order" (fair.py:8).   *)
(* The order is lost only when the flag changes between two tickets of one *)
(* search of the queue (`turned`): the earlier one, small enough for the   *)
(* new limit only, has been passed over.                                   *)
ArrivalOrder ==
  [][\A t, u \in Threads :
       pc[t] = "check" /\ pc'[t] = "admitted" /\ Before(u, t)
         => /\ byp'[t]
            /\ tokens[u] = None \/ tokens[u] > tokens[t] \/ turned]_vars

(* No entrant is forgotten: whoever waits in the queue, and whoever is     *)
(* suspended, runs again.                                                  *)
EveryPrefillRuns ==
  \A t \in Threads : pc[t] \in {"check", "asleep"} ~> pc[t] = "run"

=============================================================================
