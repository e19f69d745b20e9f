---------------------------- MODULE CEAllReduce -----------------------------
(***************************************************************************)
(* The copy-engine all-reduce between the box's two GPUs:                  *)
(* CEAllReduce.all_reduce_async of                                         *)
(* kernels/split-nv/src/hooks/split_nv/ce_allreduce.py.                    *)
(*                                                                         *)
(* Each rank enqueues a round's copies, flag writes and flag waits on one  *)
(* stream, which runs them in order; the two streams run independently.    *)
(* A copy takes time: it begins in one step and ends in a later one, and   *)
(* a buffer that is being written, or that changes while it is read, gives *)
(* Torn.  Half h of a tensor is the part that rank h owns.                 *)
(***************************************************************************)
EXTENDS Integers

CONSTANT MaxRounds   (* bound: rounds a rank issues *)

ASSUME RoundsAssumption == MaxRounds \in Nat

VARIABLES
  pc,                  \* where each rank's stream is in its round
  k,                   \* self.k
  flag_s, flag_g,      \* in the rank's own memory, read by its peer
  x,                   \* the tensor of the round, by halves
  S, S2, R,            \* partials for the peer, my reduced part, what I received
  result               \* the tensor the consumer sees after the last round's event

vars == <<pc, k, flag_s, flag_g, x, S, S2, R, result>>

Ranks == {0, 1}
Peer(r) == 1 - r

(* What a buffer holds: the round, and whose partials are summed in it.    *)
Partial(r, n) == [round |-> n, ranks |-> {r}]
Sum(n) == [round |-> n, ranks |-> Ranks]
Torn == [round |-> 0, ranks |-> {}]
Plus(a, b) == IF a.round = b.round THEN [round |-> a.round, ranks |-> a.ranks \cup b.ranks] ELSE Torn

(* A copy that began when its source held `seen`.                          *)
Copied(seen, now) == IF seen = now THEN now ELSE Torn

Goto(r, l) == pc' = [pc EXCEPT ![r] = l]
Set(f, r, v) == [f EXCEPT ![r] = v]

Init ==
  /\ pc = [r \in Ranks |-> "idle"] /\ k = [r \in Ranks |-> 0]
  /\ flag_s = [r \in Ranks |-> 0] /\ flag_g = [r \in Ranks |-> 0]
  /\ x = [r \in Ranks |-> [h \in Ranks |-> Torn]]
  /\ S = [r \in Ranks |-> Torn] /\ S2 = [r \in Ranks |-> Torn] /\ R = [r \in Ranks |-> Torn]
  /\ result = [r \in Ranks |-> [h \in Ranks |-> Sum(0)]]

(* The next round's tensor is ready; the copy of the peer's part begins.   *)
Start(r) ==
  /\ pc[r] = "idle" /\ k[r] < MaxRounds
  /\ k' = Set(k, r, k[r] + 1)
  /\ x' = Set(x, r, [h \in Ranks |-> Partial(r, k[r] + 1)])
  /\ S' = Set(S, r, Torn)
  /\ Goto(r, "copyS")
  /\ UNCHANGED <<flag_s, flag_g, S2, R, result>>

(* x[peer part] -> S                                                       *)
CopyS(r) ==
  /\ pc[r] = "copyS"
  /\ S' = Set(S, r, x[r][Peer(r)])
  /\ Goto(r, "setS")
  /\ UNCHANGED <<k, flag_s, flag_g, x, S2, R, result>>

(* my.flag_s = k                                                           *)
SetS(r) ==
  /\ pc[r] = "setS"
  /\ flag_s' = Set(flag_s, r, k[r])
  /\ Goto(r, "waitS")
  /\ UNCHANGED <<k, flag_g, x, S, S2, R, result>>

(* Variants with one slip stand before the definition they are variants    *)
(* of: here, a wait that the previous round's flag already satisfies.      *)
WaitSStale(r) ==
  /\ pc[r] = "waitS" /\ flag_s[Peer(r)] >= k[r] - 1
  /\ R' = Set(R, r, S[Peer(r)])
  /\ Goto(r, "readS")
  /\ UNCHANGED <<k, flag_s, flag_g, x, S, S2, result>>

(* wait peer.flag_s >= k; the read of the peer's S begins.                 *)
WaitS(r) ==
  /\ pc[r] = "waitS" /\ flag_s[Peer(r)] >= k[r]
  /\ R' = Set(R, r, S[Peer(r)])
  /\ Goto(r, "readS")
  /\ UNCHANGED <<k, flag_s, flag_g, x, S, S2, result>>

(* peer.S -> R                                                             *)
ReadS(r) ==
  /\ pc[r] = "readS"
  /\ R' = Set(R, r, Copied(R[r], S[Peer(r)]))
  /\ Goto(r, "add")
  /\ UNCHANGED <<k, flag_s, flag_g, x, S, S2, result>>

(* x[my part] += R; the copy of my part to S2 begins.                      *)
Add(r) ==
  /\ pc[r] = "add"
  /\ x' = Set(x, r, [h \in Ranks |-> IF h = r THEN Plus(x[r][r], R[r]) ELSE x[r][h]])
  /\ S2' = Set(S2, r, Torn)
  /\ Goto(r, "copyG")
  /\ UNCHANGED <<k, flag_s, flag_g, S, R, result>>

(* x[my part] -> S2                                                        *)
CopyG(r) ==
  /\ pc[r] = "copyG"
  /\ S2' = Set(S2, r, x[r][r])
  /\ Goto(r, "setG")
  /\ UNCHANGED <<k, flag_s, flag_g, x, S, R, result>>

(* my.flag_g = k                                                           *)
SetG(r) ==
  /\ pc[r] = "setG"
  /\ flag_g' = Set(flag_g, r, k[r])
  /\ Goto(r, "waitG")
  /\ UNCHANGED <<k, flag_s, x, S, S2, R, result>>

WaitGNot(r) ==
  /\ pc[r] = "waitG"
  /\ x' = Set(x, r, [h \in Ranks |-> IF h = r THEN x[r][r] ELSE S2[Peer(r)]])
  /\ Goto(r, "readG")
  /\ UNCHANGED <<k, flag_s, flag_g, S, S2, R, result>>

(* wait peer.flag_g >= k; the read of the peer's S2 begins.                *)
WaitG(r) ==
  /\ pc[r] = "waitG" /\ flag_g[Peer(r)] >= k[r]
  /\ x' = Set(x, r, [h \in Ranks |-> IF h = r THEN x[r][r] ELSE S2[Peer(r)]])
  /\ Goto(r, "readG")
  /\ UNCHANGED <<k, flag_s, flag_g, S, S2, R, result>>

(* peer.S2 -> x[peer part], and the event the consumer waits for.          *)
ReadG(r) ==
  /\ pc[r] = "readG"
  /\ x' = Set(x, r, [h \in Ranks |-> IF h = r THEN x[r][r] ELSE Copied(x[r][h], S2[h])])
  /\ result' = Set(result, r, x'[r])
  /\ Goto(r, "idle")
  /\ UNCHANGED <<k, flag_s, flag_g, S, S2, R>>

StreamStep(r) ==
  \/ CopyS(r) \/ SetS(r) \/ WaitS(r) \/ ReadS(r) \/ Add(r)
  \/ CopyG(r) \/ SetG(r) \/ WaitG(r) \/ ReadG(r)

Next == \E r \in Ranks : Start(r) \/ StreamStep(r)

Spec == Init /\ [][Next]_vars

-----------------------------------------------------------------------------
Round == {"copyS", "setS", "waitS", "readS", "add", "copyG", "setG", "waitG", "readG"}
Value == [round : 0..MaxRounds, ranks : SUBSET Ranks]

(* Types of the protocol's state.                                          *)
TypeOK ==
  /\ pc \in [Ranks -> Round \cup {"idle"}] /\ k \in [Ranks -> 0..MaxRounds]
  /\ flag_s \in [Ranks -> 0..MaxRounds] /\ flag_g \in [Ranks -> 0..MaxRounds]
  /\ x \in [Ranks -> [Ranks -> Value]] /\ result \in [Ranks -> [Ranks -> Value]]
  /\ S \in [Ranks -> Value] /\ S2 \in [Ranks -> Value] /\ R \in [Ranks -> Value]

(* "Every remote access is a READ of data that its owner finished writing" *)
(* and the docstring's buffer-reuse argument: while a rank reads S or S2   *)
(* of its peer, the peer does not write it, and what is read is this       *)
(* round's data, though the peer may be one round ahead.                   *)
StableReads ==
  \A r \in Ranks :
    LET p == Peer(r) IN
      /\ pc[r] = "readS" => pc[p] # "copyS" /\ S[p] = Partial(p, k[r])
      /\ pc[r] = "readG" => pc[p] # "copyG" /\ S2[p] = Sum(k[r])

(* The protocol implements an all-reduce: the consumer of every round sees *)
(* the sum of both partials of that very round in both halves.             *)
AR == INSTANCE AllReduce WITH
        given <- k, taken <- [r \in Ranks |-> IF pc[r] = "idle" THEN k[r] ELSE k[r] - 1]
ImplementsAllReduce == AR!Spec

=============================================================================
