---------------------------- MODULE OverlapBaton ----------------------------
(***************************************************************************)
(* A prefill chunk that runs as two halves on both ranks, so that each     *)
(* half's all-reduces travel while the other half computes: _Run and       *)
(* run_split of kernels/split-nv/src/hooks/split_nv/pf_overlap.py, with    *)
(* the steps that preempt.py runs between the layers, and the copy-engine  *)
(* all-reduce (CEAllReduce) as the collective of the halves.               *)
(*                                                                         *)
(* One Python thread per half; the one that has the baton runs until its   *)
(* next all-reduce.  What it enqueues is executed later, in order, by the  *)
(* rank's compute stream; the all-reduces by its comm stream, each behind  *)
(* the segment that made its tensor.  A segment of a half is what lies     *)
(* between two all-reduces, and a layer begins at each but the first.      *)
(*                                                                         *)
(* An exception strikes a half on both ranks alike (as GpuQueue has it).   *)
(***************************************************************************)
EXTENDS CEAllReduce, FiniteSets, Sequences

CONSTANTS Segs,     (* segments of a half, but the last one: its all-reduces   *)
          Lag,      (* LAG: points the GPU may be behind rank 0's Python       *)
          Chunks    (* bound: chunks as [preemptible, steps taken, failure]    *)

Halves == {"A", "B"}
NoFault == <<"none", 0>>

ASSUME OverlapAssumption ==
  /\ Segs \in Nat \ {0} /\ Lag \in Nat \ {0} /\ MaxRounds = 2 * Segs
  /\ Chunks \subseteq [preempt : BOOLEAN, steps : Nat, fault : (Halves \X (0..Segs)) \cup {NoFault}]

VARIABLES
  chunk,            \* the chunk
  turn, alive,      \* _Run: whose baton it is, which halves are running
  seg, begun,       \* per rank and half: its next segment; the halves whose forward has begun
  inflight,         \* per rank and half: its round under way, 0 for none
  mode, saved,      \* per rank: CAP.cur_mode; _Run.globals of each half
  right,            \* the segments that ran with the capture on
  points, passed,   \* the messages of rank 0, steps taken at each point; points passed
  calls,            \* the collectives a rank has issued
  queue, ready      \* the compute stream; rounds whose tensors it has made

baton == <<turn, alive, seg, begun, inflight, mode, saved, right>>
gpu == <<queue, ready>>
overlapVars == <<chunk, baton, points, passed, calls, gpu>>

OverlapInit ==
  /\ Init /\ chunk \in Chunks
  /\ turn = [r \in Ranks |-> "A"] /\ alive = [r \in Ranks |-> Halves]
  /\ seg = [r \in Ranks |-> [h \in Halves |-> 0]] /\ begun = [r \in Ranks |-> {}]
  /\ inflight = [r \in Ranks |-> [h \in Halves |-> 0]]
  /\ mode = [r \in Ranks |-> "off"]
  /\ saved = [r \in Ranks |-> [h \in Halves |-> "off"]]
  /\ right = [r \in Ranks |-> {}]
  /\ points = <<>> /\ passed = [r \in Ranks |-> 0]
  /\ calls = [r \in Ranks |-> <<>>]
  /\ queue = [r \in Ranks |-> <<>>] /\ ready = [r \in Ranks |-> 0]

Other(h) == IF h = "A" THEN "B" ELSE "A"
Op(name, n) == [op |-> name, n |-> n]
Call(h, n) == [by |-> h, n |-> n]

-----------------------------------------------------------------------------
(* A half with the baton.                                                  *)

(* Variant: the context comes back, the forward's globals do not.          *)
ContextOnly(r, h) == IF h \in begun[r] THEN mode[r] ELSE "extend"

(* enter, or _restore after switch: the half finds its own state.          *)
Restored(r, h) == IF h \in begun[r] THEN saved[r][h] ELSE "extend"

(* The compute stream waits for the half's own all-reduce.                 *)
OwnWait(r, h) == IF inflight[r][h] > 0 THEN <<Op("wait", inflight[r][h])>> ELSE <<>>

(* Variant: a step does not wait for the all-reduces under way.            *)
NoFence(r, h) == <<>>

(* fence: it waits for the one of the other half as well.                  *)
Fence(r, h) ==
  IF inflight[r][Other(h)] > 0 THEN <<Op("wait", inflight[r][Other(h)])>> ELSE <<>>

(* Window.point: rank 0 keeps at most Lag points ahead of its GPU, decides *)
(* how many of the parked steps run here and tells rank 1, which waits.    *)
Marks(r) == Cardinality({i \in 1..Len(queue[r]) : queue[r][i].op = "mark"})
Taken == Len(SelectSeq(calls[0], LAMBDA c : c.by = "step"))

AtPoint(r, h) == chunk.preempt /\ seg[r][h] > 0

Point(r, steps) ==
  /\ passed' = [passed EXCEPT ![r] = @ + 1]
  /\ IF r = 0 THEN /\ Marks(0) < Lag
                   /\ steps \in 0..(chunk.steps - Taken) /\ points' = Append(points, steps)
     ELSE /\ passed[1] < Len(points) /\ steps = points[passed[1] + 1]
          /\ UNCHANGED points

Inline(r, h, steps) ==
  IF steps = 0 THEN <<>> ELSE Fence(r, h) \o [i \in 1..steps |-> Op("step", i)]
Steps(steps) == [i \in 1..steps |-> Call("step", i)]
Mark(r, h) == IF AtPoint(r, h) /\ r = 0 THEN <<Op("mark", 0)>> ELSE <<>>

(* Variant: the baton stays with a half that failed.                       *)
FinishSilently(r, h) ==
  /\ alive' = [alive EXCEPT ![r] = @ \ {h}]
  /\ turn' = IF chunk.fault[1] = h THEN turn ELSE [turn EXCEPT ![r] = Other(h)]

(* finish: the forward has returned or raised; the hooks' wrapper has      *)
(* switched the capture off.                                               *)
Finish(r, h) ==
  /\ alive' = [alive EXCEPT ![r] = @ \ {h}]
  /\ turn' = [turn EXCEPT ![r] = Other(h)]

Returns(r, h) ==
  /\ Finish(r, h) /\ mode' = [mode EXCEPT ![r] = "off"]
  /\ UNCHANGED <<saved, seg>>

Passes(r, h) ==
  /\ turn' = [turn EXCEPT ![r] = IF Other(h) \in alive[r] THEN Other(h) ELSE h]
  /\ saved' = [saved EXCEPT ![r][h] = Restored(r, h)]
  /\ mode' = [mode EXCEPT ![r] = Restored(r, h)]
  /\ seg' = [seg EXCEPT ![r][h] = @ + 1]
  /\ UNCHANGED alive

HasBaton(r, h) ==
  /\ h \in alive[r] /\ turn[r] = h
  /\ begun' = [begun EXCEPT ![r] = @ \cup {h}]
  /\ UNCHANGED <<chunk, ready, vars>>

Enqueues(r, ops, made) ==
  /\ queue' = [queue EXCEPT ![r] = @ \o ops]
  /\ calls' = [calls EXCEPT ![r] = @ \o made]

(* Rounds issued so far: one behind every segment that did not end a half. *)
Issued(r) == seg[r]["A"] + seg[r]["B"]

(* From one hand-over to the next: the half returns after its last segment *)
(* or raises in the one that fails, and the other goes on alone to its end *)
(* (run_split raises then).                                                *)
Segment(r, h) ==
  /\ HasBaton(r, h)
  /\ \E steps \in 0..chunk.steps :
       LET before == OwnWait(r, h) \o Mark(r, h) \o Inline(r, h, steps)
           n == Issued(r) + 1
           raises == chunk.fault = <<h, seg[r][h]>>
           ends == raises \/ seg[r][h] = Segs
       IN  /\ IF AtPoint(r, h) THEN Point(r, steps) ELSE steps = 0 /\ UNCHANGED <<points, passed>>
           /\ Enqueues(r, IF ends THEN before ELSE Append(before, Op("segment", n)),
                       IF ends THEN Steps(steps) ELSE Append(Steps(steps), Call(h, seg[r][h])))
           /\ inflight' = [inflight EXCEPT ![r][h] = IF ends THEN 0 ELSE n]
           /\ IF ends THEN Returns(r, h) ELSE Passes(r, h)
           /\ right' = IF ~raises /\ Restored(r, h) = "extend"
                       THEN [right EXCEPT ![r] = @ \cup {<<h, seg[r][h]>>}] ELSE right

-----------------------------------------------------------------------------
(* The streams.                                                            *)

RoundsDone(r) == IF pc[r] = "idle" THEN k[r] ELSE k[r] - 1
First(r) == queue[r][1]
Popped(r) == queue' = [queue EXCEPT ![r] = Tail(@)]

Compute(r) ==
  /\ queue[r] # <<>> /\ Popped(r)
  /\ \/ First(r).op = "wait" /\ RoundsDone(r) >= First(r).n /\ UNCHANGED ready
     \/ First(r).op = "mark" /\ UNCHANGED ready
     \/ First(r).op = "segment" /\ ready' = [ready EXCEPT ![r] = First(r).n]
  /\ UNCHANGED <<chunk, baton, points, passed, calls, vars>>

(* A step has collectives of its own: it runs on both ranks or on none.    *)
AtStep(r) == queue[r] # <<>> /\ First(r).op = "step"

ComputeStep ==
  /\ AtStep(0) /\ AtStep(1) /\ queue' = [r \in Ranks |-> Tail(queue[r])]
  /\ UNCHANGED <<chunk, baton, points, passed, calls, ready, vars>>

(* The comm stream begins a round when its tensor has been made.           *)
Begin(r) == k[r] < ready[r] /\ Start(r) /\ UNCHANGED overlapVars
Reduce(r) == StreamStep(r) /\ UNCHANGED overlapVars

-----------------------------------------------------------------------------
Python(r) == \E h \in Halves : Segment(r, h)
Comm(r) == Begin(r) \/ Reduce(r)

OverlapNext == ComputeStep \/ \E r \in Ranks : Python(r) \/ Compute(r) \/ Comm(r)

OverlapSpec == OverlapInit /\ [][OverlapNext]_<<overlapVars, vars>>

(* Threads run, and streams execute what is enqueued on them.              *)
OverlapFair ==
  /\ OverlapSpec /\ WF_<<overlapVars, vars>>(ComputeStep)
  /\ \A r \in Ranks : /\ WF_<<overlapVars, vars>>(Python(r))
                      /\ WF_<<overlapVars, vars>>(Compute(r))
                      /\ WF_<<overlapVars, vars>>(Comm(r))

-----------------------------------------------------------------------------
(* "the NCCL call order matches across ranks", whatever steps run between  *)
(* the layers and whichever half fails, and "no two collectives run        *)
(* concurrently": a step finds the comm stream idle.                       *)
CollectivesInOrder ==
  /\ \A n \in 1..Len(calls[0]) : n <= Len(calls[1]) => calls[0][n] = calls[1][n]
  /\ \A r \in Ranks : AtStep(r) => pc[r] = "idle" /\ ready[r] = k[r]

(* "The halves' per-forward state is kept apart": each half has captured   *)
(* the rows of every layer, though the other returned in between.          *)
HalvesApart ==
  \A r \in Ranks : alive[r] = {} /\ chunk.fault = NoFault => right[r] = Halves \X (0..Segs)

(* Both halves end and the streams run empty: nobody waits for a baton, a  *)
(* point, an event or a flag that does not come.                           *)
ChunkOver == \A r \in Ranks : alive[r] = {} /\ queue[r] = <<>>
EveryChunkEnds == <>ChunkOver

=============================================================================
