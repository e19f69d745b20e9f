-------------------------- MODULE EngineScheduler --------------------------
(***************************************************************************)
(* The request scheduler of one engine: Scheduler of                       *)
(* kernels/omlx/src/omlx/scheduler.py, and the BatchGenerator of           *)
(* kernels/mlx-lm/src/mlx_lm/generate.py it decodes with.                  *)
(*                                                                         *)
(* step() runs on one thread.  It processes aborts, drains finished cache  *)
(* stores, advances the chunked prefills, admits waiting requests, decodes *)
(* one token for the batch and cleans up the requests that finished; the   *)
(* model takes these one by one, because clients abort and the store       *)
(* worker finishes at any moment in between.  A prefill chunk or a decode  *)
(* may raise: the except clauses of step() and, behind them, engine_core's *)
(* call of fail_all_requests decide what becomes of every request.         *)
(*                                                                         *)
(* Clocks, memory estimates and token values are arbitrary choices.  A     *)
(* request id is used once.  Left out: SpecPrefill and the VLM drafters,   *)
(* Metal cache clears, the uid of id(request) a request has only while it  *)
(* is prefilled in one piece, other engines' decodes.                      *)
(***************************************************************************)
EXTENDS Integers, FiniteSets, SequencesExt

CONSTANTS NReqs, None,   (* requests, numbered as they arrive                 *)
          MaxSeqs,       (* config.max_num_seqs                               *)
          Worlds,        (* cap of the store-cache gate, as the memory enforcer *)
                         (* has set it; bounds: requests, aborts, chunks of a *)
                         (* prompt and faults with it                         *)
          MaxTokens,     (* max_tokens of a request                           *)
          OomTries, CorruptTries, OverflowTries,  (* the retry budgets        *)
          MaxStepFaults  (* bound: faults in one step                         *)

FaultKinds == {"evict", "reject", "oom", "corrupt", "overflow", "fatal"}
Retried == {"oom", "corrupt", "overflow"}
Blockers == {"memory", "store"}   \* the two admission blockers and their clocks

Reqs == 1..NReqs

ASSUME SchedulerAssumption ==
  /\ NReqs \in Nat /\ None \notin Nat
  /\ MaxSeqs \in Nat \ {0} /\ MaxTokens \in Nat \ {0}
  /\ OomTries \in Nat /\ CorruptTries \in Nat /\ OverflowTries \in Nat
  /\ Worlds \subseteq [cap : 1..MaxSeqs, reqs : 0..NReqs, aborts : Nat, chunks : Nat \ {0},
                       faults : SUBSET Seq(FaultKinds)]
  /\ MaxStepFaults \in Nat

VARIABLES
  waiting, prefilling, running,  \* the queues; running is a dict in insertion order
  requests,                      \* ids the scheduler knows
  left,                          \* _prefill_states: chunks to do, 0 for no state
  rows, nextUid,                 \* BatchGenerator: tokens made per uid (-1: not begun), _uid_count
  uidOf, reqOf,                  \* request_id_to_uid, uid_to_request_id
  pend, stored,                  \* _pending_async_removes; those whose store future is done
  aborts, serial, tries,         \* _pending_abort_ids, overflow recovery ids, retry counts
  debt, admitNext, blocked,      \* _decode_time_owed_s > 0, _admit_prefill_next, stalling heads
  todo, cur, seen,               \* what step() has left to do; the request being prefilled
  round, still,                  \* _advance_chunked_prefills: left to advance, advanced
  rej, out,                      \* local lists of rejected outputs; output.outputs (finals)
  asked, gone, told,             \* clients: asked, aborted, final answers received
  world, struck, stepFaults,     \* the cap; faults so far
  stolen, lost, twice            \* history: a row taken by another's clean-up; an answer lost;
                                 \* collected by a recovery after it had been requeued or rejected

queues == <<waiting, prefilling, running, requests, left>>
batch == <<rows, nextUid, uidOf, reqOf>>
stores == <<pend, stored>>
retry == <<serial, tries>>
gate == <<debt, admitNext, blocked>>
loop == <<cur, seen, round, still>>
clients == <<asked, gone, told>>
env == <<world, struck, stepFaults, stolen, lost, twice>>
vars == <<queues, batch, stores, aborts, retry, gate, todo, loop, rej, out, clients, env>>

Init ==
  /\ waiting = <<>> /\ prefilling = <<>> /\ running = <<>> /\ requests = {}
  /\ left = [r \in Reqs |-> 0]
  /\ rows = <<>> /\ nextUid = 0 /\ uidOf = <<>> /\ reqOf = <<>>
  /\ pend = <<>> /\ stored = {} /\ aborts = {} /\ serial = {}
  /\ tries = [r \in Reqs |-> [k \in Retried |-> 0]]
  /\ debt = FALSE /\ admitNext = FALSE /\ blocked = [k \in Blockers |-> None]
  /\ todo = <<"idle">> /\ cur = None /\ seen = FALSE /\ round = <<>> /\ still = <<>>
  /\ rej = {} /\ out = {} /\ asked = {} /\ gone = {} /\ told = [r \in Reqs |-> 0]
  /\ world \in Worlds /\ struck = <<>> /\ stepFaults = 0 /\ stolen = {} /\ lost = {} /\ twice = {}

-----------------------------------------------------------------------------
At(phase) == todo[1] = phase
Then == todo' = Tail(todo)

(* The elements of s at some positions, in their order.                    *)
Chosen(s, at) ==
  LET upTo[n \in 0..Len(s)] ==
        IF n = 0 THEN <<>>
        ELSE IF n \in at THEN Append(upTo[n - 1], s[n]) ELSE upTo[n - 1]
  IN  upTo[Len(s)]
Without(s, S) == Chosen(s, {i \in 1..Len(s) : s[i] \notin S})
Drop(f, S) == [x \in DOMAIN f \ S |-> f[x]]
Put(f, x, e) == [y \in DOMAIN f \cup {x} |-> IF y = x THEN e ELSE f[y]]
InFlight == {pend[i].req : i \in 1..Len(pend)}
Admitted == Len(running) + Len(prefilling)

(* An event that is not the ordinary outcome, within the bounds.           *)
Strikes(kind) ==
  /\ struck' = Append(struck, kind) /\ struck' \in world.faults
  /\ stepFaults < MaxStepFaults /\ UNCHANGED <<world, stolen>>
Fault(kind) == Strikes(kind) /\ stepFaults' = stepFaults + 1 /\ UNCHANGED <<lost, twice>>

Active == ToSet(running) \cup ToSet(waiting) \cup ToSet(prefilling)
(* Variant: the limit holds only until the last of them is admitted.       *)
LimitWhileWaiting == IF serial \cap ToSet(waiting) # {} THEN 1 ELSE MaxSeqs

Limit == IF serial \cap Active # {} THEN 1 ELSE MaxSeqs
(* Variant: requests whose cache is still being stored do not count.       *)
HasQueued == waiting # <<>> \/ prefilling # <<>> \/ running # <<>>

HasRequests == waiting # <<>> \/ prefilling # <<>> \/ running # <<>> \/ pend # <<>>

(* Variant: the debt counts also when nothing decodes.                     *)
GateOpenUnlessOwed == ~debt

(* _prefill_gate_open: decodes wait for the time the last chunk owes them. *)
GateOpen == running = <<>> \/ ~debt

-----------------------------------------------------------------------------
(* Clients and the store worker.                                           *)

AddRequest(r) ==
  /\ At("idle") /\ asked = 1..(r - 1) /\ r <= world.reqs
  /\ asked' = asked \cup {r} /\ requests' = requests \cup {r}
  /\ waiting' = Append(waiting, r)
  /\ UNCHANGED <<prefilling, running, left, batch, stores, aborts, retry, gate, todo, loop, rej, out, gone, told, env>>

(* At any moment; it is seen when a step begins and within a prefill.      *)
Abort(r) ==
  /\ At("idle") \/ At("prefill")
  /\ r \in asked \ gone /\ Cardinality(gone) < world.aborts
  /\ gone' = gone \cup {r} /\ aborts' = aborts \cup {r}
  /\ UNCHANGED <<queues, batch, stores, retry, gate, todo, loop, rej, out, asked, told, env>>

StoreDone(r) ==
  /\ r \in InFlight \ stored /\ stored' = stored \cup {r}
  /\ UNCHANGED <<queues, batch, pend, aborts, retry, gate, todo, loop, rej, out, clients, env>>

-----------------------------------------------------------------------------
(* The start of a step: aborts, then the deferred removes.                 *)

BeginStep ==
  /\ At("idle") /\ todo' = <<"aborts", "pick">>
  /\ UNCHANGED <<queues, batch, stores, aborts, retry, gate, loop, rej, out, clients, env>>

(* _drain_pending_async_removes: every entry whose future is done gives    *)
(* back its row, its uid and its request, by the uid noted at its end.     *)
Drain ==
  LET ready == {i \in 1..Len(pend) : pend[i].req \in stored}
      uids == {pend[i].uid : i \in ready}
      ended == {pend[i].req : i \in ready}
  IN  /\ pend' = Chosen(pend, 1..Len(pend) \ ready)
      /\ rows' = Drop(rows, uids) /\ reqOf' = Drop(reqOf, uids)
      /\ uidOf' = Drop(uidOf, ended) /\ requests' = requests \ ended
      /\ stolen' = stolen \cup ({reqOf[u] : u \in uids \cap DOMAIN reqOf} \ ended)
      /\ stored' = stored \ ended
      /\ UNCHANGED <<nextUid, world, struck, stepFaults, lost, twice>>

(* _do_abort_request, for a request no store holds.                        *)
Removed(r) ==
  /\ waiting' = IF r \in ToSet(running) THEN waiting ELSE RemoveFirst(waiting, r)
  /\ running' = Without(running, {r})
  /\ prefilling' = IF left[r] > 0 THEN Without(prefilling, {r}) ELSE prefilling
  /\ left' = [left EXCEPT ![r] = 0]
  /\ requests' = requests \ {r}

HasUid(r) == r \in DOMAIN uidOf
Unmapped(r) == HasUid(r) /\ uidOf[r] \notin DOMAIN reqOf

(* Variant: the row of an aborted request stays in the generator.          *)
AbortKnownKeepsRow(r) ==
  /\ r \in requests \ InFlight /\ ~Unmapped(r)
  /\ Removed(r)
  /\ reqOf' = Drop(reqOf, IF HasUid(r) THEN {uidOf[r]} ELSE {})
  /\ uidOf' = Drop(uidOf, {r})
  /\ UNCHANGED <<rows, nextUid, stores, env>>

AbortKnown(r) ==
  /\ r \in requests \ InFlight /\ ~Unmapped(r)
  /\ Removed(r)
  /\ LET uid == IF HasUid(r) THEN {uidOf[r]} ELSE {} IN
       /\ rows' = Drop(rows, uid) /\ reqOf' = Drop(reqOf, uid)
  /\ uidOf' = Drop(uidOf, {r})
  /\ UNCHANGED <<nextUid, stores, env>>

AbortStored(r) ==
  /\ r \in InFlight \cap stored /\ Drain
  /\ UNCHANGED <<waiting, prefilling, running, left>>

AbortIgnored(r) ==
  /\ r \notin requests \/ r \in InFlight \ stored
  /\ UNCHANGED <<queues, batch, stores, env>>

ProcessAbort(r) ==
  /\ At("aborts") /\ r \in aborts /\ aborts' = aborts \ {r}
  /\ AbortKnown(r) \/ AbortStored(r) \/ AbortIgnored(r)
  /\ UNCHANGED <<retry, gate, todo, loop, rej, out, clients>>

DrainStep ==
  /\ At("aborts") /\ aborts = {} /\ Drain /\ Then
  /\ UNCHANGED <<waiting, prefilling, running, left, aborts, retry, gate, loop, rej, out, clients>>

(* Which goes first, chunks in flight or admissions: they take turns while *)
(* decodes run.                                                            *)
Pick ==
  LET advance == prefilling # <<>> /\ GateOpen
      turns == advance /\ waiting # <<>> /\ running # <<>>
  IN  /\ At("pick")
      /\ todo' = CASE ~advance -> <<"admit", "decode", "finish">>
                   [] turns /\ admitNext -> <<"admit", "advance", "chunks", "decode", "finish">>
                   [] OTHER -> <<"advance", "chunks", "admit", "decode", "finish">>
      /\ admitNext' = IF turns THEN ~admitNext ELSE admitNext
      /\ debt' = (debt /\ (prefilling # <<>> => running # <<>>))
      /\ seen' = FALSE
      /\ UNCHANGED <<queues, batch, stores, aborts, retry, blocked, cur, round, still, rej, out, clients, env>>

-----------------------------------------------------------------------------
(* One request's prefill: it is inserted, requeued or rejected.            *)

(* insert() into the batch generator (a new one counts from 0) and the     *)
(* uid maps.                                                               *)
Insert(r) ==
  /\ rows' = Put(rows, nextUid, -1) /\ nextUid' = nextUid + 1
  /\ uidOf' = Put(uidOf, r, nextUid) /\ reqOf' = Put(reqOf, nextUid, r)
  /\ running' = IF r \in ToSet(running) THEN running ELSE Append(running, r)

(* Out of memory: a bounded number of new attempts, then an error; any     *)
(* other failure of the prefill is an error at once.                       *)
Requeue(r) ==
  /\ tries[r]["oom"] < OomTries /\ Fault("oom")
  /\ tries' = [tries EXCEPT ![r]["oom"] = @ + 1]
  /\ waiting' = <<r>> \o waiting
  /\ requests' = requests \cup {r} /\ UNCHANGED rej

Reject(r) ==
  /\ \/ Fault("reject")
     \/ tries[r]["oom"] >= OomTries /\ Fault("oom")
  /\ requests' = requests \ {r} /\ rej' = rej \cup {r}
  /\ UNCHANGED <<tries, waiting>>

-----------------------------------------------------------------------------
(* _advance_chunked_prefills: one chunk for each, as long as the gate is   *)
(* open; the queue is replaced when the round is over.                     *)

StartAdvance ==
  /\ At("advance") /\ round' = prefilling /\ Then
  /\ UNCHANGED <<queues, batch, stores, aborts, retry, gate, cur, seen, still, rej, out, clients, env>>

Chunk == round[1]
ChunkDue == At("chunks") /\ round # <<>> /\ left[Chunk] > 0 /\ GateOpen

Advancing(rest, kept) == round' = rest /\ still' = kept /\ UNCHANGED <<cur, seen>>

ChunkRuns ==
  /\ ChunkDue /\ left[Chunk] > 1
  /\ left' = [left EXCEPT ![Chunk] = @ - 1]
  /\ Advancing(Tail(round), Append(still, Chunk)) /\ debt' = (running # <<>>)
  /\ UNCHANGED <<waiting, prefilling, running, requests, batch, tries, rej, env>>

ChunkEnds ==
  /\ ChunkDue /\ left[Chunk] = 1
  /\ left' = [left EXCEPT ![Chunk] = 0] /\ Insert(Chunk)
  /\ Advancing(Tail(round), still) /\ debt' = (running # <<>>)
  /\ UNCHANGED <<waiting, prefilling, requests, tries, rej, env>>

ChunkFails ==
  /\ ChunkDue
  /\ Requeue(Chunk) \/ Reject(Chunk)
  /\ left' = [left EXCEPT ![Chunk] = 0]
  /\ Advancing(Tail(round), still) /\ debt' = (debt /\ running # <<>>)
  /\ UNCHANGED <<prefilling, running, batch>>

(* Paused for the eviction of an idle model: it and the rest wait.         *)
ChunkPaused ==
  /\ ChunkDue /\ Fault("evict") /\ Advancing(<<>>, still \o round)
  /\ debt' = (debt /\ running # <<>>)
  /\ UNCHANGED <<queues, batch, tries, rej>>

(* The state went with an abort between steps.                             *)
ChunkGone ==
  /\ At("chunks") /\ round # <<>> /\ left[Chunk] = 0
  /\ Advancing(Tail(round), still) /\ UNCHANGED <<queues, batch, debt, tries, rej, env>>

ChunkDeferred ==
  /\ At("chunks") /\ round # <<>> /\ left[Chunk] > 0 /\ ~GateOpen
  /\ Advancing(<<>>, round \o still) /\ UNCHANGED <<queues, batch, debt, tries, rej, env>>

(* The clause for _PrefillAbortedError is out of reach: nothing a chunk     *)
(* calls raises it (_do_external_prefill does, in the single prefill).     *)
Advance ==
  /\ ChunkRuns \/ ChunkEnds \/ ChunkFails \/ ChunkPaused \/ ChunkGone \/ ChunkDeferred
  /\ UNCHANGED <<stores, aborts, serial, admitNext, blocked, todo, out, clients>>

AdvanceDone ==
  /\ At("chunks") /\ round = <<>>
  /\ prefilling' = still /\ still' = <<>> /\ Then
  /\ UNCHANGED <<waiting, running, requests, left, batch, stores, aborts, retry, gate, cur, seen, round, rej, out, clients, env>>

-----------------------------------------------------------------------------
(* _schedule_waiting: requests are taken from the head while there is room *)
(* and nothing tells the scheduler to wait.                                *)

Head1 == waiting[1]
Room == At("admit") /\ waiting # <<>> /\ Admitted < Limit
(* Variant: one store more.                                                *)
FullLate == Len(pend) > world.cap

Full == Len(pend) >= world.cap

Admitting == UNCHANGED <<batch, stores, aborts, serial, admitNext, out, clients>>
Break == Then /\ UNCHANGED loop

AdmitDone ==
  /\ At("admit") /\ ~Room /\ Break
  /\ Admitting /\ UNCHANGED <<queues, tries, debt, blocked, rej, env>>

AdmitHeld ==
  /\ Room /\ ~GateOpen /\ Break
  /\ Admitting /\ UNCHANGED <<queues, tries, debt, blocked, rej, env>>

Cleared(k) == IF blocked[k] = Head1 THEN None ELSE blocked[k]

(* The head is not admitted; blocked by the same cause for too long it is  *)
(* rejected (the stall outputs).                                           *)
Stall(k, others) ==
  \/ /\ blocked' = [b \in Blockers |-> IF b = k THEN Head1 ELSE others[b]]
     /\ UNCHANGED <<waiting, requests, rej>>
  \/ /\ blocked[k] = Head1 /\ blocked' = [b \in Blockers |-> Cleared(b)]
     /\ waiting' = Tail(waiting)
     /\ requests' = requests \ {Head1} /\ rej' = rej \cup {Head1}

AdmitBlocked ==
  /\ Room
  /\ \/ /\ Admitted > 0 /\ Stall("memory", blocked)      \* memory pressure with work admitted
        /\ debt' \in {debt, debt /\ running # <<>>}
     \/ /\ Full /\ GateOpen
        /\ \E k \in Blockers : Stall(k, [b \in Blockers |-> Cleared(b)])
        /\ debt' = (debt /\ running # <<>>)
  /\ Break
  /\ Admitting /\ UNCHANGED <<prefilling, running, left, tries, env>>

(* The head may wait for a store whose prefix it could reuse.              *)
StoreWorthWaiting == InFlight \ stored # {}

(* The head waits for such a store, or is of another kind than the         *)
(* requests examined before it.                                            *)
AdmitDeferred ==
  /\ Room /\ GateOpen /\ ~Full
  /\ StoreWorthWaiting \/ seen
  /\ blocked' = [b \in Blockers |-> Cleared(b)]
  /\ debt' = (debt /\ running # <<>>) /\ Break
  /\ Admitting /\ UNCHANGED <<queues, tries, rej, env>>

Take ==
  /\ Room /\ GateOpen /\ ~Full
  /\ cur' = Head1 /\ waiting' = Tail(waiting) /\ seen' = TRUE
  /\ blocked' = [b \in Blockers |-> Cleared(b)]
  /\ debt' = (debt /\ running # <<>>)
  /\ todo' = <<"prefill">> \o todo
  /\ Admitting /\ UNCHANGED <<prefilling, running, requests, left, tries, round, still, rej, env>>

-----------------------------------------------------------------------------
(* The prefill of the request taken: whole, or its first chunk when others *)
(* are decoding or prefilling.                                             *)

Taken == At("prefill") /\ cur' = None /\ UNCHANGED <<seen, round, still>>

Prefilled ==
  /\ Taken /\ Insert(cur) /\ Then /\ debt' = (running # <<>>)
  /\ UNCHANGED <<waiting, prefilling, requests, left, aborts, tries, rej, env>>

FirstChunk ==
  /\ Taken /\ Admitted > 0 /\ Then /\ debt' = (running # <<>>)
  /\ \E n \in 1..(world.chunks - 1) : left' = [left EXCEPT ![cur] = n]
  /\ prefilling' = Append(prefilling, cur)
  /\ UNCHANGED <<waiting, running, requests, batch, aborts, tries, rej, env>>

PrefillFails ==
  /\ Taken /\ Then
  /\ Requeue(cur) \/ Reject(cur)
  /\ UNCHANGED <<prefilling, running, left, batch, aborts, debt>>

(* Back to the head until an idle model is evicted; admission ends.        *)
PrefillPaused ==
  /\ Taken /\ Fault("evict") /\ todo' = Tail(Tail(todo))
  /\ waiting' = <<cur>> \o waiting
  /\ UNCHANGED <<prefilling, running, requests, left, batch, aborts, tries, debt, rej>>

(* Its abort was seen between two pieces of the prefill.                   *)
PrefillAborted ==
  /\ Taken /\ cur \in aborts /\ Then
  /\ aborts' = aborts \ {cur} /\ requests' = requests \ {cur}
  /\ UNCHANGED <<waiting, prefilling, running, left, batch, tries, debt, rej, env>>

Prefill ==
  /\ Prefilled \/ FirstChunk \/ PrefillFails \/ PrefillPaused \/ PrefillAborted
  /\ UNCHANGED <<stores, serial, admitNext, blocked, out, clients>>

-----------------------------------------------------------------------------
(* One decode: the generation batch makes a token per row, then the oldest *)
(* row that has not begun joins it (at once, if the batch was empty).      *)

Decoding == At("decode") /\ running # <<>>
Begun == {u \in DOMAIN rows : rows[u] >= 0}
Oldest(S) == {u \in S : \A v \in S : u <= v}
Stepping == IF Begun # {} THEN Begun ELSE Oldest(DOMAIN rows)
Joining == Oldest((DOMAIN rows \ Begun) \ Stepping)
Tokens(u) == IF u \in Stepping THEN (IF rows[u] < 0 THEN 1 ELSE rows[u] + 1)
             ELSE IF u \in Joining THEN 0 ELSE rows[u]

(* The running requests these rows belong to: they have their last token.  *)
EndedBy(ends) == {reqOf[u] : u \in {u \in ends \cap DOMAIN reqOf : reqOf[u] \in ToSet(running)}}

(* _cleanup_finished hands the cache of a finished request to the store    *)
(* worker and keeps its row for it, or gives everything back at once.      *)
CleanUp(finished, kept, made) ==
  LET freed == {uidOf[r] : r \in (finished \ kept) \cap DOMAIN uidOf}
      deferred == {[uid |-> uidOf[r], req |-> r] : r \in kept \cap DOMAIN uidOf}
  IN  /\ rows' = Drop(made, freed) /\ reqOf' = Drop(reqOf, freed)
      /\ uidOf' = Drop(uidOf, finished \ kept)
      /\ pend' = pend \o SetToSeq(deferred)
      /\ running' = Without(running, finished)
      /\ requests' = requests \ (finished \ kept)

(* Rows that reach their end leave the generator; a stop found by the      *)
(* output parser ends the request only.                                    *)
Decode ==
  /\ Decoding
  /\ \E ends \in SUBSET Stepping : \E stops \in SUBSET Stepping :
       /\ {u \in Stepping : Tokens(u) >= MaxTokens} \subseteq ends
       /\ LET finished == EndedBy(ends \cup stops) IN
            /\ \E kept \in SUBSET finished :
                 CleanUp(finished, kept, [u \in DOMAIN rows \ ends |-> Tokens(u)])
            /\ out' = out \cup rej \cup finished
  /\ debt' \in {debt, FALSE}
  /\ rej' = {} /\ Then
  /\ UNCHANGED <<waiting, prefilling, left, nextUid, stored, aborts, retry, admitNext, blocked, loop, clients, env>>

NoDecode ==
  /\ At("decode") /\ ~Decoding
  /\ out' = out \cup rej /\ rej' = {} /\ Then
  /\ UNCHANGED <<queues, batch, stores, aborts, retry, gate, loop, clients, env>>

(* The step returns and the engine hands its outputs to the clients.       *)
Finish ==
  /\ At("finish") /\ todo' = <<"idle">>
  /\ told' = [r \in Reqs |-> IF r \in out THEN told[r] + 1 ELSE told[r]]
  /\ out' = {} /\ stepFaults' = 0 /\ serial' = serial \cap Active
  /\ UNCHANGED <<queues, batch, stores, aborts, tries, gate, loop, rej, asked, gone, world, struck, stolen, lost, twice>>

-----------------------------------------------------------------------------
(* Exceptions out of a chunk, a prefill or a decode.                       *)

MayRaise == ChunkDue \/ At("prefill") \/ Decoding

(* Variants: those in a queue only; those that prefill only.               *)
AffectedQueued == Without(running \o prefilling, InFlight)

AffectedPrefilling == Without(prefilling \o (IF cur = None THEN <<>> ELSE <<cur>>), InFlight)

(* Whoever holds cache state: decoding, prefilling, or in no queue at all; *)
(* not those that wait and not those whose store is under way.             *)
Affected ==
  LET orphans == requests \ (ToSet(running) \cup ToSet(prefilling) \cup ToSet(waiting))
      all == running \o prefilling \o SetToSeq(orphans)
  IN  Chosen(all, {i \in 1..Len(all) : all[i] \notin InFlight /\ \A j \in 1..(i - 1) : all[j] # all[i]})

(* Whose chunk was requeued or rejected earlier in this round: they stay   *)
(* in the prefilling queue until the round is over.                        *)
LeftRound ==
  IF At("chunks") THEN ToSet(prefilling) \ (ToSet(round) \cup ToSet(still) \cup ToSet(running)) ELSE {}

(* The batch generator and the uid maps are gone; a retry counter decides  *)
(* who goes back to the head of the queue, in that order, and who fails.   *)
Retry(kind, budget, order) ==
  LET failed == {r \in ToSet(Affected) : tries[r][kind] >= budget}
      dropped == IF At("decode") THEN {} ELSE rej   \* still in a local list
  IN  /\ rows' = <<>> /\ nextUid' = 0 /\ uidOf' = <<>> /\ reqOf' = <<>>
      /\ tries' = [r \in Reqs |-> IF r \in ToSet(Affected)
                                     THEN [tries[r] EXCEPT ![kind] = @ + 1] ELSE tries[r]]
      /\ waiting' = Without(order, failed) \o waiting
      /\ running' = Without(running, ToSet(Affected))
      /\ prefilling' = Without(prefilling, ToSet(Affected))
      /\ left' = [r \in Reqs |-> IF r \in ToSet(Affected) THEN 0 ELSE left[r]]
      /\ requests' = requests \ failed
      /\ out' = out \cup failed \cup (rej \ dropped) /\ rej' = {} /\ lost' = lost \cup dropped
      /\ twice' = twice \cup LeftRound
      /\ stepFaults' = stepFaults + 1
      /\ todo' = <<"finish">> /\ cur' = None /\ seen' = FALSE /\ round' = <<>> /\ still' = <<>>
      /\ UNCHANGED <<stores, aborts, gate, clients>>

(* _recover_from_cache_error, _reschedule_running_requests.                *)
Corrupt ==
  /\ MayRaise /\ Strikes("corrupt")
  /\ Retry("corrupt", CorruptTries, Reverse(Affected)) /\ UNCHANGED serial

(* _recover_from_generation_overflow_error and the serial retry.           *)
Overflow ==
  /\ MayRaise /\ Strikes("overflow")
  /\ Retry("overflow", OverflowTries, Affected)
  /\ serial' = {r \in ToSet(Affected) : tries[r]["overflow"] < OverflowTries}

(* Variant: also those whose answer has been given.                        *)
FailAllStored ==
  LET failed == requests
  IN  /\ waiting' = <<>> /\ prefilling' = <<>> /\ running' = <<>>
      /\ left' = [r \in Reqs |-> 0] /\ requests' = requests \ failed
      /\ reqOf' = Drop(reqOf, {uidOf[r] : r \in failed \cap DOMAIN uidOf})
      /\ uidOf' = Drop(uidOf, failed)
      /\ serial' = serial \ failed /\ rows' = <<>> /\ nextUid' = 0
      /\ told' = [r \in Reqs |-> IF r \in failed THEN told[r] + 1 ELSE told[r]]
      /\ todo' = <<"idle">> /\ cur' = None /\ seen' = FALSE /\ round' = <<>> /\ still' = <<>>
      /\ rej' = {} /\ out' = {} /\ lost' = lost \cup rej \cup out
      /\ stepFaults' = 0
      /\ UNCHANGED <<stores, tries, gate, asked, gone>>

(* step() raises: its outputs are lost and the engine fails all requests.  *)
FailAll ==
  LET failed == ToSet(running) \cup ToSet(prefilling) \cup ToSet(waiting) \cup (requests \ InFlight)
  IN  /\ waiting' = <<>> /\ prefilling' = <<>> /\ running' = <<>>
      /\ left' = [r \in Reqs |-> 0] /\ requests' = requests \ failed
      /\ reqOf' = Drop(reqOf, {uidOf[r] : r \in failed \cap DOMAIN uidOf})
      /\ uidOf' = Drop(uidOf, failed)
      /\ serial' = serial \ failed /\ rows' = <<>> /\ nextUid' = 0
      /\ told' = [r \in Reqs |-> IF r \in failed THEN told[r] + 1 ELSE told[r]]
      /\ todo' = <<"idle">> /\ cur' = None /\ seen' = FALSE /\ round' = <<>> /\ still' = <<>>
      /\ rej' = {} /\ out' = {} /\ lost' = lost \cup rej \cup out
      /\ stepFaults' = 0
      /\ UNCHANGED <<stores, tries, gate, asked, gone>>

Fatal ==
  /\ MayRaise /\ Strikes("fatal")
  /\ FailAll /\ UNCHANGED <<aborts, twice>>

(* Aborting a request whose uid another one's clean-up unmapped: KeyError. *)
AbortRaises ==
  /\ At("aborts")
  /\ \E r \in aborts \cap (requests \ InFlight) : Unmapped(r) /\ aborts' = aborts \ {r}
  /\ FailAll /\ UNCHANGED <<world, struck, stolen, twice>>

-----------------------------------------------------------------------------
Step ==
  \/ (\E r \in Reqs : ProcessAbort(r)) \/ AbortRaises \/ DrainStep \/ Pick
  \/ StartAdvance \/ Advance \/ AdvanceDone
  \/ AdmitDone \/ AdmitHeld \/ AdmitBlocked \/ AdmitDeferred \/ Take \/ Prefill
  \/ Decode \/ NoDecode \/ Finish \/ Corrupt \/ Overflow \/ Fatal

Next ==
  \/ \E r \in Reqs : AddRequest(r) \/ Abort(r) \/ StoreDone(r)
  \/ BeginStep \/ Step

Spec == Init /\ [][Next]_vars

(* engine_core steps as long as has_requests() says there is work, a step  *)
(* takes finitely long, and so does a store.                               *)
FairSpec ==
  /\ Spec /\ WF_vars(Step) /\ WF_vars(HasRequests /\ BeginStep)
  /\ \A r \in Reqs : WF_vars(StoreDone(r))

-----------------------------------------------------------------------------
Times(s, r) == Cardinality({i \in 1..Len(s) : s[i] = r})
Owed == {r \in asked \ gone : told[r] = 0}

InOnePlace(r) ==
  r \in requests /\ Times(waiting, r) + Times(prefilling, r) + Times(running, r) = 1

(* Between steps a request whose client still waits for its end is known   *)
(* and in exactly one of the three queues, whatever was raised, requeued   *)
(* or rejected before: unless a step that raised took its answer along, or *)
(* its chunk failed and a later chunk of the same round raised as well.    *)
OnePlace == At("idle") => \A r \in Owed \ (lost \cup twice) : InOnePlace(r)

HasRow(r) ==
  HasUid(r) /\ uidOf[r] \in DOMAIN reqOf /\ reqOf[uidOf[r]] = r /\ uidOf[r] \in DOMAIN rows

(* A running request decodes: the generator has its row and its uid leads  *)
(* back to it (unless another request's deferred clean-up took it, or it   *)
(* was queued twice after two faults in one round).                        *)
RunningHasRow == \A r \in ToSet(running) \ (stolen \cup twice) : HasRow(r)

(* No row without an owner: whatever the generator decodes belongs to a    *)
(* running request or to one whose cache is being stored (or to one that   *)
(* was queued twice and has two rows).                                     *)
NoGhostRow ==
  At("idle") => \A u \in DOMAIN rows :
    \/ u \in DOMAIN reqOf /\ reqOf[u] \in ToSet(running) \cup twice
    \/ \E i \in 1..Len(pend) : pend[i].uid = u

(* The clients get one final answer, not two (unless queued twice).        *)
AnsweredOnce == \A r \in (asked \ gone) \ twice : told[r] <= 1

(* An idle scheduler keeps nothing: has_requests() is false only when      *)
(* every request, uid and prefill state has been given back (but for those *)
(* that were queued twice).                                                *)
NothingLeft ==
  At("idle") /\ ~HasRequests =>
    /\ requests \cup DOMAIN uidOf \subseteq twice
    /\ \A u \in DOMAIN reqOf : reqOf[u] \in twice
    /\ \A r \in Reqs \ twice : left[r] = 0

AtWork == ToSet(running) \cup ToSet(prefilling)

(* "retrying affected requests serially": while a request that overflowed  *)
(* is in the scheduler, no two are decoding or prefilling.                 *)
SerialRetry == serial \cap Active # {} => Cardinality(AtWork) <= 1

(* What the store gate really bounds: extracted caches and the requests    *)
(* that may still add one.                                                 *)
StoreBound == Len(pend) + Cardinality(AtWork) <= world.cap - 1 + MaxSeqs

(* Every request ends, with an answer or its client's abort, whatever      *)
(* faults strike (as long as no row was taken and no answer lost).         *)
EveryRequestEnds ==
  \A r \in Reqs : r \in asked ~> r \notin Owed \/ r \in lost \/ stolen # {}

(* fail_all_requests finds every request, for an incomplete list means     *)
(* "the HTTP request hangs forever".                                       *)
DocNobodyHangs == At("idle") => \A r \in Owed : InOnePlace(r)

(* A finished request's row is removed late so that its slot "isn't reused *)
(* while the worker is still reading": no clean-up takes another's row.    *)
DocSlotNotReused == \A r \in ToSet(running) : HasRow(r)

=============================================================================
