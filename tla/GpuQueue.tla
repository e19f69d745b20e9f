------------------------------ MODULE GpuQueue ------------------------------
(***************************************************************************)
(* The box's GPU job queue: Front.submit, gpu_loop, run_now, _take_parked  *)
(* and _execute (kernels/split-nv/src/hooks/split_nv/front.py), the        *)
(* preemption window of split_nv/preempt.py, and the other GPU's command   *)
(* loop (engine.rank_main).                                                *)
(*                                                                         *)
(* A connection thread has one request at a time: a queued job (a prefill  *)
(* chunk or a control command) or a STEP, which runs on the connection's   *)
(* own thread ahead of the queue, or inside a running preemptible chunk.   *)
(* Rank 0 sends every command to rank 1 over a pipe before it runs it.  A  *)
(* forward pass has collectives: it ends on a rank only together with the  *)
(* other rank's (Join), so two ranks in different forwards wait for ever.  *)
(* A command that is going to raise does so before its collectives, on     *)
(* both ranks.  Wall-clock decisions (the decode share of a chunk) are     *)
(* arbitrary.                                                              *)
(***************************************************************************)
EXTENDS Integers, FiniteSets, SequencesExt

CONSTANTS Conns,        (* connection threads                                   *)
          None, Loop,   (* Python's None; the gpu_loop thread                   *)
          Jobs,         (* the jobs a connection may ask for, a set of JobType  *)
          MaxPoints,    (* bound: layer entries of a preemptible chunk          *)
          MaxRequests,  (* bound: requests of one connection                    *)
          PipeCap       (* bound: messages the pipe to rank 1 buffers           *)

JobType == [kind : {"step", "chunk", "ctl"},
            graph : BOOLEAN,  \* step: _parkable; chunk: preemptible (cmd[5]); ctl: a barrier
            bad : BOOLEAN]    \* the command raises

ASSUME QueueAssumption ==
  /\ None \notin Conns /\ Loop \notin Conns /\ None # Loop
  /\ IsFiniteSet(Conns)
  /\ Jobs \subseteq JobType /\ Jobs # {}
  /\ None \notin [conn : Conns, nr : Nat, job : JobType] \cup (Conns \X Nat \X Nat)
  /\ MaxPoints \in Nat \ {0} /\ MaxRequests \in Nat /\ PipeCap \in Nat \ {0}

VARIABLES
  pc, job, done, asked,  \* per connection: where it is, its job, job.done, requests made
  jobs,                  \* the PriorityQueue: connections in order of their seq
  lpc, cur,              \* the gpu_loop thread: where it is, the queued job it runs
  batch,                 \* parked steps it has taken and not run yet
  point,                 \* Window.k on rank 0
  cv, gpu, waiters,      \* owner of step_cv and of gpu_lock, and step_waiters
  pqOpen, pq,            \* the parking place, guarded by pq_lock
  pipe,                  \* rank 0 -> rank 1
  op0, op1,              \* the forward pass each rank is in
  chunk1, point1, batch1 \* rank 1: the chunk it is in, Window.k there, steps to run

conn == <<pc, job, done, asked>>
loop == <<lpc, cur, batch, point>>
locks == <<cv, gpu, waiters>>
park == <<pqOpen, pq>>
rank1 == <<op1, chunk1, point1, batch1>>
vars == <<conn, jobs, loop, locks, park, pipe, op0, rank1>>

(* What a connection without a request stands at, and a command as sent:   *)
(* rank 1 knows nothing else of it.                                        *)
AnyJob == CHOOSE j \in Jobs : TRUE
Command(t) == [conn |-> t, nr |-> asked[t], job |-> job[t]]
Cmd(t) == [kind |-> "cmd", cmd |-> Command(t), k |-> 0, steps |-> <<>>]
Point(k, ts) == [kind |-> "pp", cmd |-> None, k |-> k,
                 steps |-> [i \in 1..Len(ts) |-> Command(ts[i])]]

Goto(t, l) == pc' = [pc EXCEPT ![t] = l]
Finish(S) == done' = [t \in Conns |-> done[t] \/ t \in S]
Send(m) == Len(pipe) < PipeCap /\ pipe' = Append(pipe, m)
Collective(j) == ~j.bad /\ (j.kind = "ctl" => j.graph)
Preemptible(j) == j.kind = "chunk" /\ j.graph
Pass(c, k) == <<c.conn, c.nr, k>>
Execute(t) == IF Collective(job[t]) THEN Pass(Command(t), 0) ELSE None

Init ==
  /\ pc = [t \in Conns |-> "idle"] /\ done = [t \in Conns |-> FALSE]
  /\ asked = [t \in Conns |-> 0]
  /\ job = [t \in Conns |-> AnyJob]
  /\ jobs = <<>>
  /\ lpc = "get" /\ cur = None /\ batch = <<>> /\ point = 0
  /\ cv = None /\ gpu = None /\ waiters = 0
  /\ pqOpen = FALSE /\ pq = <<>> /\ pipe = <<>>
  /\ op0 = None /\ op1 = None /\ chunk1 = None /\ point1 = 0 /\ batch1 = <<>>

-----------------------------------------------------------------------------
(* Connection threads.                                                     *)

(* A frame arrives: submit() queues a job and waits; a STEP calls run_now, *)
(* whose first look at pq_open takes no lock.                              *)
Request(t) ==
  /\ pc[t] = "idle" /\ asked[t] < MaxRequests
  /\ asked' = [asked EXCEPT ![t] = @ + 1]
  /\ done' = [done EXCEPT ![t] = FALSE]
  /\ \E j \in Jobs :
       /\ job' = [job EXCEPT ![t] = j]
       /\ IF j.kind # "step" THEN jobs' = Append(jobs, t) /\ Goto(t, "wait")
          ELSE jobs' = jobs /\ Goto(t, IF pqOpen /\ j.graph THEN "park" ELSE "enter")
  /\ UNCHANGED <<loop, locks, park, pipe, op0, rank1>>

(* run_now, under pq_lock: park if the window is still open.               *)
Park(t) ==
  /\ pc[t] = "park"
  /\ IF pqOpen THEN pq' = Append(pq, t) /\ Goto(t, "wait") ELSE pq' = pq /\ Goto(t, "enter")
  /\ UNCHANGED <<job, done, asked, jobs, loop, locks, pqOpen, pipe, op0, rank1>>

(* run_now: step_waiters += 1 under step_cv.                               *)
Enter(t) ==
  /\ pc[t] = "enter" /\ cv = None
  /\ waiters' = waiters + 1
  /\ Goto(t, "lock")
  /\ UNCHANGED <<job, done, asked, jobs, loop, cv, gpu, park, pipe, op0, rank1>>

LockGpu(t) ==
  /\ pc[t] = "lock" /\ gpu = None
  /\ gpu' = t
  /\ Goto(t, "leave")
  /\ UNCHANGED <<job, done, asked, jobs, loop, cv, waiters, park, pipe, op0, rank1>>

(* run_now: step_waiters -= 1 and notify_all, with the GPU held.           *)
LeaveCv(t) ==
  /\ pc[t] = "leave" /\ cv = None
  /\ waiters' = waiters - 1
  /\ Goto(t, "send")
  /\ lpc' = IF lpc = "sleep" THEN "cv" ELSE lpc
  /\ UNCHANGED <<job, done, asked, jobs, cur, batch, point, cv, gpu, park, pipe, op0, rank1>>

(* _execute on the connection thread: the command goes to rank 1 first.    *)
SendStep(t) ==
  /\ pc[t] = "send"
  /\ Send(Cmd(t))
  /\ op0' = Execute(t)
  /\ Goto(t, "run")
  /\ UNCHANGED <<job, done, asked, jobs, loop, locks, park, rank1>>

(* ... its end, and gpu_lock.release().                                    *)
EndStep(t) ==
  /\ pc[t] = "run" /\ op0 = None
  /\ Finish({t})
  /\ gpu' = None
  /\ Goto(t, "wait")
  /\ UNCHANGED <<job, asked, jobs, loop, cv, waiters, park, pipe, op0, rank1>>

Answer(t) ==
  /\ pc[t] = "wait" /\ done[t]
  /\ Goto(t, "idle")
  /\ job' = [job EXCEPT ![t] = AnyJob]
  /\ UNCHANGED <<done, asked, jobs, loop, locks, park, pipe, op0, rank1>>

-----------------------------------------------------------------------------
(* The gpu_loop thread.                                                    *)

Prio(t) == IF job[t].kind = "ctl" THEN 0 ELSE 1

(* PriorityQueue.get(): control before chunks, then the order of seq.      *)
Get ==
  /\ lpc = "get"
  /\ \E i \in 1..Len(jobs) :
       /\ \A j \in 1..Len(jobs) :
            Prio(jobs[i]) < Prio(jobs[j]) \/ (Prio(jobs[i]) = Prio(jobs[j]) /\ i <= j)
       /\ cur' = jobs[i] /\ jobs' = RemoveAt(jobs, i)
  /\ lpc' = "cv"
  /\ UNCHANGED <<conn, batch, point, locks, park, pipe, op0, rank1>>

(* Variants with one slip stand before the definition they are variants of *)
(* (PROJECT.json, "mutants").  Here: step_cv given up before gpu_lock.     *)
TakeCvBriefly ==
  /\ lpc = "cv" /\ cv = None
  /\ lpc' = IF waiters > 0 THEN "sleep" ELSE "lock"
  /\ UNCHANGED <<conn, jobs, cur, batch, point, locks, park, pipe, op0, rank1>>

(* `while self.step_waiters: self.step_cv.wait()`; with none, gpu_lock is  *)
(* asked for with step_cv still held.                                      *)
TakeCv ==
  /\ lpc = "cv" /\ cv = None
  /\ IF waiters > 0 THEN lpc' = "sleep" /\ cv' = cv ELSE lpc' = "lock" /\ cv' = Loop
  /\ UNCHANGED <<conn, jobs, cur, batch, point, gpu, waiters, park, pipe, op0, rank1>>

LoopLock ==
  /\ lpc = "lock" /\ gpu = None
  /\ gpu' = Loop /\ cv' = None
  /\ lpc' = IF Preemptible(job[cur]) THEN "open" ELSE "send"
  /\ UNCHANGED <<conn, jobs, cur, batch, point, waiters, park, pipe, op0, rank1>>

Open ==
  /\ lpc = "open"
  /\ pqOpen' = TRUE
  /\ lpc' = "send"
  /\ UNCHANGED <<conn, jobs, cur, batch, point, locks, pq, pipe, op0, rank1>>

(* _execute of the queued job.                                             *)
SendJob ==
  /\ lpc = "send"
  /\ Send(Cmd(cur))
  /\ point' = 0
  /\ IF Preemptible(job[cur]) /\ Collective(job[cur]) THEN lpc' = "point" /\ op0' = None
     ELSE lpc' = "end" /\ op0' = Execute(cur)
  /\ UNCHANGED <<conn, jobs, cur, batch, locks, park, rank1>>

(* Window.point() on rank 0: take what is parked (if the decode share      *)
(* allows), tell rank 1, also when it is nothing.                          *)
TakePoint ==
  /\ lpc = "point" /\ op0 = None
  /\ \E take \in BOOLEAN :
       /\ batch' = IF take THEN pq ELSE <<>>
       /\ pq' = IF take THEN <<>> ELSE pq
  /\ Send(Point(point, batch'))
  /\ point' = point + 1
  /\ lpc' = "inline"
  /\ UNCHANGED <<conn, jobs, cur, locks, pqOpen, op0, rank1>>

RunInlineForgetRest ==
  /\ lpc = "inline" /\ batch # <<>>
  /\ IF job[batch[1]].bad
     THEN Finish({batch[1]}) /\ batch' = <<>> /\ lpc' = "end" /\ op0' = op0
     ELSE op0' = Execute(batch[1]) /\ lpc' = "join" /\ UNCHANGED <<done, batch>>
  /\ UNCHANGED <<pc, job, asked, jobs, cur, point, locks, park, pipe, rank1>>

(* Window._run_jobs: a step inside the chunk.  One that raises answers the *)
(* rest of its batch with an error and takes the chunk down with it.       *)
RunInline ==
  /\ lpc = "inline" /\ batch # <<>>
  /\ IF job[batch[1]].bad
     THEN Finish(ToSet(batch)) /\ batch' = <<>> /\ lpc' = "end" /\ op0' = op0
     ELSE op0' = Execute(batch[1]) /\ lpc' = "join" /\ UNCHANGED <<done, batch>>
  /\ UNCHANGED <<pc, job, asked, jobs, cur, point, locks, park, pipe, rank1>>

EndInline ==
  /\ lpc = "join" /\ op0 = None
  /\ Finish({batch[1]}) /\ batch' = Tail(batch)
  /\ lpc' = "inline"
  /\ UNCHANGED <<pc, job, asked, jobs, cur, point, locks, park, pipe, op0, rank1>>

(* The layers up to the next point, or to the end of the chunk.            *)
Layer ==
  /\ lpc = "inline" /\ batch = <<>>
  /\ op0' = Pass(Command(cur), point)
  /\ lpc' = IF point = MaxPoints THEN "end" ELSE "point"
  /\ UNCHANGED <<conn, jobs, cur, batch, point, locks, park, pipe, rank1>>

(* _execute's finally: the job is answered while the window is still open. *)
EndJob ==
  /\ lpc = "end" /\ op0 = None
  /\ Finish({cur})
  /\ lpc' = IF Preemptible(job[cur]) THEN "close" ELSE "release"
  /\ UNCHANGED <<pc, job, asked, jobs, cur, batch, point, locks, park, pipe, op0, rank1>>

CloseForgetLate ==
  /\ lpc = "close"
  /\ pqOpen' = FALSE /\ pq' = <<>> /\ batch' = <<>>
  /\ lpc' = "left"
  /\ UNCHANGED <<conn, jobs, cur, point, locks, pipe, op0, rank1>>

(* Under pq_lock: close the window; steps parked too late run right away.  *)
Close ==
  /\ lpc = "close"
  /\ pqOpen' = FALSE /\ pq' = <<>> /\ batch' = pq
  /\ lpc' = "left"
  /\ UNCHANGED <<conn, jobs, cur, point, locks, pipe, op0, rank1>>

SendLeft ==
  /\ lpc = "left" /\ batch # <<>>
  /\ Send(Cmd(batch[1]))
  /\ op0' = Execute(batch[1])
  /\ lpc' = "leftRun"
  /\ UNCHANGED <<conn, jobs, cur, batch, point, locks, park, rank1>>

EndLeft ==
  /\ lpc = "leftRun" /\ op0 = None
  /\ Finish({batch[1]}) /\ batch' = Tail(batch)
  /\ lpc' = "left"
  /\ UNCHANGED <<pc, job, asked, jobs, cur, point, locks, park, pipe, op0, rank1>>

Release ==
  /\ lpc = "release" \/ (lpc = "left" /\ batch = <<>>)
  /\ gpu' = None /\ cur' = None
  /\ lpc' = "get"
  /\ UNCHANGED <<conn, jobs, batch, point, cv, waiters, park, pipe, op0, rank1>>

-----------------------------------------------------------------------------
(* Rank 1.                                                                 *)

(* rank_main's loop: receive and execute; a failure is only logged.        *)
Recv1 ==
  /\ op1 = None /\ chunk1 = None /\ batch1 = <<>> /\ pipe # <<>>
  /\ pipe' = Tail(pipe)
  /\ LET m == pipe[1] IN
       IF m.kind = "cmd" /\ Collective(m.cmd.job)
       THEN IF Preemptible(m.cmd.job) THEN chunk1' = m.cmd /\ op1' = op1
            ELSE op1' = Pass(m.cmd, 0) /\ chunk1' = None
       ELSE UNCHANGED <<op1, chunk1>>
  /\ point1' = 0
  /\ UNCHANGED <<conn, jobs, loop, locks, park, op0, batch1>>

(* Window.point() elsewhere: block for rank 0's message of this point.     *)
(* Anything else raises, which ends the chunk.                             *)
Point1 ==
  /\ op1 = None /\ chunk1 # None /\ batch1 = <<>> /\ pipe # <<>>
  /\ pipe' = Tail(pipe)
  /\ LET m == pipe[1] IN
       IF m.kind = "pp" /\ m.k = point1
       THEN batch1' = Append(m.steps, None) /\ point1' = point1 + 1 /\ chunk1' = chunk1
       ELSE chunk1' = None /\ UNCHANGED <<batch1, point1>>
  /\ UNCHANGED <<conn, jobs, loop, locks, park, op0, op1>>

Run1SkipFailed ==
  /\ op1 = None /\ batch1 # <<>>
  /\ LET c == batch1[1] IN
       IF c = None
       THEN /\ op1' = Pass(chunk1, point1) /\ batch1' = <<>>
            /\ chunk1' = IF point1 = MaxPoints THEN None ELSE chunk1
       ELSE /\ op1' = IF c.job.bad THEN None ELSE Pass(c, 0)
            /\ batch1' = Tail(batch1) /\ chunk1' = chunk1
  /\ UNCHANGED <<conn, jobs, loop, locks, park, pipe, op0, point1>>

(* The steps of the point, then (None) the layers behind it.               *)
Run1 ==
  /\ op1 = None /\ batch1 # <<>>
  /\ LET c == batch1[1] IN
       \/ /\ c # None /\ c.job.bad
          /\ batch1' = <<>> /\ chunk1' = None /\ op1' = op1
       \/ /\ c # None /\ ~c.job.bad
          /\ op1' = Pass(c, 0) /\ batch1' = Tail(batch1) /\ chunk1' = chunk1
       \/ /\ c = None
          /\ op1' = Pass(chunk1, point1) /\ batch1' = <<>>
          /\ chunk1' = IF point1 = MaxPoints THEN None ELSE chunk1
  /\ UNCHANGED <<conn, jobs, loop, locks, park, pipe, op0, point1>>

(* The collectives of one forward meet: it ends on both ranks.             *)
Join ==
  /\ op0 # None /\ op0 = op1
  /\ op0' = None /\ op1' = None
  /\ UNCHANGED <<conn, jobs, loop, locks, park, pipe, chunk1, point1, batch1>>

ConnStep(t) ==
  \/ Park(t) \/ Enter(t) \/ LockGpu(t) \/ LeaveCv(t)
  \/ SendStep(t) \/ EndStep(t) \/ Answer(t)
LoopStep ==
  \/ Get \/ TakeCv \/ LoopLock \/ Open \/ SendJob \/ TakePoint \/ RunInline \/ EndInline
  \/ Layer \/ EndJob \/ Close \/ SendLeft \/ EndLeft \/ Release
Rank1Step == Recv1 \/ Point1 \/ Run1

(* Every connection has had its MaxRequests answers.                       *)
AllAnswered == (\A t \in Conns : pc[t] = "idle" /\ asked[t] = MaxRequests) /\ UNCHANGED vars

Next ==
  \/ \E t \in Conns : Request(t) \/ ConnStep(t)
  \/ LoopStep \/ Rank1Step \/ Join \/ AllAnswered

Spec == Init /\ [][Next]_vars

(* Threads and ranks that can run do; clients need not ask.                *)
FairSpec ==
  /\ Spec
  /\ \A t \in Conns : WF_vars(ConnStep(t))
  /\ WF_vars(LoopStep) /\ WF_vars(Rank1Step) /\ WF_vars(Join)

-----------------------------------------------------------------------------
ConnPc == {"idle", "park", "enter", "lock", "leave", "send", "run", "wait"}

Occurs(s, t) == Cardinality({i \in 1..Len(s) : s[i] = t})

(* "every STEP completes exactly once": a request that waits and is not    *)
(* answered is in exactly one place (the queue, the loop's hands, parked,  *)
(* or taken), and an answered one is in none that would run it again.      *)
NoJobLost ==
  \A t \in Conns :
    LET places == Occurs(jobs, t) + Occurs(pq, t) + Occurs(batch, t)
                    + (IF cur = t /\ lpc \notin {"close", "left", "leftRun", "release"} THEN 1 ELSE 0)
    IN  places = (IF pc[t] = "wait" /\ ~done[t] THEN 1 ELSE 0)

(* "every rank issues the same kernels and collectives in the same order": *)
(* two ranks inside a forward are inside the same one, and rank 1 is never *)
(* sent something else than the point it waits for.                        *)
RanksAgree ==
  /\ op0 # None /\ op1 # None => op0 = op1
  /\ chunk1 # None /\ op1 = None /\ batch1 = <<>> /\ pipe # <<>>
       => pipe[1].kind = "pp" /\ pipe[1].k = point1

(* "a STEP running inline (run_now) goes before any queued job": when a    *)
(* queued job gets the GPU, no step is counted as waiting for it; and the  *)
(* two locks cannot be held crosswise: while the loop holds step_cv and    *)
(* asks for the GPU, the step that has the GPU does not need step_cv.      *)
Registered == {t \in Conns : pc[t] \in {"lock", "leave"}}

StepsFirst ==
  /\ waiters = Cardinality(Registered)
  /\ lpc = "lock" => cv = Loop /\ Registered = {}

(* Every request is answered, whatever fails.                              *)
EveryJobAnswered == \A t \in Conns : pc[t] # "idle" ~> pc[t] = "idle"

=============================================================================
