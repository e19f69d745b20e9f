--------------------------- MODULE FailoverProofs ---------------------------
(***************************************************************************)
(* For any number of requests, children, losses and faults:                *)
(*  - one GPU child at a time, unless a client left in the middle of a     *)
(*    switch it watched: a child that lives is the current one or the one  *)
(*    that is being stopped, and whoever stops one holds the switch lock;  *)
(*  - a switch takes no child from a response that is relayed: inflight    *)
(*    counts the upstreams, and between the last release and the woken     *)
(*    task's step nothing is connected;                                    *)
(*  - the client's text is the same however often its response was         *)
(*    resumed: it is a prefix of what the attempt stands for.              *)
(***************************************************************************)
EXTENDS Failover, FiniteSetTheorems, SequenceTheorems, TLAPS

Switching == {"idle", "woken", "stop", "start"}
Places == Switching \cup {"new", "probe", "lock", "send", "relay", "marked", "ok", "error", "gone"}
Modes == {None, "og", "q3"}

Shapes ==
  /\ pc \in [Tasks -> Places]
  /\ kids \in [Kids -> [mode : Modes, state : {"loading", "up", "draining", "dead"}]]
  /\ mode \in Modes /\ target \in Modes /\ cut \in BOOLEAN

Held == \A t \in Tasks : pc[t] \in Switching => lock = t

Stopping == \A t \in Tasks : pc[t] = "stop" => proc = None

Known ==
  ~cut => /\ \A c \in Kids : kids[c].state # "dead" => c \in {proc, victim}
          /\ victim # None => \E t \in Tasks : pc[t] = "stop"

SwitchInv == Shapes /\ Held /\ Stopping /\ Known

LEMMA KnownOne == SwitchInv => OneChild
<1> SUFFICES ASSUME SwitchInv, ~cut PROVE Cardinality(Living) <= 1
  BY DEF OneChild
<1>1. PICK d : Living \subseteq {d}
  <2>1. CASE victim = None
    BY <2>1, FailoverAssumption DEF SwitchInv, Known, Living
  <2>2. CASE victim # None
    <3>1. proc = None
      BY <2>2 DEF SwitchInv, Known, Stopping
    <3> QED
      BY <3>1, FailoverAssumption DEF SwitchInv, Known, Living
  <2> QED
    BY <2>1, <2>2
<1>2. IsFiniteSet({d}) /\ Cardinality({d}) = 1
  BY FS_Singleton
<1> QED
  BY <1>1, <1>2, FS_Subset, FS_CardinalityType

-----------------------------------------------------------------------------
(* A step in which the switch and the children stand still, and no task    *)
(* enters or leaves it, but to be woken.                                   *)
LEMMA SwitchStill ==
  ASSUME SwitchInv, Shapes', UNCHANGED <<kids, proc, lockVars, cut>>,
         \A t \in Tasks : \/ pc'[t] = pc[t]
                          \/ pc[t] = "idle" /\ pc'[t] = "woken"
                          \/ pc[t] \notin Switching /\ pc'[t] \notin Switching
  PROVE  SwitchInv'
<1>1. Held' /\ Stopping'
  BY DEF SwitchInv, Held, Stopping, lockVars, Switching
<1>2. Known'
  BY DEF SwitchInv, Known, lockVars, Switching
<1> QED
  BY <1>1, <1>2 DEF SwitchInv

(* A task that leaves the switch, or never was in it, gives the lock back. *)
LEMMA ThroughKeeps ==
  ASSUME SwitchInv, NEW t \in Tasks, Through(t), pc[t] # "stop", cut' = cut
  PROVE  SwitchInv'
<1>1. PICK l \in {"new", "probe", "send"} : pc' = [pc EXCEPT ![t] = l]
  BY DEF Through
<1>2. UNCHANGED <<kids, proc, mode, target, victim>> /\ lock' = IF lock = t THEN None ELSE lock
  BY DEF Through
<1>3. Shapes'
  BY <1>1, <1>2 DEF SwitchInv, Shapes, Places, Switching
<1>4. Held' /\ Stopping'
  BY <1>1, <1>2 DEF SwitchInv, Shapes, Held, Stopping, Switching
<1>5. Known'
  BY <1>1, <1>2 DEF SwitchInv, Shapes, Known
<1> QED
  BY <1>3, <1>4, <1>5 DEF SwitchInv

(* Nobody else is in the switch: the one child that may live becomes the   *)
(* one to be stopped.                                                      *)
LEMMA StopKeeps ==
  ASSUME SwitchInv, NEW t \in Tasks, NEW m \in Modes, Stop(t, m), lock \in {None, t}, lock' = t,
         pc[t] # "stop", cut' = cut
  PROVE  SwitchInv'
<1>1. /\ pc' = [pc EXCEPT ![t] = "stop"] /\ proc' = None /\ mode' = None
      /\ target' = m /\ victim' = proc
      /\ kids' = IF Alive THEN [kids EXCEPT ![proc].state = "draining"] ELSE kids
  BY DEF Stop
<1>2. \A u \in Tasks \ {t} : pc[u] \notin Switching
  BY FailoverAssumption DEF SwitchInv, Held
<1>3. Shapes'
  BY <1>1 DEF SwitchInv, Shapes, Places, Switching, Modes, Alive
<1>4. Held' /\ Stopping'
  BY <1>1, <1>2 DEF SwitchInv, Shapes, Held, Stopping, Switching
<1>5. Known'
  <2> SUFFICES ASSUME ~cut
               PROVE  /\ \A c \in Kids : kids'[c].state # "dead" => c = proc
                      /\ pc'[t] = "stop"
    BY <1>1 DEF Known
  <2>1. victim = None
    BY <1>2 DEF SwitchInv, Known, Switching
  <2>2. \A c \in Kids : kids[c].state # "dead" => c = proc
    BY <2>1, FailoverAssumption DEF SwitchInv, Known
  <2>3. \A c \in Kids : kids'[c].state # "dead" => c = proc
    BY <1>1, <2>2 DEF SwitchInv, Shapes
  <2> QED
    BY <1>1, <2>3 DEF SwitchInv, Shapes
<1> QED
  BY <1>3, <1>4, <1>5 DEF SwitchInv

LEMMA WantModes == ASSUME NEW v PROVE Want(v) \in Modes
BY DEF Want, Modes

LEMMA SwitchKeeps ==
  ASSUME SwitchInv, NEW t \in Tasks, NEW v, Switch(t, v), lock \in {None, t}, pc[t] # "stop", cut' = cut
  PROVE  SwitchInv'
<1> DEFINE m == IF Want(v) = None THEN mode ELSE Want(v)
<1>1. m \in Modes
  BY WantModes DEF SwitchInv, Shapes
<1>2. CASE Through(t)
  BY <1>2, ThroughKeeps
<1>3. CASE lock' = t /\ Stop(t, m)
  BY <1>1, <1>3, StopKeeps
<1> QED
  BY <1>2, <1>3 DEF Switch

LEMMA HoldKeeps ==
  ASSUME SwitchInv, NEW t \in Tasks, NEW v, Hold(t, v), lock = None, pc[t] \notin Switching, cut' = cut
  PROVE  SwitchInv'
<1>1. CASE Switch(t, v)
  BY <1>1, SwitchKeeps DEF Switching
<1>2. CASE lock' = t /\ pc' = [pc EXCEPT ![t] = "idle"] /\ UNCHANGED <<kidVars, target, victim>>
  <2>1. \A u \in Tasks : pc[u] \notin Switching
    BY FailoverAssumption DEF SwitchInv, Held
  <2>2. Shapes'
    BY <1>2 DEF SwitchInv, Shapes, Places, Switching, kidVars
  <2>3. Held' /\ Stopping'
    BY <1>2, <2>1 DEF SwitchInv, Shapes, Held, Stopping, Switching, kidVars
  <2>4. Known'
    BY <1>2, <2>1 DEF SwitchInv, Shapes, Known, Switching, kidVars
  <2> QED
    BY <2>2, <2>3, <2>4 DEF SwitchInv
<1> QED
  BY <1>1, <1>2 DEF Hold

-----------------------------------------------------------------------------
LEMMA EnsureKeeps ==
  ASSUME SwitchInv, NEW t \in Tasks, Ensure(t) \/ Locked(t) \/ Woken(t) \/ Ready(t)
  PROVE  SwitchInv'
<1>0. cut' = cut
  BY DEF Ensure, Locked, Woken, Ready, history
<1>1. CASE Ensure(t)
  <2>0. pc[t] = "probe"
    BY <1>1 DEF Ensure
  <2>1. CASE Through(t)
    BY <1>0, <2>0, <2>1, ThroughKeeps
  <2>2. CASE lock = None /\ Hold(t, Seen)
    BY <1>0, <2>0, <2>2, HoldKeeps DEF Switching
  <2>3. CASE pc' = [pc EXCEPT ![t] = "lock"] /\ UNCHANGED <<kidVars, lockVars>>
    <3>1. UNCHANGED <<kids, proc, mode, lockVars, target>>
      BY <2>3 DEF kidVars, lockVars
    <3>2. Shapes'
      BY <1>0, <2>3, <3>1 DEF SwitchInv, Shapes, Places, Switching
    <3>3. \A u \in Tasks : pc'[u] = pc[u] \/ (pc[u] \notin Switching /\ pc'[u] \notin Switching)
      BY <2>0, <2>3 DEF SwitchInv, Shapes, Switching
    <3> QED
      BY <1>0, <3>1, <3>2, <3>3, SwitchStill
  <2> QED
    BY <1>1, <2>1, <2>2, <2>3 DEF Ensure
<1>2. CASE Locked(t)
  <2>1. pc[t] = "lock" /\ lock = None /\ (Through(t) \/ Hold(t, view))
    BY <1>2 DEF Locked
  <2> QED
    BY <1>0, <2>1, ThroughKeeps, HoldKeeps DEF Switching
<1>3. CASE Woken(t)
  <2>1. pc[t] = "woken" /\ lock = t /\ Switch(t, view)
    BY <1>3 DEF Woken, SwitchInv, Held, Switching
  <2> QED
    BY <1>0, <2>1, SwitchKeeps
<1>4. CASE Ready(t)
  BY <1>0, <1>4, ThroughKeeps DEF Ready
<1> QED
  BY <1>1, <1>2, <1>3, <1>4

(* The old child has ended: nothing lives but the one that starts.         *)
LEMMA StartKeeps ==
  ASSUME SwitchInv, NEW t \in Tasks, Start(t)
  PROVE  SwitchInv'
<1>1. pc[t] = "stop" /\ lock = t /\ proc = None
  BY DEF Start, SwitchInv, Held, Stopping, Switching
<1>2. PICK c : kids' = [kids EXCEPT ![c] = [mode |-> target, state |-> "loading"]] /\ proc' = c
  BY DEF Start
<1>3. /\ pc' = [pc EXCEPT ![t] = "start"] /\ mode' = target /\ target' = None /\ victim' = None
      /\ lock' = lock /\ cut' = cut
      /\ victim # None => kids[victim].state = "dead"
  BY DEF Start, history
<1>4. \A u \in Tasks \ {t} : pc[u] \notin Switching
  BY <1>1 DEF SwitchInv, Held
<1>5. Shapes'
  <2>1. [mode |-> target, state |-> "loading"] \in [mode : Modes, state : {"loading", "up", "draining", "dead"}]
    BY DEF SwitchInv, Shapes
  <2> QED
    BY <1>2, <1>3, <2>1 DEF SwitchInv, Shapes, Places, Switching, Modes
<1>6. Held' /\ Stopping'
  BY <1>1, <1>3, <1>4 DEF SwitchInv, Shapes, Held, Stopping, Switching
<1>7. Known'
  <2> SUFFICES ASSUME ~cut, NEW d \in Kids, kids'[d].state # "dead" PROVE d = c
    BY <1>2, <1>3 DEF Known
  <2>1. kids[d].state = "dead"
    BY <1>1, <1>3, FailoverAssumption DEF SwitchInv, Known
  <2> QED
    BY <1>2, <2>1 DEF SwitchInv, Shapes
<1> QED
  BY <1>5, <1>6, <1>7 DEF SwitchInv

LEMMA StartFailsKeeps ==
  ASSUME SwitchInv, NEW t \in Tasks, StartFails(t)
  PROVE  SwitchInv'
<1>1. pc[t] = "start" /\ lock = t
  BY DEF StartFails, SwitchInv, Held, Switching
<1>2. cut' = cut
  BY DEF StartFails, history
<1>3. CASE Stop(t, "q3") /\ UNCHANGED lock
  BY <1>1, <1>2, <1>3, StopKeeps DEF Modes
<1>4. CASE /\ pc' = [pc EXCEPT ![t] = IF t = Keeper THEN "new" ELSE "error"] /\ lock' = None
           /\ UNCHANGED <<kidVars, target, victim>>
  <2>1. UNCHANGED <<kids, proc, mode, target, victim>>
    BY <1>4 DEF kidVars
  <2>2. \A u \in Tasks \ {t} : pc[u] \notin Switching
    BY <1>1 DEF SwitchInv, Held
  <2>3. Shapes'
    BY <1>2, <1>4, <2>1 DEF SwitchInv, Shapes, Places, Switching
  <2>4. Held' /\ Stopping'
    BY <1>1, <1>4, <2>1, <2>2 DEF SwitchInv, Shapes, Held, Stopping, Switching
  <2>5. Known'
    BY <1>1, <1>2, <1>4, <2>1 DEF SwitchInv, Shapes, Known
  <2> QED
    BY <2>3, <2>4, <2>5 DEF SwitchInv
<1> QED
  BY <1>3, <1>4 DEF StartFails

(* No child could be made: the lock is kept for q3 or given back.          *)
LEMMA CannotStartKeeps ==
  ASSUME SwitchInv, NEW t \in Tasks, CannotStart(t)
  PROVE  SwitchInv'
<1>1. /\ pc[t] = "stop" /\ lock = t /\ proc = None
      /\ (victim # None => kids[victim].state = "dead")
  BY DEF CannotStart, SwitchInv, Held, Stopping, Switching
<1>2. cut' = cut /\ victim' = None /\ UNCHANGED <<kids, proc, mode>>
  BY DEF CannotStart, kidVars
<1>3. \A u \in Tasks \ {t} : pc[u] \notin Switching
  BY <1>1 DEF SwitchInv, Held
<1>4. Known'
  <2>1. ~cut => \A c \in Kids : kids[c].state # "dead" => c \in {proc, None}
    BY <1>1, FailoverAssumption DEF SwitchInv, Known
  <2> QED
    BY <1>2, <2>1 DEF Known
<1>5. CASE target' = "q3" /\ UNCHANGED <<lock, pc>>
  <2>1. Shapes'
    BY <1>2, <1>5 DEF SwitchInv, Shapes, Modes
  <2>2. Held' /\ Stopping'
    BY <1>2, <1>5 DEF SwitchInv, Held, Stopping
  <2> QED
    BY <1>4, <2>1, <2>2 DEF SwitchInv
<1>6. CASE /\ pc' = [pc EXCEPT ![t] = IF t = Keeper THEN "new" ELSE "error"]
           /\ lock' = None /\ target' = None
  <2>1. Shapes'
    BY <1>2, <1>3, <1>6 DEF SwitchInv, Shapes, Places, Switching, Modes
  <2>2. Held' /\ Stopping'
    BY <1>2, <1>3, <1>6 DEF SwitchInv, Shapes, Held, Stopping, Switching
  <2> QED
    BY <1>4, <2>1, <2>2 DEF SwitchInv
<1> QED
  BY <1>5, <1>6 DEF CannotStart

(* A child that loads or ends: none comes to life.                         *)
LEMMA ChildKeeps ==
  ASSUME SwitchInv, NEW c \in Kids, Loaded(c) \/ Ends(c) \/ Dies(c)
  PROVE  SwitchInv'
<1>1. UNCHANGED <<pc, proc, mode, lockVars, cut>>
  BY DEF Loaded, Ends, Dies, Gone, history
<1>2. /\ kids' \in [Kids -> [mode : Modes, state : {"loading", "up", "draining", "dead"}]]
      /\ \A d \in Kids : kids'[d].state # "dead" => kids[d].state # "dead"
  <2>1. CASE kids' = [kids EXCEPT ![c].state = "up"] /\ kids[c].state = "loading"
    BY <2>1 DEF SwitchInv, Shapes
  <2>2. CASE kids' = [kids EXCEPT ![c] = [mode |-> "og", state |-> "dead"]]
    BY <2>2 DEF SwitchInv, Shapes, Modes
  <2> QED
    BY <2>1, <2>2 DEF Loaded, Ends, Dies, Gone
<1>3. Shapes'
  BY <1>1, <1>2 DEF SwitchInv, Shapes, Places, Switching, lockVars
<1>4. Held' /\ Stopping'
  BY <1>1 DEF SwitchInv, Held, Stopping, lockVars
<1>5. Known'
  BY <1>1, <1>2 DEF SwitchInv, Known, lockVars
<1> QED
  BY <1>3, <1>4, <1>5 DEF SwitchInv

(* A client that leaves in the middle of a switch sets cut; before it, it  *)
(* only gives the lock back.                                               *)
LEMMA LeaveKeeps ==
  ASSUME SwitchInv, NEW r \in Reqs, Leave(r)
  PROVE  SwitchInv'
<1>1. r \in Tasks /\ UNCHANGED <<kids, proc, mode, target, victim>>
  BY DEF Leave, kidVars, Tasks
<1>2. CASE pc[r] \in {"send", "relay"} /\ Released(r, "gone") /\ UNCHANGED lock
  <2>1. cut' = cut
    BY <1>2 DEF Leave, SwitchInv, Shapes
  <2>2. Shapes' /\ UNCHANGED <<kids, proc, lockVars>>
    BY <2>1, <1>1, <1>2 DEF SwitchInv, Shapes, Places, Switching, Released, lockVars
  <2>3. \A t \in Tasks : \/ pc'[t] = pc[t]
                         \/ pc[t] = "idle" /\ pc'[t] = "woken"
                         \/ pc[t] \notin Switching /\ pc'[t] \notin Switching
    BY <1>2 DEF Released, Switching
  <2> QED
    BY <2>1, <2>2, <2>3, SwitchStill
<1>3. CASE /\ watch[r] /\ pc[r] \in {"probe", "lock", "idle", "woken", "stop", "start"}
           /\ pc' = [pc EXCEPT ![r] = "gone"] /\ lock' = (IF lock = r THEN None ELSE lock)
  <2>0. cut' \in BOOLEAN
    BY DEF Leave, SwitchInv, Shapes
  <2>1. Shapes'
    BY <1>1, <1>3, <2>0 DEF SwitchInv, Shapes, Places, Switching
  <2>2. Held' /\ Stopping'
    BY <1>1, <1>3 DEF SwitchInv, Shapes, Held, Stopping, Switching
  <2>3. Known'
    <3>1. CASE pc[r] \in {"stop", "start"}
      BY <1>1, <1>3, <3>1 DEF Leave, Known
    <3>2. CASE pc[r] \notin {"stop", "start"}
      BY <1>1, <1>3, <3>2 DEF SwitchInv, Shapes, Known, Leave
    <3> QED
      BY <3>1, <3>2
  <2> QED
    BY <2>1, <2>2, <2>3 DEF SwitchInv
<1> QED
  BY <1>2, <1>3 DEF Leave

(* What the requests and the box do stays outside the switch; an upstream  *)
(* that is released may wake the task that waits for it.                   *)
LEMMA QuietKeeps ==
  ASSUME SwitchInv,
         \/ BoxChanges \/ Probe \/ TimePasses \/ Restart
         \/ \E r \in Reqs : Admit(r) \/ Request(r) \/ Token(r) \/ OpenFails(r)
         \/ \E c \in Kids : BoxLost(c) \/ EngineFails(c)
         \/ UNCHANGED vars
  PROVE  SwitchInv'
<1>1. UNCHANGED <<kids, proc, mode, lockVars, cut>>
  BY DEF BoxChanges, Probe, TimePasses, Restart, Admit, Request, Token, OpenFails, BoxLost, EngineFails,
     Connect, Read, Finished, Broken, Marked, Resume, NoResume, kidVars, lockVars, history, vars
<1>2. \/ pc' = pc
      \/ \E r \in Reqs, l \in {"probe", "error"} :
           pc[r] \in {"new", "send", "marked"} /\ pc' = [pc EXCEPT ![r] = l]
      \/ \E r \in Reqs : pc[r] = "send" /\ pc' = [pc EXCEPT ![r] = "relay"]
      \/ pc[Keeper] = "new" /\ pc' = [pc EXCEPT ![Keeper] = "probe"]
      \/ \E r \in Reqs, l \in {"error", "ok", "marked"} : pc[r] \in {"send", "relay"} /\ Released(r, l)
  BY DEF BoxChanges, Probe, TimePasses, Restart, Admit, Request, Token, OpenFails, BoxLost, EngineFails,
     Connect, Read, Finished, Broken, Marked, Resume, NoResume, vars
<1>3. /\ pc' \in [Tasks -> Places]
      /\ \A t \in Tasks : \/ pc'[t] = pc[t]
                          \/ pc[t] = "idle" /\ pc'[t] = "woken"
                          \/ pc[t] \notin Switching /\ pc'[t] \notin Switching
  BY <1>2 DEF SwitchInv, Shapes, Places, Released, Switching, Tasks
<1>4. Shapes'
  BY <1>1, <1>3 DEF SwitchInv, Shapes, Places, Switching, lockVars
<1> QED
  BY <1>1, <1>3, <1>4, SwitchStill

LEMMA SwitchInvStep == SwitchInv /\ [Next]_vars => SwitchInv'
<1> SUFFICES ASSUME SwitchInv, [Next]_vars PROVE SwitchInv'
  OBVIOUS
<1>1. ASSUME NEW t \in Tasks, Step(t) PROVE SwitchInv'
  BY <1>1, EnsureKeeps, StartKeeps, StartFailsKeeps, CannotStartKeeps DEF Step
<1>2. ASSUME NEW c \in Kids, Child(c) \/ Dies(c) \/ EngineFails(c) PROVE SwitchInv'
  BY <1>2, ChildKeeps, QuietKeeps DEF Child
<1>3. ASSUME NEW r \in Reqs, Leave(r) PROVE SwitchInv'
  BY <1>3, LeaveKeeps
<1> QED
  BY <1>1, <1>2, <1>3, QuietKeeps DEF Next

LEMMA SwitchInvInit == Init => SwitchInv
<1> SUFFICES ASSUME Init PROVE SwitchInv
  OBVIOUS
<1>1. Shapes
  BY DEF Init, Shapes, Places, Modes
<1>2. \A t \in Tasks : pc[t] \notin Switching
  BY DEF Init, Switching
<1>3. Held /\ Stopping
  BY <1>2 DEF Held, Stopping, Switching
<1>4. Known
  BY DEF Init, Known
<1> QED
  BY <1>1, <1>3, <1>4 DEF SwitchInv

(* "exactly one GPU child at a time", whatever dies, fails or is switched, *)
(* as long as no client leaves in the middle of a switch it was watching.  *)
THEOREM FailoverOneChild == Spec => []OneChild
BY SwitchInvInit, KnownOne, SwitchInvStep, PTL DEF Spec

-----------------------------------------------------------------------------
(* A switch waits for the responses.                                       *)

(* The upstreams in flight are those of the requests that are sent or      *)
(* relayed, and self.inflight counts them.                                 *)
Flying == {r \in Reqs : pc[r] \in {"send", "relay"}}
Counted == IsFiniteSet(Flying) /\ inflight = Cardinality(Flying)
Linked == up \in [Reqs -> Kids \cup {None}] /\ (\A r \in Reqs : up[r] # None <=> r \in Flying)

(* A task is woken when the last one is released, and nothing is relayed   *)
(* before it has run.                                                      *)
Alone == \A t \in Tasks : pc[t] = "woken" => \A r \in Reqs : pc[r] # "relay"

(* Whoever waits for a child to load has started it; nothing is relayed to *)
(* a child that loads.                                                     *)
Current == proc \in Kids \cup {None} /\ (\A t \in Tasks : pc[t] = "start" => proc \in Kids)
Serving == \A r \in Reqs : pc[r] = "relay" => up[r] \in Kids /\ kids[up[r]].state # "loading"

IdleInv == SwitchInv /\ Counted /\ Linked /\ Alone /\ Current /\ Serving

(* No response that is relayed loses its child in this step.               *)
Undrained ==
  \A c \in Kids : kids[c].state # "draining" /\ kids'[c].state = "draining"
    => \A r \in Reqs : up[r] = c => pc[r] = "send"

LEMMA TaskKinds == Reqs \subseteq Tasks /\ Keeper \notin Reqs
BY FailoverAssumption DEF Tasks

(* A request that is sent: one more in flight.                             *)
LEMMA SentOne ==
  ASSUME IdleInv, NEW t \in Reqs, pc[t] \notin {"send", "relay"}, pc' = [pc EXCEPT ![t] = "send"],
         inflight' = inflight + 1, up' = [up EXCEPT ![t] = proc], proc # None
  PROVE  Counted' /\ Linked' /\ Alone'
<1>1. Flying' = Flying \cup {t} /\ t \notin Flying
  BY TaskKinds DEF Flying, IdleInv, SwitchInv, Shapes
<1>2. Counted'
  BY <1>1, FS_AddElement DEF IdleInv, Counted
<1>3. Linked'
  BY <1>1 DEF IdleInv, Linked, Current
<1>4. Alone'
  BY TaskKinds DEF IdleInv, Alone, SwitchInv, Shapes
<1> QED
  BY <1>2, <1>3, <1>4

(* An upstream that is released: one fewer, and none when a task is woken. *)
LEMMA ReleasedOne ==
  ASSUME IdleInv, NEW r \in Reqs, NEW l, pc[r] \in {"send", "relay"}, Released(r, l),
         l \notin {"send", "relay", "woken", "start"}, UNCHANGED <<kids, proc>>
  PROVE  Counted' /\ Linked' /\ Alone' /\ Current' /\ Serving'
<1>1. /\ inflight' = inflight - 1 /\ up' = [up EXCEPT ![r] = None]
      /\ pc' = [t \in Tasks |-> IF t = r THEN l
                                ELSE IF inflight = 1 /\ pc[t] = "idle" THEN "woken" ELSE pc[t]]
  BY DEF Released
<1>2. Flying' = Flying \ {r} /\ r \in Flying
  BY <1>1, TaskKinds DEF Flying
<1>3. Counted'
  BY <1>1, <1>2, FS_RemoveElement, FS_CardinalityType DEF IdleInv, Counted
<1>4. Linked'
  BY <1>1, <1>2 DEF IdleInv, Linked
<1>5. Alone'
  <2>1. CASE inflight = 1
    <3>1. Flying' = {}
      BY <1>1, <1>3, <2>1, FS_EmptySet DEF Counted
    <3> QED
      BY <3>1 DEF Alone, Flying
  <2>2. CASE inflight # 1
    BY <1>1, <2>2, TaskKinds DEF IdleInv, Alone
  <2> QED
    BY <2>1, <2>2
<1>6. Current'
  BY <1>1 DEF IdleInv, Current
<1>7. Serving'
  BY <1>1, TaskKinds DEF IdleInv, Serving
<1> QED
  BY <1>3, <1>4, <1>5, <1>6, <1>7

(* A step of a task that is, and stays, outside.                           *)
LEMMA FlyingStill ==
  ASSUME IdleInv, UNCHANGED <<inflight, up>>, pc' \in [Tasks -> Places],
         \A t \in Tasks : /\ pc[t] # "woken" => pc'[t] # "woken"
                          /\ pc'[t] = "relay" <=> pc[t] = "relay"
                          /\ pc'[t] = "send" <=> pc[t] = "send"
  PROVE  Counted' /\ Linked' /\ Alone'
<1>1. Flying' = Flying
  BY TaskKinds DEF Flying
<1> QED
  BY <1>1, TaskKinds DEF IdleInv, Counted, Linked, Alone

LEMMA IdleThrough ==
  ASSUME IdleInv, NEW t \in Tasks, Through(t), pc[t] \notin {"send", "relay"}, proc # None
  PROVE  Counted' /\ Linked' /\ Alone' /\ Current' /\ Serving'
<1>1. UNCHANGED <<kids, proc>>
  BY DEF Through
<1>2. CASE /\ t \in Reqs /\ pc' = [pc EXCEPT ![t] = "send"] /\ inflight' = inflight + 1
           /\ up' = [up EXCEPT ![t] = proc]
  <2>1. Counted' /\ Linked' /\ Alone'
    BY <1>2, SentOne
  <2>2. Current'
    BY <1>1, <1>2 DEF IdleInv, Current, SwitchInv, Shapes
  <2>3. Serving'
    BY <1>1, <1>2, TaskKinds DEF IdleInv, Serving, SwitchInv, Shapes
  <2> QED
    BY <2>1, <2>2, <2>3
<1>3. CASE /\ \E l \in {"new", "probe"} : pc' = [pc EXCEPT ![t] = l]
           /\ UNCHANGED <<inflight, up>>
  <2>1. Counted' /\ Linked' /\ Alone'
    BY <1>3, FlyingStill DEF IdleInv, SwitchInv, Shapes, Places
  <2>2. Current' /\ Serving'
    BY <1>1, <1>3, TaskKinds DEF IdleInv, Current, Serving, SwitchInv, Shapes
  <2> QED
    BY <2>1, <2>2
<1> QED
  BY <1>2, <1>3 DEF Through, Tasks

(* The task that stops the child: with nothing relayed, or when the child  *)
(* is still loading.                                                       *)
LEMMA IdleStop ==
  ASSUME IdleInv, NEW t \in Tasks, NEW m, Stop(t, m), pc[t] \notin {"send", "relay"},
         lock \in {None, t}, (\A r \in Reqs : pc[r] # "relay") \/ (proc \in Kids /\ kids[proc].state \in {"dead", "loading"})
  PROVE  Counted' /\ Linked' /\ Alone' /\ Current' /\ Serving' /\ Undrained
<1>1. /\ proc' = None /\ pc' = [pc EXCEPT ![t] = "stop"] /\ UNCHANGED <<inflight, up>>
      /\ kids' = IF Alive THEN [kids EXCEPT ![proc].state = "draining"] ELSE kids
  BY DEF Stop
<1>2. Counted' /\ Linked' /\ Alone'
  BY <1>1, FlyingStill DEF IdleInv, SwitchInv, Shapes, Places, Switching
<1>3. \A c \in Kids : kids'[c] # kids[c] => c = proc /\ kids'[c].state = "draining" /\ kids[c].state # "dead"
  BY <1>1 DEF IdleInv, SwitchInv, Shapes, Alive
<1>4. \A r \in Reqs : pc'[r] = "relay" => pc[r] = "relay"
  BY <1>1, TaskKinds DEF IdleInv, SwitchInv, Shapes
<1>5. Serving'
  BY <1>1, <1>3, <1>4 DEF IdleInv, Serving
<1>6. Current'
  <2>1. \A u \in Tasks : pc'[u] # "start"
    BY <1>1, FailoverAssumption DEF IdleInv, SwitchInv, Shapes, Held, Switching
  <2> QED
    BY <1>1, <2>1 DEF Current
<1>7. Undrained
  <2> SUFFICES ASSUME NEW c \in Kids, kids[c].state # "draining", kids'[c].state = "draining",
                      NEW r \in Reqs, up[r] = c, pc[r] # "send"
               PROVE  FALSE
    BY DEF Undrained
  <2>1. pc[r] = "relay"
    BY FailoverAssumption DEF IdleInv, Linked, Flying
  <2>2. c = proc /\ kids[c].state \notin {"dead", "loading"}
    BY <1>3, <2>1 DEF IdleInv, Serving
  <2> QED
    BY <2>1, <2>2
<1> QED
  BY <1>2, <1>5, <1>6, <1>7

Kept == Counted' /\ Linked' /\ Alone' /\ Current' /\ Serving' /\ Undrained

LEMMA UndrainedStill == UNCHANGED kids => Undrained
BY DEF Undrained

LEMMA WantNone == ASSUME NEW v, Want(v) = None PROVE proc # None
BY FailoverAssumption DEF Want, Alive

LEMMA IdleSwitch ==
  ASSUME IdleInv, NEW t \in Tasks, NEW v, Switch(t, v), pc[t] \notin {"send", "relay"},
         lock \in {None, t}, \A r \in Reqs : pc[r] # "relay"
  PROVE  Kept
<1>1. CASE Alive /\ Through(t)
  BY <1>1, IdleThrough, UndrainedStill DEF Through, Kept, Alive
<1>2. CASE \E m \in {mode, Want(v)} : Stop(t, m)
  BY <1>2, IdleStop DEF Kept
<1> QED
  BY <1>1, <1>2 DEF Switch

LEMMA IdleHold ==
  ASSUME IdleInv, NEW t \in Tasks, NEW v, Hold(t, v), pc[t] \in {"probe", "lock"}, lock = None
  PROVE  Kept
<1>1. CASE inflight = 0 /\ Switch(t, v)
  <2>1. Flying = {}
    BY <1>1, FS_EmptySet DEF IdleInv, Counted
  <2> QED
    BY <1>1, <2>1, IdleSwitch DEF Flying
<1>2. CASE pc' = [pc EXCEPT ![t] = "idle"] /\ UNCHANGED <<kidVars, inflight, up>>
  <2>1. Counted' /\ Linked' /\ Alone'
    BY <1>2, FlyingStill DEF IdleInv, SwitchInv, Shapes, Places, Switching
  <2>2. Current' /\ Serving'
    BY <1>2, TaskKinds DEF IdleInv, Current, Serving, SwitchInv, Shapes, kidVars
  <2> QED
    BY <1>2, <2>1, <2>2, UndrainedStill DEF Kept, kidVars
<1> QED
  BY <1>1, <1>2 DEF Hold

LEMMA IdleSteps ==
  ASSUME IdleInv, NEW t \in Tasks, Ensure(t) \/ Locked(t) \/ Woken(t) \/ Ready(t)
  PROVE  Kept
<1>1. CASE Ensure(t)
  <2>0. pc[t] = "probe"
    BY <1>1 DEF Ensure
  <2>1. CASE Want(Seen) = None /\ Through(t)
    BY <2>0, <2>1, WantNone, IdleThrough, UndrainedStill DEF Through, Kept
  <2>2. CASE lock = None /\ Hold(t, Seen)
    BY <2>0, <2>2, IdleHold
  <2>3. CASE pc' = [pc EXCEPT ![t] = "lock"] /\ UNCHANGED <<kidVars, inflight, up>>
    <3>1. Counted' /\ Linked' /\ Alone'
      BY <2>0, <2>3, FlyingStill DEF IdleInv, SwitchInv, Shapes, Places, Switching
    <3>2. Current' /\ Serving'
      BY <2>3, TaskKinds DEF IdleInv, Current, Serving, SwitchInv, Shapes, kidVars
    <3> QED
      BY <2>3, <3>1, <3>2, UndrainedStill DEF Kept, kidVars
  <2> QED
    BY <1>1, <2>1, <2>2, <2>3 DEF Ensure
<1>2. CASE Locked(t)
  <2>1. pc[t] = "lock" /\ lock = None /\ ((Want(view) = None /\ Through(t)) \/ Hold(t, view))
    BY <1>2 DEF Locked
  <2>2. CASE Want(view) = None /\ Through(t)
    BY <2>1, <2>2, WantNone, IdleThrough, UndrainedStill DEF Through, Kept
  <2> QED
    BY <2>1, <2>2, IdleHold
<1>3. CASE Woken(t)
  <2>1. pc[t] = "woken" /\ lock = t /\ Switch(t, view)
    BY <1>3 DEF Woken, IdleInv, SwitchInv, Held, Switching
  <2>2. \A r \in Reqs : pc[r] # "relay"
    BY <2>1 DEF IdleInv, Alone
  <2> QED
    BY <2>1, <2>2, IdleSwitch
<1>4. CASE Ready(t)
  <2>1. pc[t] = "start" /\ Through(t) /\ proc # None
    BY <1>4, FailoverAssumption DEF Ready, IdleInv, Current
  <2> QED
    BY <2>1, IdleThrough, UndrainedStill DEF Through, Kept
<1> QED
  BY <1>1, <1>2, <1>3, <1>4

LEMMA IdleStart ==
  ASSUME IdleInv, NEW t \in Tasks, Start(t)
  PROVE  Kept
<1>1. PICK c \in Free : kids' = [kids EXCEPT ![c] = [mode |-> target, state |-> "loading"]] /\ proc' = c
  BY DEF Start
<1>2. pc[t] = "stop" /\ pc' = [pc EXCEPT ![t] = "start"] /\ UNCHANGED <<inflight, up>>
  BY DEF Start, upstream
<1>3. c \in Kids /\ \A r \in Reqs : up[r] # c
  BY DEF Free
<1>4. Counted' /\ Linked' /\ Alone'
  BY <1>2, FlyingStill DEF IdleInv, SwitchInv, Shapes, Places, Switching
<1>5. Current'
  BY <1>1, <1>3 DEF Current
<1>6. Serving'
  BY <1>1, <1>2, <1>3, TaskKinds DEF IdleInv, Serving, SwitchInv, Shapes
<1>7. Undrained
  BY <1>1 DEF Undrained, IdleInv, SwitchInv, Shapes
<1> QED
  BY <1>4, <1>5, <1>6, <1>7 DEF Kept

LEMMA IdleStartFails ==
  ASSUME IdleInv, NEW t \in Tasks, StartFails(t)
  PROVE  Kept
<1>1. pc[t] = "start" /\ lock = t /\ proc \in Kids /\ kids[proc].state \in {"dead", "loading"}
  BY DEF StartFails, IdleInv, SwitchInv, Held, Switching, Current
<1>2. CASE Stop(t, "q3")
  BY <1>1, <1>2, IdleStop DEF Kept
<1>3. CASE /\ \E l \in {"new", "error"} : pc' = [pc EXCEPT ![t] = l]
           /\ UNCHANGED <<kidVars, inflight, up>>
  <2>1. Counted' /\ Linked' /\ Alone'
    BY <1>1, <1>3, FlyingStill DEF IdleInv, SwitchInv, Shapes, Places
  <2>2. Current' /\ Serving'
    BY <1>3, TaskKinds DEF IdleInv, Current, Serving, SwitchInv, Shapes, kidVars
  <2> QED
    BY <1>3, <2>1, <2>2, UndrainedStill DEF Kept, kidVars
<1> QED
  BY <1>2, <1>3 DEF StartFails

LEMMA IdleCannotStart ==
  ASSUME IdleInv, NEW t \in Tasks, CannotStart(t)
  PROVE  Kept
<1>1. pc[t] = "stop" /\ UNCHANGED <<kidVars, inflight, up>>
  BY DEF CannotStart, upstream
<1>2. CASE pc' = pc
  BY <1>1, <1>2, UndrainedStill DEF Kept, IdleInv, Counted, Flying, Linked, Alone, Current, Serving, kidVars
<1>3. CASE \E l \in {"new", "error"} : pc' = [pc EXCEPT ![t] = l]
  <2>1. Counted' /\ Linked' /\ Alone'
    BY <1>1, <1>3, FlyingStill DEF IdleInv, SwitchInv, Shapes, Places
  <2>2. Current' /\ Serving'
    BY <1>1, <1>3, TaskKinds DEF IdleInv, Current, Serving, SwitchInv, Shapes, kidVars
  <2> QED
    BY <1>1, <2>1, <2>2, UndrainedStill DEF Kept, kidVars
<1> QED
  BY <1>2, <1>3 DEF CannotStart

LEMMA IdleChild ==
  ASSUME IdleInv, NEW c \in Kids, Loaded(c) \/ Ends(c) \/ Dies(c)
  PROVE  Kept
<1>1. UNCHANGED <<pc, proc, inflight, up>>
  BY DEF Loaded, Ends, Dies, Gone, upstream
<1>2. \A d \in Kids : /\ kids'[d].state = "loading" => kids[d].state = "loading"
                      /\ kids'[d].state = "draining" => kids[d].state = "draining"
  <2>1. CASE kids' = [kids EXCEPT ![c].state = "up"]
    BY <2>1 DEF IdleInv, SwitchInv, Shapes
  <2>2. CASE kids' = [kids EXCEPT ![c] = [mode |-> "og", state |-> "dead"]]
    BY <2>2 DEF IdleInv, SwitchInv, Shapes
  <2> QED
    BY <2>1, <2>2 DEF Loaded, Ends, Dies, Gone
<1>3. Counted' /\ Linked' /\ Alone' /\ Current'
  BY <1>1 DEF IdleInv, Counted, Linked, Alone, Current, Flying
<1>4. Serving' /\ Undrained
  BY <1>1, <1>2 DEF IdleInv, Serving, Undrained
<1> QED
  BY <1>3, <1>4 DEF Kept

(* What the requests and the box do.                                       *)
LEMMA IdleQuiet ==
  ASSUME IdleInv, SwitchInv',
         \/ BoxChanges \/ Probe \/ TimePasses \/ Restart
         \/ \E r \in Reqs : Admit(r) \/ Request(r) \/ Token(r) \/ OpenFails(r) \/ Leave(r)
         \/ \E c \in Kids : BoxLost(c) \/ EngineFails(c)
         \/ UNCHANGED vars
  PROVE  Kept
<1>1. UNCHANGED <<kids, proc>>
  BY DEF BoxChanges, Probe, TimePasses, Restart, Admit, Request, Token, OpenFails, BoxLost, EngineFails,
     Connect, Read, Finished, Broken, Marked, Resume, NoResume, Leave, kidVars, vars
<1> DEFINE Outside(l) == /\ UNCHANGED <<inflight, up>>
                         /\ \E t \in Tasks : /\ pc[t] \notin {"send", "relay"}
                                            /\ pc' = [pc EXCEPT ![t] = l]
           Ending(l) == \E r \in Reqs : pc[r] \in {"send", "relay"} /\ Released(r, l)
<1>2. \/ UNCHANGED <<pc, inflight, up>>
      \/ Outside("probe") \/ Outside("error") \/ Outside("gone")
      \/ \E r \in Reqs : Connect(r) /\ UNCHANGED <<inflight, up>>
      \/ Ending("error") \/ Ending("ok") \/ Ending("marked") \/ Ending("gone")
  <2>1. CASE \/ BoxChanges \/ Probe \/ TimePasses \/ UNCHANGED vars
             \/ \E r \in Reqs : Read(r) \/ Token(r) \/ OpenFails(r)
             \/ \E c \in Kids : BoxLost(c) \/ EngineFails(c)
    BY <2>1 DEF BoxChanges, Probe, TimePasses, Read, Token, OpenFails, BoxLost, EngineFails, vars, upstream
  <2>2. CASE Restart \/ \E r \in Reqs : Admit(r) \/ Resume(r) \/ NoResume(r)
    <3>1. CASE Restart
      BY <3>1, TaskKinds DEF Restart, upstream, Tasks
    <3>2. ASSUME NEW r \in Reqs, Admit(r) \/ Resume(r) \/ NoResume(r)
          PROVE  Outside("probe") \/ Outside("error")
      BY <3>2, TaskKinds DEF Admit, Resume, NoResume, upstream
    <3> QED
      BY <2>2, <3>1, <3>2
  <2>3. ASSUME NEW r \in Reqs, Finished(r) \/ Broken(r) \/ Marked(r)
        PROVE  Ending("error") \/ Ending("ok") \/ Ending("marked")
    BY <2>3 DEF Finished, Broken, Marked
  <2>4. ASSUME NEW r \in Reqs, Connect(r)
        PROVE  Ending("error") \/ (Connect(r) /\ UNCHANGED <<inflight, up>>)
    BY <2>4 DEF Connect, upstream
  <2>5. ASSUME NEW r \in Reqs, Leave(r)
        PROVE  Ending("gone") \/ Outside("gone")
    <3>1. CASE pc[r] \in {"send", "relay"} /\ Released(r, "gone")
      BY <3>1
    <3>2. CASE /\ pc[r] \notin {"send", "relay"} /\ pc' = [pc EXCEPT ![r] = "gone"]
               /\ UNCHANGED <<inflight, up>>
      BY <3>2, TaskKinds
    <3> QED
      BY <2>5, <3>1, <3>2 DEF Leave
  <2> QED
    BY <2>1, <2>2, <2>3, <2>4, <2>5 DEF Request
<1>3. CASE UNCHANGED <<pc, inflight, up>>
  BY <1>1, <1>3, UndrainedStill DEF Kept, IdleInv, Counted, Flying, Linked, Alone, Current, Serving
<1>4. ASSUME UNCHANGED <<inflight, up>>, NEW t \in Tasks, NEW l \in {"probe", "error", "gone"},
             pc[t] \notin {"send", "relay"}, pc' = [pc EXCEPT ![t] = l]
      PROVE  Kept
  <2>1. Counted' /\ Linked' /\ Alone'
    BY <1>4, FlyingStill DEF IdleInv, SwitchInv, Shapes
  <2>2. Current' /\ Serving'
    BY <1>1, <1>4, TaskKinds DEF IdleInv, Current, Serving, SwitchInv, Shapes
  <2> QED
    BY <1>1, <2>1, <2>2, UndrainedStill DEF Kept
<1>5. ASSUME NEW r \in Reqs, Connect(r), UNCHANGED <<inflight, up>>
      PROVE  Kept
  <2>0. inflight # inflight - 1
    BY FS_CardinalityType DEF IdleInv, Counted
  <2>1. /\ pc[r] = "send" /\ \A t \in Tasks : pc[t] # "woken"
        /\ kids[up[r]].state # "loading" /\ pc' = [pc EXCEPT ![r] = "relay"]
    BY <1>5, <2>0 DEF Connect, Released
  <2>2. Flying' = Flying
    BY <2>1, TaskKinds DEF Flying, IdleInv, SwitchInv, Shapes
  <2>3. Counted' /\ Linked'
    BY <1>5, <2>2 DEF IdleInv, Counted, Linked
  <2>4. Alone'
    BY <2>1 DEF Alone, IdleInv, SwitchInv, Shapes
  <2>5. Current'
    BY <1>1, <2>1 DEF IdleInv, Current, SwitchInv, Shapes
  <2>6. up[r] \in Kids
    BY <2>1 DEF IdleInv, Linked, Flying
  <2>7. Serving'
    BY <1>1, <1>5, <2>1, <2>6, TaskKinds DEF IdleInv, Serving, SwitchInv, Shapes
  <2> QED
    BY <1>1, <2>3, <2>4, <2>5, <2>7, UndrainedStill DEF Kept
<1>6. ASSUME NEW r \in Reqs, NEW l \in {"error", "ok", "marked", "gone"},
             pc[r] \in {"send", "relay"}, Released(r, l)
      PROVE  Kept
  BY <1>1, <1>6, ReleasedOne, UndrainedStill DEF Kept
<1> QED
  BY <1>2, <1>3, <1>4, <1>5, <1>6

LEMMA IdleInvStep == IdleInv /\ [Next]_vars => IdleInv' /\ Undrained
<1> SUFFICES ASSUME IdleInv, [Next]_vars PROVE Kept
  BY SwitchInvStep DEF Kept, IdleInv
<1>0. SwitchInv'
  BY SwitchInvStep DEF IdleInv
<1>1. ASSUME NEW t \in Tasks, Step(t) PROVE Kept
  BY <1>1, IdleSteps, IdleStart, IdleStartFails, IdleCannotStart DEF Step
<1>2. ASSUME NEW c \in Kids, Child(c) \/ Dies(c) \/ EngineFails(c) PROVE Kept
  BY <1>0, <1>2, IdleChild, IdleQuiet DEF Child
<1> QED
  BY <1>0, <1>1, <1>2, IdleQuiet DEF Next

(* "A switch waits until no upstream request is in flight": no step of the *)
(* system takes its child from a response that is being relayed.           *)
THEOREM FailoverSwitchIdle == Spec => SwitchIdle
<1>1. Init => IdleInv
  <2> SUFFICES ASSUME Init PROVE IdleInv
    OBVIOUS
  <2>1. SwitchInv
    BY SwitchInvInit
  <2>2. Flying = {}
    BY TaskKinds DEF Init, Flying
  <2>3. Counted
    BY <2>2, FS_EmptySet DEF Init, Counted
  <2>4. \A t \in Tasks : pc[t] \in {"probe", "new"}
    BY DEF Init
  <2> QED
    BY <2>1, <2>2, <2>3, <2>4, TaskKinds DEF Init, IdleInv, Linked, Alone, Current, Serving
<1>2. IdleInv /\ [Next]_vars => [Undrained]_vars
  BY IdleInvStep
<1>3. [][Undrained]_vars => SwitchIdle
  BY DEF Undrained, SwitchIdle
<1> QED
  BY <1>1, <1>2, <1>3, IdleInvStep, PTL DEF Spec

-----------------------------------------------------------------------------
(* The client's text.                                                      *)

(* What a request has of its response: an attempt that has ended well has  *)
(* a token; until the response has failed, the client's text is the        *)
(* beginning of what the attempt stands for and holds all it has read.     *)
Tokens ==
  /\ base \in [Reqs -> Seq(Nat)] /\ out \in [Reqs -> Seq(Nat)] /\ text \in [Reqs -> Seq(Nat)]
  /\ read \in [Reqs -> Nat] /\ resumes \in [Reqs -> Nat] /\ DOMAIN end = Reqs

Lost(r) == r \in unreplayed \/ pc[r] \in {"error", "gone"}

Spoken(r) ==
  /\ read[r] <= Len(out[r]) /\ (end[r] = "done" => out[r] # <<>>)
  /\ ~Lost(r) => /\ IsPrefix(text[r], Told(r)) /\ read[r] <= Len(text[r])
                 /\ pc[r] = "ok" => text[r] = out[r]

TextInv == SwitchInv /\ Tokens /\ \A r \in Reqs : Spoken(r)

LEMMA PrefixPoints ==
  ASSUME NEW s \in Seq(Nat), NEW t \in Seq(Nat)
  PROVE  IsPrefix(s, t) <=> (Len(s) <= Len(t) /\ \A i \in 1..Len(s) : s[i] = t[i])
<1>1. CASE Len(s) <= Len(t)
  <2>1. /\ SubSeq(s, 1, Len(s)) \in Seq(Nat) /\ Len(SubSeq(s, 1, Len(s))) = Len(s)
        /\ \A i \in 1..Len(s) : SubSeq(s, 1, Len(s))[i] = s[i]
    BY SMT
  <2>2. /\ SubSeq(t, 1, Len(s)) \in Seq(Nat) /\ Len(SubSeq(t, 1, Len(s))) = Len(s)
        /\ \A i \in 1..Len(s) : SubSeq(t, 1, Len(s))[i] = t[i]
    BY <1>1, SMT
  <2>3. SubSeq(s, 1, Len(s)) = SubSeq(t, 1, Len(s)) <=> \A i \in 1..Len(s) : s[i] = t[i]
    BY <2>1, <2>2, SeqEqual
  <2> QED
    BY <1>1, <2>3 DEF IsPrefix
<1>2. CASE ~(Len(s) <= Len(t))
  BY <1>2 DEF IsPrefix
<1> QED
  BY <1>1, <1>2

LEMMA PrefixAppend ==
  ASSUME NEW s \in Seq(Nat), NEW t \in Seq(Nat), NEW x \in Nat, IsPrefix(s, t)
  PROVE  IsPrefix(s, Append(t, x))
<1>1. Append(t, x) \in Seq(Nat) /\ Len(Append(t, x)) = Len(t) + 1
      /\ \A i \in 1..Len(t) : Append(t, x)[i] = t[i]
  BY AppendProperties
<1>2. Len(s) <= Len(t) /\ \A i \in 1..Len(s) : s[i] = t[i]
  BY PrefixPoints
<1>3. Len(s) \in Nat /\ Len(t) \in Nat
  BY LenProperties
<1>4. Len(s) <= Len(Append(t, x)) /\ \A i \in 1..Len(s) : s[i] = Append(t, x)[i]
  BY <1>1, <1>2, <1>3
<1> QED
  BY <1>1, <1>4, PrefixPoints

LEMMA PrefixEmpty == ASSUME NEW t \in Seq(Nat) PROVE IsPrefix(<<>>, t)
<1>1. <<>> \in Seq(Nat) /\ Len(<<>>) = 0 /\ Len(t) \in Nat
  BY EmptySeq, LenProperties
<1>2. Len(<<>>) <= Len(t) /\ \A i \in 1..Len(<<>>) : <<>>[i] = t[i]
  BY <1>1
<1> QED
  BY <1>1, <1>2, PrefixPoints

LEMMA MaxTwo ==
  ASSUME NEW a \in Int, NEW b \in Int, a <= b
  PROVE  Max({a, b}) = b
<1> DEFINE P(x) == x \in {a, b} /\ \A y \in {a, b} : x >= y
<1>1. \A x : P(x) => x = b
  OBVIOUS
<1>2. P(b)
  OBVIOUS
<1>3. Max({a, b}) = CHOOSE x \in {a, b} : \A y \in {a, b} : x >= y
  BY DEF Max
<1> QED
  BY <1>1, <1>2, <1>3

(* Skip: what is read on brings the client to that token, or leaves its    *)
(* text when it has it already.                                            *)
LEMMA SkipReads ==
  ASSUME NEW s \in Seq(Nat), NEW t \in Seq(Nat), NEW k \in Nat, NEW n \in Nat,
         IsPrefix(s, t), k <= Len(s), n <= Len(t)
  PROVE  LET u == s \o SubSeq(t, Max({k, Len(s)}) + 1, n)
         IN  u \in Seq(Nat) /\ IsPrefix(u, t) /\ n <= Len(u)
<1> DEFINE l == Len(s)
           v == SubSeq(t, l + 1, n)
           u == s \o v
<1>0. l \in Nat /\ Len(t) \in Nat /\ l \in Int /\ k \in Int /\ k <= l
  BY LenProperties
<1>1. Max({k, Len(s)}) = l
  BY <1>0, MaxTwo, Zenon
<1>2. /\ v \in Seq(Nat) /\ Len(v) = IF l + 1 <= n THEN n - l ELSE 0
      /\ \A i \in 1..Len(v) : v[i] = t[l + i]
  BY LenProperties, SMT
<1>3. /\ u \in Seq(Nat) /\ Len(u) = l + Len(v)
      /\ \A i \in 1..Len(u) : u[i] = IF i <= l THEN s[i] ELSE v[i - l]
  <2>1. v \in Seq(Nat)
    BY <1>2
  <2> HIDE DEF v
  <2> QED
    BY <2>1, ConcatProperties
<1>4. l <= Len(t) /\ \A i \in 1..l : s[i] = t[i]
  BY PrefixPoints
<1>5. Len(u) <= Len(t) /\ n <= Len(u)
  BY <1>2, <1>3, <1>4, LenProperties
<1>6. \A i \in 1..Len(u) : u[i] = t[i]
  <2> SUFFICES ASSUME NEW i \in 1..Len(u) PROVE u[i] = t[i]
    OBVIOUS
  <2>1. l \in Nat /\ Len(v) \in Nat
    BY <1>2, LenProperties
  <2>2. CASE i <= l
    BY <1>3, <1>4, <2>1, <2>2
  <2>3. CASE i > l
    <3>1. i - l \in 1..Len(v) /\ l + (i - l) = i
      BY <1>3, <2>1, <2>3
    <3> HIDE DEF v, u, l
    <3>2. u[i] = v[i - l]
      BY <1>3, <2>1, <2>3
    <3>3. v[i - l] = t[l + (i - l)]
      BY <1>2, <3>1
    <3> QED
      BY <3>1, <3>2, <3>3
  <2> QED
    BY <2>1, <2>2, <2>3
<1>7. IsPrefix(u, t)
  BY <1>3, <1>5, <1>6, PrefixPoints
<1> QED
  BY <1>1, <1>3, <1>5, <1>7

(* A prefix that is no shorter is the whole.                               *)
LEMMA PrefixWhole ==
  ASSUME NEW s \in Seq(Nat), NEW t \in Seq(Nat), IsPrefix(s, t), Len(t) <= Len(s)
  PROVE  s = t
BY PrefixPoints, SeqEqual, LenProperties

LEMMA ToldSeq == ASSUME Tokens, NEW r \in Reqs PROVE Told(r) \in Seq(Nat)
BY DEF Tokens, Told

(* A step that leaves what request r has alone, except how its attempt     *)
(* ended without a last token.                                             *)
LEMMA SpokenStill ==
  ASSUME TextInv, NEW r \in Reqs, UNCHANGED <<base, out, text, read>>,
         end'[r] = "done" => end[r] = "done", Lost(r) => Lost(r)',
         pc'[r] = "ok" => pc[r] = "ok"
  PROVE  Spoken(r)'
<1>1. Told(r)' = Told(r)
  BY DEF Told
<1> QED
  BY <1>1 DEF TextInv, Spoken

(* A request that failed has nothing left to compare.                      *)
LEMMA SpokenClosed ==
  ASSUME TextInv, NEW r \in Reqs, Closed(r), pc'[r] \in {"error", "gone"}
  PROVE  Spoken(r)'
<1>1. read'[r] = 0 /\ out'[r] = <<>> /\ end'[r] = None
  BY DEF Closed, TextInv, Tokens
<1>2. Len(<<>>) = 0 /\ None # "done"
  BY EmptySeq, FailoverAssumption
<1> QED
  BY <1>1, <1>2 DEF Spoken, Lost

LEMMA SpokenOther ==
  ASSUME TextInv, NEW r \in Reqs, NEW q \in Reqs, q # r, Closed(r), unreplayed' = unreplayed,
         pc'[q] = pc[q] \/ (pc[q] = "idle" /\ pc'[q] = "woken")
  PROVE  Spoken(q)'
<1>1. /\ base'[q] = base[q] /\ out'[q] = out[q] /\ text'[q] = text[q] /\ read'[q] = read[q]
      /\ end'[q] = end[q]
  BY DEF Closed, TextInv, Tokens
<1>2. Told(q)' = Told(q)
  BY <1>1 DEF Told
<1>3. Lost(q)' <=> Lost(q)
  BY DEF Lost
<1> QED
  BY <1>1, <1>2, <1>3 DEF TextInv, Spoken

LEMMA TokensClosed == ASSUME TextInv, NEW r \in Reqs, Closed(r) PROVE Tokens'
BY EmptySeq DEF TextInv, Tokens, Closed

LEMMA TextClosed ==
  ASSUME TextInv, SwitchInv', NEW r \in Reqs, Closed(r), unreplayed' = unreplayed,
         \/ \E l \in {"error", "gone"} : Released(r, l)
         \/ pc' = [pc EXCEPT ![r] = "error"] \/ pc' = [pc EXCEPT ![r] = "gone"]
  PROVE  TextInv'
<1>1. /\ pc'[r] \in {"error", "gone"}
      /\ \A q \in Reqs \ {r} : pc'[q] = pc[q] \/ (pc[q] = "idle" /\ pc'[q] = "woken")
  BY TaskKinds DEF Released, TextInv, SwitchInv, Shapes
<1>2. Tokens'
  BY TokensClosed
<1>3. \A q \in Reqs : Spoken(q)'
  BY <1>1, SpokenClosed, SpokenOther
<1> QED
  BY <1>2, <1>3 DEF TextInv

LEMMA TextToken ==
  ASSUME TextInv, SwitchInv', NEW r \in Reqs, Token(r)
  PROVE  TextInv'
<1> DEFINE x == resumes[r] + 1
           done == Append(Told(r), x)
<1>1. /\ pc[r] = "relay" /\ out' = [out EXCEPT ![r] = done]
      /\ \E how : end' = [end EXCEPT ![r] = how]
      /\ UNCHANGED <<base, text, read, resumes, pc, unreplayed>>
  BY DEF Token, Works, Told, client, history
<1>2. x \in Nat /\ Told(r) \in Seq(Nat)
  BY ToldSeq DEF TextInv, Tokens
<1>3. done \in Seq(Nat) /\ done # <<>> /\ Len(done) = Len(Told(r)) + 1 /\ Len(Told(r)) \in Nat
  BY <1>2, AppendProperties, LenProperties
<1> HIDE DEF done
<1>4. Tokens'
  BY <1>1, <1>3 DEF TextInv, Tokens
<1>5. ASSUME NEW q \in Reqs, q # r PROVE Spoken(q)'
  <2>1. Told(q)' = Told(q) /\ out'[q] = out[q] /\ end'[q] = end[q] /\ (Lost(q)' <=> Lost(q))
    BY <1>1, <1>5 DEF Told, Lost, TextInv, Tokens
  <2> QED
    BY <1>1, <2>1 DEF TextInv, Spoken
<1>6. Spoken(r)'
  <2>1. out'[r] = done /\ Told(r)' = done /\ (Lost(r)' <=> Lost(r))
    BY <1>1, <1>3 DEF Told, Lost, TextInv, Tokens
  <2>2. ~Lost(r) => IsPrefix(text[r], done)
    BY <1>2, PrefixAppend DEF done, TextInv, Tokens, Spoken
  <2>3. Len(out[r]) <= Len(done)
    <3>1. CASE out[r] = <<>>
      BY <1>3, <3>1, EmptySeq
    <3>2. CASE out[r] # <<>>
      BY <1>3, <3>2, LenProperties DEF Told
    <3> QED
      BY <3>1, <3>2
  <2>4. read[r] <= Len(done)
    <3>1. read[r] \in Nat /\ Len(out[r]) \in Nat /\ read[r] <= Len(out[r]) /\ Len(done) \in Nat
      BY <1>3, LenProperties DEF TextInv, Tokens, Spoken
    <3> QED
      BY <2>3, <3>1
  <2> QED
    BY <1>1, <1>3, <2>1, <2>2, <2>4 DEF TextInv, Spoken
<1> QED
  BY <1>4, <1>5, <1>6 DEF TextInv

LEMMA TextRead ==
  ASSUME TextInv, SwitchInv', NEW r \in Reqs, Read(r)
  PROVE  TextInv'
<1>1. PICK n \in (read[r] + 1)..Len(out[r]) :
        read' = [read EXCEPT ![r] = n] /\ text' = [text EXCEPT ![r] = @ \o Skip(r, n)]
  BY DEF Read
<1>2. pc[r] = "relay" /\ UNCHANGED <<base, out, end, resumes, pc, unreplayed>>
  BY DEF Read, upstream, history
<1>3. /\ out[r] \in Seq(Nat) /\ text[r] \in Seq(Nat) /\ read[r] \in Nat /\ Len(out[r]) \in Nat
      /\ Len(text[r]) \in Nat
  BY LenProperties DEF TextInv, Tokens
<1>4. n \in Nat /\ n <= Len(out[r]) /\ n > 0
  BY <1>3
<1>5. out[r] # <<>>
  BY <1>4, EmptySeq
<1> DEFINE u == text[r] \o Skip(r, n)
<1>6. u \in Seq(Nat)
  <2>1. Skip(r, n) \in Seq(Nat)
    <3>1. Max({read[r], Len(text[r])}) \in Nat
      <4>1. read[r] \in Int /\ Len(text[r]) \in Int
        BY <1>3
      <4>2. CASE read[r] <= Len(text[r])
        BY <1>3, <4>1, <4>2, MaxTwo, Zenon
      <4>3. CASE Len(text[r]) <= read[r]
        <5>1. Max({Len(text[r]), read[r]}) = read[r]
          BY <4>1, <4>3, MaxTwo, Zenon
        <5>2. {Len(text[r]), read[r]} = {read[r], Len(text[r])}
          OBVIOUS
        <5> QED
          BY <1>3, <5>1, <5>2, Zenon
      <4> QED
        BY <1>3, <4>2, <4>3
    <3>2. \A i \in (Max({read[r], Len(text[r])}) + 1)..n : out[r][i] \in Nat
      BY <1>3, <1>4, <3>1, ElementOfSeq
    <3>3. Max({read[r], Len(text[r])}) + 1 \in Int /\ n \in Int
      BY <1>4, <3>1
    <3> QED
      BY <3>2, <3>3, SubSeqProperties, Zenon DEF Skip
  <2> QED
    BY <1>3, <2>1, ConcatProperties
<1>7. ~Lost(r) => IsPrefix(u, out[r]) /\ n <= Len(u)
  <2> SUFFICES ASSUME ~Lost(r) PROVE IsPrefix(u, out[r]) /\ n <= Len(u)
    OBVIOUS
  <2>1. IsPrefix(text[r], out[r]) /\ read[r] <= Len(text[r])
    BY <1>5 DEF TextInv, Spoken, Told
  <2> QED
    BY <1>3, <1>4, <2>1, SkipReads DEF Skip
<1> HIDE DEF u
<1>8. read'[r] = n /\ text'[r] = u /\ Told(r)' = out[r] /\ (Lost(r)' <=> Lost(r))
  BY <1>1, <1>2, <1>5 DEF u, TextInv, Tokens, Told, Lost
<1>9. Spoken(r)'
  BY <1>2, <1>4, <1>5, <1>7, <1>8 DEF Spoken
<1>10. ASSUME NEW q \in Reqs, q # r PROVE Spoken(q)'
  <2>1. Told(q)' = Told(q) /\ read'[q] = read[q] /\ text'[q] = text[q] /\ (Lost(q)' <=> Lost(q))
    BY <1>1, <1>2, <1>10 DEF Told, Lost, TextInv, Tokens
  <2> QED
    BY <1>2, <2>1 DEF TextInv, Spoken
<1>11. Tokens'
  BY <1>1, <1>2, <1>4, <1>6 DEF u, TextInv, Tokens
<1> QED
  BY <1>9, <1>10, <1>11 DEF TextInv

LEMMA TextFinished ==
  ASSUME TextInv, SwitchInv', NEW r \in Reqs, Finished(r)
  PROVE  TextInv'
<1>1. /\ pc[r] = "relay" /\ end[r] = "done" /\ (r \in Streams => read[r] = Len(out[r]))
      /\ text' = (IF r \in Streams THEN text ELSE [text EXCEPT ![r] = out[r]])
      /\ Released(r, "ok") /\ UNCHANGED <<base, out, end, resumes, read, unreplayed>>
  BY DEF Finished, history
<1>2. pc'[r] = "ok" /\ \A q \in Reqs \ {r} : pc'[q] = pc[q] \/ (pc[q] = "idle" /\ pc'[q] = "woken")
  BY <1>1, TaskKinds DEF Released
<1>3. Tokens'
  BY <1>1 DEF TextInv, Tokens
<1>4. Spoken(r)'
  <2>1. /\ out[r] \in Seq(Nat) /\ text[r] \in Seq(Nat) /\ Len(out[r]) \in Nat /\ Len(text[r]) \in Nat
        /\ out[r] # <<>> /\ read[r] <= Len(out[r]) /\ read[r] \in Nat
    BY <1>1, LenProperties DEF TextInv, Tokens, Spoken
  <2>2. Told(r)' = out[r] /\ Told(r) = out[r]
    BY <1>1, <2>1 DEF Told
  <2>3. Lost(r)' <=> Lost(r)
    BY <1>1, <1>2 DEF Lost
  <2>4. ~Lost(r) => text'[r] = out[r]
    <3>1. CASE r \in Streams
      BY <1>1, <2>1, <2>2, <3>1, PrefixWhole DEF TextInv, Spoken
    <3>2. CASE r \notin Streams
      BY <1>1, <3>2 DEF TextInv, Tokens
    <3> QED
      BY <3>1, <3>2
  <2>5. IsPrefix(out[r], out[r])
    BY <2>1, PrefixPoints
  <2> QED
    BY <1>1, <2>1, <2>2, <2>3, <2>4, <2>5 DEF Spoken
<1>5. ASSUME NEW q \in Reqs, q # r PROVE Spoken(q)'
  <2>1. Told(q)' = Told(q) /\ text'[q] = text[q] /\ (Lost(q)' <=> Lost(q)) /\ (pc'[q] = "ok" => pc[q] = "ok")
    BY <1>1, <1>2, <1>5 DEF Told, Lost, TextInv, Tokens
  <2> QED
    BY <1>1, <2>1 DEF TextInv, Spoken
<1> QED
  BY <1>3, <1>4, <1>5 DEF TextInv

LEMMA TextResume ==
  ASSUME TextInv, SwitchInv', NEW r \in Reqs, Resume(r)
  PROVE  TextInv'
<1>1. /\ pc[r] = "marked" /\ pc' = [pc EXCEPT ![r] = "probe"] /\ UNCHANGED text
      /\ resumes' = [resumes EXCEPT ![r] = @ + 1] /\ read' = [read EXCEPT ![r] = 0]
      /\ base' = [base EXCEPT ![r] = out[r]] /\ out' = [out EXCEPT ![r] = <<>>]
      /\ end' = [end EXCEPT ![r] = None]
      /\ unreplayed' = IF out[r] = <<>> /\ base[r] # <<>> THEN unreplayed \cup {r} ELSE unreplayed
  BY DEF Resume
<1>2. Tokens'
  BY <1>1, EmptySeq DEF TextInv, Tokens
<1>3. pc'[r] = "probe" /\ \A q \in Reqs \ {r} : pc'[q] = pc[q]
  BY <1>1, TaskKinds DEF TextInv, SwitchInv, Shapes
<1>4. Spoken(r)'
  <2>1. read'[r] = 0 /\ out'[r] = <<>> /\ end'[r] = None /\ Len(<<>>) = 0 /\ None # "done"
        /\ base'[r] = out[r]
    BY <1>1, EmptySeq, FailoverAssumption DEF TextInv, Tokens
  <2>2. Told(r)' = out[r]
    BY <2>1 DEF Told
  <2>3. ~Lost(r)' => ~Lost(r) /\ Told(r) = out[r]
    BY <1>1, <1>3 DEF Lost, Told
  <2>4. Len(text[r]) \in Nat
    BY LenProperties DEF TextInv, Tokens
  <2> QED
    BY <1>1, <1>3, <2>1, <2>2, <2>3, <2>4 DEF TextInv, Spoken
<1>5. ASSUME NEW q \in Reqs, q # r PROVE Spoken(q)'
  <2>1. /\ Told(q)' = Told(q) /\ read'[q] = read[q] /\ out'[q] = out[q] /\ end'[q] = end[q]
        /\ (Lost(q)' <=> Lost(q))
    BY <1>1, <1>3, <1>5 DEF Told, Lost, TextInv, Tokens
  <2> QED
    BY <1>1, <1>3, <1>5, <2>1 DEF TextInv, Spoken
<1> QED
  BY <1>2, <1>4, <1>5 DEF TextInv

(* Everything else leaves the tokens alone; an attempt that ends in it     *)
(* does not end well.                                                      *)
LEMMA TextQuiet ==
  ASSUME TextInv, SwitchInv', UNCHANGED <<base, out, text, read, resumes, unreplayed>>,
         DOMAIN end' = Reqs, \A r \in Reqs : end'[r] = "done" => end[r] = "done",
         \A r \in Reqs : \/ pc'[r] = pc[r]
                         \/ pc[r] \notin {"ok", "error", "gone"} /\ pc'[r] # "ok"
  PROVE  TextInv'
<1>1. Tokens'
  BY DEF TextInv, Tokens
<1>2. \A r \in Reqs : Spoken(r)'
  BY SpokenStill DEF Lost
<1> QED
  BY <1>1, <1>2 DEF TextInv

LEMMA TextInvStep == TextInv /\ [Next]_vars => TextInv'
<1> SUFFICES ASSUME TextInv, [Next]_vars PROVE TextInv'
  OBVIOUS
<1>0. SwitchInv'
  BY SwitchInvStep DEF TextInv
<1> DEFINE Kind == /\ UNCHANGED <<base, out, text, read, resumes, unreplayed>>
                   /\ DOMAIN end' = Reqs /\ \A r \in Reqs : end'[r] = "done" => end[r] = "done"
           Walk == \A r \in Reqs : \/ pc'[r] = pc[r]
                                   \/ pc[r] \notin {"ok", "error", "gone"} /\ pc'[r] # "ok"
           Shut(r) == /\ Closed(r) /\ unreplayed' = unreplayed
                      /\ \/ \E l \in {"error", "gone"} : Released(r, l)
                         \/ pc' = [pc EXCEPT ![r] = "error"] \/ pc' = [pc EXCEPT ![r] = "gone"]
<1>1. ASSUME NEW t \in Tasks, Step(t) PROVE TextInv'
  <2>1. UNCHANGED <<base, out, end, client, unreplayed>>
    BY <1>1 DEF Step, Ensure, Locked, Woken, Start, Ready, StartFails, CannotStart, upstream, history, Fault
  <2>2. Kind
    BY <2>1 DEF client, TextInv, Tokens
  <2>3. \/ pc' = pc
        \/ /\ pc[t] \in {"probe", "lock", "woken", "stop", "start"}
           /\ \E l : l # "ok" /\ pc' = [pc EXCEPT ![t] = l]
    <3>1. Through(t) => \E l : l # "ok" /\ pc' = [pc EXCEPT ![t] = l]
      BY DEF Through
    <3>2. \A m : Stop(t, m) => \E l : l # "ok" /\ pc' = [pc EXCEPT ![t] = l]
      BY DEF Stop
    <3>3. \A v : Hold(t, v) \/ Switch(t, v) => \E l : l # "ok" /\ pc' = [pc EXCEPT ![t] = l]
      BY <3>1, <3>2 DEF Hold, Switch
    <3> QED
      BY <1>1, <3>1, <3>2, <3>3 DEF Step, Ensure, Locked, Woken, Start, Ready, StartFails, CannotStart
  <2>4. Walk
    BY <2>3, TaskKinds DEF TextInv, SwitchInv, Shapes
  <2> QED
    BY <1>0, <2>2, <2>4, TextQuiet
<1>2. CASE \/ BoxChanges \/ Probe \/ TimePasses \/ Restart \/ UNCHANGED vars
           \/ \E c \in Kids : Child(c) \/ Dies(c) \/ EngineFails(c)
           \/ \E r \in Reqs : Admit(r) \/ OpenFails(r)
  <2>1. UNCHANGED <<base, out, client, unreplayed>>
    BY <1>2 DEF BoxChanges, Probe, TimePasses, Restart, Child, Dies, EngineFails, Admit, OpenFails, Loaded, Ends,
       BoxLost, Gone, Fault, upstream, history, vars
  <2>2. DOMAIN end' = Reqs /\ \A r \in Reqs : end'[r] = "done" => end[r] = "done"
    <3>1. CASE end' = end
      BY <3>1 DEF TextInv, Tokens
    <3>2. CASE \E r \in Reqs : end' = [end EXCEPT ![r] = "marker"]
      BY <3>2 DEF TextInv, Tokens
    <3>3. CASE \E c \in Kids, how \in {"broken", "marker", "error"} : FailRequests(c, how)
      BY <3>3 DEF TextInv, Tokens, FailRequests
    <3> QED
      BY <1>2, <3>1, <3>2, <3>3 DEF BoxChanges, Probe, TimePasses, Restart, Child, Dies, EngineFails, Admit,
         OpenFails, Loaded, Ends, BoxLost, Gone, FailRequests, upstream, vars
  <2>3. \/ pc' = pc
        \/ pc' = [pc EXCEPT ![Keeper] = "probe"]
        \/ \E r \in Reqs, l \in {"probe", "error"} : pc[r] = "new" /\ pc' = [pc EXCEPT ![r] = l]
    BY <1>2 DEF BoxChanges, Probe, TimePasses, Restart, Child, Dies, EngineFails, Admit, OpenFails, Loaded, Ends,
       BoxLost, Gone, vars
  <2>4. Walk
    BY <2>3, TaskKinds DEF TextInv, SwitchInv, Shapes
  <2> QED
    BY <1>0, <2>1, <2>2, <2>4, TextQuiet DEF client
<1>3. ASSUME NEW r \in Reqs, Token(r) \/ Read(r) \/ Finished(r) \/ Resume(r)
      PROVE  TextInv'
  BY <1>0, <1>3, TextToken, TextRead, TextFinished, TextResume
<1>4. ASSUME NEW r \in Reqs, Connect(r) \/ Marked(r)
      PROVE  Shut(r) \/ TextInv'
  <2>1. CASE Shut(r)
    BY <2>1
  <2>2. CASE /\ UNCHANGED <<base, out, end, client, history>> /\ pc[r] \in {"send", "relay"}
             /\ \E l \in {"relay", "marked"} : pc' = [pc EXCEPT ![r] = l] \/ Released(r, l)
    <3>1. Kind
      BY <2>2 DEF client, history, TextInv, Tokens
    <3>2. Walk
      BY <2>2, TaskKinds DEF Released, TextInv, SwitchInv, Shapes
    <3> QED
      BY <1>0, <3>1, <3>2, TextQuiet
  <2> QED
    BY <1>4, <2>1, <2>2 DEF Connect, Marked, upstream, history
<1>5. ASSUME NEW r \in Reqs, Broken(r) \/ NoResume(r) \/ Leave(r)
      PROVE  Shut(r)
  BY <1>5 DEF Broken, NoResume, Leave, history, Fault
<1>6. ASSUME NEW r \in Reqs, Shut(r) PROVE TextInv'
  BY <1>0, <1>6, TextClosed
<1> HIDE DEF Shut
<1> QED
  BY <1>1, <1>2, <1>3, <1>4, <1>5, <1>6 DEF Next, Request

(* "the same text, no duplicate": in every reachable state, for any number *)
(* of requests, children, losses, resumes and tokens.                      *)
THEOREM FailoverSameText == Spec => []SameText
<1>1. Init => TextInv
  <2> SUFFICES ASSUME Init PROVE TextInv
    OBVIOUS
  <2>1. <<>> \in Seq(Nat) /\ Len(<<>>) = 0 /\ IsPrefix(<<>>, <<>>) /\ None # "done"
    BY EmptySeq, PrefixEmpty, FailoverAssumption
  <2>2. Tokens
    BY <2>1 DEF Init, Tokens
  <2>3. \A r \in Reqs : Spoken(r)
    BY <2>1, TaskKinds DEF Init, Spoken, Told, Lost
  <2> QED
    BY <2>2, <2>3, SwitchInvInit DEF TextInv
<1>2. TextInv => SameText
  BY DEF TextInv, Spoken, Lost, SameText
<1> QED
  BY <1>1, <1>2, TextInvStep, PTL DEF Spec

=============================================================================
