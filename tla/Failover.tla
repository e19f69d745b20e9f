------------------------------ MODULE Failover ------------------------------
(***************************************************************************)
(* The supervisor in front of the Mac worker, and how it continues a       *)
(* response whose box was lost: og_serve/ds41_og.py, og_serve/og_resume.py *)
(* and patches/deepseek_v41/og_failover.py.                                *)
(*                                                                         *)
(* One GPU child at a time serves the requests: og, which needs the box,   *)
(* or (when DS41_OG_Q3 is on) q3.  A child is switched under a lock, when  *)
(* no upstream is in flight.  When the box is lost og fails its requests   *)
(* with the tokens generated so far; the supervisor sends the request      *)
(* again, the next child replays those tokens and then goes on, and the    *)
(* client gets what it has not had.                                        *)
(*                                                                         *)
(* The supervisor is one asyncio thread: an action runs from one await to  *)
(* the next.  A token is the number of the attempt that sampled it: two    *)
(* attempts never agree by accident.  Clocks are arbitrary.  Left out:     *)
(* images, keepalives, tool calls, the other endpoints.                    *)
(***************************************************************************)
EXTENDS Integers, FiniteSets, SequencesExt

CONSTANTS Reqs, Keeper, None,  (* requests; the boot and restart task         *)
          Streams,             (* the requests with stream=true               *)
          Q3Settings,          (* DS41_OG_Q3: on (TRUE), off or either        *)
          MaxResumes,          (* MAX_RESUMES                                 *)
          MaxTokens,           (* bound: tokens of a response                 *)
          MaxKids,             (* bound: children alive or still referred to  *)
          MaxLosses,           (* bound: times the box goes away              *)
          MaxFaults            (* bound: deaths, errors, clients that leave   *)

Kids == 1..MaxKids
Tasks == Reqs \cup {Keeper}
Ended == {"ok", "error", "gone"}

ASSUME FailoverAssumption ==
  /\ Keeper \notin Reqs /\ Streams \subseteq Reqs
  /\ None \notin Kids /\ None \notin Tasks
  /\ None \notin {"og", "q3", "done", "broken", "error", "marker"}
  /\ Q3Settings \subseteq BOOLEAN /\ MaxResumes \in Nat
  /\ MaxTokens \in Nat \ {0} /\ MaxKids \in Nat \ {0} /\ MaxLosses \in Nat /\ MaxFaults \in Nat

VARIABLES
  q3, box,                      \* the setting; the box: up, refused or down
  view, lost,                   \* box_since and refused_since by age; lost_at is set
  kids, proc, mode, ready,      \* the children; self.proc, self.mode, self.ready
  fresh,                        \* children that have lost the box
  lock, target, victim,         \* the switch lock; child wanted, child being stopped
  pc, watch, inflight,          \* where each task is; inside watched(); self.inflight
  up, resumes,                  \* a request's child, its resumes
  base, out, end,               \* in the child: tokens to replay, output_token_ids, how it ended
  read, text,                   \* tokens read of this attempt; what the client has
  losses, faults,               \* so far
  unreplayed, cut               \* requests lost again before their replay; a switch was cancelled

boxVars == <<box, view, lost>>
kidVars == <<kids, proc, mode, ready, fresh>>
lockVars == <<lock, target, victim>>
upstream == <<up, base, out, end>>
client == <<resumes, read, text>>
history == <<losses, faults, unreplayed, cut>>
vars == <<q3, boxVars, kidVars, lockVars, pc, watch, inflight, upstream, client, history>>

Init ==
  /\ q3 \in Q3Settings /\ box = "up"
  /\ view = [up |-> "no", refused |-> "no"] /\ lost = FALSE
  /\ kids = [c \in Kids |-> [mode |-> "og", state |-> "dead"]]
  /\ proc = None /\ mode = None /\ ready = FALSE /\ fresh = {}
  /\ lock = None /\ target = None /\ victim = None
  /\ pc = [t \in Tasks |-> IF t = Keeper THEN "probe" ELSE "new"]
  /\ watch = [r \in Reqs |-> FALSE] /\ inflight = 0
  /\ up = [r \in Reqs |-> None] /\ resumes = [r \in Reqs |-> 0]
  /\ base = [r \in Reqs |-> <<>>] /\ out = [r \in Reqs |-> <<>>] /\ end = [r \in Reqs |-> None]
  /\ read = [r \in Reqs |-> 0] /\ text = [r \in Reqs |-> <<>>]
  /\ losses = 0 /\ faults = 0 /\ unreplayed = {} /\ cut = FALSE

Fault == faults < MaxFaults /\ faults' = faults + 1 /\ UNCHANGED <<losses, unreplayed>>
Open(c) == {r \in Reqs : up[r] = c /\ end[r] = None}

-----------------------------------------------------------------------------
(* The box and the supervisor's view of it.                                *)

BoxChanges ==
  /\ \/ box # "up" /\ box' = "up" /\ UNCHANGED history
     \/ box = "up" /\ box' \in {"refused", "down"}
        /\ losses < MaxLosses /\ losses' = losses + 1 /\ UNCHANGED <<faults, unreplayed, cut>>
  /\ UNCHANGED <<q3, view, lost, kidVars, lockVars, pc, watch, inflight, upstream, client>>

(* probe: each of the two clocks starts with the state it is about.        *)
Since(clock, state) == IF box # state THEN "no" ELSE IF clock = "no" THEN "recent" ELSE clock
Seen == [up |-> Since(view.up, "up"), refused |-> Since(view.refused, "refused")]

Probe ==
  /\ view # Seen /\ view' = Seen
  /\ UNCHANGED <<q3, box, lost, kidVars, lockVars, pc, watch, inflight, upstream, client, history>>

(* RECOVER_S or RESTART_WAIT_S have passed.                                *)
TimePasses ==
  /\ \/ box = "up" /\ view.up = "recent" /\ lost /\ view' = [view EXCEPT !.up = "long"]
     \/ box = "refused" /\ view.refused = "recent" /\ view' = [view EXCEPT !.refused = "long"]
  /\ fresh' = {}
  /\ UNCHANGED <<q3, box, lost, kids, proc, mode, ready, lockVars, pc, watch, inflight, upstream, client, history>>

(* box_ok, which trusts a lost box again when it has answered long enough. *)
StillLost(v) == lost /\ ~(q3 /\ v.up = "long")
BoxOk(v) == v.up # "no" /\ (q3 => ~StillLost(v))
BoxRestarting(v) == v.refused = "recent"

-----------------------------------------------------------------------------
(* ensure: the child the next request needs, None when the current one can *)
(* serve it.                                                               *)

Alive == proc # None /\ kids[proc].state # "dead"

Want(v) ==
  IF ~q3 THEN IF Alive /\ mode = "og" /\ ready THEN None ELSE "og"
  ELSE IF \/ Alive /\ mode = "og" /\ (BoxOk(v) \/ (BoxRestarting(v) /\ ~StillLost(v)))
          \/ Alive /\ mode = "q3" /\ (~BoxOk(v) \/ inflight > 0)
       THEN None
  ELSE IF BoxOk(v) THEN "og" ELSE "q3"

Look(v) == view' = v /\ lost' = (IF q3 THEN StillLost(v) ELSE lost)

(* forward: without q3 a request is refused while the box is away.  With   *)
(* it, requests come when /health has seen the first child up.             *)
Admit(r) ==
  /\ pc[r] = "new" /\ (q3 => pc[Keeper] = "new") /\ view' = IF q3 THEN view ELSE Seen
  /\ pc' = [pc EXCEPT ![r] = IF q3 \/ BoxOk(Seen) \/ BoxRestarting(Seen) THEN "probe" ELSE "error"]
  /\ UNCHANGED <<q3, box, lost, kidVars, lockVars, watch, inflight, upstream, client, history>>

(* ensure has returned: the restart task is done, complete() goes on to    *)
(* its watched open, any other request is sent.                            *)
Through(t) ==
  /\ lock' = IF lock = t THEN None ELSE lock
  /\ IF t = Keeper THEN pc' = [pc EXCEPT ![t] = "new"] /\ UNCHANGED <<watch, inflight, up>>
     ELSE IF t \notin Streams /\ ~watch[t]
       THEN pc' = [pc EXCEPT ![t] = "probe"] /\ watch' = [watch EXCEPT ![t] = TRUE] /\ UNCHANGED <<inflight, up>>
       ELSE /\ pc' = [pc EXCEPT ![t] = "send"] /\ inflight' = inflight + 1
            /\ up' = [up EXCEPT ![t] = proc] /\ UNCHANGED watch
  /\ UNCHANGED <<kids, proc, mode, fresh, target, victim>>

(* stop: the child is told to end; it may still have upstreams to serve.   *)
Stop(t, m) ==
  /\ target' = m /\ victim' = proc
  /\ kids' = IF Alive THEN [kids EXCEPT ![proc].state = "draining"] ELSE kids
  /\ proc' = None /\ mode' = None /\ ready' = FALSE
  /\ pc' = [pc EXCEPT ![t] = "stop"]
  /\ UNCHANGED <<fresh, watch, inflight, up>>

(* After idle.wait(), under the lock.                                      *)
Switch(t, v) ==
  LET m == IF Want(v) = None THEN mode ELSE Want(v) IN
    IF mode = m /\ Alive THEN Through(t) /\ UNCHANGED ready ELSE lock' = t /\ Stop(t, m)

(* Variant: the child is switched at once.                                 *)
HoldNot(t, v) == Switch(t, v)

(* Under the lock: wait until no upstream is in flight.                    *)
Hold(t, v) ==
  IF inflight = 0 THEN Switch(t, v)
  ELSE /\ lock' = t /\ pc' = [pc EXCEPT ![t] = "idle"]
       /\ UNCHANGED <<kidVars, target, victim, watch, inflight, up>>

Ensure(t) ==
  /\ pc[t] = "probe" /\ Look(Seen)
  /\ \/ Want(Seen) = None /\ Through(t) /\ UNCHANGED ready
     \/ Want(Seen) # None /\ lock = None /\ Hold(t, Seen)
     \/ /\ Want(Seen) # None /\ lock # None /\ pc' = [pc EXCEPT ![t] = "lock"]
        /\ UNCHANGED <<kidVars, lockVars, watch, inflight, up>>
  /\ UNCHANGED <<q3, box, base, out, end, client, history>>

Locked(t) ==
  /\ pc[t] = "lock" /\ lock = None /\ Look(view)
  /\ IF Want(view) = None THEN Through(t) /\ UNCHANGED ready ELSE Hold(t, view)
  /\ UNCHANGED <<q3, box, base, out, end, client, history>>

Woken(t) ==
  /\ pc[t] = "woken" /\ Look(view) /\ Switch(t, view)
  /\ UNCHANGED <<q3, box, base, out, end, client, history>>

Free == {c \in Kids : kids[c].state = "dead" /\ c # proc /\ c # victim /\ \A r \in Reqs : up[r] # c}

(* Variant: without waiting for the old child's end.                       *)
StartAtOnce(t) ==
  /\ pc[t] = "stop"
  /\ \E c \in Free :
       /\ \A d \in Free : c <= d
       /\ kids' = [kids EXCEPT ![c] = [mode |-> target, state |-> "loading"]]
       /\ proc' = c
  /\ mode' = target /\ target' = None /\ victim' = None /\ pc' = [pc EXCEPT ![t] = "start"]
  /\ UNCHANGED <<q3, boxVars, ready, fresh, lock, watch, inflight, upstream, client, history>>

(* start: when the child it replaces has ended (MaxKids bounds the rest).  *)
Start(t) ==
  /\ pc[t] = "stop" /\ (victim # None => kids[victim].state = "dead")
  /\ \E c \in Free :
       /\ \A d \in Free : c <= d
       /\ kids' = [kids EXCEPT ![c] = [mode |-> target, state |-> "loading"]]
       /\ proc' = c
  /\ mode' = target /\ target' = None /\ victim' = None /\ pc' = [pc EXCEPT ![t] = "start"]
  /\ UNCHANGED <<q3, boxVars, ready, fresh, lock, watch, inflight, upstream, client, history>>

Ready(t) ==
  /\ pc[t] = "start" /\ kids[proc].state = "up" /\ ready' = TRUE
  /\ Through(t)
  /\ UNCHANGED <<q3, boxVars, base, out, end, client, history>>

(* The child ended while loading, or READY_S passed: with q3 on, q3 is     *)
(* started instead of og; otherwise the task fails.                        *)
StartFails(t) ==
  /\ pc[t] = "start"
  /\ \/ kids[proc].state = "dead" /\ UNCHANGED history
     \/ kids[proc].state = "loading" /\ Fault /\ UNCHANGED cut
  /\ IF mode = "og" /\ q3
     THEN Stop(t, "q3") /\ lost' = TRUE /\ view' = [view EXCEPT !.up = "no"] /\ UNCHANGED lock
     ELSE /\ pc' = [pc EXCEPT ![t] = IF t = Keeper THEN "new" ELSE "error"] /\ lock' = None
          /\ UNCHANGED <<view, lost, kidVars, target, victim, watch, inflight, up>>
  /\ UNCHANGED <<q3, box, base, out, end, client>>

(* start raises before there is a child: the same, with none to stop.      *)
CannotStart(t) ==
  /\ pc[t] = "stop" /\ (victim # None => kids[victim].state = "dead")
  /\ Fault /\ UNCHANGED cut /\ victim' = None
  /\ IF target = "og" /\ q3
     THEN target' = "q3" /\ lost' = TRUE /\ view' = [view EXCEPT !.up = "no"] /\ UNCHANGED <<lock, pc>>
     ELSE /\ pc' = [pc EXCEPT ![t] = IF t = Keeper THEN "new" ELSE "error"] /\ lock' = None /\ target' = None
          /\ UNCHANGED <<view, lost>>
  /\ UNCHANGED <<q3, box, kidVars, watch, inflight, upstream, client>>

(* check_worker: without q3 a worker that died is started again.           *)
Restart ==
  /\ pc[Keeper] = "new" /\ ~q3 /\ proc # None /\ mode = "og" /\ ~Alive /\ lock = None /\ BoxOk(view)
  /\ pc' = [pc EXCEPT ![Keeper] = "probe"]
  /\ UNCHANGED <<q3, boxVars, kidVars, lockVars, watch, inflight, upstream, client, history>>

-----------------------------------------------------------------------------
(* The children.                                                           *)

Loaded(c) ==
  /\ kids[c].state = "loading" /\ (kids[c].mode = "og" => box = "up")
  /\ kids' = [kids EXCEPT ![c].state = "up"]
  /\ UNCHANGED <<q3, boxVars, proc, mode, ready, fresh, lockVars, pc, watch, inflight, upstream, client, history>>

(* A child that ends breaks the upstreams it still has.                    *)
Gone(c) ==
  /\ kids' = [kids EXCEPT ![c] = [mode |-> "og", state |-> "dead"]] /\ fresh' = fresh \ {c}
  /\ end' = [r \in Reqs |-> IF r \in Open(c) /\ pc[r] = "relay" THEN "broken" ELSE end[r]]
  /\ UNCHANGED <<q3, boxVars, proc, mode, ready, lockVars, pc, watch, inflight, up, base, out, client>>

(* It was told to, or it could not warm up without the box.                *)
Ends(c) ==
  /\ kids[c].state = "draining" \/ (kids[c].state = "loading" /\ kids[c].mode = "og" /\ box # "up")
  /\ Gone(c) /\ UNCHANGED history

Dies(c) == kids[c].state \in {"loading", "up"} /\ Fault /\ UNCHANGED cut /\ Gone(c)

Works(r) ==
  /\ pc[r] = "relay" /\ end[r] = None
  /\ kids[up[r]].mode = "og" => box = "up"

(* The first response of a resumed request comes with the replay; the last *)
(* token ends the request, and a stop may end it before.                   *)
Token(r) ==
  /\ Works(r)
  /\ LET done == Append(IF out[r] = <<>> THEN base[r] ELSE out[r], resumes[r] + 1) IN
       /\ out' = [out EXCEPT ![r] = done]
       /\ \E how \in {"done"} \cup (IF Len(done) < MaxTokens THEN {None} ELSE {}) :
            end' = [end EXCEPT ![r] = how]
  /\ UNCHANGED <<q3, boxVars, kidVars, lockVars, pc, watch, inflight, up, base, client, history>>

(* fail_all_requests: with a marker if the box was lost within the last    *)
(* ten seconds, which any earlier loss may be, else with a plain error.    *)
FailRequests(c, how) == end' = [r \in Reqs |-> IF r \in Open(c) /\ pc[r] = "relay" THEN how ELSE end[r]]

BoxLost(c) ==
  /\ kids[c].mode = "og" /\ kids[c].state \in {"up", "draining"} /\ box # "up"
  /\ \E r \in Open(c) : pc[r] = "relay"
  /\ FailRequests(c, "marker") /\ fresh' = fresh \cup {c}
  /\ UNCHANGED <<q3, boxVars, kids, proc, mode, ready, lockVars, pc, watch, inflight, up, base, out, client, history>>

EngineFails(c) ==
  /\ kids[c].state \in {"up", "draining"} /\ Fault /\ UNCHANGED cut
  /\ \E how \in {"error"} \cup (IF c \in fresh THEN {"marker"} ELSE {}) : FailRequests(c, how)
  /\ UNCHANGED <<q3, boxVars, kidVars, lockVars, pc, watch, inflight, up, base, out, client>>

(* The OPEN fails after its own wait: this request only, without tokens.   *)
OpenFails(r) ==
  /\ pc[r] = "relay" /\ end[r] = None /\ kids[up[r]].mode = "og" /\ box # "up" /\ out[r] = <<>>
  /\ end' = [end EXCEPT ![r] = "marker"]
  /\ UNCHANGED <<q3, boxVars, kidVars, lockVars, pc, watch, inflight, up, base, out, client, history>>

-----------------------------------------------------------------------------
(* A request's upstream.                                                   *)

(* The upstream of a response that did not end well is forgotten.          *)
Closed(r) ==
  /\ base' = [base EXCEPT ![r] = <<>>] /\ out' = [out EXCEPT ![r] = <<>>] /\ end' = [end EXCEPT ![r] = None]
  /\ read' = [read EXCEPT ![r] = 0] /\ text' = [text EXCEPT ![r] = <<>>]
  /\ UNCHANGED resumes

(* Variant: the idle event is not set.                                     *)
ReleasedSilently(r, place) ==
  /\ inflight' = inflight - 1 /\ up' = [up EXCEPT ![r] = None]
  /\ pc' = [pc EXCEPT ![r] = place]

(* release: the last upstream wakes the task that waits for idle.          *)
Released(r, place) ==
  /\ inflight' = inflight - 1 /\ up' = [up EXCEPT ![r] = None]
  /\ pc' = [t \in Tasks |-> IF t = r THEN place
                            ELSE IF inflight = 1 /\ pc[t] = "idle" THEN "woken" ELSE pc[t]]

(* The child behind the port of the mode the request was sent for, which   *)
(* may have been told to end and still serve what it accepted before; a    *)
(* woken task runs before a round trip that began after it was woken ends. *)
Connect(r) ==
  /\ pc[r] = "send" /\ \A t \in Tasks : pc[t] # "woken"
  /\ \/ /\ kids[up[r]].state \in {"up", "draining"} /\ pc' = [pc EXCEPT ![r] = "relay"]
        /\ UNCHANGED <<inflight, upstream, client>>
     \/ kids[up[r]].state # "up" /\ Released(r, "error") /\ Closed(r)
  /\ UNCHANGED <<q3, boxVars, kidVars, lockVars, watch, history>>

(* Variant: a resumed attempt is relayed like a first one.                 *)
Relay(r, n) == SubSeq(out[r], read[r] + 1, n)

(* Events are skipped up to what the client has, wherever their borders    *)
(* are.                                                                    *)
Skip(r, n) == SubSeq(out[r], Max({read[r], Len(text[r])}) + 1, n)

Read(r) ==
  /\ pc[r] = "relay" /\ r \in Streams
  /\ \E n \in (read[r] + 1)..Len(out[r]) :
       read' = [read EXCEPT ![r] = n] /\ text' = [text EXCEPT ![r] = @ \o Skip(r, n)]
  /\ UNCHANGED <<q3, boxVars, kidVars, lockVars, pc, watch, inflight, upstream, resumes, history>>

Finished(r) ==
  /\ pc[r] = "relay" /\ end[r] = "done" /\ (r \in Streams => read[r] = Len(out[r]))
  /\ text' = IF r \in Streams THEN text ELSE [text EXCEPT ![r] = out[r]]
  /\ Released(r, "ok")
  /\ UNCHANGED <<q3, boxVars, kidVars, lockVars, watch, base, out, end, resumes, read, history>>

Broken(r) ==
  /\ pc[r] = "relay" /\ end[r] \in {"broken", "error"} /\ Released(r, "error") /\ Closed(r)
  /\ UNCHANGED <<q3, boxVars, kidVars, lockVars, watch, history>>

Marked(r) ==
  /\ pc[r] = "relay" /\ end[r] = "marker" /\ Released(r, "marked")
  /\ UNCHANGED <<q3, boxVars, kidVars, lockVars, watch, base, out, end, client, history>>

(* Another attempt with the tokens of this one, or a clean error when the  *)
(* tries or the time are used up.                                          *)
Resume(r) ==
  /\ pc[r] = "marked" /\ q3 /\ resumes[r] < MaxResumes
  /\ lost' = TRUE /\ view' = [view EXCEPT !.up = "no"]
  /\ resumes' = [resumes EXCEPT ![r] = @ + 1] /\ read' = [read EXCEPT ![r] = 0]
  /\ base' = [base EXCEPT ![r] = out[r]] /\ out' = [out EXCEPT ![r] = <<>>]
  /\ end' = [end EXCEPT ![r] = None]
  /\ unreplayed' = IF out[r] = <<>> /\ base[r] # <<>> THEN unreplayed \cup {r} ELSE unreplayed
  /\ pc' = [pc EXCEPT ![r] = "probe"] /\ watch' = [watch EXCEPT ![r] = FALSE]
  /\ UNCHANGED <<q3, box, kidVars, lockVars, inflight, up, text, losses, faults, cut>>

NoResume(r) ==
  /\ pc[r] = "marked" /\ pc' = [pc EXCEPT ![r] = "error"] /\ Closed(r)
  /\ UNCHANGED <<q3, boxVars, kidVars, lockVars, watch, inflight, up, history>>

(* The client leaves: a stream that is relayed ends; complete() cancels    *)
(* what it is watching, a switch of children included.                     *)
Leave(r) ==
  /\ Fault /\ cut' = (cut \/ (watch[r] /\ pc[r] \in {"stop", "start"}))
  /\ \/ r \in Streams /\ pc[r] = "relay" /\ Released(r, "gone") /\ UNCHANGED lock
     \/ /\ watch[r] /\ pc[r] \in {"send", "relay"} /\ Released(r, "gone") /\ UNCHANGED lock
     \/ /\ watch[r] /\ pc[r] \in {"probe", "lock", "idle", "woken", "stop", "start"}
        /\ pc' = [pc EXCEPT ![r] = "gone"] /\ lock' = (IF lock = r THEN None ELSE lock)
        /\ UNCHANGED <<inflight, up>>
  /\ Closed(r)
  /\ UNCHANGED <<q3, boxVars, kidVars, target, victim, watch>>

-----------------------------------------------------------------------------
Step(t) == Ensure(t) \/ Locked(t) \/ Woken(t) \/ Start(t) \/ Ready(t) \/ StartFails(t) \/ CannotStart(t)
Request(r) ==
  Connect(r) \/ Read(r) \/ Finished(r) \/ Broken(r) \/ Marked(r) \/ Resume(r) \/ NoResume(r)
Child(c) == Loaded(c) \/ Ends(c) \/ BoxLost(c)

Next ==
  \/ BoxChanges \/ Probe \/ TimePasses \/ Restart
  \/ \E t \in Tasks : Step(t)
  \/ \E r \in Reqs : Admit(r) \/ Request(r) \/ Token(r) \/ OpenFails(r) \/ Leave(r)
  \/ \E c \in Kids : Child(c) \/ Dies(c) \/ EngineFails(c)

Spec == Init /\ [][Next]_vars

(* Tasks run, a child loads or ends, a draining child ends, a request that *)
(* is being served gets on or fails with its box.                          *)
FairSpec ==
  /\ Spec /\ WF_vars(Probe)
  /\ \A t \in Tasks : WF_vars(Step(t))
  /\ \A r \in Reqs : WF_vars(Request(r)) /\ WF_vars(Token(r))
  /\ \A c \in Kids : WF_vars(Loaded(c)) /\ WF_vars(Ends(c)) /\ WF_vars(BoxLost(c))

-----------------------------------------------------------------------------
Told(r) == IF out[r] = <<>> THEN base[r] ELSE out[r]

(* "the same text, no duplicate": what a client has is always the          *)
(* beginning of the one text its current attempt stands for, and all of it *)
(* when the response ends well, on however many children it was made       *)
(* (except after a loss before the replay).                                *)
SameText ==
  \A r \in Reqs \ unreplayed : pc[r] \notin {"error", "gone"} =>
    IsPrefix(text[r], Told(r)) /\ (pc[r] = "ok" => text[r] = out[r])

(* "A switch waits until no upstream request is in flight": no response    *)
(* that is being relayed loses its child to a switch (a request that is    *)
(* being sent may, if it slipped in after the waiting switch was woken).   *)
SwitchIdle ==
  [][\A c \in Kids : kids[c].state # "draining" /\ kids'[c].state = "draining"
        => \A r \in Reqs : up[r] = c => pc[r] = "send"]_vars

(* "exactly one GPU child at a time", as long as no client left in the     *)
(* middle of a switch it was watching.                                     *)
Living == {c \in Kids : kids[c].state # "dead"}
OneChild == ~cut => Cardinality(Living) <= 1

(* Every request that came in ends: no lock is kept, no wake-up of the     *)
(* switch is lost, no resume goes round for ever.                          *)
EveryResponseEnds == \A r \in Reqs : pc[r] # "new" ~> pc[r] \in Ended

(* "It owns exactly one GPU child at a time", "the two never co-reside".   *)
DocOneChild == Cardinality(Living) <= 1

=============================================================================
