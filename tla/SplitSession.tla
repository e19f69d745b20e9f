---------------------------- MODULE SplitSession ----------------------------
(***************************************************************************)
(* One request's decode over the split: the Mac's EncoderSession           *)
(* (kernels/omlx/.../deepseek_v41/pipe_wire.py) as og_model.py drives it,  *)
(* and the box's side of it: Front.handle_conn, Engine.cmd_step and        *)
(* StepRunner.commit_pending / run.                                        *)
(*                                                                         *)
(* The Mac keeps the committed text and asks the box for the rows of       *)
(* STEP(ids, keep).  It may send a step early and then want another one.   *)
(* A lost session (broken link, timeout, box restart, failed step) is      *)
(* rebuilt on history[:keep] and the step is sent again.                   *)
(* A connection is a slot that is used again once the box is done with it; *)
(* its two queues keep their order.  A STEP's rows stand for the token     *)
(* sequence they were computed on.  The retry clock (RESUME_WAIT_S,        *)
(* BUSY_WAIT_S) may run out at any failed attempt.                         *)
(***************************************************************************)
EXTENDS Integers, SequencesExt

CONSTANTS Tokens,       (* the vocabulary                                       *)
          None,         (* Python's None                                        *)
          Slots,        (* connection slots                                     *)
          First,        (* the slot of the request's first connection           *)
          Prompt,       (* the request's prompt, at least two tokens            *)
          MaxPos,       (* the box's context length                             *)
          MaxDrafts,    (* drafts per step (MAX_STEP_ROWS - 1)                  *)
          ResumeTries,  (* DS41_OG_RESUME_TRIES                                 *)
          MaxAttempts,  (* bound: attempts before the retry clock has run out   *)
          MaxFaults     (* bound: broken links, box restarts, failed steps      *)

ASSUME SessionAssumption ==
  /\ Prompt \in Seq(Tokens) /\ Len(Prompt) >= 2
  /\ First \in Slots
  /\ MaxPos \in Nat /\ MaxDrafts \in Nat /\ ResumeTries \in Nat
  /\ MaxAttempts \in Nat /\ MaxFaults \in Nat
  /\ None \notin Slots /\ None \notin Nat /\ None \notin [keep : Nat, ids : Seq(Tokens)]

VARIABLES
  text, next,        \* the Mac's committed rows, and the token to step next
  mpc, ids,          \* where the Mac's loop is, and the step it wants
  got,               \* the rows of the reply it verifies
  history, length,   \* EncoderSession.history and .length
  pending,           \* EncoderSession._pending: the step in flight, or None
  link,              \* the socket: a slot, or None
  failures, rebuilds, attempts, \* recover's and recv_step_safe's counters, and the clock
  conns,             \* per slot: its state, its queues, and the box's session
  up, faults,
  orphans            \* sessions of the box that no connection will close

enc == <<history, length, pending>>
retry == <<failures, rebuilds, attempts>>
mac == <<text, next, mpc, ids, got, enc, link, retry>>
toll == <<faults, orphans>>
vars == <<mac, conns, up, toll>>

Take(s, n) == SubSeq(s, 1, n)
Open(rows) == [tag |-> "OPEN", rows |-> rows, keep |-> 0]
Step(keep, rows) == [tag |-> "STEP", rows |-> rows, keep |-> keep]
Close == [tag |-> "CLOS", rows |-> <<>>, keep |-> 0]
Reply(tag, rows) == [tag |-> tag, rows |-> rows]

(* A session of the box: the rows it holds, and the base of the last       *)
(* step's rows, which are not committed yet (Session.pending).             *)
NoSession == [rows |-> <<>>, base |-> None, live |-> FALSE]
Session(rows, base) == [rows |-> rows, base |-> base, live |-> TRUE]
Conn(st, in, sess) == [st |-> st, in |-> in, out |-> <<>>, sess |-> sess]

Init ==
  /\ text = Front(Prompt) /\ next = Last(Prompt)
  /\ mpc = "idle" /\ ids = <<>> /\ got = <<>>
  /\ history = Front(Prompt) /\ length = Len(Prompt) - 1 /\ pending = None
  /\ link = First
  /\ failures = 0 /\ rebuilds = 0 /\ attempts = 0
  /\ conns = [c \in Slots |->
                IF c = link THEN Conn("up", <<>>, Session(Front(Prompt), None))
                ELSE Conn("done", <<>>, NoSession)]
  /\ up = TRUE /\ faults = 0 /\ orphans = 0

-----------------------------------------------------------------------------
(* The Mac.                                                                *)

Wanted == {<<next>> \o d : d \in UNION {[1..n -> Tokens] : n \in 0..MaxDrafts}}
Keep == Len(text)

(* The socket is gone: a read or a write of it raises.                     *)
LinkDown == link = None \/ conns[link].st # "up"

Put(cs, c, m) == [cs EXCEPT ![c].in = IF cs[c].st = "up" THEN Append(@, m) ELSE @]

(* send_step: the step is noted and history rewritten before the write,    *)
(* which on a dead link may still seem to succeed.  Its check that keep    *)
(* is at most length never refuses (Rebuildable).                          *)
SendStep(step, hist) ==
  /\ pending' = [keep |-> Keep, ids |-> step]
  /\ history' = Take(hist, Keep) \o step

(* og_model.presend / the kickoff: an early STEP; its failure is ignored.  *)
Presend ==
  /\ mpc = "idle" /\ pending = None
  /\ \E step \in Wanted :
       /\ SendStep(step, history)
       /\ conns' = Put(conns, link, Step(Keep, step))
  /\ UNCHANGED <<text, next, mpc, ids, got, length, link, retry, up, toll>>

(* The loop's forward wants these rows, perhaps others than were present.  *)
Issue ==
  /\ mpc = "idle"
  /\ ids' \in Wanted
  /\ mpc' = "ensure"
  /\ UNCHANGED <<text, next, got, enc, link, retry, conns, up, toll>>

InFlightByKeep == pending # None /\ pending.keep = Keep

InFlight == pending # None /\ pending.keep = Keep /\ pending.ids = ids

(* recv_step_safe starts with no rebuild and no clock.                     *)
Await == mpc' = "await" /\ rebuilds' = 0 /\ attempts' = 0 /\ UNCHANGED failures

(* recover() begins: `since` is set unless a rebuild of the same step has. *)
Recover(n) ==
  /\ mpc' = "drop" /\ failures' = 0
  /\ rebuilds' = n
  /\ attempts' = IF n <= 1 THEN 0 ELSE attempts

(* ensure_step: in flight already, or sent now.                            *)
Ensure ==
  /\ mpc = "ensure"
  /\ \/ InFlight /\ Await /\ UNCHANGED <<enc, conns>>
     \/ /\ ~InFlight /\ pending # None /\ mpc' = "stale"
        /\ UNCHANGED <<enc, retry, conns>>
     \/ /\ pending = None
        /\ SendStep(ids, history)
        /\ conns' = Put(conns, link, Step(Keep, ids))
        /\ UNCHANGED length
        /\ Await \/ (LinkDown /\ Recover(0))
  /\ UNCHANGED <<text, next, ids, got, link, up, toll>>

(* recv_step: the reply of the pending step.                               *)
Arrived == link # None /\ conns[link].out # <<>>
Head1 == conns[link].out[1]
Valid == Head1.tag = "STPR" /\ Len(Head1.rows) = pending.keep + Len(pending.ids)

Receive ==
  /\ Arrived /\ Valid
  /\ conns' = [conns EXCEPT ![link].out = Tail(@)]
  /\ pending' = None /\ length' = Len(Head1.rows)

(* ... which fails on an ERR, on a reply of another step, or on the link.  *)
ReceiveFails == (Arrived /\ ~Valid) \/ LinkDown

(* ensure_step consumes the reply of a stale step and sends its own.       *)
Stale ==
  /\ mpc = "stale"
  /\ \/ Receive /\ mpc' = "ensure" /\ UNCHANGED <<history, retry>>
     \/ ReceiveFails /\ Recover(0) /\ UNCHANGED <<enc, conns>>
  /\ UNCHANGED <<text, next, ids, got, link, up, toll>>

(* recv_step_safe: rebuild at most ResumeTries times.                      *)
Recv ==
  /\ mpc = "await"
  /\ \/ Receive /\ got' = Head1.rows /\ mpc' = "verify" /\ UNCHANGED <<history, retry, link>>
     \/ /\ ReceiveFails /\ rebuilds < ResumeTries
        /\ Recover(rebuilds + 1)
        /\ UNCHANGED <<enc, got, conns, link>>
     \/ /\ ReceiveFails /\ rebuilds >= ResumeTries
        /\ mpc' = "drop" /\ failures' = ResumeTries
        /\ UNCHANGED <<enc, got, conns, link, rebuilds, attempts>>
  /\ UNCHANGED <<text, next, ids, up, toll>>

(* The verify accepts some of the drafts and yields the next token.        *)
Verify ==
  /\ mpc = "verify"
  /\ \E a \in 0..(Len(ids) - 1) : text' = text \o Take(ids, a + 1)
  /\ next' \in Tokens
  /\ mpc' = "idle" /\ ids' = <<>> /\ got' = <<>>
  /\ UNCHANGED <<enc, link, retry, conns, up, toll>>

(* _drop: the socket is closed; the box notices later.                     *)
Drop ==
  /\ mpc = "drop"
  /\ conns' = IF link # None /\ conns[link].st = "up" THEN [conns EXCEPT ![link].st = "broken"] ELSE conns
  /\ link' = None /\ pending' = None
  /\ mpc' = IF failures >= ResumeTries THEN "lost" ELSE "connect"
  /\ UNCHANGED <<text, next, ids, got, history, length, retry, up, toll>>

ReopenWhole ==
  /\ mpc = "connect" /\ up
  /\ \E c \in Slots :
       /\ conns[c].st = "done"
       /\ conns' = [conns EXCEPT ![c] = Conn("up", <<Open(history)>>, NoSession)]
       /\ link' = c
  /\ mpc' = "reopen"
  /\ UNCHANGED <<text, next, ids, got, enc, retry, up, toll>>

(* _connect and reopen: OPEN with exactly history[:keep] and state "none". *)
Reopen ==
  /\ mpc = "connect" /\ up
  /\ \E c \in Slots :
       /\ conns[c].st = "done"
       /\ conns' = [conns EXCEPT ![c] = Conn("up", <<Open(Take(history, Keep))>>, NoSession)]
       /\ link' = c
  /\ mpc' = "reopen"
  /\ UNCHANGED <<text, next, ids, got, enc, retry, up, toll>>

(* One failed attempt; a refused connection or a busy box does not count   *)
(* as a failure, but the clock runs.                                       *)
Failed(n) ==
  /\ failures' = failures + n
  /\ attempts' = attempts + 1
  /\ mpc' = "failed"
  /\ UNCHANGED rebuilds

NotConnected ==
  /\ mpc = "connect" /\ ~up
  /\ Failed(0)
  /\ UNCHANGED <<text, next, ids, got, enc, link, conns, up, toll>>

(* The answer of the OPEN; then the step goes out again.                   *)
Reopened ==
  /\ mpc = "reopen"
  /\ \/ /\ Arrived /\ Head1.tag = "ACK"
        /\ length' = Keep
        /\ SendStep(ids, Take(history, Keep))
        /\ conns' = Put([conns EXCEPT ![link].out = Tail(@)], link, Step(Keep, ids))
        /\ (mpc' = "await" /\ UNCHANGED retry) \/ (LinkDown /\ Failed(1))
     \/ /\ Arrived /\ Head1.tag # "ACK"
        /\ Failed(IF Head1.tag = "BUSY" THEN 0 ELSE 1)
        /\ UNCHANGED <<enc, conns>>
     \/ LinkDown /\ Failed(1) /\ UNCHANGED <<enc, conns>>
  /\ UNCHANGED <<text, next, ids, got, link, up, toll>>

RetryForEver ==
  /\ mpc = "failed"
  /\ mpc' = "drop"
  /\ UNCHANGED <<text, next, ids, got, enc, link, failures, rebuilds, conns, up, toll>>
  /\ attempts' = 0

(* Give up (BoxLost) when the tries or the clock are used up, or try again *)
(* on a fresh connection.                                                  *)
Retry ==
  /\ mpc = "failed"
  /\ \/ failures < ResumeTries /\ attempts < MaxAttempts /\ mpc' = "drop" /\ UNCHANGED failures
     \/ mpc' = "drop" /\ failures' = ResumeTries
  /\ UNCHANGED <<text, next, ids, got, enc, link, rebuilds, attempts, conns, up, toll>>

(* The request ends: close() says CLOS and closes the socket.              *)
End ==
  /\ mpc = "idle"
  /\ mpc' = "closed"
  /\ conns' = [Put(conns, link, Close) EXCEPT ![link].st = IF @ = "up" THEN "broken" ELSE @]
  /\ link' = None
  /\ UNCHANGED <<text, next, ids, got, enc, retry, up, toll>>

-----------------------------------------------------------------------------
(* The box.                                                                *)

Queued(c, tag) == conns[c].in # <<>> /\ conns[c].in[1].tag = tag
(* What one handled frame does to a connection.                            *)
Handled(c, reply, sess) ==
  conns' = [conns EXCEPT ![c].in = Tail(@), ![c].out = Append(@, reply), ![c].sess = sess]
(* An error: ERR, then handle_conn's finally closes the session.           *)
Errored(c, tag) ==
  conns' = [conns EXCEPT ![c] = [st |-> "done", in |-> <<>>, sess |-> NoSession,
                                 out |-> Append(conns[c].out, Reply(tag, <<>>))]]

(* handle_open: a prefill of exactly these rows, or a retryable refusal.   *)
BoxOpen(c) ==
  /\ Queued(c, "OPEN")
  /\ \/ Handled(c, Reply("ACK", <<>>), Session(conns[c].in[1].rows, None))
     \/ Errored(c, "BUSY")
  /\ UNCHANGED <<mac, up, toll>>

(* The prompt is prefilled, but _open raises before handle_conn has got    *)
(* the session's number: what is left of the answer cannot be sent because *)
(* the link is gone, or it was sent and the snapshot fails.  The finally   *)
(* then finds no session to close, and nobody else ever does.              *)
OpenOrphans(c) ==
  /\ Queued(c, "OPEN")
  /\ \/ /\ conns[c].st = "broken"
        /\ conns' = [conns EXCEPT ![c] = [@ EXCEPT !.st = "done", !.in = <<>>, !.sess = NoSession]]
        /\ UNCHANGED faults
     \/ /\ conns[c].st = "up" /\ faults < MaxFaults
        /\ conns' = [conns EXCEPT ![c] =
             [st |-> "done", in |-> <<>>, sess |-> NoSession,
              out |-> conns[c].out \o <<Reply("ACK", <<>>), Reply("ERR", <<>>)>>]]
        /\ faults' = faults + 1
  /\ orphans' = orphans + 1
  /\ UNCHANGED <<mac, up>>

(* commit_pending's and cmd_step's guards on a STEP's keep.                *)
KeepOk(sess, keep) ==
  /\ keep <= Len(sess.rows)
  /\ IF sess.base = None THEN keep = Len(sess.rows) ELSE keep >= sess.base

(* handle_conn's context length check.                                     *)
TooLong(m) == m.keep + Len(m.rows) > MaxPos

(* A STEP: the rows above `keep` are rolled back, the new ones computed.   *)
BoxStep(c) ==
  /\ Queued(c, "STEP")
  /\ LET m == conns[c].in[1]
         sess == conns[c].sess
         rows == Take(sess.rows, m.keep) \o m.rows
     IN  IF TooLong(m) THEN Errored(c, "ERR")
         ELSE IF ~KeepOk(sess, m.keep) THEN Errored(c, "REWIND")
         ELSE Handled(c, Reply("STPR", rows), Session(rows, m.keep))
  /\ UNCHANGED <<mac, up, toll>>

(* A step or a prefill that fails on the GPU (KV pool exhausted, a         *)
(* collective, ...); a failed prefill closes its session itself.           *)
StepFails(c) ==
  /\ Queued(c, "STEP") \/ Queued(c, "OPEN")
  /\ faults < MaxFaults
  /\ Errored(c, "ERR")
  /\ faults' = faults + 1
  /\ UNCHANGED <<mac, up, orphans>>

CloseLeaks(c) ==
  /\ conns[c].st # "done" /\ (Queued(c, "CLOS") \/ conns[c].st = "broken")
  /\ conns' = [conns EXCEPT ![c].st = "done", ![c].in = <<>>]
  /\ UNCHANGED <<mac, up, toll>>

(* CLOS, or the end of the connection: the session is closed.              *)
BoxClose(c) ==
  /\ conns[c].st # "done" /\ (Queued(c, "CLOS") \/ conns[c].st = "broken")
  /\ conns' = [conns EXCEPT ![c].st = "done", ![c].in = <<>>, ![c].sess = NoSession]
  /\ UNCHANGED <<mac, up, toll>>

(* A link breaks, or one side's timeout expires.                           *)
Break(c) ==
  /\ conns[c].st = "up" /\ faults < MaxFaults
  /\ conns' = [conns EXCEPT ![c].st = "broken"]
  /\ faults' = faults + 1
  /\ UNCHANGED <<mac, up, orphans>>

(* The box process ends and is restarted by its supervisor.                *)
Crash ==
  /\ up /\ faults < MaxFaults
  /\ up' = FALSE /\ faults' = faults + 1 /\ orphans' = 0
  /\ conns' = [c \in Slots |-> [conns[c] EXCEPT !.st = "done", !.in = <<>>, !.sess = NoSession]]
  /\ UNCHANGED mac

Restart ==
  /\ ~up /\ up' = TRUE
  /\ UNCHANGED <<mac, conns, toll>>

MacStep ==
  \/ Ensure \/ Stale \/ Recv \/ Verify
  \/ Drop \/ Reopen \/ NotConnected \/ Reopened \/ Retry
BoxHandles(c) == BoxOpen(c) \/ BoxStep(c) \/ BoxClose(c)

(* The request is over and the box has nothing left to do.                 *)
Over ==
  /\ mpc \in {"lost", "closed"} /\ \A c \in Slots : conns[c].st = "done"
  /\ up
  /\ UNCHANGED vars

Next ==
  \/ Presend \/ Issue \/ MacStep \/ End
  \/ \E c \in Slots : BoxHandles(c) \/ OpenOrphans(c) \/ StepFails(c) \/ Break(c)
  \/ Crash \/ Restart \/ Over

Spec == Init /\ [][Next]_vars

(* The Mac's loop and the box's handlers run; nothing else must happen.    *)
FairSpec == Spec /\ WF_vars(MacStep) /\ \A c \in Slots : WF_vars(BoxHandles(c))

-----------------------------------------------------------------------------
(* "bit-identical continuation": the rows the Mac verifies were computed   *)
(* by the box on exactly the committed text followed by the step's tokens, *)
(* whatever was sent early, lost, rebuilt and sent again before.           *)
RowsOfText == mpc = "verify" => got = text \o ids

(* "the prefix a lost session is rebuilt from": at any moment the first    *)
(* `keep` tokens of history are the committed text, and no step asks the   *)
(* box to roll back further than it can: neither side refuses its keep.    *)
Rebuildable ==
  /\ Len(history) >= Keep /\ Take(history, Keep) = text
  /\ mpc \in {"idle", "ensure", "stale"} => Keep <= length
  /\ \A c \in Slots : \A i \in 1..Len(conns[c].out) : conns[c].out[i].tag # "REWIND"

(* A step that was asked for ends: with its rows, or with BoxLost.         *)
EveryStepEnds == mpc = "ensure" ~> mpc \in {"verify", "lost"}

(* The box's session does not outlive its connection: once the link is     *)
(* gone, however that happened, its KV pages are given back, except those  *)
(* of a session whose OPEN failed after its prefill (`orphans`).  Such a   *)
(* session costs a fault each: retries and rebuilds do not pile them up.   *)
SessionsEnd ==
  /\ \A c \in Slots : conns[c].st = "broken" ~> ~conns[c].sess.live
  /\ [](orphans <= faults)

=============================================================================
