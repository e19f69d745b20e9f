------------------------------ MODULE RingDraft ------------------------------
(***************************************************************************)
(* DSpark drafting on the box for one request: BoxDraft of                 *)
(* patches/deepseek_v41/stepd.py and the STEPD side of pipe_wire.py on the *)
(* Mac, DsSession, ring, stepd and step_taps of split_nv/front.py on the   *)
(* box.                                                                    *)
(*                                                                         *)
(* Three rings hold the rows of the newest committed positions: the box's  *)
(* (it drafts from it), the Mac GPU's (the Mac drafts from it) and the     *)
(* Mac's host copy, which feeds the other two.  Only one of the first two  *)
(* is appended in a cycle.  A row is named by its position, for what is    *)
(* committed does not change; a block of rows by its length and who chose  *)
(* its drafts.                                                             *)
(*                                                                         *)
(* The link carries frames in order until it breaks; SplitSession has the  *)
(* details of a session's loss and how often it is rebuilt.  Other         *)
(* sessions' prefills, the kill switch and the length of blocks are        *)
(* arbitrary.  Left out: the extra source (as the copy index), statistics, *)
(* a request moved to a new MTP state.                                     *)
(***************************************************************************)
EXTENDS Integers, FiniteSets, Sequences

CONSTANTS None,
          Starts,      \* prompt lengths: the first position a ring may lack
          Ring,        \* rows a ring holds (128 in the code)
          Prime, MinCtx,  \* PRIME_CTX, MIN_CTX: keep the ring; let the box draft
          MaxRows,     \* rows of a block
          MaxPos,      \* the context length
          PfClear, RingRetries,
          MaxLost, MaxRingFails, MaxToggles   \* bounds: broken links, failed RING jobs, kill switch

Blocks == [len : Nat \ {0}, by : {"mac", "box", "copy", "filler", "bonus"}]

ASSUME RingAssumption ==
  /\ None \notin Nat /\ None \notin Blocks /\ None \notin {"box_error", "ring_gap"}
  /\ None \notin [base : Nat, blk : Blocks] /\ None \notin [keep : Nat, blk : Blocks]
  /\ None \notin [blk : Blocks, a : Nat, cut : BOOLEAN] /\ None \notin [keep : Nat, noTaps : BOOLEAN]
  /\ Starts \subseteq Nat
  /\ {Ring, MaxRows, PfClear, RingRetries} \subseteq Nat \ {0}
  /\ {Prime, MinCtx, MaxPos, MaxLost, MaxRingFails, MaxToggles} \subseteq Nat
  /\ Prime <= MinCtx

VARIABLES
  base, keep,        \* the newest commit: positions base..keep-1; the anchor sits at keep
  phase,             \* what the engine thread does next
  blk, ver,          \* the block at keep; the block and accept count of the newest verify
  host,              \* HostRing: keys, keys_end and offset
  mring, macCurrent, \* the Mac GPU's ring
  primed, sticky, pfHold, disabled, ringFails, explicit,   \* BoxDraft
  pending, ready,    \* EncoderSession: the step in flight; a reply kept for the verify
  granted,           \* the session has the dspark grant (both sides)
  bpend, blen,       \* the box's mirror of the session: pending step and length
  bring, ringOk, ringOff,   \* the box's ring
  enabled,           \* the kill switch
  link, wire, reply, \* the connection, frames to the box, the box's answer
  lost, failed, toggles     \* faults so far

request == <<base, keep, phase, blk, ver>>
rings == <<host, mring, macCurrent>>
draft == <<primed, sticky, pfHold, disabled, ringFails, explicit>>
encoder == <<pending, ready>>
session == <<bpend, blen>>
boxring == <<bring, ringOk, ringOff>>
channel == <<link, wire, reply>>
faults == <<lost, failed, toggles>>
vars == <<request, rings, draft, encoder, granted, session, boxring, enabled, channel, faults>>

Block(n, who) == [len |-> n, by |-> who]
Newest(rows, end) == {p \in rows : end - Ring <= p /\ p < end}
Whole(end) == Newest(0..end, end)

(* Right after the first token: a one-row STEP at base has been verified.  *)
Init ==
  /\ base \in Starts /\ keep = base + 1 /\ phase = "prepare"
  /\ blk = None /\ ver = None
  /\ host = [keys |-> {}, kend |-> 0, off |-> 0]
  /\ mring = Whole(base) /\ macCurrent = TRUE
  /\ primed = FALSE /\ sticky = None /\ pfHold = 0 /\ disabled = FALSE /\ ringFails = 0
  /\ explicit = None /\ pending = None /\ ready = None
  /\ enabled \in BOOLEAN /\ granted \in BOOLEAN /\ (granted => enabled)
  /\ bpend = [base |-> base, blk |-> Block(1, "mac")] /\ blen = base + 1
  /\ bring = {} /\ ringOk = FALSE /\ ringOff = 0
  /\ link = TRUE /\ wire = <<>> /\ reply = None
  /\ lost = 0 /\ failed = 0 /\ toggles = 0

-----------------------------------------------------------------------------
(* The host ring: keys up to kend, then the taps of every committed        *)
(* position, the newest Ring of them.                                      *)
Reset(rows, end) == [keys |-> rows, kend |-> end, off |-> end]
Appended(h) == [h EXCEPT !.off = keep]
Window(h) == Newest(h.keys \cup h.kend..(h.off - 1), h.off)

(* What goes out on a broken link is lost; the next receive finds out.     *)
Sent(frames) == wire' = IF link THEN wire \o frames ELSE wire

RingFrame(h) == [tag |-> "RING", off |-> h.off, rows |-> Window(h)]

(* STEPD with the accept of `v' (None: a kickoff), the committed rows'     *)
(* taps unless the box would ignore them.                                  *)
Stepd(v, mode, b, noTaps) ==
  [tag |-> "STEPD", keep |-> keep, ver |-> v, mode |-> mode, blk |-> b,
   taps |-> IF v = None \/ noTaps \/ disabled THEN {} ELSE base..(keep - 1)]
Step(b, taps) == [tag |-> "STEP", keep |-> keep, ver |-> None, mode |-> "plain", blk |-> b, taps |-> taps]

InFlight(frame) == [keep |-> frame.keep, mode |-> frame.mode, blk |-> frame.blk]

-----------------------------------------------------------------------------
(* After a commit: who drafts the next block.                              *)

(* The next block is drafted as before box drafting: a plain STEP.         *)
Cut == ver # None /\ ver.cut
NotKept == host.off = 0 /\ keep < Prime
OnPlainPath == sticky # None \/ ~granted \/ Cut

BoxEra(crowded) == base >= MinCtx /\ ~disabled /\ ~(pfHold > 0 /\ crowded)

(* Variant: the ring is only said to follow.                               *)
MacRingForgotten(h) == mring' = mring /\ macCurrent' = (macCurrent \/ h.off = base)

(* The Mac GPU's ring follows again from the host's copy.                  *)
MacRing(h) ==
  /\ mring' = IF ~macCurrent /\ h.off = base THEN Window(h) ELSE mring
  /\ macCurrent' = (macCurrent \/ h.off = base)

(* Variant: even those of a Mac ring that no longer follows.               *)
SyncedAnyway(era) ==
  IF host.off # base \/ (era /\ ~primed) THEN Reset(mring, base) ELSE host

(* Before a re-prime the host ring takes over the Mac ring's keys.         *)
Synced(era) ==
  IF host.off # base \/ (era /\ ~primed /\ macCurrent) THEN Reset(mring, base) ELSE host
StillPrimed == primed /\ host.off = base
Gap == host.off # base /\ ~macCurrent

(* _ring_first: a kickoff carries no taps, so its RING covers them.        *)
RingFirst(h) ==
  LET covered == IF ver = None THEN Appended(h) ELSE h
      send == (~StillPrimed \/ ver = None) /\ ~disabled /\ Window(covered) # {}
  IN  [frames |-> IF send THEN <<RingFrame(covered)>> ELSE <<>>,
       primed |-> StillPrimed \/ send]

Preparing == phase = "prepare" /\ keep < MaxPos /\ UNCHANGED <<base, keep, ver, pfHold, disabled, ringFails>>

Plain ==
  /\ Preparing /\ OnPlainPath /\ phase' = "draft" /\ MacRing(host)
  /\ UNCHANGED <<blk, host, primed, sticky, explicit, encoder, channel>>

TooShort ==
  /\ Preparing /\ ~OnPlainPath /\ NotKept /\ phase' = "draft"
  /\ UNCHANGED <<blk, rings, primed, sticky, explicit, encoder, channel>>

RingGap ==
  /\ Preparing /\ ~OnPlainPath /\ ~NotKept /\ Gap
  /\ sticky' = "ring_gap" /\ primed' = FALSE /\ phase' = "draft"
  /\ UNCHANGED <<blk, rings, explicit, encoder, channel>>

Kept == Preparing /\ ~OnPlainPath /\ ~NotKept /\ ~Gap

(* The box drafts (mode 0), or verifies what the copy index proposes.      *)
BoxDrafts ==
  /\ Kept /\ \E crowded \in BOOLEAN : BoxEra(crowded)
  /\ \E proposal \in {None} \cup {Block(n, "copy") : n \in 2..MaxRows} :
       LET h == Synced(TRUE)
           first == RingFirst(h)
           frame == Stepd(ver, IF proposal = None THEN "box" ELSE "explicit", proposal, FALSE)
       IN  /\ proposal # None => keep + proposal.len <= MaxPos
           /\ host' = Appended(h) /\ primed' = first.primed
           /\ Sent(Append(first.frames, frame)) /\ pending' = InFlight(frame)
           /\ blk' = proposal /\ phase' = IF proposal = None THEN "resolve" ELSE "wait"
  /\ macCurrent' = FALSE /\ ready' = None
  /\ UNCHANGED <<mring, sticky, explicit, link, reply>>

(* Variant: the gap of a step without taps is forgotten.                   *)
KeptUpAnyway(first, noTaps) == first.primed

KeptUp(first, noTaps) == ~noTaps /\ first.primed

(* The Mac drafts, and the box ring is kept current, except while another  *)
(* session's prefill wants plain steps.                                    *)
MacDrafts ==
  /\ Kept
  /\ \E crowded \in BOOLEAN :
       /\ ~BoxEra(crowded)
       /\ LET h == Synced(FALSE)
              noTaps == base >= MinCtx /\ ~disabled
              first == RingFirst(h)
          IN  /\ MacRing(h) /\ host' = Appended(h)
              /\ primed' = KeptUp(first, noTaps)
              /\ Sent(IF noTaps THEN <<>> ELSE first.frames)
              /\ explicit' = [keep |-> keep, noTaps |-> noTaps]
  /\ phase' = "draft"
  /\ UNCHANGED <<blk, sticky, encoder, link, reply>>

Prepare == Plain \/ TooShort \/ RingGap \/ BoxDrafts \/ MacDrafts

-----------------------------------------------------------------------------
(* Blocks of the Mac's drafter.                                            *)

MacBlocks == {Block(n, "mac") : n \in {n \in 1..MaxRows : keep + n <= MaxPos}}

MacDraft ==
  /\ phase = "draft" /\ phase' = "issue" /\ blk' \in MacBlocks
  /\ mring' = Newest(mring \cup base..(keep - 1), keep)
  /\ UNCHANGED <<base, keep, ver, host, macCurrent, draft, encoder, channel>>

(* presend: the block as STEPD mode 1 with this cycle's taps; a block of   *)
(* one row as a STEP with them; else a plain STEP.                         *)
Presend ==
  LET stash == explicit # None /\ explicit.keep = keep /\ sticky = None /\ granted
      quiet == stash /\ explicit.noTaps
      taps == IF stash /\ ver # None /\ ~disabled /\ ~quiet THEN base..(keep - 1) ELSE {}
      frame == IF stash /\ blk.len >= 2 THEN Stepd(ver, "explicit", blk, quiet) ELSE Step(blk, taps)
  IN  /\ phase = "issue" /\ phase' = "wait"
      /\ Sent(<<frame>>) /\ pending' = InFlight(frame)
      /\ explicit' = None /\ ready' = None
      /\ UNCHANGED <<base, keep, blk, ver, rings, primed, sticky, pfHold, disabled, ringFails, link, reply>>

(* The box did not draft: the Mac does, from a ring rebuilt through keep,  *)
(* and its block goes out as a kickoff for the same position.              *)
Redraft ==
  /\ phase = "redraft" /\ blk' \in MacBlocks
  /\ mring' = (IF macCurrent THEN mring ELSE Window(host)) /\ macCurrent' = TRUE
  /\ IF sticky = None /\ granted /\ blk'.len >= 2
       THEN LET frame == Stepd(None, "explicit", blk', TRUE)
            IN  Sent(<<frame>>) /\ pending' = InFlight(frame) /\ phase' = "wait"
       ELSE phase' = "issue" /\ UNCHANGED <<pending, wire>>
  /\ UNCHANGED <<base, keep, ver, host, draft, ready, link, reply>>

-----------------------------------------------------------------------------
(* Replies, and the loss of a session.                                     *)

Answered == reply # None /\ ~reply.err
(* A reply without RING_OK: RING again, a few times.                       *)
RingSeen(fails) ==
  /\ primed' = (primed /\ ~reply.off /\ reply.ringOk)
  /\ ringFails' = (IF reply.off THEN ringFails ELSE IF reply.ringOk THEN 0 ELSE fails)
  /\ sticky' = (IF sticky = None /\ ringFails' >= RingRetries THEN "ring_not_ok" ELSE sticky)

(* on_reply: other prefills, the kill switch, the state of the ring.       *)
OnReply ==
  /\ pfHold' = IF reply.pf THEN PfClear ELSE IF pfHold > 0 THEN pfHold - 1 ELSE 0
  /\ disabled' = reply.off
  /\ RingSeen(IF primed THEN ringFails + 1 ELSE ringFails)

Taken == reply' = None /\ pending' = None /\ UNCHANGED <<link, wire>>

(* The rows of the block arrive, or were kept from the STEPD.              *)
Receive ==
  /\ phase = "wait" /\ phase' = "verify"
  /\ \/ /\ ready # None /\ ready.keep = keep /\ ready.blk = blk
        /\ UNCHANGED <<draft, pending, channel>>
     \/ /\ ready = None /\ Answered /\ Taken /\ UNCHANGED explicit
        /\ IF reply.stepd THEN OnReply ELSE UNCHANGED <<primed, sticky, pfHold, disabled, ringFails>>
  /\ ready' = None
  /\ UNCHANGED <<base, keep, blk, ver, rings>>

(* The drafts of the box; a bonus row alone is dropped.                    *)
Resolve ==
  /\ phase = "resolve" /\ Answered /\ Taken /\ OnReply /\ UNCHANGED explicit
  /\ IF reply.mode = "bonus"
       THEN phase' = "redraft" /\ UNCHANGED <<blk, ready>>
       ELSE phase' = "wait" /\ blk' = reply.blk /\ ready' = [keep |-> keep, blk |-> reply.blk]
  /\ UNCHANGED <<base, keep, ver, rings>>

(* The model accepts a of the drafts; the request's end may cut them short.*)
Commit ==
  /\ phase = "verify" /\ ~Cut /\ phase' = "prepare"
  /\ \E a \in 0..(blk.len - 1), cut \in BOOLEAN :
       ver' = [blk |-> blk, a |-> a, cut |-> cut] /\ base' = keep /\ keep' = keep + a + 1
  /\ UNCHANGED <<blk, rings, draft, encoder, channel>>

-----------------------------------------------------------------------------
(* recover: a new session on the committed text, which has no ring; then   *)
(* the step again, or for a box-drafted block RING and a kickoff.          *)

Refused == reply # None /\ reply.err
(* Variant: only a verify notices.                                         *)
FailedInVerify == (~link \/ Refused) /\ pending # None /\ phase = "wait"

Failed == (~link \/ Refused) /\ pending # None /\ phase \in {"wait", "resolve"}

(* Variant: the accept of the old session's step goes with it.             *)
KickoffAgain == Stepd(ver, "box", None, TRUE)

Kickoff == Stepd(None, "box", None, TRUE)

(* on_lost, on_reopen: an error of the protocol, or a box that does not    *)
(* grant drafting any more, ends it for this request.                      *)
StuckBy(g) ==
  CASE sticky # None -> sticky
    [] Refused -> "box_error"
    [] ~g -> "lost_grant"
    [] OTHER -> None

Reopened(g) ==
  /\ granted' = g /\ bpend' = None /\ blen' = keep
  /\ bring' = {} /\ ringOk' = FALSE /\ ringOff' = 0
  /\ link' = TRUE /\ reply' = None /\ ready' = None
  /\ sticky' = StuckBy(g)

Recover ==
  /\ Failed
  /\ \E g \in BOOLEAN :
       /\ g => enabled
       /\ Reopened(g)
       /\ CASE phase = "wait" ->
                 /\ wire' = <<Step(blk, {})>> /\ pending' = InFlight(Step(blk, {}))
                 /\ primed' = FALSE /\ UNCHANGED phase
            [] phase = "resolve" /\ sticky' = None ->
                 /\ wire' = <<RingFrame(host), Kickoff>> /\ pending' = InFlight(Kickoff)
                 /\ primed' = TRUE /\ UNCHANGED phase
            [] OTHER ->
                 /\ wire' = <<>> /\ pending' = None /\ primed' = FALSE /\ phase' = "redraft"
  /\ UNCHANGED <<base, keep, blk, ver, rings, pfHold, disabled, ringFails, explicit, enabled, faults>>

(* The box does not come back (BoxLost), the send of a redraft fails, or   *)
(* the request has its last token.                                         *)
End ==
  /\ Failed \/ (phase = "redraft" /\ ~link) \/ phase = "verify" \/ (phase = "prepare" /\ keep >= MaxPos)
  /\ phase' = "ended"
  /\ UNCHANGED <<base, keep, blk, ver, rings, draft, encoder, granted, session, boxring, enabled, channel, faults>>

-----------------------------------------------------------------------------
(* The box.                                                                *)

Frame == wire[1]
Arrived(tag) == wire # <<>> /\ Frame.tag = tag
Handled == wire' = Tail(wire) /\ UNCHANGED <<request, rings, draft, encoder, granted, enabled, link>>
NoReply == [err |-> FALSE, stepd |-> FALSE, keep |-> 0, mode |-> "plain", blk |-> None,
            pf |-> FALSE, off |-> FALSE, ringOk |-> FALSE, from |-> {}]
Error == [NoReply EXCEPT !.err = TRUE]

(* ring: the slot becomes exactly these positions; a digest that does not  *)
(* match or a job that fails leaves it unusable.                           *)
HandleRing ==
  /\ Arrived("RING") /\ Handled
  /\ \/ enabled /\ bring' = Frame.rows /\ ringOk' = TRUE /\ ringOff' = Frame.off /\ UNCHANGED failed
     \/ /\ \/ ~enabled /\ UNCHANGED failed
           \/ enabled /\ failed < MaxRingFails /\ failed' = failed + 1
        /\ ringOk' = FALSE /\ UNCHANGED <<bring, ringOff>>
  /\ UNCHANGED <<session, reply, lost, toggles>>

(* The keep of a kickoff or a STEP, and check_accept: a step must follow   *)
(* the one the box has pending, and fit the context.                       *)
KeepOk == (IF bpend # None THEN bpend.base ELSE blen) <= Frame.keep /\ Frame.keep <= blen
CheckAccept ==
  bpend # None /\ bpend.blk = Frame.ver.blk /\ Frame.keep = bpend.base + Frame.ver.a + 1
Acceptable ==
  /\ Frame.keep + (IF Frame.blk = None THEN 1 ELSE Frame.blk.len) <= MaxPos
  /\ IF Frame.ver # None THEN CheckAccept ELSE KeepOk

(* The taps follow the newest row of the ring.                             *)
Appends ==
  /\ enabled /\ ringOk /\ Frame.taps # {}
  /\ ringOff \in Frame.taps /\ ringOff - 1 \notin Frame.taps

RingAfter ==
  /\ bring' = IF Appends THEN Newest(bring \cup Frame.taps, Frame.keep) ELSE bring
  /\ ringOff' = IF Appends THEN Frame.keep ELSE ringOff

Runs(b) == bpend' = [base |-> Frame.keep, blk |-> b] /\ blen' = Frame.keep + b.len

(* stepd: append, then draft, or answer a filler, or run the block as sent.*)
Stepped ==
  LET missed == ~enabled \/ (Frame.ver # None /\ ~Appends)
      current == ringOk /\ ~missed /\ (Appends \/ ringOff = Frame.keep)
      room == MaxPos - Frame.keep - 1
      eligible == Frame.mode = "box" /\ Frame.keep >= MinCtx /\ room >= 1
      drafts == eligible /\ enabled /\ current
      blocks == CASE drafts -> {Block(n, "box") : n \in {n \in 2..MaxRows : n <= room + 1}}
                  [] eligible /\ ~drafts -> {Block(2, "filler")}
                  [] Frame.mode = "explicit" -> {Frame.blk}
                  [] OTHER -> {Block(1, "bonus")}
      mode == IF ~eligible /\ Frame.mode = "box" THEN "bonus" ELSE Frame.mode
  IN  /\ ringOk' = (ringOk /\ ~missed) /\ RingAfter
      /\ \E b \in blocks, pf \in BOOLEAN :
           /\ Runs(b)
           /\ reply' = [err |-> FALSE, stepd |-> TRUE, keep |-> Frame.keep, mode |-> mode, blk |-> b,
                        pf |-> pf, off |-> ~enabled, ringOk |-> current,
                        from |-> IF drafts THEN bring' ELSE {}]

Rejected == reply' = Error /\ UNCHANGED <<session, boxring>>

HandleStepd ==
  /\ Arrived("STEPD") /\ Handled /\ UNCHANGED faults
  /\ IF Acceptable THEN Stepped ELSE Rejected

(* STEP; a granted session's may bring taps.                               *)
PlainStep ==
  /\ Runs(Frame.blk)
  /\ IF Frame.taps # {} THEN ringOk' = Appends /\ RingAfter ELSE UNCHANGED boxring
  /\ reply' = [NoReply EXCEPT !.keep = Frame.keep, !.blk = Frame.blk]

HandleStep ==
  /\ Arrived("STEP") /\ Handled /\ UNCHANGED faults
  /\ IF Acceptable THEN PlainStep ELSE Rejected

Box == HandleRing \/ HandleStepd \/ HandleStep

-----------------------------------------------------------------------------
KillSwitch ==
  /\ toggles < MaxToggles /\ toggles' = toggles + 1 /\ enabled' = ~enabled
  /\ UNCHANGED <<request, rings, draft, encoder, granted, session, boxring, channel, lost, failed>>

(* The link breaks, or the box's job fails and it closes the connection.   *)
Break ==
  /\ link /\ phase # "ended" /\ lost < MaxLost /\ lost' = lost + 1
  /\ link' = FALSE /\ wire' = <<>> /\ reply' = None
  /\ UNCHANGED <<request, rings, draft, encoder, granted, session, boxring, enabled, failed, toggles>>

(* The engine thread.                                                      *)
Mac ==
  \/ /\ Prepare \/ MacDraft \/ Presend \/ Redraft \/ Receive \/ Resolve \/ Commit
     /\ UNCHANGED <<granted, session, boxring, enabled, faults>>
  \/ Recover \/ End

Next == Mac \/ Box \/ KillSwitch \/ Break

Spec == Init /\ [][Next]_vars

(* The engine thread runs on, and the box answers what reaches it.         *)
FairSpec == Spec /\ WF_vars(Mac) /\ WF_vars(Box)

-----------------------------------------------------------------------------
(* The box drafts from the rows of exactly the newest committed positions, *)
(* and says RING_OK of no other ring.                                      *)
DraftsFromWholeRing ==
  /\ reply # None /\ reply.ringOk => bring = Whole(reply.keep)
  /\ reply # None /\ reply.blk # None /\ reply.blk.by = "box" => reply.from = Whole(reply.keep)

(* Whenever the Mac drafts, its own ring has followed, although the box    *)
(* drafted before and its rows passed by the Mac.                          *)
MacRingWhole ==
  phase = "issue" \/ (phase = "wait" /\ blk.by = "mac") => mring = Whole(keep)

(* What the Mac says of its verify is what the box has pending, through    *)
(* bonus rows, redrafts, plain steps and rebuilt sessions: box drafting    *)
(* never ends because the two sides disagree or a row is missing.          *)
NeverRefused == ~Refused /\ sticky \notin {"box_error", "ring_gap"}

(* When the last step has been answered, a box ring that the Mac takes for *)
(* current, and the box for usable, holds the rows the host ring holds.    *)
RingsAgree ==
  primed /\ link /\ ringOk /\ phase = "verify" => bring = Window(host) /\ ringOff = host.off

(* Every block is verified, or the request ends.                           *)
EveryBlockEnds == phase \in {"wait", "resolve"} ~> phase \in {"verify", "ended"}

=============================================================================
