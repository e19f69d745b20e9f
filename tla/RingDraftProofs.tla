-------------------------- MODULE RingDraftProofs --------------------------
(***************************************************************************)
(* For any ring size, block length, context and thresholds.  RingInv:      *)
(* whenever the Mac drafts, its ring has followed, and no step finds a     *)
(* gap; a ring that did not follow is one the host's copy can replace.     *)
(* AgreeInv: what the two sides hold of each other, from the box's ring,   *)
(* its pending step and the frames and the answer on their way.            *)
(***************************************************************************)
EXTENDS RingDraft, SequenceTheorems, TLAPS

Phases == {"prepare", "draft", "issue", "resolve", "redraft", "wait", "verify", "ended"}

Positions ==
  /\ base \in Nat /\ keep \in Nat /\ base < keep
  /\ phase \in Phases /\ macCurrent \in BOOLEAN

(* The host's copy is whole up to its newest position.                     *)
HostInv ==
  /\ host \in [keys : SUBSET Int, kend : Nat, off : Nat] /\ host.kend <= host.off
  /\ Window(host) = Whole(host.off)

(* One of the two rings of the Mac is whole up to e.                       *)
Follows(e) ==
  /\ macCurrent => mring = Whole(e)
  /\ ~macCurrent => host.off = e /\ host.off > 0

Rings ==
  /\ phase = "prepare" => Follows(base)
  /\ phase = "draft" => macCurrent /\ mring = Whole(base)
  /\ phase \in {"issue", "resolve", "redraft", "wait", "verify"} => Follows(keep)
  /\ phase = "issue" => macCurrent
  /\ phase \in {"wait", "verify"} /\ blk.by = "mac" => macCurrent

(* What is under way: a step's frame is the last one, no reply overtakes   *)
(* it, and while the box is to draft there is no other step.               *)
OfRing(f) == f.tag = "RING"
OfDraft(f) == f.tag = "STEPD" /\ f.mode = "box"

Quiet(place, kept) == place \in {"prepare", "draft", "issue", "redraft", "verify"} \/ (place = "wait" /\ kept # None)

Traffic ==
  /\ \E S : wire \in Seq(S)
  /\ \A i \in 1..(Len(wire) - 1) : OfRing(wire[i])
  /\ reply # None => wire = <<>>
  /\ Quiet(phase, ready) => reply = None /\ \A i \in 1..Len(wire) : OfRing(wire[i])
  /\ phase \in {"resolve", "redraft"} => ready = None
  /\ phase = "resolve" =>
       /\ \A i \in 1..Len(wire) : OfRing(wire[i]) \/ OfDraft(wire[i])
       /\ reply # None /\ ~reply.err => reply.blk.by # "mac"

RingInv == Positions /\ HostInv /\ Rings /\ Traffic

-----------------------------------------------------------------------------
LEMMA WholeNext ==
  ASSUME NEW b \in Nat, NEW k \in Nat, b <= k
  PROVE  Newest(Whole(b) \cup b..(k - 1), k) = Whole(k)
BY RingAssumption DEF Newest, Whole

LEMMA HostNext ==
  ASSUME NEW h \in [keys : SUBSET Int, kend : Nat, off : Nat], NEW k \in Nat,
         h.kend <= h.off, h.off <= k, Window(h) = Whole(h.off)
  PROVE  Window([h EXCEPT !.off = k]) = Whole(k)
<1> DEFINE g == [h EXCEPT !.off = k]
<1>1. g.keys = h.keys /\ g.kend = h.kend /\ g.off = k
  OBVIOUS
<1>2. \A p \in Int : p \in Window(h) <=> (p \in h.keys \/ p \in h.kend..(h.off - 1)) /\ h.off - Ring <= p /\ p < h.off
  BY DEF Window, Newest
<1>3. \A p \in Int : p \in Whole(h.off) <=> 0 <= p /\ h.off - Ring <= p /\ p < h.off
  BY RingAssumption DEF Whole, Newest
<1>4. \A p \in Int : p \in Window(g) <=> (p \in h.keys \/ p \in h.kend..(k - 1)) /\ k - Ring <= p /\ p < k
  BY <1>1 DEF Window, Newest
<1>5. \A p \in Int : p \in Whole(k) <=> 0 <= p /\ k - Ring <= p /\ p < k
  BY RingAssumption DEF Whole, Newest
<1> HIDE DEF g
<1>6. Window(g) \subseteq Int /\ Whole(k) \subseteq Int
  BY <1>1 DEF Window, Whole, Newest
<1>7. ASSUME NEW p \in Int PROVE p \in Window(g) <=> p \in Whole(k)
  <2>1. CASE p < h.off
    BY <1>2, <1>3, <1>4, <1>5, <2>1, RingAssumption
  <2>2. CASE p >= h.off
    BY <1>4, <1>5, <2>2, RingAssumption
  <2> QED
    BY <2>1, <2>2
<1> QED
  BY <1>6, <1>7 DEF g

-----------------------------------------------------------------------------
LEMMA SentShape ==
  ASSUME NEW S, wire \in Seq(S), \A i \in 1..Len(wire) : OfRing(wire[i]),
         NEW T, NEW fs \in Seq(T), \A i \in 1..(Len(fs) - 1) : OfRing(fs[i]), Sent(fs)
  PROVE  /\ \E R : wire' \in Seq(R)
         /\ \A i \in 1..(Len(wire') - 1) : OfRing(wire'[i])
         /\ \A i \in 1..Len(wire') : OfRing(wire'[i]) \/ \E j \in 1..Len(fs) : wire'[i] = fs[j]
<1>1. CASE wire' = wire
  BY <1>1, LenProperties
<1>2. CASE wire' = wire \o fs
  <2>1. wire \in Seq(S \cup T) /\ fs \in Seq(S \cup T)
    <3>1. S \subseteq S \cup T /\ T \subseteq S \cup T
      OBVIOUS
    <3> QED
      BY <3>1, SeqDef
  <2>2. /\ wire' \in Seq(S \cup T) /\ Len(wire') = Len(wire) + Len(fs)
        /\ \A i \in 1..(Len(wire) + Len(fs)) : wire'[i] = IF i <= Len(wire) THEN wire[i] ELSE fs[i - Len(wire)]
    BY <1>2, <2>1, ConcatProperties
  <2>3. Len(wire) \in Nat /\ Len(fs) \in Nat
    BY LenProperties
  <2>4. ASSUME NEW i \in 1..(Len(wire') - 1) PROVE OfRing(wire'[i])
    <3>1. CASE i <= Len(wire)
      BY <2>2, <2>3, <3>1
    <3>2. CASE i > Len(wire)
      <4>1. i - Len(wire) \in 1..(Len(fs) - 1)
        BY <2>2, <2>3, <3>2
      <4>2. wire'[i] = fs[i - Len(wire)]
        BY <2>2, <2>3, <3>2
      <4> QED
        BY <4>1, <4>2
    <3> QED
      BY <2>3, <3>1, <3>2
  <2>5. ASSUME NEW i \in 1..Len(wire') PROVE OfRing(wire'[i]) \/ \E j \in 1..Len(fs) : wire'[i] = fs[j]
    <3>1. CASE i <= Len(wire)
      BY <2>2, <2>3, <3>1
    <3>2. CASE i > Len(wire)
      <4>1. i - Len(wire) \in 1..Len(fs)
        BY <2>2, <2>3, <3>2
      <4>2. wire'[i] = fs[i - Len(wire)]
        BY <2>2, <2>3, <3>2
      <4> QED
        BY <4>1, <4>2
    <3> QED
      BY <2>3, <3>1, <3>2
  <2> QED
    BY <2>2, <2>4, <2>5
<1> QED
  BY <1>1, <1>2 DEF Sent

(* The frames of one send: a RING in front at most.                        *)
LEMMA OneFrame ==
  ASSUME NEW f, NEW fs, fs = <<f>>
  PROVE  fs \in Seq({f}) /\ Len(fs) = 1 /\ fs[1] = f
OBVIOUS

LEMMA RingFirstFrames ==
  ASSUME NEW h, NEW f
  PROVE  LET r == RingFirst(h).frames
             c == RingFrame(IF ver = None THEN Appended(h) ELSE h)
             fs == Append(r, f)
         IN  /\ OfRing(c) /\ r \in Seq({c}) /\ \A i \in 1..Len(r) : r[i] = c
             /\ fs \in Seq({c, f}) /\ fs[Len(fs)] = f
             /\ \A i \in 1..(Len(fs) - 1) : fs[i] = c
<1> DEFINE c == RingFrame(IF ver = None THEN Appended(h) ELSE h)
           r == RingFirst(h).frames
<1>1. OfRing(c)
  BY DEF OfRing, RingFrame
<1>2. r = <<c>> \/ r = <<>>
  BY DEF RingFirst
<1> HIDE DEF c, r
<1>3. CASE r = <<c>>
  BY <1>1, <1>3 DEF c, r
<1>4. CASE r = <<>>
  BY <1>1, <1>4 DEF c, r
<1> QED
  BY <1>2, <1>3, <1>4

-----------------------------------------------------------------------------
(* Preparing a block.                                                      *)
LEMMA PlainKeeps ==
  ASSUME RingInv, Plain \/ TooShort \/ RingGap
  PROVE  RingInv'
<1>0. phase = "prepare" /\ Follows(base) /\ UNCHANGED <<base, keep, wire, reply, host, ready>>
  BY DEF Plain, TooShort, RingGap, Preparing, RingInv, Rings, encoder, channel, rings
<1>1. ~RingGap
  BY <1>0 DEF RingGap, Gap, Follows
<1>2. phase' = "draft" /\ mring' = Whole(base) /\ macCurrent'
  <2>1. CASE Plain
    BY <1>0, <2>1 DEF Plain, MacRing, Follows, RingInv, HostInv, Positions
  <2>2. CASE TooShort
    <3>1. host.off = 0 /\ UNCHANGED <<mring, macCurrent>>
      BY <2>2 DEF TooShort, NotKept, rings
    <3> QED
      BY <1>0, <2>2, <3>1 DEF TooShort, Follows
  <2> QED
    BY <1>1, <2>1, <2>2
<1>3. macCurrent' \in BOOLEAN
  BY DEF Plain, TooShort, RingGap, MacRing, rings, RingInv, Positions, HostInv
<1>4. Positions' /\ HostInv'
  BY <1>0, <1>2, <1>3 DEF RingInv, Positions, Phases, HostInv, Window
<1>5. Rings' /\ Traffic'
  BY <1>0, <1>2 DEF RingInv, Rings, Traffic, Quiet
<1> QED
  BY <1>4, <1>5 DEF RingInv

(* Before a block is prepared the host's copy reaches base, and after it   *)
(* keep.                                                                   *)
LEMMA SyncedHost ==
  ASSUME RingInv, Kept, NEW era \in BOOLEAN
  PROVE  LET h == Synced(era)
         IN  /\ h \in [keys : SUBSET Int, kend : Nat, off : Nat]
             /\ h.kend <= h.off /\ h.off = base /\ Window(h) = Whole(base)
             /\ Appended(h) \in [keys : SUBSET Int, kend : Nat, off : Nat]
             /\ Appended(h).off = keep /\ Appended(h).kend <= keep /\ Window(Appended(h)) = Whole(keep)
<1> DEFINE h == Synced(era)
<1>1. base \in Nat /\ keep \in Nat /\ base < keep /\ Follows(base)
  BY DEF RingInv, Positions, Rings, Kept, Preparing
<1>2. \/ h = host /\ host.off = base
      \/ h = Reset(mring, base) /\ mring = Whole(base)
  BY <1>1 DEF Synced, Kept, Gap, Follows
<1>3. /\ h \in [keys : SUBSET Int, kend : Nat, off : Nat]
      /\ h.kend <= h.off /\ h.off = base /\ Window(h) = Whole(base)
  <2>1. CASE h = host /\ host.off = base
    BY <2>1 DEF RingInv, HostInv
  <2>2. CASE h = Reset(mring, base) /\ mring = Whole(base)
    <3>1. h = [keys |-> Whole(base), kend |-> base, off |-> base]
      BY <2>2 DEF Reset
    <3>2. Whole(base) \in SUBSET Int
      BY <1>1 DEF Whole, Newest
    <3>3. Window(h) = Whole(base)
      <4>1. Window(h) = Newest(Whole(base) \cup base..(base - 1), base)
        BY <3>1 DEF Window
      <4> QED
        BY <1>1, <4>1, WholeNext
    <3> QED
      BY <1>1, <3>1, <3>2, <3>3
  <2> QED
    BY <1>2, <2>1, <2>2
<1> HIDE DEF h
<1>4. Appended(h) = [h EXCEPT !.off = keep]
  BY DEF Appended
<1>5. Window(Appended(h)) = Whole(keep)
  BY <1>1, <1>3, <1>4, HostNext
<1>6. Appended(h) \in [keys : SUBSET Int, kend : Nat, off : Nat] /\ Appended(h).off = keep /\ Appended(h).kend <= keep
  BY <1>1, <1>3, <1>4
<1> QED
  BY <1>3, <1>5, <1>6 DEF h

LEMMA BoxDraftsKeeps ==
  ASSUME RingInv, BoxDrafts
  PROVE  RingInv'
<1> DEFINE h == Synced(TRUE)
<1>1. PICK proposal \in {None} \cup {Block(n, "copy") : n \in 2..MaxRows} :
        LET frame == Stepd(ver, IF proposal = None THEN "box" ELSE "explicit", proposal, FALSE)
        IN  /\ host' = Appended(h)
            /\ Sent(Append(RingFirst(h).frames, frame))
            /\ blk' = proposal /\ phase' = IF proposal = None THEN "resolve" ELSE "wait"
  BY DEF BoxDrafts
<1> DEFINE frame == Stepd(ver, IF proposal = None THEN "box" ELSE "explicit", proposal, FALSE)
           fs == Append(RingFirst(h).frames, frame)
<1>2. /\ phase = "prepare" /\ UNCHANGED <<base, keep, mring, reply>>
      /\ macCurrent' = FALSE /\ ready' = None
  BY DEF BoxDrafts, Kept, Preparing
<1>3. reply = None /\ \A i \in 1..Len(wire) : OfRing(wire[i])
  BY <1>2 DEF RingInv, Traffic, Quiet
<1>4. PICK S : wire \in Seq(S)
  BY DEF RingInv, Traffic
<1>5. /\ host' \in [keys : SUBSET Int, kend : Nat, off : Nat] /\ host'.kend <= host'.off
      /\ host'.off = keep /\ Window(host') = Whole(keep)
  BY <1>1, SyncedHost DEF BoxDrafts
<1>6. Positions' /\ HostInv'
  BY <1>1, <1>2, <1>5 DEF RingInv, Positions, Phases, HostInv
<1>7. Rings'
  <2>1. phase' = "wait" => blk'.by # "mac"
    BY <1>1 DEF Block
  <2>2. Follows(keep)'
    BY <1>2, <1>5 DEF RingInv, Positions, Follows
  <2>3. phase' \in {"resolve", "wait"}
    BY <1>1
  <2> HIDE DEF h, frame, fs
  <2> QED
    BY <2>1, <2>2, <2>3 DEF Rings
<1>8. Traffic'
  <2> DEFINE c == RingFrame(IF ver = None THEN Appended(h) ELSE h)
  <2>1. /\ OfRing(c) /\ fs \in Seq({c, frame}) /\ fs[Len(fs)] = frame
        /\ \A i \in 1..(Len(fs) - 1) : fs[i] = c
    BY RingFirstFrames
  <2>2. Sent(fs)
    BY <1>1
  <2>3. proposal = None => OfDraft(frame)
    BY DEF Stepd, OfDraft
  <2> HIDE DEF c, fs, frame, h
  <2>4. /\ \E R : wire' \in Seq(R)
        /\ \A i \in 1..(Len(wire') - 1) : OfRing(wire'[i])
        /\ \A i \in 1..Len(wire') : OfRing(wire'[i]) \/ \E j \in 1..Len(fs) : wire'[i] = fs[j]
    BY <1>3, <1>4, <2>1, <2>2, SentShape
  <2>5. \A j \in 1..Len(fs) : fs[j] \in {c, frame}
    BY <2>1, ElementOfSeq
  <2>6. proposal = None => \A i \in 1..Len(wire') : OfRing(wire'[i]) \/ OfDraft(wire'[i])
    BY <2>1, <2>3, <2>4, <2>5
  <2> QED
    BY <1>1, <1>2, <1>3, <2>4, <2>6 DEF Traffic, Quiet
<1> QED
  BY <1>6, <1>7, <1>8 DEF RingInv

LEMMA MacDraftsKeeps ==
  ASSUME RingInv, MacDrafts
  PROVE  RingInv'
<1> DEFINE h == Synced(FALSE)
           r == RingFirst(h).frames
<1>1. /\ phase = "prepare" /\ phase' = "draft" /\ UNCHANGED <<base, keep, blk, reply, ready>>
      /\ MacRing(h) /\ host' = Appended(h)
      /\ Sent(<<>>) \/ Sent(r)
  BY DEF MacDrafts, Kept, Preparing, encoder
<1>2. reply = None /\ \A i \in 1..Len(wire) : OfRing(wire[i])
  BY <1>1 DEF RingInv, Traffic, Quiet
<1>3. PICK S : wire \in Seq(S)
  BY DEF RingInv, Traffic
<1>4. /\ host' \in [keys : SUBSET Int, kend : Nat, off : Nat] /\ host'.kend <= host'.off
      /\ host'.off = keep /\ Window(host') = Whole(keep) /\ h.off = base /\ Window(h) = Whole(base)
  BY <1>1, SyncedHost DEF MacDrafts
<1>5. macCurrent' = TRUE /\ mring' = Whole(base)
  BY <1>1, <1>4 DEF MacRing, RingInv, Rings, Follows, Positions
<1>6. Positions' /\ HostInv' /\ Rings'
  BY <1>1, <1>4, <1>5 DEF RingInv, Positions, Phases, HostInv, Rings
<1>7. Traffic'
  <2> DEFINE c == RingFrame(IF ver = None THEN Appended(h) ELSE h)
  <2>1. OfRing(c) /\ r \in Seq({c}) /\ \A i \in 1..Len(r) : r[i] = c
    BY RingFirstFrames
  <2> HIDE DEF c, r, h
  <2>2. /\ \E R : wire' \in Seq(R)
        /\ \A i \in 1..(Len(wire') - 1) : OfRing(wire'[i])
        /\ \A i \in 1..Len(wire') : OfRing(wire'[i])
    <3>1. CASE Sent(<<>>)
      <4>1. wire' = wire
        BY <1>3, <3>1, ConcatEmptySeq DEF Sent
      <4> QED
        BY <1>2, <1>3, <4>1, LenProperties
    <3>2. CASE Sent(r)
      <4>1. \A i \in 1..(Len(r) - 1) : OfRing(r[i])
        BY <2>1, LenProperties
      <4>2. /\ \E R : wire' \in Seq(R)
            /\ \A i \in 1..(Len(wire') - 1) : OfRing(wire'[i])
            /\ \A i \in 1..Len(wire') : OfRing(wire'[i]) \/ \E j \in 1..Len(r) : wire'[i] = r[j]
        BY <1>2, <1>3, <2>1, <3>2, <4>1, SentShape
      <4> QED
        BY <2>1, <4>2
    <3> QED
      BY <1>1, <3>1, <3>2
  <2> QED
    BY <1>1, <1>2, <2>2 DEF Traffic, Quiet, RingInv
<1> QED
  BY <1>6, <1>7 DEF RingInv

-----------------------------------------------------------------------------
(* The block goes out, comes back and is verified.                         *)

(* One frame on a link that carried RINGs only.                            *)
LEMMA SendOne ==
  ASSUME RingInv, Quiet(phase, ready), NEW f, Sent(<<f>>)
  PROVE  (\E R : wire' \in Seq(R)) /\ \A i \in 1..(Len(wire') - 1) : OfRing(wire'[i])
<1>1. PICK S : wire \in Seq(S)
  BY DEF RingInv, Traffic
<1>2. <<f>> \in Seq({f}) /\ Len(<<f>>) = 1
  OBVIOUS
<1>3. \A i \in 1..(Len(<<f>>) - 1) : OfRing(<<f>>[i])
  BY <1>2
<1>4. \A i \in 1..Len(wire) : OfRing(wire[i])
  BY DEF RingInv, Traffic
<1> QED
  BY <1>1, <1>2, <1>3, <1>4, SentShape

LEMMA MacDraftKeeps ==
  ASSUME RingInv, MacDraft
  PROVE  RingInv'
<1>1. /\ phase = "draft" /\ phase' = "issue" /\ mring' = Newest(mring \cup base..(keep - 1), keep)
      /\ UNCHANGED <<base, keep, host, macCurrent, ready, wire, reply>>
  BY DEF MacDraft, encoder, channel
<1>2. mring' = Whole(keep) /\ macCurrent
  BY <1>1, WholeNext DEF RingInv, Rings, Positions
<1> QED
  BY <1>1, <1>2 DEF RingInv, Positions, Phases, HostInv, Window, Rings, Follows, Traffic, Quiet

LEMMA PresendKeeps ==
  ASSUME RingInv, Presend
  PROVE  RingInv'
<1>1. /\ phase = "issue" /\ phase' = "wait" /\ ready' = None
      /\ UNCHANGED <<base, keep, blk, host, mring, macCurrent, reply>>
  BY DEF Presend, rings
<1>2. PICK f : Sent(<<f>>)
  BY DEF Presend
<1>3. Positions' /\ HostInv' /\ Rings'
  BY <1>1 DEF RingInv, Positions, Phases, HostInv, Window, Rings, Follows
<1>4. Traffic'
  <2>1. Quiet(phase, ready)
    BY <1>1 DEF Quiet
  <2> QED
    BY <1>1, <1>2, <2>1, SendOne DEF RingInv, Traffic, Quiet
<1> QED
  BY <1>3, <1>4 DEF RingInv

LEMMA RedraftKeeps ==
  ASSUME RingInv, Redraft
  PROVE  RingInv'
<1>1. /\ phase = "redraft" /\ mring' = (IF macCurrent THEN mring ELSE Window(host)) /\ macCurrent' = TRUE
      /\ UNCHANGED <<base, keep, host, ready, reply>>
  BY DEF Redraft
<1>2. mring' = Whole(keep)
  BY <1>1 DEF RingInv, Rings, Follows, HostInv, Positions
<1>3. \/ phase' = "issue" /\ wire' = wire
      \/ phase' = "wait" /\ \E f : Sent(<<f>>)
  BY DEF Redraft
<1>4. Positions' /\ HostInv' /\ Rings'
  BY <1>1, <1>2, <1>3 DEF RingInv, Positions, Phases, HostInv, Window, Rings, Follows
<1>5. Traffic'
  <2>1. Quiet(phase, ready) /\ ready = None
    BY <1>1 DEF Quiet, RingInv, Traffic
  <2>2. CASE phase' = "issue" /\ wire' = wire
    BY <1>1, <2>1, <2>2 DEF RingInv, Traffic, Quiet
  <2>3. CASE phase' = "wait" /\ \E f : Sent(<<f>>)
    BY <1>1, <2>1, <2>3, SendOne DEF RingInv, Traffic, Quiet
  <2> QED
    BY <1>3, <2>2, <2>3
<1> QED
  BY <1>4, <1>5 DEF RingInv

LEMMA ReceiveKeeps ==
  ASSUME RingInv, Receive
  PROVE  RingInv'
<1>1. /\ phase = "wait" /\ phase' = "verify" /\ wire' = wire
      /\ UNCHANGED <<base, keep, blk, host, mring, macCurrent>>
  BY DEF Receive, Taken, rings, channel
<1>2. reply' = None /\ \A i \in 1..Len(wire) : OfRing(wire[i])
  <2>1. CASE ready # None
    BY <1>1, <2>1 DEF Receive, channel, RingInv, Traffic, Quiet
  <2>2. CASE ready = None
    <3>1. reply # None /\ reply' = None
      BY <2>2 DEF Receive, Answered, Taken
    <3> QED
      BY <3>1 DEF RingInv, Traffic
  <2> QED
    BY <2>1, <2>2
<1>3. Positions' /\ HostInv' /\ Rings'
  BY <1>1 DEF RingInv, Positions, Phases, HostInv, Window, Rings, Follows
<1>4. Traffic'
  BY <1>1, <1>2 DEF RingInv, Traffic, Quiet
<1> QED
  BY <1>3, <1>4 DEF RingInv

LEMMA ResolveKeeps ==
  ASSUME RingInv, Resolve
  PROVE  RingInv'
<1>1. /\ phase = "resolve" /\ reply # None /\ ~reply.err /\ reply' = None /\ wire' = wire
      /\ UNCHANGED <<base, keep, host, mring, macCurrent>>
      /\ \/ phase' = "redraft" /\ UNCHANGED ready
         \/ phase' = "wait" /\ blk' = reply.blk
  BY DEF Resolve, Answered, Taken, rings
<1>2. wire = <<>> /\ reply.blk.by # "mac" /\ ready = None
  BY <1>1 DEF RingInv, Traffic
<1>3. Positions' /\ HostInv' /\ Rings'
  BY <1>1, <1>2 DEF RingInv, Positions, Phases, HostInv, Window, Rings, Follows
<1>4. Traffic'
  BY <1>1, <1>2 DEF RingInv, Traffic, Quiet
<1> QED
  BY <1>3, <1>4 DEF RingInv

LEMMA CommitKeeps ==
  ASSUME RingInv, Commit
  PROVE  RingInv'
<1>1. /\ phase = "verify" /\ phase' = "prepare" /\ base' = keep /\ \E a \in 0..(blk.len - 1) : keep' = keep + a + 1
      /\ UNCHANGED <<host, mring, macCurrent, ready, wire, reply>>
  BY DEF Commit, rings, encoder, channel
<1>2. keep' \in Nat /\ keep < keep'
  BY <1>1 DEF RingInv, Positions
<1>3. Positions' /\ HostInv' /\ Rings'
  BY <1>1, <1>2 DEF RingInv, Positions, Phases, HostInv, Window, Rings, Follows
<1>4. Traffic'
  BY <1>1 DEF RingInv, Traffic, Quiet
<1> QED
  BY <1>3, <1>4 DEF RingInv

-----------------------------------------------------------------------------
(* Loss, the box, and the end.                                             *)
LEMMA RecoverKeeps ==
  ASSUME RingInv, Recover
  PROVE  RingInv'
<1>1. /\ phase \in {"wait", "resolve"} /\ reply' = None /\ ready' = None
      /\ UNCHANGED <<base, keep, blk, host, mring, macCurrent>>
  BY DEF Recover, Failed, Reopened, rings
<1>2. \/ phase' = "wait" /\ phase = "wait" /\ \E f : wire' = <<f>>
      \/ phase' = "resolve" /\ wire' = <<RingFrame(host), Kickoff>>
      \/ phase' = "redraft" /\ wire' = <<>>
  BY <1>1 DEF Recover
<1>3. Positions' /\ HostInv' /\ Rings'
  BY <1>1, <1>2 DEF RingInv, Positions, Phases, HostInv, Window, Rings, Follows
<1>4. Traffic'
  <2>1. CASE phase' = "wait" /\ \E f : wire' = <<f>>
    <3>1. PICK f : wire' = <<f>>
      BY <2>1
    <3>2. wire' \in Seq({f}) /\ Len(wire') = 1
      BY <3>1
    <3>3. 1..(Len(wire') - 1) = {}
      BY <3>2
    <3>4. ~Quiet(phase, ready)' /\ phase' = "wait"
      BY <1>1, <2>1 DEF Quiet
    <3> QED
      BY <1>1, <3>2, <3>3, <3>4 DEF Traffic
  <2>2. CASE phase' = "resolve" /\ wire' = <<RingFrame(host), Kickoff>>
    <3>1. OfRing(RingFrame(host)) /\ OfDraft(Kickoff)
      BY DEF OfRing, OfDraft, RingFrame, Kickoff, Stepd
    <3> DEFINE r == RingFrame(host)
               k == Kickoff
    <3> HIDE DEF r, k
    <3>2. wire' = <<r, k>>
      BY <2>2 DEF r, k
    <3>3. wire' \in Seq({r, k}) /\ Len(wire') = 2 /\ wire'[1] = r /\ wire'[2] = k
      BY <3>2
    <3>4. OfRing(r) /\ OfDraft(k)
      BY <3>1 DEF r, k
    <3>5. \A i \in 1..(Len(wire') - 1) : OfRing(wire'[i])
      BY <3>3, <3>4
    <3>6. \A i \in 1..Len(wire') : OfRing(wire'[i]) \/ OfDraft(wire'[i])
      BY <3>3, <3>4
    <3>7. ~Quiet(phase, ready)' /\ phase' = "resolve"
      BY <2>2 DEF Quiet
    <3> QED
      BY <1>1, <3>3, <3>5, <3>6, <3>7 DEF Traffic
  <2>3. CASE phase' = "redraft" /\ wire' = <<>>
    BY <1>1, <2>3 DEF Traffic, Quiet
  <2> QED
    BY <1>2, <2>1, <2>2, <2>3
<1> QED
  BY <1>3, <1>4 DEF RingInv

LEMMA EndKeeps ==
  ASSUME RingInv, End
  PROVE  RingInv'
<1>1. phase' = "ended" /\ UNCHANGED <<base, keep, blk, host, mring, macCurrent, ready, wire, reply>>
  BY DEF End, rings, encoder, channel
<1> QED
  BY <1>1 DEF RingInv, Positions, Phases, HostInv, Window, Rings, Traffic, Quiet

LEMMA TailShape ==
  ASSUME NEW S, wire \in Seq(S), wire # <<>>, wire' = Tail(wire)
  PROVE  /\ wire' \in Seq(S) /\ Len(wire') = Len(wire) - 1
         /\ \A i \in 1..Len(wire') : wire'[i] = wire[i + 1] /\ i + 1 \in 1..Len(wire)
         /\ 1 \in 1..Len(wire)
<1>1. Len(wire) \in Nat \ {0}
  BY LenProperties, EmptySeq
<1>2. /\ wire' \in Seq(S) /\ Len(wire') = Len(wire) - 1
      /\ \A i \in 1..Len(wire') : wire'[i] = wire[i + 1]
  BY <1>1, HeadTailProperties
<1> QED
  BY <1>1, <1>2

LEMMA HandleRingKeeps ==
  ASSUME RingInv, HandleRing
  PROVE  RingInv'
<1>1. /\ wire # <<>> /\ wire' = Tail(wire)
      /\ UNCHANGED <<base, keep, phase, blk, host, mring, macCurrent, ready, reply>>
  BY DEF HandleRing, Arrived, Handled, request, rings, encoder
<1>2. PICK S : wire \in Seq(S)
  BY DEF RingInv, Traffic
<1>3. reply = None
  BY <1>1 DEF RingInv, Traffic
<1>4. /\ wire' \in Seq(S) /\ Len(wire') = Len(wire) - 1
      /\ \A i \in 1..Len(wire') : wire'[i] = wire[i + 1] /\ i + 1 \in 1..Len(wire)
  BY <1>1, <1>2, TailShape
<1>5. \A i \in 1..(Len(wire') - 1) : OfRing(wire'[i])
  <2> TAKE i \in 1..(Len(wire') - 1)
  <2>1. Len(wire) \in Nat
    BY <1>2, LenProperties
  <2>2. i \in 1..Len(wire') /\ i + 1 \in 1..(Len(wire) - 1)
    BY <1>4, <2>1
  <2> QED
    BY <1>4, <2>2 DEF RingInv, Traffic
<1>6. Positions' /\ HostInv' /\ Rings'
  BY <1>1 DEF RingInv, Positions, HostInv, Window, Rings, Follows
<1>7. Traffic'
  BY <1>1, <1>3, <1>4, <1>5 DEF RingInv, Traffic, Quiet
<1> QED
  BY <1>6, <1>7 DEF RingInv

(* A step's frame is the last; what is drafted on request of resolve is    *)
(* not the Mac's.                                                          *)
LEMMA HandleStepKeeps ==
  ASSUME RingInv, HandleStepd \/ HandleStep
  PROVE  RingInv'
<1>1. /\ wire # <<>> /\ wire' = Tail(wire) /\ ~OfRing(wire[1])
      /\ UNCHANGED <<base, keep, phase, blk, host, mring, macCurrent, ready>>
  BY DEF HandleStepd, HandleStep, Arrived, Frame, Handled, request, rings, encoder, OfRing
<1>2. PICK S : wire \in Seq(S)
  BY DEF RingInv, Traffic
<1>3. Len(wire) \in Nat \ {0}
  BY <1>1, <1>2, LenProperties, EmptySeq
<1>4. Len(wire) = 1
  <2>1. \A i \in 1..(Len(wire) - 1) : OfRing(wire[i])
    BY DEF RingInv, Traffic
  <2>2. 1 \notin 1..(Len(wire) - 1)
    BY <1>1, <2>1
  <2>3. \A n \in Nat \ {0} : 1 \notin 1..(n - 1) => n = 1
    OBVIOUS
  <2> QED
    BY <1>3, <2>2, <2>3
<1>5. wire' = <<>>
  <2>1. wire' \in Seq(S) /\ Len(wire') = 0
    BY <1>1, <1>2, <1>4, TailShape
  <2> QED
    BY <2>1, EmptySeq
<1>6. ~Quiet(phase, ready)
  BY <1>1, <1>4 DEF RingInv, Traffic
<1>7. phase = "resolve" => (reply' # None /\ ~reply'.err => reply'.blk.by # "mac")
  <2> SUFFICES ASSUME phase = "resolve" PROVE reply'.err \/ reply'.blk.by # "mac"
    OBVIOUS
  <2>1. Frame.tag = "STEPD" /\ Frame.mode = "box"
    BY <1>1, <1>4 DEF RingInv, Traffic, OfDraft, Frame
  <2>2. HandleStepd
    BY <2>1 DEF HandleStep, Arrived
  <2>3. CASE Rejected
    BY <2>3 DEF Rejected, Error, NoReply
  <2>4. CASE Stepped
    <3>1. PICK b : reply'.blk = b /\ b \in {Block(n, "box") : n \in Int} \cup {Block(2, "filler"), Block(1, "bonus")}
      BY <2>1, <2>4 DEF Stepped
    <3> QED
      BY <3>1 DEF Block
  <2> QED
    BY <2>2, <2>3, <2>4 DEF HandleStepd
<1>8. Positions' /\ HostInv' /\ Rings'
  BY <1>1 DEF RingInv, Positions, HostInv, Window, Rings, Follows
<1>9. Traffic'
  BY <1>1, <1>5, <1>6, <1>7 DEF RingInv, Traffic, Quiet
<1> QED
  BY <1>8, <1>9 DEF RingInv

LEMMA RestKeeps ==
  ASSUME RingInv, KillSwitch \/ Break \/ UNCHANGED vars
  PROVE  RingInv'
<1>1. /\ UNCHANGED <<base, keep, phase, blk, host, mring, macCurrent, ready>>
      /\ UNCHANGED <<wire, reply>> \/ (wire' = <<>> /\ reply' = None)
  BY DEF KillSwitch, Break, vars, request, rings, encoder, channel
<1>2. Positions' /\ HostInv' /\ Rings'
  BY <1>1 DEF RingInv, Positions, HostInv, Window, Rings, Follows
<1>3. Traffic'
  <2>1. CASE UNCHANGED <<wire, reply>>
    BY <1>1, <2>1 DEF RingInv, Traffic, Quiet
  <2>2. CASE wire' = <<>> /\ reply' = None
    <3>1. wire' \in Seq({}) /\ Len(wire') = 0
      BY <2>2
    <3>2. 1..(Len(wire') - 1) = {} /\ 1..Len(wire') = {}
      BY <3>1
    <3> QED
      BY <1>1, <2>2, <3>1, <3>2 DEF RingInv, Traffic
  <2> QED
    BY <1>1, <2>1, <2>2
<1> QED
  BY <1>2, <1>3 DEF RingInv

LEMMA RingInvStep == RingInv /\ [Next]_vars => RingInv'
<1> SUFFICES ASSUME RingInv, [Next]_vars PROVE RingInv'
  OBVIOUS
<1>1. CASE Mac
  <2>1. CASE Prepare
    BY <2>1, PlainKeeps, BoxDraftsKeeps, MacDraftsKeeps DEF Prepare
  <2> QED
    BY <1>1, <2>1, MacDraftKeeps, PresendKeeps, RedraftKeeps, ReceiveKeeps, ResolveKeeps, CommitKeeps,
       RecoverKeeps, EndKeeps DEF Mac
<1>2. CASE Box
  BY <1>2, HandleRingKeeps, HandleStepKeeps DEF Box
<1> QED
  BY <1>1, <1>2, RestKeeps DEF Next

LEMMA RingInvInit == Init => RingInv
<1> SUFFICES ASSUME Init PROVE RingInv
  OBVIOUS
<1>1. base \in Nat /\ keep = base + 1
  BY RingAssumption DEF Init
<1>2. Positions
  BY <1>1 DEF Init, Positions, Phases
<1>3. HostInv
  <2>1. host = [keys |-> {}, kend |-> 0, off |-> 0]
    BY DEF Init
  <2>2. Window(host) = {} /\ Whole(0) = {}
    BY <2>1 DEF Window, Whole, Newest
  <2> QED
    BY <2>1, <2>2 DEF HostInv
<1>4. Rings
  BY DEF Init, Rings, Follows
<1>5. Traffic
  BY DEF Init, Traffic, Quiet
<1> QED
  BY <1>2, <1>3, <1>4, <1>5 DEF RingInv

(* Whenever the Mac drafts a block, the ring it drafts from holds exactly  *)
(* the newest committed positions, although the box drafted the blocks     *)
(* before and their rows passed by the Mac's ring.                         *)
THEOREM RingMacWhole == Spec => []MacRingWhole
<1>1. RingInv => MacRingWhole
  BY DEF RingInv, Rings, Follows, MacRingWhole
<1> QED
  BY <1>1, RingInvInit, RingInvStep, PTL DEF Spec

-----------------------------------------------------------------------------
(* The box's side: what it holds and what is on its way to it or back.     *)
Stepping(f) == ~OfRing(f)
Frames == {wire[i] : i \in 1..Len(wire)}
LastFrame == wire[Len(wire)]

Types ==
  /\ blk \in Blocks \cup {None} /\ ver \in [blk : Blocks, a : Nat, cut : BOOLEAN] \cup {None}
  /\ bpend \in [base : Nat, blk : Blocks] \cup {None} /\ blen \in Nat /\ ringOff \in Nat
  /\ primed \in BOOLEAN /\ ringOk \in BOOLEAN

(* The frames of a cycle: a RING at most, then the step.                   *)
Settled == phase \in {"prepare", "redraft", "verify"} \/ (phase = "wait" /\ ready # None)
Shape ==
  /\ Len(wire) <= 2
  /\ Settled => wire = <<>>
  /\ phase \in {"draft", "issue"} => Len(wire) <= 1
  /\ explicit # None => phase \in {"draft", "issue", "ended"}
  /\ ready # None => pending = None

(* The box's ring, the rings and rows on their way to it, and what it      *)
(* answered.                                                               *)
Rows(f) ==
  IF OfRing(f) THEN f.off \in Nat /\ f.rows = Whole(f.off)
  ELSE f.keep \in Nat /\ (f.taps = {} \/ \E a \in 0..(f.keep - 1) : f.taps = a..(f.keep - 1))

BoxRing ==
  /\ ringOk => bring = Whole(ringOff)
  /\ \A f \in Frames : Rows(f)
  /\ DraftsFromWholeRing

(* The step the box has pending is the one the Mac verified, or is about   *)
(* to; a step on its way is one the box will accept.                       *)
Within(k) == (IF bpend # None THEN bpend.base ELSE blen) <= k /\ k <= blen
Verified == bpend # None /\ bpend.blk = ver.blk /\ keep = bpend.base + ver.a + 1
Holds(b) == bpend = [base |-> keep, blk |-> b] /\ blen = keep + b.len
Fits(b) == b \in Blocks /\ keep + b.len <= MaxPos

Placed ==
  /\ phase \in {"prepare", "draft", "issue", "redraft"} => Within(keep)
  /\ ver # None /\ (phase = "prepare" \/ (phase \in {"draft", "issue"} /\ explicit # None)) => Verified
  /\ phase = "verify" \/ (phase = "wait" /\ ready # None) => Holds(blk)
  /\ phase \in {"issue", "wait", "verify"} => Fits(blk)
  /\ phase = "resolve" => keep < MaxPos
  /\ phase = "issue" \/ (phase = "wait" /\ ready = None) => blk.by # "box"

Accepts(f) ==
  /\ f.keep + (IF f.blk = None THEN 1 ELSE f.blk.len) <= MaxPos
  /\ IF f.ver # None THEN bpend # None /\ bpend.blk = f.ver.blk /\ f.keep = bpend.base + f.ver.a + 1
     ELSE Within(f.keep)

Drafting(f) == f.tag = "STEPD" /\ f.mode = "box" /\ f.blk = None
Carrying(f) == f.blk \in Blocks /\ f.blk.by # "box" /\ ((f.tag = "STEPD" /\ f.mode = "explicit") \/ f.tag = "STEP")

Carried(f) ==
  Stepping(f) =>
    /\ f.keep \in Nat /\ Accepts(f) /\ (Drafting(f) \/ Carrying(f))
    /\ phase \in {"wait", "resolve"} => f.keep = keep
    /\ phase = "wait" => f.blk = blk

Answering ==
  reply # None =>
    /\ ~reply.err
    /\ phase \in {"wait", "resolve"} => Holds(reply.blk) /\ reply.blk \in Blocks
    /\ phase = "wait" => reply.blk = blk
    /\ phase = "resolve" /\ reply.mode # "bonus" => Fits(reply.blk)

SessionAgrees ==
  /\ Placed /\ Answering /\ (\A f \in Frames : Carried(f))
  /\ sticky \notin {"box_error", "ring_gap"}

(* A box ring the Mac takes for current ends where the host's copy ends,   *)
(* when what is on its way has arrived.                                    *)
RingEnds(e) == IF wire # <<>> /\ OfRing(wire[1]) THEN wire[1].off = e ELSE ringOk => ringOff = e

FollowsUp(f) ==
  IF f.taps # {} THEN f.keep = host.off /\ (f.tag = "STEPD" => f.ver # None)
  ELSE (f.tag = "STEPD" /\ f.ver # None) \/ RingEnds(host.off)

Stashed == explicit.keep = keep /\ ~explicit.noTaps /\ host.off = keep /\ sticky = None /\ granted

Current ==
  /\ Settled => RingEnds(host.off)
  /\ phase \in {"draft", "issue"} /\ (explicit = None \/ ver = None) => RingEnds(host.off)
  /\ phase \in {"draft", "issue"} /\ explicit # None => Stashed
  /\ phase \in {"wait", "resolve"} =>
       IF wire = <<>> THEN RingEnds(host.off) ELSE Stepping(LastFrame) /\ FollowsUp(LastFrame)

Follow ==
  /\ primed \/ phase = "resolve" => ~disabled
  /\ phase = "prepare" /\ ver = None => ~primed
  /\ link /\ primed => Current

AgreeInv == RingInv /\ Types /\ Shape /\ BoxRing /\ SessionAgrees /\ Follow

-----------------------------------------------------------------------------
LEMMA WireSeq == RingInv => \E S : wire \in Seq(S)
BY DEF RingInv, Traffic

LEMMA BlockTypes ==
  ASSUME NEW n \in Nat \ {0}, NEW who \in {"mac", "box", "copy", "filler", "bonus"}
  PROVE  Block(n, who) \in Blocks /\ Block(n, who) # None /\ Block(n, who).len = n /\ Block(n, who).by = who
<1>1. Block(n, who) = [len |-> n, by |-> who]
  BY DEF Block
<1>2. Block(n, who) \in Blocks
  BY <1>1 DEF Blocks
<1> QED
  BY <1>1, <1>2, RingAssumption

LEMMA EmptyFrames == wire = <<>> => Frames = {}
BY DEF Frames

(* A step behind a RING at most.                                           *)
LEMMA SentStep ==
  ASSUME NEW S, wire \in Seq(S), Len(wire) <= 1, NEW f, Sent(<<f>>)
  PROVE  /\ Len(wire') <= 2 /\ Frames' \subseteq Frames \cup {f}
         /\ link => /\ wire' # <<>> /\ LastFrame' = f
                    /\ wire # <<>> => wire'[1] = wire[1]
                    /\ wire = <<>> => wire'[1] = f
<1>0. Len(wire) \in Nat
  BY LenProperties
<1>1. CASE ~link
  BY <1>1, <1>0 DEF Sent, Frames
<1>2. CASE link
  <2>1. wire' = wire \o <<f>>
    BY <1>2 DEF Sent
  <2>2. CASE Len(wire) = 0
    <3>1. wire = <<>>
      BY <2>2, EmptySeq
    <3>2. wire' = <<f>>
      BY <2>1, <3>1
    <3> QED
      BY <3>1, <3>2, <1>2 DEF Frames, LastFrame
  <2>3. CASE Len(wire) = 1
    <3>0. wire # <<>>
      BY <2>3, EmptySeq
    <3>1. wire' = Append(wire, f)
      BY <2>1
    <3>2. Len(wire') = 2 /\ wire'[1] = wire[1] /\ wire'[2] = f
      <4>1. f \in S \cup {f} /\ S \subseteq S \cup {f}
        OBVIOUS
      <4>2. wire \in Seq(S \cup {f})
        BY <4>1, SeqDef
      <4>3. /\ Len(Append(wire, f)) = Len(wire) + 1
            /\ \A i \in 1..Len(wire) : Append(wire, f)[i] = wire[i]
            /\ Append(wire, f)[Len(wire) + 1] = f
        BY <4>1, <4>2, AppendProperties
      <4> QED
        BY <2>3, <3>1, <4>3
    <3>4. wire' # <<>>
      BY <3>2
    <3>3. Frames' \subseteq Frames \cup {f}
      BY <2>3, <3>2 DEF Frames
    <3> QED
      BY <3>0, <3>2, <3>3, <3>4 DEF LastFrame
  <2> QED
    BY <1>0, <2>2, <2>3
<1> QED
  BY <1>1, <1>2

LEMMA ListFrames ==
  ASSUME NEW c, NEW f
  PROVE  /\ wire' = <<>> => Frames' = {} /\ Len(wire') = 0
         /\ wire' = <<f>> => Frames' = {f} /\ Len(wire') = 1 /\ wire'[1] = f /\ wire' # <<>>
         /\ wire' = <<c, f>> => /\ Frames' = {c, f} /\ Len(wire') = 2 /\ wire'[1] = c /\ wire'[2] = f
                               /\ wire' # <<>>
<1>1. CASE wire' = <<>>
  <2>1. Len(wire') = 0
    BY <1>1
  <2> QED
    BY <1>1, <2>1 DEF Frames
<1>2. CASE wire' = <<f>>
  <2>1. Len(wire') = 1 /\ wire'[1] = f /\ wire' # <<>>
    BY <1>2
  <2>2. 1..1 = {1}
    OBVIOUS
  <2> QED
    BY <2>1, <2>2, <1>2 DEF Frames
<1>3. CASE wire' = <<c, f>>
  <2>1. Len(wire') = 2 /\ wire'[1] = c /\ wire'[2] = f /\ wire' # <<>>
    BY <1>3
  <2>2. 1..2 = {1, 2}
    OBVIOUS
  <2>3. Frames' = {wire'[1], wire'[2]}
    BY <2>1, <2>2 DEF Frames
  <2> QED
    BY <2>1, <2>3, <1>3
<1> QED
  BY <1>1, <1>2, <1>3

(* The first sends of a cycle find the link empty.                         *)
LEMMA SentFirst ==
  ASSUME wire = <<>>, NEW c, NEW r, r \in {<<>>, <<c>>}, NEW f,
         Sent(Append(r, f)) \/ Sent(r)
  PROVE  /\ Sent(r) => wire' = <<>> \/ (r = <<c>> /\ wire' = <<c>>)
         /\ Sent(r) /\ link => wire' = r
         /\ Sent(Append(r, f)) => wire' = <<>> \/ (r = <<>> /\ wire' = <<f>>) \/ (r = <<c>> /\ wire' = <<c, f>>)
         /\ Sent(Append(r, f)) /\ link => wire' # <<>>
<1>1. CASE r = <<>>
  <2>1. Append(r, f) = <<f>> /\ <<>> \o <<f>> = <<f>> /\ <<>> \o <<>> = <<>> /\ <<f>> # <<>>
    BY <1>1
  <2> QED
    BY <1>1, <2>1 DEF Sent
<1>2. CASE r = <<c>>
  <2>1. Append(r, f) = <<c, f>> /\ <<c, f>> # <<>>
    <3>1. Append(<<c>>, f) = <<c, f>>
      <4>1. <<c>> \in Seq({c, f}) /\ Len(<<c>>) = 1 /\ <<c>>[1] = c
        OBVIOUS
      <4>2. /\ Append(<<c>>, f) \in Seq({c, f}) /\ Len(Append(<<c>>, f)) = 2
            /\ Append(<<c>>, f)[1] = c /\ Append(<<c>>, f)[2] = f
        BY <4>1, AppendProperties
      <4>3. <<c, f>> \in Seq({c, f}) /\ Len(<<c, f>>) = 2 /\ <<c, f>>[1] = c /\ <<c, f>>[2] = f
        OBVIOUS
      <4>4. \A i \in 1..2 : i = 1 \/ i = 2
        OBVIOUS
      <4> DEFINE p == Append(<<c>>, f)
                 q == <<c, f>>
      <4> HIDE DEF p, q
      <4>5. p \in Seq({c, f}) /\ q \in Seq({c, f}) /\ Len(p) = Len(q) /\ \A i \in 1..Len(p) : p[i] = q[i]
        BY <4>2, <4>3, <4>4 DEF p, q
      <4>6. p = q
        BY <4>5, SeqEqual
      <4> QED
        BY <4>6 DEF p, q
    <3>2. <<c, f>> # <<>>
      OBVIOUS
    <3> QED
      BY <1>2, <3>1, <3>2, Zenon
  <2>2. <<>> \o <<c, f>> = <<c, f>> /\ <<>> \o <<c>> = <<c>>
    <3>1. <<c, f>> \in Seq({c, f})
      OBVIOUS
    <3>2. <<c>> \in Seq({c})
      OBVIOUS
    <3>3. <<>> \o <<c, f>> = <<c, f>>
      BY <3>1, ConcatEmptySeq, Zenon
    <3>4. <<>> \o <<c>> = <<c>>
      BY <3>2, ConcatEmptySeq, Zenon
    <3> QED
      BY <3>3, <3>4
  <2> QED
    BY <1>2, <2>1, <2>2 DEF Sent
<1> QED
  BY <1>1, <1>2

LEMMA SentRing ==
  ASSUME wire = <<>>, NEW c, NEW r, r \in {<<>>, <<c>>}, Sent(r)
  PROVE  (wire' = <<>> \/ (r = <<c>> /\ wire' = <<c>>)) /\ (link => wire' = r)
<1>1. Sent(Append(r, c)) \/ Sent(r)
  OBVIOUS
<1> QED
  BY <1>1, SentFirst, Zenon

(* A step that leaves the link, the box and the rings alone.               *)
LEMMA BoxRingStill ==
  ASSUME AgreeInv, UNCHANGED <<bring, ringOk, ringOff>>, UNCHANGED reply \/ reply' = None,
         \A f \in Frames' : Rows(f)
  PROVE  BoxRing'
BY DEF AgreeInv, BoxRing, DraftsFromWholeRing, Rows, OfRing, Whole, Newest

LEMMA RingEndsStill ==
  ASSUME UNCHANGED <<wire, ringOk, ringOff>>, NEW e
  PROVE  RingEnds(e) <=> RingEnds(e)'
BY DEF RingEnds, OfRing

(* A step sent behind it leaves a ring that ends at e.                     *)
LEMMA RingEndsSent ==
  ASSUME NEW S, wire \in Seq(S), Len(wire) <= 1, NEW f, Stepping(f), Sent(<<f>>), link,
         UNCHANGED <<ringOk, ringOff>>, NEW e, RingEnds(e)
  PROVE  RingEnds(e)'
<1>1. /\ wire' # <<>> /\ (wire # <<>> => wire'[1] = wire[1]) /\ (wire = <<>> => wire'[1] = f)
  BY SentStep
<1> QED
  BY <1>1 DEF RingEnds, Stepping, OfRing

LEMMA StepShapes ==
  ASSUME NEW v, NEW m, NEW b, NEW q
  PROVE  Stepping(Stepd(v, m, b, q)) /\ Stepping(Step(b, q))
BY DEF Stepping, OfRing, Stepd, Step

LEMMA TapsShape ==
  ASSUME RingInv
  PROVE  keep \in Nat /\ base \in 0..(keep - 1) /\ base..(keep - 1) # {}
<1>1. keep \in Nat /\ base \in Nat /\ base < keep
  BY DEF RingInv, Positions
<1>2. base \in base..(keep - 1)
  BY <1>1
<1> QED
  BY <1>1, <1>2

LEMMA StepRows ==
  ASSUME RingInv, NEW v, NEW m, NEW b, NEW q
  PROVE  /\ Rows(Stepd(v, m, b, q))
         /\ q \in {{}, base..(keep - 1)} => Rows(Step(b, q))
BY TapsShape DEF Rows, OfRing, Stepd, Step

-----------------------------------------------------------------------------
BoxStill == UNCHANGED <<granted, bpend, blen, bring, ringOk, ringOff>>

LEMMA NoGap == RingInv => ~RingGap
BY DEF RingInv, Rings, Follows, RingGap, Preparing, Gap

LEMMA PlainAgrees ==
  ASSUME AgreeInv, Plain \/ TooShort, BoxStill, RingInv'
  PROVE  AgreeInv'
<1>1. /\ phase = "prepare" /\ phase' = "draft"
      /\ UNCHANGED <<base, keep, blk, ver, disabled, host, primed, sticky, explicit, pending, ready, wire, reply, link>>
      /\ UNCHANGED <<granted, bpend, blen, bring, ringOk, ringOff>>
  BY DEF Plain, TooShort, Preparing, encoder, channel, rings, BoxStill
<1>2. wire = <<>> /\ explicit = None /\ Frames' = {} /\ Frames = {} /\ Len(wire) = 0
  BY <1>1, EmptyFrames DEF AgreeInv, Shape, Settled, Frames
<1>3. Types' /\ Shape'
  BY <1>1, <1>2 DEF AgreeInv, Types, Shape, Settled
<1>4. BoxRing'
  BY <1>1, <1>2, BoxRingStill
<1>5. SessionAgrees'
  BY <1>1, <1>2 DEF AgreeInv, SessionAgrees, Placed, Answering, Within, Holds, Fits
<1>6. Follow'
  BY <1>1, <1>2, RingEndsStill DEF AgreeInv, Follow, Current, Settled
<1> QED
  BY <1>3, <1>4, <1>5, <1>6 DEF AgreeInv

(* RingFirst: the RING, when there is one, is whole and reaches keep when  *)
(* no taps will follow it.                                                 *)
LEMMA FirstRing ==
  ASSUME AgreeInv, Kept, NEW era \in BOOLEAN
  PROVE  LET h == Synced(era)
             first == RingFirst(h)
             c == RingFrame(IF ver = None THEN Appended(h) ELSE h)
         IN  /\ OfRing(c) /\ Rows(c) /\ (ver = None => c.off = keep)
             /\ \/ first.frames = <<c>> /\ first.primed = TRUE /\ ~disabled
                \/ first.frames = <<>> /\ first.primed = StillPrimed
<1> DEFINE h == Synced(era)
           g == IF ver = None THEN Appended(h) ELSE h
           c == RingFrame(g)
<1>1. /\ h.off = base /\ Window(h) = Whole(base)
      /\ Appended(h).off = keep /\ Window(Appended(h)) = Whole(keep)
      /\ base \in Nat /\ keep \in Nat
  BY SyncedHost DEF AgreeInv, RingInv, Positions
<1>2. g.off \in Nat /\ Window(g) = Whole(g.off) /\ (ver = None => g.off = keep)
  BY <1>1
<1> HIDE DEF g
<1>3. c.tag = "RING" /\ c.off = g.off /\ c.rows = Window(g)
  BY DEF RingFrame
<1>4. OfRing(c) /\ Rows(c) /\ (ver = None => c.off = keep)
  BY <1>2, <1>3 DEF OfRing, Rows
<1>5. \/ RingFirst(h).frames = <<c>> /\ RingFirst(h).primed = TRUE /\ ~disabled
      \/ RingFirst(h).frames = <<>> /\ RingFirst(h).primed = StillPrimed
  <2>1. (StillPrimed \/ TRUE) = TRUE /\ StillPrimed \in BOOLEAN
    BY DEF StillPrimed
  <2> QED
    BY <2>1 DEF RingFirst, g
<1> QED
  BY <1>4, <1>5 DEF g

LEMMA BoxDraftsAgrees ==
  ASSUME AgreeInv, BoxDrafts, BoxStill, RingInv'
  PROVE  AgreeInv'
<1> DEFINE h == Synced(TRUE)
           first == RingFirst(h)
<1>0. PICK c : c = RingFrame(IF ver = None THEN Appended(h) ELSE h)
  OBVIOUS
<1>1. PICK proposal \in {None} \cup {Block(n, "copy") : n \in 2..MaxRows} :
        /\ proposal # None => keep + proposal.len <= MaxPos
        /\ host' = Appended(h) /\ primed' = first.primed
        /\ Sent(Append(first.frames,
                       Stepd(ver, IF proposal = None THEN "box" ELSE "explicit", proposal, FALSE)))
        /\ blk' = proposal /\ phase' = IF proposal = None THEN "resolve" ELSE "wait"
  BY DEF BoxDrafts
<1>a. PICK frame : frame = Stepd(ver, IF proposal = None THEN "box" ELSE "explicit", proposal, FALSE)
  OBVIOUS
<1>2. /\ phase = "prepare" /\ keep < MaxPos /\ ready' = None /\ ~disabled
      /\ UNCHANGED <<base, keep, ver, disabled, sticky, explicit, reply, link>>
      /\ UNCHANGED <<granted, bpend, blen, bring, ringOk, ringOff>>
  BY DEF BoxDrafts, BoxEra, Kept, Preparing, BoxStill
<1>3. wire = <<>> /\ explicit = None /\ reply = None
  BY <1>2 DEF AgreeInv, Shape, Settled, RingInv, Traffic, Quiet
<1>4. /\ OfRing(c) /\ Rows(c) /\ (ver = None => c.off = keep)
      /\ \/ first.frames = <<c>> /\ first.primed = TRUE
         \/ first.frames = <<>> /\ first.primed = StillPrimed
  <2>1. Kept /\ TRUE \in BOOLEAN
    BY DEF BoxDrafts
  <2> QED
    BY <1>0, <2>1, FirstRing
<1>5. /\ frame.tag = "STEPD" /\ frame.keep = keep /\ frame.ver = ver /\ frame.blk = proposal
      /\ frame.mode = IF proposal = None THEN "box" ELSE "explicit"
      /\ frame.taps = IF ver = None THEN {} ELSE base..(keep - 1)
  BY <1>2, <1>a DEF Stepd
<1>6. Stepping(frame) /\ Rows(frame)
  BY <1>a, StepShapes, StepRows DEF AgreeInv
<1>7. proposal # None => proposal \in Blocks /\ proposal.by # "box"
  <2>1. \A n \in 2..MaxRows : n \in Nat \ {0}
    BY RingAssumption
  <2>2. \A n \in 2..MaxRows : Block(n, "copy") \in Blocks /\ Block(n, "copy").by # "box"
    <3> TAKE n \in 2..MaxRows
    <3>1. n \in Nat \ {0}
      BY <2>1
    <3> QED
      BY <3>1, BlockTypes
  <2> QED
    BY <2>2
<1>8. host'.off = keep
  BY <1>1, SyncedHost DEF BoxDrafts, AgreeInv
<1>9. base..(keep - 1) # {} /\ keep \in Nat
  BY TapsShape DEF AgreeInv
<1>10. PICK r : r = first.frames
  OBVIOUS
<1>11. Sent(Append(r, frame)) /\ r \in {<<>>, <<c>>}
  BY <1>1, <1>4, <1>10, <1>a
<1> HIDE DEF h, first
<1>12. wire' = <<>> \/ (r = <<>> /\ wire' = <<frame>>) \/ (r = <<c>> /\ wire' = <<c, frame>>)
  BY <1>3, <1>11, SentFirst
<1>13. link => wire' # <<>>
  BY <1>3, <1>11, SentFirst
<1>14. Frames' \subseteq {c, frame} /\ Len(wire') <= 2
  <2>1. /\ wire' = <<>> => Frames' = {} /\ Len(wire') = 0
        /\ wire' = <<frame>> => Frames' = {frame} /\ Len(wire') = 1
        /\ wire' = <<c, frame>> => Frames' = {c, frame} /\ Len(wire') = 2
    BY ListFrames
  <2>2. CASE wire' = <<>>
    BY <2>1, <2>2
  <2>3. CASE wire' = <<frame>>
    BY <2>1, <2>3
  <2>4. CASE wire' = <<c, frame>>
    BY <2>1, <2>4
  <2> QED
    BY <1>12, <2>2, <2>3, <2>4
<1>15. Types'
  BY <1>1, <1>2, <1>4, <1>7 DEF AgreeInv, Types, StillPrimed
<1>16. Shape'
  BY <1>1, <1>2, <1>3, <1>14 DEF Shape, Settled
<1>17. BoxRing'
  <2>1. \A f \in Frames' : Rows(f)
    BY <1>4, <1>6, <1>14
  <2> QED
    BY <1>2, <2>1, BoxRingStill
<1>18. SessionAgrees'
  <2>1. Within(keep) /\ (ver # None => Verified)
    BY <1>2 DEF AgreeInv, SessionAgrees, Placed
  <2>2. Accepts(frame)'
    BY <1>1, <1>2, <1>5, <1>7, <1>9, <2>1, RingAssumption DEF Accepts, Verified, Within
  <2>3. Carried(frame)'
    BY <1>1, <1>2, <1>5, <1>7, <1>9, <2>2, RingAssumption DEF Carried, Drafting, Carrying
  <2>4. \A f \in Frames' : Carried(f)'
    BY <1>4, <1>14, <2>3 DEF Carried, Stepping
  <2>5. Placed'
    BY <1>1, <1>2, <1>7 DEF Placed, Fits
  <2> QED
    BY <1>2, <1>3, <2>4, <2>5 DEF AgreeInv, SessionAgrees, Answering
<1>19. Follow'
  <2>1. ~disabled' /\ phase' \in {"wait", "resolve"} /\ ~Settled'
    BY <1>1, <1>2 DEF Settled
  <2> SUFFICES ASSUME link', primed' PROVE Current'
    BY <2>1 DEF Follow
  <2>2. wire' # <<>> /\ LastFrame' = frame
    BY <1>2, <1>12, <1>13 DEF LastFrame
  <2>3. ver = None => RingEnds(keep)'
    <3> SUFFICES ASSUME ver = None PROVE RingEnds(keep)'
      OBVIOUS
    <3>1. ~primed
      BY <1>2 DEF AgreeInv, Follow
    <3>2. r = <<c>>
      BY <1>1, <1>4, <1>10, <3>1 DEF StillPrimed
    <3>3. wire' = <<c, frame>>
      BY <1>2, <1>12, <1>13, <3>2
    <3>4. wire'[1] = c
      BY <3>3
    <3> QED
      BY <1>2, <1>4, <2>2, <3>4 DEF RingEnds, OfRing
  <2>4. FollowsUp(frame)'
    BY <1>2, <1>5, <1>8, <1>9, <2>3 DEF FollowsUp
  <2> QED
    BY <1>6, <2>1, <2>2, <2>4 DEF Current, Stepping, OfRing
<1> QED
  BY <1>15, <1>16, <1>17, <1>18, <1>19 DEF AgreeInv

LEMMA MacDraftsAgrees ==
  ASSUME AgreeInv, MacDrafts, BoxStill, RingInv'
  PROVE  AgreeInv'
<1> DEFINE h == Synced(FALSE)
           first == RingFirst(h)
           noTaps == base >= MinCtx /\ ~disabled
<1>0. PICK c : c = RingFrame(IF ver = None THEN Appended(h) ELSE h)
  OBVIOUS
<1>a. PICK r : r = IF noTaps THEN <<>> ELSE first.frames
  OBVIOUS
<1>1. /\ Kept /\ host' = Appended(h) /\ primed' = (~noTaps /\ first.primed) /\ Sent(r)
      /\ explicit' = [keep |-> keep, noTaps |-> noTaps]
  BY <1>a DEF MacDrafts, KeptUp
<1>2. /\ phase = "prepare" /\ phase' = "draft" /\ keep < MaxPos /\ sticky = None /\ granted
      /\ UNCHANGED <<base, keep, blk, ver, disabled, sticky, pending, ready, reply, link>>
      /\ UNCHANGED <<granted, bpend, blen, bring, ringOk, ringOff>>
  BY DEF MacDrafts, Kept, OnPlainPath, Preparing, BoxStill, encoder
<1>3. wire = <<>> /\ explicit = None /\ reply = None
  BY <1>2 DEF AgreeInv, Shape, Settled, RingInv, Traffic, Quiet
<1>4. /\ OfRing(c) /\ Rows(c) /\ (ver = None => c.off = keep)
      /\ \/ first.frames = <<c>> /\ first.primed = TRUE /\ ~disabled
         \/ first.frames = <<>> /\ first.primed = StillPrimed
  <2>1. FALSE \in BOOLEAN
    OBVIOUS
  <2> QED
    BY <1>0, <1>1, <2>1, FirstRing
<1>5. r \in {<<>>, <<c>>} /\ (~noTaps => r = first.frames)
  BY <1>4, <1>a
<1>6. host'.off = keep
  BY <1>1, SyncedHost DEF MacDrafts, AgreeInv
<1>7. explicit'.keep = keep /\ (explicit'.noTaps <=> noTaps)
  BY <1>1
<1>8. noTaps \in BOOLEAN
  OBVIOUS
<1> HIDE DEF h, first, noTaps
<1>12. wire' = <<>> \/ (r = <<c>> /\ wire' = <<c>>)
  BY <1>1, <1>3, <1>5, SentRing
<1>13. link => wire' = r
  BY <1>1, <1>3, <1>5, SentRing
<1>14. /\ wire' = <<>> => Frames' = {} /\ Len(wire') = 0
       /\ wire' = <<c>> => Frames' = {c} /\ Len(wire') = 1 /\ wire'[1] = c /\ wire' # <<>>
  BY ListFrames
<1>15. Frames' \subseteq {c} /\ (Len(wire') = 0 \/ Len(wire') = 1)
  <2>1. CASE wire' = <<>>
    BY <1>14, <2>1
  <2>2. CASE wire' = <<c>>
    BY <1>14, <2>2
  <2> QED
    BY <1>12, <2>1, <2>2
<1>16. Types'
  BY <1>1, <1>2, <1>4, <1>8 DEF AgreeInv, Types, StillPrimed
<1>17. Shape'
  <2>1. Len(wire') <= 2 /\ Len(wire') <= 1
    <3>1. CASE Len(wire') = 0
      BY <3>1
    <3>2. CASE Len(wire') = 1
      BY <3>2
    <3> QED
      BY <1>15, <3>1, <3>2, Zenon
  <2>2. ~Settled' /\ phase' = "draft"
    BY <1>2 DEF Settled
  <2> QED
    BY <1>2, <2>1, <2>2 DEF AgreeInv, Shape
<1>18. BoxRing'
  <2>1. \A f \in Frames' : Rows(f)
    BY <1>4, <1>15
  <2> QED
    BY <1>2, <2>1, BoxRingStill
<1>19. SessionAgrees'
  <2>1. Within(keep) /\ (ver # None => Verified)
    BY <1>2 DEF AgreeInv, SessionAgrees, Placed
  <2>2. Placed'
    BY <1>2, <2>1 DEF Placed, Within, Verified
  <2>3. \A f \in Frames' : Carried(f)'
    BY <1>4, <1>15 DEF Carried, Stepping
  <2> QED
    BY <1>2, <1>3, <2>2, <2>3 DEF AgreeInv, SessionAgrees, Answering
<1>20. Follow'
  <2>0. primed' => first.primed /\ ~noTaps
    BY <1>1
  <2>1. ~Settled' /\ phase' = "draft"
    BY <1>2 DEF Settled
  <2>2. primed' => ~disabled
    BY <1>1, <1>2, <1>4, <2>0 DEF AgreeInv, Follow, StillPrimed
  <2> SUFFICES ASSUME link', primed' PROVE Current'
    BY <1>2, <2>1, <2>2 DEF Follow
  <2>3. Stashed'
    BY <1>2, <1>6, <1>7, <2>0 DEF Stashed
  <2>4. ver = None => RingEnds(host.off)'
    <3> SUFFICES ASSUME ver = None PROVE RingEnds(host.off)'
      OBVIOUS
    <3>1. ~primed
      BY <1>2 DEF AgreeInv, Follow
    <3>2. r = <<c>>
      BY <1>4, <1>5, <2>0, <3>1 DEF StillPrimed
    <3>3. wire' # <<>> /\ wire'[1] = c
      BY <1>2, <1>13, <1>14, <3>2
    <3> QED
      BY <1>4, <1>6, <3>3 DEF RingEnds, OfRing
  <2>5. explicit' = None => RingEnds(host.off)'
    <3>1. [keep |-> keep, noTaps |-> noTaps] \in [keep : Nat, noTaps : BOOLEAN]
      BY <1>8 DEF AgreeInv, RingInv, Positions
    <3> QED
      BY <1>1, <3>1, RingAssumption
  <2> QED
    BY <1>2, <2>1, <2>3, <2>4, <2>5 DEF Current
<1> QED
  BY <1>16, <1>17, <1>18, <1>19, <1>20 DEF AgreeInv

LEMMA MacDraftAgrees ==
  ASSUME AgreeInv, MacDraft, BoxStill, RingInv'
  PROVE  AgreeInv'
<1>1. /\ phase = "draft" /\ phase' = "issue" /\ blk' \in MacBlocks
      /\ UNCHANGED <<base, keep, ver, disabled, host, primed, sticky, explicit, pending, ready, wire, reply, link>>
      /\ UNCHANGED <<granted, bpend, blen, bring, ringOk, ringOff>>
  BY DEF MacDraft, draft, encoder, channel, BoxStill
<1>2. Fits(blk)' /\ blk' \in Blocks /\ blk'.by # "box"
  <2>1. PICK n \in 1..MaxRows : blk' = Block(n, "mac") /\ keep + n <= MaxPos
    BY <1>1 DEF MacBlocks
  <2>2. n \in Nat \ {0}
    BY RingAssumption
  <2> QED
    BY <1>1, <2>1, <2>2, BlockTypes DEF Fits
<1>3. Frames' = Frames
  BY <1>1 DEF Frames
<1>4. Types' /\ Shape'
  BY <1>1, <1>2 DEF AgreeInv, Types, Shape, Settled
<1>5. BoxRing'
  BY <1>1, <1>3, BoxRingStill DEF AgreeInv, BoxRing
<1>6. SessionAgrees'
  <2>1. Placed'
    BY <1>1, <1>2 DEF AgreeInv, SessionAgrees, Placed, Within, Verified
  <2>2. \A f \in Frames' : Carried(f)'
    BY <1>1, <1>3 DEF AgreeInv, SessionAgrees, Carried, Accepts, Within
  <2> QED
    BY <1>1, <2>1, <2>2 DEF AgreeInv, SessionAgrees, Answering
<1>7. Follow'
  BY <1>1, RingEndsStill DEF AgreeInv, Follow, Current, Settled, Stashed
<1> QED
  BY <1>4, <1>5, <1>6, <1>7 DEF AgreeInv

LEMMA PresendAgrees ==
  ASSUME AgreeInv, Presend, BoxStill, RingInv'
  PROVE  AgreeInv'
<1> DEFINE stash == explicit # None /\ explicit.keep = keep /\ sticky = None /\ granted
           quiet == stash /\ explicit.noTaps
           taps == IF stash /\ ver # None /\ ~disabled /\ ~quiet THEN base..(keep - 1) ELSE {}
<1>0. PICK frame : frame = IF stash /\ blk.len >= 2 THEN Stepd(ver, "explicit", blk, quiet) ELSE Step(blk, taps)
  OBVIOUS
<1>1. /\ phase = "issue" /\ phase' = "wait" /\ Sent(<<frame>>) /\ explicit' = None /\ ready' = None
      /\ UNCHANGED <<base, keep, blk, ver, disabled, host, primed, sticky, reply, link>>
      /\ UNCHANGED <<granted, bpend, blen, bring, ringOk, ringOff>>
  BY <1>0 DEF Presend, BoxStill, rings
<1>2. PICK S : wire \in Seq(S)
  BY WireSeq DEF AgreeInv
<1>3. Len(wire) <= 1 /\ reply = None
  BY <1>1 DEF AgreeInv, Shape, RingInv, Traffic, Quiet
<1>4. /\ Len(wire') <= 2 /\ Frames' \subseteq Frames \cup {frame}
      /\ link => wire' # <<>> /\ LastFrame' = frame
  BY <1>1, <1>2, <1>3, SentStep
<1>5. keep \in Nat /\ base..(keep - 1) # {}
  BY TapsShape DEF AgreeInv
<1>6. Stepping(frame) /\ Rows(frame)
  <2>1. taps \in {{}, base..(keep - 1)}
    OBVIOUS
  <2> HIDE DEF taps, quiet
  <2> QED
    BY <1>0, <2>1, StepShapes, StepRows DEF AgreeInv
<1>7. Fits(blk) /\ blk # None /\ blk.by # "box" /\ Within(keep)
  BY <1>1, RingAssumption DEF AgreeInv, SessionAgrees, Placed, Fits
<1>8. /\ frame.keep = keep /\ frame.blk = blk
      /\ frame.ver # None => frame.ver = ver /\ explicit # None
      /\ (frame.tag = "STEPD" /\ frame.mode = "explicit") \/ frame.tag = "STEP"
  BY <1>0 DEF Stepd, Step
<1>9. Types' /\ Shape'
  BY <1>1, <1>4 DEF AgreeInv, Types, Shape, Settled
<1>10. BoxRing'
  <2>1. \A f \in Frames' : Rows(f)
    BY <1>4, <1>6 DEF AgreeInv, BoxRing
  <2> QED
    BY <1>1, <2>1, BoxRingStill
<1>11. SessionAgrees'
  <2>1. frame.ver # None => Verified
    BY <1>1, <1>8 DEF AgreeInv, SessionAgrees, Placed
  <2>2. Accepts(frame)'
    BY <1>1, <1>7, <1>8, <2>1 DEF Accepts, Verified, Within, Fits
  <2>3. Carried(frame)'
    BY <1>1, <1>5, <1>7, <1>8, <2>2 DEF Carried, Carrying, Fits
  <2>4. \A f \in Frames : OfRing(f)
    BY <1>1 DEF Frames, AgreeInv, RingInv, Traffic, Quiet
  <2>5. \A f \in Frames' : Carried(f)'
    BY <1>4, <2>3, <2>4 DEF Carried, Stepping
  <2>6. Placed'
    BY <1>1, <1>7 DEF Placed, Fits
  <2> QED
    BY <1>1, <1>3, <2>5, <2>6 DEF AgreeInv, SessionAgrees, Answering
<1>12. Follow'
  <2>1. ~Settled' /\ phase' = "wait"
    BY <1>1 DEF Settled
  <2>2. primed => ~disabled
    BY DEF AgreeInv, Follow
  <2> SUFFICES ASSUME link', primed' PROVE Current'
    BY <1>1, <2>1, <2>2 DEF Follow
  <2>3. /\ explicit # None => Stashed
        /\ explicit = None \/ ver = None => RingEnds(host.off)
    BY <1>1 DEF AgreeInv, Follow, Current
  <2>4. frame.taps = {} \/ (frame.keep = host.off /\ (frame.tag = "STEPD" => frame.ver # None))
    <3>1. CASE explicit = None
      BY <1>0, <3>1 DEF Step
    <3>2. CASE explicit # None
      BY <1>0, <1>1, <2>2, <2>3, <3>2 DEF Step, Stepd, Stashed
    <3> QED
      BY <3>1, <3>2
  <2>5. frame.taps = {} => explicit = None \/ ver = None
    <3> SUFFICES ASSUME frame.taps = {}, explicit # None, ver # None PROVE FALSE
      OBVIOUS
    <3>1. stash /\ ~quiet /\ ~disabled
      BY <1>1, <2>2, <2>3 DEF Stashed
    <3> QED
      BY <1>0, <1>5, <3>1 DEF Step, Stepd
  <2>6. frame.taps = {} => RingEnds(host.off)'
    <3> SUFFICES ASSUME frame.taps = {} PROVE RingEnds(host.off)'
      OBVIOUS
    <3>1. PICK e : e = host.off
      OBVIOUS
    <3>2. RingEnds(e)
      BY <2>3, <2>5, <3>1
    <3>3. RingEnds(e)'
      BY <1>1, <1>2, <1>3, <1>6, <3>2, RingEndsSent
    <3> QED
      BY <1>1, <3>1, <3>3
  <2>7. FollowsUp(frame)'
    BY <1>1, <2>4, <2>6 DEF FollowsUp
  <2> QED
    BY <1>1, <1>4, <1>6, <2>1, <2>7 DEF Current, Stepping, OfRing
<1> QED
  BY <1>9, <1>10, <1>11, <1>12 DEF AgreeInv

LEMMA RedraftAgrees ==
  ASSUME AgreeInv, Redraft, BoxStill, RingInv'
  PROVE  AgreeInv'
<1>0. PICK frame : frame = Stepd(None, "explicit", blk', TRUE)
  OBVIOUS
<1>1. /\ phase = "redraft" /\ blk' \in MacBlocks
      /\ UNCHANGED <<base, keep, ver, disabled, host, primed, sticky, explicit, ready, reply, link>>
      /\ UNCHANGED <<granted, bpend, blen, bring, ringOk, ringOff>>
      /\ \/ Sent(<<frame>>) /\ phase' = "wait"
         \/ phase' = "issue" /\ wire' = wire
  BY <1>0 DEF Redraft, BoxStill, draft
<1>2. Fits(blk)' /\ blk' \in Blocks /\ blk' # None /\ blk'.by # "box"
  <2>1. PICK n \in 1..MaxRows : blk' = Block(n, "mac") /\ keep + n <= MaxPos
    BY <1>1 DEF MacBlocks
  <2>2. n \in Nat \ {0}
    BY RingAssumption
  <2> QED
    BY <1>1, <2>1, <2>2, BlockTypes DEF Fits
<1>3. wire = <<>> /\ explicit = None /\ reply = None /\ ready = None /\ Frames = {} /\ Len(wire) = 0
  BY <1>1, EmptyFrames DEF AgreeInv, Shape, Settled, RingInv, Traffic, Quiet
<1>4. keep \in Nat
  BY TapsShape DEF AgreeInv
<1>5. /\ frame.keep = keep /\ frame.blk = blk' /\ frame.ver = None /\ frame.tag = "STEPD" /\ frame.mode = "explicit"
      /\ frame.taps = {} /\ Stepping(frame) /\ Rows(frame)
  BY <1>0, <1>4 DEF Stepd, Stepping, OfRing, Rows
<1>6. \/ phase' = "issue" /\ wire' = <<>>
      \/ phase' = "wait" /\ wire' = <<>> /\ ~link
      \/ phase' = "wait" /\ wire' = <<frame>>
  <2>1. <<>> \o <<frame>> = <<frame>>
    OBVIOUS
  <2> QED
    BY <1>1, <1>3, <2>1 DEF Sent
<1>7. Frames' \subseteq {frame} /\ Len(wire') \in {0, 1} /\ (wire' # <<>> => LastFrame' = frame /\ wire'[1] = frame)
  <2>1. /\ wire' = <<>> => Frames' = {} /\ Len(wire') = 0
        /\ wire' = <<frame>> => Frames' = {frame} /\ Len(wire') = 1 /\ wire'[1] = frame
    BY ListFrames
  <2>2. CASE wire' = <<>>
    BY <2>1, <2>2
  <2>3. CASE wire' = <<frame>>
    BY <2>1, <2>3 DEF LastFrame
  <2> QED
    BY <1>6, <2>2, <2>3
<1>8. Types'
  BY <1>1, <1>2 DEF AgreeInv, Types
<1>9. Shape'
  <2>1. Len(wire') <= 2 /\ Len(wire') <= 1
    BY <1>7
  <2>2. ~Settled' /\ phase' \in {"issue", "wait"}
    BY <1>1, <1>3, <1>6 DEF Settled
  <2> QED
    BY <1>1, <1>3, <2>1, <2>2 DEF Shape
<1>10. BoxRing'
  <2>1. \A f \in Frames' : Rows(f)
    BY <1>5, <1>7
  <2> QED
    BY <1>1, <2>1, BoxRingStill
<1>11. SessionAgrees'
  <2>1. Within(keep)
    BY <1>1 DEF AgreeInv, SessionAgrees, Placed
  <2>2. Accepts(frame)'
    BY <1>1, <1>2, <1>5, <2>1 DEF Accepts, Within, Fits
  <2>3. Carried(frame)'
    BY <1>1, <1>2, <1>4, <1>5, <2>2 DEF Carried, Carrying
  <2>4. \A f \in Frames' : Carried(f)'
    BY <1>7, <2>3
  <2>5. Placed'
    BY <1>1, <1>2, <1>3, <1>6, <2>1 DEF Placed, Within
  <2> QED
    BY <1>1, <1>3, <2>4, <2>5 DEF AgreeInv, SessionAgrees, Answering
<1>12. Follow'
  <2>1. ~Settled' /\ phase' \in {"wait", "issue"}
    BY <1>1, <1>3, <1>6 DEF Settled
  <2>2. primed => ~disabled
    BY DEF AgreeInv, Follow
  <2> SUFFICES ASSUME link', primed' PROVE Current'
    BY <1>1, <2>1, <2>2 DEF Follow
  <2>3. RingEnds(host.off)
    BY <1>1 DEF AgreeInv, Follow, Current, Settled
  <2>4. RingEnds(host.off)'
    BY <1>1, <1>3, <1>5, <1>7, <2>3 DEF RingEnds, Stepping, OfRing
  <2>5. FollowsUp(frame)'
    BY <1>1, <1>5, <2>4 DEF FollowsUp
  <2> QED
    BY <1>1, <1>3, <1>5, <1>7, <2>1, <2>4, <2>5 DEF Current, Stepping, OfRing
<1> QED
  BY <1>8, <1>9, <1>10, <1>11, <1>12 DEF AgreeInv

(* RingSeen and OnReply.                                                   *)
LEMMA ReplySeen ==
  ASSUME AgreeInv, OnReply
  PROVE  /\ primed' \in BOOLEAN /\ (primed' => primed /\ ~disabled')
         /\ sticky' \notin {"box_error", "ring_gap"}
BY DEF AgreeInv, Types, SessionAgrees, OnReply, RingSeen

LEMMA ReceiveAgrees ==
  ASSUME AgreeInv, Receive, BoxStill, RingInv'
  PROVE  AgreeInv'
<1>1. /\ phase = "wait" /\ phase' = "verify" /\ ready' = None
      /\ UNCHANGED <<base, keep, blk, ver, host, explicit, link, wire>>
      /\ UNCHANGED <<granted, bpend, blen, bring, ringOk, ringOff>>
  BY DEF Receive, BoxStill, rings, draft, channel, Taken
<1>2. /\ \/ ready # None /\ UNCHANGED reply
         \/ ready = None /\ reply # None /\ reply' = None
      /\ primed' \in BOOLEAN /\ (primed' => primed /\ ~disabled')
      /\ sticky' \notin {"box_error", "ring_gap"}
  <2>1. CASE ready # None /\ UNCHANGED <<draft, pending, channel>>
    BY <2>1 DEF AgreeInv, Types, SessionAgrees, Follow, draft, channel
  <2>2. CASE reply.stepd /\ OnReply /\ ready = None /\ Answered /\ Taken
    BY <2>2, ReplySeen DEF Answered, Taken
  <2>3. CASE UNCHANGED <<primed, sticky, disabled>> /\ ready = None /\ Answered /\ Taken
    BY <2>3 DEF AgreeInv, Types, SessionAgrees, Follow, Answered, Taken
  <2> QED
    BY <2>1, <2>2, <2>3 DEF Receive
<1>3. wire = <<>> /\ (reply # None => ready = None)
  BY <1>1, <1>2 DEF AgreeInv, RingInv, Traffic, Quiet, Shape, Settled
<1>4. Frames' = {} /\ Len(wire') = 0
  BY <1>1, <1>3 DEF Frames
<1>5. Types' /\ Shape'
  BY <1>1, <1>2, <1>3, <1>4 DEF AgreeInv, Types, Shape, Settled
<1>6. BoxRing'
  BY <1>1, <1>2, <1>4, BoxRingStill
<1>7. Holds(blk) /\ Fits(blk)
  BY <1>1, <1>2 DEF AgreeInv, SessionAgrees, Placed, Answering
<1>8. SessionAgrees'
  <2>1. Placed'
    BY <1>1, <1>7 DEF Placed, Holds, Fits
  <2>2. Answering'
    BY <1>1, <1>2 DEF AgreeInv, SessionAgrees, Answering
  <2> QED
    BY <1>2, <1>4, <2>1, <2>2 DEF SessionAgrees
<1>9. Follow'
  <2>1. link /\ primed => RingEnds(host.off)
    BY <1>1, <1>3 DEF AgreeInv, Follow, Current
  <2> QED
    BY <1>1, <1>2, <2>1, RingEndsStill DEF Follow, Current, Settled
<1> QED
  BY <1>5, <1>6, <1>7, <1>8, <1>9 DEF AgreeInv

LEMMA ResolveAgrees ==
  ASSUME AgreeInv, Resolve, BoxStill, RingInv'
  PROVE  AgreeInv'
<1>1. /\ phase = "resolve" /\ reply # None /\ reply' = None /\ pending' = None
      /\ UNCHANGED <<base, keep, ver, host, explicit, link, wire>>
      /\ UNCHANGED <<granted, bpend, blen, bring, ringOk, ringOff>>
  BY DEF Resolve, BoxStill, rings, Answered, Taken
<1>2. /\ primed' \in BOOLEAN /\ (primed' => primed /\ ~disabled')
      /\ sticky' \notin {"box_error", "ring_gap"}
  BY ReplySeen DEF Resolve
<1>3. \/ phase' = "redraft" /\ UNCHANGED <<blk, ready>>
      \/ /\ phase' = "wait" /\ blk' = reply.blk /\ ready' = [keep |-> keep, blk |-> reply.blk]
         /\ reply.mode # "bonus"
  BY DEF Resolve
<1>4. wire = <<>> /\ Frames' = {} /\ Len(wire') = 0 /\ explicit = None
  <2>1. wire = <<>> /\ explicit = None
    BY <1>1 DEF AgreeInv, RingInv, Traffic, Shape
  <2> QED
    BY <1>1, <2>1 DEF Frames
<1>5. Holds(reply.blk) /\ reply.blk \in Blocks /\ (reply.mode # "bonus" => Fits(reply.blk)) /\ keep \in Nat
  BY <1>1 DEF AgreeInv, SessionAgrees, Answering, RingInv, Positions
<1>6. Types' /\ Shape'
  BY <1>1, <1>2, <1>3, <1>4, <1>5 DEF AgreeInv, Types, Shape, Settled
<1>7. BoxRing'
  BY <1>1, <1>4, BoxRingStill
<1>8. SessionAgrees'
  <2>1. Placed'
    <3>1. CASE phase' = "redraft"
      <4>1. Within(keep)'
        <5>1. reply.blk.len \in Nat
          BY <1>5 DEF Blocks
        <5>2. [base |-> keep, blk |-> reply.blk] # None
          <6>1. [base |-> keep, blk |-> reply.blk] \in [base : Nat, blk : Blocks]
            BY <1>5
          <6> QED
            BY <6>1, RingAssumption
        <5> QED
          BY <1>1, <1>5, <5>1, <5>2 DEF Holds, Within
      <4> QED
        BY <3>1, <4>1 DEF Placed
    <3>2. CASE phase' = "wait"
      <4>1. [keep |-> keep, blk |-> reply.blk] \in [keep : Nat, blk : Blocks]
        BY <1>5
      <4>2. ready' # None
        BY <1>3, <3>2, <4>1, RingAssumption
      <4> QED
        BY <1>1, <1>3, <1>5, <3>2, <4>2 DEF Placed, Holds, Fits
    <3> QED
      BY <1>3, <3>1, <3>2
  <2> QED
    BY <1>1, <1>2, <1>4, <2>1 DEF SessionAgrees, Answering
<1>9. Follow'
  <2>1. link /\ primed => RingEnds(host.off)
    BY <1>1, <1>4 DEF AgreeInv, Follow, Current
  <2> QED
    BY <1>1, <1>2, <1>3, <1>4, <2>1, RingEndsStill DEF Follow, Current, Settled
<1> QED
  BY <1>6, <1>7, <1>8, <1>9 DEF AgreeInv

LEMMA CommitAgrees ==
  ASSUME AgreeInv, Commit, BoxStill, RingInv'
  PROVE  AgreeInv'
<1>1. PICK a \in 0..(blk.len - 1), cut \in BOOLEAN :
        ver' = [blk |-> blk, a |-> a, cut |-> cut] /\ base' = keep /\ keep' = keep + a + 1
  BY DEF Commit
<1>2. /\ phase = "verify" /\ phase' = "prepare"
      /\ UNCHANGED <<blk, disabled, host, primed, sticky, explicit, pending, ready, wire, reply, link>>
      /\ UNCHANGED <<granted, bpend, blen, bring, ringOk, ringOff>>
  BY DEF Commit, BoxStill, rings, draft, encoder, channel
<1>3. Fits(blk) /\ Holds(blk) /\ keep \in Nat
  BY <1>2 DEF AgreeInv, SessionAgrees, Placed, RingInv, Positions
<1>4. blk \in Blocks /\ blk.len \in Nat /\ a \in Nat /\ a + 1 <= blk.len
  BY <1>3 DEF Fits, Blocks
<1>5. ver' \in [blk : Blocks, a : Nat, cut : BOOLEAN] /\ ver' # None
  <2>1. ver' \in [blk : Blocks, a : Nat, cut : BOOLEAN]
    BY <1>1, <1>4
  <2> QED
    BY <2>1, RingAssumption
<1>6. wire = <<>> /\ Frames' = {} /\ Len(wire') = 0 /\ reply = None /\ explicit = None
  <2>1. wire = <<>> /\ reply = None /\ explicit = None
    BY <1>2 DEF AgreeInv, RingInv, Traffic, Quiet, Shape, Settled
  <2> QED
    BY <1>2, <2>1 DEF Frames
<1>7. Types' /\ Shape'
  BY <1>2, <1>5, <1>6 DEF AgreeInv, Types, Shape, Settled
<1>8. BoxRing'
  BY <1>2, <1>6, BoxRingStill
<1>9. SessionAgrees'
  <2>1. bpend.base = keep /\ bpend.blk = blk /\ blen = keep + blk.len /\ bpend # None
    <3>1. [base |-> keep, blk |-> blk] \in [base : Nat, blk : Blocks]
      BY <1>3, <1>4
    <3> QED
      BY <1>3, <3>1, RingAssumption DEF Holds
  <2>2. Within(keep)'
    BY <1>1, <1>2, <1>3, <1>4, <2>1 DEF Within
  <2>3. Verified'
    BY <1>1, <1>2, <1>3, <1>4, <2>1 DEF Verified
  <2>4. Placed'
    BY <1>2, <2>2, <2>3 DEF Placed
  <2> QED
    BY <1>2, <1>6, <2>4 DEF AgreeInv, SessionAgrees, Answering
<1>10. Follow'
  <2>1. link /\ primed => RingEnds(host.off)
    BY <1>2 DEF AgreeInv, Follow, Current, Settled
  <2> QED
    BY <1>2, <1>5, <2>1, RingEndsStill DEF AgreeInv, Follow, Current, Settled
<1> QED
  BY <1>7, <1>8, <1>9, <1>10 DEF AgreeInv

LEMMA EndAgrees ==
  ASSUME AgreeInv, End, RingInv'
  PROVE  AgreeInv'
<1>1. /\ phase' = "ended"
      /\ UNCHANGED <<base, keep, blk, ver, disabled, host, primed, sticky, explicit, pending, ready, wire, reply, link>>
      /\ UNCHANGED <<granted, bpend, blen, bring, ringOk, ringOff>>
  BY DEF End, rings, draft, encoder, session, boxring, channel
<1>2. Frames' = Frames
  BY <1>1 DEF Frames
<1>3. Types' /\ Shape'
  BY <1>1 DEF AgreeInv, Types, Shape, Settled
<1>4. BoxRing'
  BY <1>1, <1>2, BoxRingStill DEF AgreeInv, BoxRing
<1>5. SessionAgrees'
  <2>1. \A f \in Frames' : Carried(f)'
    BY <1>1, <1>2 DEF AgreeInv, SessionAgrees, Carried, Accepts, Within
  <2> QED
    BY <1>1, <2>1 DEF AgreeInv, SessionAgrees, Answering, Placed
<1>6. Follow'
  BY <1>1 DEF AgreeInv, Follow, Current, Settled
<1> QED
  BY <1>3, <1>4, <1>5, <1>6 DEF AgreeInv

LEMMA RecoverAgrees ==
  ASSUME AgreeInv, Recover, RingInv'
  PROVE  AgreeInv'
<1>0. PICK c : c = RingFrame(host)
  OBVIOUS
<1>a. PICK k : k = Kickoff
  OBVIOUS
<1>b. PICK s : s = Step(blk, {})
  OBVIOUS
<1>1. /\ phase \in {"wait", "resolve"} /\ pending # None /\ reply' = None /\ ready' = None
      /\ bpend' = None /\ blen' = keep /\ ringOk' = FALSE /\ ringOff' = 0
      /\ UNCHANGED <<base, keep, blk, ver, disabled, host, explicit>>
  BY DEF Recover, Failed, Reopened, rings
<1>2. \/ phase = "wait" /\ phase' = "wait" /\ wire' = <<s>> /\ primed' = FALSE
      \/ phase = "resolve" /\ phase' = "resolve" /\ wire' = <<c, k>> /\ primed' = TRUE
      \/ phase' = "redraft" /\ wire' = <<>> /\ primed' = FALSE
  BY <1>0, <1>a, <1>b, <1>1 DEF Recover
<1>3. sticky' \notin {"box_error", "ring_gap"}
  <2>1. ~Refused /\ sticky \notin {"box_error", "ring_gap"}
    BY DEF AgreeInv, SessionAgrees, Answering, Refused
  <2>2. PICK g \in BOOLEAN : sticky' = StuckBy(g)
    BY DEF Recover, Reopened
  <2>3. StuckBy(g) \in {sticky, "lost_grant", None}
    BY <2>1 DEF StuckBy
  <2> QED
    BY <2>1, <2>2, <2>3, RingAssumption
<1>4. keep \in Nat /\ blen \in Nat
  BY DEF AgreeInv, RingInv, Positions, Types
<1>5. ready = None
  BY <1>1 DEF AgreeInv, Shape
<1>6. /\ OfRing(c) /\ c.off = host.off /\ Rows(c)
      /\ Stepping(k) /\ k.tag = "STEPD" /\ k.keep = keep /\ k.ver = None /\ k.mode = "box" /\ k.blk = None
      /\ k.taps = {} /\ Rows(k)
      /\ Stepping(s) /\ s.tag = "STEP" /\ s.keep = keep /\ s.ver = None /\ s.blk = blk /\ s.taps = {} /\ Rows(s)
  <2>1. c.off = host.off /\ c.rows = Window(host) /\ c.tag = "RING"
    BY <1>0 DEF RingFrame
  <2>2. OfRing(c) /\ Rows(c)
    BY <2>1 DEF OfRing, Rows, AgreeInv, RingInv, HostInv
  <2>3. /\ k.tag = "STEPD" /\ k.keep = keep /\ k.ver = None /\ k.mode = "box" /\ k.blk = None /\ k.taps = {}
        /\ s.tag = "STEP" /\ s.keep = keep /\ s.ver = None /\ s.blk = blk /\ s.taps = {}
    BY <1>a, <1>b DEF Kickoff, Stepd, Step
  <2>4. Stepping(k) /\ Rows(k) /\ Stepping(s) /\ Rows(s)
    BY <1>4, <2>3 DEF Stepping, OfRing, Rows
  <2> QED
    BY <2>1, <2>2, <2>3, <2>4
<1>7. /\ wire' = <<>> => Frames' = {} /\ Len(wire') = 0
      /\ wire' = <<s>> => Frames' = {s} /\ Len(wire') = 1
      /\ wire' = <<c, k>> => Frames' = {c, k} /\ Len(wire') = 2 /\ wire'[1] = c /\ LastFrame' = k /\ wire' # <<>>
  BY ListFrames DEF LastFrame
<1>8. Types'
  BY <1>1, <1>2, <1>4 DEF AgreeInv, Types
<1>9. /\ \A f \in Frames' : f \in {c, k, s}
      /\ Len(wire') <= 2
  <2>1. CASE wire' = <<s>>
    BY <1>7, <2>1
  <2>2. CASE wire' = <<c, k>>
    BY <1>7, <2>2
  <2>3. CASE wire' = <<>>
    BY <1>7, <2>3
  <2> QED
    BY <1>2, <2>1, <2>2, <2>3
<1>10. Shape'
  BY <1>1, <1>2, <1>9 DEF AgreeInv, Shape, Settled
<1>11. BoxRing'
  <2>1. \A f \in Frames' : Rows(f)
    BY <1>6, <1>9
  <2>2. \A f \in Frames' : Rows(f)'
    BY <2>1 DEF Rows, OfRing, Whole, Newest
  <2> QED
    BY <1>1, <2>2 DEF BoxRing, DraftsFromWholeRing
<1>12. SessionAgrees'
  <2>1. Within(keep)'
    BY <1>1, <1>4 DEF Within
  <2>2. (phase = "wait" => Fits(blk) /\ blk.by # "box") /\ (phase = "resolve" => keep < MaxPos)
    BY <1>5 DEF AgreeInv, SessionAgrees, Placed
  <2>3. phase = "wait" => Carried(s)'
    <3> SUFFICES ASSUME phase = "wait" PROVE Carried(s)'
      OBVIOUS
    <3>1. blk # None /\ blk \in Blocks /\ keep + blk.len <= MaxPos /\ phase' # "resolve"
      BY <1>2, <2>2, RingAssumption DEF Fits
    <3>2. Accepts(s)'
      BY <1>1, <1>6, <2>1, <3>1 DEF Accepts, Within
    <3> QED
      BY <1>1, <1>4, <1>6, <2>2, <3>1, <3>2 DEF Carried, Carrying
  <2>4. phase = "resolve" => Carried(k)'
    <3> SUFFICES ASSUME phase = "resolve" PROVE Carried(k)'
      OBVIOUS
    <3>1. phase' # "wait" /\ keep + 1 <= MaxPos
      BY <1>2, <1>4, <2>2, RingAssumption
    <3>2. Accepts(k)'
      BY <1>1, <1>6, <2>1, <3>1 DEF Accepts, Within
    <3> QED
      BY <1>1, <1>4, <1>6, <3>1, <3>2 DEF Carried, Drafting
  <2>5. Carried(c)'
    BY <1>6 DEF Carried, Stepping
  <2>6. \A f \in Frames' : Carried(f)'
    <3>1. CASE phase = "wait" /\ wire' = <<s>>
      BY <1>7, <2>3, <3>1
    <3>2. CASE phase = "resolve" /\ wire' = <<c, k>>
      BY <1>7, <2>4, <2>5, <3>2
    <3>3. CASE wire' = <<>>
      BY <1>7, <3>3
    <3> QED
      BY <1>2, <3>1, <3>2, <3>3
  <2>7. Placed'
    <3>1. Fits(blk) <=> Fits(blk)'
      BY <1>1 DEF Fits
    <3> QED
      BY <1>1, <1>2, <2>1, <2>2, <3>1 DEF Placed
  <2> QED
    BY <1>1, <1>3, <2>6, <2>7 DEF SessionAgrees, Answering
<1>13. Follow'
  <2>1. CASE phase = "resolve" /\ phase' = "resolve" /\ wire' = <<c, k>> /\ primed' = TRUE
    <3>1. ~disabled'
      BY <1>1, <2>1 DEF AgreeInv, Follow
    <3>2. RingEnds(host.off)'
      BY <1>1, <1>6, <1>7, <2>1 DEF RingEnds
    <3>3. FollowsUp(k)'
      BY <1>6, <3>2 DEF FollowsUp
    <3>4. Stepping(LastFrame)' /\ FollowsUp(LastFrame)'
      BY <1>6, <1>7, <2>1, <3>3 DEF Stepping, OfRing, FollowsUp
    <3> QED
      BY <1>7, <2>1, <3>1, <3>4 DEF Follow, Current, Settled
  <2>2. CASE phase' \in {"wait", "redraft"} /\ primed' = FALSE
    BY <2>2 DEF Follow
  <2> QED
    BY <1>2, <2>1, <2>2
<1> QED
  BY <1>8, <1>10, <1>11, <1>12, <1>13 DEF AgreeInv

(* KillSwitch, Break and stuttering.                                       *)
LEMMA RestAgrees ==
  ASSUME AgreeInv, KillSwitch \/ Break \/ UNCHANGED vars, RingInv'
  PROVE  AgreeInv'
<1>1. /\ UNCHANGED <<base, keep, phase, blk, ver, host, primed, sticky, disabled, explicit, pending, ready>>
      /\ UNCHANGED <<granted, bpend, blen, bring, ringOk, ringOff>>
      /\ \/ UNCHANGED <<wire, reply, link>>
         \/ wire' = <<>> /\ reply' = None /\ link' = FALSE
  BY DEF KillSwitch, Break, vars, request, rings, draft, encoder, session, boxring, channel
<1>2. Frames' \subseteq Frames /\ Len(wire') <= 2 /\ (Len(wire) <= 1 => Len(wire') <= 1) /\ (wire = <<>> => wire' = <<>>)
  <2>1. CASE wire' = wire
    BY <2>1 DEF Frames, AgreeInv, Shape
  <2>2. CASE wire' = <<>>
    <3>1. Frames' = {} /\ Len(wire') = 0
      BY <2>2 DEF Frames
    <3> QED
      BY <2>2, <3>1
  <2> QED
    BY <1>1, <2>1, <2>2
<1>3. Types' /\ Shape'
  BY <1>1, <1>2 DEF AgreeInv, Types, Shape, Settled
<1>4. BoxRing'
  <2>1. \A f \in Frames' : Rows(f)
    BY <1>2 DEF AgreeInv, BoxRing
  <2> QED
    BY <1>1, <2>1, BoxRingStill
<1>5. SessionAgrees'
  <2>1. \A f \in Frames' : Carried(f)'
    BY <1>1, <1>2 DEF AgreeInv, SessionAgrees, Carried, Accepts, Within
  <2>2. Placed'
    BY <1>1 DEF AgreeInv, SessionAgrees, Placed, Within, Verified, Holds, Fits
  <2>3. Answering'
    BY <1>1 DEF AgreeInv, SessionAgrees, Answering, Holds, Fits
  <2> QED
    BY <1>1, <2>1, <2>2, <2>3 DEF AgreeInv, SessionAgrees
<1>6. Follow'
  <2>1. CASE UNCHANGED <<wire, reply, link>>
    BY <1>1, <2>1 DEF AgreeInv, Follow, Current, Settled, RingEnds, Stashed, FollowsUp, LastFrame, Stepping, OfRing
  <2>2. CASE link' = FALSE
    BY <1>1, <2>2 DEF AgreeInv, Follow
  <2> QED
    BY <1>1, <2>1, <2>2
<1> QED
  BY <1>3, <1>4, <1>5, <1>6 DEF AgreeInv

-----------------------------------------------------------------------------
LEMMA HandleRingAgrees ==
  ASSUME AgreeInv, HandleRing, RingInv'
  PROVE  AgreeInv'
<1>0. PICK c : c = wire[1]
  OBVIOUS
<1>1. /\ wire # <<>> /\ wire' = Tail(wire) /\ OfRing(c)
      /\ UNCHANGED <<base, keep, phase, blk, ver, host, primed, sticky, disabled, explicit, pending, ready>>
      /\ UNCHANGED <<granted, bpend, blen, reply, link>>
      /\ \/ bring' = c.rows /\ ringOk' = TRUE /\ ringOff' = c.off
         \/ ringOk' = FALSE /\ UNCHANGED <<bring, ringOff>>
  BY <1>0 DEF HandleRing, Arrived, Frame, Handled, OfRing, request, rings, draft, encoder, session
<1>2. PICK S : wire \in Seq(S)
  BY WireSeq DEF AgreeInv
<1>3. /\ wire' \in Seq(S) /\ Len(wire') = Len(wire) - 1
      /\ \A i \in 1..Len(wire') : wire'[i] = wire[i + 1] /\ i + 1 \in 1..Len(wire)
      /\ 1 \in 1..Len(wire)
  BY <1>1, <1>2, TailShape
<1>4. Len(wire) \in Nat /\ Len(wire) <= 2 /\ Len(wire') \in Nat
  BY <1>2, <1>3, LenProperties DEF AgreeInv, Shape
<1>5. Frames' \subseteq Frames /\ c \in Frames
  BY <1>0, <1>3 DEF Frames
<1>6. Rows(c) /\ c.off \in Nat /\ c.rows = Whole(c.off)
  <2>1. Rows(c)
    BY <1>5 DEF AgreeInv, BoxRing
  <2> QED
    BY <1>1, <2>1 DEF Rows
<1>7. ~Settled /\ ~Settled' /\ reply = None
  BY <1>1 DEF AgreeInv, Shape, Settled, RingInv, Traffic
<1>8. Types'
  BY <1>1, <1>6 DEF AgreeInv, Types
<1>9. Shape'
  <2>1. Len(wire') <= 2 /\ (Len(wire) <= 1 => Len(wire') <= 1)
    BY <1>3, <1>4
  <2> QED
    BY <1>1, <1>7, <2>1 DEF AgreeInv, Shape
<1>10. BoxRing'
  <2>1. \A f \in Frames' : Rows(f)'
    BY <1>5 DEF AgreeInv, BoxRing, Rows, OfRing, Whole, Newest
  <2>2. (ringOk => bring = Whole(ringOff))'
    BY <1>1, <1>6 DEF Whole, Newest
  <2>3. reply' = None
    BY <1>1, <1>7
  <2> QED
    BY <2>1, <2>2, <2>3 DEF BoxRing, DraftsFromWholeRing
<1>11. SessionAgrees'
  <2>1. \A f \in Frames' : Carried(f)'
    BY <1>1, <1>5 DEF AgreeInv, SessionAgrees, Carried, Accepts, Within
  <2>2. Placed'
    BY <1>1 DEF AgreeInv, SessionAgrees, Placed, Within, Verified, Holds, Fits
  <2> QED
    BY <1>1, <1>7, <2>1, <2>2 DEF AgreeInv, SessionAgrees, Answering
<1>12. Follow'
  <2>1. CASE ~(link /\ primed)
    BY <1>1, <2>1 DEF AgreeInv, Follow
  <2>2. CASE link /\ primed
    <3>1. Current
      BY <2>2 DEF AgreeInv, Follow
    <3>2. wire' = <<>> \/ ~OfRing(wire'[1]) => (RingEnds(host.off) => RingEnds(host.off)')
      BY <1>0, <1>1 DEF RingEnds
    <3>3. CASE phase \in {"draft", "issue"}
      <4>1. Len(wire) <= 1
        BY <3>3 DEF AgreeInv, Shape
      <4>2. wire' = <<>>
        <5>1. Len(wire') = 0
          BY <1>3, <1>4, <4>1
        <5> QED
          BY <1>3, <5>1, EmptySeq
      <4>3. Current'
        BY <1>1, <1>7, <3>1, <3>2, <3>3, <4>2 DEF Current, Stashed
      <4> QED
        BY <1>1, <4>3 DEF AgreeInv, Follow
    <3>4. CASE phase \in {"wait", "resolve"}
      <4>1. PICK f : f = LastFrame
        OBVIOUS
      <4>2. Stepping(f) /\ FollowsUp(f)
        BY <1>1, <3>1, <3>4, <4>1 DEF Current
      <4>3. Len(wire) = 2
        <5>1. Len(wire) # 1
          BY <1>0, <1>1, <4>1, <4>2 DEF LastFrame, Stepping
        <5>2. \A n \in Nat : 1 \in 1..n /\ n <= 2 /\ n # 1 => n = 2
          OBVIOUS
        <5> QED
          BY <1>3, <1>4, <5>1, <5>2
      <4>4. Len(wire') = 1 /\ wire'[1] = f /\ LastFrame' = f
        <5>1. Len(wire') = 1
          BY <1>3, <4>3
        <5>2. wire'[1] = wire[2]
          <6>1. 1 \in 1..Len(wire')
            BY <5>1
          <6>2. wire'[1] = wire[1 + 1]
            BY <1>3, <6>1
          <6> QED
            BY <6>2
        <5> QED
          BY <4>1, <4>3, <5>1, <5>2 DEF LastFrame
      <4>5. wire' # <<>> /\ ~OfRing(wire'[1])
        <5>1. wire' # <<>>
          BY <4>4
        <5> QED
          BY <4>2, <4>4, <5>1 DEF Stepping
      <4>6. FollowsUp(f)'
        BY <1>1, <3>2, <4>2, <4>5 DEF FollowsUp
      <4>7. Stepping(f)'
        BY <4>2 DEF Stepping, OfRing
      <4>8. Stepping(LastFrame)' /\ FollowsUp(LastFrame)'
        BY <4>4, <4>6, <4>7 DEF Stepping, OfRing, FollowsUp
      <4>9. Current'
        BY <1>1, <1>7, <3>4, <4>5, <4>8 DEF Current
      <4> QED
        BY <1>1, <4>9 DEF AgreeInv, Follow
    <3>5. CASE phase \notin {"draft", "issue", "wait", "resolve"}
      <4>1. Current'
        BY <1>1, <1>7, <3>5 DEF Current
      <4> QED
        BY <1>1, <4>1 DEF AgreeInv, Follow
    <3> QED
      BY <3>3, <3>4, <3>5
  <2> QED
    BY <2>1, <2>2
<1> QED
  BY <1>8, <1>9, <1>10, <1>11, <1>12 DEF AgreeInv

-----------------------------------------------------------------------------
(* What a handled step shares: it was alone on the link, and is accepted.  *)
LEMMA StepArrives ==
  ASSUME AgreeInv, HandleStepd \/ HandleStep, NEW f, f = Frame
  PROVE  /\ wire # <<>> /\ wire' = <<>> /\ Frames' = {} /\ Len(wire') = 0
         /\ Stepping(f) /\ Rows(f) /\ Carried(f) /\ LastFrame = f /\ ~OfRing(wire[1])
         /\ ~Settled /\ ~Settled' /\ Acceptable
         /\ phase \in {"wait", "resolve", "ended"} /\ (phase = "wait" => ready = None)
<1>1. /\ wire # <<>> /\ wire' = Tail(wire) /\ ~OfRing(f) /\ f = wire[1] /\ UNCHANGED <<phase, ready>>
  BY DEF HandleStepd, HandleStep, Arrived, Frame, Handled, request, encoder, OfRing
<1>2. PICK S : wire \in Seq(S)
  BY WireSeq DEF AgreeInv
<1>3. Len(wire) \in Nat \ {0}
  BY <1>1, <1>2, LenProperties, EmptySeq
<1>4. Len(wire) = 1
  <2>1. \A i \in 1..(Len(wire) - 1) : OfRing(wire[i])
    BY DEF AgreeInv, RingInv, Traffic
  <2>2. 1 \notin 1..(Len(wire) - 1)
    BY <1>1, <2>1
  <2>3. \A n \in Nat \ {0} : 1 \notin 1..(n - 1) => n = 1
    OBVIOUS
  <2> QED
    BY <1>3, <2>2, <2>3
<1>5. wire' = <<>>
  <2>1. wire' \in Seq(S) /\ Len(wire') = 0
    BY <1>1, <1>2, <1>4, TailShape
  <2> QED
    BY <2>1, EmptySeq
<1>6. Frames' = {} /\ Len(wire') = 0
  BY <1>5 DEF Frames
<1>7. f \in Frames
  BY <1>1, <1>4 DEF Frames
<1>8. Rows(f) /\ Carried(f)
  BY <1>7 DEF AgreeInv, BoxRing, SessionAgrees
<1>9. Acceptable
  BY <1>1, <1>8 DEF Acceptable, CheckAccept, KeepOk, Frame, Carried, Stepping, Accepts, Within
<1>10. ~Settled /\ ~Settled'
  BY <1>1 DEF AgreeInv, Shape, Settled
<1>11. ~Quiet(phase, ready) /\ phase \in Phases
  BY <1>1, <1>4 DEF AgreeInv, RingInv, Traffic, Positions
<1>12. phase \in {"wait", "resolve", "ended"} /\ (phase = "wait" => ready = None)
  BY <1>11 DEF Quiet, Phases
<1> QED
  BY <1>1, <1>4, <1>5, <1>6, <1>8, <1>9, <1>10, <1>12 DEF Stepping, LastFrame

(* The rest of the invariant, from the rows the box runs and its ring.     *)
LEMMA StepHandled ==
  ASSUME AgreeInv, HandleStepd \/ HandleStep, RingInv',
         NEW f, f = Frame, NEW b \in Blocks, Runs(b),
         reply' # None => /\ ~reply'.err /\ reply'.blk = b
                          /\ f.blk # None => b = f.blk
                          /\ phase = "resolve" /\ reply'.mode # "bonus" => f.keep + b.len <= MaxPos,
         ringOff' \in Nat, ringOk' \in BOOLEAN,
         ringOk' => bring' = Whole(ringOff'), DraftsFromWholeRing',
         \A e : FollowsUp(f) /\ e = host.off /\ ringOk' => ringOff' = e
  PROVE  AgreeInv'
<1>1. /\ UNCHANGED <<base, keep, phase, blk, ver, host, primed, sticky, disabled, explicit, pending, ready, granted, link>>
  BY DEF HandleStepd, HandleStep, Handled, request, rings, draft, encoder
<1>2. /\ wire # <<>> /\ wire' = <<>> /\ Frames' = {} /\ Len(wire') = 0
      /\ Stepping(f) /\ Carried(f) /\ LastFrame = f /\ ~Settled /\ ~Settled'
      /\ phase \in {"wait", "resolve", "ended"} /\ (phase = "wait" => ready = None)
  BY StepArrives
<1>3. f.keep \in Nat /\ b.len \in Nat /\ bpend' = [base |-> f.keep, blk |-> b] /\ blen' = f.keep + b.len
  BY <1>2 DEF Carried, Runs, Blocks
<1>4. /\ phase \in {"wait", "resolve"} => f.keep = keep
      /\ phase = "wait" => f.blk = blk /\ Fits(blk) /\ blk # None
  BY <1>2, RingAssumption DEF Carried, AgreeInv, SessionAgrees, Placed, Fits
<1>5. Types'
  BY <1>1, <1>3 DEF AgreeInv, Types
<1>6. Shape'
  BY <1>1, <1>2 DEF AgreeInv, Shape
<1>7. BoxRing'
  BY <1>2 DEF BoxRing
<1>8. SessionAgrees'
  <2>1. Placed'
    BY <1>1, <1>2 DEF AgreeInv, SessionAgrees, Placed, Fits, Settled
  <2>2. Answering'
    BY <1>1, <1>3, <1>4 DEF Answering, Holds, Fits
  <2> QED
    BY <1>1, <1>2, <2>1, <2>2 DEF AgreeInv, SessionAgrees
<1>9. Follow'
  <2>1. CASE ~(link /\ primed)
    BY <1>1, <2>1 DEF AgreeInv, Follow
  <2>2. CASE link /\ primed
    <3>1. Current
      BY <2>2 DEF AgreeInv, Follow
    <3>2. phase \in {"wait", "resolve"} => RingEnds(host.off)'
      <4> SUFFICES ASSUME phase \in {"wait", "resolve"} PROVE RingEnds(host.off)'
        OBVIOUS
      <4>1. FollowsUp(f)
        BY <1>2, <3>1 DEF Current
      <4>2. ringOk' => ringOff' = host.off
        BY <4>1
      <4> QED
        BY <1>1, <1>2, <4>2 DEF RingEnds
    <3>3. Current'
      BY <1>1, <1>2, <3>2 DEF Current
    <3> QED
      BY <1>1, <3>3 DEF AgreeInv, Follow
  <2> QED
    BY <2>1, <2>2
<1> QED
  BY <1>5, <1>6, <1>7, <1>8, <1>9 DEF AgreeInv

(* Taps that follow the newest row leave the ring whole up to keep.        *)
LEMMA AppendedRing ==
  ASSUME AgreeInv, NEW f, f = Frame, Stepping(f), Rows(f), RingAfter
  PROVE  /\ Appends => bring' = Whole(f.keep) /\ ringOff' = f.keep
         /\ ~Appends => UNCHANGED <<bring, ringOff>>
         /\ ringOk => bring' = Whole(ringOff')
         /\ ringOff' \in Nat /\ f.keep \in Nat
<1>1. f.keep \in Nat /\ (f.taps = {} \/ \E a \in 0..(f.keep - 1) : f.taps = a..(f.keep - 1))
  BY DEF Rows, Stepping
<1>2. CASE Appends
  <2>1. PICK a \in 0..(f.keep - 1) : f.taps = a..(f.keep - 1)
    BY <1>1, <1>2 DEF Appends
  <2>2. ringOff \in a..(f.keep - 1) /\ ringOff - 1 \notin a..(f.keep - 1) /\ ringOk
    BY <1>2, <2>1 DEF Appends
  <2>3. ringOff = a /\ a \in Nat /\ a <= f.keep
    BY <1>1, <2>2
  <2>4. bring = Whole(a)
    BY <2>2, <2>3 DEF AgreeInv, BoxRing
  <2>5. bring' = Newest(Whole(a) \cup a..(f.keep - 1), f.keep) /\ ringOff' = f.keep
    BY <1>2, <2>1, <2>4 DEF RingAfter
  <2>6. bring' = Whole(f.keep)
    BY <1>1, <2>3, <2>5, WholeNext
  <2> QED
    BY <1>1, <1>2, <2>5, <2>6
<1>3. CASE ~Appends
  <2>1. UNCHANGED <<bring, ringOff>>
    BY <1>3 DEF RingAfter
  <2> QED
    BY <1>1, <1>3, <2>1 DEF AgreeInv, Types, BoxRing
<1> QED
  BY <1>2, <1>3

LEMMA HandleStepAgrees ==
  ASSUME AgreeInv, HandleStep, RingInv'
  PROVE  AgreeInv'
<1>0. PICK f : f = Frame
  OBVIOUS
<1>1. Stepping(f) /\ Rows(f) /\ Carried(f) /\ Acceptable
  BY <1>0, StepArrives
<1>2. f.tag = "STEP" /\ PlainStep
  BY <1>0, <1>1 DEF HandleStep, Arrived, Frame
<1>3. f.blk \in Blocks /\ f.blk.by # "box" /\ f.keep + f.blk.len <= MaxPos /\ f.blk # None
  BY <1>1, <1>2, RingAssumption DEF Carried, Carrying, Drafting, Accepts
<1>4. Runs(f.blk) /\ reply' = [NoReply EXCEPT !.keep = f.keep, !.blk = f.blk]
  BY <1>0, <1>2 DEF PlainStep
<1>5. ~reply'.err /\ reply'.blk = f.blk /\ ~reply'.ringOk
  BY <1>4 DEF NoReply
<1>6. /\ ringOff' \in Nat /\ ringOk' \in BOOLEAN /\ (ringOk' => bring' = Whole(ringOff'))
      /\ FollowsUp(f) /\ ringOk' => ringOff' = host.off
  <2>1. CASE f.taps # {}
    <3>1. ringOk' = Appends /\ RingAfter
      BY <1>0, <1>2, <2>1 DEF PlainStep
    <3>2. Appends \in BOOLEAN /\ (Appends => ringOk)
      BY DEF Appends
    <3> QED
      BY <1>0, <1>1, <2>1, <3>1, <3>2, AppendedRing DEF FollowsUp
  <2>2. CASE f.taps = {}
    <3>1. UNCHANGED <<bring, ringOk, ringOff>>
      BY <1>0, <1>2, <2>2 DEF PlainStep, boxring
    <3>2. FollowsUp(f) /\ ringOk => ringOff = host.off
      <4>1. wire # <<>> /\ ~OfRing(wire[1])
        BY <1>0, StepArrives
      <4> QED
        BY <1>2, <2>2, <4>1 DEF FollowsUp, RingEnds
    <3> QED
      BY <3>1, <3>2 DEF AgreeInv, Types, BoxRing
  <2> QED
    BY <2>1, <2>2
<1>7. DraftsFromWholeRing'
  BY <1>3, <1>5 DEF DraftsFromWholeRing
<1> QED
  BY <1>0, <1>3, <1>4, <1>5, <1>6, <1>7, StepHandled

LEMMA HandleStepdAgrees ==
  ASSUME AgreeInv, HandleStepd, RingInv'
  PROVE  AgreeInv'
<1>0. PICK f : f = Frame
  OBVIOUS
<1>1. Stepping(f) /\ Rows(f) /\ Carried(f) /\ Acceptable
  BY <1>0, StepArrives
<1>2. f.tag = "STEPD" /\ Stepped
  BY <1>0, <1>1 DEF HandleStepd, Arrived, Frame
<1> DEFINE missed == ~enabled \/ (Frame.ver # None /\ ~Appends)
           current == ringOk /\ ~missed /\ (Appends \/ ringOff = Frame.keep)
           room == MaxPos - Frame.keep - 1
           eligible == Frame.mode = "box" /\ Frame.keep >= MinCtx /\ room >= 1
           drafts == eligible /\ enabled /\ current
           blocks == CASE drafts -> {Block(n, "box") : n \in {n \in 2..MaxRows : n <= room + 1}}
                       [] eligible /\ ~drafts -> {Block(2, "filler")}
                       [] Frame.mode = "explicit" -> {Frame.blk}
                       [] OTHER -> {Block(1, "bonus")}
           mode == IF ~eligible /\ Frame.mode = "box" THEN "bonus" ELSE Frame.mode
<1>3. ringOk' = (ringOk /\ ~missed) /\ RingAfter
  BY <1>2 DEF Stepped
<1>4. PICK b \in blocks, pf \in BOOLEAN :
        /\ Runs(b)
        /\ reply' = [err |-> FALSE, stepd |-> TRUE, keep |-> Frame.keep, mode |-> mode, blk |-> b,
                     pf |-> pf, off |-> ~enabled, ringOk |-> current,
                     from |-> IF drafts THEN bring' ELSE {}]
  BY <1>2 DEF Stepped
<1>5. /\ ~reply'.err /\ reply'.blk = b /\ reply'.mode = mode /\ reply'.keep = f.keep
      /\ reply'.ringOk = current /\ reply'.from = IF drafts THEN bring' ELSE {}
  BY <1>0, <1>4
<1>6. /\ f.keep \in Nat
      /\ \/ f.mode = "box" /\ f.blk = None
         \/ f.mode = "explicit" /\ f.blk \in Blocks /\ f.blk.by # "box" /\ f.blk # None
  BY <1>1, <1>2, RingAssumption DEF Carried, Drafting, Carrying
<1>7. /\ b \in Blocks
      /\ f.blk # None => b = f.blk
      /\ mode # "bonus" => f.keep + b.len <= MaxPos
      /\ b.by = "box" => drafts
  <2>1. CASE drafts
    <3>1. PICK n \in {n \in 2..MaxRows : n <= room + 1} : b = Block(n, "box")
      BY <1>4, <2>1
    <3>2. n \in Nat \ {0} /\ n <= room + 1
      BY <3>1, RingAssumption
    <3>3. b \in Blocks /\ b.len = n
      BY <3>1, <3>2, BlockTypes
    <3>4. f.keep + n <= MaxPos
      BY <1>0, <1>6, <3>2, RingAssumption
    <3> QED
      BY <1>0, <1>6, <2>1, <3>3, <3>4
  <2>2. CASE eligible /\ ~drafts
    <3>1. b = Block(2, "filler")
      BY <1>4, <2>2
    <3>2. b \in Blocks /\ b.len = 2 /\ b.by = "filler"
      <4>1. 2 \in Nat \ {0}
        OBVIOUS
      <4> QED
        BY <3>1, <4>1, BlockTypes
    <3>3. f.keep + 2 <= MaxPos
      BY <1>0, <1>6, <2>2, RingAssumption
    <3> QED
      BY <1>0, <1>6, <2>2, <3>2, <3>3
  <2>3. CASE f.mode = "explicit"
    <3>1. b = f.blk
      BY <1>0, <1>4, <2>3
    <3>2. f.keep + f.blk.len <= MaxPos
      BY <1>0, <1>1, <1>6, <2>3 DEF Carried, Accepts
    <3> QED
      BY <1>0, <1>6, <2>3, <3>1, <3>2
  <2>4. CASE ~eligible /\ f.mode = "box"
    <3>1. b = Block(1, "bonus") /\ mode = "bonus"
      BY <1>0, <1>4, <2>4
    <3>2. b \in Blocks /\ b.by = "bonus"
      <4>1. 1 \in Nat \ {0}
        OBVIOUS
      <4> QED
        BY <3>1, <4>1, BlockTypes
    <3> QED
      BY <1>0, <1>6, <2>4, <3>1, <3>2
  <2> QED
    BY <1>0, <1>6, <2>1, <2>2, <2>3, <2>4
<1>8. /\ Appends => bring' = Whole(f.keep) /\ ringOff' = f.keep /\ f.taps # {}
      /\ ~Appends => UNCHANGED <<bring, ringOff>>
      /\ ringOk => bring' = Whole(ringOff')
      /\ ringOff' \in Nat
  BY <1>0, <1>1, <1>3, AppendedRing DEF Appends
<1>9. ringOk' => ringOk /\ enabled /\ (f.ver # None => Appends)
  BY <1>0, <1>3
<1>10. current => bring' = Whole(f.keep)
  BY <1>0, <1>8
<1>11. DraftsFromWholeRing'
  <2>1. drafts => current
    OBVIOUS
  <2> HIDE DEF current, drafts
  <2>2. Whole(f.keep)' = Whole(f.keep)
    BY DEF Whole, Newest
  <2> QED
    BY <1>5, <1>7, <1>10, <2>1, <2>2 DEF DraftsFromWholeRing
<1>12. FollowsUp(f) /\ ringOk' => ringOff' = host.off
  <2>1. wire # <<>> /\ ~OfRing(wire[1])
    BY <1>0, StepArrives
  <2>2. CASE f.taps # {}
    BY <1>2, <1>8, <1>9, <2>2 DEF FollowsUp
  <2>3. CASE f.taps = {}
    BY <1>2, <1>8, <1>9, <2>1, <2>3 DEF FollowsUp, RingEnds
  <2> QED
    BY <2>2, <2>3
<1>13. ringOk' \in BOOLEAN
  BY <1>3
<1> HIDE DEF missed, current, drafts, eligible, blocks, mode
<1> QED
  BY <1>0, <1>4, <1>5, <1>7, <1>8, <1>9, <1>11, <1>12, <1>13, StepHandled

-----------------------------------------------------------------------------
LEMMA AgreeInvStep == AgreeInv /\ [Next]_vars => AgreeInv'
<1> SUFFICES ASSUME AgreeInv, [Next]_vars PROVE AgreeInv'
  OBVIOUS
<1>1. RingInv'
  BY RingInvStep DEF AgreeInv
<1>2. CASE Mac
  <2>1. CASE Recover \/ End
    BY <1>1, <2>1, RecoverAgrees, EndAgrees
  <2>2. CASE /\ Prepare \/ MacDraft \/ Presend \/ Redraft \/ Receive \/ Resolve \/ Commit
             /\ UNCHANGED <<granted, session, boxring, enabled, faults>>
    <3>1. BoxStill
      BY <2>2 DEF BoxStill, session, boxring
    <3>2. CASE Prepare
      <4>1. ~RingGap
        BY NoGap DEF AgreeInv
      <4> QED
        BY <1>1, <3>1, <3>2, <4>1, PlainAgrees, BoxDraftsAgrees, MacDraftsAgrees DEF Prepare
    <3> QED
      BY <1>1, <2>2, <3>1, <3>2, MacDraftAgrees, PresendAgrees, RedraftAgrees, ReceiveAgrees, ResolveAgrees,
         CommitAgrees
  <2> QED
    BY <1>2, <2>1, <2>2 DEF Mac
<1>3. CASE Box
  BY <1>1, <1>3, HandleRingAgrees, HandleStepdAgrees, HandleStepAgrees DEF Box
<1> QED
  BY <1>1, <1>2, <1>3, RestAgrees DEF Next

LEMMA AgreeInvInit == Init => AgreeInv
<1> SUFFICES ASSUME Init PROVE AgreeInv
  OBVIOUS
<1>1. base \in Nat /\ keep = base + 1
  BY RingAssumption DEF Init
<1>2. RingInv
  BY RingInvInit
<1>3. Block(1, "mac") \in Blocks /\ Block(1, "mac").len = 1
  <2>1. 1 \in Nat \ {0}
    OBVIOUS
  <2> QED
    BY <2>1, BlockTypes
<1>4. bpend = [base |-> base, blk |-> Block(1, "mac")] /\ blen = base + 1
  BY DEF Init
<1>5. bpend \in [base : Nat, blk : Blocks] /\ bpend # None /\ bpend.base = base
  <2>1. bpend \in [base : Nat, blk : Blocks]
    BY <1>1, <1>3, <1>4
  <2> QED
    BY <1>4, <2>1, RingAssumption
<1>6. wire = <<>> /\ Frames = {} /\ Len(wire) = 0
  BY EmptyFrames DEF Init
<1>7. Types
  <2>1. blk = None /\ ver = None /\ ringOff = 0 /\ primed = FALSE /\ ringOk = FALSE
    BY DEF Init
  <2>2. blen \in Nat
    BY <1>1, <1>4
  <2> QED
    BY <1>5, <2>1, <2>2 DEF Types
<1>8. Shape
  <2>1. Len(wire) <= 2 /\ Len(wire) <= 1
    BY <1>6
  <2>2. ready = None /\ explicit = None
    BY DEF Init
  <2> QED
    BY <1>6, <2>1, <2>2 DEF Shape
<1>9. BoxRing
  BY <1>6 DEF Init, BoxRing, DraftsFromWholeRing
<1>10. SessionAgrees
  <2>1. Within(keep)
    BY <1>1, <1>4, <1>5 DEF Within
  <2>2. Placed /\ Answering
    BY <2>1 DEF Init, Placed, Answering
  <2> QED
    BY <1>6, <2>2, RingAssumption DEF Init, SessionAgrees
<1>11. Follow
  BY DEF Init, Follow
<1> QED
  BY <1>2, <1>7, <1>8, <1>9, <1>10, <1>11 DEF AgreeInv

LEMMA AgreeInvAlways == Spec => []AgreeInv
BY AgreeInvInit, AgreeInvStep, PTL DEF Spec

(* The box drafts a block from exactly the newest committed positions, and *)
(* says RING_OK of no other ring: whatever it appended, missed, was told   *)
(* with a RING or lost with a session.                                     *)
THEOREM RingWholeDrafts == Spec => []DraftsFromWholeRing
<1>1. AgreeInv => DraftsFromWholeRing
  BY DEF AgreeInv, BoxRing
<1> QED
  BY <1>1, AgreeInvAlways, PTL

(* Every step the Mac sends is one the box accepts: the accept it reports  *)
(* is of the box's pending step, or the step says none.  So drafting on    *)
(* the box never ends in an error of the protocol or a gap of the rings.   *)
THEOREM RingNeverRefused == Spec => []NeverRefused
<1>1. AgreeInv => NeverRefused
  BY DEF AgreeInv, SessionAgrees, Answering, NeverRefused, Refused
<1> QED
  BY <1>1, AgreeInvAlways, PTL

(* A box ring the Mac takes for current and the box for usable holds the   *)
(* rows of the host's copy, once what was on its way has arrived.          *)
THEOREM RingRingsAgree == Spec => []RingsAgree
<1>1. AgreeInv => RingsAgree
  <2> SUFFICES ASSUME AgreeInv, primed, link, ringOk, phase = "verify"
               PROVE  bring = Window(host) /\ ringOff = host.off
    BY DEF RingsAgree
  <2>1. wire = <<>> /\ RingEnds(host.off)
    BY DEF AgreeInv, Shape, Settled, Follow, Current
  <2>2. ringOff = host.off /\ bring = Whole(ringOff)
    BY <2>1 DEF RingEnds, AgreeInv, BoxRing
  <2> QED
    BY <2>2 DEF AgreeInv, RingInv, HostInv
<1> QED
  BY <1>1, AgreeInvAlways, PTL

=============================================================================
