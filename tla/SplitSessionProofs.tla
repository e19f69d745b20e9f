------------------------- MODULE SplitSessionProofs -------------------------
(***************************************************************************)
(* For any prompt, context, number of drafts, retries, slots and faults:   *)
(* the rows the Mac verifies are those of its committed text, and the      *)
(* session can be rebuilt at any moment.                                   *)
(*                                                                         *)
(* At most one frame or one reply is under way on the Mac's link.  The     *)
(* invariant says which: the pending step, not yet handled, or its reply;  *)
(* and what the box's session holds, as long as the link is up.            *)
(***************************************************************************)
EXTENDS SplitSession, TLAPS

Live == {"idle", "ensure", "stale", "await", "verify"}
Frame == [tag : {"OPEN", "STEP", "CLOS"}, rows : Seq(Tokens), keep : Nat]
Answer == [tag : {"ACK", "BUSY", "STPR", "ERR", "REWIND"}, rows : Seq(Tokens)]
BoxSession == [rows : Seq(Tokens), base : Nat \cup {None}, live : BOOLEAN]
Connection == [st : {"up", "broken", "done"}, in : Seq(Frame), out : Seq(Answer), sess : BoxSession]
StepSent == [keep : Nat, ids : Seq(Tokens)]

Types ==
  /\ text \in Seq(Tokens) /\ history \in Seq(Tokens) /\ ids \in Seq(Tokens)
  /\ next \in Tokens /\ length \in Nat /\ pending \in StepSent \cup {None}
  /\ link \in Slots \cup {None}
  /\ conns \in [Slots -> Connection]

(* The Mac's own books.                                                    *)
Committed ==
  /\ Len(text) <= Len(history) /\ Take(history, Len(text)) = text
  /\ mpc \in Live \cup {"reopen"} => link \in Slots
  /\ mpc \in {"verify", "connect", "reopen"} => pending = None
  /\ mpc = "stale" => pending # None
  /\ mpc = "await" => pending = [keep |-> Len(text), ids |-> ids]
  /\ mpc \in Live /\ pending # None => pending.keep = Len(text) /\ history = text \o pending.ids
  /\ mpc \in {"idle", "ensure", "stale"} => Len(text) <= length
  /\ mpc = "verify" => history = text \o ids /\ got = history /\ length = Len(history)

(* What the link's session holds when nothing is under way.                *)
Holds(L) ==
  /\ L.sess.rows = history
  /\ IF L.sess.base = None THEN Len(history) = Len(text) ELSE L.sess.base <= Len(text)

Silent(L) == L.in = <<>> /\ L.out = <<>> /\ L.st # "up"
Quiet(L) == L.in = <<>> /\ L.out = <<>> /\ (L.st = "up" => Holds(L))
Sent(L) ==
  /\ L.in = <<Step(Len(text), pending.ids)>> /\ L.out = <<>>
  /\ Take(L.sess.rows, Len(text)) = text
Answered(L) ==
  /\ L.in = <<>>
  /\ \E r \in Answer : L.out = <<r>> /\ (r.tag = "STPR" => r.rows = history)
  /\ L.st = "up" => Holds(L)
(* An OPEN that failed after its answer had been sent: the answer and ERR. *)
Doubled(L) ==
  /\ L.in = <<>> /\ L.st # "up"
  /\ \E r, e \in Answer : L.out = <<r, e>> /\ e.tag # "STPR"
Opening(L) ==
  \/ L.in = <<Open(text)>> /\ L.out = <<>>
  \/ /\ L.in = <<>>
     /\ \E r \in Answer : L.out = <<r>>
     /\ L.st = "up" => L.sess.rows = text /\ L.sess.base = None
  \/ Silent(L)
  \/ Doubled(L)

Flight(L) == IF pending = None THEN Quiet(L) ELSE Sent(L) \/ Answered(L) \/ Silent(L)

Linked ==
  /\ mpc \in Live => Flight(conns[link])
  /\ mpc = "reopen" => Opening(conns[link])

(* A step that waits at the box, on any connection, will not be refused.   *)
Kept(L) ==
  /\ \A i \in 1..Len(L.out) : L.out[i].tag # "REWIND"
  /\ \A i \in 1..Len(L.in) : L.in[i].tag = "STEP" => i = 1 /\ KeepOk(L.sess, L.in[1].keep)

SessionInv == Types /\ Committed /\ Linked /\ \A c \in Slots : Kept(conns[c])

-----------------------------------------------------------------------------
(* Sequences.                                                              *)

LEMMA ConcatFacts ==
  ASSUME NEW s \in Seq(Tokens), NEW t \in Seq(Tokens)
  PROVE  /\ s \o t \in Seq(Tokens) /\ Len(s \o t) = Len(s) + Len(t)
         /\ Take(s \o t, Len(s)) = s
         /\ Take(s, Len(s)) = s
BY DEF Take

LEMMA TakeFurther ==
  ASSUME NEW s \in Seq(Tokens), NEW t \in Seq(Tokens), NEW n \in 0..Len(t)
  PROVE  /\ Take(t, n) \in Seq(Tokens) /\ Len(Take(t, n)) = n
         /\ Take(s \o t, Len(s) + n) = s \o Take(t, n)
BY DEF Take

LEMMA One ==
  ASSUME NEW S, NEW f \in S
  PROVE  /\ <<f>> # <<>> /\ Len(<<f>>) = 1 /\ <<f>>[1] = f /\ Tail(<<f>>) = <<>>
         /\ Append(<<>>, f) = <<f>> /\ Len(<<>>) = 0 /\ <<f>> \in Seq(S) /\ <<>> \in Seq(S)
OBVIOUS

LEMMA AppendFacts ==
  ASSUME NEW S, NEW s \in Seq(S), NEW f \in S
  PROVE  /\ Append(s, f) \in Seq(S) /\ Len(Append(s, f)) = Len(s) + 1
         /\ \A i \in 1..Len(s) : Append(s, f)[i] = s[i]
         /\ Append(s, f)[Len(s) + 1] = f
OBVIOUS

LEMMA TailFacts ==
  ASSUME NEW S, NEW s \in Seq(S), s # <<>>
  PROVE  /\ Tail(s) \in Seq(S) /\ Len(Tail(s)) = Len(s) - 1 /\ Len(s) >= 1
         /\ \A i \in 1..Len(Tail(s)) : Tail(s)[i] = s[i + 1]
OBVIOUS

-----------------------------------------------------------------------------
(* The box.                                                                *)

LEMMA KeptSame ==
  ASSUME NEW L, NEW M, M.in = L.in, M.out = L.out, M.sess = L.sess, Kept(L)
  PROVE  Kept(M)
BY DEF Kept

LEMMA KeptMore ==
  ASSUME NEW L, NEW M, NEW f \in Frame, f.tag # "STEP", L.in \in Seq(Frame), Kept(L),
         M.in = Append(L.in, f), M.out = L.out, M.sess = L.sess
  PROVE  Kept(M)
<1> DEFINE old == L.in
           long == M.in
<1>1. /\ Len(long) = Len(old) + 1 /\ Len(old) \in Nat
      /\ \A i \in 1..Len(old) : long[i] = old[i]
      /\ long[Len(old) + 1] = f
  BY AppendFacts
<1>2. \A i \in 1..Len(old) : old[i].tag = "STEP" => i = 1 /\ KeepOk(L.sess, old[1].keep)
  BY DEF Kept
<1> HIDE DEF old, long
<1>3. ASSUME NEW i \in 1..Len(long), long[i].tag = "STEP"
      PROVE  i = 1 /\ KeepOk(L.sess, long[1].keep)
  <2>1. i \in 1..Len(old)
    BY <1>1, <1>3
  <2> QED
    BY <1>1, <1>2, <1>3, <2>1
<1> QED
  BY <1>3 DEF Kept, long

LEMMA NotRewound ==
  ASSUME NEW out \in Seq(Answer), NEW r \in Answer, r.tag # "REWIND",
         \A i \in 1..Len(out) : out[i].tag # "REWIND"
  PROVE  \A i \in 1..Len(Append(out, r)) : Append(out, r)[i].tag # "REWIND"
<1> DEFINE long == Append(out, r)
<1>1. /\ Len(long) = Len(out) + 1 /\ Len(out) \in Nat
      /\ \A i \in 1..Len(out) : long[i] = out[i]
      /\ long[Len(out) + 1] = r
  BY AppendFacts
<1> HIDE DEF long
<1>2. ASSUME NEW i \in 1..Len(long) PROVE long[i].tag # "REWIND"
  <2>1. CASE i \in 1..Len(out)
    BY <1>1, <2>1
  <2>2. CASE i = Len(out) + 1
    BY <1>1, <2>2
  <2> QED
    BY <1>1, <2>1, <2>2
<1> QED
  BY <1>2 DEF long

LEMMA NotRewoundTwice ==
  ASSUME NEW out \in Seq(Answer), NEW a \in Answer, NEW b \in Answer, a.tag # "REWIND", b.tag # "REWIND",
         \A i \in 1..Len(out) : out[i].tag # "REWIND"
  PROVE  /\ out \o <<a, b>> \in Seq(Answer)
         /\ \A i \in 1..Len(out \o <<a, b>>) : (out \o <<a, b>>)[i].tag # "REWIND"
<1> DEFINE one == Append(out, a)
           two == Append(one, b)
<1>1. one \in Seq(Answer) /\ \A i \in 1..Len(one) : one[i].tag # "REWIND"
  BY AppendFacts, NotRewound
<1>2. out \o <<a, b>> = two
  OBVIOUS
<1> HIDE DEF one
<1>3. two \in Seq(Answer) /\ \A i \in 1..Len(two) : two[i].tag # "REWIND"
  BY <1>1, AppendFacts, NotRewound
<1> QED
  BY <1>2, <1>3

(* A connection after its session has been closed.                         *)
LEMMA EndedIs ==
  ASSUME NEW L \in Connection
  PROVE  LET M == [L EXCEPT !.st = "done", !.in = <<>>, !.sess = NoSession]
         IN  M \in Connection /\ M.in = <<>> /\ M.out = L.out /\ M.st = "done"
<1>1. NoSession \in BoxSession
  BY DEF NoSession, BoxSession
<1>2. <<>> \in Seq(Frame)
  OBVIOUS
<1> HIDE DEF NoSession
<1> QED
  BY <1>1, <1>2 DEF Connection

(* A step of the box: only one connection changes, and what the invariant  *)
(* says of it holds again.                                                 *)
LEMMA BoxKeeps ==
  ASSUME SessionInv, UNCHANGED mac, NEW c \in Slots, conns' \in [Slots -> Connection],
         \A d \in Slots \ {c} : conns'[d] = conns[d],
         Kept(conns'[c]),
         mpc \in Live /\ link = c => Flight(conns'[c]),
         mpc = "reopen" /\ link = c => Opening(conns'[c])
  PROVE  SessionInv'
<1>1. UNCHANGED <<text, next, mpc, ids, got, history, length, pending, link>>
  BY DEF mac, enc
<1>2. Types' /\ Committed'
  BY <1>1 DEF SessionInv, Types, Committed
<1>3. Linked'
  <2>1. mpc \in Live => Flight(conns'[link])
    BY DEF SessionInv, Linked, Committed
  <2>2. mpc = "reopen" => Opening(conns'[link])
    BY DEF SessionInv, Linked, Committed
  <2> QED
    BY <1>1, <2>1, <2>2 DEF Linked, Flight, Quiet, Sent, Answered, Silent, Holds, Opening, Doubled
<1>4. \A d \in Slots : Kept(conns'[d])
  BY DEF SessionInv
<1> QED
  BY <1>2, <1>3, <1>4 DEF SessionInv, Kept, KeepOk

(* An answer to the first frame: nothing but it was waiting to be handled. *)
LEMMA HandledKeeps ==
  ASSUME SessionInv, UNCHANGED mac, NEW c \in Slots, conns[c].in # <<>>,
         NEW reply \in Answer, NEW sess \in BoxSession, reply.tag # "REWIND",
         Handled(c, reply, sess),
         mpc \in Live /\ link = c =>
           /\ reply.tag = "STPR" => reply.rows = history
           /\ pending # None => sess.rows = history /\ sess.base # None /\ sess.base <= Len(text),
         mpc = "reopen" /\ link = c => sess.rows = text /\ sess.base = None
  PROVE  SessionInv'
<1> DEFINE L == conns[c]
           M == [L EXCEPT !.in = Tail(L.in), !.out = Append(L.out, reply), !.sess = sess]
<1>1. L \in Connection /\ Kept(L)
  BY DEF SessionInv, Types
<1>2. /\ Tail(L.in) \in Seq(Frame) /\ Len(Tail(L.in)) = Len(L.in) - 1
      /\ \A i \in 1..Len(Tail(L.in)) : Tail(L.in)[i] = L.in[i + 1]
  BY <1>1, TailFacts DEF Connection
<1>3. /\ Append(L.out, reply) \in Seq(Answer) /\ Len(Append(L.out, reply)) = Len(L.out) + 1
      /\ \A i \in 1..Len(L.out) : Append(L.out, reply)[i] = L.out[i]
      /\ Append(L.out, reply)[Len(L.out) + 1] = reply
  BY <1>1, AppendFacts DEF Connection
<1>4. /\ conns' = [conns EXCEPT ![c] = M] /\ M \in Connection
      /\ M.in = Tail(L.in) /\ M.out = Append(L.out, reply) /\ M.sess = sess /\ M.st = L.st
  BY <1>1, <1>2, <1>3 DEF Handled, Connection
<1>5. /\ conns' \in [Slots -> Connection] /\ conns'[c] = M
      /\ \A d \in Slots \ {c} : conns'[d] = conns[d]
  BY <1>4 DEF SessionInv, Types
<1>6. Kept(M)
  <2>1. \A i \in 1..Len(M.out) : M.out[i].tag # "REWIND"
    <3>1. L.out \in Seq(Answer) /\ \A i \in 1..Len(L.out) : L.out[i].tag # "REWIND"
      BY <1>1 DEF Kept, Connection
    <3> HIDE DEF M, L
    <3> QED
      BY <1>4, <3>1, NotRewound
  <2>2. \A i \in 1..Len(M.in) : M.in[i].tag # "STEP"
    <3>1. /\ Len(L.in) \in Nat /\ Len(M.in) = Len(L.in) - 1
          /\ \A i \in 1..Len(M.in) : M.in[i] = L.in[i + 1]
      BY <1>1, <1>2, <1>4 DEF Connection
    <3>2. \A i \in 1..Len(L.in) : L.in[i].tag = "STEP" => i = 1
      BY <1>1 DEF Kept
    <3> HIDE DEF M, L
    <3>3. ASSUME NEW i \in 1..Len(M.in) PROVE M.in[i].tag # "STEP"
      <4>1. i + 1 \in 1..Len(L.in) /\ i + 1 # 1
        BY <3>1
      <4> QED
        BY <3>1, <3>2, <4>1
    <3> QED
      BY <3>3
  <2> QED
    BY <2>1, <2>2 DEF Kept
<1>7. ASSUME mpc \in Live, link = c PROVE Flight(M)
  <2>1. Sent(L) /\ pending # None
    BY <1>7 DEF SessionInv, Linked, Flight, Quiet, Answered, Silent
  <2>2. M.in = <<>> /\ M.out = <<reply>>
    BY <1>4, <2>1, One DEF Sent
  <2> QED
    BY <1>4, <1>7, <2>1, <2>2 DEF Flight, Answered, Holds
<1>8. ASSUME mpc = "reopen", link = c PROVE Opening(M)
  <2>1. L.in = <<Open(text)>> /\ L.out = <<>>
    BY <1>8 DEF SessionInv, Linked, Opening, Silent, Doubled
  <2>2. M.in = <<>> /\ M.out = <<reply>>
    BY <1>4, <2>1, One
  <2> QED
    BY <1>4, <1>8, <2>2 DEF Opening
<1> QED
  BY <1>5, <1>6, <1>7, <1>8, BoxKeeps

(* An error answer ends the connection.                                    *)
LEMMA ErroredKeeps ==
  ASSUME SessionInv, UNCHANGED mac, NEW c \in Slots, conns[c].in # <<>>,
         NEW tag \in {"BUSY", "ERR"}, Errored(c, tag)
  PROVE  SessionInv'
<1> DEFINE L == conns[c]
           reply == Reply(tag, <<>>)
           M == [st |-> "done", in |-> <<>>, sess |-> NoSession, out |-> Append(L.out, reply)]
<1>1. L \in Connection /\ Kept(L)
  BY DEF SessionInv, Types
<1>2. reply \in Answer /\ reply.tag = tag
  BY DEF Answer, Reply
<1>3. /\ Append(L.out, reply) \in Seq(Answer) /\ Len(Append(L.out, reply)) = Len(L.out) + 1
      /\ \A i \in 1..Len(L.out) : Append(L.out, reply)[i] = L.out[i]
      /\ Append(L.out, reply)[Len(L.out) + 1] = reply
  BY <1>1, <1>2, AppendFacts DEF Connection
<1>4. conns' = [conns EXCEPT ![c] = M] /\ M \in Connection
  BY <1>1, <1>3 DEF Errored, Connection, NoSession, BoxSession, Frame
<1>5. /\ conns' \in [Slots -> Connection] /\ conns'[c] = M
      /\ \A d \in Slots \ {c} : conns'[d] = conns[d]
  BY <1>4 DEF SessionInv, Types
<1>6. Kept(M)
  <2>1. M.in = <<>> /\ M.out = Append(L.out, reply)
    OBVIOUS
  <2>2. reply.tag # "REWIND"
    BY <1>2
  <2>3. \A i \in 1..Len(M.out) : M.out[i].tag # "REWIND"
    BY <1>1, <1>2, <2>1, <2>2, NotRewound DEF Kept, Connection
  <2> HIDE DEF M
  <2> QED
    BY <2>1, <2>3 DEF Kept
<1>7. ASSUME mpc \in Live, link = c PROVE Flight(M)
  <2>1. Sent(L) /\ pending # None
    BY <1>7 DEF SessionInv, Linked, Flight, Quiet, Answered, Silent
  <2>2. M.out = <<reply>>
    BY <1>2, <2>1, One DEF Sent
  <2> QED
    BY <1>2, <2>1, <2>2 DEF Flight, Answered
<1>8. ASSUME mpc = "reopen", link = c PROVE Opening(M)
  <2>1. L.in = <<Open(text)>> /\ L.out = <<>>
    BY <1>8 DEF SessionInv, Linked, Opening, Silent, Doubled
  <2>2. M.out = <<reply>>
    BY <1>2, <2>1, One
  <2> QED
    BY <1>2, <2>2 DEF Opening
<1> QED
  BY <1>5, <1>6, <1>7, <1>8, BoxKeeps

LEMMA BoxOpenKeeps == ASSUME SessionInv, NEW c \in Slots, BoxOpen(c) PROVE SessionInv'
<1> DEFINE L == conns[c]
<1>1. L \in Connection /\ L.in # <<>> /\ L.in[1].tag = "OPEN" /\ UNCHANGED mac
  BY DEF BoxOpen, Queued, SessionInv, Types
<1>2. L.in[1] \in Frame
  BY <1>1 DEF Connection
<1>3. CASE Handled(c, Reply("ACK", <<>>), Session(L.in[1].rows, None))
  <2>1. Reply("ACK", <<>>) \in Answer /\ Session(L.in[1].rows, None) \in BoxSession
    BY <1>2 DEF Reply, Answer, Session, BoxSession, Frame
  <2>2. ~(mpc \in Live /\ link = c)
    <3> SUFFICES ASSUME mpc \in Live, link = c PROVE FALSE
      OBVIOUS
    <3>1. L.in = <<Step(Len(text), pending.ids)>>
      BY <1>1 DEF SessionInv, Linked, Flight, Quiet, Sent, Answered, Silent
    <3> QED
      BY <1>1, <3>1 DEF Step
  <2>3. mpc = "reopen" /\ link = c => L.in[1] = Open(text)
    BY <1>1 DEF SessionInv, Linked, Opening, Silent, Doubled
  <2>4. mpc = "reopen" /\ link = c => L.in[1].rows = text
    BY <2>3 DEF Open
  <2> QED
    BY <1>1, <1>3, <2>1, <2>2, <2>4, HandledKeeps DEF Reply, Session
<1>4. CASE Errored(c, "BUSY")
  BY <1>1, <1>4, ErroredKeeps
<1> QED
  BY <1>3, <1>4 DEF BoxOpen

LEMMA BoxStepKeeps == ASSUME SessionInv, NEW c \in Slots, BoxStep(c) PROVE SessionInv'
<1> DEFINE L == conns[c]
           m == L.in[1]
           rows == Take(L.sess.rows, m.keep) \o m.rows
<1>1. L \in Connection /\ L.in # <<>> /\ m.tag = "STEP" /\ UNCHANGED mac
  BY DEF BoxStep, Queued, SessionInv, Types
<1>2. m \in Frame /\ KeepOk(L.sess, m.keep)
  BY <1>1 DEF Connection, SessionInv, Kept
<1>3. CASE Errored(c, "ERR")
  BY <1>1, <1>3, ErroredKeeps
<1>4. CASE Handled(c, Reply("STPR", rows), Session(rows, m.keep))
  <2>1. m.keep \in 0..Len(L.sess.rows) /\ L.sess.rows \in Seq(Tokens) /\ m.rows \in Seq(Tokens)
    BY <1>1, <1>2 DEF KeepOk, Frame, Connection, BoxSession
  <2>2. rows \in Seq(Tokens)
    BY <2>1, TakeFurther, ConcatFacts
  <2>3. Reply("STPR", rows) \in Answer /\ Session(rows, m.keep) \in BoxSession
    BY <2>1, <2>2 DEF Reply, Answer, Session, BoxSession
  <2>4. ASSUME mpc \in Live, link = c
        PROVE  pending # None /\ rows = history /\ m.keep <= Len(text) /\ m.keep # None
    <3>1. Sent(L) /\ pending # None
      BY <1>1, <2>4 DEF SessionInv, Linked, Flight, Quiet, Answered, Silent
    <3>2. m.keep = Len(text) /\ m.rows = pending.ids
      BY <3>1 DEF Sent, Step
    <3>3. history = text \o pending.ids
      BY <2>4, <3>1 DEF SessionInv, Committed
    <3>4. Take(L.sess.rows, m.keep) = text
      BY <3>1, <3>2 DEF Sent
    <3>5. rows = history
      BY <3>2, <3>3, <3>4
    <3>6. m.keep \in Nat /\ m.keep # None
      BY <2>1, SessionAssumption
    <3> HIDE DEF m, rows, L
    <3> QED
      BY <3>1, <3>2, <3>5, <3>6
  <2>5. ~(mpc = "reopen" /\ link = c)
    <3> SUFFICES ASSUME mpc = "reopen", link = c PROVE FALSE
      OBVIOUS
    <3>1. L.in = <<Open(text)>>
      BY <1>1 DEF SessionInv, Linked, Opening, Silent, Doubled
    <3> QED
      BY <1>1, <3>1 DEF Open
  <2> QED
    BY <1>1, <1>4, <2>3, <2>4, <2>5, HandledKeeps DEF Reply, Session
<1> QED
  BY <1>2, <1>3, <1>4 DEF BoxStep

LEMMA StepFailsKeeps == ASSUME SessionInv, NEW c \in Slots, StepFails(c) PROVE SessionInv'
BY ErroredKeeps DEF StepFails, Queued

(* A connection that ends, keeping its answers or nothing at all.          *)
LEMMA EndedKeeps ==
  ASSUME SessionInv, UNCHANGED mac, NEW c \in Slots,
         conns' = [conns EXCEPT ![c].st = "done", ![c].in = <<>>, ![c].sess = NoSession]
  PROVE  SessionInv'
<1> DEFINE L == conns[c]
           M == [L EXCEPT !.st = "done", !.in = <<>>, !.sess = NoSession]
<1>1. L \in Connection /\ Kept(L)
  BY DEF SessionInv, Types
<1>2. M \in Connection /\ M.in = <<>> /\ M.out = L.out /\ M.st = "done"
  BY <1>1, EndedIs
<1>3. /\ conns' \in [Slots -> Connection] /\ conns'[c] = M
      /\ \A d \in Slots \ {c} : conns'[d] = conns[d]
  BY <1>2 DEF SessionInv, Types
<1>4. Kept(M)
  BY <1>1, <1>2 DEF Kept
<1>5. mpc \in Live /\ link = c => Flight(M)
  BY <1>2 DEF SessionInv, Linked, Flight, Quiet, Sent, Answered, Silent
<1>6. mpc = "reopen" /\ link = c => Opening(M)
  BY <1>2 DEF SessionInv, Linked, Opening, Silent, Doubled
<1> QED
  BY <1>3, <1>4, <1>5, <1>6, BoxKeeps

LEMMA BoxCloseKeeps == ASSUME SessionInv, NEW c \in Slots, BoxClose(c) PROVE SessionInv'
BY EndedKeeps DEF BoxClose

LEMMA OpenOrphansKeeps == ASSUME SessionInv, NEW c \in Slots, OpenOrphans(c) PROVE SessionInv'
<1> DEFINE L == conns[c]
           a == Reply("ACK", <<>>)
           b == Reply("ERR", <<>>)
           M == [st |-> "done", in |-> <<>>, sess |-> NoSession, out |-> L.out \o <<a, b>>]
<1>1. L \in Connection /\ L.in # <<>> /\ L.in[1].tag = "OPEN" /\ UNCHANGED mac /\ Kept(L)
  BY DEF OpenOrphans, Queued, SessionInv, Types
<1>2. ~(mpc \in Live /\ link = c)
  <2> SUFFICES ASSUME mpc \in Live, link = c PROVE FALSE
    OBVIOUS
  <2>1. L.in = <<Step(Len(text), pending.ids)>>
    BY <1>1 DEF SessionInv, Linked, Flight, Quiet, Sent, Answered, Silent
  <2> QED
    BY <1>1, <2>1 DEF Step
<1>3. CASE conns' = [conns EXCEPT ![c] = [@ EXCEPT !.st = "done", !.in = <<>>, !.sess = NoSession]]
  <2>1. conns' = [conns EXCEPT ![c].st = "done", ![c].in = <<>>, ![c].sess = NoSession]
    BY <1>3
  <2> QED
    BY <1>1, <2>1, EndedKeeps
<1>4. CASE conns' = [conns EXCEPT ![c] = M]
  <2>1. a \in Answer /\ b \in Answer /\ a.tag # "REWIND" /\ b.tag # "REWIND" /\ b.tag # "STPR"
    BY DEF Reply, Answer
  <2>2. L.out \in Seq(Answer) /\ \A i \in 1..Len(L.out) : L.out[i].tag # "REWIND"
    BY <1>1 DEF Kept, Connection
  <2>3. M \in Connection /\ Kept(M)
    <3> HIDE DEF L, a, b
    <3> DEFINE two == L.out \o <<a, b>>
    <3>1. two \in Seq(Answer) /\ \A i \in 1..Len(two) : two[i].tag # "REWIND"
      BY <2>1, <2>2, NotRewoundTwice
    <3>2. M.in = <<>> /\ M.out = two /\ M.st = "done" /\ M.sess = NoSession
      OBVIOUS
    <3>3. M = [st |-> "done", in |-> <<>>, sess |-> NoSession, out |-> two]
      OBVIOUS
    <3> HIDE DEF two, M
    <3>4. M \in Connection
      BY <3>1, <3>3 DEF Connection, NoSession, BoxSession, Frame
    <3> QED
      BY <3>1, <3>2, <3>4 DEF Kept
  <2>4. /\ conns' \in [Slots -> Connection] /\ conns'[c] = M
        /\ \A d \in Slots \ {c} : conns'[d] = conns[d]
    BY <1>4, <2>3 DEF SessionInv, Types
  <2>5. ASSUME mpc = "reopen", link = c PROVE Opening(M)
    <3>1. L.in = <<Open(text)>> /\ L.out = <<>>
      BY <1>1, <2>5 DEF SessionInv, Linked, Opening, Silent, Doubled
    <3>2. <<>> \o <<a, b>> = <<a, b>>
      OBVIOUS
    <3>3. M.out = <<a, b>> /\ M.in = <<>> /\ M.st # "up"
      BY <3>1, <3>2
    <3> HIDE DEF M, a, b
    <3> QED
      BY <2>1, <3>3 DEF Opening, Doubled
  <2> QED
    BY <1>1, <1>2, <2>3, <2>4, <2>5, BoxKeeps
<1> QED
  BY <1>3, <1>4 DEF OpenOrphans

LEMMA BreakKeeps == ASSUME SessionInv, NEW c \in Slots, Break(c) PROVE SessionInv'
<1> DEFINE L == conns[c]
           M == [L EXCEPT !.st = "broken"]
<1>1. L \in Connection /\ Kept(L) /\ UNCHANGED mac
  BY DEF SessionInv, Types, Break
<1>2. M \in Connection /\ M.in = L.in /\ M.out = L.out /\ M.sess = L.sess /\ M.st = "broken"
  BY <1>1 DEF Connection
<1>3. /\ conns' \in [Slots -> Connection] /\ conns'[c] = M
      /\ \A d \in Slots \ {c} : conns'[d] = conns[d]
  BY <1>2 DEF SessionInv, Types, Break
<1>4. Kept(M)
  BY <1>1, <1>2 DEF Kept
<1>5. mpc \in Live /\ link = c => Flight(M)
  BY <1>2 DEF SessionInv, Linked, Flight, Quiet, Sent, Answered, Silent
<1>6. mpc = "reopen" /\ link = c => Opening(M)
  BY <1>2 DEF SessionInv, Linked, Opening, Silent, Doubled
<1> QED
  BY <1>1, <1>3, <1>4, <1>5, <1>6, BoxKeeps

LEMMA CrashKeeps == ASSUME SessionInv, Crash PROVE SessionInv'
<1>1. UNCHANGED <<text, next, mpc, ids, got, history, length, pending, link>>
  BY DEF Crash, mac, enc
<1>2. \A c \in Slots : /\ conns'[c] = [conns[c] EXCEPT !.st = "done", !.in = <<>>, !.sess = NoSession]
                       /\ conns[c] \in Connection
  BY DEF Crash, SessionInv, Types
<1>3. \A c \in Slots : /\ conns'[c] \in Connection
                       /\ conns'[c].in = <<>> /\ conns'[c].out = conns[c].out /\ conns'[c].st = "done"
  <2> SUFFICES ASSUME NEW c \in Slots
               PROVE  /\ conns'[c] \in Connection /\ conns'[c].in = <<>>
                      /\ conns'[c].out = conns[c].out /\ conns'[c].st = "done"
    OBVIOUS
  <2> DEFINE L == conns[c]
  <2>1. L \in Connection /\ conns'[c] = [L EXCEPT !.st = "done", !.in = <<>>, !.sess = NoSession]
    BY <1>2
  <2> HIDE DEF L
  <2> QED
    BY <2>1, EndedIs DEF L
<1>4. conns' \in [Slots -> Connection]
  BY <1>3 DEF Crash
<1>5. Types' /\ Committed'
  BY <1>1, <1>4 DEF SessionInv, Types, Committed
<1>6. \A c \in Slots : Kept(conns'[c])
  BY <1>3 DEF SessionInv, Kept
<1>7. mpc \in Live => Flight(conns'[link])
  BY <1>3 DEF SessionInv, Committed, Linked, Flight, Quiet, Sent, Answered, Silent
<1>8. mpc = "reopen" => Opening(conns'[link])
  BY <1>3 DEF SessionInv, Committed, Linked, Opening, Silent, Doubled
<1>9. Linked'
  BY <1>1, <1>7, <1>8 DEF Linked, Flight, Quiet, Sent, Answered, Silent, Holds, Opening, Doubled
<1> QED
  BY <1>5, <1>6, <1>9 DEF SessionInv, Kept, KeepOk

-----------------------------------------------------------------------------
(* The Mac.                                                                *)

Off == {"drop", "failed", "lost", "closed"}

(* Once the Mac has given the link up, only its books matter.              *)
LEMMA OffKeeps ==
  ASSUME SessionInv, mpc' \in Off, Types', UNCHANGED text,
         Len(text) <= Len(history'), Take(history', Len(text)) = text,
         \A c \in Slots : Kept(conns'[c])
  PROVE  SessionInv'
BY DEF SessionInv, Committed, Linked, Off, Live, Kept, KeepOk, Take

(* The same, when the connections stand still.                             *)
LEMMA IdleOffKeeps ==
  ASSUME SessionInv, mpc' \in Off, UNCHANGED <<text, next, ids, enc, link, conns>>
  PROVE  SessionInv'
<1>1. Types' /\ \A c \in Slots : Kept(conns'[c])
  BY DEF SessionInv, Types, enc
<1> QED
  BY <1>1, OffKeeps DEF SessionInv, Committed, enc

LEMMA WantedSeqs == ASSUME SessionInv, NEW step \in Wanted PROVE step \in Seq(Tokens)
<1>1. PICK n \in 0..MaxDrafts : \E d \in [1..n -> Tokens] : step = <<next>> \o d
  BY DEF Wanted
<1>2. PICK d \in [1..n -> Tokens] : step = <<next>> \o d
  BY <1>1
<1>3. n \in Nat /\ next \in Tokens
  BY SessionAssumption DEF SessionInv, Types
<1>4. d \in Seq(Tokens)
  BY <1>3
<1>5. <<next>> \in Seq(Tokens)
  BY <1>3
<1> QED
  BY <1>2, <1>4, <1>5, ConcatFacts

LEMMA PutFacts ==
  ASSUME NEW cs \in [Slots -> Connection], NEW c \in Slots, NEW m \in Frame
  PROVE  /\ Put(cs, c, m) \in [Slots -> Connection]
         /\ \A d \in Slots \ {c} : Put(cs, c, m)[d] = cs[d]
         /\ Put(cs, c, m)[c].in = (IF cs[c].st = "up" THEN Append(cs[c].in, m) ELSE cs[c].in)
         /\ Put(cs, c, m)[c].out = cs[c].out /\ Put(cs, c, m)[c].sess = cs[c].sess
         /\ Put(cs, c, m)[c].st = cs[c].st
<1>1. cs[c] \in Connection
  OBVIOUS
<1>2. Append(cs[c].in, m) \in Seq(Frame)
  BY <1>1, AppendFacts DEF Connection
<1>3. [cs[c] EXCEPT !.in = IF cs[c].st = "up" THEN Append(@, m) ELSE @] \in Connection
  BY <1>1, <1>2 DEF Connection
<1>4. Put(cs, c, m)[c] = [cs[c] EXCEPT !.in = IF cs[c].st = "up" THEN Append(@, m) ELSE @]
  BY DEF Put
<1>5. Put(cs, c, m) \in [Slots -> Connection] /\ \A d \in Slots \ {c} : Put(cs, c, m)[d] = cs[d]
  BY <1>3 DEF Put
<1> QED
  BY <1>1, <1>4, <1>5 DEF Connection

(* A step is sent on a connection where nothing is under way.              *)
LEMMA SendKeeps ==
  ASSUME SessionInv, link \in Slots, NEW step \in Seq(Tokens), NEW cs \in [Slots -> Connection],
         \A d \in Slots : Kept(cs[d]),
         cs[link].in = <<>>,
         cs[link].out = <<>> \/ (cs[link].st # "up" /\ \E e \in Answer : cs[link].out = <<e>> /\ e.tag # "STPR"),
         cs[link].st = "up" => KeepOk(cs[link].sess, Len(text)) /\ Take(cs[link].sess.rows, Len(text)) = text,
         NEW hist, Take(hist, Keep) = text, SendStep(step, hist),
         UNCHANGED <<text, link>>, conns' = Put(cs, link, Step(Keep, step))
  PROVE  /\ conns' \in [Slots -> Connection] /\ \A c \in Slots : Kept(conns'[c])
         /\ Flight(conns[link])'
         /\ pending' \in StepSent /\ pending' # None /\ pending' = [keep |-> Len(text), ids |-> step]
         /\ history' \in Seq(Tokens) /\ history' = text \o step
         /\ Len(text) <= Len(history') /\ Take(history', Len(text)) = text
<1> DEFINE m == Step(Keep, step)
           L == cs[link]
<1>1. text \in Seq(Tokens) /\ Len(text) \in Nat
  BY DEF SessionInv, Types
<1>2. m \in Frame /\ m.tag = "STEP" /\ m.keep = Len(text)
  BY <1>1 DEF Step, Frame, Keep
<1>3. history' = text \o step /\ pending' = [keep |-> Len(text), ids |-> step]
  BY DEF SendStep, Keep
<1>4. pending' \in StepSent /\ pending' # None
  BY <1>1, <1>3, SessionAssumption DEF StepSent
<1>5. /\ history' \in Seq(Tokens) /\ Len(text) <= Len(history')
      /\ Take(history', Len(text)) = text
  BY <1>1, <1>3, ConcatFacts
<1>6. /\ conns' \in [Slots -> Connection]
      /\ \A d \in Slots \ {link} : conns'[d] = cs[d]
      /\ conns'[link].in = (IF L.st = "up" THEN Append(L.in, m) ELSE L.in)
      /\ conns'[link].out = L.out /\ conns'[link].sess = L.sess /\ conns'[link].st = L.st
  <2> HIDE DEF m
  <2> QED
    BY <1>2, PutFacts DEF m
<1>7. L \in Connection
  OBVIOUS
<1>8. conns'[link].out = L.out /\ conns'[link].sess = L.sess /\ conns'[link].st = L.st
  BY <1>6
<1>9. CASE L.st = "up"
  <2>1. conns'[link].in = <<m>>
    BY <1>2, <1>6, <1>7, <1>9, One DEF Connection
  <2>0. conns'[link].out = <<>> /\ Len(<<>>) = 0
    BY <1>8, <1>9
  <2>2. Kept(conns'[link])
    BY <1>2, <1>8, <1>9, <2>0, <2>1, One DEF Kept
  <2>3. Sent(conns[link])'
    BY <1>3, <1>8, <1>9, <2>0, <2>1 DEF Sent, Keep
  <2> QED
    BY <1>3, <1>4, <1>5, <1>6, <2>2, <2>3 DEF Flight
<1>10. CASE L.st # "up"
  <2>1. conns'[link].in = <<>>
    BY <1>6, <1>7, <1>10 DEF Connection
  <2>2. CASE L.out = <<>>
    <3>1. Silent(conns[link])' /\ Kept(conns'[link])
      BY <1>8, <1>10, <2>1, <2>2, One DEF Silent, Kept
    <3> QED
      BY <1>3, <1>4, <1>5, <1>6, <3>1 DEF Flight
  <2>3. CASE L.out # <<>>
    <3>1. PICK e \in Answer : L.out = <<e>> /\ e.tag # "STPR"
      BY <2>3
    <3>2. Answered(conns[link])'
      BY <1>8, <1>10, <2>1, <3>1 DEF Answered
    <3>3. Kept(conns'[link])
      BY <1>8, <2>1 DEF Kept
    <3> QED
      BY <1>3, <1>4, <1>5, <1>6, <3>2, <3>3 DEF Flight
  <2> QED
    BY <2>2, <2>3
<1> QED
  BY <1>9, <1>10

(* An idle link is ready for the next step.                                *)
LEMMA QuietReady ==
  ASSUME SessionInv, mpc \in Live, pending = None
  PROVE  /\ link \in Slots /\ conns[link].in = <<>> /\ conns[link].out = <<>>
         /\ conns[link].st = "up" => /\ KeepOk(conns[link].sess, Len(text))
                                     /\ Take(conns[link].sess.rows, Len(text)) = text
BY DEF SessionInv, Types, Committed, Linked, Flight, Quiet, Holds, KeepOk

LEMMA PresendKeeps == ASSUME SessionInv, Presend PROVE SessionInv'
<1>1. PICK step \in Wanted : SendStep(step, history) /\ conns' = Put(conns, link, Step(Keep, step))
  BY DEF Presend
<1>2. mpc = "idle" /\ pending = None /\ UNCHANGED <<text, next, mpc, ids, length, link>>
  BY DEF Presend
<1>3. step \in Seq(Tokens)
  BY WantedSeqs
<1>4. /\ conns' \in [Slots -> Connection] /\ \A c \in Slots : Kept(conns'[c])
      /\ Flight(conns[link])'
      /\ pending' \in StepSent /\ pending' # None /\ pending' = [keep |-> Len(text), ids |-> step]
      /\ history' \in Seq(Tokens) /\ history' = text \o step
      /\ Len(text) <= Len(history') /\ Take(history', Len(text)) = text
  BY <1>1, <1>2, <1>3, QuietReady, SendKeeps DEF SessionInv, Types, Committed, Live, Keep
<1>5. Types'
  BY <1>2, <1>4 DEF SessionInv, Types
<1>6. Committed'
  BY <1>2, <1>4 DEF SessionInv, Committed, Live, Take
<1>7. Linked'
  BY <1>2, <1>4 DEF Linked
<1> QED
  BY <1>4, <1>5, <1>6, <1>7 DEF SessionInv, Kept, KeepOk

(* Nothing moves on the link, and the step it carries stays the same.      *)
LEMMA LinkStill ==
  ASSUME SessionInv, mpc \in Live, mpc' \in Live,
         UNCHANGED <<text, next, enc, link, conns>>, ids' \in Seq(Tokens), Committed'
  PROVE  SessionInv'
<1>1. Types'
  BY DEF SessionInv, Types, enc
<1>2. Linked'
  BY DEF SessionInv, Linked, Live, enc, Flight, Quiet, Sent, Answered, Silent, Holds
<1> QED
  BY <1>1, <1>2 DEF SessionInv, Kept, KeepOk

LEMMA IssueKeeps == ASSUME SessionInv, Issue PROVE SessionInv'
<1>1. ids' \in Seq(Tokens)
  BY WantedSeqs DEF Issue
<1>2. Committed'
  BY DEF SessionInv, Committed, Issue, Live, enc
<1> QED
  BY <1>1, <1>2, LinkStill DEF Issue, Live

LEMMA EnsureKeeps == ASSUME SessionInv, Ensure PROVE SessionInv'
<1>1. mpc = "ensure" /\ UNCHANGED <<text, next, ids, got, link>>
  BY DEF Ensure
<1>2. CASE InFlight /\ Await /\ UNCHANGED <<enc, conns>>
  <2>1. pending = [keep |-> Len(text), ids |-> ids]
    BY <1>2, SessionAssumption DEF InFlight, Keep, SessionInv, Types, StepSent
  <2>2. Committed'
    BY <1>1, <1>2, <2>1 DEF SessionInv, Committed, Await, Live, enc
  <2> QED
    BY <1>1, <1>2, <2>2, LinkStill DEF Await, Live, SessionInv, Types
<1>3. CASE ~InFlight /\ pending # None /\ mpc' = "stale" /\ UNCHANGED <<enc, retry, conns>>
  <2>1. Committed'
    BY <1>1, <1>3 DEF SessionInv, Committed, Live, enc
  <2> QED
    BY <1>1, <1>3, <2>1, LinkStill DEF Live, SessionInv, Types
<1>4. CASE /\ pending = None /\ SendStep(ids, history)
           /\ conns' = Put(conns, link, Step(Keep, ids)) /\ UNCHANGED length
           /\ Await \/ (LinkDown /\ Recover(0))
  <2>1. /\ conns' \in [Slots -> Connection] /\ \A c \in Slots : Kept(conns'[c])
        /\ Flight(conns[link])'
        /\ pending' \in StepSent /\ pending' # None /\ pending' = [keep |-> Len(text), ids |-> ids]
        /\ history' \in Seq(Tokens) /\ history' = text \o ids
        /\ Len(text) <= Len(history') /\ Take(history', Len(text)) = text
    BY <1>1, <1>4, QuietReady, SendKeeps DEF SessionInv, Types, Committed, Live, Keep
  <2>2. Types'
    BY <1>1, <1>4, <2>1 DEF SessionInv, Types
  <2>3. CASE mpc' = "await"
    <3>1. Committed'
      BY <1>1, <2>1, <2>3 DEF SessionInv, Committed, Live, Take
    <3>2. Linked'
      BY <1>1, <2>1, <2>3 DEF Linked
    <3> QED
      BY <2>1, <2>2, <3>1, <3>2 DEF SessionInv, Kept, KeepOk
  <2>4. CASE mpc' = "drop"
    BY <1>1, <2>1, <2>2, <2>4, OffKeeps DEF Off
  <2> QED
    BY <1>4, <2>3, <2>4 DEF Await, Recover
<1> QED
  BY <1>2, <1>3, <1>4 DEF Ensure

(* The reply of the pending step is the history's rows, and it was all     *)
(* that was under way.                                                     *)
LEMMA ReceiveKeeps ==
  ASSUME SessionInv, mpc \in {"stale", "await"}, Receive, UNCHANGED <<text, next, history, link>>
  PROVE  /\ conns' \in [Slots -> Connection] /\ \A c \in Slots : Kept(conns'[c])
         /\ Flight(conns[link])' /\ pending' = None
         /\ Head1.rows = history /\ length' = Len(history) /\ Len(history) \in Nat
<1> DEFINE L == conns[link]
           M == [L EXCEPT !.out = Tail(L.out)]
<1>1. link \in Slots /\ pending # None /\ L \in Connection /\ Kept(L) /\ mpc \in Live
  <2>1. pending # None
    BY SessionAssumption DEF SessionInv, Committed, StepSent, Types
  <2> QED
    BY <2>1 DEF SessionInv, Types, Committed, Live
<1>2. Answered(L)
  BY <1>1 DEF SessionInv, Linked, Flight, Sent, Silent, Receive, Arrived
<1>3. PICK r \in Answer : L.out = <<r>> /\ (r.tag = "STPR" => r.rows = history)
  BY <1>2 DEF Answered
<1>4. Head1 = r /\ Tail(L.out) = <<>>
  BY <1>3, One DEF Head1
<1>5. Head1.rows = history /\ length' = Len(history) /\ pending' = None
  BY <1>3, <1>4 DEF Receive, Valid
<1>6. M \in Connection /\ M.in = <<>> /\ M.out = <<>> /\ M.sess = L.sess /\ M.st = L.st
  BY <1>1, <1>2, <1>4, One DEF Connection, Answered
<1>7. /\ conns' \in [Slots -> Connection] /\ conns'[link] = M
      /\ \A d \in Slots \ {link} : conns'[d] = conns[d]
  BY <1>1, <1>6 DEF Receive, SessionInv, Types
<1>8. Kept(M)
  BY <1>6 DEF Kept
<1>9. Flight(conns[link])'
  BY <1>2, <1>5, <1>6, <1>7 DEF Flight, Quiet, Answered, Holds
<1> QED
  BY <1>5, <1>7, <1>8, <1>9 DEF SessionInv, Types

LEMMA StaleKeeps == ASSUME SessionInv, Stale PROVE SessionInv'
<1>1. mpc = "stale" /\ UNCHANGED <<text, next, ids, got, link>>
  BY DEF Stale
<1>2. CASE Receive /\ mpc' = "ensure" /\ UNCHANGED <<history, retry>>
  <2>1. /\ conns' \in [Slots -> Connection] /\ \A c \in Slots : Kept(conns'[c])
        /\ Flight(conns[link])' /\ pending' = None
        /\ length' = Len(history) /\ Len(history) \in Nat
    BY <1>1, <1>2, ReceiveKeeps
  <2>2. Types'
    BY <1>1, <1>2, <2>1 DEF SessionInv, Types
  <2>3. Committed'
    BY <1>1, <1>2, <2>1 DEF SessionInv, Committed, Live
  <2>4. Linked'
    BY <1>1, <1>2, <2>1 DEF Linked
  <2> QED
    BY <2>1, <2>2, <2>3, <2>4 DEF SessionInv, Kept, KeepOk
<1>3. CASE ReceiveFails /\ Recover(0) /\ UNCHANGED <<enc, conns>>
  BY <1>1, <1>3, IdleOffKeeps DEF Recover, Off
<1> QED
  BY <1>2, <1>3 DEF Stale

LEMMA RecvKeeps == ASSUME SessionInv, Recv PROVE SessionInv'
<1>1. mpc = "await" /\ UNCHANGED <<text, next, ids>>
  BY DEF Recv
<1>2. CASE Receive /\ got' = Head1.rows /\ mpc' = "verify" /\ UNCHANGED <<history, retry, link>>
  <2>1. /\ conns' \in [Slots -> Connection] /\ \A c \in Slots : Kept(conns'[c])
        /\ Flight(conns[link])' /\ pending' = None
        /\ Head1.rows = history /\ length' = Len(history) /\ Len(history) \in Nat
    BY <1>1, <1>2, ReceiveKeeps
  <2>2. history = text \o ids
    <3>1. pending = [keep |-> Len(text), ids |-> ids]
      BY <1>1 DEF SessionInv, Committed
    <3>2. pending # None
      BY <3>1, SessionAssumption DEF SessionInv, Types, StepSent
    <3> QED
      BY <1>1, <3>1, <3>2 DEF SessionInv, Committed, Live
  <2>3. Types'
    BY <1>1, <1>2, <2>1 DEF SessionInv, Types
  <2>4. Committed'
    BY <1>1, <1>2, <2>1, <2>2 DEF SessionInv, Committed, Live
  <2>5. Linked'
    BY <1>1, <1>2, <2>1 DEF Linked
  <2> QED
    BY <2>1, <2>3, <2>4, <2>5 DEF SessionInv, Kept, KeepOk
<1>3. CASE mpc' = "drop" /\ UNCHANGED <<enc, got, conns, link>>
  BY <1>1, <1>3, IdleOffKeeps DEF Off
<1> QED
  BY <1>2, <1>3 DEF Recv, Recover

(* The accepted drafts are the head of what the box has computed.          *)
LEMMA VerifyKeeps == ASSUME SessionInv, Verify PROVE SessionInv'
<1>1. /\ mpc = "verify" /\ mpc' = "idle" /\ ids' = <<>> /\ next' \in Tokens
      /\ UNCHANGED <<history, length, pending, link, conns>>
  BY DEF Verify, enc
<1>2. PICK a \in 0..(Len(ids) - 1) : text' = text \o Take(ids, a + 1)
  BY DEF Verify
<1>3. /\ pending = None /\ link \in Slots /\ history = text \o ids /\ length = Len(history)
      /\ text \in Seq(Tokens) /\ ids \in Seq(Tokens)
  BY <1>1 DEF SessionInv, Committed, Types, Live
<1>4. Len(ids) \in Nat /\ Len(text) \in Nat /\ Len(history) = Len(text) + Len(ids)
  BY <1>3, ConcatFacts
<1>5. a + 1 \in 0..Len(ids)
  BY <1>4
<1>6. /\ Take(ids, a + 1) \in Seq(Tokens) /\ Len(Take(ids, a + 1)) = a + 1
      /\ Take(history, Len(text) + (a + 1)) = text'
  BY <1>2, <1>3, <1>5, TakeFurther
<1>7. text' \in Seq(Tokens) /\ Len(text') = Len(text) + (a + 1)
  <2> DEFINE new == Take(ids, a + 1)
  <2>1. new \in Seq(Tokens) /\ text \in Seq(Tokens)
    BY <1>3, <1>6
  <2>2. text' = text \o new /\ Len(new) = a + 1
    BY <1>2, <1>6
  <2> HIDE DEF new
  <2>3. text \o new \in Seq(Tokens) /\ Len(text \o new) = Len(text) + Len(new)
    BY <2>1, ConcatFacts
  <2> QED
    BY <2>2, <2>3
<1>8. Types'
  BY <1>1, <1>7 DEF SessionInv, Types
<1>9. Committed'
  BY <1>1, <1>3, <1>4, <1>5, <1>6, <1>7 DEF Committed, Live, Take
<1>10. Linked'
  <2>1. Quiet(conns[link]) /\ conns[link] \in Connection
    BY <1>1, <1>3 DEF SessionInv, Linked, Flight, Live, Types
  <2>2. Quiet(conns[link])'
    BY <1>1, <1>4, <1>5, <1>7, <2>1 DEF Quiet, Holds, Connection, BoxSession
  <2> QED
    BY <1>1, <1>3, <2>2 DEF Linked, Flight
<1> QED
  BY <1>1, <1>8, <1>9, <1>10 DEF SessionInv, Kept, KeepOk

LEMMA DropKeeps == ASSUME SessionInv, Drop PROVE SessionInv'
<1>1. /\ mpc = "drop" /\ mpc' \in {"lost", "connect"} /\ link' = None /\ pending' = None
      /\ UNCHANGED <<text, next, ids, history, length>>
  BY DEF Drop
<1>2. /\ conns' \in [Slots -> Connection]
      /\ \A c \in Slots : Kept(conns'[c])
  <2>1. CASE link # None /\ conns[link].st = "up"
    <3>1. link \in Slots /\ conns' = [conns EXCEPT ![link].st = "broken"] /\ conns[link] \in Connection
      BY <2>1 DEF Drop, SessionInv, Types
    <3>2. /\ [conns[link] EXCEPT !.st = "broken"] \in Connection
          /\ conns'[link] = [conns[link] EXCEPT !.st = "broken"]
          /\ \A c \in Slots \ {link} : conns'[c] = conns[c]
      BY <3>1 DEF Connection, SessionInv, Types
    <3> QED
      BY <3>1, <3>2 DEF SessionInv, Types, Kept, Connection
  <2>2. CASE ~(link # None /\ conns[link].st = "up")
    BY <2>2 DEF Drop, SessionInv, Types
  <2> QED
    BY <2>1, <2>2
<1>3. Types'
  BY <1>1, <1>2 DEF SessionInv, Types
<1>4. Committed' /\ Linked'
  BY <1>1 DEF SessionInv, Committed, Linked, Live
<1> QED
  BY <1>2, <1>3, <1>4 DEF SessionInv, Kept, KeepOk

LEMMA ReopenKeeps == ASSUME SessionInv, Reopen PROVE SessionInv'
<1>1. /\ mpc = "connect" /\ mpc' = "reopen" /\ pending = None
      /\ UNCHANGED <<text, next, ids, got, history, length, pending>>
  BY DEF Reopen, enc, SessionInv, Committed
<1>2. PICK c \in Slots : /\ conns' = [conns EXCEPT ![c] = Conn("up", <<Open(Take(history, Keep))>>, NoSession)]
                         /\ link' = c
  BY DEF Reopen
<1> DEFINE M == Conn("up", <<Open(text)>>, NoSession)
<1>3. Take(history, Keep) = text /\ text \in Seq(Tokens)
  BY DEF SessionInv, Committed, Types, Keep
<1>4. Open(text) \in Frame /\ Open(text).tag = "OPEN"
  BY <1>3 DEF Open, Frame
<1>5. M \in Connection /\ M.in = <<Open(text)>> /\ M.out = <<>>
  BY <1>4 DEF Conn, Connection, NoSession, BoxSession
<1>6. conns'[c] = M /\ conns' \in [Slots -> Connection] /\ \A d \in Slots \ {c} : conns'[d] = conns[d]
  BY <1>2, <1>3, <1>5 DEF SessionInv, Types
<1>7. \A d \in Slots : Kept(conns'[d])
  BY <1>4, <1>5, <1>6, One DEF SessionInv, Kept
<1>8. Types' /\ Committed'
  BY <1>1, <1>2, <1>6 DEF SessionInv, Types, Committed, Live
<1>9. Linked'
  BY <1>1, <1>2, <1>5, <1>6 DEF Linked, Live, Opening
<1> QED
  BY <1>7, <1>8, <1>9 DEF SessionInv, Kept, KeepOk

(* The answer of the OPEN is in, and the step goes out again.              *)
LEMMA ReopenedKeeps == ASSUME SessionInv, Reopened PROVE SessionInv'
<1>1. mpc = "reopen" /\ pending = None /\ link \in Slots /\ UNCHANGED <<text, next, ids, got, link>>
  BY DEF Reopened, SessionInv, Committed
<1>2. CASE /\ Arrived /\ length' = Keep
           /\ SendStep(ids, Take(history, Keep))
           /\ conns' = Put([conns EXCEPT ![link].out = Tail(@)], link, Step(Keep, ids))
           /\ (mpc' = "await" /\ UNCHANGED retry) \/ (LinkDown /\ Failed(1))
  <2> DEFINE L == conns[link]
             M == [L EXCEPT !.out = Tail(L.out)]
             cs == [conns EXCEPT ![link].out = Tail(@)]
  <2>1. L \in Connection /\ L.out # <<>> /\ Opening(L)
    BY <1>1, <1>2 DEF SessionInv, Types, Linked, Arrived
  <2>2. /\ L.in = <<>>
        /\ Doubled(L) \/ \E r \in Answer : L.out = <<r>>
        /\ L.st = "up" => L.sess.rows = text /\ L.sess.base = None
    BY <2>1 DEF Opening, Silent, Doubled
  <2>3. /\ Tail(L.out) \in Seq(Answer)
        /\ Tail(L.out) = <<>> \/ (L.st # "up" /\ \E e \in Answer : Tail(L.out) = <<e>> /\ e.tag # "STPR")
    <3>1. Tail(L.out) \in Seq(Answer)
      BY <2>1, TailFacts DEF Connection
    <3>2. CASE Doubled(L)
      <4>1. PICK r \in Answer, e \in Answer : L.out = <<r, e>> /\ e.tag # "STPR"
        BY <3>2 DEF Doubled
      <4>2. Tail(<<r, e>>) = <<e>>
        OBVIOUS
      <4>3. L.st # "up" /\ Tail(L.out) = <<e>> /\ e.tag # "STPR"
        BY <3>2, <4>1, <4>2 DEF Doubled
      <4> QED
        BY <3>1, <4>3
    <3>3. CASE \E r \in Answer : L.out = <<r>>
      BY <3>1, <3>3, One
    <3> QED
      BY <2>2, <3>2, <3>3
  <2>4. M \in Connection /\ M.in = <<>> /\ M.out = Tail(L.out) /\ M.sess = L.sess /\ M.st = L.st
    BY <2>1, <2>2, <2>3 DEF Connection
  <2>5. cs \in [Slots -> Connection] /\ cs[link] = M /\ \A d \in Slots \ {link} : cs[d] = conns[d]
    BY <1>1, <2>4 DEF SessionInv, Types
  <2>6. \A d \in Slots : Kept(cs[d])
    <3>1. \A i \in 1..Len(Tail(L.out)) : Tail(L.out)[i].tag # "REWIND"
      <4>1. \A i \in 1..Len(L.out) : L.out[i].tag # "REWIND"
        BY <1>1 DEF SessionInv, Kept
      <4>2. /\ Len(L.out) \in Nat /\ Len(Tail(L.out)) = Len(L.out) - 1
            /\ \A i \in 1..Len(Tail(L.out)) : Tail(L.out)[i] = L.out[i + 1]
        BY <2>1, TailFacts DEF Connection
      <4> HIDE DEF L
      <4>3. ASSUME NEW i \in 1..Len(Tail(L.out)) PROVE Tail(L.out)[i].tag # "REWIND"
        <5>1. i + 1 \in 1..Len(L.out)
          BY <4>2
        <5> QED
          BY <4>1, <4>2, <5>1
      <4> QED
        BY <4>3
    <3>2. Kept(M)
      BY <2>2, <2>4, <3>1 DEF Kept
    <3> QED
      BY <2>5, <3>2 DEF SessionInv
  <2>7. text \in Seq(Tokens) /\ ids \in Seq(Tokens) /\ Len(text) \in Nat /\ Take(text, Len(text)) = text
    BY ConcatFacts DEF SessionInv, Types
  <2>8. Take(Take(history, Keep), Keep) = text
    BY <2>7 DEF SessionInv, Committed, Keep
  <2>9. cs[link].st = "up" => KeepOk(cs[link].sess, Len(text)) /\ Take(cs[link].sess.rows, Len(text)) = text
    BY <2>2, <2>4, <2>5, <2>7 DEF KeepOk
  <2> HIDE DEF cs, M
  <2>10. /\ conns' \in [Slots -> Connection] /\ \A c \in Slots : Kept(conns'[c])
         /\ Flight(conns[link])'
         /\ pending' \in StepSent /\ pending' # None /\ pending' = [keep |-> Len(text), ids |-> ids]
         /\ history' \in Seq(Tokens) /\ history' = text \o ids
         /\ Len(text) <= Len(history') /\ Take(history', Len(text)) = text
    <3>1. conns' = Put(cs, link, Step(Keep, ids))
      BY <1>2 DEF cs
    <3> QED
      BY <1>1, <1>2, <2>3, <2>4, <2>5, <2>6, <2>7, <2>8, <2>9, <3>1, SendKeeps
  <2>11. Types'
    BY <1>1, <1>2, <2>7, <2>10 DEF SessionInv, Types, Keep
  <2>12. CASE mpc' = "await"
    <3>1. Committed'
      BY <1>1, <2>10, <2>12 DEF Committed, Live, Take
    <3>2. Linked'
      BY <1>1, <2>10, <2>12 DEF Linked
    <3> QED
      BY <2>10, <2>11, <3>1, <3>2 DEF SessionInv, Kept, KeepOk
  <2>13. CASE mpc' = "failed"
    BY <1>1, <2>10, <2>11, <2>13, OffKeeps DEF Off
  <2> QED
    BY <1>2, <2>12, <2>13 DEF Failed
<1>3. CASE mpc' = "failed" /\ UNCHANGED <<enc, conns>>
  BY <1>1, <1>3, IdleOffKeeps DEF Off
<1> QED
  BY <1>2, <1>3 DEF Reopened, Failed

LEMMA EndKeeps == ASSUME SessionInv, End PROVE SessionInv'
<1> DEFINE P == Put(conns, link, Close)
           M == [P[link] EXCEPT !.st = IF @ = "up" THEN "broken" ELSE @]
<1>1. /\ mpc = "idle" /\ mpc' = "closed" /\ link' = None /\ link \in Slots
      /\ UNCHANGED <<text, next, ids, history, length, pending>>
  BY DEF End, enc, SessionInv, Committed, Live
<1>2. Close \in Frame /\ Close.tag = "CLOS"
  BY DEF Close, Frame
<1>3. /\ P \in [Slots -> Connection] /\ \A d \in Slots \ {link} : P[d] = conns[d]
      /\ P[link].in = (IF conns[link].st = "up" THEN Append(conns[link].in, Close) ELSE conns[link].in)
      /\ P[link].out = conns[link].out /\ P[link].sess = conns[link].sess
  <2>1. conns \in [Slots -> Connection]
    BY DEF SessionInv, Types
  <2> QED
    BY <1>1, <1>2, <2>1, PutFacts
<1>4. P[link] \in Connection /\ conns[link] \in Connection
  BY <1>1, <1>3 DEF SessionInv, Types
<1>5. /\ M \in Connection /\ M.in = P[link].in /\ M.out = P[link].out /\ M.sess = P[link].sess
      /\ P[link].out = conns[link].out /\ P[link].sess = conns[link].sess
  BY <1>3, <1>4 DEF Connection
<1>6. P[link].in \in {conns[link].in, Append(conns[link].in, Close)}
  BY <1>3
<1>7. conns' = [P EXCEPT ![link] = M]
  BY <1>1, <1>3 DEF End
<1>8. /\ conns' \in [Slots -> Connection] /\ conns'[link] = M
      /\ \A d \in Slots \ {link} : conns'[d] = conns[d]
  BY <1>1, <1>3, <1>5, <1>7
<1>9. Kept(M)
  <2>1. Kept(conns[link])
    BY <1>1 DEF SessionInv
  <2>2. CASE M.in = conns[link].in
    BY <1>5, <2>1, <2>2, KeptSame
  <2>3. CASE M.in = Append(conns[link].in, Close)
    <3>1. conns[link].in \in Seq(Frame) /\ Close.tag # "STEP"
      BY <1>2, <1>4 DEF Connection
    <3> HIDE DEF M, P
    <3> QED
      BY <1>2, <1>5, <2>1, <2>3, <3>1, KeptMore
  <2> QED
    BY <1>5, <1>6, <2>2, <2>3
<1>10. \A c \in Slots : Kept(conns'[c])
  BY <1>8, <1>9 DEF SessionInv
<1>11. Types'
  BY <1>1, <1>8 DEF SessionInv, Types
<1> QED
  BY <1>1, <1>10, <1>11, OffKeeps DEF Off, SessionInv, Committed

-----------------------------------------------------------------------------
LEMMA SessionInit == Init => SessionInv
<1> SUFFICES ASSUME Init PROVE SessionInv
  OBVIOUS
<1>1. Prompt \in Seq(Tokens) /\ Len(Prompt) \in Nat /\ Len(Prompt) >= 2
  BY SessionAssumption
<1>2. text \in Seq(Tokens) /\ Len(text) = Len(Prompt) - 1 /\ next \in Tokens
  BY <1>1 DEF Init, Front, Last
<1>3. history = text /\ length = Len(text) /\ pending = None /\ ids = <<>> /\ mpc = "idle" /\ link \in Slots
  BY <1>2, SessionAssumption DEF Init
<1>4. Take(text, Len(text)) = text
  BY <1>2, ConcatFacts
<1> DEFINE L == Conn("up", <<>>, Session(text, None))
           D == Conn("done", <<>>, NoSession)
<1>5. L \in Connection /\ D \in Connection
  BY <1>2 DEF Conn, Connection, Session, NoSession, BoxSession
<1>6. conns = [c \in Slots |-> IF c = link THEN L ELSE D]
  BY DEF Init
<1>7. Types
  BY <1>2, <1>3, <1>5, <1>6 DEF Types
<1>8. Committed
  BY <1>2, <1>3, <1>4 DEF Committed, Live
<1>9. Linked
  BY <1>2, <1>3, <1>6 DEF Linked, Flight, Quiet, Holds, Conn, Session
<1>10. \A c \in Slots : Kept(conns[c])
  BY <1>6 DEF Kept, Conn
<1> QED
  BY <1>7, <1>8, <1>9, <1>10 DEF SessionInv

LEMMA SessionStep == SessionInv /\ [Next]_vars => SessionInv'
<1> SUFFICES ASSUME SessionInv, [Next]_vars PROVE SessionInv'
  OBVIOUS
<1>1. CASE Presend
  BY <1>1, PresendKeeps
<1>2. CASE Issue
  BY <1>2, IssueKeeps
<1>3. CASE Ensure
  BY <1>3, EnsureKeeps
<1>4. CASE Stale
  BY <1>4, StaleKeeps
<1>5. CASE Recv
  BY <1>5, RecvKeeps
<1>6. CASE Verify
  BY <1>6, VerifyKeeps
<1>7. CASE Drop
  BY <1>7, DropKeeps
<1>8. CASE Reopen
  BY <1>8, ReopenKeeps
<1>9. CASE NotConnected
  BY <1>9, IdleOffKeeps DEF NotConnected, Failed, Off
<1>10. CASE Reopened
  BY <1>10, ReopenedKeeps
<1>11. CASE Retry
  BY <1>11, IdleOffKeeps DEF Retry, Off
<1>12. CASE End
  BY <1>12, EndKeeps
<1>13. ASSUME NEW c \in Slots, BoxHandles(c) \/ OpenOrphans(c) \/ StepFails(c) \/ Break(c) PROVE SessionInv'
  BY <1>13, BoxOpenKeeps, BoxStepKeeps, BoxCloseKeeps, OpenOrphansKeeps, StepFailsKeeps, BreakKeeps DEF BoxHandles
<1>14. CASE Crash
  BY <1>14, CrashKeeps
<1>15. CASE UNCHANGED <<mac, conns>>
  BY <1>15 DEF mac, enc, SessionInv, Types, Committed, Linked, Flight, Quiet, Sent, Answered, Silent,
               Holds, Opening, Doubled, Kept, KeepOk
<1>16. Restart \/ Over \/ UNCHANGED vars => UNCHANGED <<mac, conns>>
  BY DEF Restart, Over, vars
<1> QED
  BY <1>1, <1>2, <1>3, <1>4, <1>5, <1>6, <1>7, <1>8, <1>9, <1>10, <1>11, <1>12, <1>13, <1>14, <1>15, <1>16
     DEF Next, MacStep

(* The inductive invariant: both sides' books and what is under way.       *)
THEOREM SessionHolds == Spec => []SessionInv
BY SessionInit, SessionStep, PTL DEF Spec

(* The rows the Mac verifies were computed on its committed text and the   *)
(* step's tokens, whatever was sent early, lost and sent again.            *)
THEOREM SessionRows == Spec => []RowsOfText
<1>1. SessionInv => RowsOfText
  BY DEF SessionInv, Committed, RowsOfText
<1> QED
  BY <1>1, SessionHolds, PTL

(* The first Keep tokens of history are the committed text at any moment,  *)
(* and the box never refuses the keep of a step.                           *)
THEOREM SessionRebuildable == Spec => []Rebuildable
<1>1. SessionInv => Rebuildable
  BY DEF SessionInv, Committed, Kept, Rebuildable, Keep
<1> QED
  BY <1>1, SessionHolds, PTL
=============================================================================
