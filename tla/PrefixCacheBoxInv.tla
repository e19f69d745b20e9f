-------------------------- MODULE PrefixCacheBoxInv --------------------------
(***************************************************************************)
(* The invariants of PrefixCacheBox that its proofs use, and the notions   *)
(* they are stated with.  PrefixCacheBoxProofs proves them.                *)
(*                                                                         *)
(*   CacheInv   the shape of a state (Shape), who runs and the barrier     *)
(*              (Proto), whose an id is (SlotInv), index and directory     *)
(*              (EntryInv): inductive; gives GridOrder and RestoreSafe     *)
(*   LeakInv    what is seen in the directory has an owner: gives NoLeak   *)
(*   HeldInv    a prefill's blocks are its own or those of an entry        *)
(*   StageInv   what a prefill is to register is there or on its way, or a *)
(*              write failed: gives SkippedOnlyIfFailed                    *)
(*   ClaimInv   of a block or a key only one prefix is told: Restorable    *)
(***************************************************************************)
EXTENDS PrefixCacheBox

(* Sequences as sets, and sequences without a repetition.                  *)
Distinct(s) == \A i, j \in 1..Len(s) : s[i] = s[j] => i = j

(* FlattenSeq: the elements of the parts, one part after the other.        *)
Flat(ss, f, m) == f = [i \in 1..m |-> IF i = 1 THEN ss[i] ELSE f[i - 1] \o ss[i]]

(* The parts have no element in common.                                    *)
Disjoint(ss) == \A i, j \in 1..Len(ss) : i # j => ToSet(ss[i]) \cap ToSet(ss[j]) = {}

-----------------------------------------------------------------------------
(* Chunks that follow one another over [P, n1), of 1 to `chunk` rows.      *)
Covers(cs, P, n1, chunk) ==
  /\ cs \in Seq(Nat \X Nat)
  /\ cs = <<>> => P = n1
  /\ cs # <<>> => cs[1][1] = P /\ cs[Len(cs)][2] = n1
  /\ \A i \in 1..Len(cs) : cs[i][1] < cs[i][2] /\ cs[i][2] <= cs[i][1] + chunk /\ cs[i][2] <= n1
  /\ \A i \in 1..(Len(cs) - 1) : cs[i][2] = cs[i + 1][1]

(* Two chunks joined, and the cut between two chunks moved.                *)
Merged(cs, ds, lo) ==
  ds = [k \in 1..(Len(cs) - 1) |->
          IF k < lo THEN cs[k] ELSE IF k = lo THEN <<cs[lo][1], cs[lo + 1][2]>> ELSE cs[k + 1]]

Moved(cs, ds, lo, x, chunk) ==
  /\ cs[lo][1] < x /\ x <= cs[lo][1] + chunk /\ x < cs[lo + 1][2] /\ cs[lo + 1][2] <= x + chunk
  /\ ds \in Seq(Nat \X Nat) /\ Len(ds) = Len(cs)
  /\ \A k \in 1..Len(cs) : k # lo /\ k # lo + 1 => ds[k] = cs[k]
  /\ ds[lo] = <<cs[lo][1], x>> /\ ds[lo + 1] = <<x, cs[lo + 1][2]>>

(* A round leaves the chunks as they are, or works on the first one of a   *)
(* single row, which it merges with its neighbour or gives a row of it.    *)
WorksOn(cs, ds, chunk, i, lo) ==
  /\ Rows(cs[i]) = 1 /\ \A k \in 1..Len(cs) : Rows(cs[k]) = 1 => k >= i
  /\ i = lo \/ (i = lo + 1 /\ i = Len(cs))
  /\ \/ Rows(cs[lo]) + Rows(cs[lo + 1]) <= chunk /\ Merged(cs, ds, lo)
     \/ \E x \in Nat : Moved(cs, ds, lo, x, chunk) /\ x >= cs[lo][1] + 2 /\ cs[lo + 1][2] >= x + 2

(* Every chunk of a single row comes after the m-th chunk.                 *)
Late(cs, m) == \A k \in 1..Len(cs) : Rows(cs[k]) = 1 => k > m

(* The rounds of the loop.                                                 *)
Round(cuts, chunk, f, m) == f = [n \in 0..m |-> IF n = 0 THEN cuts ELSE Repaired(f[n - 1], chunk)]

-----------------------------------------------------------------------------
(* File names, and the files that go with some keys and some blocks.       *)
FileNames ==
  ({"idx", "tail"} \X Keys \X {0}) \cup ({"ent"} \X Keys \X Ranks)
  \cup ({"blk"} \X Blocks \X Ranks) \cup ({"rows"} \X Blocks \X {0})
IsBlock(f) == f[1] \in {"blk", "rows"}
Of(keys, blocks) == {f \in FileNames : IF IsBlock(f) THEN f[2] \in blocks ELSE f[2] \in keys}

-----------------------------------------------------------------------------
(* Types.  An entry has a block per Grid tokens.                           *)
Text == Seq(Tokens)
Entry == {e \in [key : Keys, tokens : Text, blocks : Seq(Blocks), capture : BOOLEAN] :
            Len(e.blocks) = Len(e.tokens) \div Grid}
Chunk == [end : Nat, block : Blocks \cup {0}, adopt : Seq(Blocks), key : Keys \cup {0}]
Fields == [ids : Text, pc : {"restore", "plan", "wait", "rows", "end", "snap", "barrier"},
           P : Nat, chunks : Seq(Chunk), k : Nat, blocks : Seq(Blocks), new : Seq(Blocks),
           ents : Seq(Entry), key : Keys \cup {0}]
Command == [op : {"chunk"}, ids : Text, block : Blocks \cup {0}, key : Keys \cup {0}]
           \cup [op : {"snapshot"}, ids : Text, block : {0}, key : Keys]
           \cup [op : {"restore"}, files : Seq(FileNames)] \cup [op : {"flush", "barrier"}]
Writing == [file : {f \in FileNames : f[1] \in {"blk", "ent"}}, content : Text]

(* A prefill's chunks follow one another from P to the end of the prompt;  *)
(* each adopts or makes the block it completes, if it completes one; the   *)
(* prefill has the blocks of the chunks that are done.                     *)
Start(p, j) == IF j = 1 THEN p.P ELSE p.chunks[j - 1].end
FullBlock(c) == Grid * (c.end \div Grid)
Placed(p) ==
  /\ p.P <= Len(p.ids) /\ p.k <= Len(p.chunks)
  /\ p.pc \in {"restore", "plan"} => p.chunks = <<>> /\ p.new = <<>> /\ p.ents = <<>>
  /\ p.pc \in {"wait", "rows"} => p.k < Len(p.chunks)
  /\ p.pc \in {"end", "snap", "barrier"} => p.k = Len(p.chunks)
  /\ p.pc \in {"snap", "barrier"} \/ p.key = 0
  /\ p.pc = "snap" => p.key # 0
  /\ p.pc \notin {"restore", "plan"} => Start(p, Len(p.chunks) + 1) = Len(p.ids)
Tiled(p) ==
  \A j \in 1..Len(p.chunks) :
    LET c == p.chunks[j] IN
    /\ Start(p, j) < c.end /\ c.end <= Start(p, j) + Grid /\ c.end <= Len(p.ids)
    /\ FullBlock(c) > Start(p, j) => IF c.block # 0 THEN c.adopt = <<>> ELSE Len(c.adopt) = c.end \div Grid
    /\ FullBlock(c) <= Start(p, j) => c.block = 0 /\ c.adopt = <<>>
Counted(p) == Len(p.blocks) = Start(p, p.k + 1) \div Grid
Prefill == {p \in Fields : Placed(p) /\ Tiled(p) /\ Counted(p)}

Directory(d) ==
  /\ DOMAIN d \subseteq FileNames
  /\ \A f \in DOMAIN d :
       IF f[1] = "idx" THEN d[f] \in Entry /\ f = <<"idx", d[f].key, 0>> ELSE d[f] \in Text

Shape ==
  /\ index \in Seq(Entry) /\ lru \in Seq(Keys) /\ refs \in [Blocks -> Int]
  /\ Directory(disk)
  /\ stack \in Seq(Prefill)
  /\ cmds \in [Ranks -> Seq(Command)] /\ wq \in [Ranks -> Seq(Writing)]

(* The plan of a prefill.                                                  *)
PlanParts(ids, P, chunks) ==
  /\ chunks \in Seq(Chunk) /\ Len(chunks) = Len(Cuts(ids, P))
  /\ \A k \in 1..Len(chunks) :
       LET c == chunks[k]
           ch == Cuts(ids, P)[k]
       IN  /\ c.end = ch[2]
           /\ IF k \in NewBlocks(ids, P) THEN c.block \in FreeBlocks ELSE c.block = 0
           /\ IF Completes(ch) /\ k \notin NewBlocks(ids, P)
              THEN \E e \in Entries : e.tokens = Prefix(ids, FullBlock(c)) /\ c.adopt = e.blocks
              ELSE c.adopt = <<>>
           /\ IF k \in NewEntries(ids, P) THEN c.key \in FreeKeys ELSE c.key = 0
  /\ \A j, k \in 1..Len(chunks) : j # k =>
       /\ chunks[j].block # 0 => chunks[j].block # chunks[k].block
       /\ chunks[j].key # 0 => chunks[j].key # chunks[k].key

-----------------------------------------------------------------------------
(* Steps.                                                                  *)

(* What an action does to the stack: the running prefill goes on, or ends, *)
(* or gives way to a new one.                                              *)
Steps ==
  /\ stack # <<>> /\ stack' # <<>> /\ stack \in Seq(Prefill) /\ stack' \in Seq(Prefill)
  /\ Len(stack) \in Nat \ {0} /\ Len(stack') = Len(stack) /\ Below' = Below
  /\ run \in Prefill /\ run' \in Prefill
  /\ run = stack[Len(stack)] /\ run' = stack'[Len(stack)]
  /\ \A i \in 1..(Len(stack) - 1) : stack'[i] = stack[i]

Pops ==
  /\ stack # <<>> /\ stack \in Seq(Prefill) /\ stack' \in Seq(Prefill) /\ stack' = Below
  /\ run \in Prefill /\ run = stack[Len(stack)]
  /\ Len(stack) \in Nat \ {0} /\ Len(stack') = Len(stack) - 1
  /\ \A i \in 1..(Len(stack) - 1) : stack'[i] = stack[i]
  /\ stack' # <<>> => run' = stack[Len(stack) - 1] /\ Len(stack) - 1 \in 1..Len(stack)

Pushes ==
  /\ stack \in Seq(Prefill) /\ stack' \in Seq(Prefill) /\ stack' # <<>>
  /\ Len(stack) \in Nat /\ Len(stack') = Len(stack) + 1
  /\ run' \in Prefill /\ run' = stack'[Len(stack) + 1]
  /\ \A i \in 1..Len(stack) : stack'[i] = stack[i]

(* The plan.                                                               *)
AsPlanned(p) ==
  LET chunks == GridPlan(p.ids, p.P)
  IN  [p EXCEPT !.chunks = chunks, !.pc = IF chunks = <<>> THEN "end" ELSE "wait"]

(* What becomes of a prefill when a chunk's rows are saved.                *)
Saved(p) ==
  LET c == p.chunks[p.k + 1]
      blocks == BlocksWith(p, c)
      tokens == Prefix(p.ids, c.end)
  IN  [p EXCEPT
         !.k = @ + 1, !.blocks = blocks,
         !.new = IF c.block = 0 THEN @ ELSE Append(@, c.block),
         !.ents = IF c.key = 0 THEN @
                  ELSE Append(@, [key |-> c.key, tokens |-> tokens, blocks |-> blocks, capture |-> FALSE]),
         !.pc = IF p.k + 1 < Len(p.chunks) THEN "wait" ELSE "end"]

(* The files that come with it.                                            *)
RowsSaved(p) ==
  LET c == p.chunks[p.k + 1]
      block == Prefix(p.ids, Grid * (c.end \div Grid))
      rows == IF c.block = 0 THEN disk ELSE With(disk, <<"rows", c.block, 0>>, block)
  IN  IF c.key = 0 THEN rows ELSE With(rows, <<"tail", c.key, 0>>, Prefix(p.ids, c.end))

(* Snapshot, tail, barrier.                                                *)
Final(p, pc, key, ents) == [p EXCEPT !.pc = pc, !.key = key, !.ents = ents]

(* How many entries Finish drops.                                          *)
Drops == IF MayEvict THEN Evicted ELSE 0

(* The writes a chunk adds to a rank's queue.                              *)
BlockPut(c, r) ==
  IF c.block = 0 THEN <<>> ELSE <<File("blk", c.block, r, Prefix(c.ids, Grid * (Len(c.ids) \div Grid)))>>
EntryPut(c, r) == IF c.key = 0 THEN <<>> ELSE <<File("ent", c.key, r, c.ids)>>

(* A sequence in three parts.                                              *)
Joins(v, s, t, u) == v = s \o t \o u

(* What a restart finds.                                                   *)
Recs == {disk[f] : f \in {x \in DOMAIN disk : x[1] = "idx"}}
Whole == {e \in Recs : OnDisk(AllFiles(e))}
Users(b) == {e \in Whole : b \in ToSet(e.blocks)}
Broken == UNION {ToSet(EntryFiles(e.key)) : e \in Recs \ Whole}
Strays == {f \in DOMAIN disk : f[1] \in {"blk", "rows"} /\ Cardinality(Users(f[2])) = 0}

-----------------------------------------------------------------------------
(* Who runs, and the barrier: the prefill below waits; a barrier is the    *)
(* last command, sent by a prefill that then waits for it, and when it is  *)
(* through neither rank has anything left to do or to write.               *)
NoBarrier(s) == \A i \in 1..Len(s) : s[i].op # "barrier"
BarrierLast(s) == s # <<>> /\ s[Len(s)].op = "barrier" /\ \A i \in 1..(Len(s) - 1) : s[i].op # "barrier"
AtBarrier == stack # <<>> /\ run.pc = "barrier"
Turns == Len(stack) <= 2 /\ \A i \in 1..(Len(stack) - 1) : stack[i].pc = "wait"
Barriers ==
  /\ ~AtBarrier => \A r \in Ranks : NoBarrier(cmds[r])
  /\ AtBarrier => \/ \A r \in Ranks : BarrierLast(cmds[r])
                  \/ \A r \in Ranks : cmds[r] = <<>> /\ wq[r] = <<>>
Proto == Turns /\ Barriers

-----------------------------------------------------------------------------
(* Whose a block id or a key is: a prefill's chunks have ids of their own, *)
(* its entries are those of the chunks that are done and of the snapshot,  *)
(* its new blocks those of the chunks that are done.                       *)
HasBlock(p, b) == \E j \in 1..Len(p.chunks) : p.chunks[j].block = b
HasKey(p, key) == p.key = key \/ \E j \in 1..Len(p.chunks) : p.chunks[j].key = key
Named(p, key) == (p.pc = "barrier" /\ p.key = key) \/ \E j \in 1..p.k : p.chunks[j].key = key
OwnIds(p) ==
  /\ \A j, m \in 1..Len(p.chunks) : j # m =>
       /\ p.chunks[j].block # 0 => p.chunks[j].block # p.chunks[m].block
       /\ p.chunks[j].key # 0 => p.chunks[j].key # p.chunks[m].key
  /\ p.key # 0 => \A j \in 1..Len(p.chunks) : p.chunks[j].key # p.key
OwnEntries(p) ==
  /\ \A m, n \in 1..Len(p.ents) : p.ents[m].key = p.ents[n].key => m = n
  /\ \A m \in 1..Len(p.ents) : Named(p, p.ents[m].key)
OwnBlocks(p) == \A b \in Blocks : b \in ToSet(p.new) <=> \E j \in 1..p.k : p.chunks[j].block = b
Slots(p) == OwnIds(p) /\ OwnEntries(p) /\ OwnBlocks(p)
Apart(p, q) ==
  /\ \A b \in Blocks : ~(HasBlock(p, b) /\ HasBlock(q, b))
  /\ \A key \in Keys : ~(HasKey(p, key) /\ HasKey(q, key))
SlotInv ==
  /\ \A i \in 1..Len(stack) : Slots(stack[i])
  /\ \A i, j \in 1..Len(stack) : i # j => Apart(stack[i], stack[j])

-----------------------------------------------------------------------------
(* The index and the directory.                                            *)
EntriesWith(b) == {e \in Entries : b \in ToSet(e.blocks)}
IdxFile(key) == <<"idx", key, 0>>
Intact(e) ==
  /\ OnDisk(AllFiles(e)) /\ disk[IdxFile(e.key)] = e
  /\ ToSet(AllFiles(e)) \cap ToSet(dead) = {}
Pends(p, key) ==
  \/ \E j \in (p.k + 1)..Len(p.chunks) : p.chunks[j].key = key
  \/ \E m \in 1..Len(p.ents) : p.ents[m].key = key
  \/ p.pc = "snap" /\ p.key = key

Listed == Distinct(index) /\ Distinct(lru) /\ ToSet(lru) = {e.key : e \in Entries}
Stored == dead \in Seq(FileNames) /\ \A e \in Entries : Intact(e)
Recorded == \A f \in DOMAIN disk : f[1] = "idx" => disk[f] \in Entries \/ f \in ToSet(dead)
Counts == \A b \in Blocks : refs[b] = Cardinality(EntriesWith(b))
Unrecorded ==
  \A i \in 1..Len(stack) : \A key \in Keys : Pends(stack[i], key) => IdxFile(key) \notin DOMAIN disk
Wanted ==
  \A r \in Ranks : \A c \in Commands(r) : c.op = "restore" => \E e \in Entries : c.files = AllFiles(e)
EntryInv == Listed /\ Stored /\ Recorded /\ Counts /\ Unrecorded /\ Wanted

(* The index is as it was, and the directory has all it had and no other   *)
(* record.                                                                 *)
Keeps ==
  /\ UNCHANGED <<index, refs>>
  /\ DOMAIN disk \subseteq DOMAIN disk'
  /\ \A f \in DOMAIN disk' : f[1] = "idx" => f \in DOMAIN disk /\ disk'[f] = disk[f]

(* The chunk whose rows are saved, and their files.                        *)
DoneChunk(p) == p.chunks[p.k + 1]
RowsFile(p) == <<"rows", DoneChunk(p).block, 0>>
TailFile(p) == <<"tail", DoneChunk(p).key, 0>>

-----------------------------------------------------------------------------
(* The k oldest entries, and what dropping them leaves of b's references.  *)
Oldest(k) == {lru[j] : j \in 1..k}
Left(k, b) == {e \in EntriesWith(b) : e.key \notin Oldest(k)}

(* The inductive core of the proofs.                                       *)
CacheInv == Shape /\ Proto /\ SlotInv /\ EntryInv

-----------------------------------------------------------------------------
(* Whose a file is: an entry's or a prefill's, which has the id or is to   *)
(* register the key.                                                       *)
OwnedBlock(b) == refs[b] > 0 \/ \E i \in 1..Len(stack) : HasBlock(stack[i], b)
OwnedKey(key) == (\E e \in Entries : e.key = key) \/ \E i \in 1..Len(stack) : Pends(stack[i], key)

(* An id is seen in the directory, in a queue or in a command.             *)
Files0 == DOMAIN disk \ ToSet(dead)
BlockSeen(b) ==
  \/ \E f \in Files0 : IsBlock(f) /\ f[2] = b
  \/ \E r \in Ranks : \E w \in Queued(r) : IsBlock(w.file) /\ w.file[2] = b
  \/ \E r \in Ranks : \E c \in Commands(r) : c.op = "chunk" /\ c.block = b
KeySeen(key) ==
  \/ \E f \in Files0 : ~IsBlock(f) /\ f[2] = key
  \/ \E r \in Ranks : \E w \in Queued(r) : ~IsBlock(w.file) /\ w.file[2] = key
  \/ \E r \in Ranks : \E c \in Commands(r) : c.op \in {"chunk", "snapshot"} /\ c.key = key
LeakInv ==
  /\ "block" \notin lost => \A b \in Blocks : BlockSeen(b) => OwnedBlock(b)
  /\ "entry" \notin lost => \A key \in Keys : KeySeen(key) => OwnedKey(key)

-----------------------------------------------------------------------------
(* A prefill's blocks are its own new ones and those of entries: it keeps  *)
(* others' blocks alive only through the index.  And what is about to be   *)
(* unlinked is none of its files.                                          *)
Shared == UNION {ToSet(e.blocks) : e \in Entries}
Held(p, shared) ==
  /\ ToSet(p.blocks) \subseteq shared \cup ToSet(p.new)
  /\ \A m \in 1..Len(p.ents) : ToSet(p.ents[m].blocks) \subseteq shared \cup ToSet(p.new)
  /\ \A j \in 1..Len(p.chunks) : ToSet(p.chunks[j].adopt) \subseteq shared
Spares(p, files) == \A f \in files : IF IsBlock(f) THEN ~HasBlock(p, f[2]) ELSE ~HasKey(p, f[2])
HeldInv == \A i \in 1..Len(stack) : Held(stack[i], Shared) /\ Spares(stack[i], ToSet(dead))

-----------------------------------------------------------------------------
(* While a prefill waits for a chunk or saves its rows, a command rank 0   *)
(* has not executed is the last one sent, one chunk of this prefill.       *)
OfChunk(p, c) == c.op = "chunk" /\ HasBlock(p, c.block) /\ HasKey(p, c.key)
LastIs(s, c) == s # <<>> => s[Len(s)] = c
AtChunk == stack # <<>> /\ run.pc \in {"wait", "rows"}
Sends ==
  AtChunk /\ cmds[0] # <<>> => \E c \in Command : OfChunk(run, c) /\ cmds[0] = <<c>> /\ LastIs(cmds[1], c)

(* The files that are there, or will be when the ranks have executed and   *)
(* written what they have to.                                              *)
Brings(c, r, f) ==
  \/ c.op = "chunk" /\ c.block # 0 /\ f = <<"blk", c.block, r>>
  \/ c.op \in {"chunk", "snapshot"} /\ c.key # 0 /\ f = <<"ent", c.key, r>>
Arrives(f) ==
  \/ f \in DOMAIN disk
  \/ \E r \in Ranks : \E w \in Queued(r) : w.file = f
  \/ \E r \in Ranks : \E c \in Commands(r) : Brings(c, r, f)
Arriving == {f \in FileNames : Arrives(f)}

(* Unless a write failed, what a prefill has had computed arrives on both  *)
(* ranks, and what it wrote itself is on disk.                             *)
IsSent(p, j) == (p.pc = "wait" => j <= p.k + 1) /\ (p.pc = "rows" => j <= p.k + 2)
Staged(p, arriving, stored) ==
  /\ \A j \in 1..Len(p.chunks) : IsSent(p, j) => \A r \in Ranks :
       /\ p.chunks[j].block # 0 => <<"blk", p.chunks[j].block, r>> \in arriving
       /\ p.chunks[j].key # 0 => <<"ent", p.chunks[j].key, r>> \in arriving
  /\ p.key # 0 => \A r \in Ranks : <<"ent", p.key, r>> \in arriving
  /\ \A b \in ToSet(p.new) : <<"rows", b, 0>> \in stored
  /\ \A m \in 1..Len(p.ents) : <<"tail", p.ents[m].key, 0>> \in stored
AllStaged == \A i \in 1..Len(stack) : Staged(stack[i], Arriving, DOMAIN disk)
StageInv == (skipped => failed) /\ (failed \/ AllStaged)

(* The files of a prefill are named by its ids.                            *)
Mine(p, f) == IF IsBlock(f) THEN f[2] \in Blocks /\ HasBlock(p, f[2]) ELSE f[2] \in Keys /\ HasKey(p, f[2])

-----------------------------------------------------------------------------
(* What each file, queued write, command and prefill says of the tokens a  *)
(* block or an entry's key stands for.  No two of them disagree.           *)
Ids == ({"block"} \X Blocks) \cup ({"key"} \X Keys)
Lists(bs, ids, x, t) == \E i \in 1..Len(bs) : x = <<"block", bs[i]>> /\ t = Prefix(ids, i * Grid)
EntrySays(e, x, t) == (x = <<"key", e.key>> /\ t = e.tokens) \/ Lists(e.blocks, e.tokens, x, t)
FileSays(f, content, x, t) ==
  IF f[1] = "idx" THEN EntrySays(content, x, t)
  ELSE x = <<IF IsBlock(f) THEN "block" ELSE "key", f[2]>> /\ t = content
CommandSays(c, x, t) ==
  /\ c.op \in {"chunk", "snapshot"}
  /\ \/ x = <<"block", c.block>> /\ t = Prefix(c.ids, Grid * (Len(c.ids) \div Grid))
     \/ x = <<"key", c.key>> /\ t = c.ids
PrefillSays(p, x, t) ==
  \/ Lists(p.blocks, p.ids, x, t)
  \/ x = <<"key", p.key>> /\ t = p.ids
  \/ \E j \in 1..Len(p.chunks) : Lists(p.chunks[j].adopt, p.ids, x, t) \/ CommandSays(ChunkCmd(p, j), x, t)
  \/ \E m \in 1..Len(p.ents) : EntrySays(p.ents[m], x, t)

DiskSays(x, t) == \E f \in DOMAIN disk : FileSays(f, disk[f], x, t)
QueueSays(x, t) == \E r \in Ranks : \E w \in Queued(r) : FileSays(w.file, w.content, x, t)
OrderSays(x, t) == \E r \in Ranks : \E c \in Commands(r) : CommandSays(c, x, t)
StackSays(x, t) == \E i \in 1..Len(stack) : PrefillSays(stack[i], x, t)
Says(x, t) == DiskSays(x, t) \/ QueueSays(x, t) \/ OrderSays(x, t) \/ StackSays(x, t)
ClaimInv == \A x \in Ids : \A t, u : Says(x, t) /\ Says(x, u) => t = u
==============================================================================
