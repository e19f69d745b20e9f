--------------------------- MODULE PrefixCacheBox ---------------------------
(***************************************************************************)
(* The box's prefix cache: class PrefixIndex and class RankStore of        *)
(* kernels/split-nv/src/hooks/split_nv/prefix_cache.py, and the cached     *)
(* prefill of front.py that resumes from it and saves to it.               *)
(*                                                                         *)
(* A snapshot of a prompt's first P tokens is an entry: files of its own   *)
(* and one set of files per grid block of Grid tokens, shared with other   *)
(* entries.  Each of the two ranks executes commands in order, some time   *)
(* after the other, and writes files on a background thread.  Rank 0's     *)
(* front end keeps the index.  A file's content is the token prefix whose  *)
(* state it holds; tok- and idx- are one file here, written together.      *)
(* A prefill holds the gate (PrefillGate), or is suspended for one that    *)
(* does: `stack` holds the suspended one below the running one.            *)
(***************************************************************************)
EXTENDS ChunkPlan

CONSTANTS Prompts,    (* key sequences, without the last token of the prompt   *)
          Grid,       (* GRID and CHUNK: rows of a block and of a chunk        *)
          MinResume,  (* SPLIT_NV_CACHE_MIN_RESUME                             *)
          GridTail,   (* rows a prefill needs after a grid entry (256)         *)
          Budget,     (* files are counted as one unit per entry and per block *)
          NBlocks, NKeys,  (* bounds: block ids and entry keys in use at once  *)
          MaxFaults        (* bound: failed writes, prefills, restores, crashes *)

Tokens == UNION {ToSet(ids) : ids \in Prompts}

ASSUME CacheAssumption ==
  /\ Prompts \subseteq Seq(Tokens)
  /\ Grid \in Nat /\ Grid > 2
  /\ MinResume \in Nat /\ GridTail \in Nat \ {0, 1} /\ Budget \in Nat
  /\ NBlocks \in Nat /\ NKeys \in Nat /\ MaxFaults \in Nat

Ranks == {0, 1}
Blocks == 1..NBlocks
Keys == 1..NKeys

VARIABLES
  index,    \* PrefixIndex.entries, in order of registration
  lru,      \* their keys, least recently used first (Entry.last)
  refs,     \* block_refs; 0 for an absent block
  disk,     \* the cache directory: file name -> content
  dead,     \* files the front thread is about to unlink, in order
  stack,    \* the prefills under way: the last one runs
  cmds,     \* per rank: commands sent and not executed
  wq,       \* per rank: RankStore.q
  torn,     \* and how many .tmp files it has, which failed writes left
  faults, failed, skipped, lost  \* history: faults so far; a write failed,
            \* an entry was not registered, since the engine started or the
            \* cache was cleared; kinds of files left behind

idx == <<index, lru, refs>>
ranks == <<cmds, wq>>
history == <<faults, failed, skipped, lost, torn>>
vars == <<idx, disk, dead, stack, ranks, history>>

-----------------------------------------------------------------------------
(* Files.                                                                  *)
StateFiles(key) == << <<"tail", key, 0>>, <<"ent", key, 0>>, <<"ent", key, 1>> >>
EntryFiles(key) == << <<"idx", key, 0>> >> \o StateFiles(key)
BlockFiles(b) == << <<"blk", b, 0>>, <<"blk", b, 1>>, <<"rows", b, 0>> >>
FilesOfBlocks(bs) == FlattenSeq([i \in 1..Len(bs) |-> BlockFiles(bs[i])])
AllFiles(e) == EntryFiles(e.key) \o FilesOfBlocks(e.blocks)
AllNames == FlattenSeq([key \in Keys |-> EntryFiles(key)]) \o FilesOfBlocks([b \in Blocks |-> b])

(* The elements of s that are in S.                                        *)
Where(s, S) == FlattenSeq([i \in 1..Len(s) |-> IF s[i] \in S THEN <<s[i]>> ELSE <<>>])

OnDisk(files) == ToSet(files) \subseteq DOMAIN disk
Without(f, files) == [x \in DOMAIN f \ files |-> f[x]]
With(f, file, content) ==
  [x \in DOMAIN f \cup {file} |-> IF x = file THEN content ELSE f[x]]

Prefix(ids, n) == SubSeq(ids, 1, n)

(* Ids not in use: new_id counts up from the clock and never repeats.      *)
Queued(r) == ToSet(wq[r])
Commands(r) == ToSet(cmds[r])
Sent == {c \in UNION {Commands(r) : r \in Ranks} : c.op \in {"chunk", "snapshot"}}
Planned == UNION {ToSet(p.chunks) : p \in ToSet(stack)}
Files == DOMAIN disk \cup ToSet(dead) \cup {w.file : w \in UNION {Queued(r) : r \in Ranks}}
FreeBlocks ==
  Blocks \ ({f[2] : f \in {x \in Files : x[1] \in {"blk", "rows"}}}
            \cup {c.block : c \in Sent \cup Planned})
FreeKeys ==
  Keys \ ({f[2] : f \in {x \in Files : x[1] \in {"idx", "tail", "ent"}}}
          \cup {c.key : c \in Sent \cup Planned} \cup {p.key : p \in ToSet(stack)})
Nth(S, i) == CHOOSE x \in S : Cardinality({y \in S : y <= x}) = i

-----------------------------------------------------------------------------
(* The index.                                                              *)
Entries == ToSet(index)
EntryOf(key) == CHOOSE e \in Entries : e.key = key
First(S) == index[Min({i \in 1..Len(index) : index[i] \in S})]
Registered(tokens) == {e \in Entries : e.tokens = tokens}
Covered(tokens, capture) == \E e \in Registered(tokens) : e.capture \/ ~capture

Resumable(ids) ==
  LET n == Len(ids)
      least == IF MinResume < n THEN MinResume ELSE n
  IN  {e \in Entries :
         LET P == Len(e.tokens) IN
         /\ least <= P /\ P <= n /\ n - P # 1
         /\ e.capture \/ n - P >= GridTail
         /\ IsPrefix(e.tokens, ids)}
Longest(S) == {e \in S : \A f \in S : Len(f.tokens) <= Len(e.tokens)}

(* Per chunk [a, e): the block it completes (at most one, for a chunk has  *)
(* at most Grid rows), new or adopted, and the key of a grid entry at e.   *)
Cuts(ids, P) == PlanChunks(P, Len(ids), Grid)
BlockEnd(ch) == Grid * (ch[2] \div Grid)
Completes(ch) == BlockEnd(ch) > ch[1]
NewBlocks(ids, P) ==
  {k \in 1..Len(Cuts(ids, P)) :
     LET ch == Cuts(ids, P)[k] IN Completes(ch) /\ Registered(Prefix(ids, BlockEnd(ch))) = {}}
NewEntries(ids, P) ==
  {k \in 1..Len(Cuts(ids, P)) :
     LET e == Cuts(ids, P)[k][2]
     IN  e % Grid = 0 /\ e < Len(ids) /\ ~Covered(Prefix(ids, e), FALSE)}
IdFor(k, S, free) == IF k \in S THEN Nth(free, Cardinality(S \cap (1..k))) ELSE 0

GridPlan(ids, P) ==
  LET plan == Cuts(ids, P)
      new == NewBlocks(ids, P)
      marks == NewEntries(ids, P)
  IN  [k \in 1..Len(plan) |->
        [end |-> plan[k][2],
         block |-> IdFor(k, new, FreeBlocks),
         adopt |-> IF Completes(plan[k]) /\ k \notin new
                   THEN First(Registered(Prefix(ids, BlockEnd(plan[k])))).blocks ELSE <<>>,
         key |-> IdFor(k, marks, FreeKeys)]]

Unused == {b \in Blocks : refs[b] = 0}
CompleteOnRank0(e) ==
  {f \in ToSet(StateFiles(e.key) \o FilesOfBlocks(Where(e.blocks, Unused))) : f[3] = 0} \subseteq DOMAIN disk

(* PrefixIndex.incomplete found nothing: blocks of registered entries are  *)
(* not looked at again.                                                    *)
Complete(e) == OnDisk(StateFiles(e.key) \o FilesOfBlocks(Where(e.blocks, Unused)))

(* What PrefixIndex.evict leaves after dropping the k least recently used. *)
RefsAfter(k) ==
  [b \in Blocks |-> refs[b] - Cardinality({j \in 1..k : b \in ToSet(EntryOf(lru[j]).blocks)})]
TotalAfter(k) == Len(lru) - k + Cardinality({b \in Blocks : RefsAfter(k)[b] > 0})
Evicted == Min({k \in 0..Len(lru) : k = Len(lru) \/ TotalAfter(k) <= Budget})
FilesDroppedAt(k) ==
  EntryFiles(lru[k]) \o
  FilesOfBlocks(Where(EntryOf(lru[k]).blocks, {b \in Blocks : RefsAfter(k)[b] = 0}))

-----------------------------------------------------------------------------
run == Last(stack)
Below == Front(stack)
Becomes(p) == stack' = Append(Below, p)
Submit(c) == cmds' = [r \in Ranks |-> Append(cmds[r], c)]

(* The front thread goes on when it has unlinked what it had to and rank 0 *)
(* has executed what it waits for.                                         *)
At(l) == stack # <<>> /\ run.pc = l /\ dead = <<>> /\ cmds[0] = <<>>

ChunkCmd(p, k) ==
  LET c == p.chunks[k] IN
  [op |-> "chunk", ids |-> Prefix(p.ids, c.end), block |-> c.block, key |-> c.key]

Init ==
  /\ index = <<>> /\ lru = <<>> /\ refs = [b \in Blocks |-> 0]
  /\ disk = <<>> /\ dead = <<>>
  /\ stack = <<>>
  /\ cmds = [r \in Ranks |-> <<>>] /\ wq = [r \in Ranks |-> <<>>]
  /\ faults = 0 /\ failed = FALSE /\ skipped = FALSE /\ lost = {} /\ torn = 0

(* The gate admits a prompt: nobody is there, or the prefill that runs     *)
(* gives way between two chunks.  Which prompts may go first depends on an *)
(* estimate made earlier and on a limit set at run time, so any may here.  *)
MayEnter ==
  /\ dead = <<>>
  /\ stack = <<>> \/ (Len(stack) = 1 /\ At("wait"))

Open(ids) ==
  LET fits == Longest(Resumable(ids))
      e == First(fits)
      blank == [ids |-> ids, pc |-> "plan", P |-> 0, chunks |-> <<>>, k |-> 0,
                blocks |-> <<>>, new |-> <<>>, ents |-> <<>>, key |-> 0]
  IN
  /\ MayEnter
  /\ Cardinality(FreeBlocks) >= Len(ids) \div Grid
  /\ Cardinality(FreeKeys) > Len(ids) \div Grid + Len(stack)
  /\ \/ /\ fits = {}
        /\ stack' = Append(stack, blank)
        /\ UNCHANGED <<lru, cmds>>
     \/ /\ fits # {}
        /\ lru' = Append(Where(lru, Keys \ {e.key}), e.key)
        /\ stack' = Append(stack, [blank EXCEPT !.pc = "restore", !.P = Len(e.tokens), !.blocks = e.blocks])
        /\ Submit([op |-> "restore", files |-> AllFiles(e)])
  /\ UNCHANGED <<index, refs, disk, dead, wq, history>>

Restored ==
  /\ At("restore")
  /\ Becomes([run EXCEPT !.pc = "plan"])
  /\ UNCHANGED <<idx, disk, dead, ranks, history>>

(* Rank 0's restore or the reading of the rows raised: from scratch.       *)
RestoreFails ==
  /\ At("restore") /\ faults < MaxFaults
  /\ Becomes([run EXCEPT !.pc = "plan", !.P = 0, !.blocks = <<>>])
  /\ faults' = faults + 1
  /\ UNCHANGED <<idx, disk, dead, ranks, failed, skipped, lost, torn>>

Plan ==
  /\ At("plan")
  /\ Cardinality(FreeBlocks) >= Cardinality(NewBlocks(run.ids, run.P))
  /\ Cardinality(FreeKeys) >= Cardinality(NewEntries(run.ids, run.P))
  /\ LET chunks == GridPlan(run.ids, run.P)
         p == [run EXCEPT !.chunks = chunks, !.pc = IF chunks = <<>> THEN "end" ELSE "wait"]
     IN  /\ Becomes(p)
         /\ IF chunks = <<>> THEN UNCHANGED cmds ELSE Submit(ChunkCmd(p, 1))
  /\ UNCHANGED <<idx, disk, dead, wq, history>>

(* Chunk k + 1 is done: the next one is sent before its rows are saved.    *)
Continue ==
  /\ At("wait")
  /\ Becomes([run EXCEPT !.pc = "rows"])
  /\ IF run.k + 1 < Len(run.chunks) THEN Submit(ChunkCmd(run, run.k + 2)) ELSE UNCHANGED cmds
  /\ UNCHANGED <<idx, disk, dead, wq, history>>

DropAdopted(p, c) == IF c.block # 0 THEN Append(p.blocks, c.block) ELSE p.blocks
BlocksWith(p, c) ==
  IF c.adopt # <<>> THEN c.adopt ELSE IF c.block # 0 THEN Append(p.blocks, c.block) ELSE p.blocks

(* _grid_done: rank 0 saves the rows of the chunk's block and grid entry.  *)
GridDone ==
  /\ stack # <<>> /\ run.pc = "rows" /\ dead = <<>>
  /\ LET c == run.chunks[run.k + 1]
         blocks == BlocksWith(run, c)
         tokens == Prefix(run.ids, c.end)
         block == Prefix(run.ids, Grid * (c.end \div Grid))
         rows == IF c.block = 0 THEN disk ELSE With(disk, <<"rows", c.block, 0>>, block)
     IN  /\ disk' = IF c.key = 0 THEN rows ELSE With(rows, <<"tail", c.key, 0>>, tokens)
         /\ Becomes([run EXCEPT
              !.k = @ + 1, !.blocks = blocks,
              !.new = IF c.block = 0 THEN @ ELSE Append(@, c.block),
              !.ents = IF c.key = 0 THEN @
                       ELSE Append(@, [key |-> c.key, tokens |-> tokens, blocks |-> blocks, capture |-> FALSE]),
              !.pc = IF run.k + 1 < Len(run.chunks) THEN "wait" ELSE "end"])
  /\ UNCHANGED <<idx, dead, ranks, history>>

ForgetNothing(bs) == <<>>
(* PrefixIndex.forget_blocks: the files of blocks no entry refers to.      *)
Forgotten(bs) == FilesOfBlocks(Where(bs, Unused))

(* The prefill raises: it unlinks the files it knows of.                   *)
Aborts ==
  /\ faults < MaxFaults
  /\ dead' = Forgotten(run.new) \o FlattenSeq([i \in 1..Len(run.ents) |-> EntryFiles(run.ents[i].key)])
  /\ stack' = Below
  /\ faults' = faults + 1 /\ lost' = {"block", "entry"}
  /\ UNCHANGED <<idx, disk, wq, skipped>>

(* A write fails.  The .tmp file it had begun stays (_atomic_save, add).   *)
WriteTears == failed' = TRUE /\ torn' = torn + 1

(* The client goes away while rows are sent to it, a chunk's or those of   *)
(* the resumed prefix, or the rows of the chunk's block cannot be written; *)
(* the job in flight is waited for.                                        *)
Fail ==
  /\ \/ /\ At("rows") \/ (At("wait") /\ run.k = 0 /\ run.P > 0)
        /\ UNCHANGED <<failed, torn>>
     \/ /\ At("rows") /\ run.chunks[run.k + 1].block # 0
        /\ WriteTears
  /\ Aborts
  /\ UNCHANGED cmds

(* A chunk raises in its forward, on both ranks.                           *)
ChunkFails ==
  /\ stack # <<>> /\ run.pc = "wait" /\ dead = <<>>
  /\ \A r \in Ranks : Len(cmds[r]) = 1 /\ Head(cmds[r]).op = "chunk"
  /\ Aborts
  /\ cmds' = [r \in Ranks |-> <<>>]
  /\ UNCHANGED <<failed, torn>>

(* After Front.prefill the client goes away while the end state is sent,   *)
(* or rank 0 cannot write a file of an entry itself, rows-tail- before the *)
(* barrier or tok- and idx- after it: nothing is unlinked.                 *)
ReplyFails ==
  /\ faults < MaxFaults
  /\ \/ At("end") /\ UNCHANGED <<failed, torn>>
     \/ At("snap") /\ WriteTears
     \/ /\ At("barrier") /\ run.ents # <<>> /\ Complete(Head(run.ents))
        /\ WriteTears
  /\ stack' = Below
  /\ faults' = faults + 1 /\ lost' = {"block", "entry"}
  /\ UNCHANGED <<idx, disk, dead, ranks, skipped>>

Snapshot ==
  /\ At("end")
  /\ \/ /\ Len(run.blocks) = Len(run.ids) \div Grid /\ ~Covered(run.ids, TRUE)
        /\ FreeKeys # {}
        /\ LET key == Nth(FreeKeys, 1) IN
             /\ Becomes([run EXCEPT !.pc = "snap", !.key = key])
             /\ Submit([op |-> "snapshot", ids |-> run.ids, block |-> 0, key |-> key])
     \/ /\ Len(run.blocks) # Len(run.ids) \div Grid \/ Covered(run.ids, TRUE)
        /\ Becomes([run EXCEPT !.pc = "barrier"])
        /\ Submit([op |-> "barrier"])
  /\ UNCHANGED <<idx, disk, dead, wq, history>>

SaveTail ==
  /\ At("snap")
  /\ disk' = With(disk, <<"tail", run.key, 0>>, run.ids)
  /\ Becomes([run EXCEPT !.pc = "barrier", !.ents =
       Append(@, [key |-> run.key, tokens |-> run.ids, blocks |-> run.blocks, capture |-> TRUE])])
  /\ Submit([op |-> "barrier"])
  /\ UNCHANGED <<idx, dead, wq, history>>

(* After the barrier: the next entry is registered (PrefixIndex.add), or   *)
(* its files are removed because some are missing (_complete).             *)
Register ==
  /\ At("barrier") /\ run.ents # <<>>
  /\ LET e == Head(run.ents) IN
       \/ /\ Complete(e)
          /\ index' = Append(index, e) /\ lru' = Append(lru, e.key)
          /\ refs' = [b \in Blocks |-> refs[b] + (IF b \in ToSet(e.blocks) THEN 1 ELSE 0)]
          /\ disk' = With(disk, <<"idx", e.key, 0>>, e)
          /\ UNCHANGED skipped
       \/ /\ ~Complete(e)
          /\ disk' = Without(disk, ToSet(EntryFiles(e.key)))
          /\ skipped' = TRUE
          /\ UNCHANGED idx
  /\ Becomes([run EXCEPT !.ents = Tail(@)])
  /\ UNCHANGED <<dead, ranks, faults, failed, lost, torn>>

MayAlwaysEvict == TRUE
(* A suspended prefill may adopt blocks of existing entries.               *)
MayEvict == Below = <<>>

(* The rest of save_snapshot: unused new blocks, then eviction.            *)
Finish ==
  /\ At("barrier") /\ run.ents = <<>>
  /\ LET n == IF MayEvict THEN Evicted ELSE 0
         gone == {lru[j] : j \in 1..n}
     IN  /\ dead' = Forgotten(run.new) \o FlattenSeq([j \in 1..n |-> FilesDroppedAt(j)])
         /\ index' = Where(index, {e \in Entries : e.key \notin gone})
         /\ lru' = SubSeq(lru, n + 1, Len(lru))
         /\ refs' = RefsAfter(n)
  /\ stack' = Below
  /\ UNCHANGED <<disk, ranks, history>>

Unlink ==
  /\ dead # <<>>
  /\ disk' = Without(disk, {Head(dead)})
  /\ dead' = Tail(dead)
  /\ UNCHANGED <<idx, stack, ranks, history>>

(* Front.cache_clear, once its barrier has come back: every file goes.     *)
Clear ==
  /\ stack = <<>> /\ dead = <<>>
  /\ \A r \in Ranks : cmds[r] = <<>> /\ wq[r] = <<>>
  /\ index # <<>>
  /\ index' = <<>> /\ lru' = <<>> /\ refs' = [b \in Blocks |-> 0]
  /\ dead' = Where(AllNames, DOMAIN disk)
  /\ failed' = FALSE /\ skipped' = FALSE /\ lost' = {} /\ torn' = 0
  /\ UNCHANGED <<disk, stack, ranks, faults>>

-----------------------------------------------------------------------------
(* The ranks.                                                              *)
Does(r, op) == cmds[r] # <<>> /\ Head(cmds[r]).op = op
Executed(r) == cmds' = [cmds EXCEPT ![r] = Tail(@)]
File(kind, id, r, content) == [file |-> <<kind, id, r>>, content |-> content]

(* A chunk's forward ends on a rank when the other one has reached it.     *)
ExecChunk(r) ==
  /\ Does(r, "chunk")
  /\ Len(cmds[1 - r]) <= Len(cmds[r])
  /\ LET c == Head(cmds[r])
         block == Prefix(c.ids, Grid * (Len(c.ids) \div Grid))
     IN  wq' = [wq EXCEPT ![r] = @
           \o (IF c.block = 0 THEN <<>> ELSE <<File("blk", c.block, r, block)>>)
           \o (IF c.key = 0 THEN <<>> ELSE <<File("ent", c.key, r, c.ids)>>)]
  /\ Executed(r)
  /\ UNCHANGED <<idx, disk, dead, stack, history>>

(* cmd_snapshot: put the file, then wait for the writer.                   *)
ExecSnapshot(r) ==
  /\ Does(r, "snapshot")
  /\ LET c == Head(cmds[r]) IN wq' = [wq EXCEPT ![r] = Append(@, File("ent", c.key, r, c.ids))]
  /\ cmds' = [cmds EXCEPT ![r] = <<[op |-> "flush"]>> \o Tail(@)]
  /\ UNCHANGED <<idx, disk, dead, stack, history>>

(* cmd_restore reads the files after a flush of its own writes.            *)
ExecRestore(r) ==
  /\ Does(r, "restore") \/ Does(r, "flush")
  /\ wq[r] = <<>>
  /\ Executed(r)
  /\ UNCHANGED <<idx, disk, dead, stack, wq, history>>

BarrierOfRank0 ==
  /\ Does(0, "barrier") /\ wq[0] = <<>>
  /\ Executed(0)
  /\ UNCHANGED <<idx, disk, dead, stack, wq, history>>

(* cmd_barrier: each rank flushes, then a collective joins them.           *)
ExecBarrier ==
  /\ \A r \in Ranks : Does(r, "barrier") /\ wq[r] = <<>>
  /\ cmds' = [r \in Ranks |-> Tail(cmds[r])]
  /\ UNCHANGED <<idx, disk, dead, stack, wq, history>>

(* The writer thread: a file appears whole, by a rename, or not at all.    *)
Write(r) ==
  /\ wq[r] # <<>>
  /\ disk' = With(disk, Head(wq[r]).file, Head(wq[r]).content)
  /\ wq' = [wq EXCEPT ![r] = Tail(@)]
  /\ UNCHANGED <<idx, dead, stack, cmds, history>>

WriteFails(r) ==
  /\ wq[r] # <<>> /\ faults < MaxFaults
  /\ wq' = [wq EXCEPT ![r] = Tail(@)]
  /\ faults' = faults + 1 /\ WriteTears
  /\ UNCHANGED <<idx, disk, dead, stack, cmds, skipped, lost>>

(* The engine dies and starts again: PrefixIndex._load rebuilds the index  *)
(* from the files, drops entries with a file missing, then the blocks      *)
(* nobody refers to and the .tmp files.  The order of use is now that of   *)
(* the files' dates, of registration; entries half evicted come first.     *)
Restart ==
  /\ faults < MaxFaults
  /\ LET recs == {disk[f] : f \in {x \in DOMAIN disk : x[1] = "idx"}}
         whole == {e \in recs : OnDisk(AllFiles(e))}
         count == [b \in Blocks |-> Cardinality({e \in whole : b \in ToSet(e.blocks)})]
         broken == UNION {ToSet(EntryFiles(e.key)) : e \in recs \ whole}
         strays == {f \in DOMAIN disk : f[1] \in {"blk", "rows"} /\ count[f[2]] = 0}
     IN  /\ index' = SetToSeq(whole \ Entries) \o Where(index, whole)
         /\ lru' = [i \in 1..Len(index') |-> index'[i].key]
         /\ refs' = count
         /\ disk' = Without(disk, broken \cup strays)
  /\ dead' = <<>> /\ stack' = <<>>
  /\ cmds' = [r \in Ranks |-> <<>>] /\ wq' = [r \in Ranks |-> <<>>]
  /\ faults' = faults + 1 /\ failed' = FALSE /\ skipped' = FALSE
  /\ lost' = {"entry"} /\ torn' = 0

Next ==
  \/ \E ids \in Prompts : Open(ids)
  \/ Restored \/ RestoreFails \/ Plan \/ Continue \/ GridDone \/ Fail \/ ChunkFails \/ ReplyFails
  \/ Snapshot \/ SaveTail \/ Register \/ Finish \/ Unlink \/ Clear
  \/ \E r \in Ranks : ExecChunk(r) \/ ExecSnapshot(r) \/ ExecRestore(r) \/ Write(r) \/ WriteFails(r)
  \/ ExecBarrier \/ Restart

Spec == Init /\ [][Next]_vars

-----------------------------------------------------------------------------
(* Every entry a lookup can return can be restored: all its files and its  *)
(* blocks' files are there, on both ranks, and hold the state of exactly   *)
(* these tokens (the docstring of save_snapshot: "resumes stay exact").    *)
Restorable ==
  \A e \in Entries :
    /\ OnDisk(AllFiles(e))
    /\ disk[<<"idx", e.key, 0>>] = e
    /\ \A f \in ToSet(StateFiles(e.key)) : disk[f] = e.tokens
    /\ Len(e.blocks) = Len(e.tokens) \div Grid
    /\ \A i \in 1..Len(e.blocks) : \A f \in ToSet(BlockFiles(e.blocks[i])) :
         disk[f] = Prefix(e.tokens, i * Grid)

(* A rank that has a restore before it, however late, finds its files: no  *)
(* eviction, clear or clean-up takes them away (front.py 819).             *)
RestoreSafe ==
  \A r \in Ranks : \A c \in Commands(r) : c.op = "restore" => OnDisk(c.files)

(* As long as no write failed since the engine started or the cache was    *)
(* cleared, a prefill that ends registers all its entries: what it resumed *)
(* from or planned to adopt is still there.                                *)
SkippedOnlyIfFailed == skipped => failed

(* _grid_done never meets blocks out of order ("grid block order"), and at *)
(* the end every block of the prompt is there for the snapshot.            *)
GridOrder ==
  \A i \in 1..Len(stack) :
    LET p == stack[i] IN
    /\ p.pc = "rows" =>
         LET c == p.chunks[p.k + 1] IN c.block # 0 => Len(p.blocks) = c.end \div Grid - 1
    /\ p.pc = "end" => Len(p.blocks) = Len(p.ids) \div Grid

Quiet ==
  stack = <<>> /\ dead = <<>> /\ \A r \in Ranks : cmds[r] = <<>> /\ wq[r] = <<>>
BlockFilesOnDisk == {f \in DOMAIN disk : f[1] \in {"blk", "rows"}}
NoStrayBlock == \A f \in BlockFilesOnDisk : refs[f[2]] > 0

(* When nothing is under way the directory holds the index's files and no  *)
(* other whole file, unless a prefill failed or the engine died: an unused *)
(* block, an eviction, the other files of an entry one write of which      *)
(* failed are unlinked, and a restart clears the blocks it does not know.  *)
(* A .tmp file is there only if a write failed since the engine started or *)
(* the cache was cleared.                                                  *)
NoLeak ==
  Quiet =>
    /\ "block" \notin lost => NoStrayBlock
    /\ "entry" \notin lost =>
         \A f \in DOMAIN disk \ BlockFilesOnDisk : \E e \in Entries : e.key = f[2]
    /\ torn # 0 => failed

(* "a block file is deleted when no entry references it", prefix_cache.py  *)
(* 279-280; forget_blocks is to see to it when "the prefill failed" (443). *)
DocBlocksDeleted == Quiet => NoStrayBlock

=============================================================================
