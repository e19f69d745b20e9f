----------------------------- MODULE ChunkPlan ------------------------------
(***************************************************************************)
(* How the box cuts a prompt into prefill chunks: plan_chunks of           *)
(* kernels/split-nv/src/hooks/split_nv/front.py.  A chunk is a pair        *)
(* <<a, e>>, the rows [a, e).                                              *)
(***************************************************************************)
EXTENDS Integers, SequencesExt

Rows(ch) == ch[2] - ch[1]

(* [P, n1) cut at the multiples of `chunk` that lie inside it.             *)
GridCuts(P, n1, chunk) ==
  LET first == (P \div chunk + 1) * chunk
      inner == IF first < n1 THEN (n1 - 1 - first) \div chunk + 1 ELSE 0
      cut(i) == IF i = 0 THEN P ELSE IF i > inner THEN n1 ELSE first + (i - 1) * chunk
  IN  IF P = n1 THEN <<>> ELSE [i \in 1..(inner + 1) |-> <<cut(i - 1), cut(i)>>]

(* One repair of a chunk of a single row: it joins its neighbour, the next *)
(* one if there is one, or takes a row from it.                            *)
Join(cs, i, j) ==
  LET lo == IF i < j THEN i ELSE j
  IN  [k \in 1..(Len(cs) - 1) |->
         IF k < lo THEN cs[k] ELSE IF k = lo THEN <<cs[lo][1], cs[lo + 1][2]>> ELSE cs[k + 1]]
TakeRow(cs, i, j) ==
  IF j > i THEN [cs EXCEPT ![i] = <<@[1], @[2] + 1>>, ![j] = <<@[1] + 1, @[2]>>]
  ELSE [cs EXCEPT ![j] = <<@[1], @[2] - 1>>, ![i] = <<@[1] - 1, @[2]>>]

(* One round of the loop: the first chunk of a single row is repaired.     *)
Repaired(cs, chunk) ==
  LET single == {i \in 1..Len(cs) : Rows(cs[i]) = 1}
      i == Min(single)
      j == IF i < Len(cs) THEN i + 1 ELSE i - 1
  IN  IF Len(cs) <= 1 \/ single = {} THEN cs
      ELSE IF Rows(cs[i]) + Rows(cs[j]) <= chunk THEN Join(cs, i, j)
      ELSE TakeRow(cs, i, j)

(* A round removes a single row and makes none, for a chunk of more than   *)
(* two rows: after as many rounds as there are chunks the loop has ended.  *)
PlanChunks(P, n1, chunk) ==
  LET cuts == GridCuts(P, n1, chunk)
      round[n \in 0..Len(cuts)] == IF n = 0 THEN cuts ELSE Repaired(round[n - 1], chunk)
  IN  round[Len(cuts)]

=============================================================================
