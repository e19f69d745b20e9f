-------------------------- MODULE MCPrefixCacheBox --------------------------
(* Prompts that share a grid block and one that extends another.          *)
EXTENDS PrefixCacheBox

Left == <<"a", "a", "a", "b", "b">>
Right == <<"a", "a", "a", "c", "c">>
Longer == Left \o <<"b", "b">>

(* What the grid plan relies on: chunks follow one another over [P, n1),   *)
(* none has a single row or more than `chunk`, and between two multiples   *)
(* of `chunk` at most one chunk ends.                                      *)
ASSUME PlanSound ==
  \A chunk \in 3..5, n1 \in 2..14 : \A P \in 0..(n1 - 2) :
    LET cs == PlanChunks(P, n1, chunk) IN
    /\ cs[1][1] = P /\ cs[Len(cs)][2] = n1
    /\ \A i \in 1..(Len(cs) - 1) : cs[i][2] = cs[i + 1][1]
    /\ \A i \in 1..Len(cs) : Rows(cs[i]) \in 2..chunk
    /\ \A i \in 1..(Len(cs) - 1) :
         \E g \in 1..n1 : g % chunk = 0 /\ cs[i][2] - g \in {-1, 0, 1}

MCPrompts == {Left, Right, Longer}

=============================================================================
