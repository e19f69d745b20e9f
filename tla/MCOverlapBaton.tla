--------------------------- MODULE MCOverlapBaton ---------------------------
(* Model values for TLC.                                                   *)
EXTENDS OverlapBaton

Chunk(preempt, steps, fault) == [preempt |-> preempt, steps |-> steps, fault |-> fault]

(* Without points; with them and two steps; and a failure in any segment,  *)
(* with a step beside it in the first layer.                               *)
SomeChunks ==
  {Chunk(FALSE, 0, NoFault), Chunk(TRUE, 2, NoFault)}
    \cup {Chunk(TRUE, IF f[2] = 1 THEN 1 ELSE 0, f) : f \in Halves \X (0..Segs)}

=============================================================================
