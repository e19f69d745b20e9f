----------------------------- MODULE MCGpuQueue -----------------------------
(* The jobs of the GpuQueue configurations.                                *)
EXTENDS GpuQueue

Step(graph, bad) == [kind |-> "step", graph |-> graph, bad |-> bad]
Chunk(pre)       == [kind |-> "chunk", graph |-> pre, bad |-> FALSE]
Control          == [kind |-> "ctl", graph |-> FALSE, bad |-> FALSE]
Barrier          == [kind |-> "ctl", graph |-> TRUE, bad |-> FALSE]

(* Steps that may be parked, one of which fails; an eager step; chunks.    *)
AllJobs == {Step(TRUE, FALSE), Step(TRUE, TRUE), Step(FALSE, FALSE),
            Chunk(TRUE), Control, Barrier}

=============================================================================
