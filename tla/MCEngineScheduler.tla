------------------------- MODULE MCEngineScheduler -------------------------
(* Model values for TLC.                                                   *)
EXTENDS EngineScheduler

(* One fault of each kind, and a second one of a kind that is retried.     *)
OneOrRetried == {<<k>> : k \in FaultKinds} \cup {<<k, k>> : k \in Retried}

(* A chunk or a prefill fails, and a later one of the same step raises.    *)
TwoInAStep ==
  {<<"oom">>, <<"reject">>, <<"oom", "corrupt">>, <<"oom", "fatal">>, <<"reject", "overflow">>}

(* A gate under pressure; one with room for a second store, where a        *)
(* request can be admitted while another's cache is being stored; and two  *)
(* faults in one step, with prompts long enough for two to be in flight.   *)
Pressed == [cap |-> 1, reqs |-> 3, aborts |-> 1, chunks |-> 2, faults |-> OneOrRetried]
Roomy == [cap |-> 2, reqs |-> 2, aborts |-> 1, chunks |-> 2, faults |-> {<<"corrupt">>}]
Stumbling == [cap |-> 1, reqs |-> 3, aborts |-> 0, chunks |-> 3, faults |-> TwoInAStep]
AllWorlds == {Pressed, Roomy, Stumbling}

(* What the engine fails all requests for.                                 *)
OneFatal == {[cap |-> 1, reqs |-> 2, aborts |-> 1, chunks |-> 2, faults |-> {<<"fatal">>}]}

(* The generator is rebuilt while another request's cache is being stored. *)
OneReset == {[Roomy EXCEPT !.aborts = 0]}

=============================================================================
