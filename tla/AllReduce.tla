----------------------------- MODULE AllReduce ------------------------------
(***************************************************************************)
(* What an in-place all-reduce of two ranks promises: in each round both   *)
(* ranks give a partial tensor, and each gets back the sum of the two      *)
(* partials of that same round, not before the other has given its own.    *)
(* A value names the round it is of and the ranks whose partials are in    *)
(* it; a tensor has two halves, one per rank.                              *)
(***************************************************************************)
EXTENDS Integers

CONSTANT MaxRounds   (* bound: rounds a rank takes part in *)

VARIABLES given, taken, result   \* per rank: rounds begun, rounds ended, the last tensor

Ranks == {0, 1}
Sum(n) == [round |-> n, ranks |-> Ranks]

Init ==
  /\ given = [r \in Ranks |-> 0] /\ taken = [r \in Ranks |-> 0]
  /\ result = [r \in Ranks |-> [h \in Ranks |-> Sum(0)]]

Give(r) ==
  /\ given[r] = taken[r] /\ given[r] < MaxRounds
  /\ given' = [given EXCEPT ![r] = @ + 1]
  /\ UNCHANGED <<taken, result>>

Take(r) ==
  /\ taken[r] < given[r]
  /\ given[1 - r] >= given[r]
  /\ taken' = [taken EXCEPT ![r] = given[r]]
  /\ result' = [result EXCEPT ![r] = [h \in Ranks |-> Sum(given[r])]]
  /\ UNCHANGED given

Next == \E r \in Ranks : Give(r) \/ Take(r)

Spec == Init /\ [][Next]_<<given, taken, result>>

=============================================================================
