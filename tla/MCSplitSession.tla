--------------------------- MODULE MCSplitSession ---------------------------
(* Model values for TLC.                                                   *)
EXTENDS SplitSession

TwoTokens == <<"a", "b">>

=============================================================================
