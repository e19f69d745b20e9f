--------------------------- MODULE MCPrefillGate ---------------------------
(* Model values for TLC: see PrefillGate.cfg.                              *)
EXTENDS PrefillGate

=============================================================================
