------------------------------ MODULE MCSplit ------------------------------
(***************************************************************************)
(* Splits of every kind with two branches, visited up to three times.      *)
(***************************************************************************)
EXTENDS Split

\* A definition may leave failure_mode out.
MCModes == {"GATEWAY", "FAIL_FAST", "COLLECT_ALL", ""}

=============================================================================
