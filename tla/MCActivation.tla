---------------------------- MODULE MCActivation ----------------------------
(***************************************************************************)
(* Small instances of Activation for TLC.  The engine does not tell a CALL *)
(* from a FORM, so one kind of TASK stands for both.                       *)
(***************************************************************************)
EXTENDS Activation, TLC

CONSTANTS c1, c2

MCKinds == {"FORM", "GATEWAY", "TIMER", "END"}
MCCallers == {c1, c2}
MCSymmetry == Permutations(MCCallers)

=============================================================================
