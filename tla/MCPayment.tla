------------------------------ MODULE MCPayment ------------------------------
(***************************************************************************)
(* Small instances of Payment for TLC.                                     *)
(***************************************************************************)
EXTENDS Payment, TLC

CONSTANTS k1, k2, r1, r2, h1, h2

MCTwoCheckouts == {k1, k2}
MCOneCheckout == {k1}
MCTwoRefs == {r1, r2}
MCOneRef == {r1}
MCOffered == (k1 :> {r1}) @@ (k2 :> {r1, r2})
MCOfferedOne == (k1 :> {r1})
MCHandlers == {h1, h2}
MCAllFaults == AllFaults
MCAdvanceFaults == {"advance"}
MCNoFaults == {}

=============================================================================
