----------------------------- MODULE MCTaskFlow -----------------------------
(***************************************************************************)
(* Small instances of TaskFlow for TLC.                                    *)
(***************************************************************************)
EXTENDS TaskFlow, TLC

CONSTANTS c1, c2

MCKinds == {"FORM", "CALL", "END"}
MCFormKinds == {"FORM", "END"}
MCRouteKinds == {"FORM", "CALL", "GATEWAY", "END"}
MCCallers == {c1, c2}
MCOneCaller == {c1}
MCSymmetry == Permutations(MCCallers)

MCNoFaults == {}
MCLate == {"timeout"}
MCLateReads == {"timeout", "read"}
MCRaceFaults == {"write", "lost", "plugin", "rerun"}
MCReadFaults == {"read"}
MCLost == {"lost"}

MCNobody == {}
MCDrafter == {"drafter"}
MCAdmins == {"parker", "resolver"}
MCLateActors == {"drafter", "resolver"}
MCRaceActors == AllActors \ {"drafter"}

=============================================================================
