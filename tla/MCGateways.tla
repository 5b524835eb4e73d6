----------------------------- MODULE MCGateways -----------------------------
(***************************************************************************)
(* Gateways: all definitions over two splits, their joins and a task, and  *)
(* all data of a split with three branches.  The two modules share no      *)
(* variable, so a behaviour is one of the first or one of the second, with *)
(* the other at rest.                                                      *)
(***************************************************************************)
EXTENDS Regions, BranchData

MCNodes == <<"s1", "j1", "s2", "j2", "t", "end">>

MCNodeTypes ==
    [s1 |-> SplitTypes, s2 |-> SplitTypes, j1 |-> Range(JoinTypeOf), j2 |-> Range(JoinTypeOf),
     t |-> {"TASK"}, end |-> {"END"}]

MCJoinOf == [s1 |-> "j1", s2 |-> "j2"]

\* Edge 2 is tested before edge 1, and edge 3 may be the default.
MCOutEdges == <<2, 1, 3>>

\* No items, two, two with one ID, and three.
MCBaseLists == {<<>>, <<"b", "a">>, <<"a", "a">>, <<"c", "a", "b">>}

RegionsAtRest ==
    /\ nodeType = [s1 |-> "BATCH_SPLIT", j1 |-> "BATCH_JOIN", s2 |-> "BATCH_SPLIT", j2 |-> "BATCH_JOIN",
                   t |-> "TASK", end |-> "END"]
    /\ listed = Len(NodeOrder)
    /\ edges = {}

BranchesAtRest ==
    /\ split = [kind |-> "NONE"]
    /\ base = Nothing
    /\ vars = <<>>
    /\ phase = "parked"
    /\ joined = Nothing
    /\ outputs = <<>>
    /\ writes = 0

MCInit == (RegionInit /\ BranchesAtRest) \/ (RegionsAtRest /\ BranchInit)

MCNext ==
    \/ RegionNext /\ UNCHANGED branchVars
    \/ BranchNext /\ UNCHANGED regionVars

MCSpec == MCInit /\ [][MCNext]_<<regionVars, branchVars>>

=============================================================================
