------------------------------- MODULE Regions -------------------------------
(***************************************************************************)
(* Which definitions with BATCH and PARALLEL gateways are accepted         *)
(* (batch_validate.go, parallel_validate.go), and the sub-graph that each  *)
(* branch of a split runs as a workflow of its own (extractSubGraph).  A   *)
(* child workflow validates its sub-graph again, so a definition can only  *)
(* be run if the sub-graphs of an accepted one are accepted.               *)
(*                                                                         *)
(* A definition is a directed graph of module Graphs: [node, edge].  Its   *)
(* nodes are listed one after the other, each with its outgoing edges, so  *)
(* that every definition over the nodes within the bound is a state.       *)
(***************************************************************************)
EXTENDS Integers, Sequences, FiniteSets, Functions, Graphs

CONSTANTS
    NodeOrder,      \* the nodes but START, in the order of the definition
    NodeTypes,      \* the types that each node may have, a function on the nodes
    JoinOf,         \* splits paired with their joins: gateway_node_id, read backwards
    MaxOut          \* bound: outgoing edges of a split (other nodes have one)

VARIABLES
    nodeType,   \* the type of each node
    listed,     \* the number of nodes listed
    edges       \* their edges

regionVars == <<nodeType, listed, edges>>

SplitTypes == {"BATCH_SPLIT", "PARALLEL_SPLIT"}
JoinTypeOf == [t \in SplitTypes |-> IF t = "BATCH_SPLIT" THEN "BATCH_JOIN" ELSE "PARALLEL_JOIN"]
START == "START"
SyntheticStart == "_batch_start"
SyntheticEnd == "_batch_end"
Nowhere == "no node"

\* The nodes that the edges of m lead to, and those whose edges lead to n.
Targets(def, m) == {e[2] : e \in {f \in def.edge : f[1] = m}}
Sources(def, n) == {e[1] : e \in {f \in def.edge : f[2] = n}}

\* The nodes reached from the set front without going through stop.  The walk ends
\* when nothing is added, and that takes no more rounds than there are nodes.
Closure(def, front, stop) ==
    LET inner == {e \in def.edge : e[2] # stop}
        R[k \in 0 .. Cardinality(def.node)] ==
            IF k = 0 THEN front \ {stop}
            ELSE LET near == R[k - 1] IN near \cup {e[2] : e \in {f \in inner : f[1] \in near}}
    IN  R[Cardinality(def.node)]

Typed(def, t) == {n \in def.node \ {START, SyntheticStart, SyntheticEnd} : nodeType[n] = t}
IsEnd(n) == IF n \in {START, SyntheticStart, SyntheticEnd} THEN n = SyntheticEnd ELSE nodeType[n] = "END"

-----------------------------------------------------------------------------
(***************************************************************************)
(* Validation.                                                             *)
(***************************************************************************)

\* The region of a split: what its branches reach before the join.
RegionOf(def, s) == Closure(def, {s}, JoinOf[s])

\* What leads to the join of s, the join included.
ReachesJoin(def, s) == Closure(Transpose(def), {JoinOf[s]}, Nowhere)

\* A nested split of the same kind has its join in the region.
NestedJoinAnywhere(def, s, n, region) == TRUE
NestedJoinInside(def, s, n, region) ==
    (n \in Typed(def, nodeType[s]) \ {s}) => JoinOf[n] \in region

\* No edge enters the region other than at its split.
EntersAtSplit(def, s, n, region) == n = s \/ Sources(def, n) \subseteq region

validateGatewayRegion(def, s) ==
    LET region == RegionOf(def, s) IN
    /\ \A n \in region : ~IsEnd(n) /\ Targets(def, n) # {}
    /\ region \subseteq ReachesJoin(def, s)
    /\ \A n \in region : NestedJoinInside(def, s, n, region) /\ EntersAtSplit(def, s, n, region)
    /\ Sources(def, JoinOf[s]) \subseteq region

\* Every join of the kind names a split of the kind, and every split has its join.
PairedOff(def, kind) ==
    LET splits == Typed(def, kind) IN
    /\ \A s \in splits : JoinOf[s] \in Typed(def, JoinTypeOf[kind])
    /\ \A j \in Typed(def, JoinTypeOf[kind]) : \E s \in splits : JoinOf[s] = j

ValidateBatchGateways(def) ==
    /\ PairedOff(def, "BATCH_SPLIT")
    /\ \A j \in Typed(def, "BATCH_JOIN") : Cardinality(Targets(def, j)) = 1
    /\ \A s \in Typed(def, "BATCH_SPLIT") : validateGatewayRegion(def, s)

ValidateParallelGateways(def) ==
    /\ PairedOff(def, "PARALLEL_SPLIT")
    /\ \A j \in Typed(def, "PARALLEL_JOIN") : Cardinality(Targets(def, j)) <= 1
    /\ \A s \in Typed(def, "PARALLEL_SPLIT") : validateGatewayRegion(def, s)

\* What GraphInterpreterWorkflow asks of a definition before it runs it.
Accepted(def) == ValidateBatchGateways(def) /\ ValidateParallelGateways(def)

-----------------------------------------------------------------------------
(***************************************************************************)
(* The sub-graph of a branch.                                              *)
(***************************************************************************)

\* Edges to the join lead to the synthetic END instead.
Redirected(def, m, n, stop) == IF n = stop THEN SyntheticEnd ELSE n

extractSubGraph(def, start, stop) ==
    LET reachable == Closure(def, {start}, stop)
        entry == IF start = stop THEN SyntheticEnd ELSE start
    IN  [node |-> reachable \cup {SyntheticStart, SyntheticEnd},
         edge |-> {<<SyntheticStart, entry>>} \cup
                  {<<e[1], Redirected(def, e[1], e[2], stop)>> :
                      e \in {f \in def.edge : f[1] \in reachable
                                              /\ f[2] \in reachable \cup {stop}}}]

-----------------------------------------------------------------------------
(***************************************************************************)
(* The definitions.                                                        *)
(***************************************************************************)
Definition == [node |-> {START} \cup Range(NodeOrder), edge |-> edges]

\* Whether every node has been listed.
Complete == listed = Len(NodeOrder)

RegionTypeOK ==
    /\ nodeType \in [Range(NodeOrder) -> UNION Range(NodeTypes)]
    /\ \A n \in Range(NodeOrder) : nodeType[n] \in NodeTypes[n]
    /\ listed \in 0 .. Len(NodeOrder)
    /\ edges \subseteq ({START} \cup {NodeOrder[k] : k \in 1 .. listed}) \X Range(NodeOrder)

RegionInit ==
    /\ nodeType \in [Range(NodeOrder) -> UNION Range(NodeTypes)]
    /\ \A n \in Range(NodeOrder) : nodeType[n] \in NodeTypes[n]
    /\ \A s \in DOMAIN JoinOf : nodeType[JoinOf[s]] = JoinTypeOf[nodeType[s]]
    /\ listed = 0
    /\ edges = {<<START, NodeOrder[1]>>}

\* The author of the definition gives the next node its outgoing edges.  A node other
\* than a split follows one edge only, and none leaves END.
ListNode(targets) ==
    LET n == NodeOrder[listed + 1] IN
    /\ ~Complete
    /\ n \notin targets
    /\ Cardinality(targets) <= (IF nodeType[n] \in SplitTypes THEN MaxOut
                                ELSE IF IsEnd(n) THEN 0 ELSE 1)
    /\ edges' = edges \cup ({n} \X targets)
    /\ listed' = listed + 1
    /\ UNCHANGED nodeType

RegionNext == \E targets \in SUBSET Range(NodeOrder) : ListNode(targets)

RegionSpec == RegionInit /\ [][RegionNext]_regionVars

-----------------------------------------------------------------------------
(***************************************************************************)
(* Properties.                                                             *)
(***************************************************************************)

\* The splits that the walk from START meets.
Splits(def) ==
    {s \in UNION {Typed(def, t) : t \in SplitTypes} :
        s \in Closure(def, {START}, Nowhere)}

\* Regions of different kinds nest too, and none loops back to its own split: the
\* two things that validateGatewayRegion leaves to the author of a definition.
WellNested(def) ==
    \A s \in Splits(def) :
        /\ \A n \in RegionOf(def, s) \cap Splits(def) :
              nodeType[n] # nodeType[s] => JoinOf[n] \in RegionOf(def, s)
        /\ s \notin Closure(def, Targets(def, s), JoinOf[s])

\* The branches of an accepted definition can be run.  Each sub-graph is accepted by
\* the child that runs it, has neither the split nor the join of its branch, keeps
\* every edge of its nodes, and from each of its nodes its END is reached
\* (extractSubGraph: "so it's a valid WorkflowDefinition").
BranchesCanRun ==
    Complete /\ Accepted(Definition) /\ WellNested(Definition) =>
        \A s \in Splits(Definition) : \A x \in Targets(Definition, s) :
            LET sub == extractSubGraph(Definition, x, JoinOf[s]) IN
            /\ IsDirectedGraph(sub)
            /\ Accepted(sub)
            /\ {s, JoinOf[s]} \cap sub.node = {}
            /\ sub.node = Closure(Transpose(sub), {SyntheticEnd}, Nowhere)
            /\ \A n \in sub.node \ {SyntheticStart, SyntheticEnd} :
                  Cardinality(Targets(sub, n)) = Cardinality(Targets(Definition, n))

=============================================================================
