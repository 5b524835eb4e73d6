\* Definitions with two gateways, and the data of one gateway with three branches.
SPECIFICATION MCSpec
CONSTANTS
    NodeOrder <- MCNodes
    NodeTypes <- MCNodeTypes
    JoinOf <- MCJoinOf
    MaxOut = 2
    OutEdges <- MCOutEdges
    Ids = {"a", "b", "c"}
    FieldNames = {"f", "g"}
    OldField = "f"
    BaseLists <- MCBaseLists
    DefaultMaxChildrenPerGateway = 2
    DefaultMaxBatchDepth = 4
    MaxWrites = 2
INVARIANTS
    BranchesCanRun
    BatchKeepsItems
    ParallelKeepsNewFields
\* A definition is complete and a split is done: nothing is left to do.
CHECK_DEADLOCK FALSE
