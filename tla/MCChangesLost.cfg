\* The data of one gateway with three branches.
SPECIFICATION MCSpec
CONSTANTS
    NodeOrder <- MCNodes
    NodeTypes <- MCNodeTypes
    JoinOf <- MCJoinOf
    MaxOut = 2
    OutEdges <- MCOutEdges
    Ids = {"a", "b", "c"}
    FieldNames = {"f", "g"}
    OldField = "f"
    BaseLists <- MCBaseLists
    DefaultMaxChildrenPerGateway = 2
    DefaultMaxBatchDepth = 4
    MaxWrites = 2
INVARIANT ChangedFieldsSurvive
CHECK_DEADLOCK FALSE
