----------------------------- MODULE BranchData -----------------------------
(***************************************************************************)
(* The data of a BATCH or PARALLEL gateway: which items or variables each  *)
(* branch starts with, what the branches do to their own copies, and what  *)
(* the split makes of the copies when all branches are done                *)
(* (batch_gateway.go, parallel_gateway.go).                                *)
(*                                                                         *)
(* The variables of a workflow are an object variable and a list of items. *)
(* A value is the name of whoever wrote it: a branch, or Base.  An item is *)
(* an ID and its other fields; a branch is the number of its edge in the   *)
(* sorted order of the edge IDs, the order in which children are spawned   *)
(* and merged.  Modules Split and Regions model the children's lives and   *)
(* the graphs that they run.                                               *)
(***************************************************************************)
EXTENDS Integers, FiniteSets, Sequences, SequencesExt, Functions, TLC

CONSTANTS
    OutEdges,       \* the split's outgoing edges in the order of the definition
    Ids,            \* IDs of items
    FieldNames,     \* fields of the object and of an item
    OldField,       \* the field that all of them have before the split
    BaseLists,      \* the lists of items that the split may find, each a list of IDs
    DefaultMaxChildrenPerGateway,
    DefaultMaxBatchDepth,
    MaxWrites       \* bound: steps of all branches that change data

VARIABLES
    split,      \* the split: its kind, the conditions of its edges and its nesting depth
    base,       \* the variables before the split
    vars,       \* the variables of each branch that was spawned
    phase,      \* the split's progress
    joined,     \* the variables after the merge
    outputs,    \* the list that output_mapping collects from a batch's children
    writes      \* steps of the branches so far

branchVars == <<split, base, vars, phase, joined, outputs, writes>>

Branches == ToSet(OutEdges)
Base == 0
NoId == "no id"
Nothing == [obj |-> <<>>, items |-> <<>>]

\* Elements of a list, each where it is seen first.
Distinct(list) == FoldLeft(LAMBDA seen, x : IF Contains(seen, x) THEN seen ELSE Append(seen, x), <<>>, list)

IdsOf(items) == [n \in 1 .. Len(items) |-> items[n].id]

-----------------------------------------------------------------------------
(***************************************************************************)
(* Batch: each item goes to one branch.                                    *)
(***************************************************************************)

\* The first edge whose condition holds for the item, else the first edge without a
\* condition, else 0.
FirstEdge(i) ==
    LET hit == SelectInSeq(OutEdges, LAMBDA e : e \notin split.defaults /\ i \in split.cond[e])
        rest == SelectInSeq(OutEdges, LAMBDA e : e \in split.defaults)
    IN  IF hit # 0 THEN OutEdges[hit] ELSE IF rest # 0 THEN OutEdges[rest] ELSE 0

\* Every edge whose condition holds, as a parallel gateway would have it.
EveryEdge(items, e) == SelectSeq(items, LAMBDA it : it.id \in split.cond[e] \/ FirstEdge(it.id) = e)
partitionItems(items, e) == SelectSeq(items, LAMBDA it : FirstEdge(it.id) = e)

\* The checks before anything is spawned: distinct non-empty IDs, the nesting depth,
\* an edge for every item, and not too many partitions.
BatchRefused ==
    LET ids == IdsOf(base.items) IN
    \/ NoId \in ToSet(ids) \/ ~IsInjective(ids)
    \/ split.depth >= DefaultMaxBatchDepth
    \/ \E i \in ToSet(ids) : FirstEdge(i) = 0
    \/ Cardinality({FirstEdge(i) : i \in ToSet(ids)}) > DefaultMaxChildrenPerGateway

\* A branch starts with its items and with the variables that input_mapping names: here
\* the object.
batchChildVariables(e) == [obj |-> base.obj, items |-> partitionItems(base.items, e)]

SpawnedInOrder == SetToSortSeq(DOMAIN vars, <)
AllItems(order) == FlattenSeq([k \in 1 .. Len(order) |-> vars[order[k]].items])

\* The original list with the items that the branches return in place of the original
\* ones.  A branch's new items are not taken up.
collectAndMergeBatchResults ==
    LET returned == AllItems(SpawnedInOrder)
        at(i) == SelectInSeq(returned, LAMBDA it : it.id = i)
    IN  [n \in 1 .. Len(base.items) |->
            LET i == base.items[n].id IN IF at(i) # 0 THEN returned[at(i)] ELSE base.items[n]]

\* Items without an ID, or the same ID twice, refuse the merge.
BatchUnmergeable ==
    LET ids == IdsOf(AllItems(SpawnedInOrder)) IN NoId \in ToSet(ids) \/ ~IsInjective(ids)

\* The distinct values of a field of the children, in the order of the branches.
setBatchOutputs(order) ==
    Distinct(FlattenSeq([k \in 1 .. Len(order) |->
        LET obj == vars[order[k]].obj IN IF OldField \in DOMAIN obj THEN <<obj[OldField]>> ELSE <<>>]))

-----------------------------------------------------------------------------
(***************************************************************************)
(* Parallel: every branch has a copy of everything.                        *)
(***************************************************************************)

\* The edges whose condition holds for the variables before the split.
MatchedEdges == {e \in Branches : e \in split.defaults \/ split.cond[e] # {}}

\* A later copy of an item replaces the earlier one.
ReplaceItemsByID(lists) ==
    LET all == FlattenSeq(lists)
        order == Distinct(IdsOf(all))
    IN  [n \in 1 .. Len(order) |-> all[SelectLastInSeq(all, LAMBDA it : it.id = order[n])]]

\* The items of all lists, by ID: the fields of a later copy over those of an earlier one.
mergeItemsByID(lists) ==
    LET all == FlattenSeq(lists)
        order == Distinct(IdsOf(all))
        copies(i) == SelectSeq(all, LAMBDA it : it.id = i)
    IN  [n \in 1 .. Len(order) |->
            [id |-> order[n],
             fields |-> FoldLeft(LAMBDA acc, it : it.fields @@ acc, <<>>, copies(order[n]))]]

\* The object: each key of the source over that of the destination.
mergeVariablesInto(dst, src) == src @@ dst

mergeParallelBranches(order) ==
    [obj |-> FoldLeft(LAMBDA acc, b : mergeVariablesInto(acc, vars[b].obj), base.obj, order),
     items |-> mergeItemsByID(<<base.items>> \o [k \in 1 .. Len(order) |-> vars[order[k]].items])]

ParallelUnmergeable == \E b \in DOMAIN vars : NoId \in ToSet(IdsOf(vars[b].items))

-----------------------------------------------------------------------------
(***************************************************************************)
(* The split, its branches and the join.                                   *)
(***************************************************************************)
Fields == UNION {[F -> {Base} \cup Branches] : F \in SUBSET FieldNames}
Variables(v) ==
    /\ v.obj \in Fields
    /\ \A n \in 1 .. Len(v.items) : v.items[n].id \in Ids \cup {NoId} /\ v.items[n].fields \in Fields

BranchInit ==
    /\ split \in [kind : {"BATCH"}, cond : [Branches -> SUBSET Ids],
                  defaults : {{}, {Len(OutEdges)}}, depth : {0, DefaultMaxBatchDepth}]
            \cup [kind : {"PARALLEL"}, cond : [Branches -> {{}, Ids}],
                  defaults : {{}, {Len(OutEdges)}}, depth : {0}]
    /\ \E list \in BaseLists :
          base = [obj |-> (OldField :> Base),
                  items |-> [n \in 1 .. Len(list) |-> [id |-> list[n], fields |-> (OldField :> Base)]]]
    /\ vars = <<>>
    /\ phase = "ready"
    /\ joined = Nothing
    /\ outputs = <<>>
    /\ writes = 0

\* The split refuses its data, or the condition of an edge cannot be evaluated.
SplitParks ==
    /\ phase = "ready"
    /\ split.kind = "BATCH" => base.items # <<>>
    /\ phase' = "parked"
    /\ UNCHANGED <<split, base, vars, joined, outputs, writes>>

\* A split with nothing to run goes on past its join, with what it found.
PassThrough ==
    /\ phase' = "joined"
    /\ joined' = base
    /\ UNCHANGED <<split, base, vars, outputs, writes>>

handleBatchSplitGateway ==
    /\ phase = "ready"
    /\ split.kind = "BATCH"
    /\ IF base.items = <<>> THEN PassThrough
       ELSE /\ ~BatchRefused
            /\ vars' = [e \in {FirstEdge(base.items[n].id) : n \in 1 .. Len(base.items)} |->
                            batchChildVariables(e)]
            /\ phase' = "running"
            /\ UNCHANGED <<split, base, joined, outputs, writes>>

handleParallelSplitGateway ==
    /\ phase = "ready"
    /\ split.kind = "PARALLEL"
    /\ IF MatchedEdges = {} THEN PassThrough
       ELSE /\ vars' = [e \in MatchedEdges |-> base]
            /\ phase' = "running"
            /\ UNCHANGED <<split, base, joined, outputs, writes>>

\* A step of branch b changes its own copy: a field of the object or of an item, or the
\* list.  The list is what a task wrote there, so that an ID may be missing or double.
BranchStep(b) ==
    /\ phase = "running"
    /\ b \in DOMAIN vars
    /\ writes < MaxWrites
    /\ writes' = writes + 1
    /\ LET v == vars[b] IN
       \/ \E k \in FieldNames : vars' = [vars EXCEPT ![b].obj = (k :> b) @@ @]
       \/ \E n \in 1 .. Len(v.items), k \in FieldNames :
             vars' = [vars EXCEPT ![b].items[n].fields = (k :> b) @@ @]
       \/ \E n \in 1 .. Len(v.items) : vars' = [vars EXCEPT ![b].items = RemoveAt(@, n)]
       \/ \E i \in Ids \cup {NoId} :
             vars' = [vars EXCEPT ![b].items = Append(@, [id |-> i, fields |-> (OldField :> b)])]
    /\ UNCHANGED <<split, base, phase, joined, outputs>>

\* All branches have completed.
BatchDone ==
    /\ phase = "running"
    /\ split.kind = "BATCH"
    /\ IF BatchUnmergeable
       THEN phase' = "parked" /\ UNCHANGED <<joined, outputs>>
       ELSE /\ phase' = "joined"
            /\ joined' = [base EXCEPT !.items = collectAndMergeBatchResults]
            /\ outputs' = setBatchOutputs(SpawnedInOrder)
    /\ UNCHANGED <<split, base, vars, writes>>

ParallelDone ==
    /\ phase = "running"
    /\ split.kind = "PARALLEL"
    /\ IF ParallelUnmergeable
       THEN phase' = "parked" /\ UNCHANGED joined
       ELSE phase' = "joined" /\ joined' = mergeParallelBranches(SpawnedInOrder)
    /\ UNCHANGED <<split, base, vars, outputs, writes>>

BranchNext ==
    \/ SplitParks \/ handleBatchSplitGateway \/ handleParallelSplitGateway
    \/ \E b \in Branches : BranchStep(b)
    \/ BatchDone \/ ParallelDone

BranchSpec == BranchInit /\ [][BranchNext]_branchVars

-----------------------------------------------------------------------------
(***************************************************************************)
(* Properties.                                                             *)
(***************************************************************************)

BranchTypeOK ==
    /\ Variables(base)
    /\ \A b \in DOMAIN vars : b \in Branches /\ Variables(vars[b])
    /\ phase \in {"ready", "parked", "running", "joined"}
    /\ Variables(joined)
    /\ outputs \in Seq({Base} \cup Branches)
    /\ writes \in 0 .. MaxWrites

\* A batch loses no item and invents none.  While its branches run every item is in the
\* care of exactly one of them; afterwards the list has the IDs that it had, in the order
\* that it had, each item as the one branch that returned it left it, or as it was
\* (handleBatchSplitGateway, partitionItems, collectAndMergeBatchResults).
BatchKeepsItems ==
    split.kind = "BATCH" =>
        /\ (phase = "running" /\ writes = 0) =>
              \A n \in 1 .. Len(base.items) :
                  Cardinality({b \in DOMAIN vars : base.items[n] \in ToSet(vars[b].items)}) = 1
        /\ phase = "joined" =>
              /\ IdsOf(joined.items) = IdsOf(base.items)
              /\ \A n \in 1 .. Len(joined.items) :
                    LET it == joined.items[n]
                        holders == {b \in DOMAIN vars : it.id \in ToSet(IdsOf(vars[b].items))}
                    IN  IF holders = {} THEN it = base.items[n]
                        ELSE \E b \in holders : holders = {b} /\ it \in ToSet(vars[b].items)
              /\ IsInjective(outputs)

\* What the branches left of one field, told from what the merge makes of it: copies holds
\* the branches' values where they have one, old the value before, new the value after.
FieldMerged(copies, old, new) ==
    LET wrote == {b \in DOMAIN copies : copies[b] = {b}}
        last == CHOOSE b \in DOMAIN copies : \A c \in DOMAIN copies : c <= b
    IN  /\ new = {} <=> (old = {} /\ \A b \in DOMAIN copies : copies[b] = {})
        /\ wrote = {} => new = old
        /\ last \in wrote => new = {last}
        /\ \A b \in wrote : (old = {} /\ wrote = {b}) => new = {b}

Value(fields, k) == IF k \in DOMAIN fields THEN {fields[k]} ELSE {}
ItemValue(items, i, k) == UNION {Value(it.fields, k) : it \in {x \in ToSet(items) : x.id = i}}

\* A parallel join loses no variable and no item.  Every ID that a branch holds is in the
\* list once; a field that no branch wrote is as it was; a field that one branch alone
\* introduced has its value; the last branch always has its way.  This is what is left of
\* "both survive" for branches that keep to field names of their own
\* (mergeParallelBranches, mergeItemsByID, mergeVariablesInto).
ParallelKeepsNewFields ==
    (split.kind = "PARALLEL" /\ phase = "joined" /\ vars # <<>>) =>
        /\ IsInjective(IdsOf(joined.items))
        /\ ToSet(IdsOf(joined.items)) =
              ToSet(IdsOf(base.items)) \cup UNION {ToSet(IdsOf(vars[b].items)) : b \in DOMAIN vars}
        /\ \A k \in FieldNames :
              FieldMerged([b \in DOMAIN vars |-> Value(vars[b].obj, k)], Value(base.obj, k), Value(joined.obj, k))
        /\ \A it \in ToSet(joined.items), k \in FieldNames :
              LET held == [b \in DOMAIN vars |-> ItemValue(vars[b].items, it.id, k)] IN
              (\A b \in DOMAIN vars : Cardinality(held[b]) <= 1) =>
                  FieldMerged(held, ItemValue(base.items, it.id, k), Value(it.fields, k))

\* "two branches changing different fields of the same object both survive": a field that
\* one branch alone changed has its value after the join (ParallelJoinConfig).
ChangedFieldsSurvive ==
    (split.kind = "PARALLEL" /\ phase = "joined" /\ vars # <<>>) =>
        \A k \in FieldNames, b \in DOMAIN vars :
            {c \in DOMAIN vars : Value(vars[c].obj, k) = {c}} = {b} => Value(joined.obj, k) = {b}

=============================================================================
