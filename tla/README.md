# Verification of nsw-core in TLA+

nsw-core is a set of Go packages for running cases: a graph-interpreter workflow engine on
Temporal (`workflow/`), a task layer on top of it (`taskflow/`), and services that tasks use
(payments, remote calls, reference IDs, artifacts, storage, authentication, documents).
This directory holds TLA+ specifications of the parts in which several actors share state or
whose algorithms are hard to test, the TLC models that check them on small instances, and
proofs checked by TLAPS.

To run: `tlc -config MCSplit.cfg MCSplit` (each configuration names its module in section 4),
and `tlapm RendezvousProofs.tla` (likewise for each `*Proofs.tla`).

## 1. Inventory

| Component | State it keeps | What makes it correct | Modules |
|---|---|---|---|
| **Engine, steps** (`workflow/workflow.go`, `completion.go`, `admin_recovery.go`, `activities.go`, `manager.go`) | per workflow: run counter, variables, `pendingCompletions`, `pendingAdminResolutions` | a step takes one answer, only while it waits; a resolution reaches the run it was sent for; both take effect | `Activation`, `ActivationOnce` |
| **Engine, splits** (`parallel_gateway.go`, `batch_gateway.go`, `dynamic_split.go`) | child workflows and their results | a split is passed with the results of all its branches; items and fields survive the merge | `Split`, `BranchData` |
| **Engine, signaling** (`signaling.go`) | undelivered signals | a rendezvous holds every branch until all have come, and then opens | `Split` |
| **Definition validation** (`parallel_validate.go`, `batch_validate.go`, `dsl.go`) | none | the sub-graphs of what is accepted can be run | `Regions` |
| **Task store** (`taskflow/store`) | the task row | the row never rewinds; a cancelled task stays cancelled, and a completed one completed, as long as its workflow runs once | `TaskStore` |
| **Task orchestrator** (`taskflow/orchestrator`) | none of its own: it ties the row, the workflow and the parent's step | the row shows what the workflow accepted; a suspended step can be reached; the parent is woken exactly for tasks that ended | `TaskFlow` |
| **Task claims** (`orchestrator/claim.go`) | claimant on the row | one claimant at a time; a call gives up only after real contention | `TaskClaim` |
| **Payment** (`payment/`) | the transaction row | a settled transaction stays settled, but for its own checkout, and advances its task once per settlement | `Payment` |
| **Artifacts** (`artifact/`) | loaded manifests, back-off, file cache | a published version is found; explicit versions keep their file; the cache keeps within its bytes | `Artifacts` |
| **Reference IDs** (`refid/`) | counters and reserved values | no ID twice; no value of a store is used up for nothing | `RefId` |
| **Remote services** (`remote/`) | service table, client cache, token | no call uses a replaced configuration; tokens live until they arrive; bodies are closed | `Remote` |
| **Storage** (`storage/`) | files of the local disk | what is stored is what the last writer was told | `Storage` |
| **Authentication** (`authn/`) | cached keys | a published key is found, a withdrawn one runs out; the principal is usable | `Authn` |
| **Plugins, renderer, callback tokens; notification; authz** | none | host-supplied, or a lookup | not modelled |
| **htmlgen, xmlgen, uiprojector, json, pagination, shared** | none | formatting | not modelled |
| **telemetry, trace, temporal, database, cors, httputil, configyaml, secret** | none | set-up of libraries, I/O | not modelled |

How they interact. A parent workflow's TASK node runs the Activity StartTask, which inserts the
task row and starts the task's own workflow, and suspends. Each TASK node of the task workflow
runs StartTaskStep, which claims the row, runs a plugin and writes what the step shows; a step
that needs somebody suspends. CompleteTaskStep (from a user, a callback or a payment webhook)
completes the step through an Update of the workflow and then writes the row. A parking runs
HoldTask. END runs HandleTaskCompletion, which closes the row and completes the parent's step.
Splits run sub-graphs or templates as child workflows, which signal each other through their
parent. Each of these is several calls, on a database and on Temporal, that fail, are retried,
outlive their timeouts and interleave. Around the workflows, artifacts deliver the definitions,
and steps use reference IDs, remote services, files and payments; these share nothing with one
another but the host.

The behaviours that are hard to test are listed under `hazards` in `PROJECT.json`, each with its
line and the properties that cover it.

## 2. Plan

Everything that the first plan named is modelled: the engine and the task layer, payments, claims,
splits with their signals, the pure algorithms of the gateways, artifacts, reference IDs, remote
services; storage and authentication were added to it. What could follow:

1. Proofs of the safety properties that are only model-checked (section 6): `IdsAreDistinct`, and
   the algorithms of the gateways.
2. `Split` composed with `Activation` as its children. The children are an abstraction of it today:
   a child suspends, parks, is resolved, ends.
3. The mapping checks of a batch (`validateBatchSplitMappings`).

## 3. Modules

### ActivationOnce: the promise

Each step is `none`, `open`, `answered` or `closed`, and has at most one answer. A step opens
once, is answered only while open, and closes for good. This is what a host may rely on.

### Activation: one workflow

| Model | Code |
|---|---|
| `seq`, `kind`, `phase` | `graphInterpreter.seq`, the node that runs, where it waits |
| `pending`, `future` | `pendingCompletions` and the Settable of each step |
| `parked`, `resolution`, `notice` | `pendingAdminResolutions`, the received signal, the park Activity |
| `signals` | AdminResolutionSignals on their way |
| `outcome`, `parking` | history: how a step ended, how many parkings there were |
| `Dispatch`, `MoveOn` | `executeNode`, `handleTaskNode` up to its first wait, `transitionTo` |
| `ActivitySucceeds`, `ActivitySuspends`, `ActivityFails`, `ResumeSuspended` | the rest of `handleTaskNode` |
| `CompleteActivation`, `ForceParkActivation` | the two Update handlers with their validators |
| `RouteNode`, `EndSucceeds`, `EndFails` | gateways and timers, `handleEndNode` |
| `AdminSignal`, `NoticeReturns`, `Resolve*` | the dispatcher, `notifyAdminPark`, `parkNodeForAdmin` |
| `RunForgotten` (only in `TaskFlow`) | a new run under the ID of a workflow that has closed |

Temporal runs workflow code on one cooperative thread, so an action is the code from one wait to
the next. The graph is left open: any kind of node may follow any other, which includes every
loop. Variables are abstracted to whether a mapping of inputs or outputs succeeds.

### TaskStore, TaskFlow: one task

`TaskStore` has one guard and one result per UPDATE statement of the gorm store. `TaskFlow`
extends `Activation` with the row, the attempts of each Activity, the calls from outside and the
parent's step. Every handler is split at each read, each write and each call, so the other
actors come between. `Schedules` ties the two levels: a new activation starts the first attempt
of its Activity, and a parking starts its notification.

`Faults` chooses what may fail: `timeout` (an attempt outlives its timeout and goes on beside
the next one), `lost` (the call is carried out and its answer is not received), `read`, `write`,
`plugin` and `rerun`. A crash is an attempt that takes no further step. `Actors` chooses who takes
part. The `data` column is abstracted to its last writer, and the states that plugins show to
`SHOWING`.

`rerun` is a StartTask that is run again after the task's workflow has closed. The start names no
policy on the reuse of IDs, so Temporal starts a second run under the same ID, which counts its
steps from 1 again while the row keeps the version that the first run left
(`StartTaskFindsClosed`, variable `rerun`). Its nodes are chosen afresh, which allows more than
the definition does. It happens once in a behaviour, and when the attempts and notifications of
the closed run are over.

### TaskClaim: claims of a task

ClaimTask and ReleaseTask are loops of a guarded UPDATE and, when it matched no row, a read that
says why. Calls interleave between the two with each other and with the end of the task. The
history field `seen` counts the changes of the row until a call began. Errors of the database
end a call at either statement.

### Split: a node with child workflows

One node of a parent: a SPLIT_TASK in each of its failure modes, or a BATCH or PARALLEL gateway
(`mode`). `future` is what the parent knows of a child of this visit, `child` the execution that
last ran under the branch's workflow ID, which is the same on every visit. Children suspend,
park, are resolved, fail, are cancelled and are terminated with their parent. The node is run
again by RETRY and by loops; a start is refused while an execution with the same ID is open.

The branches of a SPLIT_TASK run the rendezvous that `workflow/README.md` shows: EMIT, then one
WAIT per sibling. Broadcasts pass through the parent's channel (`inbox`), which outlives a visit.
The parent sends a signal to each other child (`due`), which arrives later (`got`) and waits there
for a WAIT. A WAIT takes its signal and then applies its output mapping, which may fail and park
the node: a RETRY of it discards the signal that it took and waits for another, a COMPLETE goes on
to the next node (`ChildWaitCompleted`). A signal or a cancellation that was sent to an execution
is lost if this closes first. The code addresses them by workflow ID alone
(`dynamic_split.go:293`, `341`), and the model takes Temporal to have settled them before a later
execution under the same ID begins.

### BranchData: what the branches work on

The data of one gateway: partition of the items by the conditions of the edges (BATCH), copies of
all variables (PARALLEL), steps of the branches that change fields, drop items, repeat or lose an
ID, and the merge at the join. A value is the name of whoever wrote it, which is all that the
merges tell apart. Branches are numbered in the order of their edge IDs, in which the code spawns
and merges them.

### Regions: which definitions are accepted

The validation of pairs and regions and the extraction of sub-graphs as operators over a directed
graph, checked over every definition with the nodes and edges of the model, listed node by node.

### Payment: the payments of one step

| Model | Code |
|---|---|
| `status` | the status column of each transaction row |
| `checkout` | where each call of `CreateCheckoutSession` is: insert, call of the gateway, save or mark as failed |
| `session`, `notes` | external: the gateway's sessions, and the reports it still has to deliver |
| `handler` | each request that `ProcessWebhook` serves: the locked transaction, then the completion of the step |
| `step` | the step behind the callback token: open, taken by others, or told a status of a reference |
| `earned` | history: how often a reference earned the right to advance its step |
| `overwritten` | history: the references whose checkout saved its copy over a settled row |

The database transaction of a webhook is one action, since it holds the row's lock from its read
to its write; the save of a checkout is a single UPDATE of all columns and waits for that lock.
A report is repeated until it is answered with success or refused for good (404, 422), as
`HandleWebhook` asks of the gateway. The step is the promise of `ActivationOnce` reduced to one
step. A gateway may report on a session before the checkout has saved its row, which
`CreateCheckoutSession` expects ("races the response"). `Offered` are the references that the
host's generator may give to each checkout, `Repeated` those whose payment the gateway is bound to
report until it is answered.

### Artifacts: manifests and files

`set` is the Set with its views and explicit versions, `look` the callers: a lookup that is not
answered from the set waits for the single probe slot, fetches without the lock and installs under
it. The back-off after a fruitless probe is what is left of it. `cache` is the list of files in
order of use. The source (a directory, GitHub) may fail at each manifest, `MaxFaults` times.

### RefId: reference IDs

`NewRegistry` compiles a configuration and refuses it as a whole. `Generate` reads the clock once
and renders segment by segment. Each statement of the two stores is one action, and its answer may
be lost. `issued` keeps, of every call that returned, its ID and what it took from the stores. Since
the question is whether two IDs can be equal once their parts are joined, texts are sequences of
characters here, and dates and counters are rendered to digits. Counters have base `Radix`, so that
they overflow within the bounds.

### Storage: files on the local disk

The service, its HTTP handlers and `LocalFSDriver`. Requests interleave between system calls:
create, each block, the end of the copy, the `.meta` file, the two removals of a delete. A file that
was opened and then removed goes on to take writes that the key no longer shows (`ino`). A removal
may itself fail, after which part of the file is left (`Left`). An error of `Close` is ignored, as
the code ignores it. A crash cuts everything that is under way. A signed URL is a record, and
verifies if it was issued.

### Remote: calls of remote services

`services` is the registered configuration, numbered by the reload that brought it (`gen`);
`client` the cached client; `auths` the OAuth2 authenticator of each configuration with its token
and mutex; `caller` the calls, with their retries and back-off; `open` the response bodies that
are not closed. A token carries its real remaining lifetime beside the one that the code computes
when the answer arrives. Time does not pass a timeout of a request that is under way.

### Authn: bearer tokens

The first half is a set of operators: validation of the declared claims, extraction and the
accessor. The second is the key cache: the read lock, the queue for the write lock, a fetch with
its timeout, and the forced refresh for an unknown key, against an identity provider that
publishes and withdraws keys. Signatures are a match of key IDs.

### MC modules

Modules that share no state are checked by one run (`MCGateways`, `MCStores`, `MCCalls`): a
behaviour is one of one of the modules, with the others at rest, so the state spaces add up and do
not multiply.

## 4. Runs

Every bound is a constant of the module. Deadlock is not checked, since a workflow that has ended,
or bounded calls that have all been made, take no step.

| Run | Configuration (module) | Shows |
|---|---|---|
| `activation` | `MCActivation.cfg` (`MCActivation`) | the engine's invariant, routing of resolutions, and the refinement of `ActivationOnce`, with two callers and two signals on their way |
| `task_late` | `MCTaskFlowLate.cfg` (`MCTaskFlow`) | attempts that outlive their timeouts, failing reads: the row does not rewind, a submission is kept, a suspended step can be reached |
| `task_race` | `MCTaskFlowRace.cfg` (`MCTaskFlow`) | two submitters, force-parks and a cancellation, while writes, plugins and answers fail and StartTask is run again after the workflow has closed: the row has the accepted submission, a closed task stays closed, a cancelled task wakes nobody, no completion is reported without a woken parent |
| `task_live` | `MCTaskFlowLive.cfg` (`MCTaskFlow`) | answers and resolutions take effect; a task at its END settles; a RETRY takes a task off hold |
| `payment` | `MCPayment.cfg` (`MCPayment`) | two checkouts, two references and two requests at a time, under every failure, with reports that overtake the checkout: a settlement is undone by nobody but its own checkout and advances the step once, and a reported payment is settled in the end |
| `gateways` | `MCGateways.cfg` (`MCGateways`) | sub-graphs of accepted, well-nested definitions are accepted and reach their END (`BranchesCanRun`); a batch gives each item to one branch and gets it back in its place (`BatchKeepsItems`); what a parallel branch adds reaches the join (`ParallelKeepsNewFields`) |
| `split` | `MCSplit.cfg` (`MCSplit`) | the parent knows its own children (`SplitInv`); a split is passed only with the results of all branches of its own visit (`CompletedIsWhole`); the rendezvous holds and opens |
| `stores` | `MCStores.cfg` (`MCStores`) | claims pass by their release, and a call gives up only after as many changes as attempts; IDs are distinct, nothing in a store is orphaned; files are what the last writer was told |
| `calls` | `MCCalls.cfg` (`MCCalls`) | calls use a configuration at least as new as they are, tokens live until they arrive, bodies are closed; published keys are found, withdrawn ones run out, principals are usable |
| `artifacts` | `MCArtifacts.cfg` (`MCArtifacts`) | manifests agree on explicit versions, the cache holds each file once, counts right and is bounded, a published manifest is found in the end |
| `accepted_lost`, `changes_lost` | `MCAcceptedLost.cfg` (`MCTaskFlow`), `MCChangesLost.cfg` (`MCGateways`) | two departures from the comments, below |

Bounds, and why they are enough:

- `MaxSeq = 4`: a workflow has two nodes and an END, or a node, its retry and an END, which lets a
  late write of one step meet the next one. `MaxAttempts = 2` is the least with which an attempt
  that was given up overlaps its successor. With two submitters one of them is refused. Callers
  are symmetric in the runs without liveness. `task_race` (1 million states) has `MaxSeq = 3` and
  no drafts, for the sake of the second run: a step and its END in each run, or a step, its retry
  and an END. Drafts are in `task_late`.
- `gateways` (1.2 million states): two splits with their joins, a task and an END, of both kinds,
  with every way to connect them: two regions can be nested, disjoint, overlapping or looping.
  Three branches and two writes let two branches collide and a third be merged after them.
- `split` (290 thousand): two branches, each waiting for the other, and three visits, so that a
  child of the first visit can be in the way of the second and its broadcasts in that of the third.
- `stores` (830 thousand): `claimAttempts` is the code's 3, with five changes of the row. Two
  counters' days, two timezones, `Radix = 3` with one digit, which overflows with the third ID.
  Two writers and readers of one key, with files of up to two blocks and one beyond the limit.
- `calls` (440 thousand): two calls and two reloads; `buffer` is just the two timeouts together, as
  `TokenLivesToArrive` needs it to be at least, and a token lives two ticks longer. Two keys, one of
  which does not parse, with a lifetime of two ticks and a fetch of one.
- `payment` (420 thousand): with two checkouts one step has two payments, which may be reported
  differently; two requests that are served at a time, while another report is on its way, let a
  repeated report overtake its first delivery, and a delivery the save of its own checkout. Only
  the reference that both checkouts may be given is `Repeated`: what is said of the other is no
  more than that, with a single checkout.
- `artifacts` (110 thousand): two callers at a time, four repositories that cover growth, a
  malformed manifest, a moved explicit version and the unversioned fallback; the cache takes two
  of its files together and the third not at all.

What the properties assume of the environment:

- `EndReportedWakesParent` is said where reads do not fail, and `CancelledNeverWakes` where
  neither reads fail nor attempts outlive their timeouts, because with these faults they do not
  hold: see `MCReadErrorEnds.cfg` below for the first. The second fails when the read that follows
  a `CompleteTask` without effect fails (`manager.go:407`), and when a completion that was given up
  still wakes the parent after the row was cancelled, while `manager.go:565` says that the parent
  "keeps waiting".
- `CancelledNeverWakes`, `PersistedIsAccepted`, `SubmissionKept`, `SuspendedIsAddressable` and what
  `ClosedIsFinal` says of completed tasks are about the first run of a workflow (`~rerun`). In a
  second run they fail, see below. `RowNeverRewinds`, `EndReportedWakesParent` and what
  `ClosedIsFinal` says of cancelled tasks hold in every run.
- `EarnedPerSettlement`, `StepToldTheRow`, `SettledIsFinal` and `PaymentSettles` allow for a checkout
  that saves its copy over a settled row (`overwritten`), which happens at most once to a reference;
  `MCPaymentSettledTwice.cfg` shows it.
- `BranchesCanRun` is about definitions that are `WellNested`. `validateGatewayRegion` looks for
  the joins of nested splits of the same kind only, and lets a region lead back to its own split;
  then `extractSubGraph` does not give "a valid WorkflowDefinition" (`batch_gateway.go:478`).
- `RendezvousHolds` is about visits that begin with an empty channel and no child open (`clean`).
  It also shows that every visit of a split does, unless it fails fast: FAIL_FAST parks the node
  with broadcasts still in the channel, and a retry hands them to the new children.
- `RendezvousOpens` is about a split that still listens (`awaiting`) and has received the broadcasts
  of all branches of its visit. It excepts a branch that parked in a WAIT with its signal taken: a
  RETRY discards it, and the siblings do not broadcast again (`HasDiscarded`).
- `IdsAreDistinct` is about formats that `CoversItsScope`: what the scope key depends on is in the
  ID, dates are padded, at most one segment is a parameter. The registry checks none of these.
- `StoredAsAnswered` leaves out keys whose writers overlapped or were cut by a crash. A caller whose
  write or removal failed was not told what is there: the file is then absent or a part of the
  write, and never anything else.
- `TokenLivesToArrive` asks for a buffer that covers both timeouts. The code's minute does, for the
  default timeouts of 10 and 30 seconds; a service configured with more than 50 seconds is outside.
  `RemoteAssumption` takes the timeout of a service as a number of ticks, of which 0 is none
  configured; a service that is configured with "0s", which the HTTP client takes for no timeout at
  all, is outside too.
- `AcceptedKeyIsRecent` needs a fetch that is given up before the cache is too old
  (`TimesAssumption`). The cache lasts five minutes (`token_parser.go:108`), and both clients that
  the package makes give up after ten seconds (`token_parser.go:139`, `manager.go:50`); a host that
  supplies its own client to `NewTokenExtractorWithClient` has to see to it. `ClaimsAssumption` only
  says which form the claims of tokens and the names of claims have.

### Where the code departs from its comments

Two have a run that TLC must find violated, and an entry under `findings`:

- `accepted_lost`: a submission is accepted while its Activity still runs, the Activity then fails
  for good, and the accepted output is dropped; the caller was told success (`workflow.go:537`,
  against `manager.go:459-460`).
- `changes_lost`: every branch of a PARALLEL split carries a copy of all variables, and the merge
  writes each copy over the last, so a later branch takes back what an earlier one changed in
  another field of the same object (`parallel_gateway.go:257`, against `dsl.go:282-284`: "both
  survive"). Fields that are new do survive.

The following configurations are violated as well, and can be run by hand:

| Configuration (module) | What happens |
|---|---|
| `MCDraftLost.cfg` (`MCTaskFlow`) | a second attempt of a step writes its inputs over a saved draft (`gorm/store.go:139`, against `draft.go:27-28`) |
| `MCReadErrorEnds.cfg` (`MCTaskFlow`) | a failed read lets a task's workflow end with its row open and its parent waiting (`manager.go:393`: "safe to ignore") |
| `MCHoldOverwritten.cfg` (`MCTaskFlow`) | the write of a submission takes a parked task off hold (`gorm/store.go:169`, against lines 206-208) |
| `MCCancelCutsCompletion.cfg` (`MCTaskFlow`) | a cancellation terminates the workflow between the two halves of its completion: COMPLETED, and the parent waits for ever (`manager.go:590`, against lines 380-381) |
| `MCPaymentNotAdvanced.cfg` (`MCPayment`) | completing the step fails once: the gateway's retry finds the transaction settled, and the step waits for ever (`payment/service.go:361`, against lines 443-444) |
| `MCPaymentSettledTwice.cfg` (`MCPayment`) | a checkout saves its row over a settlement: PENDING again, and the next delivery settles it again (`payment/service.go:212`, against lines 340-342) |

The models also reach states that comments or a reader would exclude, and that have no run:

- COMPLETE of a parked END ends the workflow without its completion Activity, so the row stays
  ON_HOLD and the parent waits (`db.go:138-140` says that resolving the park moves the row on). A
  refused COMPLETE of a gateway parks the node again under the same ActivationID, so a second
  signal sent for the first parking resolves the next (`admin_recovery.go:84-87` says it is dropped).
- A branch that is parked or suspended when FAIL_FAST cancels it does not end, nor can it be
  resolved any more; a RETRY of the split finds its workflow ID taken and parks again.
- A RETRY of a WAIT whose output mapping failed waits for a second signal, as the comment at
  `signaling.go:113-115` says; the one at lines 146-148 says that it "won't block again on retry".
  In a rendezvous no second signal comes.
- A second run of a task's workflow counts its steps from 1. Once its retries have brought a step
  past the version that the first run left on the row, the step claims the row of a COMPLETED task
  (`gorm/store.go:149` excludes CANCELLED only), and a submission that it accepts replaces the one
  of the first run. Until then its claims match no row, and its steps fail and park.
- ClaimTask does not tell a cancelled task from contention: it tries again, gives up and answers
  that the claim kept changing (the exception in `GivesUpAfterChanges`).
- After an error of the source, the back-off makes `Registry(v)` answer that a published version
  is unknown, until it is over. `set.go:21` has this answer for versions that do not exist.
- `WithRolesClaim("Roles")` reads the claim of exactly this spelling, while `fixed_schema.go:100`
  says that any spelling of "roles" is the roles claim.
- A forced refresh that takes over the keys of another request does not look at their age. That it
  need not is part of the proof of `AcceptedKeysAreRecent`.
- A repeated PUT that fails midway removes the file that an earlier PUT of the same URL had stored;
  overlapping PUTs mix their content; a crash leaves a partial file.
- With a negative `MaxRetries`, `executeWithRetry` returns neither a response nor an error.

## 5. Fairness

Only what Temporal guarantees: a workflow that can go on is scheduled, a signal is delivered, an
awaited attempt ends (by its answer, or by its timeout and the bounded number of attempts), the park
Activity ends within its 30 seconds. In `Payment`: a request that arrived is served, a gateway
repeats the report of a payment (of those in `Repeated`) until it is answered, and the database does
not fail that report for ever (strong fairness, as other requests come between). The rest is weak
fairness. Nobody is bound to submit, to resolve a parking or to cancel, and an attempt that was
given up may stop anywhere.

In `Split`: the parent hands on a broadcast that is in its channel (`Multicast`), a signal that was
sent arrives (`SignalArrives`), and a child whose signal is there takes it, and gets past its WAIT
or parks in it (`handleSignalingWait`). A child need not emit, end or be resolved. In
`Artifacts`: the clock ticks, and a lookup that has begun goes on, since each of its steps either
computes or is a fetch with a timeout. Nobody is bound to begin a lookup, and `MaxFaults` bounds
the failures of the source. `TaskClaim`, `RefId`, `Storage`, `Remote`, `Authn`, `Regions` and
`BranchData` have no fairness: their properties are all of safety.

## 6. Proofs

For every value of the constants, from the assumptions named in the modules
(`BoundsAssumption`, `KindsAssumption`, `CallersAssumption`, `FlowAssumption`,
`PaymentAssumption`, `RefsAssumption`, `SplitAssumption`, `ClaimAssumption`, `RemoteAssumption`,
`BearersAssumption`, `TimesAssumption`, `ClaimsAssumption`, `StorageAssumption`,
`ConfigsAssumption`, `ArtifactAssumption`).

**TaskFlowProofs**, first part: *the engine.* `ActivationInv` is inductive. The type invariant alone
is not enough: that an answer is final needs that an open step is unanswered (`OpenIsUnanswered`),
which needs that only the current activation is open (`OneOpenStep`) and that a new activation is
untouched (`LaterUntouched`). From it follow `ForceParkIsHonoured`, `AnswersAreFinal`,
`AnswersOnlyWhileWaiting` and `ResolutionsAreAddressed`. `Refinement` shows that the engine
implements `ActivationOnce` under `stepBar`: an activation in `pending` is open, one with an outcome
is closed, one with an answer and no outcome is answered.

Second part: *the task's row.* `FlowImplementsEngine`: every step of the composition is a step of the
engine, or leaves it alone, or forgets the closed run (`RunForgotten`), so what is proved of
`Activation` holds of every run of a task's workflow. The types and the order of the row's counters
(`TypedOrder`) are kept in every run, from which `RowsNeverRewind`. `RowInv` is inductive for the
first run: a submission on the row is the one accepted for the active step, lies past the step's
own version, and is in a state that takes no draft; a call that is past the workflow is the one
that answered its step. The second conjunct is what keeps late claims and render writes off, as
their guards ask for the version of the step. From it: `PersistedWasAccepted` and
`SubmissionsAreKept`, under every fault.

**TaskStepProofs**, **TaskOrderProofs.** The first says what one step does to the attempts, to the
notifications of parkings and to the node, as a few lemmas that every action falls under. The second
proves `FlowInv` of the first run: the row, the attempts and the calls are all behind the workflow.
`RowFollowsWorkflow` alone is not inductive, since a late attempt may still write the row. It takes
that an attempt or a notification, however late, is of a node that has run (`RunsFollow`), that a
call has read a version that the row has had (`CallsFollow`), that nothing follows an END but its
retries (`EndIsLast`), which steps the row may name (`RowIsOfSteps`), and that the row shows a step
from the moment that its awaited attempt has claimed it (`ClaimedIsShown`). From it, under every
fault: `FlowInvariance`, `SuspendedStaysAddressable`. None of this survives a second run, whose
steps are numbered from 1 again while the row is ahead of them. What every run keeps is
`EveryRunInv`: a cancelled row is past its active step and past any version that a call has read, so
that no write which names either matches it (`CancelledIsPast`), and what a completion reports is
true of the parent (`ReportIsTrue`). From it, with `FlowInv` for completed tasks of the first run:
`ClosedStaysFinal`; and `ReportedEndsWakeParents`, if reads do not fail. `CompletionInv` adds that
in the first run, if attempts do not outlive their timeouts either, there is only one completion,
and what it found in the row is still so when it wakes the parent. From it:
`CancelledTasksDoNotWake`. (What is said of reads and timeouts are assumptions of the theorems, for
the reasons that section 4 gives.)

**RendezvousProofs.** `SplitInv` is inductive, for any number of branches and visits
and every mode. Its first half, `NodeInv`, is about the parent and its children: `FuturesTell` says
that a future that is resolved tells how the execution of this visit ended, which is kept only because
a start is refused while an execution with the same ID is open; `PhaseTells` adds what each phase of
the parent knows of its futures. From it: `CompletedSplitsAreWhole`. The second half, `RendezvousInv`,
follows the broadcasts: each branch makes one a visit, and the channel has no two that are the same
(`BroadcastsTell`); a child is of this visit if the parent started it, and else of an earlier one
(`VisitsTell`); a visit that began clean has the channel and the open children for itself
(`CleanIsAlone`); and unless it fails fast a split leaves nothing behind (`NothingLeft`). A child
counts signals and does not see who sent them, so `CleanIsAlone` says that its count (on their way,
arrived, taken) is the number of siblings whose broadcast has left the channel, for which the
theorems on cardinality are needed. `WaitsTell` ties the count to the WAITs that are left: one signal
taken for each WAIT that was passed, and one more by a WAIT in which the child is parked, which is
why a COMPLETE of it is no way around the rendezvous. From it: `SplitInvariance`, `RendezvousIsKept`.

**ServiceProofs.** *Payment.* `PayInv` is inductive. Its core is `CheckoutHoldsRow`: no other checkout
has the row, and one that is under way has not saved its copy yet, so a settled row is written over
once at most. `ReportedIsOpened` says that only sessions that were opened are reported, and
that a request that is about to complete the step has the row's status, unless that was overwritten;
`EarnedWhenSettled` bounds what an unsettled row has earned. From it: `AdvancedPerSettlement`,
`StepIsToldTheRow`, `SettlementsAreFinal`.

*Remote.* `RemoteIInv`: the cached client is of the registered configuration (`ClientIsNew`), because
both are replaced under one lock, so a call that takes it begins with one as new as itself; a call
keeps the body of at most the attempt it is at. From it: `CallsAreUpToDate`, `BodiesClose`. `TokenInv`
is the arithmetic of tokens: the lifetime that the code believes in exceeds the real one by no more
than the time for which the answer was under way, which is at most what is used up of the token
timeout; a token that has been taken for a request had more than the buffer left, or all of its life,
and loses no more of it than is used up of the request's timeout. From it: `TokensArriveAlive`.

*TaskClaim.* `ClaimIInv` adds to `GivesUpAfterChanges` what makes it inductive (`Counted`): when a
call is about to read, either its row still does not match, so that the read ends the call, or the
row has changed once more than the call has tried. From it: `GivingUpTakesChanges`, for every number
of callers and attempts, and `ClaimsPassByRelease`.

**AuthnProofs.** A request that waits for the write lock looked at the cache when no fetch was
under way, so a fetch that ends meanwhile began later, and its answer has every key that the
request's own fetch would have been sure to have. `AuthnIInv` says this of the queue, of the
answer under way and of the cache, with `LockInv` for the lock and `PublishedOnce` (a key that
was withdrawn does not come back). From it: `KnownKeysAreFound`.

`DatesInv` is about time. The cache and each answer have keys that were published at their date or
later; a fetch is dated from its start and ends within its timeout (`FetchDates`); a reader has
waited for one fetch at most (`ReadDates`); and a request that has waited through a fetch meets
nobody who holds the lock, nor any who takes it (`WaitDates`): the queue is in the order in which
its requests looked (`QueueDates`), so the first one has waited through that fetch as well, and
finds it recent enough because a fetch is shorter than the life of the cache. From it:
`AcceptedKeysAreRecent`. `PrincipalsAreUsable` is about operators alone: lemmas on trimming,
on the names that a declaration resolves to and on what is extracted, under the validation of
the extractor, which no step undoes (`ClaimsInv`).

**StoreProofs.** *Storage.* `StorageIInv` follows each key that is not torn (`KeysInv`): it has at most
one writer, whose file so far is the blocks it has written, in the file that it created and not in
one removed since (`Written`); without a writer the key is what its last caller was told (`AsTold`).
From it: `FilesAreAsTold`, with removals that fail. *RefId.* `RefIInv` accounts for each value that a
store gave out: it is in an ID, with a call under way, or lost with its answer, and in one of these
only (`EachValueOnce`). That a call cannot fail while it has a value needs that a format has at most
one stateful segment (`RegistryInv`), that the value was taken for an earlier segment than the one
at hand (`CallsInv`), and that parameters are checked before the first segment is rendered. From
it: `StoreValuesAreAccounted`, `StoreValuesAreSpentOnce`.

**ArtifactProofs.** `ArtifactIInv`: the views are the manifests published so far, in their order
(`VersionsAreManifests`), which a probe keeps since it alone holds the slot between its fetch and
its install (`LooksInv`); the explicit versions agree with the views (`SetInv`); the cache has each
file once and counts their sizes (`CacheInv`). What `add` does to a list of manifests and what the
sizes of a sequence sum up to are recursive functions; the induction over them is by the least
natural number without the property (`LeastNatural`, from the well-foundedness of `<`) and
over the numbers up to a bound (`UpTo`). From it: `ExplicitVersionsAgree`, `CacheStaysBounded`,
`VersionsArePublished`, `LoadedManifestsStay` and `FoundFilesAreIndexed`.

Only model-checked:

- liveness (fairness and ENABLED are out of the prover's reach): the properties of `task_live`,
  `PaymentSettles`, `RendezvousOpens`, `PublishedIsFound`;
- what folds over graphs, items and texts compute: `BranchesCanRun`, `BatchKeepsItems`,
  `ParallelKeepsNewFields`, and `IdsAreDistinct`, which is about texts once they are joined.

## 7. Not modelled

Of the workflows and tasks: a third run of a task's workflow, and attempts of a closed run that
outlive the start of the next; a path that ends at a node without an outgoing
edge other than END; errors of the START node; calls for a step that is not the active one,
which are refused at once; the cancellation of a task workflow's context, as nothing in the
repository cancels one other than by terminating it; ABORT of a parked node leaves the row
ON_HOLD and the parent waiting, which the model reaches and no property excludes; of payments,
the lookups and `ValidateReference`, which only read. Whether a replay of a workflow makes the
same decisions (the order in which maps are walked, `dynamic_split.go:304`) is a question about
two runs of the code and not about its states.

Of definitions: the checks of the mappings of a batch (`batch_validate.go` 56-67 and 202-236).

Of the services: the S3 driver, which hands each operation to the library; how a path is resolved
(`resolveAndValidate`), other than that it may fail; what an error of `Close` leaves on the disk; a
service with an empty list of upload types; the bodies and URLs of remote requests.

Of the rest: see the table of section 1 and the notes under `components`. Plugins, the renderer,
notification channels and authorization call what the host supplies, or look something up.
Formatting, documents, set-up code and drivers have no state that actors share.
