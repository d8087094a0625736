# TLA+ models of phenix-conductor

Phenix is a plugin kernel with a conductor on top of it. `phenix-core` resolves
plugin and component manifests to a *harness* (one graph generation), starts the
plugins, routes service calls and events between them, and replaces one
generation by the next while work is in progress. First-party plugins (step
runner, execution, sessions, jobs and others), the ACP transport and the harness
application are written against that kernel.

These modules model the concurrent and stateful parts: the event bus, the plugin
lifecycle with live reconciliation, service dispatch with prepared mutations, the
step runner with the budget it spends, the client tools of an ACP connection, the
application worker that runs prompts and the observable store. Paths without a prefix are under
`src/rust/crates/phenix-core/src/`. `PROJECT.json` maps every definition to the
lines it models and lists the hazards at their lines.

## Inventory

| Part | State | Operations | Hard because |
|---|---|---|---|
| Event bus (`events.rs`, `runtime/listener.rs`) | subscriptions and their revision, `in_flight`, `active_causality`, receipts | replace, install, remove subscriptions; admit; deliver by dependency level | one thread per delivery and per handler, handlers emit and wait, subscriptions change under way |
| Kernel lifecycle (`runtime/kernel.rs`, `runtime/reconciliation.rs`, `activation.rs`) | generation, configuration, plugin states, instances, prepared instances, `runtime_active` | `activate_all`, `activate_resolved_harness`, `reconcile_resolved_generation`, `stop` | staging may fail at every plugin and rolls back; instances are retained over generations |
| Live calls and owned tasks (`tasks.rs`) | calls and tasks by plugin and generation | begin, finish, spawn, cancel | run beside kernel operations; keyed by ids that recur |
| Graph reconciler (`reconciliation.rs`, `live_reconciliation.rs`) | the active harness | preview, plan, activate a candidate | closure over two graphs, order of visits |
| Service dispatch and host (`runtime/dispatch.rs`, `runtime/host.rs`, `runtime/static_dispatch.rs`) | call stack, active services and endpoints, instance mutexes | invoke through layers, typed imports, continuations, host operations | re-entry, one-shot continuations, authority at every hop, cancelled results, listeners on other threads |
| Prepared mutations (`prepared_mutation.rs`, `runtime/owned_transactions.rs`) | handles of an invocation, coordinators of a thread | prepare, commit, clear | one-shot handles, several owners in one transaction, coordinators found by thread |
| Step runner and execution (`phenix-plugin-step-runner`, `phenix-plugin-execution`, `phenix-sdk/src/contracts/budget.rs`) | attempt ledger, resource ledger, delegated tasks | plan, reserve, route, admit, dispatch, settle, abort; delegate | every call is a read and a compare-and-set; two generations overlap; calls are cancelled; the process may end |
| Client tools (`capability.rs`, `phenix-domain/src/client_tools.rs`, `phenix-acp-stdio`) | registry entries, admissions, callback queue | add, remove, call, lift a callable; retire a connection | two locks, blocking threads, a bounded queue, a client that goes away |
| Application worker (`phenix-harness/src/application.rs`) | session records and journals, their projection, active prompts, event queue | create, change, close, resume, prompt, cancel, execution events, restart | durable and in-memory state move in several steps; queues fill; late results of cancelled prompts |
| Registry, resolver, component graph (`registry.rs`, `resolver.rs`, `component.rs`) | none, pure | dependency order, provider choice, validation | cycles, fallbacks, priorities |
| Durable persistence (`persistence*.rs`) | durable namespaces | register, migrate, transact | atomicity over owners |
| Observable store (`observable/`) | registered values with versions, subscriptions | register, unregister, transaction, subscribe, unsubscribe, close | writes are undone, coalesced and sorted; deliveries are made outside the lock, by the committing thread |
| Configuration, metadata, management, builds, inspection, values | mostly none | validate, compare, build, show | I/O or pure data |
| Other plugins, SDK, providers, backends, clients, programs | durable records, connection state | service commands, requests | I/O, or read-modify-write as in the step runner |

How they interact: kernel operations take the kernel by `&mut`, so one runs at a
time. They call plugin code (`prepare_with_host`, `start`, `stop`, listener
binding, service calls) and hand it a host, through which the plugin spawns
tasks, emits events, calls services and writes durable state. Listeners run on
the bus's threads at any time, with a snapshot of the generation they were bound
in. Tasks run on threads of their own. Cancellation is a flag that is looked at
when a call returns. The application owns the kernel behind the harness lock;
its agent threads take that lock for each model and tool call, and the step
runner spends the budget of their root execution.

What makes each part correct, in a line. Bus: bounded, ordered by dependency, no
causal re-entry, nothing of an old set after a change, every receipt ends.
Lifecycle: exactly the installed instances run, they are the configured ones,
work of retired instances is cancelled and work of installed ones is not. Plan:
what depends on a change restarts and nothing else. Dispatch: authority only
shrinks, required layers run, nobody waits for itself. Mutations: a handle is
used once, by whom it was prepared for. Steps: a budget is not oversubscribed, a
model call is made once and paid. Tools: nothing outlives its connection, every
request is answered. Application: journal, projection, client and answers agree. Store: a
diff describes exactly what changed, observers end with the present value.

## Modules

`EventBus` models one call of `admit_in_generation` and the delivery thread it
starts as a *slot* with a program counter. Each access to a shared cell is a step
of its own: the load and the compare-exchange of `reserve_delivery`, the capture
of subscriptions and ancestry with the spawn, the revision check
(`DeliveryHead`), the causality lock (`DeliveryEnter`, `DeliveryLeave`), each
handler's emission and return, the judgement of a level (`DeliveryJudge`), the
published status and the released slot. A handler that waits on a receipt is
occupied until that delivery is terminal. `lineage` and `staleLevels` are history
variables that only properties read. An authority is a set of capabilities and
attenuation is intersection.

`TransitionPlan` holds the pure functions of reconciliation: component changes,
`collect_required_dependents`, the restart set, the plugins to restart and
`runtime_restart_closure`; the recursive searches are stated as the least closed
sets they compute, and the loop over the changes (`Restarts`) visits the
components one by one in the order of their ids. `GraphReconciler` is the
reconciler as a state machine over every small harness and compares the restart
set with a reference closure.

`Lifecycle` composes the kernel, the reconciler, the listeners installed in the
bus, the calls and the tasks. `op` is the kernel operation in progress with its
locals (`next_states`, `next_instances`, `staged`). It goes through the phases
stage, start, commit, then retire or cleanup, one step per call into plugin code
and per cancellation, so that listener calls and tasks begin and end between any
two. Every instance ever made is an *object* with its life, its generations and
the provider that prepared it. A generation id is a content hash, so it is the
key of its harness and can become active again. The bus appears only as the set
of installed listeners; `CaptureListener` is a delivery thread past the revision
check that `EventBus` models in detail.

`Invocation` models dispatch. A thread (the kernel's, or one delivery's) is a
stack of frames, one per plugin call in progress; the call stack, the active
services and the active endpoints that a host hands down are read off the frames
below. `CallComponent` and `CallService` are the roots, `Listen` a listener,
`Import`, `InvokeService` and `Continue` the three ways a plugin calls on; each
resolves a chain of layers and a terminal (`Kept` picks the layers that take
part, in their order) and computes an authority. `Deny`,
`Probe`, `Probed` and `Lock` are the instance mutex with `try_lock` for plugins
already on the stack. `Prepare` and `Commit` are the prepared mutations with
their coordinators, `Stop` and `Replace` what the lifecycle does to all of it;
the stop of a generated plugin without a stop hook (not `Hooked`) returns at once
(`StopUnhooked`).

`BudgetLedger` holds the pure functions of `RootBudgetLedger` and
`UsagePolicy::plan`. `Steps` is the step runner with the attempt, resource and
delegation services: a *runner* is the step-runner instance of one generation,
and a service call is two steps, `Read` and the commit under `AssertValue`
(`CallSucceeds`) or its failure. `CallCancelled` and `AnswerCancelled` are the
two sides of a cancellation (before and after the commit); `Crash` forgets all
runners. `MeteredAttempt` is the abstract specification: attempts, purses and
calls, without services and ledgers. `Steps!Meter` is the refinement mapping.

`ClientTools` models the requests of one connection as handlers that step
between lock acquisitions and queue operations (`Admit`, `Register`, `Recheck`,
`AdmitDone`, `Remove`, `Unregister`, `Lookup`, `Permission`, `Prepare`, `Send`),
the transport loop (`Take`, `Answer`, `EndLoop`) and the end of the connection
(`Close`, `RetireClient`, `ForgetClient`). It follows `serve_sdk_application`,
whose handlers run on blocking threads, and the tool calls of agent threads.

`Application` models `serve_application_worker` as one loop in which a request or
an execution event is one step that makes all appends of its handler
(`Appended`: reserve a slot, append durably, project, queue), and each agent
thread as `Turn`, `Call`, `Tool` and `Complete`. The client reads (`Receive`),
stops (`Disconnect`), and the process restarts (`Restart`) with durable state
only.

`ValueChanges` holds the pure part of the observable store: addressing, mutations
with their undo records, `canonicalize_root` with `original_at`, and the changes
one subscription is given. A value is a table of a list and a map, so that paths
of all lengths up to two, indexes and keys occur. `Observable` is the store. A
transaction holds the mutex throughout, so it is one step; its deliveries are
owed by the thread that committed and made one at a time, innermost commit first,
while handlers and other threads go on. The observer (`Copied`) follows
`spec/observable-values.md`: it applies a diff that starts at its version, skips
one that is not newer and otherwise reads again.

The `MC` modules give small instances. `LifecycleProofs`,
`GraphReconcilerProofs`, `EventBusProofs`, `StepsProofs`, `StepsLedgerProofs`
(which extends the one before), `InvocationProofs`, `ClientToolsProofs` and
`ApplicationProofs` hold the theorems. Definitions whose comment begins with
"Mutant" are wrong variants that show that a property can fail; nothing else uses
them.

## Runs

| Run | Checks | Bounds |
|---|---|---|
| `bus_levels` | `InFlightAccounting`, `DependencyOrder`, `SucceededMeansSettled`, `StaleDeliveryStops` | two admissions, capacity one (so they compete), two levels, the three failure policies, two changes of the set, one refused |
| `bus_live` | `CausalExclusion`, `AdmissionsEnd` | two deliveries, one of which may wait on the other, under fairness |
| `plan_restart` | `RestartsDependents` | all pairs of acyclic graphs over at most three components, two revisions each: chains, diamonds and overlapping closures all occur |
| `lifecycle_bridge` | `InstanceAccounting`, `ActiveIsCurrent`, `OneTopology`, `GuestsFollowProvider`, `RollbackOrder`, `ActiveWorkSpared` | three generations, six objects, one call, one task |
| `lifecycle_stop` | `RetirementCancels` | two generations back and forth, one explicit stop, five objects, one call, one task |
| `dispatch` | `AuthorityOnlyShrinks`, `RequiredLayersRun`, `EndpointOnce`, `NoSelfWait`, `ExclusiveStop`, `HandleOnce`, `CoordinatorIsImporter`, `WritesAreAuthorized` | two plugins that import each other with different authority and a layer in front of both, which is also a fallback; a service invoked by name that needs the right to write; one listener thread beside the kernel, two handles, one stop or replacement |
| `steps` | `NeverOversubscribed`, `CalledOnceAndPaid`, `EndTogether`, `OnlyLostAttemptsLinger`, `RetriesFollowFailures`, `MeterKept` | two runners, two attempts (root and retry or helper), a budget that does not cover both in full, one cancellation or crash |
| `delegation` | `DelegationPaid`, `NothingUndone` | two runners, two tasks in a chain, one attempt that may pay for them |
| `tools` | `RetiredLeavesNothing`, `AdmittedIsCallable`, `EveryRequestEnds` | two handlers, two sessions sharing one callable, a callback queue of one, four requests |
| `application` | `ProjectionFollowsJournal`, `NoUpdateLost`, `AnswerIsTrue`, `NothingAfterTheAnswer`, `PromptsAnswered` | one session, two prompts, an event queue of three and an execution channel of one (both fill), one restart |
| `observable` | `DiffExact`, `ObserversCatchUp` | two threads, two roots, one observer of one of four kinds, first commit of up to three out of thirteen mutations, two more commits of one, lists of at most three, one unregistration |
| `application_ended` | expects a violation, see below | as `application` |

Why the bounds suffice. The cancellation properties speak of one piece of work
and one instance at a time, so one slot for calls and one for tasks do; an
operation starts only if the objects it may need are left (`Bounded`), so that no
failure is caused by the bound. Two runners already give every overlap of two
read-to-commit windows, and the ledgers are only compared pairwise. Sessions of
the application share only the event queue, which a second session would fill no
differently from a second change. Diffs are computed per root and subscription, so
one observer does; three commits give a delivery that is overtaken and one that
skips a version. Deadlock is checked in `lifecycle_*`,
`dispatch` and `plan_restart`; the others fall silent when their slots, requests
or prompts are used up.

`MCSteps` uses symmetry of runners (they are interchangeable, and only safety is
checked) and the view `CurrentView`, which keeps of what a call read only whether
it is still current: `AssertValue` compares it with the present value, which can
never equal an outdated one again, since every commit either advances a phase or
adds a record (`NothingUndone`). `MCObservable` uses symmetry of threads, again
for safety only.

`DiffExact` and `ObserversCatchUp` have one exception. Every transaction commits
as it does in the code, also one that splices a list and writes items of it by
their index. When the splice moves such an item, or comes before such a write,
the code's diff can be wrong (`ObservableMixed` below): the commit is marked
`displaced` (`ValueChanges!Displaced`), and the two properties leave out its
deliveries and, from then on, its root. Splices at or after the items written
before them are not excepted, so the sort of the changes is under test, and the
mutant of `DiffExact` is a sort that is not stable.

Fairness. `EventBus!FairSpec`: weak fairness of an admission's and a delivery
thread's steps, since the operating system schedules runnable threads, and of a
handler's return once it waits on nothing; the last is an assumption on plugin
code. `ClientTools!FairSpec`: the handlers' steps, the loop's, and that the
client answers a callback it was sent or its connection closes; without the last
a callback without a timeout waits for ever. `Application!FairSpec`: the worker
takes execution events while a prompt is active, agent threads run and their
model and tool calls return. Nothing is assumed of emitters, of users, or of a
client that reads its events.

### Where a document says otherwise

One run expects a violation, `application_ended`: the user's message takes the last
slot of the event queue, the Running change is refused and the prompt is answered
with an error, while its root execution stays active (the test at
`application.rs:2443` covers only a queue that is full from the start).

More of the kind can be reproduced with configurations that are not among the
runs (`tlc -config X.cfg MC...`); each ends in a counterexample.

| Configuration | Sentence | What the code does |
|---|---|---|
| `EventBusRecursion` | `plugin-events.md:128` | ancestry is the handlers running when the event is admitted; one that emitted and returned gets descendants of its own event |
| `EventBusStale` | `plugin-events.md:128` | the revision check and the start of a level are two steps; one level of the old set may begin after the change |
| `GraphReconcilerClosure` | test name, `reconciliation.rs:1047` | one `affected` set serves the searches in both graphs; with an import rebound in the same transition a dependent may keep its instance (four components) |
| `LifecycleUntouched` | `runtime/reconciliation.rs:55` | a candidate may have the id of an earlier generation; when a start in it fails, tasks the installed instance began then are cancelled |
| `LifecycleReplaced` | `plugin-threading.md:80` | an instance retained over a transition and replaced in the next one leaves tasks of its first generation uncancelled; `RetirementCancels` is what does hold |
| `StepsCost` | `token-efficiency.md:477` | a cost that is not stated counts as zero when it is fitted, so a hard cost limit can be passed |
| `InvocationRevisit` | `plugin-threading.md:137` | a legacy plugin on the stack is refused with a busy error rather than admitted (`dispatch.rs:328`) |
| `ClientToolsPermission` | comment, `phenix-acp-stdio/src/client_tools.rs:49` | `InvokeCallable` reaches the client without a permission request |
| `ClientToolsReentry` | `value-capability-sdk.md:837` | a client that makes a request from inside a callback and answers only afterwards waits for ever, since the loop serves one callback at a time |
| `ObservableMixed` | `observable-values.md:120` | changes are sorted by path, so that an index write comes after a splice of the same list whatever their order was, and `original_at` compares an item written after a splice with one the splice has moved; the diff then leads to another value. On `[p, q]`: replace 0 and insert at 0 (the write lands on the wrong item), or append p and replace 0 by q (the write is taken for no change and is not delivered) |
| `ObservablePanic` | `observable-values.md:142` | `original_at` undoes a splice on the current list (`transaction_canonical.rs:143`); when the list has become shorter than the splice's start, `Vec::splice` panics under the mutex and every later operation panics |
| `ObservableInitial` | `observable-values.md:252` | the initial value is delivered after the mutex is released, so a later commit of another thread can be delivered first |

### Other observations

- `Kernel::stop` holds the plugin's mutex while it runs the stop hook. A delivery
  in a plugin without shared invocation (whose mutex it holds) that calls the
  stopping plugin waits for ever when the hook calls that plugin, and nothing
  orders the mutexes. `InvocationStop.cfg` ends in this deadlock. In the `dispatch`
  run the stop hook of the layer has nothing it may call, and TLC finds none.
- `Kernel::stop` of a generated plugin with a bound listener and a stop hook is
  always refused: the listener's weak reference makes `Arc::get_mut` fail.
- Listener snapshots do not see `Kernel::stop`; a listener can still call a
  stopped plugin, and can commit a mutation that a replaced owner prepared.
- The service path and the typed imports keep separate re-entry sets: one service
  can be entered again through a typed import (`EndpointOnce` is what holds).
- A delivery thread that holds a listener may begin its call after the instance
  was retired; a graph installed after `activate_all` comes without listeners.
- A reservation whose answer is replaced by a cancellation is not released, and
  nothing recovers attempts after a crash; `OnlyLostAttemptsLinger` says that
  these are the only ones.
- A callable that was only lifted into a call is unregistered with the last
  admission that uses it. A callback in flight at the end of the connection ends
  in `ProviderFailed`, not `Disconnected`.
- `serve_application_worker` calls `service.invoke` inline on its task, where a
  client callback would block in `blocking_recv`; the models follow the blocking
  threads of `serve_sdk_application` and the agent threads.
- A cancel request waits while a model call holds the harness lock; the worker
  receives execution events only while a prompt is active; the cancellation after
  its loop finds no active prompt.
- In the observable store a change of an ancestor is delivered to an observer
  whose own value stays equal, which `observable-values.md:99` excludes. A
  `listen` whose stop action cannot be registered leaves its subscription behind
  (`sdk.rs`).
- A session-tree `link` asserts only the records it writes; two overlapping links
  whose cycle checks read each other's past can close a cycle.

## Proofs

`EventBusProofs` proves for every set of subscriptions, deliveries, emissions
and every capacity, from `BusAssumption` (the capacity is positive, the slots
are finite, batches and emissions are well typed):

- `TypeCorrect`: `Spec => []TypeOK`;
- `InFlightExact`: `Spec => []InFlightAccounting`;
- `CausallyExclusive`: `Spec => []CausalExclusion`;
- `DependenciesFirst`: `Spec => []DependencyOrder`;
- `SucceededIsSettled`: `Spec => []SucceededMeansSettled`;
- `StaleStops`: `Spec => []StaleDeliveryStops`.

The first two need each other. That `in_flight` stays a natural number requires
that whoever decrements it holds a slot, which is the accounting; the accounting
requires the types. The invariant is `TInv`: both, with the facts that a
delivery's ids come from the set it captured, that a free slot runs nothing, and
that a loaded counter about to be exchanged was below the capacity
(`LoadedBelowCapacity`), which carries the bound over the gap between load and
exchange. `HeldCount` says how a slot's step changes the number held.
`CausalExclusion` is inductive relative to `TInv`: `CausalEnter` and
`CausalLeave` are the two steps that change `active`, `CausalFrame` the rest.
The last three come from `PInv`, inductive relative to `TInv`. The properties
speak of reports and of a captured set, so `PInv` adds that every set that is
installed or captured has unique ids and dependencies among themselves
(`Sound`), that a delivery has reported exactly the handlers it matched that no
longer remain, with the level under way among those that do (`Settled`), and
that one that began a level late has an outdated revision for good and ends
cancelled (`Outdated`).

`StepsProofs` proves for any runners, attempts, tasks, limits and faults, from
the assumptions of `Steps`:

- `OncePaid`: `Spec => []CalledOnceAndPaid`;
- `TogetherEnded`: `Spec => []EndTogether`;
- `OnlyLostLinger`: `Spec => []OnlyLostAttemptsLinger`;
- `RunnerMeters`: `Spec => MeterKept`, that is, `Steps` implements
  `MeteredAttempt`.

All rest on one inductive `Invariant`. None of the properties is inductive: a
step commits what it computed from an earlier read, so the invariant relates each
runner's program counter and locals to the records it last wrote (the attempt a
runner drives is in the phase its next call expects, no other runner drives it,
the reservation it names is its own and held), and keeps for every attempt the
relation of phase, reservation and number of calls. A read that is no longer
current cannot commit, which turns every commit into a step on current records.
`RunnerMeters` then needs one step per action: a commit is an abstract `Open`,
`Take`, `Send`, `Settle`, `Abandon` or `Forget`, a model call is `Call`, the rest
stutters.

`StepsLedgerProofs` goes on from there to what the ledgers hold, with the
assumptions that there are finitely many tasks and they depend on tasks
(`TasksAssumption`), that limits, requests and usages are unsigned amounts
(`AmountsAssumption`, the types of `budget.rs`) and that the number of retries
is a natural one (`RetriesAssumption`):

- `StepsTyped`: `Spec => []TypeOK`, so no subtraction goes below zero;
- `BudgetsHold`: `Spec => []NeverOversubscribed`;
- `DelegationIsPaid`: `Spec => []DelegationPaid`;
- `RetriesAreBounded`: `Spec => []RetriesFollowFailures`;
- `CommitsAreKept`: `Spec => NothingUndone`, an action property, which is also
  what the view of `MCSteps` relies on.

The invariant `LedgerInvariant` is inductive relative to `Invariant`.
`DelegationPaid` and `RetriesFollowFailures` are parts of it, the second with two
more: a parent exists before its child and only roots have none (`Families`), and
a runner about to create a retry holds a plan whose lineage was short enough when
it was read (`RetryPlans`); lineages of existing attempts never change
(`LineagesStay`), so what was read earlier is still so at the create. `Fit` is
`NeverOversubscribed` for one of the two amounts, written with sums over sets of
keys; `ReserveFits`, `SettleFits` and `ReleaseFits` are its three cases. A
settlement may lower a reservation to what was spent because no child is active
then: its children hold exactly what the settled ones have spent
(`ChildrenSpent`), which the settlement has to cover.

The sums and lineages are defined by recursion over finite sets and numbers. The
library's induction rules take a predicate as a parameter, which the provers
cannot instantiate, so the first part of the module proves what is needed of
sums by infinite descent instead: `LeastNumber` and `SmallestSet` give a least
counterexample in a *set* of numbers or of subsets, and from these follow that
the recursive definition has a solution (`SumSolved`, `TotalSolved`), that a
total is a natural number, splits over an element, is monotone and depends only
on the values summed. The same device gives `LineageDefined` for the climb to
the root of a lineage.

`InvocationProofs` proves for any plugins, services, layers, imports and
threads, from `ConstantsAssumption` (legacy plugins and listeners are plugins,
plugins with a stop hook are generated ones, the kernel's thread is none of the
deliveries', ceilings are capabilities) and
`GraphAssumption` (the graph refers to its own plugins, services and
components, as the resolver ensures):

- `TypeCorrect`: `Spec => []TypeOK`;
- `AuthorityAttenuates`: `Spec => []AuthorityOnlyShrinks`;
- `EndpointsEnteredOnce`: `Spec => []EndpointOnce`;
- `LayersAlwaysRun`: `Spec => []RequiredLayersRun`;
- `NeverWaitsForItself`: `Spec => []NoSelfWait`;
- `StopsAlone`: `Spec => []ExclusiveStop`;
- `CoordinatesOwnCalls`: `Spec => []CoordinatorIsImporter`;
- `HandlesAreOneShot`: `Spec => []HandleOnce`;
- `WritesAuthorized`: `Spec => WritesAreAuthorized`, an action property.

The argument has two halves. Every step is one of four moves of the stacks: a
call, the end of a call, an advance of the call on top, or none (`Moves`), proved
once per action; then each part of `IInv` is kept by each move. The parts: where
a frame may be and what it holds (`Layout`: only the top frame is not running,
and one that waits for a whole instance is not below itself); a required layer is
below in the same invocation or still ahead of the terminal (`LayersInv`, since
`RequiredLayersRun` says nothing of a chain that is under way); no two frames
hold one instance (`Mutex`); a stop hook that has a plugin's state has it alone
(`Exclusive`); the coordinators of a thread are, in order, the plugins that made
its calls through imports (`Coordinated`); a handle that a scope has is open and
in no other scope, and the backend was given its mutation exactly if it was
applied (`HandleInv`); no call has more authority than those below it
(`FramesShrink`), and a scope that has handles belongs to a running invocation,
whose authority, that of the owner and that of the coordinator bound each of them
(`PreparedInv`; handles survive the calls that prepared them, so this has to follow
them through returns to the end of the invocation, which clears the scope).
`AuthorityOnlyShrinks` is the last two; `WritesAreAuthorized` adds the guards of a
commit. That nobody waits for itself is `Layout` with
`Mutex`: whoever waits for an instance is the top of its stack, and `try_lock`
is used for all plugins below.

`ClientToolsProofs` proves for any handlers, sessions, tools and queue capacity,
from `ClientAssumption`:

- `TypeCorrect`: `Spec => []TypeOK`;
- `AdmittedStaysCallable`: `Spec => []AdmittedIsCallable`;
- `RetirementIsComplete`: `Spec => []RetiredLeavesNothing`.

Neither is inductive, since a tool's admission takes two locks one after the
other. `IInv` says what a handler between them knows: who holds the admissions
lock is at one of four steps (`UnderLock`), what it checked under the lock is
still so (`Adding`), a callable about to be admitted is registered and one about
to be unregistered is in no admission (`Backed`), and while the generation is
retired, an admission that slipped in is followed by whoever has still to forget
them (`Retirement`).

`ApplicationProofs` proves for any sessions, prompts, capacities and restarts,
from `ApplicationConstants` (capacities and the turn limit are positive):

- `TypeCorrect`: `Spec => []TypeOK`, the bounds of both queues included;
- `ProjectionsAgree`: `Spec => []ProjectionFollowsJournal`;
- `UpdatesArrive`: `Spec => []NoUpdateLost`;
- `AnswersAreTrue`: `Spec => []AnswerIsTrue`;
- `AnswersAreFinal`: `Spec => NothingAfterTheAnswer`, an action property.

A handler makes up to three appends and may fail after each, so the argument is
about what is written so far: `Books` relates journals, projections, the queue
and the client's view, and `AppendedExtends` shows that an append keeps it and
extends a journal only by a change of no execution or of one that is not
answered (`Grown`). `NoUpdateLost` becomes inductive with the order and the bound
of queued updates also for sessions the client has not read, and with empty
journals of sessions that do not exist (a new session starts with an empty
snapshot). `AnswerIsTrue` needs `Running`: the prompt that runs in a session is
that session's, is not answered yet and has an active execution. With `Grown` it
says that an answered execution's story never changes, which is
`NothingAfterTheAnswer`.

`LifecycleProofs` proves for any generations, plugins, bindings, listeners,
objects, calls, tasks and explicit stops:

- `LifecycleTypes`: `Spec => []TypeOK`;
- `NoInstanceLeaks`: `Spec => []InstanceAccounting`;
- `NothingStaleIsActive`: `Spec => []ActiveIsCurrent`;
- `ListenersBelong`: `Spec => []OneTopology`;
- `NoOrphanedGuest`: `Spec => []GuestsFollowProvider`;
- `GuestsStopFirst`: `Spec => []RollbackOrder`;
- `NoWorkOutlives`: `Spec => []RetirementCancels`;
- `RetainedWorkSpared`: `Spec => ActiveWorkSpared`, an action property.

`LifecycleAssumption` is what `KernelConfig::new` and the resolver guarantee of a
harness: its order lists every configured plugin once, a guest after its runtime
provider; bindings, listeners and component owners (`component.rs:301`) are configured
plugins; factories and preloaded instances are those of plugins. One more
conjunct is needed: harnesses with equal manifests have equal runtime bindings.
`KernelConfig::new` computes the bindings from the manifests alone
(`registry.rs:350`), and `validate_resolved_harness_configuration` compares
manifests only, so without it `activate_resolved_harness` could change the
provider of a guest that stays.

The properties speak of moments between operations or of one queue; an operation
takes many steps, between which calls and tasks begin and end, so none is
inductive. `IInv` has these parts, checked by TLC on both lifecycle runs before
the proof:

- `Shape` and `Names`: the types, with those of the operation's locals; and that
  whoever refers to an instance (kernel, operation, listener, call, task) knows
  its plugin. A stop cancels by plugin and generation, never by instance, and
  `Names` is what makes that find the work of the instance;
- `Settled`: the kernel as the last operation left it. `StartedFor` and `Follow`
  are `ActiveIsCurrent` and `GuestsFollowProvider` with the generation and the
  table of instances as parameters, so that they can be said of the operation's
  tables too;
- `Plan`, until the commit: `Aimed` (which old instances the operation replaces),
  `Staged` (what is staged and what is still to do; staged instances are not the
  installed ones), `Hosted` (a staged guest runs on an instance staged before it
  or retained) and `Phased`. The commit turns `Staged` and `Hosted` into
  `Settled`;
- `Queue`: what is queued for a stop is not installed, was staged (rollback) or is
  outside the active generation (retirement), and in a rollback a provider comes
  after its guests;
- `Running`: the instances that run are exactly those `Held` by the kernel or the
  operation. `InstanceAccounting` is this when no operation holds any;
- `Ending`: calls are cancelled with the first step of a stop and tasks with the
  second, and work that begins on an instance being stopped is late.

The proof has a lemma per action (`WorkFrame`, `PlanFrame`, `NamesFrame` and
`StopFrame` are the parts that several share). What the lists of the code do is
proved once: `KeptPlaces` says that a filter returns the elements at the
positions it keeps, in their order, and `RollbackQueue` and `RetirementQueue`
what the two queues hold. `RestartClosure` and `RequestedPlugins` say why an
instance may be retained: what is outside the closure has an unchanged manifest,
unchanged components and a provider outside. `RetainedWorkSpared` follows since
the three steps that cancel under a queue's generation name a plugin of which no
installed instance has work in the active one.

`GraphReconcilerProofs` proves `RestartSetIsRight`: `Spec => []RestartsDependents`,
for any set of components and any order of their ids, from `OrderAssumption` (the
order lists the components once). `Restarts` visits the changed components in
that order and skips what an earlier visit already marked; `VisitAdds`,
`VisitWithin` and `VisitCloses` say what one visit adds, keeps within and closes,
and `RestartsReached` and `RestartsVisited` carry it over all visits by a least
counterexample among their numbers.

Only model-checked: `DiffExact` and `ObserversCatchUp` of `Observable`, whose
diffs are folds over lists of mutations of any length and need an induction over
data that the provers cannot make (the library's rules take a predicate as a
parameter, and here the least-counterexample device above would have to be
carried through every operator of `ValueChanges`); liveness under fairness and
the absence of deadlock, which are out of the prover's reach; and the runs that
show a divergence.

## Not modelled

Listed with reasons in `PROJECT.json`. Inside the modelled parts: wording of
errors and traces; the kernel-event channel; metadata policies of
reconciliation; binding, interposition and resource differences, which restart
nothing; durable schemas and plain durable transactions of plugins; `TaskHandle`
and unowned tasks; artifacts and routing of attempts; several sessions,
selections and authentication in the application; a disconnection in the middle
of a handler. A listener or a service call that makes another plugin spawn a task
is represented by a spawn of the plugin itself. Causality ids, revisions, objects,
attempts, requests and prompts are bounded by the `Max` constants; the wrap-around
of 64-bit counters is left out. `Steps` has the service commands that the step
runner and delegation use: direct settlement and release of a reservation and the
separate abort and settle commands of an attempt have no other caller than tests.
The code stores a delegated task in the state its caller gives; the model always
as pending. The schemas of the observable store are taken as
obeyed: options, variants and fixed arrays are not told apart from keys, fields
and lists.

Most of the repository's lines are not state machines: contracts and codecs,
macros and bindings, provider clients, wiring, manifests and tests. A model of
those would repeat them, so the map covers a small share of all lines and a large
one of those in which steps of several actors meet.

## Plan

1. Durable persistence as a detailed store that implements an abstract atomic
   one; the jobs and session-tree plugins over it.
2. Registry order and provider choice against reference definitions; metadata
   reload policies.

Theorem still worth having: that an observer of the store catches up, given that
`canonicalize_root` is exact; the second half is the induction over mutations
named above.
