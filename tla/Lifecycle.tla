----------------------------- MODULE Lifecycle ------------------------------
(***************************************************************************)
(* Plugin lifecycle in the phenix-core kernel: activation, live            *)
(* reconciliation with staging, rollback and retirement, explicit stop     *)
(* (runtime/kernel.rs, runtime/reconciliation.rs, live_reconciliation.rs,  *)
(* activation.rs), with the live calls and owned tasks that run beside it  *)
(* (tasks.rs, runtime/listener.rs).                                        *)
(*                                                                         *)
(* Kernel operations hold the kernel mutably, so one runs at a time: op is *)
(* the operation in progress and its locals.  Listener calls run on the    *)
(* delivery threads of the event bus and tasks on threads of their own,    *)
(* so their steps fall between any two steps of the operation.             *)
(*                                                                         *)
(* A graph generation id is the content hash of its harness, so the key of *)
(* Harness is the generation, and an earlier one may become active again.  *)
(***************************************************************************)
EXTENDS TransitionPlan, Integers

CONSTANTS
  Harness,        \* generation -> harness, see TransitionPlan; here also
                  \*   order      activation_order
                  \*   listeners  plugins that own a resolved listener
  Initial,        \* the generation whose KernelConfig the kernel starts with
  PluginOrder,    \* plugin ids in the order of the kernel's BTreeMaps
  ComponentOrder, \* component ids likewise
  Factories,      \* plugins with an embedded factory
  Preloaded,      \* plugins with one preloaded embedded instance
  Calls,          \* slots for listener calls
  Tasks,          \* slots for owned tasks
  MaxObjects,     \* bound on plugin instance objects
  MaxStops,       \* bound on calls of Kernel::stop
  None

Generations == DOMAIN Harness
Plugins == ToSet(PluginOrder)
Objects == 1..MaxObjects
Configured(g) == DOMAIN Harness[g].manifests
Execution(g, p) == Harness[g].manifests[p].execution

ASSUME LifecycleAssumption ==
  /\ Initial \in Generations
  /\ None \notin Generations /\ None \notin Plugins /\ None \notin Objects
  /\ MaxObjects \in Nat /\ MaxStops \in Nat
  /\ PluginOrder \in Seq(Plugins) /\ IsInjective(PluginOrder)
  /\ ComponentOrder \in Seq(ToSet(ComponentOrder))
  /\ Factories \cup Preloaded \subseteq Plugins
  /\ \A g \in Generations :
       /\ Configured(g) \subseteq Plugins
       /\ Harness[g].order \in Seq(Configured(g))
       /\ ToSet(Harness[g].order) = Configured(g)
       /\ IsInjective(Harness[g].order)
       /\ \A p \in Configured(g) :
            Execution(g, p) = "runtime" <=> p \in DOMAIN Harness[g].bindings
       /\ \A i, j \in DOMAIN Harness[g].order :
            Harness[g].order[i] \in DOMAIN Harness[g].bindings
              /\ Harness[g].bindings[Harness[g].order[i]] = Harness[g].order[j]
                => j < i
       /\ \A p \in DOMAIN Harness[g].bindings :
            p \in Configured(g) /\ Harness[g].bindings[p] \in Configured(g)
       /\ \A c \in DOMAIN Harness[g].components :
            /\ c \in ToSet(ComponentOrder)
            /\ Harness[g].components[c].owner \in Configured(g)
       /\ Harness[g].listeners \subseteq Configured(g)
  /\ \A g, h \in Generations :
       Harness[g].manifests = Harness[h].manifests
         => Harness[g].bindings = Harness[h].bindings

VARIABLES
  generation,     \* Kernel.graph_generation, with its component graph
  config,         \* Kernel.config, as a generation that has the same one
  state,          \* Kernel.states
  instance,       \* Kernel.instances: plugin -> object or None
  preloaded,      \* Kernel.prepared_embedded_instances
  runtimeActive,  \* Kernel.runtime_active
  subscriptions,  \* the listeners installed in the event bus
  reconciler,     \* GraphReconciler.active
  op,             \* the kernel operation in progress
  object,         \* every PluginInstance made so far
  call,           \* TaskRuntime.calls, those of listeners
  task,           \* TaskRuntime.owned
  stops           \* how often Kernel::stop has been called

kernel == <<generation, config, state, instance, runtimeActive, subscriptions,
            reconciler>>
work == <<call, task>>
vars == <<kernel, preloaded, op, object, work, stops>>

NoOp == [kind |-> "idle"]
Unborn == [life |-> "unborn", plugin |-> None, born |-> None,
           provider |-> None, retired |-> None]
NoCall == [phase |-> "free", plugin |-> None, generation |-> None,
           object |-> None, cancelled |-> FALSE, late |-> FALSE]
NoTask == NoCall

Idle == op.kind = "idle"
Unused == {i \in Objects : object[i].life = "unborn"}
Installed(i) == \E p \in Plugins : instance[p] = i
Retiring(i) == object[i].life \in {"stopping", "stopped", "failed"}

\* The elements of list at the positions in keep, in their order.
Kept(list, keep) ==
  LET upTo[n \in 0 .. Len(list)] ==
        IF n = 0 THEN <<>>
        ELSE IF n \in keep THEN Append(upTo[n - 1], list[n])
        ELSE upTo[n - 1]
  IN upTo[Len(list)]

-----------------------------------------------------------------------------
(* TaskRuntime *)

\* Mutant of CancelCalls: a call of any generation.
CancelCallsAll(p, g) ==
  [c \in Calls |->
     IF call[c].phase = "running" /\ call[c].plugin = p
     THEN [call[c] EXCEPT !.cancelled = TRUE] ELSE call[c]]

\* cancel_calls: the live calls of this plugin in this generation.
CancelCalls(p, g) ==
  [c \in Calls |->
     IF /\ call[c].phase = "running"
        /\ call[c].plugin = p /\ call[c].generation = g
     THEN [call[c] EXCEPT !.cancelled = TRUE] ELSE call[c]]

\* cancel_plugin_generation; without a generation nothing is cancelled.
CancelPluginGeneration(p, g) ==
  [t \in Tasks |->
     IF /\ g # None /\ task[t].phase = "running"
        /\ task[t].plugin = p /\ task[t].generation = g
     THEN [task[t] EXCEPT !.cancelled = TRUE] ELSE task[t]]

\* A delivery thread past the revision check of the bus holds the listener.
CaptureListener(c, s) ==
  /\ call[c].phase = "free" /\ s \in subscriptions
  /\ call' = [call EXCEPT ![c] =
       [phase |-> "captured", plugin |-> s.plugin, generation |-> s.generation,
        object |-> s.object, cancelled |-> FALSE, late |-> FALSE]]
  /\ UNCHANGED <<kernel, preloaded, op, object, task, stops>>

\* ScopedPluginListener::run: begin_call under the listener's generation.
BeginCall(c) ==
  /\ call[c].phase = "captured"
  /\ call' = [call EXCEPT ![c].phase = "running",
                          ![c].late = Retiring(call[c].object)]
  /\ UNCHANGED <<kernel, preloaded, op, object, task, stops>>

\* The token is checked once the handler has returned; then finish_call.
FinishCall(c) ==
  /\ call[c].phase = "running"
  /\ call' = [call EXCEPT ![c].phase =
                IF call[c].cancelled THEN "rejected" ELSE "accepted"]
  /\ UNCHANGED <<kernel, preloaded, op, object, task, stops>>

\* TaskScope::spawn by plugin p in generation g, on behalf of object i.
Spawn(t, p, g, i) ==
  /\ task[t].phase = "free" /\ g # None
  /\ task' = [task EXCEPT ![t] =
       [phase |-> "running", plugin |-> p, generation |-> g, object |-> i,
        cancelled |-> FALSE, late |-> Retiring(i)]]
  /\ UNCHANGED <<kernel, preloaded, op, object, call, stops>>

\* Tasks are spawned in a service call on the idle kernel, by a listener, by
\* the instance inside start, by a plugin that start or prepare calls through
\* the host, and by the instance inside stop.
InvokeSpawns(t, p) ==
  Idle /\ instance[p] # None /\ Spawn(t, p, generation, instance[p])
CallSpawns(t, c) ==
  /\ call[c].phase = "running"
  /\ Spawn(t, call[c].plugin, call[c].generation, call[c].object)
StartSpawns(t) ==
  /\ ~ Idle /\ op.phase = "start"
  /\ Spawn(t, Head(op.todo), op.generation, op.current)

\* prepare runs on the provider's instance of the operation.
Preparing ==
  /\ op.phase = "stage" /\ op.todo # <<>>
  /\ Head(op.todo) \in DOMAIN Harness[op.target].bindings
  /\ op.instance[Harness[op.target].bindings[Head(op.todo)]] # None

HostSpawns(t, p) ==
  /\ ~ Idle /\ (op.phase = "start" \/ Preparing)
  /\ op.instance[p] # None /\ Spawn(t, p, op.generation, op.instance[p])
StopSpawns(t) ==
  \/ /\ op.kind \in {"activate", "reconcile"} /\ op.queue # <<>>
     /\ op.step = "stop"
     /\ Spawn(t, object[Head(op.queue)].plugin, op.stopGeneration, Head(op.queue))
  \/ /\ op.kind = "stop" /\ op.phase = "stop" /\ instance[op.plugin] # None
     /\ Spawn(t, op.plugin, generation, instance[op.plugin])

EndTask(t) ==
  /\ task[t].phase = "running"
  /\ task' = [task EXCEPT ![t].phase = "ended"]
  /\ UNCHANGED <<kernel, preloaded, op, object, call, stops>>

-----------------------------------------------------------------------------
(* Starting an operation *)

\* validate_resolved_harness_configuration compares plugin manifests, not
\* component manifests.
SameConfiguration(g, h) == Harness[g].manifests = Harness[h].manifests

\* activate_resolved_harness: the kernel is configured as the harness is, and
\* no other generation is active.
ActivateResolvedHarness(g) ==
  /\ Idle /\ SameConfiguration(config, g) /\ generation = None
  /\ generation' = g /\ config' = g
  /\ UNCHANGED <<state, instance, runtimeActive, subscriptions,
                 reconciler, preloaded, op, object, work, stops>>

AllActive == \A p \in Configured(config) : state[p] = "active"
AnyActive == \E p \in Configured(config) : state[p] = "active"

\* The activation order without the plugins that are active already.
ToStage(g, states) ==
  LET order == Harness[g].order
  IN Kept(order, {n \in DOMAIN order : states[order[n]] # "active"})

\* An operation starts when the bound on objects allows it to end.
Bounded(o) == Len(o.todo) <= Cardinality(Unused)

Operation(kind, target, g, states, instances, todo, restart) ==
  [kind |-> kind, phase |-> "stage", target |-> target, generation |-> g,
   state |-> states, instance |-> instances, todo |-> todo, staged |-> <<>>,
   current |-> None, queue |-> <<>>, step |-> "calls",
   stopGeneration |-> None, restart |-> restart]

\* activate_all up to its staging loop.
BeginActivateAll ==
  /\ Idle /\ ~ (runtimeActive /\ AllActive)
  /\ LET states == [p \in Plugins |->
               IF p \notin Configured(config) THEN "absent"
               ELSE IF runtimeActive THEN state[p] ELSE "registered"]
         instances == [p \in Plugins |->
               IF runtimeActive THEN instance[p] ELSE None]
     IN op' = Operation("activate", config, generation, states, instances,
                        ToStage(config, states), {})
  /\ Bounded(op')
  /\ UNCHANGED <<kernel, preloaded, object, work, stops>>

\* activate_candidate_on_kernel up to the staging loop of
\* reconcile_resolved_generation: preflight, plan, restart closure, and the
\* instances that are retained.  A changed manifest is in the closure.
BeginReconcile(g) ==
  /\ Idle /\ generation # None
  /\ generation = reconciler /\ SameConfiguration(config, reconciler)
  /\ IF runtimeActive THEN AllActive ELSE ~ AnyActive
  /\ LET requested == RestartPlugins(Harness[reconciler], Harness[g],
                                     ComponentOrder)
         restart == RuntimeRestartClosure(Harness[config], Harness[g], requested)
         retained == {p \in Configured(g) \ restart : runtimeActive}
         states == [p \in Plugins |->
               IF p \in retained THEN "active"
               ELSE IF p \in Configured(g) THEN "registered" ELSE "absent"]
         instances == [p \in Plugins |->
               IF p \in retained THEN instance[p] ELSE None]
     IN op' = Operation("reconcile", g, g, states, instances,
                        IF runtimeActive THEN ToStage(g, states) ELSE <<>>,
                        restart)
  /\ Bounded(op')
  /\ UNCHANGED <<kernel, preloaded, object, work, stops>>

\* GraphReconciler::reconcile and its variants move the reconciler without a
\* kernel; from then on the preflight of a live reconciliation fails.
ReconcilerActivates(g) ==
  /\ Idle /\ generation # None
  /\ reconciler' = g
  /\ UNCHANGED <<generation, config, state, instance, runtimeActive,
                 subscriptions, preloaded, op, object, work, stops>>

-----------------------------------------------------------------------------
(* Staging *)

Instances(plugins) ==
  LET started == Kept(plugins,
        {n \in DOMAIN plugins : op.instance[plugins[n]] # None})
  IN [n \in DOMAIN started |-> op.instance[started[n]]]

\* Mutant of CleanupQueue: the order of activation.
CleanupForward == Instances(op.staged)

\* cleanup_staged: the staged plugins that have an instance, last one first.
CleanupQueue == Instances(Reverse(op.staged))

Fails ==
  op' = [op EXCEPT !.phase = "cleanup", !.queue = CleanupQueue,
                   !.stopGeneration = op.generation, !.current = None]

Staging(execution) ==
  /\ ~ Idle /\ op.phase = "stage" /\ op.todo # <<>>
  /\ Execution(op.target, Head(op.todo)) = execution

\* A plugin without code becomes active at once.
StageResourceOnly ==
  /\ Staging("resource")
  /\ op' = [op EXCEPT !.state[Head(op.todo)] = "active",
                      !.staged = Append(@, Head(op.todo)),
                      !.todo = Tail(@)]
  /\ UNCHANGED <<kernel, preloaded, object, work, stops>>

\* A new object is about to be started with a host of op's generation.
Construct(p, provider) ==
  LET i == CHOOSE n \in Unused : \A m \in Unused : n <= m IN
  /\ object' = [object EXCEPT ![i] =
       [life |-> "starting", plugin |-> p, born |-> op.generation,
        provider |-> provider, retired |-> None]]
  /\ op' = [op EXCEPT !.phase = "start", !.current = i]

\* take_embedded_instance: the preloaded instance, else the factory.
StageEmbedded ==
  LET p == Head(op.todo) IN
  /\ Staging("embedded")
  /\ \/ p \in preloaded \cup Factories /\ Construct(p, None)
     \/ p \notin preloaded \cup Factories /\ Fails /\ UNCHANGED object
  /\ preloaded' = preloaded \ {p}
  /\ UNCHANGED <<kernel, work, stops>>

\* prepare_with_host on the provider's instance of this operation.
StageGuest(ok) ==
  LET p == Head(op.todo)
      provider == op.instance[Harness[op.target].bindings[p]]
  IN
  /\ Staging("runtime")
  /\ \/ ok /\ provider # None /\ Construct(p, provider)
     \/ ~ (ok /\ provider # None) /\ Fails /\ UNCHANGED object
  /\ UNCHANGED <<kernel, preloaded, work, stops>>

\* start has returned Ok.
StartSucceeds ==
  LET p == Head(op.todo) IN
  /\ ~ Idle /\ op.phase = "start"
  /\ object' = [object EXCEPT ![op.current].life = "started"]
  /\ op' = [op EXCEPT !.phase = "stage", !.current = None,
                      !.instance[p] = op.current, !.state[p] = "active",
                      !.staged = Append(@, p), !.todo = Tail(@)]
  /\ UNCHANGED <<kernel, preloaded, work, stops>>

\* start has failed or panicked: its tasks are cancelled, the object dropped.
StartFails ==
  /\ ~ Idle /\ op.phase = "start"
  /\ object' = [object EXCEPT ![op.current].life = "failed",
                              ![op.current].retired = op.generation]
  /\ task' = CancelPluginGeneration(Head(op.todo), op.generation)
  /\ Fails
  /\ UNCHANGED <<kernel, preloaded, call, stops>>

\* stage_listener_subscriptions: every owner of a listener has an instance,
\* and its handler can be bound.  A kernel without a generation still has the
\* empty graph, which has no listeners.
BindListeners(ok) ==
  LET listeners == IF op.generation = None THEN {}
                   ELSE Harness[op.target].listeners
      bound == \/ listeners = {}
               \/ ok /\ \A p \in listeners : op.instance[p] # None
  IN
  /\ ~ Idle /\ op.phase = "stage" /\ op.todo = <<>>
  /\ \/ bound /\ op' = [op EXCEPT !.phase = "commit"]
     \/ ~ bound /\ Fails
  /\ UNCHANGED <<kernel, preloaded, object, work, stops>>

-----------------------------------------------------------------------------
(* Commit, retirement and rollback *)

\* Mutant of Listeners: those of retained instances stay as they are.
ListenersKept ==
  LET kept == {s \in subscriptions : op.instance[s.plugin] = s.object}
      added == Harness[op.target].listeners \ {s.plugin : s \in kept}
  IN IF op.generation = None THEN {}
     ELSE kept \cup
       {[plugin |-> p, generation |-> op.generation, object |-> op.instance[p]] :
          p \in added}

\* The listeners of op's generation, bound to the instances it installs.
Listeners ==
  IF op.generation = None THEN {}
  ELSE {[plugin |-> p, generation |-> op.generation, object |-> op.instance[p]] :
          p \in Harness[op.target].listeners}

\* The old instances of these plugins, in the order of their ids.
InstancesOf(plugins) ==
  LET retired == Kept(PluginOrder,
        {n \in DOMAIN PluginOrder :
           PluginOrder[n] \in plugins /\ instance[PluginOrder[n]] # None})
  IN [n \in DOMAIN retired |-> instance[retired[n]]]

\* Mutant of RetiredQueue: only what the candidate no longer configures.
RetiredRemoved == InstancesOf(Configured(config) \ Configured(op.target))

\* Old plugins that changed, went away or restart.
Retired ==
  {p \in Configured(config) :
     \/ ~ Same(Harness[config].manifests, Harness[op.target].manifests, p)
     \/ p \in op.restart}

RetiredQueue == InstancesOf(Retired)

\* The swap at the end of activate_all, where no instance is replaced.
CommitActivation ==
  /\ op.kind = "activate" /\ op.phase = "commit"
  /\ subscriptions' = Listeners
  /\ state' = op.state /\ instance' = op.instance /\ runtimeActive' = TRUE
  /\ op' = NoOp
  /\ UNCHANGED <<generation, config, reconciler, preloaded, object, work, stops>>

\* Mutant of CommitReconciliation: the old instances are stopped under the
\* generation that is in force after the swap.
CommitReconciliationLate ==
  /\ op.kind = "reconcile" /\ op.phase = "commit"
  /\ subscriptions' = Listeners
  /\ config' = op.target /\ generation' = op.generation
  /\ state' = op.state /\ instance' = op.instance
  /\ op' = [op EXCEPT !.phase = "retire", !.queue = RetiredQueue,
                      !.stopGeneration = op.generation]
  /\ UNCHANGED <<runtimeActive, reconciler, preloaded, object, work, stops>>

\* The swap of reconcile_resolved_generation.  Listeners are replaced before
\* the kernel's fields, which nobody else can read until it returns.
CommitReconciliation ==
  /\ op.kind = "reconcile" /\ op.phase = "commit"
  /\ subscriptions' = Listeners
  /\ config' = op.target /\ generation' = op.generation
  /\ state' = op.state /\ instance' = op.instance
  /\ op' = [op EXCEPT !.phase = "retire", !.queue = RetiredQueue,
                      !.stopGeneration = generation]
  /\ UNCHANGED <<runtimeActive, reconciler, preloaded, object, work, stops>>

Stopping == ~ Idle /\ op.phase \in {"cleanup", "retire"} /\ op.queue # <<>>

\* The generation an instance of the queue belonged to: until the operation
\* returns, the reconciler still has the one that a transition replaces.
LastGeneration == IF op.phase = "retire" THEN reconciler ELSE op.generation

\* StopView::stop, first step: cancel_calls.
StopCancelsCalls ==
  LET i == Head(op.queue) IN
  /\ Stopping /\ op.step = "calls"
  /\ call' = CancelCalls(object[i].plugin, op.stopGeneration)
  /\ object' = [object EXCEPT ![i].life = "stopping",
                              ![i].retired = LastGeneration]
  /\ op' = [op EXCEPT !.step = "tasks"]
  /\ UNCHANGED <<kernel, preloaded, task, stops>>

\* Second step: cancel_plugin_generation.
StopCancelsTasks ==
  /\ Stopping /\ op.step = "tasks"
  /\ task' = CancelPluginGeneration(object[Head(op.queue)].plugin,
                                    op.stopGeneration)
  /\ op' = [op EXCEPT !.step = "stop"]
  /\ UNCHANGED <<kernel, preloaded, object, call, stops>>

\* Third step: the instance's stop, whose result is ignored.
StopInstance ==
  /\ Stopping /\ op.step = "stop"
  /\ object' = [object EXCEPT ![Head(op.queue)].life = "stopped"]
  /\ op' = [op EXCEPT !.step = "calls", !.queue = Tail(@)]
  /\ UNCHANGED <<kernel, preloaded, work, stops>>

\* The operation has failed; the kernel is as it was.
ReturnError ==
  /\ ~ Idle /\ op.phase = "cleanup" /\ op.queue = <<>>
  /\ op' = NoOp
  /\ UNCHANGED <<kernel, preloaded, object, work, stops>>

\* Reconciliation has succeeded; the reconciler follows the kernel.
ReturnReconciled ==
  /\ ~ Idle /\ op.phase = "retire" /\ op.queue = <<>>
  /\ reconciler' = op.target
  /\ op' = NoOp
  /\ UNCHANGED <<generation, config, state, instance, runtimeActive,
                 subscriptions, preloaded, object, work, stops>>

-----------------------------------------------------------------------------
(* Kernel::stop *)

BeginStop(p) ==
  /\ Idle /\ p \in Configured(config) /\ stops < MaxStops
  /\ call' = CancelCalls(p, generation)
  /\ object' = IF instance[p] = None THEN object
               ELSE [object EXCEPT ![instance[p]].life = "stopping",
                                   ![instance[p]].retired = generation]
  /\ op' = [kind |-> "stop", phase |-> "tasks", plugin |-> p]
  /\ stops' = stops + 1
  /\ UNCHANGED <<kernel, preloaded, task>>

StopTasks ==
  /\ op.kind = "stop" /\ op.phase = "tasks"
  /\ task' = CancelPluginGeneration(op.plugin, generation)
  /\ op' = [op EXCEPT !.phase = "stop"]
  /\ UNCHANGED <<kernel, preloaded, object, call, stops>>

\* An instance that refuses to stop stays installed and active.
StopReturns(ok) ==
  LET p == op.plugin
      i == instance[p]
  IN
  /\ op.kind = "stop" /\ op.phase = "stop"
  /\ i = None => ok
  /\ object' = IF i = None THEN object
               ELSE [object EXCEPT ![i].life = IF ok THEN "stopped" ELSE "refused"]
  /\ instance' = IF ok THEN [instance EXCEPT ![p] = None] ELSE instance
  /\ state' = IF ok THEN [state EXCEPT ![p] = "stopped"] ELSE state
  /\ op' = NoOp
  /\ UNCHANGED <<generation, config, runtimeActive, subscriptions, reconciler,
                 preloaded, work, stops>>

-----------------------------------------------------------------------------
Init ==
  /\ generation = None /\ config = Initial /\ reconciler = Initial
  /\ state = [p \in Plugins |->
                IF p \in Configured(Initial) THEN "registered" ELSE "absent"]
  /\ instance = [p \in Plugins |-> None]
  /\ preloaded = Preloaded /\ runtimeActive = FALSE /\ subscriptions = {}
  /\ op = NoOp
  /\ object = [i \in Objects |-> Unborn]
  /\ call = [c \in Calls |-> NoCall] /\ task = [t \in Tasks |-> NoTask]
  /\ stops = 0

Requests ==
  \/ BeginActivateAll
  \/ \E g \in Generations : \/ ActivateResolvedHarness(g) \/ BeginReconcile(g)
                            \/ ReconcilerActivates(g)
  \/ \E p \in Plugins : BeginStop(p)

OperationStep ==
  \/ StageResourceOnly \/ StageEmbedded \/ StartSucceeds \/ StartFails
  \/ \E ok \in BOOLEAN : StageGuest(ok) \/ BindListeners(ok) \/ StopReturns(ok)
  \/ CommitActivation \/ CommitReconciliation
  \/ StopCancelsCalls \/ StopCancelsTasks \/ StopInstance
  \/ ReturnError \/ ReturnReconciled \/ StopTasks

WorkStep ==
  \/ \E c \in Calls : \/ \E s \in subscriptions : CaptureListener(c, s)
                      \/ BeginCall(c) \/ FinishCall(c)
  \/ \E t \in Tasks : \/ \E p \in Plugins : InvokeSpawns(t, p)
                      \/ \E c \in Calls : CallSpawns(t, c)
                      \/ \E p \in Plugins : HostSpawns(t, p)
                      \/ StartSpawns(t) \/ StopSpawns(t) \/ EndTask(t)

Next == Requests \/ OperationStep \/ WorkStep

Spec == Init /\ [][Next]_vars
-----------------------------------------------------------------------------
(* Properties *)

States == {"absent", "registered", "active", "stopped"}
Lives == {"unborn", "starting", "started", "stopping", "stopped", "refused",
          "failed"}
WorkRecords ==
  [phase : {"free", "captured", "running", "accepted", "rejected", "ended"},
   plugin : Plugins \cup {None}, generation : Generations \cup {None},
   object : Objects \cup {None}, cancelled : BOOLEAN, late : BOOLEAN]

\* Every variable stays in its type, and an operation's locals too.
TypeOK ==
  /\ generation \in Generations \cup {None}
  /\ config \in Generations /\ reconciler \in Generations
  /\ state \in [Plugins -> States]
  /\ instance \in [Plugins -> Objects \cup {None}]
  /\ preloaded \subseteq Plugins /\ runtimeActive \in BOOLEAN
  /\ subscriptions \subseteq [plugin : Plugins, generation : Generations,
                              object : Objects]
  /\ object \in [Objects -> [life : Lives, plugin : Plugins \cup {None},
                             born : Generations \cup {None},
                             provider : Objects \cup {None},
                             retired : Generations \cup {None}]]
  /\ call \in [Calls -> WorkRecords] /\ task \in [Tasks -> WorkRecords]
  /\ stops \in 0..MaxStops
  /\ op.kind \in {"idle", "activate", "reconcile", "stop"}
  /\ op.kind \in {"activate", "reconcile"} =>
       /\ op.state \in [Plugins -> States]
       /\ op.instance \in [Plugins -> Objects \cup {None}]
       /\ op.current \in Objects \cup {None}

\* Between operations the instances that have been started and not stopped are
\* exactly the installed ones: a failed activation or transition stops all it
\* staged, a successful one stops all it replaced, and nothing is stopped that
\* stays installed, unless Kernel::stop was refused by the instance.
InstanceAccounting ==
  Idle => \A i \in Objects :
            object[i].life \in {"started", "refused"} <=> Installed(i)

\* Between operations every installed listener belongs to the generation of
\* the kernel's graph and, while its plugin is active, to the instance that
\* serves it; the listeners are those of that generation or none at all.
OneTopology ==
  Idle => /\ \A s \in subscriptions :
               /\ s.generation = generation
               /\ state[s.plugin] = "active" => instance[s.plugin] = s.object
          /\ \/ subscriptions = {}
             \/ {s.plugin : s \in subscriptions} = Harness[generation].listeners

\* What an instance was started with: its manifest and, if the kernel had a
\* graph then, the manifests of its own components.
Current(i, p) ==
  LET born == object[i].born
      manifests == Harness[IF born = None THEN Initial ELSE born].manifests
  IN
  /\ Same(manifests, Harness[config].manifests, p)
  /\ born # None => \A c \in DOMAIN Harness[config].components :
       Harness[config].components[c].owner = p =>
         Same(Harness[born].components, Harness[config].components, c)

\* Between operations an active plugin runs an instance that was started with
\* the manifest and the component manifests that are configured now, however
\* many transitions have retained it; plugins without code have none.
ActiveIsCurrent ==
  Idle => \A p \in Configured(config) : state[p] = "active" =>
    IF Execution(config, p) = "resource" THEN instance[p] = None
    ELSE instance[p] # None /\ Current(instance[p], p)

\* As long as nothing is stopped explicitly, an active guest was prepared by
\* the instance of its runtime provider that is installed now: the restart
\* closure takes the guests of a replaced provider along.
GuestsFollowProvider ==
  Idle /\ stops = 0 =>
    \A p \in DOMAIN Harness[config].bindings : instance[p] # None =>
      object[instance[p]].provider = instance[Harness[config].bindings[p]]

\* A rollback stops a staged guest before the staged provider it runs on.
RollbackOrder ==
  ~ Idle /\ op.phase = "cleanup" =>
    \A i \in Objects :
      /\ object[i].life \in {"started", "stopping"} /\ object[i].provider # None
      /\ object[i].plugin \in ToSet(op.staged)
      /\ op.instance[object[i].plugin] = i
      => object[object[i].provider].life \notin {"stopped", "failed"}

\* A call or a task that began before its instance was stopped or dropped, in
\* the generation the instance was retired from, does not run on uncancelled:
\* StopView::stop and the failure path of start cancel under the right key.
RetirementCancels ==
  \A i \in Objects : object[i].life \in {"stopped", "failed"} =>
    \A w \in Range(call) \cup Range(task) :
      /\ w.phase = "running" /\ w.object = i /\ ~ w.late
      /\ w.generation = object[i].retired
      => w.cancelled

Cancelled(before, after) == ~ before.cancelled /\ after.cancelled

\* No transition, failed or not, cancels a call or a task that an instance
\* which stays installed has begun in the active generation.
ActiveWorkSpared ==
  [][op.kind # "stop" /\ stops' = stops =>
       /\ \A c \in Calls : Cancelled(call[c], call'[c]) =>
            ~ (Installed(call[c].object) /\ call[c].generation = generation)
       /\ \A t \in Tasks : Cancelled(task[t], task'[t]) =>
            ~ (Installed(task[t].object) /\ task[t].generation = generation)]_vars

\* runtime/reconciliation.rs: "a start failure leaves the previously active
\* generation untouched".  Tasks are cancelled by plugin and generation id, and
\* a candidate may have the id under which a retained instance began them.
FailureLeavesActiveUntouched ==
  [][~ Idle /\ op.phase = "start" =>
       \A t \in Tasks : Cancelled(task[t], task'[t]) =>
         ~ Installed(task[t].object)]_vars

\* spec/plugin-threading.md: "Stopping or replacing a Plugin generation cancels
\* its matching live calls and owned tasks."  Work that a retained instance
\* began in an earlier generation is not found when the instance is replaced.
ReplacedWorkCancelled ==
  \A i \in Objects : object[i].life = "stopped" =>
    \A w \in Range(call) \cup Range(task) :
      w.phase = "running" /\ w.object = i /\ ~ w.late => w.cancelled
=============================================================================
