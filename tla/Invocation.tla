----------------------------- MODULE Invocation -----------------------------
(***************************************************************************)
(* Service dispatch inside one kernel: resolved chains of layers and a     *)
(* terminal, the host a plugin calls back into, the instance locks, and    *)
(* the prepared mutations of an invocation                                 *)
(* (phenix-core: runtime/dispatch.rs, runtime/host.rs, prepared_mutation.rs *)
(* and the resolution of registry.rs).                                     *)
(*                                                                         *)
(* Kernel::invoke, invoke_component, stop and the reconciliation take      *)
(* &mut self, so the thread Kernel does one of them at a time.  The        *)
(* deliveries of the event bus run listeners on threads of their own, each *)
(* with the configuration, states and instances its subscription was bound *)
(* with, and without the lock of the listener's plugin.                    *)
(*                                                                         *)
(* A thread is a stack of frames, one for each plugin call in progress.    *)
(* The call stack, the active services and the active component endpoints  *)
(* a host hands down are those of the frames below.                        *)
(*                                                                         *)
(* A refused operation that changes no state is not an action.             *)
(***************************************************************************)
EXTENDS Naturals, Sequences, FiniteSets, SequencesExt

CONSTANTS
    Plugins,
    Legacy,      \* plugins without shared_invocation: a call holds the lock
    Hooked,      \* generated plugins with a stop hook
    Services,
    Owner,       \* Owner[c]: the plugin of component c
    Terminal,    \* Terminal[s]: terminals in order of priority, with what
                 \* each requires of the caller
    Layers,      \* Layers[s]: layers in order, each with plugin, requirement
                 \* of the caller and whether the policy requires it
    Imports,     \* Imports[p]: typed imports: service and provider plan
                 \* (primary first), each provider with its authority
    Roots,       \* what clients ask of the kernel: a service, and the
                 \* component endpoint or None
    Abi,         \* the services that plugins invoke by name
    Ceiling,     \* Ceiling[p]: maximum_authority of the manifest
    Caps,        \* capabilities
    Kernel,
    Deliveries,  \* threads that run listeners
    Listeners,   \* plugins that own a listener
    MaxHandles,  \* bound on prepared mutations
    MaxRetired,  \* bound on stops and replacements
    None

Write == "write"
Threads == {Kernel} \cup Deliveries
Handles == 1 .. MaxHandles
Components == DOMAIN Owner

ASSUME ConstantsAssumption ==
    /\ Legacy \subseteq Plugins /\ Listeners \subseteq Plugins
    /\ Hooked \subseteq Plugins \ Legacy
    /\ Write \in Caps /\ Kernel \notin Deliveries
    /\ \A c \in Components : Owner[c] \in Plugins
    /\ \A p \in Plugins : Ceiling[p] \subseteq Caps
    /\ MaxHandles \in Nat /\ MaxRetired \in Nat

\* What composition resolves: every name is one of a plugin, a component or
\* a service of the graph.
ASSUME GraphAssumption ==
    /\ Abi \subseteq Services
    /\ \A s \in Services :
          /\ Terminal[s] \in Seq([plugin : Plugins, needs : SUBSET Caps])
          /\ Layers[s] \in Seq([plugin : Plugins, needs : SUBSET Caps,
                               required : BOOLEAN])
    /\ \A p \in Plugins : Imports[p] \subseteq
          [service : Services,
           plan : Seq([component : Components, auth : SUBSET Caps])]
    /\ Roots \subseteq [component : Components \cup {None}, service : Services]

VARIABLES
    stack,     \* stack[t]: the frames of thread t, outermost first
    prepared,  \* prepared[t]: PreparedMutationScope of t's invocation
    coords,    \* coords[t]: its coordinators, innermost last
    view,      \* view[t]: whether t works on the "old" or the "new" graph
    retired,   \* the plugins stopped and replaced so far
    fate,      \* fate[h]: what became of handle h
    writes     \* writes[h]: how often the backend was given h's mutation

vars == <<stack, prepared, coords, view, retired, fate, writes>>

Init ==
    /\ stack = [t \in Threads |-> <<>>]
    /\ prepared = [t \in Threads |-> <<>>]
    /\ coords = [t \in Threads |-> <<>>]
    /\ view = [t \in Threads |-> "old"]
    /\ retired = {}
    /\ fate = [h \in Handles |-> "unused"]
    /\ writes = [h \in Handles |-> 0]

-----------------------------------------------------------------------------
(* What a thread sees.                                                     *)

Top(t) == stack[t][Len(stack[t])]
Below(t) == {stack[t][k] : k \in 1 .. Len(stack[t]) - 1}
Frames(t) == {stack[t][k] : k \in 1 .. Len(stack[t])}

Running(t) == stack[t] # <<>> /\ Top(t).pc = "run"

Stopped(p) == [plugin |-> p, how |-> "stopped"]
Replaced(p) == [plugin |-> p, how |-> "replaced"]

\* The state of p in the snapshot t works on.  A listener keeps the states
\* its subscription was bound with: Kernel::stop does not reach them.
Active(t, p) == ~ (t = Kernel /\ Stopped(p) \in retired)

\* The instance a call of t on p reaches.
Instance(t, p) ==
    [plugin |-> p,
     version |-> IF Replaced(p) \in retired THEN view[t] ELSE "old"]

\* The instance mutex of p, as t sees it, is free.
Free(t, p) ==
    \A u \in Threads : \A f \in Frames(u) :
        f.holds => Instance(u, f.plugin) # Instance(t, p)

\* guards.call_stack, active_services and active_component_endpoints.
Reentered(t) == \E f \in Below(t) : f.plugin = Top(t).plugin
ServiceActive(t, s) == \E f \in Frames(t) : f.service = s
EndpointActive(t, c, s) ==
    \E f \in Frames(t) : f.component = c /\ f.service = s

-----------------------------------------------------------------------------
(* Resolution.                                                             *)

\* Mutant: an inactive layer is skipped whether it is required or not.
LayersRefusedInactiveSkipped(t, s, auth) ==
    \E l \in Range(Layers[s]) : l.required /\ ~ (l.needs \subseteq auth)

\* A layer takes part when the caller may use it and its plugin is active.
TakesPart(t, auth, l) == l.needs \subseteq auth /\ Active(t, l.plugin)

\* resolve_layers and prepare_active_chain refuse when a layer that the
\* policy requires cannot take part.
LayersRefused(t, s, auth) ==
    \E l \in Range(Layers[s]) : l.required /\ ~ TakesPart(t, auth, l)

\* The elements of seq at the positions in keep, in their order.
Kept(seq, keep) ==
    LET upTo[n \in 0 .. Len(seq)] ==
            IF n = 0 THEN <<>>
            ELSE IF n \in keep THEN Append(upTo[n - 1], seq[n])
            ELSE upTo[n - 1]
    IN  upTo[Len(seq)]

\* The plugins that take part in an invocation of s, the terminal last.
Chain(t, s, auth, terminal) ==
    LET layers == Kept(Layers[s], {k \in DOMAIN Layers[s] :
                                      TakesPart(t, auth, Layers[s][k])})
    IN  [k \in 1 .. Len(layers) |-> layers[k].plugin] \o <<terminal>>

\* resolve_chain: the first terminal the caller may use, among the bound
\* plugin's if there is a binding; whether it is active is checked after.
EligibleTerminals(s, auth, binding) ==
    Kept(Terminal[s], {k \in DOMAIN Terminal[s] :
                          /\ Terminal[s][k].needs \subseteq auth
                          /\ binding \in {None, Terminal[s][k].plugin}})

\* provider_available decides which provider of a plan an import reaches.
Provider(t, plan) ==
    Kept(plan, {k \in DOMAIN plan : Active(t, Owner[plan[k].component])})

-----------------------------------------------------------------------------
(* Frames.                                                                 *)

Frame(p, s, c, rest, auth, how) ==
    [plugin |-> p, service |-> s, component |-> c, rest |-> rest,
     auth |-> auth, how |-> how, pc |-> "probe",
     holds |-> FALSE, used |-> FALSE, cancelled |-> FALSE]

\* A frame that runs without dispatch: a listener, or a plugin's stop.
Outermost(p, auth, how) ==
    [Frame(p, None, None, <<>>, auth, how) EXCEPT !.pc = "run"]

SetTop(t, f) == stack' = [stack EXCEPT ![t][Len(stack[t])] = f]

\* The frame that invoke_resolved_chain_with builds for the first plugin of
\* chain, under the caller's authority attenuated by the plugin's maximum.
Dispatched(s, c, chain, auth, how) ==
    Frame(Head(chain), s, c, Tail(chain), auth \cap Ceiling[Head(chain)], how)

\* Mutant: the guard drops the oldest coordinator.
DropCoordinatorOldest(list) == Tail(list)

\* PreparedMutationCoordinatorGuard::drop removes the thread's last entry.
DropCoordinator(list) == Front(list)

\* What the end of a frame does to the scope: an import ends its
\* with_coordinator, and the outermost frame takes the scope with it.
Dead(hs) == [h \in Handles |->
                IF h \in hs /\ fate[h] = "open" THEN "dead" ELSE fate[h]]

Pop(t) ==
    /\ stack' = [stack EXCEPT ![t] = Front(@)]
    /\ coords' = [coords EXCEPT ![t] =
                    IF Top(t).how = "import" THEN DropCoordinator(@) ELSE @]
    /\ IF Len(stack[t]) = 1
       THEN /\ prepared' = [prepared EXCEPT ![t] = <<>>]
            /\ fate' = Dead(DOMAIN prepared[t])
       ELSE UNCHANGED <<prepared, fate>>

-----------------------------------------------------------------------------
(* Calls that start a thread's work.                                       *)

\* Kernel::invoke_component.
CallComponent(r, auth) ==
    LET p == Owner[r.component] IN
    /\ r.component # None
    /\ stack[Kernel] = <<>>
    /\ ~ LayersRefused(Kernel, r.service, auth)
    /\ Active(Kernel, p)
    /\ stack' = [stack EXCEPT ![Kernel] =
                    <<Dispatched(r.service, r.component,
                                 Chain(Kernel, r.service, auth, p),
                                 auth, "root")>>]
    /\ UNCHANGED <<prepared, coords, view, retired, fate, writes>>

\* Kernel::invoke.
CallService(r, auth, binding) ==
    LET eligible == EligibleTerminals(r.service, auth, binding)
        p == eligible[1].plugin IN
    /\ r.component = None
    /\ stack[Kernel] = <<>>
    /\ eligible # <<>>
    /\ ~ LayersRefused(Kernel, r.service, auth)
    /\ Active(Kernel, p)
    /\ stack' = [stack EXCEPT ![Kernel] =
                    <<Dispatched(r.service, None,
                                 Chain(Kernel, r.service, auth, p),
                                 auth, "root")>>]
    /\ UNCHANGED <<prepared, coords, view, retired, fate, writes>>

\* ScopedPluginListener::run, on the snapshot of the current subscriptions.
Listen(t, p, auth) ==
    /\ stack[t] = <<>>
    /\ stack' = [stack EXCEPT ![t] = <<Outermost(p, auth, "listener")>>]
    /\ view' = [view EXCEPT ![t] = view[Kernel]]
    /\ UNCHANGED <<prepared, coords, retired, fate, writes>>

-----------------------------------------------------------------------------
(* What a running plugin may ask of its host.                              *)

\* Mutant: only the endpoint of the caller itself is refused.
ImportAllowedDirectOnly(t, c, s) ==
    ~ (Top(t).component = c /\ Top(t).service = s)

ImportAllowed(t, c, s) == ~ EndpointActive(t, c, s)

\* PluginHost::invoke_import: the first available provider of the plan.
Import(t, i) ==
    LET plan == Provider(t, i.plan)
        e == plan[1]
        auth == Top(t).auth \cap e.auth IN
    /\ Running(t)
    /\ i \in Imports[Top(t).plugin]
    /\ plan # <<>>
    /\ ImportAllowed(t, e.component, i.service)
    /\ ~ LayersRefused(t, i.service, auth)
    /\ coords' = [coords EXCEPT ![t] = Append(@, Top(t).plugin)]
    /\ stack' = [stack EXCEPT ![t] =
                    Append(@, Dispatched(i.service, e.component,
                                Chain(t, i.service, auth, Owner[e.component]),
                                auth, "import"))]
    /\ UNCHANGED <<prepared, view, retired, fate, writes>>

\* PluginHost::invoke_service_abi.
InvokeService(t, s, asked, binding) ==
    LET auth == Top(t).auth \cap asked
        eligible == EligibleTerminals(s, auth, binding)
        p == eligible[1].plugin IN
    /\ Running(t)
    /\ ~ ServiceActive(t, s)
    /\ eligible # <<>>
    /\ ~ LayersRefused(t, s, auth)
    /\ Active(t, p)
    /\ coords' = [coords EXCEPT ![t] = Append(@, Top(t).plugin)]
    /\ stack' = [stack EXCEPT ![t] =
                    Append(@, Dispatched(s, None, Chain(t, s, auth, p),
                                         auth, "import"))]
    /\ UNCHANGED <<prepared, view, retired, fate, writes>>

\* Mutant: the layer's request is not attenuated by its own authority.
DelegatedAsAsked(t, asked) == asked

Delegated(t, asked) == Top(t).auth \cap asked

\* PluginHost::continue_service: one use, no coordinator of its own.
Continue(t, asked) ==
    LET f == Top(t) IN
    /\ Running(t)
    /\ f.rest # <<>>
    /\ ~ f.used
    /\ Active(t, Head(f.rest))
    /\ stack' = [stack EXCEPT ![t] =
                    Append([@ EXCEPT ![Len(@)].used = TRUE],
                           Dispatched(f.service, f.component, f.rest,
                                      Delegated(t, asked), "continue"))]
    /\ UNCHANGED <<prepared, coords, view, retired, fate, writes>>

-----------------------------------------------------------------------------
(* invoke_resolved_chain_with: the instance is asked for its shared        *)
(* invocation under its mutex; a plugin without one runs with the mutex    *)
(* held.                                                                   *)

\* Mutant: a plugin that is on the call stack is locked like any other.
DeniedNever(t) == FALSE

\* A plugin on the call stack is only try-locked: the call is denied when
\* the mutex is taken, by whatever thread.
Denied(t) == Reentered(t) /\ ~ Free(t, Top(t).plugin)

Deny(t) ==
    /\ stack[t] # <<>>
    /\ Top(t).pc = "probe"
    /\ Denied(t)
    /\ Pop(t)
    /\ UNCHANGED <<view, retired, writes>>

Probe(t) ==
    /\ stack[t] # <<>>
    /\ Top(t).pc = "probe"
    /\ Free(t, Top(t).plugin)
    /\ SetTop(t, [Top(t) EXCEPT !.pc = "probing", !.holds = TRUE])
    /\ UNCHANGED <<prepared, coords, view, retired, fate, writes>>

\* The mutex is released.  Without a shared invocation a plugin that is on
\* the call stack is refused; otherwise begin_call registers the call.
Probed(t) ==
    LET f == Top(t) IN
    /\ stack[t] # <<>>
    /\ f.pc = "probing"
    /\ IF f.plugin \in Legacy /\ Reentered(t)
       THEN Pop(t)
       ELSE /\ SetTop(t, [f EXCEPT !.holds = FALSE,
                            !.pc = IF f.plugin \in Legacy THEN "lock" ELSE "run"])
            /\ UNCHANGED <<prepared, coords, fate>>
    /\ UNCHANGED <<view, retired, writes>>

\* Mutant: the stop hook gets the state without Arc::get_mut.
QuiescedAlways(t, p) == TRUE

\* Arc::get_mut grants the stop hook of a generated plugin its state only
\* when no shared invocation and no bound listener refers to it.
Quiesced(t, p) ==
    /\ p \notin Listeners
    /\ \A u \in Threads : \A f \in Frames(u) :
          f.pc = "run" => Instance(u, f.plugin) # Instance(t, p)

\* A call of a plugin without a shared invocation, or a stop; the stop of a
\* generated plugin with a stop hook fails when its state is in use.
Lock(t) ==
    LET f == Top(t) IN
    /\ stack[t] # <<>>
    /\ f.pc = "lock"
    /\ f.plugin \in Legacy \cup Hooked
    /\ Free(t, f.plugin)
    /\ IF f.plugin \in Legacy \/ Quiesced(t, f.plugin)
       THEN /\ SetTop(t, [f EXCEPT !.pc = "run", !.holds = TRUE])
            /\ UNCHANGED <<prepared, coords, fate>>
       ELSE Pop(t)
    /\ UNCHANGED <<view, retired, writes>>

\* The stop of a generated plugin without a stop hook returns at once.
StopUnhooked(t) ==
    LET f == Top(t) IN
    /\ stack[t] # <<>>
    /\ f.pc = "lock"
    /\ f.plugin \notin Legacy \cup Hooked
    /\ Free(t, f.plugin)
    /\ Pop(t)
    /\ retired' = retired \cup {Stopped(f.plugin)}
    /\ UNCHANGED <<view, writes>>

\* The plugin returns, fails or panics.  A stop that succeeds removes the
\* instance from the kernel.
Return(t, ok) ==
    LET f == Top(t) IN
    /\ Running(t)
    /\ Pop(t)
    /\ retired' = IF f.how = "stop" /\ ok /\ ~ f.cancelled
                  THEN retired \cup {Stopped(f.plugin)} ELSE retired
    /\ UNCHANGED <<view, writes>>

-----------------------------------------------------------------------------
(* Prepared mutations.                                                     *)

\* require_not_cancelled: any durable operation of a cancelled call clears
\* the scope of the whole invocation.
LateOperation(t) ==
    /\ Running(t)
    /\ Top(t).cancelled
    /\ Write \in Top(t).auth
    /\ prepared' = [prepared EXCEPT ![t] = <<>>]
    /\ fate' = Dead(DOMAIN prepared[t])
    /\ UNCHANGED <<stack, coords, view, retired, writes>>

\* PreparedMutationScope::coordinator.
Coordinator(t, owner) ==
    IF coords[t] = <<>> THEN owner ELSE Last(coords[t])

\* prepare_durable_transaction, for a namespace of the plugin's own.
Prepare(t, h) ==
    LET f == Top(t) IN
    /\ Running(t)
    /\ Write \in f.auth
    /\ Active(t, f.plugin)
    /\ ~ f.cancelled
    /\ fate[h] = "unused" /\ \A k \in 1 .. h - 1 : fate[k] # "unused"
    /\ prepared' = [prepared EXCEPT ![t] =
                      [k \in DOMAIN @ \cup {h} |->
                          IF k = h THEN [owner |-> f.plugin, auth |-> f.auth,
                                         coordinator |-> Coordinator(t, f.plugin)]
                          ELSE @[k]]]
    /\ fate' = [fate EXCEPT ![h] = "open"]
    /\ UNCHANGED <<stack, coords, view, retired, writes>>

\* Mutant: nothing is consumed when one of the handles is missing.
ConsumedAllOrNone(scope, hs) ==
    IF Range(hs) \subseteq DOMAIN scope THEN Range(hs) ELSE {}

\* The handles that consume takes out of the scope: all it finds.
Consumed(scope, hs) == Range(hs) \cap DOMAIN scope

\* An import of p, primary or fallback, allows it to write through owner.
AuthorizedImport(p, owner) ==
    \E i \in Imports[p] : \E e \in Range(i.plan) :
        Owner[e.component] = owner /\ Write \in e.auth

\* Mutant: the import that reaches another owner is not looked for.
CommitAllowedAnyOwner(t, p, hs) ==
    LET scope == prepared[t] IN
    /\ Range(hs) \subseteq DOMAIN scope
    /\ IsInjective(hs)
    /\ \A h \in Range(hs) : scope[h].coordinator = p
    /\ \E h \in Range(hs) : scope[h].owner = p
    /\ \A h \in Range(hs) : Write \in scope[h].auth

\* transact_prepared, once the handles are consumed.
CommitAllowed(t, p, hs) ==
    LET scope == prepared[t] IN
    /\ Range(hs) \subseteq DOMAIN scope
    /\ IsInjective(hs)
    /\ \A h \in Range(hs) : scope[h].coordinator = p
    /\ \E h \in Range(hs) : scope[h].owner = p
    /\ \A h \in Range(hs) :
          /\ Write \in scope[h].auth
          /\ scope[h].owner # p => /\ Active(t, scope[h].owner)
                                   /\ AuthorizedImport(p, scope[h].owner)

\* transact_prepared: the backend is called once for all participants, and
\* may refuse them (backendOk).  A plugin may name any handle ever issued.
Commit(t, hs, backendOk) ==
    LET p == Top(t).plugin
        gone == Consumed(prepared[t], hs)
        found == Range(hs) \cap DOMAIN prepared[t]
        applies == CommitAllowed(t, p, hs) /\ backendOk IN
    /\ Running(t)
    /\ Write \in Top(t).auth
    /\ ~ Top(t).cancelled
    /\ found # {}
    /\ prepared' = [prepared EXCEPT ![t] =
                      [h \in DOMAIN @ \ gone |-> @[h]]]
    /\ writes' = [h \in Handles |->
                    IF applies /\ h \in Range(hs) THEN writes[h] + 1
                    ELSE writes[h]]
    /\ fate' = IF applies
               THEN [h \in Handles |->
                       IF h \in Range(hs) /\ fate[h] = "open"
                       THEN "applied" ELSE fate[h]]
               ELSE Dead(found)
    /\ UNCHANGED <<stack, coords, view, retired>>

-----------------------------------------------------------------------------
(* The kernel retires a plugin; its calls in progress are on deliveries.   *)

\* TaskRuntime::cancel_calls: the calls begun on p in generation g.
Cancel(s, p, g) ==
    [t \in Threads |->
        [k \in 1 .. Len(s[t]) |->
            IF /\ view[t] = g
               /\ s[t][k].plugin = p /\ s[t][k].pc \in {"lock", "run"}
            THEN [s[t][k] EXCEPT !.cancelled = TRUE] ELSE s[t][k]]]

\* Kernel::stop runs the plugin's stop with a host of its own.
Stop(p) ==
    /\ stack[Kernel] = <<>>
    /\ Cardinality(retired) < MaxRetired
    /\ Stopped(p) \notin retired
    /\ stack' = [Cancel(stack, p, view[Kernel]) EXCEPT ![Kernel] =
                    <<[Outermost(p, Ceiling[p], "stop") EXCEPT !.pc = "lock"]>>]
    /\ UNCHANGED <<prepared, coords, view, retired, fate, writes>>

\* A reconciliation that replaces p: the kernel goes over to the new graph,
\* then cancels the calls of the old one on p.  (Lifecycle has its steps.)
Replace(p) ==
    /\ stack[Kernel] = <<>>
    /\ retired = {} /\ MaxRetired > 0
    /\ view' = [view EXCEPT ![Kernel] = "new"]
    /\ retired' = {Replaced(p)}
    /\ stack' = Cancel(stack, p, "old")
    /\ UNCHANGED <<prepared, coords, fate, writes>>

Requests == UNION {[1 .. n -> Handles] : n \in 1 .. 2}

Root ==
    \E auth \in SUBSET Caps :
        \/ \E r \in Roots : CallComponent(r, auth)
        \/ \E r \in Roots, b \in Plugins \cup {None} : CallService(r, auth, b)
        \/ \E t \in Deliveries, p \in Listeners : Listen(t, p, auth)

Dispatch(t) ==
    Deny(t) \/ Probe(t) \/ Probed(t) \/ Lock(t) \/ StopUnhooked(t)

Host(t) ==
    \/ \E asked \in SUBSET Caps :
          \/ \E s \in Abi, b \in Plugins \cup {None} :
                InvokeService(t, s, asked, b)
          \/ Continue(t, asked)
    \/ \E i \in UNION Range(Imports) : Import(t, i)
    \/ \E ok \in BOOLEAN : Return(t, ok)

Durable(t) ==
    \/ LateOperation(t)
    \/ \E h \in Handles : Prepare(t, h)
    \/ \E hs \in Requests, ok \in BOOLEAN : Commit(t, hs, ok)

Retire == \E p \in Plugins : Stop(p) \/ Replace(p)

Next ==
    \/ Root
    \/ \E t \in Threads : Dispatch(t) \/ Host(t) \/ Durable(t)
    \/ Retire

Spec == Init /\ [][Next]_vars

-----------------------------------------------------------------------------
(* Properties.                                                             *)

\* The shape of stacks, scopes and handles; one coordinator for each call
\* through an import (with_coordinator).
TypeOK ==
    /\ \A t \in Threads :
          /\ \A f \in Frames(t) :
                /\ f.plugin \in Plugins
                /\ f.service \in Services \cup {None}
                /\ f.component \in Components \cup {None}
                /\ f.auth \subseteq Caps
                /\ f.how \in {"root", "import", "continue", "listener", "stop"}
                /\ f.pc \in {"probe", "probing", "lock", "run"}
                /\ f.holds \in BOOLEAN /\ f.used \in BOOLEAN
                /\ f.cancelled \in BOOLEAN
          /\ DOMAIN prepared[t] \subseteq Handles
          /\ coords[t] \in Seq(Plugins)
          /\ Len(coords[t]) =
                Cardinality({k \in DOMAIN stack[t] : stack[t][k].how = "import"})
          /\ view[t] \in {"old", "new"}
    /\ fate \in [Handles -> {"unused", "open", "dead", "applied"}]
    /\ writes \in [Handles -> Nat]

\* A thread may use auth in the name of p: it is within the maximum of p, or p
\* is the listener whose event brought the thread its authority.
Within(t, p, auth) ==
    \/ auth \subseteq Ceiling[p]
    \/ stack[t][1].how = "listener" /\ stack[t][1].plugin = p

\* No call has more authority than a call it was made from, nor than the
\* maximum of its plugin, whether it was reached by an import, by the
\* service interface or by a layer's continuation.  What a call prepared keeps
\* that bound when the call has returned: its authority is within that of the
\* whole invocation, of its owner and of the plugin that may commit it.
AuthorityOnlyShrinks ==
    \A t \in Threads :
        /\ \A j \in 1 .. Len(stack[t]) : \A i \in 1 .. j :
              stack[t][j].auth \subseteq stack[t][i].auth
        /\ \A f \in Frames(t) :
              f.how # "listener" => f.auth \subseteq Ceiling[f.plugin]
        /\ \A h \in DOMAIN prepared[t] :
              LET m == prepared[t][h] IN
              /\ m.auth \subseteq stack[t][1].auth
              /\ Within(t, m.owner, m.auth) /\ Within(t, m.coordinator, m.auth)

\* What the backend is given was allowed at every hop: each call from the root
\* of the invocation to the one that commits may write, so could the call that
\* prepared the mutation, and another owner's mutation comes from a plugin that
\* an import of the committing one may write through; being reached by name
\* with the authority to write is not enough.
WritesAreAuthorized ==
    [][\A h \in Handles : writes'[h] # writes[h] =>
          \E t \in Threads :
              /\ h \in DOMAIN prepared[t]
              /\ LET m == prepared[t][h]
                     p == Top(t).plugin
                 IN  /\ \A f \in Frames(t) : Write \in f.auth
                     /\ Write \in m.auth /\ Within(t, m.owner, {Write})
                     /\ m.owner = p \/ AuthorizedImport(p, m.owner)]_vars

\* A mutation is given to the backend at most once, and not at all once a
\* commit that named it has failed, its call was found cancelled or its
\* invocation has ended (consume makes every attempt one-shot).
HandleOnce ==
    \A h \in Handles :
        /\ writes[h] <= 1
        /\ fate[h] = "dead" => writes[h] = 0

\* The plugin whose call (an import or the service interface) led to the
\* call that is on top of the stack; a layer's continuation is no such call.
Importer(t) ==
    LET calls == {k \in 2 .. Len(stack[t]) : stack[t][k].how = "import"}
        last == CHOOSE k \in calls : \A j \in calls : j <= k
    IN  IF calls = {} THEN Top(t).plugin ELSE stack[t][last - 1].plugin

\* A mutation can be committed only by the plugin whose call had it
\* prepared, however calls nested and returned in between.
CoordinatorIsImporter ==
    \A t \in Threads :
        Running(t) => Coordinator(t, Top(t).plugin) = Importer(t)

\* A terminal runs only beneath every layer that the policy of its service
\* requires, in the same invocation of the service.
RequiredLayersRun ==
    \A t \in Threads : \A j \in 1 .. Len(stack[t]) :
        LET f == stack[t][j]
            first == {k \in 1 .. j : stack[t][k].how # "continue"}
            from == CHOOSE k \in first : \A i \in first : i <= k
        IN  (f.rest = <<>> /\ f.service # None) =>
                \A l \in Range(Layers[f.service]) :
                    l.required => \E k \in from .. j - 1 :
                        stack[t][k].plugin = l.plugin

\* A component endpoint is not entered again beneath itself.
EndpointOnce ==
    \A t \in Threads : \A j \in 1 .. Len(stack[t]) : \A i \in 1 .. j - 1 :
        LET f == stack[t][i]
            g == stack[t][j]
        IN  (g.how = "import" /\ g.component # None) =>
                <<f.component, f.service>> # <<g.component, g.service>>

\* t is blocked on the instance mutex of the plugin it calls.
Awaits(t) == /\ stack[t] # <<>>
             /\ Top(t).pc \in {"probe", "lock"}
             /\ ~ Free(t, Top(t).plugin)
             /\ ~ (Top(t).pc = "probe" /\ Denied(t))

\* No thread waits for an instance mutex that it holds itself: a plugin that
\* is called back while its own call or its stop holds the mutex is refused.
NoSelfWait ==
    \A t \in Threads : \A f \in Below(t) :
        (f.holds /\ Awaits(t)) =>
            Instance(t, f.plugin) # Instance(t, Top(t).plugin)

\* While the stop hook of a generated plugin works on its state, no call and
\* no listener of that instance runs, on any thread.
ExclusiveStop ==
    \A t \in Threads : \A f \in Frames(t) :
        (f.how = "stop" /\ f.pc = "run" /\ f.plugin \notin Legacy) =>
            \A u \in Threads : \A k \in 1 .. Len(stack[u]) :
                (stack[u][k].pc = "run" /\ stack[u][k].how # "stop") =>
                    Instance(u, stack[u][k].plugin) # Instance(t, f.plugin)

-----------------------------------------------------------------------------
(* What spec/plugin-threading.md says and the code does not do.            *)

\* "A call may revisit one Plugin through a distinct endpoint": a plugin with
\* a shared invocation is refused only while its own call or stop, further
\* up the same thread, holds the mutex.
RevisitAdmitted ==
    \A t \in Threads :
        (/\ stack[t] # <<>> /\ Top(t).pc = "probe" /\ Denied(t)
         /\ Top(t).plugin \notin Legacy)
        => \E f \in Below(t) : f.holds /\ f.plugin = Top(t).plugin
=============================================================================
