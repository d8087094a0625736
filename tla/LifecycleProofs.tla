--------------------------- MODULE LifecycleProofs ---------------------------
(* What holds of the plugin lifecycle for every set of generations, plugins, *)
(* calls and tasks: the instances that run are the installed ones, they are  *)
(* the ones configured, a rollback and a retirement stop what they should,   *)
(* and work is cancelled with its own instance and with no other.            *)
EXTENDS Lifecycle, SequenceTheorems, FiniteSetTheorems, WellFoundedInduction,
        TLAPS

-----------------------------------------------------------------------------
(* Kept: what the filter returns.                                          *)

\* A set of numbers that is not empty has a least element.
LEMMA LeastNumber ==
  ASSUME NEW T, T \subseteq Nat, T # {}
  PROVE  \E x \in T : \A y \in T : x <= y
<1> DEFINE R == {ss \in Nat \X Nat : ss[1] < ss[2]}
<1>1. IsWellFoundedOn(R, Nat)
  BY NatLessThanWellFounded, Zenon DEF OpToRel
<1> HIDE DEF R
<1>2. PICK x \in T : \A y \in T : ~ (<<y, x>> \in R)
  BY <1>1, WFMin
<1>3. \A y \in T : ~ (y < x)
  BY <1>2 DEF R
<1> QED BY <1>3

\* The recursion of Kept has a solution.
LEMMA KeptDefined ==
  ASSUME NEW S, NEW list \in Seq(S), NEW keep
  PROVE  \E f : /\ f \in [0 .. Len(list) -> Seq(S)]
                /\ Kept(list, keep) = f[Len(list)]
                /\ f[0] = <<>>
                /\ \A n \in 1 .. Len(list) :
                     f[n] = IF n \in keep THEN Append(f[n - 1], list[n])
                            ELSE f[n - 1]
<1> DEFINE Step(f, n) == IF n = 0 THEN <<>>
                         ELSE IF n \in keep THEN Append(f[n - 1], list[n])
                         ELSE f[n - 1]
           Solves(g, n) == /\ g \in [0 .. n -> Seq(S)]
                           /\ \A i \in 0 .. n : g[i] = Step(g, i)
           none == {n \in 0 .. Len(list) : ~ \E g : Solves(g, n)}
<1>1. Len(list) \in Nat /\ <<>> \in Seq(S)
  BY EmptySeq
<1>2. none = {}
  <2> SUFFICES ASSUME none # {} PROVE FALSE
    OBVIOUS
  <2>0. none \subseteq Nat
    <3> HIDE DEF Solves
    <3> QED BY <1>1
  <2>1. PICK n \in none : \A m \in none : n <= m
    <3> HIDE DEF none
    <3> QED BY <2>0, LeastNumber
  <2>2. n # 0
    <3>1. Solves([i \in 0 .. 0 |-> <<>>], 0)
      BY <1>1
    <3> QED BY <3>1
  <2>3. n \in Nat /\ n - 1 \in 0 .. Len(list) /\ n - 1 \notin none /\ n <= Len(list)
    <3>1. n \in 0 .. Len(list)
      <4> HIDE DEF Solves
      <4> QED OBVIOUS
    <3> HIDE DEF none
    <3> QED BY <1>1, <2>1, <2>2, <3>1
  <2>4. PICK g : Solves(g, n - 1)
    BY <2>3
  <2> DEFINE h == [i \in 0 .. n |-> IF i = n THEN Step(g, n) ELSE g[i]]
  <2>5. Step(g, n) \in Seq(S)
    <3>1. g[n - 1] \in Seq(S) /\ list[n] \in S
      BY <2>2, <2>3, <2>4
    <3> QED BY <2>2, <3>1
  <2>6. h \in [0 .. n -> Seq(S)]
    BY <2>3, <2>4, <2>5
  <2>7. ASSUME NEW i \in 0 .. n PROVE h[i] = Step(h, i)
    <3>1. CASE i = n
      <4>1. h[n - 1] = g[n - 1]
        BY <2>2, <2>3
      <4> QED BY <2>2, <2>3, <3>1, <4>1
    <3>2. CASE i # n
      <4>1. i \in 0 .. n - 1 /\ (i # 0 => i - 1 \in 0 .. n - 1)
        BY <2>3, <3>2
      <4>2. h[i] = g[i] /\ (i # 0 => h[i - 1] = g[i - 1])
        BY <2>3, <4>1
      <4>3. g[i] = Step(g, i)
        BY <2>4, <4>1
      <4> QED BY <4>2, <4>3
    <3> QED BY <3>1, <3>2
  <2>8. Solves(h, n)
    BY <2>6, <2>7
  <2> QED BY <2>1, <2>8
<1>3. PICK g : Solves(g, Len(list))
  <2> HIDE DEF Solves
  <2> QED BY <1>1, <1>2
<1> DEFINE f == CHOOSE f : f = [n \in 0 .. Len(list) |-> Step(f, n)]
<1>4. Kept(list, keep) = f[Len(list)]
  BY DEF Kept
<1>5. g = [n \in 0 .. Len(list) |-> Step(g, n)]
  BY <1>3
<1>6. f = [n \in 0 .. Len(list) |-> Step(f, n)]
  BY <1>5
<1> HIDE DEF f
<1>7. \A n \in 0 .. Len(list) : f[n] = Step(f, n)
  BY <1>6
<1> DEFINE loose == {n \in 0 .. Len(list) : f[n] \notin Seq(S)}
<1>8. loose = {}
  <2> SUFFICES ASSUME loose # {} PROVE FALSE
    OBVIOUS
  <2>0. loose \subseteq Nat
    BY <1>1
  <2>1. PICK n \in loose : \A m \in loose : n <= m
    <3> HIDE DEF loose
    <3> QED BY <2>0, LeastNumber
  <2>2. n # 0
    BY <1>1, <1>7
  <2>3. n \in Nat /\ n - 1 \in 0 .. Len(list) /\ n - 1 \notin loose
        /\ n \in 1 .. Len(list)
    BY <1>1, <2>1, <2>2
  <2>4. f[n - 1] \in Seq(S) /\ list[n] \in S
    BY <2>3
  <2>5. f[n] = Step(f, n)
    BY <1>7, <2>3
  <2>6. f[n] \in Seq(S)
    BY <2>2, <2>4, <2>5
  <2> QED BY <2>1, <2>6
<1>9. f \in [0 .. Len(list) -> Seq(S)]
  BY <1>6, <1>8
<1>10. f[0] = <<>> /\ \A n \in 1 .. Len(list) :
         f[n] = IF n \in keep THEN Append(f[n - 1], list[n]) ELSE f[n - 1]
  BY <1>1, <1>7
<1> QED BY <1>4, <1>9, <1>10

\* What is above as a function: where each element of Kept comes from.
Places(f, n, list, keep, at) ==
  /\ at \in [1 .. Len(f) -> 1 .. n]
  /\ \A m \in 1 .. Len(f) : at[m] \in keep /\ f[m] = list[at[m]]
  /\ \A l, m \in 1 .. Len(f) : l < m => at[l] < at[m]
  /\ \A k \in 1 .. n : k \in keep => \E m \in 1 .. Len(f) : at[m] = k

\* Kept returns the elements at the positions in keep, in their order.
LEMMA KeptPlaces ==
  ASSUME NEW S, NEW list \in Seq(S), NEW keep
  PROVE  /\ Kept(list, keep) \in Seq(S)
         /\ \E at : Places(Kept(list, keep), Len(list), list, keep, at)
<1>1. PICK f : /\ f \in [0 .. Len(list) -> Seq(S)]
               /\ Kept(list, keep) = f[Len(list)]
               /\ f[0] = <<>>
               /\ \A n \in 1 .. Len(list) :
                    f[n] = IF n \in keep THEN Append(f[n - 1], list[n])
                           ELSE f[n - 1]
  BY KeptDefined
<1> DEFINE Holds(n) == \E at : Places(f[n], n, list, keep, at)
           wrong == {n \in 0 .. Len(list) : ~ Holds(n)}
<1>2. Len(list) \in Nat
  OBVIOUS
<1>3. wrong = {}
  <2> SUFFICES ASSUME wrong # {} PROVE FALSE
    OBVIOUS
  <2>0. wrong \subseteq Nat
    <3> HIDE DEF Holds
    <3> QED BY <1>2
  <2>1. PICK n \in wrong : \A m \in wrong : n <= m
    <3> HIDE DEF wrong
    <3> QED BY <2>0, LeastNumber
  <2>2. n # 0
    <3>1. Places(<<>>, 0, list, keep, <<>>)
      BY DEF Places
    <3>2. Holds(0)
      BY <1>1, <3>1
    <3> HIDE DEF Holds
    <3> QED BY <2>1, <3>2
  <2>3. n \in Nat /\ n - 1 \in 0 .. Len(list) /\ n \in 1 .. Len(list)
        /\ n - 1 \notin wrong
    <3>1. n \in 0 .. Len(list)
      <4> HIDE DEF Holds
      <4> QED OBVIOUS
    <3> HIDE DEF wrong
    <3> QED BY <1>2, <2>1, <2>2, <3>1
  <2> DEFINE before == f[n - 1]
  <2>4. PICK at : Places(before, n - 1, list, keep, at)
    <3>1. Holds(n - 1)
      <4> HIDE DEF Holds
      <4> QED BY <2>3
    <3> QED BY <3>1
  <2> HIDE DEF wrong, Holds
  <2>5. before \in Seq(S) /\ Len(before) \in Nat /\ list[n] \in S
    BY <1>1, <2>3
  <2>6. f[n] = IF n \in keep THEN Append(before, list[n]) ELSE before
    BY <1>1, <2>3
  <2> HIDE DEF before
  <2>7. \A k \in 1 .. n : k = n \/ k \in 1 .. n - 1
    BY <2>3
  <2>8. ASSUME n \in keep PROVE Holds(n)
    <3> DEFINE len == Len(before)
               more == [m \in 1 .. len + 1 |-> IF m = len + 1 THEN n ELSE at[m]]
    <3>1. /\ Len(f[n]) = len + 1 /\ f[n][len + 1] = list[n]
          /\ \A m \in 1 .. len : f[n][m] = before[m]
      BY <2>5, <2>6, <2>8
    <3>2. /\ at \in [1 .. len -> 1 .. n - 1]
          /\ \A m \in 1 .. len : at[m] \in keep /\ before[m] = list[at[m]]
          /\ \A l, m \in 1 .. len : l < m => at[l] < at[m]
          /\ \A k \in 1 .. n - 1 : k \in keep => \E m \in 1 .. len : at[m] = k
      BY <2>4 DEF Places
    <3>3. len \in Nat
      BY <2>5
    <3> HIDE DEF len
    <3>4. \A m \in 1 .. len + 1 : m = len + 1 \/ m \in 1 .. len
      BY <3>3
    <3>5. \A m \in 1 .. len : m \in 1 .. len + 1 /\ m # len + 1 /\ more[m] = at[m]
                              /\ at[m] \in 1 .. n - 1
      BY <3>2, <3>3
    <3>6. len + 1 \in 1 .. len + 1 /\ more[len + 1] = n
      BY <3>3
    <3>7. more \in [1 .. len + 1 -> 1 .. n]
      BY <2>3, <3>2, <3>4
    <3> HIDE DEF more
    <3>8. \A m \in 1 .. len + 1 : more[m] \in keep /\ f[n][m] = list[more[m]]
      BY <2>8, <3>1, <3>2, <3>4, <3>5, <3>6
    <3>9. \A l, m \in 1 .. len + 1 : l < m => more[l] < more[m]
      <4> SUFFICES ASSUME NEW l \in 1 .. len + 1, NEW m \in 1 .. len + 1, l < m
                   PROVE  more[l] < more[m]
        OBVIOUS
      <4>1. l \in 1 .. len
        BY <3>3
      <4>2. more[l] = at[l] /\ at[l] \in 1 .. n - 1
        BY <3>5, <4>1
      <4>3. CASE m = len + 1
        BY <2>3, <3>6, <4>2, <4>3
      <4>4. CASE m \in 1 .. len
        BY <3>2, <3>5, <4>1, <4>4
      <4> QED BY <3>4, <4>3, <4>4
    <3>10. \A k \in 1 .. n : k \in keep => \E m \in 1 .. len + 1 : more[m] = k
      BY <2>7, <3>2, <3>5, <3>6
    <3>11. Places(f[n], n, list, keep, more)
      BY <3>1, <3>7, <3>8, <3>9, <3>10 DEF Places
    <3> QED BY <3>11 DEF Holds
  <2>9. ASSUME n \notin keep PROVE Holds(n)
    <3>1. f[n] = before
      BY <2>6, <2>9
    <3>2. 1 .. n - 1 \subseteq 1 .. n
      BY <2>3
    <3>3. Places(before, n, list, keep, at)
      BY <2>4, <2>7, <2>9, <3>2 DEF Places
    <3> QED BY <3>1, <3>3 DEF Holds
  <2>10. Holds(n)
    BY <2>8, <2>9
  <2> QED BY <2>1, <2>10 DEF wrong
<1>4. Holds(Len(list))
  <2> HIDE DEF Holds
  <2> QED BY <1>2, <1>3
<1>5. f[Len(list)] \in Seq(S)
  BY <1>1, <1>2
<1> QED BY <1>1, <1>4, <1>5, Zenon

-----------------------------------------------------------------------------
(* The inductive invariant.                                                *)

StagingOps ==
  [kind : {"activate", "reconcile"},
   phase : {"stage", "start", "commit", "cleanup", "retire"},
   target : Generations, generation : Generations \cup {None},
   state : [Plugins -> States], instance : [Plugins -> Objects \cup {None}],
   todo : Seq(Plugins), staged : Seq(Plugins), current : Objects \cup {None},
   queue : Seq(Objects), step : {"calls", "tasks", "stop"},
   stopGeneration : Generations \cup {None}, restart : SUBSET Plugins]

StopOps == [kind : {"stop"}, phase : {"tasks", "stop"}, plugin : Plugins]

\* The variables have their types, and so have the locals of the operation.
Shape == TypeOK /\ op \in {NoOp} \cup StagingOps \cup StopOps

\* An activation or a reconciliation is in progress; the kernel is as it
\* found it until it commits.
Moving == op.kind \in {"activate", "reconcile"}
Pending == Moving /\ op.phase # "retire"

Serves(i, p) == object[i].plugin = p /\ object[i].life # "unborn"
Spared(i) == object[i].life \notin {"starting", "failed"}

\* Whoever refers to an instance knows its plugin; a listener is bound to an
\* instance whose start has returned.
Names ==
  /\ \A p \in Plugins : instance[p] # None => Serves(instance[p], p)
  /\ Moving => \A p \in Plugins :
       op.instance[p] # None => Serves(op.instance[p], p)
  /\ \A s \in subscriptions : Serves(s.object, s.plugin) /\ Spared(s.object)
  /\ \A c \in Calls : call[c].phase # "free" =>
       /\ call[c].object \in Objects /\ call[c].generation \in Generations
       /\ Serves(call[c].object, call[c].plugin) /\ Spared(call[c].object)
  /\ \A t \in Tasks : task[t].phase # "free" =>
       /\ task[t].object \in Objects /\ task[t].generation \in Generations
       /\ Serves(task[t].object, task[t].plugin)

\* What Current says, of any generation g in the place of the configured one.
CurrentIn(g, i, p) ==
  LET born == object[i].born
      manifests == Harness[IF born = None THEN Initial ELSE born].manifests
  IN
  /\ Same(manifests, Harness[g].manifests, p)
  /\ born # None => \A c \in DOMAIN Harness[g].components :
       Harness[g].components[c].owner = p =>
         Same(Harness[born].components, Harness[g].components, c)

\* i is what an active plugin p of generation g runs on.
StartedFor(g, p, i) ==
  IF Execution(g, p) = "resource" THEN i = None
  ELSE i # None /\ CurrentIn(g, i, p)

Follow(g, instances) ==
  \A p \in DOMAIN Harness[g].bindings : instances[p] # None =>
    object[instances[p]].provider = instances[Harness[g].bindings[p]]

\* The graph and the configuration of the kernel, its plugins and listeners.
Settled ==
  /\ IF generation = None
     THEN /\ config = Initial /\ subscriptions = {}
          /\ \A i \in Objects : object[i].born = None
     ELSE config = generation
  /\ \A p \in Plugins : state[p] = "active" \/ instance[p] = None
  /\ \A p \in Plugins :
       state[p] = "active" => runtimeActive /\ p \in Configured(config)
  /\ runtimeActive /\ stops = 0 => AllActive
  /\ \A s \in subscriptions :
       /\ s.generation = generation
       /\ state[s.plugin] = "active" => instance[s.plugin] = s.object
  /\ \/ subscriptions = {}
     \/ {s.plugin : s \in subscriptions} = Harness[generation].listeners
  /\ \A p \in Configured(config) :
       state[p] = "active" => StartedFor(config, p, instance[p])
  /\ stops = 0 => Follow(config, instance)
  /\ op.kind = "stop" => stops # 0 /\ op.plugin \in Configured(config)

\* Where an operation wants to go and which old instances it replaces.
Aimed ==
  /\ op.kind = "activate" => op.target = config /\ op.generation = generation
  /\ op.kind = "reconcile" =>
       /\ op.generation = op.target
       /\ generation # None /\ reconciler = generation
       /\ ~ runtimeActive => \A p \in Plugins : op.state[p] # "active"
       /\ op.target = generation \/ ~ runtimeActive =>
            op.todo = <<>> /\ op.staged = <<>>
       /\ op.target = generation => Retired = {}
  /\ \A p \in Plugins : instance[p] # None =>
       (op.instance[p] = instance[p] <=> (op.kind = "activate" \/ p \notin Retired))

\* What is staged and what is not yet.
Staged ==
  /\ \A p \in Plugins : op.state[p] = "active" \/ op.instance[p] = None
  /\ \A p \in Plugins : op.state[p] = "active" => p \in Configured(op.target)
  /\ \A p \in Configured(op.target) : op.state[p] = "active" =>
       p \notin ToSet(op.todo) /\ StartedFor(op.target, p, op.instance[p])
  /\ ToSet(op.todo) \subseteq Configured(op.target) /\ IsInjective(op.todo)
  /\ op.kind = "activate" \/ runtimeActive =>
       \A p \in Configured(op.target) :
         op.state[p] = "active" \/ p \in ToSet(op.todo)
  /\ \A p \in ToSet(op.staged) : op.state[p] = "active"
  /\ IsInjective(op.staged)
  /\ \A p \in Plugins : op.instance[p] # None =>
       IF p \in ToSet(op.staged) THEN ~ Installed(op.instance[p])
       ELSE op.instance[p] = instance[p]

Provided(i, p) ==
  IF p \in DOMAIN Harness[op.target].bindings
  THEN LET provider == op.instance[Harness[op.target].bindings[p]]
       IN provider # None /\ object[i].provider = provider
  ELSE object[i].provider = None

\* Staged guests run on the provider of the operation, which was there before.
Hosted ==
  /\ \A p \in ToSet(op.staged) :
       op.instance[p] # None => Provided(op.instance[p], p)
  /\ stops = 0 =>
       /\ Follow(op.target, op.instance)
       /\ \A p \in DOMAIN Harness[op.target].bindings : op.instance[p] # None =>
            Harness[op.target].bindings[p] \notin ToSet(op.todo)
  /\ \A n \in DOMAIN op.staged : op.instance[op.staged[n]] # None =>
       LET provider == object[op.instance[op.staged[n]]].provider
       IN \/ provider = None \/ Installed(provider)
          \/ \E m \in 1 .. n - 1 : op.instance[op.staged[m]] = provider

\* The phases of staging.
Phased ==
  /\ op.phase = "stage" => Len(op.todo) <= Cardinality(Unused)
  /\ op.phase = "start" =>
       /\ op.todo # <<>> /\ Len(op.todo) <= Cardinality(Unused) + 1
       /\ op.current \in Objects /\ object[op.current].life = "starting"
       /\ object[op.current].plugin = Head(op.todo)
       /\ object[op.current].born = op.generation
       /\ Provided(op.current, Head(op.todo))
       /\ Execution(op.target, Head(op.todo)) # "resource"
  /\ op.phase = "commit" =>
       /\ op.todo = <<>>
       /\ generation # None => \A p \in Harness[op.target].listeners :
            op.instance[p] # None

Plan == Pending => Aimed /\ Staged /\ Hosted /\ Phased

\* What is still to be stopped by a rollback or a retirement.
Queue ==
  Moving =>
    /\ IsInjective(op.queue) /\ \A i \in ToSet(op.queue) : ~ Installed(i)
    /\ op.queue = <<>> => op.step = "calls"
    /\ op.phase \in {"stage", "start", "commit"} => op.queue = <<>>
    /\ op.phase = "cleanup" =>
         /\ op.stopGeneration = op.generation
         /\ \A i \in ToSet(op.queue) :
              \E p \in ToSet(op.staged) : op.instance[p] = i
         /\ \A n \in DOMAIN op.queue :
              LET provider == object[op.queue[n]].provider
              IN \/ provider = None \/ Installed(provider)
                 \/ \E m \in n + 1 .. Len(op.queue) : op.queue[m] = provider
    /\ op.phase = "retire" =>
         /\ op.kind = "reconcile" /\ op.stopGeneration = reconciler
         /\ generation = reconciler => op.queue = <<>>

\* Instances that an operation is still responsible for.
Held(i) ==
  \/ Installed(i)
  \/ Moving /\ IF op.phase \in {"stage", "start", "commit"}
               THEN \E p \in ToSet(op.staged) : op.instance[p] = i
               ELSE i \in ToSet(op.queue)

BeingStopped(i) ==
  \/ Moving /\ op.queue # <<>> /\ op.step # "calls" /\ i = Head(op.queue)
  \/ op.kind = "stop" /\ i = instance[op.plugin]

\* The instances that run are those of the kernel and of the operation.
Running ==
  \A i \in Objects :
    /\ object[i].life \in {"started", "refused"} <=> Held(i) /\ ~ BeingStopped(i)
    /\ object[i].life = "stopping" <=> BeingStopped(i)

\* w is not running on as work that i left behind.
Ended(w, i) ==
  /\ w.phase = "running" /\ w.object = i /\ ~ w.late
  /\ w.generation = object[i].retired
  => w.cancelled

StopGeneration == IF Moving THEN op.stopGeneration ELSE generation
TasksEnded(i) ==
  \/ object[i].life \in {"stopped", "failed"}
  \/ BeingStopped(i) /\ IF Moving THEN op.step = "stop" ELSE op.phase = "stop"

\* Calls are cancelled with the first step of a stop, tasks with the second.
Ending ==
  \A i \in Objects :
    /\ BeingStopped(i) => object[i].retired = StopGeneration
    /\ Retiring(i) => \A c \in Calls : Ended(call[c], i)
    /\ TasksEnded(i) => \A t \in Tasks : Ended(task[t], i)

IInv == Shape /\ Names /\ Settled /\ Plan /\ Queue /\ Running /\ Ending

\* Kept has the elements at the positions in keep, each once if the list has.
LEMMA KeptSet ==
  ASSUME NEW S, NEW list \in Seq(S), NEW keep
  PROVE  /\ Kept(list, keep) \in Seq(S)
         /\ ToSet(Kept(list, keep)) = {list[k] : k \in keep \cap (1 .. Len(list))}
         /\ IsInjective(list) => IsInjective(Kept(list, keep))
<1> DEFINE kept == Kept(list, keep)
<1>1. PICK at : Places(kept, Len(list), list, keep, at)
  BY KeptPlaces
<1>2. kept \in Seq(S) /\ Len(kept) \in Nat /\ DOMAIN kept = 1 .. Len(kept)
  BY KeptPlaces
<1>3. Len(list) \in Nat /\ DOMAIN list = 1 .. Len(list)
  OBVIOUS
<1> HIDE DEF kept
<1>4. ToSet(kept) = {list[k] : k \in keep \cap (1 .. Len(list))}
  <2>1. ToSet(kept) = {kept[m] : m \in 1 .. Len(kept)}
    BY <1>2 DEF ToSet
  <2>2. \A m \in 1 .. Len(kept) :
          at[m] \in keep \cap (1 .. Len(list)) /\ kept[m] = list[at[m]]
    BY <1>1 DEF Places
  <2>3. \A k \in keep \cap (1 .. Len(list)) :
          \E m \in 1 .. Len(kept) : kept[m] = list[k]
    BY <1>1 DEF Places
  <2> QED BY <2>1, <2>2, <2>3
<1>5. ASSUME IsInjective(list), NEW l \in 1 .. Len(kept), NEW m \in 1 .. Len(kept),
             kept[l] = kept[m]
      PROVE  l = m
  <2>1. at[l] = at[m]
    BY <1>1, <1>3, <1>5 DEF Places, IsInjective
  <2>2. at[l] \in Int
    BY <1>1, <1>3 DEF Places
  <2> QED BY <1>1, <1>2, <2>1, <2>2 DEF Places
<1>6. IsInjective(list) => IsInjective(kept)
  BY <1>2, <1>5 DEF IsInjective
<1> QED BY <1>2, <1>4, <1>6 DEF kept

\* The plugins that an operation stages.
LEMMA Staging0 ==
  ASSUME NEW g \in Generations, NEW states \in [Plugins -> States]
  PROVE  /\ ToStage(g, states) \in Seq(Plugins)
         /\ ToSet(ToStage(g, states)) =
              {p \in Configured(g) : states[p] # "active"}
         /\ IsInjective(ToStage(g, states))
<1> DEFINE order == Harness[g].order
           keep == {n \in DOMAIN order : states[order[n]] # "active"}
<1>1. /\ order \in Seq(Configured(g)) /\ IsInjective(order)
      /\ ToSet(order) = Configured(g) /\ Configured(g) \subseteq Plugins
  BY LifecycleAssumption
<1>2. ToStage(g, states) = Kept(order, keep)
  BY DEF ToStage
<1> HIDE DEF order
<1>3. /\ Kept(order, keep) \in Seq(Configured(g)) /\ IsInjective(Kept(order, keep))
      /\ ToSet(Kept(order, keep)) = {order[k] : k \in keep \cap (1 .. Len(order))}
  BY <1>1, KeptSet
<1>4. DOMAIN order = 1 .. Len(order)
  BY <1>1
<1>5. {order[k] : k \in keep \cap (1 .. Len(order))} =
        {p \in Configured(g) : states[p] # "active"}
  BY <1>1, <1>4 DEF ToSet
<1>6. Seq(Configured(g)) \subseteq Seq(Plugins)
  BY <1>1, SeqMonotonic
<1> QED BY <1>2, <1>3, <1>5, <1>6

\* A table of instances names no object twice.
Distinct(instances) ==
  \A p, q \in Plugins :
    instances[p] # None /\ instances[p] = instances[q] => p = q

\* The queue of a rollback holds the staged instances, each once, the last
\* staged first: what a guest needs is stopped after the guest.
LEMMA RollbackQueue ==
  ASSUME op.staged \in Seq(Plugins), op.instance \in [Plugins -> Objects \cup {None}],
         IsInjective(op.staged), Distinct(op.instance)
  PROVE  /\ CleanupQueue \in Seq(Objects) /\ IsInjective(CleanupQueue)
         /\ ToSet(CleanupQueue) = {op.instance[p] : p \in ToSet(op.staged)} \ {None}
         /\ \A n \in DOMAIN CleanupQueue : \E k \in DOMAIN op.staged :
              /\ CleanupQueue[n] = op.instance[op.staged[k]]
              /\ \A j \in 1 .. k - 1 : op.instance[op.staged[j]] # None =>
                   \E m \in n + 1 .. Len(CleanupQueue) :
                     CleanupQueue[m] = op.instance[op.staged[j]]
<1> DEFINE staged == op.staged
           table == op.instance
           len == Len(staged)
           back == Reverse(staged)
           keep == {n \in DOMAIN back : table[back[n]] # None}
           started == Kept(back, keep)
           queue == [n \in DOMAIN started |-> table[started[n]]]
<1>1. CleanupQueue = queue
  BY DEF CleanupQueue, Instances
<1>2. len \in Nat /\ DOMAIN staged = 1 .. len
  OBVIOUS
<1>3. \A n \in 1 .. len : staged[n] \in Plugins
  OBVIOUS
<1>4. \A k \in 1 .. len : len - k + 1 \in 1 .. len /\ len - (len - k + 1) + 1 = k
  BY <1>2
<1>5. /\ back = [n \in 1 .. len |-> staged[len - n + 1]]
      /\ back \in Seq(Plugins) /\ Len(back) = len
  <2>1. back = [n \in 1 .. len |-> staged[len - n + 1]]
    BY DEF Reverse
  <2>2. back \in [1 .. len -> Plugins]
    BY <1>2, <1>3, <1>4, <2>1
  <2> HIDE DEF back, len
  <2>3. back \in Seq(Plugins) /\ Len(back) = len
    BY <1>2, <2>2
  <2> QED BY <2>1, <2>3
<1> HIDE DEF back
<1>6. PICK at : Places(started, len, back, keep, at)
  <2>1. \E at : Places(Kept(back, keep), Len(back), back, keep, at)
    BY <1>5, KeptPlaces
  <2> QED BY <1>5, <2>1
<1>7. started \in Seq(Plugins) /\ Len(started) \in Nat
      /\ DOMAIN started = 1 .. Len(started)
  <2>1. started \in Seq(Plugins)
    BY <1>5, KeptPlaces
  <2> HIDE DEF started
  <2> QED BY <2>1
<1> HIDE DEF started
<1>8. \A n \in 1 .. Len(started) :
        /\ at[n] \in 1 .. len /\ len - at[n] + 1 \in 1 .. len
        /\ started[n] = staged[len - at[n] + 1]
        /\ table[started[n]] # None
        /\ table[started[n]] \in Objects
  <2> TAKE n \in 1 .. Len(started)
  <2>1. at[n] \in 1 .. len /\ at[n] \in keep /\ started[n] = back[at[n]]
    BY <1>6 DEF Places
  <2>2. started[n] = staged[len - at[n] + 1]
    BY <1>5, <2>1
  <2>3. table[started[n]] # None
    BY <2>1
  <2>4. table[started[n]] \in Objects
    BY <1>7, <2>3
  <2> QED BY <1>4, <2>1, <2>2, <2>3, <2>4
<1>9. queue \in Seq(Objects) /\ Len(queue) = Len(started)
      /\ DOMAIN queue = 1 .. Len(started)
      /\ \A n \in 1 .. Len(started) : queue[n] = table[started[n]]
  <2>1. queue \in [1 .. Len(started) -> Objects]
    BY <1>7, <1>8
  <2>2. queue \in Seq(Objects) /\ Len(queue) = Len(started)
    BY <1>7, <2>1
  <2> QED BY <1>7, <2>2
<1> HIDE DEF queue
<1>10. IsInjective(queue)
  <2> SUFFICES ASSUME NEW l \in 1 .. Len(started), NEW m \in 1 .. Len(started),
                      queue[l] = queue[m]
               PROVE  l = m
    BY <1>9 DEF IsInjective
  <2>1. started[l] = started[m]
    BY <1>7, <1>8, <1>9 DEF Distinct
  <2>2. len - at[l] + 1 = len - at[m] + 1
    <3>1. /\ len - at[l] + 1 \in DOMAIN staged /\ len - at[m] + 1 \in DOMAIN staged
          /\ staged[len - at[l] + 1] = staged[len - at[m] + 1]
      BY <1>2, <1>8, <2>1
    <3> QED BY <3>1 DEF IsInjective
  <2>3. PICK a, b : a = at[l] /\ b = at[m]
    OBVIOUS
  <2>4. a \in 1 .. len /\ b \in 1 .. len /\ len - a + 1 = len - b + 1
    BY <1>8, <2>2, <2>3
  <2>5. a = b
    <3> HIDE DEF len
    <3> QED BY <1>2, <2>4
  <2>6. \A x, y \in DOMAIN started : at[x] = at[y] => x = y
    BY <1>6 DEF Places
  <2> QED BY <1>7, <2>3, <2>5, <2>6
<1>11. \A k \in 1 .. len : table[staged[k]] # None =>
         \E n \in 1 .. Len(started) : at[n] = len - k + 1 /\ queue[n] = table[staged[k]]
  <2> SUFFICES ASSUME NEW k \in 1 .. len, table[staged[k]] # None
               PROVE  \E n \in 1 .. Len(started) :
                        at[n] = len - k + 1 /\ queue[n] = table[staged[k]]
    OBVIOUS
  <2>1. len - k + 1 \in 1 .. len /\ back[len - k + 1] = staged[k]
    BY <1>4, <1>5
  <2>2. len - k + 1 \in keep
    BY <1>5, <2>1
  <2>3. PICK n \in 1 .. Len(started) : at[n] = len - k + 1
    BY <1>6, <2>1, <2>2 DEF Places
  <2>4. started[n] = staged[k]
    BY <1>4, <1>8, <2>3
  <2> QED BY <1>9, <2>3, <2>4
<1>12. ToSet(queue) = {table[p] : p \in ToSet(staged)} \ {None}
  <2>1. ASSUME NEW n \in 1 .. Len(started)
        PROVE  queue[n] \in {table[p] : p \in ToSet(staged)} \ {None}
    <3>1. /\ queue[n] = table[staged[len - at[n] + 1]] /\ queue[n] # None
          /\ len - at[n] + 1 \in DOMAIN staged
      BY <1>2, <1>8, <1>9
    <3>2. staged[len - at[n] + 1] \in ToSet(staged)
      BY <3>1 DEF ToSet
    <3> QED BY <3>1, <3>2
  <2>2. ASSUME NEW k \in 1 .. len, table[staged[k]] # None
        PROVE  \E n \in 1 .. Len(started) : queue[n] = table[staged[k]]
    BY <1>11, <2>2
  <2>3. ToSet(queue) = {queue[n] : n \in 1 .. Len(started)}
    BY <1>9 DEF ToSet
  <2>4. ToSet(staged) = {staged[k] : k \in 1 .. len}
    BY <1>2 DEF ToSet
  <2> HIDE DEF len, staged, table
  <2> QED BY <2>1, <2>2, <2>3, <2>4
<1>13. ASSUME NEW n \in 1 .. Len(started)
       PROVE  \E k \in 1 .. len :
                /\ queue[n] = table[staged[k]]
                /\ \A j \in 1 .. k - 1 : table[staged[j]] # None =>
                     \E m \in n + 1 .. Len(started) : queue[m] = table[staged[j]]
  <2> DEFINE k == len - at[n] + 1
  <2>1. k \in 1 .. len /\ queue[n] = table[staged[k]] /\ at[n] = len - k + 1
    BY <1>2, <1>8, <1>9
  <2> HIDE DEF k
  <2>2. ASSUME NEW j \in 1 .. k - 1, table[staged[j]] # None
        PROVE  \E m \in n + 1 .. Len(started) : queue[m] = table[staged[j]]
    <3>1. j \in 1 .. len /\ len - j + 1 > len - k + 1
      BY <1>2, <2>1
    <3>2. PICK m \in 1 .. Len(started) :
            at[m] = len - j + 1 /\ queue[m] = table[staged[j]]
      BY <1>11, <2>2, <3>1
    <3>3. ~ (m <= n)
      <4> SUFFICES ASSUME m <= n PROVE FALSE
        OBVIOUS
      <4>1. m = n \/ m < n
        BY <1>7
      <4>2. at[m] = at[n] \/ at[m] < at[n]
        BY <1>6, <4>1 DEF Places
      <4> QED BY <1>2, <2>1, <3>1, <3>2, <4>2
    <3>4. m \in n + 1 .. Len(started)
      BY <1>7, <3>3
    <3> QED BY <3>2, <3>4
  <2> QED BY <2>1, <2>2
<1> QED BY <1>1, <1>2, <1>9, <1>10, <1>12, <1>13

\* The queue of a retirement holds the installed instances of the plugins
\* to retire, each once.
LEMMA RetirementQueue ==
  ASSUME instance \in [Plugins -> Objects \cup {None}], Distinct(instance),
         NEW plugins
  PROVE  /\ InstancesOf(plugins) \in Seq(Objects)
         /\ IsInjective(InstancesOf(plugins))
         /\ ToSet(InstancesOf(plugins)) =
              {instance[p] : p \in plugins \cap Plugins} \ {None}
<1> DEFINE keep == {n \in DOMAIN PluginOrder :
             PluginOrder[n] \in plugins /\ instance[PluginOrder[n]] # None}
           retired == Kept(PluginOrder, keep)
           queue == [n \in DOMAIN retired |-> instance[retired[n]]]
<1>1. InstancesOf(plugins) = queue
  BY DEF InstancesOf
<1>2. PluginOrder \in Seq(Plugins) /\ IsInjective(PluginOrder)
  BY LifecycleAssumption
<1>3. /\ retired \in Seq(Plugins) /\ IsInjective(retired)
      /\ ToSet(retired) = {PluginOrder[k] : k \in keep \cap (1 .. Len(PluginOrder))}
  BY <1>2, KeptSet
<1>4. DOMAIN PluginOrder = 1 .. Len(PluginOrder)
  BY <1>2
<1>5. ToSet(retired) = {p \in plugins \cap Plugins : instance[p] # None}
  BY <1>3, <1>4 DEF Plugins, ToSet
<1> HIDE DEF retired
<1>6. DOMAIN retired = 1 .. Len(retired) /\ Len(retired) \in Nat
      /\ \A n \in 1 .. Len(retired) : retired[n] \in Plugins
  BY <1>3
<1>7. \A n \in 1 .. Len(retired) :
        retired[n] \in plugins /\ instance[retired[n]] # None
        /\ instance[retired[n]] \in Objects
  BY <1>5, <1>6 DEF ToSet
<1>8. queue \in [1 .. Len(retired) -> Objects]
  BY <1>6, <1>7
<1>9. queue \in Seq(Objects)
  BY <1>6, <1>8
<1>10. IsInjective(queue)
  BY <1>3, <1>6, <1>7 DEF IsInjective, Distinct
<1>11. ToSet(queue) = {instance[p] : p \in plugins \cap Plugins} \ {None}
  <2>1. ToSet(queue) = {instance[retired[n]] : n \in 1 .. Len(retired)}
    BY <1>6 DEF ToSet
  <2>2. ToSet(queue) = {instance[p] : p \in ToSet(retired)}
    BY <1>6, <2>1 DEF ToSet
  <2> QED BY <1>5, <2>2
<1> QED BY <1>1, <1>9, <1>10, <1>11

-----------------------------------------------------------------------------
(* What a transition restarts.                                             *)

\* One visit of the restart set of transition_plan.
Visit(previous, next, restart, c) ==
  IF c \in Reconfigured(previous, next)
  THEN CollectRequiredDependents(next, c,
         CollectRequiredDependents(previous, c, restart \cup {c}))
  ELSE restart

\* f[n] is the restart set after n visits.
Visits(f, previous, next, order) ==
  /\ f[0] = {}
  /\ \A n \in 1 .. Len(order) :
       f[n] = Visit(previous, next, f[n - 1], order[n])
  /\ Restarts(previous, next, order) = f[Len(order)]

\* The recursion of Restarts has a solution.
LEMMA RestartsDefined ==
  ASSUME NEW previous, NEW next, NEW S, NEW order \in Seq(S)
  PROVE  \E f : Visits(f, previous, next, order)
<1> DEFINE Step(f, n) == IF n = 0 THEN {}
                         ELSE Visit(previous, next, f[n - 1], order[n])
           Solves(g, n) == g = [i \in 0 .. n |-> Step(g, i)]
           none == {n \in Nat : ~ \E g : Solves(g, n)}
<1>1. none = {}
  <2> SUFFICES ASSUME none # {} PROVE FALSE
    OBVIOUS
  <2>1. PICK n \in none : \A m \in none : n <= m
    <3>1. none \subseteq Nat
      <4> HIDE DEF Solves
      <4> QED OBVIOUS
    <3> HIDE DEF none
    <3> QED BY <3>1, LeastNumber
  <2>2. n \in Nat /\ n # 0
    <3>1. Solves([i \in 0 .. 0 |-> {}], 0)
      OBVIOUS
    <3>2. n \in Nat /\ ~ \E g : Solves(g, n)
      <4> HIDE DEF Solves
      <4> QED BY <2>1
    <3> HIDE DEF Solves
    <3> QED BY <3>1, <3>2
  <2>3. n - 1 \in Nat /\ n - 1 \notin none
    <3> HIDE DEF none
    <3> QED BY <2>1, <2>2
  <2>4. PICK g : Solves(g, n - 1)
    <3> HIDE DEF Solves
    <3> QED BY <2>3
  <2> DEFINE h == [i \in 0 .. n |-> IF i = n THEN Step(g, n) ELSE g[i]]
  <2>5. ASSUME NEW i \in 0 .. n PROVE h[i] = Step(h, i)
    <3>1. CASE i = n
      <4>1. h[n - 1] = g[n - 1]
        BY <2>2
      <4> QED BY <2>2, <3>1, <4>1
    <3>2. CASE i # n
      <4>1. i \in 0 .. n - 1 /\ (i # 0 => i - 1 \in 0 .. n - 1 /\ i - 1 # n)
        BY <2>2, <3>2
      <4>2. h[i] = g[i] /\ (i # 0 => h[i - 1] = g[i - 1])
        BY <2>2, <4>1
      <4>3. g[i] = Step(g, i)
        BY <2>4, <4>1
      <4> QED BY <4>2, <4>3
    <3> QED BY <3>1, <3>2
  <2>6. h = [i \in 0 .. n |-> h[i]]
    OBVIOUS
  <2> HIDE DEF h
  <2>7. Solves(h, n)
    BY <2>5, <2>6
  <2> QED BY <2>1, <2>7
<1>2. PICK g : Solves(g, Len(order))
  <2>1. Len(order) \in Nat
    OBVIOUS
  <2> HIDE DEF Solves
  <2> QED BY <1>1, <2>1
<1> DEFINE f == CHOOSE f : f = [n \in 0 .. Len(order) |-> Step(f, n)]
<1>3. Restarts(previous, next, order) = f[Len(order)]
  BY DEF Restarts, Visit
<1>4. f = [n \in 0 .. Len(order) |-> Step(f, n)]
  BY <1>2
<1> HIDE DEF f
<1>5. \A n \in 0 .. Len(order) : f[n] = Step(f, n)
  BY <1>4
<1>6. Visits(f, previous, next, order)
  BY <1>3, <1>5 DEF Visits
<1> QED BY <1>6

\* The searches add to what is given.
LEMMA CollectGrows ==
  ASSUME NEW harness, NEW c, NEW affected
  PROVE  /\ affected \subseteq CollectRequiredDependents(harness, c, affected)
         /\ CollectRequiredDependents(harness, c, affected)
              \subseteq affected \cup DOMAIN harness.components
  BY DEF CollectRequiredDependents

\* A visit adds a reconfigured component and only components that are known.
LEMMA VisitGrows ==
  ASSUME NEW previous, NEW next, NEW restart, NEW c
  PROVE  /\ restart \subseteq Visit(previous, next, restart, c)
         /\ c \in Reconfigured(previous, next) =>
              c \in Visit(previous, next, restart, c)
         /\ Visit(previous, next, restart, c) \subseteq
              restart \cup DOMAIN previous.components \cup DOMAIN next.components
<1> DEFINE first == CollectRequiredDependents(previous, c, restart \cup {c})
           second == CollectRequiredDependents(next, c, first)
<1>1. /\ restart \cup {c} \subseteq first /\ first \subseteq second
      /\ first \subseteq restart \cup {c} \cup DOMAIN previous.components
      /\ second \subseteq first \cup DOMAIN next.components
  <2> HIDE DEF first
  <2>1. /\ first \subseteq second
        /\ second \subseteq first \cup DOMAIN next.components
    BY CollectGrows
  <2>2. /\ restart \cup {c} \subseteq first
        /\ first \subseteq restart \cup {c} \cup DOMAIN previous.components
    BY CollectGrows DEF first
  <2> QED BY <2>1, <2>2
<1>2. c \in Reconfigured(previous, next) => c \in DOMAIN previous.components
  BY DEF Reconfigured
<1>3. Visit(previous, next, restart, c) =
        IF c \in Reconfigured(previous, next) THEN second ELSE restart
  BY DEF Visit
<1> HIDE DEF first, second
<1> QED BY <1>1, <1>2, <1>3

\* The restart set has the reconfigured components, only components, and is
\* empty when nothing is reconfigured.
LEMMA RestartsBounds ==
  ASSUME NEW previous, NEW next, NEW S, NEW order \in Seq(S)
  PROVE  /\ Reconfigured(previous, next) \cap ToSet(order)
              \subseteq Restarts(previous, next, order)
         /\ Restarts(previous, next, order)
              \subseteq DOMAIN previous.components \cup DOMAIN next.components
         /\ Reconfigured(previous, next) = {} =>
              Restarts(previous, next, order) = {}
<1>1. Len(order) \in Nat /\ DOMAIN order = 1 .. Len(order)
  OBVIOUS
<1>2. PICK f : Visits(f, previous, next, order)
  BY RestartsDefined
<1> DEFINE changed == Reconfigured(previous, next)
           all == DOMAIN previous.components \cup DOMAIN next.components
           Holds(n) == /\ \A k \in 1 .. n : order[k] \in changed => order[k] \in f[n]
                       /\ f[n] \subseteq all
                       /\ changed = {} => f[n] = {}
           wrong == {n \in 0 .. Len(order) : ~ Holds(n)}
<1>3. wrong = {}
  <2> SUFFICES ASSUME wrong # {} PROVE FALSE
    OBVIOUS
  <2>1. PICK n \in wrong : \A m \in wrong : n <= m
    <3>1. wrong \subseteq Nat
      <4> HIDE DEF Holds
      <4> QED BY <1>1
    <3> HIDE DEF wrong
    <3> QED BY <3>1, LeastNumber
  <2>2. n # 0
    <3>1. Holds(0)
      BY <1>2 DEF Visits
    <3> HIDE DEF Holds
    <3> QED BY <2>1, <3>1
  <2>3. n \in 1 .. Len(order) /\ n - 1 \in 0 .. Len(order) /\ n - 1 \notin wrong
    <3>1. n \in 0 .. Len(order)
      <4> HIDE DEF Holds
      <4> QED BY <2>1
    <3> HIDE DEF wrong
    <3> QED BY <1>1, <2>1, <2>2, <3>1
  <2>4. Holds(n - 1)
    <3> HIDE DEF Holds
    <3> QED BY <2>3
  <2>5. f[n] = Visit(previous, next, f[n - 1], order[n])
    BY <1>2, <2>3 DEF Visits
  <2>6. /\ f[n - 1] \subseteq f[n] /\ f[n] \subseteq f[n - 1] \cup all
        /\ order[n] \in changed => order[n] \in f[n]
    <3>1. f[n] \subseteq f[n - 1] \cup DOMAIN previous.components
                           \cup DOMAIN next.components
      BY <2>5, VisitGrows
    <3> QED BY <2>5, <3>1, VisitGrows
  <2>7. changed = {} => f[n] = f[n - 1]
    BY <2>5 DEF Visit
  <2>8. \A k \in 1 .. n : k = n \/ k \in 1 .. n - 1
    BY <2>3
  <2> HIDE DEF changed, all
  <2>9. Holds(n)
    BY <2>4, <2>6, <2>7, <2>8
  <2> QED BY <2>1, <2>9
<1>4. Holds(Len(order))
  <2> HIDE DEF Holds
  <2> QED BY <1>1, <1>3
<1> HIDE DEF changed, all
<1>5. changed \cap ToSet(order) \subseteq f[Len(order)]
  BY <1>1, <1>4 DEF ToSet
<1>6. Restarts(previous, next, order) = f[Len(order)]
  BY <1>2 DEF Visits
<1> QED BY <1>4, <1>5, <1>6 DEF changed, all

\* restart_plugins_for_plan: the owners of all components that change.
LEMMA RequestedPlugins ==
  ASSUME NEW g \in Generations, NEW h \in Generations
  PROVE  /\ RestartPlugins(Harness[g], Harness[h], ComponentOrder) \subseteq Plugins
         /\ \A c \in DOMAIN Harness[h].components :
              Harness[h].components[c].owner
                \notin RestartPlugins(Harness[g], Harness[h], ComponentOrder)
              => Same(Harness[g].components, Harness[h].components, c)
         /\ g = h =>
              RestartPlugins(Harness[g], Harness[h], ComponentOrder) = {}
<1> DEFINE old == Harness[g]
           new == Harness[h]
           order == ComponentOrder
<1>1. order \in Seq(ToSet(order))
  BY LifecycleAssumption
<1>2. /\ Reconfigured(old, new) \cap ToSet(order) \subseteq Restarts(old, new, order)
      /\ Restarts(old, new, order) \subseteq DOMAIN old.components \cup DOMAIN new.components
      /\ Reconfigured(old, new) = {} => Restarts(old, new, order) = {}
  BY <1>1, RestartsBounds
<1>3. \A c \in DOMAIN old.components \cup DOMAIN new.components :
        Owner(old, new, c) \in Plugins
  BY LifecycleAssumption DEF Owner
<1>4. RestartPlugins(old, new, order) \subseteq Plugins
  BY <1>2, <1>3 DEF RestartPlugins, Added, Removed
<1>5. ASSUME NEW c \in DOMAIN new.components,
             ~ Same(old.components, new.components, c)
      PROVE  new.components[c].owner \in RestartPlugins(old, new, order)
  <2>1. c \in ToSet(order)
    BY LifecycleAssumption
  <2>2. c \in Added(old, new) \/ c \in Restarts(old, new, order)
    BY <1>2, <1>5, <2>1 DEF Same, Added, Reconfigured
  <2>3. Owner(old, new, c) = new.components[c].owner
    BY DEF Owner
  <2> QED BY <2>2, <2>3 DEF RestartPlugins
<1>6. ASSUME g = h PROVE RestartPlugins(old, new, order) = {}
  <2>1. Reconfigured(old, new) = {}
    BY <1>6 DEF Reconfigured
  <2>2. Added(old, new) = {} /\ Removed(old, new) = {}
    BY <1>6 DEF Added, Removed
  <2> QED BY <1>2, <2>1, <2>2 DEF RestartPlugins
<1> QED BY <1>4, <1>5, <1>6

\* runtime_restart_closure: what is outside is unchanged and runs on a
\* provider outside.
LEMMA RestartClosure ==
  ASSUME NEW g \in Generations, NEW h \in Generations, NEW requested,
         requested \subseteq Plugins,
         NEW restart,
         restart = RuntimeRestartClosure(Harness[g], Harness[h], requested)
  PROVE  /\ requested \subseteq restart /\ restart \subseteq Plugins
         /\ \A p \in Configured(h) \ restart :
              Same(Harness[g].manifests, Harness[h].manifests, p)
         /\ \A p \in DOMAIN Harness[h].bindings \ restart :
              /\ Same(Harness[g].bindings, Harness[h].bindings, p)
              /\ Harness[h].bindings[p] \notin restart
         /\ g = h /\ requested = {} => restart = {}
<1> DEFINE old == Harness[g]
           new == Harness[h]
           guests == DOMAIN new.bindings
           changed == requested
             \cup {p \in DOMAIN new.manifests :
                     ~ Same(old.manifests, new.manifests, p)}
             \cup {p \in DOMAIN new.bindings : ~ Same(old.bindings, new.bindings, p)}
           Closed(S) == \A q \in guests : new.bindings[q] \in changed \cup S => q \in S
           least == {q \in guests : \A S \in SUBSET guests : Closed(S) => q \in S}
<1>1. restart = changed \cup least
  BY DEF RuntimeRestartClosure
<1>2. guests \subseteq Plugins /\ DOMAIN new.manifests \subseteq Plugins
  BY LifecycleAssumption DEF Configured
<1>3. changed \subseteq Plugins
  BY <1>2
<1>4. Closed(least)
  <2> HIDE DEF changed, guests
  <2> SUFFICES ASSUME NEW q \in guests, new.bindings[q] \in changed \cup least,
                      NEW S \in SUBSET guests, Closed(S)
               PROVE  q \in S
    OBVIOUS
  <2>1. least \subseteq S
    OBVIOUS
  <2> QED BY <2>1
<1>5. ASSUME NEW p \in guests, p \notin restart
      PROVE  new.bindings[p] \notin restart
  <2> HIDE DEF changed, least
  <2> QED BY <1>1, <1>4, <1>5
<1>6. ASSUME g = h, requested = {} PROVE restart = {}
  <2>1. changed = {}
    BY <1>6 DEF Same
  <2>2. Closed({})
    BY <2>1
  <2>3. least = {}
    BY <2>2
  <2> QED BY <1>1, <2>1, <2>3
<1>7. \A p \in Configured(h) \ restart : Same(old.manifests, new.manifests, p)
  BY <1>1 DEF Configured
<1>8. \A p \in guests \ restart : Same(old.bindings, new.bindings, p)
  BY <1>1
<1> HIDE DEF changed, least
<1> QED BY <1>1, <1>2, <1>3, <1>5, <1>6, <1>7, <1>8 DEF changed, least

-----------------------------------------------------------------------------
(* What the invariant says of types and names.                             *)

Things == [life : Lives, plugin : Plugins \cup {None},
           born : Generations \cup {None}, provider : Objects \cup {None},
           retired : Generations \cup {None}]
Listening == [plugin : Plugins, generation : Generations, object : Objects]
AnyOp == {NoOp} \cup StagingOps \cup StopOps

\* What the constants are, as the proofs below use it.
LEMMA Constants ==
  /\ None \notin Generations /\ None \notin Plugins /\ None \notin Objects
  /\ Initial \in Generations /\ Preloaded \subseteq Plugins
  /\ MaxObjects \in Nat /\ MaxStops \in Nat
BY LifecycleAssumption

\* A resolved harness binds configured plugins to configured plugins.
LEMMA Harnesses ==
  ASSUME NEW g \in Generations
  PROVE  /\ Configured(g) \subseteq Plugins
         /\ Harness[g].listeners \subseteq Configured(g)
         /\ \A p \in DOMAIN Harness[g].bindings :
              /\ p \in Configured(g) /\ p \in Plugins
              /\ Harness[g].bindings[p] \in Configured(g)
              /\ Harness[g].bindings[p] \in Plugins
         /\ \A p \in Configured(g) :
              Execution(g, p) = "runtime" <=> p \in DOMAIN Harness[g].bindings
<1>1. Configured(g) \subseteq Plugins
  BY LifecycleAssumption
<1>2. \A p \in DOMAIN Harness[g].bindings :
        p \in Configured(g) /\ Harness[g].bindings[p] \in Configured(g)
  BY LifecycleAssumption
<1> QED BY <1>1, <1>2, LifecycleAssumption

\* The kind of an operation says which of the records it is.
LEMMA Kinds ==
  ASSUME NEW o \in AnyOp
  PROVE  /\ o.kind \in {"idle", "activate", "reconcile", "stop"}
         /\ o.kind \in {"activate", "reconcile"} => o \in StagingOps
         /\ o.kind = "stop" => o \in StopOps
         /\ o.kind = "idle" => o = NoOp
BY DEF AnyOp, NoOp, StagingOps, StopOps

\* Shape, with the alternatives of the operation gathered in AnyOp.
LEMMA ShapeFrom ==
  Shape <=> /\ generation \in Generations \cup {None}
            /\ config \in Generations /\ reconciler \in Generations
            /\ state \in [Plugins -> States]
            /\ instance \in [Plugins -> Objects \cup {None}]
            /\ preloaded \subseteq Plugins /\ runtimeActive \in BOOLEAN
            /\ subscriptions \subseteq Listening
            /\ object \in [Objects -> Things]
            /\ call \in [Calls -> WorkRecords] /\ task \in [Tasks -> WorkRecords]
            /\ stops \in 0 .. MaxStops
            /\ op \in AnyOp
<1>1. op \in AnyOp =>
        /\ op.kind \in {"idle", "activate", "reconcile", "stop"}
        /\ op.kind \in {"activate", "reconcile"} =>
             /\ op.state \in [Plugins -> States]
             /\ op.instance \in [Plugins -> Objects \cup {None}]
             /\ op.current \in Objects \cup {None}
  <2> SUFFICES ASSUME op \in AnyOp
               PROVE  /\ op.kind \in {"idle", "activate", "reconcile", "stop"}
                      /\ op.kind \in {"activate", "reconcile"} =>
                           /\ op.state \in [Plugins -> States]
                           /\ op.instance \in [Plugins -> Objects \cup {None}]
                           /\ op.current \in Objects \cup {None}
    OBVIOUS
  <2>1. op.kind \in {"idle", "activate", "reconcile", "stop"}
    BY Kinds
  <2>2. op.kind \in {"activate", "reconcile"} => op \in StagingOps
    BY Kinds
  <2> QED BY <2>1, <2>2 DEF StagingOps
<1> HIDE DEF AnyOp
<1> QED BY <1>1, Zenon DEF Shape, TypeOK, AnyOp, Things, Listening

\* What a step must show to keep the shape of the state.
LEMMA ShapeNext ==
  ASSUME generation' \in Generations \cup {None},
         config' \in Generations, reconciler' \in Generations,
         state' \in [Plugins -> States],
         instance' \in [Plugins -> Objects \cup {None}],
         preloaded' \subseteq Plugins, runtimeActive' \in BOOLEAN,
         subscriptions' \subseteq Listening, object' \in [Objects -> Things],
         call' \in [Calls -> WorkRecords], task' \in [Tasks -> WorkRecords],
         stops' \in 0 .. MaxStops, op' \in AnyOp
  PROVE  Shape'
<1>1. op'.kind \in {"idle", "activate", "reconcile", "stop"}
  BY Kinds
<1>2. op'.kind \in {"activate", "reconcile"} => op' \in StagingOps
  BY Kinds
<1>3. op'.kind \in {"activate", "reconcile"} =>
        /\ op'.state \in [Plugins -> States]
        /\ op'.instance \in [Plugins -> Objects \cup {None}]
        /\ op'.current \in Objects \cup {None}
  BY <1>2 DEF StagingOps
<1> QED BY <1>1, <1>3, Zenon DEF Shape, TypeOK, AnyOp, Things, Listening

\* What the invariant says of the variables taken one by one.
LEMMA Basics ==
  ASSUME IInv
  PROVE  /\ generation \in Generations \cup {None}
         /\ config \in Generations /\ reconciler \in Generations
         /\ state \in [Plugins -> States]
         /\ instance \in [Plugins -> Objects \cup {None}]
         /\ preloaded \subseteq Plugins /\ runtimeActive \in BOOLEAN
         /\ subscriptions \subseteq Listening
         /\ object \in [Objects -> Things]
         /\ call \in [Calls -> WorkRecords] /\ task \in [Tasks -> WorkRecords]
         /\ stops \in 0 .. MaxStops
         /\ op \in AnyOp
         /\ Distinct(instance)
         /\ Moving => op \in StagingOps /\ Distinct(op.instance)
         /\ op.kind = "stop" => op \in StopOps
         /\ ~ Idle <=> Moving \/ op.kind = "stop"
         /\ op.kind # "stop" \/ ~ Moving
<1>1. /\ generation \in Generations \cup {None}
      /\ config \in Generations /\ reconciler \in Generations
      /\ state \in [Plugins -> States]
      /\ instance \in [Plugins -> Objects \cup {None}]
      /\ preloaded \subseteq Plugins /\ runtimeActive \in BOOLEAN
      /\ subscriptions \subseteq Listening
      /\ object \in [Objects -> Things]
      /\ call \in [Calls -> WorkRecords] /\ task \in [Tasks -> WorkRecords]
      /\ stops \in 0 .. MaxStops
      /\ op \in AnyOp
  BY ShapeFrom DEF IInv
<1>2. Distinct(instance)
  BY DEF IInv, Names, Serves, Distinct
<1>3. Moving => Distinct(op.instance)
  BY DEF IInv, Names, Serves, Distinct
<1>4. /\ op.kind \in {"idle", "activate", "reconcile", "stop"}
      /\ op.kind \in {"activate", "reconcile"} => op \in StagingOps
      /\ op.kind = "stop" => op \in StopOps
  BY <1>1, Kinds
<1>5. /\ Moving => op \in StagingOps
      /\ ~ Idle <=> Moving \/ op.kind = "stop"
      /\ op.kind # "stop" \/ ~ Moving
  BY <1>4 DEF Moving, Idle
<1> QED BY <1>1, <1>2, <1>3, <1>4, <1>5

\* What never changes of an instance once it has been made.
Alike ==
  \A i \in Objects : object[i].life # "unborn" =>
    /\ object'[i].life # "unborn"
    /\ object'[i].plugin = object[i].plugin
    /\ object'[i].born = object[i].born
    /\ object'[i].provider = object[i].provider
    /\ Spared(i) => object'[i].life \notin {"starting", "failed"}

\* Calls and tasks go on, with nothing but their flags and phases changed.
SameCalls ==
  \A c \in Calls : call'[c].phase # "free" =>
    /\ call[c].phase # "free" /\ call'[c].object = call[c].object
    /\ call'[c].plugin = call[c].plugin
    /\ call'[c].generation = call[c].generation
SameTasks ==
  \A t \in Tasks : task'[t].phase # "free" =>
    /\ task[t].phase # "free" /\ task'[t].object = task[t].object
    /\ task'[t].plugin = task[t].plugin
    /\ task'[t].generation = task[t].generation

\* Names is kept by a step that installs and subscribes nothing.
LEMMA NamesFrame ==
  ASSUME IInv, Alike, UNCHANGED <<instance, subscriptions>>, SameCalls, SameTasks,
         Moving' => \A p \in Plugins : op'.instance[p] # None =>
           /\ op'.instance[p] \in Objects
           /\ object'[op'.instance[p]].plugin = p
           /\ object'[op'.instance[p]].life # "unborn"
  PROVE  Names'
<1>1. /\ instance \in [Plugins -> Objects \cup {None}]
      /\ subscriptions \subseteq Listening
      /\ instance' = instance /\ subscriptions' = subscriptions
  BY Basics
<1>2. \A p \in Plugins : instance'[p] # None => Serves(instance[p], p)'
  BY <1>1 DEF IInv, Names, Serves, Alike
<1>3. Moving' => \A p \in Plugins : op'.instance[p] # None => Serves(op.instance[p], p)'
  BY DEF Serves
<1>4. \A s \in subscriptions' : Serves(s.object, s.plugin)' /\ Spared(s.object)'
  <2> SUFFICES ASSUME NEW s \in subscriptions
               PROVE  Serves(s.object, s.plugin)' /\ Spared(s.object)'
    BY <1>1
  <2>1. s.object \in Objects
    BY <1>1 DEF Listening
  <2>2. Serves(s.object, s.plugin) /\ Spared(s.object)
    BY DEF IInv, Names
  <2> QED BY <2>1, <2>2 DEF Serves, Spared, Alike
<1>5. \A c \in Calls : call'[c].phase # "free" =>
        /\ call'[c].object \in Objects /\ call'[c].generation \in Generations
        /\ Serves(call[c].object, call[c].plugin)' /\ Spared(call[c].object)'
  BY DEF IInv, Names, Serves, Spared, Alike, SameCalls
<1>6. \A t \in Tasks : task'[t].phase # "free" =>
        /\ task'[t].object \in Objects /\ task'[t].generation \in Generations
        /\ Serves(task[t].object, task[t].plugin)'
  BY DEF IInv, Names, Serves, Alike, SameTasks
<1> QED BY <1>2, <1>3, <1>4, <1>5, <1>6 DEF Names

\* The kernel is as it was: what is settled stays settled.
LEMMA SettledFrame ==
  ASSUME IInv, Alike,
         UNCHANGED <<generation, config, state, instance, runtimeActive,
                     subscriptions>>,
         stops' = 0 => stops = 0,
         generation = None => \A i \in Objects : object'[i].born = None,
         op'.kind = "stop" => stops' # 0 /\ op'.plugin \in Configured(config)
  PROVE  Settled'
<1> USE DEF IInv, Settled
<1>1. /\ instance \in [Plugins -> Objects \cup {None}] /\ config \in Generations
      /\ \A p \in Plugins : instance[p] # None =>
           instance[p] \in Objects /\ object[instance[p]].life # "unborn"
  BY Basics DEF Names, Serves
<1>2. /\ generation' = generation /\ config' = config /\ state' = state
      /\ instance' = instance /\ runtimeActive' = runtimeActive
      /\ subscriptions' = subscriptions /\ (stops' = 0 => stops = 0)
  OBVIOUS
<1>3. (IF generation = None
       THEN /\ config = Initial /\ subscriptions = {}
            /\ \A i \in Objects : object[i].born = None
       ELSE config = generation)'
  BY <1>2
<1>4. /\ \A p \in Plugins : state'[p] = "active" \/ instance'[p] = None
      /\ \A p \in Plugins :
           state'[p] = "active" => runtimeActive' /\ p \in Configured(config')
  BY <1>2
<1>5. runtimeActive' /\ stops' = 0 => AllActive'
  BY <1>2 DEF AllActive
<1>6. /\ \A s \in subscriptions' :
           /\ s.generation = generation'
           /\ state'[s.plugin] = "active" => instance'[s.plugin] = s.object
      /\ \/ subscriptions' = {}
         \/ {s.plugin : s \in subscriptions'} = Harness[generation'].listeners
  <2>1. /\ \A s \in subscriptions :
           /\ s.generation = generation
           /\ state[s.plugin] = "active" => instance[s.plugin] = s.object
        /\ \/ subscriptions = {}
           \/ {s.plugin : s \in subscriptions} = Harness[generation].listeners
    OBVIOUS
  <2> QED BY <1>2, <2>1
<1>7. \A p \in Configured(config') :
        state'[p] = "active" => StartedFor(config, p, instance[p])'
  <2> SUFFICES ASSUME NEW p \in Configured(config), state[p] = "active"
               PROVE  StartedFor(config, p, instance[p])'
    BY <1>2
  <2>1. p \in Plugins
    BY <1>1, Harnesses
  <2>2. StartedFor(config, p, instance[p])
    OBVIOUS
  <2>3. CASE instance[p] = None
    BY <1>2, <2>2, <2>3 DEF StartedFor
  <2>4. CASE instance[p] # None
    <3>1. object'[instance[p]].born = object[instance[p]].born
      BY <1>1, <2>1, <2>4 DEF Alike
    <3> QED BY <1>2, <2>2, <3>1 DEF StartedFor, CurrentIn
  <2> QED BY <2>3, <2>4
<1>8. stops' = 0 => Follow(config, instance)'
  <2> SUFFICES ASSUME stops = 0, NEW p \in DOMAIN Harness[config].bindings,
                      instance[p] # None
               PROVE  object'[instance[p]].provider
                        = instance[Harness[config].bindings[p]]
    BY <1>2 DEF Follow
  <2>1. object[instance[p]].provider = instance[Harness[config].bindings[p]]
    BY DEF Follow
  <2>2. p \in Plugins
    BY <1>1, Harnesses
  <2> QED BY <1>1, <2>1, <2>2 DEF Alike
<1> QED BY <1>2, <1>3, <1>4, <1>5, <1>6, <1>7, <1>8

\* The fields of an operation that its plan is about.
SamePlan ==
  /\ op'.kind = op.kind /\ op'.target = op.target
  /\ op'.generation = op.generation /\ op'.state = op.state
  /\ op'.instance = op.instance /\ op'.todo = op.todo
  /\ op'.staged = op.staged /\ op'.restart = op.restart

\* The instances of a pending operation are those of its table.
LEMMA Table ==
  ASSUME IInv, Moving
  PROVE  /\ op.target \in Generations
         /\ op.instance \in [Plugins -> Objects \cup {None}]
         /\ op.state \in [Plugins -> States]
         /\ op.todo \in Seq(Plugins) /\ op.staged \in Seq(Plugins)
         /\ op.generation \in Generations \cup {None}
         /\ op.restart \subseteq Plugins
         /\ \A p \in Plugins : op.instance[p] # None =>
              op.instance[p] \in Objects /\ object[op.instance[p]].life # "unborn"
              /\ object[op.instance[p]].plugin = p
<1>1. op \in StagingOps
  BY Basics
<1>2. \A p \in Plugins : op.instance[p] # None => Serves(op.instance[p], p)
  BY DEF IInv, Names
<1> QED BY <1>1, <1>2 DEF StagingOps, Serves

\* Plan is kept by a step that changes neither kernel nor plan.
LEMMA PlanFrame ==
  ASSUME IInv, Alike, SamePlan, Pending, UNCHANGED kernel, UNCHANGED stops
  PROVE  Aimed' /\ Staged' /\ Hosted'
<1>1. /\ generation' = generation /\ config' = config /\ reconciler' = reconciler
      /\ instance' = instance /\ runtimeActive' = runtimeActive /\ stops' = stops
  BY DEF kernel
<1>2. /\ op'.kind = op.kind /\ op'.target = op.target
      /\ op'.generation = op.generation /\ op'.state = op.state
      /\ op'.instance = op.instance /\ op'.todo = op.todo
      /\ op'.staged = op.staged /\ op'.restart = op.restart
  BY DEF SamePlan
<1>3. Aimed /\ Staged /\ Hosted
  BY DEF IInv, Plan
<1>4. /\ op.target \in Generations
      /\ op.instance \in [Plugins -> Objects \cup {None}]
      /\ op.staged \in Seq(Plugins)
      /\ \A p \in Plugins : op.instance[p] # None =>
           op.instance[p] \in Objects /\ object[op.instance[p]].life # "unborn"
  BY Table DEF Pending
<1>5. \A p \in Plugins : op.instance[p] # None =>
        /\ object'[op.instance[p]].provider = object[op.instance[p]].provider
        /\ object'[op.instance[p]].born = object[op.instance[p]].born
  BY <1>4 DEF Alike
<1>6. Retired' = Retired
  BY <1>1, <1>2 DEF Retired
<1>7. Aimed'
  BY <1>1, <1>2, <1>3, <1>6 DEF Aimed
<1>8. ASSUME NEW p \in Configured(op.target), op.state[p] = "active"
      PROVE  StartedFor(op.target, p, op.instance[p])'
  <2>1. p \in Plugins
    BY <1>4, Harnesses
  <2>2. StartedFor(op.target, p, op.instance[p])
    BY <1>3, <1>8 DEF Staged
  <2> QED BY <1>2, <1>5, <2>1, <2>2 DEF StartedFor, CurrentIn
<1>9. Staged'
  <2>1. \A i : Installed(i)' <=> Installed(i)
    BY <1>1 DEF Installed
  <2> QED BY <1>1, <1>2, <1>3, <1>8, <2>1 DEF Staged, Installed
<1>10. ASSUME NEW p \in ToSet(op.staged), op.instance[p] # None
       PROVE  Provided(op.instance[p], p)'
  <2>1. p \in Plugins
    BY <1>4 DEF ToSet
  <2>2. Provided(op.instance[p], p)
    BY <1>3, <1>10 DEF Hosted
  <2> QED BY <1>2, <1>5, <1>10, <2>1, <2>2 DEF Provided
<1>11. stops = 0 => Follow(op.target, op.instance)'
  <2> SUFFICES ASSUME stops = 0, NEW p \in DOMAIN Harness[op.target].bindings,
                      op.instance[p] # None
               PROVE  object'[op.instance[p]].provider
                        = op.instance[Harness[op.target].bindings[p]]
    BY <1>2 DEF Follow
  <2>1. object[op.instance[p]].provider = op.instance[Harness[op.target].bindings[p]]
    BY <1>3 DEF Hosted, Follow
  <2>2. p \in Plugins
    BY <1>4, Harnesses
  <2> QED BY <1>5, <2>1, <2>2
<1>12. ASSUME NEW n \in DOMAIN op.staged, op.instance[op.staged[n]] # None
       PROVE  LET provider == object'[op.instance[op.staged[n]]].provider
              IN \/ provider = None \/ \E p \in Plugins : instance[p] = provider
                 \/ \E m \in 1 .. n - 1 : op.instance[op.staged[m]] = provider
  <2>1. op.staged[n] \in Plugins
    BY <1>4
  <2> QED BY <1>3, <1>5, <1>12, <2>1 DEF Hosted, Installed
<1>13. Hosted'
  BY <1>1, <1>2, <1>3, <1>10, <1>11, <1>12 DEF Hosted, Installed
<1> QED BY <1>7, <1>9, <1>13

-----------------------------------------------------------------------------
(* The steps of calls and tasks leave the kernel and its operation alone.  *)

\* What a step of calls and tasks must show to keep the invariant.
LEMMA WorkFrame ==
  ASSUME IInv, UNCHANGED <<kernel, preloaded, op, object, stops>>,
         call' \in [Calls -> WorkRecords], task' \in [Tasks -> WorkRecords],
         \A c \in Calls : call'[c].phase # "free" =>
           /\ call'[c].object \in Objects /\ call'[c].generation \in Generations
           /\ Serves(call'[c].object, call'[c].plugin) /\ Spared(call'[c].object),
         \A t \in Tasks : task'[t].phase # "free" =>
           /\ task'[t].object \in Objects /\ task'[t].generation \in Generations
           /\ Serves(task'[t].object, task'[t].plugin),
         \A i \in Objects : Retiring(i) =>
           \A c \in Calls : Ended(call'[c], i),
         \A i \in Objects : TasksEnded(i) =>
           \A t \in Tasks : Ended(task'[t], i)
  PROVE  IInv'
<1>1. /\ generation' = generation /\ config' = config /\ reconciler' = reconciler
      /\ state' = state /\ subscriptions' = subscriptions
      /\ instance' = instance /\ runtimeActive' = runtimeActive
      /\ preloaded' = preloaded /\ op' = op /\ object' = object /\ stops' = stops
  BY DEF kernel
<1>2. Alike
  BY <1>1 DEF Alike, Spared
<1>3. Shape'
  <2>1. /\ generation' \in Generations \cup {None}
        /\ config' \in Generations /\ reconciler' \in Generations
        /\ state' \in [Plugins -> States]
        /\ instance' \in [Plugins -> Objects \cup {None}]
        /\ preloaded' \subseteq Plugins /\ runtimeActive' \in BOOLEAN
        /\ subscriptions' \subseteq Listening /\ object' \in [Objects -> Things]
        /\ stops' \in 0 .. MaxStops /\ op' \in AnyOp
    BY <1>1, Basics
  <2> QED BY <2>1, ShapeNext
<1>4. Names'
  <2>1. Names
    BY DEF IInv
  <2> QED BY <1>1, <2>1 DEF Names, Serves, Spared, Moving
<1>5. Settled'
  <2>1. generation = None => \A i \in Objects : object'[i].born = None
    BY <1>1 DEF IInv, Settled
  <2>2. op'.kind = "stop" => stops # 0 /\ op'.plugin \in Configured(config)
    BY <1>1 DEF IInv, Settled
  <2> QED BY <1>1, <1>2, <2>1, <2>2, SettledFrame
<1>6. Plan'
  <2> SUFFICES ASSUME Pending PROVE (Aimed /\ Staged /\ Hosted /\ Phased)'
    BY <1>1 DEF Plan, Pending, Moving
  <2>1. SamePlan
    BY <1>1 DEF SamePlan
  <2>2. Aimed' /\ Staged' /\ Hosted'
    BY <1>1, <1>2, <2>1, PlanFrame
  <2>3. Phased
    BY DEF IInv, Plan
  <2>4. Phased'
    BY <1>1, <2>3 DEF Phased, Unused, Provided
  <2> QED BY <2>2, <2>4
<1>7. Queue'
  <2>1. Queue
    BY DEF IInv
  <2> QED BY <1>1, <2>1 DEF Queue, Moving, Installed
<1>8. Running'
  <2>1. Running
    BY DEF IInv
  <2> QED BY <1>1, <2>1 DEF Running, Held, BeingStopped, Installed, Moving
<1>9. Ending'
  <2>1. Ending
    BY DEF IInv
  <2>2. \A i \in Objects : /\ BeingStopped(i)' <=> BeingStopped(i)
                           /\ Retiring(i)' <=> Retiring(i)
                           /\ TasksEnded(i)' <=> TasksEnded(i)
    BY <1>1 DEF BeingStopped, Retiring, TasksEnded, Moving
  <2>3. \A i \in Objects : BeingStopped(i)' => object'[i].retired = StopGeneration'
    BY <1>1, <2>1, <2>2 DEF Ending, StopGeneration, Moving
  <2>4. \A i \in Objects : Retiring(i)' => \A c \in Calls : Ended(call[c], i)'
    BY <1>1, <2>2 DEF Ended
  <2>5. \A i \in Objects : TasksEnded(i)' => \A t \in Tasks : Ended(task[t], i)'
    BY <1>1, <2>2 DEF Ended
  <2> QED BY <2>3, <2>4, <2>5 DEF Ending
<1> QED BY <1>3, <1>4, <1>5, <1>6, <1>7, <1>8, <1>9 DEF IInv

\* What the invariant says of the work that goes on.
LEMMA WorkNow ==
  ASSUME IInv
  PROVE  /\ call \in [Calls -> WorkRecords] /\ task \in [Tasks -> WorkRecords]
         /\ object \in [Objects -> Things]
         /\ \A c \in Calls : call[c].phase # "free" =>
              /\ call[c].object \in Objects /\ call[c].generation \in Generations
              /\ Serves(call[c].object, call[c].plugin) /\ Spared(call[c].object)
         /\ \A t \in Tasks : task[t].phase # "free" =>
              /\ task[t].object \in Objects /\ task[t].generation \in Generations
              /\ Serves(task[t].object, task[t].plugin)
         /\ \A i \in Objects : Retiring(i) => \A c \in Calls : Ended(call[c], i)
         /\ \A i \in Objects : TasksEnded(i) => \A t \in Tasks : Ended(task[t], i)
         /\ \A i \in Objects : TasksEnded(i) => Retiring(i)
<1>1. \A i \in Objects : BeingStopped(i) => object[i].life = "stopping"
  BY DEF IInv, Running
<1>2. \A i \in Objects : TasksEnded(i) => Retiring(i)
  BY <1>1 DEF TasksEnded, Retiring
<1> QED BY <1>2, Basics DEF IInv, Names, Ending

\* One call changes.
LEMMA CallStep ==
  ASSUME IInv, UNCHANGED <<kernel, preloaded, op, object, task, stops>>,
         NEW c \in Calls, NEW w \in WorkRecords, call' = [call EXCEPT ![c] = w],
         w.phase # "free" =>
           /\ w.object \in Objects /\ w.generation \in Generations
           /\ Serves(w.object, w.plugin) /\ Spared(w.object),
         \A i \in Objects : Retiring(i) => Ended(w, i)
  PROVE  IInv'
<1>1. call' \in [Calls -> WorkRecords] /\ task' = task
  BY WorkNow
<1>2. \A d \in Calls : call'[d] = IF d = c THEN w ELSE call[d]
  BY WorkNow
<1>3. task' \in [Tasks -> WorkRecords]
  BY <1>1, WorkNow
<1>4. \A d \in Calls : call'[d].phase # "free" =>
        /\ call'[d].object \in Objects /\ call'[d].generation \in Generations
        /\ Serves(call'[d].object, call'[d].plugin) /\ Spared(call'[d].object)
  <2> SUFFICES ASSUME NEW d \in Calls, call'[d].phase # "free"
               PROVE  /\ call'[d].object \in Objects
                      /\ call'[d].generation \in Generations
                      /\ Serves(call'[d].object, call'[d].plugin)
                      /\ Spared(call'[d].object)
    OBVIOUS
  <2>1. CASE d = c
    BY <1>2, <2>1
  <2>2. CASE d # c
    <3>1. call'[d] = call[d]
      BY <1>2, <2>2
    <3> QED BY <3>1, WorkNow
  <2> QED BY <2>1, <2>2
<1>5. \A i \in Objects : Retiring(i) => \A d \in Calls : Ended(call'[d], i)
  <2> SUFFICES ASSUME NEW i \in Objects, Retiring(i), NEW d \in Calls
               PROVE  Ended(call'[d], i)
    OBVIOUS
  <2>1. Ended(call[d], i)
    BY WorkNow
  <2>2. CASE d = c
    BY <1>2, <2>2
  <2>3. CASE d # c
    BY <1>2, <2>1, <2>3
  <2> QED BY <2>2, <2>3
<1>6. \A t \in Tasks : task'[t].phase # "free" =>
        /\ task'[t].object \in Objects /\ task'[t].generation \in Generations
        /\ Serves(task'[t].object, task'[t].plugin)
  BY <1>1, WorkNow
<1>7. \A i \in Objects : TasksEnded(i) => \A t \in Tasks : Ended(task'[t], i)
  BY <1>1, WorkNow
<1> QED BY <1>1, <1>3, <1>4, <1>5, <1>6, <1>7, WorkFrame

\* One task changes.
LEMMA TaskStep ==
  ASSUME IInv, UNCHANGED <<kernel, preloaded, op, object, call, stops>>,
         NEW t \in Tasks, NEW w \in WorkRecords, task' = [task EXCEPT ![t] = w],
         w.phase # "free" =>
           /\ w.object \in Objects /\ w.generation \in Generations
           /\ Serves(w.object, w.plugin),
         \A i \in Objects : TasksEnded(i) => Ended(w, i)
  PROVE  IInv'
<1>1. task' \in [Tasks -> WorkRecords] /\ call' = call
  BY WorkNow
<1>2. \A d \in Tasks : task'[d] = IF d = t THEN w ELSE task[d]
  BY WorkNow
<1>3. call' \in [Calls -> WorkRecords]
  BY <1>1, WorkNow
<1>4. \A d \in Tasks : task'[d].phase # "free" =>
        /\ task'[d].object \in Objects /\ task'[d].generation \in Generations
        /\ Serves(task'[d].object, task'[d].plugin)
  <2> SUFFICES ASSUME NEW d \in Tasks, task'[d].phase # "free"
               PROVE  /\ task'[d].object \in Objects
                      /\ task'[d].generation \in Generations
                      /\ Serves(task'[d].object, task'[d].plugin)
    OBVIOUS
  <2>1. CASE d = t
    BY <1>2, <2>1
  <2>2. CASE d # t
    <3>1. task'[d] = task[d]
      BY <1>2, <2>2
    <3> QED BY <3>1, WorkNow
  <2> QED BY <2>1, <2>2
<1>5. \A i \in Objects : TasksEnded(i) => \A d \in Tasks : Ended(task'[d], i)
  <2> SUFFICES ASSUME NEW i \in Objects, TasksEnded(i), NEW d \in Tasks
               PROVE  Ended(task'[d], i)
    OBVIOUS
  <2>1. Ended(task[d], i)
    BY WorkNow
  <2>2. CASE d = t
    BY <1>2, <2>2
  <2>3. CASE d # t
    BY <1>2, <2>1, <2>3
  <2> QED BY <2>2, <2>3
<1>6. \A c \in Calls : call'[c].phase # "free" =>
        /\ call'[c].object \in Objects /\ call'[c].generation \in Generations
        /\ Serves(call'[c].object, call'[c].plugin) /\ Spared(call'[c].object)
  BY <1>1, WorkNow
<1>7. \A i \in Objects : Retiring(i) => \A c \in Calls : Ended(call'[c], i)
  BY <1>1, WorkNow
<1> QED BY <1>1, <1>3, <1>4, <1>5, <1>6, <1>7, WorkFrame

\* A delivery captures a listener that is subscribed, thus one that serves.
LEMMA Capture ==
  ASSUME IInv, NEW c \in Calls, NEW s \in subscriptions, CaptureListener(c, s)
  PROVE  IInv'
<1> DEFINE w == [phase |-> "captured", plugin |-> s.plugin,
                 generation |-> s.generation, object |-> s.object,
                 cancelled |-> FALSE, late |-> FALSE]
<1>1. /\ s.plugin \in Plugins /\ s.generation \in Generations
      /\ s.object \in Objects
  BY Basics DEF Listening
<1>2. Serves(s.object, s.plugin) /\ Spared(s.object)
  BY DEF IInv, Names
<1>3. w \in WorkRecords
  BY <1>1 DEF WorkRecords
<1>4. \A i \in Objects : Ended(w, i)
  BY DEF Ended
<1>5. /\ call' = [call EXCEPT ![c] = w]
      /\ UNCHANGED <<kernel, preloaded, op, object, task, stops>>
  BY DEF CaptureListener
<1>6. /\ w.object \in Objects /\ w.generation \in Generations
      /\ Serves(w.object, w.plugin) /\ Spared(w.object)
  BY <1>1, <1>2
<1> HIDE DEF w
<1> QED BY <1>3, <1>4, <1>5, <1>6, CallStep

\* A captured call begins, late when its instance is being retired.
LEMMA Begun ==
  ASSUME IInv, NEW c \in Calls, BeginCall(c)
  PROVE  IInv'
<1> DEFINE w == [call[c] EXCEPT !.phase = "running",
                                !.late = Retiring(call[c].object)]
<1>1. /\ call \in [Calls -> WorkRecords] /\ call[c].phase = "captured"
      /\ UNCHANGED <<kernel, preloaded, op, object, task, stops>>
  BY Basics DEF BeginCall
<1>2. /\ call[c].object \in Objects /\ call[c].generation \in Generations
      /\ Serves(call[c].object, call[c].plugin) /\ Spared(call[c].object)
  BY <1>1, WorkNow
<1>3. Retiring(call[c].object) \in BOOLEAN
  BY DEF Retiring
<1>4. /\ w \in WorkRecords /\ w.object = call[c].object
      /\ w.plugin = call[c].plugin /\ w.generation = call[c].generation
      /\ w.late = Retiring(call[c].object)
  <2> DEFINE b == Retiring(call[c].object)
  <2>1. b \in BOOLEAN
    BY <1>3
  <2> HIDE DEF b
  <2>2. LET v == [call[c] EXCEPT !.phase = "running", !.late = b]
        IN /\ v \in WorkRecords /\ v.object = call[c].object
           /\ v.plugin = call[c].plugin /\ v.generation = call[c].generation
           /\ v.late = b
    BY <1>1, <2>1 DEF WorkRecords
  <2> QED BY <2>2 DEF b
<1>5. call' = [call EXCEPT ![c] = w]
  <2> DEFINE b == Retiring(call[c].object)
  <2>1. call' = [call EXCEPT ![c].phase = "running", ![c].late = b]
    BY Zenon DEF BeginCall
  <2> HIDE DEF b
  <2>2. call' = [call EXCEPT ![c] = [call[c] EXCEPT !.phase = "running", !.late = b]]
    BY <1>1, <2>1
  <2> QED BY <2>2 DEF b
<1>6. \A i \in Objects : Retiring(i) => Ended(w, i)
  BY <1>4 DEF Ended
<1> HIDE DEF w
<1> QED BY <1>1, <1>2, <1>4, <1>5, <1>6, CallStep

\* A running call ends.
LEMMA Finished ==
  ASSUME IInv, NEW c \in Calls, FinishCall(c)
  PROVE  IInv'
<1> DEFINE w == [call[c] EXCEPT !.phase =
                   IF call[c].cancelled THEN "rejected" ELSE "accepted"]
<1>1. /\ call \in [Calls -> WorkRecords] /\ call[c].phase = "running"
      /\ UNCHANGED <<kernel, preloaded, op, object, task, stops>>
  BY Basics DEF FinishCall
<1>2. /\ call[c].object \in Objects /\ call[c].generation \in Generations
      /\ Serves(call[c].object, call[c].plugin) /\ Spared(call[c].object)
  BY <1>1, WorkNow
<1>3. /\ w \in WorkRecords /\ w.object = call[c].object
      /\ w.plugin = call[c].plugin /\ w.generation = call[c].generation
      /\ w.phase # "running"
  BY <1>1 DEF WorkRecords
<1>4. call' = [call EXCEPT ![c] = w]
  BY <1>1 DEF FinishCall
<1>5. \A i \in Objects : Ended(w, i)
  BY <1>3 DEF Ended
<1> HIDE DEF w
<1> QED BY <1>1, <1>2, <1>3, <1>4, <1>5, CallStep

\* A task started for an instance that serves its plugin keeps the invariant.
LEMMA Spawned ==
  ASSUME IInv, NEW t \in Tasks, NEW p, NEW g \in Generations \cup {None},
         NEW i \in Objects, Serves(i, p), Spawn(t, p, g, i)
  PROVE  IInv'
<1> DEFINE late == Retiring(i)
           w == [phase |-> "running", plugin |-> p, generation |-> g,
                 object |-> i, cancelled |-> FALSE, late |-> late]
<1>1. late \in BOOLEAN
  BY DEF Retiring
<1>2. task' = [task EXCEPT ![t] = w]
  BY Zenon DEF Spawn
<1>3. g \in Generations /\ UNCHANGED <<kernel, preloaded, op, object, call, stops>>
  BY DEF Spawn
<1>4. p \in Plugins \cup {None}
  <2>1. object[i].plugin = p /\ object[i] \in Things
    BY Basics DEF Serves
  <2> QED BY <2>1 DEF Things
<1>5. late <=> Retiring(i)
  OBVIOUS
<1> HIDE DEF late
<1>6. w \in WorkRecords /\ w.object = i /\ w.plugin = p /\ w.generation = g
      /\ w.late = late
  BY <1>1, <1>3, <1>4 DEF WorkRecords
<1>7. \A j \in Objects : TasksEnded(j) => Ended(w, j)
  BY <1>5, <1>6, WorkNow DEF Ended
<1> HIDE DEF w
<1> QED BY <1>2, <1>3, <1>6, <1>7, TaskStep

\* A task of an invocation belongs to the installed instance.
LEMMA InvocationSpawned ==
  ASSUME IInv, NEW t \in Tasks, NEW p \in Plugins, InvokeSpawns(t, p)
  PROVE  IInv'
<1>1. /\ instance[p] # None /\ instance[p] \in Objects
      /\ generation \in Generations \cup {None}
      /\ Spawn(t, p, generation, instance[p])
  BY Basics DEF InvokeSpawns
<1>2. Serves(instance[p], p)
  BY <1>1 DEF IInv, Names
<1> QED BY <1>1, <1>2, Spawned

\* A task of a call belongs to the instance of the call.
LEMMA CallSpawned ==
  ASSUME IInv, NEW t \in Tasks, NEW c \in Calls, CallSpawns(t, c)
  PROVE  IInv'
<1>1. /\ call[c].phase # "free"
      /\ Spawn(t, call[c].plugin, call[c].generation, call[c].object)
  BY DEF CallSpawns
<1>2. /\ call[c].object \in Objects /\ call[c].generation \in Generations
      /\ Serves(call[c].object, call[c].plugin)
  BY <1>1, WorkNow
<1> QED BY <1>1, <1>2, Spawned

\* A task started by a staged host belongs to the staged instance.
LEMMA HostSpawned ==
  ASSUME IInv, NEW t \in Tasks, NEW p \in Plugins, HostSpawns(t, p)
  PROVE  IInv'
<1>1. Moving
  <2>1. ~ Idle /\ op.phase \in {"start", "stage"}
    BY DEF HostSpawns, Preparing
  <2>2. op.kind = "stop" => op.phase \in {"tasks", "stop"}
    BY Basics DEF StopOps
  <2> QED BY <2>1, <2>2, Basics
<1>2. /\ op.instance[p] # None /\ op.instance[p] \in Objects
      /\ op.generation \in Generations \cup {None}
      /\ Spawn(t, p, op.generation, op.instance[p])
  BY <1>1, Table DEF HostSpawns
<1>3. Serves(op.instance[p], p)
  BY <1>1, <1>2 DEF IInv, Names
<1> QED BY <1>2, <1>3, Spawned

\* In the phase of a start its instance is there and has its plugin.
LEMMA InStart ==
  ASSUME IInv, ~ Idle, op.phase = "start"
  PROVE  /\ Moving /\ Pending /\ op.todo # <<>> /\ Head(op.todo) \in Plugins
         /\ Len(op.todo) <= Cardinality(Unused) + 1
         /\ op.current \in Objects /\ object[op.current].life = "starting"
         /\ object[op.current].plugin = Head(op.todo)
         /\ object[op.current].born = op.generation
         /\ Provided(op.current, Head(op.todo))
         /\ Execution(op.target, Head(op.todo)) # "resource"
<1>1. Moving
  <2>1. op.kind = "stop" => op.phase \in {"tasks", "stop"}
    BY Basics DEF StopOps
  <2> QED BY <2>1, Basics
<1>2. Pending
  BY <1>1 DEF Pending
<1>3. Phased
  BY <1>2 DEF IInv, Plan
<1>4. op.todo \in Seq(Plugins)
  BY <1>1, Table
<1> QED BY <1>1, <1>2, <1>3, <1>4 DEF Phased

\* A task of a start hook belongs to the instance being started.
LEMMA StartSpawned ==
  ASSUME IInv, NEW t \in Tasks, StartSpawns(t)
  PROVE  IInv'
<1>1. ~ Idle /\ op.phase = "start"
      /\ Spawn(t, Head(op.todo), op.generation, op.current)
  BY DEF StartSpawns
<1>2. op.current \in Objects /\ Serves(op.current, Head(op.todo))
  BY <1>1, InStart DEF Serves
<1>3. op.generation \in Generations \cup {None}
  BY <1>1, InStart, Table
<1> QED BY <1>1, <1>2, <1>3, Spawned

\* A task of a stop hook belongs to the instance being stopped.
LEMMA StopSpawned ==
  ASSUME IInv, NEW t \in Tasks, StopSpawns(t)
  PROVE  IInv'
<1>1. CASE /\ op.kind \in {"activate", "reconcile"} /\ op.queue # <<>>
           /\ op.step = "stop"
           /\ Spawn(t, object[Head(op.queue)].plugin, op.stopGeneration,
                    Head(op.queue))
  <2>1. Moving /\ op \in StagingOps
    BY <1>1, Basics DEF Moving
  <2>2. op.stopGeneration \in Generations \cup {None} /\ Head(op.queue) \in Objects
    BY <1>1, <2>1 DEF StagingOps
  <2>3. BeingStopped(Head(op.queue))
    BY <1>1, <2>1 DEF BeingStopped
  <2>4. object[Head(op.queue)].life = "stopping"
    BY <2>2, <2>3 DEF IInv, Running
  <2> QED BY <1>1, <2>2, <2>4, Spawned DEF Serves
<1>2. CASE /\ op.kind = "stop" /\ op.phase = "stop" /\ instance[op.plugin] # None
           /\ Spawn(t, op.plugin, generation, instance[op.plugin])
  <2>1. op.plugin \in Plugins
    BY <1>2, Basics DEF StopOps
  <2>2. instance[op.plugin] \in Objects /\ generation \in Generations \cup {None}
    BY <1>2, <2>1, Basics
  <2>3. Serves(instance[op.plugin], op.plugin)
    BY <1>2, <2>1 DEF IInv, Names
  <2> QED BY <1>2, <2>2, <2>3, Spawned
<1> QED BY <1>1, <1>2 DEF StopSpawns

\* A running task ends.
LEMMA TaskEnded ==
  ASSUME IInv, NEW t \in Tasks, EndTask(t)
  PROVE  IInv'
<1> DEFINE w == [task[t] EXCEPT !.phase = "ended"]
<1>1. /\ task \in [Tasks -> WorkRecords] /\ task[t].phase = "running"
      /\ UNCHANGED <<kernel, preloaded, op, object, call, stops>>
  BY Basics DEF EndTask
<1>2. /\ task[t].object \in Objects /\ task[t].generation \in Generations
      /\ Serves(task[t].object, task[t].plugin)
  BY <1>1, WorkNow
<1>3. /\ w \in WorkRecords /\ w.object = task[t].object
      /\ w.plugin = task[t].plugin /\ w.generation = task[t].generation
      /\ w.phase # "running"
  BY <1>1 DEF WorkRecords
<1>4. task' = [task EXCEPT ![t] = w]
  BY <1>1 DEF EndTask
<1>5. \A i \in Objects : Ended(w, i)
  BY <1>3 DEF Ended
<1> HIDE DEF w
<1> QED BY <1>1, <1>2, <1>3, <1>4, <1>5, TaskStep

\* Every step of calls and tasks keeps the invariant.
LEMMA WorkStepKeeps ==
  ASSUME IInv, WorkStep
  PROVE  IInv'
<1> QED BY Capture, Begun, Finished, InvocationSpawned, CallSpawned, HostSpawned,
           StartSpawned, StopSpawned, TaskEnded DEF WorkStep

-----------------------------------------------------------------------------
(* The beginning of an operation.                                          *)

\* A step that leaves the instances alone leaves them alike.
LEMMA SameObjects ==
  ASSUME object' = object
  PROVE  Alike
BY DEF Alike, Spared

\* A step that leaves calls and tasks alone ends none of them.
LEMMA SameWork ==
  ASSUME UNCHANGED work
  PROVE  SameCalls /\ SameTasks /\ call' = call /\ task' = task
BY DEF SameCalls, SameTasks, work

\* Nothing is being stopped after the step, and nothing has been in the step.
LEMMA EndingFrame ==
  ASSUME IInv, UNCHANGED work, \A i \in Objects : ~ BeingStopped(i)',
         \A i \in Objects : object'[i].life \in {"stopping", "stopped", "failed"} =>
           /\ object'[i].life = object[i].life
           /\ object'[i].retired = object[i].retired
  PROVE  Ending'
<1>1. call' = call /\ task' = task
  BY SameWork
<1>2. ASSUME NEW i \in Objects, Retiring(i)', NEW c \in Calls
      PROVE  Ended(call[c], i)'
  <2>1. Retiring(i) /\ object'[i].retired = object[i].retired
    BY <1>2 DEF Retiring
  <2>2. Ended(call[c], i)
    BY <2>1, WorkNow
  <2> QED BY <1>1, <2>1, <2>2 DEF Ended
<1>3. ASSUME NEW i \in Objects, TasksEnded(i)', NEW t \in Tasks
      PROVE  Ended(task[t], i)'
  <2>1. object'[i].life \in {"stopped", "failed"}
    BY <1>3 DEF TasksEnded
  <2>2. TasksEnded(i) /\ object'[i].retired = object[i].retired
    BY <2>1 DEF TasksEnded
  <2>3. Ended(task[t], i)
    BY <2>2, WorkNow
  <2> QED BY <1>1, <2>2, <2>3 DEF Ended
<1> QED BY <1>2, <1>3 DEF Ending

\* An idle kernel and its objects.
LEMMA WhenIdle ==
  ASSUME IInv, Idle
  PROVE  /\ op = NoOp /\ ~ Moving /\ ~ Pending /\ op.kind # "stop"
         /\ \A i \in Objects :
              /\ object[i].life \in {"started", "refused"} <=> Installed(i)
              /\ object[i].life # "stopping"
<1>1. op = NoOp /\ ~ Moving /\ ~ Pending /\ op.kind # "stop"
  BY Basics, Kinds DEF Idle, Moving, Pending
<1> QED BY <1>1 DEF IInv, Running, Held, BeingStopped, Moving

\* Kernel::activate_resolved_harness only names a generation of the same
\* manifests.
LEMMA ResolvedActivated ==
  ASSUME IInv, NEW g \in Generations, ActivateResolvedHarness(g)
  PROVE  IInv'
<1>1. /\ Idle /\ Harness[config].manifests = Harness[g].manifests
      /\ generation = None /\ generation' = g /\ config' = g
      /\ UNCHANGED <<state, instance, runtimeActive, subscriptions, reconciler,
                     preloaded, op, object, work, stops>>
  BY DEF ActivateResolvedHarness, SameConfiguration
<1>2. /\ state' = state /\ instance' = instance /\ runtimeActive' = runtimeActive
      /\ subscriptions' = subscriptions /\ reconciler' = reconciler
      /\ preloaded' = preloaded /\ op' = op /\ object' = object
      /\ UNCHANGED work /\ stops' = stops /\ call' = call /\ task' = task
  BY <1>1 DEF work
<1>3. op = NoOp /\ ~ Moving /\ ~ Moving' /\ op'.kind = "idle" /\ op.kind = "idle"
  BY <1>1, <1>2, WhenIdle DEF Moving, NoOp
<1>4. Shape'
  <2>1. /\ generation' \in Generations \cup {None} /\ config' \in Generations
        /\ reconciler' \in Generations /\ state' \in [Plugins -> States]
        /\ instance' \in [Plugins -> Objects \cup {None}]
        /\ preloaded' \subseteq Plugins /\ runtimeActive' \in BOOLEAN
        /\ subscriptions' \subseteq Listening /\ object' \in [Objects -> Things]
        /\ call' \in [Calls -> WorkRecords] /\ task' \in [Tasks -> WorkRecords]
        /\ stops' \in 0 .. MaxStops /\ op' \in AnyOp
    BY <1>1, <1>2, Basics
  <2> QED BY <2>1, ShapeNext
<1>5. Names'
  BY <1>2, <1>3, SameObjects, SameWork, NamesFrame
<1>6. Settled'
  <2>1. /\ Settled /\ config = Initial /\ subscriptions = {}
        /\ \A i \in Objects : object[i].born = None
    BY <1>1 DEF IInv, Settled
  <2>2. Configured(g) = Configured(config) /\ config \in Generations
        /\ Harness[g].bindings = Harness[config].bindings
        /\ \A p : Execution(g, p) = Execution(config, p)
    BY <1>1, Basics, LifecycleAssumption DEF Configured, Execution
  <2>3. g # None
    BY Constants
  <2>4. ASSUME NEW p \in Configured(config), state[p] = "active"
        PROVE  StartedFor(g, p, instance[p])'
    <3>1. StartedFor(config, p, instance[p])
      BY <2>1, <2>4 DEF Settled
    <3>2. instance[p] # None => object[instance[p]].born = None
      <4>1. p \in Plugins
        BY <2>2, Harnesses
      <4> QED BY <2>1, <4>1, Basics
    <3>3. CASE instance[p] = None
      BY <1>1, <1>2, <2>2, <3>1, <3>3 DEF StartedFor
    <3>4. CASE instance[p] # None
      BY <1>1, <1>2, <2>2, <3>1, <3>2, <3>4 DEF StartedFor, CurrentIn
    <3> QED BY <3>3, <3>4
  <2>5. stops = 0 => Follow(g, instance)'
    BY <1>2, <2>1, <2>2 DEF Settled, Follow
  <2>6. runtimeActive /\ stops = 0 => AllActive'
    BY <1>1, <1>2, <2>1, <2>2 DEF Settled, AllActive
  <2>7. \A p \in Configured(config') :
          state'[p] = "active" => StartedFor(config, p, instance[p])'
    BY <1>1, <1>2, <2>2, <2>4 DEF StartedFor, CurrentIn
  <2>8. stops' = 0 => Follow(config, instance)'
    BY <1>1, <1>2, <2>5 DEF Follow
  <2> QED BY <1>1, <1>2, <1>3, <2>1, <2>2, <2>3, <2>6, <2>7, <2>8 DEF Settled
<1>7. Plan' /\ Queue'
  BY <1>3 DEF Plan, Pending, Queue
<1>8. \A i \in Objects : ~ BeingStopped(i)'
  BY <1>3 DEF BeingStopped
<1>9. Running'
  <2>1. \A i \in Objects : Held(i)' <=> Installed(i)
    BY <1>2, <1>3 DEF Held, Installed
  <2> QED BY <1>1, <1>2, <1>8, <2>1, WhenIdle DEF Running
<1>10. Ending'
  BY <1>2, <1>8, EndingFrame
<1> QED BY <1>4, <1>5, <1>6, <1>7, <1>9, <1>10 DEF IInv

\* GraphReconciler::activate moves the graph and not the kernel.
LEMMA ReconcilerActivated ==
  ASSUME IInv, NEW g \in Generations, ReconcilerActivates(g)
  PROVE  IInv'
<1>1. /\ Idle /\ reconciler' = g
      /\ UNCHANGED <<generation, config, state, instance, runtimeActive,
                     subscriptions, preloaded, op, object, work, stops>>
  BY DEF ReconcilerActivates
<1>2. /\ generation' = generation /\ config' = config
      /\ state' = state /\ instance' = instance /\ runtimeActive' = runtimeActive
      /\ subscriptions' = subscriptions
      /\ preloaded' = preloaded /\ op' = op /\ object' = object
      /\ UNCHANGED work /\ stops' = stops /\ call' = call /\ task' = task
  BY <1>1 DEF work
<1>3. op = NoOp /\ ~ Moving /\ ~ Moving' /\ op'.kind = "idle" /\ op.kind = "idle"
  BY <1>1, <1>2, WhenIdle DEF Moving, NoOp
<1>4. Shape'
  <2>1. /\ generation' \in Generations \cup {None} /\ config' \in Generations
        /\ reconciler' \in Generations /\ state' \in [Plugins -> States]
        /\ instance' \in [Plugins -> Objects \cup {None}]
        /\ preloaded' \subseteq Plugins /\ runtimeActive' \in BOOLEAN
        /\ subscriptions' \subseteq Listening /\ object' \in [Objects -> Things]
        /\ call' \in [Calls -> WorkRecords] /\ task' \in [Tasks -> WorkRecords]
        /\ stops' \in 0 .. MaxStops /\ op' \in AnyOp
    BY <1>1, <1>2, Basics
  <2> QED BY <2>1, ShapeNext
<1>5. Names'
  BY <1>2, <1>3, SameObjects, SameWork, NamesFrame
<1>6. Settled'
  <2>1. generation = None => \A i \in Objects : object'[i].born = None
    BY <1>2 DEF IInv, Settled
  <2> QED BY <1>2, <1>3, <2>1, SameObjects, SettledFrame
<1>7. Plan' /\ Queue'
  BY <1>3 DEF Plan, Pending, Queue
<1>8. \A i \in Objects : ~ BeingStopped(i)'
  BY <1>3 DEF BeingStopped
<1>9. Running'
  <2>1. \A i \in Objects : Held(i)' <=> Installed(i)
    BY <1>2, <1>3 DEF Held, Installed
  <2> QED BY <1>1, <1>2, <1>8, <2>1, WhenIdle DEF Running
<1>10. Ending'
  BY <1>2, <1>8, EndingFrame
<1> QED BY <1>4, <1>5, <1>6, <1>7, <1>9, <1>10 DEF IInv

\* The fields of an operation that begins.
LEMMA Fields ==
  ASSUME NEW kind \in {"activate", "reconcile"}, NEW target \in Generations,
         NEW g \in Generations \cup {None}, NEW states \in [Plugins -> States],
         NEW instances \in [Plugins -> Objects \cup {None}],
         NEW todo \in Seq(Plugins), NEW restart \in SUBSET Plugins,
         NEW o, o = Operation(kind, target, g, states, instances, todo, restart)
  PROVE  /\ o \in StagingOps /\ o.kind = kind /\ o.phase = "stage"
         /\ o.target = target /\ o.generation = g /\ o.state = states
         /\ o.instance = instances /\ o.todo = todo /\ o.staged = <<>>
         /\ o.queue = <<>> /\ o.step = "calls" /\ o.restart = restart
<1>1. <<>> \in Seq(Plugins) /\ <<>> \in Seq(Objects)
  BY EmptySeq
<1> QED BY <1>1 DEF Operation, StagingOps

\* The empty list holds nothing.
LEMMA EmptyList ==
  /\ ToSet(<<>>) = {} /\ IsInjective(<<>>) /\ DOMAIN <<>> = {}
BY DEF ToSet, IsInjective

\* An operation begins with a table of instances that are installed.
LEMMA Begins ==
  ASSUME IInv, Idle, UNCHANGED <<kernel, preloaded, object, work, stops>>,
         op' \in StagingOps, op'.phase = "stage", op'.staged = <<>>,
         op'.queue = <<>>, op'.step = "calls", Bounded(op'),
         \A p \in Plugins : op'.instance[p] # None => op'.instance[p] = instance[p],
         Aimed', Staged', Hosted'
  PROVE  IInv'
<1>1. /\ generation' = generation /\ config' = config /\ reconciler' = reconciler
      /\ state' = state /\ instance' = instance /\ runtimeActive' = runtimeActive
      /\ subscriptions' = subscriptions
      /\ preloaded' = preloaded /\ object' = object
      /\ UNCHANGED work /\ stops' = stops /\ call' = call /\ task' = task
  BY DEF work, kernel
<1>2. op'.kind \in {"activate", "reconcile"} /\ op' \in AnyOp
  BY DEF StagingOps, AnyOp
<1>3. Shape'
  <2>1. /\ generation' \in Generations \cup {None} /\ config' \in Generations
        /\ reconciler' \in Generations /\ state' \in [Plugins -> States]
        /\ instance' \in [Plugins -> Objects \cup {None}]
        /\ preloaded' \subseteq Plugins /\ runtimeActive' \in BOOLEAN
        /\ subscriptions' \subseteq Listening /\ object' \in [Objects -> Things]
        /\ call' \in [Calls -> WorkRecords] /\ task' \in [Tasks -> WorkRecords]
        /\ stops' \in 0 .. MaxStops
    BY <1>1, Basics
  <2> QED BY <1>2, <2>1, ShapeNext
<1>4. Names'
  <2>1. \A p \in Plugins : instance[p] # None =>
          /\ instance[p] \in Objects
          /\ object[instance[p]].plugin = p /\ object[instance[p]].life # "unborn"
    BY Basics DEF IInv, Names, Serves
  <2> QED BY <1>1, <2>1, SameObjects, SameWork, NamesFrame
<1>5. Settled'
  <2>1. generation = None => \A i \in Objects : object'[i].born = None
    BY <1>1 DEF IInv, Settled
  <2> QED BY <1>1, <1>2, <2>1, SameObjects, SettledFrame
<1>6. Plan'
  <2>1. Phased'
    BY <1>1 DEF Phased, Bounded, Unused
  <2> QED BY <2>1 DEF Plan
<1>7. Queue'
  BY EmptyList DEF Queue
<1>8. \A i \in Objects : ~ BeingStopped(i)'
  BY <1>2 DEF BeingStopped
<1>9. Running'
  <2>1. \A i \in Objects : Held(i)' <=> Installed(i)
    BY <1>1, EmptyList DEF Held, Installed
  <2> QED BY <1>1, <1>8, <2>1, WhenIdle DEF Running
<1>10. Ending'
  BY <1>1, <1>8, EndingFrame
<1> QED BY <1>3, <1>4, <1>5, <1>6, <1>7, <1>9, <1>10 DEF IInv

\* Kernel::activate_all begins with the installed instances that are active.
LEMMA ActivationBegun ==
  ASSUME IInv, BeginActivateAll
  PROVE  IInv'
<1> DEFINE states == [p \in Plugins |->
               IF p \notin Configured(config) THEN "absent"
               ELSE IF runtimeActive THEN state[p] ELSE "registered"]
           instances == [p \in Plugins |->
               IF runtimeActive THEN instance[p] ELSE None]
           todo == ToStage(config, states)
<1>1. /\ Idle /\ Bounded(op')
      /\ UNCHANGED <<kernel, preloaded, object, work, stops>>
      /\ op' = Operation("activate", config, generation, states, instances, todo, {})
  BY Zenon DEF BeginActivateAll
<1>2. /\ generation' = generation /\ config' = config /\ reconciler' = reconciler
      /\ state' = state /\ instance' = instance /\ runtimeActive' = runtimeActive
      /\ object' = object /\ stops' = stops
  BY <1>1 DEF kernel
<1>3. /\ config \in Generations /\ generation \in Generations \cup {None}
      /\ state \in [Plugins -> States]
      /\ instance \in [Plugins -> Objects \cup {None}]
  BY Basics
<1>4. /\ \A p \in Plugins : state[p] = "active" \/ instance[p] = None
      /\ \A p \in Plugins :
           state[p] = "active" => runtimeActive /\ p \in Configured(config)
      /\ runtimeActive /\ stops = 0 => AllActive
      /\ \A p \in Configured(config) :
           state[p] = "active" => StartedFor(config, p, instance[p])
      /\ stops = 0 => Follow(config, instance)
  BY DEF IInv, Settled
<1>5. /\ states \in [Plugins -> States]
      /\ instances \in [Plugins -> Objects \cup {None}]
      /\ \A p \in Plugins : instances[p] = instance[p]
      /\ \A p \in Plugins : states[p] = "active" <=> state[p] = "active"
  BY <1>3, <1>4 DEF States
<1> HIDE DEF states, instances
<1>6. instances = instance
  BY <1>3, <1>5
<1>7. /\ todo \in Seq(Plugins) /\ IsInjective(todo)
      /\ ToSet(todo) = {p \in Configured(config) : states[p] # "active"}
  BY <1>3, <1>5, Staging0
<1> HIDE DEF todo
<1>8. /\ op' \in StagingOps /\ op'.kind = "activate" /\ op'.phase = "stage"
      /\ op'.target = config /\ op'.generation = generation /\ op'.state = states
      /\ op'.instance = instance /\ op'.todo = todo /\ op'.staged = <<>>
      /\ op'.queue = <<>> /\ op'.step = "calls"
  BY <1>1, <1>3, <1>5, <1>6, <1>7, Fields
<1>9. Configured(config) \subseteq Plugins
  BY <1>3, Harnesses
<1>10. Aimed'
  BY <1>2, <1>8 DEF Aimed
<1>11. Staged'
  <2>1. \A p \in Configured(config) : states[p] = "active" =>
          StartedFor(config, p, instance[p])
    BY <1>4, <1>5, <1>9
  <2>2. ASSUME NEW p \in Configured(op'.target), op'.state[p] = "active"
        PROVE  StartedFor(op.target, p, op.instance[p])'
    BY <1>2, <1>8, <2>1, <2>2 DEF StartedFor, CurrentIn
  <2>3. \A p \in Plugins : states[p] = "active" \/ instance[p] = None
    BY <1>4, <1>5
  <2>4. \A p \in Plugins : states[p] = "active" => p \in Configured(config)
    BY <1>4, <1>5
  <2>5. ToSet(todo) \subseteq Configured(config)
        /\ \A p \in Configured(config) : states[p] = "active" <=> p \notin ToSet(todo)
    BY <1>7
  <2> QED BY <1>2, <1>7, <1>8, <2>2, <2>3, <2>4, <2>5, EmptyList DEF Staged
<1>12. Hosted'
  <2>1. stops = 0 => Follow(config, instance)
    BY <1>4
  <2>2. ASSUME stops = 0, NEW p \in DOMAIN Harness[config].bindings,
               instance[p] # None
        PROVE  Harness[config].bindings[p] \notin ToSet(todo)
    <3>1. p \in Plugins /\ Harness[config].bindings[p] \in Configured(config)
      BY <1>3, Harnesses
    <3>2. state[p] = "active" /\ runtimeActive
      BY <1>4, <2>2, <3>1
    <3>3. state[Harness[config].bindings[p]] = "active"
      BY <1>4, <2>2, <3>1, <3>2 DEF AllActive
    <3> QED BY <1>5, <1>7, <1>9, <3>1, <3>3
  <2>3. stops' = 0 => Follow(op.target, op.instance)'
    BY <1>2, <1>8, <2>1 DEF Follow
  <2> QED BY <1>2, <1>8, <2>2, <2>3, EmptyList DEF Hosted
<1> QED BY <1>1, <1>8, <1>10, <1>11, <1>12, Begins

\* A reconciliation begins with the instances it retains.
LEMMA ReconciliationBegun ==
  ASSUME IInv, NEW g \in Generations, BeginReconcile(g)
  PROVE  IInv'
<1> DEFINE requested == RestartPlugins(Harness[reconciler], Harness[g],
                                       ComponentOrder)
           restart == RuntimeRestartClosure(Harness[config], Harness[g], requested)
           retained == {p \in Configured(g) \ restart : runtimeActive}
           states == [p \in Plugins |->
               IF p \in retained THEN "active"
               ELSE IF p \in Configured(g) THEN "registered" ELSE "absent"]
           instances == [p \in Plugins |->
               IF p \in retained THEN instance[p] ELSE None]
           todo == IF runtimeActive THEN ToStage(g, states) ELSE <<>>
<1>1. /\ Idle /\ Bounded(op')
      /\ UNCHANGED <<kernel, preloaded, object, work, stops>>
      /\ op' = Operation("reconcile", g, g, states, instances, todo, restart)
      /\ generation # None /\ generation = reconciler
      /\ IF runtimeActive THEN AllActive ELSE ~ AnyActive
  BY Zenon DEF BeginReconcile
<1>2. /\ generation' = generation /\ config' = config /\ reconciler' = reconciler
      /\ state' = state /\ instance' = instance /\ runtimeActive' = runtimeActive
      /\ object' = object /\ stops' = stops
  BY <1>1 DEF kernel
<1>3. /\ config \in Generations /\ config = generation /\ config = reconciler
      /\ state \in [Plugins -> States]
      /\ instance \in [Plugins -> Objects \cup {None}]
  BY <1>1, Basics DEF IInv, Settled
<1>4. /\ \A p \in Plugins : state[p] = "active" \/ instance[p] = None
      /\ \A p \in Plugins :
           state[p] = "active" => runtimeActive /\ p \in Configured(config)
      /\ \A p \in Configured(config) :
           state[p] = "active" => StartedFor(config, p, instance[p])
      /\ stops = 0 => Follow(config, instance)
  BY DEF IInv, Settled
<1>5. /\ requested \subseteq Plugins
      /\ \A c \in DOMAIN Harness[g].components :
           Harness[g].components[c].owner \notin requested
           => Same(Harness[config].components, Harness[g].components, c)
      /\ config = g => requested = {}
  BY <1>3, RequestedPlugins
<1> HIDE DEF requested
<1>6. /\ requested \subseteq restart /\ restart \subseteq Plugins
      /\ \A p \in Configured(g) \ restart :
           Same(Harness[config].manifests, Harness[g].manifests, p)
      /\ \A p \in DOMAIN Harness[g].bindings \ restart :
           /\ Same(Harness[config].bindings, Harness[g].bindings, p)
           /\ Harness[g].bindings[p] \notin restart
      /\ config = g /\ requested = {} => restart = {}
  <2>1. restart = RuntimeRestartClosure(Harness[config], Harness[g], requested)
    OBVIOUS
  <2> HIDE DEF restart
  <2> QED BY <1>3, <1>5, <2>1, RestartClosure
<1> HIDE DEF restart
<1>7. /\ \A p \in Plugins : p \in retained <=>
           p \in Configured(g) /\ p \notin restart /\ runtimeActive
      /\ retained \subseteq Configured(g)
      /\ ~ runtimeActive => retained = {}
  OBVIOUS
<1> HIDE DEF retained
<1>8. /\ states \in [Plugins -> States]
      /\ instances \in [Plugins -> Objects \cup {None}]
      /\ \A p \in Plugins : instances[p] = IF p \in retained THEN instance[p] ELSE None
      /\ \A p \in Plugins : states[p] = "active" <=> p \in retained
  BY <1>3 DEF States
<1> HIDE DEF states, instances
<1>9. Configured(g) \subseteq Plugins /\ Configured(config) \subseteq Plugins
  BY <1>3, Harnesses
<1>10. /\ todo \in Seq(Plugins) /\ IsInjective(todo)
       /\ ToSet(todo) \subseteq Configured(g)
       /\ \A p \in ToSet(todo) : states[p] # "active"
       /\ runtimeActive => \A p \in Configured(g) :
            states[p] = "active" \/ p \in ToSet(todo)
       /\ ~ runtimeActive => todo = <<>>
  <2>1. CASE runtimeActive
    BY <1>8, <2>1, Staging0
  <2>2. CASE ~ runtimeActive
    BY <2>2, EmptyList, EmptySeq
  <2> QED BY <2>1, <2>2
<1> HIDE DEF todo
<1>11. /\ op' \in StagingOps /\ op'.kind = "reconcile" /\ op'.phase = "stage"
       /\ op'.target = g /\ op'.generation = g /\ op'.state = states
       /\ op'.instance = instances /\ op'.todo = todo /\ op'.staged = <<>>
       /\ op'.queue = <<>> /\ op'.step = "calls" /\ op'.restart = restart
  BY <1>1, <1>6, <1>8, <1>10, Fields
<1>12. Retired' = {p \in Configured(config) :
                     \/ ~ Same(Harness[config].manifests, Harness[g].manifests, p)
                     \/ p \in restart}
  BY <1>2, <1>11 DEF Retired
<1>13. \A p \in retained : /\ p \in Configured(config) /\ state[p] = "active"
                           /\ Harness[config].manifests[p] = Harness[g].manifests[p]
                           /\ Same(Harness[config].manifests, Harness[g].manifests, p)
  <2> SUFFICES ASSUME NEW p \in retained
               PROVE  /\ p \in Configured(config) /\ state[p] = "active"
                      /\ Harness[config].manifests[p] = Harness[g].manifests[p]
                      /\ Same(Harness[config].manifests, Harness[g].manifests, p)
    OBVIOUS
  <2>1. p \in Configured(g) /\ p \notin restart /\ runtimeActive
    BY <1>7, <1>9
  <2>2. Same(Harness[config].manifests, Harness[g].manifests, p)
    BY <1>6, <2>1
  <2>3. p \in Configured(config)
        /\ Harness[config].manifests[p] = Harness[g].manifests[p]
    BY <2>1, <2>2 DEF Same, Configured
  <2> QED BY <1>1, <2>1, <2>2, <2>3 DEF AllActive
<1>14. Aimed'
  <2>1. ASSUME g = config PROVE todo = <<>> /\ Retired' = {}
    <3>1. restart = {}
      BY <1>5, <1>6, <2>1
    <3>2. Retired' = {}
      BY <1>12, <2>1, <3>1 DEF Same
    <3>3. ASSUME runtimeActive PROVE todo = <<>>
      <4>1. \A p \in Configured(g) : p \in retained
        BY <1>7, <1>9, <3>1, <3>3
      <4>2. ToSet(todo) = {}
        BY <1>8, <1>9, <1>10, <4>1
      <4> QED BY <1>10, <4>2 DEF ToSet
    <3> QED BY <1>10, <3>2, <3>3
  <2>2. ASSUME NEW p \in Plugins, instance[p] # None
        PROVE  instances[p] = instance[p] <=> p \notin Retired'
    <3>1. p \in Configured(config) /\ runtimeActive
      BY <1>4, <2>2
    <3>2. CASE p \in retained
      BY <1>7, <1>8, <1>12, <1>13, <3>2
    <3>3. CASE p \notin retained
      <4>1. p \notin Configured(g) \/ p \in restart
        BY <1>7, <3>1, <3>3
      <4>2. p \in Retired'
        BY <1>12, <3>1, <4>1 DEF Same, Configured
      <4> QED BY <1>8, <2>2, <3>3, <4>2
    <3> QED BY <3>2, <3>3
  <2>3. ~ runtimeActive => \A p \in Plugins : states[p] # "active"
    BY <1>7, <1>8
  <2>4. g = config \/ ~ runtimeActive => todo = <<>>
    BY <1>10, <2>1
  <2> QED BY <1>1, <1>2, <1>3, <1>11, <2>1, <2>2, <2>3, <2>4 DEF Aimed
<1>15. Staged'
  <2>1. ASSUME NEW p \in Configured(g), states[p] = "active"
        PROVE  StartedFor(g, p, instance[p])
    <3>1. p \in retained /\ p \in Plugins
      BY <1>8, <1>9, <2>1
    <3>2. StartedFor(config, p, instance[p])
      BY <1>4, <1>13, <3>1
    <3>3. Execution(g, p) = Execution(config, p)
      BY <1>13, <3>1 DEF Execution
    <3>4. CASE Execution(g, p) = "resource"
      BY <3>2, <3>3, <3>4 DEF StartedFor
    <3>5. CASE Execution(g, p) # "resource"
      <4> DEFINE i == instance[p]
                 born == object[i].born
                 then == Harness[IF born = None THEN Initial ELSE born].manifests
      <4>1. i # None /\ CurrentIn(config, i, p)
        BY <3>2, <3>3, <3>5 DEF StartedFor
      <4>2. Same(then, Harness[config].manifests, p)
        BY <4>1 DEF CurrentIn
      <4>3. Same(then, Harness[g].manifests, p)
        <5> HIDE DEF then
        <5> QED BY <1>13, <3>1, <4>2 DEF Same
      <4>4. ASSUME born # None, NEW c \in DOMAIN Harness[g].components,
                   Harness[g].components[c].owner = p
            PROVE  Same(Harness[born].components, Harness[g].components, c)
        <5>1. p \notin requested
          BY <1>6, <1>7, <3>1
        <5>2. Same(Harness[config].components, Harness[g].components, c)
          BY <1>5, <4>4, <5>1
        <5>3. /\ c \in DOMAIN Harness[config].components
              /\ Harness[config].components[c] = Harness[g].components[c]
          BY <5>2 DEF Same
        <5>4. Harness[config].components[c].owner = p
          BY <4>4, <5>3
        <5>5. Same(Harness[born].components, Harness[config].components, c)
          BY <4>1, <4>4, <5>3, <5>4 DEF CurrentIn
        <5> QED BY <5>3, <5>5 DEF Same
      <4>5. CurrentIn(g, i, p)
        BY <4>3, <4>4 DEF CurrentIn
      <4> QED BY <3>5, <4>1, <4>5 DEF StartedFor
    <3> QED BY <3>4, <3>5
  <2>2. ASSUME NEW p \in Configured(op'.target), op'.state[p] = "active"
        PROVE  StartedFor(op.target, p, op.instance[p])'
    <3>1. p \in Configured(g) /\ states[p] = "active"
      BY <1>11, <2>2
    <3>2. StartedFor(g, p, instance[p])
      BY <2>1, <3>1
    <3>3. instances[p] = instance[p]
      BY <1>8, <1>9, <3>1
    <3> QED BY <1>2, <1>11, <3>2, <3>3 DEF StartedFor, CurrentIn
  <2>3. \A p \in Plugins : states[p] = "active" \/ instances[p] = None
    BY <1>8
  <2>4. \A p \in Plugins : states[p] = "active" => p \in Configured(g)
    BY <1>7, <1>8
  <2>5. \A p \in Plugins : instances[p] # None => instances[p] = instance[p]
    BY <1>8
  <2>6. \A p \in Configured(g) : states[p] = "active" => p \notin ToSet(todo)
    BY <1>10
  <2> QED BY <1>2, <1>10, <1>11, <2>2, <2>3, <2>4, <2>5, <2>6, EmptyList DEF Staged
<1>16. Hosted'
  <2>1. ASSUME stops = 0, NEW p \in DOMAIN Harness[g].bindings, instances[p] # None
        PROVE  /\ object[instances[p]].provider = instances[Harness[g].bindings[p]]
               /\ Harness[g].bindings[p] \notin ToSet(todo)
    <3> DEFINE q == Harness[g].bindings[p]
    <3>1. p \in Plugins /\ p \in Configured(g) /\ q \in Configured(g) /\ q \in Plugins
      BY Harnesses
    <3>2. p \in retained /\ instances[p] = instance[p]
      BY <1>8, <2>1, <3>1
    <3>3. p \notin restart /\ runtimeActive
      BY <1>7, <3>1, <3>2
    <3>4. Same(Harness[config].bindings, Harness[g].bindings, p) /\ q \notin restart
      BY <1>6, <3>3
    <3>5. p \in DOMAIN Harness[config].bindings /\ Harness[config].bindings[p] = q
      BY <3>4 DEF Same
    <3>6. q \in retained /\ instances[q] = instance[q] /\ states[q] = "active"
      BY <1>7, <1>8, <3>1, <3>3, <3>4
    <3>7. object[instance[p]].provider = instance[q]
      BY <1>4, <2>1, <3>2, <3>5 DEF Follow
    <3> QED BY <1>10, <3>2, <3>6, <3>7
  <2>2. stops' = 0 => Follow(op.target, op.instance)'
    BY <1>2, <1>11, <2>1 DEF Follow
  <2> QED BY <1>2, <1>11, <2>1, <2>2, EmptyList DEF Hosted
<1>17. \A p \in Plugins : op'.instance[p] # None => op'.instance[p] = instance[p]
  BY <1>8, <1>11
<1> QED BY <1>1, <1>11, <1>14, <1>15, <1>16, <1>17, Begins

-----------------------------------------------------------------------------
(* Staging.                                                                *)

\* What the rest of a list holds.
LEMMA TailFacts ==
  ASSUME NEW S, NEW list \in Seq(S), list # <<>>
  PROVE  /\ Tail(list) \in Seq(S) /\ Len(Tail(list)) = Len(list) - 1
         /\ Len(list) \in Nat /\ Len(list) # 0
         /\ DOMAIN list = 1 .. Len(list)
         /\ \A n \in 1 .. Len(list) - 1 : Tail(list)[n] = list[n + 1]
         /\ Head(list) = list[1] /\ Head(list) \in S /\ Head(list) \in ToSet(list)
         /\ ToSet(Tail(list)) \subseteq ToSet(list)
         /\ \A x \in ToSet(list) : x = Head(list) \/ x \in ToSet(Tail(list))
         /\ IsInjective(list) => IsInjective(Tail(list))
                                 /\ Head(list) \notin ToSet(Tail(list))
<1> DEFINE rest == Tail(list)
<1>1. /\ rest \in Seq(S) /\ Len(rest) = Len(list) - 1 /\ Len(list) \in Nat
      /\ Len(list) # 0 /\ DOMAIN list = 1 .. Len(list)
      /\ DOMAIN rest = 1 .. Len(list) - 1
      /\ \A n \in 1 .. Len(list) - 1 : rest[n] = list[n + 1]
      /\ Head(list) = list[1]
  OBVIOUS
<1> HIDE DEF rest
<1>2. 1 \in 1 .. Len(list)
  BY <1>1
<1>3. Head(list) \in S /\ Head(list) \in ToSet(list)
  BY <1>1, <1>2 DEF ToSet
<1>4. \A n \in 1 .. Len(list) - 1 : n + 1 \in 1 .. Len(list)
  BY <1>1
<1>5. ToSet(rest) \subseteq ToSet(list)
  BY <1>1, <1>4 DEF ToSet
<1>6. ASSUME NEW x \in ToSet(list) PROVE x = Head(list) \/ x \in ToSet(rest)
  <2>1. PICK n \in 1 .. Len(list) : x = list[n]
    BY <1>1 DEF ToSet
  <2>2. CASE n = 1
    BY <1>1, <2>1, <2>2
  <2>3. CASE n # 1
    <3>1. n - 1 \in 1 .. Len(list) - 1 /\ n - 1 + 1 = n
      BY <1>1, <2>3
    <3>2. rest[n - 1] = x
      BY <1>1, <2>1, <3>1
    <3> QED BY <1>1, <3>1, <3>2 DEF ToSet
  <2> QED BY <2>2, <2>3
<1>7. ASSUME IsInjective(list)
      PROVE  IsInjective(rest) /\ Head(list) \notin ToSet(rest)
  <2>1. \A m, n \in 1 .. Len(list) : list[m] = list[n] => m = n
    BY <1>1, <1>7 DEF IsInjective
  <2>2. ASSUME NEW m \in 1 .. Len(list) - 1, NEW n \in 1 .. Len(list) - 1,
               rest[m] = rest[n]
        PROVE  m = n
    <3>1. list[m + 1] = list[n + 1]
      BY <1>1, <2>2
    <3>2. m + 1 = n + 1
      BY <1>4, <2>1, <3>1
    <3> QED BY <3>2
  <2>3. ASSUME NEW n \in 1 .. Len(list) - 1 PROVE rest[n] # Head(list)
    <3>1. list[n + 1] # list[1]
      BY <1>2, <1>4, <2>1
    <3> QED BY <1>1, <3>1
  <2> QED BY <1>1, <2>2, <2>3 DEF IsInjective, ToSet
<1> QED BY <1>1, <1>3, <1>5, <1>6, <1>7 DEF rest

\* What a list holds when a new member is appended.
LEMMA AppendFacts ==
  ASSUME NEW S, NEW list \in Seq(S), NEW x \in S, x \notin ToSet(list),
         IsInjective(list)
  PROVE  /\ Append(list, x) \in Seq(S) /\ Len(list) \in Nat
         /\ DOMAIN list = 1 .. Len(list)
         /\ DOMAIN Append(list, x) = 1 .. Len(list) + 1
         /\ \A n \in 1 .. Len(list) : Append(list, x)[n] = list[n]
         /\ Append(list, x)[Len(list) + 1] = x
         /\ ToSet(Append(list, x)) = ToSet(list) \cup {x}
         /\ IsInjective(Append(list, x))
<1> DEFINE more == Append(list, x)
<1>1. /\ more \in Seq(S) /\ Len(list) \in Nat /\ DOMAIN list = 1 .. Len(list)
      /\ DOMAIN more = 1 .. Len(list) + 1
      /\ \A n \in 1 .. Len(list) : more[n] = list[n]
      /\ more[Len(list) + 1] = x
  OBVIOUS
<1> HIDE DEF more
<1>2. \A n \in 1 .. Len(list) + 1 : n \in 1 .. Len(list) \/ n = Len(list) + 1
  BY <1>1
<1>3. \A n \in 1 .. Len(list) : n \in 1 .. Len(list) + 1
  BY <1>1
<1>4. Len(list) + 1 \in 1 .. Len(list) + 1
  BY <1>1
<1>5. ToSet(more) = ToSet(list) \cup {x}
  <2>1. \A y \in ToSet(more) : y \in ToSet(list) \cup {x}
    BY <1>1, <1>2 DEF ToSet
  <2>2. \A y \in ToSet(list) : y \in ToSet(more)
    BY <1>1, <1>3 DEF ToSet
  <2>3. x \in ToSet(more)
    BY <1>1, <1>4 DEF ToSet
  <2> QED BY <2>1, <2>2, <2>3
<1>6. ASSUME NEW m \in 1 .. Len(list) + 1, NEW n \in 1 .. Len(list) + 1,
             more[m] = more[n]
      PROVE  m = n
  <2>1. \A l \in 1 .. Len(list) : list[l] # x
    BY <1>1 DEF ToSet
  <2>2. \A k, l \in 1 .. Len(list) : list[k] = list[l] => k = l
    BY <1>1 DEF IsInjective
  <2> QED BY <1>1, <1>2, <1>6, <2>1, <2>2
<1>7. IsInjective(more)
  BY <1>1, <1>6 DEF IsInjective
<1> QED BY <1>1, <1>5, <1>7 DEF more

\* Before a commit nothing is being stopped.
LEMMA InPhase ==
  ASSUME IInv, ~ Idle, op.phase \in {"stage", "start", "commit", "cleanup", "retire"}
  PROVE  /\ Moving /\ op \in StagingOps /\ op.kind # "stop"
         /\ op.phase # "retire" => /\ Pending /\ Aimed /\ Staged /\ Hosted /\ Phased
         /\ op.phase \in {"stage", "start", "commit"} =>
              /\ op.queue = <<>> /\ op.step = "calls"
              /\ \A i \in Objects :
                   /\ ~ BeingStopped(i)
                   /\ object[i].life # "stopping"
                   /\ object[i].life \in {"started", "refused"} <=>
                        \/ Installed(i)
                        \/ \E p \in ToSet(op.staged) : op.instance[p] = i
<1>1. Moving
  <2>1. op.kind = "stop" => op.phase \in {"tasks", "stop"}
    BY Basics DEF StopOps
  <2> QED BY <2>1, Basics
<1>2. op \in StagingOps /\ op.kind # "stop"
  BY <1>1, Basics
<1>3. op.phase # "retire" => /\ Pending /\ Aimed /\ Staged /\ Hosted /\ Phased
  BY <1>1 DEF IInv, Plan, Pending
<1>4. ASSUME op.phase \in {"stage", "start", "commit"}
      PROVE  /\ op.queue = <<>> /\ op.step = "calls"
             /\ \A i \in Objects :
                  /\ ~ BeingStopped(i)
                  /\ object[i].life # "stopping"
                  /\ object[i].life \in {"started", "refused"} <=>
                       \/ Installed(i)
                       \/ \E p \in ToSet(op.staged) : op.instance[p] = i
  <2>1. op.queue = <<>> /\ op.step = "calls"
    BY <1>1, <1>4 DEF IInv, Queue
  <2>2. \A i \in Objects : ~ BeingStopped(i)
    BY <1>2, <2>1 DEF BeingStopped
  <2>3. \A i \in Objects : Held(i) <=>
          Installed(i) \/ \E p \in ToSet(op.staged) : op.instance[p] = i
    BY <1>1, <1>4 DEF Held
  <2> QED BY <2>1, <2>2, <2>3 DEF IInv, Running
<1> QED BY <1>1, <1>2, <1>3, <1>4

\* A failure: what has been staged is to be stopped, the rest is as it was.
LEMMA Failed ==
  ASSUME IInv, ~ Idle, op.phase \in {"stage", "start"}, Fails,
         UNCHANGED <<kernel, stops, call>>, preloaded' \subseteq Plugins,
         object' \in [Objects -> Things], task' \in [Tasks -> WorkRecords],
         Alike, SameTasks,
         generation = None => \A i \in Objects : object'[i].born = None,
         \A i \in Objects :
           /\ object'[i].life \in {"started", "refused"} <=>
                object[i].life \in {"started", "refused"}
           /\ object'[i].life # "stopping",
         (\A i \in Objects : ~ BeingStopped(i)') => Ending'
  PROVE  IInv'
<1>1. /\ generation' = generation /\ config' = config /\ reconciler' = reconciler
      /\ state' = state /\ instance' = instance /\ runtimeActive' = runtimeActive
      /\ subscriptions' = subscriptions /\ stops' = stops /\ call' = call
  BY DEF kernel
<1>2. /\ Moving /\ Pending /\ op \in StagingOps /\ op.queue = <<>>
      /\ op.step = "calls" /\ Staged /\ Hosted
      /\ \A i \in Objects :
           object[i].life \in {"started", "refused"} <=>
             Installed(i) \/ \E p \in ToSet(op.staged) : op.instance[p] = i
  BY InPhase
<1>3. /\ op.staged \in Seq(Plugins) /\ op.instance \in [Plugins -> Objects \cup {None}]
      /\ op.generation \in Generations \cup {None}
      /\ IsInjective(op.staged) /\ Distinct(op.instance)
  BY <1>2, Table, Basics DEF Staged
<1>4. /\ CleanupQueue \in Seq(Objects) /\ IsInjective(CleanupQueue)
      /\ ToSet(CleanupQueue) = {op.instance[p] : p \in ToSet(op.staged)} \ {None}
      /\ \A n \in DOMAIN CleanupQueue : \E k \in DOMAIN op.staged :
           /\ CleanupQueue[n] = op.instance[op.staged[k]]
           /\ \A j \in 1 .. k - 1 : op.instance[op.staged[j]] # None =>
                \E m \in n + 1 .. Len(CleanupQueue) :
                  CleanupQueue[m] = op.instance[op.staged[j]]
  BY <1>3, RollbackQueue
<1>5. PICK queue : queue = CleanupQueue
  OBVIOUS
<1>6. op' = [op EXCEPT !.phase = "cleanup", !.queue = queue,
                       !.stopGeneration = op.generation, !.current = None]
  BY <1>5 DEF Fails
<1>7. /\ op' \in StagingOps /\ op'.kind = op.kind /\ op'.phase = "cleanup"
      /\ op'.queue = queue /\ op'.stopGeneration = op.generation
      /\ op'.step = "calls" /\ SamePlan
  BY <1>2, <1>3, <1>4, <1>5, <1>6 DEF StagingOps, SamePlan
<1>8. op'.kind \in {"activate", "reconcile"} /\ op' \in AnyOp
  BY <1>7 DEF StagingOps, AnyOp
<1>9. /\ op'.staged = op.staged /\ op'.instance = op.instance
      /\ op'.generation = op.generation
  BY <1>7 DEF SamePlan
<1>10. Shape'
  <2>1. /\ generation' \in Generations \cup {None} /\ config' \in Generations
        /\ reconciler' \in Generations /\ state' \in [Plugins -> States]
        /\ instance' \in [Plugins -> Objects \cup {None}]
        /\ runtimeActive' \in BOOLEAN /\ subscriptions' \subseteq Listening
        /\ call' \in [Calls -> WorkRecords] /\ stops' \in 0 .. MaxStops
    BY <1>1, Basics
  <2> QED BY <1>8, <2>1, ShapeNext
<1>11. Names'
  <2>1. \A p \in Plugins : op'.instance[p] # None =>
          /\ op'.instance[p] \in Objects
          /\ object'[op'.instance[p]].plugin = p
          /\ object'[op'.instance[p]].life # "unborn"
    BY <1>2, <1>9, Table DEF Alike
  <2> QED BY <1>1, <2>1, NamesFrame DEF SameCalls
<1>12. Settled'
  BY <1>1, <1>8, SettledFrame
<1>13. Plan'
  <2>1. Aimed' /\ Staged' /\ Hosted'
    BY <1>1, <1>2, <1>7, PlanFrame
  <2>2. Phased'
    BY <1>7 DEF Phased
  <2> QED BY <2>1, <2>2 DEF Plan
<1>14. Queue'
  <2>1. \A i \in ToSet(queue) :
          \E p \in ToSet(op.staged) : op.instance[p] = i /\ i # None
    BY <1>4, <1>5
  <2>2. \A p \in ToSet(op.staged) : p \in Plugins
    BY <1>3 DEF ToSet
  <2>3. \A i \in ToSet(queue) : ~ Installed(i)'
    BY <1>1, <1>2, <2>1, <2>2 DEF Staged, Installed
  <2>4. ASSUME NEW n \in DOMAIN queue
        PROVE  LET provider == object'[queue[n]].provider
               IN \/ provider = None \/ Installed(provider)
                  \/ \E m \in n + 1 .. Len(queue) : queue[m] = provider
    <3>1. PICK k \in DOMAIN op.staged :
            /\ queue[n] = op.instance[op.staged[k]]
            /\ \A j \in 1 .. k - 1 : op.instance[op.staged[j]] # None =>
                 \E m \in n + 1 .. Len(queue) : queue[m] = op.instance[op.staged[j]]
      BY <1>4, <1>5
    <3>2. queue[n] \in Objects
      BY <1>4, <1>5
    <3>3. queue[n] # None /\ op.staged[k] \in Plugins
      BY <1>3, <3>2, Constants
    <3>4. object'[queue[n]].provider = object[queue[n]].provider
      BY <1>2, <3>1, <3>2, <3>3, Table DEF Alike
    <3>5. LET provider == object[queue[n]].provider
          IN \/ provider = None \/ Installed(provider)
             \/ \E m \in 1 .. k - 1 : op.instance[op.staged[m]] = provider
      BY <1>2, <3>1, <3>3 DEF Hosted
    <3> QED BY <3>1, <3>4, <3>5
  <2>5. \A n \in DOMAIN queue :
          LET provider == object'[queue[n]].provider
          IN \/ provider = None \/ \E p \in Plugins : instance'[p] = provider
             \/ \E m \in n + 1 .. Len(queue) : queue[m] = provider
    BY <1>1, <2>4 DEF Installed
  <2>6. IsInjective(queue)
    BY <1>4, <1>5
  <2> QED BY <1>7, <1>9, <2>1, <2>3, <2>5, <2>6 DEF Queue, Installed
<1>15. \A i \in Objects : ~ BeingStopped(i)'
  BY <1>7, <1>8 DEF BeingStopped
<1>16. Running'
  <2>1. ASSUME NEW i \in Objects
        PROVE  Held(i)' <=>
                 Installed(i) \/ \E p \in ToSet(op.staged) : op.instance[p] = i
    <3>1. i \in ToSet(queue) <=> \E p \in ToSet(op.staged) : op.instance[p] = i
      BY <1>4, <1>5, Constants
    <3> QED BY <1>1, <1>7, <1>8, <3>1 DEF Held, Installed, Moving
  <2> QED BY <1>2, <1>15, <2>1 DEF Running
<1>17. Ending'
  BY <1>15
<1> QED BY <1>10, <1>11, <1>12, <1>13, <1>14, <1>16, <1>17 DEF IInv

\* The plan after one more plugin has been staged, with instance i or none.
LEMMA StagedOne ==
  ASSUME IInv, ~ Idle, op.phase \in {"stage", "start"}, op.todo # <<>>,
         NEW i \in Objects \cup {None}, NEW p, p = Head(op.todo),
         UNCHANGED <<kernel, stops>>, Alike,
         op'.kind = op.kind, op'.target = op.target, op'.phase = "stage",
         op'.generation = op.generation, op'.restart = op.restart,
         op'.state = [op.state EXCEPT ![p] = "active"],
         op'.instance = [op.instance EXCEPT ![p] = i],
         op'.todo = Tail(op.todo), op'.staged = Append(op.staged, p),
         i = None <=> Execution(op.target, p) = "resource",
         i # None => /\ ~ Installed(i) /\ Provided(i, p)
                     /\ object[i].life # "unborn" /\ object[i].born = op.generation,
         Len(op.todo) <= Cardinality(Unused') + 1,
         Cardinality(Unused') \in Nat
  PROVE  Plan'
<1>1. /\ generation' = generation /\ config' = config /\ reconciler' = reconciler
      /\ state' = state /\ instance' = instance /\ runtimeActive' = runtimeActive
      /\ stops' = stops
  BY DEF kernel
<1>2. /\ Moving /\ Pending /\ op \in StagingOps
      /\ Aimed /\ Staged /\ Hosted /\ Phased
  BY InPhase
<1>3. /\ op.target \in Generations
      /\ op.instance \in [Plugins -> Objects \cup {None}]
      /\ op.state \in [Plugins -> States]
      /\ op.todo \in Seq(Plugins) /\ op.staged \in Seq(Plugins)
      /\ op.generation \in Generations \cup {None}
      /\ \A q \in Plugins : op.instance[q] # None =>
           op.instance[q] \in Objects /\ object[op.instance[q]].life # "unborn"
  BY <1>2, Table
<1>4. /\ p \in Plugins /\ p \in ToSet(op.todo) /\ p \in Configured(op.target)
      /\ ToSet(Tail(op.todo)) \subseteq ToSet(op.todo)
      /\ p \notin ToSet(Tail(op.todo)) /\ IsInjective(Tail(op.todo))
      /\ \A q \in ToSet(op.todo) : q = p \/ q \in ToSet(Tail(op.todo))
      /\ Len(Tail(op.todo)) = Len(op.todo) - 1 /\ Len(op.todo) \in Nat
  BY <1>2, <1>3, TailFacts DEF Staged
<1>5. op.state[p] # "active" /\ op.instance[p] = None
  BY <1>2, <1>4 DEF Staged
<1>6. p \notin ToSet(op.staged)
  BY <1>2, <1>5 DEF Staged
<1>7. /\ ToSet(op'.staged) = ToSet(op.staged) \cup {p} /\ IsInjective(op'.staged)
      /\ Len(op.staged) \in Nat /\ DOMAIN op.staged = 1 .. Len(op.staged)
      /\ DOMAIN op'.staged = 1 .. Len(op.staged) + 1
      /\ \A n \in 1 .. Len(op.staged) : op'.staged[n] = op.staged[n]
      /\ op'.staged[Len(op.staged) + 1] = p
  BY <1>2, <1>3, <1>4, <1>6, AppendFacts DEF Staged
<1>8. /\ \A q \in Plugins : op'.instance[q] = IF q = p THEN i ELSE op.instance[q]
      /\ \A q \in Plugins : op'.state[q] = IF q = p THEN "active" ELSE op.state[q]
  BY <1>3, <1>4
<1>9. i # None => /\ i \in Objects /\ object'[i].born = op.generation
                  /\ object'[i].provider = object[i].provider
  BY DEF Alike
<1>10. \A q \in Plugins : op.instance[q] # None =>
         /\ object'[op.instance[q]].provider = object[op.instance[q]].provider
         /\ object'[op.instance[q]].born = object[op.instance[q]].born
  BY <1>3 DEF Alike
<1>11. \A q \in ToSet(op.staged) : q \in Plugins /\ q # p
  BY <1>3, <1>6 DEF ToSet
<1>12. Configured(op.target) \subseteq Plugins
  BY <1>3, Harnesses
<1>13. Retired' = Retired
  BY <1>1 DEF Retired
<1>14. Aimed'
  <2>1. op.kind = "reconcile" => op.target # generation /\ runtimeActive
    BY <1>2 DEF Aimed
  <2>2. ASSUME NEW q \in Plugins, instance[q] # None
        PROVE  op'.instance[q] = instance[q] <=> op.kind = "activate" \/ q \notin Retired
    <3>1. op.instance[q] = instance[q] <=> op.kind = "activate" \/ q \notin Retired
      BY <1>2, <2>2 DEF Aimed
    <3>2. CASE q = p
      <4>1. i # instance[p]
        BY <2>2, <3>2 DEF Installed
      <4> QED BY <1>5, <1>8, <2>2, <3>1, <3>2, <4>1
    <3>3. CASE q # p
      BY <1>8, <3>1, <3>3
    <3> QED BY <3>2, <3>3
  <2> QED BY <1>1, <1>2, <1>13, <2>1, <2>2 DEF Aimed
<1>15. Staged'
  <2>1. StartedFor(op.target, p, i)'
    <3>1. CASE i = None
      BY <3>1 DEF StartedFor
    <3>2. CASE i # None
      <4> DEFINE born == op.generation
                 then == IF born = None THEN Initial ELSE born
      <4>1. object'[i].born = born
        BY <1>9, <3>2
      <4>2. /\ then = op.target
            /\ born # None => born = op.target
        <5>1. generation = None => config = Initial
          BY DEF IInv, Settled
        <5>2. generation # None => config = generation
          BY DEF IInv, Settled
        <5>3. op.kind \in {"activate", "reconcile"}
          BY <1>2 DEF Moving
        <5> QED BY <1>2, <1>3, <5>1, <5>2, <5>3, Constants DEF Aimed
      <4> HIDE DEF born
      <4>3. CurrentIn(op.target, i, p)'
        BY <4>1, <4>2 DEF CurrentIn, Same
      <4> QED BY <3>2, <4>3 DEF StartedFor
    <3> QED BY <3>1, <3>2
  <2>2. ASSUME NEW q \in Configured(op'.target), op'.state[q] = "active"
        PROVE  q \notin ToSet(op'.todo) /\ StartedFor(op.target, q, op.instance[q])'
    <3>1. q \in Plugins
      BY <1>12, <2>2
    <3>2. CASE q = p
      <4>1. op'.instance[q] = i
        BY <1>8, <3>1, <3>2
      <4> QED BY <1>4, <2>1, <3>2, <4>1 DEF StartedFor, CurrentIn
    <3>3. CASE q # p
      <4>1. op.state[q] = "active" /\ op'.instance[q] = op.instance[q]
        BY <1>8, <2>2, <3>1, <3>3
      <4>2. q \notin ToSet(op.todo) /\ StartedFor(op.target, q, op.instance[q])
        BY <1>2, <2>2, <4>1 DEF Staged
      <4> QED BY <1>4, <1>10, <3>1, <4>1, <4>2 DEF StartedFor, CurrentIn
    <3> QED BY <3>2, <3>3
  <2>3. \A q \in Plugins : op'.state[q] = "active" \/ op'.instance[q] = None
    BY <1>2, <1>8 DEF Staged
  <2>4. \A q \in Plugins : op'.state[q] = "active" => q \in Configured(op.target)
    BY <1>2, <1>4, <1>8 DEF Staged
  <2>5. ToSet(op'.todo) \subseteq Configured(op.target)
    BY <1>2, <1>4 DEF Staged
  <2>6. op.kind = "activate" \/ runtimeActive =>
          \A q \in Configured(op.target) :
            op'.state[q] = "active" \/ q \in ToSet(op'.todo)
    BY <1>2, <1>4, <1>8, <1>12 DEF Staged
  <2>7. \A q \in ToSet(op'.staged) : op'.state[q] = "active"
    BY <1>2, <1>4, <1>7, <1>8, <1>11 DEF Staged
  <2>8. ASSUME NEW q \in Plugins, op'.instance[q] # None
        PROVE  IF q \in ToSet(op'.staged) THEN ~ Installed(op'.instance[q])
               ELSE op'.instance[q] = instance[q]
    <3>1. CASE q = p
      BY <1>7, <1>8, <2>8, <3>1
    <3>2. CASE q # p
      <4>1. op'.instance[q] = op.instance[q]
            /\ (q \in ToSet(op'.staged) <=> q \in ToSet(op.staged))
        BY <1>7, <1>8, <3>2
      <4> QED BY <1>2, <2>8, <4>1 DEF Staged
    <3> QED BY <3>1, <3>2
  <2> QED BY <1>1, <1>4, <1>7, <2>2, <2>3, <2>4, <2>5, <2>6, <2>7, <2>8
          DEF Staged, Installed
<1> DEFINE bind == Harness[op.target].bindings
<1>16. \A q \in DOMAIN bind : q \in Plugins /\ bind[q] \in Plugins
                              /\ bind[q] \in Configured(op.target)
  BY <1>3, Harnesses
<1>17. i # None =>
         IF p \in DOMAIN bind
         THEN op.instance[bind[p]] # None /\ object[i].provider = op.instance[bind[p]]
         ELSE object[i].provider = None
  BY DEF Provided
<1> HIDE DEF bind
<1>18. ASSUME i # None, p \in DOMAIN bind
       PROVE  /\ bind[p] # p /\ op'.instance[bind[p]] = op.instance[bind[p]]
              /\ bind[p] \notin ToSet(op.todo)
  <2>1. op.instance[bind[p]] # None
    BY <1>17, <1>18
  <2>2. bind[p] # p
    BY <1>5, <2>1
  <2>3. op.state[bind[p]] = "active"
    BY <1>2, <1>16, <1>18, <2>1 DEF Staged
  <2> QED BY <1>2, <1>8, <1>16, <1>18, <2>2, <2>3 DEF Staged
<1>19. ASSUME NEW q \in ToSet(op'.staged), op'.instance[q] # None
       PROVE  IF q \in DOMAIN bind
              THEN /\ op'.instance[bind[q]] # None
                   /\ object'[op'.instance[q]].provider = op'.instance[bind[q]]
              ELSE object'[op'.instance[q]].provider = None
  <2>1. CASE q = p
    <3>1. op'.instance[q] = i /\ i # None
      BY <1>4, <1>8, <1>19, <2>1
    <3> QED BY <1>9, <1>17, <1>18, <2>1, <3>1
  <2>2. CASE q # p
    <3>1. q \in ToSet(op.staged) /\ q \in Plugins /\ op'.instance[q] = op.instance[q]
          /\ op.instance[q] # None
      BY <1>7, <1>8, <1>11, <1>19, <2>2
    <3>2. IF q \in DOMAIN bind
          THEN /\ op.instance[bind[q]] # None
               /\ object[op.instance[q]].provider = op.instance[bind[q]]
          ELSE object[op.instance[q]].provider = None
      BY <1>2, <3>1 DEF Hosted, Provided, bind
    <3>3. q \in DOMAIN bind => op'.instance[bind[q]] = op.instance[bind[q]]
      BY <1>5, <1>8, <1>16, <3>2
    <3> QED BY <1>10, <3>1, <3>2, <3>3
  <2> QED BY <2>1, <2>2
<1>20. ASSUME stops = 0, NEW q \in DOMAIN bind, op'.instance[q] # None
       PROVE  /\ object'[op'.instance[q]].provider = op'.instance[bind[q]]
              /\ bind[q] \notin ToSet(op'.todo)
  <2>1. CASE q = p
    <3>1. op'.instance[q] = i /\ i # None
      BY <1>4, <1>8, <1>20, <2>1
    <3> QED BY <1>4, <1>9, <1>17, <1>18, <1>20, <2>1, <3>1
  <2>2. CASE q # p
    <3>1. q \in Plugins /\ op'.instance[q] = op.instance[q] /\ op.instance[q] # None
      BY <1>8, <1>16, <1>20, <2>2
    <3>2. /\ object[op.instance[q]].provider = op.instance[bind[q]]
          /\ bind[q] \notin ToSet(op.todo)
      BY <1>2, <1>20, <3>1 DEF Hosted, Follow, bind
    <3>3. op'.instance[bind[q]] = op.instance[bind[q]]
      BY <1>4, <1>8, <1>16, <3>2
    <3> QED BY <1>4, <1>10, <3>1, <3>2, <3>3
  <2> QED BY <2>1, <2>2
<1>21. ASSUME NEW n \in DOMAIN op'.staged, op'.instance[op'.staged[n]] # None
       PROVE  LET provider == object'[op'.instance[op'.staged[n]]].provider
              IN \/ provider = None \/ Installed(provider)
                 \/ \E m \in 1 .. n - 1 : op'.instance[op'.staged[m]] = provider
  <2>0. \A m \in 1 .. Len(op.staged) :
          /\ op.staged[m] \in ToSet(op.staged) /\ op.staged[m] # p
          /\ op'.instance[op'.staged[m]] = op.instance[op.staged[m]]
    <3> TAKE m \in 1 .. Len(op.staged)
    <3>1. op.staged[m] \in ToSet(op.staged)
      BY <1>7 DEF ToSet
    <3> QED BY <1>7, <1>8, <1>11, <3>1
  <2>1. CASE n = Len(op.staged) + 1
    <3>1. op'.instance[op'.staged[n]] = i /\ i # None
      BY <1>4, <1>7, <1>8, <1>21, <2>1
    <3>2. object'[i].provider = object[i].provider
      BY <1>9, <3>1
    <3>3. CASE p \notin DOMAIN bind
      BY <1>17, <3>1, <3>2, <3>3
    <3>4. CASE p \in DOMAIN bind
      <4> DEFINE q == bind[p]
      <4>1. q \in Plugins /\ op.instance[q] # None
            /\ object[i].provider = op.instance[q]
        BY <1>16, <1>17, <3>1, <3>4
      <4>2. CASE q \in ToSet(op.staged)
        <5>1. PICK m \in 1 .. Len(op.staged) : op.staged[m] = q
          BY <1>7, <4>2 DEF ToSet
        <5>2. op'.instance[op'.staged[m]] = op.instance[q] /\ m \in 1 .. n - 1
          BY <1>7, <2>0, <2>1, <5>1
        <5> QED BY <3>1, <3>2, <4>1, <5>2
      <4>3. CASE q \notin ToSet(op.staged)
        <5>1. op.instance[q] = instance[q]
          BY <1>2, <4>1, <4>3 DEF Staged
        <5>2. Installed(op.instance[q])
          BY <4>1, <5>1 DEF Installed
        <5> QED BY <3>1, <3>2, <4>1, <5>2
      <4> QED BY <4>2, <4>3
    <3> QED BY <3>3, <3>4
  <2>2. CASE n # Len(op.staged) + 1
    <3>1. n \in 1 .. Len(op.staged) /\ n \in DOMAIN op.staged
      BY <1>7, <2>2
    <3>2. op'.instance[op'.staged[n]] = op.instance[op.staged[n]]
          /\ op.instance[op.staged[n]] # None /\ op.staged[n] \in Plugins
      BY <1>11, <1>21, <2>0, <3>1
    <3>3. LET provider == object[op.instance[op.staged[n]]].provider
          IN \/ provider = None \/ Installed(provider)
             \/ \E m \in 1 .. n - 1 : op.instance[op.staged[m]] = provider
      BY <1>2, <3>1, <3>2 DEF Hosted
    <3>4. \A m \in 1 .. n - 1 : m \in 1 .. Len(op.staged)
      BY <1>7, <3>1
    <3> QED BY <1>10, <2>0, <3>2, <3>3, <3>4
  <2> QED BY <2>1, <2>2
<1>22. Hosted'
  <2>1. ASSUME NEW q \in ToSet(op'.staged), op'.instance[q] # None
        PROVE  Provided(op.instance[q], q)'
    BY <1>19, <2>1 DEF Provided, bind
  <2>2. stops' = 0 =>
          /\ Follow(op.target, op.instance)'
          /\ \A q \in DOMAIN Harness[op'.target].bindings : op'.instance[q] # None =>
               Harness[op'.target].bindings[q] \notin ToSet(op'.todo)
    BY <1>1, <1>20 DEF Follow, bind
  <2>3. \A n \in DOMAIN op'.staged : op'.instance[op'.staged[n]] # None =>
          LET provider == object'[op'.instance[op'.staged[n]]].provider
          IN \/ provider = None \/ \E q \in Plugins : instance'[q] = provider
             \/ \E m \in 1 .. n - 1 : op'.instance[op'.staged[m]] = provider
    BY <1>1, <1>21 DEF Installed
  <2> QED BY <2>1, <2>2, <2>3 DEF Hosted, Installed
<1>23. Phased'
  BY <1>4 DEF Phased
<1> QED BY <1>14, <1>15, <1>22, <1>23 DEF Plan

\* The unused objects are finitely many: one can be constructed when any is
\* left.
LEMMA Free ==
  /\ IsFiniteSet(Unused) /\ Cardinality(Unused) \in Nat /\ Unused \subseteq Nat
  /\ Cardinality(Unused) # 0 => Unused # {}
<1>1. MaxObjects \in Nat
  BY Constants
<1>2. IsFiniteSet(Objects) /\ Objects \subseteq Nat
  BY <1>1, FS_Interval DEF Objects
<1>3. Unused \subseteq Objects
  BY DEF Unused
<1>4. IsFiniteSet(Unused)
  BY <1>2, <1>3, FS_Subset
<1> QED BY <1>2, <1>3, <1>4, FS_CardinalityType, FS_EmptySet

\* A new instance is made and its start begins.
LEMMA Constructed ==
  ASSUME IInv, ~ Idle, op.phase = "stage", op.todo # <<>>,
         NEW provider \in Objects \cup {None}, NEW p, p = Head(op.todo),
         Construct(p, provider), UNCHANGED <<kernel, work, stops>>,
         preloaded' \subseteq Plugins,
         Execution(op.target, p) # "resource",
         IF p \in DOMAIN Harness[op.target].bindings
         THEN /\ provider # None
              /\ provider = op.instance[Harness[op.target].bindings[p]]
         ELSE provider = None
  PROVE  IInv'
<1>1. /\ generation' = generation /\ config' = config /\ reconciler' = reconciler
      /\ state' = state /\ instance' = instance /\ runtimeActive' = runtimeActive
      /\ subscriptions' = subscriptions /\ stops' = stops
      /\ call' = call /\ task' = task
  BY DEF kernel, work
<1>2. /\ Moving /\ Pending /\ op \in StagingOps /\ op.kind # "stop"
      /\ op.queue = <<>>
      /\ op.step = "calls" /\ Aimed /\ Staged /\ Hosted /\ Phased
      /\ \A j \in Objects :
           /\ object[j].life # "stopping"
           /\ object[j].life \in {"started", "refused"} <=>
                Installed(j) \/ \E q \in ToSet(op.staged) : op.instance[q] = j
  BY InPhase
<1>3. /\ op.todo \in Seq(Plugins) /\ op.generation \in Generations \cup {None}
      /\ op.instance \in [Plugins -> Objects \cup {None}]
      /\ \A q \in Plugins : op.instance[q] # None =>
           /\ op.instance[q] \in Objects /\ object[op.instance[q]].life # "unborn"
           /\ object[op.instance[q]].plugin = q
  BY <1>2, Table
<1>4. p \in Plugins /\ Len(op.todo) \in Nat /\ Len(op.todo) # 0
  BY <1>3, TailFacts
<1>5. Unused # {} /\ Unused \subseteq Nat
  <2>1. Len(op.todo) <= Cardinality(Unused)
    BY <1>2 DEF Phased
  <2> QED BY <1>4, <2>1, Free
<1> DEFINE least == CHOOSE n \in Unused : \A m \in Unused : n <= m
           new == [life |-> "starting", plugin |-> p, born |-> op.generation,
                   provider |-> provider, retired |-> None]
<1>6. least \in Unused
  BY <1>5, LeastNumber
<1>7. /\ object' = [object EXCEPT ![least] = new]
      /\ op' = [op EXCEPT !.phase = "start", !.current = least]
  BY DEF Construct
<1> HIDE DEF least
<1>8. PICK i \in Unused : i = least
  BY <1>6
<1>9. i \in Objects /\ object[i].life = "unborn"
  BY DEF Unused
<1>10. object \in [Objects -> Things]
  BY Basics
<1>11. new \in Things
  BY <1>3, <1>4 DEF Things, Lives
<1>12. /\ object' \in [Objects -> Things] /\ object'[i] = new
       /\ \A j \in Objects : j # i => object'[j] = object[j]
  BY <1>7, <1>8, <1>9, <1>10, <1>11
<1>13. /\ object'[i].life = "starting" /\ object'[i].plugin = p
       /\ object'[i].born = op.generation /\ object'[i].provider = provider
  BY <1>12
<1> HIDE DEF new
<1>14. /\ op' \in StagingOps /\ op'.kind = op.kind /\ op'.phase = "start"
       /\ op'.current = i /\ op'.queue = op.queue /\ op'.step = op.step
       /\ op'.target = op.target /\ op'.todo = op.todo
       /\ op'.generation = op.generation /\ op'.instance = op.instance
       /\ op'.staged = op.staged /\ SamePlan
  BY <1>2, <1>7, <1>8, <1>9 DEF StagingOps, SamePlan
<1>15. op'.kind \in {"activate", "reconcile"} /\ op' \in AnyOp
  BY <1>14 DEF StagingOps, AnyOp
<1>16. Alike
  BY <1>9, <1>12 DEF Alike, Spared
<1>17. generation = None => \A j \in Objects : object'[j].born = None
  <2>1. generation = None => op.generation = None
    BY <1>2 DEF Aimed, Moving
  <2> QED BY <1>12, <1>13, <2>1 DEF IInv, Settled
<1>18. Shape'
  <2>1. /\ generation' \in Generations \cup {None} /\ config' \in Generations
        /\ reconciler' \in Generations /\ state' \in [Plugins -> States]
        /\ instance' \in [Plugins -> Objects \cup {None}]
        /\ runtimeActive' \in BOOLEAN /\ subscriptions' \subseteq Listening
        /\ call' \in [Calls -> WorkRecords] /\ task' \in [Tasks -> WorkRecords]
        /\ stops' \in 0 .. MaxStops
    BY <1>1, Basics
  <2> QED BY <1>12, <1>15, <2>1, ShapeNext
<1>19. Names'
  <2>1. \A q \in Plugins : op'.instance[q] # None =>
          /\ op'.instance[q] \in Objects
          /\ object'[op'.instance[q]].plugin = q
          /\ object'[op'.instance[q]].life # "unborn"
    BY <1>3, <1>14, <1>16 DEF Alike
  <2> QED BY <1>1, <1>16, <2>1, NamesFrame DEF SameCalls, SameTasks
<1>20. Settled'
  BY <1>1, <1>15, <1>16, <1>17, SettledFrame
<1>21. Plan'
  <2>1. Aimed' /\ Staged' /\ Hosted'
    BY <1>1, <1>2, <1>14, <1>16, PlanFrame
  <2>2. Len(op.todo) <= Cardinality(Unused') + 1
    <3>1. Unused' = Unused \ {i}
      BY <1>9, <1>12, <1>13 DEF Unused
    <3>2. Cardinality(Unused') = Cardinality(Unused) - 1
      BY <3>1, Free, FS_RemoveElement
    <3> QED BY <1>2, <1>4, <3>2, Free DEF Phased
  <2>3. Provided(op.current, Head(op.todo))'
    BY <1>13, <1>14 DEF Provided
  <2>4. Phased'
    BY <1>9, <1>13, <1>14, <2>2, <2>3 DEF Phased
  <2> QED BY <2>1, <2>4 DEF Plan
<1>22. Queue'
  BY <1>2, <1>14, EmptyList DEF Queue
<1>23. \A j \in Objects : ~ BeingStopped(j)'
  BY <1>2, <1>14, <1>15 DEF BeingStopped
<1>24. Running'
  <2>1. ASSUME NEW j \in Objects
        PROVE  Held(j)' <=>
                 Installed(j) \/ \E q \in ToSet(op.staged) : op.instance[q] = j
    BY <1>1, <1>14, <1>15 DEF Held, Installed, Moving
  <2>2. ASSUME NEW j \in Objects
        PROVE  /\ object'[j].life \in {"started", "refused"} <=>
                    object[j].life \in {"started", "refused"}
               /\ object'[j].life # "stopping"
    BY <1>2, <1>9, <1>12, <1>13
  <2> QED BY <1>2, <1>23, <2>1, <2>2 DEF Running
<1>25. Ending'
  <2>1. \A j \in Objects : object'[j].life \in {"stopping", "stopped", "failed"} =>
          /\ object'[j].life = object[j].life
          /\ object'[j].retired = object[j].retired
    BY <1>12, <1>13
  <2> QED BY <1>23, <2>1, EndingFrame
<1> QED BY <1>18, <1>19, <1>20, <1>21, <1>22, <1>24, <1>25 DEF IInv

\* The plugin that is staged next.
LEMMA InStaging ==
  ASSUME IInv, NEW execution, Staging(execution)
  PROVE  /\ ~ Idle /\ op.phase = "stage" /\ op.todo # <<>>
         /\ Execution(op.target, Head(op.todo)) = execution
         /\ Moving /\ op \in StagingOps /\ op.target \in Generations
         /\ Head(op.todo) \in Plugins /\ Head(op.todo) \in Configured(op.target)
         /\ op.instance[Head(op.todo)] = None
         /\ Len(op.todo) <= Cardinality(Unused)
<1>1. /\ ~ Idle /\ op.phase = "stage" /\ op.todo # <<>>
      /\ Execution(op.target, Head(op.todo)) = execution
  BY DEF Staging
<1>2. Moving /\ op \in StagingOps /\ Staged /\ Phased
  BY <1>1, InPhase
<1>3. op.todo \in Seq(Plugins) /\ op.target \in Generations
  BY <1>2, Table
<1>4. Head(op.todo) \in Plugins /\ Head(op.todo) \in ToSet(op.todo)
  BY <1>1, <1>3, TailFacts
<1> QED BY <1>1, <1>2, <1>3, <1>4 DEF Staged, Phased

\* No failure of a step that only fails changes objects or work.
LEMMA OnlyFailed ==
  ASSUME IInv, ~ Idle, op.phase = "stage", Fails,
         UNCHANGED <<kernel, object, work, stops>>, preloaded' \subseteq Plugins
  PROVE  IInv'
<1>1. object' = object /\ UNCHANGED work /\ call' = call /\ task' = task
  BY DEF work
<1>2. Alike /\ SameTasks
  BY <1>1, SameObjects, SameWork
<1>3. object' \in [Objects -> Things] /\ task' \in [Tasks -> WorkRecords]
  BY <1>1, Basics
<1>4. \A i \in Objects : object[i].life # "stopping"
  BY InPhase
<1>5. (\A i \in Objects : ~ BeingStopped(i)') => Ending'
  BY <1>1, EndingFrame
<1>6. generation = None => \A i \in Objects : object'[i].born = None
  BY <1>1 DEF IInv, Settled
<1> QED BY <1>1, <1>2, <1>3, <1>4, <1>5, <1>6, Failed

\* An embedded plugin is constructed, or its factory fails.
LEMMA EmbeddedStaged ==
  ASSUME IInv, StageEmbedded
  PROVE  IInv'
<1> DEFINE p == Head(op.todo)
<1>1. /\ Staging("embedded") /\ preloaded' = preloaded \ {p}
      /\ UNCHANGED <<kernel, work, stops>>
      /\ \/ Construct(p, None)
         \/ Fails /\ UNCHANGED object
  BY DEF StageEmbedded
<1>2. /\ ~ Idle /\ op.phase = "stage" /\ op.todo # <<>>
      /\ Execution(op.target, p) = "embedded" /\ op.target \in Generations
      /\ p \in Configured(op.target)
  BY <1>1, InStaging
<1>3. preloaded' \subseteq Plugins
  BY <1>1, Basics
<1>4. p \notin DOMAIN Harness[op.target].bindings
  BY <1>2, Harnesses
<1>5. CASE Construct(p, None)
  BY <1>1, <1>2, <1>3, <1>4, <1>5, Constructed
<1>6. CASE Fails /\ UNCHANGED object
  BY <1>1, <1>2, <1>3, <1>6, OnlyFailed
<1> QED BY <1>1, <1>5, <1>6

\* A guest is constructed with the staged instance of its provider, or fails.
LEMMA GuestStaged ==
  ASSUME IInv, NEW ok \in BOOLEAN, StageGuest(ok)
  PROVE  IInv'
<1> DEFINE p == Head(op.todo)
           provider == op.instance[Harness[op.target].bindings[p]]
<1>1. /\ Staging("runtime") /\ preloaded' = preloaded
      /\ UNCHANGED <<kernel, work, stops>>
      /\ \/ provider # None /\ Construct(p, provider)
         \/ Fails /\ UNCHANGED object
  BY DEF StageGuest
<1>2. /\ ~ Idle /\ op.phase = "stage" /\ op.todo # <<>> /\ Moving
      /\ Execution(op.target, p) = "runtime" /\ op.target \in Generations
      /\ p \in Configured(op.target)
  BY <1>1, InStaging
<1>3. preloaded' \subseteq Plugins
  BY <1>1, Basics
<1>4. p \in DOMAIN Harness[op.target].bindings
      /\ Harness[op.target].bindings[p] \in Plugins
  BY <1>2, Harnesses
<1>5. provider \in Objects \cup {None}
  BY <1>2, <1>4, Table
<1> HIDE DEF p
<1>6. CASE provider # None /\ Construct(p, provider)
  BY <1>1, <1>2, <1>3, <1>4, <1>5, <1>6, Constructed DEF p
<1>7. CASE Fails /\ UNCHANGED object
  BY <1>1, <1>2, <1>3, <1>7, OnlyFailed
<1> QED BY <1>1, <1>6, <1>7

\* Another plugin has been staged: i is its instance, None if it has no code.
LEMMA OneMore ==
  ASSUME IInv, ~ Idle, op.phase \in {"stage", "start"}, op.todo # <<>>,
         NEW i \in Objects \cup {None}, NEW p, p = Head(op.todo),
         UNCHANGED <<kernel, preloaded, work, stops>>, Alike,
         object' \in [Objects -> Things], op' \in StagingOps,
         op'.kind = op.kind, op'.target = op.target, op'.phase = "stage",
         op'.generation = op.generation, op'.restart = op.restart,
         op'.state = [op.state EXCEPT ![p] = "active"],
         op'.instance = [op.instance EXCEPT ![p] = i],
         op'.todo = Tail(op.todo), op'.staged = Append(op.staged, p),
         op'.queue = op.queue, op'.step = op.step,
         i = None <=> Execution(op.target, p) = "resource",
         i # None => /\ ~ Installed(i) /\ Provided(i, p)
                     /\ object[i].life # "unborn" /\ object[i].born = op.generation
                     /\ object[i].plugin = p,
         \A j \in Objects :
           /\ j # i => object'[j] = object[j]
           /\ j = i => object'[j].life = "started",
         Unused' = Unused, Len(op.todo) <= Cardinality(Unused) + 1
  PROVE  IInv'
<1>1. /\ generation' = generation /\ config' = config /\ reconciler' = reconciler
      /\ state' = state /\ instance' = instance /\ runtimeActive' = runtimeActive
      /\ subscriptions' = subscriptions /\ preloaded' = preloaded
      /\ UNCHANGED work /\ stops' = stops /\ call' = call /\ task' = task
  BY DEF kernel, work
<1>2. /\ Moving /\ op \in StagingOps /\ op.queue = <<>> /\ op.step = "calls"
      /\ Aimed /\ Staged
      /\ \A j \in Objects :
           /\ object[j].life # "stopping"
           /\ object[j].life \in {"started", "refused"} <=>
                Installed(j) \/ \E q \in ToSet(op.staged) : op.instance[q] = j
  BY InPhase
<1>3. /\ op.todo \in Seq(Plugins) /\ op.staged \in Seq(Plugins)
      /\ op.generation \in Generations \cup {None}
      /\ op.instance \in [Plugins -> Objects \cup {None}]
      /\ \A q \in Plugins : op.instance[q] # None =>
           /\ op.instance[q] \in Objects /\ object[op.instance[q]].life # "unborn"
           /\ object[op.instance[q]].plugin = q
  BY <1>2, Table
<1>4. p \in Plugins /\ p \in ToSet(op.todo)
  BY <1>3, TailFacts
<1>5. op.instance[p] = None /\ p \notin ToSet(op.staged)
  BY <1>2, <1>4 DEF Staged
<1>6. ToSet(op'.staged) = ToSet(op.staged) \cup {p}
  BY <1>2, <1>3, <1>4, <1>5, AppendFacts DEF Staged
<1>7. \A q \in Plugins : op'.instance[q] = IF q = p THEN i ELSE op.instance[q]
  BY <1>3, <1>4
<1>8. \A q \in ToSet(op.staged) : q \in Plugins /\ q # p
  BY <1>3, <1>5 DEF ToSet
<1>9. op'.kind \in {"activate", "reconcile"} /\ op' \in AnyOp
  BY DEF StagingOps, AnyOp
<1>10. generation = None => \A j \in Objects : object'[j].born = None
  <2>1. generation = None => op.generation = None
    BY <1>2 DEF Aimed, Moving
  <2>2. \A j \in Objects : object'[j].born = object[j].born
    BY Constants DEF Alike
  <2> QED BY <2>1, <2>2 DEF IInv, Settled
<1>11. Shape'
  <2>1. /\ generation' \in Generations \cup {None} /\ config' \in Generations
        /\ reconciler' \in Generations /\ state' \in [Plugins -> States]
        /\ instance' \in [Plugins -> Objects \cup {None}]
        /\ preloaded' \subseteq Plugins
        /\ runtimeActive' \in BOOLEAN /\ subscriptions' \subseteq Listening
        /\ call' \in [Calls -> WorkRecords] /\ task' \in [Tasks -> WorkRecords]
        /\ stops' \in 0 .. MaxStops
    BY <1>1, Basics
  <2> QED BY <1>9, <2>1, ShapeNext
<1>12. Names'
  <2>1. ASSUME NEW q \in Plugins, op'.instance[q] # None
        PROVE  /\ op'.instance[q] \in Objects
               /\ object'[op'.instance[q]].plugin = q
               /\ object'[op'.instance[q]].life # "unborn"
    <3>1. CASE q = p
      BY <1>7, <2>1, <3>1 DEF Alike
    <3>2. CASE q # p
      BY <1>3, <1>7, <2>1, <3>2 DEF Alike
    <3> QED BY <3>1, <3>2
  <2> QED BY <1>1, <2>1, SameWork, NamesFrame
<1>13. Settled'
  BY <1>1, <1>9, <1>10, SettledFrame
<1>14. Plan'
  BY <1>1, Free, StagedOne
<1>15. Queue'
  BY <1>2, EmptyList DEF Queue
<1>16. \A j \in Objects : ~ BeingStopped(j)'
  BY <1>2, <1>9 DEF BeingStopped
<1>17. Running'
  <2>1. ASSUME NEW j \in Objects
        PROVE  Held(j)' <=> \/ j = i \/ Installed(j)
                            \/ \E q \in ToSet(op.staged) : op.instance[q] = j
    <3>1. (\E q \in ToSet(op'.staged) : op'.instance[q] = j) <=>
            j = i \/ \E q \in ToSet(op.staged) : op.instance[q] = j
      BY <1>4, <1>6, <1>7, <1>8
    <3> QED BY <1>1, <1>9, <3>1 DEF Held, Installed, Moving
  <2>2. ASSUME NEW j \in Objects
        PROVE  /\ object'[j].life \in {"started", "refused"} <=>
                    j = i \/ object[j].life \in {"started", "refused"}
               /\ object'[j].life # "stopping"
    BY <1>2
  <2> QED BY <1>2, <1>16, <2>1, <2>2 DEF Running
<1>18. Ending'
  <2>1. \A j \in Objects : object'[j].life \in {"stopping", "stopped", "failed"} =>
          /\ object'[j].life = object[j].life
          /\ object'[j].retired = object[j].retired
    OBVIOUS
  <2> QED BY <1>1, <1>16, <2>1, EndingFrame
<1> QED BY <1>11, <1>12, <1>13, <1>14, <1>15, <1>17, <1>18 DEF IInv

\* A plugin of resources is staged without an instance.
LEMMA ResourceStaged ==
  ASSUME IInv, StageResourceOnly
  PROVE  IInv'
<1>1. PICK p : p = Head(op.todo)
  OBVIOUS
<1>2. /\ Staging("resource")
      /\ op' = [op EXCEPT !.state[p] = "active", !.staged = Append(@, p),
                          !.todo = Tail(@)]
      /\ UNCHANGED <<kernel, preloaded, object, work, stops>> /\ object' = object
  BY <1>1 DEF StageResourceOnly
<1>3. /\ ~ Idle /\ op.phase = "stage" /\ op.todo # <<>>
      /\ Execution(op.target, p) = "resource"
      /\ Moving /\ op \in StagingOps /\ p \in Plugins
      /\ op.instance[p] = None /\ Len(op.todo) <= Cardinality(Unused)
  BY <1>1, <1>2, InStaging
<1>4. /\ op.todo \in Seq(Plugins) /\ op.staged \in Seq(Plugins)
      /\ op.state \in [Plugins -> States]
      /\ op.instance \in [Plugins -> Objects \cup {None}]
  BY <1>3, Table
<1>5. /\ Tail(op.todo) \in Seq(Plugins) /\ Append(op.staged, p) \in Seq(Plugins)
      /\ Len(op.todo) \in Nat
      /\ [op.state EXCEPT ![p] = "active"] \in [Plugins -> States]
  BY <1>3, <1>4, TailFacts DEF States
<1>6. /\ op' \in StagingOps /\ op'.kind = op.kind /\ op'.target = op.target
      /\ op'.phase = "stage" /\ op'.generation = op.generation
      /\ op'.restart = op.restart
      /\ op'.state = [op.state EXCEPT ![p] = "active"]
      /\ op'.instance = op.instance
      /\ op'.todo = Tail(op.todo) /\ op'.staged = Append(op.staged, p)
      /\ op'.queue = op.queue /\ op'.step = op.step
  BY <1>2, <1>3, <1>5 DEF StagingOps
<1>7. op'.instance = [op.instance EXCEPT ![p] = None]
  BY <1>3, <1>4, <1>6
<1>8. Alike /\ object' \in [Objects -> Things] /\ Unused' = Unused
  BY <1>2, SameObjects, Basics DEF Unused
<1>9. Len(op.todo) <= Cardinality(Unused) + 1
  BY <1>3, <1>5, Free
<1>10. \A j \in Objects : j # None /\ object'[j] = object[j]
  BY <1>2, Constants
<1> QED BY <1>1, <1>2, <1>3, <1>6, <1>7, <1>8, <1>9, <1>10, OneMore

\* A start hook returns: the instance is staged.
LEMMA Started ==
  ASSUME IInv, StartSucceeds
  PROVE  IInv'
<1>1. PICK p : p = Head(op.todo)
  OBVIOUS
<1>2. PICK i : i = op.current
  OBVIOUS
<1>3. /\ ~ Idle /\ op.phase = "start"
      /\ object' = [object EXCEPT ![i].life = "started"]
      /\ op' = [op EXCEPT !.phase = "stage", !.current = None,
                          !.instance[p] = i, !.state[p] = "active",
                          !.staged = Append(@, p), !.todo = Tail(@)]
      /\ UNCHANGED <<kernel, preloaded, work, stops>>
  BY <1>1, <1>2 DEF StartSucceeds
<1>4. /\ Moving /\ op.todo # <<>> /\ p \in Plugins
      /\ Len(op.todo) <= Cardinality(Unused) + 1
      /\ i \in Objects /\ object[i].life = "starting" /\ object[i].plugin = p
      /\ object[i].born = op.generation /\ Provided(i, p)
      /\ Execution(op.target, p) # "resource"
  BY <1>1, <1>2, <1>3, InStart
<1>5. /\ op.todo \in Seq(Plugins) /\ op.staged \in Seq(Plugins)
      /\ op.state \in [Plugins -> States] /\ op \in StagingOps
      /\ op.instance \in [Plugins -> Objects \cup {None}]
  BY <1>4, Table, Basics
<1>6. /\ Tail(op.todo) \in Seq(Plugins) /\ Append(op.staged, p) \in Seq(Plugins)
      /\ [op.state EXCEPT ![p] = "active"] \in [Plugins -> States]
      /\ [op.instance EXCEPT ![p] = i] \in [Plugins -> Objects \cup {None}]
  BY <1>4, <1>5, TailFacts DEF States
<1>7. /\ op' \in StagingOps /\ op'.kind = op.kind /\ op'.target = op.target
      /\ op'.phase = "stage" /\ op'.generation = op.generation
      /\ op'.restart = op.restart
      /\ op'.state = [op.state EXCEPT ![p] = "active"]
      /\ op'.instance = [op.instance EXCEPT ![p] = i]
      /\ op'.todo = Tail(op.todo) /\ op'.staged = Append(op.staged, p)
      /\ op'.queue = op.queue /\ op'.step = op.step
  BY <1>3, <1>5, <1>6 DEF StagingOps
<1>8. object \in [Objects -> Things]
  BY Basics
<1>9. /\ object' \in [Objects -> Things] /\ object'[i].life = "started"
      /\ object'[i].plugin = object[i].plugin /\ object'[i].born = object[i].born
      /\ object'[i].provider = object[i].provider
      /\ \A j \in Objects : j # i => object'[j] = object[j]
  BY <1>3, <1>4, <1>8 DEF Things, Lives
<1>10. Alike
  <2>1. ASSUME NEW j \in Objects, object[j].life # "unborn"
        PROVE  /\ object'[j].life # "unborn"
               /\ object'[j].plugin = object[j].plugin
               /\ object'[j].born = object[j].born
               /\ object'[j].provider = object[j].provider
               /\ Spared(j) => object'[j].life \notin {"starting", "failed"}
    BY <1>9, <2>1 DEF Spared
  <2> QED BY <2>1 DEF Alike
<1>11. Unused' = Unused
  <2>1. \A j \in Objects : object'[j].life = "unborn" <=> object[j].life = "unborn"
    BY <1>4, <1>9
  <2> QED BY <2>1 DEF Unused
<1>12. ~ Installed(i)
  <2>1. object[i].life \in {"started", "refused"} <=>
          Installed(i) \/ \E q \in ToSet(op.staged) : op.instance[q] = i
    BY <1>3, <1>4, InPhase
  <2> QED BY <1>4, <2>1
<1>13. i # None
  BY <1>4, Constants
<1> QED BY <1>1, <1>3, <1>4, <1>7, <1>9, <1>10, <1>11, <1>12, <1>13, OneMore

\* cancel_plugin_generation and cancel_calls mark what they find.
LEMMA TasksCancelled ==
  ASSUME task \in [Tasks -> WorkRecords], NEW p, NEW g,
         task' = CancelPluginGeneration(p, g)
  PROVE  /\ task' \in [Tasks -> WorkRecords] /\ SameTasks
         /\ \A t \in Tasks :
              /\ task'[t].phase = task[t].phase /\ task'[t].object = task[t].object
              /\ task'[t].plugin = task[t].plugin /\ task'[t].late = task[t].late
              /\ task'[t].generation = task[t].generation
              /\ task[t].cancelled => task'[t].cancelled
              /\ /\ g # None /\ task[t].phase = "running"
                 /\ task[t].plugin = p /\ task[t].generation = g
                 => task'[t].cancelled
<1>1. ASSUME NEW t \in Tasks
      PROVE  /\ task'[t] \in WorkRecords
             /\ task'[t].phase = task[t].phase /\ task'[t].object = task[t].object
             /\ task'[t].plugin = task[t].plugin /\ task'[t].late = task[t].late
             /\ task'[t].generation = task[t].generation
             /\ task[t].cancelled => task'[t].cancelled
             /\ /\ g # None /\ task[t].phase = "running"
                /\ task[t].plugin = p /\ task[t].generation = g
                => task'[t].cancelled
  <2>1. task'[t] = IF /\ g # None /\ task[t].phase = "running"
                      /\ task[t].plugin = p /\ task[t].generation = g
                   THEN [task[t] EXCEPT !.cancelled = TRUE] ELSE task[t]
    BY DEF CancelPluginGeneration
  <2> QED BY <2>1 DEF WorkRecords
<1>2. task' \in [Tasks -> WorkRecords]
  BY <1>1 DEF CancelPluginGeneration
<1>3. SameTasks
  BY <1>1 DEF SameTasks
<1> QED BY <1>1, <1>2, <1>3

\* What the cancellation of a plugin's calls changes.
LEMMA CallsCancelled ==
  ASSUME call \in [Calls -> WorkRecords], NEW p, NEW g,
         call' = CancelCalls(p, g)
  PROVE  /\ call' \in [Calls -> WorkRecords] /\ SameCalls
         /\ \A c \in Calls :
              /\ call'[c].phase = call[c].phase /\ call'[c].object = call[c].object
              /\ call'[c].plugin = call[c].plugin /\ call'[c].late = call[c].late
              /\ call'[c].generation = call[c].generation
              /\ call[c].cancelled => call'[c].cancelled
              /\ /\ call[c].phase = "running"
                 /\ call[c].plugin = p /\ call[c].generation = g
                 => call'[c].cancelled
<1>1. ASSUME NEW c \in Calls
      PROVE  /\ call'[c] \in WorkRecords
             /\ call'[c].phase = call[c].phase /\ call'[c].object = call[c].object
             /\ call'[c].plugin = call[c].plugin /\ call'[c].late = call[c].late
             /\ call'[c].generation = call[c].generation
             /\ call[c].cancelled => call'[c].cancelled
             /\ /\ call[c].phase = "running"
                /\ call[c].plugin = p /\ call[c].generation = g
                => call'[c].cancelled
  <2>1. call'[c] = IF /\ call[c].phase = "running"
                      /\ call[c].plugin = p /\ call[c].generation = g
                   THEN [call[c] EXCEPT !.cancelled = TRUE] ELSE call[c]
    BY DEF CancelCalls
  <2> QED BY <2>1 DEF WorkRecords
<1>2. call' \in [Calls -> WorkRecords]
  BY <1>1 DEF CancelCalls
<1>3. SameCalls
  BY <1>1 DEF SameCalls
<1> QED BY <1>1, <1>2, <1>3

\* A start hook fails: its tasks are cancelled and the rollback begins.
LEMMA StartFailed ==
  ASSUME IInv, StartFails
  PROVE  IInv'
<1>1. PICK p : p = Head(op.todo)
  OBVIOUS
<1>2. PICK i : i = op.current
  OBVIOUS
<1>3. /\ ~ Idle /\ op.phase = "start" /\ Fails
      /\ object' = [object EXCEPT ![i].life = "failed",
                                  ![i].retired = op.generation]
      /\ task' = CancelPluginGeneration(p, op.generation)
      /\ UNCHANGED <<kernel, preloaded, call, stops>>
  BY <1>1, <1>2 DEF StartFails
<1>4. /\ Moving /\ i \in Objects /\ object[i].life = "starting"
      /\ object[i].plugin = p
  BY <1>1, <1>2, <1>3, InStart
<1>5. /\ object \in [Objects -> Things] /\ task \in [Tasks -> WorkRecords]
      /\ preloaded' \subseteq Plugins /\ call' = call
  BY <1>3, Basics
<1>6. op.generation \in Generations \cup {None}
  BY <1>4, Table
<1>7. /\ object' \in [Objects -> Things] /\ object'[i].life = "failed"
      /\ object'[i].retired = op.generation
      /\ object'[i].plugin = object[i].plugin /\ object'[i].born = object[i].born
      /\ object'[i].provider = object[i].provider
      /\ \A j \in Objects : j # i => object'[j] = object[j]
  BY <1>3, <1>4, <1>5, <1>6 DEF Things, Lives
<1>8. /\ task' \in [Tasks -> WorkRecords] /\ SameTasks
      /\ \A t \in Tasks :
           /\ task'[t].phase = task[t].phase /\ task'[t].object = task[t].object
           /\ task'[t].plugin = task[t].plugin /\ task'[t].late = task[t].late
           /\ task'[t].generation = task[t].generation
           /\ task[t].cancelled => task'[t].cancelled
           /\ /\ op.generation # None /\ task[t].phase = "running"
              /\ task[t].plugin = p /\ task[t].generation = op.generation
              => task'[t].cancelled
  BY <1>3, <1>5, TasksCancelled
<1>9. Alike
  <2>1. ASSUME NEW j \in Objects, object[j].life # "unborn"
        PROVE  /\ object'[j].life # "unborn"
               /\ object'[j].plugin = object[j].plugin
               /\ object'[j].born = object[j].born
               /\ object'[j].provider = object[j].provider
               /\ Spared(j) => object'[j].life \notin {"starting", "failed"}
    BY <1>4, <1>7, <2>1 DEF Spared
  <2> QED BY <2>1 DEF Alike
<1>10. generation = None => \A j \in Objects : object'[j].born = None
  <2>1. \A j \in Objects : object'[j].born = object[j].born
    BY <1>7
  <2> QED BY <2>1 DEF IInv, Settled
<1>11. \A j \in Objects :
         /\ object'[j].life \in {"started", "refused"} <=>
              object[j].life \in {"started", "refused"}
         /\ object'[j].life # "stopping"
  BY <1>3, <1>4, <1>7, InPhase
<1>12. ASSUME \A j \in Objects : ~ BeingStopped(j)'
       PROVE  Ending'
  <2>1. ASSUME NEW j \in Objects, Retiring(j)', NEW c \in Calls
        PROVE  Ended(call[c], j)'
    <3>1. CASE j = i
      <4>1. call[c].phase # "free" => Spared(call[c].object)
        BY WorkNow
      <4>2. call[c].phase = "running" => call[c].object # i
        BY <1>4, <4>1 DEF Spared
      <4> QED BY <1>5, <3>1, <4>2 DEF Ended
    <3>2. CASE j # i
      <4>1. Retiring(j) /\ object'[j].retired = object[j].retired
        BY <1>7, <2>1, <3>2 DEF Retiring
      <4>2. Ended(call[c], j)
        BY <4>1, WorkNow
      <4> QED BY <1>5, <4>1, <4>2 DEF Ended
    <3> QED BY <3>1, <3>2
  <2>2. ASSUME NEW j \in Objects, TasksEnded(j)', NEW t \in Tasks
        PROVE  Ended(task[t], j)'
    <3>1. object'[j].life \in {"stopped", "failed"}
      BY <1>12, <2>2 DEF TasksEnded
    <3>2. CASE j = i
      <4>1. task[t].phase = "running" =>
              task[t].generation # None
              /\ (task[t].object = i => task[t].plugin = p)
        BY <1>4, WorkNow, Constants DEF Serves
      <4> QED BY <1>7, <1>8, <3>2, <4>1 DEF Ended
    <3>3. CASE j # i
      <4>1. TasksEnded(j) /\ object'[j].retired = object[j].retired
        BY <1>7, <3>1, <3>3 DEF TasksEnded
      <4>2. Ended(task[t], j)
        BY <4>1, WorkNow
      <4> QED BY <1>8, <4>1, <4>2 DEF Ended
    <3> QED BY <3>2, <3>3
  <2> QED BY <1>12, <2>1, <2>2 DEF Ending
<1> QED BY <1>3, <1>5, <1>7, <1>8, <1>9, <1>10, <1>11, <1>12, Failed

\* A step of the operation that leaves its table and all objects alone, before
\* anything is stopped.
LEMMA ListenersBound ==
  ASSUME IInv, NEW ok \in BOOLEAN, BindListeners(ok)
  PROVE  IInv'
<1> DEFINE listeners == IF op.generation = None THEN {}
                        ELSE Harness[op.target].listeners
<1>1. /\ ~ Idle /\ op.phase = "stage" /\ op.todo = <<>>
      /\ UNCHANGED <<kernel, preloaded, object, work, stops>>
      /\ \/ /\ op' = [op EXCEPT !.phase = "commit"]
            /\ \A p \in listeners : op.instance[p] # None
         \/ Fails
  BY DEF BindListeners
<1>2. CASE Fails
  <2>1. preloaded' \subseteq Plugins
    BY <1>1, Basics
  <2> QED BY <1>1, <1>2, <2>1, OnlyFailed
<1>3. CASE /\ op' = [op EXCEPT !.phase = "commit"]
           /\ \A p \in listeners : op.instance[p] # None
  <2>1. /\ generation' = generation /\ config' = config
        /\ reconciler' = reconciler
        /\ state' = state /\ instance' = instance
        /\ runtimeActive' = runtimeActive
        /\ subscriptions' = subscriptions /\ preloaded' = preloaded
        /\ object' = object
        /\ UNCHANGED work /\ stops' = stops /\ call' = call /\ task' = task
    BY <1>1 DEF kernel, work
  <2>2. /\ Moving /\ Pending /\ op \in StagingOps /\ op.queue = <<>>
        /\ op.step = "calls" /\ Aimed
        /\ \A j \in Objects :
             /\ object[j].life # "stopping"
             /\ object[j].life \in {"started", "refused"} <=>
                  Installed(j) \/ \E q \in ToSet(op.staged) : op.instance[q] = j
    BY <1>1, InPhase
  <2>3. /\ op' \in StagingOps /\ op'.kind = op.kind /\ op'.phase = "commit"
        /\ op'.queue = op.queue /\ op'.step = op.step
        /\ op'.todo = op.todo /\ op'.staged = op.staged /\ op'.target = op.target
        /\ op'.instance = op.instance /\ SamePlan
    BY <1>3, <2>2 DEF StagingOps, SamePlan
  <2>4. op'.kind \in {"activate", "reconcile"} /\ op' \in AnyOp
    BY <2>3 DEF StagingOps, AnyOp
  <2>5. Alike /\ SameCalls /\ SameTasks
    BY <2>1, SameObjects, SameWork
  <2>6. Shape'
    <3>1. /\ generation' \in Generations \cup {None} /\ config' \in Generations
          /\ reconciler' \in Generations /\ state' \in [Plugins -> States]
          /\ instance' \in [Plugins -> Objects \cup {None}]
          /\ preloaded' \subseteq Plugins
          /\ runtimeActive' \in BOOLEAN /\ subscriptions' \subseteq Listening
          /\ object' \in [Objects -> Things]
          /\ call' \in [Calls -> WorkRecords] /\ task' \in [Tasks -> WorkRecords]
          /\ stops' \in 0 .. MaxStops
      BY <2>1, Basics
    <3> QED BY <2>4, <3>1, ShapeNext
  <2>7. Names'
    <3>1. \A q \in Plugins : op'.instance[q] # None =>
            /\ op'.instance[q] \in Objects
            /\ object'[op'.instance[q]].plugin = q
            /\ object'[op'.instance[q]].life # "unborn"
      BY <2>1, <2>2, <2>3, Table
    <3> QED BY <2>1, <2>5, <3>1, NamesFrame
  <2>8. Settled'
    <3>1. generation = None => \A i \in Objects : object'[i].born = None
      BY <2>1 DEF IInv, Settled
    <3> QED BY <2>1, <2>4, <2>5, <3>1, SettledFrame
  <2>9. Plan'
    <3>1. Aimed' /\ Staged' /\ Hosted'
      BY <1>1, <2>1, <2>2, <2>3, <2>5, PlanFrame
    <3>2. generation # None => op.generation # None
      <4>1. op.kind = "activate" => op.generation = generation
        BY <2>2 DEF Aimed
      <4>2. op.kind = "reconcile" => op.generation = op.target
        BY <2>2 DEF Aimed
      <4>3. op.target \in Generations
        BY <2>2, Table
      <4> QED BY <2>2, <4>1, <4>2, <4>3, Constants DEF Moving
    <3>3. Phased'
      BY <1>1, <1>3, <2>1, <2>3, <3>2 DEF Phased
    <3> QED BY <3>1, <3>3 DEF Plan
  <2>10. Queue'
    BY <2>2, <2>3, EmptyList DEF Queue
  <2>11. \A j \in Objects : ~ BeingStopped(j)'
    BY <2>2, <2>3, <2>4 DEF BeingStopped
  <2>12. Running'
    <3>1. ASSUME NEW j \in Objects
          PROVE  Held(j)' <=> \/ Installed(j)
                              \/ \E q \in ToSet(op.staged) : op.instance[q] = j
      BY <2>1, <2>3, <2>4 DEF Held, Installed, Moving
    <3> QED BY <2>1, <2>2, <2>11, <3>1 DEF Running
  <2>13. Ending'
    BY <2>1, <2>11, EndingFrame
  <2> QED BY <2>6, <2>7, <2>8, <2>9, <2>10, <2>12, <2>13 DEF IInv
<1> HIDE DEF listeners
<1> QED BY <1>1, <1>2, <1>3

-----------------------------------------------------------------------------
(* Commit.                                                                 *)

\* What is installed at a commit.
LEMMA Committing ==
  ASSUME IInv, ~ Idle, op.phase = "commit"
  PROVE  /\ Moving /\ op \in StagingOps /\ Aimed /\ Staged /\ Hosted
         /\ op.todo = <<>> /\ op.queue = <<>> /\ op.step = "calls"
         /\ op.target \in Generations
         /\ op.generation = None <=> generation = None
         /\ op.generation # None => op.generation = op.target
         /\ Listeners \subseteq Listening
         /\ \A s \in Listeners :
              /\ s.generation = op.generation /\ s.object = op.instance[s.plugin]
              /\ Serves(s.object, s.plugin)
              /\ object[s.object].life \in {"started", "refused"}
         /\ Listeners = {} \/ {s.plugin : s \in Listeners}
                                = Harness[op.generation].listeners
         /\ generation = None => Listeners = {}
         /\ \A i \in Objects :
              /\ object[i].life # "stopping"
              /\ object[i].life \in {"started", "refused"} <=>
                   Installed(i) \/ \E p \in ToSet(op.staged) : op.instance[p] = i
         /\ \A p \in ToSet(op.staged) : p \in Plugins
<1>1. /\ Moving /\ op \in StagingOps /\ Aimed /\ Staged /\ Hosted /\ Phased
      /\ op.queue = <<>> /\ op.step = "calls"
      /\ \A i \in Objects :
           /\ object[i].life # "stopping"
           /\ object[i].life \in {"started", "refused"} <=>
                Installed(i) \/ \E p \in ToSet(op.staged) : op.instance[p] = i
  BY InPhase
<1>2. /\ op.target \in Generations /\ op.staged \in Seq(Plugins)
      /\ op.instance \in [Plugins -> Objects \cup {None}]
      /\ \A p \in Plugins : op.instance[p] # None =>
           op.instance[p] \in Objects /\ object[op.instance[p]].life # "unborn"
           /\ object[op.instance[p]].plugin = p
  BY <1>1, Table
<1>3. /\ op.generation = None <=> generation = None
      /\ op.generation # None => op.generation = op.target
  <2>1. generation # None => config = generation
    BY DEF IInv, Settled
  <2>2. op.kind \in {"activate", "reconcile"}
    BY <1>1 DEF Moving
  <2> QED BY <1>1, <1>2, <2>1, <2>2, Constants DEF Aimed
<1>4. /\ op.todo = <<>>
      /\ generation # None => \A p \in Harness[op.target].listeners :
           op.instance[p] # None
  BY <1>1 DEF Phased
<1>5. \A p \in ToSet(op.staged) : p \in Plugins
  BY <1>2 DEF ToSet
<1>6. \A p \in Plugins : op.instance[p] # None =>
        \/ p \in ToSet(op.staged) \/ Installed(op.instance[p])
  BY <1>1 DEF Staged, Installed
<1>7. ASSUME op.generation # None, NEW p \in Harness[op.target].listeners
      PROVE  /\ p \in Plugins /\ op.instance[p] \in Objects
             /\ Serves(op.instance[p], p)
             /\ object[op.instance[p]].life \in {"started", "refused"}
  <2>1. p \in Plugins
    BY <1>2, Harnesses
  <2>2. op.instance[p] # None
    BY <1>3, <1>4, <1>7
  <2> QED BY <1>1, <1>2, <1>6, <2>1, <2>2 DEF Serves
<1>8. CASE op.generation = None
  <2>1. Listeners = {}
    BY <1>8 DEF Listeners
  <2> QED BY <1>1, <1>2, <1>3, <1>4, <1>5, <2>1
<1>9. CASE op.generation # None
  <2>0. Listeners = {[plugin |-> p, generation |-> op.generation,
                      object |-> op.instance[p]] : p \in Harness[op.target].listeners}
    BY <1>9 DEF Listeners
  <2>1. op.generation \in Generations
    BY <1>2, <1>3, <1>9
  <2>2. ASSUME NEW s \in Listeners
        PROVE  /\ s \in Listening
               /\ s.generation = op.generation /\ s.object = op.instance[s.plugin]
               /\ Serves(s.object, s.plugin)
               /\ object[s.object].life \in {"started", "refused"}
               /\ s.plugin \in Harness[op.target].listeners
    <3>1. PICK p \in Harness[op.target].listeners :
            s = [plugin |-> p, generation |-> op.generation,
                 object |-> op.instance[p]]
      BY <2>0
    <3>2. s.plugin = p /\ s.generation = op.generation /\ s.object = op.instance[p]
      BY <3>1
    <3>3. /\ p \in Plugins /\ op.instance[p] \in Objects
          /\ Serves(op.instance[p], p)
          /\ object[op.instance[p]].life \in {"started", "refused"}
      BY <1>7, <1>9
    <3>4. s \in Listening
      BY <2>1, <3>1, <3>3 DEF Listening
    <3> QED BY <3>2, <3>3, <3>4
  <2>3. {s.plugin : s \in Listeners} = Harness[op.target].listeners
    <3>1. \A p \in Harness[op.target].listeners : \E s \in Listeners : s.plugin = p
      <4> TAKE p \in Harness[op.target].listeners
      <4> DEFINE s == [plugin |-> p, generation |-> op.generation,
                       object |-> op.instance[p]]
      <4>1. s \in Listeners /\ s.plugin = p
        BY <2>0
      <4> QED BY <4>1
    <3> QED BY <2>2, <3>1
  <2>4. Listeners \subseteq Listening
    BY <2>2
  <2> QED BY <1>1, <1>2, <1>3, <1>4, <1>5, <1>9, <2>2, <2>3, <2>4
<1> QED BY <1>8, <1>9

\* The listeners that are installed with a new table of instances.
LEMMA ListenersServe ==
  ASSUME IInv, ~ Idle, op.phase = "commit", subscriptions' = Listeners,
         instance' = op.instance, state' = op.state, generation' = op.generation
  PROVE  /\ \A s \in subscriptions' :
              /\ s.generation = generation'
              /\ state'[s.plugin] = "active" => instance'[s.plugin] = s.object
         /\ \/ subscriptions' = {}
            \/ {s.plugin : s \in subscriptions'} = Harness[generation'].listeners
BY Committing

\* Names go from the operation's table to the kernel's.
LEMMA NamesCommitted ==
  ASSUME IInv, ~ Idle, op.phase = "commit", subscriptions' = Listeners,
         instance' = op.instance, object' = object, UNCHANGED work,
         Moving' => op'.instance = op.instance
  PROVE  Names'
<1>1. /\ call' = call /\ task' = task /\ object' = object /\ instance' = op.instance
  BY DEF work
<1>2. Moving /\ \A s \in Listeners :
        Serves(s.object, s.plugin) /\ object[s.object].life \in {"started", "refused"}
  BY Committing
<1>3. \A p \in Plugins : op.instance[p] # None =>
        object[op.instance[p]].plugin = p /\ object[op.instance[p]].life # "unborn"
  BY <1>2, Table
<1>4. \A p \in Plugins : instance'[p] # None => Serves(instance[p], p)'
  BY <1>1, <1>3 DEF Serves
<1>5. Moving' => \A p \in Plugins : op'.instance[p] # None => Serves(op.instance[p], p)'
  BY <1>1, <1>3 DEF Serves
<1>6. \A s \in subscriptions' : Serves(s.object, s.plugin)' /\ Spared(s.object)'
  BY <1>1, <1>2 DEF Serves, Spared
<1>7. /\ \A c \in Calls : call[c].phase # "free" =>
           /\ call[c].object \in Objects /\ call[c].generation \in Generations
           /\ Serves(call[c].object, call[c].plugin) /\ Spared(call[c].object)
      /\ \A t \in Tasks : task[t].phase # "free" =>
           /\ task[t].object \in Objects /\ task[t].generation \in Generations
           /\ Serves(task[t].object, task[t].plugin)
  BY WorkNow
<1>8. /\ \A c \in Calls : call'[c].phase # "free" =>
           /\ call'[c].object \in Objects /\ call'[c].generation \in Generations
           /\ Serves(call[c].object, call[c].plugin)' /\ Spared(call[c].object)'
      /\ \A t \in Tasks : task'[t].phase # "free" =>
           /\ task'[t].object \in Objects /\ task'[t].generation \in Generations
           /\ Serves(task[t].object, task[t].plugin)'
  BY <1>1, <1>7 DEF Serves, Spared
<1> QED BY <1>4, <1>5, <1>6, <1>8 DEF Names

\* Settled after a commit, with the operation's locals as the kernel's fields.
LEMMA SettledCommitted ==
  ASSUME IInv, ~ Idle, op.phase = "commit", subscriptions' = Listeners,
         instance' = op.instance, state' = op.state, object' = object,
         generation' = op.generation, config' = op.target, stops' = stops,
         runtimeActive' = (op.kind = "activate" \/ runtimeActive),
         op'.kind # "stop"
  PROVE  Settled'
<1>1. /\ Moving /\ op \in StagingOps /\ Aimed /\ Staged /\ Hosted
      /\ op.todo = <<>> /\ op.target \in Generations
      /\ op.generation = None <=> generation = None
      /\ op.generation # None => op.generation = op.target
      /\ generation = None => Listeners = {}
  BY Committing
<1>2. op.kind \in {"activate", "reconcile"}
  BY <1>1 DEF Moving
<1>3. (IF generation = None
       THEN /\ config = Initial /\ subscriptions = {}
            /\ \A i \in Objects : object[i].born = None
       ELSE config = generation)'
  <2>1. CASE generation = None
    <3>1. config = Initial /\ \A i \in Objects : object[i].born = None
      BY <2>1 DEF IInv, Settled
    <3>2. op.target = config
      BY <1>1, <1>2, <2>1 DEF Aimed
    <3> QED BY <1>1, <2>1, <3>1, <3>2
  <2>2. CASE generation # None
    BY <1>1, <2>2
  <2> QED BY <2>1, <2>2
<1>4. \A p \in Plugins : state'[p] = "active" \/ instance'[p] = None
  BY <1>1 DEF Staged
<1>5. ASSUME NEW p \in Plugins, state'[p] = "active"
      PROVE  runtimeActive' /\ p \in Configured(config')
  <2>1. p \in Configured(config')
    BY <1>1, <1>5 DEF Staged
  <2>2. op.kind = "activate" \/ runtimeActive
    BY <1>1, <1>2, <1>5 DEF Aimed
  <2> QED BY <2>1, <2>2
<1>6. runtimeActive' /\ stops' = 0 => AllActive'
  <2>1. op.kind = "activate" \/ runtimeActive =>
          \A p \in Configured(op.target) : op.state[p] = "active"
    BY <1>1, EmptyList DEF Staged
  <2> QED BY <2>1 DEF AllActive
<1>7. /\ \A s \in subscriptions' :
           /\ s.generation = generation'
           /\ state'[s.plugin] = "active" => instance'[s.plugin] = s.object
      /\ \/ subscriptions' = {}
         \/ {s.plugin : s \in subscriptions'} = Harness[generation'].listeners
  BY ListenersServe
<1>8. \A p \in Configured(config') :
        state'[p] = "active" => StartedFor(config, p, instance[p])'
  <2> SUFFICES ASSUME NEW p \in Configured(op.target), op.state[p] = "active"
               PROVE  StartedFor(config, p, instance[p])'
    OBVIOUS
  <2>1. StartedFor(op.target, p, op.instance[p])
    BY <1>1 DEF Staged
  <2> QED BY <2>1 DEF StartedFor, CurrentIn
<1>9. stops' = 0 => Follow(config, instance)'
  <2>1. stops = 0 => Follow(op.target, op.instance)
    BY <1>1 DEF Hosted
  <2> QED BY <2>1 DEF Follow
<1> QED BY <1>3, <1>4, <1>5, <1>6, <1>7, <1>8, <1>9 DEF Settled

\* An activation installs what it staged.
LEMMA ActivationCommitted ==
  ASSUME IInv, CommitActivation
  PROVE  IInv'
<1>1. /\ op.kind = "activate" /\ op.phase = "commit" /\ ~ Idle
      /\ subscriptions' = Listeners /\ state' = op.state
      /\ instance' = op.instance /\ runtimeActive' = TRUE /\ op' = NoOp
      /\ generation' = generation /\ config' = config
      /\ reconciler' = reconciler /\ preloaded' = preloaded /\ object' = object
      /\ UNCHANGED work /\ call' = call /\ task' = task /\ stops' = stops
  BY DEF CommitActivation, Idle, work
<1>2. /\ Moving /\ op \in StagingOps /\ Aimed /\ Staged
      /\ op.target \in Generations /\ Listeners \subseteq Listening
      /\ \A i \in Objects :
           /\ object[i].life # "stopping"
           /\ object[i].life \in {"started", "refused"} <=>
                Installed(i) \/ \E p \in ToSet(op.staged) : op.instance[p] = i
      /\ \A p \in ToSet(op.staged) : p \in Plugins
  BY <1>1, Committing
<1>3. op.target = config /\ op.generation = generation
  BY <1>1, <1>2 DEF Aimed
<1>4. op'.kind = "idle" /\ ~ Moving' /\ op' \in AnyOp
  BY <1>1 DEF NoOp, Moving, AnyOp
<1>5. Shape'
  <2>1. op.state \in [Plugins -> States]
        /\ op.instance \in [Plugins -> Objects \cup {None}]
    BY <1>2, Table
  <2>2. /\ generation' \in Generations \cup {None} /\ config' \in Generations
        /\ reconciler' \in Generations /\ state' \in [Plugins -> States]
        /\ instance' \in [Plugins -> Objects \cup {None}]
        /\ preloaded' \subseteq Plugins
        /\ runtimeActive' \in BOOLEAN /\ subscriptions' \subseteq Listening
        /\ object' \in [Objects -> Things]
        /\ call' \in [Calls -> WorkRecords] /\ task' \in [Tasks -> WorkRecords]
        /\ stops' \in 0 .. MaxStops
    BY <1>1, <1>2, <2>1, Basics
  <2> QED BY <1>4, <2>2, ShapeNext
<1>6. Names'
  BY <1>1, <1>4, NamesCommitted
<1>7. Settled'
  BY <1>1, <1>3, <1>4, SettledCommitted
<1>8. Plan' /\ Queue'
  BY <1>4 DEF Plan, Pending, Queue
<1>9. \A i \in Objects : ~ BeingStopped(i)'
  BY <1>4 DEF BeingStopped
<1>10. Running'
  <2>1. ASSUME NEW i \in Objects
        PROVE  Held(i)' <=> Installed(i) \/ \E p \in ToSet(op.staged) : op.instance[p] = i
    <3>1. Held(i)' <=> \E p \in Plugins : op.instance[p] = i
      BY <1>1, <1>4 DEF Held, Installed
    <3>2. i # None
      BY Constants
    <3>3. \A p \in Plugins : instance[p] # None => op.instance[p] = instance[p]
      BY <1>1, <1>2 DEF Aimed
    <3>4. \A p \in Plugins : op.instance[p] # None =>
            p \in ToSet(op.staged) \/ op.instance[p] = instance[p]
      BY <1>2 DEF Staged
    <3> QED BY <1>2, <3>1, <3>2, <3>3, <3>4 DEF Installed
  <2> QED BY <1>1, <1>2, <1>9, <2>1 DEF Running
<1>11. Ending'
  BY <1>1, <1>9, EndingFrame
<1> QED BY <1>5, <1>6, <1>7, <1>8, <1>10, <1>11 DEF IInv

\* A reconciliation installs what it staged and queues what it retires.
LEMMA ReconciliationCommitted ==
  ASSUME IInv, CommitReconciliation
  PROVE  IInv'
<1>1. PICK queue : queue = RetiredQueue
  OBVIOUS
<1>2. /\ op.kind = "reconcile" /\ op.phase = "commit" /\ ~ Idle
      /\ subscriptions' = Listeners /\ state' = op.state
      /\ instance' = op.instance
      /\ generation' = op.generation /\ config' = op.target
      /\ op' = [op EXCEPT !.phase = "retire", !.queue = queue,
                          !.stopGeneration = generation]
      /\ runtimeActive' = runtimeActive
      /\ reconciler' = reconciler /\ preloaded' = preloaded /\ object' = object
      /\ UNCHANGED work /\ call' = call /\ task' = task /\ stops' = stops
  BY <1>1 DEF CommitReconciliation, Idle, work
<1>3. /\ Moving /\ op \in StagingOps /\ Aimed /\ Staged
      /\ op.queue = <<>> /\ op.step = "calls"
      /\ op.target \in Generations /\ Listeners \subseteq Listening
      /\ \A i \in Objects :
           /\ object[i].life # "stopping"
           /\ object[i].life \in {"started", "refused"} <=>
                Installed(i) \/ \E p \in ToSet(op.staged) : op.instance[p] = i
      /\ \A p \in ToSet(op.staged) : p \in Plugins
  BY <1>2, Committing
<1>4. /\ op.generation = op.target /\ generation # None /\ reconciler = generation
      /\ op.target = generation => Retired = {}
      /\ generation \in Generations \cup {None}
  BY <1>2, <1>3, Basics DEF Aimed
<1>5. Retired \subseteq Plugins
  BY Basics, Harnesses DEF Retired
<1>6. /\ queue \in Seq(Objects) /\ IsInjective(queue)
      /\ ToSet(queue) = {instance[p] : p \in Retired} \ {None}
  <2>1. Retired \cap Plugins = Retired
    BY <1>5
  <2> QED BY <1>1, <2>1, RetirementQueue, Basics DEF RetiredQueue
<1>7. /\ op' \in StagingOps /\ op'.kind = "reconcile" /\ op'.phase = "retire"
      /\ op'.queue = queue /\ op'.stopGeneration = generation
      /\ op'.step = "calls" /\ op'.instance = op.instance
  BY <1>2, <1>3, <1>4, <1>6 DEF StagingOps
<1>8. op' \in AnyOp /\ Moving' /\ ~ Pending' /\ op'.kind # "stop"
  BY <1>7 DEF AnyOp, Moving, Pending
<1>9. Shape'
  <2>1. op.state \in [Plugins -> States]
        /\ op.instance \in [Plugins -> Objects \cup {None}]
    BY <1>3, Table
  <2>2. /\ generation' \in Generations \cup {None} /\ config' \in Generations
        /\ reconciler' \in Generations /\ state' \in [Plugins -> States]
        /\ instance' \in [Plugins -> Objects \cup {None}]
        /\ preloaded' \subseteq Plugins
        /\ runtimeActive' \in BOOLEAN /\ subscriptions' \subseteq Listening
        /\ object' \in [Objects -> Things]
        /\ call' \in [Calls -> WorkRecords] /\ task' \in [Tasks -> WorkRecords]
        /\ stops' \in 0 .. MaxStops
    BY <1>2, <1>3, <1>4, <2>1, Basics
  <2> QED BY <1>8, <2>2, ShapeNext
<1>10. Names'
  BY <1>2, <1>7, NamesCommitted
<1>11. Settled'
  <2>1. runtimeActive' = (op.kind = "activate" \/ runtimeActive)
    BY <1>2, Basics
  <2> QED BY <1>2, <1>8, <2>1, SettledCommitted
<1>12. Plan'
  BY <1>8 DEF Plan
<1>13. \A p \in Plugins : instance[p] # None =>
         (op.instance[p] = instance[p] <=> p \notin Retired)
  BY <1>2, <1>3 DEF Aimed
<1>14. Queue'
  <2>1. ASSUME NEW i \in ToSet(queue), NEW q \in Plugins, op.instance[q] = i
        PROVE  FALSE
    <3>1. PICK p \in Retired : instance[p] = i /\ i # None
      BY <1>6
    <3>2. p \in Plugins /\ op.instance[p] # i
      BY <1>5, <1>13, <3>1
    <3>3. object[i].plugin = p
      BY <3>1, <3>2 DEF IInv, Names, Serves
    <3>4. object[i].plugin = q
      BY <1>3, <2>1, <3>1, Table
    <3> QED BY <2>1, <3>2, <3>3, <3>4
  <2>2. \A i \in ToSet(queue) : ~ Installed(i)'
    BY <1>2, <2>1 DEF Installed
  <2>3. generation' = reconciler' => queue = <<>>
    <3> SUFFICES ASSUME generation' = reconciler' PROVE queue = <<>>
      OBVIOUS
    <3>1. Retired = {}
      BY <1>2, <1>4
    <3>2. ToSet(queue) = {}
      BY <1>6, <3>1
    <3> QED BY <1>6, <3>2 DEF ToSet
  <2> QED BY <1>2, <1>4, <1>6, <1>7, <2>2, <2>3 DEF Queue
<1>15. \A i \in Objects : ~ BeingStopped(i)'
  BY <1>7 DEF BeingStopped
<1>16. Running'
  <2>1. ASSUME NEW i \in Objects
        PROVE  Held(i)' <=> Installed(i) \/ \E p \in ToSet(op.staged) : op.instance[p] = i
    <3>1. Held(i)' <=> (\E p \in Plugins : op.instance[p] = i) \/ i \in ToSet(queue)
      BY <1>2, <1>7, <1>8 DEF Held, Installed
    <3>2. i # None
      BY Constants
    <3>3. i \in ToSet(queue) <=> \E p \in Retired : instance[p] = i
      BY <1>6, <3>2
    <3>4. \A p \in Plugins : op.instance[p] # None =>
            p \in ToSet(op.staged) \/ op.instance[p] = instance[p]
      BY <1>3 DEF Staged
    <3> QED BY <1>3, <1>5, <1>13, <3>1, <3>2, <3>3, <3>4 DEF Installed
  <2> QED BY <1>2, <1>3, <1>15, <2>1 DEF Running
<1>17. Ending'
  BY <1>2, <1>15, EndingFrame
<1> QED BY <1>9, <1>10, <1>11, <1>12, <1>14, <1>16, <1>17 DEF IInv

-----------------------------------------------------------------------------
(* Stopping what a rollback or a retirement has queued.                    *)

\* An operation that stops the first instance of its queue.
LEMMA InStopping ==
  ASSUME IInv, Stopping
  PROVE  /\ Moving /\ op \in StagingOps /\ op.kind # "stop"
         /\ op.queue \in Seq(Objects) /\ op.queue # <<>>
         /\ op.stopGeneration \in Generations \cup {None}
         /\ Head(op.queue) \in Objects /\ Head(op.queue) \in ToSet(op.queue)
         /\ IsInjective(op.queue) /\ \A i \in ToSet(op.queue) : ~ Installed(i)
         /\ op.stopGeneration = LastGeneration
         /\ \A i \in Objects :
              /\ Held(i) <=> Installed(i) \/ i \in ToSet(op.queue)
              /\ BeingStopped(i) <=> op.step # "calls" /\ i = Head(op.queue)
              /\ object[i].life \in {"started", "refused"} <=>
                   Held(i) /\ ~ BeingStopped(i)
              /\ object[i].life = "stopping" <=> BeingStopped(i)
         /\ ~ Pending => op.phase = "retire"
         /\ Pending => op.phase = "cleanup" /\ Aimed
<1>1. ~ Idle /\ op.phase \in {"cleanup", "retire"} /\ op.queue # <<>>
  BY DEF Stopping
<1>2. Moving /\ op \in StagingOps /\ op.kind # "stop"
  BY <1>1, InPhase
<1>3. op.queue \in Seq(Objects) /\ op.stopGeneration \in Generations \cup {None}
  BY <1>2 DEF StagingOps
<1>4. Head(op.queue) \in Objects /\ Head(op.queue) \in ToSet(op.queue)
  BY <1>1, <1>3, TailFacts
<1>5. /\ IsInjective(op.queue) /\ \A i \in ToSet(op.queue) : ~ Installed(i)
      /\ op.stopGeneration = LastGeneration
  BY <1>1, <1>2 DEF IInv, Queue, LastGeneration
<1>6. \A i \in Objects :
        /\ Held(i) <=> Installed(i) \/ i \in ToSet(op.queue)
        /\ BeingStopped(i) <=> op.step # "calls" /\ i = Head(op.queue)
  BY <1>1, <1>2 DEF Held, BeingStopped
<1>7. /\ ~ Pending => op.phase = "retire"
      /\ Pending => op.phase = "cleanup" /\ Aimed
  BY <1>1, <1>2 DEF Pending, IInv, Plan
<1> QED BY <1>1, <1>2, <1>3, <1>4, <1>5, <1>6, <1>7 DEF IInv, Running

\* What a stopping step changes of an operation: its step and its queue.
SameButQueue ==
  /\ SamePlan /\ op'.phase = op.phase /\ op'.stopGeneration = op.stopGeneration
  /\ op' \in StagingOps

\* What the steps of a queue have in common: the kernel and the plan stay.
LEMMA StopFrame ==
  ASSUME IInv, Stopping, SameButQueue, UNCHANGED <<kernel, preloaded, stops>>,
         call' \in [Calls -> WorkRecords], task' \in [Tasks -> WorkRecords],
         SameCalls, SameTasks, object' \in [Objects -> Things],
         \A i \in Objects :
           /\ object'[i].plugin = object[i].plugin
           /\ object'[i].born = object[i].born
           /\ object'[i].provider = object[i].provider
           /\ object'[i].life = object[i].life
              \/ object'[i].life \in {"stopping", "stopped"}
  PROVE  /\ Shape' /\ Names' /\ Settled' /\ Plan' /\ Moving'
         /\ \A i : Installed(i)' <=> Installed(i)
<1>1. /\ generation' = generation /\ config' = config /\ reconciler' = reconciler
      /\ state' = state /\ instance' = instance /\ runtimeActive' = runtimeActive
      /\ subscriptions' = subscriptions /\ preloaded' = preloaded /\ stops' = stops
  BY DEF kernel
<1>2. op'.kind \in {"activate", "reconcile"} /\ op' \in AnyOp /\ Moving'
  BY DEF SameButQueue, StagingOps, AnyOp, Moving
<1>3. /\ Moving /\ ~ Pending => op.phase = "retire"
      /\ Pending => op.phase = "cleanup"
  BY InStopping
<1>4. Alike
  BY DEF Alike, Spared
<1>5. Shape'
  <2>1. /\ generation' \in Generations \cup {None} /\ config' \in Generations
        /\ reconciler' \in Generations /\ state' \in [Plugins -> States]
        /\ instance' \in [Plugins -> Objects \cup {None}]
        /\ preloaded' \subseteq Plugins
        /\ runtimeActive' \in BOOLEAN /\ subscriptions' \subseteq Listening
        /\ stops' \in 0 .. MaxStops
    BY <1>1, Basics
  <2> QED BY <1>2, <2>1, ShapeNext
<1>6. Names'
  <2>1. \A p \in Plugins : op'.instance[p] # None =>
          /\ op'.instance[p] \in Objects
          /\ object'[op'.instance[p]].plugin = p
          /\ object'[op'.instance[p]].life # "unborn"
    <3>1. Moving /\ op'.instance = op.instance
      BY InStopping DEF SameButQueue, SamePlan
    <3> QED BY <1>4, <3>1, Table DEF Alike
  <2> QED BY <1>1, <1>4, <2>1, NamesFrame
<1>7. Settled'
  <2>1. generation = None => \A i \in Objects : object'[i].born = None
    BY DEF IInv, Settled
  <2> QED BY <1>1, <1>2, <1>4, <2>1, SettledFrame
<1>8. Plan'
  <2>1. CASE Pending
    <3>1. Aimed' /\ Staged' /\ Hosted'
      BY <1>4, <2>1, PlanFrame DEF SameButQueue
    <3>2. op'.phase = "cleanup"
      BY <1>3, <2>1 DEF SameButQueue
    <3> QED BY <3>1, <3>2 DEF Plan, Phased
  <2>2. CASE ~ Pending
    <3>1. op.phase = "retire"
      BY <2>2, InStopping
    <3> QED BY <3>1 DEF Plan, Pending, SameButQueue
  <2> QED BY <2>1, <2>2
<1> QED BY <1>1, <1>2, <1>5, <1>6, <1>7, <1>8 DEF Installed

\* The calls of the first instance of the queue are cancelled.
LEMMA CallsOfQueued ==
  ASSUME IInv, StopCancelsCalls
  PROVE  IInv'
<1>1. PICK i : i = Head(op.queue)
  OBVIOUS
<1>2. PICK last : last = LastGeneration
  OBVIOUS
<1>3. /\ Stopping /\ op.step = "calls"
      /\ call' = CancelCalls(object[i].plugin, op.stopGeneration)
      /\ object' = [object EXCEPT ![i].life = "stopping", ![i].retired = last]
      /\ op' = [op EXCEPT !.step = "tasks"]
      /\ UNCHANGED <<kernel, preloaded, task, stops>> /\ task' = task
  BY <1>1, <1>2 DEF StopCancelsCalls
<1>4. /\ Moving /\ op \in StagingOps
      /\ op.queue \in Seq(Objects) /\ op.queue # <<>>
      /\ op.stopGeneration \in Generations \cup {None}
      /\ i \in Objects /\ i \in ToSet(op.queue)
      /\ last = op.stopGeneration
      /\ \A j \in Objects :
           /\ Held(j) <=> Installed(j) \/ j \in ToSet(op.queue)
           /\ ~ BeingStopped(j)
           /\ object[j].life \in {"started", "refused"} <=> Held(j)
           /\ object[j].life # "stopping"
  BY <1>1, <1>2, <1>3, InStopping
<1>5. /\ object \in [Objects -> Things] /\ call \in [Calls -> WorkRecords]
      /\ task \in [Tasks -> WorkRecords]
  BY Basics
<1>6. /\ object' \in [Objects -> Things] /\ object'[i].life = "stopping"
      /\ object'[i].retired = op.stopGeneration
      /\ object'[i].plugin = object[i].plugin /\ object'[i].born = object[i].born
      /\ object'[i].provider = object[i].provider
      /\ \A j \in Objects : j # i => object'[j] = object[j]
  BY <1>3, <1>4, <1>5 DEF Things, Lives
<1>7. /\ call' \in [Calls -> WorkRecords] /\ SameCalls
      /\ \A c \in Calls :
           /\ call'[c].phase = call[c].phase /\ call'[c].object = call[c].object
           /\ call'[c].plugin = call[c].plugin /\ call'[c].late = call[c].late
           /\ call'[c].generation = call[c].generation
           /\ call[c].cancelled => call'[c].cancelled
           /\ /\ call[c].phase = "running"
              /\ call[c].plugin = object[i].plugin
              /\ call[c].generation = op.stopGeneration
              => call'[c].cancelled
  BY <1>3, <1>5, CallsCancelled
<1>8. /\ op' \in StagingOps /\ op'.kind = op.kind /\ op'.phase = op.phase
      /\ op'.step = "tasks" /\ op'.queue = op.queue /\ op'.staged = op.staged
      /\ op'.instance = op.instance /\ op'.generation = op.generation
      /\ op'.stopGeneration = op.stopGeneration /\ SamePlan
  BY <1>3, <1>4 DEF StagingOps, SamePlan
<1>9. /\ \A j \in Objects :
           /\ object'[j].plugin = object[j].plugin
           /\ object'[j].born = object[j].born
           /\ object'[j].provider = object[j].provider
           /\ object'[j].life = object[j].life
              \/ object'[j].life \in {"stopping", "stopped"}
      /\ SameTasks /\ task' \in [Tasks -> WorkRecords] /\ SameButQueue
  BY <1>3, <1>5, <1>6, <1>8 DEF SameTasks, SameButQueue
<1>10. /\ Shape' /\ Names' /\ Settled' /\ Plan' /\ Moving'
       /\ \A j : Installed(j)' <=> Installed(j)
  BY <1>3, <1>6, <1>7, <1>9, StopFrame
<1>11. \A j \in Objects : BeingStopped(j)' <=> j = i
  BY <1>1, <1>4, <1>8, <1>10 DEF BeingStopped, Moving
<1>12. Queue'
  <2>1. /\ Queue /\ generation' = generation /\ reconciler' = reconciler
        /\ instance' = instance
    BY <1>3 DEF IInv, kernel
  <2>2. \A j \in Objects : object'[j].provider = object[j].provider
    BY <1>9
  <2>3. \A n \in DOMAIN op.queue : op.queue[n] \in Objects
    BY <1>4
  <2> QED BY <1>4, <1>8, <1>10, <2>1, <2>2, <2>3 DEF Queue, Installed
<1>13. Running'
  <2>1. \A j \in Objects : Held(j)' <=> Held(j)
    <3>1. op.phase \in {"cleanup", "retire"}
      BY <1>3 DEF Stopping
    <3> QED BY <1>4, <1>8, <1>10, <3>1 DEF Held
  <2> QED BY <1>4, <1>6, <1>11, <2>1 DEF Running
<1>14. Ending'
  <2>1. \A j \in Objects : BeingStopped(j)' => object'[j].retired = StopGeneration'
    BY <1>6, <1>8, <1>10, <1>11 DEF StopGeneration
  <2>2. ASSUME NEW j \in Objects, Retiring(j)', NEW c \in Calls
        PROVE  Ended(call[c], j)'
    <3>1. CASE j = i
      <4>1. call[c].phase = "running" /\ call[c].object = i =>
              call[c].plugin = object[i].plugin
        BY WorkNow DEF Serves
      <4> QED BY <1>6, <1>7, <3>1, <4>1 DEF Ended
    <3>2. CASE j # i
      <4>1. Retiring(j) /\ object'[j] = object[j]
        BY <1>6, <2>2, <3>2 DEF Retiring
      <4>2. Ended(call[c], j)
        BY <4>1, WorkNow
      <4> QED BY <1>7, <4>1, <4>2 DEF Ended
    <3> QED BY <3>1, <3>2
  <2>3. ASSUME NEW j \in Objects, TasksEnded(j)', NEW t \in Tasks
        PROVE  Ended(task[t], j)'
    <3>1. object'[j].life \in {"stopped", "failed"}
      BY <1>8, <1>10, <2>3 DEF TasksEnded
    <3>2. j # i /\ object'[j] = object[j]
      BY <1>6, <3>1
    <3>3. TasksEnded(j)
      BY <3>1, <3>2 DEF TasksEnded
    <3>4. Ended(task[t], j)
      BY <3>3, WorkNow
    <3> QED BY <1>3, <3>2, <3>4 DEF Ended
  <2> QED BY <2>1, <2>2, <2>3 DEF Ending
<1> QED BY <1>10, <1>12, <1>13, <1>14 DEF IInv

\* The tasks of the first instance of the queue are cancelled.
LEMMA TasksOfQueued ==
  ASSUME IInv, StopCancelsTasks
  PROVE  IInv'
<1>1. PICK i : i = Head(op.queue)
  OBVIOUS
<1>2. /\ Stopping /\ op.step = "tasks"
      /\ task' = CancelPluginGeneration(object[i].plugin, op.stopGeneration)
      /\ op' = [op EXCEPT !.step = "stop"]
      /\ UNCHANGED <<kernel, preloaded, object, call, stops>>
      /\ object' = object /\ call' = call
  BY <1>1 DEF StopCancelsTasks
<1>3. /\ Moving /\ op \in StagingOps
      /\ op.queue \in Seq(Objects) /\ op.queue # <<>>
      /\ op.stopGeneration \in Generations \cup {None}
      /\ i \in Objects /\ i \in ToSet(op.queue)
      /\ \A j \in Objects : BeingStopped(j) <=> j = i
  BY <1>1, <1>2, InStopping
<1>4. /\ object \in [Objects -> Things] /\ call \in [Calls -> WorkRecords]
      /\ task \in [Tasks -> WorkRecords]
  BY Basics
<1>5. /\ task' \in [Tasks -> WorkRecords] /\ SameTasks
      /\ \A t \in Tasks :
           /\ task'[t].phase = task[t].phase /\ task'[t].object = task[t].object
           /\ task'[t].plugin = task[t].plugin /\ task'[t].late = task[t].late
           /\ task'[t].generation = task[t].generation
           /\ task[t].cancelled => task'[t].cancelled
           /\ /\ op.stopGeneration # None /\ task[t].phase = "running"
              /\ task[t].plugin = object[i].plugin
              /\ task[t].generation = op.stopGeneration
              => task'[t].cancelled
  BY <1>2, <1>4, TasksCancelled
<1>6. /\ op' \in StagingOps /\ op'.kind = op.kind /\ op'.phase = op.phase
      /\ op'.step = "stop" /\ op'.queue = op.queue /\ op'.staged = op.staged
      /\ op'.instance = op.instance /\ op'.generation = op.generation
      /\ op'.stopGeneration = op.stopGeneration /\ SamePlan
  BY <1>2, <1>3 DEF StagingOps, SamePlan
<1>7. SameButQueue /\ SameCalls
  BY <1>2, <1>6 DEF SameCalls, SameButQueue
<1>8. /\ Shape' /\ Names' /\ Settled' /\ Plan' /\ Moving'
      /\ \A j : Installed(j)' <=> Installed(j)
  BY <1>2, <1>4, <1>5, <1>7, StopFrame
<1>9. \A j \in Objects : BeingStopped(j)' <=> j = i
  BY <1>1, <1>3, <1>6, <1>8 DEF BeingStopped, Moving
<1>10. Queue'
  <2>1. /\ Queue /\ generation' = generation /\ reconciler' = reconciler
        /\ instance' = instance
    BY <1>2 DEF IInv, kernel
  <2> QED BY <1>2, <1>3, <1>6, <1>8, <2>1 DEF Queue, Installed
<1>11. Running'
  <2>1. \A j \in Objects : Held(j)' <=> Held(j)
    <3>1. op.phase \in {"cleanup", "retire"}
      BY <1>2 DEF Stopping
    <3> QED BY <1>3, <1>6, <1>8, <3>1 DEF Held
  <2> QED BY <1>2, <1>3, <1>9, <2>1 DEF IInv, Running
<1>12. object[i].retired = op.stopGeneration
  BY <1>3 DEF IInv, Ending, StopGeneration
<1>13. Ending'
  <2>1. \A j \in Objects : BeingStopped(j)' => object'[j].retired = StopGeneration'
    BY <1>2, <1>6, <1>8, <1>9, <1>12 DEF StopGeneration
  <2>2. ASSUME NEW j \in Objects, Retiring(j)', NEW c \in Calls
        PROVE  Ended(call[c], j)'
    <3>1. Retiring(j)
      BY <1>2, <2>2 DEF Retiring
    <3>2. Ended(call[c], j)
      BY <3>1, WorkNow
    <3> QED BY <1>2, <3>2 DEF Ended
  <2>3. ASSUME NEW j \in Objects, TasksEnded(j)', NEW t \in Tasks
        PROVE  Ended(task[t], j)'
    <3>1. CASE j = i
      <4>1. task[t].phase = "running" =>
              /\ task[t].generation # None
              /\ task[t].object = i => task[t].plugin = object[i].plugin
        BY WorkNow, Constants DEF Serves
      <4> QED BY <1>2, <1>5, <1>12, <3>1, <4>1 DEF Ended
    <3>2. CASE j # i
      <4>1. TasksEnded(j)
        BY <1>2, <1>9, <2>3, <3>2 DEF TasksEnded
      <4>2. Ended(task[t], j)
        BY <4>1, WorkNow
      <4> QED BY <1>2, <1>5, <4>2 DEF Ended
    <3> QED BY <3>1, <3>2
  <2> QED BY <2>1, <2>2, <2>3 DEF Ending
<1> QED BY <1>8, <1>10, <1>11, <1>13 DEF IInv

\* The first instance of the queue stops and leaves the queue.
LEMMA QueuedStopped ==
  ASSUME IInv, StopInstance
  PROVE  IInv'
<1>1. PICK i : i = Head(op.queue)
  OBVIOUS
<1>2. /\ Stopping /\ op.step = "stop"
      /\ object' = [object EXCEPT ![i].life = "stopped"]
      /\ op' = [op EXCEPT !.step = "calls", !.queue = Tail(@)]
      /\ UNCHANGED <<kernel, preloaded, work, stops>>
      /\ call' = call /\ task' = task
  BY <1>1 DEF StopInstance, work
<1>3. /\ Moving /\ op \in StagingOps
      /\ op.queue \in Seq(Objects) /\ op.queue # <<>>
      /\ op.stopGeneration \in Generations \cup {None}
      /\ i \in Objects /\ i \in ToSet(op.queue) /\ ~ Installed(i)
      /\ IsInjective(op.queue)
      /\ \A j \in Objects :
           /\ Held(j) <=> Installed(j) \/ j \in ToSet(op.queue)
           /\ BeingStopped(j) <=> j = i
           /\ object[j].life \in {"started", "refused"} <=>
                Held(j) /\ ~ BeingStopped(j)
           /\ object[j].life = "stopping" <=> BeingStopped(j)
  BY <1>1, <1>2, InStopping
<1>4. /\ object \in [Objects -> Things] /\ call \in [Calls -> WorkRecords]
      /\ task \in [Tasks -> WorkRecords]
  BY Basics
<1>5. /\ object' \in [Objects -> Things] /\ object'[i].life = "stopped"
      /\ object'[i].retired = object[i].retired
      /\ object'[i].plugin = object[i].plugin /\ object'[i].born = object[i].born
      /\ object'[i].provider = object[i].provider
      /\ \A j \in Objects : j # i => object'[j] = object[j]
  BY <1>2, <1>3, <1>4 DEF Things, Lives
<1> DEFINE rest == Tail(op.queue)
<1>6. /\ rest \in Seq(Objects) /\ Len(rest) = Len(op.queue) - 1
      /\ Len(op.queue) \in Nat /\ DOMAIN rest = 1 .. Len(op.queue) - 1
      /\ DOMAIN op.queue = 1 .. Len(op.queue)
      /\ \A n \in 1 .. Len(op.queue) - 1 : rest[n] = op.queue[n + 1]
      /\ ToSet(rest) \subseteq ToSet(op.queue)
      /\ \A x \in ToSet(op.queue) : x = i \/ x \in ToSet(rest)
      /\ IsInjective(rest) /\ i \notin ToSet(rest)
  <2>1. rest \in Seq(Objects) /\ DOMAIN rest = 1 .. Len(rest)
    BY <1>3
  <2> QED BY <1>1, <1>3, <2>1, TailFacts
<1>7. /\ op' \in StagingOps /\ op'.kind = op.kind /\ op'.phase = op.phase
      /\ op'.step = "calls" /\ op'.queue = rest /\ op'.staged = op.staged
      /\ op'.instance = op.instance /\ op'.generation = op.generation
      /\ op'.stopGeneration = op.stopGeneration /\ SamePlan
  BY <1>2, <1>3, <1>6 DEF StagingOps, SamePlan
<1> HIDE DEF rest
<1>8. /\ \A j \in Objects :
           /\ object'[j].plugin = object[j].plugin
           /\ object'[j].born = object[j].born
           /\ object'[j].provider = object[j].provider
           /\ object'[j].life = object[j].life
              \/ object'[j].life \in {"stopping", "stopped"}
      /\ SameTasks /\ SameCalls /\ SameButQueue
      /\ call' \in [Calls -> WorkRecords] /\ task' \in [Tasks -> WorkRecords]
  BY <1>2, <1>4, <1>5, <1>7 DEF SameTasks, SameCalls, SameButQueue
<1>9. /\ Shape' /\ Names' /\ Settled' /\ Plan' /\ Moving'
      /\ \A j : Installed(j)' <=> Installed(j)
  BY <1>2, <1>5, <1>8, StopFrame
<1>10. \A j \in Objects : ~ BeingStopped(j)'
  BY <1>7, <1>9 DEF BeingStopped, Moving
<1>11. op.phase \in {"cleanup", "retire"}
  BY <1>2 DEF Stopping
<1>12. Queue'
  <2>1. /\ generation' = generation /\ reconciler' = reconciler
        /\ instance' = instance
    BY <1>2 DEF kernel
  <2>2. Queue /\ Moving
    BY <1>3 DEF IInv
  <2>3. \A j \in ToSet(rest) : ~ \E q \in Plugins : instance[q] = j
    BY <1>6, <2>2 DEF Queue, Installed
  <2>4. ASSUME op.phase = "cleanup"
        PROVE  /\ op.stopGeneration = op.generation
               /\ \A j \in ToSet(rest) :
                    \E p \in ToSet(op.staged) : op.instance[p] = j
               /\ \A n \in DOMAIN rest :
                    \/ object'[rest[n]].provider = None
                    \/ \E q \in Plugins : instance[q] = object'[rest[n]].provider
                    \/ \E m \in n + 1 .. Len(rest) :
                         rest[m] = object'[rest[n]].provider
    <3>1. /\ op.stopGeneration = op.generation
          /\ \A j \in ToSet(op.queue) :
               \E p \in ToSet(op.staged) : op.instance[p] = j
          /\ \A n \in DOMAIN op.queue :
               \/ object[op.queue[n]].provider = None
               \/ Installed(object[op.queue[n]].provider)
               \/ \E m \in n + 1 .. Len(op.queue) :
                    op.queue[m] = object[op.queue[n]].provider
      BY <2>2, <2>4 DEF Queue
    <3>2. ASSUME NEW n \in DOMAIN rest
          PROVE  \/ object'[rest[n]].provider = None
                 \/ \E q \in Plugins : instance[q] = object'[rest[n]].provider
                 \/ \E m \in n + 1 .. Len(rest) :
                      rest[m] = object'[rest[n]].provider
      <4>1. n \in Nat /\ n + 1 \in DOMAIN op.queue /\ rest[n] = op.queue[n + 1]
            /\ rest[n] \in Objects
        BY <1>6
      <4> DEFINE provider == object[rest[n]].provider
      <4>2. object'[rest[n]].provider = provider
        BY <1>8, <4>1
      <4>3. \/ provider = None \/ Installed(provider)
            \/ \E m \in n + 2 .. Len(op.queue) : op.queue[m] = provider
        BY <3>1, <4>1
      <4> HIDE DEF provider
      <4>4. Installed(provider) =>
              \E q \in Plugins : instance[q] = object'[rest[n]].provider
        BY <4>2 DEF Installed
      <4>5. ASSUME NEW m \in n + 2 .. Len(op.queue), op.queue[m] = provider
            PROVE  \E l \in n + 1 .. Len(rest) : rest[l] = provider
        <5>1. m - 1 \in n + 1 .. Len(rest) /\ m - 1 \in 1 .. Len(op.queue) - 1
              /\ m - 1 + 1 = m
          BY <1>6, <4>1
        <5>2. rest[m - 1] = provider
          BY <1>6, <4>5, <5>1
        <5> QED BY <5>1, <5>2
      <4> QED BY <4>2, <4>3, <4>4, <4>5
    <3> QED BY <1>6, <3>1, <3>2
  <2>5. op.phase = "retire" =>
          /\ op.kind = "reconcile" /\ op.stopGeneration = reconciler
          /\ generation # reconciler
    BY <1>3, <2>2 DEF Queue
  <2> QED BY <1>6, <1>7, <1>11, <2>1, <2>3, <2>4, <2>5 DEF Queue, Installed
<1>13. Running'
  <2>1. \A j \in Objects : Held(j)' <=> Installed(j) \/ j \in ToSet(rest)
    BY <1>7, <1>9, <1>11 DEF Held
  <2>2. \A j \in Objects : j # i =>
          (j \in ToSet(op.queue) <=> j \in ToSet(rest))
    BY <1>6
  <2> QED BY <1>3, <1>5, <1>6, <1>10, <2>1, <2>2 DEF Running
<1>14. Ending'
  <2>1. TasksEnded(i)
    BY <1>2, <1>3 DEF TasksEnded
  <2>2. \A j \in Objects : Retiring(j)' => Retiring(j)
    BY <1>3, <1>5 DEF Retiring
  <2>3. \A j \in Objects : TasksEnded(j)' => TasksEnded(j)
    BY <1>5, <1>10, <2>1 DEF TasksEnded
  <2>4. \A j \in Objects : object'[j].retired = object[j].retired
    BY <1>5
  <2>5. ASSUME NEW j \in Objects, Retiring(j)', NEW c \in Calls
        PROVE  Ended(call[c], j)'
    <3>1. Ended(call[c], j)
      BY <2>2, <2>5, WorkNow
    <3> QED BY <1>2, <2>4, <3>1 DEF Ended
  <2>6. ASSUME NEW j \in Objects, TasksEnded(j)', NEW t \in Tasks
        PROVE  Ended(task[t], j)'
    <3>1. Ended(task[t], j)
      BY <2>3, <2>6, WorkNow
    <3> QED BY <1>2, <2>4, <3>1 DEF Ended
  <2> QED BY <1>10, <2>5, <2>6 DEF Ending
<1> QED BY <1>9, <1>12, <1>13, <1>14 DEF IInv

\* The operation is over; what it held is what the kernel has installed.
LEMMA Returned ==
  ASSUME IInv, op.phase \in {"cleanup", "retire"}, ~ Idle,
         op.queue = <<>>, op' = NoOp, reconciler' \in Generations,
         UNCHANGED <<generation, config, state, instance, runtimeActive,
                     subscriptions, preloaded, object, work, stops>>
  PROVE  IInv'
<1>1. /\ generation' = generation /\ config' = config
      /\ state' = state /\ instance' = instance /\ runtimeActive' = runtimeActive
      /\ subscriptions' = subscriptions
      /\ preloaded' = preloaded /\ object' = object
      /\ UNCHANGED work /\ stops' = stops /\ call' = call /\ task' = task
  BY DEF work
<1>2. op.phase \in {"cleanup", "retire"}
  OBVIOUS
<1>3. Moving /\ op.kind # "stop"
  BY <1>2, InPhase
<1>4. op'.kind = "idle" /\ ~ Moving' /\ op' \in AnyOp
  BY DEF NoOp, Moving, AnyOp
<1>5. \A i \in Objects : (Held(i) <=> Installed(i)) /\ ~ BeingStopped(i)
  BY <1>2, <1>3, EmptyList DEF Held, BeingStopped
<1>6. Shape'
  <2>1. /\ generation' \in Generations \cup {None} /\ config' \in Generations
        /\ state' \in [Plugins -> States]
        /\ instance' \in [Plugins -> Objects \cup {None}]
        /\ preloaded' \subseteq Plugins /\ runtimeActive' \in BOOLEAN
        /\ subscriptions' \subseteq Listening /\ object' \in [Objects -> Things]
        /\ call' \in [Calls -> WorkRecords] /\ task' \in [Tasks -> WorkRecords]
        /\ stops' \in 0 .. MaxStops
    BY <1>1, Basics
  <2> QED BY <1>4, <2>1, ShapeNext
<1>7. Names'
  BY <1>1, <1>4, SameObjects, SameWork, NamesFrame
<1>8. Settled'
  <2>1. generation = None => \A i \in Objects : object'[i].born = None
    BY <1>1 DEF IInv, Settled
  <2> QED BY <1>1, <1>4, <2>1, SameObjects, SettledFrame
<1>9. Plan' /\ Queue'
  BY <1>4 DEF Plan, Pending, Queue
<1>10. \A i \in Objects : ~ BeingStopped(i)'
  BY <1>4 DEF BeingStopped
<1>11. Running'
  <2>1. \A i \in Objects : Held(i)' <=> Installed(i)
    BY <1>1, <1>4 DEF Held, Installed
  <2>2. Running
    BY DEF IInv
  <2> QED BY <1>1, <1>5, <1>10, <2>1, <2>2 DEF Running
<1>12. Ending'
  BY <1>1, <1>10, EndingFrame
<1> QED BY <1>6, <1>7, <1>8, <1>9, <1>11, <1>12 DEF IInv

\* A failed operation returns when its rollback is done.
LEMMA ErrorReturned ==
  ASSUME IInv, ReturnError
  PROVE  IInv'
<1>1. /\ op.phase = "cleanup" /\ ~ Idle /\ op.queue = <<>> /\ op' = NoOp
      /\ UNCHANGED <<kernel, preloaded, object, work, stops>>
  BY DEF ReturnError
<1>2. reconciler' \in Generations
  BY <1>1, Basics DEF kernel
<1> QED BY <1>1, <1>2, Returned DEF kernel

\* A reconciliation returns when its retirement is done.
LEMMA ReconciledReturned ==
  ASSUME IInv, ReturnReconciled
  PROVE  IInv'
<1>1. /\ op.phase = "retire" /\ ~ Idle /\ op.queue = <<>> /\ op' = NoOp
      /\ reconciler' = op.target
      /\ UNCHANGED <<generation, config, state, instance, runtimeActive,
                     subscriptions, preloaded, object, work, stops>>
  BY DEF ReturnReconciled
<1>2. op.target \in Generations
  BY <1>1, InPhase, Table
<1> QED BY <1>1, <1>2, Returned

-----------------------------------------------------------------------------
(* Kernel::stop.                                                           *)

\* Kernel::stop cancels the calls of the installed instance.
LEMMA StopBegun ==
  ASSUME IInv, NEW p \in Plugins, BeginStop(p)
  PROVE  IInv'
<1>1. PICK i : i = instance[p]
  OBVIOUS
<1>2. /\ Idle /\ p \in Configured(config) /\ stops < MaxStops
      /\ call' = CancelCalls(p, generation)
      /\ object' = IF i = None THEN object
                   ELSE [object EXCEPT ![i].life = "stopping",
                                       ![i].retired = generation]
      /\ op' = [kind |-> "stop", phase |-> "tasks", plugin |-> p]
      /\ stops' = stops + 1
      /\ UNCHANGED <<kernel, preloaded, task>>
  BY <1>1 DEF BeginStop
<1>3. /\ generation' = generation /\ config' = config /\ reconciler' = reconciler
      /\ state' = state /\ instance' = instance /\ runtimeActive' = runtimeActive
      /\ subscriptions' = subscriptions
      /\ preloaded' = preloaded /\ task' = task
  BY <1>2 DEF kernel
<1>4. /\ ~ Moving
      /\ \A j \in Objects :
           /\ object[j].life \in {"started", "refused"} <=> Installed(j)
           /\ object[j].life # "stopping"
  BY <1>2, WhenIdle
<1>5. /\ op' \in AnyOp /\ op'.kind = "stop" /\ op'.plugin = p
      /\ op'.phase = "tasks" /\ ~ Moving' /\ ~ Pending'
  BY <1>2 DEF AnyOp, StopOps, Moving, Pending
<1>6. /\ object \in [Objects -> Things] /\ call \in [Calls -> WorkRecords]
      /\ task \in [Tasks -> WorkRecords] /\ stops \in 0 .. MaxStops
      /\ instance \in [Plugins -> Objects \cup {None}]
      /\ generation \in Generations \cup {None} /\ None \notin Objects
      /\ MaxStops \in Nat
  BY Basics, Constants
<1>7. i = None \/ (i \in Objects /\ Installed(i) /\ Serves(i, p))
  <2>1. i = None \/ i \in Objects
    BY <1>1, <1>6
  <2>2. Installed(i)
    BY <1>1 DEF Installed
  <2>3. i # None => Serves(i, p)
    BY <1>1 DEF IInv, Names
  <2> QED BY <2>1, <2>2, <2>3
<1>8. /\ object' \in [Objects -> Things]
      /\ \A j \in Objects :
           /\ object'[j].plugin = object[j].plugin
           /\ object'[j].born = object[j].born
           /\ object'[j].provider = object[j].provider
           /\ j # i => object'[j] = object[j]
           /\ j = i => object'[j].life = "stopping" /\ object'[j].retired = generation
  <2>1. CASE i = None
    BY <1>2, <1>6, <2>1
  <2>2. CASE i # None
    <3>1. object' = [object EXCEPT ![i].life = "stopping",
                                   ![i].retired = generation]
      BY <1>2, <2>2
    <3>2. i \in Objects
      BY <1>7, <2>2
    <3> QED BY <1>6, <3>1, <3>2 DEF Things, Lives
  <2> QED BY <2>1, <2>2
<1>9. Alike
  BY <1>8 DEF Alike, Spared
<1>10. /\ call' \in [Calls -> WorkRecords] /\ SameCalls
       /\ \A c \in Calls :
            /\ call'[c].phase = call[c].phase /\ call'[c].object = call[c].object
            /\ call'[c].plugin = call[c].plugin /\ call'[c].late = call[c].late
            /\ call'[c].generation = call[c].generation
            /\ call[c].cancelled => call'[c].cancelled
            /\ /\ call[c].phase = "running"
               /\ call[c].plugin = p /\ call[c].generation = generation
               => call'[c].cancelled
  BY <1>2, <1>6, CallsCancelled
<1>11. SameTasks
  BY <1>3 DEF SameTasks
<1>12. stops' \in 0 .. MaxStops /\ stops' # 0
  BY <1>2, <1>6
<1>13. Shape'
  <2>1. /\ generation' \in Generations \cup {None} /\ config' \in Generations
        /\ reconciler' \in Generations /\ state' \in [Plugins -> States]
        /\ instance' \in [Plugins -> Objects \cup {None}]
        /\ preloaded' \subseteq Plugins /\ runtimeActive' \in BOOLEAN
        /\ subscriptions' \subseteq Listening
        /\ task' \in [Tasks -> WorkRecords]
    BY <1>3, Basics
  <2> QED BY <1>5, <1>8, <1>10, <1>12, <2>1, ShapeNext
<1>14. Names'
  BY <1>3, <1>5, <1>9, <1>10, <1>11, NamesFrame
<1>15. Settled'
  <2>1. generation = None => \A j \in Objects : object'[j].born = None
    BY <1>8 DEF IInv, Settled
  <2> QED BY <1>2, <1>3, <1>5, <1>9, <1>12, <2>1, SettledFrame
<1>16. Plan' /\ Queue'
  BY <1>5 DEF Plan, Queue
<1>17. \A j \in Objects : BeingStopped(j)' <=> j = i
  BY <1>1, <1>3, <1>5 DEF BeingStopped
<1>18. Running'
  <2>1. \A j \in Objects : Held(j)' <=> Installed(j)
    BY <1>3, <1>5 DEF Held, Installed
  <2> QED BY <1>4, <1>7, <1>8, <1>17, <2>1 DEF Running
<1>19. Ending'
  <2>1. \A j \in Objects : BeingStopped(j)' => object'[j].retired = StopGeneration'
    BY <1>3, <1>5, <1>8, <1>17 DEF StopGeneration
  <2>2. ASSUME NEW j \in Objects, Retiring(j)', NEW c \in Calls
        PROVE  Ended(call[c], j)'
    <3>1. CASE j = i
      <4>1. call[c].phase = "running" /\ call[c].object = i => call[c].plugin = p
        BY <1>7, <3>1, <1>6, WorkNow DEF Serves
      <4> QED BY <1>8, <1>10, <3>1, <4>1 DEF Ended
    <3>2. CASE j # i
      <4>1. Retiring(j) /\ object'[j] = object[j]
        BY <1>8, <2>2, <3>2 DEF Retiring
      <4>2. Ended(call[c], j)
        BY <4>1, WorkNow
      <4> QED BY <1>10, <4>1, <4>2 DEF Ended
    <3> QED BY <3>1, <3>2
  <2>3. ASSUME NEW j \in Objects, TasksEnded(j)', NEW t \in Tasks
        PROVE  Ended(task[t], j)'
    <3>1. object'[j].life \in {"stopped", "failed"}
      BY <1>5, <2>3 DEF TasksEnded
    <3>2. object'[j] = object[j]
      BY <1>8, <3>1
    <3>3. TasksEnded(j)
      BY <3>1, <3>2 DEF TasksEnded
    <3>4. Ended(task[t], j)
      BY <3>3, WorkNow
    <3> QED BY <1>3, <3>2, <3>4 DEF Ended
  <2> QED BY <2>1, <2>2, <2>3 DEF Ending
<1> QED BY <1>13, <1>14, <1>15, <1>16, <1>18, <1>19 DEF IInv

\* An explicit stop is under way.
LEMMA WhenStopping ==
  ASSUME IInv, op.kind = "stop"
  PROVE  /\ op \in StopOps /\ ~ Moving /\ ~ Pending /\ op.plugin \in Plugins
         /\ op.plugin \in Configured(config) /\ stops # 0
         /\ \A j \in Objects :
              /\ BeingStopped(j) <=> j = instance[op.plugin]
              /\ Held(j) <=> Installed(j)
              /\ object[j].life \in {"started", "refused"} <=>
                   Installed(j) /\ j # instance[op.plugin]
              /\ object[j].life = "stopping" <=> j = instance[op.plugin]
              /\ j = instance[op.plugin] => object[j].retired = generation
<1>1. /\ op \in StopOps /\ ~ Moving /\ ~ Pending /\ op.plugin \in Plugins
  BY Basics DEF StopOps, Moving, Pending
<1>2. op.plugin \in Configured(config) /\ stops # 0
  BY DEF IInv, Settled
<1>3. \A j \in Objects : /\ BeingStopped(j) <=> j = instance[op.plugin]
                         /\ Held(j) <=> Installed(j)
  BY <1>1 DEF BeingStopped, Held
<1> QED BY <1>1, <1>2, <1>3 DEF IInv, Running, Ending, StopGeneration

\* Kernel::stop cancels the tasks of the installed instance.
LEMMA StopCancelled ==
  ASSUME IInv, StopTasks
  PROVE  IInv'
<1>1. PICK p : p = op.plugin
  OBVIOUS
<1>2. /\ op.kind = "stop" /\ op.phase = "tasks"
      /\ task' = CancelPluginGeneration(p, generation)
      /\ op' = [op EXCEPT !.phase = "stop"]
      /\ UNCHANGED <<kernel, preloaded, object, call, stops>>
  BY <1>1 DEF StopTasks
<1>3. /\ generation' = generation /\ config' = config /\ reconciler' = reconciler
      /\ state' = state /\ instance' = instance /\ runtimeActive' = runtimeActive
      /\ subscriptions' = subscriptions /\ preloaded' = preloaded
      /\ call' = call /\ object' = object /\ stops' = stops
  BY <1>2 DEF kernel
<1>4. /\ op \in StopOps /\ p \in Plugins /\ p \in Configured(config) /\ stops # 0
      /\ \A j \in Objects :
           /\ Held(j) <=> Installed(j)
           /\ BeingStopped(j) <=> j = instance[p]
           /\ j = instance[p] => object[j].retired = generation
                                 /\ object[j].life = "stopping"
  BY <1>1, <1>2, WhenStopping
<1>5. /\ op' \in StopOps /\ op'.kind = "stop" /\ op'.plugin = p
      /\ op'.phase = "stop" /\ op' \in AnyOp /\ ~ Moving' /\ ~ Pending'
  BY <1>1, <1>2, <1>4 DEF AnyOp, StopOps, Moving, Pending
<1>6. /\ task \in [Tasks -> WorkRecords]
      /\ instance \in [Plugins -> Objects \cup {None}]
  BY Basics
<1>7. /\ task' \in [Tasks -> WorkRecords] /\ SameTasks
      /\ \A t \in Tasks :
           /\ task'[t].phase = task[t].phase /\ task'[t].object = task[t].object
           /\ task'[t].plugin = task[t].plugin /\ task'[t].late = task[t].late
           /\ task'[t].generation = task[t].generation
           /\ task[t].cancelled => task'[t].cancelled
           /\ /\ generation # None /\ task[t].phase = "running"
              /\ task[t].plugin = p /\ task[t].generation = generation
              => task'[t].cancelled
  BY <1>2, <1>6, TasksCancelled
<1>8. Alike /\ SameCalls
  BY <1>3, SameObjects DEF SameCalls
<1>9. Shape'
  <2>1. /\ generation' \in Generations \cup {None} /\ config' \in Generations
        /\ reconciler' \in Generations /\ state' \in [Plugins -> States]
        /\ instance' \in [Plugins -> Objects \cup {None}]
        /\ preloaded' \subseteq Plugins /\ runtimeActive' \in BOOLEAN
        /\ subscriptions' \subseteq Listening /\ object' \in [Objects -> Things]
        /\ call' \in [Calls -> WorkRecords] /\ stops' \in 0 .. MaxStops
    BY <1>3, Basics
  <2> QED BY <1>5, <1>7, <2>1, ShapeNext
<1>10. Names'
  BY <1>3, <1>5, <1>7, <1>8, NamesFrame
<1>11. Settled'
  <2>1. generation = None => \A j \in Objects : object'[j].born = None
    BY <1>3 DEF IInv, Settled
  <2> QED BY <1>3, <1>4, <1>5, <1>8, <2>1, SettledFrame
<1>12. Plan' /\ Queue'
  BY <1>5 DEF Plan, Queue
<1>13. \A j \in Objects : BeingStopped(j)' <=> BeingStopped(j)
  BY <1>3, <1>4, <1>5 DEF BeingStopped
<1>14. Running'
  <2>1. \A j \in Objects : Held(j)' <=> Held(j)
    BY <1>3, <1>4, <1>5 DEF Held, Installed
  <2> QED BY <1>3, <1>13, <2>1 DEF IInv, Running
<1>15. Ending'
  <2>1. \A j \in Objects : BeingStopped(j)' => object'[j].retired = StopGeneration'
    BY <1>3, <1>4, <1>5, <1>13 DEF StopGeneration
  <2>2. ASSUME NEW j \in Objects, Retiring(j)', NEW c \in Calls
        PROVE  Ended(call[c], j)'
    <3>1. Retiring(j)
      BY <1>3, <2>2 DEF Retiring
    <3>2. Ended(call[c], j)
      BY <3>1, WorkNow
    <3> QED BY <1>3, <3>2 DEF Ended
  <2>3. ASSUME NEW j \in Objects, TasksEnded(j)', NEW t \in Tasks
        PROVE  Ended(task[t], j)'
    <3>1. CASE j = instance[p]
      <4>1. object[j].plugin = p
        BY <1>4, <1>6, <3>1, Constants DEF IInv, Names, Serves
      <4>2. task[t].phase = "running" =>
              /\ task[t].generation # None
              /\ task[t].object = j => task[t].plugin = p
        BY <4>1, WorkNow, Constants DEF Serves
      <4> QED BY <1>3, <1>4, <1>7, <3>1, <4>2 DEF Ended
    <3>2. CASE j # instance[p]
      <4>1. TasksEnded(j)
        BY <1>3, <1>4, <1>13, <2>3, <3>2 DEF TasksEnded
      <4>2. Ended(task[t], j)
        BY <4>1, WorkNow
      <4> QED BY <1>3, <1>7, <4>2 DEF Ended
    <3> QED BY <3>1, <3>2
  <2> QED BY <2>1, <2>2, <2>3 DEF Ending
<1> QED BY <1>9, <1>10, <1>11, <1>12, <1>14, <1>15 DEF IInv

\* Kernel::stop returns with the outcome of the stop hook.
LEMMA StopReturned ==
  ASSUME IInv, NEW ok \in BOOLEAN, StopReturns(ok)
  PROVE  IInv'
<1>1. PICK p : p = op.plugin
  OBVIOUS
<1>2. PICK i : i = instance[p]
  OBVIOUS
<1>3. PICK life : life = IF ok THEN "stopped" ELSE "refused"
  OBVIOUS
<1>4. /\ op.kind = "stop" /\ op.phase = "stop"
      /\ i = None => ok
      /\ object' = IF i = None THEN object ELSE [object EXCEPT ![i].life = life]
      /\ instance' = IF ok THEN [instance EXCEPT ![p] = None] ELSE instance
      /\ state' = IF ok THEN [state EXCEPT ![p] = "stopped"] ELSE state
      /\ op' = NoOp
      /\ UNCHANGED <<generation, config, runtimeActive, subscriptions, reconciler,
                     preloaded, work, stops>>
  BY <1>1, <1>2, <1>3, Zenon DEF StopReturns
<1>5. /\ generation' = generation /\ config' = config /\ reconciler' = reconciler
      /\ runtimeActive' = runtimeActive /\ subscriptions' = subscriptions
      /\ preloaded' = preloaded /\ stops' = stops
      /\ UNCHANGED work /\ call' = call /\ task' = task
  BY <1>4 DEF work
<1>6. /\ p \in Plugins /\ stops # 0
      /\ \A j \in Objects :
           /\ Held(j) <=> Installed(j)
           /\ BeingStopped(j) <=> j = i
           /\ object[j].life \in {"started", "refused"} <=> Installed(j) /\ j # i
           /\ object[j].life = "stopping" <=> j = i
  BY <1>1, <1>2, <1>4, WhenStopping
<1>7. /\ op'.kind = "idle" /\ op' \in AnyOp /\ ~ Moving'
  BY <1>4 DEF NoOp, AnyOp, Moving
<1>8. /\ object \in [Objects -> Things] /\ Distinct(instance)
      /\ instance \in [Plugins -> Objects \cup {None}]
      /\ state \in [Plugins -> States] /\ None \notin Objects
  BY Basics, Constants
<1>9. /\ life = "stopped" \/ life = "refused"
      /\ ok => life = "stopped"
      /\ ~ ok => life = "refused"
  BY <1>3
<1>10. i = None \/ i \in Objects
  BY <1>2, <1>6, <1>8
<1>11. /\ object' \in [Objects -> Things]
       /\ \A j \in Objects :
            /\ object'[j].plugin = object[j].plugin
            /\ object'[j].born = object[j].born
            /\ object'[j].provider = object[j].provider
            /\ object'[j].retired = object[j].retired
            /\ j # i => object'[j] = object[j]
            /\ j = i => object'[j].life = life
  <2>1. CASE i = None
    BY <1>4, <1>8, <2>1
  <2>2. CASE i # None
    <3>1. object' = [object EXCEPT ![i].life = life]
      BY <1>4, <2>2
    <3>2. i \in Objects
      BY <1>10, <2>2
    <3>3. life \in Lives
      BY <1>9 DEF Lives
    <3> QED BY <1>8, <3>1, <3>2, <3>3 DEF Things
  <2> QED BY <2>1, <2>2
<1>12. \A q \in Plugins :
         \/ q = p /\ ok /\ instance'[q] = None /\ state'[q] = "stopped"
         \/ (q # p \/ ~ ok) /\ instance'[q] = instance[q] /\ state'[q] = state[q]
  <2>1. CASE ok
    <3>1. /\ instance' = [instance EXCEPT ![p] = None]
          /\ state' = [state EXCEPT ![p] = "stopped"]
      BY <1>4, <2>1
    <3> QED BY <1>6, <1>8, <2>1, <3>1
  <2>2. CASE ~ ok
    <3>1. instance' = instance /\ state' = state
      BY <1>4, <2>2
    <3> QED BY <2>2, <3>1
  <2> QED BY <2>1, <2>2
<1>13. /\ instance' \in [Plugins -> Objects \cup {None}]
       /\ state' \in [Plugins -> States]
  <2>1. CASE ok
    <3>1. /\ instance' = [instance EXCEPT ![p] = None]
          /\ state' = [state EXCEPT ![p] = "stopped"]
      BY <1>4, <2>1
    <3> QED BY <1>6, <1>8, <3>1 DEF States
  <2>2. CASE ~ ok
    <3>1. instance' = instance /\ state' = state
      BY <1>4, <2>2
    <3> QED BY <1>8, <3>1
  <2> QED BY <2>1, <2>2
<1>14. Shape'
  <2>1. /\ generation' \in Generations \cup {None} /\ config' \in Generations
        /\ reconciler' \in Generations
        /\ preloaded' \subseteq Plugins /\ runtimeActive' \in BOOLEAN
        /\ subscriptions' \subseteq Listening
        /\ call' \in [Calls -> WorkRecords] /\ task' \in [Tasks -> WorkRecords]
        /\ stops' \in 0 .. MaxStops
    BY <1>5, Basics
  <2> QED BY <1>7, <1>11, <1>13, <2>1, ShapeNext
<1>15. ASSUME NEW j \in Objects
       PROVE  /\ object[j].life # "unborn" => object'[j].life # "unborn"
              /\ Spared(j) => Spared(j)'
  BY <1>9, <1>11 DEF Spared
<1>16. Names'
  <2>1. \A q \in Plugins : instance'[q] # None => Serves(instance[q], q)'
    <3> SUFFICES ASSUME NEW q \in Plugins, instance'[q] # None
                 PROVE  /\ object'[instance'[q]].plugin = q
                        /\ object'[instance'[q]].life # "unborn"
      BY DEF Serves
    <3>1. instance'[q] = instance[q] /\ instance[q] \in Objects
      BY <1>8, <1>12
    <3>2. object[instance[q]].plugin = q /\ object[instance[q]].life # "unborn"
      BY <3>1 DEF IInv, Names, Serves
    <3> QED BY <1>11, <1>15, <3>1, <3>2
  <2>2. \A s \in subscriptions' : Serves(s.object, s.plugin)' /\ Spared(s.object)'
    <3> SUFFICES ASSUME NEW s \in subscriptions
                 PROVE  Serves(s.object, s.plugin)' /\ Spared(s.object)'
      BY <1>5
    <3>1. s.object \in Objects
      BY Basics DEF Listening
    <3>2. Serves(s.object, s.plugin) /\ Spared(s.object)
      BY DEF IInv, Names
    <3> QED BY <1>11, <1>15, <3>1, <3>2 DEF Serves
  <2>3. \A c \in Calls : call'[c].phase # "free" =>
          /\ call'[c].object \in Objects /\ call'[c].generation \in Generations
          /\ Serves(call[c].object, call[c].plugin)' /\ Spared(call[c].object)'
    <3> SUFFICES ASSUME NEW c \in Calls, call[c].phase # "free"
                 PROVE  /\ call[c].object \in Objects
                        /\ call[c].generation \in Generations
                        /\ Serves(call[c].object, call[c].plugin)'
                        /\ Spared(call[c].object)'
      BY <1>5
    <3>1. /\ call[c].object \in Objects /\ call[c].generation \in Generations
          /\ Serves(call[c].object, call[c].plugin) /\ Spared(call[c].object)
      BY WorkNow
    <3> QED BY <1>5, <1>11, <1>15, <3>1 DEF Serves, Spared
  <2>4. \A t \in Tasks : task'[t].phase # "free" =>
          /\ task'[t].object \in Objects /\ task'[t].generation \in Generations
          /\ Serves(task[t].object, task[t].plugin)'
    <3> SUFFICES ASSUME NEW t \in Tasks, task[t].phase # "free"
                 PROVE  /\ task[t].object \in Objects
                        /\ task[t].generation \in Generations
                        /\ Serves(task[t].object, task[t].plugin)'
      BY <1>5
    <3>1. /\ task[t].object \in Objects /\ task[t].generation \in Generations
          /\ Serves(task[t].object, task[t].plugin)
      BY WorkNow
    <3> QED BY <1>5, <1>11, <1>15, <3>1 DEF Serves
  <2> QED BY <1>7, <2>1, <2>2, <2>3, <2>4 DEF Names
<1>17. Settled'
  <2>1. /\ Settled /\ config \in Generations
    BY Basics DEF IInv
  <2>2. (IF generation = None
         THEN /\ config = Initial /\ subscriptions = {}
              /\ \A j \in Objects : object[j].born = None
         ELSE config = generation)'
    BY <1>5, <1>11, <2>1 DEF Settled
  <2>3. \A q \in Plugins : state'[q] = "active" \/ instance'[q] = None
    BY <1>12, <2>1 DEF Settled
  <2>4. \A q \in Plugins : state'[q] = "active" =>
          /\ state[q] = "active" /\ instance'[q] = instance[q]
          /\ runtimeActive' /\ q \in Configured(config')
    BY <1>5, <1>12, <2>1 DEF Settled
  <2>5. /\ \A s \in subscriptions' :
             /\ s.generation = generation'
             /\ state'[s.plugin] = "active" => instance'[s.plugin] = s.object
        /\ \/ subscriptions' = {}
           \/ {s.plugin : s \in subscriptions'} = Harness[generation'].listeners
    <3>1. \A s \in subscriptions : s.plugin \in Plugins
      BY Basics DEF Listening
    <3>2. /\ \A s \in subscriptions :
               /\ s.generation = generation
               /\ state[s.plugin] = "active" => instance[s.plugin] = s.object
          /\ \/ subscriptions = {}
             \/ {s.plugin : s \in subscriptions} = Harness[generation].listeners
      BY <2>1 DEF Settled
    <3> QED BY <1>5, <2>4, <3>1, <3>2
  <2>6. \A q \in Configured(config') :
          state'[q] = "active" => StartedFor(config, q, instance[q])'
    <3> SUFFICES ASSUME NEW q \in Configured(config), state'[q] = "active"
                 PROVE  StartedFor(config, q, instance[q])'
      BY <1>5
    <3>1. q \in Plugins
      BY <2>1, Harnesses
    <3>2. state[q] = "active" /\ instance'[q] = instance[q]
      BY <2>4, <3>1
    <3>3. StartedFor(config, q, instance[q])
      BY <2>1, <3>2 DEF Settled
    <3>4. CASE instance[q] = None
      BY <1>5, <3>2, <3>3, <3>4 DEF StartedFor
    <3>5. CASE instance[q] # None
      <4>1. object'[instance[q]].born = object[instance[q]].born
        BY <1>8, <1>11, <3>1, <3>5
      <4> QED BY <1>5, <3>2, <3>3, <4>1 DEF StartedFor, CurrentIn
    <3> QED BY <3>4, <3>5
  <2> QED BY <1>5, <1>6, <1>7, <2>2, <2>3, <2>4, <2>5, <2>6 DEF Settled
<1>18. Plan' /\ Queue'
  BY <1>7 DEF Plan, Pending, Queue
<1>19. \A j \in Objects : ~ BeingStopped(j)'
  BY <1>7 DEF BeingStopped
<1>20. Running'
  <2>1. \A j \in Objects : Held(j)' <=> \E q \in Plugins : instance'[q] = j
    BY <1>7 DEF Held, Installed
  <2>2. ASSUME NEW j \in Objects
        PROVE  (\E q \in Plugins : instance'[q] = j) <=>
                 Installed(j) /\ (j # i \/ ~ ok)
    <3>1. \A q \in Plugins : instance[q] = j /\ j = i => q = p
      BY <1>2, <1>6, <1>8 DEF Distinct
    <3>2. j # None
      BY <1>8
    <3>3. ASSUME NEW q \in Plugins, instance'[q] = j
          PROVE  Installed(j) /\ (j # i \/ ~ ok)
      <4>1. (q # p \/ ~ ok) /\ instance[q] = j
        BY <1>12, <3>2, <3>3
      <4> QED BY <3>1, <4>1 DEF Installed
    <3>4. ASSUME Installed(j), j # i \/ ~ ok
          PROVE  \E q \in Plugins : instance'[q] = j
      <4>1. PICK q \in Plugins : instance[q] = j
        BY <3>4 DEF Installed
      <4>2. q # p \/ ~ ok
        BY <1>2, <3>4, <4>1
      <4>3. instance'[q] = j
        BY <1>12, <4>1, <4>2
      <4> QED BY <4>3
    <3> QED BY <3>3, <3>4
  <2>3. \A j \in Objects : j = i => Installed(j)
    BY <1>2, <1>6 DEF Installed
  <2>4. ASSUME NEW j \in Objects
        PROVE  /\ object'[j].life \in {"started", "refused"} <=>
                    Installed(j) /\ (j # i \/ ~ ok)
               /\ object'[j].life # "stopping"
    BY <1>6, <1>9, <1>11, <2>3
  <2> QED BY <1>19, <2>1, <2>2, <2>4 DEF Running
<1>21. Ending'
  <2>1. ASSUME NEW j \in Objects, Retiring(j)'
        PROVE  Retiring(j) /\ TasksEnded(j)
    <3>1. CASE j = i
      <4>1. object[j].life = "stopping" /\ BeingStopped(j)
        BY <1>6, <3>1
      <4> QED BY <1>4, <1>6, <4>1, WhenStopping DEF Retiring, TasksEnded
    <3>2. CASE j # i
      <4>1. object'[j] = object[j] /\ object[j].life # "stopping"
        BY <1>6, <1>11, <3>2
      <4> QED BY <2>1, <4>1 DEF Retiring, TasksEnded
    <3> QED BY <3>1, <3>2
  <2>2. \A j \in Objects : TasksEnded(j)' => Retiring(j)'
    BY <1>19 DEF TasksEnded, Retiring
  <2>3. ASSUME NEW j \in Objects, Retiring(j)', NEW c \in Calls
        PROVE  Ended(call[c], j)'
    <3>1. Ended(call[c], j)
      BY <2>1, <2>3, WorkNow
    <3> QED BY <1>5, <1>11, <3>1 DEF Ended
  <2>4. ASSUME NEW j \in Objects, TasksEnded(j)', NEW t \in Tasks
        PROVE  Ended(task[t], j)'
    <3>1. Ended(task[t], j)
      BY <2>1, <2>2, <2>4, WorkNow
    <3> QED BY <1>5, <1>11, <3>1 DEF Ended
  <2> QED BY <1>19, <2>3, <2>4 DEF Ending
<1> QED BY <1>14, <1>16, <1>17, <1>18, <1>20, <1>21 DEF IInv

-----------------------------------------------------------------------------
(* The invariant is inductive.                                             *)

\* The initial state satisfies the invariant.
LEMMA InitKeeps ==
  ASSUME Init
  PROVE  IInv
<1>1. /\ generation = None /\ config = Initial /\ reconciler = Initial
      /\ state = [p \in Plugins |->
                    IF p \in Configured(Initial) THEN "registered" ELSE "absent"]
      /\ instance = [p \in Plugins |-> None]
      /\ preloaded = Preloaded /\ runtimeActive = FALSE /\ subscriptions = {}
      /\ op = NoOp /\ object = [i \in Objects |-> Unborn]
      /\ call = [c \in Calls |-> NoCall] /\ task = [t \in Tasks |-> NoTask]
      /\ stops = 0
  BY DEF Init
<1>2. /\ \A p \in Plugins : instance[p] = None /\ state[p] # "active"
      /\ \A i \in Objects : /\ object[i].life = "unborn" /\ object[i].born = None
                            /\ ~ Installed(i)
      /\ \A c \in Calls : call[c].phase = "free"
      /\ \A t \in Tasks : task[t].phase = "free"
  BY <1>1, Constants DEF Unborn, NoCall, NoTask, Installed
<1>3. /\ op.kind = "idle" /\ ~ Moving /\ ~ Pending /\ op \in AnyOp
  BY <1>1 DEF NoOp, Moving, Pending, AnyOp
<1>4. Shape
  <2>1. object \in [Objects -> Things]
    BY <1>1 DEF Unborn, Things, Lives
  <2>2. NoCall \in WorkRecords
    BY DEF NoCall, WorkRecords
  <2>3. call \in [Calls -> WorkRecords] /\ task \in [Tasks -> WorkRecords]
    BY <1>1, <2>2 DEF NoTask
  <2>4. state \in [Plugins -> States] /\ instance \in [Plugins -> Objects \cup {None}]
    BY <1>1 DEF States
  <2>5. /\ generation \in Generations \cup {None} /\ config \in Generations
        /\ reconciler \in Generations /\ preloaded \subseteq Plugins
        /\ subscriptions \subseteq Listening /\ stops \in 0 .. MaxStops
    BY <1>1, Constants
  <2>6. runtimeActive \in BOOLEAN
    BY <1>1
  <2> QED BY <1>3, <2>1, <2>3, <2>4, <2>5, <2>6, ShapeFrom, Zenon
<1>5. Names
  BY <1>1, <1>2, <1>3 DEF Names
<1>6. Settled
  <2>1. Configured(config) \subseteq Plugins
        /\ DOMAIN Harness[config].bindings \subseteq Plugins
    BY <1>1, Constants, Harnesses
  <2>2. Follow(config, instance)
    BY <1>2, <2>1 DEF Follow
  <2> QED BY <1>1, <1>2, <1>3, <2>1, <2>2 DEF Settled
<1>7. Plan /\ Queue
  BY <1>3 DEF Plan, Queue
<1>8. \A i \in Objects : ~ BeingStopped(i) /\ ~ Held(i)
  BY <1>2, <1>3 DEF BeingStopped, Held
<1>9. Running
  BY <1>2, <1>8 DEF Running
<1>10. Ending
  BY <1>2, <1>8 DEF Ending, Ended
<1> QED BY <1>4, <1>5, <1>6, <1>7, <1>9, <1>10 DEF IInv

\* The beginning of every operation keeps the invariant.
LEMMA RequestsKeep ==
  ASSUME IInv, Requests
  PROVE  IInv'
BY ActivationBegun, ResolvedActivated, ReconciliationBegun, ReconcilerActivated,
   StopBegun DEF Requests

\* Every later step of an operation keeps the invariant.
LEMMA OperationStepKeeps ==
  ASSUME IInv, OperationStep
  PROVE  IInv'
<1>1. ASSUME NEW ok \in BOOLEAN, StageGuest(ok) \/ BindListeners(ok) \/ StopReturns(ok)
      PROVE  IInv'
  BY <1>1, GuestStaged, ListenersBound, StopReturned
<1>2. CASE StageResourceOnly \/ StageEmbedded \/ StartSucceeds \/ StartFails
  BY <1>2, ResourceStaged, EmbeddedStaged, Started, StartFailed
<1>3. CASE CommitActivation \/ CommitReconciliation
  BY <1>3, ActivationCommitted, ReconciliationCommitted
<1>4. CASE StopCancelsCalls \/ StopCancelsTasks \/ StopInstance \/ StopTasks
  BY <1>4, CallsOfQueued, TasksOfQueued, QueuedStopped, StopCancelled
<1>5. CASE ReturnError \/ ReturnReconciled
  BY <1>5, ErrorReturned, ReconciledReturned
<1> QED BY <1>1, <1>2, <1>3, <1>4, <1>5 DEF OperationStep

\* A stuttering step keeps the invariant.
LEMMA StutterKeeps ==
  ASSUME IInv, UNCHANGED vars
  PROVE  IInv'
<1>1. /\ UNCHANGED <<kernel, preloaded, op, object, stops>>
      /\ call' = call /\ task' = task
  BY DEF vars, work
<1> QED BY <1>1, WorkNow, WorkFrame

\* Every reachable state satisfies the inductive invariant.
THEOREM LifecycleInvariance == Spec => []IInv
<1>1. Init => IInv
  BY InitKeeps
<1>2. IInv /\ [Next]_vars => IInv'
  BY RequestsKeep, OperationStepKeeps, WorkStepKeeps, StutterKeeps DEF Next
<1> QED BY <1>1, <1>2, PTL DEF Spec

-----------------------------------------------------------------------------
(* What follows.                                                           *)

\* Every variable keeps its type through activation, staging, commit,
\* rollback, retirement and stop.
THEOREM LifecycleTypes == Spec => []TypeOK
<1>1. IInv => TypeOK
  BY DEF IInv, Shape
<1> QED BY <1>1, LifecycleInvariance, PTL

\* Between operations the instances that run are the installed ones: whatever
\* activate_all or reconcile_resolved_generation started is installed or has
\* been stopped, and what they replaced has been stopped.
THEOREM NoInstanceLeaks == Spec => []InstanceAccounting
<1>1. IInv => InstanceAccounting
  BY WhenIdle DEF InstanceAccounting
<1> QED BY <1>1, LifecycleInvariance, PTL

\* An active plugin runs on what is configured, however many transitions have
\* retained its instance: the restart closure misses no change.
THEOREM NothingStaleIsActive == Spec => []ActiveIsCurrent
<1>1. IInv => ActiveIsCurrent
  <2> SUFFICES ASSUME IInv, NEW p \in Configured(config), state[p] = "active"
               PROVE  IF Execution(config, p) = "resource" THEN instance[p] = None
                      ELSE instance[p] # None /\ Current(instance[p], p)
    BY DEF ActiveIsCurrent
  <2>1. StartedFor(config, p, instance[p])
    BY DEF IInv, Settled
  <2> QED BY <2>1 DEF StartedFor, CurrentIn, Current
<1> QED BY <1>1, LifecycleInvariance, PTL

\* The listeners of the event bus are those of the active generation, bound to
\* the instances that serve it: a commit swaps them together.
THEOREM ListenersBelong == Spec => []OneTopology
<1>1. IInv => OneTopology
  BY DEF OneTopology, IInv, Settled
<1> QED BY <1>1, LifecycleInvariance, PTL

\* While nothing has been stopped explicitly, a guest runs on the instance of
\* its runtime provider that is installed: RuntimeRestartClosure is closed.
THEOREM NoOrphanedGuest == Spec => []GuestsFollowProvider
<1>1. IInv => GuestsFollowProvider
  BY DEF GuestsFollowProvider, IInv, Settled, Follow
<1> QED BY <1>1, LifecycleInvariance, PTL

\* cleanup_staged never stops a provider that a staged guest still needs.
THEOREM GuestsStopFirst == Spec => []RollbackOrder
<1>1. IInv => RollbackOrder
  <2> SUFFICES ASSUME IInv, ~ Idle, op.phase = "cleanup", NEW i \in Objects,
                      object[i].life \in {"started", "stopping"},
                      object[i].provider # None,
                      object[i].plugin \in ToSet(op.staged),
                      op.instance[object[i].plugin] = i
               PROVE  object[object[i].provider].life \notin {"stopped", "failed"}
    BY DEF RollbackOrder
  <2>1. Moving /\ op \in StagingOps /\ Staged
    BY InPhase
  <2>2. \A j \in Objects : Held(j) <=> Installed(j) \/ j \in ToSet(op.queue)
    BY <2>1 DEF Held
  <2>3. \A j \in Objects : BeingStopped(j) => j \in ToSet(op.queue)
    <3>1. op.queue \in Seq(Objects) /\ op.kind # "stop"
      BY <2>1 DEF StagingOps, Moving
    <3> QED BY <3>1, TailFacts DEF BeingStopped
  <2>4. \A j \in Objects :
          /\ object[j].life \in {"started", "refused"} <=> Held(j) /\ ~ BeingStopped(j)
          /\ object[j].life = "stopping" <=> BeingStopped(j)
    BY DEF IInv, Running
  <2>5. i # None /\ object \in [Objects -> Things]
    BY Basics, Constants
  <2>6. ~ Installed(i)
    <3>1. object[i].plugin \in Plugins
      BY <2>1, Table DEF ToSet
    <3> QED BY <2>1, <2>5, <3>1 DEF Staged
  <2>7. PICK n \in DOMAIN op.queue : op.queue[n] = i
    BY <2>2, <2>3, <2>4, <2>6 DEF ToSet
  <2> DEFINE provider == object[i].provider
  <2>8. \/ Installed(provider)
        \/ \E m \in n + 1 .. Len(op.queue) : op.queue[m] = provider
    BY <2>1, <2>7 DEF IInv, Queue
  <2>9. provider \in Objects
    BY <2>5 DEF Things
  <2>10. op.queue \in Seq(Objects)
    BY <2>1 DEF StagingOps
  <2> HIDE DEF provider
  <2>11. Held(provider)
    <3>1. ASSUME NEW m \in n + 1 .. Len(op.queue), op.queue[m] = provider
          PROVE  provider \in ToSet(op.queue)
      <4>1. m \in DOMAIN op.queue
        BY <2>7, <2>10
      <4> QED BY <3>1, <4>1 DEF ToSet
    <3> QED BY <2>2, <2>8, <2>9, <3>1
  <2>12. object[provider].life \in {"started", "refused", "stopping"}
    BY <2>4, <2>9, <2>11
  <2> QED BY <2>12 DEF provider
<1> QED BY <1>1, LifecycleInvariance, PTL

\* What an instance had begun in the generation it is retired from has been
\* cancelled once it is stopped or dropped.
THEOREM NoWorkOutlives == Spec => []RetirementCancels
<1>1. IInv => RetirementCancels
  <2> SUFFICES ASSUME IInv, NEW i \in Objects,
                      object[i].life \in {"stopped", "failed"},
                      NEW w \in Range(call) \cup Range(task),
                      w.phase = "running", w.object = i, ~ w.late,
                      w.generation = object[i].retired
               PROVE  w.cancelled
    BY DEF RetirementCancels
  <2>1. Retiring(i) /\ TasksEnded(i)
    BY DEF Retiring, TasksEnded
  <2>2. CASE w \in Range(call)
    <3>1. PICK c \in Calls : w = call[c]
      BY <2>2, WorkNow DEF Range
    <3>2. Ended(call[c], i)
      BY <2>1, WorkNow
    <3> QED BY <3>1, <3>2 DEF Ended
  <2>3. CASE w \in Range(task)
    <3>1. PICK t \in Tasks : w = task[t]
      BY <2>3, WorkNow DEF Range
    <3>2. Ended(task[t], i)
      BY <2>1, WorkNow
    <3> QED BY <3>1, <3>2 DEF Ended
  <2> QED BY <2>2, <2>3
<1> QED BY <1>1, LifecycleInvariance, PTL

-----------------------------------------------------------------------------
(* A step cancels work of what it gives up and of nothing else.            *)

\* An operation of the active generation changes no installed instance.
LEMMA SameGeneration ==
  ASSUME IInv, Pending, op.generation = generation,
         NEW p \in Plugins, instance[p] # None
  PROVE  op.instance[p] = instance[p]
<1>1. Moving /\ Aimed
  BY DEF IInv, Plan, Pending
<1>2. op.kind = "activate" \/ (op.kind = "reconcile" /\ Retired = {})
  BY <1>1 DEF Moving, Aimed
<1> QED BY <1>1, <1>2 DEF Aimed

\* What cancel_calls and cancel_plugin_generation newly cancel.
LEMMA CancelledCall ==
  ASSUME NEW p, NEW g, call' = CancelCalls(p, g), NEW c \in Calls,
         Cancelled(call[c], call'[c])
  PROVE  call[c].phase = "running" /\ call[c].plugin = p /\ call[c].generation = g
BY DEF CancelCalls, Cancelled

\* A task that is cancelled ran for the plugin and the generation named.
LEMMA CancelledTask ==
  ASSUME NEW p, NEW g, task' = CancelPluginGeneration(p, g), NEW t \in Tasks,
         Cancelled(task[t], task'[t])
  PROVE  /\ task[t].phase = "running" /\ task[t].plugin = p
         /\ task[t].generation = g
BY DEF CancelPluginGeneration, Cancelled

\* An installed instance has the plugin under which it is installed.
LEMMA InstalledFor ==
  ASSUME IInv, NEW i \in Objects, Installed(i)
  PROVE  object[i].plugin \in Plugins /\ instance[object[i].plugin] = i
<1>1. PICK p \in Plugins : instance[p] = i
  BY DEF Installed
<1>2. i # None
  BY Constants
<1> QED BY <1>1, <1>2 DEF IInv, Names, Serves

\* What a queue stops is not installed and was not begun in the active
\* generation together with what is.
LEMMA QueueSpares ==
  ASSUME IInv, Stopping, NEW i \in Objects, Installed(i),
         object[i].plugin = object[Head(op.queue)].plugin
  PROVE  op.stopGeneration # generation
<1>1. /\ Moving /\ op \in StagingOps /\ op.queue # <<>>
      /\ Head(op.queue) \in Objects /\ Head(op.queue) \in ToSet(op.queue)
      /\ \A j \in ToSet(op.queue) : ~ Installed(j)
      /\ ~ Pending => op.phase = "retire"
      /\ Pending => op.phase = "cleanup" /\ Aimed
  BY InStopping
<1>2. PICK q : q = object[i].plugin
  OBVIOUS
<1>3. q \in Plugins /\ instance[q] = i /\ i # None
  BY <1>2, InstalledFor, Constants
<1>4. CASE op.phase = "retire"
  BY <1>1, <1>4 DEF IInv, Queue
<1>5. CASE Pending /\ op.phase = "cleanup"
  <2>1. op.stopGeneration = op.generation
    BY <1>1, <1>5 DEF IInv, Queue
  <2>2. PICK p \in ToSet(op.staged) : op.instance[p] = Head(op.queue)
    BY <1>1, <1>5 DEF IInv, Queue
  <2>3. p \in Plugins
    BY <1>1, Table DEF ToSet
  <2>4. Head(op.queue) # None
    BY <1>1, Constants
  <2>5. object[Head(op.queue)].plugin = p
    BY <1>1, <2>2, <2>3, <2>4, Table
  <2>6. p = q
    BY <1>2, <2>5
  <2>7. op.generation = generation => op.instance[q] = instance[q]
    BY <1>3, <1>5, SameGeneration
  <2> QED BY <1>1, <1>3, <2>1, <2>2, <2>6, <2>7
<1> QED BY <1>1, <1>4, <1>5

\* The plugin whose start fails has nothing installed in op's generation.
LEMMA StartSpares ==
  ASSUME IInv, ~ Idle, op.phase = "start", NEW i \in Objects, Installed(i),
         object[i].plugin = Head(op.todo)
  PROVE  op.generation # generation
<1>1. Moving /\ Pending /\ op.todo # <<>> /\ Head(op.todo) \in Plugins
  BY InStart
<1>2. op.phase # "retire"
  OBVIOUS
<1>3. Staged
  BY <1>1 DEF IInv, Plan
<1>4. PICK p : p = Head(op.todo)
  OBVIOUS
<1>5. p \in Plugins /\ instance[p] = i /\ i # None
  BY <1>4, InstalledFor, Constants
<1>6. p \in ToSet(op.todo)
  BY <1>1, <1>4, Table, TailFacts
<1>7. op.generation = generation => op.instance[p] # None
  BY <1>1, <1>5, SameGeneration
<1>8. op.instance[p] # None => op.state[p] = "active" /\ p \in Configured(op.target)
  BY <1>3, <1>5 DEF Staged
<1>9. op.instance[p] # None => p \notin ToSet(op.todo)
  BY <1>3, <1>8 DEF Staged
<1> QED BY <1>6, <1>7, <1>9

\* One step spares the work of the installed instances.
Spares ==
  op.kind # "stop" /\ stops' = stops =>
    /\ \A c \in Calls : Cancelled(call[c], call'[c]) =>
         ~ (Installed(call[c].object) /\ call[c].generation = generation)
    /\ \A t \in Tasks : Cancelled(task[t], task'[t]) =>
         ~ (Installed(task[t].object) /\ task[t].generation = generation)

\* A step that cancels nothing spares everything.
LEMMA QuietSpares ==
  ASSUME call' = call \/ \A c \in Calls : ~ Cancelled(call[c], call'[c]),
         task' = task \/ \A t \in Tasks : ~ Cancelled(task[t], task'[t])
  PROVE  Spares
BY DEF Spares, Cancelled

\* The calls cancelled for an instance of the queue are not those of an
\* installed one.
LEMMA QueuedCallsSpare ==
  ASSUME IInv, StopCancelsCalls
  PROVE  Spares
<1>1. PICK i : i = Head(op.queue)
  OBVIOUS
<1>2. /\ Stopping /\ call' = CancelCalls(object[i].plugin, op.stopGeneration)
      /\ task' = task
  BY <1>1 DEF StopCancelsCalls
<1>3. ASSUME NEW c \in Calls, Cancelled(call[c], call'[c]),
             Installed(call[c].object), call[c].generation = generation
      PROVE  FALSE
  <2>1. /\ call[c].phase = "running" /\ call[c].plugin = object[i].plugin
        /\ call[c].generation = op.stopGeneration
    BY <1>2, <1>3, CancelledCall
  <2>2. call[c].object \in Objects /\ object[call[c].object].plugin = call[c].plugin
    BY <2>1, WorkNow DEF Serves
  <2> QED BY <1>1, <1>2, <1>3, <2>1, <2>2, QueueSpares
<1> QED BY <1>2, <1>3 DEF Spares, Cancelled

\* The tasks cancelled for an instance of the queue are not those of an
\* installed one.
LEMMA QueuedTasksSpare ==
  ASSUME IInv, StopCancelsTasks
  PROVE  Spares
<1>1. PICK i : i = Head(op.queue)
  OBVIOUS
<1>2. /\ Stopping /\ call' = call
      /\ task' = CancelPluginGeneration(object[i].plugin, op.stopGeneration)
  BY <1>1 DEF StopCancelsTasks
<1>3. ASSUME NEW t \in Tasks, Cancelled(task[t], task'[t]),
             Installed(task[t].object), task[t].generation = generation
      PROVE  FALSE
  <2>1. /\ task[t].phase = "running" /\ task[t].plugin = object[i].plugin
        /\ task[t].generation = op.stopGeneration
    BY <1>2, <1>3, CancelledTask
  <2>2. task[t].object \in Objects /\ object[task[t].object].plugin = task[t].plugin
    BY <2>1, WorkNow DEF Serves
  <2> QED BY <1>1, <1>2, <1>3, <2>1, <2>2, QueueSpares
<1> QED BY <1>2, <1>3 DEF Spares, Cancelled

\* The tasks cancelled for a failed start are not those of an installed
\* instance.
LEMMA FailedStartSpares ==
  ASSUME IInv, StartFails
  PROVE  Spares
<1>1. /\ ~ Idle /\ op.phase = "start" /\ call' = call
      /\ task' = CancelPluginGeneration(Head(op.todo), op.generation)
  BY DEF StartFails
<1>2. ASSUME NEW t \in Tasks, Cancelled(task[t], task'[t]),
             Installed(task[t].object), task[t].generation = generation
      PROVE  FALSE
  <2>1. /\ task[t].phase = "running" /\ task[t].plugin = Head(op.todo)
        /\ task[t].generation = op.generation
    BY <1>1, <1>2, CancelledTask
  <2>2. task[t].object \in Objects /\ object[task[t].object].plugin = task[t].plugin
    BY <2>1, WorkNow DEF Serves
  <2> QED BY <1>1, <1>2, <2>1, <2>2, StartSpares
<1> QED BY <1>1, <1>2 DEF Spares, Cancelled

\* A task that starts cancels nothing.
LEMMA SpawnSpares ==
  ASSUME IInv, NEW t \in Tasks, NEW p, NEW g, NEW i, Spawn(t, p, g, i)
  PROVE  Spares
<1>1. /\ call' = call
      /\ task' = [task EXCEPT ![t] =
           [phase |-> "running", plugin |-> p, generation |-> g, object |-> i,
            cancelled |-> FALSE, late |-> Retiring(i)]]
  BY DEF Spawn
<1>2. task \in [Tasks -> WorkRecords]
  BY Basics
<1>3. ASSUME NEW u \in Tasks PROVE ~ Cancelled(task[u], task'[u])
  <2>1. CASE u = t
    <3>1. task'[u].cancelled = FALSE
      BY <1>1, <1>2, <2>1
    <3> QED BY <3>1 DEF Cancelled
  <2>2. CASE u # t
    <3>1. task'[u] = task[u]
      BY <1>1, <1>2, <2>2
    <3> QED BY <3>1 DEF Cancelled
  <2> QED BY <2>1, <2>2
<1> QED BY <1>1, <1>3, QuietSpares

\* The steps of calls and tasks cancel no work.
LEMMA WorkStepSpares ==
  ASSUME IInv, WorkStep
  PROVE  Spares
<1>1. call \in [Calls -> WorkRecords] /\ task \in [Tasks -> WorkRecords]
  BY Basics
<1>2. ASSUME NEW c \in Calls, NEW s \in subscriptions, CaptureListener(c, s)
      PROVE  Spares
  <2>1. /\ task' = task
        /\ call' = [call EXCEPT ![c] =
             [phase |-> "captured", plugin |-> s.plugin,
              generation |-> s.generation, object |-> s.object,
              cancelled |-> FALSE, late |-> FALSE]]
    BY <1>2 DEF CaptureListener
  <2>2. \A d \in Calls : ~ Cancelled(call[d], call'[d])
    BY <1>1, <2>1 DEF Cancelled
  <2> QED BY <2>1, <2>2, QuietSpares
<1>3. ASSUME NEW c \in Calls, BeginCall(c)
      PROVE  Spares
  <2>1. /\ task' = task
        /\ call' = [call EXCEPT ![c].phase = "running",
                                ![c].late = Retiring(call[c].object)]
    BY <1>3 DEF BeginCall
  <2>2. ASSUME NEW d \in Calls PROVE ~ Cancelled(call[d], call'[d])
    <3>1. call'[d].cancelled = call[d].cancelled
      BY <1>1, <2>1 DEF WorkRecords
    <3> QED BY <3>1 DEF Cancelled
  <2> QED BY <2>1, <2>2, QuietSpares
<1>4. ASSUME NEW c \in Calls, FinishCall(c)
      PROVE  Spares
  <2>1. PICK phase : phase = IF call[c].cancelled THEN "rejected" ELSE "accepted"
    OBVIOUS
  <2>2. task' = task /\ call' = [call EXCEPT ![c].phase = phase]
    BY <1>4, <2>1, Zenon DEF FinishCall
  <2>3. ASSUME NEW d \in Calls PROVE ~ Cancelled(call[d], call'[d])
    <3>1. call'[d].cancelled = call[d].cancelled
      BY <1>1, <2>2 DEF WorkRecords
    <3> QED BY <3>1 DEF Cancelled
  <2> QED BY <2>2, <2>3, QuietSpares
<1>5. ASSUME NEW t \in Tasks, EndTask(t)
      PROVE  Spares
  <2>1. call' = call /\ task' = [task EXCEPT ![t].phase = "ended"]
    BY <1>5 DEF EndTask
  <2>2. ASSUME NEW u \in Tasks PROVE ~ Cancelled(task[u], task'[u])
    <3>1. task'[u].cancelled = task[u].cancelled
      BY <1>1, <2>1 DEF WorkRecords
    <3> QED BY <3>1 DEF Cancelled
  <2> QED BY <2>1, <2>2, QuietSpares
<1>6. ASSUME NEW t \in Tasks,
             \/ \E p \in Plugins : InvokeSpawns(t, p) \/ HostSpawns(t, p)
             \/ \E c \in Calls : CallSpawns(t, c)
             \/ StartSpawns(t) \/ StopSpawns(t)
      PROVE  Spares
  BY <1>6, SpawnSpares
     DEF InvokeSpawns, HostSpawns, CallSpawns, StartSpawns, StopSpawns
<1> QED BY <1>2, <1>3, <1>4, <1>5, <1>6 DEF WorkStep

\* The beginning of an operation cancels no work, a stop's apart.
LEMMA RequestsSpare ==
  ASSUME IInv, Requests
  PROVE  Spares
<1>1. ASSUME NEW p \in Plugins, BeginStop(p)
      PROVE  Spares
  <2>1. stops' = stops + 1 /\ stops \in Nat
    BY <1>1, Basics, Constants DEF BeginStop
  <2>2. stops' # stops
    BY <2>1
  <2> QED BY <2>2 DEF Spares
<1>2. CASE BeginActivateAll
  BY <1>2, QuietSpares DEF BeginActivateAll, work
<1>3. ASSUME NEW g \in Generations,
             \/ ActivateResolvedHarness(g) \/ BeginReconcile(g)
             \/ ReconcilerActivates(g)
      PROVE  Spares
  <2>1. call' = call /\ task' = task
    BY <1>3 DEF ActivateResolvedHarness, BeginReconcile, ReconcilerActivates, work
  <2> QED BY <2>1, QuietSpares
<1> QED BY <1>1, <1>2, <1>3 DEF Requests

\* The later steps of an operation spare the work of retained instances.
LEMMA OperationStepSpares ==
  ASSUME IInv, OperationStep
  PROVE  Spares
<1>1. CASE StopCancelsCalls \/ StopCancelsTasks \/ StartFails
  BY <1>1, QueuedCallsSpare, QueuedTasksSpare, FailedStartSpares
<1>2. CASE StopTasks
  BY <1>2 DEF StopTasks, Spares
<1>3. ASSUME NEW ok \in BOOLEAN, StageGuest(ok) \/ BindListeners(ok) \/ StopReturns(ok)
      PROVE  Spares
  <2>1. call' = call /\ task' = task
    BY <1>3 DEF StageGuest, BindListeners, StopReturns, work
  <2> QED BY <2>1, QuietSpares
<1>4. CASE StageResourceOnly \/ StageEmbedded \/ StartSucceeds
  <2>1. call' = call /\ task' = task
    BY <1>4 DEF StageResourceOnly, StageEmbedded, StartSucceeds, work
  <2> QED BY <2>1, QuietSpares
<1>5. CASE CommitActivation \/ CommitReconciliation \/ StopInstance
  <2>1. call' = call /\ task' = task
    BY <1>5 DEF CommitActivation, CommitReconciliation, StopInstance, work
  <2> QED BY <2>1, QuietSpares
<1>6. CASE ReturnError \/ ReturnReconciled
  <2>1. call' = call /\ task' = task
    BY <1>6 DEF ReturnError, ReturnReconciled, work
  <2> QED BY <2>1, QuietSpares
<1> QED BY <1>1, <1>2, <1>3, <1>4, <1>5, <1>6 DEF OperationStep

\* No transition, failed or not, cancels what an instance that stays installed
\* has begun in the active generation: cancel_calls and
\* cancel_plugin_generation are called under keys that select nothing of it.
THEOREM RetainedWorkSpared == Spec => ActiveWorkSpared
<1>1. IInv /\ Next => Spares
  BY RequestsSpare, OperationStepSpares, WorkStepSpares DEF Next
<1>2. IInv /\ [Next]_vars => [Spares]_vars
  BY <1>1
<1>3. Spec => [][Spares]_vars
  BY <1>2, LifecycleInvariance, PTL DEF Spec
<1> QED BY <1>3, Zenon DEF ActiveWorkSpared, Spares
=============================================================================
