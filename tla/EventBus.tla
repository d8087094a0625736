------------------------------ MODULE EventBus ------------------------------
(***************************************************************************)
(* The kernel event bus of phenix-core (src/rust/crates/phenix-core/src/   *)
(* events.rs): bounded asynchronous admission of events, delivery by       *)
(* dependency level on a thread of its own, causal re-entry checks, and    *)
(* replacement of the subscription set while deliveries are in flight.     *)
(*                                                                         *)
(* A slot d of Delivery stands for one call of admit_in_generation and for *)
(* the delivery thread it starts.  pc[d] is where that call, and then that *)
(* thread, stands.  Every shared cell of the bus is read or written by a   *)
(* step of its own: the subscription lock, the in_flight counter (a load   *)
(* and then a compare-exchange), the causality lock, the atomic revision   *)
(* and the receipt.                                                        *)
(***************************************************************************)
EXTENDS Integers, FiniteSets

CONSTANTS
  Delivery,     \* slots for admissions and the deliveries they become
  Ids,          \* subscription ids
  Events,       \* event type and version pairs
  Capabilities, \* what an Authority is a set of
  Generations,  \* graph generations
  Batches,      \* the subscription sets callers hand to the bus
  Emissions,    \* what emitters outside a listener admit
  Capacity,     \* delivery_capacity
  MaxCause,     \* bound: causality ids are 1..MaxCause
  MaxRevision,  \* bound on subscription_revision
  None          \* no generation, no parent handler

Policies == {"ignore", "warn", "fail_delivery"}

\* SubscriptionSpec plus the generation a scoped listener is bound to
\* (None for a handler that is not scoped to a generation).
SubscriptionSpec ==
  [id : Ids, event : Events, dependencies : SUBSET Ids, policy : Policies,
   required : SUBSET Capabilities, maximum : SUBSET Capabilities,
   generation : Generations \cup {None}]

Causes == 1..MaxCause

ASSUME BusAssumption ==
  /\ Capacity \in Nat \ {0} /\ MaxCause \in Nat /\ MaxRevision \in Nat
  /\ IsFiniteSet(Delivery)
  /\ Batches \subseteq SUBSET SubscriptionSpec
  /\ Emissions \subseteq [event : Events, cause : Causes \cup {0},
                          authority : SUBSET Capabilities,
                          generation : Generations \cup {None}]
  /\ None \notin Generations /\ None \notin Delivery

VARIABLES
  subscriptions,  \* the installed set of SubscriptionSpecs
  revision,       \* subscription_revision
  active,         \* active_causality: cause -> ids whose handlers run
  inFlight,       \* in_flight
  nextRoot,       \* next_root_causality
  pc,             \* where each admission or delivery stands
  job,            \* what admission captured (PendingDelivery)
  seen,           \* the local `current` of reserve_delivery
  ancestry,       \* PendingDelivery.ancestry
  remaining,      \* ids of the levels not yet settled
  level,          \* ids of the level being delivered
  running,        \* ids of that level whose handler has not returned
  errs,           \* ids of that level whose handler returned an error
  report,         \* EventDispatchReport
  verdict,        \* what execute_delivery returned
  status,         \* the receipt
  staleLevels     \* history: levels begun after the subscription set changed

busVars == <<subscriptions, revision, active, inFlight, nextRoot>>
captureVars == <<job, ancestry>>
levelVars == <<remaining, level, running, errs, report, staleLevels>>
vars == <<busVars, pc, seen, captureVars, levelVars, verdict, status>>

\* parent and by name the delivery and the handler an emission comes from;
\* waits says that handler blocks on the receipt; lineage is history: the
\* handlers the event descends from within its causality id.
Jobs ==
  [event : Events, cause : Causes, authority : SUBSET Capabilities,
   generation : Generations \cup {None}, subs : SUBSET SubscriptionSpec,
   revision : 0..MaxRevision, parent : Delivery \cup {None},
   by : Ids \cup {None}, waits : BOOLEAN, lineage : SUBSET Ids]
NoJob == [cause |-> 0, parent |-> None]
EmptyReport == [delivered |-> {}, failures |-> {}, warnings |-> {}]

Terminal == {"succeeded", "reentry", "handler_failed", "cancelled"}
Admitting == {"reserving", "loaded", "reserved"}
InThread == {"head", "entering", "running", "judging", "finishing", "published"}
Holding == {"reserved"} \cup InThread
PcValues == {"free", "rejected", "done"} \cup Admitting \cup InThread

-----------------------------------------------------------------------------
(* Subscription sets *)

IdsOf(subs) == {s.id : s \in subs}
SpecOf(subs, i) == CHOOSE s \in subs : s.id = i
Matching(subs, e) == {s.id : s \in {x \in subs : x.event = e}}

\* Mutant of Ready: every remaining id at once, whatever it depends on.
ReadyAll(subs, ids) == ids

\* One pass of dependency_levels: the ids none of whose dependencies remain.
Ready(subs, ids) ==
  {i \in ids : SpecOf(subs, i).dependencies \cap ids = {}}

\* index_subscriptions: no id occurs twice in a batch.
Indexed(subs) == \A s, t \in subs : s.id = t.id => s = t

\* validate_dependencies: dependencies exist, concern the same event, and
\* dependency_levels never finds a nonempty remainder without a ready id.
ValidDependencies(subs) ==
  /\ \A s \in subs : \A i \in s.dependencies :
       i \in IdsOf(subs) /\ SpecOf(subs, i).event = s.event
  /\ \A ids \in SUBSET IdsOf(subs) : ids # {} => Ready(subs, ids) # {}

\* The tail the three updates share: install under the lock, bump the
\* revision.  A call that fails validation returns its error and leaves the
\* bus alone.
Install(subs) ==
  /\ ValidDependencies(subs)
  /\ revision < MaxRevision
  /\ subscriptions' = subs
  /\ revision' = revision + 1
  /\ UNCHANGED <<active, inFlight, nextRoot, pc, seen, captureVars, levelVars,
                 verdict, status>>

ReplaceSubscriptions(batch) ==
  Indexed(batch) /\ Install(batch)

InstallSubscriptions(batch) ==
  /\ Indexed(batch) /\ IdsOf(batch) \cap IdsOf(subscriptions) = {}
  /\ Install(subscriptions \cup batch)

RemoveSubscriptions(ids) ==
  Install({s \in subscriptions : s.id \notin ids})

-----------------------------------------------------------------------------
(* Admission *)

\* Causality id 0 asks admit_in_generation for the next root id.
Causality(c) == IF c = 0 THEN nextRoot + 1 ELSE c

Unauthorized(subs, e, authority) ==
  \E i \in Matching(subs, e) : ~ (SpecOf(subs, i).required \subseteq authority)

\* admit_in_generation up to its authority check: the subscriptions and the
\* revision are read together under the subscription lock.
Admit(d, m, parent, by, waits) ==
  /\ pc[d] = "free"
  /\ Causality(m.cause) \in Causes
  /\ nextRoot' = IF m.cause = 0 THEN nextRoot + 1 ELSE nextRoot
  /\ job' = [job EXCEPT ![d] =
       [event |-> m.event, cause |-> Causality(m.cause),
        authority |-> m.authority, generation |-> m.generation,
        subs |-> subscriptions, revision |-> revision,
        parent |-> parent, by |-> by, waits |-> waits,
        lineage |-> IF parent = None \/ m.cause # job[parent].cause THEN {}
                    ELSE job[parent].lineage \cup {by}]]
  /\ remaining' = [remaining EXCEPT ![d] = Matching(subscriptions, m.event)]
  /\ pc' = [pc EXCEPT ![d] =
              IF Unauthorized(subscriptions, m.event, m.authority)
              THEN "rejected" ELSE "reserving"]
  /\ UNCHANGED <<subscriptions, revision, active, inFlight, seen, ancestry,
                 level, running, errs, report, verdict, status, staleLevels>>

EmitterAdmits(d, m) == Admit(d, m, None, None, FALSE)

\* reserve_delivery keeps n as `current`: QueueSaturated at the capacity.
Current(d, n) ==
  /\ seen' = [seen EXCEPT ![d] = n]
  /\ pc' = [pc EXCEPT ![d] = IF n >= Capacity THEN "rejected" ELSE "loaded"]

ReserveLoad(d) ==
  /\ pc[d] = "reserving"
  /\ Current(d, inFlight)
  /\ UNCHANGED <<busVars, captureVars, levelVars, verdict, status>>

\* Mutant of ReserveExchange: a plain store of the value loaded plus one.
ReserveStore(d) ==
  /\ pc[d] = "loaded"
  /\ inFlight' = seen[d] + 1
  /\ pc' = [pc EXCEPT ![d] = "reserved"]
  /\ UNCHANGED <<subscriptions, revision, active, nextRoot, seen, captureVars,
                 levelVars, verdict, status>>

\* The compare-exchange; when it fails the loop goes on with the actual value.
ReserveExchange(d) ==
  /\ pc[d] = "loaded"
  /\ \/ /\ inFlight = seen[d]
        /\ inFlight' = seen[d] + 1
        /\ pc' = [pc EXCEPT ![d] = "reserved"]
        /\ UNCHANGED seen
     \/ /\ inFlight # seen[d]
        /\ Current(d, inFlight)
        /\ UNCHANGED inFlight
  /\ UNCHANGED <<subscriptions, revision, active, nextRoot, captureVars,
                 levelVars, verdict, status>>

\* The ancestry is what runs for this cause now; then the thread is spawned.
AdmitSpawn(d) ==
  /\ pc[d] = "reserved"
  /\ ancestry' = [ancestry EXCEPT ![d] = active[job[d].cause]]
  /\ status' = [status EXCEPT ![d] = "accepted"]
  /\ pc' = [pc EXCEPT ![d] = "head"]
  /\ UNCHANGED <<busVars, seen, job, levelVars, verdict>>

\* The thread cannot be spawned: QueueUnavailable, and the slot is given back.
AdmitSpawnFails(d) ==
  /\ pc[d] = "reserved"
  /\ inFlight' = inFlight - 1
  /\ pc' = [pc EXCEPT ![d] = "rejected"]
  /\ UNCHANGED <<subscriptions, revision, active, nextRoot, seen, captureVars,
                 levelVars, verdict, status>>

-----------------------------------------------------------------------------
(* Delivery: execute_delivery *)

Return(d, outcome) ==
  /\ pc' = [pc EXCEPT ![d] = "finishing"]
  /\ verdict' = [verdict EXCEPT ![d] = outcome]

Stale(d) == revision # job[d].revision

\* The head of the level loop, up to the revision check.
DeliveryHead(d) ==
  /\ pc[d] = "head"
  /\ \/ remaining[d] = {} /\ Return(d, "succeeded")
     \/ remaining[d] # {} /\ Stale(d) /\ Return(d, "cancelled")
     \/ /\ remaining[d] # {} /\ ~ Stale(d)
        /\ pc' = [pc EXCEPT ![d] = "entering"]
        /\ UNCHANGED verdict
  /\ UNCHANGED <<busVars, seen, captureVars, levelVars, status>>

\* Mutant of DeliveryEnter: the ancestry is checked, what runs now is not.
DeliveryEnterUnchecked(d) ==
  LET next == Ready(job[d].subs, remaining[d])
      c == job[d].cause
  IN
  /\ pc[d] = "entering"
  /\ next \cap ancestry[d] = {}
  /\ active' = [active EXCEPT ![c] = @ \cup next]
  /\ level' = [level EXCEPT ![d] = next]
  /\ running' = [running EXCEPT ![d] = next]
  /\ errs' = [errs EXCEPT ![d] = {}]
  /\ pc' = [pc EXCEPT ![d] = "running"]
  /\ UNCHANGED <<subscriptions, revision, inFlight, nextRoot, seen, verdict,
                 captureVars, remaining, report, status, staleLevels>>

\* The ancestry check and enter_causality, which inserts all of the level or
\* nothing under the causality lock; then the handlers start.
DeliveryEnter(d) ==
  LET next == Ready(job[d].subs, remaining[d])
      c == job[d].cause
  IN
  /\ pc[d] = "entering"
  /\ \/ /\ next \cap (ancestry[d] \cup active[c]) # {}
        /\ Return(d, "reentry")
        /\ UNCHANGED <<active, level, running, errs, staleLevels>>
     \/ /\ next \cap (ancestry[d] \cup active[c]) = {}
        /\ active' = [active EXCEPT ![c] = @ \cup next]
        /\ level' = [level EXCEPT ![d] = next]
        /\ running' = [running EXCEPT ![d] = next]
        /\ errs' = [errs EXCEPT ![d] = {}]
        /\ staleLevels' = [staleLevels EXCEPT ![d] =
                             IF Stale(d) THEN @ + 1 ELSE @]
        /\ pc' = [pc EXCEPT ![d] = "running"]
        /\ UNCHANGED verdict
  /\ UNCHANGED <<subscriptions, revision, inFlight, nextRoot, seen,
                 captureVars, remaining, report, status>>

\* handle_with_provenance refuses a delivery of another generation.
GenerationMismatch(d, i) ==
  LET g == SpecOf(job[d].subs, i).generation
  IN job[d].generation # None /\ g # None /\ job[d].generation # g

\* Mutant of Occupied: the waiter is never notified.
OccupiedForever(d, i) ==
  \E c \in Delivery :
    /\ job[c].parent = d /\ job[c].by = i
    /\ pc[c] \in Admitting \/ (job[c].waits /\ pc[c] # "rejected")

\* The handler i of d is inside admit, or waits for a receipt.
Occupied(d, i) ==
  \E c \in Delivery :
    /\ job[c].parent = d /\ job[c].by = i
    /\ \/ pc[c] \in Admitting
       \/ job[c].waits /\ pc[c] \in InThread \ {"published"}

\* A handler emits under any causality id, that of its event or another, or a
\* new root, with at most the authority it was given and in the generation it
\* is scoped to.
HandlerEmit(d, i, child, e, c, waits) ==
  LET s == SpecOf(job[d].subs, i) IN
  /\ pc[d] = "running" /\ i \in running[d]
  /\ ~ GenerationMismatch(d, i) /\ ~ Occupied(d, i)
  /\ Admit(child,
           [event |-> e, cause |-> c,
            authority |-> job[d].authority \cap s.maximum,
            generation |-> s.generation],
           d, i, waits)

HandlerReturn(d, i, ok) ==
  /\ pc[d] = "running" /\ i \in running[d]
  /\ ~ Occupied(d, i)
  /\ ok => ~ GenerationMismatch(d, i)
  /\ running' = [running EXCEPT ![d] = @ \ {i}]
  /\ errs' = [errs EXCEPT ![d] = IF ok THEN @ ELSE @ \cup {i}]
  /\ UNCHANGED <<busVars, pc, seen, captureVars, remaining, level, report,
                 staleLevels, verdict, status>>

\* leave_causality, once every handler of the level has been joined.
DeliveryLeave(d) ==
  /\ pc[d] = "running" /\ running[d] = {}
  /\ active' = [active EXCEPT ![job[d].cause] = @ \ level[d]]
  /\ pc' = [pc EXCEPT ![d] = "judging"]
  /\ UNCHANGED <<subscriptions, revision, inFlight, nextRoot, seen,
                 captureVars, levelVars, verdict, status>>

Failing(d, policy) ==
  {i \in errs[d] : SpecOf(job[d].subs, i).policy = policy}

Settle(d) ==
  /\ report' = [report EXCEPT ![d] =
       [delivered |-> @.delivered \cup (level[d] \ errs[d]),
        failures |-> @.failures \cup errs[d],
        warnings |-> @.warnings \cup Failing(d, "warn")]]
  /\ remaining' = [remaining EXCEPT ![d] = @ \ level[d]]
  /\ pc' = [pc EXCEPT ![d] = "head"]
  /\ UNCHANGED verdict

\* Mutants of DeliveryJudge: no revision check, and FailDelivery ignored.
DeliveryJudgeStale(d) ==
  /\ pc[d] = "judging"
  /\ \/ /\ Failing(d, "fail_delivery") # {}
        /\ Return(d, "handler_failed")
        /\ UNCHANGED <<remaining, report>>
     \/ Failing(d, "fail_delivery") = {} /\ Settle(d)
  /\ UNCHANGED <<busVars, seen, captureVars, level, running, errs,
                 staleLevels, status>>

DeliveryJudgeLenient(d) ==
  /\ pc[d] = "judging"
  /\ \/ /\ Stale(d)
        /\ Return(d, "cancelled")
        /\ UNCHANGED <<remaining, report>>
     \/ ~ Stale(d) /\ Settle(d)
  /\ UNCHANGED <<busVars, seen, captureVars, level, running, errs,
                 staleLevels, status>>

\* The revision check after the level, and the settling of its results.
DeliveryJudge(d) ==
  /\ pc[d] = "judging"
  /\ \/ /\ Stale(d)
        /\ Return(d, "cancelled")
        /\ UNCHANGED <<remaining, report>>
     \/ /\ ~ Stale(d) /\ Failing(d, "fail_delivery") # {}
        /\ Return(d, "handler_failed")
        /\ UNCHANGED <<remaining, report>>
     \/ ~ Stale(d) /\ Failing(d, "fail_delivery") = {} /\ Settle(d)
  /\ UNCHANGED <<busVars, seen, captureVars, level, running, errs,
                 staleLevels, status>>

\* The closure the delivery thread runs: publish the status and notify, then
\* give the slot back.
PublishStatus(d) ==
  /\ pc[d] = "finishing"
  /\ status' = [status EXCEPT ![d] = verdict[d]]
  /\ pc' = [pc EXCEPT ![d] = "published"]
  /\ UNCHANGED <<busVars, seen, captureVars, levelVars, verdict>>

ReleaseSlot(d) ==
  /\ pc[d] = "published"
  /\ inFlight' = inFlight - 1
  /\ pc' = [pc EXCEPT ![d] = "done"]
  /\ UNCHANGED <<subscriptions, revision, active, nextRoot, seen, captureVars,
                 levelVars, verdict, status>>

-----------------------------------------------------------------------------
Init ==
  /\ subscriptions = {} /\ revision = 0 /\ inFlight = 0 /\ nextRoot = 0
  /\ active = [c \in Causes |-> {}]
  /\ pc = [d \in Delivery |-> "free"]
  /\ job = [d \in Delivery |-> NoJob]
  /\ seen = [d \in Delivery |-> 0]
  /\ ancestry = [d \in Delivery |-> {}]
  /\ remaining = [d \in Delivery |-> {}]
  /\ level = [d \in Delivery |-> {}]
  /\ running = [d \in Delivery |-> {}]
  /\ errs = [d \in Delivery |-> {}]
  /\ report = [d \in Delivery |-> EmptyReport]
  /\ verdict = [d \in Delivery |-> "none"]
  /\ status = [d \in Delivery |-> "none"]
  /\ staleLevels = [d \in Delivery |-> 0]

\* The steps of the thread of d that no handler takes.
ThreadStep(d) ==
  \/ DeliveryHead(d) \/ DeliveryEnter(d) \/ DeliveryLeave(d)
  \/ DeliveryJudge(d) \/ PublishStatus(d) \/ ReleaseSlot(d)

AdmissionStep(d) ==
  ReserveLoad(d) \/ ReserveExchange(d) \/ AdmitSpawn(d) \/ AdmitSpawnFails(d)

HandlerEmits(d) ==
  \E i \in running[d], child \in Delivery, e \in Events, waits \in BOOLEAN :
    \E c \in Causes \cup {0} : HandlerEmit(d, i, child, e, c, waits)

HandlerReturns(d) ==
  \E i \in running[d], ok \in BOOLEAN : HandlerReturn(d, i, ok)

Next ==
  \/ \E batch \in Batches :
       ReplaceSubscriptions(batch) \/ InstallSubscriptions(batch)
  \/ \E batch \in Batches : RemoveSubscriptions(IdsOf(batch))
  \/ \E d \in Delivery, m \in Emissions : EmitterAdmits(d, m)
  \/ \E d \in Delivery :
       \/ AdmissionStep(d) \/ ThreadStep(d)
       \/ HandlerEmits(d) \/ HandlerReturns(d)

Spec == Init /\ [][Next]_vars

\* Threads are scheduled; a handler returns once nothing holds it.
FairSpec ==
  /\ Spec
  /\ \A d \in Delivery : /\ WF_vars(AdmissionStep(d))
                         /\ WF_vars(ThreadStep(d))
                         /\ WF_vars(HandlerReturns(d))
-----------------------------------------------------------------------------
(* Properties *)

\* Every variable stays in its type: counters within their bounds, captured
\* jobs well formed from admission on.
TypeOK ==
  /\ subscriptions \in SUBSET SubscriptionSpec
  /\ revision \in 0..MaxRevision
  /\ active \in [Causes -> SUBSET Ids]
  /\ inFlight \in Nat
  /\ nextRoot \in 0..MaxCause
  /\ pc \in [Delivery -> PcValues]
  /\ job \in [Delivery -> Jobs \cup {NoJob}]
  /\ \A d \in Delivery : pc[d] # "free" => job[d] \in Jobs
  /\ seen \in [Delivery -> Int]
  /\ ancestry \in [Delivery -> SUBSET Ids]
  /\ remaining \in [Delivery -> SUBSET Ids]
  /\ level \in [Delivery -> SUBSET Ids]
  /\ running \in [Delivery -> SUBSET Ids]
  /\ errs \in [Delivery -> SUBSET Ids]
  /\ report \in [Delivery -> [delivered : SUBSET Ids, failures : SUBSET Ids,
                              warnings : SUBSET Ids]]
  /\ verdict \in [Delivery -> Terminal \cup {"none"}]
  /\ status \in [Delivery -> Terminal \cup {"none", "accepted"}]
  /\ staleLevels \in [Delivery -> Nat]

Held == {d \in Delivery : pc[d] \in Holding}

\* in_flight is exactly the number of deliveries that hold a reservation, on
\* every interleaving of the load and the compare-exchange of reserve_delivery
\* with spawns that fail and threads that finish; it never passes the capacity.
InFlightAccounting ==
  /\ inFlight = Cardinality(Held)
  /\ inFlight <= Capacity

Running(c) == {d \in Delivery : pc[d] = "running" /\ job[d].cause = c}

\* active_causality holds, for each causality id, exactly the levels being
\* delivered, and two deliveries of one cause never run the same subscription
\* at once: enter_causality and leave_causality lose and leak nothing.
CausalExclusion ==
  \A c \in Causes :
    /\ active[c] = UNION {level[d] : d \in Running(c)}
    /\ \A d1, d2 \in Running(c) : d1 # d2 => level[d1] \cap level[d2] = {}

\* A handler starts only after every subscription it depends on has settled in
\* the same delivery: the levels of execute_delivery respect the dependencies.
DependencyOrder ==
  \A d \in Delivery : \A i \in running[d] :
    SpecOf(job[d].subs, i).dependencies
      \subseteq report[d].delivered \cup report[d].failures

\* A receipt that says Succeeded accounts for every subscription matched at
\* admission exactly once, with no failure that must fail the delivery and a
\* warning for each one whose policy is to warn.
SucceededMeansSettled ==
  \A d \in Delivery : status[d] = "succeeded" =>
    LET r == report[d]
        policyOf(i) == SpecOf(job[d].subs, i).policy
    IN /\ r.delivered \cup r.failures = Matching(job[d].subs, job[d].event)
       /\ r.delivered \cap r.failures = {}
       /\ \A i \in r.failures : policyOf(i) # "fail_delivery"
       /\ r.warnings = {i \in r.failures : policyOf(i) = "warn"}

\* When the subscription set changes under a delivery, at most one level begun
\* from the old set still runs, and the delivery is reported as cancelled: the
\* two revision checks of execute_delivery around each level.
StaleDeliveryStops ==
  \A d \in Delivery :
    /\ staleLevels[d] <= 1
    /\ staleLevels[d] = 1 /\ pc[d] \in {"finishing", "published", "done"}
         => verdict[d] = "cancelled"

\* Every admission is answered and every accepted delivery ends with its slot
\* given back, also when its handlers wait on the deliveries they started.
AdmissionsEnd ==
  \A d \in Delivery :
    (pc[d] = "reserving") ~> (pc[d] \in {"rejected", "done"})

\* spec/plugin-events.md: "Same-subscription causal re-entry fails instead of
\* creating deferred recursion."  The code keeps as ancestry only the handlers
\* running at admission, so this does not hold of it.
NoCausalRecursion ==
  \A d \in Delivery : level[d] # {} => level[d] \cap job[d].lineage = {}

\* spec/plugin-events.md: "A subscription revision change cancels an old
\* delivery before its next dependency level".  The revision check and the
\* start of the handlers are not one step, so this does not hold of the code.
NoStaleHandlerStarts == \A d \in Delivery : staleLevels[d] = 0
=============================================================================
