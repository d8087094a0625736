-------------------------------- MODULE Steps --------------------------------
(***************************************************************************)
(* Planned model attempts: the step runner (phenix-plugin-step-runner) and *)
(* the services of the execution plugin it drives (attempts, resources,    *)
(* step transactions), with the budget ledger they share.                  *)
(*                                                                         *)
(* A runner is the step-runner instance of one graph generation.  The      *)
(* instance mutex makes it run one invocation at a time, and the calls it  *)
(* makes reach the execution instance of its own generation, so the calls  *)
(* of one runner follow each other; the generations of a live              *)
(* reconciliation overlap, and then two runners read and write the same    *)
(* durable records.  (Calls of clients are serialised by the harness lock; *)
(* what overlaps are calls from listeners, whose snapshot keeps the        *)
(* instances of an older generation, and only those can be cancelled.)     *)
(* A service call therefore is two steps here: it reads the owners'        *)
(* records (Read) and later commits what it made of them under AssertValue *)
(* (a compare-and-set on the bytes it read) or fails.                      *)
(*                                                                         *)
(* One root budget is modelled: the budgets of different roots are         *)
(* separate entries of one record.  Input and output tokens are planned,   *)
(* fitted, subtracted and settled by the same formulas, so one amount,     *)
(* tokens, stands for both (a request without a reducible part).  Helper,  *)
(* Verification and RecoveryClassifier attempts take the same branches:    *)
(* "helper" stands for them.                                               *)
(***************************************************************************)
EXTENDS BudgetLedger, FiniteSets

CONSTANTS
    Runners,      \* the step-runner instances that overlap
    MaxAttempts,  \* bound on the attempt identities
    DirectIds,    \* identities a caller of the step-runner service names itself
    Tasks,        \* delegated tasks
    DependsOn,    \* DependsOn[t]: the tasks t depends on
    MaxChildren,  \* DelegationResourcePolicy.max_children
    Shares,       \* the budgets a delegation may ask for
    Usages,       \* the usages a delegated worker may report
    Demands,      \* what a step needs: task demand and usage policy
    MaxRetries,   \* UsagePolicy.max_retries
    MaxFaults     \* bound on cancellations and crashes

Ids == 1 .. MaxAttempts
Keys == Ids \cup Tasks

\* RootBudgetLimits, BudgetReservationRequest and BudgetActual: unsigned amounts.
Budgets == [tokens : Nat, attempts : Nat, cost : Nat \cup {NoCost}]

ASSUME MaxAttemptsAssumption == MaxAttempts \in Nat
ASSUME KeysAssumption ==
    /\ Tasks \cap Nat = {}
    /\ None \notin Keys
ASSUME DirectAssumption == DirectIds \subseteq Ids
ASSUME TasksAssumption ==
    /\ IsFiniteSet(Tasks)
    /\ \A t \in Tasks : DependsOn[t] \subseteq Tasks
ASSUME AmountsAssumption ==
    /\ Limit \in Budgets
    /\ Shares \subseteq Budgets
    /\ Usages \subseteq Budgets
    /\ Demands \subseteq [mandatory : Nat, reducible : Nat, max : Nat,
                         cost : Nat \cup {NoCost}]
ASSUME RetriesAssumption == MaxRetries \in Nat

VARIABLES
    attempts,    \* AttemptLedger: next sequence and the attempt records
    resources,   \* ExecutionResourceState: the ledger and the delegated tasks
    run,         \* what each runner is doing
    calls,       \* how often an attempt has called the model
    lost,        \* attempts one of whose calls was cancelled, crashed or
                 \* failed where nothing can undo what came before
    faults

vars == <<attempts, resources, run, calls, lost, faults>>

Kinds == {"root", "retry", "helper"}
Phases == {"absent", "planned", "reserved", "routed", "admitted",
           "dispatched", "settled"}
Outcomes == {"none", "succeeded", "failed"}

NoBudget == [tokens |-> 0, attempts |-> 0, cost |-> NoCost]
NoAttempt == [phase |-> "absent", kind |-> "root", parent |-> None,
              bound |-> FALSE, outcome |-> "none"]
NoReservation == [state |-> "absent", parent |-> None,
                  asked |-> NoBudget, actual |-> NoBudget]

Idle == [pc |-> "idle", id |-> None, kind |-> "root", parent |-> None,
         demand |-> None, within |-> None, ask |-> NoBudget,
         names |-> FALSE, outcome |-> "none", inflight |-> FALSE,
         seen |-> [attempts |-> None, resources |-> None]]

Init ==
    /\ attempts = [next |-> 0, at |-> [a \in Ids |-> NoAttempt]]
    /\ resources = [ledger |-> [k \in Keys |-> NoReservation],
                    task |-> [t \in Tasks |-> "absent"]]
    /\ run = [r \in Runners |-> Idle]
    /\ calls = [a \in Ids |-> 0]
    /\ lost = {}
    /\ faults = 0

-----------------------------------------------------------------------------
(* The records of the attempts.                                            *)

\* The attempt and its ancestors, as validate_retry_lineage walks them.
Lineage(at, a) ==
    LET up[n \in 0 .. MaxAttempts] ==
            IF n = 0 THEN a
            ELSE IF up[n - 1] = None THEN None ELSE at[up[n - 1]].parent
    IN  {up[n] : n \in 0 .. MaxAttempts} \ {None}


\* Mutant: a retry may follow any settled attempt.
ParentAllowedAnyOutcome(at, kind, parent) ==
    /\ (kind = "root") <=> (parent = None)
    /\ (parent # None) => (at[parent].phase # "absent")
    /\ (kind = "retry") => (at[parent].phase = "settled")

\* validate_parent_shape and validate_parent.
ParentAllowed(at, kind, parent) ==
    /\ (kind = "root") <=> (parent = None)
    /\ (parent # None) => (at[parent].phase # "absent")
    /\ (kind = "retry") => /\ at[parent].phase = "settled"
                           /\ at[parent].outcome # "succeeded"

Unused(led) == {a \in Ids : a > led.next /\ led.at[a].phase = "absent"}

CanAllocate(led, kind, parent) ==
    /\ ParentAllowed(led.at, kind, parent)
    /\ Unused(led) # {}

CanCreate(led, a, kind, parent) ==
    /\ led.at[a].phase = "absent"
    /\ parent # a
    /\ ParentAllowed(led.at, kind, parent)


\* Mutant: a dispatched attempt may be aborted.
CanAbortDispatched(at, a) == at[a].phase \notin {"absent", "settled"}

CanAbort(at, a) == at[a].phase \notin {"absent", "dispatched", "settled"}

Created(led, a, kind, parent) ==
    [led EXCEPT !.at[a] = [NoAttempt EXCEPT !.phase = "planned",
                                            !.kind = kind, !.parent = parent]]
Closed(led, a, outcome) ==
    [led EXCEPT !.at[a].phase = "settled", !.at[a].outcome = outcome]

\* The phase a binding requires and the one it leaves.
Before == [bind |-> "planned", route |-> "reserved",
           project |-> "routed", dispatch |-> "admitted"]
After == [bind |-> "reserved", route |-> "routed",
          project |-> "admitted", dispatch |-> "dispatched"]
Binding == DOMAIN Before

Bound(led, a, pc) ==
    [led EXCEPT !.at[a].phase = After[pc],
                !.at[a].bound = IF pc = "bind" THEN TRUE ELSE @]

-----------------------------------------------------------------------------
(* Delegated tasks: DelegatedTaskStore and the admission that pays for it. *)

\* The code takes a task's first state from the record that the caller gives,
\* unchecked; here every task is admitted pending.
CanAdmit(res, t, parent, asked) ==
    /\ res.task[t] = "absent"
    /\ Cardinality({u \in Tasks : res.task[u] # "absent"}) < MaxChildren
    /\ CanReserve(res.ledger, t, parent, asked)

\* Mutant: a task need not wait for a dependency that has failed.
RunnableAfterFailure(res, t) ==
    /\ res.task[t] = "pending"
    /\ \A d \in DependsOn[t] : res.task[d] \in {"completed", "failed"}

Runnable(res, t) ==
    /\ res.task[t] = "pending"
    /\ \A d \in DependsOn[t] : res.task[d] = "completed"

CanFinish(res, t, actual) ==
    /\ res.task[t] = "running"
    /\ CanSettle(res.ledger, t, actual)

-----------------------------------------------------------------------------
(* A service call.                                                         *)

AttemptCalls == {"allocate", "create", "settle", "abort"} \cup Binding
ResourceCalls == {"reserve", "settle", "admit", "start", "finish"}

UsesAttempts(s) == s.pc \in AttemptCalls

UsesResources(s) == s.pc \in ResourceCalls \/ (s.pc = "abort" /\ s.names)

\* The call decodes the owners' records.
Read(r) ==
    LET s == run[r] IN
    /\ s.pc \in AttemptCalls \cup ResourceCalls
    /\ ~s.inflight
    /\ run' = [run EXCEPT ![r] = [s EXCEPT
                  !.inflight = TRUE,
                  !.seen =
                    [attempts  |-> IF UsesAttempts(s) THEN attempts ELSE None,
                     resources |-> IF UsesResources(s) THEN resources ELSE None]]]
    /\ UNCHANGED <<attempts, resources, calls, lost, faults>>


\* Mutant: the resource ledger is replaced without asserting its old value.
UnmovedAttempts(s) == UsesAttempts(s) => (s.seen.attempts = attempts)

\* AssertValue on every record the call is about to replace.
Unmoved(s) ==
    /\ UsesAttempts(s) => (s.seen.attempts = attempts)
    /\ UsesResources(s) => (s.seen.resources = resources)

\* The mutation the call makes of what it read is legal.  The calls are those
\* of the step runner and of delegation: nobody settles or releases a
\* reservation, or settles an attempt, by itself.
Accepts(s) ==
    LET led == s.seen.attempts
        res == s.seen.resources
    IN  \/ s.pc = "allocate" /\ CanAllocate(led, s.kind, s.parent)
        \/ s.pc = "create" /\ CanCreate(led, s.id, s.kind, s.parent)
        \/ s.pc = "reserve" /\ CanReserve(res.ledger, s.id, s.within, s.ask)
        \/ s.pc \in Binding /\ led.at[s.id].phase = Before[s.pc]
        \/ /\ s.pc = "settle"
           /\ led.at[s.id].phase = "dispatched"
           /\ CanSettle(res.ledger, s.id, s.ask)
        \/ /\ s.pc = "abort"
           /\ CanAbort(led.at, s.id)
           /\ s.names => CanRelease(res.ledger, s.id)
        \/ s.pc = "admit" /\ CanAdmit(res, s.id, s.within, s.ask)
        \/ s.pc = "start" /\ Runnable(res, s.id)
        \/ s.pc = "finish" /\ CanFinish(res, s.id, s.ask)

\* The first identity above the sequence that no attempt has.
NewId(led) == CHOOSE a \in Unused(led) : \A b \in Unused(led) : a <= b

WriteAttempts(s) ==
    LET led == s.seen.attempts IN
    \/ /\ s.pc = "allocate"
       /\ attempts' = [led EXCEPT !.next = NewId(led)]
    \/ /\ s.pc = "create"
       /\ attempts' = Created(led, s.id, s.kind, s.parent)
    \/ /\ s.pc \in Binding
       /\ attempts' = Bound(led, s.id, s.pc)
    \/ /\ s.pc \in {"settle", "abort"}
       /\ attempts' = Closed(led, s.id, s.outcome)
    \/ ~UsesAttempts(s) /\ UNCHANGED attempts

WriteResources(s) ==
    LET res == s.seen.resources IN
    \/ /\ s.pc = "reserve"
       /\ resources' = [res EXCEPT !.ledger = Reserved(@, s.id, s.within, s.ask)]
    \/ /\ s.pc = "settle"
       /\ resources' = [res EXCEPT !.ledger = Settled(@, s.id, s.ask)]
    \/ /\ s.pc = "abort" /\ s.names
       /\ resources' = [res EXCEPT !.ledger = Released(@, s.id)]
    \/ /\ s.pc = "admit"
       /\ resources' = [res EXCEPT !.ledger = Reserved(@, s.id, s.within, s.ask),
                                   !.task[s.id] = "pending"]
    \/ /\ s.pc = "start"
       /\ resources' = [res EXCEPT !.task[s.id] = "running"]
    \/ /\ s.pc = "finish"
       /\ resources' = [res EXCEPT !.ledger = Settled(@, s.id, s.ask),
                                   !.task[s.id] = s.outcome]
    \/ ~UsesResources(s) /\ UNCHANGED resources

\* One transaction over every record the call replaces.
Commits(s) ==
    /\ s.inflight
    /\ Accepts(s)
    /\ Unmoved(s)
    /\ WriteAttempts(s)
    /\ WriteResources(s)

Follows == [allocate |-> "plan", create |-> "reserve", reserve |-> "bind",
            bind |-> "route", route |-> "project", project |-> "dispatch",
            dispatch |-> "model"]


Answered(s) ==
    IF s.pc \in DOMAIN Follows
      THEN [s EXCEPT !.pc = Follows[s.pc],
                     !.id = IF s.pc = "allocate"
                              THEN NewId(s.seen.attempts) ELSE @,
                     !.inflight = FALSE,
                     !.seen = Idle.seen]
      ELSE Idle


\* Mutant: a failed stage does not name the reservation.
FailedUnnamed(s) ==
    IF s.pc \in {"reserve"} \cup Binding
      THEN [s EXCEPT !.pc = "abort", !.names = s.pc = "bind",
                     !.outcome = "failed", !.inflight = FALSE,
                     !.seen = Idle.seen]
      ELSE Idle

\* Mutant: a failed stage returns its error without aborting the attempt.
FailedWithoutAbort(s) ==
    IF s.pc \in {"reserve"} \cup (Binding \ {"route"})
      THEN [s EXCEPT !.pc = "abort", !.names = s.pc # "reserve",
                     !.outcome = "failed", !.inflight = FALSE,
                     !.seen = Idle.seen]
      ELSE Idle

\* A failed reservation is aborted without naming it, a later failure names
\* it; what fails before the attempt exists, and a failed settlement or
\* abort, is returned to the caller as it is.
Failed(s) ==
    IF s.pc \in {"reserve"} \cup Binding
      THEN [s EXCEPT !.pc = "abort",
                     !.names = s.pc # "reserve",
                     !.outcome = "failed",
                     !.inflight = FALSE,
                     !.seen = Idle.seen]
      ELSE Idle

\* The attempts whose call s was the last chance to close.
Orphans(s) == IF s.pc \in {"settle", "abort"} THEN {s.id} ELSE {}
\* The attempts of which the caller does not learn that s changed them.
Unheard(s) == IF s.pc \in {"create", "reserve"} THEN {s.id} ELSE {}

CallSucceeds(r) ==
    /\ Commits(run[r])
    /\ run' = [run EXCEPT ![r] = Answered(@)]
    /\ UNCHANGED <<calls, lost, faults>>

\* The mutation is illegal, or another generation has replaced a record.
CallFails(r) ==
    LET s == run[r] IN
    /\ s.inflight
    /\ ~(Accepts(s) /\ Unmoved(s))
    /\ run' = [run EXCEPT ![r] = Failed(@)]
    /\ lost' = lost \cup Orphans(s)
    /\ UNCHANGED <<attempts, resources, calls, faults>>

\* The generation is retired while the call is in flight: the call's own
\* token is cancelled, and the transaction is refused ...
CallCancelled(r) ==
    LET s == run[r] IN
    /\ s.inflight
    /\ faults < MaxFaults
    /\ faults' = faults + 1
    /\ run' = [run EXCEPT ![r] = Failed(@)]
    /\ lost' = lost \cup Orphans(s)
    /\ UNCHANGED <<attempts, resources, calls>>

\* ... or it was committed before and only its answer is replaced by an error.
AnswerCancelled(r) ==
    LET s == run[r] IN
    /\ Commits(s)
    /\ faults < MaxFaults
    /\ faults' = faults + 1
    /\ run' = [run EXCEPT ![r] = Failed(@)]
    /\ lost' = lost \cup Unheard(s)
    /\ UNCHANGED calls

-----------------------------------------------------------------------------
(* The runner.                                                             *)

\* An invocation: the attempt gets an identity of its own.
Invoke(r, kind, parent, demand) ==
    /\ run[r] = Idle
    /\ Unused(attempts) # {}
    /\ run' = [run EXCEPT ![r] = [Idle EXCEPT !.pc = "allocate", !.kind = kind,
                                  !.parent = parent, !.demand = demand]]
    /\ UNCHANGED <<attempts, resources, calls, lost, faults>>

\* A planned step whose caller names the attempt.
RunNamed(r, a, kind, parent, demand) ==
    /\ run[r] = Idle
    /\ run' = [run EXCEPT ![r] = [Idle EXCEPT !.pc = "plan", !.id = a,
                                  !.kind = kind, !.parent = parent,
                                  !.demand = demand]]
    /\ UNCHANGED <<attempts, resources, calls, lost, faults>>

\* helper_parent_reservation: a helper is paid by its parent attempt.
Payer(s) == IF s.kind = "helper" THEN s.parent ELSE None

\* validate_retry_lineage.
LineageAllowed(s) ==
    (s.kind = "retry") =>
        LET line == Lineage(attempts.at, s.parent) IN
        /\ \A a \in line : /\ attempts.at[a].phase # "absent"
                           /\ attempts.at[a].kind # "helper"
        /\ Cardinality(line) <= MaxRetries

\* The reads and checks before the attempt is created.
Plan(r) ==
    LET s == run[r]
        left == Remaining(resources.ledger, Payer(s))
    IN
    /\ s.pc = "plan"
    /\ (s.kind = "helper") => (s.parent # None /\ attempts.at[s.parent].bound)
    /\ Plannable(s.demand, left)
    /\ LineageAllowed(s)
    /\ run' = [run EXCEPT ![r] = [s EXCEPT !.pc = "create", !.demand = None,
                                           !.within = Payer(s),
                                           !.ask = Planned(s.demand, left)]]
    /\ UNCHANGED <<attempts, resources, calls, lost, faults>>

\* A plan that is not made (the checks of Plan, or one of those on the
\* execution, the policy revision, the deadline and the tools).
PlanRefused(r) ==
    /\ run[r].pc = "plan"
    /\ run' = [run EXCEPT ![r] = Idle]
    /\ UNCHANGED <<attempts, resources, calls, lost, faults>>

\* Routing, context admission and materialisation, and dispatch preflight
\* come before the binding that records them; a helper has no context.
StageFails(r) ==
    LET s == run[r] IN
    /\ s.pc \in {"route", "project", "dispatch"}
    /\ ~s.inflight
    /\ (s.pc = "project") => (s.kind # "helper")
    /\ run' = [run EXCEPT ![r] = Failed(@)]
    /\ UNCHANGED <<attempts, resources, calls, lost, faults>>


\* Mutant: a failed model call is repeated under the same attempt.
CallModelAgain(r, outcome) ==
    LET s == run[r] IN
    /\ s.pc = "model"
    /\ calls[s.id] < 2
    /\ calls' = [calls EXCEPT ![s.id] = @ + 1]
    /\ run' = [run EXCEPT ![r].pc = IF outcome = "failed" THEN "model" ELSE "settle",
                          ![r].outcome = outcome]
    /\ UNCHANGED <<attempts, resources, lost, faults>>

\* InvokePrepared: the model is called and succeeds or fails.
CallModel(r, outcome) ==
    LET s == run[r] IN
    /\ s.pc = "model"
    /\ calls' = [calls EXCEPT ![s.id] = @ + 1]
    /\ run' = [run EXCEPT ![r] = [s EXCEPT !.pc = "settle", !.outcome = outcome]]
    /\ UNCHANGED <<attempts, resources, lost, faults>>

-----------------------------------------------------------------------------
(* The delegating caller of the resource service.                          *)

Delegate(r, call) ==
    /\ run[r] = Idle
    /\ run' = [run EXCEPT ![r] = call]
    /\ UNCHANGED <<attempts, resources, calls, lost, faults>>

AdmitDelegated(r, t, parent, asked) ==
    /\ resources.task[t] = "absent"
    /\ Delegate(r, [Idle EXCEPT !.pc = "admit", !.id = t,
                                !.within = parent, !.ask = asked])

StartDelegated(r, t) ==
    /\ resources.task[t] = "pending"
    /\ Delegate(r, [Idle EXCEPT !.pc = "start", !.id = t])

FinishDelegated(r, t, actual, outcome) ==
    /\ resources.task[t] = "running"
    /\ Delegate(r, [Idle EXCEPT !.pc = "finish", !.id = t,
                                !.ask = actual, !.outcome = outcome])

-----------------------------------------------------------------------------
\* The pcs at which a runner drives an attempt it has created.
Driving == {"reserve", "model", "settle", "abort"} \cup Binding

\* The process ends; the durable records stay.
Crash ==
    /\ faults < MaxFaults
    /\ faults' = faults + 1
    /\ lost' = lost \cup {run[r].id : r \in {q \in Runners : run[q].pc \in Driving}}
    /\ run' = [r \in Runners |-> Idle]
    /\ UNCHANGED <<attempts, resources, calls>>

\* A caller names as parent an attempt it has been told of, or none.
Known == {a \in Ids : attempts.at[a].phase # "absent"} \cup {None}

Step(r) ==
    \/ Read(r)
    \/ CallSucceeds(r)
    \/ CallFails(r)
    \/ CallCancelled(r)
    \/ AnswerCancelled(r)
    \/ \E kind \in Kinds, parent \in Known, demand \in Demands :
          \/ Invoke(r, kind, parent, demand)
          \/ \E a \in DirectIds : RunNamed(r, a, kind, parent, demand)
    \/ Plan(r)
    \/ PlanRefused(r)
    \/ StageFails(r)
    \/ \E outcome \in {"succeeded", "failed"} : CallModel(r, outcome)
    \/ \E t \in Tasks :
          \/ \E parent \in Known, asked \in Shares :
                AdmitDelegated(r, t, parent, asked)
          \/ StartDelegated(r, t)
          \/ \E actual \in Usages, outcome \in {"completed", "failed"} :
                FinishDelegated(r, t, actual, outcome)

Next == Crash \/ \E r \in Runners : Step(r)

Spec == Init /\ [][Next]_vars

-----------------------------------------------------------------------------
(* Properties.                                                             *)

\* The records have the shape the services decode, and a call in flight
\* belongs to a runner that is at a service call.
TypeOK ==
    /\ attempts.next \in 0 .. MaxAttempts
    /\ attempts.at \in [Ids -> [phase : Phases, kind : Kinds,
                                parent : Ids \cup {None}, bound : BOOLEAN,
                                outcome : Outcomes]]
    /\ \A k \in Keys :
          LET rec == resources.ledger[k] IN
          /\ rec.state \in {"absent", "reserved", "settled", "released"}
          /\ rec.parent \in Keys \cup {None}
          /\ rec.asked \in Budgets /\ rec.actual \in Budgets
    /\ resources.task \in
         [Tasks -> {"absent", "pending", "running", "completed", "failed"}]
    /\ calls \in [Ids -> Nat]
    /\ lost \subseteq Ids
    /\ \A r \in Runners :
          run[r].inflight => run[r].pc \in AttemptCalls \cup ResourceCalls

\* However the calls of overlapping generations interleave, what top-level
\* reservations hold and have spent never exceeds the root's tokens and
\* attempts, what nested ones hold and have spent never exceeds their
\* parent, and a settled parent accounts for what its children spent
\* (budget.rs reserve and settle, under the compare-and-set of
\* resource_service.rs).
NeverOversubscribed ==
    LET ledger == resources.ledger IN
    /\ LET top == Taken(ledger, Under(ledger, None)) IN
       /\ top.tokens <= Limit.tokens
       /\ top.attempts <= Limit.attempts
    /\ \A k \in Keys :
          LET nested == Taken(ledger, Under(ledger, k))
              own == IF ledger[k].state = "settled"
                       THEN ledger[k].actual ELSE ledger[k].asked
          IN  /\ nested.tokens <= own.tokens
              /\ nested.attempts <= own.attempts

\* The same of the cost: the root's hard cost limit bounds what
\* reservations hold and have spent.
CostNeverOversubscribed ==
    (Limit.cost # NoCost) =>
        Taken(resources.ledger, Under(resources.ledger, None)).cost <= Limit.cost

\* An attempt calls the model at most once, and a call that was made is paid
\* for: its reservation is held until it is settled at the full amount, and
\* is never released, whatever call is cancelled and whenever the process
\* ends (runner.rs run, step_attempt.rs abort).
CalledOnceAndPaid ==
    \A a \in Ids :
        /\ calls[a] <= 1
        /\ (calls[a] = 1) =>
             /\ attempts.at[a].phase \in {"dispatched", "settled"}
             /\ \/ resources.ledger[a].state = "reserved"
                \/ /\ resources.ledger[a].state = "settled"
                   /\ resources.ledger[a].actual = resources.ledger[a].asked

\* The attempt and its reservation end in the same transaction: no attempt
\* that is still open has lost its reservation, and one that bound its
\* reservation does not end without it (step_transaction_service.rs handle).
EndTogether ==
    \A a \in Ids :
        LET att == attempts.at[a]
            rec == resources.ledger[a]
        IN  /\ (rec.state \in {"settled", "released"}) => (att.phase = "settled")
            /\ (att.bound /\ att.phase = "settled") =>
                 (rec.state = IF calls[a] = 1 THEN "settled" ELSE "released")

\* An attempt that is open, or a reservation that is held, and that no
\* runner drives any more, is one whose call was cancelled or cut off, or
\* whose last call failed: every other failure is cleaned up
\* (runner.rs fail_before_dispatch).
OnlyLostAttemptsLinger ==
    \A a \in Ids :
        (\/ attempts.at[a].phase \notin {"absent", "settled"}
         \/ resources.ledger[a].state = "reserved")
        => \/ a \in lost
           \/ \E r \in Runners : run[r].id = a /\ run[r].pc \in Driving

\* A retry follows attempts that were settled without success and is no
\* further from its root than the policy allows (attempt_service.rs
\* validate_parent, runner.rs validate_retry_lineage).
RetriesFollowFailures ==
    \A a \in Ids :
        (attempts.at[a].phase # "absent" /\ attempts.at[a].kind = "retry") =>
            LET line == Lineage(attempts.at, a) IN
            /\ Cardinality(line) <= MaxRetries + 1
            /\ \A b \in line \ {a} :
                 /\ attempts.at[b].phase = "settled"
                 /\ attempts.at[b].outcome = "failed"

\* A delegated task holds its reservation exactly as long as it is pending
\* or running, and runs only after what it depends on has completed
\* (resource_transaction.rs, delegated_task_state.rs).
DelegationPaid ==
    \A t \in Tasks :
        LET state == resources.ledger[t].state IN
        /\ (state = "reserved") <=> (resources.task[t] \in {"pending", "running"})
        /\ (state = "settled") <=> (resources.task[t] \in {"completed", "failed"})
        /\ (resources.task[t] \notin {"absent", "pending"}) =>
             \A d \in DependsOn[t] : resources.task[d] = "completed"

\* What one generation has committed no other undoes: a reservation and a
\* delegated task only move forward, whoever read them when
\* (resource_service.rs mutate).
NothingUndone ==
    [][ /\ \A k \in Keys :
             \/ resources'.ledger[k] = resources.ledger[k]
             \/ resources.ledger[k].state = "absent"
             \/ /\ resources.ledger[k].state = "reserved"
                /\ resources'.ledger[k].state \in {"settled", "released"}
        /\ \A t \in Tasks :
             \/ resources'.task[t] = resources.task[t]
             \/ resources.task[t] = "absent"
             \/ resources.task[t] = "pending" /\ resources'.task[t] = "running"
             \/ resources.task[t] = "running"
      ]_vars

-----------------------------------------------------------------------------
(* The runner keeps the promise of MeteredAttempt.                         *)

MeterPhase(att) ==
    CASE att.phase = "absent"     -> "none"
      [] att.phase = "dispatched" -> "sent"
      [] att.phase = "settled"    -> "closed"
      [] OTHER                    -> "open"

MeterPurse(rec) ==
    CASE rec.state = "absent"   -> "none"
      [] rec.state = "reserved" -> "held"
      [] rec.state = "settled"  -> "spent"
      [] OTHER                  -> "freed"

Meter == INSTANCE MeteredAttempt WITH
    phase <- [a \in Ids |-> MeterPhase(attempts.at[a])],
    purse <- [a \in Ids |-> MeterPurse(resources.ledger[a])]

\* Every step of the runners, the services and the faults is a step of the
\* metered attempt or changes nothing of it.
MeterKept == Meter!Spec

=============================================================================
