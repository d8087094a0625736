--------------------------- MODULE EventBusProofs ---------------------------
(* What holds of the event bus for every subscription set, capacity and      *)
(* number of concurrent deliveries.                                          *)
EXTENDS EventBus, FiniteSetTheorems, TLAPS

\* Ids of a delivery's level state come from the set captured at admission.
CapturedIds ==
  \A d \in Delivery : pc[d] # "free" =>
    /\ remaining[d] \subseteq IdsOf(job[d].subs)
    /\ running[d] \subseteq IdsOf(job[d].subs)

\* A slot no admission has taken runs nothing.
FreeIsIdle == \A d \in Delivery : pc[d] = "free" => running[d] = {}

\* A compare-exchange that is about to be tried would not pass the capacity.
LoadedBelowCapacity ==
  \A d \in Delivery : pc[d] = "loaded" => seen[d] < Capacity

TInv == /\ TypeOK /\ CapturedIds /\ FreeIsIdle /\ LoadedBelowCapacity
        /\ InFlightAccounting

\* SpecOf finds the subscription an id of the set names.
LEMMA SpecOfType ==
  ASSUME NEW subs \in SUBSET SubscriptionSpec, NEW i \in IdsOf(subs)
  PROVE  SpecOf(subs, i) \in SubscriptionSpec
BY DEF SpecOf, IdsOf

LEMMA IdsInType ==
  ASSUME NEW subs \in SUBSET SubscriptionSpec
  PROVE  IdsOf(subs) \subseteq Ids
BY DEF IdsOf, SubscriptionSpec

LEMMA MatchingIds ==
  ASSUME NEW subs, NEW e
  PROVE  Matching(subs, e) \subseteq IdsOf(subs)
BY DEF Matching, IdsOf

\* Taking or giving back one slot changes the number held by one.
LEMMA HeldCount ==
  ASSUME TypeOK, NEW d \in Delivery, NEW v \in PcValues,
         pc' = [pc EXCEPT ![d] = v]
  PROVE  /\ IsFiniteSet(Held) /\ Cardinality(Held) \in Nat
         /\ (pc[d] \in Holding <=> v \in Holding) =>
              Cardinality(Held') = Cardinality(Held)
         /\ pc[d] \notin Holding /\ v \in Holding =>
              Cardinality(Held') = Cardinality(Held) + 1
         /\ pc[d] \in Holding /\ v \notin Holding =>
              /\ Cardinality(Held') = Cardinality(Held) - 1
              /\ Cardinality(Held) > 0
<1>1. IsFiniteSet(Held)
  BY FS_Subset, BusAssumption DEF Held
<1>2. Cardinality(Held) \in Nat
  BY <1>1, FS_CardinalityType
<1>3. ASSUME pc[d] \in Holding <=> v \in Holding
      PROVE  Held' = Held
  BY <1>3 DEF Held, TypeOK
<1>4. ASSUME pc[d] \notin Holding, v \in Holding
      PROVE  Held' = Held \cup {d} /\ d \notin Held
  BY <1>4 DEF Held, TypeOK
<1>5. ASSUME pc[d] \in Holding, v \notin Holding
      PROVE  Held' = Held \ {d} /\ d \in Held
  BY <1>5 DEF Held, TypeOK
<1>6. ASSUME pc[d] \notin Holding, v \in Holding
      PROVE  Cardinality(Held') = Cardinality(Held) + 1
  BY <1>1, <1>4, <1>6, FS_AddElement
<1>7. ASSUME pc[d] \in Holding, v \notin Holding
      PROVE  Cardinality(Held') = Cardinality(Held) - 1 /\ Cardinality(Held) > 0
  <2>1. Cardinality(Held') = Cardinality(Held) - 1
    BY <1>1, <1>5, <1>7, FS_RemoveElement
  <2>2. Held # {}
    BY <1>5, <1>7
  <2>3. Cardinality(Held) # 0
    BY <1>1, <2>2, FS_EmptySet
  <2> QED BY <1>2, <2>1, <2>3
<1> QED BY <1>1, <1>2, <1>3, <1>6, <1>7

LEMMA TInvInit == Init => TInv
<1> SUFFICES ASSUME Init PROVE TInv
  OBVIOUS
<1>1. TypeOK
  BY BusAssumption DEF Init, TypeOK, PcValues, EmptyReport
<1>2. CapturedIds /\ FreeIsIdle /\ LoadedBelowCapacity
  BY DEF Init, CapturedIds, FreeIsIdle, LoadedBelowCapacity
<1>3. Held = {}
  BY DEF Init, Held, Holding, InThread
<1>4. InFlightAccounting
  BY <1>3, FS_EmptySet, BusAssumption DEF Init, InFlightAccounting
<1> QED BY <1>1, <1>2, <1>4 DEF TInv

\* Admission of m, by an emitter or a handler, keeps the invariant.
LEMMA AdmitTyped ==
  ASSUME TInv, NEW d \in Delivery, NEW m, NEW parent \in Delivery \cup {None},
         NEW by \in Ids \cup {None}, NEW waits \in BOOLEAN,
         m.event \in Events, m.cause \in Causes \cup {0},
         m.authority \in SUBSET Capabilities,
         m.generation \in Generations \cup {None},
         parent # None => by \in Ids /\ job[parent] \in Jobs,
         Admit(d, m, parent, by, waits)
  PROVE  TInv'
<1> DEFINE v == IF Unauthorized(subscriptions, m.event, m.authority)
                THEN "rejected" ELSE "reserving"
           j == [event |-> m.event, cause |-> Causality(m.cause),
                 authority |-> m.authority, generation |-> m.generation,
                 subs |-> subscriptions, revision |-> revision,
                 parent |-> parent, by |-> by, waits |-> waits,
                 lineage |-> IF parent = None \/ m.cause # job[parent].cause THEN {}
                             ELSE job[parent].lineage \cup {by}]
<1>1. pc' = [pc EXCEPT ![d] = v] /\ job' = [job EXCEPT ![d] = j]
  BY DEF Admit
<1>2. v \in PcValues /\ v \notin Holding /\ v # "free"
  BY DEF PcValues, Holding, InThread, Admitting
<1>3. pc[d] = "free" /\ pc[d] \notin Holding
  BY DEF Admit, Holding, InThread
<1>4. j.lineage \in SUBSET Ids
  BY DEF TInv, TypeOK, Jobs
<1>5. j \in Jobs
  BY <1>4 DEF Jobs, Admit, TInv, TypeOK
<1>6. Matching(subscriptions, m.event) \subseteq IdsOf(subscriptions)
  BY MatchingIds
<1>7. IdsOf(subscriptions) \subseteq Ids
  BY IdsInType DEF TInv, TypeOK
<1>8. remaining' = [remaining EXCEPT ![d] = Matching(subscriptions, m.event)]
  BY DEF Admit
<1>9. nextRoot' \in 0..MaxCause
  BY BusAssumption DEF Admit, Causality, Causes, TInv, TypeOK
<1> HIDE DEF v, j
<1>10. TypeOK'
  <2>1. job' \in [Delivery -> Jobs \cup {NoJob}]
    BY <1>1, <1>5 DEF TInv, TypeOK
  <2>2. \A x \in Delivery : pc'[x] # "free" => job'[x] \in Jobs
    BY <1>1, <1>5 DEF TInv, TypeOK
  <2>3. pc' \in [Delivery -> PcValues]
    BY <1>1, <1>2 DEF TInv, TypeOK
  <2>4. remaining' \in [Delivery -> SUBSET Ids]
    BY <1>6, <1>7, <1>8 DEF TInv, TypeOK
  <2>5. UNCHANGED <<subscriptions, revision, active, inFlight, seen, ancestry,
                    level, running, errs, report, verdict, status, staleLevels>>
    BY DEF Admit
  <2> QED BY <1>9, <2>1, <2>2, <2>3, <2>4, <2>5 DEF TInv, TypeOK
<1>11. CapturedIds'
  <2>1. j.subs = subscriptions
    BY DEF j
  <2>2. running[d] = {}
    BY <1>3 DEF TInv, FreeIsIdle
  <2> QED BY <1>1, <1>6, <1>8, <2>1, <2>2 DEF Admit, TInv, TypeOK, CapturedIds
<1>12. FreeIsIdle' /\ LoadedBelowCapacity'
  <2>1. v # "loaded"
    BY DEF v
  <2> QED BY <1>1, <1>2, <2>1
          DEF Admit, TInv, TypeOK, FreeIsIdle, LoadedBelowCapacity
<1>13. InFlightAccounting'
  <2>1. Cardinality(Held') = Cardinality(Held)
    BY <1>1, <1>2, <1>3, HeldCount DEF TInv
  <2> QED BY <2>1 DEF Admit, TInv, InFlightAccounting
<1> QED BY <1>10, <1>11, <1>12, <1>13 DEF TInv

\* The level about to be delivered is part of what remains.
LEMMA ReadySubset ==
  ASSUME NEW subs, NEW ids
  PROVE  Ready(subs, ids) \subseteq ids
BY DEF Ready

LEMMA InstallTyped ==
  ASSUME TInv, NEW subs \in SUBSET SubscriptionSpec, Install(subs)
  PROVE  TInv'
<1>1. TypeOK'
  BY BusAssumption DEF Install, TInv, TypeOK, captureVars, levelVars
<1>2. CapturedIds' /\ FreeIsIdle' /\ LoadedBelowCapacity'
  BY DEF Install, TInv, CapturedIds, FreeIsIdle, LoadedBelowCapacity,
         captureVars, levelVars
<1>3. InFlightAccounting'
  BY DEF Install, TInv, InFlightAccounting, Held
<1> QED BY <1>1, <1>2, <1>3 DEF TInv

\* A step that moves one slot already taken, keeps the captured job, draws the
\* ids it runs from what remained, and changes in_flight exactly when the slot
\* is reserved or given back keeps the invariant.
LEMMA SlotStep ==
  ASSUME TInv, TypeOK', NEW d \in Delivery, NEW v \in PcValues \ {"free"},
         pc[d] # "free", pc' = [pc EXCEPT ![d] = v], job' = job,
         \A x \in Delivery \ {d} : /\ remaining'[x] = remaining[x]
                                   /\ running'[x] = running[x]
                                   /\ seen'[x] = seen[x],
         remaining'[d] \subseteq remaining[d],
         running'[d] \subseteq running[d] \cup remaining[d],
         v = "loaded" => seen'[d] < Capacity,
         \/ (pc[d] \in Holding <=> v \in Holding) /\ inFlight' = inFlight
         \/ /\ pc[d] \notin Holding /\ v \in Holding
            /\ inFlight' = inFlight + 1 /\ inFlight < Capacity
         \/ pc[d] \in Holding /\ v \notin Holding /\ inFlight' = inFlight - 1
  PROVE  TInv'
<1>1. CapturedIds'
  BY DEF TInv, TypeOK, CapturedIds
<1>2. FreeIsIdle' /\ LoadedBelowCapacity'
  BY DEF TInv, TypeOK, FreeIsIdle, LoadedBelowCapacity
<1>3. InFlightAccounting'
  <2>1. /\ Cardinality(Held) \in Nat
        /\ (pc[d] \in Holding <=> v \in Holding) =>
              Cardinality(Held') = Cardinality(Held)
        /\ pc[d] \notin Holding /\ v \in Holding =>
              Cardinality(Held') = Cardinality(Held) + 1
        /\ pc[d] \in Holding /\ v \notin Holding =>
              Cardinality(Held') = Cardinality(Held) - 1
    BY HeldCount DEF TInv
  <2>2. inFlight = Cardinality(Held) /\ inFlight <= Capacity
    BY DEF TInv, InFlightAccounting
  <2> QED BY <2>1, <2>2, BusAssumption DEF InFlightAccounting
<1> QED BY <1>1, <1>2, <1>3 DEF TInv

\* A slot that holds a reservation is counted, so in_flight is not zero.
LEMMA HeldPositive ==
  ASSUME TInv, NEW d \in Delivery, pc[d] \in Holding
  PROVE  inFlight > 0
<1>1. IsFiniteSet(Held) /\ Held # {}
  BY FS_Subset, BusAssumption DEF Held
<1>2. Cardinality(Held) \in Nat /\ Cardinality(Held) # 0
  BY <1>1, FS_CardinalityType, FS_EmptySet
<1> QED BY <1>2 DEF TInv, InFlightAccounting

\* Every step of an admission keeps the invariant: the count of reservations
\* is where the compare-exchange matters.
LEMMA AdmissionTyped ==
  ASSUME TInv, NEW d \in Delivery, AdmissionStep(d)
  PROVE  TInv'
<1> USE DEF PcValues, Holding, InThread, Admitting
<1>a. ASSUME Current(d, inFlight), pc[d] \in {"reserving", "loaded"},
             UNCHANGED <<busVars, captureVars, levelVars, verdict, status>>
      PROVE  TInv'
  <2> DEFINE v == IF inFlight >= Capacity THEN "rejected" ELSE "loaded"
  <2>1. pc' = [pc EXCEPT ![d] = v] /\ seen' = [seen EXCEPT ![d] = inFlight]
    BY <1>a DEF Current
  <2>2. v \in PcValues \ {"free"} /\ v \notin Holding
        /\ (v = "loaded" => inFlight < Capacity)
    BY BusAssumption DEF TInv, TypeOK
  <2> HIDE DEF v
  <2>3. TypeOK'
    BY <1>a, <2>1, <2>2 DEF TInv, TypeOK, busVars, captureVars, levelVars
  <2>4. /\ job' = job /\ remaining' = remaining /\ running' = running
        /\ inFlight' = inFlight
    BY <1>a DEF busVars, captureVars, levelVars
  <2>5. v = "loaded" => seen'[d] < Capacity
    BY <2>1, <2>2 DEF TInv, TypeOK
  <2>6. \A x \in Delivery \ {d} : seen'[x] = seen[x]
    BY <2>1 DEF TInv, TypeOK
  <2>7. pc[d] \notin Holding /\ pc[d] # "free"
    BY <1>a
  <2> QED BY <2>1, <2>2, <2>3, <2>4, <2>5, <2>6, <2>7, SlotStep
<1>1. CASE ReserveLoad(d)
  BY <1>1, <1>a DEF ReserveLoad
<1>2. CASE ReserveExchange(d)
  <2>1. CASE inFlight = seen[d]
    <3>1. /\ pc' = [pc EXCEPT ![d] = "reserved"] /\ inFlight' = inFlight + 1
          /\ pc[d] = "loaded" /\ seen' = seen
          /\ job' = job /\ remaining' = remaining /\ running' = running
      BY <1>2, <2>1 DEF ReserveExchange, captureVars, levelVars
    <3>2. TypeOK'
      BY <1>2, <3>1 DEF ReserveExchange, TInv, TypeOK, captureVars, levelVars
    <3>3. inFlight < Capacity
      BY <2>1, <3>1 DEF TInv, LoadedBelowCapacity
    <3> QED BY <3>1, <3>2, <3>3, SlotStep
  <2>2. CASE inFlight # seen[d]
    BY <1>2, <2>2, <1>a DEF ReserveExchange, busVars
  <2> QED BY <2>1, <2>2
<1>3. CASE AdmitSpawn(d)
  <2>1. /\ pc' = [pc EXCEPT ![d] = "head"] /\ pc[d] = "reserved"
        /\ inFlight' = inFlight /\ seen' = seen
        /\ job' = job /\ remaining' = remaining /\ running' = running
    BY <1>3 DEF AdmitSpawn, levelVars, busVars
  <2>2. job[d].cause \in Causes
    BY <2>1 DEF TInv, TypeOK, Jobs
  <2>3. TypeOK'
    BY <1>3, <2>2 DEF AdmitSpawn, TInv, TypeOK, busVars, levelVars
  <2> QED BY <2>1, <2>3, SlotStep
<1>4. CASE AdmitSpawnFails(d)
  <2>1. /\ pc' = [pc EXCEPT ![d] = "rejected"] /\ pc[d] = "reserved"
        /\ inFlight' = inFlight - 1 /\ seen' = seen
        /\ job' = job /\ remaining' = remaining /\ running' = running
    BY <1>4 DEF AdmitSpawnFails, levelVars, captureVars
  <2>2. inFlight' \in Nat
    BY <2>1, HeldPositive DEF TInv, TypeOK
  <2>3. TypeOK'
    BY <1>4, <2>2 DEF AdmitSpawnFails, TInv, TypeOK, captureVars, levelVars
  <2> QED BY <2>1, <2>3, SlotStep
<1> QED BY <1>1, <1>2, <1>3, <1>4 DEF AdmissionStep

\* Every step of a delivery thread keeps the invariant.
LEMMA ThreadTyped ==
  ASSUME TInv, NEW d \in Delivery, ThreadStep(d)
  PROVE  TInv'
<1> USE DEF PcValues, Holding, InThread, Admitting, Terminal
<1>1. CASE DeliveryHead(d)
  <2>1. PICK v \in {"finishing", "entering"} : pc' = [pc EXCEPT ![d] = v]
    BY <1>1 DEF DeliveryHead, Return
  <2>2. /\ pc[d] = "head" /\ inFlight' = inFlight /\ seen' = seen
        /\ job' = job /\ remaining' = remaining /\ running' = running
    BY <1>1 DEF DeliveryHead, busVars, captureVars, levelVars
  <2>3. TypeOK'
    BY <1>1, <2>2
    DEF DeliveryHead, Return, TInv, TypeOK, busVars, captureVars, levelVars
  <2> QED BY <2>1, <2>2, <2>3, SlotStep
<1>2. CASE DeliveryEnter(d)
  <2> DEFINE next == Ready(job[d].subs, remaining[d])
  <2>1. PICK v \in {"finishing", "running"} : pc' = [pc EXCEPT ![d] = v]
    BY <1>2 DEF DeliveryEnter, Return
  <2>2. /\ pc[d] = "entering" /\ inFlight' = inFlight /\ seen' = seen
        /\ job' = job /\ remaining' = remaining
        /\ running' \in {running, [running EXCEPT ![d] = next]}
    BY <1>2 DEF DeliveryEnter, captureVars
  <2>3. next \subseteq remaining[d]
    BY ReadySubset
  <2>4. job[d].cause \in Causes
    BY <2>2 DEF TInv, TypeOK, Jobs
  <2>5. next \subseteq Ids
    BY <2>3 DEF TInv, TypeOK
  <2>6. /\ active' \in {active, [active EXCEPT ![job[d].cause] = @ \cup next]}
        /\ level' \in {level, [level EXCEPT ![d] = next]}
        /\ errs' \in {errs, [errs EXCEPT ![d] = {}]}
        /\ verdict' \in {verdict, [verdict EXCEPT ![d] = "reentry"]}
        /\ staleLevels' \in {staleLevels, [staleLevels EXCEPT ![d] = @ + 1]}
    BY <1>2 DEF DeliveryEnter, Return, TInv, TypeOK
  <2> HIDE DEF next
  <2>7. TypeOK'
    <3>1. active' \in [Causes -> SUBSET Ids]
      BY <2>4, <2>5, <2>6 DEF TInv, TypeOK
    <3>2. /\ level' \in [Delivery -> SUBSET Ids]
          /\ errs' \in [Delivery -> SUBSET Ids]
          /\ running' \in [Delivery -> SUBSET Ids]
      BY <2>2, <2>5, <2>6 DEF TInv, TypeOK
    <3>3. verdict' \in [Delivery -> Terminal \cup {"none"}]
      BY <2>6 DEF TInv, TypeOK
    <3>5. staleLevels' \in [Delivery -> Nat]
      <4>1. staleLevels \in [Delivery -> Nat]
        BY DEF TInv, TypeOK
      <4> QED BY <2>6, <4>1
    <3>4. /\ pc' \in [Delivery -> PcValues]
          /\ \A x \in Delivery : pc'[x] # "free" => job'[x] \in Jobs
      BY <2>1, <2>2 DEF TInv, TypeOK
    <3> QED BY <1>2, <2>2, <3>1, <3>2, <3>3, <3>4, <3>5
            DEF DeliveryEnter, TInv, TypeOK, captureVars
  <2>8. running'[d] \subseteq running[d] \cup remaining[d]
    BY <2>2, <2>3 DEF TInv, TypeOK
  <2>9. \A x \in Delivery \ {d} : running'[x] = running[x]
    BY <2>2 DEF TInv, TypeOK
  <2> QED BY <2>1, <2>2, <2>7, <2>8, <2>9, SlotStep
<1>3. CASE DeliveryLeave(d)
  <2>1. /\ pc' = [pc EXCEPT ![d] = "judging"] /\ pc[d] = "running"
        /\ inFlight' = inFlight /\ seen' = seen
        /\ job' = job /\ remaining' = remaining /\ running' = running
    BY <1>3 DEF DeliveryLeave, captureVars, levelVars
  <2>2. job[d].cause \in Causes
    BY <2>1 DEF TInv, TypeOK, Jobs
  <2>3. TypeOK'
    BY <1>3, <2>2 DEF DeliveryLeave, TInv, TypeOK, captureVars, levelVars
  <2> QED BY <2>1, <2>3, SlotStep
<1>4. CASE DeliveryJudge(d)
  <2>1. PICK v \in {"finishing", "head"} : pc' = [pc EXCEPT ![d] = v]
    BY <1>4 DEF DeliveryJudge, Return, Settle
  <2>2. /\ pc[d] = "judging" /\ inFlight' = inFlight /\ seen' = seen
        /\ job' = job /\ running' = running
        /\ remaining' \in {remaining,
                           [remaining EXCEPT ![d] = @ \ level[d]]}
    BY <1>4 DEF DeliveryJudge, Settle, busVars, captureVars
  <2>3. Failing(d, "warn") \subseteq Ids
    BY DEF Failing, TInv, TypeOK
  <2>4. report' \in [Delivery -> [delivered : SUBSET Ids, failures : SUBSET Ids,
                                  warnings : SUBSET Ids]]
    BY <1>4, <2>3 DEF DeliveryJudge, Settle, TInv, TypeOK
  <2>5. verdict' \in [Delivery -> Terminal \cup {"none"}]
    BY <1>4 DEF DeliveryJudge, Settle, Return, TInv, TypeOK
  <2>6. TypeOK'
    <3>1. UNCHANGED <<subscriptions, revision, active, inFlight, nextRoot,
                      seen, ancestry, level, running, errs, staleLevels, status>>
      BY <1>4 DEF DeliveryJudge, busVars, captureVars
    <3>2. remaining' \in [Delivery -> SUBSET Ids]
      BY <2>2 DEF TInv, TypeOK
    <3>3. /\ pc' \in [Delivery -> PcValues]
          /\ \A x \in Delivery : pc'[x] # "free" => job'[x] \in Jobs
      BY <2>1, <2>2 DEF TInv, TypeOK
    <3> QED BY <2>2, <2>4, <2>5, <3>1, <3>2, <3>3 DEF TInv, TypeOK
  <2>7. /\ remaining'[d] \subseteq remaining[d]
        /\ \A x \in Delivery \ {d} : remaining'[x] = remaining[x]
    BY <2>2 DEF TInv, TypeOK
  <2> QED BY <2>1, <2>2, <2>6, <2>7, SlotStep
<1>5. CASE PublishStatus(d)
  <2>1. /\ pc' = [pc EXCEPT ![d] = "published"] /\ pc[d] = "finishing"
        /\ inFlight' = inFlight /\ seen' = seen
        /\ job' = job /\ remaining' = remaining /\ running' = running
    BY <1>5 DEF PublishStatus, busVars, captureVars, levelVars
  <2>2. TypeOK'
    BY <1>5 DEF PublishStatus, TInv, TypeOK, busVars, captureVars, levelVars
  <2> QED BY <2>1, <2>2, SlotStep
<1>6. CASE ReleaseSlot(d)
  <2>1. /\ pc' = [pc EXCEPT ![d] = "done"] /\ pc[d] = "published"
        /\ inFlight' = inFlight - 1 /\ seen' = seen
        /\ job' = job /\ remaining' = remaining /\ running' = running
    BY <1>6 DEF ReleaseSlot, captureVars, levelVars
  <2>2. inFlight' \in Nat
    BY <2>1, HeldPositive DEF TInv, TypeOK
  <2>3. TypeOK'
    BY <1>6, <2>2 DEF ReleaseSlot, TInv, TypeOK, captureVars, levelVars
  <2> QED BY <2>1, <2>3, SlotStep
<1> QED BY <1>1, <1>2, <1>3, <1>4, <1>5, <1>6 DEF ThreadStep

LEMMA HandlerEmitTyped ==
  ASSUME TInv, NEW d \in Delivery, NEW i \in running[d],
         NEW child \in Delivery, NEW e \in Events, NEW c \in Causes \cup {0},
         NEW waits \in BOOLEAN, HandlerEmit(d, i, child, e, c, waits)
  PROVE  TInv'
<1> DEFINE s == SpecOf(job[d].subs, i)
           m == [event |-> e, cause |-> c,
                 authority |-> job[d].authority \cap s.maximum,
                 generation |-> s.generation]
<1>1. pc[d] = "running" /\ Admit(child, m, d, i, waits)
  BY DEF HandlerEmit
<1>2. job[d] \in Jobs
  BY <1>1 DEF TInv, TypeOK
<1>3. i \in IdsOf(job[d].subs) /\ job[d].subs \in SUBSET SubscriptionSpec
  BY <1>1, <1>2 DEF TInv, CapturedIds, Jobs
<1>4. s \in SubscriptionSpec
  BY <1>3, SpecOfType
<1>5. i \in Ids
  BY <1>3, IdsInType
<1>6. /\ m.event \in Events /\ m.cause \in Causes \cup {0}
      /\ m.authority \in SUBSET Capabilities
      /\ m.generation \in Generations \cup {None}
  BY <1>2, <1>4 DEF Jobs, SubscriptionSpec
<1> HIDE DEF m
<1> QED BY <1>1, <1>2, <1>5, <1>6, AdmitTyped

LEMMA HandlerReturnTyped ==
  ASSUME TInv, NEW d \in Delivery, NEW i \in running[d], NEW ok \in BOOLEAN,
         HandlerReturn(d, i, ok)
  PROVE  TInv'
<1>1. /\ pc' = pc /\ pc[d] = "running" /\ job' = job /\ remaining' = remaining
      /\ running' = [running EXCEPT ![d] = @ \ {i}]
      /\ inFlight' = inFlight /\ seen' = seen
      /\ errs' \in {errs, [errs EXCEPT ![d] = @ \cup {i}]}
  BY DEF HandlerReturn, busVars, captureVars, TInv, TypeOK
<1>2. TypeOK'
  <2>1. /\ running' \in [Delivery -> SUBSET Ids]
        /\ errs' \in [Delivery -> SUBSET Ids]
    BY <1>1 DEF TInv, TypeOK
  <2> QED BY <1>1, <2>1 DEF HandlerReturn, TInv, TypeOK, busVars, captureVars
<1>3. CapturedIds' /\ FreeIsIdle' /\ LoadedBelowCapacity'
  BY <1>1 DEF TInv, TypeOK, CapturedIds, FreeIsIdle, LoadedBelowCapacity
<1>4. InFlightAccounting'
  BY <1>1 DEF TInv, InFlightAccounting, Held
<1> QED BY <1>2, <1>3, <1>4 DEF TInv

LEMMA TInvNext == TInv /\ [Next]_vars => TInv'
<1> SUFFICES ASSUME TInv, [Next]_vars PROVE TInv'
  OBVIOUS
<1>1. ASSUME NEW batch \in Batches,
             ReplaceSubscriptions(batch) \/ InstallSubscriptions(batch)
      PROVE  TInv'
  <2>1. batch \in SUBSET SubscriptionSpec
    BY BusAssumption
  <2>2. subscriptions \cup batch \in SUBSET SubscriptionSpec
    BY <2>1 DEF TInv, TypeOK
  <2> QED BY <1>1, <2>1, <2>2, InstallTyped
          DEF ReplaceSubscriptions, InstallSubscriptions
<1>2. ASSUME NEW batch \in Batches, RemoveSubscriptions(IdsOf(batch))
      PROVE  TInv'
  <2>1. {s \in subscriptions : s.id \notin IdsOf(batch)}
          \in SUBSET SubscriptionSpec
    BY DEF TInv, TypeOK
  <2> QED BY <1>2, <2>1, InstallTyped DEF RemoveSubscriptions
<1>3. ASSUME NEW d \in Delivery, NEW m \in Emissions, EmitterAdmits(d, m)
      PROVE  TInv'
  <2>1. /\ m.event \in Events /\ m.cause \in Causes \cup {0}
        /\ m.authority \in SUBSET Capabilities
        /\ m.generation \in Generations \cup {None}
    BY BusAssumption
  <2> QED BY <1>3, <2>1, AdmitTyped DEF EmitterAdmits
<1>4. ASSUME NEW d \in Delivery, AdmissionStep(d) PROVE TInv'
  BY <1>4, AdmissionTyped
<1>5. ASSUME NEW d \in Delivery, ThreadStep(d) PROVE TInv'
  BY <1>5, ThreadTyped
<1>6. ASSUME NEW d \in Delivery, HandlerEmits(d) PROVE TInv'
  BY <1>6, HandlerEmitTyped DEF HandlerEmits
<1>7. ASSUME NEW d \in Delivery, HandlerReturns(d) PROVE TInv'
  BY <1>7, HandlerReturnTyped DEF HandlerReturns
<1>8. CASE UNCHANGED vars
  <2>1. TypeOK'
    BY <1>8 DEF vars, busVars, captureVars, levelVars, TInv, TypeOK
  <2>2. CapturedIds' /\ FreeIsIdle' /\ LoadedBelowCapacity'
    BY <1>8 DEF vars, captureVars, levelVars, TInv, CapturedIds, FreeIsIdle,
                LoadedBelowCapacity
  <2>3. InFlightAccounting'
    BY <1>8 DEF vars, busVars, TInv, InFlightAccounting, Held
  <2> QED BY <2>1, <2>2, <2>3 DEF TInv
<1> QED BY <1>1, <1>2, <1>3, <1>4, <1>5, <1>6, <1>7, <1>8 DEF Next

LEMMA TInvAlways == Spec => []TInv
BY TInvInit, TInvNext, PTL DEF Spec

\* Every state of the bus is well typed; in_flight, an unsigned counter, never
\* wraps below zero.
THEOREM TypeCorrect == Spec => []TypeOK
<1>1. TInv => TypeOK
  BY DEF TInv
<1> QED BY <1>1, TInvAlways, PTL

\* reserve_delivery never admits past the capacity and no slot is lost or
\* counted twice, for any capacity and any number of racing emitters.
THEOREM InFlightExact == Spec => []InFlightAccounting
<1>1. TInv => InFlightAccounting
  BY DEF TInv
<1> QED BY <1>1, TInvAlways, PTL

-----------------------------------------------------------------------------
(* Causal exclusion *)

\* A step that changes neither the levels, nor the active set, nor who runs
\* for which cause.
LEMMA CausalFrame ==
  ASSUME CausalExclusion, active' = active, level' = level,
         \A x \in Delivery : (pc'[x] = "running" <=> pc[x] = "running"),
         \A x \in Delivery : pc[x] = "running" => job'[x] = job[x]
  PROVE  CausalExclusion'
<1>1. \A c \in Causes : Running(c)' = Running(c)
  BY DEF Running
<1> QED BY <1>1 DEF CausalExclusion

\* The level that enters is disjoint from everything active for its cause, so
\* the levels of a cause stay pairwise disjoint and active stays their union.
LEMMA CausalEnter ==
  ASSUME TInv, CausalExclusion, NEW d \in Delivery, DeliveryEnter(d)
  PROVE  CausalExclusion'
<1> DEFINE next == Ready(job[d].subs, remaining[d])
<1>1. pc[d] = "entering" /\ job' = job /\ job[d].cause \in Causes
  BY DEF DeliveryEnter, captureVars, TInv, TypeOK, Jobs
<1>k. PICK k \in Causes : k = job[d].cause
  BY <1>1
<1>2. CASE next \cap (ancestry[d] \cup active[k]) # {}
  <2>1. pc' = [pc EXCEPT ![d] = "finishing"] /\ active' = active /\ level' = level
    BY <1>2, <1>k DEF DeliveryEnter, Return
  <2> QED BY <1>1, <2>1, CausalFrame DEF TInv, TypeOK
<1>3. CASE next \cap (ancestry[d] \cup active[k]) = {}
  <2>1. /\ active' = [active EXCEPT ![k] = @ \cup next]
        /\ level' = [level EXCEPT ![d] = next]
        /\ pc' = [pc EXCEPT ![d] = "running"]
    BY <1>3, <1>k DEF DeliveryEnter
  <2> HIDE DEF next
  <2>2. Running(k)' = Running(k) \cup {d} /\ d \notin Running(k)
    BY <1>1, <1>k, <2>1 DEF Running, TInv, TypeOK
  <2>3. \A c \in Causes \ {k} : Running(c)' = Running(c) /\ d \notin Running(c)
    BY <1>1, <1>k, <2>1 DEF Running, TInv, TypeOK
  <2>4. \A c \in Causes : \A x \in Running(c) : level'[x] = level[x]
    BY <2>1, <2>2, <2>3 DEF Running, TInv, TypeOK
  <2>5. level'[d] = next
    BY <2>1 DEF TInv, TypeOK
  <2>6. ASSUME NEW c \in Causes
        PROVE  /\ active'[c] = UNION {level'[x] : x \in Running(c)'}
               /\ \A x, y \in Running(c)' : x # y =>
                    level'[x] \cap level'[y] = {}
    <3>1. CASE c # k
      <4>1. active'[c] = active[c]
        BY <2>1, <3>1 DEF TInv, TypeOK
      <4>2. Running(c)' = Running(c) /\ \A x \in Running(c) : level'[x] = level[x]
        BY <2>3, <2>4, <3>1
      <4> QED BY <4>1, <4>2 DEF CausalExclusion
    <3>2. CASE c = k
      <4>1. active'[c] = active[c] \cup next
        BY <1>1, <2>1, <3>2 DEF TInv, TypeOK
      <4>2. active[c] = UNION {level[x] : x \in Running(c)}
        BY DEF CausalExclusion
      <4>3. /\ Running(c)' = Running(c) \cup {d} /\ d \notin Running(c)
            /\ \A x \in Running(c) : level'[x] = level[x]
        BY <2>2, <2>4, <3>2
      <4>4. active'[c] = UNION {level'[x] : x \in Running(c)'}
        BY <2>5, <4>1, <4>2, <4>3
      <4>5. \A x \in Running(c) : level'[x] \cap next = {}
        BY <1>3, <3>2, <4>2, <4>3
      <4>6. \A x, y \in Running(c) : x # y => level[x] \cap level[y] = {}
        BY DEF CausalExclusion
      <4>7. \A x, y \in Running(c)' : x # y => level'[x] \cap level'[y] = {}
        BY <2>5, <4>3, <4>5, <4>6
      <4> QED BY <4>4, <4>7
    <3> QED BY <3>1, <3>2
  <2> QED BY <2>6 DEF CausalExclusion
<1> QED BY <1>2, <1>3

\* Leaving removes exactly the level of d: the other levels are disjoint from it.
LEMMA CausalLeave ==
  ASSUME TInv, CausalExclusion, NEW d \in Delivery, DeliveryLeave(d)
  PROVE  CausalExclusion'
<1>k. PICK k \in Causes : k = job[d].cause
  BY DEF DeliveryLeave, TInv, TypeOK, Jobs
<1>1. /\ pc[d] = "running" /\ job' = job /\ level' = level
      /\ active' = [active EXCEPT ![k] = @ \ level[d]]
      /\ pc' = [pc EXCEPT ![d] = "judging"]
  BY <1>k DEF DeliveryLeave, captureVars, levelVars
<1>2. Running(k)' = Running(k) \ {d} /\ d \in Running(k)
  BY <1>1, <1>k DEF Running, TInv, TypeOK
<1>3. \A c \in Causes \ {k} : Running(c)' = Running(c)
  BY <1>1, <1>k DEF Running, TInv, TypeOK
<1>4. ASSUME NEW c \in Causes
      PROVE  /\ active'[c] = UNION {level'[x] : x \in Running(c)'}
             /\ \A x, y \in Running(c)' : x # y => level'[x] \cap level'[y] = {}
  <2>1. /\ active[c] = UNION {level[x] : x \in Running(c)}
        /\ \A x, y \in Running(c) : x # y => level[x] \cap level[y] = {}
    BY DEF CausalExclusion
  <2>2. CASE c # k
    <3>1. active'[c] = active[c] /\ Running(c)' = Running(c)
      BY <1>1, <1>3, <2>2 DEF TInv, TypeOK
    <3> QED BY <1>1, <2>1, <3>1
  <2>3. CASE c = k
    <3>1. active'[c] = active[c] \ level[d]
      BY <1>1, <2>3 DEF TInv, TypeOK
    <3>2. Running(c)' = Running(c) \ {d} /\ d \in Running(c)
      BY <1>2, <2>3
    <3>3. active'[c] = UNION {level[x] : x \in Running(c) \ {d}}
      <4>1. \A x \in Running(c) \ {d} : level[x] \cap level[d] = {}
        BY <2>1, <3>2
      <4> QED BY <2>1, <3>1, <3>2, <4>1
    <3> QED BY <1>1, <2>1, <3>2, <3>3
  <2> QED BY <2>2, <2>3
<1> QED BY <1>4 DEF CausalExclusion

LEMMA CausalNext == TInv /\ CausalExclusion /\ [Next]_vars => CausalExclusion'
<1> SUFFICES ASSUME TInv, CausalExclusion, [Next]_vars PROVE CausalExclusion'
  OBVIOUS
<1> USE DEF busVars, captureVars, levelVars
<1>1. ASSUME NEW subs, Install(subs) PROVE CausalExclusion'
  BY <1>1, CausalFrame DEF Install
<1>2. ASSUME NEW d \in Delivery, NEW m, NEW parent, NEW by, NEW waits,
             Admit(d, m, parent, by, waits)
      PROVE  CausalExclusion'
  BY <1>2, CausalFrame DEF Admit, TInv, TypeOK
<1>3. ASSUME NEW d \in Delivery, AdmissionStep(d) PROVE CausalExclusion'
  BY <1>3, CausalFrame
  DEF AdmissionStep, ReserveLoad, ReserveExchange, Current, AdmitSpawn,
      AdmitSpawnFails, TInv, TypeOK
<1>4. ASSUME NEW d \in Delivery, ThreadStep(d) PROVE CausalExclusion'
  <2>1. CASE DeliveryEnter(d)
    BY <2>1, CausalEnter
  <2>2. CASE DeliveryLeave(d)
    BY <2>2, CausalLeave
  <2>3. CASE DeliveryHead(d) \/ PublishStatus(d) \/ ReleaseSlot(d)
    BY <2>3, CausalFrame
    DEF DeliveryHead, PublishStatus, ReleaseSlot, Return, TInv, TypeOK
  <2>4. CASE DeliveryJudge(d)
    BY <2>4, CausalFrame DEF DeliveryJudge, Settle, Return, TInv, TypeOK
  <2> QED BY <1>4, <2>1, <2>2, <2>3, <2>4 DEF ThreadStep
<1>5. ASSUME NEW d \in Delivery, HandlerReturns(d) PROVE CausalExclusion'
  BY <1>5, CausalFrame DEF HandlerReturns, HandlerReturn
<1>6. CASE UNCHANGED vars
  BY <1>6, CausalFrame DEF vars
<1> QED
  BY <1>1, <1>2, <1>3, <1>4, <1>5, <1>6
  DEF Next, ReplaceSubscriptions, InstallSubscriptions, RemoveSubscriptions,
      EmitterAdmits, HandlerEmits, HandlerEmit

\* Two deliveries of one causality id never run the same subscription at once,
\* and active_causality leaks nothing, for any number of deliveries.
THEOREM CausallyExclusive == Spec => []CausalExclusion
<1>1. Init => CausalExclusion
  BY DEF Init, CausalExclusion, Running
<1> QED BY <1>1, CausalNext, TInvAlways, PTL DEF Spec

-----------------------------------------------------------------------------
(* What a delivery has settled, and what it still may do once it is stale *)

\* The installed subscriptions, and those a delivery works on, have unique ids
\* and dependencies among themselves.
Sound(subs) == Indexed(subs) /\ ValidDependencies(subs)

\* A delivery has settled exactly what it matched and what no longer remains,
\* and it runs a level of what does.
Settled(d) ==
  LET r == report[d]
      matched == Matching(job[d].subs, job[d].event)
  IN /\ pc[d] # "free" => Sound(job[d].subs)
     /\ pc[d] = "free" => r = EmptyReport
     /\ pc[d] # "free" =>
          /\ remaining[d] \subseteq matched
          /\ r.delivered \cup r.failures = matched \ remaining[d]
     /\ r.delivered \cap r.failures = {}
     /\ \A i \in r.failures : SpecOf(job[d].subs, i).policy # "fail_delivery"
     /\ r.warnings = {i \in r.failures : SpecOf(job[d].subs, i).policy = "warn"}
     /\ pc[d] \in {"running", "judging"} =>
          /\ level[d] = Ready(job[d].subs, remaining[d])
          /\ errs[d] \subseteq level[d] /\ running[d] \subseteq level[d]
     /\ pc[d] # "running" => running[d] = {}
     /\ verdict[d] = "succeeded" \/ status[d] = "succeeded" =>
          remaining[d] = {} /\ pc[d] \in {"finishing", "published", "done"}

\* A delivery that began a level from an outdated set is between that level
\* and its end, and ends cancelled; the revision never comes back.
Outdated(d) ==
  /\ pc[d] # "free" => job[d].revision <= revision
  /\ staleLevels[d] \in {0, 1}
  /\ staleLevels[d] = 1 =>
       /\ job[d].revision < revision
       /\ pc[d] \in {"running", "judging", "finishing", "published", "done"}
       /\ pc[d] \notin {"running", "judging"} => verdict[d] = "cancelled"

PInv == Sound(subscriptions) /\ \A d \in Delivery : Settled(d) /\ Outdated(d)

\* Everything the two predicates say of a delivery that is not the bus's own.
Kept(x) ==
  /\ pc'[x] = pc[x] /\ job'[x] = job[x] /\ remaining'[x] = remaining[x]
  /\ level'[x] = level[x] /\ running'[x] = running[x] /\ errs'[x] = errs[x]
  /\ report'[x] = report[x] /\ verdict'[x] = verdict[x]
  /\ status'[x] = status[x] /\ staleLevels'[x] = staleLevels[x]

LEMMA KeptSettled ==
  ASSUME TInv, revision' \in Nat, revision' >= revision,
         NEW x \in Delivery, Kept(x), Settled(x), Outdated(x)
  PROVE  Settled(x)' /\ Outdated(x)'
<1>1. Settled(x)'
  BY DEF Kept, Settled
<1>2. Outdated(x)'
  <2>1. pc[x] # "free" => job[x].revision \in Nat
    BY BusAssumption DEF TInv, TypeOK, Jobs
  <2>2. revision \in Nat
    BY BusAssumption DEF TInv, TypeOK
  <2> QED BY <2>1, <2>2 DEF Kept, Outdated
<1> QED BY <1>1, <1>2

\* An id of a sound set names one subscription.
LEMMA SpecOfSound ==
  ASSUME NEW subs, Indexed(subs), NEW t \in subs
  PROVE  SpecOf(subs, t.id) = t
<1>1. \E u \in subs : u.id = t.id
  OBVIOUS
<1>2. SpecOf(subs, t.id) \in subs /\ SpecOf(subs, t.id).id = t.id
  BY <1>1 DEF SpecOf
<1> QED BY <1>2 DEF Indexed

\* What a ready id depends on has been matched and no longer remains.
LEMMA ReadyDependencies ==
  ASSUME NEW subs, Sound(subs), NEW e, NEW ids, ids \subseteq Matching(subs, e),
         NEW i \in Ready(subs, ids)
  PROVE  SpecOf(subs, i).dependencies \subseteq Matching(subs, e) \ ids
<1>1. i \in ids /\ SpecOf(subs, i).dependencies \cap ids = {}
  BY DEF Ready
<1>2. PICK t \in subs : t.event = e /\ t.id = i
  BY <1>1 DEF Matching
<1>3. SpecOf(subs, i) = t
  BY <1>2, SpecOfSound DEF Sound
<1>4. ASSUME NEW j \in t.dependencies PROVE j \in Matching(subs, e)
  <2>1. j \in IdsOf(subs) /\ SpecOf(subs, j).event = e
    BY <1>2, <1>4 DEF Sound, ValidDependencies
  <2>2. PICK u \in subs : u.id = j
    BY <2>1 DEF IdsOf
  <2>3. SpecOf(subs, j) = u
    BY <2>2, SpecOfSound DEF Sound
  <2> QED BY <2>1, <2>2, <2>3 DEF Matching
<1> QED BY <1>1, <1>3, <1>4

\* The three updates install sound sets.
LEMMA InstallSound ==
  ASSUME TInv, PInv, NEW batch \in Batches,
         \/ ReplaceSubscriptions(batch) \/ InstallSubscriptions(batch)
         \/ RemoveSubscriptions(IdsOf(batch))
  PROVE  PInv'
<1>1. ASSUME NEW subs, Install(subs), Indexed(subs) PROVE PInv'
  <2>1. /\ subscriptions' = subs /\ ValidDependencies(subs)
        /\ revision' = revision + 1
        /\ \A x \in Delivery : Kept(x)
    BY <1>1 DEF Install, Kept, captureVars, levelVars
  <2>2. revision' \in Nat /\ revision' >= revision
    BY <2>1, BusAssumption DEF TInv, TypeOK
  <2>3. \A x \in Delivery : Settled(x)' /\ Outdated(x)'
    BY <2>1, <2>2, KeptSettled DEF PInv
  <2>4. Sound(subscriptions)'
    BY <1>1, <2>1 DEF Sound
  <2> QED BY <2>3, <2>4 DEF PInv
<1>2. CASE ReplaceSubscriptions(batch)
  BY <1>1, <1>2 DEF ReplaceSubscriptions
<1>3. CASE InstallSubscriptions(batch)
  <2>1. Indexed(subscriptions) /\ Indexed(batch)
        /\ IdsOf(batch) \cap IdsOf(subscriptions) = {}
    BY <1>3 DEF InstallSubscriptions, PInv, Sound
  <2>2. Indexed(subscriptions \cup batch)
    BY <2>1 DEF Indexed, IdsOf
  <2> QED BY <1>1, <1>3, <2>2 DEF InstallSubscriptions
<1>4. CASE RemoveSubscriptions(IdsOf(batch))
  <2>1. Indexed({t \in subscriptions : t.id \notin IdsOf(batch)})
    BY DEF PInv, Sound, Indexed
  <2> QED BY <1>1, <1>4, <2>1 DEF RemoveSubscriptions
<1> QED BY <1>2, <1>3, <1>4

\* A step of one slot.
LEMMA SlotSettles ==
  ASSUME TInv, PInv, NEW d \in Delivery, revision' = revision,
         subscriptions' = subscriptions,
         \A x \in Delivery \ {d} : Kept(x), Settled(d)', Outdated(d)'
  PROVE  PInv'
<1>1. revision' \in Nat /\ revision' >= revision
  BY BusAssumption DEF TInv, TypeOK
<1>2. \A x \in Delivery \ {d} : Settled(x)' /\ Outdated(x)'
  BY <1>1, KeptSettled DEF PInv
<1> QED BY <1>2 DEF PInv

\* Admission starts from the installed set with nothing settled.
LEMMA AdmitSettles ==
  ASSUME TInv, PInv, NEW d \in Delivery, NEW m, NEW parent, NEW by, NEW waits,
         Admit(d, m, parent, by, waits)
  PROVE  PInv'
<1>1. /\ pc[d] = "free" /\ revision' = revision /\ subscriptions' = subscriptions
      /\ level' = level /\ running' = running /\ errs' = errs
      /\ report' = report /\ verdict' = verdict /\ status' = status
      /\ staleLevels' = staleLevels
      /\ remaining' = [remaining EXCEPT ![d] = Matching(subscriptions, m.event)]
  BY DEF Admit
<1>2. PICK v \in {"rejected", "reserving"} : pc' = [pc EXCEPT ![d] = v]
  BY DEF Admit
<1>3. PICK j : /\ job' = [job EXCEPT ![d] = j] /\ j.event = m.event
               /\ j.subs = subscriptions /\ j.revision = revision
  <2>1. PICK j : j = [event |-> m.event, cause |-> Causality(m.cause),
                      authority |-> m.authority, generation |-> m.generation,
                      subs |-> subscriptions, revision |-> revision,
                      parent |-> parent, by |-> by, waits |-> waits,
                      lineage |-> IF parent = None \/ m.cause # job[parent].cause THEN {}
                                  ELSE job[parent].lineage \cup {by}]
    OBVIOUS
  <2>2. job' = [job EXCEPT ![d] = j]
    BY <2>1 DEF Admit
  <2>3. j.event = m.event /\ j.subs = subscriptions /\ j.revision = revision
    BY <2>1
  <2> QED BY <2>2, <2>3, Zenon
<1>4. \A x \in Delivery \ {d} : Kept(x)
  BY <1>1, <1>2, <1>3 DEF Kept, TInv, TypeOK
<1>5. /\ pc'[d] = v /\ job'[d] = j
      /\ remaining'[d] = Matching(subscriptions, m.event)
  BY <1>1, <1>2, <1>3 DEF TInv, TypeOK
<1>6. Settled(d) /\ Outdated(d) /\ Sound(subscriptions)
  BY DEF PInv
<1>7. report[d] = EmptyReport /\ running[d] = {} /\ verdict[d] # "succeeded"
      /\ status[d] # "succeeded"
  BY <1>1, <1>6 DEF Settled
<1>8. staleLevels[d] = 0
  BY <1>1, <1>6 DEF Outdated
<1>9. Settled(d)'
  BY <1>1, <1>3, <1>5, <1>6, <1>7 DEF Settled, EmptyReport
<1>10. Outdated(d)'
  <2>1. revision <= revision
    BY BusAssumption DEF TInv, TypeOK
  <2> QED BY <1>1, <1>3, <1>5, <1>8, <2>1 DEF Outdated
<1> QED BY <1>1, <1>4, <1>9, <1>10, SlotSettles

\* A slot moves without touching its level or its report.
LEMMA MoveSettles ==
  ASSUME TInv, PInv, NEW d \in Delivery, NEW v, pc[d] # "free", v # "free",
         pc' = [pc EXCEPT ![d] = v],
         UNCHANGED <<subscriptions, revision, job, levelVars>>,
         \A x \in Delivery \ {d} : verdict'[x] = verdict[x] /\ status'[x] = status[x],
         pc[d] # "running", v \notin {"running", "judging"},
         verdict'[d] = "succeeded" \/ status'[d] = "succeeded" =>
           remaining[d] = {} /\ v \in {"finishing", "published", "done"},
         staleLevels[d] = 1 =>
           /\ v \in {"finishing", "published", "done"}
           /\ verdict'[d] = "cancelled"
  PROVE  PInv'
<1>1. \A x \in Delivery \ {d} : Kept(x)
  BY DEF Kept, levelVars, TInv, TypeOK
<1>2. pc'[d] = v
  BY DEF TInv, TypeOK
<1>3. Settled(d) /\ Outdated(d)
  BY DEF PInv
<1>4. Settled(d)'
  BY <1>2, <1>3 DEF Settled, levelVars
<1>5. Outdated(d)'
  BY <1>2, <1>3 DEF Outdated, levelVars
<1> QED BY <1>1, <1>4, <1>5, SlotSettles

LEMMA AdmissionSettles ==
  ASSUME TInv, PInv, NEW d \in Delivery, AdmissionStep(d)
  PROVE  PInv'
<1>1. /\ pc[d] \in {"reserving", "loaded", "reserved"}
      /\ UNCHANGED <<subscriptions, revision, job, levelVars, verdict>>
  BY DEF AdmissionStep, ReserveLoad, ReserveExchange, AdmitSpawn,
         AdmitSpawnFails, busVars, captureVars
<1>2. PICK v \in {"rejected", "loaded", "reserved", "head"} :
        pc' = [pc EXCEPT ![d] = v]
  BY DEF AdmissionStep, ReserveLoad, ReserveExchange, AdmitSpawn,
         AdmitSpawnFails, Current
<1>3. status' \in {status, [status EXCEPT ![d] = "accepted"]}
  BY DEF AdmissionStep, ReserveLoad, ReserveExchange, AdmitSpawn, AdmitSpawnFails
<1>4. /\ \A x \in Delivery \ {d} : status'[x] = status[x]
      /\ status'[d] \in {status[d], "accepted"}
  BY <1>3 DEF TInv, TypeOK
<1>5. /\ verdict[d] # "succeeded" /\ status[d] # "succeeded"
      /\ staleLevels[d] # 1
  BY <1>1 DEF PInv, Settled, Outdated
<1> QED BY <1>1, <1>2, <1>4, <1>5, MoveSettles

LEMMA EnterSettles ==
  ASSUME TInv, PInv, NEW d \in Delivery, DeliveryEnter(d)
  PROVE  PInv'
<1> DEFINE next == Ready(job[d].subs, remaining[d])
           c == job[d].cause
<1>0. /\ pc[d] = "entering"
      /\ UNCHANGED <<subscriptions, revision, job, remaining, report, status>>
  BY DEF DeliveryEnter, captureVars
<1>1. Settled(d) /\ Outdated(d)
  BY DEF PInv
<1>2. staleLevels[d] = 0 /\ verdict[d] # "succeeded" /\ status[d] # "succeeded"
  BY <1>0, <1>1 DEF Settled, Outdated
<1>3. CASE /\ pc' = [pc EXCEPT ![d] = "finishing"]
           /\ verdict' = [verdict EXCEPT ![d] = "reentry"]
           /\ UNCHANGED <<level, running, errs, staleLevels>>
  <2>1. verdict'[d] = "reentry" /\ \A x \in Delivery \ {d} : verdict'[x] = verdict[x]
    BY <1>3 DEF TInv, TypeOK
  <2>2. UNCHANGED levelVars
    BY <1>0, <1>3 DEF levelVars
  <2>3. PICK v : v = "finishing" /\ pc' = [pc EXCEPT ![d] = v]
    BY <1>3
  <2>4. /\ verdict'[d] = "succeeded" \/ status'[d] = "succeeded" =>
              remaining[d] = {} /\ v \in {"finishing", "published", "done"}
        /\ staleLevels[d] = 1 => /\ v \in {"finishing", "published", "done"}
                                 /\ verdict'[d] = "cancelled"
        /\ v \notin {"free", "running", "judging"}
    BY <1>0, <1>2, <2>1, <2>3
  <2>5. /\ UNCHANGED <<subscriptions, revision, job, levelVars>>
        /\ \A x \in Delivery \ {d} :
             verdict'[x] = verdict[x] /\ status'[x] = status[x]
    BY <1>0, <2>1, <2>2
  <2> QED BY <1>0, <2>3, <2>4, <2>5, MoveSettles
<1>4. CASE /\ pc' = [pc EXCEPT ![d] = "running"] /\ verdict' = verdict
           /\ level' = [level EXCEPT ![d] = next]
           /\ running' = [running EXCEPT ![d] = next]
           /\ errs' = [errs EXCEPT ![d] = {}]
           /\ staleLevels' = [staleLevels EXCEPT ![d] = IF Stale(d) THEN @ + 1 ELSE @]
  <2>1. \A x \in Delivery \ {d} : Kept(x)
    BY <1>0, <1>4 DEF Kept, TInv, TypeOK
  <2>2. /\ pc'[d] = "running" /\ level'[d] = next /\ running'[d] = next
        /\ errs'[d] = {}
        /\ staleLevels'[d] = IF Stale(d) THEN 1 ELSE 0
    BY <1>2, <1>4 DEF TInv, TypeOK
  <2>3. Settled(d)'
    BY <1>0, <1>1, <1>2, <1>4, <2>2 DEF Settled
  <2>4. Outdated(d)'
    <3>1. job[d].revision \in Nat /\ revision \in Nat /\ job[d].revision <= revision
      BY <1>0, <1>1, BusAssumption DEF TInv, TypeOK, Jobs, Outdated
    <3>2. Stale(d) => job[d].revision < revision
      BY <3>1 DEF Stale
    <3> QED BY <1>0, <2>2, <3>1, <3>2 DEF Outdated
  <2> QED BY <1>0, <2>1, <2>3, <2>4, SlotSettles
<1> QED BY <1>3, <1>4 DEF DeliveryEnter, Return

LEMMA JudgeSettles ==
  ASSUME TInv, PInv, NEW d \in Delivery, DeliveryJudge(d)
  PROVE  PInv'
<1>0. /\ pc[d] = "judging"
      /\ UNCHANGED <<subscriptions, revision, job, level, running, errs,
                     staleLevels, status>>
  BY DEF DeliveryJudge, busVars, captureVars
<1>1. Settled(d) /\ Outdated(d)
  BY DEF PInv
<1>2. verdict[d] # "succeeded" /\ status[d] # "succeeded"
  BY <1>0, <1>1 DEF Settled
<1>3. job[d].revision \in Nat /\ revision \in Nat /\ job[d].revision <= revision
  BY <1>0, <1>1, BusAssumption DEF TInv, TypeOK, Jobs, Outdated
<1>4. staleLevels[d] = 1 => Stale(d)
  BY <1>0, <1>1, <1>3 DEF Outdated, Stale
<1>5. CASE \E o \in {"cancelled", "handler_failed"} :
             /\ Return(d, o) /\ UNCHANGED <<remaining, report>>
             /\ Stale(d) => o = "cancelled"
  <2>1. PICK o \in {"cancelled", "handler_failed"} :
             /\ Return(d, o) /\ UNCHANGED <<remaining, report>>
             /\ Stale(d) => o = "cancelled"
    BY <1>5
  <2>2. /\ pc' = [pc EXCEPT ![d] = "finishing"] /\ verdict'[d] = o
        /\ \A x \in Delivery \ {d} : verdict'[x] = verdict[x]
    BY <2>1 DEF Return, TInv, TypeOK
  <2>3. UNCHANGED levelVars
    BY <1>0, <2>1 DEF levelVars
  <2>4. PICK v : v = "finishing" /\ pc' = [pc EXCEPT ![d] = v]
    BY <2>2
  <2>5. /\ verdict'[d] = "succeeded" \/ status'[d] = "succeeded" =>
              remaining[d] = {} /\ v \in {"finishing", "published", "done"}
        /\ staleLevels[d] = 1 => /\ v \in {"finishing", "published", "done"}
                                 /\ verdict'[d] = "cancelled"
        /\ v \notin {"free", "running", "judging"}
    BY <1>0, <1>2, <1>4, <2>1, <2>2, <2>4
  <2>6. /\ UNCHANGED <<subscriptions, revision, job, levelVars>>
        /\ \A x \in Delivery \ {d} :
             verdict'[x] = verdict[x] /\ status'[x] = status[x]
    BY <1>0, <2>2, <2>3
  <2> QED BY <1>0, <2>4, <2>5, <2>6, MoveSettles
<1>6. CASE ~ Stale(d) /\ Failing(d, "fail_delivery") = {} /\ Settle(d)
  <2> DEFINE r == report[d]
             matched == Matching(job[d].subs, job[d].event)
             policy(i) == SpecOf(job[d].subs, i).policy
  <2>1. /\ pc' = [pc EXCEPT ![d] = "head"] /\ verdict' = verdict
        /\ remaining' = [remaining EXCEPT ![d] = @ \ level[d]]
        /\ report' = [report EXCEPT ![d] =
             [delivered |-> @.delivered \cup (level[d] \ errs[d]),
              failures |-> @.failures \cup errs[d],
              warnings |-> @.warnings \cup Failing(d, "warn")]]
    BY <1>6 DEF Settle
  <2>2. \A x \in Delivery \ {d} : Kept(x)
    BY <1>0, <2>1 DEF Kept, TInv, TypeOK
  <2>3. /\ pc'[d] = "head" /\ remaining'[d] = remaining[d] \ level[d]
        /\ report'[d].delivered = r.delivered \cup (level[d] \ errs[d])
        /\ report'[d].failures = r.failures \cup errs[d]
        /\ report'[d].warnings = r.warnings \cup Failing(d, "warn")
    BY <2>1 DEF TInv, TypeOK
  <2>4. level[d] \subseteq remaining[d]
    BY <1>0, <1>1, ReadySubset DEF Settled
  <2>5. /\ errs[d] \subseteq level[d] /\ remaining[d] \subseteq matched
        /\ r.delivered \cup r.failures = matched \ remaining[d]
        /\ r.delivered \cap r.failures = {} /\ running[d] = {}
        /\ Sound(job[d].subs)
        /\ \A i \in r.failures : policy(i) # "fail_delivery"
        /\ r.warnings = {i \in r.failures : policy(i) = "warn"}
    BY <1>0, <1>1 DEF Settled
  <2>6. /\ report'[d].delivered \cup report'[d].failures = matched \ remaining'[d]
        /\ report'[d].delivered \cap report'[d].failures = {}
    <3> HIDE DEF matched
    <3> QED BY <2>3, <2>4, <2>5
  <2>7. /\ \A i \in errs[d] : policy(i) # "fail_delivery"
        /\ Failing(d, "warn") = {i \in errs[d] : policy(i) = "warn"}
    BY <1>6 DEF Failing
  <2>8. /\ \A i \in report'[d].failures : policy(i) # "fail_delivery"
        /\ report'[d].warnings = {i \in report'[d].failures : policy(i) = "warn"}
    <3> HIDE DEF policy
    <3> QED BY <2>3, <2>5, <2>7
  <2>9. Settled(d)'
    BY <1>0, <1>2, <2>1, <2>3, <2>5, <2>6, <2>8 DEF Settled
  <2>10. Outdated(d)'
    BY <1>0, <1>1, <1>4, <1>6, <2>3 DEF Outdated
  <2> QED BY <1>0, <2>2, <2>9, <2>10, SlotSettles
<1> QED BY <1>5, <1>6 DEF DeliveryJudge

LEMMA ThreadSettles ==
  ASSUME TInv, PInv, NEW d \in Delivery, ThreadStep(d)
  PROVE  PInv'
<1>1. Settled(d) /\ Outdated(d)
  BY DEF PInv
<1>2. CASE DeliveryHead(d)
  <2>1. /\ pc[d] = "head"
        /\ UNCHANGED <<subscriptions, revision, job, levelVars, status>>
    BY <1>2 DEF DeliveryHead, busVars, captureVars
  <2>2. status[d] # "succeeded" /\ verdict[d] # "succeeded" /\ staleLevels[d] # 1
    BY <1>1, <2>1 DEF Settled, Outdated
  <2>3. PICK v \in {"finishing", "entering"} :
          /\ pc' = [pc EXCEPT ![d] = v]
          /\ \A x \in Delivery \ {d} : verdict'[x] = verdict[x]
          /\ verdict'[d] = "succeeded" => remaining[d] = {} /\ v = "finishing"
    BY <1>2, <2>2 DEF DeliveryHead, Return, TInv, TypeOK
  <2> QED BY <2>1, <2>2, <2>3, MoveSettles
<1>3. CASE DeliveryLeave(d)
  <2>1. /\ pc[d] = "running" /\ running[d] = {}
        /\ pc' = [pc EXCEPT ![d] = "judging"]
        /\ UNCHANGED <<subscriptions, revision, job, levelVars, verdict, status>>
    BY <1>3 DEF DeliveryLeave, captureVars
  <2>2. \A x \in Delivery \ {d} : Kept(x)
    BY <2>1 DEF Kept, levelVars, TInv, TypeOK
  <2>3. pc'[d] = "judging"
    BY <2>1 DEF TInv, TypeOK
  <2>4. Settled(d)' /\ Outdated(d)'
    BY <1>1, <2>1, <2>3 DEF Settled, Outdated, levelVars
  <2> QED BY <2>1, <2>2, <2>4, SlotSettles
<1>4. CASE PublishStatus(d)
  <2>1. /\ pc[d] = "finishing" /\ pc' = [pc EXCEPT ![d] = "published"]
        /\ UNCHANGED <<subscriptions, revision, job, levelVars, verdict>>
        /\ status'[d] = verdict[d]
        /\ \A x \in Delivery \ {d} : status'[x] = status[x]
    BY <1>4 DEF PublishStatus, busVars, captureVars, TInv, TypeOK
  <2>2. /\ verdict[d] = "succeeded" => remaining[d] = {}
        /\ staleLevels[d] = 1 => verdict[d] = "cancelled"
    BY <1>1, <2>1 DEF Settled, Outdated
  <2>3. PICK v : v = "published" /\ pc' = [pc EXCEPT ![d] = v]
    BY <2>1
  <2>4. /\ verdict'[d] = "succeeded" \/ status'[d] = "succeeded" =>
              remaining[d] = {} /\ v \in {"finishing", "published", "done"}
        /\ staleLevels[d] = 1 => /\ v \in {"finishing", "published", "done"}
                                 /\ verdict'[d] = "cancelled"
        /\ v \notin {"free", "running", "judging"}
    BY <2>1, <2>2, <2>3
  <2>5. /\ UNCHANGED <<subscriptions, revision, job, levelVars>>
        /\ \A x \in Delivery \ {d} :
             verdict'[x] = verdict[x] /\ status'[x] = status[x]
    BY <2>1
  <2> QED BY <2>1, <2>3, <2>4, <2>5, MoveSettles
<1>5. CASE ReleaseSlot(d)
  <2>1. /\ pc[d] = "published" /\ pc' = [pc EXCEPT ![d] = "done"]
        /\ UNCHANGED <<subscriptions, revision, job, levelVars, verdict, status>>
    BY <1>5 DEF ReleaseSlot, captureVars
  <2>2. /\ verdict[d] = "succeeded" \/ status[d] = "succeeded" => remaining[d] = {}
        /\ staleLevels[d] = 1 => verdict[d] = "cancelled"
    BY <1>1, <2>1 DEF Settled, Outdated
  <2>3. PICK v : v = "done" /\ pc' = [pc EXCEPT ![d] = v]
    BY <2>1
  <2>4. /\ verdict'[d] = "succeeded" \/ status'[d] = "succeeded" =>
              remaining[d] = {} /\ v \in {"finishing", "published", "done"}
        /\ staleLevels[d] = 1 => /\ v \in {"finishing", "published", "done"}
                                 /\ verdict'[d] = "cancelled"
        /\ v \notin {"free", "running", "judging"}
    BY <2>1, <2>2, <2>3
  <2>5. /\ UNCHANGED <<subscriptions, revision, job, levelVars>>
        /\ \A x \in Delivery \ {d} :
             verdict'[x] = verdict[x] /\ status'[x] = status[x]
    BY <2>1
  <2> QED BY <2>1, <2>3, <2>4, <2>5, MoveSettles
<1> QED BY <1>2, <1>3, <1>4, <1>5, EnterSettles, JudgeSettles DEF ThreadStep

LEMMA HandlerReturnSettles ==
  ASSUME TInv, PInv, NEW d \in Delivery, NEW i \in running[d], NEW ok \in BOOLEAN,
         HandlerReturn(d, i, ok)
  PROVE  PInv'
<1>1. /\ pc[d] = "running"
      /\ running' = [running EXCEPT ![d] = @ \ {i}]
      /\ errs' = [errs EXCEPT ![d] = IF ok THEN @ ELSE @ \cup {i}]
      /\ UNCHANGED <<subscriptions, revision, pc, job, remaining, level, report,
                     staleLevels, verdict, status>>
  BY DEF HandlerReturn, busVars, captureVars
<1>2. \A x \in Delivery \ {d} : Kept(x)
  BY <1>1 DEF Kept, TInv, TypeOK
<1>3. /\ running'[d] \subseteq running[d]
      /\ errs'[d] \subseteq errs[d] \cup {i}
  BY <1>1 DEF TInv, TypeOK
<1>4. Settled(d) /\ Outdated(d)
  BY DEF PInv
<1>5. Settled(d)'
  BY <1>1, <1>3, <1>4 DEF Settled
<1>6. Outdated(d)'
  BY <1>1, <1>4 DEF Outdated
<1> QED BY <1>1, <1>2, <1>5, <1>6, SlotSettles

LEMMA PInvNext == TInv /\ PInv /\ [Next]_vars => PInv'
<1> SUFFICES ASSUME TInv, PInv, [Next]_vars PROVE PInv'
  OBVIOUS
<1>1. ASSUME NEW d \in Delivery, HandlerEmits(d) PROVE PInv'
  BY <1>1, AdmitSettles DEF HandlerEmits, HandlerEmit
<1>2. ASSUME NEW d \in Delivery, NEW m \in Emissions, EmitterAdmits(d, m)
      PROVE  PInv'
  BY <1>2, AdmitSettles DEF EmitterAdmits
<1>3. ASSUME NEW d \in Delivery, HandlerReturns(d) PROVE PInv'
  BY <1>3, HandlerReturnSettles DEF HandlerReturns
<1>4. CASE UNCHANGED vars
  <2>1. \A x \in Delivery : Kept(x)
    BY <1>4 DEF vars, captureVars, levelVars, Kept
  <2>2. revision' = revision /\ subscriptions' = subscriptions
    BY <1>4 DEF vars, busVars
  <2>3. revision' \in Nat /\ revision' >= revision
    BY <2>2, BusAssumption DEF TInv, TypeOK
  <2> QED BY <2>1, <2>2, <2>3, KeptSettled DEF PInv
<1> QED BY <1>1, <1>2, <1>3, <1>4, InstallSound, AdmissionSettles, ThreadSettles
        DEF Next

LEMMA PInvInit == Init => PInv
<1> SUFFICES ASSUME Init PROVE PInv
  OBVIOUS
<1>1. Sound(subscriptions)
  BY DEF Init, Sound, Indexed, ValidDependencies, IdsOf
<1>2. ASSUME NEW d \in Delivery PROVE Settled(d) /\ Outdated(d)
  BY DEF Init, Settled, Outdated, EmptyReport
<1> QED BY <1>1, <1>2 DEF PInv

LEMMA PInvAlways == Spec => []PInv
BY PInvInit, PInvNext, TInvAlways, PTL DEF Spec

\* Every handler that runs has its dependencies settled in the same delivery,
\* for any dependency graph that validate_dependencies admits.
THEOREM DependenciesFirst == Spec => []DependencyOrder
<1>1. PInv => DependencyOrder
  <2> SUFFICES ASSUME PInv, NEW d \in Delivery, NEW i \in running[d]
               PROVE  SpecOf(job[d].subs, i).dependencies
                        \subseteq report[d].delivered \cup report[d].failures
    BY DEF DependencyOrder
  <2>1. Settled(d) /\ pc[d] = "running"
    BY DEF PInv, Settled
  <2>2. /\ Sound(job[d].subs) /\ i \in Ready(job[d].subs, remaining[d])
        /\ remaining[d] \subseteq Matching(job[d].subs, job[d].event)
        /\ report[d].delivered \cup report[d].failures
             = Matching(job[d].subs, job[d].event) \ remaining[d]
    BY <2>1 DEF Settled
  <2> QED BY <2>2, ReadyDependencies
<1> QED BY <1>1, PInvAlways, PTL

\* A receipt that says Succeeded accounts for every matched subscription, by
\* its policy, whatever handlers return and however the set changes.
THEOREM SucceededIsSettled == Spec => []SucceededMeansSettled
<1>1. PInv => SucceededMeansSettled
  <2> SUFFICES ASSUME PInv, NEW d \in Delivery, status[d] = "succeeded"
               PROVE  LET r == report[d]
                          policyOf(i) == SpecOf(job[d].subs, i).policy
                      IN /\ r.delivered \cup r.failures
                              = Matching(job[d].subs, job[d].event)
                         /\ r.delivered \cap r.failures = {}
                         /\ \A i \in r.failures : policyOf(i) # "fail_delivery"
                         /\ r.warnings = {i \in r.failures : policyOf(i) = "warn"}
    BY DEF SucceededMeansSettled
  <2>1. Settled(d) /\ remaining[d] = {} /\ pc[d] # "free"
    BY DEF PInv, Settled
  <2> QED BY <2>1 DEF Settled
<1> QED BY <1>1, PInvAlways, PTL

\* A delivery whose subscription set was replaced runs at most the level it had
\* checked, and ends cancelled, for any number of replacements.
THEOREM StaleStops == Spec => []StaleDeliveryStops
<1>1. PInv => StaleDeliveryStops
  BY DEF PInv, Outdated, StaleDeliveryStops
<1> QED BY <1>1, PInvAlways, PTL

=============================================================================
