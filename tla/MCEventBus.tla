----------------------------- MODULE MCEventBus -----------------------------
(* Instances of EventBus for TLC. *)
EXTENDS EventBus, TLC

CONSTANTS s1, s2, s3, e1, e2, g1, g2, read

Sub(i, e, deps, policy, required, maximum, g) ==
  [id |-> i, event |-> e, dependencies |-> deps, policy |-> policy,
   required |-> required, maximum |-> maximum, generation |-> g]

\* s1, s2 and s3 form two levels of e1: s3 waits for s1.
LevelBatch ==
  { Sub(s1, e1, {}, "ignore", {}, {read}, g1),
    Sub(s2, e1, {}, "warn", {read}, {}, None),
    Sub(s3, e1, {s1}, "fail_delivery", {}, {read}, g1) }

\* A ring: s1 listens to e1 and s2 to e2, each may emit the other's event.
RingBatch ==
  { Sub(s1, e1, {}, "warn", {}, {read}, None),
    Sub(s2, e2, {}, "ignore", {read}, {}, None) }

\* A dependency on an event the set does not have, refused by validation.
BrokenBatch == { Sub(s3, e1, {s2}, "warn", {}, {}, None) }

LevelBatches == {LevelBatch, BrokenBatch}
RingBatches == {RingBatch}
ExtendBatches == {RingBatch, {Sub(s3, e1, {}, "fail_delivery", {}, {}, g2)}}

Emit(e, c, authority, g) ==
  [event |-> e, cause |-> c, authority |-> authority, generation |-> g]

LevelEmissions == {Emit(e1, 0, {read}, g1), Emit(e1, 1, {read}, g2)}
RingEmissions == {Emit(e1, 1, {read}, None)}

Slots == Permutations(Delivery)

=============================================================================
