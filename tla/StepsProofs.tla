----------------------------- MODULE StepsProofs -----------------------------
(***************************************************************************)
(* Proofs about Steps: an attempt and the reservation that pays for it     *)
(* agree in every state, for any number of overlapping generations,        *)
(* cancelled calls and crashes, and so the runner refines MeteredAttempt.  *)
(*                                                                         *)
(* The inductive invariant says three things: what the record of an        *)
(* attempt implies about its reservation and its model calls (RecordOK),   *)
(* what a runner that drives an attempt knows about it (DriverOK), and     *)
(* that no two runners drive the same attempt (OneDriver).  The second is  *)
(* what makes the first inductive: a runner that is about to bind, send or *)
(* settle acts on what it did before, not on what it reads.                *)
(***************************************************************************)
EXTENDS Steps, WellFoundedInduction, TLAPS

\* The records have the fields the services decode.
RunShape(s) ==
    s = [pc |-> s.pc, id |-> s.id, kind |-> s.kind, parent |-> s.parent,
         demand |-> s.demand, within |-> s.within, ask |-> s.ask,
         names |-> s.names, outcome |-> s.outcome, inflight |-> s.inflight,
         seen |-> s.seen]

AttemptShape(att) ==
    /\ att = [phase |-> att.phase, kind |-> att.kind, parent |-> att.parent,
              bound |-> att.bound, outcome |-> att.outcome]
    /\ att.phase \in Phases
    /\ att.bound \in BOOLEAN

ReservationShape(rec) ==
    rec = [state |-> rec.state, parent |-> rec.parent,
           asked |-> rec.asked, actual |-> rec.actual]

\* Where a runner's identity comes from.
IdShape(s) ==
    /\ s.pc \in Driving \cup {"plan", "create"} => s.id \in Ids
    /\ s.pc \in {"admit", "start", "finish"} => s.id \in Tasks
    /\ s.pc \in {"model", "plan"} => ~s.inflight

Shape ==
    /\ attempts = [next |-> attempts.next, at |-> attempts.at]
    /\ attempts.at = [a \in Ids |-> attempts.at[a]]
    /\ \A a \in Ids : AttemptShape(attempts.at[a])
    /\ resources = [ledger |-> resources.ledger, task |-> resources.task]
    /\ resources.ledger = [k \in Keys |-> resources.ledger[k]]
    /\ \A k \in Keys : ReservationShape(resources.ledger[k])
    /\ run = [r \in Runners |-> run[r]]
    /\ \A r \in Runners : RunShape(run[r]) /\ IdShape(run[r])
    /\ calls = [a \in Ids |-> calls[a]]

\* An attempt's record, its reservation and its model calls agree.
RecordOK(att, rec, n) ==
    /\ att.phase = "absent" =>
         ~att.bound /\ rec.state = "absent" /\ n = 0
    /\ att.phase = "planned" =>
         ~att.bound /\ rec.state \in {"absent", "reserved"} /\ n = 0
    /\ att.phase \in {"reserved", "routed", "admitted"} =>
         att.bound /\ rec.state = "reserved" /\ n = 0
    /\ att.phase = "dispatched" =>
         att.bound /\ rec.state = "reserved" /\ n \in {0, 1}
    /\ att.phase = "settled" /\ att.bound =>
         \/ n = 1 /\ rec.state = "settled" /\ rec.actual = rec.asked
         \/ n = 0 /\ rec.state = "released"
    /\ att.phase = "settled" /\ ~att.bound =>
         n = 0 /\ rec.state \in {"absent", "reserved", "released"}

\* What a runner that drives an attempt knows about it.
DriverOK(s, att, rec, n, known) ==
    /\ s.pc = "reserve" => att.phase = "planned" /\ rec.state = "absent"
    /\ s.pc = "bind" => att.phase = "planned"
    /\ s.pc = "route" => att.phase = "reserved"
    /\ s.pc = "project" => att.phase = "routed"
    /\ s.pc = "dispatch" => att.phase = "admitted"
    /\ s.pc \in Binding => rec.state = "reserved" /\ rec.asked = s.ask
    /\ s.pc \in {"model", "settle"} =>
         att.phase = "dispatched" /\ rec.asked = s.ask
    /\ s.pc = "model" => n = 0
    /\ s.pc = "settle" => n = 1
    /\ s.pc = "abort" =>
         /\ att.phase \notin {"absent", "settled"}
         /\ n = 0
         /\ s.names => rec.state = "reserved"
         /\ ~s.names => att.phase = "planned"
         /\ ~s.names /\ rec.state = "reserved" => known

Records ==
    \A a \in Ids : RecordOK(attempts.at[a], resources.ledger[a], calls[a])

Drivers ==
    \A r \in Runners :
        run[r].pc \in Driving =>
            DriverOK(run[r], attempts.at[run[r].id], resources.ledger[run[r].id],
                     calls[run[r].id], run[r].id \in lost)

OneDriver ==
    \A r, q \in Runners :
        (run[r].pc \in Driving /\ run[q].pc \in Driving /\ r # q)
            => run[r].id # run[q].id

Invariant == Shape /\ Records /\ Drivers /\ OneDriver /\ OnlyLostAttemptsLinger

-----------------------------------------------------------------------------

\* A phase without a record and one that is settled are the only ones that
\* need no driver.
Open(att, rec) ==
    att.phase \notin {"absent", "settled"} \/ rec.state = "reserved"

\* A step of runner r that changes at most the attempt a keeps the invariant
\* when it leaves a in order and takes it from no other runner.
LEMMA LocalStep ==
    ASSUME Invariant, Shape',
           NEW r \in Runners, NEW a \in Ids \cup {None},
           \A b \in Ids \ {a} : /\ attempts'.at[b] = attempts.at[b]
                                /\ resources'.ledger[b] = resources.ledger[b]
                                /\ calls'[b] = calls[b],
           \A q \in Runners \ {r} : run'[q] = run[q],
           lost \subseteq lost',
           run[r].pc \in Driving => run[r].id = a,
           run'[r].pc \in Driving => run'[r].id = a,
           \A q \in Runners \ {r} : run[q].pc \in Driving => run[q].id # a,
           a \in Ids =>
              /\ RecordOK(attempts'.at[a], resources'.ledger[a], calls'[a])
              /\ run'[r].pc \in Driving =>
                   DriverOK(run'[r], attempts'.at[a], resources'.ledger[a],
                            calls'[a], a \in lost')
              /\ Open(attempts'.at[a], resources'.ledger[a]) =>
                   a \in lost' \/ run'[r].pc \in Driving
    PROVE  Invariant'
<1>1. None \notin Ids
  BY KeysAssumption DEF Keys
<1>2. \A q \in Runners : run[q].pc \in Driving => run[q].id \in Ids
  BY DEF Invariant, Shape, IdShape
<1>3. \A q \in Runners : run'[q].pc \in Driving => run'[q].id \in Ids
  BY DEF Shape, IdShape
<1>4. Records'
  BY DEF Invariant, Records
<1>5. ASSUME NEW q \in Runners, run'[q].pc \in Driving
      PROVE  DriverOK(run'[q], attempts'.at[run'[q].id],
                      resources'.ledger[run'[q].id],
                      calls'[run'[q].id], run'[q].id \in lost')
  <2>1. CASE q = r
    BY <1>1, <1>3, <1>5, <2>1
  <2>2. CASE q # r
    <3>1. run'[q] = run[q] /\ run[q].id # a /\ run[q].id \in Ids
      BY <1>2, <1>5, <2>2
    <3>2. DriverOK(run[q], attempts.at[run[q].id], resources.ledger[run[q].id],
                   calls[run[q].id], run[q].id \in lost)
      BY <1>5, <3>1 DEF Invariant, Drivers
    <3> QED
      BY <3>1, <3>2 DEF DriverOK
  <2> QED
    BY <2>1, <2>2
<1>6. OneDriver'
  BY DEF Invariant, OneDriver
<1>7. ASSUME NEW b \in Ids, Open(attempts'.at[b], resources'.ledger[b])
      PROVE  \/ b \in lost'
             \/ \E q \in Runners : run'[q].id = b /\ run'[q].pc \in Driving
  <2>1. CASE b = a
    BY <1>7, <2>1
  <2>2. CASE b # a
    <3>1. \/ b \in lost
          \/ \E q \in Runners : run[q].id = b /\ run[q].pc \in Driving
      BY <1>7, <2>2 DEF Invariant, OnlyLostAttemptsLinger, Open
    <3> QED
      BY <2>2, <3>1
  <2> QED
    BY <2>1, <2>2
<1> QED
  BY <1>4, <1>5, <1>6, <1>7 DEF Invariant, Drivers, OnlyLostAttemptsLinger, Open

-----------------------------------------------------------------------------
(* Shapes.                                                                 *)

\* There is a first identity above the sequence whenever there is one.
LEMMA NewIdUnused ==
    ASSUME NEW led, Unused(led) # {}
    PROVE  NewId(led) \in Ids
<1>1. Unused(led) \subseteq Ids /\ Ids \subseteq Nat
  BY MaxAttemptsAssumption DEF Unused, Ids
<1> DEFINE R == {ss \in Nat \X Nat : ss[1] < ss[2]}
<1>2. IsWellFoundedOn(R, Nat)
  BY NatLessThanWellFounded, Zenon DEF OpToRel
<1>3. \E x \in Unused(led) : \A y \in Unused(led) : <<y, x>> \notin R
  <2> HIDE DEF R
  <2> QED
    BY <1>1, <1>2, WFMin, Zenon
<1>4. \E x \in Unused(led) : \A y \in Unused(led) : x <= y
  <2>1. PICK x \in Unused(led) : \A y \in Unused(led) : <<y, x>> \notin R
    BY <1>3, Zenon
  <2>2. ASSUME NEW y \in Unused(led) PROVE x <= y
    <3>1. x \in Nat /\ y \in Nat
      BY <1>1, <2>1
    <3>2. ~(y < x)
      <4>1. <<y, x>> \notin R
        BY <2>1
      <4> QED
        BY <3>1, <4>1
    <3> QED
      BY <3>1, <3>2
  <2> QED
    BY <2>1, <2>2
<1> QED
  BY <1>1, <1>4 DEF NewId

LEMMA IdleShape == RunShape(Idle) /\ IdShape(Idle) /\ Idle.pc \notin Driving
  BY DEF Idle, RunShape, IdShape, Driving, Binding, Before

LEMMA FailedShape ==
    ASSUME NEW s, RunShape(s), IdShape(s)
    PROVE  /\ RunShape(Failed(s)) /\ IdShape(Failed(s))
           /\ s.pc \in {"reserve"} \cup Binding =>
                /\ Failed(s).pc = "abort"
                /\ Failed(s).id = s.id
                /\ Failed(s).names = (s.pc # "reserve")
           /\ s.pc \notin {"reserve"} \cup Binding => Failed(s) = Idle
<1>1. CASE s.pc \in {"reserve"} \cup Binding
  BY <1>1 DEF Failed, RunShape, IdShape, Driving
<1>2. CASE s.pc \notin {"reserve"} \cup Binding
  BY <1>2, IdleShape DEF Failed
<1> QED
  BY <1>1, <1>2

LEMMA AnsweredShape ==
    ASSUME NEW s, RunShape(s), IdShape(s),
           s.pc = "allocate" => Unused(s.seen.attempts) # {}
    PROVE  /\ RunShape(Answered(s)) /\ IdShape(Answered(s))
           /\ s.pc \in DOMAIN Follows =>
                /\ Answered(s).pc = Follows[s.pc]
                /\ Answered(s).ask = s.ask
                /\ s.pc # "allocate" => Answered(s).id = s.id
           /\ s.pc \notin DOMAIN Follows => Answered(s) = Idle
<1>1. CASE s.pc \in DOMAIN Follows
  <2>1. RunShape(Answered(s)) /\ Answered(s).pc = Follows[s.pc]
        /\ Answered(s).ask = s.ask /\ ~Answered(s).inflight
        /\ (s.pc # "allocate" => Answered(s).id = s.id)
        /\ (s.pc = "allocate" => Answered(s).id = NewId(s.seen.attempts))
    BY <1>1 DEF Answered, RunShape
  <2>2. s.pc = "allocate" => Answered(s).id \in Ids
    BY <2>1, NewIdUnused
  <2>3. IdShape(Answered(s))
    BY <1>1, <2>1, <2>2 DEF IdShape, Follows, Driving, Binding, Before
  <2> QED
    BY <1>1, <2>1, <2>3
<1>2. CASE s.pc \notin DOMAIN Follows
  BY <1>2, IdleShape DEF Answered
<1> QED
  BY <1>1, <1>2

-----------------------------------------------------------------------------
(* What a committed call has done.                                         *)

\* A call on the attempt ledger replaces one attempt's record at most.
LEMMA AttemptsWritten ==
    ASSUME Shape, NEW r \in Runners, Commits(run[r])
    PROVE  LET s == run[r] IN
           /\ attempts' = [next |-> attempts'.next, at |-> attempts'.at]
           /\ attempts'.at = [a \in Ids |-> attempts'.at[a]]
           /\ \A b \in Ids \ {s.id} : attempts'.at[b] = attempts.at[b]
           /\ s.pc = "create" =>
                /\ attempts.at[s.id].phase = "absent"
                /\ attempts'.at[s.id] = [NoAttempt EXCEPT !.phase = "planned",
                                           !.kind = s.kind, !.parent = s.parent]
           /\ s.pc \in Binding =>
                /\ attempts.at[s.id].phase = Before[s.pc]
                /\ attempts'.at[s.id] =
                     [attempts.at[s.id] EXCEPT !.phase = After[s.pc],
                        !.bound = IF s.pc = "bind" THEN TRUE ELSE @]
           /\ s.pc = "settle" => attempts.at[s.id].phase = "dispatched"
           /\ s.pc = "abort" =>
                attempts.at[s.id].phase \notin {"absent", "dispatched", "settled"}
           /\ s.pc \in {"settle", "abort"} =>
                attempts'.at[s.id] =
                     [attempts.at[s.id] EXCEPT !.phase = "settled",
                                               !.outcome = s.outcome]
           /\ s.pc \notin {"create", "settle", "abort"} \cup Binding =>
                attempts'.at = attempts.at
<1> DEFINE s == run[r]
<1>1. s.pc \in {"create", "settle", "abort"} \cup Binding => s.id \in Ids
  BY DEF Shape, IdShape, Driving
<1>2. s.pc \in Binding <=> s.pc \in {"bind", "route", "project", "dispatch"}
  BY DEF Binding, Before
<1>3. CASE s.pc = "allocate"
  <2>1. attempts' = [attempts EXCEPT !.next = NewId(attempts)]
    BY <1>3, <1>2 DEF Commits, Unmoved, WriteAttempts, UsesAttempts, AttemptCalls
  <2> QED
    BY <1>2, <1>3, <2>1 DEF Shape
<1>4. CASE s.pc = "create"
  <2>1. attempts' = Created(attempts, s.id, s.kind, s.parent)
    BY <1>4, <1>2 DEF Commits, Unmoved, WriteAttempts, UsesAttempts, AttemptCalls
  <2>2. attempts.at[s.id].phase = "absent"
    BY <1>4, <1>2 DEF Commits, Accepts, Unmoved, UsesAttempts, AttemptCalls, CanCreate
  <2> QED
    BY <1>1, <1>2, <1>4, <2>1, <2>2 DEF Shape, Created
<1>5. CASE s.pc \in Binding
  <2>1. attempts' = Bound(attempts, s.id, s.pc)
    BY <1>5, <1>2 DEF Commits, Unmoved, WriteAttempts, UsesAttempts, AttemptCalls
  <2>2. attempts.at[s.id].phase = Before[s.pc]
    BY <1>5, <1>2 DEF Commits, Accepts, Unmoved, UsesAttempts, AttemptCalls
  <2> QED
    BY <1>1, <1>2, <1>5, <2>1, <2>2 DEF Shape, Bound, AttemptShape
<1>6. CASE s.pc \in {"settle", "abort"}
  <2>1. attempts' = Closed(attempts, s.id, s.outcome)
    BY <1>6, <1>2 DEF Commits, Unmoved, WriteAttempts, UsesAttempts, AttemptCalls
  <2>2. /\ s.pc = "settle" => attempts.at[s.id].phase = "dispatched"
        /\ s.pc = "abort" =>
             attempts.at[s.id].phase \notin {"absent", "dispatched", "settled"}
    BY <1>6, <1>2 DEF Commits, Accepts, Unmoved, UsesAttempts, AttemptCalls, CanAbort
  <2> QED
    BY <1>1, <1>2, <1>6, <2>1, <2>2 DEF Shape, Closed, AttemptShape
<1>7. CASE s.pc \in {"reserve", "admit", "start", "finish"}
  <2>1. attempts' = attempts
    BY <1>7, <1>2 DEF Commits, WriteAttempts, UsesAttempts, AttemptCalls
  <2> QED
    BY <1>2, <1>7, <2>1 DEF Shape
<1>8. s.pc \in {"allocate", "create", "reserve", "settle", "abort", "admit",
                "start", "finish"} \cup Binding
  BY DEF Commits, Accepts
<1> QED
  BY <1>3, <1>4, <1>5, <1>6, <1>7, <1>8

\* A call on the resource ledger replaces one reservation at most; the
\* reservation of an attempt is not that of a task.
LEMMA ResourcesWritten ==
    ASSUME Shape, NEW r \in Runners, Commits(run[r])
    PROVE  LET s == run[r] IN
           /\ resources' = [ledger |-> resources'.ledger, task |-> resources'.task]
           /\ resources'.ledger = [k \in Keys |-> resources'.ledger[k]]
           /\ \A k \in Keys : ReservationShape(resources'.ledger[k])
           /\ \A b \in Ids \ {s.id} : resources'.ledger[b] = resources.ledger[b]
           /\ s.pc = "reserve" =>
                /\ resources.ledger[s.id].state = "absent"
                /\ resources'.ledger[s.id].state = "reserved"
                /\ resources'.ledger[s.id].asked = s.ask
           /\ s.pc = "settle" =>
                /\ resources.ledger[s.id].state = "reserved"
                /\ resources'.ledger[s.id].state = "settled"
                /\ resources'.ledger[s.id].asked = resources.ledger[s.id].asked
                /\ resources'.ledger[s.id].actual = s.ask
           /\ s.pc = "abort" /\ s.names =>
                /\ resources.ledger[s.id].state = "reserved"
                /\ resources'.ledger[s.id].state = "released"
           /\ \/ s.pc \notin {"reserve", "settle", "abort"}
              \/ s.pc = "abort" /\ ~s.names
              => \A b \in Ids : resources'.ledger[b] = resources.ledger[b]
<1> DEFINE s == run[r]
<1>1. s.pc \in Driving => s.id \in Ids
  BY DEF Shape, IdShape
<1>2. s.pc \in Binding <=> s.pc \in {"bind", "route", "project", "dispatch"}
  BY DEF Binding, Before
<1>3. s.pc \in {"admit", "start", "finish"} => s.id \in Tasks
  BY DEF Shape, IdShape
<1>4. Ids \subseteq Keys /\ Tasks \subseteq Keys /\ Ids \cap Tasks = {}
  BY KeysAssumption, MaxAttemptsAssumption DEF Keys, Ids
<1>5. CASE s.pc = "reserve"
  <2>1. resources' = [resources EXCEPT !.ledger = Reserved(@, s.id, s.within, s.ask)]
    BY <1>5, <1>2 DEF Commits, Unmoved, WriteResources, UsesResources, ResourceCalls
  <2>2. resources.ledger[s.id].state = "absent"
    BY <1>5, <1>2 DEF Commits, Accepts, Unmoved, UsesResources, ResourceCalls, CanReserve
  <2>3. s.id \in Ids /\ s.id \in Keys
    BY <1>1, <1>4, <1>5 DEF Driving
  <2>4. /\ resources' = [ledger |-> resources'.ledger, task |-> resources'.task]
        /\ resources'.ledger = Reserved(resources.ledger, s.id, s.within, s.ask)
    BY <2>1 DEF Shape
  <2>5. /\ resources'.ledger = [k \in Keys |-> resources'.ledger[k]]
        /\ \A k \in Keys \ {s.id} : resources'.ledger[k] = resources.ledger[k]
        /\ resources'.ledger[s.id] =
             [resources.ledger[s.id] EXCEPT !.state = "reserved", !.parent = s.within, !.asked = s.ask]
    BY <2>3, <2>4 DEF Shape, Reserved, ReservationShape
  <2>6. ReservationShape(resources.ledger[s.id])
    BY <2>3 DEF Shape
  <2>7. \A k \in Keys : ReservationShape(resources'.ledger[k])
    BY <2>5, <2>6 DEF Shape, ReservationShape
  <2> QED
    BY <1>4, <1>5, <2>2, <2>3, <2>4, <2>5, <2>6, <2>7 DEF ReservationShape
<1>6. CASE s.pc = "settle"
  <2>1. resources' = [resources EXCEPT !.ledger = Settled(@, s.id, s.ask)]
    BY <1>6, <1>2 DEF Commits, Unmoved, WriteResources, UsesResources, ResourceCalls
  <2>2. resources.ledger[s.id].state = "reserved"
    BY <1>6, <1>2 DEF Commits, Accepts, Unmoved, UsesResources, ResourceCalls,
                      CanSettle, CanRelease
  <2>3. s.id \in Ids /\ s.id \in Keys
    BY <1>1, <1>4, <1>6 DEF Driving
  <2>4. /\ resources' = [ledger |-> resources'.ledger, task |-> resources'.task]
        /\ resources'.ledger = Settled(resources.ledger, s.id, s.ask)
    BY <2>1 DEF Shape
  <2>5. /\ resources'.ledger = [k \in Keys |-> resources'.ledger[k]]
        /\ \A k \in Keys \ {s.id} : resources'.ledger[k] = resources.ledger[k]
        /\ resources'.ledger[s.id] =
             [resources.ledger[s.id] EXCEPT !.state = "settled", !.actual = s.ask]
    BY <2>3, <2>4 DEF Shape, Settled, ReservationShape
  <2>6. ReservationShape(resources.ledger[s.id])
    BY <2>3 DEF Shape
  <2>7. \A k \in Keys : ReservationShape(resources'.ledger[k])
    BY <2>5, <2>6 DEF Shape, ReservationShape
  <2> QED
    BY <1>4, <1>6, <2>2, <2>3, <2>4, <2>5, <2>6, <2>7 DEF ReservationShape
<1>7. CASE s.pc = "abort" /\ s.names
  <2>1. resources' = [resources EXCEPT !.ledger = Released(@, s.id)]
    BY <1>7, <1>2 DEF Commits, Unmoved, WriteResources, UsesResources, ResourceCalls
  <2>2. resources.ledger[s.id].state = "reserved"
    BY <1>7, <1>2 DEF Commits, Accepts, Unmoved, UsesResources, ResourceCalls, CanRelease
  <2>3. s.id \in Ids /\ s.id \in Keys
    BY <1>1, <1>4, <1>7 DEF Driving
  <2>4. /\ resources' = [ledger |-> resources'.ledger, task |-> resources'.task]
        /\ resources'.ledger = Released(resources.ledger, s.id)
    BY <2>1 DEF Shape
  <2>5. /\ resources'.ledger = [k \in Keys |-> resources'.ledger[k]]
        /\ \A k \in Keys \ {s.id} : resources'.ledger[k] = resources.ledger[k]
        /\ resources'.ledger[s.id] =
             [resources.ledger[s.id] EXCEPT !.state = "released"]
    BY <2>3, <2>4 DEF Shape, Released, ReservationShape
  <2>6. ReservationShape(resources.ledger[s.id])
    BY <2>3 DEF Shape
  <2>7. \A k \in Keys : ReservationShape(resources'.ledger[k])
    BY <2>5, <2>6 DEF Shape, ReservationShape
  <2> QED
    BY <1>4, <1>7, <2>2, <2>3, <2>4, <2>5, <2>6, <2>7 DEF ReservationShape
<1>8. CASE s.pc = "admit"
  <2>1. resources' = [resources EXCEPT
                        !.ledger = Reserved(@, s.id, s.within, s.ask),
                        !.task[s.id] = "pending"]
    BY <1>8, <1>2 DEF Commits, Unmoved, WriteResources, UsesResources, ResourceCalls
  <2> QED
    BY <1>3, <1>4, <1>8, <2>1 DEF Shape, Reserved, ReservationShape
<1>9. CASE s.pc = "start"
  <2>1. resources' = [resources EXCEPT !.task[s.id] = "running"]
    BY <1>9, <1>2 DEF Commits, Unmoved, WriteResources, UsesResources, ResourceCalls
  <2> QED
    BY <1>9, <2>1 DEF Shape
<1>10. CASE s.pc = "finish"
  <2>1. resources' = [resources EXCEPT !.ledger = Settled(@, s.id, s.ask),
                                       !.task[s.id] = s.outcome]
    BY <1>10, <1>2 DEF Commits, Unmoved, WriteResources, UsesResources, ResourceCalls
  <2> QED
    BY <1>3, <1>4, <1>10, <2>1 DEF Shape, Settled, ReservationShape
<1>11. CASE ~UsesResources(s)
  <2>1. resources' = resources
    BY <1>11 DEF Commits, WriteResources, UsesResources, ResourceCalls
  <2> QED
    BY <1>11, <2>1 DEF Shape, UsesResources, ResourceCalls
<1> QED
  BY <1>5, <1>6, <1>7, <1>8, <1>9, <1>10, <1>11 DEF UsesResources, ResourceCalls

LEMMA CommitShape ==
    ASSUME Shape, NEW r \in Runners, Commits(run[r]),
           NEW next, RunShape(next), IdShape(next),
           run' = [run EXCEPT ![r] = next], calls' = calls
    PROVE  Shape'
<1> DEFINE s == run[r]
<1>1. \A a \in Ids : AttemptShape(attempts'.at[a])
  <2>1. s.pc \in {"create", "settle", "abort"} \cup Binding => s.id \in Ids
    BY DEF Shape, IdShape, Driving
  <2>2. s.id \in Ids => AttemptShape(attempts.at[s.id])
    BY DEF Shape
  <2>3. s.pc \in {"create", "settle", "abort"} \cup Binding =>
          AttemptShape(attempts'.at[s.id])
    <3>1. CASE s.pc = "create"
      BY <2>1, <3>1, AttemptsWritten DEF AttemptShape, NoAttempt, Phases
    <3>2. CASE s.pc \in {"settle", "abort"}
      BY <2>1, <2>2, <3>2, AttemptsWritten DEF AttemptShape, Phases
    <3>3. CASE s.pc \in Binding
      <4>1. After[s.pc] \in Phases
        BY <3>3 DEF After, Binding, Before, Phases
      <4>2. attempts'.at[s.id] =
              [attempts.at[s.id] EXCEPT !.phase = After[s.pc],
                 !.bound = IF s.pc = "bind" THEN TRUE ELSE @]
        BY <3>3, AttemptsWritten
      <4>3. AttemptShape(attempts.at[s.id])
        BY <2>1, <2>2, <3>3
      <4> HIDE DEF s
      <4>4. CASE s.pc = "bind"
        BY <4>1, <4>2, <4>3, <4>4 DEF AttemptShape
      <4>5. CASE s.pc # "bind"
        BY <4>1, <4>2, <4>3, <4>5 DEF AttemptShape
      <4> QED
        BY <4>4, <4>5
    <3> QED
      BY <3>1, <3>2, <3>3
  <2> QED
    BY <2>1, <2>3, AttemptsWritten DEF Shape
<1>2. /\ run' = [q \in Runners |-> run'[q]]
      /\ \A q \in Runners : RunShape(run'[q]) /\ IdShape(run'[q])
  BY DEF Shape
<1> QED
  BY <1>1, <1>2, AttemptsWritten, ResourcesWritten DEF Shape

\* The pcs of a commit, for the case analyses below.
LEMMA CommitCases ==
    ASSUME NEW s, Commits(s)
    PROVE  \/ s.pc \in {"allocate", "admit", "start", "finish"}
           \/ s.pc = "create"
           \/ s.pc = "reserve"
           \/ s.pc \in Binding
           \/ s.pc = "settle"
           \/ s.pc = "abort" /\ s.names
           \/ s.pc = "abort" /\ ~s.names
  BY DEF Commits, Accepts

\* No runner drives an attempt that another drives, or that does not exist.
LEMMA NoOtherDriver ==
    ASSUME Invariant, NEW r \in Runners, NEW a \in Ids,
           \/ attempts.at[a].phase = "absent"
           \/ run[r].pc \in Driving /\ run[r].id = a
    PROVE  \A q \in Runners \ {r} : run[q].pc \in Driving => run[q].id # a
<1>1. CASE run[r].pc \in Driving /\ run[r].id = a
  BY <1>1 DEF Invariant, OneDriver
<1>2. CASE attempts.at[a].phase = "absent"
  <2>1. ASSUME NEW q \in Runners, run[q].pc \in Driving, run[q].id = a PROVE FALSE
    <3>1. DriverOK(run[q], attempts.at[a], resources.ledger[a], calls[a], a \in lost)
      BY <2>1 DEF Invariant, Drivers
    <3>2. RecordOK(attempts.at[a], resources.ledger[a], calls[a])
      BY DEF Invariant, Records
    <3> QED
      BY <1>2, <2>1, <3>1, <3>2 DEF DriverOK, RecordOK, Driving, Binding, Before
  <2> QED
    BY <2>1
<1> QED
  BY <1>1, <1>2

\* A commit that leaves its own attempt in order keeps the invariant.
LEMMA CommitStep ==
    ASSUME Invariant, NEW r \in Runners, Commits(run[r]),
           NEW next, RunShape(next), IdShape(next),
           run' = [run EXCEPT ![r] = next], calls' = calls, lost \subseteq lost',
           LET s == run[r] IN
           \/ /\ s.pc \in {"allocate", "admit", "start", "finish"}
              /\ next.pc \notin Driving
           \/ /\ s.pc \in {"create"} \cup Driving
              /\ RecordOK(attempts'.at[s.id], resources'.ledger[s.id], calls[s.id])
              /\ next.pc \in Driving =>
                   /\ next.id = s.id
                   /\ DriverOK(next, attempts'.at[s.id], resources'.ledger[s.id],
                               calls[s.id], s.id \in lost')
              /\ Open(attempts'.at[s.id], resources'.ledger[s.id]) =>
                   s.id \in lost' \/ next.pc \in Driving
    PROVE  Invariant'
<1> DEFINE s == run[r]
<1>0. /\ Shape /\ RunShape(s) /\ IdShape(s)
      /\ s.pc \in Driving \cup {"create"} => s.id \in Ids
  BY DEF Invariant, Shape, IdShape
<1>3. run'[r] = next /\ \A q \in Runners \ {r} : run'[q] = run[q]
  BY <1>0 DEF Shape
<1>4. Shape'
  BY <1>0, CommitShape
<1>5. CASE s.pc \in {"allocate", "admit", "start", "finish"} /\ next.pc \notin Driving
  <2>1. s.pc \notin Driving
    BY <1>5 DEF Driving, Binding, Before
  <2>2. \A b \in Ids : /\ attempts'.at[b] = attempts.at[b]
                       /\ resources'.ledger[b] = resources.ledger[b]
    BY <1>0, <1>5, AttemptsWritten, ResourcesWritten DEF Binding, Before
  <2>3. \A q \in Runners : run[q].pc \in Driving => run[q].id # None
    BY <1>0, KeysAssumption DEF Shape, IdShape, Keys
  <2>4. None \notin Ids
    BY KeysAssumption DEF Keys
  <2> QED
    BY <1>3, <1>4, <1>5, <2>1, <2>2, <2>3, <2>4, LocalStep
<1>6. CASE s.pc \in {"create"} \cup Driving
  <2>1. \A q \in Runners \ {r} : run[q].pc \in Driving => run[q].id # s.id
    <3>1. s.pc = "create" => attempts.at[s.id].phase = "absent"
      BY <1>0, AttemptsWritten
    <3> QED
      BY <1>0, <1>6, <3>1, NoOtherDriver
  <2>2. \A b \in Ids \ {s.id} : /\ attempts'.at[b] = attempts.at[b]
                               /\ resources'.ledger[b] = resources.ledger[b]
    BY <1>0, AttemptsWritten, ResourcesWritten
  <2>3. s.pc \notin {"allocate", "admit", "start", "finish"}
    BY <1>6 DEF Driving, Binding, Before
  <2> QED
    BY <1>0, <1>3, <1>4, <1>6, <2>1, <2>2, <2>3, LocalStep
<1> QED
  BY <1>5, <1>6

LEMMA CallSucceedsKeeps ==
    ASSUME Invariant, NEW r \in Runners, CallSucceeds(r)
    PROVE  Invariant'
<1> DEFINE s == run[r]
<1>0. /\ Shape /\ RunShape(s) /\ IdShape(s) /\ Commits(s)
      /\ s.pc \in Driving \cup {"create"} => s.id \in Ids
  BY DEF Invariant, Shape, CallSucceeds, IdShape
<1>1. s.pc = "allocate" => Unused(s.seen.attempts) # {}
  BY <1>0 DEF Commits, Accepts, CanAllocate, Binding, Before
<1>2. /\ RunShape(Answered(s)) /\ IdShape(Answered(s))
      /\ s.pc \in DOMAIN Follows =>
            /\ Answered(s).pc = Follows[s.pc]
            /\ Answered(s).ask = s.ask
            /\ s.pc # "allocate" => Answered(s).id = s.id
      /\ s.pc \notin DOMAIN Follows => Answered(s) = Idle
  BY <1>0, <1>1, AnsweredShape
<1>3. /\ run' = [run EXCEPT ![r] = Answered(s)]
      /\ run'[r] = Answered(s)
      /\ \A q \in Runners \ {r} : run'[q] = run[q]
      /\ calls' = calls /\ lost' = lost
  BY <1>0 DEF CallSucceeds, Shape
<1>5. CASE s.pc \in {"allocate", "admit", "start", "finish"}
  <2>1. Answered(s).pc \notin Driving
    BY <1>2, <1>5, IdleShape DEF Driving, Binding, Before, Follows
  <2> QED
    BY <1>0, <1>2, <1>3, <1>5, <2>1, CommitStep
<1>6. ASSUME s.pc \in {"create"} \cup Driving,
             RecordOK(attempts'.at[s.id], resources'.ledger[s.id], calls[s.id]),
             Answered(s).pc \in Driving =>
               /\ Answered(s).id = s.id
               /\ DriverOK(Answered(s), attempts'.at[s.id], resources'.ledger[s.id],
                           calls[s.id], s.id \in lost),
             Open(attempts'.at[s.id], resources'.ledger[s.id]) =>
               s.id \in lost \/ Answered(s).pc \in Driving
      PROVE  Invariant'
  BY <1>0, <1>2, <1>3, <1>6, CommitStep
<1>7. s.pc \in {"create"} \cup Driving =>
        /\ s.id \in Ids
        /\ AttemptShape(attempts.at[s.id])
        /\ RecordOK(attempts.at[s.id], resources.ledger[s.id], calls[s.id])
        /\ s.pc \in Driving =>
             DriverOK(s, attempts.at[s.id], resources.ledger[s.id],
                      calls[s.id], s.id \in lost)
  BY <1>0 DEF Invariant, Records, Drivers, Shape
<1>8. CASE s.pc = "create"
  <2>1. Answered(s).pc = "reserve" /\ Answered(s).id = s.id
    BY <1>2, <1>8 DEF Follows
  <2>2. resources'.ledger[s.id] = resources.ledger[s.id]
    BY <1>0, <1>7, <1>8, ResourcesWritten
  <2>3. attempts.at[s.id].phase = "absent" /\ attempts'.at[s.id].phase = "planned"
        /\ ~attempts'.at[s.id].bound
    BY <1>0, <1>8, AttemptsWritten DEF NoAttempt
  <2> QED
    BY <1>6, <1>7, <1>8, <2>1, <2>2, <2>3
       DEF RecordOK, DriverOK, Driving, Binding, Before
<1>9. CASE s.pc = "reserve"
  <2>1. Answered(s).pc = "bind" /\ Answered(s).id = s.id /\ Answered(s).ask = s.ask
    BY <1>2, <1>9 DEF Follows
  <2>2. resources'.ledger[s.id].state = "reserved" /\ resources'.ledger[s.id].asked = s.ask
    BY <1>0, <1>9, ResourcesWritten
  <2>3. attempts'.at[s.id] = attempts.at[s.id]
    BY <1>0, <1>9, AttemptsWritten DEF Binding, Before
  <2> QED
    BY <1>6, <1>7, <1>9, <2>1, <2>2, <2>3
       DEF RecordOK, DriverOK, Driving, Binding, Before
<1>10. CASE s.pc \in Binding
  <2>1. Answered(s).pc = Follows[s.pc] /\ Answered(s).id = s.id /\ Answered(s).ask = s.ask
    BY <1>2, <1>10 DEF Follows, Binding, Before
  <2>2. resources'.ledger[s.id] = resources.ledger[s.id]
    BY <1>0, <1>7, <1>10, ResourcesWritten DEF Binding, Before, Driving
  <2>3. /\ attempts.at[s.id].phase = Before[s.pc]
        /\ attempts'.at[s.id].phase = After[s.pc]
        /\ attempts'.at[s.id].bound = IF s.pc = "bind" THEN TRUE ELSE attempts.at[s.id].bound
    BY <1>0, <1>7, <1>10, AttemptsWritten DEF AttemptShape, Driving
  <2> QED
    BY <1>6, <1>7, <1>10, <2>1, <2>2, <2>3
       DEF RecordOK, DriverOK, Driving, Binding, Before, After, Follows
<1>11. CASE s.pc = "settle"
  <2>1. Answered(s) = Idle
    BY <1>2, <1>11 DEF Follows
  <2>2. /\ resources'.ledger[s.id].state = "settled"
        /\ resources'.ledger[s.id].actual = s.ask
        /\ resources'.ledger[s.id].asked = resources.ledger[s.id].asked
    BY <1>0, <1>11, ResourcesWritten
  <2>3. /\ attempts'.at[s.id].phase = "settled"
        /\ attempts'.at[s.id].bound = attempts.at[s.id].bound
    BY <1>0, <1>7, <1>11, AttemptsWritten DEF AttemptShape, Driving
  <2> QED
    BY <1>6, <1>7, <1>11, <2>1, <2>2, <2>3, IdleShape
       DEF RecordOK, DriverOK, Driving, Open, Binding, Before
<1>12. CASE s.pc = "abort"
  <2>1. Answered(s) = Idle
    BY <1>2, <1>12 DEF Follows
  <2>2. /\ s.names => resources'.ledger[s.id].state = "released"
        /\ ~s.names => resources'.ledger[s.id] = resources.ledger[s.id]
    BY <1>0, <1>7, <1>12, ResourcesWritten DEF Driving
  <2>3. /\ attempts'.at[s.id].phase = "settled"
        /\ attempts'.at[s.id].bound = attempts.at[s.id].bound
        /\ attempts.at[s.id].phase \notin {"absent", "dispatched", "settled"}
    BY <1>0, <1>7, <1>12, AttemptsWritten DEF AttemptShape, Driving
  <2> QED
    BY <1>6, <1>7, <1>12, <2>1, <2>2, <2>3, IdleShape
       DEF RecordOK, DriverOK, Driving, Open, Binding, Before, AttemptShape, Phases
<1> QED
  BY <1>0, <1>5, <1>8, <1>9, <1>10, <1>11, <1>12, CommitCases

LEMMA AnswerCancelledKeeps ==
    ASSUME Invariant, NEW r \in Runners, AnswerCancelled(r)
    PROVE  Invariant'
<1> DEFINE s == run[r]
           next == Failed(s)
<1>0. /\ Shape /\ RunShape(s) /\ IdShape(s) /\ Commits(s)
  BY DEF Invariant, Shape, AnswerCancelled
<1>1. /\ RunShape(next) /\ IdShape(next)
      /\ s.pc \in {"reserve"} \cup Binding =>
           next.pc = "abort" /\ next.id = s.id /\ next.names = (s.pc # "reserve")
      /\ s.pc \notin {"reserve"} \cup Binding => next = Idle
  BY <1>0, FailedShape
<1>2. run' = [run EXCEPT ![r] = next] /\ calls' = calls /\ lost' = lost \cup Unheard(s)
  BY DEF AnswerCancelled
<1>3. s.pc \in {"create"} \cup Driving =>
        /\ s.id \in Ids
        /\ AttemptShape(attempts.at[s.id])
        /\ RecordOK(attempts.at[s.id], resources.ledger[s.id], calls[s.id])
        /\ s.pc \in Driving =>
             DriverOK(s, attempts.at[s.id], resources.ledger[s.id],
                      calls[s.id], s.id \in lost)
  BY <1>0 DEF Invariant, Records, Drivers, Shape, IdShape
<1>4. ASSUME s.pc \in {"create"} \cup Driving,
             RecordOK(attempts'.at[s.id], resources'.ledger[s.id], calls[s.id]),
             next.pc \in Driving =>
               /\ next.id = s.id
               /\ DriverOK(next, attempts'.at[s.id], resources'.ledger[s.id],
                           calls[s.id], s.id \in lost'),
             Open(attempts'.at[s.id], resources'.ledger[s.id]) =>
               s.id \in lost' \/ next.pc \in Driving
      PROVE  Invariant'
  <2> HIDE DEF next
  <2> QED
    BY <1>0, <1>1, <1>2, <1>4, CommitStep
<1>5. CASE s.pc \in {"allocate", "admit", "start", "finish"}
  <2>1. next.pc \notin Driving
    BY <1>1, <1>5, IdleShape DEF Binding, Before
  <2> HIDE DEF next
  <2> QED
    BY <1>0, <1>1, <1>2, <1>5, <2>1, CommitStep
<1> HIDE DEF next
<1>6. CASE s.pc = "create"
  <2>1. next = Idle /\ s.id \in lost'
    BY <1>1, <1>2, <1>6 DEF Unheard, Binding, Before
  <2>2. resources'.ledger[s.id] = resources.ledger[s.id]
    BY <1>0, <1>3, <1>6, ResourcesWritten
  <2>3. attempts.at[s.id].phase = "absent" /\ attempts'.at[s.id].phase = "planned"
        /\ ~attempts'.at[s.id].bound
    BY <1>0, <1>6, AttemptsWritten DEF NoAttempt
  <2> QED
    BY <1>3, <1>4, <1>6, <2>1, <2>2, <2>3, IdleShape DEF RecordOK
<1>7. CASE s.pc = "reserve"
  <2>1. next.pc = "abort" /\ next.id = s.id /\ ~next.names /\ s.id \in lost'
    BY <1>1, <1>2, <1>7 DEF Unheard
  <2>2. resources'.ledger[s.id].state = "reserved"
    BY <1>0, <1>7, ResourcesWritten
  <2>3. attempts'.at[s.id] = attempts.at[s.id]
    BY <1>0, <1>7, AttemptsWritten DEF Binding, Before
  <2> QED
    BY <1>3, <1>4, <1>7, <2>1, <2>2, <2>3
       DEF RecordOK, DriverOK, Driving, Binding, Before
<1>8. CASE s.pc \in Binding
  <2>1. next.pc = "abort" /\ next.id = s.id /\ next.names
    BY <1>1, <1>8 DEF Binding, Before
  <2>2. resources'.ledger[s.id] = resources.ledger[s.id]
    BY <1>0, <1>3, <1>8, ResourcesWritten DEF Binding, Before, Driving
  <2>3. /\ attempts.at[s.id].phase = Before[s.pc]
        /\ attempts'.at[s.id].phase = After[s.pc]
        /\ attempts'.at[s.id].bound = IF s.pc = "bind" THEN TRUE ELSE attempts.at[s.id].bound
    BY <1>0, <1>3, <1>8, AttemptsWritten DEF AttemptShape, Driving
  <2> QED
    BY <1>3, <1>4, <1>8, <2>1, <2>2, <2>3
       DEF RecordOK, DriverOK, Driving, Binding, Before, After
<1>9. CASE s.pc = "settle"
  <2>1. next = Idle
    BY <1>1, <1>9 DEF Binding, Before
  <2>2. /\ resources'.ledger[s.id].state = "settled"
        /\ resources'.ledger[s.id].actual = s.ask
        /\ resources'.ledger[s.id].asked = resources.ledger[s.id].asked
    BY <1>0, <1>9, ResourcesWritten
  <2>3. /\ attempts'.at[s.id].phase = "settled"
        /\ attempts'.at[s.id].bound = attempts.at[s.id].bound
    BY <1>0, <1>3, <1>9, AttemptsWritten DEF AttemptShape, Driving
  <2> QED
    BY <1>3, <1>4, <1>9, <2>1, <2>2, <2>3, IdleShape
       DEF RecordOK, DriverOK, Driving, Open, Binding, Before
<1>10. CASE s.pc = "abort"
  <2>1. next = Idle /\ lost \subseteq lost'
    BY <1>1, <1>2, <1>10 DEF Binding, Before
  <2>2. /\ s.names => resources'.ledger[s.id].state = "released"
        /\ ~s.names => resources'.ledger[s.id] = resources.ledger[s.id]
    BY <1>0, <1>3, <1>10, ResourcesWritten DEF Driving
  <2>3. /\ attempts'.at[s.id].phase = "settled"
        /\ attempts'.at[s.id].bound = attempts.at[s.id].bound
        /\ attempts.at[s.id].phase \notin {"absent", "dispatched", "settled"}
    BY <1>0, <1>3, <1>10, AttemptsWritten DEF AttemptShape, Driving
  <2> QED
    BY <1>3, <1>4, <1>10, <2>1, <2>2, <2>3, IdleShape
       DEF RecordOK, DriverOK, Driving, Open, Binding, Before, AttemptShape, Phases
<1> QED
  BY <1>0, <1>5, <1>6, <1>7, <1>8, <1>9, <1>10, CommitCases

-----------------------------------------------------------------------------
(* Steps that commit nothing.                                              *)

LEMMA QuietStep ==
    ASSUME Invariant, NEW r \in Runners,
           UNCHANGED <<attempts, resources, calls>>, lost \subseteq lost',
           NEW next, RunShape(next), IdShape(next),
           run' = [run EXCEPT ![r] = next],
           next.pc \in Driving =>
             /\ run[r].pc \in Driving
             /\ next.id = run[r].id
             /\ DriverOK(next, attempts.at[next.id], resources.ledger[next.id],
                         calls[next.id], next.id \in lost'),
           run[r].pc \in Driving =>
             \/ next.pc \in Driving
             \/ run[r].id \in lost'
    PROVE  Invariant'
<1>1. Shape'
  BY DEF Invariant, Shape
<1>2. run'[r] = next /\ \A q \in Runners \ {r} : run'[q] = run[q]
  BY DEF Invariant, Shape
<1>3. CASE run[r].pc \in Driving
  <2>1. run[r].id \in Ids
    BY <1>3 DEF Invariant, Shape, IdShape
  <2>2. \A q \in Runners \ {r} : run[q].pc \in Driving => run[q].id # run[r].id
    BY <1>3, <2>1, NoOtherDriver
  <2>3. RecordOK(attempts.at[run[r].id], resources.ledger[run[r].id], calls[run[r].id])
    BY <2>1 DEF Invariant, Records
  <2> QED
    BY <1>1, <1>2, <1>3, <2>1, <2>2, <2>3, LocalStep
<1>4. CASE run[r].pc \notin Driving
  <2>1. None \notin Ids
    BY KeysAssumption DEF Keys
  <2>2. \A q \in Runners : run[q].pc \in Driving => run[q].id # None
    BY <2>1 DEF Invariant, Shape, IdShape
  <2> QED
    BY <1>1, <1>2, <1>4, <2>1, <2>2, LocalStep
<1> QED
  BY <1>3, <1>4

\* A call that fails, a stage that fails.
LEMMA FailedKeeps ==
    ASSUME Invariant, NEW r \in Runners,
           UNCHANGED <<attempts, resources, calls>>,
           lost \cup Orphans(run[r]) \subseteq lost',
           run[r].pc # "model",
           run' = [run EXCEPT ![r] = Failed(@)]
    PROVE  Invariant'
<1> DEFINE s == run[r]
           next == Failed(s)
<1>0. RunShape(s) /\ IdShape(s) /\ run' = [run EXCEPT ![r] = next]
  BY DEF Invariant, Shape
<1>1. /\ RunShape(next) /\ IdShape(next)
      /\ s.pc \in {"reserve"} \cup Binding =>
           next.pc = "abort" /\ next.id = s.id /\ next.names = (s.pc # "reserve")
      /\ s.pc \notin {"reserve"} \cup Binding => next = Idle
  BY <1>0, FailedShape
<1> HIDE DEF next
<1>2. CASE s.pc \in {"reserve"} \cup Binding
  <2>1. s.pc \in Driving /\ s.id \in Ids
    BY <1>0, <1>2 DEF IdShape, Driving
  <2>2. /\ RecordOK(attempts.at[s.id], resources.ledger[s.id], calls[s.id])
        /\ DriverOK(s, attempts.at[s.id], resources.ledger[s.id],
                    calls[s.id], s.id \in lost)
    BY <2>1 DEF Invariant, Records, Drivers
  <2>3. DriverOK(next, attempts.at[s.id], resources.ledger[s.id],
                 calls[s.id], s.id \in lost')
    BY <1>1, <1>2, <2>2 DEF DriverOK, RecordOK, Binding, Before
  <2>4. next.pc \in Driving
    BY <1>1, <1>2 DEF Driving
  <2> QED
    BY <1>0, <1>1, <1>2, <2>1, <2>3, <2>4, QuietStep
<1>3. CASE s.pc \notin {"reserve"} \cup Binding
  <2>1. next = Idle /\ next.pc \notin Driving
    BY <1>1, <1>3, IdleShape
  <2>2. s.pc \in Driving => s.id \in lost'
    BY <1>3 DEF Driving, Orphans
  <2> QED
    BY <1>0, <1>1, <2>1, <2>2, QuietStep
<1> QED
  BY <1>2, <1>3

LEMMA ReadKeeps ==
    ASSUME Invariant, NEW r \in Runners, Read(r)
    PROVE  Invariant'
<1> DEFINE s == run[r]
           next == [s EXCEPT !.inflight = TRUE,
                             !.seen = [attempts |-> IF UsesAttempts(s) THEN attempts ELSE None,
                                       resources |-> IF UsesResources(s) THEN resources ELSE None]]
<1>1. RunShape(s) /\ IdShape(s) /\ run = [q \in Runners |-> run[q]]
  BY DEF Invariant, Shape
<1>2. /\ run' = [run EXCEPT ![r] = next]
      /\ s.pc \in AttemptCalls \cup ResourceCalls
  BY DEF Read
<1>n. next = [s EXCEPT !.inflight = TRUE, !.seen =
                [attempts |-> IF UsesAttempts(s) THEN attempts ELSE None,
                 resources |-> IF UsesResources(s) THEN resources ELSE None]]
  OBVIOUS
<1> HIDE DEF next
<1>3. /\ next.pc = s.pc /\ next.id = s.id /\ next.names = s.names
      /\ next.ask = s.ask /\ RunShape(next)
  <2> HIDE DEF s
  <2> QED
    BY <1>1, <1>n DEF RunShape
<1>4. IdShape(next)
  BY <1>1, <1>2, <1>3 DEF IdShape, AttemptCalls, ResourceCalls, Binding, Before
<1>5. next.pc \in Driving =>
        DriverOK(next, attempts.at[next.id], resources.ledger[next.id],
                 calls[next.id], next.id \in lost)
  BY <1>3 DEF Invariant, Drivers, DriverOK
<1>6. UNCHANGED <<attempts, resources, calls>> /\ lost' = lost
  BY DEF Read
<1> QED
  BY <1>2, <1>3, <1>4, <1>5, <1>6, QuietStep

\* A runner that starts, plans, or gives up before it has an attempt.
LEMMA StartKeeps ==
    ASSUME Invariant, NEW r \in Runners,
           UNCHANGED <<attempts, resources, calls, lost>>,
           run[r].pc \notin Driving,
           NEW next, RunShape(next), IdShape(next), next.pc \notin Driving,
           run' = [run EXCEPT ![r] = next]
    PROVE  Invariant'
  BY QuietStep

LEMMA CallModelKeeps ==
    ASSUME Invariant, NEW r \in Runners, NEW outcome, CallModel(r, outcome)
    PROVE  Invariant'
<1> DEFINE s == run[r]
           next == [s EXCEPT !.pc = "settle", !.outcome = outcome]
<1>1. RunShape(s) /\ IdShape(s) /\ run = [q \in Runners |-> run[q]]
  BY DEF Invariant, Shape
<1>2. run' = [run EXCEPT ![r] = next] /\ s.pc = "model"
  BY DEF CallModel
<1>n. next = [s EXCEPT !.pc = "settle", !.outcome = outcome]
  OBVIOUS
<1> HIDE DEF next
<1>3. /\ next.pc = "settle" /\ next.id = s.id /\ next.ask = s.ask /\ RunShape(next)
  <2> HIDE DEF s
  <2> QED
    BY <1>1, <1>n DEF RunShape
<1>4. s.pc \in Driving /\ next.pc \in Driving /\ s.id \in Ids
  BY <1>1, <1>2, <1>3 DEF IdShape, Driving
<1>5. IdShape(next)
  BY <1>3, <1>4 DEF IdShape
<1>6. /\ calls' = [calls EXCEPT ![s.id] = @ + 1]
      /\ attempts' = attempts /\ resources' = resources /\ lost' = lost
  BY DEF CallModel
<1>7. /\ RecordOK(attempts.at[s.id], resources.ledger[s.id], calls[s.id])
      /\ DriverOK(s, attempts.at[s.id], resources.ledger[s.id],
                  calls[s.id], s.id \in lost)
  BY <1>4 DEF Invariant, Records, Drivers
<1>8. calls'[s.id] = 1
  BY <1>2, <1>4, <1>6, <1>7 DEF DriverOK, Invariant, Shape
<1>9. /\ RecordOK(attempts.at[s.id], resources.ledger[s.id], calls'[s.id])
      /\ DriverOK(next, attempts.at[s.id], resources.ledger[s.id],
                  calls'[s.id], s.id \in lost)
  BY <1>2, <1>3, <1>7, <1>8 DEF RecordOK, DriverOK, Binding, Before
<1>10. Shape'
  BY <1>2, <1>3, <1>5, <1>6 DEF Invariant, Shape
<1>11. run'[r] = next /\ \A q \in Runners \ {r} : run'[q] = run[q]
  BY <1>1, <1>2
<1>12. \A b \in Ids \ {s.id} : calls'[b] = calls[b]
  BY <1>6 DEF Invariant, Shape
<1>13. \A q \in Runners \ {r} : run[q].pc \in Driving => run[q].id # s.id
  BY <1>4, NoOtherDriver
<1> QED
  BY <1>3, <1>4, <1>6, <1>9, <1>10, <1>11, <1>12, <1>13, LocalStep

LEMMA CrashKeeps ==
    ASSUME Invariant, Crash
    PROVE  Invariant'
<1>1. /\ run' = [r \in Runners |-> Idle]
      /\ attempts' = attempts /\ resources' = resources /\ calls' = calls
      /\ lost' = lost \cup {run[r].id : r \in {q \in Runners : run[q].pc \in Driving}}
  BY DEF Crash
<1>2. \A r \in Runners : run'[r].pc \notin Driving
  BY <1>1, IdleShape
<1>3. Shape'
  BY <1>1, IdleShape DEF Invariant, Shape
<1>4. OnlyLostAttemptsLinger'
  BY <1>1 DEF Invariant, OnlyLostAttemptsLinger
<1> QED
  BY <1>1, <1>2, <1>3, <1>4 DEF Invariant, Records, Drivers, OneDriver

-----------------------------------------------------------------------------
(* The invariant.                                                          *)

\* The empty records of a first start satisfy the invariant
\* (attempt_service.rs AttemptPlugin::start).
THEOREM InitInvariant == Init => Invariant
<1> SUFFICES ASSUME Init PROVE Invariant
  OBVIOUS
<1>1. \A a \in Ids : attempts.at[a] = NoAttempt /\ calls[a] = 0
  BY DEF Init
<1>2. \A k \in Keys : resources.ledger[k] = NoReservation
  BY DEF Init
<1>3. \A r \in Runners : run[r] = Idle
  BY DEF Init
<1>4. Ids \subseteq Keys
  BY DEF Keys
<1>5. Shape
  <2>1. AttemptShape(NoAttempt) /\ ReservationShape(NoReservation)
    BY DEF AttemptShape, ReservationShape, NoAttempt, NoReservation, Phases
  <2> QED
    BY <1>1, <1>2, <1>3, <2>1, IdleShape DEF Init, Shape
<1>6. Records
  BY <1>1, <1>2, <1>4 DEF Records, RecordOK, NoAttempt, NoReservation
<1>7. Drivers /\ OneDriver
  BY <1>3, IdleShape DEF Drivers, OneDriver
<1>8. OnlyLostAttemptsLinger
  BY <1>1, <1>2, <1>4 DEF OnlyLostAttemptsLinger, NoAttempt, NoReservation
<1> QED
  BY <1>5, <1>6, <1>7, <1>8 DEF Invariant

\* A runner that starts is idle, and gets a request it can be in.
LEMMA RequestKeeps ==
    ASSUME Invariant, NEW r \in Runners, run[r] = Idle,
           UNCHANGED <<attempts, resources, calls, lost>>,
           NEW next, RunShape(next), ~next.inflight,
           \/ next.pc = "allocate"
           \/ next.pc = "plan" /\ next.id \in Ids
           \/ next.pc \in {"admit", "start", "finish"} /\ next.id \in Tasks,
           run' = [run EXCEPT ![r] = next]
    PROVE  Invariant'
<1>1. IdShape(next) /\ next.pc \notin Driving
  BY DEF IdShape, Driving, Binding, Before
<1> QED
  BY <1>1, IdleShape, StartKeeps

LEMMA PlanKeeps ==
    ASSUME Invariant, NEW r \in Runners, Plan(r)
    PROVE  Invariant'
<1> DEFINE s == run[r]
           next == [s EXCEPT !.pc = "create", !.demand = None,
                             !.within = Payer(s),
                             !.ask = Planned(s.demand,
                                       Remaining(resources.ledger, Payer(s)))]
<1>1. RunShape(s) /\ IdShape(s)
  BY DEF Invariant, Shape
<1>2. run' = [run EXCEPT ![r] = next] /\ s.pc = "plan"
  BY DEF Plan
<1>n. next = [s EXCEPT !.pc = "create", !.demand = None, !.within = Payer(s),
                       !.ask = Planned(s.demand,
                                 Remaining(resources.ledger, Payer(s)))]
  OBVIOUS
<1> HIDE DEF next
<1>3. next.pc = "create" /\ next.id = s.id /\ RunShape(next)
  <2> HIDE DEF s
  <2> QED
    BY <1>1, <1>n DEF RunShape
<1>4. UNCHANGED <<attempts, resources, calls, lost>>
  BY DEF Plan
<1>5. IdShape(next) /\ next.pc \notin Driving /\ s.pc \notin Driving
  BY <1>1, <1>2, <1>3 DEF IdShape, Driving, Binding, Before
<1> QED
  BY <1>2, <1>3, <1>4, <1>5, StartKeeps

LEMMA StepKeeps ==
    ASSUME Invariant, NEW r \in Runners, Step(r)
    PROVE  Invariant'
<1> DEFINE s == run[r]
<1>0. RunShape(s) /\ IdShape(s)
  BY DEF Invariant, Shape
<1>1. CASE Read(r)
  BY <1>1, ReadKeeps
<1>2. CASE CallSucceeds(r)
  BY <1>2, CallSucceedsKeeps
<1>3. CASE CallFails(r)
  <2>1. s.pc # "model"
    BY <1>0, <1>3 DEF CallFails, IdShape
  <2> QED
    BY <1>3, <2>1, FailedKeeps DEF CallFails
<1>4. CASE CallCancelled(r)
  <2>1. s.pc # "model"
    BY <1>0, <1>4 DEF CallCancelled, IdShape
  <2> QED
    BY <1>4, <2>1, FailedKeeps DEF CallCancelled
<1>5. CASE AnswerCancelled(r)
  BY <1>5, AnswerCancelledKeeps
<1>6. ASSUME NEW kind \in Kinds, NEW parent \in Known, NEW demand \in Demands,
             Invoke(r, kind, parent, demand)
      PROVE  Invariant'
  <2> DEFINE next == [Idle EXCEPT !.pc = "allocate", !.kind = kind,
                                  !.parent = parent, !.demand = demand]
  <2>n. next = [Idle EXCEPT !.pc = "allocate", !.kind = kind,
                            !.parent = parent, !.demand = demand]
    OBVIOUS
  <2>2. /\ run[r] = Idle /\ run' = [run EXCEPT ![r] = next]
        /\ UNCHANGED <<attempts, resources, calls, lost>>
    BY <1>6 DEF Invoke
  <2> HIDE DEF next
  <2>1. RunShape(next) /\ ~next.inflight /\ next.pc = "allocate"
    BY <2>n DEF RunShape, Idle
  <2> QED
    BY <2>1, <2>2, RequestKeeps
<1>7. ASSUME NEW kind \in Kinds, NEW parent \in Known, NEW demand \in Demands,
             NEW a \in DirectIds, RunNamed(r, a, kind, parent, demand)
      PROVE  Invariant'
  <2> DEFINE next == [Idle EXCEPT !.pc = "plan", !.id = a, !.kind = kind,
                                  !.parent = parent, !.demand = demand]
  <2>n. next = [Idle EXCEPT !.pc = "plan", !.id = a, !.kind = kind,
                            !.parent = parent, !.demand = demand]
    OBVIOUS
  <2>2. /\ run[r] = Idle /\ run' = [run EXCEPT ![r] = next]
        /\ UNCHANGED <<attempts, resources, calls, lost>>
    BY <1>7 DEF RunNamed
  <2>3. a \in Ids
    BY DirectAssumption
  <2> HIDE DEF next
  <2>1. RunShape(next) /\ ~next.inflight /\ next.pc = "plan" /\ next.id = a
    BY <2>n DEF RunShape, Idle
  <2> QED
    BY <2>1, <2>2, <2>3, RequestKeeps
<1>8. CASE Plan(r)
  BY <1>8, PlanKeeps
<1>9. CASE PlanRefused(r)
  <2>1. s.pc \notin Driving
    BY <1>9 DEF PlanRefused, Driving, Binding, Before
  <2> QED
    BY <1>9, <2>1, IdleShape, StartKeeps DEF PlanRefused
<1>10. CASE StageFails(r)
  <2>1. s.pc # "model" /\ Orphans(s) = {}
    BY <1>10 DEF StageFails, Orphans
  <2> QED
    BY <1>10, <2>1, FailedKeeps DEF StageFails
<1>11. ASSUME NEW outcome, CallModel(r, outcome)
       PROVE  Invariant'
  BY <1>11, CallModelKeeps
<1>12. ASSUME NEW t \in Tasks, NEW parent, NEW asked,
              AdmitDelegated(r, t, parent, asked)
       PROVE  Invariant'
  <2> DEFINE next == [Idle EXCEPT !.pc = "admit", !.id = t,
                                  !.within = parent, !.ask = asked]
  <2>n. next = [Idle EXCEPT !.pc = "admit", !.id = t,
                            !.within = parent, !.ask = asked]
    OBVIOUS
  <2>2. /\ run[r] = Idle /\ run' = [run EXCEPT ![r] = next]
        /\ UNCHANGED <<attempts, resources, calls, lost>>
    BY <1>12 DEF AdmitDelegated, Delegate
  <2> HIDE DEF next
  <2>1. RunShape(next) /\ ~next.inflight /\ next.pc = "admit" /\ next.id = t
    BY <2>n DEF RunShape, Idle
  <2> QED
    BY <2>1, <2>2, RequestKeeps
<1>13. ASSUME NEW t \in Tasks, StartDelegated(r, t)
       PROVE  Invariant'
  <2> DEFINE next == [Idle EXCEPT !.pc = "start", !.id = t]
  <2>n. next = [Idle EXCEPT !.pc = "start", !.id = t]
    OBVIOUS
  <2>2. /\ run[r] = Idle /\ run' = [run EXCEPT ![r] = next]
        /\ UNCHANGED <<attempts, resources, calls, lost>>
    BY <1>13 DEF StartDelegated, Delegate
  <2> HIDE DEF next
  <2>1. RunShape(next) /\ ~next.inflight /\ next.pc = "start" /\ next.id = t
    BY <2>n DEF RunShape, Idle
  <2> QED
    BY <2>1, <2>2, RequestKeeps
<1>14. ASSUME NEW t \in Tasks, NEW actual, NEW outcome,
              FinishDelegated(r, t, actual, outcome)
       PROVE  Invariant'
  <2> DEFINE next == [Idle EXCEPT !.pc = "finish", !.id = t,
                                  !.ask = actual, !.outcome = outcome]
  <2>n. next = [Idle EXCEPT !.pc = "finish", !.id = t,
                            !.ask = actual, !.outcome = outcome]
    OBVIOUS
  <2>2. /\ run[r] = Idle /\ run' = [run EXCEPT ![r] = next]
        /\ UNCHANGED <<attempts, resources, calls, lost>>
    BY <1>14 DEF FinishDelegated, Delegate
  <2> HIDE DEF next
  <2>1. RunShape(next) /\ ~next.inflight /\ next.pc = "finish" /\ next.id = t
    BY <2>n DEF RunShape, Idle
  <2> QED
    BY <2>1, <2>2, RequestKeeps
<1> QED
  BY <1>1, <1>2, <1>3, <1>4, <1>5, <1>6, <1>7, <1>8, <1>9, <1>10, <1>11,
     <1>12, <1>13, <1>14 DEF Step

LEMMA NextKeeps == Invariant /\ [Next]_vars => Invariant'
<1> SUFFICES ASSUME Invariant, [Next]_vars PROVE Invariant'
  OBVIOUS
<1>1. CASE Crash
  BY <1>1, CrashKeeps
<1>2. ASSUME NEW r \in Runners, Step(r) PROVE Invariant'
  BY <1>2, StepKeeps
<1>3. CASE UNCHANGED vars
  BY <1>3 DEF vars, Invariant, Shape, Records, Drivers, OneDriver,
              OnlyLostAttemptsLinger
<1> QED
  BY <1>1, <1>2, <1>3 DEF Next

\* The records, the runners and the drivers agree in every reachable state
\* (runner.rs run, attempt_service.rs, resource_service.rs).
THEOREM InvariantHolds == Spec => []Invariant
<1>1. Init => Invariant
  BY InitInvariant
<1>2. Invariant /\ [Next]_vars => Invariant'
  BY NextKeeps
<1> QED
  BY <1>1, <1>2, PTL DEF Spec

\* Whatever call is cancelled and whenever the process ends, an attempt that
\* lingers is one whose cancelled, cut off or last call was lost (runner.rs
\* fail_before_dispatch).
THEOREM OnlyLostLinger == Spec => []OnlyLostAttemptsLinger
<1>1. Invariant => OnlyLostAttemptsLinger
  BY DEF Invariant
<1> QED
  BY <1>1, InvariantHolds, PTL

\* A model call is made once at most and is paid for (runner.rs run,
\* settle_step).
THEOREM OncePaid == Spec => []CalledOnceAndPaid
<1>1. Invariant => CalledOnceAndPaid
  <2> SUFFICES ASSUME Invariant, NEW a \in Ids
               PROVE  /\ calls[a] <= 1
                      /\ (calls[a] = 1) =>
                           /\ attempts.at[a].phase \in {"dispatched", "settled"}
                           /\ \/ resources.ledger[a].state = "reserved"
                              \/ /\ resources.ledger[a].state = "settled"
                                 /\ resources.ledger[a].actual = resources.ledger[a].asked
    BY DEF CalledOnceAndPaid
  <2>1. /\ RecordOK(attempts.at[a], resources.ledger[a], calls[a])
        /\ attempts.at[a].phase \in Phases
        /\ attempts.at[a].bound \in BOOLEAN
    BY DEF Invariant, Records, Shape, AttemptShape
  <2> QED
    BY <2>1 DEF RecordOK, Phases
<1> QED
  BY <1>1, InvariantHolds, PTL

\* An attempt and its reservation end in one transaction
\* (step_transaction_service.rs handle).
THEOREM TogetherEnded == Spec => []EndTogether
<1>1. Invariant => EndTogether
  <2> SUFFICES ASSUME Invariant, NEW a \in Ids
               PROVE  LET att == attempts.at[a]
                          rec == resources.ledger[a]
                      IN  /\ (rec.state \in {"settled", "released"}) =>
                               (att.phase = "settled")
                          /\ (att.bound /\ att.phase = "settled") =>
                               (rec.state = IF calls[a] = 1
                                              THEN "settled" ELSE "released")
    BY DEF EndTogether
  <2>1. /\ RecordOK(attempts.at[a], resources.ledger[a], calls[a])
        /\ attempts.at[a].phase \in Phases
    BY DEF Invariant, Records, Shape, AttemptShape
  <2> QED
    BY <2>1 DEF RecordOK, Phases
<1> QED
  BY <1>1, InvariantHolds, PTL

-----------------------------------------------------------------------------
(* The runner implements the metered attempt.                              *)

\* A step that moves one attempt the way one action of MeteredAttempt does
\* is a step of MeteredAttempt.
LEMMA MeterMoves ==
    ASSUME NEW a \in Ids,
           calls = [b \in Ids |-> calls[b]], calls' = [b \in Ids |-> calls'[b]],
           \A b \in Ids \ {a} : /\ attempts'.at[b] = attempts.at[b]
                                /\ resources'.ledger[b] = resources.ledger[b]
                                /\ calls'[b] = calls[b],
           NEW p, p = MeterPhase(attempts.at[a]),
           NEW p1, p1 = MeterPhase(attempts'.at[a]),
           NEW q, q = MeterPurse(resources.ledger[a]),
           NEW q1, q1 = MeterPurse(resources'.ledger[a]),
           \/ p1 = p /\ q1 = q /\ calls'[a] = calls[a]
           \/ p = "none" /\ p1 = "open" /\ q1 = q /\ calls'[a] = calls[a]
           \/ p = "open" /\ p1 = p /\ q = "none" /\ q1 = "held" /\ calls'[a] = calls[a]
           \/ p = "open" /\ p1 = "sent" /\ q = "held" /\ q1 = q /\ calls'[a] = calls[a]
           \/ p = "sent" /\ p1 = p /\ q = "held" /\ q1 = q /\ calls[a] = 0 /\ calls'[a] = 1
           \/ p = "sent" /\ p1 = "closed" /\ q = "held" /\ q1 = "spent"
              /\ calls[a] = 1 /\ calls'[a] = calls[a]
           \/ p = "open" /\ p1 = "closed" /\ q = "held" /\ q1 = "freed" /\ calls'[a] = calls[a]
           \/ p = "open" /\ p1 = "closed" /\ q1 = q /\ calls'[a] = calls[a]
    PROVE  [Meter!Next]_(Meter!vars)
<1> DEFINE phase == [b \in Ids |-> MeterPhase(attempts.at[b])]
           purse == [b \in Ids |-> MeterPurse(resources.ledger[b])]
           phase1 == [b \in Ids |-> MeterPhase(attempts'.at[b])]
           purse1 == [b \in Ids |-> MeterPurse(resources'.ledger[b])]
<1>1. /\ phase1 = [phase EXCEPT ![a] = p1]
      /\ purse1 = [purse EXCEPT ![a] = q1]
      /\ calls' = [calls EXCEPT ![a] = calls'[a]]
      /\ phase[a] = p /\ purse[a] = q
  OBVIOUS
<1>2. /\ p1 = p => phase1 = phase
      /\ q1 = q => purse1 = purse
      /\ calls'[a] = calls[a] => calls' = calls
  BY <1>1
<1>3. \/ UNCHANGED Meter!vars
      \/ Meter!Open(a) \/ Meter!Take(a) \/ Meter!Send(a) \/ Meter!Call(a)
      \/ Meter!Settle(a) \/ Meter!Abandon(a) \/ Meter!Forget(a)
  <2> HIDE DEF phase, purse, phase1, purse1
  <2>1. /\ phase = [b \in Ids |-> MeterPhase(attempts.at[b])]
        /\ purse = [b \in Ids |-> MeterPurse(resources.ledger[b])]
        /\ phase1 = [b \in Ids |-> MeterPhase(attempts'.at[b])]
        /\ purse1 = [b \in Ids |-> MeterPurse(resources'.ledger[b])]
    BY DEF phase, purse, phase1, purse1
  <2> QED
    BY <1>1, <1>2, <2>1 DEF Meter!vars, Meter!Open, Meter!Take, Meter!Send,
       Meter!Call, Meter!Settle, Meter!Abandon, Meter!Forget
<1> QED
  BY <1>3 DEF Meter!Next

\* A step that changes no record and calls no model.
LEMMA MeterStutters ==
    ASSUME \A b \in Ids : /\ attempts'.at[b] = attempts.at[b]
                          /\ resources'.ledger[b] = resources.ledger[b],
           calls' = calls
    PROVE  [Meter!Next]_(Meter!vars)
<1>1. /\ [b \in Ids |-> MeterPhase(attempts'.at[b])]
           = [b \in Ids |-> MeterPhase(attempts.at[b])]
      /\ [b \in Ids |-> MeterPurse(resources'.ledger[b])]
           = [b \in Ids |-> MeterPurse(resources.ledger[b])]
  OBVIOUS
<1> QED
  BY <1>1 DEF Meter!vars

LEMMA CommitMeters ==
    ASSUME Invariant, NEW r \in Runners, Commits(run[r]), calls' = calls
    PROVE  [Meter!Next]_(Meter!vars)
<1> DEFINE s == run[r]
           a == s.id
<1>0. Shape /\ IdShape(s)
  BY DEF Invariant, Shape
<1>1. CASE s.pc \in {"allocate", "admit", "start", "finish"}
  BY <1>0, <1>1, AttemptsWritten, ResourcesWritten, MeterStutters DEF Binding, Before
<1>2. CASE s.pc \in {"create"} \cup Driving
  <2>1. /\ a \in Ids
        /\ AttemptShape(attempts.at[a])
        /\ RecordOK(attempts.at[a], resources.ledger[a], calls[a])
        /\ s.pc \in Driving =>
             DriverOK(s, attempts.at[a], resources.ledger[a], calls[a], a \in lost)
    BY <1>0, <1>2 DEF Invariant, Records, Drivers, Shape, IdShape
  <2>2. /\ calls = [b \in Ids |-> calls[b]] /\ calls' = [b \in Ids |-> calls'[b]]
        /\ \A b \in Ids \ {a} : /\ attempts'.at[b] = attempts.at[b]
                                 /\ resources'.ledger[b] = resources.ledger[b]
                                 /\ calls'[b] = calls[b]
    BY <1>0, AttemptsWritten, ResourcesWritten DEF Shape
  <2> DEFINE p == MeterPhase(attempts.at[a])
             p1 == MeterPhase(attempts'.at[a])
             q == MeterPurse(resources.ledger[a])
             q1 == MeterPurse(resources'.ledger[a])
  <2>3. ASSUME \/ p = "none" /\ p1 = "open" /\ q1 = q
               \/ p = "open" /\ p1 = p /\ q1 = q
               \/ p = "open" /\ p1 = p /\ q = "none" /\ q1 = "held"
               \/ p = "open" /\ p1 = "sent" /\ q = "held" /\ q1 = q
               \/ /\ p = "sent" /\ p1 = "closed" /\ q = "held" /\ q1 = "spent"
                  /\ calls[a] = 1
               \/ p = "open" /\ p1 = "closed" /\ q = "held" /\ q1 = "freed"
               \/ p = "open" /\ p1 = "closed" /\ q1 = q
        PROVE  [Meter!Next]_(Meter!vars)
    <3>1. calls'[a] = calls[a]
      OBVIOUS
    <3> HIDE DEF p, p1, q, q1
    <3>2. /\ p = MeterPhase(attempts.at[a]) /\ p1 = MeterPhase(attempts'.at[a])
          /\ q = MeterPurse(resources.ledger[a]) /\ q1 = MeterPurse(resources'.ledger[a])
      BY DEF p, p1, q, q1
    <3> QED
      BY <2>1, <2>2, <2>3, <3>1, <3>2, MeterMoves
  <2>4. CASE s.pc = "create"
    <3>1. resources'.ledger[a] = resources.ledger[a]
      BY <1>0, <2>1, <2>4, ResourcesWritten
    <3>2. attempts.at[a].phase = "absent" /\ attempts'.at[a].phase = "planned"
      BY <1>0, <2>4, AttemptsWritten DEF NoAttempt
    <3>3. p = "none" /\ p1 = "open" /\ q1 = q
      BY <3>1, <3>2 DEF MeterPhase
    <3> QED
      BY <2>3, <3>3
  <2>5. CASE s.pc = "reserve"
    <3>1. resources.ledger[a].state = "absent" /\ resources'.ledger[a].state = "reserved"
      BY <1>0, <2>5, ResourcesWritten
    <3>2. attempts'.at[a] = attempts.at[a]
      BY <1>0, <2>5, AttemptsWritten DEF Binding, Before
    <3>3. attempts.at[a].phase = "planned"
      BY <2>1, <2>5 DEF DriverOK, Driving
    <3>4. p = "open" /\ p1 = p /\ q = "none" /\ q1 = "held"
      BY <3>1, <3>2, <3>3 DEF MeterPhase, MeterPurse
    <3> QED
      BY <2>3, <3>4
  <2>6. CASE s.pc \in Binding
    <3>1. resources'.ledger[a] = resources.ledger[a]
      BY <1>0, <2>1, <2>6, ResourcesWritten DEF Binding, Before
    <3>2. /\ attempts.at[a].phase = Before[s.pc]
          /\ attempts'.at[a].phase = After[s.pc]
      BY <1>0, <2>1, <2>6, AttemptsWritten DEF AttemptShape
    <3>3. resources.ledger[a].state = "reserved"
      BY <2>1, <2>6 DEF DriverOK, Driving
    <3>4. p = "open" /\ q = "held" /\ q1 = q
      BY <2>6, <3>1, <3>2, <3>3 DEF MeterPhase, MeterPurse, Binding, Before
    <3>5. p1 = "open" \/ p1 = "sent"
      BY <2>6, <3>2 DEF MeterPhase, Binding, Before, After
    <3> QED
      BY <2>3, <3>4, <3>5
  <2>7. CASE s.pc = "settle"
    <3>1. /\ resources.ledger[a].state = "reserved"
          /\ resources'.ledger[a].state = "settled"
      BY <1>0, <2>7, ResourcesWritten
    <3>2. attempts.at[a].phase = "dispatched" /\ attempts'.at[a].phase = "settled"
      BY <1>0, <2>1, <2>7, AttemptsWritten DEF AttemptShape
    <3>3. calls[a] = 1
      BY <2>1, <2>7 DEF DriverOK, Driving
    <3>4. p = "sent" /\ p1 = "closed" /\ q = "held" /\ q1 = "spent"
      BY <3>1, <3>2 DEF MeterPhase, MeterPurse
    <3> QED
      BY <2>3, <3>3, <3>4
  <2>8. CASE s.pc = "abort"
    <3>1. /\ s.names => /\ resources.ledger[a].state = "reserved"
                        /\ resources'.ledger[a].state = "released"
          /\ ~s.names => resources'.ledger[a] = resources.ledger[a]
      BY <1>0, <2>1, <2>8, ResourcesWritten
    <3>2. /\ attempts'.at[a].phase = "settled"
          /\ attempts.at[a].phase \notin {"absent", "dispatched", "settled"}
      BY <1>0, <2>1, <2>8, AttemptsWritten DEF AttemptShape
    <3>3. p = "open" /\ p1 = "closed"
      BY <3>2 DEF MeterPhase
    <3>4. s.names => q = "held" /\ q1 = "freed"
      BY <3>1 DEF MeterPurse
    <3>5. ~s.names => q1 = q
      BY <3>1
    <3> QED
      BY <2>3, <3>3, <3>4, <3>5
  <2>9. s.pc # "model"
    BY CommitCases DEF Binding, Before
  <2> QED
    BY <1>2, <2>4, <2>5, <2>6, <2>7, <2>8, <2>9 DEF Driving
<1> QED
  BY <1>1, <1>2, CommitCases DEF Driving

LEMMA CallModelMeters ==
    ASSUME Invariant, NEW r \in Runners, NEW outcome, CallModel(r, outcome)
    PROVE  [Meter!Next]_(Meter!vars)
<1> DEFINE a == run[r].id
<1>1. /\ run[r].pc = "model"
      /\ calls' = [calls EXCEPT ![a] = @ + 1]
      /\ attempts' = attempts /\ resources' = resources
  BY DEF CallModel
<1>2. run[r].pc \in Driving /\ a \in Ids
  BY <1>1 DEF Invariant, Shape, IdShape, Driving
<1>3. /\ RecordOK(attempts.at[a], resources.ledger[a], calls[a])
      /\ DriverOK(run[r], attempts.at[a], resources.ledger[a], calls[a], a \in lost)
  BY <1>2 DEF Invariant, Records, Drivers
<1>4. /\ attempts.at[a].phase = "dispatched"
      /\ resources.ledger[a].state = "reserved"
      /\ calls[a] = 0
  BY <1>1, <1>3 DEF DriverOK, RecordOK
<1>5. /\ calls = [b \in Ids |-> calls[b]] /\ calls' = [b \in Ids |-> calls'[b]]
      /\ calls'[a] = 1
      /\ \A b \in Ids \ {a} : calls'[b] = calls[b]
  BY <1>1, <1>2, <1>4 DEF Invariant, Shape
<1>6. /\ MeterPhase(attempts.at[a]) = "sent"
      /\ MeterPurse(resources.ledger[a]) = "held"
  BY <1>4 DEF MeterPhase, MeterPurse
<1> QED
  BY <1>1, <1>2, <1>4, <1>5, <1>6, MeterMoves

LEMMA StepMeters ==
    ASSUME Invariant, NEW r \in Runners, Step(r)
    PROVE  [Meter!Next]_(Meter!vars)
<1>1. CASE CallSucceeds(r)
  BY <1>1, CommitMeters DEF CallSucceeds
<1>2. CASE AnswerCancelled(r)
  BY <1>2, CommitMeters DEF AnswerCancelled
<1>3. ASSUME NEW outcome, CallModel(r, outcome)
      PROVE  [Meter!Next]_(Meter!vars)
  BY <1>3, CallModelMeters
<1>4. ASSUME UNCHANGED <<attempts, resources, calls>>
      PROVE  [Meter!Next]_(Meter!vars)
  BY <1>4, MeterStutters
<1> QED
  BY <1>1, <1>2, <1>3, <1>4
     DEF Step, Read, CallFails, CallCancelled, Invoke, RunNamed, Plan, PlanRefused,
         StageFails, AdmitDelegated, StartDelegated, FinishDelegated, Delegate

\* The runners and the services implement MeteredAttempt: an attempt is
\* sent only with its budget held, calls the model once at most, and is
\* closed together with its budget, which is spent exactly when the attempt
\* was sent (runner.rs run).
THEOREM RunnerMeters == Spec => MeterKept
<1>1. Init => Meter!Init
  <2> SUFFICES ASSUME Init PROVE Meter!Init
    OBVIOUS
  <2>1. \A a \in Ids : /\ attempts.at[a].phase = "absent"
                       /\ resources.ledger[a].state = "absent"
    BY DEF Init, NoAttempt, NoReservation, Keys
  <2>2. \A a \in Ids : /\ MeterPhase(attempts.at[a]) = "none"
                       /\ MeterPurse(resources.ledger[a]) = "none"
    BY <2>1 DEF MeterPhase, MeterPurse
  <2> QED
    BY <2>2 DEF Init, Meter!Init
<1>2. Invariant /\ [Next]_vars => [Meter!Next]_(Meter!vars)
  <2> SUFFICES ASSUME Invariant, [Next]_vars PROVE [Meter!Next]_(Meter!vars)
    OBVIOUS
  <2>1. CASE Crash
    BY <2>1, MeterStutters DEF Crash
  <2>2. CASE UNCHANGED vars
    BY <2>2, MeterStutters DEF vars
  <2> QED
    BY <2>1, <2>2, StepMeters DEF Next
<1> QED
  BY <1>1, <1>2, InvariantHolds, PTL DEF Spec, MeterKept, Meter!Spec

=============================================================================
