------------------------------ MODULE MCSteps ------------------------------
(***************************************************************************)
(* Instances of Steps for TLC.                                             *)
(***************************************************************************)
EXTENDS Steps, TLC

CONSTANTS r1, r2, t1, t2

\* A root budget of two attempts' worth of tokens.
MCLimit == [tokens |-> 3, attempts |-> 2, cost |-> NoCost]

\* A step that takes what it can get and one that insists.
MCDemands == {[mandatory |-> 1, reducible |-> 1, max |-> 2, cost |-> NoCost]}

MCShares == {[tokens |-> n, attempts |-> 1, cost |-> NoCost] : n \in {1, 2}}
MCUsages == {[tokens |-> n, attempts |-> 1, cost |-> NoCost] : n \in {0, 2}}

\* A root with a hard cost limit, a delegation that states no cost and a
\* worker that reports one.
PricedLimit == [MCLimit EXCEPT !.cost = 1]
UnpricedShares == {[tokens |-> 1, attempts |-> 1, cost |-> NoCost]}
PricedUsages == {[tokens |-> 1, attempts |-> 1, cost |-> 2]}

\* The second task waits for the first.
Chain == t1 :> {} @@ t2 :> {t1}

\* What a call read matters only as long as nobody has replaced it: two
\* states that differ in outdated reads have the same future.
UpToDate(s) ==
    /\ s.seen.attempts \in {None, attempts}
    /\ s.seen.resources \in {None, resources}
CurrentView ==
    <<attempts, resources, calls, lost, faults,
      [r \in Runners |-> [run[r] EXCEPT !.seen = UpToDate(run[r])]]>>

RunnerSymmetry == Permutations(Runners)

=============================================================================
