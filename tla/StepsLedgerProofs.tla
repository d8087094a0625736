-------------------------- MODULE StepsLedgerProofs --------------------------
(***************************************************************************)
(* Proofs about the budget and the lineages of Steps: whatever the         *)
(* overlapping generations read and when, no budget is oversubscribed, no  *)
(* committed reservation or task is undone, a delegated task is paid for   *)
(* exactly as long as it is open, and a retry follows failures only.       *)
(*                                                                         *)
(* The sums of BudgetLedger are folds, recursive functions on the subsets  *)
(* of the keys.  Their laws are proved first: the recursion has a          *)
(* solution, any summand can be taken out, sums are monotonic.             *)
(***************************************************************************)
EXTENDS StepsProofs, FiniteSetTheorems

-----------------------------------------------------------------------------
(* Sums over finite sets.                                                  *)

Pick(s) == CHOOSE x \in s : TRUE

Total(f, S) == MapThenSumSet(LAMBDA k : f[k], S)

\* One step of the recursion of a sum.
Added(f, g, s) == IF s = {} THEN 0 ELSE f[Pick(s)] + g[s \ {Pick(s)}]

LEMMA Picked ==
    ASSUME NEW s, s # {}
    PROVE  Pick(s) \in s
  BY DEF Pick

LEMMA LeastNumber ==
    ASSUME NEW T, T \subseteq Nat, T # {}
    PROVE  \E x \in T : \A y \in T : x <= y
<1> DEFINE R == {ss \in Nat \X Nat : ss[1] < ss[2]}
<1>1. IsWellFoundedOn(R, Nat)
  BY NatLessThanWellFounded, Zenon DEF OpToRel
<1> HIDE DEF R
<1>2. PICK x \in T : \A y \in T : ~ (<<y, x>> \in R)
  BY <1>1, WFMin
<1>3. \A y \in T : ~ (y < x)
  BY <1>2 DEF R
<1> QED
  BY <1>3

\* Induction over the subsets of a finite set: a collection of subsets has
\* one none of whose proper subsets it holds.
LEMMA SmallestSet ==
    ASSUME NEW K, IsFiniteSet(K), NEW B, B \subseteq SUBSET K, B # {}
    PROVE  \E s \in B : \A x \in s : s \ {x} \notin B
<1> DEFINE C == {Cardinality(s) : s \in B}
<1>0. \A s \in B : IsFiniteSet(s)
  BY FS_Subset
<1>1. \A s \in B : Cardinality(s) \in Nat
  BY <1>0, FS_CardinalityType
<1>2. C \subseteq Nat /\ C # {}
  BY <1>1
<1>3. PICK n \in C : \A m \in C : n <= m
  <2> HIDE DEF C
  <2> QED
    BY <1>2, LeastNumber
<1>4. PICK s \in B : n = Cardinality(s)
  BY <1>3
<1>5. ASSUME NEW x \in s, s \ {x} \in B PROVE FALSE
  <2>1. Cardinality(s \ {x}) = Cardinality(s) - 1
    BY <1>0, <1>4, FS_RemoveElement
  <2>2. Cardinality(s) <= Cardinality(s \ {x})
    BY <1>3, <1>4, <1>5
  <2> QED
    BY <1>1, <1>4, <2>1, <2>2
<1> QED
  BY <1>4, <1>5

\* The recursion of a sum has a solution.
LEMMA SumSolved ==
    ASSUME NEW K, IsFiniteSet(K), NEW f \in [K -> Nat]
    PROVE  \E g \in [SUBSET K -> Nat] : \A s \in SUBSET K : g[s] = Added(f, g, s)
<1> DEFINE Small(n) == {s \in SUBSET K : Cardinality(s) <= n}
           Solves(g, n) == /\ g \in [Small(n) -> Nat]
                           /\ \A s \in Small(n) : g[s] = Added(f, g, s)
           none == {n \in Nat : ~ \E g : Solves(g, n)}
<1>1. \A s \in SUBSET K : IsFiniteSet(s) /\ Cardinality(s) \in Nat
  BY FS_Subset, FS_CardinalityType
<1>2. ASSUME NEW s \in SUBSET K, s # {}
      PROVE  /\ Pick(s) \in s /\ f[Pick(s)] \in Nat
             /\ s \ {Pick(s)} \in SUBSET K
             /\ Cardinality(s) # 0
             /\ Cardinality(s \ {Pick(s)}) = Cardinality(s) - 1
  <2>1. Pick(s) \in s
    BY <1>2, Picked
  <2>2. Cardinality(s \ {Pick(s)}) = Cardinality(s) - 1
    BY <1>1, <2>1, FS_RemoveElement
  <2>3. Cardinality(s) # 0
    BY <1>1, <1>2, FS_EmptySet
  <2> QED
    BY <2>1, <2>2, <2>3
<1>3. none = {}
  <2> SUFFICES ASSUME none # {} PROVE FALSE
    OBVIOUS
  <2>0. none \subseteq Nat
    <3> HIDE DEF Solves
    <3> QED OBVIOUS
  <2>1. PICK n \in none : \A m \in none : n <= m
    <3> HIDE DEF none
    <3> QED
      BY <2>0, LeastNumber
  <2>2. n \in Nat /\ ~ \E g : Solves(g, n)
    <3> HIDE DEF Solves
    <3> QED
      BY <2>1
  <2>3. n # 0
    <3> SUFFICES ASSUME n = 0 PROVE FALSE
      OBVIOUS
    <3>1. \A s \in Small(0) : s = {}
      <4> SUFFICES ASSUME NEW s \in Small(0), s # {} PROVE FALSE
        OBVIOUS
      <4>1. s \in SUBSET K /\ Cardinality(s) <= 0
        OBVIOUS
      <4> HIDE DEF Small
      <4>2. Cardinality(s) \in Nat
        BY <1>1, <4>1
      <4>3. Cardinality(s) # 0
        BY <1>2, <4>1
      <4> QED
        BY <4>1, <4>2, <4>3
    <3>2. Solves([s \in Small(0) |-> 0], 0)
      BY <3>1 DEF Added
    <3> HIDE DEF Solves
    <3> QED
      BY <2>2, <3>2
  <2>4. PICK g : Solves(g, n - 1)
    <3>1. n - 1 \in Nat /\ n - 1 \notin none
      <4> HIDE DEF none
      <4>1. n \in Nat
        BY <2>2
      <4>2. n - 1 \in Nat /\ ~ (n <= n - 1)
        BY <2>3, <4>1
      <4> QED
        BY <2>1, <4>2
    <3> HIDE DEF Solves
    <3> QED
      BY <3>1
  <2> DEFINE h == [s \in Small(n) |->
                     IF Cardinality(s) = n THEN Added(f, g, s) ELSE g[s]]
  <2>5. \A s \in Small(n) : /\ s \in SUBSET K
                            /\ Cardinality(s) # n => s \in Small(n - 1)
                            /\ s # {} => s \ {Pick(s)} \in Small(n - 1)
    <3> SUFFICES ASSUME NEW s \in Small(n)
                 PROVE  /\ s \in SUBSET K
                        /\ Cardinality(s) # n => s \in Small(n - 1)
                        /\ s # {} => s \ {Pick(s)} \in Small(n - 1)
      OBVIOUS
    <3>1. s \in SUBSET K /\ Cardinality(s) <= n /\ Cardinality(s) \in Nat
      BY <1>1
    <3>2. Cardinality(s) # n => Cardinality(s) <= n - 1
      BY <2>2, <3>1
    <3>3. s # {} => /\ s \ {Pick(s)} \in SUBSET K
                    /\ Cardinality(s \ {Pick(s)}) <= n - 1
      BY <1>2, <2>2, <3>1
    <3> QED
      BY <3>1, <3>2, <3>3
  <2>6. /\ g \in [Small(n - 1) -> Nat]
        /\ \A s \in Small(n - 1) : g[s] = Added(f, g, s)
    BY <2>4
  <2>7. \A s \in Small(n) : h[s] \in Nat /\ h[s] = Added(f, g, s)
    <3> SUFFICES ASSUME NEW s \in Small(n)
                 PROVE  h[s] \in Nat /\ h[s] = Added(f, g, s)
      OBVIOUS
    <3>1. s # {} => f[Pick(s)] \in Nat /\ g[s \ {Pick(s)}] \in Nat
      <4> HIDE DEF Small
      <4> QED
        BY <1>2, <2>5, <2>6
    <3>2. Added(f, g, s) \in Nat
      BY <3>1 DEF Added
    <3>3. Cardinality(s) # n => g[s] = Added(f, g, s)
      <4> HIDE DEF Small
      <4> QED
        BY <2>5, <2>6
    <3>4. h[s] = IF Cardinality(s) = n THEN Added(f, g, s) ELSE g[s]
      OBVIOUS
    <3> QED
      BY <3>2, <3>3, <3>4
  <2>8. \A s \in Small(n) : Added(f, h, s) = Added(f, g, s)
    <3> SUFFICES ASSUME NEW s \in Small(n)
                 PROVE  Added(f, h, s) = Added(f, g, s)
      OBVIOUS
    <3>0. CASE s = {}
      BY <3>0 DEF Added
    <3> SUFFICES ASSUME s # {} PROVE h[s \ {Pick(s)}] = g[s \ {Pick(s)}]
      <4> HIDE DEF h
      <4> QED
        BY <3>0 DEF Added
    <3> DEFINE u == s \ {Pick(s)}
    <3>1. u \in Small(n - 1)
      <4> HIDE DEF Small
      <4> QED
        BY <2>5
    <3>2. u \in SUBSET K /\ Cardinality(u) <= n - 1 /\ Cardinality(u) \in Nat
      <4>1. u \in SUBSET K /\ Cardinality(u) <= n - 1
        BY <3>1
      <4> HIDE DEF u
      <4> QED
        BY <1>1, <4>1
    <3> HIDE DEF u
    <3>3. u \in Small(n) /\ Cardinality(u) # n
      BY <2>2, <3>2
    <3> HIDE DEF Small
    <3>4. h[u] = g[u]
      BY <3>3
    <3> HIDE DEF h
    <3> QED
      BY <3>4 DEF u
  <2>9. Solves(h, n)
    <3> HIDE DEF Small
    <3>1. h \in [Small(n) -> Nat]
      BY <2>7
    <3> HIDE DEF h
    <3> QED
      BY <2>7, <2>8, <3>1
  <2> HIDE DEF Solves, h
  <2> QED
    BY <2>2, <2>9
<1>4. PICK g : Solves(g, Cardinality(K))
  <2> HIDE DEF Solves
  <2> QED
    BY <1>1, <1>3
<1>5. Small(Cardinality(K)) = SUBSET K
  <2>1. \A s \in SUBSET K : Cardinality(s) <= Cardinality(K)
    BY FS_Subset
  <2> QED
    BY <2>1
<1> HIDE DEF Small
<1> QED
  BY <1>4, <1>5

\* Every sum over a subset is the value of that solution.
LEMMA TotalSolved ==
    ASSUME NEW K, IsFiniteSet(K), NEW f \in [K -> Nat], NEW g \in [SUBSET K -> Nat],
           \A s \in SUBSET K : g[s] = Added(f, g, s),
           NEW S \in SUBSET K
    PROVE  Total(f, S) = g[S]
<1> DEFINE Sum == CHOOSE iter : iter = [s \in SUBSET S |-> Added(f, iter, s)]
           part == [s \in SUBSET S |-> g[s]]
<1>1. Total(f, S) = Sum[S]
  BY DEF Total, MapThenSumSet, MapThenFoldSet, Pick, Added
<1>2. \A s \in SUBSET S : s # {} => Pick(s) \in s
  BY Picked
<1>3. part = [s \in SUBSET S |-> Added(f, part, s)]
  BY <1>2 DEF Added
<1>4. Sum = [s \in SUBSET S |-> Added(f, Sum, s)]
  BY <1>3
<1> HIDE DEF Sum
<1> DEFINE bad == {s \in SUBSET S : Sum[s] # g[s]}
<1>5. bad = {}
  <2> SUFFICES ASSUME bad # {} PROVE FALSE
    OBVIOUS
  <2>0. IsFiniteSet(S) /\ bad \subseteq SUBSET S
    BY FS_Subset
  <2>1. PICK s \in bad : \A x \in s : s \ {x} \notin bad
    <3> HIDE DEF bad
    <3> QED
      BY <2>0, SmallestSet
  <2>2. Sum[s] = Added(f, Sum, s) /\ g[s] = Added(f, g, s)
    BY <1>4
  <2>3. s # {} => Sum[s \ {Pick(s)}] = g[s \ {Pick(s)}]
    <3>1. s # {} => Pick(s) \in s
      BY <1>2
    <3> QED
      BY <2>1, <3>1
  <2> QED
    BY <2>1, <2>2, <2>3 DEF Added
<1> QED
  BY <1>1, <1>5

\* A sum is a number, that over nothing is 0.
LEMMA TotalType ==
    ASSUME NEW K, IsFiniteSet(K), NEW f \in [K -> Nat], NEW S \in SUBSET K
    PROVE  Total(f, S) \in Nat /\ (S = {} => Total(f, S) = 0)
<1>1. PICK g \in [SUBSET K -> Nat] : \A s \in SUBSET K : g[s] = Added(f, g, s)
  BY SumSolved
<1>2. Total(f, S) = g[S]
  BY <1>1, TotalSolved
<1>3. g[S] = Added(f, g, S)
  BY <1>1
<1> QED
  BY <1>2, <1>3 DEF Added

\* Any summand can be taken out of a sum.
LEMMA TotalSplit ==
    ASSUME NEW K, IsFiniteSet(K), NEW f \in [K -> Nat], NEW S \in SUBSET K,
           NEW x \in S
    PROVE  Total(f, S) = f[x] + Total(f, S \ {x})
<1>1. PICK g \in [SUBSET K -> Nat] : \A s \in SUBSET K : g[s] = Added(f, g, s)
  BY SumSolved
<1>2. \A s \in SUBSET K : Total(f, s) = g[s]
  BY <1>1, TotalSolved
<1> DEFINE Right(s) == \A y \in s : g[s] = f[y] + g[s \ {y}]
           bad == {s \in SUBSET K : ~Right(s)}
<1>3. bad = {}
  <2> SUFFICES ASSUME bad # {} PROVE FALSE
    OBVIOUS
  <2>0. bad \subseteq SUBSET K
    OBVIOUS
  <2>1. PICK s \in bad : \A y \in s : s \ {y} \notin bad
    <3> HIDE DEF bad
    <3> QED
      BY <2>0, SmallestSet
  <2>2. s \in SUBSET K /\ ~Right(s)
    <3> HIDE DEF Right
    <3> QED OBVIOUS
  <2>3. PICK y \in s : g[s] # f[y] + g[s \ {y}]
    BY <2>2
  <2> DEFINE c == Pick(s)
  <2>4. c \in s /\ g[s] = f[c] + g[s \ {c}]
    BY <1>1, <2>2, <2>3, Picked DEF Added
  <2> HIDE DEF c
  <2>5. c # y
    BY <2>3, <2>4
  <2>6. Right(s \ {c}) /\ Right(s \ {y})
    <3> HIDE DEF Right
    <3> QED
      BY <2>1, <2>2, <2>3, <2>4
  <2> DEFINE u == (s \ {c}) \ {y}
  <2>7. u = (s \ {y}) \ {c} /\ u \in SUBSET K
    BY <2>2
  <2>8. g[s \ {c}] = f[y] + g[u]
    BY <2>3, <2>5, <2>6
  <2>9. g[s \ {y}] = f[c] + g[u]
    BY <2>4, <2>5, <2>6, <2>7
  <2>10. f[c] \in Nat /\ f[y] \in Nat /\ g[u] \in Nat
    BY <2>2, <2>3, <2>4, <2>7
  <2> HIDE DEF u
  <2> QED
    BY <2>3, <2>4, <2>8, <2>9, <2>10
<1>4. Right(S)
  BY <1>3
<1>5. S \ {x} \in SUBSET K
  OBVIOUS
<1> QED
  BY <1>2, <1>4, <1>5

\* A sum is monotonic in its summands.
LEMMA TotalMonotonic ==
    ASSUME NEW K, IsFiniteSet(K), NEW f \in [K -> Nat], NEW h \in [K -> Nat],
           NEW S \in SUBSET K, \A k \in S : f[k] <= h[k]
    PROVE  Total(f, S) <= Total(h, S)
<1> DEFINE bad == {s \in SUBSET S : ~(Total(f, s) <= Total(h, s))}
<1>0. IsFiniteSet(S) /\ bad \subseteq SUBSET S
  BY FS_Subset
<1>1. bad = {}
  <2> SUFFICES ASSUME bad # {} PROVE FALSE
    OBVIOUS
  <2>1. PICK s \in bad : \A y \in s : s \ {y} \notin bad
    <3> HIDE DEF bad
    <3> QED
      BY <1>0, SmallestSet
  <2>2. s \in SUBSET S /\ s \in SUBSET K /\ ~(Total(f, s) <= Total(h, s))
    OBVIOUS
  <2>3. s # {}
    <3> SUFFICES ASSUME s = {} PROVE FALSE
      OBVIOUS
    <3>1. Total(f, s) = 0 /\ Total(h, s) = 0
      BY <2>2, TotalType
    <3> QED
      BY <2>2, <3>1
  <2>4. PICK y : y \in s
    BY <2>3
  <2>5. Total(f, s \ {y}) <= Total(h, s \ {y})
    BY <2>1, <2>2, <2>4
  <2>6. Total(f, s) = f[y] + Total(f, s \ {y})
    BY <2>2, <2>4, TotalSplit
  <2>7. Total(h, s) = h[y] + Total(h, s \ {y})
    BY <2>2, <2>4, TotalSplit
  <2>8. s \ {y} \in SUBSET K
    BY <2>2
  <2>9. Total(f, s \ {y}) \in Nat /\ Total(h, s \ {y}) \in Nat
    BY <2>8, TotalType
  <2>10. f[y] \in Nat /\ h[y] \in Nat /\ f[y] <= h[y]
    BY <2>2, <2>4
  <2> QED
    BY <2>2, <2>5, <2>6, <2>7, <2>9, <2>10
<1> QED
  BY <1>1

\* Summands that agree have the same sum.
LEMMA TotalSame ==
    ASSUME NEW K, IsFiniteSet(K), NEW f \in [K -> Nat], NEW h \in [K -> Nat],
           NEW S \in SUBSET K, \A k \in S : f[k] = h[k]
    PROVE  Total(f, S) = Total(h, S)
<1>1. \A k \in S : f[k] <= h[k] /\ h[k] <= f[k]
  OBVIOUS
<1>2. Total(f, S) <= Total(h, S) /\ Total(h, S) <= Total(f, S)
  BY <1>1, TotalMonotonic
<1>3. Total(f, S) \in Nat /\ Total(h, S) \in Nat
  BY TotalType
<1> QED
  BY <1>2, <1>3

\* Summands that are 0 can be left out.
LEMMA TotalDrop ==
    ASSUME NEW K, IsFiniteSet(K), NEW f \in [K -> Nat],
           NEW S \in SUBSET K, NEW T \in SUBSET S, \A k \in S \ T : f[k] = 0
    PROVE  Total(f, S) = Total(f, T)
<1> DEFINE bad == {s \in SUBSET S : T \subseteq s /\ Total(f, s) # Total(f, T)}
<1>0. IsFiniteSet(S) /\ bad \subseteq SUBSET S
  BY FS_Subset
<1>1. bad = {}
  <2> SUFFICES ASSUME bad # {} PROVE FALSE
    OBVIOUS
  <2>1. PICK s \in bad : \A y \in s : s \ {y} \notin bad
    <3> HIDE DEF bad
    <3> QED
      BY <1>0, SmallestSet
  <2>2. s \in SUBSET S /\ s \in SUBSET K /\ T \subseteq s /\ Total(f, s) # Total(f, T)
    OBVIOUS
  <2>3. PICK y \in s : y \notin T
    BY <2>2
  <2>4. Total(f, s \ {y}) = Total(f, T)
    BY <2>1, <2>2, <2>3
  <2>5. Total(f, s) = f[y] + Total(f, s \ {y})
    BY <2>2, <2>3, TotalSplit
  <2>6. f[y] = 0
    BY <2>2, <2>3
  <2>7. s \ {y} \in SUBSET K
    BY <2>2
  <2>8. Total(f, s \ {y}) \in Nat
    BY <2>7, TotalType
  <2> QED
    BY <2>2, <2>4, <2>5, <2>6, <2>8
<1> QED
  BY <1>1

-----------------------------------------------------------------------------
(* What a committed call has done to the resource record.                  *)

\* The record a call replaces is the one it was accepted on.
LEMMA ResourcesMoved ==
    ASSUME Shape, NEW r \in Runners, Commits(run[r]), NEW s, s = run[r]
    PROVE  \/ resources' = resources
           \/ /\ s.pc = "reserve"
              /\ s.id \in Ids
              /\ CanReserve(resources.ledger, s.id, s.within, s.ask)
              /\ resources'.ledger = Reserved(resources.ledger, s.id, s.within, s.ask)
              /\ resources'.task = resources.task
           \/ /\ s.pc = "settle"
              /\ s.id \in Ids
              /\ CanSettle(resources.ledger, s.id, s.ask)
              /\ resources'.ledger = Settled(resources.ledger, s.id, s.ask)
              /\ resources'.task = resources.task
           \/ /\ s.pc = "abort"
              /\ s.id \in Ids
              /\ CanRelease(resources.ledger, s.id)
              /\ resources'.ledger = Released(resources.ledger, s.id)
              /\ resources'.task = resources.task
           \/ /\ s.pc = "admit"
              /\ s.id \in Tasks
              /\ CanAdmit(resources, s.id, s.within, s.ask)
              /\ resources'.ledger = Reserved(resources.ledger, s.id, s.within, s.ask)
              /\ resources'.task = [resources.task EXCEPT ![s.id] = "pending"]
           \/ /\ s.pc = "start"
              /\ s.id \in Tasks
              /\ Runnable(resources, s.id)
              /\ resources'.ledger = resources.ledger
              /\ resources'.task = [resources.task EXCEPT ![s.id] = "running"]
           \/ /\ s.pc = "finish"
              /\ s.id \in Tasks
              /\ CanFinish(resources, s.id, s.ask)
              /\ resources'.ledger = Settled(resources.ledger, s.id, s.ask)
              /\ resources'.task = [resources.task EXCEPT ![s.id] = s.outcome]
<1>1. /\ s.pc \in {"reserve", "settle", "abort"} => s.id \in Ids
      /\ s.pc \in {"admit", "start", "finish"} => s.id \in Tasks
      /\ resources = [ledger |-> resources.ledger, task |-> resources.task]
  BY DEF Shape, IdShape, Driving
<1>2. Accepts(s) /\ Unmoved(s) /\ WriteResources(s)
  BY DEF Commits
<1>3. CASE ~UsesResources(s)
  BY <1>2, <1>3 DEF WriteResources, UsesResources, ResourceCalls
<1>4. CASE UsesResources(s)
  <2>1. s.seen.resources = resources
    BY <1>2, <1>4 DEF Unmoved
  <2>2. CASE s.pc = "reserve"
    BY <1>1, <1>2, <2>1, <2>2
       DEF Accepts, WriteResources, UsesResources, ResourceCalls, Binding, Before
  <2>3. CASE s.pc = "settle"
    BY <1>1, <1>2, <2>1, <2>3
       DEF Accepts, WriteResources, UsesResources, ResourceCalls, Binding, Before
  <2>4. CASE s.pc = "abort"
    BY <1>1, <1>2, <1>4, <2>1, <2>4
       DEF Accepts, WriteResources, UsesResources, ResourceCalls, Binding, Before
  <2>5. CASE s.pc = "admit"
    BY <1>1, <1>2, <2>1, <2>5
       DEF Accepts, WriteResources, UsesResources, ResourceCalls, Binding, Before
  <2>6. CASE s.pc = "start"
    BY <1>1, <1>2, <2>1, <2>6
       DEF Accepts, WriteResources, UsesResources, ResourceCalls, Binding, Before
  <2>7. CASE s.pc = "finish"
    BY <1>1, <1>2, <2>1, <2>7
       DEF Accepts, WriteResources, UsesResources, ResourceCalls, Binding, Before
  <2> QED
    BY <1>4, <2>2, <2>3, <2>4, <2>5, <2>6, <2>7 DEF UsesResources, ResourceCalls
<1> QED
  BY <1>3, <1>4

\* Only a commit replaces a durable record.
LEMMA OnlyCommits ==
    ASSUME [Next]_vars
    PROVE  \/ attempts' = attempts /\ resources' = resources
           \/ \E r \in Runners : Commits(run[r])
<1>1. CASE Crash
  BY <1>1 DEF Crash
<1>2. CASE UNCHANGED vars
  BY <1>2 DEF vars
<1>3. ASSUME NEW r \in Runners, Step(r)
      PROVE  Commits(run[r]) \/ (attempts' = attempts /\ resources' = resources)
  BY <1>3 DEF Step, CallSucceeds, AnswerCancelled, CallModel, Read, CallFails,
              CallCancelled, Invoke, RunNamed, Plan, PlanRefused, StageFails,
              AdmitDelegated, StartDelegated, FinishDelegated, Delegate
<1> QED
  BY <1>1, <1>2, <1>3 DEF Next

\* Of the ledger a commit moves one record, forward.
LEMMA LedgerForward ==
    ASSUME Shape, NEW r \in Runners, Commits(run[r]), NEW k \in Keys
    PROVE  \/ resources'.ledger[k] = resources.ledger[k]
           \/ resources.ledger[k].state = "absent"
           \/ /\ resources.ledger[k].state = "reserved"
              /\ resources'.ledger[k].state \in {"settled", "released"}
<1> DEFINE s == run[r]
           led == resources.ledger
           led1 == resources'.ledger
<1>1. Ids \subseteq Keys /\ Tasks \subseteq Keys
  BY DEF Keys
<1>2. led = [j \in Keys |-> led[j]] /\ ReservationShape(led[k])
  BY DEF Shape
<1>3. \/ led1 = led
      \/ /\ led[s.id].state = "absent"
         /\ led1 = Reserved(led, s.id, s.within, s.ask)
      \/ /\ led[s.id].state = "reserved"
         /\ \/ led1 = Settled(led, s.id, s.ask)
            \/ led1 = Released(led, s.id)
  BY ResourcesMoved DEF CanReserve, CanSettle, CanRelease, CanAdmit, CanFinish
<1> HIDE DEF led, led1, s
<1>4. CASE k # s.id
  BY <1>2, <1>3, <1>4 DEF Reserved, Settled, Released, led, led1
<1>5. CASE k = s.id
  <2>1. CASE led1 = Settled(led, s.id, s.ask)
    <3>1. led1[k] = [led[k] EXCEPT !.state = "settled", !.actual = s.ask]
      BY <1>2, <1>5, <2>1 DEF Settled, ReservationShape
    <3>2. led1[k].state = "settled"
      BY <1>2, <3>1 DEF ReservationShape
    <3> QED
      BY <1>3, <1>5, <3>2 DEF led, led1
  <2>2. CASE led1 = Released(led, s.id)
    <3>1. led1[k] = [led[k] EXCEPT !.state = "released"]
      BY <1>2, <1>5, <2>2 DEF Released
    <3>2. led1[k].state = "released"
      BY <1>2, <3>1 DEF ReservationShape
    <3> QED
      BY <1>3, <1>5, <3>2 DEF led, led1
  <2> QED
    BY <1>3, <1>5, <2>1, <2>2 DEF led, led1
<1> QED
  BY <1>4, <1>5

\* So does it of the tasks.
LEMMA TasksForward ==
    ASSUME Shape, NEW r \in Runners, Commits(run[r]), NEW t \in Tasks,
           resources.task = [u \in Tasks |-> resources.task[u]]
    PROVE  \/ resources'.task[t] = resources.task[t]
           \/ resources.task[t] = "absent"
           \/ resources.task[t] = "pending" /\ resources'.task[t] = "running"
           \/ resources.task[t] = "running"
<1>1. CASE resources' = resources
  BY <1>1
<1>2. CASE resources'.task = resources.task
  BY <1>2
<1> QED
  BY <1>1, <1>2, ResourcesMoved DEF CanAdmit, Runnable, CanFinish

-----------------------------------------------------------------------------
(* Types.                                                                  *)

\* What a runner carries.
RunTyped(s) ==
    /\ s.kind \in Kinds
    /\ s.parent \in Ids \cup {None}
    /\ s.within \in Ids \cup {None}
    /\ s.ask \in Budgets
    /\ s.pc \in {"allocate", "plan"} => s.demand \in Demands
    /\ s.pc = "settle" => s.outcome \in {"succeeded", "failed"}
    /\ s.pc = "abort" => s.outcome = "failed"
    /\ s.pc = "finish" => s.outcome \in {"completed", "failed"}
    /\ s.inflight => s.pc \in AttemptCalls \cup ResourceCalls

AttemptTyped(att) ==
    /\ att.kind \in Kinds
    /\ att.parent \in Ids \cup {None}
    /\ att.outcome \in Outcomes
    /\ att.phase = "settled" => att.outcome # "none"

ReservationTyped(rec) ==
    /\ rec.state \in {"absent", "reserved", "settled", "released"}
    /\ rec.parent \in Ids \cup {None}
    /\ rec.asked \in Budgets /\ rec.actual \in Budgets
    /\ rec.state = "absent" => rec.asked = NoBudget

TaskStates == {"absent", "pending", "running", "completed", "failed"}

Typed ==
    /\ attempts.next \in 0 .. MaxAttempts
    /\ \A a \in Ids : AttemptTyped(attempts.at[a])
    /\ \A k \in Keys : ReservationTyped(resources.ledger[k])
    /\ resources.task \in [Tasks -> TaskStates]
    /\ \A r \in Runners : RunTyped(run[r])
    /\ lost \subseteq Ids

LEMMA InitTyped == Init => Typed
<1> SUFFICES ASSUME Init PROVE Typed
  OBVIOUS
<1>1. NoBudget \in Budgets
  BY DEF NoBudget, Budgets
<1>2. RunTyped(Idle)
  BY <1>1 DEF RunTyped, Idle, Kinds
<1>3. ReservationTyped(NoReservation)
  BY <1>1 DEF ReservationTyped, NoReservation
<1>4. AttemptTyped(NoAttempt)
  BY DEF AttemptTyped, NoAttempt, Kinds, Outcomes
<1>5. attempts.next \in 0 .. MaxAttempts
  BY MaxAttemptsAssumption DEF Init
<1>6. \A a \in Ids : attempts.at[a] = NoAttempt
  BY DEF Init
<1>7. \A k \in Keys : resources.ledger[k] = NoReservation
  BY DEF Init
<1>8. resources.task \in [Tasks -> TaskStates]
  BY DEF Init, TaskStates
<1>9. \A r \in Runners : run[r] = Idle
  BY DEF Init
<1> QED
  BY <1>2, <1>3, <1>4, <1>5, <1>6, <1>7, <1>8, <1>9 DEF Init, Typed

\* A commit keeps the types of the attempts.
LEMMA AttemptsTyped ==
    ASSUME Shape, Typed, NEW r \in Runners, Commits(run[r])
    PROVE  /\ attempts'.next \in 0 .. MaxAttempts
           /\ \A a \in Ids : AttemptTyped(attempts'.at[a])
<1> DEFINE s == run[r]
<1>1. RunShape(s) /\ IdShape(s) /\ RunTyped(s)
  BY DEF Shape, Typed
<1>2. /\ Accepts(s) /\ Unmoved(s) /\ WriteAttempts(s)
      /\ attempts = [next |-> attempts.next, at |-> attempts.at]
      /\ \A a \in Ids : AttemptTyped(attempts.at[a]) /\ AttemptShape(attempts.at[a])
      /\ attempts.next \in 0 .. MaxAttempts
  BY DEF Commits, Shape, Typed
<1>w. /\ \A b \in Ids \ {s.id} : attempts'.at[b] = attempts.at[b]
      /\ s.pc = "create" =>
           attempts'.at[s.id] = [NoAttempt EXCEPT !.phase = "planned",
                                   !.kind = s.kind, !.parent = s.parent]
      /\ s.pc \in Binding =>
           attempts'.at[s.id] =
                [attempts.at[s.id] EXCEPT !.phase = After[s.pc],
                   !.bound = IF s.pc = "bind" THEN TRUE ELSE @]
      /\ s.pc \in {"settle", "abort"} =>
           attempts'.at[s.id] =
                [attempts.at[s.id] EXCEPT !.phase = "settled",
                                          !.outcome = s.outcome]
      /\ s.pc \notin {"create", "settle", "abort"} \cup Binding =>
           attempts'.at = attempts.at
  BY AttemptsWritten
<1> HIDE DEF s
<1>3. attempts'.next \in 0 .. MaxAttempts
  <2>1. CASE s.pc = "allocate"
    <3>1. /\ s.seen.attempts = attempts
          /\ Unused(attempts) # {}
          /\ attempts' = [attempts EXCEPT !.next = NewId(attempts)]
      BY <1>2, <2>1 DEF Accepts, CanAllocate, Unmoved, UsesAttempts, AttemptCalls,
                        WriteAttempts, Binding, Before
    <3>2. NewId(attempts) \in Ids
      BY <3>1, NewIdUnused
    <3>3. attempts'.next = NewId(attempts)
      BY <1>2, <3>1
    <3> QED
      BY <3>2, <3>3, MaxAttemptsAssumption DEF Ids
  <2>2. CASE s.pc # "allocate"
    <3>0. \/ attempts' = attempts
          \/ attempts' = Created(attempts, s.id, s.kind, s.parent)
          \/ attempts' = Bound(attempts, s.id, s.pc)
          \/ attempts' = Closed(attempts, s.id, s.outcome)
      BY <1>2, <2>2 DEF Unmoved, WriteAttempts, UsesAttempts, AttemptCalls
    <3>a. /\ Created(attempts, s.id, s.kind, s.parent).next = attempts.next
          /\ Bound(attempts, s.id, s.pc).next = attempts.next
      BY <1>2 DEF Created, Bound
    <3>b. Closed(attempts, s.id, s.outcome).next = attempts.next
      BY <1>2 DEF Closed
    <3>1. attempts'.next = attempts.next
      BY <3>0, <3>a, <3>b
    <3> QED
      BY <1>2, <3>1
  <2> QED
    BY <2>1, <2>2
<1>4. ASSUME NEW a \in Ids PROVE AttemptTyped(attempts'.at[a])
  <2>0. AttemptTyped(attempts.at[a]) /\ AttemptShape(attempts.at[a])
    BY <1>2
  <2>1. CASE a # s.id \/ s.pc \notin {"create", "settle", "abort"} \cup Binding
    BY <1>w, <2>0, <2>1
  <2>2. CASE a = s.id /\ s.pc = "create"
    <3>1. attempts'.at[a] = [NoAttempt EXCEPT !.phase = "planned",
                               !.kind = s.kind, !.parent = s.parent]
      BY <1>w, <2>2
    <3> QED
      BY <1>1, <3>1 DEF RunTyped, AttemptTyped, NoAttempt, Outcomes
  <2>3. CASE a = s.id /\ s.pc \in {"settle", "abort"}
    <3>1. attempts'.at[a] = [attempts.at[a] EXCEPT !.phase = "settled",
                                                   !.outcome = s.outcome]
      BY <1>w, <2>3
    <3>2. /\ attempts'.at[a].kind = attempts.at[a].kind
          /\ attempts'.at[a].parent = attempts.at[a].parent
          /\ attempts'.at[a].outcome = s.outcome
      BY <2>0, <3>1 DEF AttemptShape
    <3>3. s.outcome \in {"succeeded", "failed"}
      BY <1>1, <2>3 DEF RunTyped
    <3> QED
      BY <2>0, <3>2, <3>3 DEF AttemptTyped, Outcomes
  <2>4. CASE a = s.id /\ s.pc \in Binding
    <3> DEFINE b == IF s.pc = "bind" THEN TRUE ELSE attempts.at[a].bound
    <3>1. attempts'.at[a] = [attempts.at[a] EXCEPT !.phase = After[s.pc], !.bound = b]
      BY <1>w, <2>4
    <3> HIDE DEF b
    <3>2. /\ attempts'.at[a].kind = attempts.at[a].kind
          /\ attempts'.at[a].parent = attempts.at[a].parent
          /\ attempts'.at[a].outcome = attempts.at[a].outcome
          /\ attempts'.at[a].phase = After[s.pc]
      BY <2>0, <3>1 DEF AttemptShape
    <3>3. After[s.pc] # "settled"
      BY <2>4 DEF After, Binding, Before
    <3> QED
      BY <2>0, <3>2, <3>3 DEF AttemptTyped
  <2> QED
    BY <2>1, <2>2, <2>3, <2>4
<1> QED
  BY <1>3, <1>4

\* A commit keeps the types of the resources.
LEMMA ResourcesTyped ==
    ASSUME Shape, Typed, NEW r \in Runners, Commits(run[r])
    PROVE  /\ \A k \in Keys : ReservationTyped(resources'.ledger[k])
           /\ resources'.task \in [Tasks -> TaskStates]
<1> DEFINE s == run[r]
           led == resources.ledger
           led1 == resources'.ledger
<1>1. /\ RunTyped(s)
      /\ \A k \in Keys : ReservationTyped(led[k]) /\ ReservationShape(led[k])
      /\ led = [k \in Keys |-> led[k]]
      /\ resources.task \in [Tasks -> TaskStates]
  BY DEF Shape, Typed
<1>2. \/ led1 = led
      \/ led1 = Reserved(led, s.id, s.within, s.ask)
      \/ led1 = Settled(led, s.id, s.ask)
      \/ led1 = Released(led, s.id)
  BY ResourcesMoved
<1>3. \/ resources'.task = resources.task
      \/ resources'.task = [resources.task EXCEPT ![s.id] = "pending"]
      \/ resources'.task = [resources.task EXCEPT ![s.id] = "running"]
      \/ /\ s.pc = "finish"
         /\ resources'.task = [resources.task EXCEPT ![s.id] = s.outcome]
  BY ResourcesMoved
<1> HIDE DEF s, led, led1
<1>4. resources'.task \in [Tasks -> TaskStates]
  BY <1>1, <1>3 DEF RunTyped, TaskStates
<1>5. ASSUME NEW k \in Keys PROVE ReservationTyped(led1[k])
  <2>0. ReservationTyped(led[k]) /\ ReservationShape(led[k])
    BY <1>1
  <2>1. CASE led1 = led \/ k # s.id
    <3>1. led1[k] = led[k]
      BY <1>1, <1>2, <2>1 DEF Reserved, Settled, Released
    <3> QED
      BY <2>0, <3>1
  <2>2. CASE k = s.id /\ led1 = Reserved(led, s.id, s.within, s.ask)
    <3>1. led1[k] = [led[k] EXCEPT !.state = "reserved", !.parent = s.within,
                                   !.asked = s.ask]
      BY <1>1, <2>2 DEF Reserved, ReservationShape
    <3> QED
      BY <1>1, <2>0, <3>1 DEF ReservationShape, ReservationTyped, RunTyped
  <2>3. CASE k = s.id /\ led1 = Settled(led, s.id, s.ask)
    <3>1. led1[k] = [led[k] EXCEPT !.state = "settled", !.actual = s.ask]
      BY <1>1, <2>3 DEF Settled, ReservationShape
    <3> QED
      BY <1>1, <2>0, <3>1 DEF ReservationShape, ReservationTyped, RunTyped
  <2>4. CASE k = s.id /\ led1 = Released(led, s.id)
    <3>1. led1[k] = [led[k] EXCEPT !.state = "released"]
      BY <1>1, <2>4 DEF Released
    <3> QED
      BY <2>0, <3>1 DEF ReservationShape, ReservationTyped
  <2> QED
    BY <1>2, <2>1, <2>2, <2>3, <2>4
<1> QED
  BY <1>4, <1>5 DEF led1

-----------------------------------------------------------------------------
(* Amounts: what records take out of a budget, as sums of functions.       *)

Amounts == {"tokens", "attempts", "cost"}
Of(b, u) == CASE u = "tokens" -> b.tokens
              [] u = "attempts" -> b.attempts
              [] OTHER -> b.cost
HeldBy(ledger, u) == [k \in Keys |-> Of(Takes(ledger[k]), u)]

\* The records of a ledger are typed.
LedgerTyped(ledger) ==
    /\ ledger = [k \in Keys |-> ledger[k]]
    /\ \A k \in Keys : ReservationTyped(ledger[k])

LEMMA KeysFinite == IsFiniteSet(Keys)
<1>1. IsFiniteSet(Ids)
  BY MaxAttemptsAssumption, FS_Interval DEF Ids
<1> QED
  BY <1>1, TasksAssumption, FS_Union DEF Keys

\* What a record takes.
LEMMA TakesAmounts ==
    ASSUME NEW rec, ReservationTyped(rec), NEW u \in Amounts
    PROVE  /\ Of(Takes(rec), u) \in Nat
           /\ rec.state \in {"absent", "released"} => Of(Takes(rec), u) = 0
           /\ rec.state = "reserved" /\ u # "cost" =>
                Of(Takes(rec), u) = Of(rec.asked, u)
           /\ rec.state = "settled" /\ u # "cost" =>
                Of(Takes(rec), u) = Of(rec.actual, u)
<1>1. rec.asked \in Budgets /\ rec.actual \in Budgets
  BY DEF ReservationTyped
<1>2. Stated(rec.asked.cost) \in Nat /\ CostFor(rec.actual, rec.asked) \in Nat
  BY <1>1 DEF Budgets, Stated, CostFor
<1>3. CASE rec.state = "reserved"
  <2>1. Takes(rec) = [rec.asked EXCEPT !.cost = Stated(rec.asked.cost)]
    BY <1>3 DEF Takes
  <2>2. /\ Takes(rec).tokens = rec.asked.tokens
        /\ Takes(rec).attempts = rec.asked.attempts
        /\ Takes(rec).cost = Stated(rec.asked.cost)
    BY <1>1, <2>1 DEF Budgets
  <2>3. rec.asked.tokens \in Nat /\ rec.asked.attempts \in Nat
    BY <1>1 DEF Budgets
  <2> QED
    BY <1>2, <1>3, <2>2, <2>3 DEF Of, Amounts
<1>4. CASE rec.state = "settled"
  <2>1. Takes(rec) = [rec.actual EXCEPT !.cost = CostFor(rec.actual, rec.asked)]
    BY <1>4 DEF Takes
  <2>2. /\ Takes(rec).tokens = rec.actual.tokens
        /\ Takes(rec).attempts = rec.actual.attempts
        /\ Takes(rec).cost = CostFor(rec.actual, rec.asked)
    BY <1>1, <2>1 DEF Budgets
  <2>3. rec.actual.tokens \in Nat /\ rec.actual.attempts \in Nat
    BY <1>1 DEF Budgets
  <2> QED
    BY <1>2, <1>4, <2>2, <2>3 DEF Of, Amounts
<1>5. CASE rec.state \notin {"reserved", "settled"}
  <2>1. Takes(rec) = [tokens |-> 0, attempts |-> 0, cost |-> 0]
    BY <1>5 DEF Takes
  <2> QED
    BY <1>5, <2>1 DEF Of, Amounts
<1> QED
  BY <1>3, <1>4, <1>5

LEMMA HeldType ==
    ASSUME NEW ledger, LedgerTyped(ledger), NEW u \in Amounts
    PROVE  HeldBy(ledger, u) \in [Keys -> Nat]
  BY TakesAmounts DEF LedgerTyped, HeldBy

\* The folds of Taken are sums of those functions.
LEMMA TakenIsTotal ==
    ASSUME NEW ledger, NEW keys \in SUBSET Keys
    PROVE  /\ Taken(ledger, keys).tokens = Total(HeldBy(ledger, "tokens"), keys)
           /\ Taken(ledger, keys).attempts = Total(HeldBy(ledger, "attempts"), keys)
           /\ Taken(ledger, keys).cost = Total(HeldBy(ledger, "cost"), keys)
<1>0. \A s \in SUBSET keys : s # {} => Pick(s) \in Keys
  BY Picked
<1>1. ASSUME NEW f
      PROVE  Total(f, keys) =
               (CHOOSE iter : iter = [s \in SUBSET keys |-> IF s = {} THEN 0
                                ELSE f[Pick(s)] + iter[s \ {Pick(s)}]])[keys]
  BY DEF Total, MapThenSumSet, MapThenFoldSet, Pick
<1>2. Taken(ledger, keys).tokens = Total(HeldBy(ledger, "tokens"), keys)
  <2> DEFINE f == HeldBy(ledger, "tokens")
             A(iter) == iter = [s \in SUBSET keys |-> IF s = {} THEN 0
                          ELSE Takes(ledger[Pick(s)]).tokens + iter[s \ {Pick(s)}]]
             B(iter) == iter = [s \in SUBSET keys |-> IF s = {} THEN 0
                          ELSE f[Pick(s)] + iter[s \ {Pick(s)}]]
  <2>1. Taken(ledger, keys).tokens = (CHOOSE iter : A(iter))[keys]
    BY DEF Taken, MapThenSumSet, MapThenFoldSet, Pick
  <2>2. Total(f, keys) = (CHOOSE iter : B(iter))[keys]
    <3> HIDE DEF f
    <3> QED
      BY <1>1
  <2>3. \A k \in Keys : f[k] = Takes(ledger[k]).tokens
    BY DEF HeldBy, Of
  <2> HIDE DEF f
  <2>4. ASSUME NEW iter PROVE A(iter) <=> B(iter)
    BY <1>0, <2>3
  <2> HIDE DEF A, B
  <2> QED
    BY <2>1, <2>2, <2>4, Zenon DEF f
<1>3. Taken(ledger, keys).attempts = Total(HeldBy(ledger, "attempts"), keys)
  <2> DEFINE f == HeldBy(ledger, "attempts")
             A(iter) == iter = [s \in SUBSET keys |-> IF s = {} THEN 0
                          ELSE Takes(ledger[Pick(s)]).attempts + iter[s \ {Pick(s)}]]
             B(iter) == iter = [s \in SUBSET keys |-> IF s = {} THEN 0
                          ELSE f[Pick(s)] + iter[s \ {Pick(s)}]]
  <2>1. Taken(ledger, keys).attempts = (CHOOSE iter : A(iter))[keys]
    BY DEF Taken, MapThenSumSet, MapThenFoldSet, Pick
  <2>2. Total(f, keys) = (CHOOSE iter : B(iter))[keys]
    <3> HIDE DEF f
    <3> QED
      BY <1>1
  <2>3. \A k \in Keys : f[k] = Takes(ledger[k]).attempts
    BY DEF HeldBy, Of
  <2> HIDE DEF f
  <2>4. ASSUME NEW iter PROVE A(iter) <=> B(iter)
    BY <1>0, <2>3
  <2> HIDE DEF A, B
  <2> QED
    BY <2>1, <2>2, <2>4, Zenon DEF f
<1>4. Taken(ledger, keys).cost = Total(HeldBy(ledger, "cost"), keys)
  <2> DEFINE f == HeldBy(ledger, "cost")
             A(iter) == iter = [s \in SUBSET keys |-> IF s = {} THEN 0
                          ELSE Takes(ledger[Pick(s)]).cost + iter[s \ {Pick(s)}]]
             B(iter) == iter = [s \in SUBSET keys |-> IF s = {} THEN 0
                          ELSE f[Pick(s)] + iter[s \ {Pick(s)}]]
  <2>1. Taken(ledger, keys).cost = (CHOOSE iter : A(iter))[keys]
    BY DEF Taken, MapThenSumSet, MapThenFoldSet, Pick
  <2>2. Total(f, keys) = (CHOOSE iter : B(iter))[keys]
    <3> HIDE DEF f
    <3> QED
      BY <1>1
  <2>3. \A k \in Keys : f[k] = Takes(ledger[k]).cost
    BY DEF HeldBy, Of
  <2> HIDE DEF f
  <2>4. ASSUME NEW iter PROVE A(iter) <=> B(iter)
    BY <1>0, <2>3
  <2> HIDE DEF A, B
  <2> QED
    BY <2>1, <2>2, <2>4, Zenon DEF f
<1> QED
  BY <1>2, <1>3, <1>4

LEMMA UnderKeys ==
    ASSUME NEW ledger, LedgerTyped(ledger), NEW p
    PROVE  Under(ledger, p) = {k \in Keys : ledger[k].state # "absent"
                                            /\ ledger[k].parent = p}
<1>1. DOMAIN ledger = Keys
  BY DEF LedgerTyped
<1> QED
  BY <1>1 DEF Under

\* What is left is a budget.
LEMMA RemainingType ==
    ASSUME NEW ledger, LedgerTyped(ledger), NEW p \in Keys \cup {None}
    PROVE  Remaining(ledger, p) \in Budgets
<1> DEFINE S == Under(ledger, p)
           whole == IF p = None THEN Limit ELSE ledger[p].asked
           taken == Taken(ledger, S)
<1>1. S \in SUBSET Keys
  BY UnderKeys
<1>2. whole \in Budgets
  <2>1. CASE p = None
    BY <2>1, AmountsAssumption
  <2>2. CASE p # None
    BY <2>2 DEF LedgerTyped, ReservationTyped
  <2> QED
    BY <2>1, <2>2
<1> HIDE DEF S, whole
<1>3. \A u \in Amounts : Total(HeldBy(ledger, u), S) \in Nat
  BY <1>1, KeysFinite, HeldType, TotalType
<1>4. taken.tokens \in Nat /\ taken.attempts \in Nat /\ taken.cost \in Nat
  BY <1>1, <1>3, TakenIsTotal DEF Amounts
<1>5. \A a, b \in Nat : Less(a, b) \in Nat
  BY DEF Less
<1>6. Remaining(ledger, p) =
        [tokens   |-> Less(whole.tokens, taken.tokens),
         attempts |-> Less(whole.attempts, taken.attempts),
         cost     |-> IF whole.cost = NoCost THEN NoCost
                        ELSE Less(whole.cost, taken.cost)]
  BY DEF Remaining, S, whole
<1> HIDE DEF taken
<1>7. whole.tokens \in Nat /\ whole.attempts \in Nat /\ whole.cost \in Nat \cup {NoCost}
  BY <1>2 DEF Budgets
<1> DEFINE cost == IF whole.cost = NoCost THEN NoCost ELSE Less(whole.cost, taken.cost)
<1>8. cost \in Nat \cup {NoCost}
  BY <1>4, <1>5, <1>7
<1>9. Less(whole.tokens, taken.tokens) \in Nat /\ Less(whole.attempts, taken.attempts) \in Nat
  BY <1>4, <1>5, <1>7
<1> HIDE DEF cost
<1>10. Remaining(ledger, p) =
         [tokens   |-> Less(whole.tokens, taken.tokens),
          attempts |-> Less(whole.attempts, taken.attempts),
          cost     |-> cost]
  BY <1>6 DEF cost
<1> QED
  BY <1>8, <1>9, <1>10 DEF Budgets

\* What a policy plans is a budget.
LEMMA PlannedType ==
    ASSUME NEW demand \in Demands, NEW left \in Budgets
    PROVE  Planned(demand, left) \in Budgets
<1>1. /\ demand.mandatory \in Nat /\ demand.reducible \in Nat /\ demand.max \in Nat
      /\ demand.cost \in Nat \cup {NoCost}
  BY AmountsAssumption
<1>2. left.tokens \in Nat /\ left.cost \in Nat \cup {NoCost}
  BY DEF Budgets
<1>3. \A a, b \in Nat : Smaller(a, b) \in Nat /\ Less(a, b) \in Nat
  BY DEF Smaller, Less
<1> DEFINE budget == Smaller(demand.max, left.tokens)
           extra == Smaller(demand.reducible, Less(budget, demand.mandatory))
           cost == CASE demand.cost = NoCost -> left.cost
                     [] left.cost = NoCost   -> demand.cost
                     [] OTHER                -> Smaller(demand.cost, left.cost)
<1>4. extra \in Nat
  BY <1>1, <1>2, <1>3
<1>5. cost \in Nat \cup {NoCost}
  BY <1>1, <1>2, <1>3
<1>6. Planned(demand, left) = [tokens |-> demand.mandatory + extra,
                               attempts |-> 1, cost |-> cost]
  BY DEF Planned
<1> HIDE DEF extra, cost
<1> QED
  BY <1>1, <1>4, <1>5, <1>6 DEF Budgets

LEMMA IdleTyped == RunTyped(Idle)
<1>1. NoBudget \in Budgets
  BY DEF NoBudget, Budgets
<1> QED
  BY <1>1 DEF RunTyped, Idle, Kinds

LEMMA AnsweredTyped ==
    ASSUME NEW s, RunShape(s), RunTyped(s)
    PROVE  RunTyped(Answered(s))
<1>1. CASE s.pc \in DOMAIN Follows
  <2> DEFINE next == Answered(s)
  <2>1. /\ next.pc = Follows[s.pc] /\ ~next.inflight
        /\ next.kind = s.kind /\ next.parent = s.parent /\ next.within = s.within
        /\ next.ask = s.ask /\ next.demand = s.demand
    BY <1>1 DEF Answered, RunShape
  <2>2. /\ Follows[s.pc] \notin {"settle", "abort", "finish", "allocate"}
        /\ Follows[s.pc] = "plan" => s.pc = "allocate"
    BY <1>1 DEF Follows
  <2> HIDE DEF next
  <2>3. RunTyped(next)
    BY <2>1, <2>2 DEF RunTyped
  <2> QED
    BY <2>3 DEF next
<1>2. CASE s.pc \notin DOMAIN Follows
  BY <1>2, IdleTyped DEF Answered
<1> QED
  BY <1>1, <1>2

LEMMA FailedTyped ==
    ASSUME NEW s, RunShape(s), RunTyped(s)
    PROVE  RunTyped(Failed(s))
<1>1. CASE s.pc \in {"reserve"} \cup Binding
  <2> DEFINE next == Failed(s)
  <2>1. /\ next.pc = "abort" /\ ~next.inflight /\ next.outcome = "failed"
        /\ next.kind = s.kind /\ next.parent = s.parent /\ next.within = s.within
        /\ next.ask = s.ask
    BY <1>1 DEF Failed, RunShape
  <2> HIDE DEF next
  <2>2. RunTyped(next)
    BY <2>1 DEF RunTyped
  <2> QED
    BY <2>2 DEF next
<1>2. CASE s.pc \notin {"reserve"} \cup Binding
  BY <1>2, IdleTyped DEF Failed
<1> QED
  BY <1>1, <1>2

\* The runner of every step carries what it should.
LEMMA StepRunTyped ==
    ASSUME Shape, Typed, NEW r \in Runners, Step(r)
    PROVE  \E next : run' = [run EXCEPT ![r] = next] /\ RunTyped(next)
<1> DEFINE s == run[r]
<1>0. RunShape(s) /\ IdShape(s) /\ RunTyped(s) /\ None \notin Ids
  BY KeysAssumption DEF Shape, Typed, Keys
<1>1. CASE Read(r)
  <2> DEFINE next == [s EXCEPT !.inflight = TRUE, !.seen =
                        [attempts  |-> IF UsesAttempts(s) THEN attempts ELSE None,
                         resources |-> IF UsesResources(s) THEN resources ELSE None]]
  <2>1. run' = [run EXCEPT ![r] = next] /\ s.pc \in AttemptCalls \cup ResourceCalls
    BY <1>1 DEF Read
  <2>n. next = [s EXCEPT !.inflight = TRUE, !.seen =
                  [attempts  |-> IF UsesAttempts(s) THEN attempts ELSE None,
                   resources |-> IF UsesResources(s) THEN resources ELSE None]]
    OBVIOUS
  <2> HIDE DEF next, s
  <2>2. /\ next.pc = s.pc /\ next.kind = s.kind /\ next.parent = s.parent
        /\ next.within = s.within /\ next.ask = s.ask /\ next.demand = s.demand
        /\ next.outcome = s.outcome
    BY <1>0, <2>n DEF RunShape
  <2>3. RunTyped(next)
    BY <1>0, <2>1, <2>2 DEF RunTyped
  <2> QED
    BY <2>1, <2>3
<1>2. CASE CallSucceeds(r)
  BY <1>0, <1>2, AnsweredTyped DEF CallSucceeds
<1>3. CASE CallFails(r) \/ CallCancelled(r) \/ AnswerCancelled(r) \/ StageFails(r)
  BY <1>0, <1>3, FailedTyped DEF CallFails, CallCancelled, AnswerCancelled, StageFails
<1>4. ASSUME NEW kind \in Kinds, NEW parent \in Known, NEW demand \in Demands,
             \/ Invoke(r, kind, parent, demand)
             \/ \E a \in DirectIds : RunNamed(r, a, kind, parent, demand)
      PROVE  \E next : run' = [run EXCEPT ![r] = next] /\ RunTyped(next)
  <2>1. parent \in Ids \cup {None}
    BY DEF Known
  <2>2. NoBudget \in Budgets
    BY DEF NoBudget, Budgets
  <2>3. CASE Invoke(r, kind, parent, demand)
    <3>1. PICK next : /\ run' = [run EXCEPT ![r] = next]
                      /\ next = [Idle EXCEPT !.pc = "allocate", !.kind = kind,
                                             !.parent = parent, !.demand = demand]
      BY <2>3 DEF Invoke
    <3>2. RunTyped(next)
      BY <2>1, <2>2, <3>1 DEF RunTyped, Idle
    <3> QED
      BY <3>1, <3>2
  <2>4. ASSUME NEW a \in DirectIds, RunNamed(r, a, kind, parent, demand)
        PROVE  \E next : run' = [run EXCEPT ![r] = next] /\ RunTyped(next)
    <3>1. PICK next : /\ run' = [run EXCEPT ![r] = next]
                      /\ next = [Idle EXCEPT !.pc = "plan", !.id = a, !.kind = kind,
                                             !.parent = parent, !.demand = demand]
      BY <2>4 DEF RunNamed
    <3>2. RunTyped(next)
      BY <2>1, <2>2, <3>1 DEF RunTyped, Idle
    <3> QED
      BY <3>1, <3>2
  <2> QED
    BY <1>4, <2>3, <2>4
<1>5. CASE Plan(r)
  <2>1. PICK left : left = Remaining(resources.ledger, Payer(s))
    OBVIOUS
  <2>2. PICK next : /\ run' = [run EXCEPT ![r] = next]
                    /\ next = [s EXCEPT !.pc = "create", !.demand = None,
                                        !.within = Payer(s),
                                        !.ask = Planned(s.demand, left)]
    BY <1>5, <2>1 DEF Plan
  <2>3. s.pc = "plan" /\ ~s.inflight
    BY <1>0, <1>5 DEF Plan, IdShape
  <2> HIDE DEF s
  <2>4. Payer(s) \in Ids \cup {None}
    BY <1>0 DEF Payer, RunTyped
  <2>5. LedgerTyped(resources.ledger) /\ Payer(s) \in Keys \cup {None}
    BY <2>4 DEF LedgerTyped, Typed, Shape, Keys
  <2>6. Planned(s.demand, left) \in Budgets
    <3>1. left \in Budgets
      BY <2>1, <2>5, RemainingType
    <3>2. s.demand \in Demands
      BY <1>0, <2>3 DEF RunTyped
    <3> QED
      BY <3>1, <3>2, PlannedType
  <2>7. /\ next.pc = "create" /\ next.kind = s.kind /\ next.parent = s.parent
        /\ next.within = Payer(s) /\ next.ask = Planned(s.demand, left)
        /\ next.inflight = s.inflight
    BY <1>0, <2>2 DEF RunShape
  <2>8. RunTyped(next)
    BY <1>0, <2>3, <2>4, <2>6, <2>7 DEF RunTyped
  <2> QED
    BY <2>2, <2>8
<1>6. CASE PlanRefused(r)
  BY <1>6, IdleTyped DEF PlanRefused
<1>7. ASSUME NEW outcome \in {"succeeded", "failed"}, CallModel(r, outcome)
      PROVE  \E next : run' = [run EXCEPT ![r] = next] /\ RunTyped(next)
  <2>1. PICK next : /\ run' = [run EXCEPT ![r] = next]
                    /\ next = [s EXCEPT !.pc = "settle", !.outcome = outcome]
    BY <1>7 DEF CallModel
  <2>2. ~s.inflight
    BY <1>0, <1>7 DEF CallModel, IdShape
  <2> HIDE DEF s
  <2>3. /\ next.pc = "settle" /\ next.kind = s.kind /\ next.parent = s.parent
        /\ next.within = s.within /\ next.ask = s.ask /\ next.outcome = outcome
        /\ next.inflight = s.inflight
    BY <1>0, <2>1 DEF RunShape
  <2>4. RunTyped(next)
    BY <1>0, <2>2, <2>3 DEF RunTyped
  <2> QED
    BY <2>1, <2>4
<1>8. ASSUME NEW t \in Tasks, NEW parent \in Known, NEW asked \in Shares,
             AdmitDelegated(r, t, parent, asked)
      PROVE  \E next : run' = [run EXCEPT ![r] = next] /\ RunTyped(next)
  <2>1. PICK next : /\ run' = [run EXCEPT ![r] = next]
                    /\ next = [Idle EXCEPT !.pc = "admit", !.id = t,
                                           !.within = parent, !.ask = asked]
    BY <1>8 DEF AdmitDelegated, Delegate
  <2>2. parent \in Ids \cup {None} /\ asked \in Budgets
    BY AmountsAssumption DEF Known
  <2>3. RunTyped(next)
    BY <2>1, <2>2 DEF RunTyped, Idle, Kinds
  <2> QED
    BY <2>1, <2>3
<1>9. ASSUME NEW t \in Tasks, StartDelegated(r, t)
      PROVE  \E next : run' = [run EXCEPT ![r] = next] /\ RunTyped(next)
  <2>1. PICK next : /\ run' = [run EXCEPT ![r] = next]
                    /\ next = [Idle EXCEPT !.pc = "start", !.id = t]
    BY <1>9 DEF StartDelegated, Delegate
  <2>2. NoBudget \in Budgets
    BY DEF NoBudget, Budgets
  <2>3. RunTyped(next)
    BY <2>1, <2>2 DEF RunTyped, Idle, Kinds
  <2> QED
    BY <2>1, <2>3
<1>10. ASSUME NEW t \in Tasks, NEW actual \in Usages,
              NEW outcome \in {"completed", "failed"},
              FinishDelegated(r, t, actual, outcome)
       PROVE  \E next : run' = [run EXCEPT ![r] = next] /\ RunTyped(next)
  <2>1. PICK next : /\ run' = [run EXCEPT ![r] = next]
                    /\ next = [Idle EXCEPT !.pc = "finish", !.id = t,
                                           !.ask = actual, !.outcome = outcome]
    BY <1>10 DEF FinishDelegated, Delegate
  <2>2. actual \in Budgets
    BY AmountsAssumption
  <2>3. RunTyped(next)
    BY <2>1, <2>2 DEF RunTyped, Idle, Kinds
  <2> QED
    BY <2>1, <2>3
<1> QED
  BY <1>1, <1>2, <1>3, <1>4, <1>5, <1>6, <1>7, <1>8, <1>9, <1>10 DEF Step

\* What a step gives up for lost is an attempt.
LEMMA LostTyped ==
    ASSUME Shape, Typed, [Next]_vars
    PROVE  lost' \subseteq Ids
<1>1. CASE Crash
  BY <1>1 DEF Crash, Shape, IdShape, Typed
<1>2. ASSUME NEW r \in Runners, Step(r) PROVE lost' \subseteq Ids
  <2>1. /\ Orphans(run[r]) \subseteq Ids
        /\ Unheard(run[r]) \subseteq Ids
    BY DEF Orphans, Unheard, Shape, IdShape, Driving
  <2>2. \/ lost' = lost
        \/ lost' = lost \cup Orphans(run[r])
        \/ lost' = lost \cup Unheard(run[r])
    BY <1>2 DEF Step, CallSucceeds, AnswerCancelled, CallModel, Read, CallFails,
              CallCancelled, Invoke, RunNamed, Plan, PlanRefused, StageFails,
              AdmitDelegated, StartDelegated, FinishDelegated, Delegate
  <2> QED
    BY <2>1, <2>2 DEF Typed
<1>3. CASE UNCHANGED vars
  BY <1>3 DEF vars, Typed
<1> QED
  BY <1>1, <1>2, <1>3 DEF Next

LEMMA TypedKeeps ==
    ASSUME Shape, Typed, [Next]_vars
    PROVE  Typed'
<1>1. /\ attempts'.next \in 0 .. MaxAttempts
      /\ \A a \in Ids : AttemptTyped(attempts'.at[a])
      /\ \A k \in Keys : ReservationTyped(resources'.ledger[k])
      /\ resources'.task \in [Tasks -> TaskStates]
  <2>1. CASE attempts' = attempts /\ resources' = resources
    BY <2>1 DEF Typed
  <2>2. ASSUME NEW r \in Runners, Commits(run[r]) 
        PROVE  /\ attempts'.next \in 0 .. MaxAttempts
               /\ \A a \in Ids : AttemptTyped(attempts'.at[a])
               /\ \A k \in Keys : ReservationTyped(resources'.ledger[k])
               /\ resources'.task \in [Tasks -> TaskStates]
    BY <2>2, AttemptsTyped, ResourcesTyped
  <2> QED
    BY <2>1, <2>2, OnlyCommits
<1>2. \A r \in Runners : RunTyped(run'[r])
  <2>1. CASE Crash
    BY <2>1, IdleTyped DEF Crash
  <2>2. CASE UNCHANGED vars
    BY <2>2 DEF vars, Typed
  <2>3. ASSUME NEW q \in Runners, Step(q) PROVE \A r \in Runners : RunTyped(run'[r])
    <3>1. PICK next : run' = [run EXCEPT ![q] = next] /\ RunTyped(next)
      BY <2>3, StepRunTyped
    <3>2. run = [r \in Runners |-> run[r]] /\ \A r \in Runners : RunTyped(run[r])
      BY DEF Shape, Typed
    <3> QED
      BY <3>1, <3>2
  <2> QED
    BY <2>1, <2>2, <2>3 DEF Next
<1> QED
  BY <1>1, <1>2, LostTyped DEF Typed

-----------------------------------------------------------------------------
(* No budget is oversubscribed.                                            *)

\* What bounds the reservations under one.
Own(rec) == IF rec.state = "settled" THEN rec.actual ELSE rec.asked

Fit(ledger, u) ==
    /\ Total(HeldBy(ledger, u), Under(ledger, None)) <= Of(Limit, u)
    /\ \A k \in Keys :
          Total(HeldBy(ledger, u), Under(ledger, k)) <= Of(Own(ledger[k]), u)

LEMMA FitMeans ==
    ASSUME Typed, Shape
    PROVE  NeverOversubscribed <=>
             Fit(resources.ledger, "tokens") /\ Fit(resources.ledger, "attempts")
<1> DEFINE led == resources.ledger
<1>1. LedgerTyped(led)
  BY DEF LedgerTyped, Typed, Shape
<1> HIDE DEF led
<1>2. \A p : Under(led, p) \in SUBSET Keys
  BY <1>1, UnderKeys
<1>3. \A p : /\ Taken(led, Under(led, p)).tokens
                  = Total(HeldBy(led, "tokens"), Under(led, p))
             /\ Taken(led, Under(led, p)).attempts
                  = Total(HeldBy(led, "attempts"), Under(led, p))
  BY <1>2, TakenIsTotal
<1>4. \A b : Of(b, "tokens") = b.tokens /\ Of(b, "attempts") = b.attempts
  BY DEF Of
<1> QED
  BY <1>3, <1>4 DEF NeverOversubscribed, Fit, Own, led

\* Budgets have amounts.
LEMMA OfType ==
    ASSUME NEW b \in Budgets, NEW u \in {"tokens", "attempts"}
    PROVE  Of(b, u) \in Nat
  BY DEF Of, Budgets

\* A reservation that fits into what is left.
LEMMA ReserveFits ==
    ASSUME NEW led, LedgerTyped(led), NEW led1, LedgerTyped(led1),
           NEW k \in Keys, NEW p \in Ids \cup {None}, NEW asked \in Budgets,
           ReservationShape(led[k]),
           CanReserve(led, k, p, asked), led1 = Reserved(led, k, p, asked),
           NEW u \in {"tokens", "attempts"}, Fit(led, u)
    PROVE  Fit(led1, u)
<1> DEFINE f == HeldBy(led, u)
           f1 == HeldBy(led1, u)
           U == Under(led, p)
<1>0. u \in Amounts /\ IsFiniteSet(Keys) /\ None \notin Keys /\ Ids \subseteq Keys
  BY KeysFinite, KeysAssumption DEF Amounts, Keys
<1>1. f \in [Keys -> Nat] /\ f1 \in [Keys -> Nat]
  BY <1>0, HeldType
<1>2. led[k].state = "absent" /\ (p # None => led[p].state = "reserved") /\ p # k
  BY <1>0 DEF CanReserve
<1>3. /\ led1[k] = [led[k] EXCEPT !.state = "reserved", !.parent = p, !.asked = asked]
      /\ \A j \in Keys \ {k} : led1[j] = led[j]
  BY DEF Reserved, LedgerTyped, ReservationShape
<1>4. led1[k].state = "reserved" /\ led1[k].parent = p /\ led1[k].asked = asked
  BY <1>3 DEF ReservationShape
<1>5. f1[k] = Of(asked, u) /\ \A j \in Keys \ {k} : f1[j] = f[j]
  <2>1. ReservationTyped(led1[k]) /\ u # "cost"
    BY DEF LedgerTyped
  <2>2. Of(Takes(led1[k]), u) = Of(asked, u)
    BY <1>0, <1>4, <2>1, TakesAmounts
  <2> QED
    BY <1>3, <2>2 DEF HeldBy
<1>6. /\ \A q : Under(led, q) \in SUBSET Keys /\ k \notin Under(led, q)
      /\ \A q : q # p => Under(led1, q) = Under(led, q)
      /\ Under(led1, p) = U \cup {k}
  <2>1. \A q : Under(led, q) = {j \in Keys : led[j].state # "absent" /\ led[j].parent = q}
    BY UnderKeys
  <2>2. \A q : Under(led1, q) = {j \in Keys : led1[j].state # "absent" /\ led1[j].parent = q}
    BY UnderKeys
  <2>3. ASSUME NEW q
        PROVE  /\ Under(led, q) \in SUBSET Keys /\ k \notin Under(led, q)
               /\ q # p => Under(led1, q) = Under(led, q)
               /\ q = p => Under(led1, q) = Under(led, q) \cup {k}
    <3>1. \A j \in Keys \ {k} : (led1[j].state # "absent" /\ led1[j].parent = q)
                                  <=> (led[j].state # "absent" /\ led[j].parent = q)
      BY <1>3
    <3>2. (led1[k].state # "absent" /\ led1[k].parent = q) <=> q = p
      BY <1>4
    <3>3. ~(led[k].state # "absent" /\ led[k].parent = q)
      BY <1>2
    <3>4. \A j : j \in Under(led, q) <=> j \in Keys /\ led[j].state # "absent" /\ led[j].parent = q
      BY <2>1
    <3>5. \A j : j \in Under(led1, q) <=> j \in Keys /\ led1[j].state # "absent" /\ led1[j].parent = q
      BY <2>2
    <3> QED
      BY <3>1, <3>2, <3>3, <3>4, <3>5
  <2> QED
    BY <2>3 DEF U
<1> HIDE DEF f, f1, U
<1>7. \A q : Total(f1, Under(led, q)) = Total(f, Under(led, q))
  <2> SUFFICES ASSUME NEW q PROVE Total(f1, Under(led, q)) = Total(f, Under(led, q))
    OBVIOUS
  <2>1. PICK S \in SUBSET Keys : S = Under(led, q) /\ k \notin S
    BY <1>6
  <2>2. \A j \in S : f1[j] = f[j]
    BY <1>5, <2>1
  <2> QED
    BY <1>0, <1>1, <2>1, <2>2, TotalSame
<1> DEFINE whole == IF p = None THEN Limit ELSE led[p].asked
<1>8. Total(f, U) <= Of(whole, u) /\ whole \in Budgets
  <2>1. CASE p = None
    BY <2>1, AmountsAssumption DEF Fit, f, U
  <2>2. CASE p # None
    <3>1. p \in Keys /\ Own(led[p]) = led[p].asked
      BY <1>0, <1>2, <2>2 DEF Own
    <3> QED
      BY <2>2, <3>1 DEF Fit, f, U, LedgerTyped, ReservationTyped
  <2> QED
    BY <2>1, <2>2
<1>9. Of(asked, u) <= Less(Of(whole, u), Total(f, U))
  <2>1. Fits(asked, Remaining(led, p))
    BY DEF CanReserve
  <2>2. /\ Taken(led, U).tokens = Total(HeldBy(led, "tokens"), U)
        /\ Taken(led, U).attempts = Total(HeldBy(led, "attempts"), U)
    BY <1>6, TakenIsTotal DEF U
  <2>3. /\ Remaining(led, p).tokens = Less(whole.tokens, Taken(led, U).tokens)
        /\ Remaining(led, p).attempts = Less(whole.attempts, Taken(led, U).attempts)
    BY DEF Remaining, U
  <2> HIDE DEF whole
  <2>4. CASE u = "tokens"
    BY <2>1, <2>2, <2>3, <2>4 DEF Fits, Of, f
  <2>5. CASE u = "attempts"
    BY <2>1, <2>2, <2>3, <2>5 DEF Fits, Of, f
  <2> QED
    BY <2>4, <2>5
<1> HIDE DEF whole
<1>10. Total(f1, U \cup {k}) = Of(asked, u) + Total(f, U)
  <2>1. U \cup {k} \in SUBSET Keys /\ k \in U \cup {k} /\ (U \cup {k}) \ {k} = U
    BY <1>6 DEF U
  <2>2. Total(f1, U \cup {k}) = f1[k] + Total(f1, (U \cup {k}) \ {k})
    BY <1>0, <1>1, <2>1, TotalSplit
  <2>3. Total(f1, U) = Total(f, U)
    BY <1>7 DEF U
  <2> QED
    BY <1>5, <2>1, <2>2, <2>3
<1>11. Total(f1, U \cup {k}) <= Of(whole, u)
  <2>1. Total(f, U) \in Nat
    BY <1>0, <1>1, <1>6, TotalType DEF U
  <2>2. Of(asked, u) \in Nat /\ Of(whole, u) \in Nat
    BY <1>8, OfType
  <2> QED
    BY <1>8, <1>9, <1>10, <2>1, <2>2 DEF Less
<1>12. Total(f1, Under(led1, None)) <= Of(Limit, u)
  <2>1. CASE p = None
    BY <1>6, <1>11, <2>1 DEF whole
  <2>2. CASE p # None
    BY <1>6, <1>7, <2>2 DEF Fit, f
  <2> QED
    BY <2>1, <2>2
<1>13. ASSUME NEW q \in Keys
       PROVE  Total(f1, Under(led1, q)) <= Of(Own(led1[q]), u)
  <2>1. CASE q = p
    <3>1. Own(led1[q]) = whole
      BY <1>0, <1>2, <1>3, <2>1 DEF Own, whole
    <3> QED
      BY <1>6, <1>11, <2>1, <3>1
  <2>2. CASE q # p /\ q # k
    <3>1. led1[q] = led[q]
      BY <1>3, <2>2
    <3> QED
      BY <1>6, <1>7, <2>2, <3>1 DEF Fit, f
  <2>3. CASE q = k
    <3>1. Own(led1[k]) = asked
      BY <1>4 DEF Own
    <3>2. Own(led[k]) = NoBudget
      BY <1>2 DEF Own, LedgerTyped, ReservationTyped
    <3>3. Of(NoBudget, u) = 0
      BY DEF Of, NoBudget
    <3>4. Total(f, Under(led, k)) <= 0
      BY <3>2, <3>3 DEF Fit, f
    <3>5. Total(f1, Under(led1, k)) = Total(f, Under(led, k))
      BY <1>2, <1>6, <1>7
    <3>6. Total(f, Under(led, k)) \in Nat
      BY <1>0, <1>1, <1>6, TotalType
    <3>7. Of(asked, u) \in Nat
      BY OfType
    <3> QED
      BY <2>3, <3>1, <3>4, <3>5, <3>6, <3>7
  <2> QED
    BY <2>1, <2>2, <2>3
<1> QED
  BY <1>12, <1>13 DEF Fit, f1

\* A step that only lowers what one reservation takes.
LEMMA LoweredFits ==
    ASSUME NEW led, LedgerTyped(led), NEW led1, LedgerTyped(led1),
           NEW k \in Keys, NEW u \in {"tokens", "attempts"}, Fit(led, u),
           \A j \in Keys \ {k} : led1[j] = led[j],
           led[k].state # "absent", led1[k].state # "absent",
           led1[k].parent = led[k].parent,
           Of(Takes(led1[k]), u) <= Of(Takes(led[k]), u),
           Total(HeldBy(led1, u), Under(led, k)) <= Of(Own(led1[k]), u)
    PROVE  Fit(led1, u)
<1> DEFINE f == HeldBy(led, u)
           f1 == HeldBy(led1, u)
<1>0. u \in Amounts /\ IsFiniteSet(Keys)
  BY KeysFinite DEF Amounts
<1>1. f \in [Keys -> Nat] /\ f1 \in [Keys -> Nat]
  BY <1>0, HeldType
<1>2. \A j \in Keys : f1[j] <= f[j]
  <2>1. \A j \in Keys \ {k} : f1[j] = f[j]
    BY DEF HeldBy
  <2>2. f1[k] <= f[k]
    BY DEF HeldBy
  <2> HIDE DEF f, f1
  <2> QED
    BY <1>1, <2>1, <2>2
<1>3. \A q : Under(led1, q) = Under(led, q) /\ Under(led, q) \in SUBSET Keys
  <2>1. \A q : Under(led, q) = {j \in Keys : led[j].state # "absent" /\ led[j].parent = q}
    BY UnderKeys
  <2>2. \A q : Under(led1, q) = {j \in Keys : led1[j].state # "absent" /\ led1[j].parent = q}
    BY UnderKeys
  <2>3. \A q : \A j \in Keys : (led1[j].state # "absent" /\ led1[j].parent = q)
                                <=> (led[j].state # "absent" /\ led[j].parent = q)
    <3> SUFFICES ASSUME NEW q, NEW j \in Keys
                 PROVE  (led1[j].state # "absent" /\ led1[j].parent = q)
                           <=> (led[j].state # "absent" /\ led[j].parent = q)
      OBVIOUS
    <3>1. CASE j = k
      BY <3>1
    <3>2. CASE j # k
      BY <3>2
    <3> QED
      BY <3>1, <3>2
  <2>4. ASSUME NEW q PROVE Under(led1, q) = Under(led, q) /\ Under(led, q) \in SUBSET Keys
    <3>1. /\ Under(led, q) = {j \in Keys : led[j].state # "absent" /\ led[j].parent = q}
          /\ Under(led1, q) = {j \in Keys : led1[j].state # "absent" /\ led1[j].parent = q}
      BY <2>1, <2>2
    <3> QED
      BY <2>3, <3>1
  <2> QED
    BY <2>4
<1> HIDE DEF f, f1
<1>4. \A q : /\ Total(f1, Under(led, q)) <= Total(f, Under(led, q))
             /\ Total(f1, Under(led, q)) \in Nat
             /\ Total(f, Under(led, q)) \in Nat
  <2> SUFFICES ASSUME NEW S \in SUBSET Keys
               PROVE  Total(f1, S) <= Total(f, S)
                      /\ Total(f1, S) \in Nat /\ Total(f, S) \in Nat
    BY <1>3
  <2>1. Total(f1, S) <= Total(f, S)
    BY <1>0, <1>1, <1>2, TotalMonotonic
  <2> QED
    BY <1>0, <1>1, <2>1, TotalType
<1>5. Total(f1, Under(led1, None)) <= Of(Limit, u)
  <2>1. Of(Limit, u) \in Nat
    BY AmountsAssumption, OfType
  <2>2. Total(f, Under(led, None)) <= Of(Limit, u)
    BY DEF Fit, f
  <2> QED
    BY <1>3, <1>4, <2>1, <2>2
<1>6. ASSUME NEW q \in Keys
      PROVE  Total(f1, Under(led1, q)) <= Of(Own(led1[q]), u)
  <2>1. CASE q = k
    BY <1>3, <2>1 DEF f1
  <2>2. CASE q # k
    <3>1. led1[q] = led[q]
      BY <2>2
    <3>2. Of(Own(led[q]), u) \in Nat
      BY OfType DEF Own, LedgerTyped, ReservationTyped
    <3>3. Total(f, Under(led, q)) <= Of(Own(led[q]), u)
      BY DEF Fit, f
    <3> QED
      BY <1>3, <1>4, <3>1, <3>2, <3>3
  <2> QED
    BY <2>1, <2>2
<1> QED
  BY <1>5, <1>6 DEF Fit, f1

\* A reservation that is settled is not its own child, and its children
\* have spent what the settled ones of them have.
LEMMA ChildrenSpent ==
    ASSUME NEW led, LedgerTyped(led), NEW led1, LedgerTyped(led1), NEW k \in Keys,
           CanRelease(led, k), \A j \in Keys \ {k} : led1[j] = led[j],
           NEW u \in {"tokens", "attempts"}
    PROVE  /\ Total(HeldBy(led1, u), Under(led, k)) = Total(HeldBy(led, u), Under(led, k))
           /\ Total(HeldBy(led, u), Under(led, k)) = Of(SettledChildren(led, k), u)
<1> DEFINE f == HeldBy(led, u)
           f1 == HeldBy(led1, u)
           U == Under(led, k)
           T == {c \in U : led[c].state = "settled"}
<1>0. u \in Amounts /\ IsFiniteSet(Keys) /\ u # "cost"
  BY KeysFinite DEF Amounts
<1>1. f \in [Keys -> Nat] /\ f1 \in [Keys -> Nat]
  BY <1>0, HeldType
<1>2. U = {j \in Keys : led[j].state # "absent" /\ led[j].parent = k}
  BY UnderKeys
<1>3. \A c \in U : led[c].state # "reserved"
  BY DEF CanRelease, HasActiveChildren
<1>4. k \notin U
  BY <1>3 DEF CanRelease
<1>5. \A j \in Keys \ {k} : f1[j] = f[j]
  BY DEF HeldBy
<1>6. \A c \in U \ T : f[c] = 0
  <2> SUFFICES ASSUME NEW c \in U \ T PROVE f[c] = 0
    OBVIOUS
  <2>1. c \in Keys /\ ReservationTyped(led[c]) /\ led[c].state = "released"
    BY <1>2, <1>3 DEF LedgerTyped, ReservationTyped
  <2>2. Of(Takes(led[c]), u) = 0
    BY <1>0, <2>1, TakesAmounts
  <2> QED
    BY <2>1, <2>2 DEF HeldBy
<1>7. Of(SettledChildren(led, k), u) = Total(f, T)
  <2>1. T \in SUBSET Keys
    BY <1>2
  <2>2. SettledChildren(led, k) = Taken(led, T)
    BY DEF SettledChildren
  <2> HIDE DEF T
  <2>3. /\ Taken(led, T).tokens = Total(HeldBy(led, "tokens"), T)
        /\ Taken(led, T).attempts = Total(HeldBy(led, "attempts"), T)
    BY <2>1, TakenIsTotal
  <2> QED
    BY <2>2, <2>3 DEF Of
<1>8. U \in SUBSET Keys /\ T \in SUBSET U
  BY <1>2
<1> HIDE DEF f, f1, U, T
<1>9. Total(f1, U) = Total(f, U)
  <2>1. \A j \in U : f1[j] = f[j]
    BY <1>4, <1>5, <1>8
  <2> QED
    BY <1>0, <1>1, <1>8, <2>1, TotalSame
<1>10. Total(f, U) = Total(f, T)
  BY <1>0, <1>1, <1>6, <1>8, TotalDrop
<1> QED
  BY <1>7, <1>9, <1>10 DEF f, f1, U

\* A settlement within what was asked, that accounts for the children.
LEMMA SettleFits ==
    ASSUME NEW led, LedgerTyped(led), NEW led1, LedgerTyped(led1),
           NEW k \in Keys, NEW actual \in Budgets, ReservationShape(led[k]),
           CanSettle(led, k, actual), led1 = Settled(led, k, actual),
           NEW u \in {"tokens", "attempts"}, Fit(led, u)
    PROVE  Fit(led1, u)
<1>1. /\ led1[k] = [led[k] EXCEPT !.state = "settled", !.actual = actual]
      /\ \A j \in Keys \ {k} : led1[j] = led[j]
  BY DEF Settled, LedgerTyped, ReservationShape
<1>2. /\ led1[k].state = "settled" /\ led1[k].parent = led[k].parent
      /\ led1[k].actual = actual
      /\ led[k].state = "reserved" /\ CanRelease(led, k)
  BY <1>1 DEF ReservationShape, CanSettle, CanRelease
<1>3. u \in Amounts /\ u # "cost"
  BY DEF Amounts
<1>4. ReservationTyped(led[k]) /\ ReservationTyped(led1[k])
  BY DEF LedgerTyped
<1>5. Of(Takes(led1[k]), u) <= Of(Takes(led[k]), u)
  <2>1. Of(Takes(led1[k]), u) = Of(actual, u) /\ Of(Takes(led[k]), u) = Of(led[k].asked, u)
    BY <1>2, <1>3, <1>4, TakesAmounts
  <2>2. /\ actual.tokens <= led[k].asked.tokens
        /\ actual.attempts <= led[k].asked.attempts
    <3>1. led[k].asked \in Budgets
      BY <1>4 DEF ReservationTyped
    <3> QED
      BY <3>1 DEF CanSettle, Exceeds, Budgets
  <2> QED
    BY <2>1, <2>2 DEF Of
<1>6. Total(HeldBy(led1, u), Under(led, k)) <= Of(Own(led1[k]), u)
  <2>1. Total(HeldBy(led1, u), Under(led, k)) = Of(SettledChildren(led, k), u)
    BY <1>1, <1>2, ChildrenSpent
  <2>2. /\ actual.tokens >= SettledChildren(led, k).tokens
        /\ actual.attempts >= SettledChildren(led, k).attempts
    BY DEF CanSettle
  <2>3. Total(HeldBy(led1, u), Under(led, k)) \in Nat
    <3>1. Under(led, k) \in SUBSET Keys
      BY UnderKeys
    <3> QED
      BY <1>3, <3>1, KeysFinite, HeldType, TotalType
  <2>4. Of(actual, u) \in Nat
    BY OfType
  <2>5. Of(SettledChildren(led, k), u) <= Of(actual, u)
    BY <2>1, <2>2, <2>3, <2>4 DEF Of
  <2> QED
    BY <1>2, <2>1, <2>5 DEF Own
<1>7. led[k].state # "absent" /\ led1[k].state # "absent" /\ led1[k].parent = led[k].parent
  BY <1>2
<1>8. \A j \in Keys \ {k} : led1[j] = led[j]
  BY <1>1
<1> QED
  BY <1>5, <1>6, <1>7, <1>8, LoweredFits

\* A release.
LEMMA ReleaseFits ==
    ASSUME NEW led, LedgerTyped(led), NEW led1, LedgerTyped(led1),
           NEW k \in Keys, ReservationShape(led[k]),
           CanRelease(led, k), led1 = Released(led, k),
           NEW u \in {"tokens", "attempts"}, Fit(led, u)
    PROVE  Fit(led1, u)
<1>1. /\ led1[k] = [led[k] EXCEPT !.state = "released"]
      /\ \A j \in Keys \ {k} : led1[j] = led[j]
  BY DEF Released, LedgerTyped
<1>2. /\ led1[k].state = "released" /\ led1[k].parent = led[k].parent
      /\ led1[k].asked = led[k].asked
      /\ led[k].state = "reserved"
  BY <1>1 DEF ReservationShape, CanRelease
<1>3. u \in Amounts /\ u # "cost"
  BY DEF Amounts
<1>4. ReservationTyped(led[k]) /\ ReservationTyped(led1[k])
  BY DEF LedgerTyped
<1>5. Of(Takes(led1[k]), u) <= Of(Takes(led[k]), u)
  <2>1. Of(Takes(led1[k]), u) = 0 /\ Of(Takes(led[k]), u) \in Nat
    BY <1>2, <1>3, <1>4, TakesAmounts
  <2> QED
    BY <2>1
<1>6. Total(HeldBy(led1, u), Under(led, k)) <= Of(Own(led1[k]), u)
  <2>1. Total(HeldBy(led1, u), Under(led, k)) = Total(HeldBy(led, u), Under(led, k))
    BY <1>1, ChildrenSpent
  <2>2. Own(led1[k]) = Own(led[k])
    BY <1>2 DEF Own
  <2> QED
    BY <2>1, <2>2 DEF Fit
<1>7. led[k].state # "absent" /\ led1[k].state # "absent" /\ led1[k].parent = led[k].parent
  BY <1>2
<1>8. \A j \in Keys \ {k} : led1[j] = led[j]
  BY <1>1
<1> QED
  BY <1>5, <1>6, <1>7, <1>8, LoweredFits

LEMMA FitKeeps ==
    ASSUME Shape, Typed, Shape', Typed', NEW r \in Runners, Commits(run[r]),
           NEW u \in {"tokens", "attempts"}, Fit(resources.ledger, u)
    PROVE  Fit(resources'.ledger, u)
<1> DEFINE s == run[r]
           led == resources.ledger
           led1 == resources'.ledger
<1>1. LedgerTyped(led) /\ LedgerTyped(led1) /\ RunTyped(s)
  BY DEF LedgerTyped, Typed, Shape
<1>2. \/ led1 = led
      \/ /\ s.id \in Keys
         /\ \/ /\ CanReserve(led, s.id, s.within, s.ask)
               /\ led1 = Reserved(led, s.id, s.within, s.ask)
            \/ CanSettle(led, s.id, s.ask) /\ led1 = Settled(led, s.id, s.ask)
            \/ CanRelease(led, s.id) /\ led1 = Released(led, s.id)
  BY ResourcesMoved DEF CanAdmit, CanFinish, Keys
<1>3. s.within \in Ids \cup {None} /\ s.ask \in Budgets
  BY <1>1 DEF RunTyped
<1>4. \A k \in Keys : ReservationShape(led[k])
  BY DEF Shape
<1> HIDE DEF s, led, led1
<1>5. CASE led1 = led
  BY <1>5 DEF led, led1
<1>6. CASE s.id \in Keys /\ CanReserve(led, s.id, s.within, s.ask)
           /\ led1 = Reserved(led, s.id, s.within, s.ask)
  BY <1>1, <1>3, <1>4, <1>6, ReserveFits DEF led, led1
<1>7. CASE s.id \in Keys /\ CanSettle(led, s.id, s.ask) /\ led1 = Settled(led, s.id, s.ask)
  BY <1>1, <1>3, <1>4, <1>7, SettleFits DEF led, led1
<1>8. CASE s.id \in Keys /\ CanRelease(led, s.id) /\ led1 = Released(led, s.id)
  BY <1>1, <1>4, <1>8, ReleaseFits DEF led, led1
<1> QED
  BY <1>2, <1>5, <1>6, <1>7, <1>8

-----------------------------------------------------------------------------
(* A delegated task is paid for exactly as long as it is open.             *)

LEMMA PaidKeeps ==
    ASSUME Shape, Typed, DelegationPaid, NEW r \in Runners, Commits(run[r])
    PROVE  DelegationPaid'
<1> DEFINE s == run[r]
           led == resources.ledger
           led1 == resources'.ledger
           task == resources.task
           task1 == resources'.task
<1>1. /\ led = [k \in Keys |-> led[k]]
      /\ \A k \in Keys : ReservationShape(led[k])
      /\ task \in [Tasks -> TaskStates]
      /\ RunTyped(s)
  BY DEF Shape, Typed
<1>2. Tasks \subseteq Keys /\ Ids \cap Tasks = {}
  BY KeysAssumption, MaxAttemptsAssumption DEF Keys, Ids
<1>3. \/ /\ task1 = task
         /\ \A t \in Tasks : led1[t] = led[t]
      \/ /\ s.id \in Tasks
         /\ \A t \in Tasks \ {s.id} : led1[t] = led[t] /\ task1[t] = task[t]
         /\ \/ /\ task[s.id] = "absent"
               /\ task1[s.id] = "pending" /\ led1[s.id].state = "reserved"
            \/ /\ Runnable(resources, s.id)
               /\ task1[s.id] = "running" /\ led1[s.id] = led[s.id]
            \/ /\ task[s.id] = "running"
               /\ task1[s.id] \in {"completed", "failed"} /\ led1[s.id].state = "settled"
  <2>1. CASE resources' = resources
    BY <2>1
  <2>2. CASE /\ s.id \in Ids /\ task1 = task
             /\ \/ led1 = Reserved(led, s.id, s.within, s.ask)
                \/ led1 = Settled(led, s.id, s.ask)
                \/ led1 = Released(led, s.id)
    <3>1. \A t \in Tasks : t # s.id
      BY <1>2, <2>2
    <3> HIDE DEF s
    <3> QED
      BY <1>1, <1>2, <2>2, <3>1 DEF Reserved, Settled, Released
  <2>3. CASE /\ s.id \in Tasks /\ CanAdmit(resources, s.id, s.within, s.ask)
             /\ led1 = Reserved(led, s.id, s.within, s.ask)
             /\ task1 = [task EXCEPT ![s.id] = "pending"]
    <3> HIDE DEF s, led, led1, task, task1
    <3>1. \A t \in Tasks \ {s.id} : led1[t] = led[t] /\ task1[t] = task[t]
      BY <1>1, <1>2, <2>3 DEF Reserved
    <3>2. led1[s.id] = [led[s.id] EXCEPT !.state = "reserved", !.parent = s.within,
                                         !.asked = s.ask]
      BY <1>1, <1>2, <2>3 DEF Reserved, ReservationShape
    <3>3. led1[s.id].state = "reserved"
      BY <1>1, <1>2, <2>3, <3>2 DEF ReservationShape
    <3>4. task[s.id] = "absent"
      BY <2>3 DEF CanAdmit, task
    <3>5. task1[s.id] = "pending"
      BY <1>1, <2>3
    <3> QED
      BY <2>3, <3>1, <3>3, <3>4, <3>5
  <2>4. CASE /\ s.id \in Tasks /\ Runnable(resources, s.id)
             /\ led1 = led /\ task1 = [task EXCEPT ![s.id] = "running"]
    <3> HIDE DEF s, led, led1, task, task1
    <3> QED
      BY <1>1, <2>4
  <2>5. CASE /\ s.id \in Tasks /\ s.pc = "finish" /\ CanFinish(resources, s.id, s.ask)
             /\ led1 = Settled(led, s.id, s.ask)
             /\ task1 = [task EXCEPT ![s.id] = s.outcome]
    <3>0. s.outcome \in {"completed", "failed"}
      BY <1>1, <2>5 DEF RunTyped
    <3> HIDE DEF s, led, led1, task, task1
    <3>1. \A t \in Tasks \ {s.id} : led1[t] = led[t] /\ task1[t] = task[t]
      BY <1>1, <1>2, <2>5 DEF Settled
    <3>2. led1[s.id] = [led[s.id] EXCEPT !.state = "settled", !.actual = s.ask]
      BY <1>1, <1>2, <2>5 DEF Settled, ReservationShape
    <3>3. led1[s.id].state = "settled"
      BY <1>1, <1>2, <2>5, <3>2 DEF ReservationShape
    <3>4. task[s.id] = "running"
      BY <2>5 DEF CanFinish, task
    <3>5. task1[s.id] = s.outcome
      BY <1>1, <2>5
    <3> QED
      BY <2>5, <3>0, <3>1, <3>3, <3>4, <3>5
  <2> QED
    BY <2>1, <2>2, <2>3, <2>4, <2>5, ResourcesMoved
<1>4. \A t \in Tasks :
        /\ (led[t].state = "reserved") <=> (task[t] \in {"pending", "running"})
        /\ (led[t].state = "settled") <=> (task[t] \in {"completed", "failed"})
        /\ (task[t] \notin {"absent", "pending"}) =>
             \A d \in DependsOn[t] : task[d] = "completed"
  BY DEF DelegationPaid
<1>5. \A t \in Tasks : task[t] = "completed" => task1[t] = "completed"
  BY <1>3 DEF Runnable
<1>6. s.id \in Tasks /\ Runnable(resources, s.id) =>
        task[s.id] = "pending" /\ \A d \in DependsOn[s.id] : task[d] = "completed"
  BY DEF Runnable
<1> HIDE DEF s, led, led1, task, task1
<1>7. ASSUME NEW t \in Tasks
      PROVE  /\ (led1[t].state = "reserved") <=> (task1[t] \in {"pending", "running"})
             /\ (led1[t].state = "settled") <=> (task1[t] \in {"completed", "failed"})
             /\ (task1[t] \notin {"absent", "pending"}) =>
                  \A d \in DependsOn[t] : task1[d] = "completed"
  <2>0. \A d \in DependsOn[t] : d \in Tasks
    BY TasksAssumption
  <2>1. CASE t # s.id \/ s.id \notin Tasks
    <3>1. led1[t] = led[t] /\ task1[t] = task[t]
      BY <1>3, <2>1
    <3> QED
      BY <1>4, <1>5, <2>0, <3>1
  <2>2. CASE t = s.id
    BY <1>3, <1>4, <1>5, <1>6, <2>0, <2>2
  <2> QED
    BY <2>1, <2>2
<1> QED
  BY <1>7 DEF DelegationPaid, led1, task1

-----------------------------------------------------------------------------
(* Lineages.                                                               *)

\* Every attempt's parent is an attempt or none.
Parents(at) == \A a \in Ids : at[a].parent \in Ids \cup {None}

Above(at, x) == IF x = None THEN None ELSE at[x].parent

Climbs(at, a, up) ==
    /\ up \in [0 .. MaxAttempts -> Ids \cup {None}]
    /\ up[0] = a
    /\ \A n \in 1 .. MaxAttempts : up[n] = Above(at, up[n - 1])

\* The recursion of Lineage has a solution, and Lineage is its range.
LEMMA LineageDefined ==
    ASSUME NEW at, Parents(at), NEW a \in Ids \cup {None}
    PROVE  \E up : /\ Climbs(at, a, up)
                   /\ Lineage(at, a) = {up[n] : n \in 0 .. MaxAttempts} \ {None}
<1> DEFINE Step1(f, n) == IF n = 0 THEN a
                          ELSE IF f[n - 1] = None THEN None ELSE at[f[n - 1]].parent
           Solves(g, n) == /\ g \in [0 .. n -> Ids \cup {None}]
                           /\ \A i \in 0 .. n : g[i] = Step1(g, i)
           none == {n \in 0 .. MaxAttempts : ~ \E g : Solves(g, n)}
<1>0. MaxAttempts \in Nat
  BY MaxAttemptsAssumption
<1>2. none = {}
  <2> SUFFICES ASSUME none # {} PROVE FALSE
    OBVIOUS
  <2>0. none \subseteq Nat
    <3> HIDE DEF Solves
    <3> QED
      BY <1>0
  <2>1. PICK n \in none : \A m \in none : n <= m
    <3> HIDE DEF none
    <3> QED
      BY <2>0, LeastNumber
  <2>2. n # 0
    <3>1. Solves([i \in 0 .. 0 |-> a], 0)
      OBVIOUS
    <3> QED
      BY <3>1
  <2>3. n \in Nat /\ n - 1 \in 0 .. MaxAttempts /\ n - 1 \notin none /\ n <= MaxAttempts
    <3>1. n \in 0 .. MaxAttempts
      <4> HIDE DEF Solves
      <4> QED OBVIOUS
    <3> HIDE DEF none
    <3> QED
      BY <1>0, <2>1, <2>2, <3>1
  <2>4. PICK g : Solves(g, n - 1)
    BY <2>3
  <2> DEFINE h == [i \in 0 .. n |-> IF i = n THEN Step1(g, n) ELSE g[i]]
  <2>5. Step1(g, n) \in Ids \cup {None}
    <3>1. g[n - 1] \in Ids \cup {None}
      BY <2>2, <2>3, <2>4
    <3> QED
      BY <2>2, <3>1 DEF Parents
  <2>6. h \in [0 .. n -> Ids \cup {None}]
    BY <2>3, <2>4, <2>5
  <2>7. ASSUME NEW i \in 0 .. n PROVE h[i] = Step1(h, i)
    <3>1. CASE i = n
      <4>1. h[n - 1] = g[n - 1]
        BY <2>2, <2>3
      <4> QED
        BY <2>2, <2>3, <3>1, <4>1
    <3>2. CASE i # n
      <4>1. i \in 0 .. n - 1 /\ (i # 0 => i - 1 \in 0 .. n - 1)
        BY <2>3, <3>2
      <4>2. h[i] = g[i] /\ (i # 0 => h[i - 1] = g[i - 1])
        BY <2>3, <4>1
      <4>3. g[i] = Step1(g, i)
        BY <2>4, <4>1
      <4> QED
        BY <4>2, <4>3
    <3> QED
      BY <3>1, <3>2
  <2>8. Solves(h, n)
    BY <2>6, <2>7
  <2> QED
    BY <2>1, <2>8
<1>3. PICK g : Solves(g, MaxAttempts)
  <2> HIDE DEF Solves
  <2> QED
    BY <1>0, <1>2
<1> DEFINE f == CHOOSE f : f = [n \in 0 .. MaxAttempts |-> Step1(f, n)]
<1>4. Lineage(at, a) = {f[n] : n \in 0 .. MaxAttempts} \ {None}
  BY DEF Lineage
<1>5. g = [n \in 0 .. MaxAttempts |-> Step1(g, n)]
  BY <1>3
<1>6. f = [n \in 0 .. MaxAttempts |-> Step1(f, n)]
  BY <1>5
<1> HIDE DEF f
<1>7. \A n \in 0 .. MaxAttempts : f[n] = Step1(f, n)
  BY <1>6
<1> DEFINE loose == {n \in 0 .. MaxAttempts : f[n] \notin Ids \cup {None}}
<1>8. loose = {}
  <2> SUFFICES ASSUME loose # {} PROVE FALSE
    OBVIOUS
  <2>1. PICK n \in loose : \A m \in loose : n <= m
    <3>1. loose \subseteq Nat
      BY <1>0
    <3> HIDE DEF loose
    <3> QED
      BY <3>1, LeastNumber
  <2>2. n # 0
    BY <1>7
  <2>3. n - 1 \in 0 .. MaxAttempts /\ n - 1 \notin loose
    <3>1. n \in 0 .. MaxAttempts
      OBVIOUS
    <3> HIDE DEF loose
    <3> QED
      BY <1>0, <2>1, <2>2, <3>1
  <2>4. f[n - 1] \in Ids \cup {None}
    BY <2>3
  <2>5. f[n] = Step1(f, n)
    BY <1>7
  <2> QED
    BY <2>2, <2>4, <2>5 DEF Parents
<1>9. Climbs(at, a, f)
  <2>1. f \in [0 .. MaxAttempts -> Ids \cup {None}]
    BY <1>6, <1>8
  <2>2. f[0] = a
    BY <1>0, <1>7
  <2>3. \A n \in 1 .. MaxAttempts : f[n] = Above(at, f[n - 1])
    BY <1>0, <1>7 DEF Above
  <2> QED
    BY <2>1, <2>2, <2>3 DEF Climbs
<1> QED
  BY <1>4, <1>9

\* A lineage stays within a set of attempts that holds their parents, and is
\* that of any other ledger that has the same parents there.
LEMMA LineageWithin ==
    ASSUME NEW at, Parents(at), NEW at1, Parents(at1), NEW B \in SUBSET Ids,
           \A b \in B : at[b].parent \in B \cup {None} /\ at1[b].parent = at[b].parent,
           NEW a \in B \cup {None}
    PROVE  Lineage(at1, a) = Lineage(at, a) /\ Lineage(at, a) \subseteq B
<1>1. PICK up : /\ Climbs(at, a, up)
                /\ Lineage(at, a) = {up[n] : n \in 0 .. MaxAttempts} \ {None}
  BY LineageDefined
<1>2. PICK up1 : /\ Climbs(at1, a, up1)
                 /\ Lineage(at1, a) = {up1[n] : n \in 0 .. MaxAttempts} \ {None}
  BY LineageDefined
<1>3. MaxAttempts \in Nat /\ None \notin Ids
  BY MaxAttemptsAssumption, KeysAssumption DEF Keys
<1> DEFINE bad == {n \in 0 .. MaxAttempts : ~(up1[n] = up[n] /\ up[n] \in B \cup {None})}
<1>4. bad = {}
  <2> SUFFICES ASSUME bad # {} PROVE FALSE
    OBVIOUS
  <2>1. PICK n \in bad : \A m \in bad : n <= m
    <3>1. bad \subseteq Nat
      BY <1>3
    <3> HIDE DEF bad
    <3> QED
      BY <3>1, LeastNumber
  <2>2. n # 0
    BY <1>1, <1>2 DEF Climbs
  <2>3. n \in 1 .. MaxAttempts /\ n - 1 \in 0 .. MaxAttempts /\ n - 1 \notin bad
    <3>1. n \in 0 .. MaxAttempts
      OBVIOUS
    <3> HIDE DEF bad
    <3> QED
      BY <1>3, <2>1, <2>2, <3>1
  <2>4. up1[n - 1] = up[n - 1] /\ up[n - 1] \in B \cup {None}
    BY <2>3
  <2>5. up[n] = Above(at, up[n - 1]) /\ up1[n] = Above(at1, up1[n - 1])
    BY <1>1, <1>2, <2>3 DEF Climbs
  <2> QED
    BY <1>3, <2>1, <2>4, <2>5 DEF Above
<1> QED
  BY <1>1, <1>2, <1>4

\* The lineage of an attempt is the attempt and the lineage of its parent.
LEMMA LineageParent ==
    ASSUME NEW at, Parents(at), NEW a \in Ids
    PROVE  Lineage(at, a) \subseteq {a} \cup Lineage(at, at[a].parent)
           /\ a \in Lineage(at, a)
<1> DEFINE p == at[a].parent
<1>0. /\ MaxAttempts \in Nat /\ None \notin Ids /\ p \in Ids \cup {None}
  BY MaxAttemptsAssumption, KeysAssumption DEF Keys, Parents
<1>1. PICK up : /\ Climbs(at, a, up)
                /\ Lineage(at, a) = {up[n] : n \in 0 .. MaxAttempts} \ {None}
  BY LineageDefined
<1>2. PICK vp : /\ Climbs(at, p, vp)
                /\ Lineage(at, p) = {vp[n] : n \in 0 .. MaxAttempts} \ {None}
  BY <1>0, LineageDefined
<1> HIDE DEF p
<1> DEFINE bad == {n \in 1 .. MaxAttempts : up[n] # vp[n - 1]}
<1>3. bad = {}
  <2> SUFFICES ASSUME bad # {} PROVE FALSE
    OBVIOUS
  <2>1. PICK n \in bad : \A m \in bad : n <= m
    <3>1. bad \subseteq Nat
      BY <1>0
    <3> HIDE DEF bad
    <3> QED
      BY <3>1, LeastNumber
  <2>2. n \in 1 .. MaxAttempts
    OBVIOUS
  <2>3. up[n] = Above(at, up[n - 1])
    BY <1>1, <2>2 DEF Climbs
  <2>4. CASE n = 1
    <3>1. up[0] = a /\ vp[0] = p
      BY <1>1, <1>2 DEF Climbs
    <3>2. up[n] = p
      <4>1. n - 1 = 0
        BY <2>4
      <4> QED
        BY <1>0, <2>3, <3>1, <4>1 DEF Above, p
    <3>3. vp[n - 1] = p
      BY <2>4, <3>1
    <3> QED
      BY <2>1, <3>2, <3>3
  <2>5. CASE n # 1
    <3>1. n - 1 \in 1 .. MaxAttempts /\ n - 1 \notin bad
      <4> HIDE DEF bad
      <4> QED
        BY <1>0, <2>1, <2>2, <2>5
    <3>2. up[n - 1] = vp[(n - 1) - 1]
      BY <3>1
    <3>3. vp[n - 1] = Above(at, vp[(n - 1) - 1])
      BY <1>2, <3>1 DEF Climbs
    <3> QED
      BY <2>1, <2>3, <3>2, <3>3
  <2> QED
    BY <2>4, <2>5
<1>4. ASSUME NEW x \in Lineage(at, a), x # a PROVE x \in Lineage(at, p)
  <2>1. PICK n \in 0 .. MaxAttempts : x = up[n] /\ x # None
    BY <1>1
  <2>2. n # 0
    BY <1>1, <1>4, <2>1 DEF Climbs
  <2>3. n \in 1 .. MaxAttempts /\ n - 1 \in 0 .. MaxAttempts
    BY <1>0, <2>1, <2>2
  <2>4. x = vp[n - 1]
    BY <1>3, <2>1, <2>3
  <2> QED
    BY <1>2, <2>1, <2>3, <2>4
<1>5. a \in Lineage(at, a)
  <2>1. 0 \in 0 .. MaxAttempts /\ up[0] = a
    BY <1>0, <1>1 DEF Climbs
  <2> QED
    BY <1>0, <1>1, <2>1
<1> QED
  BY <1>4, <1>5 DEF p

-----------------------------------------------------------------------------
(* Retries.                                                                *)

\* An attempt that exists has a parent that exists, unless it is a root.
Families ==
    \A a \in Ids :
        attempts.at[a].phase # "absent" =>
            /\ (attempts.at[a].kind = "root") <=> (attempts.at[a].parent = None)
            /\ attempts.at[a].parent # None =>
                 attempts.at[attempts.at[a].parent].phase # "absent"

\* What the plan of a retry has checked still holds when it is created.
RetryPlanned(s, at) ==
    (s.pc = "create" /\ s.kind = "retry" /\ s.parent # None) =>
        /\ at[s.parent].phase # "absent"
        /\ at[s.parent].kind # "helper"
        /\ Cardinality(Lineage(at, s.parent)) <= MaxRetries

RetryPlans == \A r \in Runners : RetryPlanned(run[r], attempts.at)

\* What a commit does to the records of the attempts.
LEMMA AttemptMoves ==
    ASSUME Shape, Typed, NEW r \in Runners, Commits(run[r]), NEW b \in Ids,
           NEW s, s = run[r]
    PROVE  \/ attempts'.at[b] = attempts.at[b]
           \/ /\ s.pc = "create" /\ b = s.id
              /\ attempts.at[b].phase = "absent"
              /\ ParentAllowed(attempts.at, s.kind, s.parent)
              /\ attempts'.at[b].phase = "planned"
              /\ attempts'.at[b].kind = s.kind
              /\ attempts'.at[b].parent = s.parent
           \/ /\ attempts.at[b].phase \notin {"absent", "settled"}
              /\ attempts'.at[b].phase # "absent"
              /\ attempts'.at[b].kind = attempts.at[b].kind
              /\ attempts'.at[b].parent = attempts.at[b].parent
<1>1. AttemptShape(attempts.at[b])
  BY DEF Shape
<1>2. CASE b # s.id \/ s.pc \notin {"create", "settle", "abort"} \cup Binding
  BY <1>2, AttemptsWritten
<1>3. CASE b = s.id /\ s.pc = "create"
  <2>1. /\ attempts.at[b].phase = "absent"
        /\ attempts'.at[b] = [NoAttempt EXCEPT !.phase = "planned",
                                !.kind = s.kind, !.parent = s.parent]
    BY <1>3, AttemptsWritten
  <2>2. ParentAllowed(attempts.at, s.kind, s.parent)
    BY <1>3 DEF Commits, Accepts, Unmoved, UsesAttempts, AttemptCalls, CanCreate,
                Binding, Before
  <2> QED
    BY <1>3, <2>1, <2>2 DEF NoAttempt
<1>4. CASE b = s.id /\ s.pc \in {"settle", "abort"}
  <2>1. /\ attempts.at[b].phase \notin {"absent", "settled"}
        /\ attempts'.at[b] = [attempts.at[b] EXCEPT !.phase = "settled",
                                                    !.outcome = s.outcome]
    BY <1>4, AttemptsWritten
  <2> QED
    BY <1>1, <2>1 DEF AttemptShape
<1>5. CASE b = s.id /\ s.pc \in Binding
  <2> DEFINE bound == IF s.pc = "bind" THEN TRUE ELSE attempts.at[b].bound
  <2>1. /\ attempts.at[b].phase = Before[s.pc]
        /\ attempts'.at[b] = [attempts.at[b] EXCEPT !.phase = After[s.pc], !.bound = bound]
    BY <1>5, AttemptsWritten
  <2>2. Before[s.pc] \notin {"absent", "settled"} /\ After[s.pc] # "absent"
    BY <1>5 DEF Binding, Before, After
  <2> HIDE DEF bound
  <2>3. /\ attempts'.at[b].phase = After[s.pc]
        /\ attempts'.at[b].kind = attempts.at[b].kind
        /\ attempts'.at[b].parent = attempts.at[b].parent
    BY <1>1, <2>1 DEF AttemptShape
  <2> QED
    BY <2>1, <2>2, <2>3
<1> QED
  BY <1>2, <1>3, <1>4, <1>5

\* A commit leaves the lineages of the attempts that exist as they are.
LEMMA LineagesStay ==
    ASSUME Shape, Typed, Typed', Families, NEW r \in Runners, Commits(run[r]),
           NEW a \in Ids, attempts.at[a].phase # "absent"
    PROVE  /\ Lineage(attempts'.at, a) = Lineage(attempts.at, a)
           /\ \A b \in Lineage(attempts.at, a) :
                b \in Ids /\ attempts.at[b].phase # "absent"
<1> DEFINE B == {b \in Ids : attempts.at[b].phase # "absent"}
<1>1. Parents(attempts.at) /\ Parents(attempts'.at)
  BY DEF Parents, Typed, AttemptTyped
<1>2. \A b \in B : /\ attempts.at[b].parent \in B \cup {None}
                   /\ attempts'.at[b].parent = attempts.at[b].parent
  <2> SUFFICES ASSUME NEW b \in B
               PROVE  /\ attempts.at[b].parent \in B \cup {None}
                      /\ attempts'.at[b].parent = attempts.at[b].parent
    OBVIOUS
  <2>1. attempts.at[b].parent \in B \cup {None}
    BY <1>1 DEF Parents, Families
  <2>2. attempts'.at[b].parent = attempts.at[b].parent
    BY AttemptMoves
  <2> QED
    BY <2>1, <2>2
<1>3. a \in B /\ B \in SUBSET Ids
  OBVIOUS
<1>4. Lineage(attempts'.at, a) = Lineage(attempts.at, a) /\ Lineage(attempts.at, a) \subseteq B
  <2> HIDE DEF B
  <2> QED
    BY <1>1, <1>2, <1>3, LineageWithin
<1> QED
  BY <1>4

\* An attempt that exists goes on existing, with its kind and parent, and
\* one that is settled does not change at all.
LEMMA AttemptsStay ==
    ASSUME Shape, Typed, NEW r \in Runners, Commits(run[r]), NEW b \in Ids,
           attempts.at[b].phase # "absent"
    PROVE  /\ attempts'.at[b].phase # "absent"
           /\ attempts'.at[b].kind = attempts.at[b].kind
           /\ attempts'.at[b].parent = attempts.at[b].parent
           /\ attempts.at[b].phase = "settled" => attempts'.at[b] = attempts.at[b]
  BY AttemptMoves

LEMMA FamiliesKeep ==
    ASSUME Shape, Typed, Families, NEW r \in Runners, Commits(run[r])
    PROVE  Families'
<1> DEFINE s == run[r]
<1> SUFFICES ASSUME NEW a \in Ids, attempts'.at[a].phase # "absent"
             PROVE  /\ (attempts'.at[a].kind = "root") <=> (attempts'.at[a].parent = None)
                    /\ attempts'.at[a].parent # None =>
                         attempts'.at[attempts'.at[a].parent].phase # "absent"
  BY DEF Families
<1>1. CASE attempts.at[a].phase # "absent"
  <2> DEFINE p == attempts.at[a].parent
  <2>1. attempts'.at[a].kind = attempts.at[a].kind /\ attempts'.at[a].parent = p
    BY <1>1, AttemptsStay
  <2>2. /\ (attempts.at[a].kind = "root") <=> (p = None)
        /\ p # None => attempts.at[p].phase # "absent"
        /\ p \in Ids \cup {None}
    BY <1>1 DEF Families, Typed, AttemptTyped
  <2>3. p # None => attempts'.at[p].phase # "absent"
    BY <2>2, AttemptsStay
  <2> QED
    BY <2>1, <2>2, <2>3
<1>2. CASE attempts.at[a].phase = "absent"
  <2> DEFINE p == s.parent
  <2>1. /\ ParentAllowed(attempts.at, s.kind, p)
        /\ attempts'.at[a].kind = s.kind /\ attempts'.at[a].parent = p
    BY <1>2, AttemptMoves
  <2>2. p \in Ids \cup {None}
    BY DEF Typed, RunTyped
  <2>3. p # None => attempts'.at[p].phase # "absent"
    BY <2>1, <2>2, AttemptsStay DEF ParentAllowed
  <2> QED
    BY <2>1, <2>3 DEF ParentAllowed
<1> QED
  BY <1>1, <1>2

LEMMA RetriesKeep ==
    ASSUME Shape, Typed, Typed', Families, RetryPlans, RetriesFollowFailures,
           NEW r \in Runners, Commits(run[r])
    PROVE  RetriesFollowFailures'
<1> DEFINE s == run[r]
           at == attempts.at
           at1 == attempts'.at
<1> SUFFICES ASSUME NEW a \in Ids, at1[a].phase # "absent", at1[a].kind = "retry"
             PROVE  /\ Cardinality(Lineage(at1, a)) <= MaxRetries + 1
                    /\ \A b \in Lineage(at1, a) \ {a} :
                         at1[b].phase = "settled" /\ at1[b].outcome = "failed"
  BY DEF RetriesFollowFailures
<1>0. /\ Parents(at) /\ Parents(at1) /\ None \notin Ids
      /\ MaxRetries \in Nat /\ IsFiniteSet(Ids)
  <2>1. Parents(at) /\ Parents(at1)
    BY DEF Parents, Typed, AttemptTyped
  <2>2. None \notin Ids
    BY KeysAssumption DEF Keys
  <2>3. IsFiniteSet(Ids)
    BY MaxAttemptsAssumption, FS_Interval DEF Ids
  <2> QED
    BY <2>1, <2>2, <2>3, RetriesAssumption
<1>1. CASE at[a].phase # "absent"
  <2>1. at[a].kind = "retry"
    BY <1>1, AttemptsStay
  <2>2. /\ Cardinality(Lineage(at, a)) <= MaxRetries + 1
        /\ \A b \in Lineage(at, a) \ {a} :
             at[b].phase = "settled" /\ at[b].outcome = "failed"
    BY <1>1, <2>1 DEF RetriesFollowFailures
  <2>3. /\ Lineage(at1, a) = Lineage(at, a)
        /\ \A b \in Lineage(at, a) : b \in Ids /\ at[b].phase # "absent"
    BY <1>1, LineagesStay
  <2>4. \A b \in Ids : at[b].phase = "settled" => at1[b] = at[b]
    BY AttemptsStay
  <2> HIDE DEF at, at1
  <2> QED
    BY <2>2, <2>3, <2>4
<1>2. CASE at[a].phase = "absent"
  <2> DEFINE p == s.parent
  <2>1. /\ s.pc = "create" /\ s.kind = "retry"
        /\ ParentAllowed(at, s.kind, p) /\ at1[a].parent = p
    BY <1>2, AttemptMoves
  <2>2. /\ p \in Ids /\ at[p].phase = "settled" /\ at[p].outcome # "succeeded"
    BY <2>1 DEF ParentAllowed, Typed, RunTyped
  <2>3. at[p].outcome = "failed"
    BY <2>2 DEF Typed, AttemptTyped, Outcomes
  <2>4. at[p].kind # "helper" /\ Cardinality(Lineage(at, p)) <= MaxRetries
    BY <1>0, <2>1, <2>2 DEF RetryPlans, RetryPlanned
  <2>5. /\ Lineage(at1, p) = Lineage(at, p)
        /\ \A b \in Lineage(at, p) : b \in Ids /\ at[b].phase # "absent"
    BY <2>2, LineagesStay
  <2>6. \A b \in Ids : at[b].phase = "settled" => at1[b] = at[b]
    BY AttemptsStay
  <2>7. at[p].kind \in {"root", "retry"}
    BY <2>2, <2>4 DEF Typed, AttemptTyped, Kinds
  <2>8. ASSUME NEW b \in Lineage(at, p)
        PROVE  at[b].phase = "settled" /\ at[b].outcome = "failed"
    <3>1. CASE b = p
      BY <2>2, <2>3, <3>1
    <3>2. CASE b # p /\ at[p].kind = "retry"
      BY <2>2, <2>8, <3>2 DEF RetriesFollowFailures
    <3>3. CASE b # p /\ at[p].kind = "root"
      <4>1. at[p].parent = None
        BY <2>2, <3>3 DEF Families
      <4>2. Lineage(at, p) \subseteq {p} \cup Lineage(at, None)
        <5> HIDE DEF at, p
        <5> QED
          BY <1>0, <2>2, <4>1, LineageParent
      <4>3. Lineage(at, None) \subseteq {}
        <5> HIDE DEF at, p
        <5>1. PICK B \in SUBSET Ids : B = {}
          OBVIOUS
        <5>2. \A x \in B : at[x].parent \in B \cup {None} /\ at[x].parent = at[x].parent
          BY <5>1
        <5> QED
          BY <1>0, <5>1, <5>2, LineageWithin
      <4> QED
        BY <2>8, <3>3, <4>2, <4>3
    <3> QED
      BY <2>7, <3>1, <3>2, <3>3
  <2> HIDE DEF at, at1, p
  <2>9. Lineage(at1, a) \subseteq {a} \cup Lineage(at, p)
    BY <1>0, <2>1, <2>5, LineageParent
  <2>10. Cardinality(Lineage(at1, a)) <= MaxRetries + 1
    <3> DEFINE L == Lineage(at, p)
    <3>1. IsFiniteSet(L)
      BY <1>0, <2>5, FS_Subset
    <3> HIDE DEF L
    <3>2. IsFiniteSet(L \cup {a}) /\ Cardinality(L \cup {a}) <= Cardinality(L) + 1
      <4>1. /\ IsFiniteSet(L \cup {a})
            /\ Cardinality(L \cup {a}) = IF a \in L THEN Cardinality(L) ELSE Cardinality(L) + 1
        BY <3>1, FS_AddElement
      <4>2. Cardinality(L) \in Nat
        BY <3>1, FS_CardinalityType
      <4> QED
        BY <4>1, <4>2
    <3>3. Lineage(at1, a) \subseteq L \cup {a}
      BY <2>9 DEF L
    <3>4. IsFiniteSet(Lineage(at1, a)) /\ Cardinality(Lineage(at1, a)) <= Cardinality(L \cup {a})
      BY <3>2, <3>3, FS_Subset
    <3>5. Cardinality(L) <= MaxRetries
      BY <2>4 DEF L
    <3>6. /\ Cardinality(L) \in Nat /\ Cardinality(L \cup {a}) \in Nat
          /\ Cardinality(Lineage(at1, a)) \in Nat
      BY <3>1, <3>2, <3>4, FS_CardinalityType
    <3> QED
      BY <1>0, <3>2, <3>4, <3>5, <3>6
  <2>11. ASSUME NEW b \in Lineage(at1, a) \ {a}
         PROVE  at1[b].phase = "settled" /\ at1[b].outcome = "failed"
    <3>1. b \in Lineage(at, p)
      BY <2>9
    <3> QED
      BY <2>5, <2>6, <2>8, <3>1
  <2> QED
    BY <2>10, <2>11
<1> QED
  BY <1>1, <1>2

\* A plan that was made stays right while others commit.
LEMMA PlansStay ==
    ASSUME Shape, Typed, Typed', Families, NEW r \in Runners, Commits(run[r]),
           NEW s, s.parent \in Ids \cup {None}, RetryPlanned(s, attempts.at)
    PROVE  RetryPlanned(s, attempts'.at)
<1> SUFFICES ASSUME s.pc = "create", s.kind = "retry", s.parent # None
             PROVE  /\ attempts'.at[s.parent].phase # "absent"
                    /\ attempts'.at[s.parent].kind # "helper"
                    /\ Cardinality(Lineage(attempts'.at, s.parent)) <= MaxRetries
  BY DEF RetryPlanned
<1>1. /\ attempts.at[s.parent].phase # "absent"
      /\ attempts.at[s.parent].kind # "helper"
      /\ Cardinality(Lineage(attempts.at, s.parent)) <= MaxRetries
      /\ s.parent \in Ids
  BY DEF RetryPlanned
<1>2. /\ attempts'.at[s.parent].phase # "absent"
      /\ attempts'.at[s.parent].kind = attempts.at[s.parent].kind
  BY <1>1, AttemptsStay
<1>3. Lineage(attempts'.at, s.parent) = Lineage(attempts.at, s.parent)
  BY <1>1, LineagesStay
<1> QED
  BY <1>1, <1>2, <1>3

\* A step that takes a runner to the creation of a retry has checked it.
LEMMA StepPlans ==
    ASSUME Shape, Typed, RetryPlans, NEW r \in Runners, Step(r)
    PROVE  \E next : /\ run' = [run EXCEPT ![r] = next]
                     /\ RetryPlanned(next, attempts.at)
<1> DEFINE s == run[r]
           at == attempts.at
<1>0. RunShape(s) /\ RetryPlanned(s, at)
  BY DEF Shape, RetryPlans
<1>i. \A next : next.pc # "create" => RetryPlanned(next, at)
  BY DEF RetryPlanned
<1>1. CASE Read(r)
  <2>1. PICK next : /\ run' = [run EXCEPT ![r] = next]
                    /\ next = [s EXCEPT !.inflight = TRUE, !.seen =
                        [attempts  |-> IF UsesAttempts(s) THEN attempts ELSE None,
                         resources |-> IF UsesResources(s) THEN resources ELSE None]]
    BY <1>1 DEF Read
  <2>2. next.pc = s.pc /\ next.kind = s.kind /\ next.parent = s.parent
    <3> HIDE DEF s
    <3> QED
      BY <1>0, <2>1 DEF RunShape
  <2>3. RetryPlanned(next, at)
    BY <1>0, <2>2 DEF RetryPlanned
  <2> QED
    BY <2>1, <2>3
<1>2. CASE CallSucceeds(r)
  <2>1. run' = [run EXCEPT ![r] = Answered(s)]
    BY <1>2 DEF CallSucceeds
  <2>2. Answered(s).pc # "create"
    <3> HIDE DEF s
    <3>1. CASE s.pc \in DOMAIN Follows
      <4>1. Answered(s).pc = Follows[s.pc]
        BY <1>0, <3>1 DEF Answered, RunShape
      <4> QED
        BY <3>1, <4>1 DEF Follows
    <3>2. CASE s.pc \notin DOMAIN Follows
      BY <3>2 DEF Answered, Idle
    <3> QED
      BY <3>1, <3>2
  <2> QED
    BY <1>i, <2>1, <2>2
<1>3. CASE CallFails(r) \/ CallCancelled(r) \/ AnswerCancelled(r) \/ StageFails(r)
  <2>1. run' = [run EXCEPT ![r] = Failed(s)]
    BY <1>3 DEF CallFails, CallCancelled, AnswerCancelled, StageFails
  <2>2. Failed(s).pc # "create"
    <3> HIDE DEF s
    <3>1. CASE s.pc \in {"reserve"} \cup Binding
      <4>1. Failed(s).pc = "abort"
        BY <1>0, <3>1 DEF Failed, RunShape
      <4> QED
        BY <4>1
    <3>2. CASE s.pc \notin {"reserve"} \cup Binding
      BY <3>2 DEF Failed, Idle
    <3> QED
      BY <3>1, <3>2
  <2> QED
    BY <1>i, <2>1, <2>2
<1>4. CASE Plan(r)
  <2>1. PICK ask : run' = [run EXCEPT ![r] = [s EXCEPT !.pc = "create", !.demand = None,
                                               !.within = Payer(s), !.ask = ask]]
    BY <1>4 DEF Plan
  <2>2. PICK next : /\ run' = [run EXCEPT ![r] = next]
                    /\ next = [s EXCEPT !.pc = "create", !.demand = None,
                                        !.within = Payer(s), !.ask = ask]
    BY <2>1
  <2>3. next.kind = s.kind /\ next.parent = s.parent
    <3> HIDE DEF s
    <3> QED
      BY <1>0, <2>2 DEF RunShape
  <2>4. LineageAllowed(s)
    BY <1>4 DEF Plan
  <2>5. s.parent \in Ids \cup {None} /\ Parents(at)
    BY DEF Typed, RunTyped, Parents, AttemptTyped
  <2> HIDE DEF s
  <2>6. RetryPlanned(next, at)
    <3> SUFFICES ASSUME s.kind = "retry", s.parent # None
                 PROVE  /\ at[s.parent].phase # "absent"
                        /\ at[s.parent].kind # "helper"
                        /\ Cardinality(Lineage(at, s.parent)) <= MaxRetries
      BY <2>3 DEF RetryPlanned
    <3>1. s.parent \in Lineage(at, s.parent)
      <4> HIDE DEF at
      <4> QED
        BY <2>5, LineageParent
    <3> QED
      BY <2>4, <3>1 DEF LineageAllowed
  <2> QED
    BY <2>2, <2>6
<1>5. CASE PlanRefused(r)
  BY <1>5, <1>i DEF PlanRefused, Idle
<1>6. ASSUME NEW kind \in Kinds, NEW parent \in Known, NEW demand \in Demands,
             \/ Invoke(r, kind, parent, demand)
             \/ \E a \in DirectIds : RunNamed(r, a, kind, parent, demand)
      PROVE  \E next : run' = [run EXCEPT ![r] = next] /\ next.pc # "create"
  <2>1. CASE Invoke(r, kind, parent, demand)
    <3>1. PICK next : /\ run' = [run EXCEPT ![r] = next]
                      /\ next = [Idle EXCEPT !.pc = "allocate", !.kind = kind,
                                             !.parent = parent, !.demand = demand]
      BY <2>1 DEF Invoke
    <3>2. next.pc = "allocate"
      BY <3>1 DEF Idle
    <3> QED
      BY <3>1, <3>2
  <2>2. ASSUME NEW a \in DirectIds, RunNamed(r, a, kind, parent, demand)
        PROVE  \E next : run' = [run EXCEPT ![r] = next] /\ next.pc # "create"
    <3>1. PICK next : /\ run' = [run EXCEPT ![r] = next]
                      /\ next = [Idle EXCEPT !.pc = "plan", !.id = a, !.kind = kind,
                                             !.parent = parent, !.demand = demand]
      BY <2>2 DEF RunNamed
    <3>2. next.pc = "plan"
      BY <3>1 DEF Idle
    <3> QED
      BY <3>1, <3>2
  <2> QED
    BY <1>6, <2>1, <2>2
<1>7. ASSUME NEW outcome, CallModel(r, outcome)
      PROVE  \E next : run' = [run EXCEPT ![r] = next] /\ next.pc # "create"
  <2>1. PICK next : /\ run' = [run EXCEPT ![r] = next]
                    /\ next = [s EXCEPT !.pc = "settle", !.outcome = outcome]
    BY <1>7 DEF CallModel
  <2>2. next.pc = "settle"
    <3> HIDE DEF s
    <3> QED
      BY <1>0, <2>1 DEF RunShape
  <2> QED
    BY <2>1, <2>2
<1>8. ASSUME NEW t, NEW parent, NEW asked, AdmitDelegated(r, t, parent, asked)
      PROVE  \E next : run' = [run EXCEPT ![r] = next] /\ next.pc # "create"
  <2>1. PICK next : /\ run' = [run EXCEPT ![r] = next]
                    /\ next = [Idle EXCEPT !.pc = "admit", !.id = t,
                                           !.within = parent, !.ask = asked]
    BY <1>8 DEF AdmitDelegated, Delegate
  <2>2. next.pc = "admit"
    BY <2>1 DEF Idle
  <2> QED
    BY <2>1, <2>2
<1>9. ASSUME NEW t, StartDelegated(r, t)
      PROVE  \E next : run' = [run EXCEPT ![r] = next] /\ next.pc # "create"
  <2>1. PICK next : /\ run' = [run EXCEPT ![r] = next]
                    /\ next = [Idle EXCEPT !.pc = "start", !.id = t]
    BY <1>9 DEF StartDelegated, Delegate
  <2>2. next.pc = "start"
    BY <2>1 DEF Idle
  <2> QED
    BY <2>1, <2>2
<1>10. ASSUME NEW t, NEW actual, NEW outcome, FinishDelegated(r, t, actual, outcome)
       PROVE  \E next : run' = [run EXCEPT ![r] = next] /\ next.pc # "create"
  <2>1. PICK next : /\ run' = [run EXCEPT ![r] = next]
                    /\ next = [Idle EXCEPT !.pc = "finish", !.id = t,
                                           !.ask = actual, !.outcome = outcome]
    BY <1>10 DEF FinishDelegated, Delegate
  <2>2. next.pc = "finish"
    BY <2>1 DEF Idle
  <2> QED
    BY <2>1, <2>2
<1>11. ASSUME \E next : run' = [run EXCEPT ![r] = next] /\ next.pc # "create"
       PROVE  \E next : run' = [run EXCEPT ![r] = next] /\ RetryPlanned(next, at)
  BY <1>i, <1>11
<1> QED
  BY <1>1, <1>2, <1>3, <1>4, <1>5, <1>6, <1>7, <1>8, <1>9, <1>10, <1>11 DEF Step

LEMMA PlansKeep ==
    ASSUME Shape, Typed, Typed', Families, RetryPlans, [Next]_vars
    PROVE  RetryPlans'
<1> DEFINE at == attempts.at
<1>0. run = [q \in Runners |-> run[q]]
  BY DEF Shape
<1>1. ASSUME NEW q \in Runners PROVE RetryPlanned(run'[q], at)
  <2>1. CASE Crash
    BY <2>1 DEF Crash, RetryPlanned, Idle
  <2>2. CASE UNCHANGED vars
    BY <2>2 DEF vars, RetryPlans
  <2>3. ASSUME NEW r \in Runners, Step(r) PROVE RetryPlanned(run'[q], at)
    <3>1. PICK next : run' = [run EXCEPT ![r] = next] /\ RetryPlanned(next, at)
      BY <2>3, StepPlans
    <3>2. run'[q] = IF q = r THEN next ELSE run[q]
      BY <1>0, <3>1
    <3> QED
      BY <3>1, <3>2 DEF RetryPlans
  <2> QED
    BY <2>1, <2>2, <2>3 DEF Next
<1>2. CASE attempts' = attempts
  BY <1>1, <1>2 DEF RetryPlans
<1>3. ASSUME NEW r \in Runners, Commits(run[r]) PROVE RetryPlans'
  <2>1. \A q \in Runners : run'[q].parent \in Ids \cup {None}
    BY DEF Typed, RunTyped
  <2>2. \A q \in Runners : RetryPlanned(run'[q], attempts'.at)
    BY <1>1, <1>3, <2>1, PlansStay
  <2> QED
    BY <2>2 DEF RetryPlans
<1> QED
  BY <1>2, <1>3, OnlyCommits

-----------------------------------------------------------------------------
(* The theorems.                                                           *)

\* The inductive invariant, on top of that of StepsProofs.
LedgerInvariant ==
    /\ Typed
    /\ Families
    /\ RetryPlans
    /\ RetriesFollowFailures
    /\ DelegationPaid
    /\ Fit(resources.ledger, "tokens")
    /\ Fit(resources.ledger, "attempts")

LEMMA InitLedger == Init => LedgerInvariant
<1> SUFFICES ASSUME Init PROVE LedgerInvariant
  OBVIOUS
<1>1. Typed
  BY InitTyped
<1>2. \A a \in Ids : attempts.at[a].phase = "absent"
  BY DEF Init, NoAttempt
<1>3. Families /\ RetriesFollowFailures
  BY <1>2 DEF Families, RetriesFollowFailures
<1>4. RetryPlans
  BY DEF Init, RetryPlans, RetryPlanned, Idle
<1> DEFINE led == resources.ledger
<1>5. \A k \in Keys : led[k] = NoReservation
  BY DEF Init
<1>6. DelegationPaid
  BY <1>5 DEF DelegationPaid, Init, NoReservation, Keys
<1>7. LedgerTyped(led)
  BY <1>1 DEF LedgerTyped, Typed, Init
<1> HIDE DEF led
<1>8. ASSUME NEW u \in {"tokens", "attempts"} PROVE Fit(led, u)
  <2>1. \A p : Under(led, p) = {}
    BY <1>5, <1>7, UnderKeys DEF NoReservation
  <2>2. HeldBy(led, u) \in [Keys -> Nat]
    BY <1>7, HeldType DEF Amounts
  <2>3. \A p : Total(HeldBy(led, u), Under(led, p)) = 0
    <3>1. PICK S \in SUBSET Keys : S = {}
      OBVIOUS
    <3>2. Total(HeldBy(led, u), S) = 0
      BY <2>2, <3>1, KeysFinite, TotalType
    <3> QED
      BY <2>1, <3>1, <3>2
  <2>4. Of(Limit, u) \in Nat /\ \A k \in Keys : Of(Own(led[k]), u) \in Nat
    BY <1>7, AmountsAssumption, OfType DEF Own, LedgerTyped, ReservationTyped
  <2> QED
    BY <2>3, <2>4 DEF Fit
<1> QED
  BY <1>1, <1>3, <1>4, <1>6, <1>8 DEF LedgerInvariant, led

LEMMA LedgerKeeps ==
    ASSUME Shape, Shape', LedgerInvariant, [Next]_vars
    PROVE  LedgerInvariant'
<1>1. Typed /\ Typed'
  BY TypedKeeps DEF LedgerInvariant
<1>2. RetryPlans'
  BY <1>1, PlansKeep DEF LedgerInvariant
<1>3. CASE attempts' = attempts /\ resources' = resources
  BY <1>1, <1>2, <1>3
     DEF LedgerInvariant, Families, RetriesFollowFailures, DelegationPaid
<1>4. ASSUME NEW r \in Runners, Commits(run[r]) PROVE LedgerInvariant'
  <2>1. Families'
    BY <1>1, <1>4, FamiliesKeep DEF LedgerInvariant
  <2>2. RetriesFollowFailures'
    BY <1>1, <1>4, RetriesKeep DEF LedgerInvariant
  <2>3. DelegationPaid'
    BY <1>1, <1>4, PaidKeeps DEF LedgerInvariant
  <2>4. Fit(resources'.ledger, "tokens") /\ Fit(resources'.ledger, "attempts")
    BY <1>1, <1>4, FitKeeps DEF LedgerInvariant
  <2> QED
    BY <1>1, <1>2, <2>1, <2>2, <2>3, <2>4 DEF LedgerInvariant
<1> QED
  BY <1>3, <1>4, OnlyCommits

\* The budgets, the lineages and the delegated tasks are in order in every
\* reachable state (budget.rs, step_attempt.rs, resource_transaction.rs).
THEOREM LedgerHolds == Spec => []LedgerInvariant
<1>1. Init => LedgerInvariant
  BY InitLedger
<1>2. Invariant /\ Invariant' /\ LedgerInvariant /\ [Next]_vars => LedgerInvariant'
  BY LedgerKeeps DEF Invariant
<1> QED
  BY <1>1, <1>2, InvariantHolds, PTL DEF Spec

\* The records have the shape the services decode, and a call in flight
\* belongs to a runner that is at a service call (attempt_service.rs,
\* resource_service.rs).
THEOREM StepsTyped == Spec => []TypeOK
<1>1. Invariant /\ LedgerInvariant => TypeOK
  <2> SUFFICES ASSUME Shape, Records, Typed PROVE TypeOK
    BY DEF Invariant, LedgerInvariant
  <2>1. attempts.at \in [Ids -> [phase : Phases, kind : Kinds,
                                 parent : Ids \cup {None}, bound : BOOLEAN,
                                 outcome : Outcomes]]
    <3>1. ASSUME NEW a \in Ids
          PROVE  attempts.at[a] \in [phase : Phases, kind : Kinds,
                                     parent : Ids \cup {None}, bound : BOOLEAN,
                                     outcome : Outcomes]
      <4>1. AttemptShape(attempts.at[a]) /\ AttemptTyped(attempts.at[a])
        BY DEF Shape, Typed
      <4> QED
        BY <4>1 DEF AttemptShape, AttemptTyped
    <3>2. attempts.at = [a \in Ids |-> attempts.at[a]]
      BY DEF Shape
    <3> QED
      BY <3>1, <3>2
  <2>2. calls \in [Ids -> Nat]
    <3>1. ASSUME NEW a \in Ids PROVE calls[a] \in Nat
      <4>1. /\ RecordOK(attempts.at[a], resources.ledger[a], calls[a])
            /\ AttemptShape(attempts.at[a])
        BY DEF Records, Shape
      <4> QED
        BY <4>1 DEF RecordOK, AttemptShape, Phases
    <3>2. calls = [a \in Ids |-> calls[a]]
      BY DEF Shape
    <3> QED
      BY <3>1, <3>2
  <2>3. \A k \in Keys :
          LET rec == resources.ledger[k] IN
          /\ rec.state \in {"absent", "reserved", "settled", "released"}
          /\ rec.parent \in Keys \cup {None}
          /\ rec.asked \in Budgets /\ rec.actual \in Budgets
    BY DEF Typed, ReservationTyped, Keys
  <2> QED
    BY <2>1, <2>2, <2>3 DEF TypeOK, Typed, TaskStates, RunTyped
<1> QED
  BY <1>1, InvariantHolds, LedgerHolds, PTL

\* However the generations interleave, no budget is oversubscribed in tokens
\* or attempts (budget.rs reserve and settle under resource_service.rs
\* mutate).
THEOREM BudgetsHold == Spec => []NeverOversubscribed
<1>1. Invariant /\ LedgerInvariant => NeverOversubscribed
  BY FitMeans DEF Invariant, LedgerInvariant
<1> QED
  BY <1>1, InvariantHolds, LedgerHolds, PTL

\* A delegated task holds its reservation as long as it is open and runs
\* after its dependencies only (resource_transaction.rs).
THEOREM DelegationIsPaid == Spec => []DelegationPaid
<1>1. LedgerInvariant => DelegationPaid
  BY DEF LedgerInvariant
<1> QED
  BY <1>1, LedgerHolds, PTL

\* A retry follows attempts that have failed, no more of them than the
\* policy allows (attempt_service.rs validate_parent, runner.rs
\* validate_retry_lineage).
THEOREM RetriesAreBounded == Spec => []RetriesFollowFailures
<1>1. LedgerInvariant => RetriesFollowFailures
  BY DEF LedgerInvariant
<1> QED
  BY <1>1, LedgerHolds, PTL

\* No generation undoes what another has committed (resource_service.rs
\* mutate).
THEOREM CommitsAreKept == Spec => NothingUndone
<1> DEFINE Forward ==
             /\ \A k \in Keys :
                  \/ resources'.ledger[k] = resources.ledger[k]
                  \/ resources.ledger[k].state = "absent"
                  \/ /\ resources.ledger[k].state = "reserved"
                     /\ resources'.ledger[k].state \in {"settled", "released"}
             /\ \A t \in Tasks :
                  \/ resources'.task[t] = resources.task[t]
                  \/ resources.task[t] = "absent"
                  \/ resources.task[t] = "pending" /\ resources'.task[t] = "running"
                  \/ resources.task[t] = "running"
<1>1. Invariant /\ LedgerInvariant /\ [Next]_vars => [Forward]_vars
  <2> SUFFICES ASSUME Shape, Typed, [Next]_vars PROVE Forward
    BY DEF Invariant, LedgerInvariant
  <2>1. CASE attempts' = attempts /\ resources' = resources
    BY <2>1
  <2>2. ASSUME NEW r \in Runners, Commits(run[r]) PROVE Forward
    <3>1. resources.task = [u \in Tasks |-> resources.task[u]]
      BY DEF Typed
    <3> QED
      BY <2>2, <3>1, LedgerForward, TasksForward
  <2> QED
    BY <2>1, <2>2, OnlyCommits
<1> QED
  BY <1>1, InvariantHolds, LedgerHolds, PTL DEF Spec, NothingUndone

=============================================================================
