------------------------ MODULE GraphReconcilerProofs ------------------------
(* What holds of the restart set for every set of components, every order of *)
(* their ids and every pair of graphs.                                       *)
EXTENDS GraphReconciler, SequenceTheorems, WellFoundedInduction, TLAPS

-----------------------------------------------------------------------------
(* The restart set, visit by visit.                                        *)

\* A set of numbers that is not empty has a least element.
LEMMA LeastNumber ==
  ASSUME NEW T, T \subseteq Nat, T # {}
  PROVE  \E x \in T : \A y \in T : x <= y
<1> DEFINE R == {ss \in Nat \X Nat : ss[1] < ss[2]}
<1>1. IsWellFoundedOn(R, Nat)
  BY NatLessThanWellFounded, Zenon DEF OpToRel
<1> HIDE DEF R
<1>2. PICK x \in T : \A y \in T : ~ (<<y, x>> \in R)
  BY <1>1, WFMin
<1>3. \A y \in T : ~ (y < x)
  BY <1>2 DEF R
<1> QED BY <1>3

\* One visit of the restart set of transition_plan.
Visit(previous, next, restart, c) ==
  IF c \in Reconfigured(previous, next)
  THEN CollectRequiredDependents(next, c,
         CollectRequiredDependents(previous, c, restart \cup {c}))
  ELSE restart

\* f[n] is the restart set after n visits.
Visits(f, previous, next, order) ==
  /\ f[0] = {}
  /\ \A n \in 1 .. Len(order) :
       f[n] = Visit(previous, next, f[n - 1], order[n])
  /\ Restarts(previous, next, order) = f[Len(order)]

\* The recursion of Restarts has a solution.
LEMMA RestartsDefined ==
  ASSUME NEW previous, NEW next, NEW S, NEW order \in Seq(S)
  PROVE  \E f : Visits(f, previous, next, order)
<1> DEFINE Step(f, n) == IF n = 0 THEN {}
                         ELSE Visit(previous, next, f[n - 1], order[n])
           Solves(g, n) == g = [i \in 0 .. n |-> Step(g, i)]
           none == {n \in Nat : ~ \E g : Solves(g, n)}
<1>1. none = {}
  <2> SUFFICES ASSUME none # {} PROVE FALSE
    OBVIOUS
  <2>1. PICK n \in none : \A m \in none : n <= m
    <3>1. none \subseteq Nat
      <4> HIDE DEF Solves
      <4> QED OBVIOUS
    <3> HIDE DEF none
    <3> QED BY <3>1, LeastNumber
  <2>2. n \in Nat /\ n # 0
    <3>1. Solves([i \in 0 .. 0 |-> {}], 0)
      OBVIOUS
    <3>2. n \in Nat /\ ~ \E g : Solves(g, n)
      <4> HIDE DEF Solves
      <4> QED BY <2>1
    <3> HIDE DEF Solves
    <3> QED BY <3>1, <3>2
  <2>3. n - 1 \in Nat /\ n - 1 \notin none
    <3> HIDE DEF none
    <3> QED BY <2>1, <2>2
  <2>4. PICK g : Solves(g, n - 1)
    <3> HIDE DEF Solves
    <3> QED BY <2>3
  <2> DEFINE h == [i \in 0 .. n |-> IF i = n THEN Step(g, n) ELSE g[i]]
  <2>5. ASSUME NEW i \in 0 .. n PROVE h[i] = Step(h, i)
    <3>1. CASE i = n
      <4>1. h[n - 1] = g[n - 1]
        BY <2>2
      <4> QED BY <2>2, <3>1, <4>1
    <3>2. CASE i # n
      <4>1. i \in 0 .. n - 1 /\ (i # 0 => i - 1 \in 0 .. n - 1 /\ i - 1 # n)
        BY <2>2, <3>2
      <4>2. h[i] = g[i] /\ (i # 0 => h[i - 1] = g[i - 1])
        BY <2>2, <4>1
      <4>3. g[i] = Step(g, i)
        BY <2>4, <4>1
      <4> QED BY <4>2, <4>3
    <3> QED BY <3>1, <3>2
  <2>6. h = [i \in 0 .. n |-> h[i]]
    OBVIOUS
  <2> HIDE DEF h
  <2>7. Solves(h, n)
    BY <2>5, <2>6
  <2> QED BY <2>1, <2>7
<1>2. PICK g : Solves(g, Len(order))
  <2>1. Len(order) \in Nat
    OBVIOUS
  <2> HIDE DEF Solves
  <2> QED BY <1>1, <2>1
<1> DEFINE f == CHOOSE f : f = [n \in 0 .. Len(order) |-> Step(f, n)]
<1>3. Restarts(previous, next, order) = f[Len(order)]
  BY DEF Restarts, Visit
<1>4. f = [n \in 0 .. Len(order) |-> Step(f, n)]
  BY <1>2
<1> HIDE DEF f
<1>5. \A n \in 0 .. Len(order) : f[n] = Step(f, n)
  BY <1>4
<1>6. Visits(f, previous, next, order)
  BY <1>3, <1>5 DEF Visits
<1> QED BY <1>6

\* collect_required_dependents keeps what it is given and adds every dependent
\* of the component it starts from and of all that it adds.
LEMMA CollectCloses ==
  ASSUME NEW harness, NEW c, NEW affected
  PROVE  LET found == CollectRequiredDependents(harness, c, affected)
         IN /\ affected \subseteq found
            /\ found \subseteq affected \cup DOMAIN harness.components
            /\ Dependents(harness, c) \subseteq found
            /\ \A d \in found \ affected : Dependents(harness, d) \subseteq found
<1> DEFINE all == DOMAIN harness.components
           fresh(d) == Dependents(harness, d) \ affected
           closed(S) == \A d \in S \cup {c} : fresh(d) \subseteq S
           least == {d \in all : \A S \in SUBSET all : closed(S) => d \in S}
           found == CollectRequiredDependents(harness, c, affected)
<1>1. found = affected \cup least
  BY DEF CollectRequiredDependents
<1>2. ASSUME NEW d \in least \cup {c} PROVE fresh(d) \subseteq least
  <2> SUFFICES ASSUME NEW e \in fresh(d), NEW S \in SUBSET all, closed(S)
               PROVE  e \in S
    BY DEF Dependents
  <2>1. d \in S \cup {c}
    OBVIOUS
  <2> QED BY <2>1
<1> HIDE DEF found, least
<1>3. Dependents(harness, c) \subseteq found
  BY <1>1, <1>2
<1>4. \A d \in found \ affected : Dependents(harness, d) \subseteq found
  BY <1>1, <1>2
<1>5. least \subseteq all
  BY DEF least
<1> QED BY <1>1, <1>3, <1>4, <1>5 DEF found

\* A set that has what the search starts with and the dependents of all its
\* elements has all that the search finds.
LEMMA CollectWithin ==
  ASSUME NEW harness, NEW affected, NEW whole, NEW c \in whole,
         affected \subseteq whole,
         \A d \in whole : Dependents(harness, d) \subseteq whole
  PROVE  CollectRequiredDependents(harness, c, affected) \subseteq whole
<1> DEFINE all == DOMAIN harness.components
           fresh(d) == Dependents(harness, d) \ affected
           closed(S) == \A d \in S \cup {c} : fresh(d) \subseteq S
           least == {d \in all : \A S \in SUBSET all : closed(S) => d \in S}
<1>1. CollectRequiredDependents(harness, c, affected) = affected \cup least
  BY DEF CollectRequiredDependents
<1>2. closed(whole \cap all)
  BY DEF Dependents
<1>3. least \subseteq whole \cap all
  BY <1>2
<1> HIDE DEF least
<1> QED BY <1>1, <1>3

\* A visit keeps the restart set, adds the component and its dependents in
\* both graphs, and adds nothing but dependents of what is there.
LEMMA VisitAdds ==
  ASSUME NEW previous, NEW next, NEW restart, NEW c
  PROVE  LET visited == Visit(previous, next, restart, c)
         IN /\ restart \subseteq visited
            /\ visited \subseteq restart \cup DOMAIN previous.components
                                 \cup DOMAIN next.components
            /\ c \in Reconfigured(previous, next) =>
                 {c} \cup Dependents(previous, c) \cup Dependents(next, c)
                   \subseteq visited
<1> DEFINE visited == Visit(previous, next, restart, c)
           first == CollectRequiredDependents(previous, c, restart \cup {c})
           second == CollectRequiredDependents(next, c, first)
<1>1. /\ restart \cup {c} \subseteq first
      /\ first \subseteq restart \cup {c} \cup DOMAIN previous.components
      /\ Dependents(previous, c) \subseteq first
  BY CollectCloses
<1>2. /\ first \subseteq second
      /\ second \subseteq first \cup DOMAIN next.components
      /\ Dependents(next, c) \subseteq second
  <2> HIDE DEF first
  <2> QED BY CollectCloses
<1>3. visited = IF c \in Reconfigured(previous, next) THEN second ELSE restart
  BY DEF Visit
<1>4. c \in Reconfigured(previous, next) => c \in DOMAIN previous.components
  BY DEF Reconfigured
<1> HIDE DEF visited, first, second
<1> QED BY <1>1, <1>2, <1>3, <1>4 DEF visited

\* Within a set that is closed in both graphs a visit stays in it.
LEMMA VisitWithin ==
  ASSUME NEW previous, NEW next, NEW whole, NEW restart, NEW c,
         restart \subseteq whole, Reconfigured(previous, next) \subseteq whole,
         \A d \in whole : /\ Dependents(previous, d) \subseteq whole
                          /\ Dependents(next, d) \subseteq whole
  PROVE  Visit(previous, next, restart, c) \subseteq whole
<1> DEFINE first == CollectRequiredDependents(previous, c, restart \cup {c})
           second == CollectRequiredDependents(next, c, first)
<1>1. CASE c \in Reconfigured(previous, next)
  <2>1. c \in whole /\ restart \cup {c} \subseteq whole
    BY <1>1
  <2>2. first \subseteq whole
    BY <2>1, CollectWithin
  <2>3. second \subseteq whole
    <3> HIDE DEF first
    <3> QED BY <2>1, <2>2, CollectWithin
  <2> QED BY <1>1, <2>3 DEF Visit
<1>2. CASE c \notin Reconfigured(previous, next)
  BY <1>2 DEF Visit
<1> QED BY <1>1, <1>2

\* When both graphs have the same dependents, a visit of a closed set leaves
\* a closed set.
LEMMA VisitCloses ==
  ASSUME NEW previous, NEW next, NEW restart, NEW c,
         \A d : Dependents(previous, d) = Dependents(next, d),
         \A d \in restart : Dependents(next, d) \subseteq restart,
         NEW visited, visited = Visit(previous, next, restart, c)
  PROVE  \A d \in visited : Dependents(next, d) \subseteq visited
<1> DEFINE first == CollectRequiredDependents(previous, c, restart \cup {c})
           second == CollectRequiredDependents(next, c, first)
<1>1. /\ restart \cup {c} \subseteq first
      /\ Dependents(previous, c) \subseteq first
      /\ \A d \in first \ (restart \cup {c}) : Dependents(previous, d) \subseteq first
  BY CollectCloses
<1>2. \A d \in first : Dependents(next, d) \subseteq first
  <2> HIDE DEF first
  <2> QED BY <1>1
<1>3. /\ first \subseteq second
      /\ \A d \in second \ first : Dependents(next, d) \subseteq second
  <2> HIDE DEF first
  <2> QED BY CollectCloses
<1>4. visited = IF c \in Reconfigured(previous, next) THEN second ELSE restart
  BY DEF Visit
<1> HIDE DEF first, second
<1> QED BY <1>2, <1>3, <1>4

-----------------------------------------------------------------------------
(* The reference closure.                                                  *)

\* A harness has components of the model, and requires only between its own.
LEMMA HarnessFacts ==
  ASSUME NEW h \in Harnesses
  PROVE  /\ DOMAIN h.components \subseteq Components
         /\ \A e \in h.requires : /\ e[1] \in DOMAIN h.components
                                  /\ e[2] \in DOMAIN h.components
                                  /\ e = <<e[1], e[2]>>
<1>1. PICK D \in SUBSET Components : \E v \in RevisionsOf(D), r \in GraphsOf(D) :
        h = HarnessOf(D, v, r)
  BY DEF Harnesses
<1>2. PICK v \in RevisionsOf(D), r \in GraphsOf(D) : h = HarnessOf(D, v, r)
  BY <1>1
<1>3. DOMAIN h.components = D /\ h.requires = r
  BY <1>2 DEF HarnessOf
<1>4. r \subseteq D \X D
  BY DEF GraphsOf, Pairs
<1> QED BY <1>3, <1>4

\* Reaching has its roots, is closed, and is the least such set.
LEMMA ReachingFacts ==
  ASSUME NEW edges, NEW roots, roots \subseteq Components,
         \A e \in edges : e[1] \in Components
  PROVE  /\ roots \subseteq Reaching(edges, roots)
         /\ \A e \in edges :
              e[2] \in Reaching(edges, roots) => e[1] \in Reaching(edges, roots)
         /\ \A S \in SUBSET Components :
              (roots \subseteq S /\ \A e \in edges : e[2] \in S => e[1] \in S)
                => Reaching(edges, roots) \subseteq S
BY DEF Reaching

-----------------------------------------------------------------------------
(* The restart set against the reference.                                  *)

\* After n visits of a transition from previous to next: reached is the
\* reference closure of what is reconfigured.
VisitedBy(f, n, previous, next, reached) ==
  /\ f \subseteq reached
  /\ \A k \in 1 .. n : Order[k] \in Reconfigured(previous, next) =>
       {Order[k]} \cup Dependents(previous, Order[k]) \cup Dependents(next, Order[k])
         \subseteq f
  /\ previous.requires = next.requires =>
       \A d \in f : Dependents(next, d) \subseteq f

LEMMA RestartsVisited ==
  ASSUME NEW previous \in Harnesses, NEW next \in Harnesses, NEW reached,
         Reconfigured(previous, next) \subseteq reached,
         \A d \in reached : /\ Dependents(previous, d) \subseteq reached
                            /\ Dependents(next, d) \subseteq reached
  PROVE  VisitedBy(Restarts(previous, next, Order), Len(Order), previous, next,
                   reached)
<1>1. Order \in Seq(Components) /\ Len(Order) \in Nat
  BY OrderAssumption DEF Components
<1>2. PICK f : Visits(f, previous, next, Order)
  BY <1>1, RestartsDefined
<1> DEFINE Holds(n) == VisitedBy(f[n], n, previous, next, reached)
           wrong == {n \in 0 .. Len(Order) : ~ Holds(n)}
<1>3. wrong = {}
  <2> SUFFICES ASSUME wrong # {} PROVE FALSE
    OBVIOUS
  <2>1. PICK n \in wrong : \A m \in wrong : n <= m
    <3>1. wrong \subseteq Nat
      <4> HIDE DEF Holds
      <4> QED BY <1>1
    <3> HIDE DEF wrong
    <3> QED BY <3>1, LeastNumber
  <2>2. n # 0
    <3>1. Holds(0)
      BY <1>2 DEF Visits, VisitedBy
    <3> HIDE DEF Holds
    <3> QED BY <2>1, <3>1
  <2>3. n \in 1 .. Len(Order) /\ n - 1 \in 0 .. Len(Order) /\ n - 1 \notin wrong
    <3>1. n \in 0 .. Len(Order)
      <4> HIDE DEF Holds
      <4> QED BY <2>1
    <3> HIDE DEF wrong
    <3> QED BY <1>1, <2>1, <2>2, <3>1
  <2>4. VisitedBy(f[n - 1], n - 1, previous, next, reached)
    <3>1. Holds(n - 1)
      <4> HIDE DEF Holds
      <4> QED BY <2>3
    <3> QED BY <3>1
  <2>5. f[n] = Visit(previous, next, f[n - 1], Order[n])
    BY <1>2, <2>3 DEF Visits
  <2> DEFINE before == f[n - 1]
             after == f[n]
             c == Order[n]
  <2>6. /\ before \subseteq after
        /\ c \in Reconfigured(previous, next) =>
             {c} \cup Dependents(previous, c) \cup Dependents(next, c) \subseteq after
    BY <2>5, VisitAdds
  <2>7. after \subseteq reached
    <3>1. before \subseteq reached
      BY <2>4 DEF VisitedBy
    <3> QED BY <2>5, <3>1, VisitWithin
  <2>8. previous.requires = next.requires =>
          \A d \in after : Dependents(next, d) \subseteq after
    <3> SUFFICES ASSUME previous.requires = next.requires
                 PROVE  \A d \in after : Dependents(next, d) \subseteq after
      OBVIOUS
    <3>1. \A d : Dependents(previous, d) = Dependents(next, d)
      BY HarnessFacts DEF Dependents
    <3>2. \A d \in before : Dependents(next, d) \subseteq before
      BY <2>4 DEF VisitedBy
    <3> QED BY <2>5, <3>1, <3>2, VisitCloses
  <2>9. \A k \in 1 .. n : k = n \/ k \in 1 .. n - 1
    BY <2>3
  <2>10. \A k \in 1 .. n - 1 : Order[k] \in Reconfigured(previous, next) =>
           {Order[k]} \cup Dependents(previous, Order[k])
             \cup Dependents(next, Order[k]) \subseteq before
    BY <2>4 DEF VisitedBy
  <2> HIDE DEF before, after
  <2>11. VisitedBy(after, n, previous, next, reached)
    BY <2>6, <2>7, <2>8, <2>9, <2>10 DEF VisitedBy
  <2> QED BY <2>1, <2>11 DEF after
<1>4. Holds(Len(Order))
  <2> HIDE DEF Holds
  <2> QED BY <1>1, <1>3
<1>5. Restarts(previous, next, Order) = f[Len(Order)]
  BY <1>2 DEF Visits
<1> QED BY <1>4, <1>5

\* The restart set of transition_plan lies between the direct dependents and
\* the reference closure, and is the closure when no required import moves.
LEMMA RestartsReached ==
  ASSUME NEW previous \in Harnesses, NEW next \in Harnesses, NEW reached,
         reached = Reaching(previous.requires \cup next.requires,
                            Reconfigured(previous, next))
  PROVE  /\ Restarts(previous, next, Order) \subseteq reached
         /\ previous.requires = next.requires =>
              Restarts(previous, next, Order) = reached
         /\ \A c \in Reconfigured(previous, next) :
              Dependents(previous, c) \cup Dependents(next, c)
                \subseteq Restarts(previous, next, Order)
<1> DEFINE edges == previous.requires \cup next.requires
           roots == Reconfigured(previous, next)
           restart == Restarts(previous, next, Order)
<1>1. /\ roots \subseteq Components
      /\ \A e \in edges : e[1] \in Components
  BY HarnessFacts DEF Reconfigured
<1>2. /\ roots \subseteq reached
      /\ \A e \in edges : e[2] \in reached => e[1] \in reached
      /\ \A S \in SUBSET Components :
           (roots \subseteq S /\ \A e \in edges : e[2] \in S => e[1] \in S)
             => reached \subseteq S
  <2> HIDE DEF roots, edges
  <2>1. reached = Reaching(edges, roots)
    BY DEF roots, edges
  <2> QED BY <1>1, <2>1, ReachingFacts
<1>3. \A d \in reached : /\ Dependents(previous, d) \subseteq reached
                         /\ Dependents(next, d) \subseteq reached
  <2> SUFFICES ASSUME NEW d \in reached, NEW x, <<x, d>> \in edges
               PROVE  x \in reached
    BY DEF Dependents
  <2>1. <<x, d>>[1] = x /\ <<x, d>>[2] = d
    OBVIOUS
  <2> HIDE DEF edges
  <2> QED BY <1>2, <2>1
<1>4. VisitedBy(restart, Len(Order), previous, next, reached)
  BY <1>2, <1>3, RestartsVisited
<1>5. Order \in Seq(Components) /\ DOMAIN Order = 1 .. Len(Order)
      /\ Components = ToSet(Order)
  BY OrderAssumption DEF Components
<1>6. \A c \in roots : \E k \in 1 .. Len(Order) : Order[k] = c
  BY <1>1, <1>5 DEF ToSet
<1> HIDE DEF roots, restart
<1>7. /\ restart \subseteq reached
      /\ \A c \in roots : {c} \cup Dependents(previous, c) \cup Dependents(next, c)
                            \subseteq restart
      /\ previous.requires = next.requires =>
           \A d \in restart : Dependents(next, d) \subseteq restart
  BY <1>4, <1>6 DEF VisitedBy, roots
<1>8. ASSUME previous.requires = next.requires
      PROVE  reached \subseteq restart
  <2>1. restart \subseteq Components
    <3>1. reached \subseteq Components
      BY DEF Reaching
    <3> QED BY <1>7, <3>1
  <2>2. \A e \in edges : e[2] \in restart => e[1] \in Dependents(next, e[2])
    BY <1>8, HarnessFacts DEF Dependents
  <2>3. roots \subseteq restart
    BY <1>7
  <2> QED BY <1>2, <1>7, <1>8, <2>1, <2>2, <2>3
<1> QED BY <1>7, <1>8 DEF roots, restart

-----------------------------------------------------------------------------
(* The reconciler.                                                         *)

\* A preview is the plan of a transition from the harness that is active.
Planned ==
  /\ active \in Harnesses
  /\ preview # None =>
       /\ preview.candidate \in Harnesses
       /\ preview.restart = Restarts(active, preview.candidate, Order)

\* transition_plan restarts nothing that does not depend on a reconfigured
\* component in either graph, what directly depends on one in both, and exactly
\* the closure when no required import moves, for every set of components and
\* in whatever order their ids are visited.
THEOREM RestartSetIsRight == Spec => []RestartsDependents
<1>1. Init => Planned
  BY DEF Init, Planned
<1>2. Planned /\ [Next]_vars => Planned'
  <2> SUFFICES ASSUME Planned, [Next]_vars PROVE Planned'
    OBVIOUS
  <2>1. ASSUME NEW candidate \in Harnesses, PreviewCandidate(candidate)
        PROVE  Planned'
    BY <2>1 DEF PreviewCandidate, Planned
  <2>2. CASE ActivateCandidate
    BY <2>2 DEF ActivateCandidate, Planned
  <2>3. CASE DropPreview
    BY <2>3 DEF DropPreview, Planned
  <2>4. CASE UNCHANGED vars
    BY <2>4 DEF vars, Planned
  <2> QED BY <2>1, <2>2, <2>3, <2>4 DEF Next
<1>3. Planned => RestartsDependents
  BY RestartsReached DEF Planned, RestartsDependents, Affected
<1> QED BY <1>1, <1>2, <1>3, PTL DEF Spec
=============================================================================
