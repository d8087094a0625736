--------------------------- MODULE GraphReconciler --------------------------
(***************************************************************************)
(* The graph reconciler (src/rust/crates/phenix-core/src/reconciliation.rs)*)
(* as a state machine: it holds the active harness, previews a candidate   *)
(* and activates it.  The restart set is compared with a reference closure *)
(* over every pair of small graphs.                                        *)
(***************************************************************************)
EXTENDS TransitionPlan

CONSTANTS
  Order,      \* component ids in the order of their BTreeMap
  Revisions,  \* what tells two manifests of one component apart
  Changing,   \* the components that have more than one revision
  MaxImports, \* bound: required imports of one component
  None        \* no preview

ASSUME OrderAssumption ==
  Order \in Seq(ToSet(Order)) /\ IsInjective(Order) /\ 1 \in Revisions

Components == ToSet(Order)
Pairs(D) == {p \in D \X D : p[1] # p[2]}

\* A manifest says how many required imports a component has, the graph binds
\* each of them to an exporter: an unchanged component may be bound anew.
ImportsOf(r, c) == Cardinality({p \in r : p[1] = c})

HarnessOf(D, v, r) ==
  [components |-> [c \in D |-> [revision |-> v[c], imports |-> ImportsOf(r, c)]],
   requires |-> r]

RevisionsOf(D) ==
  {v \in [D -> Revisions] : \A c \in D \ Changing : v[c] = 1}

\* The component graph is refused when required imports form a cycle.
Acyclic(D, r) ==
  \A S \in SUBSET D \ {{}} : \E c \in S : \A d \in S : <<c, d>> \notin r

GraphsOf(D) ==
  {r \in SUBSET Pairs(D) :
     Acyclic(D, r) /\ \A c \in D : ImportsOf(r, c) <= MaxImports}

\* Every harness over these components; owners and plugins play no part here.
Harnesses ==
  UNION {{HarnessOf(D, v, r) : v \in RevisionsOf(D), r \in GraphsOf(D)} :
         D \in SUBSET Components}

VARIABLES
  active,   \* GraphReconciler.active
  preview   \* ReconciliationPreview of a candidate, or None

vars == <<active, preview>>

Init == active \in Harnesses /\ preview = None

PreviewCandidate(candidate) ==
  /\ preview = None
  /\ preview' = [candidate |-> candidate,
                 activate |-> Added(active, candidate),
                 stop |-> Removed(active, candidate),
                 restart |-> Restarts(active, candidate, Order)]
  /\ UNCHANGED active

\* activate_candidate; a preview that is not activated is dropped.
ActivateCandidate ==
  preview # None /\ active' = preview.candidate /\ preview' = None

DropPreview == preview # None /\ preview' = None /\ UNCHANGED active

Next ==
  \/ \E candidate \in Harnesses : PreviewCandidate(candidate)
  \/ ActivateCandidate \/ DropPreview

Spec == Init /\ [][Next]_vars
-----------------------------------------------------------------------------
(* Properties *)

\* The components that reach one of `roots` through required imports of a
\* graph with these edges.
Reaching(edges, roots) ==
  {c \in Components : \A S \in SUBSET Components :
     (roots \subseteq S /\ \A e \in edges : e[2] \in S => e[1] \in S) => c \in S}

\* The reference: what the two graphs together make depend on a reconfigured
\* component.
Affected == Reaching(active.requires \cup preview.candidate.requires,
                     Reconfigured(active, preview.candidate))

\* A transition restarts nothing but reconfigured components and components
\* that depend on one through required imports of either graph: unrelated
\* components keep their instances (transition_plan).  When the transition
\* keeps the required imports, the restart set is exactly the reconfigured
\* components and all their direct and indirect dependents, whatever the order
\* the changes are visited in and however their dependents overlap; when
\* imports move, direct dependents in both graphs are included.
RestartsDependents ==
  preview # None =>
    /\ preview.restart \subseteq Affected
    /\ active.requires = preview.candidate.requires =>
         preview.restart = Affected
    /\ \A c \in Reconfigured(active, preview.candidate) :
         Dependents(active, c) \cup Dependents(preview.candidate, c)
           \subseteq preview.restart

\* reconciliation.rs, a test: "reconfiguring_a_provider_restarts_its_required_
\* dependency_closure".  Of the components that live in both graphs, those that
\* reach a reconfigured one in the candidate graph restart.  A dependent found
\* in the previous graph is not followed in the candidate graph, so this does
\* not hold of the code when an unchanged import is bound anew.
RestartsClosure ==
  preview # None =>
    Reaching(preview.candidate.requires, Reconfigured(active, preview.candidate))
      \cap DOMAIN active.components \subseteq preview.restart
=============================================================================
