--------------------------- MODULE TransitionPlan ---------------------------
(***************************************************************************)
(* How phenix-core compares two resolved harnesses and decides what a      *)
(* transition between them restarts (src/rust/crates/phenix-core/src/      *)
(* reconciliation.rs, live_reconciliation.rs and runtime/reconciliation.rs,*)
(* runtime_restart_closure).                                               *)
(*                                                                         *)
(* A harness is a record:                                                  *)
(*   components  component id -> [owner, revision]  (ComponentManifest)    *)
(*   requires    pairs <<importer, exporter>> of bound required imports    *)
(*   manifests   plugin id -> [revision, execution] (PluginManifest)       *)
(*   bindings    guest plugin -> runtime provider plugin                   *)
(* Ids that a harness does not contain are outside the function's domain.  *)
(***************************************************************************)
EXTENDS SequencesExt

\* component_changes
Added(previous, next) ==
  DOMAIN next.components \ DOMAIN previous.components
Removed(previous, next) == Added(next, previous)
Reconfigured(previous, next) ==
  {c \in DOMAIN previous.components \cap DOMAIN next.components :
     previous.components[c] # next.components[c]}

Dependents(harness, c) ==
  {d \in DOMAIN harness.components : <<d, c>> \in harness.requires}

\* Mutant of CollectRequiredDependents: direct dependents only.
CollectDirect(harness, provider, affected) ==
  affected \cup Dependents(harness, provider)

\* collect_required_dependents: a depth-first search that goes no further
\* from a component that was in `affected` before.  What it adds is the least
\* set closed under the dependents that are not in `affected` yet.
CollectRequiredDependents(harness, provider, affected) ==
  LET fresh(c) == Dependents(harness, c) \ affected
      closed(S) == \A c \in S \cup {provider} : fresh(c) \subseteq S
  IN affected \cup
       {d \in DOMAIN harness.components :
          \A S \in SUBSET DOMAIN harness.components : closed(S) => d \in S}

\* The restart set of transition_plan: the changes are visited in the order of
\* their ids, and one set is shared by all searches in both graphs.
Restarts(previous, next, order) ==
  LET visit(restart, c) ==
        IF c \in Reconfigured(previous, next)
        THEN CollectRequiredDependents(next, c,
               CollectRequiredDependents(previous, c, restart \cup {c}))
        ELSE restart
      upTo[n \in 0 .. Len(order)] ==
        IF n = 0 THEN {} ELSE visit(upTo[n - 1], order[n])
  IN upTo[Len(order)]

\* restart_plugins_for_plan: the candidate's manifest of a component names the
\* owner when both graphs have one.
Owner(previous, next, c) ==
  IF c \in DOMAIN next.components
  THEN next.components[c].owner ELSE previous.components[c].owner

\* Mutant of RestartPlugins: restarted components are left out.
RestartPluginsMoved(previous, next, order) ==
  {Owner(previous, next, c) :
     c \in Added(previous, next) \cup Removed(previous, next)}

RestartPlugins(previous, next, order) ==
  {Owner(previous, next, c) :
     c \in Added(previous, next) \cup Removed(previous, next)
             \cup Restarts(previous, next, order)}

\* Two partial functions agree at x: both undefined, or defined and equal.
Same(f, g, x) ==
  /\ x \in DOMAIN f <=> x \in DOMAIN g
  /\ x \in DOMAIN f => f[x] = g[x]

\* Mutant of RuntimeRestartClosure: guests do not follow their provider.
RuntimeRestartManifests(active, candidate, requested) ==
  requested
    \cup {p \in DOMAIN candidate.manifests :
            ~ Same(active.manifests, candidate.manifests, p)}
    \cup {p \in DOMAIN candidate.bindings :
            ~ Same(active.bindings, candidate.bindings, p)}

\* runtime_restart_closure: changed manifests, rebound guests, and every guest
\* whose provider restarts.
RuntimeRestartClosure(active, candidate, requested) ==
  LET changed ==
        requested
          \cup {p \in DOMAIN candidate.manifests :
                  ~ Same(active.manifests, candidate.manifests, p)}
          \cup {p \in DOMAIN candidate.bindings :
                  ~ Same(active.bindings, candidate.bindings, p)}
      guests == DOMAIN candidate.bindings
      closed(S) == \A g \in guests :
                     candidate.bindings[g] \in changed \cup S => g \in S
  IN changed \cup {g \in guests : \A S \in SUBSET guests : closed(S) => g \in S}
=============================================================================
