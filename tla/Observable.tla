----------------------------- MODULE Observable -----------------------------
(***************************************************************************)
(* The observable store (phenix-core/src/observable/store.rs and           *)
(* transaction_finish.rs): registered values with versions, transactions   *)
(* over several of them, subscriptions, and the deliveries a commit makes. *)
(*                                                                         *)
(* One mutex guards the store, and a transaction holds it from its         *)
(* declaration to its commit or rollback, so each store operation is one   *)
(* step.  Deliveries are made after the mutex is released, by the thread   *)
(* that committed: a thread has a stack of deliveries it still owes, a     *)
(* handler may run a transaction or subscribe while the rest is owed, and  *)
(* other threads come between.  The order among the subscriptions of one   *)
(* commit is left open.                                                    *)
(*                                                                         *)
(* An observer keeps a copy of what it observes: it applies a diff that    *)
(* starts at its version, ignores one that ends at or before it, and       *)
(* otherwise reads the value again (spec/observable-values.md, Versions).  *)
(***************************************************************************)
EXTENDS ValueChanges, FiniteSets, Functions

CONSTANTS
    Roots,
    Initial,       \* Initial[r]: what root r is registered with
    Policy,        \* Policy[r]: "current_only" or "copy_on_change"
    Mutations,     \* what transactions may do
    Specs,         \* the subscriptions observers ask for
    Threads,
    MaxMutations,  \* bound on the mutations of the first transaction that
                   \* commits; later ones have a single mutation
    MaxCommits,    \* bound on commits and registrations
    MaxSubs,       \* bound on subscriptions
    MaxLeaves,     \* bound on the length of a list
    MaxRegistered  \* no root is unregistered once registered has this value

ASSUME StoreAssumption ==
    /\ MaxMutations \in Nat /\ MaxCommits \in Nat
    /\ MaxSubs \in Nat /\ MaxLeaves \in Nat
    /\ MaxRegistered \in Nat

VARIABLES
    phase,     \* "open", "closed", or "poisoned" once a panic held the mutex
    values,    \* StoreState.values: by root, whether registered, value, version
    subs,      \* StoreState.subscriptions
    nextSub,   \* next_observation (and next_generation)
    owed,      \* owed[t]: the deliveries left of the commits t is in, innermost
               \* last, and whether one of them has been made
    copies,    \* by subscription, the observer's copy
    registered \* unregistrations and the versions they dropped, for the bounds

vars == <<phase, values, subs, nextSub, owed, copies, registered>>

\* The last field is history, for the properties: whether a transaction wrote
\* an item of a list by an index that a splice of it had made another's.
Registered(r, value) ==
    [live |-> TRUE, current |-> value, version |-> 0, displaced |-> FALSE]

\* An observer that has heard nothing yet has no version.
Unheard == [heard |-> FALSE, version |-> 0, value |-> Nothing]

Init ==
    /\ phase = "open"
    /\ values = [r \in Roots |-> Registered(r, Initial[r])]
    /\ subs = {}
    /\ nextSub = 1
    /\ owed = [t \in Threads |-> <<>>]
    /\ copies = [i \in 1 .. MaxSubs |-> Unheard]
    /\ registered = 0

Live == {r \in Roots : values[r].live}
Observed(value, s) == At(value, s.path)

-----------------------------------------------------------------------------
(* Deliveries.                                                             *)

Owes(t, deliveries) ==
    owed' = IF deliveries = {} THEN owed
            ELSE [owed EXCEPT ![t] =
                    Append(@, [left |-> deliveries, begun |-> FALSE])]

\* A thread runs code of its own, or of a handler it is in.
Runs(t) == owed[t] # <<>> => Last(owed[t]).begun

\* Mutant: a change below an observed address is not matched.
AdmittedExact(r, changes) ==
    {s \in subs :
        /\ s.root = r
        /\ \E n \in DOMAIN changes : Matches(s.path, "exact", changes[n])}

\* The subscriptions a commit of root r with these changes is for.
Admitted(r, changes) ==
    {s \in subs :
        /\ s.root = r
        /\ \E n \in DOMAIN changes : Matches(s.path, s.scope, changes[n])}

\* finish: the deliveries of one root.  The last three fields are
\* history, for the properties: what was observed before and after.
Deliveries(tx, r, changes) ==
    {[sub |-> s, initial |-> FALSE,
      from |-> values[r].version, version |-> values[r].version + 1,
      changes |-> ChangesFor(s.path, s.scope, changes, tx.current[r]),
      full |-> IF s.mode = "full" THEN Observed(tx.current[r], s) ELSE Nothing,
      before |-> Observed(values[r].current, s),
      after |-> Observed(tx.current[r], s),
      displaced |-> Displaced(tx.touched, r)] :
        s \in {x \in Admitted(r, changes) :
                 ChangesFor(x.path, x.scope, changes, tx.current[r]) # <<>>}}

InitialDelivery(s) ==
    LET value == values[s.root]
        seen == Observed(value.current, s)
    IN  [sub |-> s, initial |-> TRUE, from |-> value.version,
         version |-> value.version, changes |-> <<>>, full |-> seen,
         before |-> seen, after |-> seen, displaced |-> FALSE]

-----------------------------------------------------------------------------
(* Store operations.                                                       *)

\* What the closure makes of the declared roots.
Outcome(ms) ==
    FoldLeft(Mutated, Begun([r \in Roots |-> values[r].current]), ms)

Spent == registered + SumFunction([r \in Roots |-> values[r].version])

\* The roots are registered.
Declared(ms) ==
    /\ phase = "open"
    /\ \A n \in DOMAIN ms : ms[n].root \in Live
InBounds(tx) == \A r \in Roots : Len(tx.current[r][Items]) <= MaxLeaves

\* A root that changed gets a new version.
NewVersion(r, changes) ==
    IF changes = <<>> THEN values[r] ELSE [values[r] EXCEPT !.version = @ + 1]

\* ObservableStore::transaction when the closure succeeds: finish.
Finish(t, tx) ==
    LET changes == [r \in Roots |-> Canonical(tx, r)]
    IN  /\ ~ \E r \in Roots : CanonicalPanics(tx, r)
        /\ values' = [r \in Roots |->
                        [NewVersion(r, changes[r]) EXCEPT
                            !.current = tx.current[r],
                            !.displaced = @ \/ Displaced(tx.touched, r)]]
        /\ Owes(t, UNION {Deliveries(tx, r, changes[r]) : r \in Roots})
        /\ UNCHANGED <<phase, subs, nextSub, copies, registered>>

\* The closure returns an error.
Rollback(tx) ==
    /\ values' = [r \in Roots |->
                    [values[r] EXCEPT !.current = RolledBack(tx)[r]]]
    /\ UNCHANGED <<phase, subs, nextSub, owed, copies, registered>>

\* Canonicalisation panics under the mutex: the thread is gone with what it
\* owed, and every later operation panics too.
Panic(t, tx) ==
    /\ \E r \in Roots : CanonicalPanics(tx, r)
    /\ phase' = "poisoned"
    /\ owed' = [owed EXCEPT ![t] = <<>>]
    /\ UNCHANGED <<values, subs, nextSub, copies, registered>>

Transaction(t, ms) ==
    /\ Runs(t) /\ Declared(ms)
    /\ LET tx == Outcome(ms)
       IN  /\ InBounds(tx)
           /\ Finish(t, tx) \/ Rollback(tx) \/ Panic(t, tx)

Subscribe(t, spec) ==
    LET s == [id |-> nextSub, root |-> spec.root, path |-> spec.path,
              scope |-> spec.scope, mode |-> spec.mode]
    IN  /\ Runs(t) /\ phase = "open" /\ nextSub <= MaxSubs
        /\ spec.root \in Live
        /\ (spec.mode = "full" \/ spec.initial) =>
               Policy[spec.root] = "copy_on_change"
        /\ subs' = subs \cup {s}
        /\ nextSub' = nextSub + 1
        /\ Owes(t, IF spec.initial THEN {InitialDelivery(s)} ELSE {})
        /\ UNCHANGED <<phase, values, copies, registered>>

Unsubscribe(s) ==
    /\ phase = "open" /\ s \in subs
    /\ subs' = subs \ {s}
    /\ UNCHANGED <<phase, values, nextSub, owed, copies, registered>>

Unregister(r) ==
    /\ phase = "open" /\ r \in Live /\ registered < MaxRegistered
    /\ values' = [values EXCEPT ![r].live = FALSE]
    /\ subs' = {s \in subs : s.root # r}
    /\ registered' = registered + 1 + values[r].version
    /\ UNCHANGED <<phase, nextSub, owed, copies>>

Register(r) ==
    /\ phase = "open" /\ r \notin Live
    /\ values' = [values EXCEPT ![r] = Registered(r, Initial[r])]
    /\ UNCHANGED <<phase, subs, nextSub, owed, copies, registered>>

Close ==
    /\ phase = "open"
    /\ phase' = "closed"
    /\ subs' = {}
    /\ UNCHANGED <<values, nextSub, owed, copies, registered>>

-----------------------------------------------------------------------------
(* Observers.                                                              *)

\* ObservableStore::get at the address of s, as the observer uses it; an
\* absent value has no version of its own, so the delivery's is taken.
ReadAgain(copy, d) ==
    LET root == values[d.sub.root]
        seen == Observed(root.current, d.sub)
    IN  IF phase # "open" \/ ~root.live THEN copy
        ELSE [heard |-> TRUE, value |-> seen,
              version |-> IF seen = Nothing THEN d.version ELSE root.version]

Copied(copy, d) ==
    IF copy.heard /\ d.version <= copy.version THEN copy
    ELSE IF (d.initial \/ d.sub.mode = "full") /\ d.full # Nothing
      THEN [heard |-> TRUE, version |-> d.version, value |-> d.full]
    ELSE IF copy.heard /\ d.from = copy.version
      THEN [heard |-> TRUE, version |-> d.version,
            value |-> AllReceived(d.sub.path, copy.value, d.changes)]
    ELSE ReadAgain(copy, d)

\* The innermost commit of t that is not done makes one of its deliveries.
Deliver(t, d) ==
    LET left == Last(owed[t]).left \ {d}
    IN  /\ copies' = [copies EXCEPT ![d.sub.id] = Copied(@, d)]
        /\ owed' = [owed EXCEPT ![t] =
                      IF left = {} THEN Front(@)
                      ELSE Append(Front(@), [left |-> left, begun |-> TRUE])]
        /\ UNCHANGED <<phase, values, subs, nextSub, registered>>

-----------------------------------------------------------------------------

\* What a closure may do, within the bounds.
Scripts ==
    LET longest == CASE Spent = 0          -> MaxMutations
                     [] Spent < MaxCommits -> 1
                     [] OTHER              -> 0
    IN  UNION {[1 .. n -> Mutations] : n \in 1 .. longest}

Next ==
    \/ \E t \in Threads :
          \/ \E ms \in Scripts : Transaction(t, ms)
          \/ \E spec \in Specs : Subscribe(t, spec)
          \/ owed[t] # <<>> /\ \E d \in Last(owed[t]).left : Deliver(t, d)
    \/ \E s \in subs : Unsubscribe(s)
    \/ \E r \in Roots : Unregister(r) \/ Register(r)
    \/ Close

Spec == Init /\ [][Next]_vars

-----------------------------------------------------------------------------
(* Properties.                                                             *)

Pending == UNION {UNION {owed[t][n].left : n \in DOMAIN owed[t]} : t \in Threads}

\* A delivery turns what its subscriber observed at from_version into what
\* it observes at version, whatever the transaction wrote, overwrote, spliced
\* and restored, in whatever order, although finish sorts the changes by path
\* and keeps of every write only the last value; and a commit that leaves a
\* root as it was delivers nothing for it.  Transactions that splice a list
\* and address an item of it that the splice displaces, or write an item after
\* the splice, are excepted: see DiffAlwaysExact.
DiffExact ==
    \A d \in Pending :
        /\ ~d.displaced => AllReceived(d.sub.path, d.before, d.changes) = d.after
        /\ (d.sub.path = <<>> /\ ~d.initial) => d.before # d.after

\* Once all deliveries are made, a recursive observer that has heard anything
\* holds exactly the present value, although deliveries overtake each other,
\* skip versions and outrun the initial value: no commit passes an observer
\* by, and a transaction that fails leaves every value as it was.  This is said
\* of the roots none of whose diffs was of the kind that DiffExact excepts.
ObserversCatchUp ==
    (phase = "open" /\ Pending = {}) =>
        \A s \in subs :
            LET copy == copies[s.id]
            IN  (s.scope = "recursive" /\ copy.heard /\ ~values[s.root].displaced) =>
                    copy.value = Observed(values[s.root].current, s)

-----------------------------------------------------------------------------
(* What spec/observable-values.md says and the code does not do.           *)

\* "list edits may coalesce when doing so preserves the same final state and
\* ordering": the changes are sorted by path, so that a write of an item comes
\* after a splice that moved it, and original_at takes an item written after a
\* splice for unchanged.
DiffAlwaysExact ==
    \A d \in Pending : AllReceived(d.sub.path, d.before, d.changes) = d.after

\* "one current full value with its current version before later commits for
\* that subscription".
InitialFirst ==
    [][\A i \in 1 .. MaxSubs :
          (\E d \in Pending : d.initial /\ d.sub.id = i) =>
              (copies'[i] = copies[i] \/ copies'[i].version = copies[i].version
                 \/ ~ \E d \in Pending' : d.initial /\ d.sub.id = i)]_vars

\* "If the transaction fails, no version changes and no listener receives a
\* delivery": a transaction fails with an error and not with a panic that
\* takes the store down.
NeverPoisoned == phase # "poisoned"

=============================================================================
