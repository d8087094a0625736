---------------------------- MODULE ValueChanges ----------------------------
(***************************************************************************)
(* The pure part of the observable store (phenix-core/src/observable):     *)
(* addressing, mutation and its undo record, the canonical change set of a *)
(* transaction, and the changes one subscription is given of it.           *)
(*                                                                         *)
(* A registered value here is a table of two fields, a list of leaves and  *)
(* a map of leaves.  A path is a sequence of numbers: the segments of one  *)
(* container are numbered in their order (fields and keys by name, indexes *)
(* from 1), so a table, a list and a map are functions on segments and     *)
(* paths compare as ValuePath does.  An optional value is a sequence of at *)
(* most one element.  Options, variants and fixed arrays are addressed and *)
(* mutated in the same way as keys, fields and list items.                 *)
(***************************************************************************)
EXTENDS Naturals, Sequences, SequencesExt

CONSTANT Broken   \* what an observer has after a change that does not apply

Items == 1
Meta == 2
IsKey(path) == Len(path) = 2 /\ path[1] = Meta

Nothing == <<>>
Relative(path, prefix) == SubSeq(path, Len(prefix) + 1, Len(path))

PathBefore(p, q) ==
    \/ IsStrictPrefix(p, q)
    \/ \E n \in DOMAIN p \cap DOMAIN q :
          p[n] < q[n] /\ \A m \in 1 .. n - 1 : p[m] = q[m]

-----------------------------------------------------------------------------
(* Values.                                                                 *)

Entry(f, key) == IF key \in DOMAIN f THEN <<f[key]>> ELSE Nothing

\* value_at_optional.
At(value, path) ==
    CASE Len(path) = 0 -> <<value>>
      [] Len(path) = 1 -> Entry(value, path[1])
      [] OTHER -> LET inner == Entry(value, path[1])
                  IN  IF inner = Nothing THEN Nothing ELSE Entry(inner[1], path[2])

With(f, key, value) == (key :> value) @@ f
Without(f, key) ==
    FoldSet(LAMBDA k, g : With(g, k, f[k]), <<>>, DOMAIN f \ {key})

\* restore_optional: the value at path becomes what `to` holds, or is removed.
Restore(value, path, to) ==
    LET set(f, key) == IF to = Nothing THEN Without(f, key) ELSE With(f, key, to[1])
    IN  CASE Len(path) = 0 -> to[1]
          [] Len(path) = 1 -> set(value, path[1])
          [] OTHER -> [value EXCEPT ![path[1]] = set(@, path[2])]

\* Vec::splice of `remove` elements after the first `start`.
Splice(list, start, remove, inserted) ==
    SubSeq(list, 1, start) \o inserted \o SubSeq(list, start + remove + 1, Len(list))

-----------------------------------------------------------------------------
(* Mutations.  A mutation names a root, a path and what is done there; a   *)
(* transaction keeps the values of the roots it works on, its undo records *)
(* and the mutations that took place.                                      *)

Replacement(root, path, value) ==
    [root |-> root, path |-> path, kind |-> "replace", value |-> <<value>>,
     start |-> 0, remove |-> 0]
Removal(root, path) ==
    [root |-> root, path |-> path, kind |-> "remove", value |-> Nothing,
     start |-> 0, remove |-> 0]
\* Here value holds what is inserted.
Splicing(root, path, start, remove, inserted) ==
    [root |-> root, path |-> path, kind |-> "splice", value |-> inserted,
     start |-> start, remove |-> remove]

Begun(current) == [current |-> current, undo |-> <<>>, touched |-> <<>>]

\* The conditions of replace_at, remove_at and splice on the current value.
Applies(value, m) ==
    CASE m.kind = "splice" -> m.start + m.remove <= Len(At(value, m.path)[1])
      [] IsKey(m.path)     -> TRUE
      [] OTHER             -> At(value, m.path) # Nothing

Changed(value, m) ==
    IF m.kind = "splice"
      THEN Restore(value, m.path,
                   <<Splice(At(value, m.path)[1], m.start, m.remove, m.value)>>)
      ELSE Restore(value, m.path, m.value)

\* An undo record: what a replacement or removal found, or what a splice
\* took out and how much it put in.
UndoOf(value, m) ==
    IF m.kind = "splice"
      THEN [root |-> m.root, path |-> m.path, kind |-> "splice",
            start |-> m.start, count |-> Len(m.value),
            previous |-> SubSeq(At(value, m.path)[1], m.start + 1, m.start + m.remove)]
      ELSE [root |-> m.root, path |-> m.path, kind |-> "replace",
            start |-> 0, count |-> 0, previous |-> At(value, m.path)]

\* replace, remove and splice; one that fails leaves the transaction as it is.
Mutated(tx, m) ==
    LET value == tx.current[m.root]
    IN  IF ~Applies(value, m) THEN tx
        ELSE [current |-> [tx.current EXCEPT ![m.root] = Changed(value, m)],
              undo    |-> Append(tx.undo, UndoOf(value, m)),
              touched |-> Append(tx.touched, m)]

Unspliced(list, u) == Splice(list, u.start, u.count, u.previous)

\* apply_undo.
Undone(value, u) ==
    IF u.kind = "splice"
      THEN Restore(value, u.path, <<Unspliced(At(value, u.path)[1], u)>>)
      ELSE Restore(value, u.path, u.previous)

\* rollback: the undo records, newest first.
RolledBack(tx) ==
    FoldLeft(LAMBDA current, u : [current EXCEPT ![u.root] = Undone(@, u)],
             tx.current, Reverse(tx.undo))

-----------------------------------------------------------------------------
(* The canonical change set of a root.                                     *)

\* One undo record applied to what original_at is probing at path.
Probed(current, path, probe, u) ==
    CASE u.path = path ->
           IF u.kind = "splice" THEN <<Unspliced(probe[1], u)>> ELSE u.previous
      [] IsStrictPrefix(path, u.path) ->
           IF probe = Nothing THEN probe
           ELSE <<Undone(probe[1], [u EXCEPT !.path = Relative(u.path, path)])>>
      [] IsStrictPrefix(u.path, path) ->
           IF u.kind = "splice"
             \* The list is taken from the current value, whatever was undone
             \* before.
             THEN At(Unspliced(At(current, u.path)[1], u), Relative(path, u.path))
             ELSE IF u.previous = Nothing THEN Nothing
                  ELSE At(u.previous[1], Relative(path, u.path))
      [] OTHER -> probe

\* original_at.
Original(tx, root, path) ==
    LET current == tx.current[root]
    IN  FoldLeft(LAMBDA probe, u :
                     IF u.root = root THEN Probed(current, path, probe, u) ELSE probe,
                 At(current, path), Reverse(tx.undo))

\* A replacement or removal makes later mutations at and below it redundant.
Covers(m, path) == m.kind # "splice" /\ IsPrefix(m.path, path)

\* original_at reads the list of a splice from the current value, and
\* Vec::splice panics when the list has become shorter than the place.
Panics(tx, m) ==
    \E n \in DOMAIN tx.undo :
        LET u == tx.undo[n]
        IN  /\ u.root = m.root /\ u.kind = "splice"
            /\ IsStrictPrefix(u.path, m.path)
            /\ u.start > Len(At(tx.current[m.root], u.path)[1])

Selected(selected, m) ==
    IF \E n \in DOMAIN selected : Covers(selected[n], m.path) THEN selected
    ELSE IF m.kind = "splice" THEN Append(selected, m)
    ELSE Append(SelectSeq(selected, LAMBDA e : ~IsPrefix(m.path, e.path)), m)

\* Mutant: the sort is not stable.
SortedUnstable(list, m) ==
    SelectSeq(list, LAMBDA e : PathBefore(e.path, m.path)) \o <<m>>
      \o SelectSeq(list, LAMBDA e : ~PathBefore(e.path, m.path))

\* A stable sort by path, one insertion.
Sorted(list, m) ==
    SelectSeq(list, LAMBDA e : ~PathBefore(m.path, e.path)) \o <<m>>
      \o SelectSeq(list, LAMBDA e : PathBefore(m.path, e.path))

\* A change is a mutation with its final value.
Final(m, current) ==
    CASE m.kind = "splice"  -> m
      [] current = Nothing  -> Removal(m.root, m.path)
      [] OTHER              -> Replacement(m.root, m.path, current[1])

Selection(tx, root) ==
    FoldLeft(Selected, <<>>, SelectSeq(tx.touched, LAMBDA m : m.root = root))

CanonicalPanics(tx, root) ==
    LET selected == Selection(tx, root)
    IN  \E n \in DOMAIN selected : Panics(tx, selected[n])

\* canonicalize_root.
Canonical(tx, root) ==
    LET sorted == FoldLeft(Sorted, <<>>, Selection(tx, root))
        current(m) == At(tx.current[root], m.path)
    IN  FoldLeft(LAMBDA changes, m :
                     IF current(m) = Original(tx, root, m.path) THEN changes
                     ELSE Append(changes, Final(m, current(m))),
                 <<>>, sorted)

-----------------------------------------------------------------------------
(* What a subscription at path is given.                                   *)

\* SubscriptionNode::collect_for_path and collect_for_splice.
Matches(path, scope, change) ==
    IF change.kind = "splice" /\ IsStrictPrefix(change.path, path)
      THEN LET index == path[Len(change.path) + 1]
           IN  /\ index > change.start
               /\ Len(change.value) = change.remove =>
                      index <= change.start + change.remove
      ELSE \/ IsPrefix(change.path, path)
           \/ scope = "recursive" /\ IsPrefix(path, change.path)

\* changes_for_subscription.
ChangesFor(path, scope, changes, current) ==
    LET own == SelectSeq(changes,
                   LAMBDA c : c.path = path
                              \/ (scope = "recursive" /\ IsStrictPrefix(path, c.path)))
        root == changes[1].root
    IN  IF \E n \in DOMAIN changes : IsStrictPrefix(changes[n].path, path)
          THEN <<IF At(current, path) = Nothing
                   THEN Removal(root, <<>>)
                   ELSE Replacement(root, <<>>, At(current, path)[1])>>
          ELSE FoldLeft(LAMBDA given, c :
                            Append(given, [c EXCEPT !.path = Relative(@, path)]),
                        <<>>, own)

\* A change fits the copy of what is at an address: its parent is there, a
\* splice is within the list, and only map keys appear and disappear.
Fits(address, value, change) ==
    /\ change.path # <<>> => At(value, Front(change.path)) # Nothing
    /\ CASE change.kind = "splice" ->
               change.start + change.remove <= Len(At(value, change.path)[1])
         [] IsKey(address \o change.path) -> TRUE
         [] OTHER -> change.kind = "replace" /\ At(value, change.path) # Nothing

\* What the observer of an address makes of a change to its copy (an optional
\* value).
Received(address, copy, change) ==
    CASE change.path = <<>> /\ change.kind # "splice" -> change.value
      [] copy = Nothing \/ copy = <<Broken>>          -> <<Broken>>
      [] Fits(address, copy[1], change) -> <<Changed(copy[1], change)>>
      [] OTHER                          -> <<Broken>>

AllReceived(address, copy, changes) ==
    FoldLeft(LAMBDA seen, c : Received(address, seen, c), copy, changes)

\* For the properties: a splice of a list moves an item that the transaction
\* wrote by its index before, or comes before such a write.
Displaced(touched, root) ==
    \E i, j \in DOMAIN touched :
        /\ touched[i].root = root /\ touched[j].root = root
        /\ touched[i].kind = "splice"
        /\ IsStrictPrefix(touched[i].path, touched[j].path)
        /\ \/ i < j
           \/ touched[j].path[Len(touched[i].path) + 1] > touched[i].start

=============================================================================
