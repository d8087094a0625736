---------------------------- MODULE MCObservable ----------------------------
(* Instances of Observable for TLC. *)
EXTENDS Observable, TLC

CONSTANTS p, q, a, b, t1, t2

Table(items, meta) == <<items, meta>>
NoKeys == <<>>
Key(v) == <<v>>

MCInitial == [r \in Roots |-> Table(<<p, q>>, NoKeys)]
MCPolicy == [r \in Roots |-> IF r = a THEN "copy_on_change" ELSE "current_only"]

Index(i) == <<Items, i>>
KeyPath == <<Meta, 1>>

\* What a transaction may do to the list of root a, to its map, and to the
\* other root.
ListMutations ==
    { Splicing(a, <<Items>>, 0, 0, <<p>>), Splicing(a, <<Items>>, 1, 1, <<p>>),
      Splicing(a, <<Items>>, 2, 0, <<p>>), Splicing(a, <<Items>>, 0, 2, <<>>),
      Replacement(a, <<Items>>, <<q>>) }
IndexMutations ==
    { Replacement(a, Index(1), p), Replacement(a, Index(1), q),
      Replacement(a, Index(2), p) }
MapMutations ==
    { Replacement(a, KeyPath, p), Removal(a, KeyPath),
      Replacement(a, <<Meta>>, NoKeys) }
RootMutations ==
    {Replacement(a, <<>>, Table(<<q>>, Key(p))), Replacement(b, Index(1), q)}

MCMutations == ListMutations \cup IndexMutations \cup MapMutations \cup RootMutations

Watch(path, scope, mode, initial) ==
    [root |-> a, path |-> path, scope |-> scope, mode |-> mode,
     initial |-> initial]
MCSpecs ==
    { Watch(<<>>, "recursive", "diff", TRUE),
      Watch(<<Items>>, "recursive", "diff", TRUE),
      Watch(Index(2), "recursive", "diff", TRUE),
      Watch(KeyPath, "exact", "full", FALSE) }

ThreadSymmetry == Permutations(Threads)
=============================================================================
