---------------------------- MODULE MCInvocation ----------------------------
EXTENDS Invocation

\* a and b import each other: a for reading only, b with the right to write.
\* The service "b" (component b1) is layered by l, which also provides it as the
\* fallback component b2.  The service "c" of b is invoked by name, with the
\* right to write.
MCPlugins == {"a", "b", "l"}
MCServices == {"a", "b", "c"}
MCOwner == [a1 |-> "a", b1 |-> "b", b2 |-> "l"]
MCTerminal == [a |-> <<[plugin |-> "a", needs |-> {}]>>,
               b |-> <<[plugin |-> "b", needs |-> {}]>>,
               c |-> <<[plugin |-> "b", needs |-> {"write"}]>>]
\* b serves "c" without a requirement, so that l's stop hook may call it.
MCTerminalOpen == [MCTerminal EXCEPT !.c = <<[plugin |-> "b", needs |-> {}]>>]
MCLayers == [a |-> <<[plugin |-> "l", needs |-> {"write"}, required |-> FALSE]>>,
             b |-> <<[plugin |-> "l", needs |-> {}, required |-> TRUE]>>,
             c |-> <<>>]

Typed(s, plan) == [service |-> s, plan |-> plan]
From(c, auth) == [component |-> c, auth |-> auth]
MCImports ==
    [a |-> {Typed("b", <<From("b1", {}), From("b2", {})>>)},
     b |-> {Typed("a", <<From("a1", {"write"})>>)},
     l |-> {}]
MCRoots == {[component |-> "a1", service |-> "a"],
            [component |-> None, service |-> "c"]}
MCCeiling == [a |-> {"write"}, b |-> {"write"}, l |-> {}]
=============================================================================
