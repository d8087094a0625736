----------------------------- MODULE MCLifecycle ----------------------------
(* Small instances of Lifecycle for TLC. *)
EXTENDS Lifecycle

Manifest(revision, execution) == [revision |-> revision, execution |-> execution]
Component(owner, revision) == [owner |-> owner, revision |-> revision]

(* A runtime bridge, a guest on it, a tool with a listener that requires the
   bridge's component, and a plugin of resources only. *)
BridgePlugins == <<"bridge", "docs", "guest", "tool">>
BridgeComponents == <<"x", "z">>

GuestHarness ==
  [components |-> "x" :> Component("bridge", 1) @@ "z" :> Component("tool", 1),
   requires |-> {<<"z", "x">>},
   manifests |-> "bridge" :> Manifest(1, "embedded")
                   @@ "guest" :> Manifest(1, "runtime")
                   @@ "tool" :> Manifest(1, "embedded"),
   bindings |-> "guest" :> "bridge",
   order |-> <<"bridge", "guest", "tool">>,
   listeners |-> {"tool"}]

\* The bridge's component is reconfigured: bridge, guest and tool restart.
BridgeHarness ==
  [GuestHarness EXCEPT
     !.components = "x" :> Component("bridge", 2) @@ "z" :> Component("tool", 1)]

\* The guest is new, resources come instead of it, the tool stays as it is.
DocsHarness ==
  [GuestHarness EXCEPT
     !.manifests = "bridge" :> Manifest(1, "embedded")
                     @@ "docs" :> Manifest(1, "resource")
                     @@ "tool" :> Manifest(1, "embedded"),
     !.bindings = [p \in {} |-> None],
     !.order = <<"bridge", "docs", "tool">>]

Bridge == "guest" :> GuestHarness @@ "bridge" :> BridgeHarness
            @@ "docs" :> DocsHarness

(* The provider of an interface changes hands while the importer q stays: q is
   bound to x, then to y, then to y beside a new x, then to the first x. *)
MovePlugins == <<"Q", "X", "Y">>
MoveComponents == <<"q", "x", "y">>

MoveHarness(plugins, components, requires) ==
  [components |-> components, requires |-> requires,
   manifests |-> [p \in plugins |-> Manifest(1, "embedded")],
   bindings |-> [p \in {} |-> None],
   order |-> SetToSeq(plugins), listeners |-> {"Q"}]

Move ==
  "a" :> MoveHarness({"Q", "X"}, "q" :> Component("Q", 1)
           @@ "x" :> Component("X", 1), {<<"q", "x">>})
  @@ "b" :> MoveHarness({"Q", "Y"}, "q" :> Component("Q", 1)
           @@ "y" :> Component("Y", 1), {<<"q", "y">>})
  @@ "c" :> MoveHarness({"Q", "X", "Y"}, "q" :> Component("Q", 1)
           @@ "x" :> Component("X", 2) @@ "y" :> Component("Y", 1),
           {<<"q", "y">>})

\* Between the first two only, back and forth.
MoveBack == "a" :> Move["a"] @@ "b" :> Move["b"]
=============================================================================
