-------------------------- MODULE InvocationProofs --------------------------
(* What holds of service dispatch for every set of plugins, services,        *)
(* layers, imports and deliveries: authority, the mutexes, required layers,  *)
(* coordinators and prepared mutations.                                      *)
EXTENDS Invocation, SequenceTheorems, FiniteSetTheorems, WellFoundedInduction,
        TLAPS

-----------------------------------------------------------------------------
(* Kept: what the filter returns.                                          *)

\* A set of numbers that is not empty has a least element.
LEMMA LeastNumber ==
  ASSUME NEW T, T \subseteq Nat, T # {}
  PROVE  \E x \in T : \A y \in T : x <= y
<1> DEFINE R == {ss \in Nat \X Nat : ss[1] < ss[2]}
<1>1. IsWellFoundedOn(R, Nat)
  BY NatLessThanWellFounded, Zenon DEF OpToRel
<1> HIDE DEF R
<1>2. PICK x \in T : \A y \in T : ~ (<<y, x>> \in R)
  BY <1>1, WFMin
<1>3. \A y \in T : ~ (y < x)
  BY <1>2 DEF R
<1> QED BY <1>3

\* So has every set of numbers up to n a greatest one.
LEMMA GreatestNumber ==
  ASSUME NEW n \in Nat, NEW S \in SUBSET (1 .. n), S # {}
  PROVE  \E k \in S : \A i \in S : i <= k
<1> DEFINE R == {n - k : k \in S}
<1>1. R \subseteq Nat /\ R # {}
  <2>1. PICK k : k \in S
    OBVIOUS
  <2>2. n - k \in R
    BY <2>1
  <2>3. \A i \in 1 .. n : n - i \in Nat
    OBVIOUS
  <2> QED BY <2>2, <2>3
<1>2. PICK r \in R : \A m \in R : r <= m
  <2> HIDE DEF R
  <2> QED BY <1>1, LeastNumber
<1>3. PICK k \in S : r = n - k
  BY <1>2
<1>4. \A i \in S : n - k <= n - i
  BY <1>2, <1>3
<1>5. k \in Int /\ S \subseteq Int
  OBVIOUS
<1> QED BY <1>3, <1>4, <1>5

\* The recursion of Kept has a solution.
LEMMA KeptDefined ==
  ASSUME NEW S, NEW seq \in Seq(S), NEW keep
  PROVE  \E f : /\ f \in [0 .. Len(seq) -> Seq(S)]
                /\ Kept(seq, keep) = f[Len(seq)]
                /\ f[0] = <<>>
                /\ \A n \in 1 .. Len(seq) :
                     f[n] = IF n \in keep THEN Append(f[n - 1], seq[n])
                            ELSE f[n - 1]
<1> DEFINE Step(f, n) == IF n = 0 THEN <<>>
                         ELSE IF n \in keep THEN Append(f[n - 1], seq[n])
                         ELSE f[n - 1]
           Solves(g, n) == /\ g \in [0 .. n -> Seq(S)]
                           /\ \A i \in 0 .. n : g[i] = Step(g, i)
           none == {n \in 0 .. Len(seq) : ~ \E g : Solves(g, n)}
<1>1. Len(seq) \in Nat /\ <<>> \in Seq(S)
  BY EmptySeq
<1>2. none = {}
  <2> SUFFICES ASSUME none # {} PROVE FALSE
    OBVIOUS
  <2>0. none \subseteq Nat
    <3> HIDE DEF Solves
    <3> QED BY <1>1
  <2>1. PICK n \in none : \A m \in none : n <= m
    <3> HIDE DEF none
    <3> QED BY <2>0, LeastNumber
  <2>2. n # 0
    <3>1. Solves([i \in 0 .. 0 |-> <<>>], 0)
      BY <1>1
    <3> QED BY <3>1
  <2>3. n \in Nat /\ n - 1 \in 0 .. Len(seq) /\ n - 1 \notin none /\ n <= Len(seq)
    <3>1. n \in 0 .. Len(seq)
      <4> HIDE DEF Solves
      <4> QED OBVIOUS
    <3> HIDE DEF none
    <3> QED BY <1>1, <2>1, <2>2, <3>1
  <2>4. PICK g : Solves(g, n - 1)
    BY <2>3
  <2> DEFINE h == [i \in 0 .. n |-> IF i = n THEN Step(g, n) ELSE g[i]]
  <2>5. Step(g, n) \in Seq(S)
    <3>1. g[n - 1] \in Seq(S) /\ seq[n] \in S
      BY <2>2, <2>3, <2>4
    <3> QED BY <2>2, <3>1
  <2>6. h \in [0 .. n -> Seq(S)]
    BY <2>3, <2>4, <2>5
  <2>7. ASSUME NEW i \in 0 .. n PROVE h[i] = Step(h, i)
    <3>1. CASE i = n
      <4>1. h[n - 1] = g[n - 1]
        BY <2>2, <2>3
      <4> QED BY <2>2, <2>3, <3>1, <4>1
    <3>2. CASE i # n
      <4>1. i \in 0 .. n - 1 /\ (i # 0 => i - 1 \in 0 .. n - 1)
        BY <2>3, <3>2
      <4>2. h[i] = g[i] /\ (i # 0 => h[i - 1] = g[i - 1])
        BY <2>3, <4>1
      <4>3. g[i] = Step(g, i)
        BY <2>4, <4>1
      <4> QED BY <4>2, <4>3
    <3> QED BY <3>1, <3>2
  <2>8. Solves(h, n)
    BY <2>6, <2>7
  <2> QED BY <2>1, <2>8
<1>3. PICK g : Solves(g, Len(seq))
  <2> HIDE DEF Solves
  <2> QED BY <1>1, <1>2
<1> DEFINE f == CHOOSE f : f = [n \in 0 .. Len(seq) |-> Step(f, n)]
<1>4. Kept(seq, keep) = f[Len(seq)]
  BY DEF Kept
<1>5. g = [n \in 0 .. Len(seq) |-> Step(g, n)]
  BY <1>3
<1>6. f = [n \in 0 .. Len(seq) |-> Step(f, n)]
  BY <1>5
<1> HIDE DEF f
<1>7. \A n \in 0 .. Len(seq) : f[n] = Step(f, n)
  BY <1>6
<1> DEFINE loose == {n \in 0 .. Len(seq) : f[n] \notin Seq(S)}
<1>8. loose = {}
  <2> SUFFICES ASSUME loose # {} PROVE FALSE
    OBVIOUS
  <2>0. loose \subseteq Nat
    BY <1>1
  <2>1. PICK n \in loose : \A m \in loose : n <= m
    <3> HIDE DEF loose
    <3> QED BY <2>0, LeastNumber
  <2>2. n # 0
    BY <1>1, <1>7
  <2>3. n \in Nat /\ n - 1 \in 0 .. Len(seq) /\ n - 1 \notin loose
        /\ n \in 1 .. Len(seq)
    BY <1>1, <2>1, <2>2
  <2>4. f[n - 1] \in Seq(S) /\ seq[n] \in S
    BY <2>3
  <2>5. f[n] = Step(f, n)
    BY <1>7, <2>3
  <2>6. f[n] \in Seq(S)
    BY <2>2, <2>4, <2>5
  <2> QED BY <2>1, <2>6
<1>9. f \in [0 .. Len(seq) -> Seq(S)]
  BY <1>6, <1>8
<1>10. f[0] = <<>> /\ \A n \in 1 .. Len(seq) :
         f[n] = IF n \in keep THEN Append(f[n - 1], seq[n]) ELSE f[n - 1]
  BY <1>1, <1>7
<1> QED BY <1>4, <1>9, <1>10

\* Kept returns elements of its sequence, those at the positions in keep and
\* no other.
LEMMA KeptElements ==
  ASSUME NEW S, NEW seq \in Seq(S), NEW keep
  PROVE  /\ Kept(seq, keep) \in Seq(S)
         /\ \A k \in 1 .. Len(seq) : k \in keep =>
              \E m \in 1 .. Len(Kept(seq, keep)) : Kept(seq, keep)[m] = seq[k]
         /\ \A m \in 1 .. Len(Kept(seq, keep)) :
              \E k \in 1 .. Len(seq) : k \in keep /\ Kept(seq, keep)[m] = seq[k]
<1>1. PICK f : /\ f \in [0 .. Len(seq) -> Seq(S)]
               /\ Kept(seq, keep) = f[Len(seq)]
               /\ f[0] = <<>>
               /\ \A n \in 1 .. Len(seq) :
                    f[n] = IF n \in keep THEN Append(f[n - 1], seq[n])
                           ELSE f[n - 1]
  BY KeptDefined
<1> DEFINE Holds(n) ==
             /\ \A k \in 1 .. n : k \in keep =>
                  \E m \in 1 .. Len(f[n]) : f[n][m] = seq[k]
             /\ \A m \in 1 .. Len(f[n]) :
                  \E k \in 1 .. n : k \in keep /\ f[n][m] = seq[k]
           wrong == {n \in 0 .. Len(seq) : ~ Holds(n)}
<1>2. Len(seq) \in Nat
  OBVIOUS
<1>3. wrong = {}
  <2> SUFFICES ASSUME wrong # {} PROVE FALSE
    OBVIOUS
  <2>0. wrong \subseteq Nat
    <3> HIDE DEF Holds
    <3> QED BY <1>2
  <2>1. PICK n \in wrong : \A m \in wrong : n <= m
    <3> HIDE DEF wrong
    <3> QED BY <2>0, LeastNumber
  <2>2. n # 0
    BY <1>1
  <2>3. n \in Nat /\ n - 1 \in 0 .. Len(seq) /\ n \in 1 .. Len(seq)
        /\ n - 1 \notin wrong
    <3>1. n \in 0 .. Len(seq)
      <4> HIDE DEF Holds
      <4> QED OBVIOUS
    <3> HIDE DEF wrong
    <3> QED BY <1>2, <2>1, <2>2, <3>1
  <2>4. Holds(n - 1)
    <3> HIDE DEF Holds
    <3> QED BY <2>3
  <2> DEFINE before == f[n - 1]
  <2> HIDE DEF wrong, Holds
  <2>5. before \in Seq(S) /\ Len(before) \in Nat /\ seq[n] \in S
    BY <1>1, <2>3
  <2>6. f[n] = IF n \in keep THEN Append(before, seq[n]) ELSE before
    BY <1>1, <2>3
  <2>7. /\ \A k \in 1 .. n - 1 : k \in keep =>
             \E m \in 1 .. Len(before) : before[m] = seq[k]
        /\ \A m \in 1 .. Len(before) :
             \E k \in 1 .. n - 1 : k \in keep /\ before[m] = seq[k]
    BY <2>4 DEF Holds
  <2> HIDE DEF before
  <2>8. \A k \in 1 .. n : k = n \/ k \in 1 .. n - 1
    BY <2>3
  <2>9. ASSUME n \in keep PROVE Holds(n)
    <3>1. /\ Len(f[n]) = Len(before) + 1 /\ f[n][Len(before) + 1] = seq[n]
          /\ \A m \in 1 .. Len(before) : f[n][m] = before[m]
      BY <2>5, <2>6, <2>9
    <3>2. \A m \in 1 .. Len(f[n]) : m = Len(before) + 1 \/ m \in 1 .. Len(before)
      BY <2>5, <3>1
    <3>3. Len(before) + 1 \in 1 .. Len(f[n])
          /\ \A m \in 1 .. Len(before) : m \in 1 .. Len(f[n])
      BY <2>5, <3>1
    <3>4. ASSUME NEW k \in 1 .. n, k \in keep
          PROVE  \E m \in 1 .. Len(f[n]) : f[n][m] = seq[k]
      BY <2>7, <2>8, <3>1, <3>3, <3>4
    <3>5. ASSUME NEW m \in 1 .. Len(f[n])
          PROVE  \E k \in 1 .. n : k \in keep /\ f[n][m] = seq[k]
      <4>1. CASE m = Len(before) + 1
        BY <2>3, <2>9, <3>1, <4>1
      <4>2. CASE m \in 1 .. Len(before)
        <5>1. PICK k \in 1 .. n - 1 : k \in keep /\ before[m] = seq[k]
          BY <2>7, <4>2
        <5>2. k \in 1 .. n
          BY <2>3
        <5> QED BY <3>1, <4>2, <5>1, <5>2
      <4> QED BY <3>2, <4>1, <4>2
    <3> QED BY <3>4, <3>5 DEF Holds
  <2>10. ASSUME n \notin keep PROVE Holds(n)
    <3>1. f[n] = before
      BY <2>6, <2>10
    <3>2. \A k \in 1 .. n - 1 : k \in 1 .. n
      BY <2>3
    <3> QED BY <2>7, <2>8, <2>10, <3>1, <3>2 DEF Holds
  <2>11. Holds(n)
    BY <2>9, <2>10
  <2> QED BY <2>1, <2>11 DEF wrong
<1>4. Holds(Len(seq))
  <2> HIDE DEF Holds
  <2> QED BY <1>2, <1>3
<1>5. f[Len(seq)] \in Seq(S)
  BY <1>1, <1>2
<1> QED BY <1>1, <1>4, <1>5, Zenon
-----------------------------------------------------------------------------
(* Frames, chains and what a step does to the stacks.                      *)

Hows == {"root", "import", "continue", "listener", "stop"}
Pcs == {"probe", "probing", "lock", "run"}

FrameType ==
  [plugin : Plugins, service : Services \cup {None},
   component : Components \cup {None}, rest : Seq(Plugins), auth : SUBSET Caps,
   how : Hows, pc : Pcs, holds : BOOLEAN, used : BOOLEAN, cancelled : BOOLEAN]

StackShape == stack \in [Threads -> Seq(FrameType)]

\* Front drops the last element.
LEMMA FrontShape ==
  ASSUME NEW S, NEW s \in Seq(S), s # <<>>
  PROVE  /\ Front(s) \in Seq(S) /\ Len(Front(s)) = Len(s) - 1 /\ Len(s) >= 1
         /\ \A i \in 1 .. Len(s) - 1 : Front(s)[i] = s[i]
<1>1. Len(s) \in Nat /\ Len(s) >= 1
  BY EmptySeq
<1>2. /\ SubSeq(s, 1, Len(s) - 1) \in Seq(S)
      /\ Len(SubSeq(s, 1, Len(s) - 1)) = Len(s) - 1
      /\ \A i \in 1 .. Len(s) - 1 : SubSeq(s, 1, Len(s) - 1)[i] = s[i]
  <2> DEFINE n == Len(s) - 1
  <2>1. n \in Int /\ 1 \in Int /\ n \in Nat /\ \A i \in 1 .. n : s[i] \in S
    BY <1>1
  <2> HIDE DEF n
  <2>2. /\ SubSeq(s, 1, n) \in Seq(S)
        /\ Len(SubSeq(s, 1, n)) = IF 1 <= n THEN n - 1 + 1 ELSE 0
        /\ \A i \in 1 .. n - 1 + 1 : SubSeq(s, 1, n)[i] = s[1 + i - 1]
    BY <2>1, SubSeqProperties
  <2>3. Len(SubSeq(s, 1, n)) = n /\ \A i \in 1 .. n : SubSeq(s, 1, n)[i] = s[i]
    BY <2>1, <2>2
  <2> QED BY <2>2, <2>3 DEF n
<1> QED BY <1>1, <1>2 DEF Front

\* A chain is a sequence of plugins that is not empty.
LEMMA ChainShape ==
  ASSUME NEW t, NEW s \in Services, NEW auth, NEW terminal \in Plugins
  PROVE  /\ Chain(t, s, auth, terminal) \in Seq(Plugins)
         /\ Chain(t, s, auth, terminal) # <<>>
<1> DEFINE L == [plugin : Plugins, needs : SUBSET Caps, required : BOOLEAN]
           layers == Kept(Layers[s], {k \in DOMAIN Layers[s] :
                                        TakesPart(t, auth, Layers[s][k])})
           ps == [k \in 1 .. Len(layers) |-> layers[k].plugin]
<1>1. layers \in Seq(L)
  <2>1. Layers[s] \in Seq(L)
    BY GraphAssumption
  <2> HIDE DEF L
  <2> QED BY <2>1, KeptElements
<1>2. Chain(t, s, auth, terminal) = ps \o <<terminal>>
  BY DEF Chain
<1> HIDE DEF layers
<1>3. ps \in Seq(Plugins)
  <2>1. Len(layers) \in Nat
    BY <1>1
  <2>2. \A k \in 1 .. Len(layers) : layers[k].plugin \in Plugins
    <3>1. \A k \in 1 .. Len(layers) : layers[k] \in L
      <4> HIDE DEF L
      <4> QED BY <1>1, ElementOfSeq
    <3> QED BY <3>1
  <2> QED BY <2>1, <2>2, IsASeq
<1> HIDE DEF ps
<1>4. <<terminal>> \in Seq(Plugins) /\ Len(<<terminal>>) = 1
  OBVIOUS
<1>5. Len(ps \o <<terminal>>) = Len(ps) + 1 /\ ps \o <<terminal>> \in Seq(Plugins)
  BY <1>3, <1>4, ConcatProperties
<1>6. ps \o <<terminal>> # <<>>
  BY <1>3, <1>5, EmptySeq
<1> QED BY <1>2, <1>5, <1>6

\* What a dispatch builds is a frame.
LEMMA DispatchedShape ==
  ASSUME NEW s \in Services, NEW c \in Components \cup {None},
         NEW chain \in Seq(Plugins), chain # <<>>, NEW auth \in SUBSET Caps,
         NEW how \in Hows, NEW g, g = Dispatched(s, c, chain, auth, how)
  PROVE  g \in FrameType
<1>1. Head(chain) \in Plugins /\ Tail(chain) \in Seq(Plugins)
  BY HeadTailProperties
<1> QED BY <1>1 DEF Dispatched, Frame, FrameType, Pcs

\* The frame has no more authority than the dispatch was given and than its
\* plugin's maximum.
LEMMA DispatchedFields ==
  ASSUME NEW s, NEW c, NEW chain, NEW auth, NEW how, NEW g,
         g = Dispatched(s, c, chain, auth, how)
  PROVE  /\ g.plugin = Head(chain) /\ g.rest = Tail(chain)
         /\ g.service = s /\ g.component = c /\ g.how = how
         /\ g.auth \subseteq auth /\ g.auth \subseteq Ceiling[g.plugin]
         /\ g.pc = "probe" /\ ~ g.holds
BY DEF Dispatched, Frame

LEMMA OutermostShape ==
  ASSUME NEW p \in Plugins, NEW auth \in SUBSET Caps, NEW how \in Hows,
         NEW g, g = Outermost(p, auth, how)
  PROVE  /\ g \in FrameType /\ g.plugin = p /\ g.rest = <<>>
         /\ g.service = None /\ g.component = None /\ g.how = how
         /\ g.auth = auth /\ g.pc = "run" /\ ~ g.holds
BY EmptySeq DEF Outermost, Frame, FrameType, Pcs

\* Everything about a frame but whether its continuation is used and whether
\* its call is cancelled.
Alike(f, g) ==
  /\ f.plugin = g.plugin /\ f.service = g.service
  /\ f.component = g.component /\ f.rest = g.rest /\ f.auth = g.auth
  /\ f.how = g.how /\ f.pc = g.pc /\ f.holds = g.holds

Untouched(u) ==
  /\ Len(stack'[u]) = Len(stack[u])
  /\ \A k \in 1 .. Len(stack[u]) : Alike(stack'[u][k], stack[u][k])

\* A frame g is put on top of thread t's.
Pushed(t, g) ==
  /\ Len(stack'[t]) = Len(stack[t]) + 1
  /\ Alike(stack'[t][Len(stack[t]) + 1], g)
  /\ \A k \in 1 .. Len(stack[t]) : Alike(stack'[t][k], stack[t][k])
  /\ \A u \in Threads \ {t} : Untouched(u)

\* Thread t's top frame goes.
Popped(t) ==
  /\ Len(stack[t]) >= 1
  /\ Len(stack'[t]) = Len(stack[t]) - 1
  /\ \A k \in 1 .. Len(stack[t]) - 1 : Alike(stack'[t][k], stack[t][k])
  /\ \A u \in Threads \ {t} : Untouched(u)

\* Thread t's top frame becomes g.
TopMoved(t, g) ==
  /\ Len(stack[t]) >= 1
  /\ Len(stack'[t]) = Len(stack[t])
  /\ stack'[t][Len(stack[t])] = g
  /\ \A k \in 1 .. Len(stack[t]) - 1 : Alike(stack'[t][k], stack[t][k])
  /\ \A u \in Threads \ {t} : Untouched(u)

LEMMA TopFrame ==
  ASSUME StackShape, NEW t \in Threads, stack[t] # <<>>
  PROVE  /\ Len(stack[t]) \in Nat /\ Len(stack[t]) >= 1
         /\ Len(stack[t]) \in 1 .. Len(stack[t])
         /\ Top(t) \in FrameType /\ Top(t) = stack[t][Len(stack[t])]
<1>1. stack[t] \in Seq(FrameType) /\ Len(stack[t]) \in Nat
  BY DEF StackShape
<1>2. Len(stack[t]) >= 1
  BY <1>1, EmptySeq
<1>3. stack[t][Len(stack[t])] \in FrameType
  BY <1>1, <1>2, ElementOfSeq
<1> QED BY <1>1, <1>2, <1>3 DEF Top

\* Append puts a frame on top.
LEMMA AppendPushes ==
  ASSUME StackShape, NEW t \in Threads, NEW g \in FrameType,
         stack' = [stack EXCEPT ![t] = Append(@, g)]
  PROVE  StackShape' /\ Pushed(t, g)
<1>1. stack[t] \in Seq(FrameType) /\ Len(stack[t]) \in Nat
  BY DEF StackShape
<1>2. /\ Append(stack[t], g) \in Seq(FrameType)
      /\ Len(Append(stack[t], g)) = Len(stack[t]) + 1
      /\ Append(stack[t], g)[Len(stack[t]) + 1] = g
      /\ \A k \in 1 .. Len(stack[t]) : Append(stack[t], g)[k] = stack[t][k]
  BY <1>1, AppendProperties
<1>3. /\ stack'[t] = Append(stack[t], g)
      /\ \A u \in Threads \ {t} : stack'[u] = stack[u]
      /\ StackShape'
  BY <1>2 DEF StackShape
<1> QED BY <1>2, <1>3 DEF Pushed, Untouched, Alike
\* A thread that was idle starts with a frame.
LEMMA StartPushes ==
  ASSUME StackShape, NEW t \in Threads, NEW g \in FrameType, stack[t] = <<>>,
         stack' = [stack EXCEPT ![t] = <<g>>]
  PROVE  StackShape' /\ Pushed(t, g)
<1>1. <<g>> \in Seq(FrameType) /\ Len(<<g>>) = 1 /\ <<g>>[1] = g
  OBVIOUS
<1>2. Len(stack[t]) = 0
  OBVIOUS
<1>3. /\ stack'[t] = <<g>>
      /\ \A u \in Threads \ {t} : stack'[u] = stack[u]
      /\ StackShape'
  BY <1>1 DEF StackShape
<1> QED BY <1>1, <1>2, <1>3 DEF Pushed, Untouched, Alike

\* Pop drops the top frame.
LEMMA PopPops ==
  ASSUME StackShape, NEW t \in Threads, stack[t] # <<>>, Pop(t)
  PROVE  StackShape' /\ Popped(t)
<1>1. stack[t] \in Seq(FrameType) /\ stack' = [stack EXCEPT ![t] = Front(@)]
  BY DEF StackShape, Pop
<1>2. /\ Front(stack[t]) \in Seq(FrameType) /\ Len(stack[t]) >= 1
      /\ Len(Front(stack[t])) = Len(stack[t]) - 1
      /\ \A k \in 1 .. Len(stack[t]) - 1 : Front(stack[t])[k] = stack[t][k]
  BY <1>1, FrontShape
<1>3. /\ stack'[t] = Front(stack[t])
      /\ \A u \in Threads \ {t} : stack'[u] = stack[u]
      /\ StackShape'
  BY <1>1, <1>2 DEF StackShape
<1> QED BY <1>2, <1>3 DEF Popped, Untouched, Alike

\* SetTop replaces the top frame.
LEMMA SetTopMoves ==
  ASSUME StackShape, NEW t \in Threads, stack[t] # <<>>, NEW g \in FrameType,
         SetTop(t, g)
  PROVE  StackShape' /\ TopMoved(t, g)
<1>1. stack[t] \in Seq(FrameType) /\ Len(stack[t]) >= 1 /\ Len(stack[t]) \in Nat
      /\ Len(stack[t]) \in 1 .. Len(stack[t])
  BY TopFrame DEF StackShape
<1> DEFINE s == [stack[t] EXCEPT ![Len(stack[t])] = g]
<1>2. s \in Seq(FrameType) /\ Len(s) = Len(stack[t]) /\ s[Len(stack[t])] = g
      /\ \A k \in 1 .. Len(stack[t]) - 1 : s[k] = stack[t][k]
  BY <1>1, ExceptSeq
<1>3. stack' = [stack EXCEPT ![t] = s]
  BY DEF SetTop
<1> HIDE DEF s
<1>4. /\ stack'[t] = s
      /\ \A u \in Threads \ {t} : stack'[u] = stack[u]
      /\ StackShape'
  BY <1>2, <1>3 DEF StackShape
<1> QED BY <1>1, <1>2, <1>4 DEF TopMoved, Untouched, Alike

\* A continuation marks the top frame and puts the next one on it.
LEMMA ContinuePushes ==
  ASSUME StackShape, NEW t \in Threads, stack[t] # <<>>, NEW g \in FrameType,
         stack' = [stack EXCEPT ![t] = Append([@ EXCEPT ![Len(@)].used = TRUE], g)]
  PROVE  StackShape' /\ Pushed(t, g)
<1> DEFINE f == [Top(t) EXCEPT !.used = TRUE]
           s == [stack[t] EXCEPT ![Len(stack[t])] = f]
<1>1. /\ stack[t] \in Seq(FrameType) /\ Len(stack[t]) >= 1
      /\ Len(stack[t]) \in Nat /\ Len(stack[t]) \in 1 .. Len(stack[t])
      /\ Top(t) \in FrameType /\ Top(t) = stack[t][Len(stack[t])]
  BY TopFrame DEF StackShape
<1>2. f \in FrameType /\ Alike(f, Top(t))
  BY <1>1 DEF FrameType, Alike
<1>3. stack' = [stack EXCEPT ![t] = Append(s, g)]
  BY <1>1
<1> HIDE DEF f
<1>4. s \in Seq(FrameType) /\ Len(s) = Len(stack[t]) /\ s[Len(stack[t])] = f
      /\ \A k \in 1 .. Len(stack[t]) - 1 : s[k] = stack[t][k]
  BY <1>1, <1>2, ExceptSeq
<1> HIDE DEF s
<1>5. /\ Append(s, g) \in Seq(FrameType) /\ Len(Append(s, g)) = Len(stack[t]) + 1
      /\ Append(s, g)[Len(stack[t]) + 1] = g
      /\ \A k \in 1 .. Len(stack[t]) : Append(s, g)[k] = s[k]
  BY <1>4, AppendProperties
<1>6. \A k \in 1 .. Len(stack[t]) : Alike(s[k], stack[t][k])
  <2> TAKE k \in 1 .. Len(stack[t])
  <2>1. CASE k = Len(stack[t])
    BY <1>1, <1>2, <1>4, <2>1
  <2>2. CASE k \in 1 .. Len(stack[t]) - 1
    BY <1>4, <2>2 DEF Alike
  <2> QED BY <1>1, <2>1, <2>2
<1>7. /\ stack'[t] = Append(s, g)
      /\ \A u \in Threads \ {t} : stack'[u] = stack[u]
      /\ StackShape'
  BY <1>3, <1>5 DEF StackShape
<1> QED BY <1>5, <1>6, <1>7 DEF Pushed, Untouched, Alike

\* A cancellation leaves the frames where they are.
LEMMA CancelShape ==
  ASSUME StackShape, NEW p, NEW g, NEW t \in Threads
  PROVE  LET c == Cancel(stack, p, g) IN
         /\ c \in [Threads -> Seq(FrameType)]
         /\ Len(c[t]) = Len(stack[t])
         /\ \A k \in 1 .. Len(stack[t]) : Alike(c[t][k], stack[t][k])
<1> DEFINE marked(f) == [f EXCEPT !.cancelled = TRUE]
           mark(u, k) == IF /\ view[u] = g
                            /\ stack[u][k].plugin = p
                            /\ stack[u][k].pc \in {"lock", "run"}
                         THEN marked(stack[u][k]) ELSE stack[u][k]
           c == Cancel(stack, p, g)
<1>1. ASSUME NEW f \in FrameType
      PROVE  marked(f) \in FrameType /\ Alike(marked(f), f) /\ Alike(f, f)
  BY DEF FrameType, Alike
<1>2. c = [u \in Threads |-> [k \in 1 .. Len(stack[u]) |-> mark(u, k)]]
  BY DEF Cancel
<1> HIDE DEF marked, c
<1>3. ASSUME NEW u \in Threads
      PROVE  /\ c[u] \in Seq(FrameType) /\ Len(c[u]) = Len(stack[u])
             /\ \A k \in 1 .. Len(stack[u]) : Alike(c[u][k], stack[u][k])
  <2>1. stack[u] \in Seq(FrameType) /\ Len(stack[u]) \in Nat
    BY DEF StackShape
  <2>2. \A k \in 1 .. Len(stack[u]) : stack[u][k] \in FrameType
    BY <2>1, ElementOfSeq
  <2>3. ASSUME NEW k \in 1 .. Len(stack[u])
        PROVE  mark(u, k) \in FrameType /\ Alike(mark(u, k), stack[u][k])
    <3> HIDE DEF FrameType
    <3> QED BY <1>1, <2>2
  <2> HIDE DEF mark
  <2>4. c[u] = [k \in 1 .. Len(stack[u]) |-> mark(u, k)]
    BY <1>2
  <2>5. c[u] \in Seq(FrameType)
    BY <2>1, <2>3, <2>4, IsASeq
  <2>6. Len(c[u]) = Len(stack[u])
    BY <2>1, <2>4, <2>5, LenProperties
  <2> QED BY <2>3, <2>4, <2>5, <2>6
<1>4. c \in [Threads -> Seq(FrameType)]
  BY <1>2, <1>3
<1> QED BY <1>3, <1>4 DEF c
-----------------------------------------------------------------------------
(* Every step is a call, the end of a call, an advance of the call on top,  *)
(* or leaves the stacks as they are.                                       *)

Shape ==
  /\ StackShape
  /\ view \in [Threads -> {"old", "new"}]

\* A plugin is the frame's own or among those its continuation still has
\* before the terminal.
Ahead(g, p) ==
  /\ g.rest # <<>>
  /\ g.plugin = p \/ \E m \in 1 .. Len(g.rest) - 1 : g.rest[m] = p

\* All layers that the policy of the frame's service requires are ahead.
Complete(g) ==
  \A l \in Range(Layers[g.service]) : l.required => Ahead(g, l.plugin)

\* A call within the call on top of thread t's.
Nested(t, g) ==
  /\ Running(t) /\ g.pc = "probe" /\ g.auth \subseteq Top(t).auth
  /\ \/ /\ g.how = "import" /\ Complete(g)
        /\ g.component # None => ~ EndpointActive(t, g.component, g.service)
        /\ coords' = [coords EXCEPT ![t] = Append(@, Top(t).plugin)]
     \/ /\ g.how = "continue" /\ coords' = coords /\ Top(t).rest # <<>>
        /\ g.service = Top(t).service /\ g.component = Top(t).component
        /\ g.plugin = Head(Top(t).rest) /\ g.rest = Tail(Top(t).rest)
  /\ UNCHANGED <<view, retired>>

\* The outermost frame of a thread.
First(t, g) ==
  /\ stack[t] = <<>> /\ retired' = retired /\ coords' = coords
  /\ \/ /\ t = Kernel /\ g.how = "root" /\ g.pc = "probe" /\ Complete(g)
        /\ view' = view
     \/ /\ t = Kernel /\ g.how = "stop" /\ g.pc = "lock"
        /\ g.service = None /\ view' = view
     \/ /\ t \in Deliveries /\ g.how = "listener" /\ g.pc = "run"
        /\ g.plugin \in Listeners /\ g.service = None
        /\ view' = [view EXCEPT ![t] = view[Kernel]]

Calls(t, g) ==
  /\ Pushed(t, g) /\ g \in FrameType /\ ~ g.holds
  /\ g.how # "listener" => g.auth \subseteq Ceiling[g.plugin]
  /\ First(t, g) \/ Nested(t, g)

\* The call on top of thread t's ends, and the scope with the outermost one; if
\* it was a stop, the plugin may be stopped now.
Ends(t) ==
  /\ Popped(t)
  /\ Len(stack[t]) = 1 => prepared' = [prepared EXCEPT ![t] = <<>>]
  /\ coords' = [coords EXCEPT ![t] =
                  IF Top(t).how = "import" THEN Front(@) ELSE @]
  /\ view' = view
  /\ \A p : Replaced(p) \in retired' <=> Replaced(p) \in retired

\* The call on top of thread t's takes or releases the instance mutex.
Advances(t, g) ==
  /\ stack[t] # <<>> /\ TopMoved(t, g)
  /\ Alike(g, [Top(t) EXCEPT !.pc = g.pc, !.holds = g.holds])
  /\ \/ /\ Top(t).pc = "probe" /\ g.pc = "probing" /\ g.holds
        /\ Free(t, Top(t).plugin)
     \/ /\ Top(t).pc = "probing" /\ ~ g.holds
        /\ ~ (Top(t).plugin \in Legacy /\ Reentered(t))
        /\ g.pc = IF Top(t).plugin \in Legacy THEN "lock" ELSE "run"
     \/ /\ Top(t).pc = "lock" /\ g.pc = "run" /\ g.holds
        /\ Free(t, Top(t).plugin)
        /\ Top(t).plugin \in Legacy \/ Quiesced(t, Top(t).plugin)
  /\ UNCHANGED <<coords, view, retired>>

\* No frame comes or goes; the kernel may go over to a new graph.
Stays ==
  /\ \A u \in Threads : Untouched(u)
  /\ coords' = coords
  /\ \/ UNCHANGED <<view, retired>>
     \/ /\ stack[Kernel] = <<>> /\ retired = {}
        /\ view' = [view EXCEPT ![Kernel] = "new"]
        /\ \E p \in Plugins : retired' = {Replaced(p)}

Moves == \/ \E t \in Threads, g \in FrameType : Calls(t, g) \/ Advances(t, g)
         \/ \E t \in Threads : Ends(t)
         \/ Stays

\* When no required layer was refused they are all in the chain, before the
\* terminal.
LEMMA ChainComplete ==
  ASSUME NEW t, NEW s \in Services, NEW auth, NEW terminal \in Plugins,
         ~ LayersRefused(t, s, auth)
  PROVE  \A l \in Range(Layers[s]) : l.required =>
           LET chain == Chain(t, s, auth, terminal)
           IN  \E k \in 1 .. Len(chain) - 1 : chain[k] = l.plugin
<1> SUFFICES ASSUME NEW l \in Range(Layers[s]), l.required
             PROVE  LET chain == Chain(t, s, auth, terminal)
                    IN  \E k \in 1 .. Len(chain) - 1 : chain[k] = l.plugin
  OBVIOUS
<1> DEFINE L == [plugin : Plugins, needs : SUBSET Caps, required : BOOLEAN]
           keep == {k \in DOMAIN Layers[s] : TakesPart(t, auth, Layers[s][k])}
           layers == Kept(Layers[s], keep)
           ps == [k \in 1 .. Len(layers) |-> layers[k].plugin]
<1>1. Layers[s] \in Seq(L)
  BY GraphAssumption
<1> HIDE DEF L
<1>2. PICK n \in 1 .. Len(Layers[s]) : l = Layers[s][n]
  BY <1>1 DEF Range
<1>3. n \in keep
  <2>1. TakesPart(t, auth, l)
    BY DEF LayersRefused
  <2> QED BY <1>1, <1>2, <2>1
<1> HIDE DEF keep
<1>4. layers \in Seq(L) /\ \E m \in 1 .. Len(layers) : layers[m] = l
  BY <1>1, <1>2, <1>3, KeptElements
<1>5. Chain(t, s, auth, terminal) = ps \o <<terminal>>
  BY DEF Chain, keep
<1> HIDE DEF layers
<1>6. PICK m \in 1 .. Len(layers) : layers[m] = l
  BY <1>4
<1>7. \A k \in 1 .. Len(layers) : layers[k].plugin \in Plugins
  <2>1. \A k \in 1 .. Len(layers) : layers[k] \in L
    BY <1>4, ElementOfSeq
  <2> QED BY <2>1 DEF L
<1>8. ps \in Seq(Plugins) /\ Len(ps) = Len(layers) /\ ps[m] = l.plugin
      /\ Len(layers) \in Nat
  <2>1. Len(layers) \in Nat
    BY <1>4
  <2>2. ps \in Seq(Plugins)
    BY <1>7, <2>1, IsASeq
  <2>3. Len(ps) = Len(layers)
    BY <2>1, <2>2, LenProperties
  <2> QED BY <1>6, <2>1, <2>2, <2>3
<1> HIDE DEF ps
<1>9. <<terminal>> \in Seq(Plugins) /\ Len(<<terminal>>) = 1
  OBVIOUS
<1>10. /\ Len(ps \o <<terminal>>) = Len(layers) + 1
       /\ (ps \o <<terminal>>)[m] = l.plugin
  <2>1. m \in 1 .. Len(ps) + 1 /\ m <= Len(ps)
    BY <1>8
  <2> QED BY <1>8, <1>9, <2>1, ConcatProperties
<1>11. m \in 1 .. Len(ps \o <<terminal>>) - 1
  BY <1>8, <1>10
<1> QED BY <1>5, <1>10, <1>11

\* The frame of a chain that has all required layers has them ahead.
LEMMA DispatchedComplete ==
  ASSUME NEW t, NEW s \in Services, NEW auth, NEW terminal \in Plugins,
         ~ LayersRefused(t, s, auth), NEW g \in FrameType, g.service = s,
         g.plugin = Head(Chain(t, s, auth, terminal)),
         g.rest = Tail(Chain(t, s, auth, terminal))
  PROVE  Complete(g)
<1> DEFINE chain == Chain(t, s, auth, terminal)
<1>1. chain \in Seq(Plugins) /\ chain # <<>>
  BY ChainShape
<1>2. \A l \in Range(Layers[s]) : l.required =>
        \E k \in 1 .. Len(chain) - 1 : chain[k] = l.plugin
  BY ChainComplete
<1>3. g.plugin = Head(chain) /\ g.rest = Tail(chain)
  OBVIOUS
<1> HIDE DEF chain
<1>4. /\ g.plugin = chain[1] /\ Len(g.rest) = Len(chain) - 1
      /\ Len(chain) \in Nat /\ Len(chain) >= 1 /\ g.rest \in Seq(Plugins)
      /\ \A m \in 1 .. Len(g.rest) : g.rest[m] = chain[m + 1]
  <2>1. Len(chain) \in Nat /\ Len(chain) >= 1
    BY <1>1, EmptySeq
  <2>2. Head(chain) = chain[1]
    BY <1>1
  <2>3. /\ Tail(chain) \in Seq(Plugins) /\ Len(Tail(chain)) = Len(chain) - 1
        /\ \A m \in 1 .. Len(Tail(chain)) : Tail(chain)[m] = chain[m + 1]
    BY <1>1, HeadTailProperties
  <2> QED BY <1>3, <2>1, <2>2, <2>3, Zenon
<1>5. ASSUME NEW k \in 1 .. Len(chain) - 1
      PROVE  Ahead(g, chain[k])
  <2>1. g.rest # <<>>
    <3>1. Len(g.rest) # 0 /\ Len(<<>>) = 0
      BY <1>4
    <3> QED BY <3>1, Zenon
  <2>2. CASE k = 1
    BY <1>4, <2>1, <2>2 DEF Ahead
  <2>3. CASE k # 1
    <3>1. k - 1 \in 1 .. Len(g.rest) - 1 /\ k - 1 \in 1 .. Len(g.rest)
          /\ (k - 1) + 1 = k
      BY <1>4, <2>3
    <3>2. g.rest[k - 1] = chain[k]
      BY <1>4, <3>1
    <3> QED BY <2>1, <3>1, <3>2 DEF Ahead
  <2> QED BY <2>2, <2>3
<1> QED BY <1>2, <1>5 DEF Complete
\* A client's call on the kernel.
LEMMA RootCalls ==
  ASSUME Shape, NEW r \in Roots, NEW auth \in SUBSET Caps, NEW b,
         CallComponent(r, auth) \/ CallService(r, auth, b)
  PROVE  StackShape' /\ \E g \in FrameType : Calls(Kernel, g)
<1> DEFINE c == r.component
<1>1. PICK p \in Plugins :
        /\ stack[Kernel] = <<>> /\ ~ LayersRefused(Kernel, r.service, auth)
        /\ stack' = [stack EXCEPT ![Kernel] =
                       <<Dispatched(r.service, c, Chain(Kernel, r.service, auth, p),
                                    auth, "root")>>]
        /\ UNCHANGED <<coords, view, retired>>
  <2>1. CASE CallComponent(r, auth)
    <3>1. Owner[r.component] \in Plugins
      BY <2>1, GraphAssumption, ConstantsAssumption DEF CallComponent
    <3> QED BY <2>1, <3>1 DEF CallComponent
  <2>2. CASE CallService(r, auth, b)
    <3> DEFINE E == [plugin : Plugins, needs : SUBSET Caps]
               eligible == EligibleTerminals(r.service, auth, b)
    <3>1. Terminal[r.service] \in Seq(E)
      BY GraphAssumption
    <3>2. eligible \in Seq(E) /\ eligible # <<>>
      <4> HIDE DEF E
      <4> QED BY <2>2, <3>1, KeptElements DEF CallService, EligibleTerminals
    <3>3. eligible[1] \in E
      <4> HIDE DEF E, eligible
      <4> QED BY <3>2, HeadTailProperties
    <3>4. eligible[1].plugin \in Plugins
      BY <3>3
    <3> HIDE DEF E
    <3> QED BY <2>2, <3>4 DEF CallService
  <2> QED BY <2>1, <2>2
<1> DEFINE chain == Chain(Kernel, r.service, auth, p)
           g == Dispatched(r.service, c, chain, auth, "root")
<1>2. r.service \in Services /\ c \in Components \cup {None} /\ Kernel \in Threads
  BY GraphAssumption DEF Threads
<1>3. chain \in Seq(Plugins) /\ chain # <<>>
  BY <1>2, ChainShape
<1>4. stack' = [stack EXCEPT ![Kernel] = <<g>>]
  BY <1>1
<1>5. /\ g \in FrameType /\ g.plugin = Head(chain) /\ g.rest = Tail(chain)
      /\ g.service = r.service /\ g.how = "root"
      /\ g.auth \subseteq auth /\ g.auth \subseteq Ceiling[g.plugin]
      /\ g.pc = "probe" /\ ~ g.holds
  <2>1. "root" \in Hows /\ g = Dispatched(r.service, c, chain, auth, "root")
    BY DEF Hows
  <2> HIDE DEF chain, g
  <2>2. g \in FrameType
    BY <1>2, <1>3, <2>1, DispatchedShape
  <2> QED BY <2>1, <2>2, DispatchedFields
<1> HIDE DEF g
<1>6. Complete(g)
  BY <1>1, <1>2, <1>5, DispatchedComplete
<1>7. StackShape' /\ Pushed(Kernel, g)
  BY <1>1, <1>2, <1>4, <1>5, StartPushes DEF Shape
<1>8. First(Kernel, g)
  BY <1>1, <1>5, <1>6 DEF First
<1> QED BY <1>5, <1>7, <1>8 DEF Calls

\* A listener starts on a delivery.
LEMMA ListenCalls ==
  ASSUME Shape, NEW t \in Deliveries, NEW p \in Listeners,
         NEW auth \in SUBSET Caps, Listen(t, p, auth)
  PROVE  StackShape' /\ \E g \in FrameType : Calls(t, g)
<1> DEFINE g == Outermost(p, auth, "listener")
<1>1. p \in Plugins /\ t \in Threads /\ "listener" \in Hows
  BY ConstantsAssumption DEF Threads, Hows
<1>2. /\ g \in FrameType /\ g.plugin = p /\ g.service = None
      /\ g.how = "listener" /\ g.pc = "run" /\ ~ g.holds
  <2>1. g = Outermost(p, auth, "listener")
    OBVIOUS
  <2> HIDE DEF g
  <2> QED BY <1>1, <2>1, OutermostShape
<1>3. /\ stack[t] = <<>> /\ stack' = [stack EXCEPT ![t] = <<g>>]
      /\ view' = [view EXCEPT ![t] = view[Kernel]]
      /\ UNCHANGED <<coords, retired>>
  BY DEF Listen
<1> HIDE DEF g
<1>4. StackShape' /\ Pushed(t, g)
  BY <1>1, <1>2, <1>3, StartPushes DEF Shape
<1> QED BY <1>2, <1>3, <1>4 DEF Calls, First

\* Nested calls with a coordinator of their own: an import, and the service
\* interface.
LEMMA ImportCalls ==
  ASSUME Shape, NEW t \in Threads,
         \/ \E i \in UNION Range(Imports) : Import(t, i)
         \/ \E s \in Abi, asked \in SUBSET Caps : \E b : InvokeService(t, s, asked, b)
  PROVE  StackShape' /\ \E g \in FrameType : Calls(t, g)
<1>1. PICK s \in Services, c \in Components \cup {None}, p \in Plugins,
           auth \in SUBSET Caps :
        /\ Running(t) /\ ~ LayersRefused(t, s, auth)
        /\ auth \subseteq Top(t).auth
        /\ c # None => ~ EndpointActive(t, c, s)
        /\ coords' = [coords EXCEPT ![t] = Append(@, Top(t).plugin)]
        /\ stack' = [stack EXCEPT ![t] =
                       Append(@, Dispatched(s, c, Chain(t, s, auth, p),
                                            auth, "import"))]
        /\ UNCHANGED <<view, retired>>
  <2>1. ASSUME NEW i, Import(t, i)
        PROVE  \E s \in Services, c \in Components \cup {None}, p \in Plugins,
                  auth \in SUBSET Caps :
                 /\ Running(t) /\ ~ LayersRefused(t, s, auth)
                 /\ auth \subseteq Top(t).auth
                 /\ c # None => ~ EndpointActive(t, c, s)
                 /\ coords' = [coords EXCEPT ![t] = Append(@, Top(t).plugin)]
                 /\ stack' = [stack EXCEPT ![t] =
                                Append(@, Dispatched(s, c, Chain(t, s, auth, p),
                                                     auth, "import"))]
                 /\ UNCHANGED <<view, retired>>
    <3> DEFINE E == [component : Components, auth : SUBSET Caps]
               plan == Provider(t, i.plan)
               e == plan[1]
               auth == Top(t).auth \cap e.auth
    <3>1. Running(t) /\ plan # <<>> /\ i \in Imports[Top(t).plugin]
      BY <2>1 DEF Import
    <3>2. Top(t) \in FrameType
      BY <3>1, TopFrame DEF Shape, Running
    <3>3. i.service \in Services /\ i.plan \in Seq(E)
      BY <3>1, <3>2, GraphAssumption DEF FrameType
    <3>4. plan \in Seq(E)
      <4> HIDE DEF E
      <4> QED BY <3>3, KeptElements DEF Provider
    <3>5. e \in E
      <4> HIDE DEF E, plan
      <4> QED BY <3>1, <3>4, HeadTailProperties
    <3>6. e.component \in Components /\ e.auth \in SUBSET Caps
          /\ Owner[e.component] \in Plugins
      BY <3>5, ConstantsAssumption
    <3>7. auth \in SUBSET Caps /\ auth \subseteq Top(t).auth
      BY <3>6
    <3>8. /\ ~ EndpointActive(t, e.component, i.service)
          /\ ~ LayersRefused(t, i.service, auth)
          /\ coords' = [coords EXCEPT ![t] = Append(@, Top(t).plugin)]
          /\ stack' = [stack EXCEPT ![t] =
               Append(@, Dispatched(i.service, e.component,
                           Chain(t, i.service, auth, Owner[e.component]),
                           auth, "import"))]
          /\ UNCHANGED <<view, retired>>
      BY <2>1 DEF Import, ImportAllowed
    <3> HIDE DEF E, e, auth, plan
    <3> QED BY <3>1, <3>3, <3>6, <3>7, <3>8
  <2>2. ASSUME NEW s \in Abi, NEW asked \in SUBSET Caps, NEW b,
               InvokeService(t, s, asked, b)
        PROVE  \E c \in Components \cup {None}, p \in Plugins,
                  auth \in SUBSET Caps :
                 /\ Running(t) /\ ~ LayersRefused(t, s, auth)
                 /\ auth \subseteq Top(t).auth
                 /\ c # None => ~ EndpointActive(t, c, s)
                 /\ coords' = [coords EXCEPT ![t] = Append(@, Top(t).plugin)]
                 /\ stack' = [stack EXCEPT ![t] =
                                Append(@, Dispatched(s, c, Chain(t, s, auth, p),
                                                     auth, "import"))]
                 /\ UNCHANGED <<view, retired>>
    <3> DEFINE E == [plugin : Plugins, needs : SUBSET Caps]
               auth == Top(t).auth \cap asked
               eligible == EligibleTerminals(s, auth, b)
               p == eligible[1].plugin
    <3>1. s \in Services /\ auth \in SUBSET Caps /\ auth \subseteq Top(t).auth
      BY GraphAssumption
    <3>2. Terminal[s] \in Seq(E)
      BY <3>1, GraphAssumption
    <3>3. eligible \in Seq(E) /\ eligible # <<>>
      <4> HIDE DEF E
      <4> QED BY <2>2, <3>2, KeptElements DEF InvokeService, EligibleTerminals
    <3>4. eligible[1] \in E
      <4> HIDE DEF E, eligible
      <4> QED BY <3>3, HeadTailProperties
    <3>5. p \in Plugins
      BY <3>4
    <3>6. /\ Running(t) /\ ~ LayersRefused(t, s, auth)
          /\ coords' = [coords EXCEPT ![t] = Append(@, Top(t).plugin)]
          /\ stack' = [stack EXCEPT ![t] =
               Append(@, Dispatched(s, None, Chain(t, s, auth, p), auth, "import"))]
          /\ UNCHANGED <<view, retired>>
      BY <2>2 DEF InvokeService
    <3> HIDE DEF E, auth, p, eligible
    <3> QED BY <3>1, <3>5, <3>6
  <2> QED BY <2>1, <2>2, GraphAssumption
<1> DEFINE chain == Chain(t, s, auth, p)
           g == Dispatched(s, c, chain, auth, "import")
<1>2. chain \in Seq(Plugins) /\ chain # <<>>
  BY ChainShape
<1>3. stack' = [stack EXCEPT ![t] = Append(@, g)]
  BY <1>1
<1>4. /\ g \in FrameType /\ g.plugin = Head(chain) /\ g.rest = Tail(chain)
      /\ g.service = s /\ g.component = c /\ g.how = "import"
      /\ g.auth \subseteq auth /\ g.auth \subseteq Ceiling[g.plugin]
      /\ g.pc = "probe" /\ ~ g.holds
  <2>1. "import" \in Hows /\ g = Dispatched(s, c, chain, auth, "import")
    BY DEF Hows
  <2> HIDE DEF chain, g
  <2>2. g \in FrameType
    BY <1>2, <2>1, DispatchedShape
  <2> QED BY <2>1, <2>2, DispatchedFields
<1> HIDE DEF g
<1>5. Complete(g)
  BY <1>1, <1>4, DispatchedComplete
<1>6. StackShape' /\ Pushed(t, g)
  BY <1>3, <1>4, AppendPushes DEF Shape
<1>7. g.auth \subseteq Top(t).auth /\ g.auth \subseteq Ceiling[g.plugin]
  BY <1>1, <1>4
<1>8. Nested(t, g)
  BY <1>1, <1>4, <1>5, <1>7 DEF Nested
<1> QED BY <1>4, <1>6, <1>7, <1>8 DEF Calls
\* A layer's continuation.
LEMMA ContinueCalls ==
  ASSUME Shape, NEW t \in Threads, NEW asked \in SUBSET Caps, Continue(t, asked)
  PROVE  StackShape' /\ \E g \in FrameType : Calls(t, g)
<1> DEFINE f == Top(t)
           chain == f.rest
           auth == f.auth \cap asked
           g == Dispatched(f.service, f.component, chain, auth, "continue")
<1>1. /\ Running(t) /\ chain # <<>> /\ stack[t] # <<>>
      /\ stack' = [stack EXCEPT ![t] =
                     Append([@ EXCEPT ![Len(@)].used = TRUE], g)]
      /\ UNCHANGED <<coords, view, retired>>
  BY DEF Continue, Delegated, Running
<1>2. f \in FrameType
  BY <1>1, TopFrame DEF Shape
<1>3. /\ chain \in Seq(Plugins) /\ f.service \in Services \cup {None}
      /\ f.component \in Components \cup {None} /\ auth \in SUBSET Caps
  BY <1>2 DEF FrameType
<1>4. /\ g.plugin = Head(chain) /\ g.rest = Tail(chain)
      /\ g.service = f.service /\ g.component = f.component
      /\ g.how = "continue" /\ g.auth \subseteq auth
      /\ g.auth \subseteq Ceiling[g.plugin] /\ g.pc = "probe" /\ ~ g.holds
  <2>1. g = Dispatched(f.service, f.component, chain, auth, "continue")
    OBVIOUS
  <2> HIDE DEF g, chain, f, auth
  <2> QED BY <2>1, DispatchedFields
<1>5. g \in FrameType
  <2>1. Head(chain) \in Plugins /\ Tail(chain) \in Seq(Plugins)
    <3> HIDE DEF chain
    <3> QED BY <1>1, <1>3, HeadTailProperties
  <2> HIDE DEF chain, f, auth
  <2> QED BY <1>3, <2>1 DEF g, Dispatched, Frame, FrameType, Pcs, Hows
<1> HIDE DEF g
<1>6. StackShape' /\ Pushed(t, g)
  BY <1>1, <1>5, ContinuePushes DEF Shape
<1>7. g.auth \subseteq Top(t).auth
  BY <1>4
<1>8. Nested(t, g)
  BY <1>1, <1>4, <1>7 DEF Nested
<1> QED BY <1>4, <1>5, <1>6, <1>8 DEF Calls

\* Kernel::stop.
LEMMA StopCalls ==
  ASSUME Shape, NEW p \in Plugins, Stop(p)
  PROVE  StackShape' /\ \E g \in FrameType : Calls(Kernel, g)
<1> DEFINE o == Outermost(p, Ceiling[p], "stop")
           g == [o EXCEPT !.pc = "lock"]
           c == Cancel(stack, p, view[Kernel])
<1>1. /\ stack[Kernel] = <<>> /\ stack' = [c EXCEPT ![Kernel] = <<g>>]
      /\ UNCHANGED <<coords, view, retired>>
  BY DEF Stop
<1>2. Kernel \in Threads /\ Ceiling[p] \in SUBSET Caps /\ "stop" \in Hows
  BY ConstantsAssumption DEF Threads, Hows
<1>3. /\ o \in FrameType /\ o.plugin = p /\ o.service = None
      /\ o.how = "stop" /\ o.auth = Ceiling[p] /\ ~ o.holds
  <2>1. o = Outermost(p, Ceiling[p], "stop")
    OBVIOUS
  <2> HIDE DEF o
  <2> QED BY <1>2, <2>1, OutermostShape
<1> HIDE DEF o
<1>4. /\ g \in FrameType /\ g.plugin = p /\ g.service = None
      /\ g.how = "stop" /\ g.auth = Ceiling[p] /\ g.pc = "lock" /\ ~ g.holds
  BY <1>3 DEF FrameType, Pcs
<1>5. /\ c \in [Threads -> Seq(FrameType)]
      /\ \A t \in Threads :
           /\ Len(c[t]) = Len(stack[t])
           /\ \A k \in 1 .. Len(stack[t]) : Alike(c[t][k], stack[t][k])
  BY <1>2, CancelShape DEF Shape
<1> HIDE DEF c, g
<1>6. <<g>> \in Seq(FrameType) /\ Len(<<g>>) = 1 /\ <<g>>[1] = g
  BY <1>4
<1>7. /\ stack'[Kernel] = <<g>>
      /\ \A u \in Threads \ {Kernel} : stack'[u] = c[u]
      /\ StackShape'
  BY <1>1, <1>2, <1>5, <1>6 DEF StackShape
<1>8. Len(stack[Kernel]) = 0
  BY <1>1
<1>9. Pushed(Kernel, g)
  <2>1. \A u \in Threads \ {Kernel} : Untouched(u)
    BY <1>5, <1>7 DEF Untouched
  <2>2. Alike(stack'[Kernel][1], g) /\ Len(stack'[Kernel]) = 1
    BY <1>6, <1>7 DEF Alike
  <2> QED BY <1>8, <2>1, <2>2 DEF Pushed
<1> QED BY <1>1, <1>4, <1>7, <1>9 DEF Calls, First

\* A call is denied, refused or returns.
LEMMA PopEnds ==
  ASSUME Shape, NEW t \in Threads, stack[t] # <<>>, Pop(t), view' = view,
         \/ retired' = retired
         \/ \E p : retired' = retired \cup {Stopped(p)}
  PROVE  StackShape' /\ Ends(t)
<1>1. \A p : Replaced(p) \in retired' <=> Replaced(p) \in retired
  BY DEF Replaced, Stopped
<1> QED BY <1>1, PopPops DEF Shape, Pop, DropCoordinator, Ends

LEMMA SetTopAdvances ==
  ASSUME Shape, NEW t \in Threads, stack[t] # <<>>,
         NEW pc \in Pcs, NEW holds \in BOOLEAN,
         SetTop(t, [Top(t) EXCEPT !.pc = pc, !.holds = holds])
  PROVE  /\ StackShape'
         /\ \E g \in FrameType :
              /\ g.pc = pc /\ (g.holds <=> holds) /\ TopMoved(t, g)
              /\ Alike(g, [Top(t) EXCEPT !.pc = g.pc, !.holds = g.holds])
<1> DEFINE g == [Top(t) EXCEPT !.pc = pc, !.holds = holds]
<1>1. Top(t) \in FrameType
  BY TopFrame DEF Shape
<1>2. g \in FrameType /\ g.pc = pc /\ g.holds = holds
  BY <1>1 DEF FrameType
<1>3. Alike(g, [Top(t) EXCEPT !.pc = g.pc, !.holds = g.holds])
  BY <1>1, <1>2 DEF FrameType, Alike
<1> HIDE DEF g
<1>4. SetTop(t, g)
  BY DEF g
<1> QED BY <1>2, <1>3, <1>4, SetTopMoves DEF Shape

\* The steps of invoke_resolved_chain_with, and of a stop.
LEMMA DispatchMoves ==
  ASSUME Shape, NEW t \in Threads, Dispatch(t)
  PROVE  StackShape' /\ (Ends(t) \/ \E g \in FrameType : Advances(t, g))
<1>1. /\ stack[t] # <<>> /\ view' = view
      /\ retired' = retired \/ StopUnhooked(t)
  BY DEF Dispatch, Deny, Probe, Probed, Lock, StopUnhooked
<1>2. CASE Pop(t)
  BY <1>1, <1>2, PopEnds DEF StopUnhooked
<1>3. Top(t) \in FrameType
  BY <1>1, TopFrame DEF Shape
<1>4. CASE Probe(t)
  <2>1. /\ SetTop(t, [Top(t) EXCEPT !.pc = "probing", !.holds = TRUE])
        /\ Top(t).pc = "probe" /\ Free(t, Top(t).plugin)
        /\ UNCHANGED <<coords, retired>>
    BY <1>4 DEF Probe
  <2>2. PICK g \in FrameType :
          /\ g.pc = "probing" /\ g.holds /\ TopMoved(t, g)
          /\ Alike(g, [Top(t) EXCEPT !.pc = g.pc, !.holds = g.holds])
    BY <1>1, <2>1, SetTopAdvances DEF Pcs
  <2>3. StackShape'
    BY <1>1, <2>1, SetTopAdvances DEF Pcs
  <2> QED BY <1>1, <2>1, <2>2, <2>3 DEF Advances
<1>5. CASE Probed(t) /\ ~ (Top(t).plugin \in Legacy /\ Reentered(t))
  <2> DEFINE pc == IF Top(t).plugin \in Legacy THEN "lock" ELSE "run"
  <2>1. /\ SetTop(t, [Top(t) EXCEPT !.holds = FALSE, !.pc = pc])
        /\ Top(t).pc = "probing" /\ UNCHANGED <<coords, retired>>
    BY <1>5 DEF Probed
  <2>2. /\ pc \in Pcs
        /\ SetTop(t, [Top(t) EXCEPT !.pc = pc, !.holds = FALSE])
    BY <1>3, <2>1 DEF Pcs, FrameType
  <2> HIDE DEF pc
  <2>3. PICK g \in FrameType :
          /\ g.pc = pc /\ ~ g.holds /\ TopMoved(t, g)
          /\ Alike(g, [Top(t) EXCEPT !.pc = g.pc, !.holds = g.holds])
    BY <1>1, <2>2, SetTopAdvances
  <2>4. StackShape'
    BY <1>1, <2>2, SetTopAdvances
  <2> QED BY <1>1, <1>5, <2>1, <2>3, <2>4 DEF Advances, pc
<1>6. CASE Lock(t) /\ (Top(t).plugin \in Legacy \/ Quiesced(t, Top(t).plugin))
  <2>1. /\ SetTop(t, [Top(t) EXCEPT !.pc = "run", !.holds = TRUE])
        /\ Top(t).pc = "lock" /\ Free(t, Top(t).plugin)
        /\ UNCHANGED <<coords, retired>>
    BY <1>6 DEF Lock
  <2>2. PICK g \in FrameType :
          /\ g.pc = "run" /\ g.holds /\ TopMoved(t, g)
          /\ Alike(g, [Top(t) EXCEPT !.pc = g.pc, !.holds = g.holds])
    BY <1>1, <2>1, SetTopAdvances DEF Pcs
  <2>3. StackShape'
    BY <1>1, <2>1, SetTopAdvances DEF Pcs
  <2> QED BY <1>1, <1>6, <2>1, <2>2, <2>3 DEF Advances
<1> QED BY <1>2, <1>4, <1>5, <1>6 DEF Dispatch, Deny, Probed, Lock,
                                         StopUnhooked

\* Every step moves the stacks in one of the four ways.
LEMMA StepMoves ==
  ASSUME Shape, [Next]_vars
  PROVE  Shape' /\ Moves
<1>1. StackShape' /\ Moves
  <2>1. CASE UNCHANGED <<stack, coords, view, retired>>
    BY <2>1 DEF Shape, StackShape, Moves, Stays, Untouched, Alike
  <2>2. CASE Root
    <3>1. Kernel \in Threads /\ Deliveries \subseteq Threads
      BY DEF Threads
    <3> QED BY <2>2, <3>1, RootCalls, ListenCalls DEF Root, Moves
  <2>3. ASSUME NEW t \in Threads, Dispatch(t)
        PROVE  StackShape' /\ Moves
    BY <2>3, DispatchMoves DEF Moves
  <2>4. ASSUME NEW t \in Threads, Host(t)
        PROVE  StackShape' /\ Moves
    <3>1. ASSUME NEW ok \in BOOLEAN, Return(t, ok) PROVE StackShape' /\ Moves
      <4>1. /\ stack[t] # <<>> /\ Pop(t) /\ view' = view
            /\ \/ retired' = retired
               \/ \E p : retired' = retired \cup {Stopped(p)}
        BY <3>1 DEF Return, Running
      <4> QED BY <4>1, PopEnds DEF Moves
    <3> QED BY <2>4, <3>1, ImportCalls, ContinueCalls DEF Host, Moves
  <2>5. ASSUME NEW t \in Threads, Durable(t)
        PROVE  UNCHANGED <<stack, coords, view, retired>>
    BY <2>5 DEF Durable, LateOperation, Prepare, Commit
  <2>6. ASSUME NEW p \in Plugins, Stop(p) PROVE StackShape' /\ Moves
    BY <2>6, StopCalls DEF Moves, Threads
  <2>7. ASSUME NEW p \in Plugins, Replace(p) PROVE StackShape' /\ Moves
    <3>1. /\ stack[Kernel] = <<>> /\ retired = {} /\ coords' = coords
          /\ view' = [view EXCEPT ![Kernel] = "new"]
          /\ retired' = {Replaced(p)} /\ stack' = Cancel(stack, p, "old")
      BY <2>7 DEF Replace
    <3>2. /\ \A t \in Threads : Untouched(t)
          /\ StackShape'
      <4>1. Kernel \in Threads
        BY DEF Threads
      <4> QED BY <3>1, <4>1, CancelShape DEF Shape, StackShape, Untouched
    <3> QED BY <3>1, <3>2 DEF Moves, Stays
  <2> QED BY <2>1, <2>2, <2>3, <2>4, <2>5, <2>6, <2>7 DEF Next, Retire, vars
<1>2. view' \in [Threads -> {"old", "new"}]
  BY <1>1 DEF Moves, Calls, First, Nested, Ends, Advances, Stays, Shape, Threads
<1> QED BY <1>1, <1>2 DEF Shape
-----------------------------------------------------------------------------
(* The frames after a step, from those before it.                          *)

LEMMA FrameOfStack ==
  ASSUME StackShape, NEW u \in Threads
  PROVE  /\ Len(stack[u]) \in Nat
         /\ \A k \in 1 .. Len(stack[u]) : stack[u][k] \in FrameType
<1>1. stack[u] \in Seq(FrameType)
  BY DEF StackShape
<1> QED BY <1>1, ElementOfSeq, LenProperties

\* After a call there is the new frame and the ones from before.
LEMMA FramesAfterCall ==
  ASSUME StackShape, NEW t \in Threads, NEW g, Calls(t, g), NEW u \in Threads
  PROVE  /\ Len(stack[u]) \in Nat /\ Len(stack'[t]) = Len(stack[t]) + 1
         /\ u # t => Len(stack'[u]) = Len(stack[u])
         /\ \A k \in 1 .. Len(stack'[u]) :
              \/ k \in 1 .. Len(stack[u]) /\ Alike(stack'[u][k], stack[u][k])
              \/ u = t /\ k = Len(stack[t]) + 1 /\ Alike(stack'[t][k], g)
<1>1. Len(stack[u]) \in Nat
  BY FrameOfStack
<1> QED BY <1>1 DEF Calls, Pushed, Untouched

LEMMA FramesAfterAdvance ==
  ASSUME StackShape, NEW t \in Threads, NEW g, Advances(t, g), NEW u \in Threads
  PROVE  /\ Len(stack[u]) \in Nat /\ Len(stack[t]) >= 1
         /\ Len(stack'[u]) = Len(stack[u])
         /\ \A k \in 1 .. Len(stack'[u]) :
              \/ /\ Alike(stack'[u][k], stack[u][k])
                 /\ u = t => k \in 1 .. Len(stack[t]) - 1
              \/ u = t /\ k = Len(stack[t]) /\ stack'[t][k] = g
<1>1. Len(stack[u]) \in Nat /\ Len(stack[t]) \in Nat
  BY FrameOfStack
<1> QED BY <1>1 DEF Advances, TopMoved, Untouched

LEMMA FramesAfterEnd ==
  ASSUME StackShape, NEW t \in Threads, Ends(t), NEW u \in Threads
  PROVE  /\ Len(stack[u]) \in Nat /\ Len(stack[t]) >= 1
         /\ Len(stack'[u]) = IF u = t THEN Len(stack[u]) - 1 ELSE Len(stack[u])
         /\ \A k \in 1 .. Len(stack'[u]) :
              /\ k \in 1 .. Len(stack[u]) /\ Alike(stack'[u][k], stack[u][k])
              /\ u = t => k < Len(stack[t])
<1>1. Len(stack[u]) \in Nat /\ Len(stack[t]) \in Nat
  BY FrameOfStack
<1> QED BY <1>1 DEF Ends, Popped, Untouched

LEMMA FramesThatStay ==
  ASSUME Stays, NEW u \in Threads
  PROVE  /\ Len(stack'[u]) = Len(stack[u])
         /\ \A k \in 1 .. Len(stack'[u]) : Alike(stack'[u][k], stack[u][k])
BY DEF Stays, Untouched

-----------------------------------------------------------------------------
(* Where a frame is and what it holds.                                     *)

Placed(t, k) ==
  LET f == stack[t][k] IN
  /\ k < Len(stack[t]) => f.pc = "run"
  /\ k = 1 <=> f.how \notin {"import", "continue"}
  /\ f.how = "stop" => t = Kernel /\ f.pc \in {"lock", "run"}
  /\ f.how = "listener" => f.pc = "run" /\ f.plugin \in Listeners
  /\ f.pc = "probing" => f.holds
  /\ f.pc \in {"probe", "lock"} => ~ f.holds
  /\ f.how = "stop" /\ f.pc = "run" => f.holds
  /\ f.pc = "lock" => f.plugin \in Legacy \/ f.how = "stop"
  /\ f.pc = "lock" => \A j \in 1 .. k - 1 : stack[t][j].plugin # f.plugin

\* Only the top frame is not running; a plugin that waits for its instance
\* mutex as a whole is not further down the same stack.
Layout == \A t \in Threads : \A k \in 1 .. Len(stack[t]) : Placed(t, k)

\* A frame that is as before, among frames that are as before, is placed as
\* before.
LEMMA StaysPlaced ==
  ASSUME NEW u \in Threads, NEW k \in 1 .. Len(stack[u]), Placed(u, k),
         \A j \in 1 .. k : Alike(stack'[u][j], stack[u][j]),
         k \in Nat, k < Len(stack'[u]) => stack[u][k].pc = "run"
  PROVE  Placed(u, k)'
<1>1. Alike(stack'[u][k], stack[u][k])
  OBVIOUS
<1>2. \A j \in 1 .. k - 1 : stack'[u][j].plugin = stack[u][j].plugin
  BY DEF Alike
<1> QED BY <1>1, <1>2 DEF Placed, Alike

LEMMA LayoutStep ==
  ASSUME Shape, Layout, Moves
  PROVE  Layout'
<1> USE DEF Shape
<1>1. ASSUME NEW t \in Threads, NEW g \in FrameType, Calls(t, g),
             NEW u \in Threads, NEW k \in 1 .. Len(stack'[u])
      PROVE  Placed(u, k)'
  <2>1. /\ Len(stack[u]) \in Nat /\ Len(stack'[t]) = Len(stack[t]) + 1
        /\ u # t => Len(stack'[u]) = Len(stack[u])
        /\ \A j \in 1 .. Len(stack'[u]) :
             \/ j \in 1 .. Len(stack[u]) /\ Alike(stack'[u][j], stack[u][j])
             \/ u = t /\ j = Len(stack[t]) + 1 /\ Alike(stack'[t][j], g)
    BY <1>1, FramesAfterCall
  <2>2. CASE k \in 1 .. Len(stack[u])
    <3>1. \A j \in 1 .. k : Alike(stack'[u][j], stack[u][j])
      BY <2>1, <2>2
    <3>2. Placed(u, k)
      BY <2>2 DEF Layout
    <3>3. k < Len(stack'[u]) => stack[u][k].pc = "run"
      <4>1. CASE k < Len(stack[u])
        BY <3>2, <4>1 DEF Placed
      <4>2. CASE k = Len(stack[u]) /\ u = t
        <5>1. stack[t] # <<>>
          BY <2>2, <4>2
        <5>2. Running(t)
          BY <1>1, <5>1 DEF Calls, First, Nested
        <5> QED BY <4>2, <5>2 DEF Running, Top
      <4> QED BY <2>1, <2>2, <4>1, <4>2
    <3> QED BY <2>1, <2>2, <3>1, <3>2, <3>3, StaysPlaced
  <2>3. CASE u = t /\ k = Len(stack[t]) + 1 /\ Alike(stack'[t][k], g)
    <3>1. stack[t] = <<>> => Len(stack[t]) = 0
      OBVIOUS
    <3>2. stack[t] # <<>> => Len(stack[t]) >= 1
      BY TopFrame
    <3>3. ~ g.holds
      BY <1>1 DEF Calls
    <3>4. CASE First(t, g)
      BY <2>1, <2>3, <3>1, <3>3, <3>4 DEF First, Placed, Alike
    <3>5. CASE Nested(t, g)
      <4>1. k # 1 /\ g.pc = "probe" /\ g.how \in {"import", "continue"}
        BY <2>1, <2>3, <3>2, <3>5 DEF Nested, Running
      <4> QED BY <2>1, <2>3, <3>3, <4>1 DEF Placed, Alike
    <3> QED BY <1>1, <3>4, <3>5 DEF Calls
  <2> QED BY <2>1, <2>2, <2>3
<1>2. ASSUME NEW t \in Threads, NEW g \in FrameType, Advances(t, g),
             NEW u \in Threads, NEW k \in 1 .. Len(stack'[u])
      PROVE  Placed(u, k)'
  <2>1. /\ Len(stack[u]) \in Nat /\ Len(stack[t]) >= 1
        /\ Len(stack'[u]) = Len(stack[u])
        /\ \A j \in 1 .. Len(stack'[u]) :
             \/ /\ Alike(stack'[u][j], stack[u][j])
                /\ u = t => j \in 1 .. Len(stack[t]) - 1
             \/ u = t /\ j = Len(stack[t]) /\ stack'[t][j] = g
    BY <1>2, FramesAfterAdvance
  <2>2. Placed(u, k) /\ k \in 1 .. Len(stack[u]) /\ k \in Nat
    BY <2>1 DEF Layout
  <2>3. CASE Alike(stack'[u][k], stack[u][k]) /\ (u = t => k \in 1 .. Len(stack[t]) - 1)
    <3>1. \A j \in 1 .. k : Alike(stack'[u][j], stack[u][j])
      BY <2>1, <2>2, <2>3
    <3>2. k < Len(stack'[u]) => stack[u][k].pc = "run"
      BY <2>1, <2>2 DEF Placed
    <3> QED BY <2>2, <3>1, <3>2, StaysPlaced
  <2>4. CASE u = t /\ k = Len(stack[t]) /\ stack'[t][k] = g
    <3>1. /\ \A j \in 1 .. k - 1 : stack'[t][j].plugin = stack[t][j].plugin
          /\ k = Len(stack'[t]) /\ Top(t) = stack[t][k]
      BY <2>1, <2>2, <2>4 DEF Alike, Top
    <3>2. Top(t) \in FrameType
      BY <1>2, TopFrame DEF Advances
    <3>3. g.plugin = Top(t).plugin /\ g.how = Top(t).how
      BY <1>2, <3>2 DEF Advances, Alike, FrameType
    <3>4. CASE Top(t).pc = "probe" /\ g.pc = "probing" /\ g.holds
      BY <2>2, <2>4, <3>1, <3>3, <3>4 DEF Placed
    <3>5. CASE Top(t).pc = "lock" /\ g.pc = "run" /\ g.holds
      BY <2>2, <2>4, <3>1, <3>3, <3>5 DEF Placed
    <3>6. CASE /\ Top(t).pc = "probing" /\ ~ g.holds
               /\ ~ (Top(t).plugin \in Legacy /\ Reentered(t))
               /\ g.pc = IF Top(t).plugin \in Legacy THEN "lock" ELSE "run"
      <4>1. g.plugin \in Legacy => \A j \in 1 .. k - 1 : stack[t][j].plugin # g.plugin
        BY <2>4, <3>3, <3>6 DEF Reentered, Below
      <4>2. g.how # "stop" /\ g.how # "listener"
        BY <2>2, <2>4, <3>1, <3>3, <3>6 DEF Placed
      <4> QED BY <2>2, <2>4, <3>1, <3>3, <3>6, <4>1, <4>2 DEF Placed
    <3> QED BY <1>2, <3>4, <3>5, <3>6 DEF Advances
  <2> QED BY <2>1, <2>3, <2>4
<1>3. ASSUME NEW t \in Threads, Ends(t),
             NEW u \in Threads, NEW k \in 1 .. Len(stack'[u])
      PROVE  Placed(u, k)'
  <2>1. /\ Len(stack[u]) \in Nat /\ Len(stack[t]) >= 1
        /\ Len(stack'[u]) = IF u = t THEN Len(stack[u]) - 1 ELSE Len(stack[u])
        /\ \A j \in 1 .. Len(stack'[u]) :
             /\ j \in 1 .. Len(stack[u]) /\ Alike(stack'[u][j], stack[u][j])
    BY <1>3, FramesAfterEnd
  <2>2. k \in 1 .. Len(stack[u]) /\ k \in Nat /\ Placed(u, k)
    BY <2>1 DEF Layout
  <2>3. \A j \in 1 .. k : Alike(stack'[u][j], stack[u][j])
    BY <2>1, <2>2
  <2>4. k < Len(stack'[u]) => stack[u][k].pc = "run"
    BY <2>1, <2>2 DEF Placed
  <2> QED BY <2>2, <2>3, <2>4, StaysPlaced
<1>4. ASSUME Stays, NEW u \in Threads, NEW k \in 1 .. Len(stack'[u])
      PROVE  Placed(u, k)'
  <2>1. Len(stack[u]) \in Nat /\ Len(stack'[u]) = Len(stack[u])
        /\ \A j \in 1 .. Len(stack'[u]) : Alike(stack'[u][j], stack[u][j])
    BY <1>4, FramesThatStay, FrameOfStack
  <2>2. k \in 1 .. Len(stack[u]) /\ k \in Nat /\ Placed(u, k)
    BY <2>1 DEF Layout
  <2>3. k < Len(stack'[u]) => stack[u][k].pc = "run"
    BY <2>1, <2>2 DEF Placed
  <2>4. \A j \in 1 .. k : Alike(stack'[u][j], stack[u][j])
    BY <2>1, <2>2
  <2> QED BY <2>2, <2>3, <2>4, StaysPlaced
<1> QED BY <1>1, <1>2, <1>3, <1>4 DEF Moves, Layout

LEMMA Start ==
  ASSUME Init
  PROVE  Shape /\ Layout
<1>1. \A t \in Threads : stack[t] = <<>> /\ Len(stack[t]) = 0
  BY DEF Init
<1>2. stack \in [Threads -> Seq(FrameType)]
  BY DEF Init
<1> QED BY <1>1, <1>2 DEF Init, Shape, StackShape, Layout
-----------------------------------------------------------------------------
(* What a frame keeps from its call to its end.                            *)

Same(f, g) ==
  /\ f.plugin = g.plugin /\ f.service = g.service
  /\ f.component = g.component /\ f.rest = g.rest
  /\ f.auth = g.auth /\ f.how = g.how

\* A frame after a step is one from before, on top of the same frames, or the
\* one that a call put on top of them.
LEMMA StackHistory ==
  ASSUME Shape, Moves, NEW u \in Threads, NEW k \in 1 .. Len(stack'[u])
  PROVE  \/ /\ k \in 1 .. Len(stack[u])
            /\ \A j \in 1 .. k : Same(stack'[u][j], stack[u][j])
         \/ \E g \in FrameType :
              /\ Calls(u, g) /\ k = Len(stack[u]) + 1 /\ Same(stack'[u][k], g)
              /\ \A j \in 1 .. Len(stack[u]) : Same(stack'[u][j], stack[u][j])
<1> USE DEF Shape
<1>0. \A f, g : Alike(f, g) => Same(f, g)
  BY DEF Alike, Same
<1>1. ASSUME NEW t \in Threads, NEW g \in FrameType, Calls(t, g)
      PROVE  \/ /\ k \in 1 .. Len(stack[u])
                /\ \A j \in 1 .. k : Same(stack'[u][j], stack[u][j])
             \/ /\ u = t /\ k = Len(stack[u]) + 1 /\ Same(stack'[u][k], g)
                /\ \A j \in 1 .. Len(stack[u]) : Same(stack'[u][j], stack[u][j])
  <2>1. /\ Len(stack[u]) \in Nat /\ Len(stack'[t]) = Len(stack[t]) + 1
        /\ u # t => Len(stack'[u]) = Len(stack[u])
        /\ \A j \in 1 .. Len(stack'[u]) :
             \/ j \in 1 .. Len(stack[u]) /\ Alike(stack'[u][j], stack[u][j])
             \/ u = t /\ j = Len(stack[t]) + 1 /\ Alike(stack'[t][j], g)
    BY <1>1, FramesAfterCall
  <2>2. \A j \in 1 .. Len(stack[u]) : j \in 1 .. Len(stack'[u])
    BY <2>1
  <2>3. \A j \in 1 .. Len(stack[u]) : Same(stack'[u][j], stack[u][j])
    BY <1>0, <2>1, <2>2
  <2>4. CASE k \in 1 .. Len(stack[u])
    BY <2>1, <2>3, <2>4
  <2>5. CASE u = t /\ k = Len(stack[t]) + 1 /\ Alike(stack'[t][k], g)
    BY <1>0, <2>3, <2>5
  <2> QED BY <2>1, <2>4, <2>5
<1>2. ASSUME NEW t \in Threads, NEW g \in FrameType, Advances(t, g)
      PROVE  /\ k \in 1 .. Len(stack[u])
             /\ \A j \in 1 .. k : Same(stack'[u][j], stack[u][j])
  <2>1. /\ Len(stack[u]) \in Nat /\ Len(stack[t]) >= 1
        /\ Len(stack'[u]) = Len(stack[u])
        /\ \A j \in 1 .. Len(stack'[u]) :
             \/ /\ Alike(stack'[u][j], stack[u][j])
                /\ u = t => j \in 1 .. Len(stack[t]) - 1
             \/ u = t /\ j = Len(stack[t]) /\ stack'[t][j] = g
    BY <1>2, FramesAfterAdvance
  <2>2. Top(t) \in FrameType /\ Top(t) = stack[t][Len(stack[t])]
    BY <1>2, TopFrame DEF Advances
  <2>3. Same(g, Top(t))
    BY <1>2, <2>2 DEF Advances, Alike, Same, FrameType
  <2>4. \A j \in 1 .. Len(stack'[u]) : Same(stack'[u][j], stack[u][j])
    BY <1>0, <2>1, <2>2, <2>3
  <2> QED BY <2>1, <2>4
<1>3. ASSUME NEW t \in Threads, Ends(t)
      PROVE  /\ k \in 1 .. Len(stack[u])
             /\ \A j \in 1 .. k : Same(stack'[u][j], stack[u][j])
  <2>1. /\ Len(stack[u]) \in Nat
        /\ Len(stack'[u]) = IF u = t THEN Len(stack[u]) - 1 ELSE Len(stack[u])
        /\ \A j \in 1 .. Len(stack'[u]) :
             j \in 1 .. Len(stack[u]) /\ Alike(stack'[u][j], stack[u][j])
    BY <1>3, FramesAfterEnd
  <2> QED BY <1>0, <2>1
<1>4. ASSUME Stays
      PROVE  /\ k \in 1 .. Len(stack[u])
             /\ \A j \in 1 .. k : Same(stack'[u][j], stack[u][j])
  <2>1. Len(stack[u]) \in Nat /\ Len(stack'[u]) = Len(stack[u])
        /\ \A j \in 1 .. Len(stack'[u]) : Alike(stack'[u][j], stack[u][j])
    BY <1>4, FramesThatStay, FrameOfStack
  <2> QED BY <1>0, <2>1
<1> QED BY <1>1, <1>2, <1>3, <1>4 DEF Moves
-----------------------------------------------------------------------------
(* Authority.                                                              *)

Attenuated(t, k) ==
  /\ \A i \in 1 .. k : stack[t][k].auth \subseteq stack[t][i].auth
  /\ stack[t][k].how # "listener" =>
       stack[t][k].auth \subseteq Ceiling[stack[t][k].plugin]

FramesShrink ==
  \A t \in Threads : \A k \in 1 .. Len(stack[t]) : Attenuated(t, k)

LEMMA AuthorityStep ==
  ASSUME Shape, Shape', Moves, FramesShrink
  PROVE  FramesShrink'
<1>1. \A t \in Threads : \A k \in 1 .. Len(stack[t]) : Attenuated(t, k)
  BY DEF FramesShrink
<1>2. ASSUME NEW u \in Threads, NEW k \in 1 .. Len(stack'[u])
      PROVE  Attenuated(u, k)'
  <2>0. Len(stack[u]) \in Nat
    BY FrameOfStack DEF Shape
  <2>1. CASE /\ k \in 1 .. Len(stack[u])
             /\ \A j \in 1 .. k : Same(stack'[u][j], stack[u][j])
    <3>1. Attenuated(u, k) /\ k \in 1 .. k
      BY <1>1, <2>0, <2>1
    <3> QED BY <2>1, <3>1 DEF Attenuated, Same
  <2>2. ASSUME NEW g \in FrameType, Calls(u, g), k = Len(stack[u]) + 1,
               Same(stack'[u][k], g),
               \A j \in 1 .. Len(stack[u]) : Same(stack'[u][j], stack[u][j])
        PROVE  Attenuated(u, k)'
    <3>1. g.how # "listener" => g.auth \subseteq Ceiling[g.plugin]
      BY <2>2 DEF Calls
    <3>2. \A i \in 1 .. Len(stack[u]) : g.auth \subseteq stack[u][i].auth
      <4>1. CASE stack[u] = <<>>
        BY <4>1
      <4>2. CASE stack[u] # <<>>
        <5>1. g.auth \subseteq Top(u).auth
          BY <2>2, <4>2 DEF Calls, First, Nested
        <5>2. Len(stack[u]) \in 1 .. Len(stack[u]) /\ Top(u) = stack[u][Len(stack[u])]
          BY <4>2, TopFrame DEF Shape
        <5>3. Attenuated(u, Len(stack[u]))
          BY <1>1, <5>2
        <5> QED BY <5>1, <5>2, <5>3 DEF Attenuated
      <4> QED BY <4>1, <4>2
    <3>3. \A i \in 1 .. k : i = k \/ i \in 1 .. Len(stack[u])
      BY <2>0, <2>2
    <3> QED BY <2>2, <3>1, <3>2, <3>3 DEF Attenuated, Same
  <2> QED BY <2>1, <2>2, StackHistory
<1> QED BY <1>2 DEF FramesShrink
-----------------------------------------------------------------------------
(* Endpoints.                                                              *)

LEMMA EndpointStep ==
  ASSUME Shape, Moves, EndpointOnce
  PROVE  EndpointOnce'
<1>1. ASSUME NEW u \in Threads, NEW k \in 1 .. Len(stack'[u]), NEW i \in 1 .. k - 1,
             stack'[u][k].how = "import", stack'[u][k].component # None
      PROVE  <<stack'[u][i].component, stack'[u][i].service>>
               # <<stack'[u][k].component, stack'[u][k].service>>
  <2>0. Len(stack[u]) \in Nat
    BY FrameOfStack DEF Shape
  <2>1. CASE /\ k \in 1 .. Len(stack[u])
             /\ \A j \in 1 .. k : Same(stack'[u][j], stack[u][j])
    <3>1. k \in 1 .. k /\ i \in 1 .. k
      BY <2>0, <2>1
    <3> QED BY <1>1, <2>1, <3>1 DEF EndpointOnce, Same
  <2>2. ASSUME NEW g \in FrameType, Calls(u, g), k = Len(stack[u]) + 1,
               Same(stack'[u][k], g),
               \A j \in 1 .. Len(stack[u]) : Same(stack'[u][j], stack[u][j])
        PROVE  <<stack'[u][i].component, stack'[u][i].service>>
                 # <<stack'[u][k].component, stack'[u][k].service>>
    <3>1. i \in 1 .. Len(stack[u]) /\ stack[u] # <<>>
      BY <2>0, <2>2
    <3>2. g.how = "import" /\ g.component # None
      BY <1>1, <2>2 DEF Same
    <3>3. ~ EndpointActive(u, g.component, g.service)
      BY <2>2, <3>1, <3>2 DEF Calls, First, Nested
    <3> QED BY <2>2, <3>1, <3>3 DEF EndpointActive, Frames, Same
  <2> QED BY <2>1, <2>2, StackHistory
<1> QED BY <1>1 DEF EndpointOnce
-----------------------------------------------------------------------------
(* Waiting for an instance mutex.                                          *)

LEMMA LayoutForbidsSelfWait ==
  ASSUME Shape, Layout
  PROVE  NoSelfWait
<1> SUFFICES ASSUME NEW t \in Threads, NEW f \in Below(t), f.holds, Awaits(t),
                    Instance(t, f.plugin) = Instance(t, Top(t).plugin)
             PROVE  FALSE
  BY DEF NoSelfWait
<1>1. f.plugin = Top(t).plugin
  BY DEF Instance
<1>2. stack[t] # <<>> /\ Top(t).pc \in {"probe", "lock"}
      /\ ~ Free(t, Top(t).plugin) /\ (Top(t).pc = "probe" => ~ Denied(t))
  BY DEF Awaits
<1>3. Reentered(t)
  BY <1>1 DEF Reentered
<1>4. Top(t).pc = "lock"
  BY <1>2, <1>3 DEF Denied
<1>5. Len(stack[t]) \in 1 .. Len(stack[t]) /\ Top(t) = stack[t][Len(stack[t])]
  BY <1>2, TopFrame DEF Shape
<1>6. Placed(t, Len(stack[t]))
  BY <1>5 DEF Layout
<1> QED BY <1>1, <1>4, <1>5, <1>6 DEF Placed, Below
-----------------------------------------------------------------------------
(* Required layers.                                                        *)

\* The plugin p runs further down in the same invocation of the service, or
\* is still to run before the terminal.
Passed(t, j, p) ==
  \E k \in 1 .. j - 1 :
    /\ stack[t][k].plugin = p
    /\ \A i \in k + 1 .. j : stack[t][i].how = "continue"

LayersPassed(t, j) ==
  stack[t][j].service # None =>
    \A l \in Range(Layers[stack[t][j].service]) :
      l.required => Ahead(stack[t][j], l.plugin) \/ Passed(t, j, l.plugin)

LayersInv ==
  \A t \in Threads : \A j \in 1 .. Len(stack[t]) : LayersPassed(t, j)

\* What a continuation leaves ahead.
LEMMA ContinuationAhead ==
  ASSUME NEW f, f.rest \in Seq(Plugins), f.rest # <<>>, NEW g, NEW p,
         g.plugin = Head(f.rest), g.rest = Tail(f.rest), Ahead(f, p)
  PROVE  f.plugin = p \/ Ahead(g, p)
<1>1. /\ Len(f.rest) \in Nat /\ Len(f.rest) >= 1 /\ Tail(f.rest) \in Seq(Plugins)
      /\ Len(Tail(f.rest)) = Len(f.rest) - 1 /\ Head(f.rest) = f.rest[1]
      /\ \A i \in 1 .. Len(Tail(f.rest)) : Tail(f.rest)[i] = f.rest[i + 1]
  BY HeadTailProperties, EmptySeq
<1>2. ASSUME NEW m \in 1 .. Len(f.rest) - 1, f.rest[m] = p
      PROVE  Ahead(g, p)
  <2>1. Len(g.rest) >= 1 /\ g.rest # <<>>
    BY <1>1, <1>2, EmptySeq
  <2>2. CASE m = 1
    BY <1>1, <1>2, <2>1, <2>2 DEF Ahead
  <2>3. CASE m > 1
    <3>1. m - 1 \in 1 .. Len(g.rest) - 1 /\ m - 1 \in 1 .. Len(g.rest)
      BY <1>1, <1>2, <2>3
    <3>2. g.rest[m - 1] = p
      BY <1>1, <1>2, <3>1
    <3> QED BY <2>1, <3>1, <3>2 DEF Ahead
  <2> QED BY <1>1, <2>2, <2>3
<1> QED BY <1>2 DEF Ahead

LEMMA LayersStep ==
  ASSUME Shape, Moves, LayersInv
  PROVE  LayersInv'
<1>1. ASSUME NEW u \in Threads, NEW j \in 1 .. Len(stack'[u])
      PROVE  LayersPassed(u, j)'
  <2>0. Len(stack[u]) \in Nat
    BY FrameOfStack DEF Shape
  <2>1. CASE /\ j \in 1 .. Len(stack[u])
             /\ \A i \in 1 .. j : Same(stack'[u][i], stack[u][i])
    <3>1. LayersPassed(u, j) /\ j \in 1 .. j
      BY <2>0, <2>1 DEF LayersInv
    <3>2. \A p : Passed(u, j, p) => Passed(u, j, p)'
      <4> SUFFICES ASSUME NEW p, NEW k \in 1 .. j - 1, stack[u][k].plugin = p,
                          \A i \in k + 1 .. j : stack[u][i].how = "continue"
                   PROVE  Passed(u, j, p)'
        BY DEF Passed
      <4>1. k \in 1 .. j /\ \A i \in k + 1 .. j : i \in 1 .. j
        BY <2>0, <2>1
      <4> QED BY <2>1, <4>1 DEF Passed, Same
    <3>3. \A p : Ahead(stack[u][j], p) => Ahead(stack'[u][j], p)
      BY <2>1, <3>1 DEF Ahead, Same
    <3>4. stack'[u][j].service = stack[u][j].service
      BY <2>1, <3>1 DEF Same
    <3> QED BY <3>1, <3>2, <3>3, <3>4 DEF LayersPassed
  <2>2. ASSUME NEW g \in FrameType, Calls(u, g), j = Len(stack[u]) + 1,
               Same(stack'[u][j], g),
               \A i \in 1 .. Len(stack[u]) : Same(stack'[u][i], stack[u][i])
        PROVE  LayersPassed(u, j)'
    <3>1. /\ stack'[u][j].service = g.service
          /\ \A p : Ahead(g, p) => Ahead(stack'[u][j], p)
      BY <2>2 DEF Same, Ahead
    <3>2. CASE Complete(g) \/ g.service = None
      BY <3>1, <3>2 DEF Complete, LayersPassed
    <3>3. CASE /\ Running(u) /\ g.how = "continue" /\ Top(u).rest # <<>>
               /\ g.service = Top(u).service
               /\ g.plugin = Head(Top(u).rest) /\ g.rest = Tail(Top(u).rest)
      <4> DEFINE n == Len(stack[u])
      <4>1. n \in 1 .. n /\ Top(u) = stack[u][n] /\ Top(u) \in FrameType /\ n \in Nat
        BY <3>3, TopFrame DEF Running, Shape
      <4>2. LayersPassed(u, n)
        BY <4>1 DEF LayersInv
      <4>3. \A p : Passed(u, n, p) => Passed(u, j, p)'
        <5> SUFFICES ASSUME NEW p, NEW k \in 1 .. n - 1, stack[u][k].plugin = p,
                            \A i \in k + 1 .. n : stack[u][i].how = "continue"
                     PROVE  Passed(u, j, p)'
          BY DEF Passed
        <5>1. k \in 1 .. j - 1 /\ k \in 1 .. n
          BY <2>2, <4>1
        <5>2. \A i \in k + 1 .. j : stack'[u][i].how = "continue"
          <6>1. \A i \in k + 1 .. j : i = j \/ (i \in k + 1 .. n /\ i \in 1 .. n)
            BY <2>2, <4>1
          <6> QED BY <2>2, <3>3, <6>1 DEF Same
        <5> QED BY <2>2, <5>1, <5>2 DEF Passed, Same
      <4>4. \A p : Top(u).plugin = p => Passed(u, j, p)'
        <5>1. n \in 1 .. j - 1 /\ \A i \in n + 1 .. j : i = j
          BY <2>2, <4>1
        <5> QED BY <2>2, <3>3, <4>1, <5>1 DEF Passed, Same
      <4>5. \A p : Ahead(Top(u), p) => Ahead(g, p) \/ Passed(u, j, p)'
        <5>1. Top(u).rest \in Seq(Plugins)
          BY <4>1 DEF FrameType
        <5> QED BY <3>3, <4>4, <5>1, ContinuationAhead
      <4> HIDE DEF n
      <4> QED BY <3>1, <3>3, <4>1, <4>2, <4>3, <4>5 DEF LayersPassed
    <3> QED BY <2>2, <3>2, <3>3 DEF Calls, First, Nested
  <2> QED BY <2>1, <2>2, StackHistory
<1> QED BY <1>1 DEF LayersInv

LEMMA LayersRun ==
  ASSUME Shape, Layout, LayersInv
  PROVE  RequiredLayersRun
<1> SUFFICES ASSUME NEW t \in Threads, NEW j \in 1 .. Len(stack[t]),
                    stack[t][j].rest = <<>>, stack[t][j].service # None,
                    NEW l \in Range(Layers[stack[t][j].service]), l.required
             PROVE  LET first == {k \in 1 .. j : stack[t][k].how # "continue"}
                        from == CHOOSE k \in first : \A i \in first : i <= k
                    IN  \E k \in from .. j - 1 : stack[t][k].plugin = l.plugin
  BY DEF RequiredLayersRun
<1> DEFINE first == {k \in 1 .. j : stack[t][k].how # "continue"}
           from == CHOOSE k \in first : \A i \in first : i <= k
<1>0. Len(stack[t]) \in Nat /\ j \in Nat
  BY FrameOfStack DEF Shape
<1>1. 1 \in first
  <2>1. 1 \in 1 .. Len(stack[t]) /\ 1 \in 1 .. j
    BY <1>0
  <2> QED BY <2>1 DEF Layout, Placed
<1>2. first \in SUBSET (1 .. j)
  OBVIOUS
<1>3. from \in first
  <2>1. \E k \in first : \A i \in first : i <= k
    <3> HIDE DEF first
    <3> QED BY <1>0, <1>1, <1>2, GreatestNumber
  <2> HIDE DEF first
  <2> QED BY <2>1
<1>4. PICK k \in 1 .. j - 1 : /\ stack[t][k].plugin = l.plugin
                              /\ \A i \in k + 1 .. j : stack[t][i].how = "continue"
  BY DEF LayersInv, LayersPassed, Ahead, Passed
<1> HIDE DEF from
<1>5. from \in 1 .. j /\ ~ (from \in k + 1 .. j)
  BY <1>3, <1>4
<1>6. k \in from .. j - 1
  BY <1>0, <1>4, <1>5
<1> QED BY <1>4, <1>6 DEF from
-----------------------------------------------------------------------------
(* Instance mutexes and the exclusive use of a plugin's state.             *)

\* A step makes no two calls in progress reach the same instance that reached
\* different ones before it.
LEMMA InstancesStay ==
  ASSUME Shape, Moves, NEW t \in Threads, NEW u \in Threads,
         stack[t] # <<>>, stack[u] # <<>>, NEW p, NEW q,
         Instance(t, p)' = Instance(u, q)'
  PROVE  Instance(t, p) = Instance(u, q)
<1>1. p = q
  BY DEF Instance
<1>2. CASE /\ view'[t] = view[t] /\ view'[u] = view[u]
           /\ \A r : Replaced(r) \in retired' <=> Replaced(r) \in retired
  BY <1>1, <1>2 DEF Instance
<1>3. CASE retired = {}
  BY <1>1, <1>3 DEF Instance
<1>4. ASSUME NEW v \in Threads, NEW g \in FrameType, Calls(v, g)
      PROVE  /\ view'[t] = view[t] /\ view'[u] = view[u]
             /\ retired' = retired
  BY <1>4 DEF Calls, First, Nested, Shape
<1>5. \A v \in Threads, g \in FrameType : Advances(v, g) =>
        view' = view /\ retired' = retired
  BY DEF Advances
<1>6. \A v \in Threads : Ends(v) =>
        /\ view' = view
        /\ \A r : Replaced(r) \in retired' <=> Replaced(r) \in retired
  BY DEF Ends
<1>7. Stays => (view' = view /\ retired' = retired) \/ retired = {}
  BY DEF Stays
<1> QED BY <1>2, <1>3, <1>4, <1>5, <1>6, <1>7 DEF Moves

\* The call on top of t's takes its turn, the other frames are as before.
Turn(t, g) ==
  /\ g \in FrameType /\ Advances(t, g) /\ stack'[t][Len(stack[t])] = g
  /\ \A u \in Threads : \A k \in 1 .. Len(stack[u]) :
       (u = t /\ k = Len(stack[t])) \/ Alike(stack'[u][k], stack[u][k])

\* A frame after a step is as it was, or new, or the one that took its turn.
LEMMA FrameHistory ==
  ASSUME Shape, Moves, NEW u \in Threads, NEW k \in 1 .. Len(stack'[u])
  PROVE  \/ k \in 1 .. Len(stack[u]) /\ Alike(stack'[u][k], stack[u][k])
         \/ \E g \in FrameType : Calls(u, g) /\ Alike(stack'[u][k], g)
         \/ k = Len(stack[u]) /\ k \in 1 .. Len(stack[u]) /\ \E g : Turn(u, g)
<1> USE DEF Shape
<1>0. Len(stack[u]) \in Nat
  BY FrameOfStack
<1>1. ASSUME NEW t \in Threads, NEW g \in FrameType, Calls(t, g)
      PROVE  \/ k \in 1 .. Len(stack[u]) /\ Alike(stack'[u][k], stack[u][k])
             \/ u = t /\ Alike(stack'[u][k], g)
  BY <1>1, FramesAfterCall
<1>2. ASSUME NEW t \in Threads, NEW g \in FrameType, Advances(t, g)
      PROVE  \/ k \in 1 .. Len(stack[u]) /\ Alike(stack'[u][k], stack[u][k])
             \/ u = t /\ k = Len(stack[u]) /\ k \in 1 .. Len(stack[u]) /\ Turn(u, g)
  <2>1. \A v \in Threads :
          /\ Len(stack[v]) \in Nat /\ Len(stack[t]) >= 1
          /\ Len(stack'[v]) = Len(stack[v])
          /\ \A j \in 1 .. Len(stack'[v]) :
               \/ /\ Alike(stack'[v][j], stack[v][j])
                  /\ v = t => j \in 1 .. Len(stack[t]) - 1
               \/ v = t /\ j = Len(stack[t]) /\ stack'[t][j] = g
    BY <1>2, FramesAfterAdvance
  <2>2. Turn(t, g)
    <3>1. stack'[t][Len(stack[t])] = g
      BY <1>2 DEF Advances, TopMoved
    <3>2. \A v \in Threads : \A j \in 1 .. Len(stack[v]) :
            (v = t /\ j = Len(stack[t])) \/ Alike(stack'[v][j], stack[v][j])
      BY <2>1
    <3> QED BY <1>2, <3>1, <3>2 DEF Turn
  <2>3. k \in 1 .. Len(stack[u])
    BY <2>1
  <2> QED BY <2>1, <2>2, <2>3
<1>3. ASSUME NEW t \in Threads, Ends(t)
      PROVE  k \in 1 .. Len(stack[u]) /\ Alike(stack'[u][k], stack[u][k])
  BY <1>3, FramesAfterEnd
<1>4. ASSUME Stays
      PROVE  k \in 1 .. Len(stack[u]) /\ Alike(stack'[u][k], stack[u][k])
  BY <1>4, FramesThatStay
<1> QED BY <1>1, <1>2, <1>3, <1>4 DEF Moves

\* What a turn does to the frame on top.
LEMMA TurnTaken ==
  ASSUME Shape, NEW t \in Threads, NEW g, Turn(t, g)
  PROVE  LET f == stack[t][Len(stack[t])] IN
         /\ stack[t] # <<>> /\ Len(stack[t]) \in 1 .. Len(stack[t])
         /\ stack'[t][Len(stack[t])] = g /\ g \in FrameType
         /\ g.plugin = f.plugin /\ g.how = f.how
         /\ \/ f.pc = "probe" /\ g.pc = "probing" /\ g.holds /\ Free(t, f.plugin)
            \/ /\ f.pc = "probing" /\ ~ g.holds
               /\ g.pc = IF f.plugin \in Legacy THEN "lock" ELSE "run"
            \/ /\ f.pc = "lock" /\ g.pc = "run" /\ g.holds /\ Free(t, f.plugin)
               /\ f.plugin \in Legacy \/ Quiesced(t, f.plugin)
<1>1. stack[t] # <<>>
  BY DEF Turn, Advances
<1>2. /\ Len(stack[t]) \in 1 .. Len(stack[t])
      /\ Top(t) \in FrameType /\ Top(t) = stack[t][Len(stack[t])]
  BY <1>1, TopFrame DEF Shape
<1>3. g.plugin = Top(t).plugin /\ g.how = Top(t).how
  BY <1>2 DEF Turn, Advances, Alike, FrameType
<1>4. \/ /\ Top(t).pc = "probe" /\ g.pc = "probing" /\ g.holds
         /\ Free(t, Top(t).plugin)
      \/ /\ Top(t).pc = "probing" /\ ~ g.holds
         /\ g.pc = IF Top(t).plugin \in Legacy THEN "lock" ELSE "run"
      \/ /\ Top(t).pc = "lock" /\ g.pc = "run" /\ g.holds
         /\ Free(t, Top(t).plugin)
         /\ Top(t).plugin \in Legacy \/ Quiesced(t, Top(t).plugin)
  BY DEF Turn, Advances
<1> QED BY <1>1, <1>2, <1>3, <1>4 DEF Turn

\* No two frames hold the mutex of one instance.
Mutex ==
  \A t, u \in Threads :
    \A i \in 1 .. Len(stack[t]), j \in 1 .. Len(stack[u]) :
      /\ stack[t][i].holds /\ stack[u][j].holds
      /\ Instance(t, stack[t][i].plugin) = Instance(u, stack[u][j].plugin)
      => t = u /\ i = j

\* A frame that holds a mutex held it before, or takes it now and it was free.
LEMMA HeldHistory ==
  ASSUME Shape, Moves, NEW u \in Threads, NEW k \in 1 .. Len(stack'[u]),
         stack'[u][k].holds
  PROVE  /\ k \in 1 .. Len(stack[u]) /\ stack[u] # <<>>
         /\ stack'[u][k].plugin = stack[u][k].plugin
         /\ \/ stack[u][k].holds
            \/ /\ k = Len(stack[u]) /\ Free(u, stack[u][k].plugin)
               /\ \E g : Turn(u, g)
<1>0. stack[u] = <<>> => Len(stack[u]) = 0
  OBVIOUS
<1>1. CASE k \in 1 .. Len(stack[u]) /\ Alike(stack'[u][k], stack[u][k])
  BY <1>0, <1>1 DEF Alike
<1>2. ASSUME NEW g \in FrameType, Calls(u, g), Alike(stack'[u][k], g)
      PROVE  FALSE
  BY <1>2 DEF Calls, Alike
<1>3. ASSUME k = Len(stack[u]), k \in 1 .. Len(stack[u]), NEW g, Turn(u, g)
      PROVE  /\ stack[u] # <<>> /\ stack'[u][k].plugin = stack[u][k].plugin
             /\ Free(u, stack[u][k].plugin)
  BY <1>3, TurnTaken
<1> QED BY <1>1, <1>2, <1>3, FrameHistory

LEMMA MutexStep ==
  ASSUME Shape, Moves, Mutex
  PROVE  Mutex'
<1> SUFFICES ASSUME NEW t \in Threads, NEW u \in Threads,
                    NEW i \in 1 .. Len(stack'[t]), NEW j \in 1 .. Len(stack'[u]),
                    stack'[t][i].holds, stack'[u][j].holds,
                    Instance(t, stack[t][i].plugin)' = Instance(u, stack[u][j].plugin)'
             PROVE  t = u /\ i = j
  BY DEF Mutex
<1>1. /\ i \in 1 .. Len(stack[t]) /\ stack[t] # <<>>
      /\ stack'[t][i].plugin = stack[t][i].plugin
      /\ \/ stack[t][i].holds
         \/ /\ i = Len(stack[t]) /\ Free(t, stack[t][i].plugin)
            /\ \E g : Turn(t, g)
  BY HeldHistory
<1>2. /\ j \in 1 .. Len(stack[u]) /\ stack[u] # <<>>
      /\ stack'[u][j].plugin = stack[u][j].plugin
      /\ \/ stack[u][j].holds
         \/ /\ j = Len(stack[u]) /\ Free(u, stack[u][j].plugin)
            /\ \E g : Turn(u, g)
  BY HeldHistory
<1>3. Instance(t, stack[t][i].plugin) = Instance(u, stack[u][j].plugin)
  <2>1. PICK p, q : p = stack'[t][i].plugin /\ q = stack'[u][j].plugin
    OBVIOUS
  <2>2. Instance(t, p)' = Instance(u, q)'
    BY <2>1 DEF Instance
  <2> QED BY <1>1, <1>2, <2>1, <2>2, InstancesStay
<1>4. CASE stack[t][i].holds /\ stack[u][j].holds
  BY <1>1, <1>2, <1>3, <1>4 DEF Mutex
<1>5. ASSUME i = Len(stack[t]), Free(t, stack[t][i].plugin), NEW g, Turn(t, g),
             ~ (t = u /\ i = j)
      PROVE  FALSE
  <2>1. stack[u][j].holds
    BY <1>2, <1>5 DEF Turn, Alike
  <2> QED BY <1>2, <1>3, <1>5, <2>1 DEF Free, Frames
<1>6. ASSUME j = Len(stack[u]), Free(u, stack[u][j].plugin), NEW g, Turn(u, g),
             ~ (t = u /\ i = j)
      PROVE  FALSE
  <2>1. stack[t][i].holds
    BY <1>1, <1>6 DEF Turn, Alike
  <2> QED BY <1>1, <1>3, <1>6, <2>1 DEF Free, Frames
<1> QED BY <1>1, <1>2, <1>4, <1>5, <1>6
-----------------------------------------------------------------------------

StopRuns(t, i) == /\ stack[t][i].how = "stop" /\ stack[t][i].pc = "run"
                  /\ stack[t][i].plugin \notin Legacy

CallRuns(u, k) == stack[u][k].pc = "run" /\ stack[u][k].how # "stop"

\* A stop hook that has the state of a generated plugin has it alone, and the
\* plugin has no listener.
Exclusive ==
  \A t \in Threads : \A i \in 1 .. Len(stack[t]) : StopRuns(t, i) =>
    /\ stack[t][i].plugin \notin Listeners
    /\ \A u \in Threads : \A k \in 1 .. Len(stack[u]) : CallRuns(u, k) =>
         Instance(u, stack[u][k].plugin) # Instance(t, stack[t][i].plugin)

\* A stop hook that runs ran before, or has just got its plugin's state.
LEMMA StopHistory ==
  ASSUME Shape, Layout, Moves, NEW t \in Threads, NEW i \in 1 .. Len(stack'[t]),
         StopRuns(t, i)'
  PROVE  /\ i \in 1 .. Len(stack[t]) /\ stack[t] # <<>>
         /\ stack'[t][i].plugin = stack[t][i].plugin
         /\ \/ StopRuns(t, i)
            \/ /\ i = 1 /\ Len(stack[t]) = 1 /\ stack[t][i].how = "stop"
               /\ Quiesced(t, stack[t][i].plugin) /\ \E g : Turn(t, g)
<1>0. stack[t] = <<>> => Len(stack[t]) = 0
  OBVIOUS
<1>1. CASE i \in 1 .. Len(stack[t]) /\ Alike(stack'[t][i], stack[t][i])
  BY <1>0, <1>1 DEF StopRuns, Alike
<1>2. ASSUME NEW g \in FrameType, Calls(t, g), Alike(stack'[t][i], g)
      PROVE  FALSE
  <2>1. g.how = "stop" /\ g.pc = "run"
    BY <1>2 DEF Alike, StopRuns
  <2> QED BY <1>2, <2>1 DEF Calls, First, Nested
<1>3. ASSUME i = Len(stack[t]), i \in 1 .. Len(stack[t]), NEW g, Turn(t, g)
      PROVE  /\ stack[t] # <<>> /\ stack'[t][i].plugin = stack[t][i].plugin
             /\ i = 1 /\ stack[t][i].how = "stop"
             /\ Quiesced(t, stack[t][i].plugin)
  <2>1. /\ stack[t] # <<>> /\ stack'[t][i] = g
        /\ g.plugin = stack[t][i].plugin /\ g.how = stack[t][i].how
        /\ \/ stack[t][i].pc = "probe" /\ g.pc = "probing"
           \/ stack[t][i].pc = "probing"
           \/ /\ stack[t][i].pc = "lock"
              /\ stack[t][i].plugin \in Legacy \/ Quiesced(t, stack[t][i].plugin)
    BY <1>3, TurnTaken
  <2>2. Placed(t, i)
    BY <1>3 DEF Layout
  <2> QED BY <2>1, <2>2 DEF Placed, StopRuns
<1> QED BY <1>1, <1>2, <1>3, FrameHistory

\* A call that runs ran before, is a listener's, or had the mutex or finds it
\* free.
LEMMA CallHistory ==
  ASSUME Shape, Layout, Moves, NEW u \in Threads, NEW k \in 1 .. Len(stack'[u]),
         CallRuns(u, k)'
  PROVE  \/ stack'[u][k].plugin \in Listeners /\ stack'[u][k].how = "listener"
         \/ /\ k \in 1 .. Len(stack[u]) /\ stack[u] # <<>>
            /\ stack'[u][k].plugin = stack[u][k].plugin
            /\ stack[u][k].how # "stop"
            /\ \/ stack[u][k].pc = "run"
               \/ stack[u][k].holds
               \/ Free(u, stack[u][k].plugin)
<1>0. stack[u] = <<>> => Len(stack[u]) = 0
  OBVIOUS
<1>1. CASE k \in 1 .. Len(stack[u]) /\ Alike(stack'[u][k], stack[u][k])
  BY <1>0, <1>1 DEF CallRuns, Alike
<1>2. ASSUME NEW g \in FrameType, Calls(u, g), Alike(stack'[u][k], g)
      PROVE  stack'[u][k].plugin \in Listeners /\ stack'[u][k].how = "listener"
  <2>1. g.how # "stop" /\ g.pc = "run"
    BY <1>2 DEF Alike, CallRuns
  <2> QED BY <1>2, <2>1 DEF Calls, First, Nested, Alike
<1>3. ASSUME k = Len(stack[u]), k \in 1 .. Len(stack[u]), NEW g, Turn(u, g)
      PROVE  /\ stack[u] # <<>> /\ stack'[u][k].plugin = stack[u][k].plugin
             /\ stack[u][k].how # "stop"
             /\ stack[u][k].holds \/ Free(u, stack[u][k].plugin)
  <2>1. /\ stack[u] # <<>> /\ stack'[u][k] = g
        /\ g.plugin = stack[u][k].plugin /\ g.how = stack[u][k].how
        /\ \/ Free(u, stack[u][k].plugin)
           \/ stack[u][k].pc = "probing"
    BY <1>3, TurnTaken
  <2>2. Placed(u, k)
    BY <1>3 DEF Layout
  <2> QED BY <2>1, <2>2 DEF Placed, CallRuns
<1> QED BY <1>1, <1>2, <1>3, FrameHistory

LEMMA ExclusiveStep ==
  ASSUME Shape, Layout, Moves, Mutex, Exclusive
  PROVE  Exclusive'
<1>1. ASSUME NEW t \in Threads, NEW i \in 1 .. Len(stack'[t]), StopRuns(t, i)'
      PROVE  stack'[t][i].plugin \notin Listeners
  BY <1>1, StopHistory DEF Exclusive, Quiesced
<1>2. ASSUME NEW t \in Threads, NEW i \in 1 .. Len(stack'[t]), StopRuns(t, i)',
             NEW u \in Threads, NEW k \in 1 .. Len(stack'[u]), CallRuns(u, k)',
             Instance(u, stack[u][k].plugin)' = Instance(t, stack[t][i].plugin)'
      PROVE  FALSE
  <2>1. stack'[u][k].plugin = stack'[t][i].plugin
    BY <1>2 DEF Instance
  <2>2. stack'[u][k].plugin \notin Listeners
    BY <1>1, <1>2, <2>1
  <2>3. /\ i \in 1 .. Len(stack[t]) /\ stack[t] # <<>>
        /\ stack'[t][i].plugin = stack[t][i].plugin
        /\ \/ StopRuns(t, i)
           \/ /\ i = 1 /\ Len(stack[t]) = 1 /\ stack[t][i].how = "stop"
              /\ Quiesced(t, stack[t][i].plugin) /\ \E g : Turn(t, g)
    BY <1>2, StopHistory
  <2>4. /\ k \in 1 .. Len(stack[u]) /\ stack[u] # <<>>
        /\ stack'[u][k].plugin = stack[u][k].plugin
        /\ stack[u][k].how # "stop"
        /\ \/ stack[u][k].pc = "run"
           \/ stack[u][k].holds
           \/ Free(u, stack[u][k].plugin)
    BY <1>2, <2>2, CallHistory
  <2>5. Instance(u, stack[u][k].plugin) = Instance(t, stack[t][i].plugin)
    <3>1. PICK p, q : p = stack'[u][k].plugin /\ q = stack'[t][i].plugin
      OBVIOUS
    <3>2. Instance(u, p)' = Instance(t, q)'
      BY <1>2, <3>1 DEF Instance
    <3> QED BY <2>3, <2>4, <3>1, <3>2, InstancesStay
  <2>6. CASE StopRuns(t, i)
    <3>1. stack[t][i].holds /\ stack[t][i].how = "stop"
      BY <2>3, <2>6 DEF Layout, Placed, StopRuns
    <3>2. CASE stack[u][k].pc = "run"
      BY <2>3, <2>4, <2>5, <2>6, <3>2 DEF Exclusive, CallRuns
    <3>3. CASE stack[u][k].holds
      BY <2>3, <2>4, <2>5, <3>1, <3>3 DEF Mutex
    <3>4. CASE Free(u, stack[u][k].plugin)
      BY <2>3, <2>5, <3>1, <3>4 DEF Free, Frames
    <3> QED BY <2>4, <3>2, <3>3, <3>4
  <2>7. ASSUME i = 1, Len(stack[t]) = 1, stack[t][i].how = "stop",
               Quiesced(t, stack[t][i].plugin), NEW g, Turn(t, g)
        PROVE  FALSE
    <3>1. ~ (u = t /\ k = Len(stack[t]))
      BY <2>4, <2>7
    <3>2. stack[u][k].pc = "run"
      BY <1>2, <2>4, <2>7, <3>1 DEF Turn, Alike, CallRuns
    <3> QED BY <2>4, <2>5, <2>7, <3>2 DEF Quiesced, Frames
  <2> QED BY <2>3, <2>6, <2>7
<1> QED BY <1>1, <1>2 DEF Exclusive

LEMMA ExclusiveStops ==
  ASSUME Exclusive
  PROVE  ExclusiveStop
BY DEF Exclusive, ExclusiveStop, StopRuns, CallRuns, Frames
-----------------------------------------------------------------------------
(* Coordinators.                                                           *)

CoordShape == coords \in [Threads -> Seq(Plugins)]

\* The n-th coordinator is the plugin that made the n-th of the calls through
\* an import, which is the frame at pos[n].
Tracks(t, pos) ==
  /\ pos \in [1 .. Len(coords[t]) -> 2 .. Len(stack[t])]
  /\ \A m, n \in 1 .. Len(coords[t]) : m < n => pos[m] < pos[n]
  /\ \A k \in 1 .. Len(stack[t]) :
       stack[t][k].how = "import" <=> \E n \in 1 .. Len(coords[t]) : pos[n] = k
  /\ \A n \in 1 .. Len(coords[t]) : coords[t][n] = stack[t][pos[n] - 1].plugin

Coordinated == CoordShape /\ \A t \in Threads : \E pos : Tracks(t, pos)

\* The same calls through imports keep their coordinators.
LEMMA TracksStill ==
  ASSUME Shape, NEW u \in Threads, NEW pos, Tracks(u, pos), CoordShape,
         coords'[u] = coords[u], Len(stack'[u]) \in Nat,
         \A k \in 1 .. Len(stack'[u]) :
           \/ k \in 1 .. Len(stack[u]) /\ Same(stack'[u][k], stack[u][k])
           \/ k > Len(stack[u]) /\ stack'[u][k].how # "import",
         \A n \in 1 .. Len(coords[u]) : pos[n] <= Len(stack'[u])
  PROVE  Tracks(u, pos)'
<1>0. Len(stack[u]) \in Nat /\ Len(coords[u]) \in Nat
  BY FrameOfStack DEF Shape, CoordShape
<1>1. \A n \in 1 .. Len(coords[u]) :
        /\ pos[n] \in 2 .. Len(stack'[u])
        /\ pos[n] \in 1 .. Len(stack[u]) /\ pos[n] - 1 \in 1 .. Len(stack[u])
        /\ pos[n] - 1 \in 1 .. Len(stack'[u]) /\ pos[n] - 1 < Len(stack[u])
  <2> TAKE n \in 1 .. Len(coords[u])
  <2>1. pos[n] \in 2 .. Len(stack[u]) /\ pos[n] <= Len(stack'[u])
    BY DEF Tracks
  <2> QED BY <1>0, <2>1
<1>2. pos \in [1 .. Len(coords[u]) -> 2 .. Len(stack'[u])]
  BY <1>1 DEF Tracks
<1>3. \A n \in 1 .. Len(coords[u]) : coords[u][n] = stack'[u][pos[n] - 1].plugin
  <2> TAKE n \in 1 .. Len(coords[u])
  <2>1. Same(stack'[u][pos[n] - 1], stack[u][pos[n] - 1])
    BY <1>0, <1>1
  <2> QED BY <2>1 DEF Tracks, Same
<1>4. \A k \in 1 .. Len(stack'[u]) :
        stack'[u][k].how = "import" <=> \E n \in 1 .. Len(coords[u]) : pos[n] = k
  <2> TAKE k \in 1 .. Len(stack'[u])
  <2>1. CASE k \in 1 .. Len(stack[u]) /\ Same(stack'[u][k], stack[u][k])
    BY <2>1 DEF Tracks, Same
  <2>2. CASE k > Len(stack[u]) /\ stack'[u][k].how # "import"
    BY <1>0, <1>1, <2>2
  <2> QED BY <2>1, <2>2
<1>5. \A m, n \in 1 .. Len(coords[u]) : m < n => pos[m] < pos[n]
  BY DEF Tracks
<1> QED BY <1>2, <1>3, <1>4, <1>5 DEF Tracks

\* A call through an import brings its coordinator.
LEMMA TracksCall ==
  ASSUME Shape, NEW t \in Threads, NEW pos, Tracks(t, pos), CoordShape,
         NEW g \in FrameType, Calls(t, g), g.how = "import", stack[t] # <<>>,
         coords'[t] = Append(coords[t], Top(t).plugin), Len(stack'[t]) \in Nat
  PROVE  \E new : Tracks(t, new)'
<1> DEFINE N == Len(coords[t])
           L == Len(stack[t])
<1> PICK new : new = [n \in 1 .. N + 1 |-> IF n = N + 1 THEN L + 1 ELSE pos[n]]
  OBVIOUS
<1>0. /\ L \in Nat /\ L >= 1 /\ Top(t) \in FrameType /\ Top(t) = stack[t][L]
      /\ coords[t] \in Seq(Plugins) /\ N \in Nat /\ L \in 1 .. L
  BY TopFrame DEF Shape, CoordShape
<1>1. /\ Len(coords'[t]) = N + 1 /\ coords'[t][N + 1] = Top(t).plugin
      /\ \A n \in 1 .. N : coords'[t][n] = coords[t][n]
  BY <1>0 DEF FrameType
<1>2. /\ Len(stack'[t]) = L + 1 /\ stack'[t][L + 1].how = "import"
      /\ \A k \in 1 .. L : Same(stack'[t][k], stack[t][k])
  BY DEF Calls, Pushed, Alike, Same
<1>3. \A n \in 1 .. N : /\ pos[n] \in 2 .. L /\ new[n] = pos[n] /\ n # N + 1
                        /\ n \in 1 .. N + 1 /\ pos[n] - 1 \in 1 .. L
  <2> TAKE n \in 1 .. N
  <2>1. pos[n] \in 2 .. L
    BY DEF Tracks
  <2>2. n # N + 1 /\ n \in 1 .. N + 1 /\ pos[n] - 1 \in 1 .. L
    BY <1>0, <2>1
  <2> QED BY <2>1, <2>2
<1>4. new[N + 1] = L + 1 /\ N + 1 \in 1 .. N + 1
  BY <1>0
<1>5. \A n \in 1 .. N + 1 : n = N + 1 \/ n \in 1 .. N
  BY <1>0
<1>6. new \in [1 .. N + 1 -> 2 .. L + 1]
  <2>1. \A n \in 1 .. N : pos[n] \in 2 .. L + 1
    <3> TAKE n \in 1 .. N
    <3>1. pos[n] \in 2 .. L
      BY <1>3
    <3> QED BY <1>0, <3>1
  <2>2. L + 1 \in 2 .. L + 1
    BY <1>0
  <2> QED BY <1>5, <2>1, <2>2
<1> HIDE DEF N, L
<1>7. \A m, n \in 1 .. N + 1 : m < n => new[m] < new[n]
  <2> SUFFICES ASSUME NEW m \in 1 .. N + 1, NEW n \in 1 .. N + 1, m < n
               PROVE  new[m] < new[n]
    OBVIOUS
  <2>1. m \in 1 .. N
    BY <1>0
  <2>2. CASE n = N + 1
    <3>1. new[m] \in 2 .. L /\ new[n] = L + 1
      BY <1>3, <1>4, <2>1, <2>2
    <3> QED BY <1>0, <3>1
  <2>3. CASE n \in 1 .. N
    BY <1>3, <2>1, <2>3 DEF Tracks, N
  <2> QED BY <1>5, <2>2, <2>3
<1>8. \A k \in 1 .. L + 1 :
        stack'[t][k].how = "import" <=> \E n \in 1 .. N + 1 : new[n] = k
  <2> TAKE k \in 1 .. L + 1
  <2>1. CASE k = L + 1
    BY <1>2, <1>4, <2>1
  <2>2. CASE k \in 1 .. L
    <3>1. stack'[t][k].how = "import" <=> \E n \in 1 .. N : pos[n] = k
      BY <1>2, <2>2 DEF Tracks, Same, N, L
    <3>2. new[N + 1] # k
      BY <1>0, <1>4, <2>2
    <3> QED BY <1>3, <1>5, <3>1, <3>2
  <2> QED BY <1>0, <2>1, <2>2
<1>9. \A n \in 1 .. N + 1 : coords'[t][n] = stack'[t][new[n] - 1].plugin
  <2> TAKE n \in 1 .. N + 1
  <2>1. CASE n = N + 1
    <3>1. new[n] - 1 = L
      BY <1>0, <1>4, <2>1
    <3>2. stack'[t][L].plugin = stack[t][L].plugin
      BY <1>0, <1>2 DEF Same
    <3> QED BY <1>0, <1>1, <2>1, <3>1, <3>2
  <2>2. CASE n \in 1 .. N
    <3>1. coords[t][n] = stack[t][pos[n] - 1].plugin
      BY <2>2 DEF Tracks, N
    <3> QED BY <1>1, <1>2, <1>3, <2>2, <3>1 DEF Same
  <2> QED BY <1>5, <2>1, <2>2
<1>10. Tracks(t, new)'
  BY <1>1, <1>2, <1>6, <1>7, <1>8, <1>9 DEF Tracks
<1> QED BY <1>10
-----------------------------------------------------------------------------

\* The coordinator of the call that ends goes with it.
LEMMA TracksEnd ==
  ASSUME Shape, NEW t \in Threads, NEW pos, Tracks(t, pos), CoordShape,
         stack[t] # <<>>, Top(t).how = "import",
         Len(stack'[t]) = Len(stack[t]) - 1,
         \A k \in 1 .. Len(stack[t]) - 1 : Same(stack'[t][k], stack[t][k])
  PROVE  /\ coords[t] # <<>>
         /\ coords'[t] = Front(coords[t]) => \E new : Tracks(t, new)'
<1> DEFINE N == Len(coords[t])
           L == Len(stack[t])
<1>0. /\ L \in Nat /\ L >= 1 /\ Top(t) = stack[t][L] /\ L \in 1 .. L
      /\ coords[t] \in Seq(Plugins) /\ N \in Nat
  BY TopFrame DEF Shape, CoordShape
<1>1. PICK last \in 1 .. N : pos[last] = L
  BY <1>0 DEF Tracks
<1>2. \A n \in 1 .. N : pos[n] \in 2 .. L
  BY DEF Tracks
<1>3. \A m, n \in 1 .. N : m < n => pos[m] < pos[n]
  BY DEF Tracks
<1>4. \A k \in 1 .. L : stack[t][k].how = "import" <=> \E n \in 1 .. N : pos[n] = k
  BY DEF Tracks
<1>5. \A n \in 1 .. N : coords[t][n] = stack[t][pos[n] - 1].plugin
  BY DEF Tracks
<1>6. N >= 1 /\ coords[t] # <<>>
  BY <1>0, <1>1
<1> HIDE DEF N, L
<1>7. last = N
  <2>1. N \in 1 .. N /\ pos[N] \in 2 .. L
    BY <1>0, <1>2, <1>6
  <2>2. ~ (last < N)
    BY <1>0, <1>1, <1>3, <2>1
  <2> QED BY <1>0, <1>1, <2>2
<1>8. \A n \in 1 .. N - 1 : /\ n \in 1 .. N /\ pos[n] \in 2 .. L - 1
                            /\ pos[n] - 1 \in 1 .. L - 1
  <2> TAKE n \in 1 .. N - 1
  <2>1. n \in 1 .. N /\ N \in 1 .. N /\ n < N
    BY <1>0, <1>6
  <2>2. pos[n] < L /\ pos[n] \in 2 .. L
    BY <1>1, <1>2, <1>3, <1>7, <2>1
  <2> QED BY <1>0, <2>1, <2>2
<1>9. ASSUME coords'[t] = Front(coords[t]) PROVE \E new : Tracks(t, new)'
  <2>1. /\ Len(coords'[t]) = N - 1
        /\ \A n \in 1 .. N - 1 : coords'[t][n] = coords[t][n]
    BY <1>0, <1>6, <1>9, FrontShape DEF N
  <2>2. PICK new : new = [n \in 1 .. N - 1 |-> pos[n]]
    OBVIOUS
  <2>3. new \in [1 .. N - 1 -> 2 .. L - 1] /\ \A n \in 1 .. N - 1 : new[n] = pos[n]
    BY <1>8, <2>2
  <2>4. \A m, n \in 1 .. N - 1 : m < n => new[m] < new[n]
    BY <1>3, <1>8, <2>3
  <2>5. \A k \in 1 .. L - 1 :
          stack'[t][k].how = "import" <=> \E n \in 1 .. N - 1 : new[n] = k
    <3> TAKE k \in 1 .. L - 1
    <3>1. k \in 1 .. L /\ k # L
      BY <1>0
    <3>2. stack'[t][k].how = stack[t][k].how
      BY DEF Same, L
    <3>3. \A n \in 1 .. N : n = N \/ n \in 1 .. N - 1
      BY <1>0
    <3>4. pos[N] # k
      BY <1>1, <1>7, <3>1
    <3> QED BY <1>4, <1>8, <2>3, <3>1, <3>2, <3>3, <3>4
  <2>6. \A n \in 1 .. N - 1 : coords'[t][n] = stack'[t][new[n] - 1].plugin
    <3> TAKE n \in 1 .. N - 1
    <3>1. Same(stack'[t][pos[n] - 1], stack[t][pos[n] - 1])
      BY <1>8 DEF L
    <3> QED BY <1>5, <1>8, <2>1, <2>3, <3>1 DEF Same
  <2>7. Len(stack'[t]) = L - 1
    BY DEF L
  <2>8. Tracks(t, new)'
    BY <2>1, <2>3, <2>4, <2>5, <2>6, <2>7 DEF Tracks
  <2> QED BY <2>8
<1> QED BY <1>6, <1>9

LEMMA CoordinatedStep ==
  ASSUME Shape, Shape', Layout, Layout', Moves, Coordinated
  PROVE  Coordinated'
<1>0. \A u \in Threads : Len(stack'[u]) \in Nat /\ Len(stack[u]) \in Nat
  BY DEF Shape, StackShape
<1> USE DEF Coordinated
<1>1. ASSUME NEW u \in Threads, coords'[u] = coords[u],
             Len(stack'[u]) >= Len(stack[u]),
             \A k \in 1 .. Len(stack'[u]) :
               k > Len(stack[u]) => stack'[u][k].how # "import"
      PROVE  \E pos : Tracks(u, pos)'
  <2>1. PICK pos : Tracks(u, pos)
    OBVIOUS
  <2>2. \A k \in 1 .. Len(stack'[u]) :
           \/ k \in 1 .. Len(stack[u]) /\ Same(stack'[u][k], stack[u][k])
           \/ k > Len(stack[u]) /\ stack'[u][k].how # "import"
    <3> TAKE k \in 1 .. Len(stack'[u])
    <3>1. CASE /\ k \in 1 .. Len(stack[u])
               /\ \A j \in 1 .. k : Same(stack'[u][j], stack[u][j])
      <4>1. k \in 1 .. k
        BY <1>0
      <4> QED BY <3>1, <4>1
    <3>2. CASE k = Len(stack[u]) + 1
      BY <1>0, <1>1, <3>2
    <3> QED BY <3>1, <3>2, StackHistory
  <2>3. \A n \in 1 .. Len(coords[u]) : pos[n] <= Len(stack'[u])
    <3> TAKE n \in 1 .. Len(coords[u])
    <3>1. pos[n] \in 2 .. Len(stack[u])
      BY <2>1 DEF Tracks
    <3> QED BY <1>0, <1>1, <3>1
  <2> QED BY <1>0, <1>1, <2>1, <2>2, <2>3, TracksStill
<1>2. ASSUME NEW t \in Threads, NEW g \in FrameType, Calls(t, g)
      PROVE  Coordinated'
  <2>1. ASSUME NEW u \in Threads, u # t
        PROVE  /\ \/ coords' = coords
                  \/ coords' = [coords EXCEPT ![t] = Append(@, Top(t).plugin)]
               /\ Len(stack'[u]) = Len(stack[u])
    BY <1>2, <2>1 DEF Calls, First, Nested, Pushed, Untouched
  <2>2. \A u \in Threads : u # t => \E pos : Tracks(u, pos)'
    BY <1>0, <1>1, <2>1 DEF CoordShape
  <2>3. Len(stack'[t]) = Len(stack[t]) + 1 /\ stack'[t][Len(stack[t]) + 1].how = g.how
    BY <1>2 DEF Calls, Pushed, Alike
  <2>4. CASE g.how # "import"
    <3>1. coords' = coords
      BY <1>2, <2>4 DEF Calls, First, Nested
    <3>2. \A k \in 1 .. Len(stack'[t]) :
            k > Len(stack[t]) => stack'[t][k].how # "import"
      BY <1>0, <2>3, <2>4
    <3>3. \E pos : Tracks(t, pos)'
      BY <1>0, <1>1, <2>3, <3>1, <3>2
    <3> QED BY <2>2, <3>1, <3>3 DEF CoordShape
  <2>5. CASE g.how = "import"
    <3>1. /\ stack[t] # <<>>
          /\ coords' = [coords EXCEPT ![t] = Append(@, Top(t).plugin)]
      BY <1>2, <2>5 DEF Calls, First, Nested, Running
    <3>2. Top(t).plugin \in Plugins
      BY <3>1, TopFrame DEF Shape, FrameType
    <3>3. coords'[t] = Append(coords[t], Top(t).plugin) /\ CoordShape'
      BY <3>1, <3>2 DEF CoordShape
    <3>4. PICK pos : Tracks(t, pos)
      OBVIOUS
    <3>5. \E new : Tracks(t, new)'
      BY <1>0, <1>2, <2>5, <3>1, <3>3, <3>4, TracksCall
    <3> QED BY <2>2, <3>3, <3>5
  <2> QED BY <2>4, <2>5
<1>3. ASSUME NEW t \in Threads, Ends(t)
      PROVE  Coordinated'
  <2>1. /\ Len(stack[t]) >= 1 /\ stack[t] # <<>>
        /\ Len(stack'[t]) = Len(stack[t]) - 1
        /\ \A k \in 1 .. Len(stack[t]) - 1 : Same(stack'[t][k], stack[t][k])
        /\ \A u \in Threads \ {t} : Len(stack'[u]) = Len(stack[u])
    BY <1>3 DEF Ends, Popped, Alike, Same, Untouched
  <2>2. \A u \in Threads : u # t => coords'[u] = coords[u]
    BY <1>3 DEF Ends, CoordShape
  <2>3. \A u \in Threads : u # t => \E pos : Tracks(u, pos)'
    BY <1>0, <1>1, <2>1, <2>2
  <2>4. PICK pos : Tracks(t, pos)
    OBVIOUS
  <2>5. CASE Top(t).how = "import"
    <3>1. coords[t] # <<>>
      BY <2>1, <2>4, <2>5, TracksEnd
    <3>2. coords' = [coords EXCEPT ![t] = Front(@)]
      BY <1>3, <2>5 DEF Ends
    <3>3. coords'[t] = Front(coords[t])
      BY <3>2 DEF CoordShape
    <3>4. CoordShape'
      <4>1. Front(coords[t]) \in Seq(Plugins)
        BY <3>1, FrontShape DEF CoordShape
      <4> QED BY <3>2, <4>1 DEF CoordShape
    <3>5. \E new : Tracks(t, new)'
      BY <2>1, <2>4, <2>5, <3>3, TracksEnd
    <3> QED BY <2>3, <3>4, <3>5
  <2>6. CASE Top(t).how # "import"
    <3>1. coords' = coords
      BY <1>3, <2>6 DEF Ends, CoordShape
    <3>2. Len(stack[t]) \in 1 .. Len(stack[t]) /\ Top(t) = stack[t][Len(stack[t])]
      BY <2>1, TopFrame DEF Shape
    <3>3. \A n \in 1 .. Len(coords[t]) : pos[n] <= Len(stack'[t])
      <4> TAKE n \in 1 .. Len(coords[t])
      <4>1. pos[n] \in 2 .. Len(stack[t])
        BY <2>4 DEF Tracks
      <4>2. ~ \E m \in 1 .. Len(coords[t]) : pos[m] = Len(stack[t])
        BY <2>4, <2>6, <3>2 DEF Tracks
      <4> QED BY <1>0, <2>1, <4>1, <4>2
    <3>4. \A k \in 1 .. Len(stack'[t]) :
            k \in 1 .. Len(stack[t]) /\ Same(stack'[t][k], stack[t][k])
      BY <1>0, <2>1
    <3>5. Tracks(t, pos)'
      BY <1>0, <2>4, <3>1, <3>3, <3>4, TracksStill
    <3> QED BY <2>3, <3>1, <3>5 DEF CoordShape
  <2> QED BY <2>5, <2>6
<1>4. ASSUME coords' = coords, \A u \in Threads : Len(stack'[u]) = Len(stack[u])
      PROVE  Coordinated'
  <2>1. \A u \in Threads : \E pos : Tracks(u, pos)'
    BY <1>0, <1>1, <1>4
  <2> QED BY <1>4, <2>1 DEF CoordShape
<1>5. \A t \in Threads, g \in FrameType : Advances(t, g) =>
        coords' = coords /\ \A u \in Threads : Len(stack'[u]) = Len(stack[u])
  BY DEF Advances, TopMoved, Untouched
<1>6. Stays => coords' = coords /\ \A u \in Threads : Len(stack'[u]) = Len(stack[u])
  BY DEF Stays, Untouched
<1> QED BY <1>2, <1>3, <1>4, <1>5, <1>6 DEF Moves

\* The innermost coordinator is the plugin of the innermost call through an
\* import.
LEMMA CoordinatorFound ==
  ASSUME Shape, Coordinated
  PROVE  CoordinatorIsImporter
<1> SUFFICES ASSUME NEW t \in Threads, Running(t)
             PROVE  Coordinator(t, Top(t).plugin) = Importer(t)
  BY DEF CoordinatorIsImporter
<1>1. PICK pos : Tracks(t, pos)
  BY DEF Coordinated
<1> DEFINE N == Len(coords[t])
           L == Len(stack[t])
           calls == {k \in 2 .. L : stack[t][k].how = "import"}
           last == CHOOSE k \in calls : \A j \in calls : j <= k
<1>0. L \in Nat /\ coords[t] \in Seq(Plugins) /\ N \in Nat
  BY FrameOfStack DEF Shape, Coordinated, CoordShape
<1>2. \A n \in 1 .. N : pos[n] \in 2 .. L
  BY <1>1 DEF Tracks
<1>3. \A m, n \in 1 .. N : m < n => pos[m] < pos[n]
  BY <1>1 DEF Tracks
<1>4. calls = {pos[n] : n \in 1 .. N}
  <2>1. \A k \in 2 .. L : k \in 1 .. L
    BY <1>0
  <2> QED BY <1>1, <1>2, <2>1 DEF Tracks
<1>5. CASE coords[t] = <<>>
  <2>1. calls = {}
    BY <1>4, <1>5
  <2> QED BY <1>5, <2>1 DEF Coordinator, Importer
<1>6. CASE coords[t] # <<>>
  <2>1. N \in 1 .. N
    BY <1>0, <1>6, EmptySeq
  <2>2. pos[N] \in calls /\ \A j \in calls : j <= pos[N]
    <3> HIDE DEF N, calls
    <3>1. \A n \in 1 .. N : pos[n] <= pos[N]
      <4> TAKE n \in 1 .. N
      <4>1. n < N \/ n = N
        BY <1>0
      <4>2. pos[n] \in 2 .. L /\ pos[N] \in 2 .. L
        BY <1>2, <2>1
      <4> QED BY <1>3, <2>1, <4>1, <4>2
    <3> QED BY <1>4, <2>1, <3>1
  <2>3. last = pos[N]
    <3>1. calls \subseteq 2 .. L
      OBVIOUS
    <3> HIDE DEF calls, L
    <3>2. \A k \in calls : (\A j \in calls : j <= k) => k = pos[N]
      <4> TAKE k \in calls
      <4>1. k \in 2 .. L /\ pos[N] \in 2 .. L
        BY <2>2, <3>1
      <4> QED BY <2>2, <4>1
    <3> QED BY <2>2, <3>2
  <2>4. Importer(t) = stack[t][last - 1].plugin
    <3>1. calls # {}
      BY <2>2
    <3> QED BY <3>1 DEF Importer
  <2>5. coords[t][N] = stack[t][pos[N] - 1].plugin
    BY <1>1, <2>1 DEF Tracks
  <2>6. Coordinator(t, Top(t).plugin) = coords[t][N]
    BY <1>6 DEF Coordinator, Last
  <2> HIDE DEF last, N
  <2> QED BY <2>3, <2>4, <2>5, <2>6
<1> QED BY <1>5, <1>6
-----------------------------------------------------------------------------
(* Prepared mutations.                                                     *)

Fates == {"unused", "open", "dead", "applied"}

\* A handle that a scope still has is open, is in no other scope, and the
\* backend was given a mutation exactly if its handle is applied.
HandleInv ==
  /\ prepared = [t \in Threads |-> prepared[t]]
  /\ fate \in [Handles -> Fates]
  /\ writes = [h \in Handles |-> IF fate[h] = "applied" THEN 1 ELSE 0]
  /\ \A t \in Threads : \A h \in DOMAIN prepared[t] :
       h \in Handles /\ fate[h] = "open"
  /\ \A t, u \in Threads : t # u =>
       \A h \in DOMAIN prepared[t] : h \notin DOMAIN prepared[u]

\* The scope of thread t is taken away as a whole.
Clears(t) ==
  /\ prepared' = [prepared EXCEPT ![t] = <<>>]
  /\ fate' = Dead(DOMAIN prepared[t])
  /\ writes' = writes

LEMMA DurableStep ==
  ASSUME [Next]_vars
  PROVE  \/ UNCHANGED <<prepared, fate, writes>>
         \/ \E t \in Threads : Clears(t)
         \/ \E t \in Threads, h \in Handles : Prepare(t, h)
         \/ \E t \in Threads, hs \in Requests, ok \in BOOLEAN : Commit(t, hs, ok)
<1>1. ASSUME NEW t, Pop(t), writes' = writes
      PROVE  UNCHANGED <<prepared, fate, writes>> \/ Clears(t)
  BY <1>1 DEF Pop, Clears
<1>2. ASSUME Root \/ Retire PROVE UNCHANGED <<prepared, fate, writes>>
  BY <1>2 DEF Root, Retire, CallComponent, CallService, Listen, Stop, Replace
<1>3. ASSUME NEW t, Dispatch(t)
      PROVE  UNCHANGED <<prepared, fate, writes>> \/ Clears(t)
  BY <1>1, <1>3 DEF Dispatch, Deny, Probe, Probed, Lock, StopUnhooked
<1>4. ASSUME NEW t, Host(t)
      PROVE  UNCHANGED <<prepared, fate, writes>> \/ Clears(t)
  BY <1>1, <1>4 DEF Host, InvokeService, Continue, Import, Return
<1>5. ASSUME NEW t, LateOperation(t) PROVE Clears(t)
  BY <1>5 DEF LateOperation, Clears
<1>6. CASE UNCHANGED vars
  BY <1>6 DEF vars
<1> QED BY <1>2, <1>3, <1>4, <1>5, <1>6 DEF Next, Durable

LEMMA HandleStep ==
  ASSUME HandleInv, [Next]_vars
  PROVE  HandleInv'
<1>1. CASE UNCHANGED <<prepared, fate, writes>>
  BY <1>1 DEF HandleInv
<1>2. ASSUME NEW t \in Threads, Clears(t) PROVE HandleInv'
  <2>1. /\ prepared' = [u \in Threads |-> IF u = t THEN <<>> ELSE prepared[u]]
        /\ fate' = [h \in Handles |-> IF h \in DOMAIN prepared[t] /\ fate[h] = "open"
                                      THEN "dead" ELSE fate[h]]
        /\ writes' = writes
    BY <1>2 DEF Clears, Dead, HandleInv
  <2>2. DOMAIN prepared'[t] = {} /\ \A u \in Threads \ {t} : prepared'[u] = prepared[u]
    BY <2>1
  <2>3. /\ prepared' = [u \in Threads |-> prepared'[u]]
        /\ fate' \in [Handles -> Fates]
    BY <2>1 DEF HandleInv, Fates
  <2>4. writes' = [h \in Handles |-> IF fate'[h] = "applied" THEN 1 ELSE 0]
    BY <2>1 DEF HandleInv
  <2>5. \A u \in Threads : \A h \in DOMAIN prepared'[u] :
          h \in Handles /\ fate'[h] = "open"
    BY <2>1, <2>2 DEF HandleInv
  <2>6. \A u, v \in Threads : u # v =>
          \A h \in DOMAIN prepared'[u] : h \notin DOMAIN prepared'[v]
    BY <2>2 DEF HandleInv
  <2> QED BY <2>3, <2>4, <2>5, <2>6 DEF HandleInv
<1>3. ASSUME NEW t \in Threads, NEW h \in Handles, Prepare(t, h) PROVE HandleInv'
  <2>1. fate[h] = "unused" /\ fate' = [fate EXCEPT ![h] = "open"] /\ writes' = writes
    BY <1>3 DEF Prepare
  <2>2. PICK scope : /\ prepared' = [prepared EXCEPT ![t] = scope]
                     /\ DOMAIN scope = DOMAIN prepared[t] \cup {h}
    <3>1. PICK scope : scope =
            [k \in DOMAIN prepared[t] \cup {h} |->
               IF k = h THEN [owner |-> Top(t).plugin, auth |-> Top(t).auth,
                              coordinator |-> Coordinator(t, Top(t).plugin)]
               ELSE prepared[t][k]]
      OBVIOUS
    <3>2. prepared' = [prepared EXCEPT ![t] = scope]
      BY <1>3, <3>1 DEF Prepare
    <3>3. DOMAIN scope = DOMAIN prepared[t] \cup {h}
      BY <3>1
    <3> QED BY <3>2, <3>3, Zenon
  <2>3. prepared' = [u \in Threads |-> IF u = t THEN scope ELSE prepared[u]]
    BY <2>2 DEF HandleInv
  <2>4. /\ DOMAIN prepared'[t] = DOMAIN prepared[t] \cup {h}
        /\ \A u \in Threads \ {t} : prepared'[u] = prepared[u]
    BY <2>2, <2>3
  <2>5. \A u \in Threads : h \notin DOMAIN prepared[u]
    BY <2>1 DEF HandleInv
  <2>6. fate' \in [Handles -> Fates]
        /\ writes' = [k \in Handles |-> IF fate'[k] = "applied" THEN 1 ELSE 0]
    BY <2>1 DEF HandleInv, Fates
  <2>7. \A u \in Threads : \A k \in DOMAIN prepared'[u] :
          k \in Handles /\ fate'[k] = "open"
    BY <2>1, <2>4, <2>5 DEF HandleInv
  <2>8. \A u, v \in Threads : u # v =>
          \A k \in DOMAIN prepared'[u] : k \notin DOMAIN prepared'[v]
    BY <2>4, <2>5 DEF HandleInv
  <2>9. prepared' = [u \in Threads |-> prepared'[u]]
    BY <2>3
  <2> QED BY <2>6, <2>7, <2>8, <2>9 DEF HandleInv
<1>4. ASSUME NEW t \in Threads, NEW hs \in Requests, NEW ok \in BOOLEAN,
             Commit(t, hs, ok)
      PROVE  HandleInv'
  <2> DEFINE R == Range(hs)
             D == DOMAIN prepared[t]
  <2>1. PICK scope : /\ prepared' = [prepared EXCEPT ![t] = scope]
                     /\ DOMAIN scope = D \ R
    <3>1. PICK scope : scope = [h \in D \ Consumed(prepared[t], hs) |-> prepared[t][h]]
      OBVIOUS
    <3>2. prepared' = [prepared EXCEPT ![t] = scope]
      BY <1>4, <3>1 DEF Commit
    <3>3. D \ Consumed(prepared[t], hs) = D \ R
      BY DEF Consumed
    <3>4. DOMAIN scope = D \ R
      BY <3>1, <3>3
    <3> QED BY <3>2, <3>4, Zenon
  <2>2. prepared' = [u \in Threads |-> IF u = t THEN scope ELSE prepared[u]]
    BY <2>1 DEF HandleInv
  <2>3. /\ DOMAIN prepared'[t] = D \ R
        /\ \A u \in Threads \ {t} : prepared'[u] = prepared[u]
    BY <2>1, <2>2
  <2>4. \E won \in BOOLEAN :
          /\ won => R \subseteq D
          /\ fate' = [h \in Handles |->
                        IF h \in R \cap D /\ fate[h] = "open"
                        THEN (IF won THEN "applied" ELSE "dead") ELSE fate[h]]
          /\ writes' = [h \in Handles |-> IF won /\ h \in R THEN writes[h] + 1
                                          ELSE writes[h]]
    <3>1. CASE CommitAllowed(t, Top(t).plugin, hs) /\ ok
      <4>1. R \subseteq D
        BY <3>1 DEF CommitAllowed
      <4>2. \A h : h \in R \cap D <=> h \in R
        BY <4>1
      <4> HIDE DEF R, D
      <4>3. /\ fate' = [h \in Handles |-> IF h \in R /\ fate[h] = "open"
                                          THEN "applied" ELSE fate[h]]
            /\ writes' = [h \in Handles |-> IF h \in R THEN writes[h] + 1
                                            ELSE writes[h]]
        BY <1>4, <3>1 DEF Commit, R
      <4>4. fate' = [h \in Handles |-> IF h \in R \cap D /\ fate[h] = "open"
                                       THEN "applied" ELSE fate[h]]
        BY <4>2, <4>3
      <4> WITNESS TRUE \in BOOLEAN
      <4> QED BY <4>1, <4>3, <4>4
    <3>2. CASE ~ (CommitAllowed(t, Top(t).plugin, hs) /\ ok)
      <4>1. /\ fate' = [h \in Handles |-> IF h \in R \cap D /\ fate[h] = "open"
                                          THEN "dead" ELSE fate[h]]
            /\ writes' = [h \in Handles |-> writes[h]]
        BY <1>4, <3>2 DEF Commit, Dead
      <4> HIDE DEF R, D
      <4> WITNESS FALSE \in BOOLEAN
      <4> QED BY <4>1
    <3> QED BY <3>1, <3>2
  <2>5. PICK won \in BOOLEAN :
          /\ won => R \subseteq D
          /\ fate' = [h \in Handles |->
                        IF h \in R \cap D /\ fate[h] = "open"
                        THEN (IF won THEN "applied" ELSE "dead") ELSE fate[h]]
          /\ writes' = [h \in Handles |-> IF won /\ h \in R THEN writes[h] + 1
                                          ELSE writes[h]]
    BY <2>4
  <2> HIDE DEF R
  <2>6. \A h \in D : h \in Handles /\ fate[h] = "open"
    BY DEF HandleInv
  <2>7. \A u \in Threads \ {t} : \A h \in DOMAIN prepared[u] :
          h \in Handles /\ fate[h] = "open" /\ h \notin D
    BY DEF HandleInv
  <2>8. fate' \in [Handles -> Fates]
    BY <2>5 DEF HandleInv, Fates
  <2>9. writes' = [h \in Handles |-> IF fate'[h] = "applied" THEN 1 ELSE 0]
    BY <2>5, <2>6 DEF HandleInv
  <2>10. \A u \in Threads : \A h \in DOMAIN prepared'[u] :
           h \in Handles /\ fate'[h] = "open"
    <3>1. \A h \in Handles : h \notin R \cap D => fate'[h] = fate[h]
      BY <2>5
    <3> QED BY <2>3, <2>6, <2>7, <3>1
  <2>11. \A u, v \in Threads : u # v =>
           \A h \in DOMAIN prepared'[u] : h \notin DOMAIN prepared'[v]
    BY <2>3 DEF HandleInv
  <2>12. prepared' = [u \in Threads |-> prepared'[u]]
    BY <2>2
  <2> QED BY <2>8, <2>9, <2>10, <2>11, <2>12 DEF HandleInv
<1> QED BY <1>1, <1>2, <1>3, <1>4, DurableStep
-----------------------------------------------------------------------------
(* The authority of what is prepared.                                      *)

\* What a scope holds belongs to an invocation that is still running, and is
\* within its authority and what its owner and its coordinator may use.
Bounded(t, m) ==
  /\ stack[t] # <<>>
  /\ m.auth \subseteq stack[t][1].auth
  /\ Within(t, m.owner, m.auth) /\ Within(t, m.coordinator, m.auth)

PreparedInv ==
  \A t \in Threads : \A h \in DOMAIN prepared[t] : Bounded(t, prepared[t][h])

\* A plugin on the stack may use whatever its frame may.
LEMMA FrameWithin ==
  ASSUME Shape, Layout, FramesShrink, NEW t \in Threads,
         NEW k \in 1 .. Len(stack[t]), NEW auth, auth \subseteq stack[t][k].auth
  PROVE  Within(t, stack[t][k].plugin, auth)
<1>1. Attenuated(t, k) /\ Placed(t, k)
  BY DEF FramesShrink, Layout
<1>2. CASE stack[t][k].how = "listener"
  BY <1>1, <1>2 DEF Placed, Within
<1>3. CASE stack[t][k].how # "listener"
  BY <1>1, <1>3 DEF Attenuated, Within
<1> QED BY <1>2, <1>3

\* The outermost frame of an invocation stays what it is.
LEMMA OutermostKept ==
  ASSUME Shape, Shape', Moves, NEW t \in Threads, stack[t] # <<>>, stack'[t] # <<>>
  PROVE  Same(stack'[t][1], stack[t][1])
<1>1. Len(stack[t]) \in Nat /\ Len(stack[t]) >= 1
  BY TopFrame DEF Shape
<1>2. Len(stack'[t]) \in Nat /\ Len(stack'[t]) >= 1
  <2>1. stack'[t] \in Seq(FrameType)
    BY DEF Shape, StackShape
  <2> QED BY <2>1, EmptySeq
<1>3. 1 \in 1 .. Len(stack'[t]) /\ 1 \in 1 .. Len(stack[t]) /\ 1 \in 1 .. 1
  BY <1>1, <1>2
<1> QED BY <1>3, StackHistory

\* An invocation that ends leaves nothing in its scope.
LEMMA ScopeEnds ==
  ASSUME Shape, Shape', Moves, HandleInv,
         NEW t \in Threads, stack[t] # <<>>, stack'[t] = <<>>
  PROVE  prepared'[t] = <<>>
<1>1. Len(stack[t]) \in Nat /\ Len(stack[t]) >= 1 /\ Len(stack'[t]) = 0
  BY TopFrame DEF Shape
<1>2. ASSUME NEW u \in Threads, NEW g \in FrameType, Calls(u, g) PROVE FALSE
  BY <1>1, <1>2, FramesAfterCall DEF Shape
<1>3. ASSUME NEW u \in Threads, NEW g \in FrameType, Advances(u, g) PROVE FALSE
  BY <1>1, <1>3, FramesAfterAdvance DEF Shape
<1>4. ~ Stays
  BY <1>1, FramesThatStay
<1>5. ASSUME NEW u \in Threads, Ends(u) PROVE prepared'[t] = <<>>
  <2>0. Len(stack'[t]) = IF t = u THEN Len(stack[t]) - 1 ELSE Len(stack[t])
    BY <1>5, FramesAfterEnd DEF Shape
  <2>1. u = t /\ Len(stack[t]) = 1
    BY <1>1, <2>0
  <2>2. t \in DOMAIN prepared
    BY DEF HandleInv
  <2> QED BY <1>5, <2>1, <2>2 DEF Ends
<1> QED BY <1>2, <1>3, <1>4, <1>5 DEF Moves

\* What a scope has after a step it had before, or a call has just prepared it.
LEMMA ScopeHistory ==
  ASSUME HandleInv, [Next]_vars, NEW t \in Threads, NEW h \in DOMAIN prepared'[t]
  PROVE  \/ h \in DOMAIN prepared[t] /\ prepared'[t][h] = prepared[t][h]
         \/ /\ Prepare(t, h)
            /\ prepared'[t][h] = [owner |-> Top(t).plugin, auth |-> Top(t).auth,
                                  coordinator |-> Coordinator(t, Top(t).plugin)]
<1>0. prepared = [u \in Threads |-> prepared[u]]
  BY DEF HandleInv
<1>1. CASE UNCHANGED <<prepared, fate, writes>>
  BY <1>1
<1>2. ASSUME NEW u \in Threads, Clears(u)
      PROVE  h \in DOMAIN prepared[t] /\ prepared'[t][h] = prepared[t][h]
  <2>1. prepared'[t] = IF t = u THEN <<>> ELSE prepared[t]
    BY <1>0, <1>2 DEF Clears
  <2> QED BY <2>1
<1>3. ASSUME NEW u \in Threads, NEW k \in Handles, Prepare(u, k)
      PROVE  \/ h \in DOMAIN prepared[t] /\ prepared'[t][h] = prepared[t][h]
             \/ /\ Prepare(t, h)
                /\ prepared'[t][h] = [owner |-> Top(t).plugin, auth |-> Top(t).auth,
                                      coordinator |-> Coordinator(t, Top(t).plugin)]
  <2> DEFINE new == [owner |-> Top(u).plugin, auth |-> Top(u).auth,
                     coordinator |-> Coordinator(u, Top(u).plugin)]
             scope == [i \in DOMAIN prepared[u] \cup {k} |->
                         IF i = k THEN new ELSE prepared[u][i]]
  <2>1. prepared' = [prepared EXCEPT ![u] = scope]
    BY <1>3 DEF Prepare
  <2> HIDE DEF new
  <2>2. prepared'[t] = IF t = u THEN scope ELSE prepared[t]
    BY <1>0, <2>1
  <2>3. CASE t # u
    BY <2>2, <2>3
  <2>4. CASE t = u /\ h # k
    BY <2>2, <2>4
  <2>5. CASE t = u /\ h = k
    <3>1. prepared'[t][h] = new
      BY <2>2, <2>5
    <3> QED BY <1>3, <2>5, <3>1 DEF new
  <2> QED BY <2>3, <2>4, <2>5
<1>4. ASSUME NEW u \in Threads, NEW hs \in Requests, NEW ok \in BOOLEAN,
             Commit(u, hs, ok)
      PROVE  h \in DOMAIN prepared[t] /\ prepared'[t][h] = prepared[t][h]
  <2> DEFINE scope == [i \in DOMAIN prepared[u] \ Consumed(prepared[u], hs) |->
                         prepared[u][i]]
  <2>1. prepared' = [prepared EXCEPT ![u] = scope]
    BY <1>4 DEF Commit
  <2>2. prepared'[t] = IF t = u THEN scope ELSE prepared[t]
    BY <1>0, <2>1
  <2> QED BY <2>2
<1> QED BY <1>1, <1>2, <1>3, <1>4, DurableStep

LEMMA PreparedStep ==
  ASSUME Shape, Shape', Moves, Layout, HandleInv, Coordinated, FramesShrink,
         PreparedInv, [Next]_vars
  PROVE  PreparedInv'
<1> SUFFICES ASSUME NEW t \in Threads, NEW h \in DOMAIN prepared'[t]
             PROVE  Bounded(t, prepared[t][h])'
  BY DEF PreparedInv
<1> PICK m : m = prepared'[t][h]
  OBVIOUS
<1>1. ASSUME h \in DOMAIN prepared[t] /\ m = prepared[t][h]
      PROVE  Bounded(t, m)'
  <2>1. /\ stack[t] # <<>> /\ m.auth \subseteq stack[t][1].auth
        /\ Within(t, m.owner, m.auth) /\ Within(t, m.coordinator, m.auth)
    BY <1>1 DEF PreparedInv, Bounded
  <2>2. stack'[t] # <<>>
    <3>1. CASE stack'[t] = <<>>
      <4>1. prepared'[t] = <<>>
        BY <2>1, <3>1, ScopeEnds
      <4> QED BY <4>1
    <3> QED BY <3>1
  <2>3. Same(stack'[t][1], stack[t][1])
    BY <2>1, <2>2, OutermostKept
  <2> QED BY <2>1, <2>2, <2>3 DEF Same, Within, Bounded
<1>2. ASSUME /\ Prepare(t, h)
             /\ m = [owner |-> Top(t).plugin, auth |-> Top(t).auth,
                     coordinator |-> Coordinator(t, Top(t).plugin)]
      PROVE  Bounded(t, m)'
  <2> DEFINE N == Len(stack[t])
  <2>1. stack' = stack /\ Running(t) /\ stack[t] # <<>>
    BY <1>2 DEF Prepare, Running
  <2>2. N \in 1 .. N /\ N \in Nat /\ Top(t) = stack[t][N] /\ 1 \in 1 .. N
    BY <2>1, TopFrame DEF Shape
  <2>3. \A k \in 1 .. N : m.auth \subseteq stack[t][k].auth
    BY <1>2, <2>2 DEF FramesShrink, Attenuated
  <2>4. \E k \in 1 .. N : m.coordinator = stack[t][k].plugin
    <3>1. Coordinator(t, Top(t).plugin) = Importer(t)
      BY <2>1, CoordinatorFound DEF CoordinatorIsImporter
    <3> DEFINE calls == {k \in 2 .. N : stack[t][k].how = "import"}
               last == CHOOSE k \in calls : \A j \in calls : j <= k
    <3>2. CASE calls = {}
      BY <1>2, <2>2, <3>1, <3>2 DEF Importer
    <3>3. CASE calls # {}
      <4>1. calls \in SUBSET (1 .. N)
        BY <2>2
      <4>2. \E k \in calls : \A j \in calls : j <= k
        <5> HIDE DEF calls, N
        <5> QED BY <2>2, <3>3, <4>1, GreatestNumber
      <4>3. last \in calls
        <5> HIDE DEF calls, N
        <5> QED BY <4>2
      <4>4. last - 1 \in 1 .. N
        <5>1. last \in 2 .. N
          BY <4>3
        <5> HIDE DEF last
        <5> QED BY <2>2, <5>1
      <4>5. Importer(t) = stack[t][last - 1].plugin
        BY <3>3 DEF Importer
      <4> HIDE DEF last
      <4> QED BY <1>2, <3>1, <4>4, <4>5
    <3> QED BY <3>2, <3>3
  <2>5. PICK k \in 1 .. N : m.coordinator = stack[t][k].plugin
    BY <2>4
  <2>6. m.owner = stack[t][N].plugin
    BY <1>2, <2>2
  <2> HIDE DEF N
  <2>7. Within(t, m.owner, m.auth) /\ Within(t, m.coordinator, m.auth)
    BY <2>2, <2>3, <2>5, <2>6, FrameWithin DEF N
  <2> QED BY <2>1, <2>2, <2>3, <2>7 DEF Within, Bounded
<1>3. Bounded(t, m)'
  BY <1>1, <1>2, ScopeHistory
<1> QED BY <1>3 DEF Bounded, Within

\* Frames and scopes together.
LEMMA AuthorityShrinks ==
  ASSUME FramesShrink, PreparedInv
  PROVE  AuthorityOnlyShrinks
<1>1. ASSUME NEW t \in Threads, NEW j \in 1 .. Len(stack[t]), NEW i \in 1 .. j
      PROVE  stack[t][j].auth \subseteq stack[t][i].auth
  BY DEF FramesShrink, Attenuated
<1>2. ASSUME NEW t \in Threads, NEW f \in Frames(t), f.how # "listener"
      PROVE  f.auth \subseteq Ceiling[f.plugin]
  BY <1>2 DEF FramesShrink, Attenuated, Frames
<1> QED BY <1>1, <1>2 DEF AuthorityOnlyShrinks, PreparedInv, Bounded

\* The call of a commit that is applied has the authority of every frame
\* beneath it, and the checks of transact_prepared saw each mutation.
LEMMA CommitAuthorized ==
  ASSUME Shape, HandleInv, FramesShrink, PreparedInv, [Next]_vars,
         NEW h \in Handles, writes'[h] # writes[h]
  PROVE  \E t \in Threads :
           /\ h \in DOMAIN prepared[t]
           /\ LET m == prepared[t][h]
                  p == Top(t).plugin
              IN  /\ \A f \in Frames(t) : Write \in f.auth
                  /\ Write \in m.auth /\ Within(t, m.owner, {Write})
                  /\ m.owner = p \/ AuthorizedImport(p, m.owner)
<1>1. PICK t \in Threads, hs \in Requests, ok \in BOOLEAN : Commit(t, hs, ok)
  BY DurableStep DEF Clears, Prepare
<1>2. h \in Range(hs) /\ CommitAllowed(t, Top(t).plugin, hs)
  <2>1. writes' = [k \in Handles |->
                     IF (CommitAllowed(t, Top(t).plugin, hs) /\ ok) /\ k \in Range(hs)
                     THEN writes[k] + 1 ELSE writes[k]]
    BY <1>1 DEF Commit
  <2> QED BY <2>1
<1>3. h \in DOMAIN prepared[t]
  BY <1>2 DEF CommitAllowed
<1>4. Running(t) /\ Write \in Top(t).auth
  BY <1>1 DEF Commit
<1>5. \A f \in Frames(t) : Write \in f.auth
  <2>1. Len(stack[t]) \in 1 .. Len(stack[t]) /\ Top(t) = stack[t][Len(stack[t])]
    BY <1>4, TopFrame DEF Running, Shape
  <2>2. \A i \in 1 .. Len(stack[t]) : Top(t).auth \subseteq stack[t][i].auth
    BY <2>1 DEF FramesShrink, Attenuated
  <2> QED BY <1>4, <2>2 DEF Frames
<1> DEFINE m == prepared[t][h]
<1>6. /\ Write \in m.auth
      /\ m.owner = Top(t).plugin \/ AuthorizedImport(Top(t).plugin, m.owner)
  BY <1>2 DEF CommitAllowed
<1>7. Within(t, m.owner, {Write})
  <2>1. Within(t, m.owner, m.auth)
    BY <1>3 DEF PreparedInv, Bounded
  <2> QED BY <1>6, <2>1 DEF Within
<1> QED BY <1>3, <1>5, <1>6, <1>7
-----------------------------------------------------------------------------
(* The theorems.                                                           *)

\* There are as many coordinators as calls through an import.
LEMMA CoordinatorsCounted ==
  ASSUME Shape, Coordinated, NEW t \in Threads
  PROVE  Len(coords[t]) =
           Cardinality({k \in DOMAIN stack[t] : stack[t][k].how = "import"})
<1> DEFINE N == Len(coords[t])
           C == {k \in DOMAIN stack[t] : stack[t][k].how = "import"}
<1>1. PICK pos : Tracks(t, pos)
  BY DEF Coordinated
<1>2. N \in Nat /\ Len(stack[t]) \in Nat /\ DOMAIN stack[t] = 1 .. Len(stack[t])
  <2>1. stack[t] \in Seq(FrameType) /\ coords[t] \in Seq(Plugins)
    BY DEF Shape, StackShape, Coordinated, CoordShape
  <2> QED BY <2>1
<1>3. \A n \in 1 .. N : pos[n] \in 2 .. Len(stack[t])
  BY <1>1 DEF Tracks
<1>4. \A n \in 1 .. N : pos[n] \in C
  <2> TAKE n \in 1 .. N
  <2>1. pos[n] \in 1 .. Len(stack[t])
    BY <1>2, <1>3
  <2> QED BY <1>1, <1>2, <2>1 DEF Tracks
<1>5. \A k \in C : \E n \in 1 .. N : pos[n] = k
  BY <1>1, <1>2 DEF Tracks
<1>6. \A m, n \in 1 .. N : pos[m] = pos[n] => m = n
  <2> SUFFICES ASSUME NEW m \in 1 .. N, NEW n \in 1 .. N, m # n
               PROVE  pos[m] # pos[n]
    OBVIOUS
  <2>1. m < n \/ n < m
    BY <1>2
  <2>2. pos[m] < pos[n] \/ pos[n] < pos[m]
    BY <1>1, <2>1 DEF Tracks
  <2>3. pos[m] \in 2 .. Len(stack[t]) /\ pos[n] \in 2 .. Len(stack[t])
    BY <1>3
  <2> QED BY <1>2, <2>2, <2>3
<1>7. pos = [n \in 1 .. N |-> pos[n]]
  BY <1>1 DEF Tracks
<1> HIDE DEF N, C
<1>8. pos \in Bijection(1 .. N, C)
  <2>1. pos \in [1 .. N -> C]
    BY <1>4, <1>7
  <2> QED BY <1>5, <1>6, <2>1
      DEF Bijection, Injection, Surjection, IsInjective
<1>9. IsFiniteSet(1 .. N) /\ Cardinality(1 .. N) = N
  BY <1>2, FS_Interval
<1>10. Cardinality(C) = N
  BY <1>8, <1>9, FS_Bijection DEF ExistsBijection
<1> QED BY <1>10 DEF N, C

IInv == /\ Shape /\ Layout /\ Coordinated /\ HandleInv
        /\ LayersInv /\ Mutex /\ Exclusive
        /\ FramesShrink /\ PreparedInv /\ EndpointOnce

LEMMA IInvInit ==
  ASSUME Init
  PROVE  IInv
<1>1. Shape /\ Layout
  BY Start
<1>2. \A t \in Threads : Len(stack[t]) = 0 /\ stack[t] = <<>>
  BY DEF Init
<1>3. Coordinated
  <2>1. CoordShape /\ \A t \in Threads : coords[t] = <<>> /\ Len(coords[t]) = 0
    BY DEF Init, CoordShape
  <2>2. \A t \in Threads : Tracks(t, <<>>)
    <3> TAKE t \in Threads
    <3>1. <<>> \in [1 .. Len(coords[t]) -> 2 .. Len(stack[t])]
      BY <2>1
    <3> QED BY <1>2, <2>1, <3>1 DEF Tracks
  <2> QED BY <2>1, <2>2 DEF Coordinated
<1>4. HandleInv
  <2>1. \A t \in Threads : DOMAIN prepared[t] = {}
    BY DEF Init
  <2> QED BY <2>1 DEF Init, HandleInv, Fates
<1>5. LayersInv /\ Mutex /\ Exclusive /\ EndpointOnce
  BY <1>2 DEF LayersInv, Mutex, Exclusive, EndpointOnce
<1>6. FramesShrink /\ PreparedInv
  <2>1. \A t \in Threads : DOMAIN prepared[t] = {}
    BY DEF Init
  <2> QED BY <1>2, <2>1 DEF FramesShrink, PreparedInv
<1> QED BY <1>1, <1>3, <1>4, <1>5, <1>6 DEF IInv

LEMMA IInvNext ==
  ASSUME IInv, [Next]_vars
  PROVE  IInv'
<1> USE DEF IInv
<1>1. Shape' /\ Moves
  BY StepMoves
<1>2. Layout'
  BY <1>1, LayoutStep
<1>3. Coordinated'
  BY <1>1, <1>2, CoordinatedStep
<1>4. HandleInv'
  BY HandleStep
<1>5. LayersInv' /\ Mutex' /\ Exclusive'
  BY <1>1, LayersStep, MutexStep, ExclusiveStep
<1>6. FramesShrink' /\ PreparedInv' /\ EndpointOnce'
  BY <1>1, AuthorityStep, PreparedStep, EndpointStep
<1> QED BY <1>1, <1>2, <1>3, <1>4, <1>5, <1>6

LEMMA IInvAlways == Spec => []IInv
<1>1. Init => IInv
  BY IInvInit
<1>2. IInv /\ [Next]_vars => IInv'
  BY IInvNext
<1> QED BY <1>1, <1>2, PTL DEF Spec

LEMMA Typed ==
  ASSUME IInv
  PROVE  TypeOK
<1> USE DEF IInv
<1>1. ASSUME NEW t \in Threads, NEW f \in Frames(t)
      PROVE  /\ f.plugin \in Plugins
             /\ f.service \in Services \cup {None}
             /\ f.component \in Components \cup {None}
             /\ f.auth \subseteq Caps
             /\ f.how \in {"root", "import", "continue", "listener", "stop"}
             /\ f.pc \in {"probe", "probing", "lock", "run"}
             /\ f.holds \in BOOLEAN /\ f.used \in BOOLEAN
             /\ f.cancelled \in BOOLEAN
  <2>1. f \in FrameType
    BY <1>1, FrameOfStack DEF Frames, Shape
  <2> QED BY <2>1 DEF FrameType, Hows, Pcs
<1>2. ASSUME NEW t \in Threads
      PROVE  /\ DOMAIN prepared[t] \subseteq Handles
             /\ coords[t] \in Seq(Plugins)
             /\ view[t] \in {"old", "new"}
  BY DEF HandleInv, Coordinated, CoordShape, Shape
<1>3. ASSUME NEW t \in Threads
      PROVE  Len(coords[t]) =
               Cardinality({k \in DOMAIN stack[t] : stack[t][k].how = "import"})
  BY CoordinatorsCounted
<1>4. /\ fate \in [Handles -> {"unused", "open", "dead", "applied"}]
      /\ writes \in [Handles -> Nat]
  BY DEF HandleInv, Fates
<1> QED BY <1>1, <1>2, <1>3, <1>4 DEF TypeOK

\* Stacks, scopes and handles have their types, and there is one coordinator
\* for each call through an import (with_coordinator), however deep calls nest.
THEOREM TypeCorrect == Spec => []TypeOK
<1>1. IInv => TypeOK
  BY Typed
<1> QED BY <1>1, IInvAlways, PTL

\* No call has more authority than a call it was made from, nor than the
\* maximum of its plugin: invoke_import, invoke_service_abi and
\* continue_service only attenuate.  What a call prepared is within the
\* authority of the invocation, of its owner and of its coordinator.
THEOREM AuthorityAttenuates == Spec => []AuthorityOnlyShrinks
<1>1. IInv => AuthorityOnlyShrinks
  BY AuthorityShrinks DEF IInv
<1> QED BY <1>1, IInvAlways, PTL

\* Every mutation the backend is given was allowed at each hop: by every call
\* from the root to the committing one, by the call that prepared it, and, when
\* another plugin owns it, by an import of the committing plugin.
THEOREM WritesAuthorized == Spec => WritesAreAuthorized
<1>1. IInv /\ [Next]_vars =>
        [\A h \in Handles : writes'[h] # writes[h] =>
           \E t \in Threads :
             /\ h \in DOMAIN prepared[t]
             /\ LET m == prepared[t][h]
                    p == Top(t).plugin
                IN  /\ \A f \in Frames(t) : Write \in f.auth
                    /\ Write \in m.auth /\ Within(t, m.owner, {Write})
                    /\ m.owner = p \/ AuthorizedImport(p, m.owner)]_vars
  BY CommitAuthorized DEF IInv
<1> QED BY <1>1, IInvAlways, PTL DEF Spec, WritesAreAuthorized

\* A component endpoint is not entered again beneath itself, whatever calls
\* lie between (active_component_endpoints).
THEOREM EndpointsEnteredOnce == Spec => []EndpointOnce
<1>1. IInv => EndpointOnce
  BY DEF IInv
<1> QED BY <1>1, IInvAlways, PTL

\* Every layer that the policy of a service requires runs above its terminal:
\* continue_service can skip none, for any composition of layers.
THEOREM LayersAlwaysRun == Spec => []RequiredLayersRun
<1>1. IInv => RequiredLayersRun
  BY LayersRun DEF IInv
<1> QED BY <1>1, IInvAlways, PTL

\* No thread waits for an instance mutex that it holds itself.
THEOREM NeverWaitsForItself == Spec => []NoSelfWait
<1>1. IInv => NoSelfWait
  BY LayoutForbidsSelfWait DEF IInv
<1> QED BY <1>1, IInvAlways, PTL

\* While the stop hook of a generated plugin has its state, no call and no
\* listener of that instance runs on any thread (Arc::get_mut).
THEOREM StopsAlone == Spec => []ExclusiveStop
<1>1. IInv => ExclusiveStop
  BY ExclusiveStops DEF IInv
<1> QED BY <1>1, IInvAlways, PTL

\* The coordinator of a mutation is the plugin whose call led to the plugin
\* that prepares it: the thread's last entry is always the innermost import's.
THEOREM CoordinatesOwnCalls == Spec => []CoordinatorIsImporter
<1>1. IInv => CoordinatorIsImporter
  BY CoordinatorFound DEF IInv
<1> QED BY <1>1, IInvAlways, PTL

\* A mutation reaches the backend at most once, and never after a commit that
\* named it has failed, its call was found cancelled or its invocation ended.
THEOREM HandlesAreOneShot == Spec => []HandleOnce
<1>1. IInv => HandleOnce
  BY DEF IInv, HandleInv, HandleOnce
<1> QED BY <1>1, IInvAlways, PTL
=============================================================================
