-------------------------- MODULE ClientToolsProofs --------------------------
(* What holds of a connection's tools for every number of handlers,          *)
(* sessions, tools and callables, every queue capacity and number of         *)
(* requests: the admissions and the registry agree while handlers add,       *)
(* remove and call tools, and a retired generation leaves nothing behind.    *)
EXTENDS ClientTools, SequenceTheorems, TLAPS

PcValues == {"idle", "add", "register", "recheck", "admit", "remove",
             "unregister", "describe", "permission", "lookup", "lift", "call",
             "send", "wait", "retire", "forget"}

HandlerState ==
  [pc : PcValues, session : Sessions \cup {None}, tool : ToolIds \cup {None},
   callable : Callables \cup {None}, ask : BOOLEAN, id : Nat,
   granted : BOOLEAN, within : Handlers \cup {None}]

AdmissionRecord ==
  [id : Nat \ {0}, session : Sessions, tool : ToolIds, callable : Callables,
   ask : BOOLEAN]

\* The variables have their types.
Shape ==
  /\ handler \in [Handlers -> HandlerState]
  /\ admissions \subseteq AdmissionRecord
  /\ entries \subseteq Callables /\ retired \in BOOLEAN
  /\ nextId \in Nat /\ lock \in Handlers \cup {None}
  /\ queue \in Seq(Handlers) /\ Len(queue) <= Capacity
  /\ serving \in Handlers \cup {None}

\* A callback waits in one place: in the queue or with the client.
Waiting ==
  /\ \A k \in 1 .. Len(queue) : At(queue[k], "wait") /\ queue[k] # serving
  /\ \A j, k \in 1 .. Len(queue) : queue[j] = queue[k] => j = k
  /\ serving # None => At(serving, "wait")

\* The steps of an admission and a removal that run under the admissions
\* lock; a duplicate is looked at again with the lock or, for a lifted
\* callable, without.
UnderLock ==
  \A h \in Handlers :
    /\ handler[h].pc \in {"register", "admit", "unregister"} => lock = h
    /\ lock = h =>
         handler[h].pc \in {"register", "recheck", "admit", "unregister"}

\* What a handler that adds a tool carries, and what it has checked.
Adding ==
  \A h \in Handlers :
    /\ handler[h].pc \in {"add", "register", "recheck", "admit", "lift"} =>
         handler[h].callable \in Callables
    /\ (At(h, "add") \/ lock = h) /\ ~ At(h, "unregister") =>
         handler[h].session \in Sessions /\ handler[h].tool \in ToolIds
    /\ lock = h /\ ~ At(h, "unregister") =>
         \A a \in admissions : ~ (/\ a.session = handler[h].session
                                  /\ a.tool = handler[h].tool)

\* Ids are not used twice, and a session has one admission for a tool.
Distinct ==
  /\ \A a \in admissions : a.id <= nextId
  /\ \A a, b \in admissions : a.id = b.id => a = b
  /\ \A a, b \in admissions :
       (a.session = b.session /\ a.tool = b.tool) => a = b

\* The callable of an admission, or of a handler about to admit one, is
\* registered; the one a handler is about to unregister is in no admission.
Backed ==
  /\ AdmittedIsCallable
  /\ \A h \in Handlers :
       /\ At(h, "admit") => handler[h].callable \in entries \/ retired
       /\ At(h, "unregister") =>
            \A a \in admissions : a.callable # handler[h].callable

\* Someone has retired the generation and has still to forget its admissions.
Forgetting == service = "forget" \/ \E h \in Handlers : At(h, "forget")

\* A retirement that is over was not overtaken by an admission.
Retirement ==
  retired => /\ entries = {}
             /\ ~ Forgetting => /\ admissions = {}
                                /\ \A h \in Handlers : ~ At(h, "admit")

IInv == Shape /\ Waiting /\ UnderLock /\ Adding /\ Distinct /\ Backed /\ Retirement

-----------------------------------------------------------------------------
(* What a handler's move does to the handlers.                             *)

\* Goto changes where one handler is and nothing else.
LEMMA GotoMoves ==
  ASSUME Shape, NEW h \in Handlers, NEW p \in PcValues, Goto(h, p)
  PROVE  /\ handler' \in [Handlers -> HandlerState]
         /\ handler'[h].pc = p
         /\ handler'[h].callable = handler[h].callable
         /\ handler'[h].session = handler[h].session
         /\ handler'[h].tool = handler[h].tool
         /\ \A g \in Handlers : g # h => handler'[g] = handler[g]
<1>1. handler[h] \in HandlerState
  BY DEF Shape
<1>2. [handler[h] EXCEPT !.pc = p] \in HandlerState
  BY <1>1 DEF HandlerState
<1>3. handler' = [handler EXCEPT ![h] = [handler[h] EXCEPT !.pc = p]]
  BY DEF Goto
<1>4. /\ handler' \in [Handlers -> HandlerState]
      /\ handler'[h] = [handler[h] EXCEPT !.pc = p]
      /\ \A g \in Handlers : g # h => handler'[g] = handler[g]
  BY <1>2, <1>3 DEF Shape
<1> QED BY <1>1, <1>4 DEF HandlerState

\* Respond makes one handler idle.
LEMMA RespondMoves ==
  ASSUME Shape, NEW h \in Handlers, Respond(h)
  PROVE  /\ handler' \in [Handlers -> HandlerState]
         /\ handler'[h] = Idle
         /\ \A g \in Handlers : g # h => handler'[g] = handler[g]
BY DEF Shape, Respond, Idle, HandlerState, PcValues

\* A handler that is neither under the lock nor waiting for a callback is
\* not in the queue, and is not the one served.
LEMMA NotQueued ==
  ASSUME Shape, Waiting, NEW h \in Handlers, ~ At(h, "wait")
  PROVE  /\ \A k \in 1 .. Len(queue) : queue[k] # h
         /\ serving # h
BY ClientAssumption DEF Shape, Waiting, At

-----------------------------------------------------------------------------

LEMMA IInvInit == Init => IInv
<1> SUFFICES ASSUME Init PROVE IInv
  OBVIOUS
<1>1. Shape
  <2>1. Idle \in HandlerState
    BY DEF Idle, HandlerState, PcValues
  <2>2. queue \in Seq(Handlers) /\ Len(queue) = 0
    BY EmptySeq DEF Init
  <2>3. Len(queue) <= Capacity
    BY <2>2, ClientAssumption
  <2>4. handler \in [Handlers -> HandlerState]
    BY <2>1 DEF Init
  <2>5. /\ entries \subseteq Callables /\ retired \in BOOLEAN /\ nextId \in Nat
        /\ admissions \subseteq AdmissionRecord
        /\ lock \in Handlers \cup {None} /\ serving \in Handlers \cup {None}
    BY DEF Init
  <2> QED BY <2>2, <2>3, <2>4, <2>5 DEF Shape
<1>2. Waiting
  BY DEF Init, Waiting
<1>3. UnderLock /\ Adding
  BY ClientAssumption DEF Init, UnderLock, Adding, Idle, At
<1>4. Distinct /\ Backed /\ Retirement
  BY DEF Init, Distinct, Backed, Retirement, AdmittedIsCallable, Idle, At
<1> QED BY <1>1, <1>2, <1>3, <1>4 DEF IInv

\* A step that moves one handler which holds no lock and waits for no
\* callback to where that is still so, drops admissions or none, and changes
\* nothing else; a handler that has to forget the admissions drops them all.
LEMMA MoveOutsideKeeps ==
  ASSUME IInv, NEW h \in Handlers, NEW r \in HandlerState,
         handler' = [handler EXCEPT ![h] = r],
         ~ At(h, "wait"), lock # h,
         At(h, "forget") => admissions' = {} /\ lock = None,
         r.pc \notin {"register", "admit", "unregister"},
         r.pc \in {"add", "lift", "recheck"} => r.callable \in Callables,
         r.pc = "add" => r.session \in Sessions /\ r.tool \in ToolIds,
         admissions' \subseteq admissions,
         UNCHANGED <<entries, retired, nextId, lock, queue, serving, service>>
  PROVE  IInv'
<1>1. /\ handler' \in [Handlers -> HandlerState] /\ handler'[h] = r
      /\ \A g \in Handlers : g # h => handler'[g] = handler[g]
  BY DEF IInv, Shape
<1>2. Shape'
  BY <1>1 DEF IInv, Shape
<1>3. Waiting'
  BY <1>1, NotQueued DEF IInv, Shape, Waiting, At
<1>4. UnderLock'
  BY <1>1 DEF IInv, UnderLock, At
<1>5. Adding'
  BY <1>1 DEF IInv, Adding, At
<1>6. Distinct'
  BY DEF IInv, Distinct
<1>7. Backed'
  BY <1>1 DEF IInv, Backed, AdmittedIsCallable, At
<1>8. Retirement'
  BY <1>1, ClientAssumption DEF IInv, UnderLock, Retirement, Forgetting, At
<1> QED BY <1>2, <1>3, <1>4, <1>5, <1>6, <1>7, <1>8 DEF IInv

\* MoveOutsideKeeps for a handler that responds.
LEMMA IdleOutside ==
  ASSUME IInv, NEW h \in Handlers, Respond(h),
         ~ At(h, "wait"), lock # h,
         At(h, "forget") => admissions' = {} /\ lock = None,
         admissions' \subseteq admissions,
         UNCHANGED <<entries, retired, nextId, lock, queue, serving, service>>
  PROVE  IInv'
<1>1. Idle \in HandlerState /\ Idle.pc = "idle"
  BY DEF Idle, HandlerState, PcValues
<1>2. handler' = [handler EXCEPT ![h] = Idle]
  BY DEF Respond
<1> QED BY <1>1, <1>2, MoveOutsideKeeps

\* MoveOutsideKeeps for a handler that goes on with the same request.
LEMMA GotoOutside ==
  ASSUME IInv, NEW h \in Handlers, NEW p, Goto(h, p),
         ~ At(h, "wait"), ~ At(h, "forget"), lock # h,
         \/ p \in {"permission", "lookup", "call", "send", "retire"}
         \/ p = "recheck" /\ handler[h].callable \in Callables,
         UNCHANGED <<entries, retired, admissions, nextId, lock, queue,
                     serving, service>>
  PROVE  IInv'
<1> DEFINE r == [handler[h] EXCEPT !.pc = p]
<1>1. handler[h] \in HandlerState
  BY DEF IInv, Shape
<1>2. r \in HandlerState /\ r.pc = p /\ r.callable = handler[h].callable
  BY <1>1 DEF HandlerState, PcValues
<1>3. handler' = [handler EXCEPT ![h] = r]
  BY DEF Goto
<1> HIDE DEF r
<1> QED BY <1>2, <1>3, MoveOutsideKeeps

\* A request takes an idle handler, which holds no lock and waits nowhere.
LEMMA RequestKeeps ==
  ASSUME IInv, NEW h \in Handlers, Requested(h)
  PROVE  IInv'
<1>1. PICK r \in HandlerState :
        /\ handler' = [handler EXCEPT ![h] = r]
        /\ r.pc \in {"add", "remove", "lookup", "describe", "lift"}
        /\ r.pc \in {"add", "lift"} => r.callable \in Callables
        /\ r.pc = "add" => r.session \in Sessions /\ r.tool \in ToolIds
  <2>1. serving \in Handlers \cup {None} /\ nextId \in Nat
    BY DEF IInv, Shape
  <2> USE DEF HandlerState, PcValues
  <2>2. PICK s \in Sessions, w \in {None, serving} :
        \/ \E t \in ToolIds, c \in Callables, ask \in BOOLEAN :
              Request(h, "add", s, t, c, ask, 0, w)
        \/ \E id \in 1 .. nextId : Request(h, "remove", s, None, None, FALSE, id, w)
        \/ \E t \in ToolIds, pc \in {"lookup", "describe"} :
              Request(h, pc, s, t, None, FALSE, 0, w)
        \/ \E c \in Callables : Request(h, "lift", s, None, c, FALSE, 0, w)
    BY DEF Requested
  <2>3. CASE \E t \in ToolIds, c \in Callables, ask \in BOOLEAN :
              Request(h, "add", s, t, c, ask, 0, w)
    <3>1. PICK t \in ToolIds, c \in Callables, ask \in BOOLEAN :
              Request(h, "add", s, t, c, ask, 0, w)
      BY <2>3
    <3> DEFINE r == [pc |-> "add", session |-> s, tool |-> t, callable |-> c,
                     ask |-> ask, id |-> 0, granted |-> "add" # "describe",
                     within |-> w]
    <3>2. r \in HandlerState /\ handler' = [handler EXCEPT ![h] = r]
      BY <2>1, <3>1 DEF Request
    <3> QED BY <3>2
  <2>4. CASE \E id \in 1 .. nextId :
              Request(h, "remove", s, None, None, FALSE, id, w)
    <3>1. PICK id \in 1 .. nextId :
              Request(h, "remove", s, None, None, FALSE, id, w)
      BY <2>4
    <3> DEFINE r == [pc |-> "remove", session |-> s, tool |-> None,
                     callable |-> None, ask |-> FALSE, id |-> id,
                     granted |-> "remove" # "describe", within |-> w]
    <3>2. r \in HandlerState /\ handler' = [handler EXCEPT ![h] = r]
      BY <2>1, <3>1 DEF Request
    <3> QED BY <3>2
  <2>5. CASE \E t \in ToolIds, pc \in {"lookup", "describe"} :
              Request(h, pc, s, t, None, FALSE, 0, w)
    <3>1. PICK t \in ToolIds, pc \in {"lookup", "describe"} :
              Request(h, pc, s, t, None, FALSE, 0, w)
      BY <2>5
    <3> DEFINE r == [pc |-> pc, session |-> s, tool |-> t, callable |-> None,
                     ask |-> FALSE, id |-> 0, granted |-> pc # "describe",
                     within |-> w]
    <3>2. r \in HandlerState /\ handler' = [handler EXCEPT ![h] = r]
      BY <2>1, <3>1 DEF Request
    <3> QED BY <3>2
  <2>6. CASE \E c \in Callables : Request(h, "lift", s, None, c, FALSE, 0, w)
    <3>1. PICK c \in Callables : Request(h, "lift", s, None, c, FALSE, 0, w)
      BY <2>6
    <3> DEFINE r == [pc |-> "lift", session |-> s, tool |-> None,
                     callable |-> c, ask |-> FALSE, id |-> 0,
                     granted |-> "lift" # "describe", within |-> w]
    <3>2. r \in HandlerState /\ handler' = [handler EXCEPT ![h] = r]
      BY <2>1, <3>1 DEF Request
    <3> QED BY <3>2
  <2> QED BY <2>2, <2>3, <2>4, <2>5, <2>6
<1>2. /\ At(h, "idle")
      /\ UNCHANGED <<entries, retired, admissions, nextId, lock, queue,
                     serving, service>>
  BY DEF Requested, Request, registry, admitting, transport
<1> QED BY <1>1, <1>2, MoveOutsideKeeps, ClientAssumption DEF IInv, UnderLock, At

\* A handler that holds the lock lets it go and responds, and what it leaves
\* behind in the registry and the admissions is in order.
LEMMA ReleaseKeeps ==
  ASSUME IInv, NEW h \in Handlers, lock = h, lock' = None, Respond(h),
         UNCHANGED <<retired, queue, serving, service>>,
         Shape', Distinct', AdmittedIsCallable',
         retired => entries' = {},
         retired /\ ~ Forgetting => admissions' = {}
  PROVE  IInv'
<1>1. /\ handler' \in [Handlers -> HandlerState] /\ handler'[h] = Idle
      /\ \A g \in Handlers : g # h => handler'[g] = handler[g]
  BY RespondMoves DEF IInv
<1>2. ~ At(h, "wait") /\ ~ At(h, "forget")
  BY DEF IInv, UnderLock, At
<1>3. Waiting'
  BY <1>1, <1>2, NotQueued DEF IInv, Shape, Waiting, At
<1>4. UnderLock'
  BY <1>1, ClientAssumption DEF IInv, UnderLock, At, Idle
<1>5. Adding'
  BY <1>1, ClientAssumption DEF IInv, UnderLock, Adding, At, Idle
<1>6. Backed'
  BY <1>1, ClientAssumption DEF IInv, UnderLock, Backed, At, Idle
<1>7. Retirement'
  BY <1>1, <1>2, ClientAssumption DEF IInv, UnderLock, Retirement, Forgetting, At, Idle
<1> QED BY <1>3, <1>4, <1>5, <1>6, <1>7 DEF IInv

\* Admit takes the lock once it has seen that the tool id is free.
LEMMA AdmitKeeps ==
  ASSUME IInv, NEW h \in Handlers, Admit(h)
  PROVE  IInv'
<1>1. /\ At(h, "add") /\ lock = None
      /\ UNCHANGED <<entries, retired, admissions, nextId, queue, serving,
                     service>>
  BY DEF Admit, registry, admitting, transport
<1>2. CASE Taken(handler[h].session, handler[h].tool)
  <2>1. Respond(h) /\ lock' = lock
    BY <1>2 DEF Admit
  <2> QED BY <1>1, <2>1, IdleOutside, ClientAssumption DEF At
<1>3. CASE ~ Taken(handler[h].session, handler[h].tool)
  <2>1. Goto(h, "register") /\ lock' = h
    BY <1>3 DEF Admit
  <2>2. /\ handler' \in [Handlers -> HandlerState]
        /\ \A g \in Handlers : g # h => handler'[g] = handler[g]
    BY <2>1, GotoMoves DEF IInv, PcValues
  <2>4. /\ handler'[h].pc = "register" /\ handler'[h].callable = handler[h].callable
        /\ handler'[h].session = handler[h].session
        /\ handler'[h].tool = handler[h].tool
    BY <2>1, GotoMoves DEF IInv, PcValues
  <2>5. Shape'
    BY <1>1, <2>1, <2>2 DEF IInv, Shape
  <2>6. Waiting'
    BY <1>1, <2>2, NotQueued DEF IInv, Shape, Waiting, At
  <2>7. UnderLock'
    BY <1>1, <2>1, <2>2, <2>4, ClientAssumption DEF IInv, UnderLock, At
  <2>8. Adding'
    BY <1>1, <1>3, <2>1, <2>2, <2>4, ClientAssumption
       DEF IInv, Adding, At, Taken, Admitted
  <2>9. Distinct'
    BY <1>1 DEF IInv, Distinct
  <2>10. Backed'
    <3>1. AdmittedIsCallable'
      BY <1>1 DEF IInv, Backed, AdmittedIsCallable
    <3>2. ASSUME NEW g \in Handlers
          PROVE  /\ At(g, "admit")' => handler'[g].callable \in entries' \/ retired'
                 /\ At(g, "unregister")' =>
                      \A a \in admissions' : a.callable # handler'[g].callable
      BY <1>1, <2>2, <2>4 DEF IInv, Backed, At
    <3> QED BY <3>1, <3>2 DEF Backed
  <2>11. Retirement'
    BY <1>1, <2>2, <2>4 DEF IInv, Retirement, Forgetting, At
  <2> QED BY <2>5, <2>6, <2>7, <2>8, <2>9, <2>10, <2>11 DEF IInv
<1> QED BY <1>2, <1>3
\* Registering, or finding registered, the callable of a request.
LEMMA RegisteredKeeps ==
  ASSUME IInv, NEW h \in Handlers, NEW p, ~ retired,
         handler[h].pc \in {"register", "lift", "recheck"},
         entries' = entries \cup {handler[h].callable},
         Goto(h, p), p = "recheck" \/ p = Registered(h),
         UNCHANGED <<retired, admissions, nextId, lock, queue, serving, service>>
  PROVE  IInv'
<1>1. p \in PcValues /\ (lock = h => p \in {"recheck", "admit"})
      /\ (lock # h => p \in {"recheck", "call"})
  BY DEF Registered, PcValues
<1>2. /\ handler' \in [Handlers -> HandlerState]
      /\ \A g \in Handlers : g # h => handler'[g] = handler[g]
  BY <1>1, GotoMoves DEF IInv
<1>3. /\ handler'[h].pc = p /\ handler'[h].callable = handler[h].callable
      /\ handler'[h].session = handler[h].session
      /\ handler'[h].tool = handler[h].tool
  BY <1>1, GotoMoves DEF IInv
<1>4. handler[h].callable \in Callables
  BY DEF IInv, Adding
<1>5. Shape'
  BY <1>2, <1>4 DEF IInv, Shape
<1>6. Waiting'
  BY <1>2, NotQueued DEF IInv, Shape, Waiting, At
<1>7. UnderLock'
  BY <1>1, <1>2, <1>3 DEF IInv, UnderLock, At
<1>8. Adding'
  BY <1>1, <1>2, <1>3, <1>4 DEF IInv, UnderLock, Adding, At
<1>9. Distinct'
  BY DEF IInv, Distinct
<1>10. Backed'
  <2>1. AdmittedIsCallable'
    BY DEF IInv, Backed, AdmittedIsCallable
  <2>2. ASSUME NEW g \in Handlers
        PROVE  /\ At(g, "admit")' => handler'[g].callable \in entries' \/ retired'
               /\ At(g, "unregister")' =>
                    \A a \in admissions' : a.callable # handler'[g].callable
    BY <1>1, <1>2, <1>3 DEF IInv, Backed, At
  <2> QED BY <2>1, <2>2 DEF Backed
<1>11. Retirement'
  BY DEF Retirement
<1> QED BY <1>5, <1>6, <1>7, <1>8, <1>9, <1>10, <1>11 DEF IInv

\* A handler that gives up, with the lock or without.
LEMMA GiveUpKeeps ==
  ASSUME IInv, NEW h \in Handlers, Respond(h), lock' = Unlocked(h),
         ~ At(h, "wait"), ~ At(h, "forget"),
         UNCHANGED <<entries, retired, admissions, nextId, queue, serving,
                     service>>
  PROVE  IInv'
<1>1. CASE lock = h
  <2>1. lock' = None
    BY <1>1 DEF Unlocked
  <2>2. Shape'
    BY <2>1, RespondMoves DEF IInv, Shape
  <2>3. Distinct' /\ AdmittedIsCallable'
    BY DEF IInv, Distinct, Backed, AdmittedIsCallable
  <2> QED BY <1>1, <2>1, <2>2, <2>3, ReleaseKeeps DEF IInv, Retirement
<1>2. CASE lock # h
  BY <1>2, IdleOutside DEF Unlocked
<1> QED BY <1>1, <1>2

LEMMA RegisterKeeps ==
  ASSUME IInv, NEW h \in Handlers, Register(h)
  PROVE  IInv'
<1>1. /\ handler[h].pc \in {"register", "lift"}
      /\ UNCHANGED <<retired, admissions, nextId, queue, serving, service>>
  BY DEF Register, admitting, transport
<1>2. CASE retired
  <2>1. Respond(h) /\ lock' = Unlocked(h) /\ entries' = entries
    BY <1>2 DEF Register, Stale
  <2> QED BY <1>1, <2>1, GiveUpKeeps DEF At
<1>3. CASE ~ retired
  <2>1. PICK p : /\ Goto(h, p) /\ (p = "recheck" \/ p = Registered(h))
                 /\ entries' = entries \cup {handler[h].callable}
                 /\ lock' = lock
    BY <1>3 DEF Register, Stale
  <2> QED BY <1>1, <1>3, <2>1, RegisteredKeeps
<1> QED BY <1>2, <1>3

LEMMA RecheckKeeps ==
  ASSUME IInv, NEW h \in Handlers, NEW same \in BOOLEAN, Recheck(h, same)
  PROVE  IInv'
<1>1. /\ At(h, "recheck")
      /\ UNCHANGED <<entries, retired, admissions, nextId, queue, serving,
                     service>>
  BY DEF Recheck, registry, admitting, transport
<1>2. CASE ~ retired /\ handler[h].callable \in entries /\ same
  <2>1. Goto(h, Registered(h)) /\ lock' = lock
    BY <1>2 DEF Recheck
  <2>2. entries' = entries \cup {handler[h].callable}
    BY <1>1, <1>2
  <2> QED BY <1>1, <1>2, <2>1, <2>2, RegisteredKeeps DEF At
<1>3. CASE ~ (~ retired /\ handler[h].callable \in entries /\ same)
  <2>1. Respond(h) /\ lock' = Unlocked(h)
    BY <1>3 DEF Recheck
  <2> QED BY <1>1, <2>1, GiveUpKeeps DEF At
<1> QED BY <1>2, <1>3

\* The admission that is added has a new id, a tool id the handler found free
\* when it took the lock, and a callable that is still registered.
LEMMA AdmitDoneKeeps ==
  ASSUME IInv, NEW h \in Handlers, AdmitDone(h)
  PROVE  IInv'
<1> DEFINE a == Admission(h)
<1>1. /\ At(h, "admit") /\ admissions' = admissions \cup {a}
      /\ nextId' = nextId + 1 /\ lock' = None /\ Respond(h)
      /\ UNCHANGED <<entries, retired, queue, serving, service>>
  BY DEF AdmitDone, registry, transport
<1>2. lock = h
  BY <1>1 DEF IInv, UnderLock, At
<1>3. /\ handler[h].callable \in Callables /\ handler[h].session \in Sessions
      /\ handler[h].tool \in ToolIds
      /\ \A b \in admissions : ~ (/\ b.session = handler[h].session
                                  /\ b.tool = handler[h].tool)
  BY <1>1, <1>2 DEF IInv, Adding, At
<1>4. handler[h] \in HandlerState /\ nextId \in Nat
  BY DEF IInv, Shape
<1>5. /\ a \in AdmissionRecord /\ a.id = nextId + 1
      /\ a.session = handler[h].session /\ a.tool = handler[h].tool
      /\ a.callable = handler[h].callable
  BY <1>3, <1>4 DEF Admission, HandlerState, AdmissionRecord
<1> HIDE DEF a
<1>6. Shape'
  <2>1. admissions' \subseteq AdmissionRecord /\ nextId' \in Nat
    BY <1>1, <1>4, <1>5 DEF IInv, Shape
  <2> QED BY <1>1, <2>1, RespondMoves DEF IInv, Shape
<1>7. Distinct'
  <2>1. \A b \in admissions : b.id <= nextId /\ b.id \in Nat
    BY DEF IInv, Distinct, Shape, AdmissionRecord
  <2>2. \A b \in admissions' : b.id <= nextId'
    BY <1>1, <1>4, <1>5, <2>1
  <2>3. \A b \in admissions : b.id # a.id
    BY <1>4, <1>5, <2>1
  <2> QED BY <1>1, <1>3, <1>5, <2>2, <2>3 DEF IInv, Distinct
<1>8. AdmittedIsCallable'
  BY <1>1, <1>5 DEF IInv, Backed, AdmittedIsCallable
<1>9. /\ retired => entries' = {}
      /\ retired /\ ~ Forgetting => admissions' = {}
  BY <1>1 DEF IInv, Retirement
<1> QED BY <1>1, <1>2, <1>6, <1>7, <1>8, <1>9, ReleaseKeeps
\* A removal keeps the lock until the callable of the last admission that
\* used it is unregistered.
LEMMA RemoveKeeps ==
  ASSUME IInv, NEW h \in Handlers, Remove(h)
  PROVE  IInv'
<1> DEFINE named == {a \in admissions : a.id = handler[h].id
                                        /\ a.session = handler[h].session}
           left == admissions \ named
           c == (CHOOSE a \in named : TRUE).callable
<1>1. /\ At(h, "remove") /\ lock = None /\ admissions' = left
      /\ UNCHANGED <<entries, retired, nextId, queue, serving, service>>
  BY DEF Remove, registry, transport
<1>2. admissions' \subseteq admissions
  BY <1>1
<1>3. CASE \E a \in named : LastUse(left, a.callable)
  <2>1. /\ handler' = [handler EXCEPT ![h].pc = "unregister",
                                      ![h].callable = c]
        /\ lock' = h
    BY <1>3 DEF Remove
  <2>2. PICK a \in named : LastUse(left, a.callable)
    BY <1>3
  <2>3. \A b \in named : b = a
    BY DEF IInv, Distinct
  <2>4. c = a.callable
    BY <2>3
  <2>5. c \in Callables /\ \A b \in admissions' : b.callable # c
    BY <1>1, <2>2, <2>4 DEF IInv, Shape, AdmissionRecord, LastUse
  <2> HIDE DEF named, left, c
  <2>6. handler[h] \in HandlerState
    BY DEF IInv, Shape
  <2>7. /\ handler'[h] \in HandlerState
        /\ handler'[h].pc = "unregister" /\ handler'[h].callable = c
        /\ handler' \in [Handlers -> HandlerState]
        /\ \A g \in Handlers : g # h => handler'[g] = handler[g]
    <3> DEFINE r == [handler[h] EXCEPT !.pc = "unregister", !.callable = c]
    <3>1. r \in HandlerState /\ r.pc = "unregister" /\ r.callable = c
      BY <2>5, <2>6 DEF HandlerState, PcValues
    <3>2. handler' = [handler EXCEPT ![h] = r]
      BY <2>1
    <3> HIDE DEF r
    <3> QED BY <3>1, <3>2 DEF IInv, Shape
  <2>8. Shape'
    BY <1>1, <1>2, <2>1, <2>7 DEF IInv, Shape
  <2>9. Waiting'
    BY <1>1, <2>7, NotQueued DEF IInv, Shape, Waiting, At
  <2>10. UnderLock'
    BY <1>1, <2>1, <2>7, ClientAssumption DEF IInv, UnderLock, At
  <2>11. Adding'
    BY <1>1, <1>2, <2>1, <2>7, ClientAssumption DEF IInv, Adding, At
  <2>12. Distinct'
    BY <1>1, <1>2 DEF IInv, Distinct
  <2>13. Backed'
    BY <1>1, <1>2, <2>5, <2>7 DEF IInv, Backed, AdmittedIsCallable, At
  <2>14. Retirement'
    BY <1>1, <1>2, <2>7 DEF IInv, Retirement, Forgetting, At
  <2> QED BY <2>8, <2>9, <2>10, <2>11, <2>12, <2>13, <2>14 DEF IInv
<1>4. CASE ~ \E a \in named : LastUse(left, a.callable)
  <2>1. Respond(h) /\ lock' = lock
    BY <1>4 DEF Remove
  <2> QED BY <1>1, <1>2, <2>1, IdleOutside, ClientAssumption DEF At
<1> QED BY <1>3, <1>4

LEMMA UnregisterKeeps ==
  ASSUME IInv, NEW h \in Handlers, Unregister(h)
  PROVE  IInv'
<1>1. /\ At(h, "unregister") /\ lock' = None /\ Respond(h)
      /\ entries' = IF retired THEN entries ELSE entries \ {handler[h].callable}
      /\ UNCHANGED <<retired, admissions, nextId, queue, serving, service>>
  BY DEF Unregister, admitting, transport
<1>2. lock = h
  BY <1>1 DEF IInv, UnderLock, At
<1>3. Shape'
  BY <1>1, RespondMoves DEF IInv, Shape
<1>4. Distinct'
  BY <1>1 DEF IInv, Distinct
<1>5. \A a \in admissions : a.callable # handler[h].callable
  BY <1>1 DEF IInv, Backed
<1>6. AdmittedIsCallable'
  BY <1>1, <1>5 DEF IInv, Backed, AdmittedIsCallable
<1>7. /\ retired => entries' = {}
      /\ retired /\ ~ Forgetting => admissions' = {}
  BY <1>1 DEF IInv, Retirement
<1> QED BY <1>1, <1>2, <1>3, <1>4, <1>6, <1>7, ReleaseKeeps

\* The steps of a call before it is sent, and the end of a retirement, move a
\* handler that is outside the lock.
LEMMA CallKeeps ==
  ASSUME IInv, NEW h \in Handlers,
         \/ Describe(h) \/ Lookup(h) \/ Prepare(h) \/ Forget(h)
         \/ \E allowed \in BOOLEAN : Permission(h, allowed)
  PROVE  IInv'
<1>1. handler[h].pc \in {"describe", "lookup", "call", "permission", "forget"}
  BY DEF Describe, Lookup, Prepare, Forget, Permission, At
<1>2. lock # h /\ ~ At(h, "wait")
  BY <1>1 DEF IInv, UnderLock, At
<1>3. UNCHANGED <<entries, retired, nextId, lock, queue, serving, service>>
  BY DEF Describe, Lookup, Prepare, Forget, Permission, registry, admitting,
         transport
<1>4. handler[h] \in HandlerState
  BY DEF IInv, Shape
<1>5. CASE Describe(h)
  <2>1. /\ admissions' = admissions /\ At(h, "describe")
        /\ \/ Respond(h) \/ Goto(h, "permission") \/ Goto(h, "lookup")
    BY <1>5 DEF Describe, admitting
  <2> QED BY <1>2, <1>3, <2>1, IdleOutside, GotoOutside DEF At
<1>6. CASE Lookup(h)
  <2> DEFINE found == Admitted(handler[h].session, handler[h].tool)
             a == CHOOSE a \in found : TRUE
  <2>1. admissions' = admissions /\ At(h, "lookup")
    BY <1>6 DEF Lookup, admitting
  <2>2. CASE found = {}
    BY <1>2, <1>3, <1>6, <2>1, <2>2, IdleOutside DEF Lookup, At
  <2>3. CASE found # {}
    <3> DEFINE r == [handler[h] EXCEPT !.pc = "call", !.callable = a.callable,
                                       !.ask = a.ask]
    <3>1. a \in AdmissionRecord
      BY <2>3 DEF Admitted, IInv, Shape
    <3> HIDE DEF a
    <3>2. r \in HandlerState /\ r.pc = "call"
      BY <1>4, <3>1 DEF HandlerState, PcValues, AdmissionRecord
    <3>3. handler' = [handler EXCEPT ![h] = r]
      BY <1>6, <2>3 DEF Lookup, a
    <3> HIDE DEF r
    <3> QED BY <1>2, <1>3, <2>1, <3>2, <3>3, MoveOutsideKeeps DEF At
  <2> QED BY <2>2, <2>3
<1>7. CASE Prepare(h)
  <2>1. /\ admissions' = admissions /\ At(h, "call")
        /\ Respond(h) \/ Goto(h, "send")
    BY <1>7 DEF Prepare, admitting
  <2> QED BY <1>2, <1>3, <2>1, IdleOutside, GotoOutside DEF At
<1>8. CASE Forget(h)
  BY <1>2, <1>3, <1>8, IdleOutside DEF Forget
<1>9. ASSUME NEW allowed \in BOOLEAN, Permission(h, allowed)
      PROVE  IInv'
  <2>1. admissions' = admissions /\ At(h, "permission")
    BY <1>9 DEF Permission, admitting
  <2>2. CASE allowed
    <3> DEFINE r == [handler[h] EXCEPT !.pc = "lookup", !.granted = TRUE]
    <3>1. r \in HandlerState /\ r.pc = "lookup"
      BY <1>4 DEF HandlerState, PcValues
    <3>2. handler' = [handler EXCEPT ![h] = r]
      BY <1>9, <2>2 DEF Permission
    <3> HIDE DEF r
    <3> QED BY <1>2, <1>3, <2>1, <3>1, <3>2, MoveOutsideKeeps DEF At
  <2>3. CASE ~ allowed
    BY <1>2, <1>3, <1>9, <2>1, <2>3, IdleOutside DEF Permission, At
  <2> QED BY <2>2, <2>3
<1> QED BY <1>5, <1>6, <1>7, <1>8, <1>9
\* A callback is put at the end of the queue, which has room for it.
LEMMA SendKeeps ==
  ASSUME IInv, NEW h \in Handlers, Send(h)
  PROVE  IInv'
<1>1. /\ At(h, "send")
      /\ UNCHANGED <<entries, retired, admissions, nextId, lock, serving, service>>
  BY DEF Send, registry, admitting
<1>2. lock # h /\ ~ At(h, "wait") /\ ~ At(h, "forget")
  BY <1>1 DEF IInv, UnderLock, At
<1>3. CASE queue' = queue /\ (Goto(h, "retire") \/ Respond(h))
  BY <1>1, <1>2, <1>3, IdleOutside, GotoOutside
<1>4. CASE Goto(h, "wait") /\ queue' = Append(queue, h) /\ Len(queue) # Capacity
  <2>1. /\ handler' \in [Handlers -> HandlerState] /\ handler'[h].pc = "wait"
        /\ \A g \in Handlers : g # h => handler'[g] = handler[g]
    BY <1>4, GotoMoves DEF IInv, PcValues
  <2>2. /\ queue' \in Seq(Handlers) /\ Len(queue') = Len(queue) + 1
        /\ queue'[Len(queue) + 1] = h
        /\ \A k \in 1 .. Len(queue) : queue'[k] = queue[k]
    BY <1>4 DEF IInv, Shape
  <2>3. Len(queue) \in Nat /\ Len(queue') <= Capacity
    BY <1>4, <2>2, ClientAssumption DEF IInv, Shape
  <2>4. Shape'
    BY <1>1, <2>1, <2>2, <2>3 DEF IInv, Shape
  <2>5. \A k \in 1 .. Len(queue) : queue[k] # h /\ queue[k] \in Handlers
    BY <1>2, NotQueued DEF IInv, Shape
  <2>6. serving # h
    BY <1>2, NotQueued DEF IInv
  <2>7. Waiting'
    <3>1. ASSUME NEW k \in 1 .. Len(queue')
          PROVE  At(queue[k], "wait")' /\ queue'[k] # serving'
      <4>1. CASE k = Len(queue) + 1
        BY <1>1, <2>1, <2>2, <2>6, <4>1 DEF At
      <4>2. CASE k \in 1 .. Len(queue)
        BY <1>1, <2>1, <2>2, <2>5, <4>2 DEF IInv, Waiting, At
      <4> QED BY <2>2, <2>3, <4>1, <4>2
    <3>2. ASSUME NEW j \in 1 .. Len(queue'), NEW k \in 1 .. Len(queue'),
                 queue'[j] = queue'[k]
          PROVE  j = k
      <4>1. \A i \in 1 .. Len(queue') : i = Len(queue) + 1 \/ i \in 1 .. Len(queue)
        BY <2>2, <2>3
      <4>2. CASE j = Len(queue) + 1
        BY <2>2, <2>5, <3>2, <4>1, <4>2
      <4>3. CASE k = Len(queue) + 1
        BY <2>2, <2>5, <3>2, <4>1, <4>3
      <4>4. CASE j \in 1 .. Len(queue) /\ k \in 1 .. Len(queue)
        BY <2>2, <3>2, <4>4 DEF IInv, Waiting
      <4> QED BY <4>1, <4>2, <4>3, <4>4
    <3>3. serving' # None => At(serving, "wait")'
      BY <1>1, <2>1, <2>6 DEF IInv, Shape, Waiting, At
    <3> QED BY <3>1, <3>2, <3>3 DEF Waiting
  <2>8. UnderLock'
    BY <1>1, <1>2, <2>1 DEF IInv, UnderLock, At
  <2>9. Adding'
    BY <1>1, <1>2, <2>1 DEF IInv, Adding, At
  <2>10. Distinct'
    BY <1>1 DEF IInv, Distinct
  <2>11. Backed'
    BY <1>1, <2>1 DEF IInv, Backed, AdmittedIsCallable, At
  <2>12. Retirement'
    BY <1>1, <1>2, <2>1 DEF IInv, Retirement, Forgetting, At
  <2> QED BY <2>4, <2>7, <2>8, <2>9, <2>10, <2>11, <2>12 DEF IInv
<1> QED BY <1>3, <1>4 DEF Send

\* A generation that is retired has no entries, and someone who has still to
\* forget its admissions.
LEMMA RetireKeeps ==
  ASSUME IInv, NEW h \in Handlers, Retire(h)
  PROVE  IInv'
<1>1. /\ At(h, "retire") /\ Goto(h, "forget")
      /\ retired' = TRUE /\ entries' = {}
      /\ UNCHANGED <<admissions, nextId, lock, queue, serving, service>>
  BY DEF Retire, admitting, transport
<1>2. /\ handler' \in [Handlers -> HandlerState] /\ handler'[h].pc = "forget"
      /\ \A g \in Handlers : g # h => handler'[g] = handler[g]
  BY <1>1, GotoMoves DEF IInv, PcValues
<1>3. Shape'
  BY <1>1, <1>2 DEF IInv, Shape
<1>4. Waiting'
  BY <1>1, <1>2, NotQueued DEF IInv, Shape, Waiting, At
<1>5. UnderLock' /\ Adding'
  BY <1>1, <1>2 DEF IInv, UnderLock, Adding, At
<1>6. Distinct'
  BY <1>1 DEF IInv, Distinct
<1>7. Backed'
  BY <1>1, <1>2 DEF IInv, Backed, AdmittedIsCallable, At
<1>8. Retirement'
  BY <1>1, <1>2 DEF Retirement, Forgetting, At
<1> QED BY <1>3, <1>4, <1>5, <1>6, <1>7, <1>8 DEF IInv

LEMMA HandleKeeps ==
  ASSUME IInv, NEW h \in Handlers, Handle(h)
  PROVE  IInv'
BY AdmitKeeps, RegisterKeeps, AdmitDoneKeeps, RecheckKeeps, RemoveKeeps,
   UnregisterKeeps, CallKeeps, SendKeeps, RetireKeeps DEF Handle

-----------------------------------------------------------------------------
(* The transport loop and the end of the connection.                       *)

\* The callback at the head of the queue goes to the client.
LEMMA TakeKeeps ==
  ASSUME IInv, Take
  PROVE  IInv'
<1>1. /\ serving = None /\ queue # <<>>
      /\ serving' = Head(queue) /\ queue' = Tail(queue)
      /\ UNCHANGED <<entries, retired, admissions, nextId, lock, handler, service>>
  BY DEF Take, registry, admitting
<1>2. queue \in Seq(Handlers) /\ Len(queue) \in Nat /\ Capacity \in Nat
  BY ClientAssumption DEF IInv, Shape
<1>3. /\ queue' \in Seq(Handlers) /\ Len(queue') = Len(queue) - 1
      /\ Len(queue) >= 1 /\ serving' = queue[1]
      /\ \A k \in 1 .. Len(queue') : queue'[k] = queue[k + 1]
  BY <1>1, <1>2, HeadTailProperties, EmptySeq
<1>4. Shape'
  <2>1. Len(queue') <= Capacity
    BY <1>2, <1>3 DEF IInv, Shape
  <2>2. serving' \in Handlers
    BY <1>2, <1>3, ElementOfSeq
  <2> QED BY <1>1, <1>3, <2>1, <2>2 DEF IInv, Shape
<1>5. Waiting'
  <2>1. \A k \in 1 .. Len(queue') : k + 1 \in 1 .. Len(queue) /\ k + 1 # 1
    BY <1>2, <1>3
  <2>2. 1 \in 1 .. Len(queue)
    BY <1>2, <1>3
  <2>3. \A k \in 1 .. Len(queue') : At(queue[k], "wait")' /\ queue'[k] # serving'
    BY <1>1, <1>3, <2>1, <2>2 DEF IInv, Waiting, At
  <2>4. ASSUME NEW j \in 1 .. Len(queue'), NEW k \in 1 .. Len(queue'),
               queue'[j] = queue'[k]
        PROVE  j = k
    <3>1. j + 1 = k + 1
      BY <1>3, <2>1, <2>4 DEF IInv, Waiting
    <3> QED BY <1>2, <1>3, <3>1
  <2>5. At(serving, "wait")'
    BY <1>1, <1>3, <2>2 DEF IInv, Waiting, At
  <2> QED BY <2>3, <2>4, <2>5 DEF Waiting
<1>6. UnderLock' /\ Adding'
  BY <1>1 DEF IInv, UnderLock, Adding, At
<1>7. Distinct'
  BY <1>1 DEF IInv, Distinct
<1>8. Backed'
  BY <1>1 DEF IInv, Backed, AdmittedIsCallable, At
<1>9. Retirement'
  BY <1>1 DEF IInv, Retirement, Forgetting, At
<1> QED BY <1>4, <1>5, <1>6, <1>7, <1>8, <1>9 DEF IInv

\* The handler that is answered is not in the queue any more.
LEMMA AnswerKeeps ==
  ASSUME IInv, NEW disconnected \in BOOLEAN, Answer(disconnected)
  PROVE  IInv'
<1>1. /\ serving # None /\ serving' = None
      /\ UNCHANGED <<entries, retired, admissions, nextId, lock, queue, service>>
      /\ Goto(serving, "retire") \/ Respond(serving)
  BY DEF Answer, registry, admitting
<1>2. serving \in Handlers /\ At(serving, "wait")
  BY <1>1 DEF IInv, Shape, Waiting
<1>3. /\ handler' \in [Handlers -> HandlerState]
      /\ handler'[serving].pc \in {"idle", "retire"}
      /\ \A g \in Handlers : g # serving => handler'[g] = handler[g]
  BY <1>1, <1>2, GotoMoves, RespondMoves DEF IInv, PcValues, Idle
<1>4. lock # serving
  BY <1>2 DEF IInv, UnderLock, At
<1>5. Shape'
  BY <1>1, <1>3 DEF IInv, Shape
<1>6. Waiting'
  <2>1. \A k \in 1 .. Len(queue) : queue[k] \in Handlers /\ queue[k] # None
    BY ClientAssumption DEF IInv, Shape
  <2> QED BY <1>1, <1>3, <2>1 DEF IInv, Waiting, At
<1>7. UnderLock'
  BY <1>1, <1>3, <1>4 DEF IInv, UnderLock, At
<1>8. Adding'
  BY <1>1, <1>3, <1>4 DEF IInv, Adding, At
<1>9. Distinct'
  BY <1>1 DEF IInv, Distinct
<1>10. Backed'
  BY <1>1, <1>3 DEF IInv, Backed, AdmittedIsCallable, At
<1>11. Retirement'
  BY <1>1, <1>2, <1>3 DEF IInv, Retirement, Forgetting, At
<1> QED BY <1>5, <1>6, <1>7, <1>8, <1>9, <1>10, <1>11 DEF IInv

\* The end of the loop moves the handlers that wait in the queue, and no
\* other: none of those is under the lock or in a retirement.
LEMMA EndLoopKeeps ==
  ASSUME IInv, EndLoop
  PROVE  IInv'
<1>1. /\ serving = None /\ queue' = <<>>
      /\ handler' = [h \in Handlers |-> [handler[h] EXCEPT !.pc = AfterEnd(h)]]
      /\ UNCHANGED <<entries, retired, admissions, nextId, lock, serving, service>>
  BY DEF EndLoop, registry, admitting
<1>2. \A h \in Handlers :
        AfterEnd(h) = handler[h].pc \/ (At(h, "wait") /\ AfterEnd(h) = "retire")
  <2>1. DOMAIN queue = 1 .. Len(queue)
    BY DEF IInv, Shape
  <2> TAKE h \in Handlers
  <2>2. CASE \E k \in DOMAIN queue : queue[k] = h
    <3>1. At(h, "wait")
      BY <2>1, <2>2 DEF IInv, Waiting
    <3>2. AfterEnd(h) = "retire"
      BY <2>2 DEF AfterEnd
    <3> QED BY <3>1, <3>2
  <2>3. CASE ~ \E k \in DOMAIN queue : queue[k] = h
    <3>1. AfterEnd(h) = handler[h].pc
      BY <2>3, Zenon DEF AfterEnd
    <3> QED BY <3>1
  <2> QED BY <2>2, <2>3
<1>3. \A h \in Handlers : AfterEnd(h) \in PcValues
  BY <1>2 DEF IInv, Shape, HandlerState, PcValues
<1>4. ASSUME NEW h \in Handlers
      PROVE  /\ handler'[h] \in HandlerState /\ handler'[h].pc = AfterEnd(h)
             /\ handler'[h].callable = handler[h].callable
             /\ handler'[h].session = handler[h].session
             /\ handler'[h].tool = handler[h].tool
  <2>1. handler[h] \in HandlerState /\ AfterEnd(h) \in PcValues
    BY <1>3 DEF IInv, Shape
  <2>2. handler'[h] = [handler[h] EXCEPT !.pc = AfterEnd(h)]
    BY <1>1
  <2> HIDE DEF AfterEnd
  <2> QED BY <2>1, <2>2 DEF HandlerState
<1>5. queue' \in Seq(Handlers) /\ Len(queue') = 0
  BY <1>1, EmptySeq
<1>6. Shape'
  <2>1. handler' \in [Handlers -> HandlerState]
    BY <1>1, <1>4
  <2>2. Len(queue') <= Capacity
    BY <1>5, ClientAssumption
  <2> QED BY <1>1, <1>5, <2>1, <2>2 DEF IInv, Shape
<1>7. Waiting'
  BY <1>1, <1>5 DEF Waiting
<1>8. UnderLock'
  BY <1>1, <1>2, <1>4 DEF IInv, UnderLock, At
<1>9. Adding'
  BY <1>1, <1>2, <1>4 DEF IInv, UnderLock, Adding, At
<1>10. Distinct'
  BY <1>1 DEF IInv, Distinct
<1>11. Backed'
  BY <1>1, <1>2, <1>4 DEF IInv, Backed, AdmittedIsCallable, At
<1>12. Retirement'
  BY <1>1, <1>2, <1>4 DEF IInv, Retirement, Forgetting, At
<1> QED BY <1>6, <1>7, <1>8, <1>9, <1>10, <1>11, <1>12 DEF IInv

\* The service retires the generation in the same two steps as a handler.
LEMMA ServiceKeeps ==
  ASSUME IInv, RetireClient \/ ForgetClient
  PROVE  IInv'
<1>1. UNCHANGED <<nextId, lock, handler, queue, serving>>
  BY DEF RetireClient, ForgetClient, registry, admitting, transport
<1>2. CASE RetireClient
  <2>1. /\ retired' = TRUE /\ entries' = {} /\ service' = "forget"
        /\ admissions' = admissions
    BY <1>2 DEF RetireClient, admitting
  <2> QED BY <1>1, <2>1 DEF IInv, Shape, Waiting, UnderLock, Adding, Distinct,
             Backed, AdmittedIsCallable, Retirement, Forgetting, At
<1>3. CASE ForgetClient
  <2>1. lock = None /\ admissions' = {} /\ UNCHANGED <<entries, retired>>
    BY <1>3 DEF ForgetClient, registry
  <2>2. Retirement'
    BY <1>1, <2>1, ClientAssumption DEF IInv, UnderLock, Retirement, Forgetting, At
  <2> QED BY <1>1, <2>1, <2>2 DEF IInv, Shape, Waiting, UnderLock, Adding,
             Distinct, Backed, AdmittedIsCallable, At
<1> QED BY <1>2, <1>3

-----------------------------------------------------------------------------

LEMMA IInvStep == IInv /\ [Next]_vars => IInv'
<1> SUFFICES ASSUME IInv, [Next]_vars PROVE IInv'
  OBVIOUS
<1>1. CASE UNCHANGED vars \/ Close
  BY <1>1 DEF vars, Close, registry, admitting, IInv, Shape, Waiting, UnderLock,
     Adding, Distinct, Backed, AdmittedIsCallable, Retirement, Forgetting, At
<1> QED BY <1>1, RequestKeeps, HandleKeeps, TakeKeeps, AnswerKeeps, EndLoopKeeps,
           ServiceKeeps DEF Next, Answered

LEMMA IInvHolds == Spec => []IInv
BY IInvInit, IInvStep, PTL DEF Spec

\* For every number of handlers, tools and callables: the registry, the
\* admissions and the callback queue keep their shape, and a session never
\* gets two admissions for one tool id, although the check for a free id and
\* the admission are steps of their own.
THEOREM TypeCorrect == Spec => []TypeOK
<1>1. IInv => TypeOK
  BY DEF IInv, Shape, Distinct, TypeOK, AdmissionRecord
<1> QED BY <1>1, IInvHolds, PTL

\* A tool that is admitted can be called, however adding, removing and
\* calling tools interleave: its callable stays registered until the last
\* admission that uses it goes (remove_client_tool), or the generation does.
THEOREM AdmittedStaysCallable == Spec => []AdmittedIsCallable
<1>1. IInv => AdmittedIsCallable
  BY DEF IInv, Backed
<1> QED BY <1>1, IInvHolds, PTL

\* A retired generation leaves no registry entry and no admission, whoever
\* retired it, however many did, and whatever handlers were admitting
\* meanwhile (retire_client and the forgetting of the admissions are two
\* steps, with the admissions lock taken in the second).
THEOREM RetirementIsComplete == Spec => []RetiredLeavesNothing
<1>1. IInv => RetiredLeavesNothing
  BY DEF IInv, Retirement, RetiredLeavesNothing, Forgetting
<1> QED BY <1>1, IInvHolds, PTL
=============================================================================
