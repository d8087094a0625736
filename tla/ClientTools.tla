----------------------------- MODULE ClientTools -----------------------------
(***************************************************************************)
(* Tools that a connected client provides: the capability registry         *)
(* (phenix-core/src/capability.rs), the admissions of one connection       *)
(* (phenix-domain/src/client_tools.rs), the application service that       *)
(* handles its requests and the loop that takes callbacks to the client    *)
(* (phenix-acp-stdio/src/transport.rs, client_tools.rs).                   *)
(*                                                                         *)
(* Every request runs on a blocking thread of its own, here a handler.     *)
(* The registry lock is held for one registry operation; the admissions    *)
(* lock is held across an admission and across a removal.  A callback into *)
(* the client goes through a bounded queue; the transport loop takes one   *)
(* at a time and waits for the client's answer before the next.            *)
(*                                                                         *)
(* One connection, that is one client generation, is modelled: admissions  *)
(* are kept per connection and registry entries per generation.  Values    *)
(* and schemas are abstracted to whether they match.                       *)
(***************************************************************************)
EXTENDS Naturals, Sequences, FiniteSets

CONSTANTS
    Handlers,     \* the blocking threads
    Sessions,
    ToolIds,
    Callables,    \* callables of the client's current generation
    Capacity,     \* of the callback queue
    MaxRequests,  \* bound on the requests of the client and the model
    Nesting,      \* whether the client may make requests from a callback and
                  \* answer it only when they are done
    None

ASSUME ClientAssumption ==
    /\ Capacity \in Nat \ {0} /\ MaxRequests \in Nat
    /\ Nesting \in BOOLEAN /\ None \notin Handlers

VARIABLES
    entries,     \* CapabilityRegistry.entries of the client's generation
    retired,     \* whether the registry has retired the generation
    admissions,  \* ClientToolAdmissions.by_id
    nextId,      \* ClientToolAdmissions.next_id
    lock,        \* the holder of the admissions lock, or None
    handler,     \* what each handler is doing
    queue,       \* the callback queue, the handlers that wait in it
    serving,     \* the handler whose callback the client is answering
    loop,        \* the transport loop: "open" or "ended"
    connection,  \* the client's side: "up" or "closed"
    service,     \* serve_sdk_application: "receiving", "forget" or "done"
    requests

vars == <<entries, retired, admissions, nextId, lock, handler, queue, serving,
          loop, connection, service, requests>>

Idle == [pc |-> "idle", session |-> None, tool |-> None, callable |-> None,
         ask |-> FALSE, id |-> 0, granted |-> TRUE, within |-> None]

Init ==
    /\ entries = {} /\ retired = FALSE
    /\ admissions = {} /\ nextId = 0 /\ lock = None
    /\ handler = [h \in Handlers |-> Idle]
    /\ queue = <<>> /\ serving = None
    /\ loop = "open" /\ connection = "up" /\ service = "receiving"
    /\ requests = 0

At(h, pc) == handler[h].pc = pc
Goto(h, pc) == handler' = [handler EXCEPT ![h].pc = pc]

\* The handler responds, with a result or an error.
Respond(h) == handler' = [handler EXCEPT ![h] = Idle]

Admitted(s, tool) == {a \in admissions : a.session = s /\ a.tool = tool}

registry == <<entries, retired>>
admitting == <<admissions, nextId>>
transport == <<queue, serving, loop, connection>>

-----------------------------------------------------------------------------
(* Requests.                                                               *)

\* What a request starts with: AddClientTool, RemoveClientTool,
\* InvokeCallable, InvokeCapability with a client callable in its input, or
\* a tool call of the model (execute_admitted_client_tool_call).
Request(h, pc, s, tool, c, ask, id, within) ==
    /\ At(h, "idle")
    /\ connection = "up" \/ pc = "describe"
    /\ requests < MaxRequests
    /\ within # None => Nesting /\ within = serving /\ pc # "describe"
    /\ requests' = requests + 1
    /\ handler' = [handler EXCEPT ![h] =
                     [pc |-> pc, session |-> s, tool |-> tool,
                      callable |-> c, ask |-> ask, id |-> id,
                      granted |-> pc # "describe", within |-> within]]
    /\ UNCHANGED <<registry, admitting, lock, transport, service>>

-----------------------------------------------------------------------------
(* admit_client_tool and admit_current_client_callable.                    *)

\* The id is in use; the check of ClientToolAdmissions::admit, under the same
\* lock, repeats this one.
Taken(s, tool) == Admitted(s, tool) # {}

Admit(h) ==
    /\ At(h, "add") /\ lock = None
    /\ IF Taken(handler[h].session, handler[h].tool)
       THEN Respond(h) /\ UNCHANGED lock
       ELSE Goto(h, "register") /\ lock' = h
    /\ UNCHANGED <<registry, admitting, transport, service, requests>>

Unlocked(h) == IF lock = h THEN None ELSE lock

\* Where a handler goes once its callable is registered.
Registered(h) == IF lock = h THEN "admit" ELSE "call"

\* Mutant: a retired generation may register again.
StaleNever == FALSE

Stale == retired

\* CapabilityRegistry::register; a duplicate is looked at once more.
Register(h) ==
    LET c == handler[h].callable IN
    /\ handler[h].pc \in {"register", "lift"}
    /\ IF Stale
       THEN Respond(h) /\ lock' = Unlocked(h) /\ UNCHANGED entries
       ELSE /\ entries' = entries \cup {c}
            /\ Goto(h, IF c \in entries THEN "recheck" ELSE Registered(h))
            /\ UNCHANGED lock
    /\ UNCHANGED <<retired, admitting, transport, service, requests>>

\* The schema of the duplicate, read under a lock of its own.
Recheck(h, same) ==
    /\ At(h, "recheck")
    /\ IF ~ retired /\ handler[h].callable \in entries /\ same
       THEN Goto(h, Registered(h)) /\ UNCHANGED lock
       ELSE Respond(h) /\ lock' = Unlocked(h)
    /\ UNCHANGED <<registry, admitting, transport, service, requests>>

Admission(h) ==
    [id |-> nextId + 1, session |-> handler[h].session,
     tool |-> handler[h].tool, callable |-> handler[h].callable,
     ask |-> handler[h].ask]

AdmitDone(h) ==
    /\ At(h, "admit")
    /\ admissions' = admissions \cup {Admission(h)}
    /\ nextId' = nextId + 1
    /\ lock' = None
    /\ Respond(h)
    /\ UNCHANGED <<registry, transport, service, requests>>

-----------------------------------------------------------------------------
(* remove_client_tool.                                                     *)

\* Mutant: the callable goes with the first admission that is removed.
LastUseAny(left, c) == TRUE

\* ~ contains_invoke: no admission that is left uses the callable.
LastUse(left, c) == \A a \in left : a.callable # c

Remove(h) ==
    LET named == {a \in admissions : a.id = handler[h].id
                                     /\ a.session = handler[h].session}
        left == admissions \ named IN
    /\ At(h, "remove") /\ lock = None
    /\ admissions' = left
    /\ IF \E a \in named : LastUse(left, a.callable)
       THEN /\ handler' = [handler EXCEPT ![h].pc = "unregister",
                  ![h].callable = (CHOOSE a \in named : TRUE).callable]
            /\ lock' = h
       ELSE Respond(h) /\ UNCHANGED lock
    /\ UNCHANGED <<registry, nextId, transport, service, requests>>

Unregister(h) ==
    /\ At(h, "unregister")
    /\ entries' = IF retired THEN entries ELSE entries \ {handler[h].callable}
    /\ lock' = None
    /\ Respond(h)
    /\ UNCHANGED <<retired, admitting, transport, service, requests>>

-----------------------------------------------------------------------------
(* Calls: invoke_client_tool, execute_admitted_client_tool_call, and the   *)
(* handler that admit_current_client_callable registers.  The capability   *)
(* that a lifted callable is passed to is taken to call it.                *)

\* The model's call looks at the descriptor, asks for permission if that
\* says so, and then goes through InvokeCallable.
Describe(h) ==
    LET found == Admitted(handler[h].session, handler[h].tool) IN
    /\ At(h, "describe") /\ lock = None
    /\ CASE found = {} -> Respond(h)
         [] \E a \in found : a.ask -> Goto(h, "permission")
         [] OTHER -> Goto(h, "lookup")
    /\ UNCHANGED <<registry, admitting, lock, transport, service, requests>>

Permission(h, allowed) ==
    /\ At(h, "permission")
    /\ IF allowed
       THEN handler' = [handler EXCEPT ![h].pc = "lookup", ![h].granted = TRUE]
       ELSE Respond(h)
    /\ UNCHANGED <<registry, admitting, lock, transport, service, requests>>

Lookup(h) ==
    LET found == Admitted(handler[h].session, handler[h].tool)
        a == CHOOSE a \in found : TRUE IN
    /\ At(h, "lookup") /\ lock = None
    /\ IF found = {} THEN Respond(h)
       ELSE handler' = [handler EXCEPT ![h].pc = "call",
                          ![h].callable = a.callable, ![h].ask = a.ask]
    /\ UNCHANGED <<registry, admitting, lock, transport, service, requests>>

\* CapabilityRegistry::prepare; the handler is called without the lock.
Prepare(h) ==
    /\ At(h, "call")
    /\ IF retired \/ handler[h].callable \notin entries
       THEN Respond(h) ELSE Goto(h, "send")
    /\ UNCHANGED <<registry, admitting, lock, transport, service, requests>>

\* ClientCapabilityCallbacks::invoke: try_send, then wait for the answer.
Send(h) ==
    /\ At(h, "send")
    /\ IF loop = "ended" THEN Goto(h, "retire") /\ UNCHANGED queue
       ELSE IF Len(queue) = Capacity THEN Respond(h) /\ UNCHANGED queue
       ELSE Goto(h, "wait") /\ queue' = Append(queue, h)
    /\ UNCHANGED <<registry, admitting, lock, serving, loop, connection,
                   service, requests>>

\* A disconnected callback retires the generation: the registry first, then
\* the admissions.
Retire(h) ==
    /\ At(h, "retire")
    /\ retired' = TRUE /\ entries' = {}
    /\ Goto(h, "forget")
    /\ UNCHANGED <<admitting, lock, transport, service, requests>>

Forget(h) ==
    /\ At(h, "forget") /\ lock = None
    /\ admissions' = {}
    /\ Respond(h)
    /\ UNCHANGED <<registry, nextId, lock, transport, service, requests>>

-----------------------------------------------------------------------------
(* The transport loop and the end of the connection.                       *)

Take ==
    /\ loop = "open" /\ serving = None /\ queue # <<>>
    /\ serving' = Head(queue) /\ queue' = Tail(queue)
    /\ UNCHANGED <<registry, admitting, lock, handler, loop, connection,
                   service, requests>>

\* The client's answer, once the requests it made from the callback are
\* done, or the error that the connection gives when it is closed.  Only an
\* error of class "disconnected" retires the generation.
Answer(disconnected) ==
    /\ serving # None
    /\ connection = "up" => \A h \in Handlers : handler[h].within # serving
    /\ serving' = None
    /\ IF disconnected THEN Goto(serving, "retire") ELSE Respond(serving)
    /\ UNCHANGED <<registry, admitting, lock, queue, loop, connection,
                   service, requests>>

Close ==
    /\ connection = "up"
    /\ connection' = "closed"
    /\ UNCHANGED <<registry, admitting, lock, handler, queue, serving, loop,
                   service, requests>>

\* Mutant: the callbacks in the queue are not told.
AfterEndSilent(h) == handler[h].pc

\* The receiver is dropped, and with it every callback still in the queue.
AfterEnd(h) ==
    IF \E k \in DOMAIN queue : queue[k] = h THEN "retire" ELSE handler[h].pc

EndLoop ==
    /\ loop = "open" /\ serving = None /\ connection = "closed"
    /\ loop' = "ended"
    /\ handler' = [h \in Handlers |-> [handler[h] EXCEPT !.pc = AfterEnd(h)]]
    /\ queue' = <<>>
    /\ UNCHANGED <<registry, admitting, lock, serving, connection, service,
                   requests>>

\* serve_sdk_application: its channel closes with the transport, while
\* handlers may still run; retire_client.
RetireClient ==
    /\ service = "receiving" /\ loop = "ended"
    /\ retired' = TRUE /\ entries' = {}
    /\ service' = "forget"
    /\ UNCHANGED <<admitting, lock, handler, transport, requests>>

ForgetClient ==
    /\ service = "forget" /\ lock = None
    /\ admissions' = {}
    /\ service' = "done"
    /\ UNCHANGED <<registry, nextId, lock, handler, transport, requests>>

-----------------------------------------------------------------------------

Requested(h) ==
    \E s \in Sessions, w \in {None, serving} :
        \/ \E t \in ToolIds, c \in Callables, ask \in BOOLEAN :
              Request(h, "add", s, t, c, ask, 0, w)
        \/ \E id \in 1 .. nextId : Request(h, "remove", s, None, None, FALSE, id, w)
        \/ \E t \in ToolIds, pc \in {"lookup", "describe"} :
              Request(h, pc, s, t, None, FALSE, 0, w)
        \/ \E c \in Callables : Request(h, "lift", s, None, c, FALSE, 0, w)

Handle(h) ==
    \/ Admit(h) \/ Register(h) \/ AdmitDone(h)
    \/ \E same \in BOOLEAN : Recheck(h, same)
    \/ Remove(h) \/ Unregister(h)
    \/ Describe(h) \/ Lookup(h) \/ Prepare(h) \/ Send(h)
    \/ \E allowed \in BOOLEAN : Permission(h, allowed)
    \/ Retire(h) \/ Forget(h)

Answered == \E disconnected \in BOOLEAN : Answer(disconnected)

Next ==
    \/ \E h \in Handlers : Requested(h) \/ Handle(h)
    \/ Take \/ Answered \/ Close \/ EndLoop
    \/ RetireClient \/ ForgetClient

Spec == Init /\ [][Next]_vars

\* Threads make progress, the transport loop is polled, and the client
\* answers a callback (or its connection is closed and the answer fails).
Fairness ==
    /\ \A h \in Handlers : WF_vars(Handle(h))
    /\ WF_vars(Take) /\ WF_vars(Answered) /\ WF_vars(EndLoop)
    /\ WF_vars(RetireClient) /\ WF_vars(ForgetClient)

FairSpec == Spec /\ Fairness

-----------------------------------------------------------------------------
(* Properties.                                                             *)

\* The shape of the registry, the admissions (at most one for a session and
\* a tool id) and the bounded callback queue.
TypeOK ==
    /\ entries \subseteq Callables /\ retired \in BOOLEAN
    /\ \A a \in admissions : /\ a.id \in 1 .. nextId
                             /\ a.session \in Sessions /\ a.tool \in ToolIds
                             /\ a.callable \in Callables /\ a.ask \in BOOLEAN
    /\ \A a, b \in admissions :
          (a.session = b.session /\ a.tool = b.tool) => a = b
    /\ lock \in Handlers \cup {None}
    /\ queue \in Seq(Handlers) /\ Len(queue) <= Capacity
    /\ serving \in Handlers \cup {None}

\* Once the generation is retired and nobody is left between the two steps
\* of a retirement, it has no registry entry and no admission, although
\* handlers that were admitting a tool went on during the retirement and
\* others start after it.
RetiredLeavesNothing ==
    retired =>
        /\ entries = {}
        /\ (service # "forget" /\ \A h \in Handlers : ~ At(h, "forget"))
              => admissions = {}

\* A tool that is admitted can be called: its callable stays registered
\* until the last admission that uses it goes, or the generation does.
AdmittedIsCallable ==
    \A a \in admissions : a.callable \in entries \/ retired

\* Every request is answered, also the callbacks that were queued or with
\* the client when the connection closed.
EveryRequestEnds ==
    \A h \in Handlers : handler[h].pc # "idle" ~> handler[h].pc = "idle"

-----------------------------------------------------------------------------
(* What a comment or a document says and the code does not do.             *)

\* "Permission runs before the client callback can execute": a tool that
\* asks for permission is not called for the model without one.
PermissionFirst ==
    \A h \in Handlers :
        (handler[h].pc \in {"send", "wait"} /\ handler[h].ask)
            => handler[h].granted

\* "callback reentrancy cannot deadlock the same worker loop": no callback
\* is queued behind a callback that waits for it.
ReentryServed ==
    \A k \in DOMAIN queue : serving # None => handler[queue[k]].within # serving
=============================================================================
