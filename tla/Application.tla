---------------------------- MODULE Application ----------------------------
(***************************************************************************)
(* The application worker of the harness                                   *)
(* (src/rust/crates/phenix-harness/src/application.rs): sessions with a    *)
(* durable journal, the in-memory projection of it, the bounded queue of   *)
(* session updates to the client, and the prompts that run an agent on a   *)
(* thread of its own.                                                      *)
(*                                                                         *)
(* serve_application_worker is one loop, so each request and each          *)
(* execution event is one step.  An execution's thread takes a step        *)
(* between two of its accesses to shared cells: the cancellation flag, the *)
(* harness, the bounded channel of execution events.  The harness lock     *)
(* only delays: while a model call holds it, the worker's next step waits. *)
(*                                                                         *)
(* Left out: contents of messages, titles and tool calls; requests that    *)
(* are refused before they change anything (a wrong input, no tool         *)
(* surface); more than one tool call in a turn, which are a turn each; the *)
(* session and execution services answer, so what can refuse               *)
(* a change is a closed session and the client's event queue.              *)
(***************************************************************************)
EXTENDS Integers, Sequences, SequencesExt

CONSTANTS
    Sessions,            \* session ids the worker may allocate
    EventCapacity,       \* APPLICATION_EVENT_CAPACITY
    ExecutionCapacity,   \* APPLICATION_EXECUTION_CAPACITY
    TurnLimit,           \* model turns of one prompt (16 in the code)
    MaxPrompts,          \* bound: prompts over the whole behaviour
    MaxJournal,          \* bound: journal length at which requests stop
    MaxRestarts          \* bound: restarts of the process

ASSUME ApplicationConstants ==
    /\ EventCapacity \in Nat \ {0}
    /\ ExecutionCapacity \in Nat \ {0}
    /\ TurnLimit \in Nat \ {0}
    /\ MaxPrompts \in Nat
    /\ MaxJournal \in Nat
    /\ MaxRestarts \in Nat

VARIABLES
    lifecycle,    \* durable: [Sessions -> {"absent", "open", "closed"}]
    journal,      \* durable: the session's changes, sequence n at index n
    execution,    \* by execution: durable state, thread, flag and reply
    allocated,    \* durable: executions allocated so far
    projection,   \* the observable projection: a journal prefix or Missing
    active,       \* [Sessions -> the execution of the running prompt or None]
    events,       \* session updates queued for the client
    channel,      \* execution events queued for the worker
    view,         \* the client: last sequence applied, or Unsynced
    connected,    \* the client reads events and may still send requests
    serving,      \* the worker's loop runs
    restarts

vars == <<lifecycle, journal, execution, allocated, projection, active,
          events, channel, view, connected, serving, restarts>>

None == 0
Unsynced == -1
Executions == 1..MaxPrompts

(* One prompt: the root execution's durable state, the thread that runs    *)
(* the agent, and the reply the client waits for.                          *)
Unused == [session |-> "none", root |-> "unused", flag |-> FALSE,
           pc |-> "ended", turns |-> 0, result |-> "none",
           answer |-> "unasked"]

(* A change that belongs to execution e, or to none of them.               *)
Change(kind, e) == [kind |-> kind, execution |-> e]

(* No projection: the session was not touched since the process started.   *)
Missing == <<Change("missing", None)>>

(* The values the worker, its queues and its prompts take.                 *)
TypeOK ==
    /\ lifecycle \in [Sessions -> {"absent", "open", "closed"}]
    /\ allocated \in 0..MaxPrompts
    /\ \A s \in Sessions : active[s] \in {None} \cup (1..allocated)
    /\ Len(events) <= EventCapacity
    /\ Len(channel) <= ExecutionCapacity
    /\ \A e \in Executions :
         /\ execution[e].root \in {"unused", "active", "completed", "failed"}
         /\ execution[e].turns \in 0..TurnLimit
         /\ execution[e].answer \in
              {"unasked", "pending", "end", "cancelled", "error", "lost"}

Init ==
    /\ lifecycle = [s \in Sessions |-> "absent"]
    /\ journal = [s \in Sessions |-> <<>>]
    /\ execution = [e \in Executions |-> Unused]
    /\ allocated = 0
    /\ projection = [s \in Sessions |-> Missing]
    /\ active = [s \in Sessions |-> None]
    /\ events = <<>>
    /\ channel = <<>>
    /\ view = [s \in Sessions |-> Unsynced]
    /\ connected = TRUE
    /\ serving = TRUE
    /\ restarts = 0

-----------------------------------------------------------------------------
(* Changes.                                                                *)

(* The update that tells the client of the n-th change of session s.       *)
Update(s, n) == [session |-> s, sequence |-> n]

(* What the appends of one handler write; ok is FALSE once one failed.     *)
Written == [ok |-> TRUE, journal |-> journal, projection |-> projection,
            events |-> events]

\* Mutant: no slot is looked for.
ReservedUnchecked(w) == TRUE

(* reserve_session_event_slot: a change the client could not be told of is *)
(* refused before it is journaled.                                         *)
Reserved(w) == connected /\ Len(w.events) < EventCapacity

\* Mutant: an update is appended to whatever projection there is.
ProjectedUnrepaired(projected, entries) ==
    IF projected = Missing THEN <<Last(entries)>>
    ELSE Append(projected, Last(entries))

(* project_journal_entry: the update extends a projection it is next to;   *)
(* otherwise the projection is repaired from the whole journal, which      *)
(* already holds the update.                                               *)
Projected(projected, entries) ==
    IF projected # Missing /\ Len(projected) + 1 = Len(entries)
    THEN Append(projected, Last(entries))
    ELSE entries

(* append_session_change: reserve, journal, project, emit (try_send).      *)
Appended(w, s, change) ==
    LET entries == Append(w.journal[s], change) IN
    IF ~w.ok \/ ~Reserved(w) THEN [w EXCEPT !.ok = FALSE]
    ELSE [ok |-> Len(w.events) < EventCapacity,
          journal |-> [w.journal EXCEPT ![s] = entries],
          projection |-> [w.projection EXCEPT
                            ![s] = Projected(w.projection[s], entries)],
          events |-> IF Len(w.events) < EventCapacity
                     THEN Append(w.events, Update(s, Len(entries)))
                     ELSE w.events]

(* require_open_application_session comes before a handler's appends, and  *)
(* `?` after each: the first failure ends them, what was appended stays.   *)
Opened(s) == [Written EXCEPT !.ok = lifecycle[s] = "open"]

AppendOne(s, kind, e) == Appended(Opened(s), s, Change(kind, e))

Write(w) ==
    /\ journal' = w.journal
    /\ projection' = w.projection
    /\ events' = w.events

-----------------------------------------------------------------------------
(* Session requests.                                                       *)

Accepts == serving /\ connected

CreateSession(s) ==
    /\ Accepts
    /\ lifecycle[s] = "absent"
    /\ lifecycle' = [lifecycle EXCEPT ![s] = "open"]
    /\ projection' = [projection EXCEPT ![s] = <<>>]
    /\ view' = [view EXCEPT ![s] = 0]
    /\ UNCHANGED <<journal, execution, allocated, active, events, channel,
                   connected, serving, restarts>>

(* rename_session and decide_review: one change of an open session.        *)
ChangeSession(s) ==
    LET w == AppendOne(s, "changed", None) IN
    /\ Accepts
    /\ Len(journal[s]) < MaxJournal
    /\ w.ok
    /\ Write(w)
    /\ UNCHANGED <<lifecycle, execution, allocated, active, channel, view,
                   connected, serving, restarts>>

(* close_session: record and journal in one durable transaction.  A prompt *)
(* that runs in the session is left alone.                                 *)
CloseSession(s) ==
    LET w == AppendOne(s, "closed", None) IN
    /\ Accepts
    /\ w.ok
    /\ Write(w)
    /\ lifecycle' = [lifecycle EXCEPT ![s] = "closed"]
    /\ UNCHANGED <<execution, allocated, active, channel, view, connected,
                   serving, restarts>>

(* resume_session: the client catches up from the journal.  Without        *)
(* after_sequence the projection is replaced as well.                      *)
ResumeSession(s, full) ==
    /\ Accepts
    /\ lifecycle[s] # "absent"
    /\ full \/ view[s] # Unsynced
    /\ view' = [view EXCEPT ![s] = Len(journal[s])]
    /\ projection' = IF full THEN [projection EXCEPT ![s] = journal[s]]
                             ELSE projection
    /\ UNCHANGED <<lifecycle, journal, execution, allocated, active, events,
                   channel, connected, serving, restarts>>

-----------------------------------------------------------------------------
(* Prompts.                                                                *)

(* start_prompt, with prompt and allocate_root_execution.  registered: the *)
(* root budget was accepted.  A prompt refused after the user's message    *)
(* was journaled leaves its execution active.                              *)
StartPrompt(s, registered) ==
    LET e == allocated + 1
        user == AppendOne(s, "user", None)
        both == Appended(user, s, Change("running", e))
        refused == [Unused EXCEPT !.session = s, !.answer = "error"]
    IN
    /\ Accepts
    /\ allocated < MaxPrompts
    /\ lifecycle[s] = "open"
    /\ active[s] = None
    /\ allocated' = e
    /\ \/ /\ ~registered \/ ~user.ok
          /\ execution' = [execution EXCEPT
                             ![e] = [refused EXCEPT !.root = "failed"]]
          /\ Write(IF registered THEN user ELSE Written)
          /\ UNCHANGED active
       \/ /\ registered /\ user.ok /\ ~both.ok
          /\ execution' = [execution EXCEPT
                             ![e] = [refused EXCEPT !.root = "active"]]
          /\ Write(both)
          /\ UNCHANGED active
       \/ /\ registered /\ both.ok
          /\ execution' = [execution EXCEPT
                             ![e] = [Unused EXCEPT !.session = s,
                                                   !.root = "active",
                                                   !.pc = "turn",
                                                   !.answer = "pending"]]
          /\ Write(both)
          /\ active' = [active EXCEPT ![s] = e]
    /\ UNCHANGED <<lifecycle, channel, view, connected, serving, restarts>>

(* finish_root_execution; an execution that is not active is refused.      *)
Finished(x, success) ==
    [x EXCEPT !.root = IF @ # "active" THEN @
                       ELSE IF success THEN "completed" ELSE "failed"]

(* cancel_prompt: answers at once; the thread only sees the flag.          *)
CancelPrompt(s) ==
    LET e == active[s] IN
    /\ Accepts
    /\ lifecycle[s] = "open"
    /\ e # None
    /\ active' = [active EXCEPT ![s] = None]
    /\ execution' = [execution EXCEPT
                       ![e] = [Finished(@, FALSE) EXCEPT
                                 !.flag = TRUE, !.answer = "cancelled"]]
    /\ Write(AppendOne(s, "cancelled", e))
    /\ UNCHANGED <<lifecycle, allocated, channel, view, connected, serving,
                   restarts>>

\* Mutant: progress is ignored only when no prompt runs at all.
IgnoredIfIdle(x) == active[x.session] = None

(* handle_execution_progress ignores what is not the running prompt's.     *)
Ignored(x) == active[x.session] # x.execution

HandleProgress(x) ==
    LET s == x.session
        e == active[s]
        w == AppendOne(s, "progress", x.execution)
    IN
    /\ x.kind = "progress"
    /\ \/ Ignored(x) /\ UNCHANGED <<journal, projection, events, execution,
                                    active>>
       \/ /\ ~Ignored(x)
          /\ Write(w)
          /\ active' = [active EXCEPT ![s] = IF w.ok THEN @ ELSE None]
          /\ execution' =
               IF w.ok THEN execution
               ELSE [execution EXCEPT
                       ![e] = [Finished(@, FALSE) EXCEPT
                                 !.flag = TRUE, !.answer = "error"]]

(* complete_prompt_output.                                                 *)
Output(s, e) ==
    LET text == AppendOne(s, "text", e)
        message == Appended(text, s, Change("message", None))
    IN Appended(message, s, Change("completed", e))

\* Mutant: the outcome of the appends is not looked at.
OutputAnswerRegardless(ok) == "end"

(* The reply to a prompt whose output was, or was not, journaled.          *)
OutputAnswer(ok) == IF ok THEN "end" ELSE "error"

(* finish_prompt: the entry is removed before the identities are compared, *)
(* so a completion that comes late fails the prompt that runs now.  (Its    *)
(* answer for a raised flag is not needed: who raises the flag of a prompt *)
(* also removes the prompt.)                                               *)
HandleComplete(x) ==
    LET s == x.session
        e == active[s]
        output == Output(s, e)
        failed == AppendOne(s, "failed", e)
    IN
    /\ x.kind = "complete"
    /\ active' = [active EXCEPT ![s] = None]
    /\ \/ /\ e # x.execution
          /\ execution' = IF e = None THEN execution
                          ELSE [execution EXCEPT ![e].answer = "error"]
          /\ UNCHANGED <<journal, projection, events>>
       \/ /\ e = x.execution /\ x.result = "ok"
          /\ Write(output)
          /\ execution' = [execution EXCEPT
                             ![e] = [Finished(@, TRUE) EXCEPT
                                       !.answer = OutputAnswer(output.ok)]]
       \/ /\ e = x.execution /\ x.result = "error"
          /\ Write(failed)
          /\ execution' = [execution EXCEPT
                             ![e] = [Finished(@, FALSE) EXCEPT
                                       !.answer = "error"]]

(* The second arm of the select: only looked at while a prompt runs.       *)
HandleEvent ==
    /\ serving
    /\ \E s \in Sessions : active[s] # None
    /\ channel # <<>>
    /\ HandleProgress(Head(channel)) \/ HandleComplete(Head(channel))
    /\ channel' = Tail(channel)
    /\ UNCHANGED <<lifecycle, allocated, view, connected, serving, restarts>>

-----------------------------------------------------------------------------
(* run_agent_execution, on its own thread.                                 *)

Moved(e, x) ==
    /\ execution' = [execution EXCEPT ![e] = x]
    /\ UNCHANGED <<lifecycle, journal, allocated, projection, active, events,
                   view, connected, serving, restarts>>

Ends(e, result) == [execution[e] EXCEPT !.pc = "complete", !.result = result]

(* One turn of the loop.  It ends the run when the flag is up before or    *)
(* after the agent loop's service is called, when the turns are used up or *)
(* the call fails; otherwise there is the output or a tool call.           *)
Turn(e) ==
    LET goesOn == ~execution[e].flag /\ execution[e].turns < TurnLimit IN
    /\ execution[e].pc = "turn"
    /\ \/ Moved(e, Ends(e, "error"))
       \/ goesOn /\ Moved(e, Ends(e, "ok"))
       \/ goesOn /\ Moved(e, [execution[e] EXCEPT !.pc = "call",
                                                 !.turns = @ + 1])
    /\ UNCHANGED channel

(* blocking_send: waits for room, fails when the worker is gone.           *)
Sent(x) ==
    /\ serving /\ Len(channel) < ExecutionCapacity
    /\ channel' = Append(channel, x)

Progress(e) == [kind |-> "progress", session |-> execution[e].session,
                execution |-> e, result |-> "none"]

Call(e) ==
    /\ execution[e].pc = "call"
    /\ \/ execution[e].flag /\ Moved(e, Ends(e, "error")) /\ UNCHANGED channel
       \/ /\ ~execution[e].flag
          /\ Sent(Progress(e))
          /\ Moved(e, [execution[e] EXCEPT !.pc = "tool"])
       \/ ~execution[e].flag /\ ~serving /\ Moved(e, Ends(e, "error"))
          /\ UNCHANGED channel

(* The tool call returned; a cancelled one ends the run.                   *)
Tool(e) ==
    /\ execution[e].pc = "tool"
    /\ \/ Moved(e, Ends(e, "error")) /\ UNCHANGED channel
       \/ /\ Sent(Progress(e))
          /\ Moved(e, [execution[e] EXCEPT !.pc = "turn"])

Completion(e) == [kind |-> "complete", session |-> execution[e].session,
                  execution |-> e, result |-> execution[e].result]

(* The thread and its locals are gone.                                     *)
Gone(x) == [x EXCEPT !.pc = "ended", !.turns = 0, !.result = "none",
                     !.flag = FALSE]

\* Mutant: the completion is tried once and dropped when there is no room.
CompletionTried(e) ==
    \/ Sent(Completion(e))
    \/ (~serving \/ Len(channel) = ExecutionCapacity) /\ UNCHANGED channel

(* The completion waits for room like the rest; without a worker it is     *)
(* dropped.                                                                *)
CompletionSent(e) ==
    Sent(Completion(e)) \/ (~serving /\ UNCHANGED channel)

Complete(e) ==
    /\ execution[e].pc = "complete"
    /\ CompletionSent(e)
    /\ Moved(e, Gone(execution[e]))

ExecutionStep(e) == Turn(e) \/ Call(e) \/ Tool(e) \/ Complete(e)

-----------------------------------------------------------------------------
(* The client and the process.                                             *)

(* The client applies the next update and drops one it has by a snapshot.  *)
Receive ==
    LET x == Head(events) IN
    /\ connected
    /\ events # <<>>
    /\ events' = Tail(events)
    /\ view' = IF view[x.session] = Unsynced \/ x.sequence <= view[x.session]
               THEN view
               ELSE [view EXCEPT ![x.session] = x.sequence]
    /\ UNCHANGED <<lifecycle, journal, execution, allocated, projection,
                   active, channel, connected, serving, restarts>>

(* Standard input ends: no request comes and no update is read any more.   *)
Disconnect ==
    /\ connected
    /\ connected' = FALSE
    /\ events' = <<>>
    /\ view' = [s \in Sessions |-> Unsynced]
    /\ UNCHANGED <<lifecycle, journal, execution, allocated, projection,
                   active, channel, serving, restarts>>

(* The loop ends once the input is closed and no prompt runs.              *)
Retire ==
    /\ serving /\ ~connected
    /\ \A s \in Sessions : active[s] = None
    /\ serving' = FALSE
    /\ channel' = <<>>
    /\ UNCHANGED <<lifecycle, journal, execution, allocated, projection,
                   active, events, view, connected, restarts>>

(* The process ends at any point and is started again: what is not durable *)
(* is gone.                                                                *)
Restart ==
    /\ restarts < MaxRestarts
    /\ restarts' = restarts + 1
    /\ projection' = [s \in Sessions |-> Missing]
    /\ active' = [s \in Sessions |-> None]
    /\ events' = <<>>
    /\ channel' = <<>>
    /\ view' = [s \in Sessions |-> Unsynced]
    /\ connected' = TRUE
    /\ serving' = TRUE
    /\ execution' = [e \in Executions |->
                       [Gone(execution[e]) EXCEPT
                          !.answer = IF @ = "pending" THEN "lost" ELSE @]]
    /\ UNCHANGED <<lifecycle, journal, allocated>>

Next ==
    \/ \E s \in Sessions :
         \/ CreateSession(s) \/ ChangeSession(s) \/ CloseSession(s)
         \/ CancelPrompt(s)
         \/ \E full \in BOOLEAN : ResumeSession(s, full)
         \/ \E registered \in BOOLEAN : StartPrompt(s, registered)
    \/ HandleEvent
    \/ \E e \in Executions : ExecutionStep(e)
    \/ Receive \/ Disconnect \/ Retire \/ Restart

Spec == Init /\ [][Next]_vars

(* The select takes an event while there is one to take; an execution's    *)
(* thread runs, its model and tool calls return.  Requests, the client's   *)
(* reading, disconnections and restarts need not happen.                   *)
FairSpec ==
    Spec /\ WF_vars(HandleEvent)
         /\ \A e \in Executions : WF_vars(ExecutionStep(e))

-----------------------------------------------------------------------------
(* Properties.                                                             *)

(* Between two steps of the worker a projected session is exactly its      *)
(* journal: a failed append projects nothing, and after a restart the      *)
(* first change repairs the projection (project_journal_entry).            *)
ProjectionFollowsJournal ==
    \A s \in Sessions : projection[s] \in {Missing, journal[s]}

(* A client that has taken a snapshot misses nothing: every later change   *)
(* of the session is still queued for it, once and in the journal's order. *)
(* The slot is reserved before the change is journaled                     *)
(* (reserve_session_event_slot).                                           *)
NoUpdateLost ==
    \A s \in Sessions : view[s] # Unsynced =>
        /\ \A n \in (view[s] + 1)..Len(journal[s]) :
             \E i \in DOMAIN events : events[i] = Update(s, n)
        /\ \A i, j \in DOMAIN events :
             (events[i].session = s /\ events[j].session = s /\ i < j)
                => events[i].sequence < events[j].sequence
        /\ \A i \in DOMAIN events :
             events[i].session = s => events[i].sequence <= Len(journal[s])

(* What the journal of session s says of execution e, and where.           *)
StoryOf(e, s) ==
    LET about == {n \in DOMAIN journal[s] : journal[s][n].execution = e}
    IN [n \in about |-> journal[s][n].kind]

(* Once the prompt of an execution is answered, nothing more of that       *)
(* execution is journaled, however late its thread reports and whatever    *)
(* prompt runs in the session by then (handle_execution_progress).         *)
NothingAfterTheAnswer ==
    [][\A e \in Executions, s \in Sessions :
         execution[e].answer \notin {"unasked", "pending"}
            => StoryOf(e, s)' = StoryOf(e, s)]_vars

(* What the client is told agrees with what is durable: a prompt that      *)
(* ended normally has its execution completed and its whole output in the  *)
(* journal, a cancelled one has its execution failed.                      *)
AnswerIsTrue ==
    \A e \in Executions :
        /\ execution[e].answer = "end" =>
             /\ execution[e].root = "completed"
             /\ \E s \in Sessions : \E n \in DOMAIN StoryOf(e, s) :
                  /\ StoryOf(e, s)[n] = "completed"
                  /\ \A m \in DOMAIN StoryOf(e, s) : m <= n
        /\ execution[e].answer = "cancelled" => execution[e].root = "failed"

(* Every prompt that was accepted is answered, also when the event queue   *)
(* stays full, the session is closed meanwhile or the client goes away.    *)
PromptsAnswered ==
    \A e \in Executions :
        execution[e].answer = "pending" ~> execution[e].answer # "pending"

(* A prompt that was answered has ended its root execution: the test       *)
(* prompt_journal_failure_finishes_prepared_root_execution.                *)
AnsweredHasEnded ==
    \A e \in Executions :
        execution[e].answer \in {"end", "cancelled", "error"}
            => execution[e].root # "active"
=============================================================================
