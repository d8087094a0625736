------------------------- MODULE ApplicationProofs -------------------------
(* Proofs about Application, for any number of sessions and prompts, any   *)
(* capacities and restarts: the journal, its projection, the client's      *)
(* queue and the answers agree.                                            *)
EXTENDS Application, SequenceTheorems, TLAPS

Kinds == {"missing", "changed", "closed", "user", "running", "progress",
          "text", "message", "completed", "cancelled", "failed"}
Changes == [kind : Kinds, execution : 0..MaxPrompts]
Updates == [session : Sessions, sequence : Nat]
Reports == [kind : {"progress", "complete"}, session : Sessions,
            execution : Executions, result : {"none", "ok", "error"}]
Prompts == [session : Sessions \cup {"none"},
            root : {"unused", "active", "completed", "failed"},
            flag : BOOLEAN,
            pc : {"ended", "turn", "call", "tool", "complete"},
            turns : 0..TurnLimit,
            result : {"none", "ok", "error"},
            answer : {"unasked", "pending", "end", "cancelled", "error", "lost"}]

\* A prompt whose client still waits, or that was not made yet.
Unanswered == {"unasked", "pending"}

\* Updates of one session are queued in the journal's order.
Queue(j, ev) ==
  \A s \in Sessions :
    /\ \A i, k \in 1..Len(ev) :
         (ev[i].session = s /\ ev[k].session = s /\ i < k)
            => ev[i].sequence < ev[k].sequence
    /\ \A i \in 1..Len(ev) : ev[i].session = s => ev[i].sequence <= Len(j[s])

\* Those that a client with a snapshot has still to hear of are queued.
Heard(j, ev, v) ==
  \A s \in Sessions : v[s] # Unsynced =>
    \A n \in (v[s] + 1)..Len(j[s]) : \E i \in 1..Len(ev) : ev[i] = Update(s, n)

\* What the journals, their projections, the client's queue and its view have
\* to do with each other.
Books(j, p, ev, v, l) ==
  /\ j \in [Sessions -> Seq(Changes)]
  /\ p \in [Sessions -> Seq(Changes)]
  /\ ev \in Seq(Updates) /\ Len(ev) <= EventCapacity
  /\ \A s \in Sessions : p[s] \in {Missing, j[s]}
  /\ Queue(j, ev)
  /\ Heard(j, ev, v)
  /\ \A s \in Sessions : l[s] = "absent" => j[s] = <<>>

\* The journals are extended, by changes of no execution or of one that is
\* not answered.
Grown(j) ==
  \A s \in Sessions :
    /\ Len(journal[s]) <= Len(j[s])
    /\ \A n \in 1..Len(journal[s]) : j[s][n] = journal[s][n]
    /\ \A n \in (Len(journal[s]) + 1)..Len(j[s]) :
         \/ j[s][n].execution = None
         \/ execution[j[s][n].execution].answer \in Unanswered

Typed ==
  /\ lifecycle \in [Sessions -> {"absent", "open", "closed"}]
  /\ view \in [Sessions -> Nat \cup {Unsynced}]
  /\ allocated \in 0..MaxPrompts
  /\ active \in [Sessions -> 0..MaxPrompts]
  /\ channel \in Seq(Reports) /\ Len(channel) <= ExecutionCapacity
  /\ execution \in [Executions -> Prompts]

\* A thread that has not ended runs a prompt of a session; an execution that
\* is not allocated has none.
Threads ==
  \A e \in Executions :
    /\ execution[e].pc # "ended" => execution[e].session \in Sessions
    /\ e > allocated => execution[e].answer = "unasked" /\ execution[e].pc = "ended"

\* The prompt that runs in a session is the session's, its execution is
\* active and its client waits.
Running ==
  \A s \in Sessions : active[s] # None =>
    /\ active[s] <= allocated
    /\ execution[active[s]].session = s
    /\ execution[active[s]].root = "active"
    /\ execution[active[s]].answer = "pending"

IInv == /\ Typed /\ Threads /\ Running /\ AnswerIsTrue
        /\ Books(journal, projection, events, view, lifecycle)

-----------------------------------------------------------------------------
(* What an append does.                                                    *)

\* What the appends of a handler have written so far.
Extends(w) ==
  /\ w = [ok |-> w.ok, journal |-> w.journal, projection |-> w.projection,
          events |-> w.events]
  /\ w.ok \in BOOLEAN
  /\ Books(w.journal, w.projection, w.events, view, lifecycle)
  /\ Grown(w.journal)

LEMMA UnwrittenExtends ==
  ASSUME Typed, Books(journal, projection, events, view, lifecycle),
         NEW ok \in BOOLEAN, NEW w,
         w = [ok |-> ok, journal |-> journal, projection |-> projection,
              events |-> events]
  PROVE  Extends(w) /\ (w.ok <=> ok)
<1>1. /\ w.journal = journal /\ w.projection = projection /\ w.events = events
      /\ w.ok = ok
  OBVIOUS
<1>2. Grown(journal)
  <2>1. \A u \in Sessions : Len(journal[u]) \in Nat
    BY DEF Books
  <2> QED
    BY <2>1 DEF Grown
<1> QED
  BY <1>1, <1>2 DEF Extends

LEMMA OpenedExtends ==
  ASSUME Typed, Books(journal, projection, events, view, lifecycle),
         NEW s \in Sessions, NEW w, w = Opened(s)
  PROVE  Extends(w) /\ (w.ok <=> lifecycle[s] = "open")
<1>1. PICK ok \in BOOLEAN : ok = (lifecycle[s] = "open")
  OBVIOUS
<1>2. w = [ok |-> ok, journal |-> journal, projection |-> projection,
           events |-> events]
  BY <1>1 DEF Opened, Written
<1> QED
  BY <1>1, <1>2, UnwrittenExtends

\* The projection of a session follows when the journal is extended.
LEMMA ProjectedFollows ==
  ASSUME NEW p \in Seq(Changes), NEW j \in Seq(Changes), NEW c \in Changes,
         p \in {Missing, j}
  PROVE  Projected(p, Append(j, c)) = Append(j, c)
<1>1. /\ Append(j, c) \in Seq(Changes)
      /\ Len(Append(j, c)) = Len(j) + 1
      /\ Append(j, c)[Len(j) + 1] = c
  BY AppendProperties
<1>2. Last(Append(j, c)) = c
  BY <1>1 DEF Last
<1> QED
  BY <1>2 DEF Projected

\* append_session_change keeps the books, and what it wrote comes last.
LEMMA AppendedExtends ==
  ASSUME Typed, NEW s \in Sessions, NEW w, Extends(w),
         w.ok => lifecycle[s] = "open",
         NEW c \in Changes,
         c.execution = None \/ execution[c.execution].answer \in Unanswered,
         Books(journal, projection, events, view, lifecycle),
         NEW w1, w1 = Appended(w, s, c)
  PROVE  /\ Extends(w1)
         /\ w1.ok => /\ w.ok
                     /\ Len(journal[s]) < Len(w1.journal[s])
                     /\ w1.journal[s][Len(w1.journal[s])] = c
<1> DEFINE entries == Append(w.journal[s], c)
           j1 == [w.journal EXCEPT ![s] = entries]
           p1 == [w.projection EXCEPT ![s] = Projected(w.projection[s], entries)]
           ev1 == Append(w.events, Update(s, Len(entries)))
<1>0. /\ w = [ok |-> w.ok, journal |-> w.journal, projection |-> w.projection,
              events |-> w.events]
      /\ w.ok \in BOOLEAN
      /\ Books(w.journal, w.projection, w.events, view, lifecycle)
      /\ Grown(w.journal)
  BY DEF Extends
<1>1. CASE ~w.ok \/ ~Reserved(w)
  <2>1. w1 = [w EXCEPT !.ok = FALSE]
    BY <1>1 DEF Appended
  <2>2. w1 = [ok |-> FALSE, journal |-> w.journal, projection |-> w.projection,
              events |-> w.events]
    BY <1>0, <2>1
  <2>3. /\ w1.ok = FALSE /\ w1.journal = w.journal
        /\ w1.projection = w.projection /\ w1.events = w.events
    BY <2>2
  <2> QED
    BY <1>0, <2>2, <2>3 DEF Extends
<1>2. CASE w.ok /\ Reserved(w)
  <2>1. Len(w.events) < EventCapacity
    BY <1>2 DEF Reserved
  <2>2. w1 = [ok |-> TRUE, journal |-> j1, projection |-> p1, events |-> ev1]
    BY <1>2, <2>1 DEF Appended
  <2>3. w1.ok = TRUE /\ w1.journal = j1 /\ w1.projection = p1 /\ w1.events = ev1
    BY <2>2
  <2>4. /\ w.journal \in [Sessions -> Seq(Changes)]
        /\ w.projection \in [Sessions -> Seq(Changes)]
        /\ w.events \in Seq(Updates)
        /\ w.projection[s] \in {Missing, w.journal[s]}
    BY <1>0 DEF Books
  <2>5. /\ entries \in Seq(Changes)
        /\ Len(entries) = Len(w.journal[s]) + 1
        /\ \A n \in 1..Len(w.journal[s]) : entries[n] = w.journal[s][n]
        /\ entries[Len(w.journal[s]) + 1] = c
        /\ Len(w.journal[s]) \in Nat
    BY <2>4, AppendProperties
  <2>6. Projected(w.projection[s], entries) = entries
    BY <2>4, ProjectedFollows
  <2>7. /\ ev1 \in Seq(Updates) /\ Len(ev1) = Len(w.events) + 1
        /\ \A i \in 1..Len(w.events) : ev1[i] = w.events[i]
        /\ ev1[Len(w.events) + 1] = Update(s, Len(entries))
        /\ Len(w.events) \in Nat
    <3>1. Update(s, Len(entries)) \in Updates
      BY <2>5 DEF Update, Updates
    <3> QED
      BY <2>4, <3>1, AppendProperties
  <2>8. /\ j1[s] = entries /\ \A u \in Sessions \ {s} : j1[u] = w.journal[u]
        /\ p1[s] = entries /\ \A u \in Sessions \ {s} : p1[u] = w.projection[u]
        /\ j1 \in [Sessions -> Seq(Changes)]
        /\ p1 \in [Sessions -> Seq(Changes)]
    BY <2>4, <2>5, <2>6
  <2> HIDE DEF entries, j1, p1, ev1
  <2>9. Len(ev1) <= EventCapacity
    BY <2>1, <2>7, ApplicationConstants
  <2>10. \A u \in Sessions : p1[u] \in {Missing, j1[u]}
    BY <1>0, <2>8 DEF Books
  <2>11. \A i \in 1..Len(w.events) : w.events[i] \in Updates
    BY <2>4, ElementOfSeq
  <2>12. \A u \in Sessions : Len(w.journal[u]) \in Nat
    BY <2>4
  <2>13. Queue(j1, ev1)
    <3> SUFFICES ASSUME NEW u \in Sessions
                 PROVE  /\ \A i, k \in 1..Len(ev1) :
                             (ev1[i].session = u /\ ev1[k].session = u /\ i < k)
                                => ev1[i].sequence < ev1[k].sequence
                        /\ \A i \in 1..Len(ev1) :
                             ev1[i].session = u => ev1[i].sequence <= Len(j1[u])
      BY DEF Queue
    <3>1. /\ \A i, k \in 1..Len(w.events) :
               (w.events[i].session = u /\ w.events[k].session = u /\ i < k)
                  => w.events[i].sequence < w.events[k].sequence
          /\ \A i \in 1..Len(w.events) : w.events[i].session = u =>
               w.events[i].sequence <= Len(w.journal[u])
      BY <1>0 DEF Books, Queue
    <3>2. /\ ev1[Len(w.events) + 1].session = s
          /\ ev1[Len(w.events) + 1].sequence = Len(w.journal[s]) + 1
      BY <2>5, <2>7 DEF Update
    <3>3. \A i \in 1..Len(w.events) : w.events[i].sequence \in Nat
      BY <2>11 DEF Updates
    <3>4. Len(w.journal[u]) <= Len(j1[u]) /\ Len(j1[s]) = Len(w.journal[s]) + 1
      BY <2>5, <2>8, <2>12
    <3>5. Len(j1[u]) \in Nat
      BY <2>8
    <3>6. Len(w.journal[u]) \in Nat /\ Len(w.journal[s]) \in Nat
      BY <2>12
    <3>7. ASSUME NEW i \in 1..Len(ev1), ev1[i].session = u
          PROVE  ev1[i].sequence <= Len(j1[u])
      <4>1. CASE i \in 1..Len(w.events)
        <5>1. /\ ev1[i] = w.events[i] /\ w.events[i].sequence \in Nat
              /\ w.events[i].sequence <= Len(w.journal[u])
          BY <2>7, <3>1, <3>3, <3>7, <4>1
        <5> QED
          BY <3>4, <3>5, <3>6, <5>1
      <4>2. CASE i = Len(w.events) + 1
        <5>1. u = s /\ ev1[i].sequence = Len(w.journal[s]) + 1
          BY <3>2, <3>7, <4>2
        <5> QED
          BY <3>4, <3>6, <5>1
      <4> QED
        BY <2>7, <4>1, <4>2
    <3>8. ASSUME NEW i \in 1..Len(ev1), NEW k \in 1..Len(ev1),
                 ev1[i].session = u, ev1[k].session = u, i < k
          PROVE  ev1[i].sequence < ev1[k].sequence
      <4>1. i \in 1..Len(w.events) /\ ev1[i] = w.events[i]
        BY <2>7, <3>8
      <4>2. CASE k \in 1..Len(w.events)
        <5>1. ev1[k] = w.events[k]
          BY <2>7, <4>2
        <5> QED
          BY <3>1, <3>8, <4>1, <4>2, <5>1
      <4>3. CASE k = Len(w.events) + 1
        <5>1. u = s /\ ev1[k].sequence = Len(w.journal[s]) + 1
          BY <3>2, <3>8, <4>3
        <5>2. w.events[i].sequence <= Len(w.journal[u]) /\ w.events[i].sequence \in Nat
          BY <3>1, <3>3, <3>8, <4>1
        <5> QED
          BY <3>6, <4>1, <5>1, <5>2
      <4> QED
        BY <2>7, <4>2, <4>3
    <3> QED
      BY <3>7, <3>8
  <2>14. Heard(j1, ev1, view)
    <3> SUFFICES ASSUME NEW u \in Sessions, view[u] # Unsynced,
                        NEW n \in (view[u] + 1)..Len(j1[u])
                 PROVE  \E i \in 1..Len(ev1) : ev1[i] = Update(u, n)
      BY DEF Heard
    <3>0. view[u] \in Nat
      BY DEF Typed
    <3>1. CASE n \in (view[u] + 1)..Len(w.journal[u])
      <4>1. PICK i \in 1..Len(w.events) : w.events[i] = Update(u, n)
        BY <1>0, <3>1 DEF Books, Heard
      <4> QED
        BY <2>7, <4>1
    <3>2. CASE n \notin (view[u] + 1)..Len(w.journal[u])
      <4>1. u = s /\ n = Len(entries)
        BY <2>5, <2>8, <2>12, <3>0, <3>2
      <4> QED
        BY <2>7, <4>1
    <3> QED
      BY <3>1, <3>2
  <2>15. \A u \in Sessions : lifecycle[u] = "absent" => j1[u] = <<>>
    BY <1>0, <1>2, <2>8 DEF Books
  <2>16. Grown(j1)
    <3> SUFFICES ASSUME NEW u \in Sessions
                 PROVE  /\ Len(journal[u]) <= Len(j1[u])
                        /\ \A n \in 1..Len(journal[u]) : j1[u][n] = journal[u][n]
                        /\ \A n \in (Len(journal[u]) + 1)..Len(j1[u]) :
                             \/ j1[u][n].execution = None
                             \/ execution[j1[u][n].execution].answer \in Unanswered
      BY DEF Grown
    <3>1. /\ Len(journal[u]) <= Len(w.journal[u])
          /\ \A n \in 1..Len(journal[u]) : w.journal[u][n] = journal[u][n]
          /\ \A n \in (Len(journal[u]) + 1)..Len(w.journal[u]) :
               \/ w.journal[u][n].execution = None
               \/ execution[w.journal[u][n].execution].answer \in Unanswered
      BY <1>0 DEF Grown
    <3>2. Len(journal[u]) \in Nat
      BY DEF Books
    <3>3. CASE u # s
      BY <2>8, <3>1, <3>3
    <3>4. CASE u = s
      <4>1. /\ j1[u] = entries /\ Len(entries) = Len(w.journal[u]) + 1
            /\ Len(w.journal[u]) \in Nat
            /\ \A n \in 1..Len(w.journal[u]) : entries[n] = w.journal[u][n]
            /\ entries[Len(w.journal[u]) + 1] = c
        BY <2>5, <2>8, <3>4
      <4>2. \A n \in 1..Len(journal[u]) : entries[n] = journal[u][n]
        BY <3>1, <3>2, <4>1
      <4>3. ASSUME NEW n \in (Len(journal[u]) + 1)..Len(entries)
            PROVE  \/ entries[n].execution = None
                   \/ execution[entries[n].execution].answer \in Unanswered
        <5>1. CASE n = Len(w.journal[u]) + 1
          BY <4>1, <5>1
        <5>2. CASE n # Len(w.journal[u]) + 1
          <6>1. n \in (Len(journal[u]) + 1)..Len(w.journal[u]) /\ n \in 1..Len(w.journal[u])
            BY <3>2, <4>1, <5>2
          <6> QED
            BY <3>1, <4>1, <6>1
        <5> QED
          BY <5>1, <5>2
      <4>4. Len(journal[u]) <= Len(entries)
        BY <3>1, <3>2, <4>1
      <4> QED
        BY <4>1, <4>2, <4>3, <4>4
    <3> QED
      BY <3>3, <3>4
  <2>17. Books(j1, p1, ev1, view, lifecycle)
    BY <2>7, <2>8, <2>9, <2>10, <2>13, <2>14, <2>15 DEF Books
  <2>18. Extends(w1)
    BY <2>2, <2>3, <2>16, <2>17 DEF Extends
  <2>19. Len(journal[s]) <= Len(w.journal[s]) /\ Len(journal[s]) \in Nat
    BY <1>0 DEF Grown, Books
  <2> QED
    BY <1>2, <2>3, <2>5, <2>8, <2>18, <2>19
<1> QED
  BY <1>0, <1>1, <1>2

\* The appends of a handler, all of them of an open session.
LEMMA AppendOneExtends ==
  ASSUME Typed, Books(journal, projection, events, view, lifecycle),
         NEW s \in Sessions, NEW kind \in Kinds, NEW e \in 0..MaxPrompts,
         e = None \/ execution[e].answer \in Unanswered,
         NEW w, w = AppendOne(s, kind, e)
  PROVE  /\ Extends(w)
         /\ w.ok => /\ lifecycle[s] = "open"
                    /\ Len(journal[s]) < Len(w.journal[s])
                    /\ w.journal[s][Len(w.journal[s])] = Change(kind, e)
<1>1. PICK w0 : w0 = Opened(s)
  OBVIOUS
<1>2. Extends(w0) /\ (w0.ok <=> lifecycle[s] = "open")
  BY <1>1, OpenedExtends
<1>3. PICK c : c = Change(kind, e)
  OBVIOUS
<1>4. c \in Changes /\ c.execution = e
  BY <1>3 DEF Change, Changes
<1>5. w = Appended(w0, s, c)
  BY <1>1, <1>3 DEF AppendOne
<1>6. c.execution = None \/ execution[c.execution].answer \in Unanswered
  BY <1>4
<1>7. w0.ok => lifecycle[s] = "open"
  BY <1>2
<1> QED
  BY <1>2, <1>3, <1>4, <1>5, <1>6, <1>7, AppendedExtends

\* One more append of the same handler.
LEMMA AppendNextExtends ==
  ASSUME Typed, Books(journal, projection, events, view, lifecycle),
         NEW s \in Sessions, NEW kind \in Kinds, NEW e \in 0..MaxPrompts,
         e = None \/ execution[e].answer \in Unanswered,
         NEW w, Extends(w), w.ok => lifecycle[s] = "open",
         NEW w1, w1 = Appended(w, s, Change(kind, e))
  PROVE  /\ Extends(w1)
         /\ w1.ok => /\ lifecycle[s] = "open"
                     /\ Len(journal[s]) < Len(w1.journal[s])
                     /\ w1.journal[s][Len(w1.journal[s])] = Change(kind, e)
<1>1. PICK c : c = Change(kind, e)
  OBVIOUS
<1>2. c \in Changes /\ c.execution = e
  BY <1>1 DEF Change, Changes
<1>3. c.execution = None \/ execution[c.execution].answer \in Unanswered
  BY <1>2
<1> QED
  BY <1>1, <1>2, <1>3, AppendedExtends

\* What a handler has written becomes the state.
LEMMA WriteKeeps ==
  ASSUME NEW w, Extends(w), Write(w), view' = view,
         \A s \in Sessions : lifecycle'[s] = "absent" => lifecycle[s] = "absent"
  PROVE  /\ Books(journal, projection, events, view, lifecycle)'
         /\ Grown(journal')
<1>1. /\ Books(w.journal, w.projection, w.events, view, lifecycle)
      /\ Grown(w.journal)
  BY DEF Extends
<1> QED
  BY <1>1 DEF Write, Books

LEMMA GrownSame ==
  ASSUME Books(journal, projection, events, view, lifecycle), journal' = journal
  PROVE  Grown(journal')
<1>1. \A s \in Sessions : Len(journal[s]) \in Nat
  BY DEF Books
<1> QED
  BY <1>1 DEF Grown

-----------------------------------------------------------------------------
(* Answers.                                                                *)

\* The story of an execution that is answered does not change.
LEMMA StoryStays ==
  ASSUME journal \in [Sessions -> Seq(Changes)],
         journal' \in [Sessions -> Seq(Changes)], Grown(journal'),
         NEW e \in Executions, execution[e].answer \notin Unanswered,
         NEW s \in Sessions
  PROVE  StoryOf(e, s)' = StoryOf(e, s)
<1>1. /\ DOMAIN journal[s] = 1..Len(journal[s]) /\ Len(journal[s]) \in Nat
      /\ DOMAIN journal'[s] = 1..Len(journal'[s]) /\ Len(journal'[s]) \in Nat
  BY LenProperties
<1>2. /\ Len(journal[s]) <= Len(journal'[s])
      /\ \A n \in 1..Len(journal[s]) : journal'[s][n] = journal[s][n]
      /\ \A n \in (Len(journal[s]) + 1)..Len(journal'[s]) :
           \/ journal'[s][n].execution = None
           \/ execution[journal'[s][n].execution].answer \in Unanswered
  BY DEF Grown
<1>3. e # None
  BY ApplicationConstants DEF Executions, None
<1> DEFINE A == {n \in DOMAIN journal[s] : journal[s][n].execution = e}
           B == {n \in DOMAIN journal'[s] : journal'[s][n].execution = e}
<1>4. \A n : n \in A <=> n \in B
  BY <1>1, <1>2, <1>3
<1>5. A = B
  BY <1>4
<1>6. \A n \in A : journal'[s][n].kind = journal[s][n].kind
  BY <1>1, <1>2
<1>7. /\ StoryOf(e, s) = [n \in A |-> journal[s][n].kind]
      /\ StoryOf(e, s)' = [n \in B |-> journal'[s][n].kind]
  BY DEF StoryOf
<1> HIDE DEF A, B
<1> QED
  BY <1>5, <1>6, <1>7

\* What a step may do to an execution's answer.
AnswerMoves(e) ==
  \/ /\ execution'[e].answer = execution[e].answer
     /\ execution'[e].root = execution[e].root
  \/ execution'[e].answer \notin {"end", "cancelled"}
  \/ execution'[e].answer = "cancelled" /\ execution'[e].root = "failed"
  \/ /\ execution'[e].answer = "end" /\ execution'[e].root = "completed"
     /\ \E s \in Sessions :
          /\ Len(journal'[s]) > 0
          /\ journal'[s][Len(journal'[s])] = Change("completed", e)

LEMMA AnswersKeep ==
  ASSUME AnswerIsTrue, journal \in [Sessions -> Seq(Changes)],
         journal' \in [Sessions -> Seq(Changes)], Grown(journal'),
         \A e \in Executions : AnswerMoves(e)
  PROVE  AnswerIsTrue'
<1> SUFFICES ASSUME NEW e \in Executions
             PROVE  /\ execution'[e].answer = "end" =>
                         /\ execution'[e].root = "completed"
                         /\ \E s \in Sessions : \E n \in DOMAIN StoryOf(e, s)' :
                              /\ StoryOf(e, s)'[n] = "completed"
                              /\ \A m \in DOMAIN StoryOf(e, s)' : m <= n
                    /\ execution'[e].answer = "cancelled" =>
                         execution'[e].root = "failed"
  BY DEF AnswerIsTrue
<1>1. CASE /\ execution'[e].answer = execution[e].answer
           /\ execution'[e].root = execution[e].root
  <2>1. CASE execution[e].answer = "end"
    <3>1. /\ execution[e].root = "completed"
          /\ \E s \in Sessions : \E n \in DOMAIN StoryOf(e, s) :
               /\ StoryOf(e, s)[n] = "completed"
               /\ \A m \in DOMAIN StoryOf(e, s) : m <= n
      BY <2>1 DEF AnswerIsTrue
    <3>2. \A s \in Sessions : StoryOf(e, s)' = StoryOf(e, s)
      BY <2>1, StoryStays DEF Unanswered
    <3> QED
      BY <1>1, <2>1, <3>1, <3>2
  <2>2. CASE execution[e].answer # "end"
    BY <1>1, <2>2 DEF AnswerIsTrue
  <2> QED
    BY <2>1, <2>2
<1>2. CASE execution'[e].answer \notin {"end", "cancelled"}
  BY <1>2
<1>3. CASE execution'[e].answer = "cancelled" /\ execution'[e].root = "failed"
  BY <1>3
<1>4. CASE /\ execution'[e].answer = "end" /\ execution'[e].root = "completed"
           /\ \E s \in Sessions :
                /\ Len(journal'[s]) > 0
                /\ journal'[s][Len(journal'[s])] = Change("completed", e)
  <2>1. PICK s \in Sessions :
               /\ Len(journal'[s]) > 0
               /\ journal'[s][Len(journal'[s])] = Change("completed", e)
    BY <1>4
  <2> DEFINE n == Len(journal'[s])
             B == {m \in DOMAIN journal'[s] : journal'[s][m].execution = e}
  <2>2. DOMAIN journal'[s] = 1..n /\ n \in Nat
    BY LenProperties
  <2>3. journal'[s][n].execution = e /\ journal'[s][n].kind = "completed"
    BY <2>1 DEF Change
  <2>4. n \in B /\ \A m \in B : m <= n
    BY <2>1, <2>2, <2>3
  <2>5. StoryOf(e, s)' = [m \in B |-> journal'[s][m].kind]
    BY DEF StoryOf
  <2> HIDE DEF B, n
  <2>6. DOMAIN StoryOf(e, s)' = B /\ StoryOf(e, s)'[n] = "completed"
    BY <2>3, <2>4, <2>5
  <2> QED
    BY <1>4, <2>4, <2>6
<1> QED
  BY <1>1, <1>2, <1>3, <1>4 DEF AnswerMoves

-----------------------------------------------------------------------------
(* Prompts.                                                                *)

\* Prompts, their threads and the sessions they run in.
Prompting == /\ allocated \in 0..MaxPrompts
             /\ active \in [Sessions -> 0..MaxPrompts]
             /\ execution \in [Executions -> Prompts]
             /\ Threads /\ Running

LEMMA GoneFields ==
  ASSUME NEW x \in Prompts, NEW y, y = Gone(x)
  PROVE  /\ y \in Prompts
         /\ y.session = x.session /\ y.root = x.root /\ y.answer = x.answer
         /\ y.pc = "ended"
<1>1. PICK no \in BOOLEAN : no = FALSE
  OBVIOUS
<1>2. y = [session |-> x.session, root |-> x.root, flag |-> no, pc |-> "ended",
           turns |-> 0, result |-> "none", answer |-> x.answer]
  BY <1>1 DEF Gone, Prompts
<1>3. /\ 0 \in 0..TurnLimit /\ x.session \in Sessions \cup {"none"}
      /\ x.root \in {"unused", "active", "completed", "failed"}
      /\ x.answer \in {"unasked", "pending", "end", "cancelled", "error", "lost"}
  BY ApplicationConstants DEF Prompts
<1> QED
  BY <1>1, <1>2, <1>3 DEF Prompts

LEMMA FinishedFields ==
  ASSUME NEW x \in Prompts, NEW y, y = Finished(x, FALSE)
  PROVE  /\ y \in Prompts
         /\ y.session = x.session /\ y.pc = x.pc /\ y.answer = x.answer
         /\ x.root = "active" => y.root = "failed"
  BY DEF Finished, Prompts

LEMMA SucceededFields ==
  ASSUME NEW x \in Prompts, NEW y, y = Finished(x, TRUE)
  PROVE  /\ y \in Prompts
         /\ y.session = x.session /\ y.pc = x.pc /\ y.answer = x.answer
         /\ x.root = "active" => y.root = "completed"
  BY DEF Finished, Prompts

\* The prompt of a session is answered: it no longer runs there, and the
\* answer is one that it may be given.
LEMMA AnswerGiven ==
  ASSUME Prompting, NEW s \in Sessions, NEW e, e = active[s], e # None,
         NEW y \in Prompts, y.pc = execution[e].pc, y.session = s,
         active' = [active EXCEPT ![s] = None],
         execution' = [execution EXCEPT ![e] = y], allocated' = allocated,
         \/ y.answer = "error"
         \/ y.answer = "cancelled" /\ y.root = "failed"
         \/ /\ y.answer = "end" /\ y.root = "completed"
            /\ Len(journal'[s]) > 0
            /\ journal'[s][Len(journal'[s])] = Change("completed", e)
  PROVE  Prompting' /\ \A d \in Executions : AnswerMoves(d)
<1>1. /\ e \in Executions /\ e <= allocated
      /\ execution[e].session = s /\ execution[e].answer = "pending"
  BY ApplicationConstants DEF Prompting, Running, Executions, None
<1>2. /\ execution'[e] = y
      /\ \A d \in Executions \ {e} : execution'[d] = execution[d]
      /\ execution' \in [Executions -> Prompts]
  BY <1>1 DEF Prompting
<1>3. /\ active'[s] = None /\ \A u \in Sessions \ {s} : active'[u] = active[u]
      /\ active' \in [Sessions -> 0..MaxPrompts]
  BY ApplicationConstants DEF Prompting, None
<1>4. Threads'
  <2> SUFFICES ASSUME NEW d \in Executions
               PROVE  /\ execution'[d].pc # "ended" => execution'[d].session \in Sessions
                      /\ d > allocated' =>
                           execution'[d].answer = "unasked" /\ execution'[d].pc = "ended"
    BY DEF Threads
  <2>1. CASE d = e
    <3>1. ~ (d > allocated)
      BY <1>1, <2>1 DEF Prompting, Executions
    <3> QED
      BY <1>2, <2>1, <3>1
  <2>2. CASE d # e
    BY <1>2, <2>2 DEF Prompting, Threads
  <2> QED
    BY <2>1, <2>2
<1>5. Running'
  <2> SUFFICES ASSUME NEW u \in Sessions, active'[u] # None
               PROVE  /\ active'[u] <= allocated'
                      /\ execution'[active'[u]].session = u
                      /\ execution'[active'[u]].root = "active"
                      /\ execution'[active'[u]].answer = "pending"
    BY DEF Running
  <2>1. u # s /\ active'[u] = active[u]
    BY <1>3
  <2>2. /\ active[u] <= allocated
        /\ execution[active[u]].session = u
        /\ execution[active[u]].root = "active"
        /\ execution[active[u]].answer = "pending"
    BY <2>1 DEF Prompting, Running
  <2>3. active[u] \in Executions /\ active[u] # e
    BY <1>1, <2>1, <2>2, ApplicationConstants DEF Prompting, Executions, None
  <2> QED
    BY <1>2, <2>1, <2>2, <2>3
<1>6. AnswerMoves(e)
  BY <1>2 DEF AnswerMoves
<1>7. \A d \in Executions \ {e} : AnswerMoves(d)
  BY <1>2 DEF AnswerMoves
<1> QED
  BY <1>1, <1>2, <1>3, <1>4, <1>5, <1>6, <1>7 DEF Prompting

\* The thread of a prompt goes on.
LEMMA ThreadMoves ==
  ASSUME Prompting, NEW e \in Executions, NEW y \in Prompts,
         execution[e].pc # "ended", y.session = execution[e].session,
         y.root = execution[e].root, y.answer = execution[e].answer,
         active' = active,
         execution' = [execution EXCEPT ![e] = y], allocated' = allocated
  PROVE  /\ Prompting'
         /\ \A d \in Executions : AnswerMoves(d)
<1>1. /\ execution'[e] = y
      /\ \A d \in Executions \ {e} : execution'[d] = execution[d]
      /\ execution' \in [Executions -> Prompts]
  BY DEF Prompting
<1>2. Threads'
  <2> SUFFICES ASSUME NEW d \in Executions
               PROVE  /\ execution'[d].pc # "ended" => execution'[d].session \in Sessions
                      /\ d > allocated' =>
                           execution'[d].answer = "unasked" /\ execution'[d].pc = "ended"
    BY DEF Threads
  <2>1. CASE d = e
    BY <1>1, <2>1 DEF Prompting, Threads
  <2>2. CASE d # e
    BY <1>1, <2>2 DEF Prompting, Threads
  <2> QED
    BY <2>1, <2>2
<1>3. Running'
  <2> SUFFICES ASSUME NEW u \in Sessions, active'[u] # None
               PROVE  /\ active'[u] <= allocated'
                      /\ execution'[active'[u]].session = u
                      /\ execution'[active'[u]].root = "active"
                      /\ execution'[active'[u]].answer = "pending"
    BY DEF Running
  <2>1. /\ active[u] <= allocated
        /\ execution[active[u]].session = u
        /\ execution[active[u]].root = "active"
        /\ execution[active[u]].answer = "pending"
        /\ active[u] \in Executions
    BY ApplicationConstants DEF Prompting, Running, Executions, None
  <2>2. /\ execution'[active[u]].session = execution[active[u]].session
        /\ execution'[active[u]].root = execution[active[u]].root
        /\ execution'[active[u]].answer = execution[active[u]].answer
    BY <1>1, <2>1
  <2> QED
    BY <2>1, <2>2
<1>4. \A d \in Executions : AnswerMoves(d)
  BY <1>1 DEF AnswerMoves
<1> QED
  BY <1>1, <1>2, <1>3, <1>4 DEF Prompting

LEMMA PromptsSame ==
  ASSUME Prompting, UNCHANGED <<allocated, active, execution>>
  PROVE  Prompting' /\ \A d \in Executions : AnswerMoves(d)
  BY DEF Prompting, Threads, Running, AnswerMoves

\* A prompt is allocated; it runs, or is refused at once.
LEMMA PromptStarts ==
  ASSUME Prompting, NEW s \in Sessions, allocated < MaxPrompts,
         NEW e, e = allocated + 1, allocated' = e,
         NEW y \in Prompts, y.session = s, y.answer \notin {"end", "cancelled"},
         execution' = [execution EXCEPT ![e] = y],
         \/ active' = active
         \/ /\ active' = [active EXCEPT ![s] = e]
            /\ y.root = "active" /\ y.answer = "pending"
  PROVE  /\ Prompting'
         /\ \A d \in Executions : AnswerMoves(d)
<1>1. e \in Executions /\ e \in 0..MaxPrompts /\ e \in Nat /\ e # None /\ allocated \in Nat
  BY ApplicationConstants DEF Prompting, Executions, None
<1>2. /\ execution'[e] = y
      /\ \A d \in Executions \ {e} : execution'[d] = execution[d]
      /\ execution' \in [Executions -> Prompts]
  BY <1>1 DEF Prompting
<1>3. /\ active' \in [Sessions -> 0..MaxPrompts]
      /\ \A u \in Sessions : \/ active'[u] = active[u]
                             \/ /\ u = s /\ active'[u] = e
                                /\ y.root = "active" /\ y.answer = "pending"
  BY <1>1 DEF Prompting
<1>4. Threads'
  <2> SUFFICES ASSUME NEW d \in Executions
               PROVE  /\ execution'[d].pc # "ended" => execution'[d].session \in Sessions
                      /\ d > allocated' =>
                           execution'[d].answer = "unasked" /\ execution'[d].pc = "ended"
    BY DEF Threads
  <2>1. CASE d = e
    BY <1>1, <1>2, <2>1
  <2>2. CASE d # e
    <3>1. d > allocated' => d > allocated
      BY <1>1 DEF Executions
    <3> QED
      BY <1>2, <2>2, <3>1 DEF Prompting, Threads
  <2> QED
    BY <2>1, <2>2
<1>5. Running'
  <2> SUFFICES ASSUME NEW u \in Sessions, active'[u] # None
               PROVE  /\ active'[u] <= allocated'
                      /\ execution'[active'[u]].session = u
                      /\ execution'[active'[u]].root = "active"
                      /\ execution'[active'[u]].answer = "pending"
    BY DEF Running
  <2>1. CASE active'[u] = active[u]
    <3>1. /\ active[u] <= allocated
          /\ execution[active[u]].session = u
          /\ execution[active[u]].root = "active"
          /\ execution[active[u]].answer = "pending"
          /\ active[u] \in Executions
      BY <2>1, ApplicationConstants DEF Prompting, Running, Executions, None
    <3>2. active[u] # e /\ active[u] <= e
      BY <1>1, <3>1 DEF Executions
    <3> QED
      BY <1>2, <2>1, <3>1, <3>2
  <2>2. CASE /\ u = s /\ active'[u] = e
             /\ y.root = "active" /\ y.answer = "pending"
    BY <1>1, <1>2, <2>2
  <2> QED
    BY <1>3, <2>1, <2>2
<1>6. \A d \in Executions : AnswerMoves(d)
  BY <1>2 DEF AnswerMoves
<1> QED
  BY <1>1, <1>2, <1>3, <1>4, <1>5, <1>6 DEF Prompting

-----------------------------------------------------------------------------
(* The steps.                                                              *)

Wires == /\ lifecycle \in [Sessions -> {"absent", "open", "closed"}]
         /\ view \in [Sessions -> Nat \cup {Unsynced}]
         /\ channel \in Seq(Reports) /\ Len(channel) <= ExecutionCapacity

\* What every step keeps.
Keeps == /\ Prompting' /\ Wires'
         /\ Books(journal, projection, events, view, lifecycle)'
         /\ Grown(journal')
         /\ \A e \in Executions : AnswerMoves(e)

LEMMA KeepsInvariant ==
  ASSUME IInv, Keeps
  PROVE  IInv'
<1>1. /\ journal \in [Sessions -> Seq(Changes)]
      /\ journal' \in [Sessions -> Seq(Changes)]
  BY DEF IInv, Keeps, Books
<1>2. AnswerIsTrue'
  BY <1>1, AnswersKeep DEF IInv, Keeps
<1> QED
  BY <1>2 DEF Keeps, IInv, Typed, Prompting, Wires

LEMMA Parts ==
  ASSUME IInv
  PROVE  /\ Prompting /\ Wires /\ Typed
         /\ Books(journal, projection, events, view, lifecycle)
  BY DEF IInv, Typed, Prompting, Wires

LEMMA CreateKeeps ==
  ASSUME IInv, NEW s \in Sessions, CreateSession(s)
  PROVE  Keeps
<1> USE DEF CreateSession
<1>0. /\ Prompting /\ Wires /\ Typed
      /\ Books(journal, projection, events, view, lifecycle)
  BY Parts
<1>1. Prompting' /\ \A d \in Executions : AnswerMoves(d)
  BY <1>0, PromptsSame
<1>2. Wires'
  BY <1>0 DEF Wires
<1>3. journal[s] = <<>>
  BY <1>0 DEF Books
<1>4. <<>> \in Seq(Changes)
  OBVIOUS
<1>5. /\ projection'[s] = <<>> /\ view'[s] = 0 /\ lifecycle'[s] = "open"
      /\ \A u \in Sessions \ {s} : /\ projection'[u] = projection[u]
                                   /\ view'[u] = view[u]
                                   /\ lifecycle'[u] = lifecycle[u]
      /\ projection' \in [Sessions -> Seq(Changes)]
  BY <1>0, <1>4 DEF Books, Wires
<1>6. Heard(journal, events, view')
  <2> SUFFICES ASSUME NEW u \in Sessions, view'[u] # Unsynced,
                      NEW n \in (view'[u] + 1)..Len(journal[u])
               PROVE  \E i \in 1..Len(events) : events[i] = Update(u, n)
    BY DEF Heard
  <2>1. u # s
    BY <1>3, <1>5
  <2> QED
    BY <1>0, <1>5, <2>1 DEF Books, Heard
<1>7. Books(journal, projection, events, view, lifecycle)'
  BY <1>0, <1>3, <1>5, <1>6 DEF Books
<1>8. Grown(journal')
  BY <1>0, GrownSame
<1> QED
  BY <1>1, <1>2, <1>7, <1>8 DEF Keeps

LEMMA ChangeKeeps ==
  ASSUME IInv, NEW s \in Sessions, ChangeSession(s) \/ CloseSession(s)
  PROVE  Keeps
<1>0. /\ Prompting /\ Wires /\ Typed
      /\ Books(journal, projection, events, view, lifecycle)
  BY Parts
<1>1. Prompting' /\ \A d \in Executions : AnswerMoves(d)
  BY <1>0, PromptsSame DEF ChangeSession, CloseSession
<1>2. PICK changed : changed = AppendOne(s, "changed", None)
  OBVIOUS
<1>3. PICK closed : closed = AppendOne(s, "closed", None)
  OBVIOUS
<1>4. PICK w : Extends(w) /\ Write(w)
  <2>1. None \in 0..MaxPrompts /\ "changed" \in Kinds /\ "closed" \in Kinds
    BY ApplicationConstants DEF None, Kinds
  <2>2. Extends(changed) /\ Extends(closed)
    BY <1>0, <1>2, <1>3, <2>1, AppendOneExtends
  <2>3. Write(changed) \/ Write(closed)
    BY <1>2, <1>3 DEF ChangeSession, CloseSession
  <2> QED
    BY <2>2, <2>3
<1>5. /\ Wires' /\ view' = view
      /\ \A u \in Sessions : lifecycle'[u] = "absent" => lifecycle[u] = "absent"
  BY <1>0 DEF ChangeSession, CloseSession, Wires
<1>6. /\ Books(journal, projection, events, view, lifecycle)'
      /\ Grown(journal')
  BY <1>4, <1>5, WriteKeeps
<1> QED
  BY <1>1, <1>5, <1>6 DEF Keeps

LEMMA ResumeKeeps ==
  ASSUME IInv, NEW s \in Sessions, NEW full \in BOOLEAN, ResumeSession(s, full)
  PROVE  Keeps
<1> USE DEF ResumeSession
<1>0. /\ Prompting /\ Wires /\ Typed
      /\ Books(journal, projection, events, view, lifecycle)
  BY Parts
<1>1. Prompting' /\ \A d \in Executions : AnswerMoves(d)
  BY <1>0, PromptsSame
<1>2. \A u \in Sessions : journal[u] \in Seq(Changes) /\ Len(journal[u]) \in Nat
  BY <1>0 DEF Books
<1>3. Wires'
  BY <1>0, <1>2 DEF Wires
<1>4. /\ projection' \in [Sessions -> Seq(Changes)]
      /\ \A u \in Sessions : projection'[u] \in {Missing, journal[u]}
  BY <1>0, <1>2 DEF Books
<1>5. Heard(journal, events, view')
  <2> SUFFICES ASSUME NEW u \in Sessions, view'[u] # Unsynced,
                      NEW n \in (view'[u] + 1)..Len(journal[u])
               PROVE  \E i \in 1..Len(events) : events[i] = Update(u, n)
    BY DEF Heard
  <2>1. view'[s] = Len(journal[s]) /\ (u # s => view'[u] = view[u])
    BY <1>0 DEF Wires
  <2>2. u # s
    BY <1>2, <2>1
  <2> QED
    BY <1>0, <2>1, <2>2 DEF Books, Heard
<1>6. Books(journal, projection, events, view, lifecycle)'
  BY <1>0, <1>4, <1>5 DEF Books
<1>7. Grown(journal')
  BY <1>0, GrownSame
<1> QED
  BY <1>1, <1>3, <1>6, <1>7 DEF Keeps

LEMMA StartKeeps ==
  ASSUME IInv, NEW s \in Sessions, NEW registered \in BOOLEAN,
         StartPrompt(s, registered)
  PROVE  Keeps
<1>0. /\ Prompting /\ Wires /\ Typed
      /\ Books(journal, projection, events, view, lifecycle)
  BY Parts
<1>1. PICK e : e = allocated + 1
  OBVIOUS
<1>2. PICK user : user = AppendOne(s, "user", None)
  OBVIOUS
<1>3. PICK both : both = Appended(user, s, Change("running", e))
  OBVIOUS
<1>4. PICK refused : refused = [Unused EXCEPT !.session = s, !.answer = "error"]
  OBVIOUS
<1>5. /\ allocated < MaxPrompts /\ lifecycle[s] = "open" /\ allocated' = e
      /\ UNCHANGED <<lifecycle, channel, view>>
      /\ \/ /\ execution' = [execution EXCEPT ![e] = [refused EXCEPT !.root = "failed"]]
            /\ Write(IF registered THEN user ELSE Written)
            /\ UNCHANGED active
         \/ /\ execution' = [execution EXCEPT ![e] = [refused EXCEPT !.root = "active"]]
            /\ Write(both)
            /\ UNCHANGED active
         \/ /\ execution' = [execution EXCEPT
                               ![e] = [Unused EXCEPT !.session = s,
                                                     !.root = "active",
                                                     !.pc = "turn",
                                                     !.answer = "pending"]]
            /\ Write(both)
            /\ active' = [active EXCEPT ![s] = e]
  BY <1>1, <1>2, <1>3, <1>4 DEF StartPrompt
<1>6. /\ e \in Executions /\ e \in 0..MaxPrompts /\ None \in 0..MaxPrompts
      /\ e > allocated
  BY <1>0, <1>1, <1>5, ApplicationConstants DEF Prompting, Executions, None
<1>7. execution[e].answer \in Unanswered
  BY <1>0, <1>6 DEF Prompting, Threads, Unanswered
<1>k. "user" \in Kinds /\ "running" \in Kinds
  BY DEF Kinds
<1>8. Extends(user) /\ (user.ok => lifecycle[s] = "open")
  BY <1>0, <1>2, <1>6, <1>k, AppendOneExtends
<1>9. Extends(both)
  BY <1>0, <1>3, <1>6, <1>7, <1>8, <1>k, AppendNextExtends
<1>10. Extends(Written)
  <2>1. PICK ok \in BOOLEAN : ok = TRUE
    OBVIOUS
  <2>2. Written = [ok |-> ok, journal |-> journal, projection |-> projection,
                   events |-> events]
    BY <2>1 DEF Written
  <2> QED
    BY <1>0, <2>2, UnwrittenExtends
<1>11. PICK w : Extends(w) /\ Write(w)
  BY <1>5, <1>8, <1>9, <1>10
<1>12. /\ Books(journal, projection, events, view, lifecycle)'
       /\ Grown(journal')
  BY <1>5, <1>11, WriteKeeps
<1>13. Wires'
  BY <1>0, <1>5 DEF Wires
<1>14. PICK y \in Prompts :
         /\ y.session = s /\ y.answer \notin {"end", "cancelled"}
         /\ execution' = [execution EXCEPT ![e] = y]
         /\ \/ active' = active
            \/ /\ active' = [active EXCEPT ![s] = e]
               /\ y.root = "active" /\ y.answer = "pending"
  <2>1. PICK y1 : y1 = [refused EXCEPT !.root = "failed"]
    OBVIOUS
  <2>2. PICK y2 : y2 = [refused EXCEPT !.root = "active"]
    OBVIOUS
  <2>3. PICK y3 : y3 = [Unused EXCEPT !.session = s, !.root = "active",
                                      !.pc = "turn", !.answer = "pending"]
    OBVIOUS
  <2>4. 0 \in 0..TurnLimit
    BY ApplicationConstants
  <2>f. PICK no \in BOOLEAN : no = FALSE
    OBVIOUS
  <2>5. y1 \in Prompts /\ y1.session = s /\ y1.answer = "error"
    <3>1. y1 = [session |-> s, root |-> "failed", flag |-> no, pc |-> "ended",
                  turns |-> 0, result |-> "none", answer |-> "error"]
      BY <1>4, <2>1, <2>f DEF Unused
    <3> QED
      BY <2>4, <2>f, <3>1 DEF Prompts
  <2>6. y2 \in Prompts /\ y2.session = s /\ y2.answer = "error"
    <3>1. y2 = [session |-> s, root |-> "active", flag |-> no, pc |-> "ended",
                  turns |-> 0, result |-> "none", answer |-> "error"]
      BY <1>4, <2>2, <2>f DEF Unused
    <3> QED
      BY <2>4, <2>f, <3>1 DEF Prompts
  <2>7. /\ y3 \in Prompts /\ y3.session = s /\ y3.answer = "pending"
        /\ y3.root = "active"
    <3>1. y3 = [session |-> s, root |-> "active", flag |-> no, pc |-> "turn",
                  turns |-> 0, result |-> "none", answer |-> "pending"]
      BY <2>3, <2>f DEF Unused
    <3> QED
      BY <2>4, <2>f, <3>1 DEF Prompts
  <2>8. \/ execution' = [execution EXCEPT ![e] = y1] /\ active' = active
        \/ execution' = [execution EXCEPT ![e] = y2] /\ active' = active
        \/ execution' = [execution EXCEPT ![e] = y3] /\ active' = [active EXCEPT ![s] = e]
    BY <1>5, <2>1, <2>2, <2>3
  <2> QED
    BY <2>5, <2>6, <2>7, <2>8
<1>15. Prompting' /\ \A d \in Executions : AnswerMoves(d)
  BY <1>0, <1>1, <1>5, <1>14, PromptStarts
<1> QED
  BY <1>12, <1>13, <1>15 DEF Keeps

\* A prompt that runs, as its handlers find it.
LEMMA RunningPrompt ==
  ASSUME Prompting, NEW s \in Sessions, NEW e, e = active[s], e # None
  PROVE  /\ e \in Executions /\ e \in 0..MaxPrompts
         /\ execution[e] \in Prompts /\ execution[e].session = s
         /\ execution[e].root = "active" /\ execution[e].answer = "pending"
         /\ execution[e].answer \in Unanswered
<1>1. e \in Executions /\ e \in 0..MaxPrompts
  BY ApplicationConstants DEF Prompting, Executions, None
<1> QED
  BY <1>1 DEF Prompting, Running, Unanswered

LEMMA CancelKeeps ==
  ASSUME IInv, NEW s \in Sessions, CancelPrompt(s)
  PROVE  Keeps
<1>0. /\ Prompting /\ Wires /\ Typed
      /\ Books(journal, projection, events, view, lifecycle)
  BY Parts
<1>1. PICK e : e = active[s] /\ e # None
  BY DEF CancelPrompt
<1>2. /\ e \in Executions /\ e \in 0..MaxPrompts
      /\ execution[e] \in Prompts /\ execution[e].session = s
      /\ execution[e].root = "active" /\ execution[e].answer \in Unanswered
  BY <1>0, <1>1, RunningPrompt
<1>3. PICK x : x = Finished(execution[e], FALSE)
  OBVIOUS
<1>4. PICK y : y = [x EXCEPT !.flag = TRUE, !.answer = "cancelled"]
  OBVIOUS
<1>5. /\ active' = [active EXCEPT ![s] = None]
      /\ execution' = [execution EXCEPT ![e] = y]
      /\ Write(AppendOne(s, "cancelled", e))
      /\ UNCHANGED <<lifecycle, allocated, channel, view>>
  BY <1>1, <1>3, <1>4 DEF CancelPrompt
<1>6. /\ x \in Prompts /\ x.session = s /\ x.pc = execution[e].pc
      /\ x.root = "failed"
  BY <1>2, <1>3, FinishedFields
<1>7. /\ y \in Prompts /\ y.session = s /\ y.pc = execution[e].pc
      /\ y.answer = "cancelled" /\ y.root = "failed"
  BY <1>4, <1>6 DEF Prompts
<1>8. Prompting' /\ \A d \in Executions : AnswerMoves(d)
  BY <1>0, <1>1, <1>5, <1>7, AnswerGiven
<1>9. PICK w : w = AppendOne(s, "cancelled", e) /\ Write(w)
  BY <1>5
<1>k. "cancelled" \in Kinds
  BY DEF Kinds
<1>10. Extends(w)
  BY <1>0, <1>2, <1>9, <1>k, AppendOneExtends
<1>11. /\ Books(journal, projection, events, view, lifecycle)'
       /\ Grown(journal')
  BY <1>5, <1>9, <1>10, WriteKeeps
<1>12. Wires'
  BY <1>0, <1>5 DEF Wires
<1> QED
  BY <1>8, <1>11, <1>12 DEF Keeps

\* A handler of an execution event, with what is left of the channel.
LEMMA ProgressKeeps ==
  ASSUME IInv, NEW x \in Reports, HandleProgress(x), Wires',
         UNCHANGED <<lifecycle, allocated, view>>
  PROVE  Keeps
<1>0. /\ Prompting /\ Wires /\ Typed
      /\ Books(journal, projection, events, view, lifecycle)
  BY Parts
<1>1. PICK s \in Sessions : s = x.session
  BY DEF Reports
<1>2. PICK e : e = active[s]
  OBVIOUS
<1>3. CASE Ignored(x) /\ UNCHANGED <<journal, projection, events, execution, active>>
  <2>1. Prompting' /\ \A d \in Executions : AnswerMoves(d)
    BY <1>0, <1>3, PromptsSame
  <2>2. Grown(journal')
    BY <1>0, <1>3, GrownSame
  <2>3. Books(journal, projection, events, view, lifecycle)'
    BY <1>0, <1>3
  <2> QED
    BY <2>1, <2>2, <2>3 DEF Keeps
<1>4. CASE ~Ignored(x)
  <2>1. PICK w : w = AppendOne(s, "progress", x.execution)
    OBVIOUS
  <2>2. /\ e = x.execution /\ e # None
    BY <1>1, <1>2, <1>4, ApplicationConstants DEF Ignored, Reports, Executions, None
  <2>3. /\ e \in Executions /\ e \in 0..MaxPrompts
        /\ execution[e] \in Prompts /\ execution[e].session = s
        /\ execution[e].root = "active" /\ execution[e].answer \in Unanswered
    BY <1>0, <1>2, <2>2, RunningPrompt
  <2>4. PICK f : f = Finished(execution[e], FALSE)
    OBVIOUS
  <2>5. PICK y : y = [f EXCEPT !.flag = TRUE, !.answer = "error"]
    OBVIOUS
  <2>6. /\ Write(w)
        /\ active' = [active EXCEPT ![s] = IF w.ok THEN @ ELSE None]
        /\ execution' = IF w.ok THEN execution ELSE [execution EXCEPT ![e] = y]
    BY <1>1, <1>2, <1>4, <2>1, <2>4, <2>5 DEF HandleProgress
  <2>k. "progress" \in Kinds
    BY DEF Kinds
  <2>7. Extends(w)
    BY <1>0, <2>1, <2>2, <2>3, <2>k, AppendOneExtends
  <2>8. /\ Books(journal, projection, events, view, lifecycle)'
        /\ Grown(journal')
    BY <2>6, <2>7, WriteKeeps
  <2>9. Prompting' /\ \A d \in Executions : AnswerMoves(d)
    <3>1. CASE w.ok
      <4>1. active' = active /\ execution' = execution
        BY <1>0, <2>6, <3>1 DEF Prompting
      <4> QED
        BY <1>0, <4>1, PromptsSame
    <3>2. CASE ~w.ok
      <4>1. /\ active' = [active EXCEPT ![s] = None]
            /\ execution' = [execution EXCEPT ![e] = y]
        BY <2>6, <3>2
      <4>2. f \in Prompts /\ f.session = s /\ f.pc = execution[e].pc
        BY <2>3, <2>4, FinishedFields
      <4>3. /\ y \in Prompts /\ y.session = s /\ y.pc = execution[e].pc
            /\ y.answer = "error"
        BY <2>5, <4>2 DEF Prompts
      <4> QED
        BY <1>0, <1>2, <2>2, <4>1, <4>3, AnswerGiven
    <3> QED
      BY <3>1, <3>2
  <2> QED
    BY <2>8, <2>9 DEF Keeps
<1> QED
  BY <1>3, <1>4 DEF HandleProgress

\* What is appended of an output that is journaled as a whole ends with the
\* completion of its execution.
LEMMA OutputExtends ==
  ASSUME Typed, Books(journal, projection, events, view, lifecycle),
         NEW s \in Sessions, NEW e \in 0..MaxPrompts,
         execution[e].answer \in Unanswered, NEW w, w = Output(s, e)
  PROVE  /\ Extends(w)
         /\ w.ok => /\ Len(w.journal[s]) > 0
                    /\ w.journal[s][Len(w.journal[s])] = Change("completed", e)
<1>0. /\ None \in 0..MaxPrompts
      /\ "text" \in Kinds /\ "message" \in Kinds /\ "completed" \in Kinds
  BY ApplicationConstants DEF None, Kinds
<1>1. PICK text : text = AppendOne(s, "text", e)
  OBVIOUS
<1>2. Extends(text) /\ (text.ok => lifecycle[s] = "open")
  BY <1>0, <1>1, AppendOneExtends
<1>3. PICK message : message = Appended(text, s, Change("message", None))
  OBVIOUS
<1>4. Extends(message) /\ (message.ok => lifecycle[s] = "open")
  BY <1>0, <1>2, <1>3, AppendNextExtends
<1>5. w = Appended(message, s, Change("completed", e))
  BY <1>1, <1>3 DEF Output
<1>6. /\ Extends(w)
      /\ w.ok => /\ Len(journal[s]) < Len(w.journal[s])
                 /\ w.journal[s][Len(w.journal[s])] = Change("completed", e)
  BY <1>0, <1>4, <1>5, AppendNextExtends
<1>7. Len(journal[s]) \in Nat /\ Len(w.journal[s]) \in Nat
  BY <1>6 DEF Books, Extends
<1> QED
  BY <1>6, <1>7

LEMMA CompleteKeeps ==
  ASSUME IInv, NEW x \in Reports, HandleComplete(x), Wires',
         UNCHANGED <<lifecycle, allocated, view>>
  PROVE  Keeps
<1>0. /\ Prompting /\ Wires /\ Typed
      /\ Books(journal, projection, events, view, lifecycle)
  BY Parts
<1>1. PICK s \in Sessions : s = x.session
  BY DEF Reports
<1>2. PICK e : e = active[s]
  OBVIOUS
<1>3. active' = [active EXCEPT ![s] = None]
  BY <1>1 DEF HandleComplete
<1>4. e # None =>
        /\ e \in Executions /\ e \in 0..MaxPrompts
        /\ execution[e] \in Prompts /\ execution[e].session = s
        /\ execution[e].root = "active" /\ execution[e].answer \in Unanswered
  BY <1>0, <1>2, RunningPrompt
<1>5. CASE /\ e # x.execution
           /\ execution' = IF e = None THEN execution
                           ELSE [execution EXCEPT ![e].answer = "error"]
           /\ UNCHANGED <<journal, projection, events>>
  <2>1. Grown(journal')
    BY <1>0, <1>5, GrownSame
  <2>2. Books(journal, projection, events, view, lifecycle)'
    BY <1>0, <1>5
  <2>3. Prompting' /\ \A d \in Executions : AnswerMoves(d)
    <3>1. CASE e = None
      <4>1. active' = active /\ execution' = execution
        BY <1>0, <1>2, <1>3, <1>5, <3>1 DEF Prompting
      <4> QED
        BY <1>0, <4>1, PromptsSame
    <3>2. CASE e # None
      <4>1. PICK y : y = [execution[e] EXCEPT !.answer = "error"]
        OBVIOUS
      <4>2. execution' = [execution EXCEPT ![e] = y]
        BY <1>5, <3>2, <4>1
      <4>3. /\ y \in Prompts /\ y.session = s /\ y.pc = execution[e].pc
            /\ y.answer = "error"
        BY <1>4, <3>2, <4>1 DEF Prompts
      <4> QED
        BY <1>0, <1>2, <1>3, <3>2, <4>2, <4>3, AnswerGiven
    <3> QED
      BY <3>1, <3>2
  <2> QED
    BY <2>1, <2>2, <2>3 DEF Keeps
<1>6. CASE e = x.execution
  <2>1. e # None
    BY <1>6, ApplicationConstants DEF Reports, Executions, None
  <2>2. CASE /\ x.result = "ok" /\ Write(Output(s, e))
             /\ execution' = [execution EXCEPT
                                ![e] = [Finished(@, TRUE) EXCEPT
                                          !.answer = OutputAnswer(Output(s, e).ok)]]
    <3>1. PICK w : w = Output(s, e)
      OBVIOUS
    <3>2. PICK f : f = Finished(execution[e], TRUE)
      OBVIOUS
    <3>3. PICK y : y = [f EXCEPT !.answer = OutputAnswer(w.ok)]
      OBVIOUS
    <3>4. execution' = [execution EXCEPT ![e] = y] /\ Write(w)
      BY <2>2, <3>1, <3>2, <3>3
    <3>5. /\ f \in Prompts /\ f.session = s /\ f.pc = execution[e].pc
          /\ f.root = "completed"
      BY <1>4, <2>1, <3>2, SucceededFields
    <3>6. /\ Extends(w)
          /\ w.ok => /\ Len(w.journal[s]) > 0
                     /\ w.journal[s][Len(w.journal[s])] = Change("completed", e)
      BY <1>0, <1>4, <2>1, <3>1, OutputExtends
    <3>7. OutputAnswer(w.ok) = IF w.ok THEN "end" ELSE "error"
      BY DEF OutputAnswer
    <3>8. /\ y \in Prompts /\ y.session = s /\ y.pc = execution[e].pc
          /\ y.root = "completed"
          /\ y.answer = IF w.ok THEN "end" ELSE "error"
      BY <3>3, <3>5, <3>7 DEF Prompts
    <3>9. w.ok => /\ Len(journal'[s]) > 0
                  /\ journal'[s][Len(journal'[s])] = Change("completed", e)
      BY <3>4, <3>6 DEF Write
    <3>10. /\ Books(journal, projection, events, view, lifecycle)'
           /\ Grown(journal')
      BY <3>4, <3>6, WriteKeeps
    <3>11. Prompting' /\ \A d \in Executions : AnswerMoves(d)
      <4>1. CASE w.ok
        BY <1>0, <1>2, <1>3, <2>1, <3>4, <3>8, <3>9, <4>1, AnswerGiven
      <4>2. CASE ~w.ok
        BY <1>0, <1>2, <1>3, <2>1, <3>4, <3>8, <4>2, AnswerGiven
      <4> QED
        BY <4>1, <4>2
    <3> QED
      BY <3>10, <3>11 DEF Keeps
  <2>3. CASE /\ x.result = "error" /\ Write(AppendOne(s, "failed", e))
             /\ execution' = [execution EXCEPT
                                ![e] = [Finished(@, FALSE) EXCEPT !.answer = "error"]]
    <3>1. PICK w : w = AppendOne(s, "failed", e)
      OBVIOUS
    <3>2. PICK f : f = Finished(execution[e], FALSE)
      OBVIOUS
    <3>3. PICK y : y = [f EXCEPT !.answer = "error"]
      OBVIOUS
    <3>4. execution' = [execution EXCEPT ![e] = y] /\ Write(w)
      BY <2>3, <3>1, <3>2, <3>3
    <3>5. f \in Prompts /\ f.session = s /\ f.pc = execution[e].pc
      BY <1>4, <2>1, <3>2, FinishedFields
    <3>6. /\ y \in Prompts /\ y.session = s /\ y.pc = execution[e].pc
          /\ y.answer = "error"
      BY <3>3, <3>5 DEF Prompts
    <3>k. "failed" \in Kinds
      BY DEF Kinds
    <3>7. Extends(w)
      BY <1>0, <1>4, <2>1, <3>1, <3>k, AppendOneExtends
    <3>8. /\ Books(journal, projection, events, view, lifecycle)'
          /\ Grown(journal')
      BY <3>4, <3>7, WriteKeeps
    <3>9. Prompting' /\ \A d \in Executions : AnswerMoves(d)
      BY <1>0, <1>2, <1>3, <2>1, <3>4, <3>6, AnswerGiven
    <3> QED
      BY <3>8, <3>9 DEF Keeps
  <2> QED
    BY <1>1, <1>2, <1>6, <2>2, <2>3 DEF HandleComplete
<1> QED
  BY <1>1, <1>2, <1>5, <1>6 DEF HandleComplete

LEMMA EventKeeps ==
  ASSUME IInv, HandleEvent
  PROVE  Keeps
<1>1. channel \in Seq(Reports) /\ channel # <<>> /\ Len(channel) <= ExecutionCapacity
  BY DEF IInv, Typed, HandleEvent
<1>2. /\ Head(channel) \in Reports /\ Tail(channel) \in Seq(Reports)
      /\ Len(Tail(channel)) = Len(channel) - 1 /\ Len(channel) \in Nat
  BY <1>1, HeadTailProperties
<1>3. Wires'
  BY <1>1, <1>2, Parts, ApplicationConstants DEF Wires, HandleEvent
<1>4. PICK x \in Reports : HandleProgress(x) \/ HandleComplete(x)
  BY <1>2 DEF HandleEvent
<1>5. UNCHANGED <<lifecycle, allocated, view>>
  BY DEF HandleEvent
<1> QED
  BY <1>3, <1>4, <1>5, ProgressKeeps, CompleteKeeps

\* A report goes into the channel, or the channel stays.
LEMMA SentKeeps ==
  ASSUME Wires, NEW x \in Reports, Sent(x) \/ UNCHANGED channel,
         UNCHANGED <<lifecycle, view>>
  PROVE  Wires'
<1>1. CASE UNCHANGED channel
  BY <1>1 DEF Wires
<1>2. CASE Sent(x)
  <2>1. /\ channel' \in Seq(Reports) /\ Len(channel') = Len(channel) + 1
        /\ Len(channel) < ExecutionCapacity /\ Len(channel) \in Nat
    BY <1>2, AppendProperties DEF Wires, Sent
  <2> QED
    BY <2>1, ApplicationConstants DEF Wires
<1> QED
  BY <1>1, <1>2

LEMMA ThreadKeeps ==
  ASSUME IInv, NEW e \in Executions, ExecutionStep(e)
  PROVE  Keeps
<1>0. /\ Prompting /\ Wires /\ Typed
      /\ Books(journal, projection, events, view, lifecycle)
  BY Parts
<1>1. PICK x : x = execution[e]
  OBVIOUS
<1>2. x \in Prompts /\ TurnLimit \in Nat
  BY <1>0, <1>1, ApplicationConstants DEF Prompting
<1>3. x.pc # "ended"
  BY <1>1 DEF ExecutionStep, Turn, Call, Tool, Complete
<1>4. x.session \in Sessions
  BY <1>0, <1>1, <1>3 DEF Prompting, Threads
<1>5. Progress(e) \in Reports /\ Completion(e) \in Reports
  BY <1>1, <1>2, <1>4 DEF Progress, Completion, Reports, Prompts
<1>6. \E y, r : /\ Moved(e, y) /\ r \in Reports /\ (Sent(r) \/ UNCHANGED channel)
                /\ y \in Prompts /\ y.session = x.session /\ y.root = x.root
                /\ y.answer = x.answer
  <2>1. PICK failed : failed = [x EXCEPT !.pc = "complete", !.result = "error"]
    OBVIOUS
  <2>2. PICK done : done = [x EXCEPT !.pc = "complete", !.result = "ok"]
    OBVIOUS
  <2>3. PICK called : called = [x EXCEPT !.pc = "call", !.turns = @ + 1]
    OBVIOUS
  <2>4. PICK tooled : tooled = [x EXCEPT !.pc = "tool"]
    OBVIOUS
  <2>5. PICK turned : turned = [x EXCEPT !.pc = "turn"]
    OBVIOUS
  <2>6. PICK gone : gone = Gone(x)
    OBVIOUS
  <2>7. /\ failed \in Prompts /\ failed.session = x.session
        /\ failed.root = x.root /\ failed.answer = x.answer
    BY <1>2, <2>1 DEF Prompts
  <2>8. /\ done \in Prompts /\ done.session = x.session
        /\ done.root = x.root /\ done.answer = x.answer
    BY <1>2, <2>2 DEF Prompts
  <2>9. x.turns < TurnLimit =>
          /\ called \in Prompts /\ called.session = x.session
          /\ called.root = x.root /\ called.answer = x.answer
    <3>1. SUFFICES ASSUME x.turns < TurnLimit
                   PROVE  /\ called \in Prompts /\ called.session = x.session
                          /\ called.root = x.root /\ called.answer = x.answer
      OBVIOUS
    <3>2. PICK n : n = x.turns + 1
      OBVIOUS
    <3>3. n \in 0..TurnLimit
      BY <1>2, <3>1, <3>2 DEF Prompts
    <3>4. called = [x EXCEPT !.pc = "call", !.turns = n]
      BY <2>3, <3>2
    <3> QED
      BY <1>2, <3>3, <3>4 DEF Prompts
  <2>10. /\ tooled \in Prompts /\ tooled.session = x.session
         /\ tooled.root = x.root /\ tooled.answer = x.answer
    BY <1>2, <2>4 DEF Prompts
  <2>11. /\ turned \in Prompts /\ turned.session = x.session
         /\ turned.root = x.root /\ turned.answer = x.answer
    BY <1>2, <2>5 DEF Prompts
  <2>12. /\ gone \in Prompts /\ gone.session = x.session
         /\ gone.root = x.root /\ gone.answer = x.answer
    BY <1>2, <2>6, GoneFields
  <2>13. CASE Turn(e)
    <3>1. /\ UNCHANGED channel
          /\ \/ Moved(e, failed) \/ Moved(e, done)
             \/ x.turns < TurnLimit /\ Moved(e, called)
      BY <1>1, <2>1, <2>2, <2>3, <2>13 DEF Turn, Ends
    <3> QED
      BY <1>5, <2>7, <2>8, <2>9, <3>1
  <2>14. CASE Call(e)
    <3>1. \/ Moved(e, failed) /\ UNCHANGED channel
          \/ Moved(e, tooled) /\ Sent(Progress(e))
      BY <1>1, <2>1, <2>4, <2>14 DEF Call, Ends
    <3> QED
      BY <1>5, <2>7, <2>10, <3>1
  <2>15. CASE Tool(e)
    <3>1. \/ Moved(e, failed) /\ UNCHANGED channel
          \/ Moved(e, turned) /\ Sent(Progress(e))
      BY <1>1, <2>1, <2>5, <2>15 DEF Tool, Ends
    <3> QED
      BY <1>5, <2>7, <2>11, <3>1
  <2>16. CASE Complete(e)
    <3>1. Moved(e, gone) /\ (Sent(Completion(e)) \/ UNCHANGED channel)
      BY <1>1, <2>6, <2>16 DEF Complete, CompletionSent
    <3> QED
      BY <1>5, <2>12, <3>1
  <2> QED
    BY <2>13, <2>14, <2>15, <2>16 DEF ExecutionStep
<1>7. PICK y, r : /\ Moved(e, y) /\ r \in Reports /\ (Sent(r) \/ UNCHANGED channel)
                  /\ y \in Prompts /\ y.session = x.session /\ y.root = x.root
                  /\ y.answer = x.answer
  BY <1>6
<1>8. /\ execution' = [execution EXCEPT ![e] = y]
      /\ UNCHANGED <<lifecycle, journal, allocated, projection, active, events, view>>
  BY <1>7 DEF Moved
<1>9. Prompting' /\ \A d \in Executions : AnswerMoves(d)
  BY <1>0, <1>1, <1>3, <1>7, <1>8, ThreadMoves
<1>10. Wires'
  BY <1>0, <1>7, <1>8, SentKeeps
<1>11. Books(journal, projection, events, view, lifecycle)' /\ Grown(journal')
  BY <1>0, <1>8, GrownSame
<1> QED
  BY <1>9, <1>10, <1>11 DEF Keeps

\* The client takes the first of the updates.
LEMMA ReceiveKeeps ==
  ASSUME IInv, Receive
  PROVE  Keeps
<1>0. /\ Prompting /\ Wires /\ Typed
      /\ Books(journal, projection, events, view, lifecycle)
  BY Parts
<1>1. PICK x : x = Head(events)
  OBVIOUS
<1>2. /\ events \in Seq(Updates) /\ events # <<>> /\ events' = Tail(events)
      /\ view' = IF view[x.session] = Unsynced \/ x.sequence <= view[x.session]
                 THEN view ELSE [view EXCEPT ![x.session] = x.sequence]
      /\ UNCHANGED <<lifecycle, journal, execution, allocated, projection, active, channel>>
  BY <1>0, <1>1 DEF Receive, Books
<1>3. /\ Len(events) \in Nat \ {0} /\ Len(Tail(events)) = Len(events) - 1
      /\ Tail(events) \in Seq(Updates)
      /\ \A i \in 1..Len(Tail(events)) : Tail(events)[i] = events[i + 1]
      /\ x = events[1] /\ x \in Updates
  BY <1>1, <1>2, HeadTailProperties
<1>4. x.session \in Sessions /\ x.sequence \in Nat
  BY <1>3 DEF Updates
<1>5. /\ view' \in [Sessions -> Nat \cup {Unsynced}]
      /\ \A u \in Sessions :
           /\ (view'[u] = Unsynced) <=> (view[u] = Unsynced)
           /\ view[u] # Unsynced =>
                /\ view[u] \in Nat /\ view'[u] \in Nat /\ view[u] <= view'[u]
                /\ u = x.session => x.sequence <= view'[u]
  BY <1>0, <1>2, <1>4 DEF Wires, Unsynced
<1>6. Prompting' /\ \A d \in Executions : AnswerMoves(d)
  BY <1>0, <1>2, PromptsSame
<1>7. Wires'
  BY <1>0, <1>2, <1>5 DEF Wires
<1>8. Grown(journal')
  BY <1>0, <1>2, GrownSame
<1> DEFINE ev == Tail(events)
<1>9. Queue(journal, ev)
  <2> SUFFICES ASSUME NEW u \in Sessions
               PROVE  /\ \A i, k \in 1..Len(ev) :
                           (ev[i].session = u /\ ev[k].session = u /\ i < k)
                              => ev[i].sequence < ev[k].sequence
                      /\ \A i \in 1..Len(ev) :
                           ev[i].session = u => ev[i].sequence <= Len(journal[u])
    BY DEF Queue
  <2>1. /\ \A i, k \in 1..Len(events) :
             (events[i].session = u /\ events[k].session = u /\ i < k)
                => events[i].sequence < events[k].sequence
        /\ \A i \in 1..Len(events) :
             events[i].session = u => events[i].sequence <= Len(journal[u])
    BY <1>0 DEF Books, Queue
  <2>2. \A i \in 1..Len(ev) : i + 1 \in 1..Len(events) /\ ev[i] = events[i + 1]
    BY <1>3
  <2>3. \A i \in 1..Len(ev) : i \in Int
    OBVIOUS
  <2> HIDE DEF ev
  <2>4. ASSUME NEW i \in 1..Len(ev), NEW k \in 1..Len(ev),
               ev[i].session = u, ev[k].session = u, i < k
        PROVE  ev[i].sequence < ev[k].sequence
    <3>1. /\ i + 1 \in 1..Len(events) /\ k + 1 \in 1..Len(events) /\ i + 1 < k + 1
          /\ ev[i] = events[i + 1] /\ ev[k] = events[k + 1]
      BY <2>2, <2>3, <2>4
    <3> QED
      BY <2>1, <2>4, <3>1
  <2>5. ASSUME NEW i \in 1..Len(ev), ev[i].session = u
        PROVE  ev[i].sequence <= Len(journal[u])
    BY <2>1, <2>2, <2>5
  <2> QED
    BY <2>4, <2>5
<1>10. Heard(journal, ev, view')
  <2> SUFFICES ASSUME NEW u \in Sessions, view'[u] # Unsynced,
                      NEW n \in (view'[u] + 1)..Len(journal[u])
               PROVE  \E i \in 1..Len(ev) : ev[i] = Update(u, n)
    BY DEF Heard
  <2>1. /\ view[u] # Unsynced /\ view[u] \in Nat /\ view'[u] \in Nat
        /\ view[u] <= view'[u] /\ (u = x.session => x.sequence <= view'[u])
    BY <1>5
  <2>2. n \in (view[u] + 1)..Len(journal[u]) /\ n > view'[u] /\ n \in Nat
    <3>1. Len(journal[u]) \in Nat
      BY <1>0 DEF Books
    <3> QED
      BY <2>1, <3>1
  <2>3. PICK i \in 1..Len(events) : events[i] = Update(u, n)
    BY <1>0, <2>1, <2>2 DEF Books, Heard
  <2>4. events[i].session = u /\ events[i].sequence = n
    BY <2>3 DEF Update
  <2>5. i # 1
    BY <1>3, <1>4, <2>1, <2>2, <2>4
  <2>6. i - 1 \in 1..Len(ev) /\ (i - 1) + 1 = i
    BY <1>3, <2>5
  <2>7. ev[i - 1] = events[i]
    BY <1>3, <2>6
  <2> QED
    BY <2>3, <2>6, <2>7
<1>11. Len(ev) <= EventCapacity
  BY <1>0, <1>3, ApplicationConstants DEF Books
<1>12. Books(journal, projection, events, view, lifecycle)'
  <2> HIDE DEF ev
  <2>1. events' = ev /\ ev \in Seq(Updates)
    BY <1>2, <1>3 DEF ev
  <2> QED
    BY <1>0, <1>2, <1>9, <1>10, <1>11, <2>1 DEF Books
<1> QED
  BY <1>6, <1>7, <1>8, <1>12 DEF Keeps

\* Without updates and without a view there is nothing to agree on.
LEMMA NothingHeard ==
  ASSUME Books(journal, projection, events, view, lifecycle),
         NEW p \in [Sessions -> Seq(Changes)],
         \A s \in Sessions : p[s] \in {Missing, journal[s]}
  PROVE  Books(journal, p, <<>>, [s \in Sessions |-> Unsynced], lifecycle)
<1> DEFINE v == [s \in Sessions |-> Unsynced]
<1>1. Queue(journal, <<>>)
  BY DEF Queue
<1>2. \A s \in Sessions : v[s] = Unsynced
  OBVIOUS
<1>3. Heard(journal, <<>>, v)
  <2> HIDE DEF v
  <2> QED
    BY <1>2 DEF Heard
<1>4. <<>> \in Seq(Updates) /\ Len(<<>>) <= EventCapacity
  BY ApplicationConstants
<1> QED
  BY <1>1, <1>3, <1>4 DEF Books

LEMMA DisconnectKeeps ==
  ASSUME IInv, Disconnect
  PROVE  Keeps
<1>0. /\ Prompting /\ Wires /\ Typed
      /\ Books(journal, projection, events, view, lifecycle)
  BY Parts
<1>1. Prompting' /\ \A d \in Executions : AnswerMoves(d)
  BY <1>0, PromptsSame DEF Disconnect
<1>2. Wires'
  BY <1>0 DEF Disconnect, Wires
<1>3. Books(journal, projection, <<>>, [s \in Sessions |-> Unsynced], lifecycle)
  <2>1. /\ projection \in [Sessions -> Seq(Changes)]
        /\ \A s \in Sessions : projection[s] \in {Missing, journal[s]}
    BY <1>0 DEF Books
  <2> QED
    BY <1>0, <2>1, NothingHeard
<1>4. Books(journal, projection, events, view, lifecycle)'
  BY <1>3 DEF Disconnect
<1>5. Grown(journal')
  BY <1>0, GrownSame DEF Disconnect
<1> QED
  BY <1>1, <1>2, <1>4, <1>5 DEF Keeps

LEMMA RetireKeeps ==
  ASSUME IInv, Retire
  PROVE  Keeps
<1>0. /\ Prompting /\ Wires /\ Typed
      /\ Books(journal, projection, events, view, lifecycle)
  BY Parts
<1>1. Prompting' /\ \A d \in Executions : AnswerMoves(d)
  BY <1>0, PromptsSame DEF Retire
<1>2. Wires'
  BY <1>0, ApplicationConstants DEF Retire, Wires
<1>3. Books(journal, projection, events, view, lifecycle)' /\ Grown(journal')
  BY <1>0, GrownSame DEF Retire
<1> QED
  BY <1>1, <1>2, <1>3 DEF Keeps

LEMMA RestartKeeps ==
  ASSUME IInv, Restart
  PROVE  Keeps
<1>0. /\ Prompting /\ Wires /\ Typed
      /\ Books(journal, projection, events, view, lifecycle)
  BY Parts
<1>1. /\ execution' = [e \in Executions |->
                         [Gone(execution[e]) EXCEPT
                            !.answer = IF @ = "pending" THEN "lost" ELSE @]]
      /\ active' = [s \in Sessions |-> None] /\ channel' = <<>>
      /\ UNCHANGED <<lifecycle, journal, allocated>>
  BY DEF Restart
<1>2. ASSUME NEW e \in Executions
      PROVE  /\ execution'[e] \in Prompts /\ execution'[e].pc = "ended"
             /\ execution'[e].root = execution[e].root
             /\ execution'[e].answer = IF execution[e].answer = "pending"
                                       THEN "lost" ELSE execution[e].answer
  <2>1. PICK x : x = execution[e]
    OBVIOUS
  <2>2. x \in Prompts /\ TurnLimit \in Nat
    BY <1>0, <2>1, ApplicationConstants DEF Prompting
  <2>3. PICK g : g = Gone(x)
    OBVIOUS
  <2>4. /\ g \in Prompts /\ g.pc = "ended" /\ g.root = x.root
        /\ g.answer = x.answer
    BY <2>2, <2>3, GoneFields
  <2>5. PICK y : y = [g EXCEPT !.answer = IF @ = "pending" THEN "lost" ELSE @]
    OBVIOUS
  <2>6. /\ y \in Prompts /\ y.pc = "ended" /\ y.root = x.root
        /\ y.answer = IF x.answer = "pending" THEN "lost" ELSE x.answer
    BY <2>4, <2>5 DEF Prompts
  <2>7. execution'[e] = y
    BY <1>1, <2>1, <2>3, <2>5
  <2> QED
    BY <2>1, <2>6, <2>7
<1>3. Prompting'
  <2>1. execution' \in [Executions -> Prompts]
    <3>1. execution' = [e \in Executions |-> execution'[e]]
      BY <1>1
    <3> QED
      BY <1>2, <3>1
  <2>2. active' \in [Sessions -> 0..MaxPrompts] /\ \A s \in Sessions : active'[s] = None
    BY <1>1, ApplicationConstants DEF None
  <2>3. Threads'
    BY <1>0, <1>1, <1>2 DEF Prompting, Threads
  <2>4. Running'
    BY <2>2 DEF Running
  <2> QED
    BY <1>0, <1>1, <2>1, <2>2, <2>3, <2>4 DEF Prompting
<1>4. \A e \in Executions : AnswerMoves(e)
  BY <1>2 DEF AnswerMoves
<1>5. Wires'
  BY <1>0, <1>1, ApplicationConstants DEF Restart, Wires
<1>6. Books(journal, projection', <<>>, [s \in Sessions |-> Unsynced], lifecycle)
  <2>1. Missing \in Seq(Changes)
    BY ApplicationConstants DEF Missing, Change, Changes, Kinds, None
  <2>2. /\ projection' \in [Sessions -> Seq(Changes)]
        /\ \A s \in Sessions : projection'[s] = Missing
    BY <2>1 DEF Restart
  <2> QED
    BY <1>0, <2>2, NothingHeard
<1>7. Books(journal, projection, events, view, lifecycle)'
  BY <1>1, <1>6 DEF Restart
<1>8. Grown(journal')
  BY <1>0, <1>1, GrownSame
<1> QED
  BY <1>3, <1>4, <1>5, <1>7, <1>8 DEF Keeps

LEMMA StepKeeps ==
  ASSUME IInv, [Next]_vars
  PROVE  Keeps
<1>1. CASE UNCHANGED vars
  <2>1. /\ Prompting /\ Wires
        /\ Books(journal, projection, events, view, lifecycle)
    BY Parts
  <2>2. UNCHANGED <<lifecycle, journal, execution, allocated, projection, active,
                    events, channel, view>>
    BY <1>1 DEF vars
  <2>3. Prompting' /\ \A d \in Executions : AnswerMoves(d)
    BY <2>1, <2>2, PromptsSame
  <2>4. Wires' /\ Books(journal, projection, events, view, lifecycle)'
    BY <2>1, <2>2 DEF Wires
  <2>5. Grown(journal')
    BY <2>1, <2>2, GrownSame
  <2> QED
    BY <2>3, <2>4, <2>5 DEF Keeps
<1> QED
  BY <1>1, CreateKeeps, ChangeKeeps, CancelKeeps, ResumeKeeps, StartKeeps,
     EventKeeps, ThreadKeeps, ReceiveKeeps, DisconnectKeeps, RetireKeeps,
     RestartKeeps DEF Next

LEMMA InitHolds ==
  ASSUME Init
  PROVE  IInv
<1>1. Unused \in Prompts
  <2>1. PICK no \in BOOLEAN : no = FALSE
    OBVIOUS
  <2>2. Unused = [session |-> "none", root |-> "unused", flag |-> no,
                  pc |-> "ended", turns |-> 0, result |-> "none",
                  answer |-> "unasked"]
    BY <2>1 DEF Unused
  <2>3. 0 \in 0..TurnLimit
    BY ApplicationConstants
  <2> QED
    BY <2>1, <2>2, <2>3 DEF Prompts
<1>2. Missing \in Seq(Changes)
  BY ApplicationConstants DEF Missing, Change, Changes, Kinds, None
<1>3. Typed
  BY <1>1, ApplicationConstants DEF Init, Typed, None
<1>4. \A e \in Executions : execution[e] = Unused
  BY DEF Init
<1>5. Unused.pc = "ended" /\ Unused.answer = "unasked"
  BY DEF Unused
<1>6. Threads /\ Running /\ AnswerIsTrue
  BY <1>4, <1>5 DEF Init, Threads, Running, AnswerIsTrue
<1>7. Books(journal, projection, events, view, lifecycle)
  <2>1. /\ journal \in [Sessions -> Seq(Changes)]
        /\ projection \in [Sessions -> Seq(Changes)]
        /\ \A s \in Sessions : projection[s] = Missing /\ journal[s] = <<>>
        /\ \A s \in Sessions : view[s] = Unsynced
        /\ events = <<>> /\ events \in Seq(Updates)
    BY <1>2 DEF Init
  <2>2. Queue(journal, events) /\ Heard(journal, events, view)
    BY <2>1 DEF Queue, Heard
  <2>3. Len(events) <= EventCapacity
    BY <2>1, ApplicationConstants
  <2> QED
    BY <2>1, <2>2, <2>3 DEF Books
<1> QED
  BY <1>3, <1>6, <1>7 DEF IInv

-----------------------------------------------------------------------------
(* The theorems.                                                           *)

LEMMA Inductive == Spec => []IInv
<1>1. IInv /\ [Next]_vars => IInv'
  BY StepKeeps, KeepsInvariant
<1> QED
  BY <1>1, InitHolds, PTL DEF Spec

\* The worker, its queues and its prompts keep their types and capacities
\* (application.rs serve_application_worker).
THEOREM TypeCorrect == Spec => []TypeOK
<1>1. IInv => TypeOK
  <2> SUFFICES ASSUME IInv PROVE TypeOK
    OBVIOUS
  <2>1. /\ lifecycle \in [Sessions -> {"absent", "open", "closed"}]
        /\ allocated \in 0..MaxPrompts
        /\ Len(events) <= EventCapacity /\ Len(channel) <= ExecutionCapacity
    BY DEF IInv, Typed, Books
  <2>2. \A s \in Sessions : active[s] \in {None} \cup (1..allocated)
    BY ApplicationConstants DEF IInv, Typed, Running, None
  <2>3. \A e \in Executions :
          /\ execution[e].root \in {"unused", "active", "completed", "failed"}
          /\ execution[e].turns \in 0..TurnLimit
          /\ execution[e].answer \in
               {"unasked", "pending", "end", "cancelled", "error", "lost"}
    BY DEF IInv, Typed, Prompts
  <2> QED
    BY <2>1, <2>2, <2>3 DEF TypeOK
<1> QED
  BY <1>1, Inductive, PTL

\* A projected session is its journal, also after a restart
\* (project_journal_entry).
THEOREM ProjectionsAgree == Spec => []ProjectionFollowsJournal
<1>1. IInv => ProjectionFollowsJournal
  BY DEF IInv, Books, ProjectionFollowsJournal
<1> QED
  BY <1>1, Inductive, PTL

\* A client with a snapshot is told of every later change, in order
\* (append_session_change, reserve_session_event_slot).
THEOREM UpdatesArrive == Spec => []NoUpdateLost
<1>1. IInv => NoUpdateLost
  <2> SUFFICES ASSUME IInv PROVE NoUpdateLost
    OBVIOUS
  <2>1. /\ Queue(journal, events) /\ Heard(journal, events, view)
        /\ DOMAIN events = 1..Len(events)
    BY LenProperties DEF IInv, Books
  <2> QED
    BY <2>1 DEF Queue, Heard, NoUpdateLost
<1> QED
  BY <1>1, Inductive, PTL

\* The answer to a prompt agrees with what is durable (finish_prompt,
\* cancel_prompt).
THEOREM AnswersAreTrue == Spec => []AnswerIsTrue
<1>1. IInv => AnswerIsTrue
  BY DEF IInv
<1> QED
  BY <1>1, Inductive, PTL

\* Nothing of an answered prompt's execution is journaled any more
\* (handle_execution_progress).
THEOREM AnswersAreFinal == Spec => NothingAfterTheAnswer
<1> DEFINE Final ==
             \A e \in Executions, s \in Sessions :
               execution[e].answer \notin {"unasked", "pending"}
                 => StoryOf(e, s)' = StoryOf(e, s)
<1>1. IInv /\ [Next]_vars => [Final]_vars
  <2> SUFFICES ASSUME IInv, [Next]_vars PROVE Final
    OBVIOUS
  <2>1. Keeps
    BY StepKeeps
  <2>2. /\ journal \in [Sessions -> Seq(Changes)]
        /\ journal' \in [Sessions -> Seq(Changes)] /\ Grown(journal')
    BY <2>1 DEF IInv, Keeps, Books
  <2> QED
    BY <2>2, StoryStays DEF Unanswered
<1> QED
  BY <1>1, Inductive, PTL DEF Spec, NothingAfterTheAnswer

=============================================================================
