--------------------------- MODULE DashboardStream ---------------------------
(***************************************************************************)
(* The dashboard's event stream: the event buffer                          *)
(* (core/dashboard_stream.py), the broadcaster task and the generator that *)
(* serves one browser (main.py).                                           *)
(*                                                                         *)
(* The event loop runs the broadcaster and the generators, one at a time.  *)
(* The business state is aggregated and published in threads, which enter  *)
(* the buffer's lock at any moment: also between the two halves of one     *)
(* turn of the broadcaster.  An event therefore gets its id in one order   *)
(* and reaches the queues in another.                                      *)
(*                                                                         *)
(* A browser keeps the id of the last event it received over reconnects    *)
(* and over restarts of the process, which loses everything else.          *)
(***************************************************************************)
EXTENDS Integers, FiniteSets, Sequences

CONSTANTS
  Clients,          \* browsers, with at most one connection each
  Contents,         \* business payloads without their volatile ages
  NoContent,        \* payload of a heartbeat, hash before the first snapshot
  ReplayLimit,      \* _DASHBOARD_REPLAY_EVENT_LIMIT
  QueueLimit,       \* _DASHBOARD_CLIENT_QUEUE_LIMIT
  Headroom,         \* versions reserved for one process
  MaxChanges,       \* bound: changes of the business state
  MaxBeats,         \* bound: heartbeats
  MaxConnects,      \* bound: connections
  MaxRestarts,      \* bound: restarts of the process
  MaxFaults         \* bound: failed aggregations

ASSUME StreamAssumption ==
  /\ NoContent \notin Contents
  /\ ReplayLimit \in Nat \ {0}
  /\ QueueLimit \in Nat /\ QueueLimit >= 2
  /\ Headroom \in Nat \ {0}
  /\ {MaxChanges, MaxBeats, MaxConnects, MaxRestarts, MaxFaults} \subseteq Nat

Periodic == "sse_broadcaster"
ASSUME PeriodicAssumption == Periodic \notin Clients
Builders == Clients \cup {Periodic}

VARIABLES
  state,            \* the business state an aggregation would read now
  \* DashboardEventBuffer
  events, event_sequence, snapshot_sequence, last_content,
  process,          \* epoch of this process, in versions
  turn,             \* where the broadcaster is in its loop body
  thread,           \* the aggregation of each builder: step, payload, event
  \* one connection per browser
  phase, request, delivered, replay, queue,
  sent,             \* history: largest id put into the connection's queue
  \* the browser: last event id, process it came from, newest version shown
  last_event_id, origin, shown,
  count             \* what the bounds count

buffer == <<events, event_sequence, snapshot_sequence, last_content>>
connection == <<phase, request, delivered, replay>>
queues == <<queue, sent>>
browser == <<last_event_id, origin, shown>>
vars == <<state, buffer, process, turn, thread, connection, queues, browser,
          count>>

Event == [id : Nat, version : Nat, content : Contents \cup {NoContent}]
NoEvent == [id |-> 0, version |-> 0, content |-> NoContent]
Snapshot(e) == e.content # NoContent
Retained == {events[i] : i \in DOMAIN events}
\* _sse_clients
Connected == {c \in Clients : phase[c] # "closed"}
\* the loop runs something else only while the broadcaster sleeps
LoopFree == turn = "sleep"

Spend(what, bound) ==
  /\ count[what] < bound
  /\ count' = [count EXCEPT ![what] = @ + 1]

Idle == [at |-> "idle", content |-> NoContent, event |-> NoEvent]

Init ==
  /\ state \in Contents
  /\ events = <<>> /\ event_sequence = 0 /\ last_content = NoContent
  /\ process = 0 /\ snapshot_sequence = 0
  /\ turn = "sleep"
  /\ thread = [b \in Builders |-> Idle]
  /\ phase = [c \in Clients |-> "closed"]
  /\ request = [c \in Clients |-> 0]
  /\ delivered = [c \in Clients |-> 0]
  /\ replay = [c \in Clients |-> {}]
  /\ queue = [c \in Clients |-> <<>>]
  /\ sent = [c \in Clients |-> 0]
  /\ last_event_id = [c \in Clients |-> 0]
  /\ origin = [c \in Clients |-> 0]
  /\ shown = [c \in Clients |-> 0]
  /\ count = [w \in {"change", "beat", "connect", "restart", "fault"} |-> 0]

-----------------------------------------------------------------------------
(* The buffer.                                                             *)


\* deque(maxlen=replay_limit)
Retain(kept, e) ==
  IF Len(kept) = ReplayLimit THEN Append(Tail(kept), e) ELSE Append(kept, e)


\* a snapshot supersedes every retained event
AppendEvent(e) ==
  /\ event_sequence' = e.id
  /\ events' = Retain(IF Snapshot(e) THEN <<>> ELSE events, e)

\* what replay_after sends for a Last-Event-ID that it can serve
ReplayAfter(r) ==
  {e \in Retained : /\ e.id > r
                    /\ \/ \E f \in Retained : f.id = r
                       \/ \E f \in Retained : /\ Snapshot(f)
                                              /\ f.id > r /\ e.id >= f.id}

\* mutant: any newer event serves as the start of the replay
NeedsFullSnapshot_NoBoundary(r) == r = 0 \/ r > event_sequence

\* replay_after returns None; no header, or an id below 1, is 0 here
NeedsFullSnapshot(r) ==
  \/ r = 0
  \/ /\ r # event_sequence
     /\ \A e \in Retained : e.id # r
     /\ \A e \in Retained : Snapshot(e) => e.id <= r

-----------------------------------------------------------------------------
(* Aggregation and publication, in a thread.                               *)

\* a thread whose generator has gone publishes, and nobody takes its event
Finished(b, e) ==
  IF b = Periodic \/ phase[b] = "building"
  THEN [at |-> "done", content |-> NoContent, event |-> e]
  ELSE Idle

\* the payload is read long before it is published
Aggregate(b) ==
  /\ thread[b].at = "aggregate"
  /\ \/ /\ thread' = [thread EXCEPT ![b].at = "publish", ![b].content = state]
        /\ UNCHANGED count
     \/ /\ Spend("fault", MaxFaults)
        /\ thread' = [thread EXCEPT ![b] = Finished(b, NoEvent)]
  /\ UNCHANGED <<state, buffer, process, turn, connection, queues, browser>>

\* mutant: only the broadcaster's own snapshots set the hash
Remembered_PeriodicOnly(b, payload) ==
  IF b = Periodic THEN payload ELSE last_content

\* a full snapshot is remembered like a periodic one
Remembered(b, payload) == payload

\* only the periodic publication skips an unchanged payload
Publish(b) ==
  LET payload == thread[b].content
      e == [id |-> event_sequence + 1, version |-> snapshot_sequence + 1,
            content |-> payload]
  IN  /\ thread[b].at = "publish"
      /\ IF b = Periodic /\ payload = last_content
         THEN /\ thread' = [thread EXCEPT ![b] = Finished(b, NoEvent)]
              /\ UNCHANGED buffer
         ELSE /\ snapshot_sequence < process + Headroom - 1
              /\ snapshot_sequence' = e.version
              /\ last_content' = Remembered(b, payload)
              /\ AppendEvent(e)
              /\ thread' = [thread EXCEPT ![b] = Finished(b, e)]
      /\ UNCHANGED <<state, process, turn, connection, queues, browser, count>>

-----------------------------------------------------------------------------
(* The broadcaster: one turn is SnapshotStep and HeartbeatStep, without an  *)
(* await in between.                                                       *)

Larger(a, b) == IF a > b THEN a ELSE b

\* mutant: a full queue drops the new event
Put_DropNew(q, e) == IF Len(q) = QueueLimit THEN q ELSE Append(q, e)

\* put_nowait, and when the queue is full drop its oldest event first
Put(q, e) == Append(IF Len(q) = QueueLimit THEN Tail(q) ELSE q, e)

Broadcast(e) ==
  /\ queue' = [c \in Clients |->
                 IF c \in Connected THEN Put(queue[c], e) ELSE queue[c]]
  /\ sent' = [c \in Clients |->
                IF c \in Connected THEN Larger(sent[c], e.id) ELSE sent[c]]

\* consume a finished aggregation; start one when a browser is connected.  That
\* the five seconds since the last one have passed is left open
SnapshotStep ==
  /\ turn = "sleep"
  /\ turn' = "beat"
  /\ IF thread[Periodic].at = "done" /\ thread[Periodic].event # NoEvent
     THEN Broadcast(thread[Periodic].event)
     ELSE UNCHANGED queues
  /\ thread' = IF thread[Periodic].at \notin {"idle", "done"} THEN thread
               ELSE [thread EXCEPT ![Periodic] =
                       IF Connected # {} THEN [Idle EXCEPT !.at = "aggregate"]
                       ELSE Idle]
  /\ UNCHANGED <<state, buffer, process, connection, browser, count>>

Heartbeat ==
  [id |-> event_sequence + 1, version |-> snapshot_sequence,
   content |-> NoContent]

\* a heartbeat is due only every fifteen seconds, so it may be skipped
HeartbeatStep ==
  /\ turn = "beat"
  /\ turn' = "sleep"
  /\ \/ UNCHANGED <<buffer, queues, count>>
     \/ /\ Connected # {}
        /\ Spend("beat", MaxBeats)
        /\ AppendEvent(Heartbeat)
        /\ Broadcast(Heartbeat)
        /\ UNCHANGED <<snapshot_sequence, last_content>>
  /\ UNCHANGED <<state, process, thread, connection, browser>>

-----------------------------------------------------------------------------
(* One browser's connection.                                               *)

\* stream_candidates registers the queue before anything is replayed
Connect(c) ==
  /\ LoopFree /\ phase[c] = "closed"
  /\ Spend("connect", MaxConnects)
  /\ phase' = [phase EXCEPT ![c] = "requested"]
  /\ request' = [request EXCEPT ![c] = last_event_id[c]]
  /\ delivered' = [delivered EXCEPT ![c] = 0]
  /\ UNCHANGED <<state, buffer, process, turn, thread, replay, queues, browser>>

\* first step of event_generator: replay, or build a full snapshot in a thread.
\* A browser's previous thread, orphaned by a disconnect, is given time to end
Answer(c) ==
  /\ LoopFree /\ phase[c] = "requested"
  /\ IF NeedsFullSnapshot(request[c])
     THEN /\ thread[c].at = "idle"
          /\ phase' = [phase EXCEPT ![c] = "building"]
          /\ request' = [request EXCEPT ![c] = 0]
          /\ thread' = [thread EXCEPT ![c].at = "aggregate"]
          /\ UNCHANGED replay
     ELSE /\ phase' = [phase EXCEPT ![c] = "open"]
          /\ replay' = [replay EXCEPT ![c] = ReplayAfter(request[c])]
          /\ UNCHANGED <<request, thread>>
  /\ UNCHANGED <<state, buffer, process, turn, delivered, queues, browser,
                 count>>

\* the full snapshot is merged with what was queued meanwhile; after a failed
\* build the queue is left alone
FullSnapshot(c) ==
  LET e == thread[c].event IN
  /\ LoopFree /\ phase[c] = "building" /\ thread[c].at = "done"
  /\ phase' = [phase EXCEPT ![c] = "open"]
  /\ thread' = [thread EXCEPT ![c] = Idle]
  /\ IF e = NoEvent
     THEN UNCHANGED <<replay, queue>>
     ELSE /\ replay' = [replay EXCEPT ![c] =
                          {queue[c][i] : i \in DOMAIN queue[c]} \cup {e}]
          /\ queue' = [queue EXCEPT ![c] = <<>>]
  /\ UNCHANGED <<state, buffer, process, turn, request, delivered, sent,
                 browser, count>>

\* the generator yields an event and the browser receives it
Deliver(c, e) ==
  /\ delivered' = [delivered EXCEPT ![c] = e.id]
  /\ last_event_id' = [last_event_id EXCEPT ![c] = e.id]
  /\ origin' = [origin EXCEPT ![c] = process]
  /\ shown' = IF Snapshot(e)
              THEN [shown EXCEPT ![c] = Larger(@, e.version)]
              ELSE shown

\* the replay list is sorted by id and holds each id once: a set, least id first
YieldReplay(c) ==
  /\ LoopFree /\ phase[c] = "open"
  /\ \E e \in replay[c] :
       /\ \A f \in replay[c] : e.id <= f.id
       /\ Deliver(c, e)
       /\ replay' = [replay EXCEPT ![c] = {f \in @ : f.id > e.id}]
  /\ UNCHANGED <<state, buffer, process, turn, thread, phase, request, queues,
                 count>>


\* an event that is not newer than the last one yielded is skipped
Fresh(c, e) == e.id > delivered[c]

YieldQueued(c) ==
  /\ LoopFree /\ phase[c] = "open" /\ replay[c] = {} /\ queue[c] # <<>>
  /\ queue' = [queue EXCEPT ![c] = Tail(@)]
  /\ IF Fresh(c, Head(queue[c])) THEN Deliver(c, Head(queue[c]))
     ELSE UNCHANGED <<delivered, browser>>
  /\ UNCHANGED <<state, buffer, process, turn, thread, phase, request, replay,
                 sent, count>>

\* the generator is closed; its aggregation thread runs on
Disconnect(c) ==
  /\ LoopFree /\ phase[c] # "closed"
  /\ phase' = [phase EXCEPT ![c] = "closed"]
  /\ replay' = [replay EXCEPT ![c] = {}]
  /\ queue' = [queue EXCEPT ![c] = <<>>]
  /\ sent' = [sent EXCEPT ![c] = 0]
  /\ delivered' = [delivered EXCEPT ![c] = 0]
  /\ thread' = IF thread[c].at = "done" THEN [thread EXCEPT ![c] = Idle]
               ELSE thread
  /\ UNCHANGED <<state, buffer, process, turn, request, browser, count>>

-----------------------------------------------------------------------------
(* The environment.                                                        *)

Change ==
  /\ Spend("change", MaxChanges)
  /\ \E s \in Contents \ {state} : state' = s
  /\ UNCHANGED <<buffer, process, turn, thread, connection, queues, browser>>

\* mutant: the default epoch, as tests use it
RestartSafeEpoch_Zero == 0

RestartSafeEpoch == process + Headroom

\* event ids start again at 1, versions at the start time of the process
Restart ==
  /\ Spend("restart", MaxRestarts)
  /\ events' = <<>> /\ event_sequence' = 0 /\ last_content' = NoContent
  /\ process' = RestartSafeEpoch
  /\ snapshot_sequence' = process'
  /\ turn' = "sleep"
  /\ thread' = [b \in Builders |-> Idle]
  /\ phase' = [c \in Clients |-> "closed"]
  /\ request' = [c \in Clients |-> 0]
  /\ delivered' = [c \in Clients |-> 0]
  /\ replay' = [c \in Clients |-> {}]
  /\ queue' = [c \in Clients |-> <<>>]
  /\ sent' = [c \in Clients |-> 0]
  /\ UNCHANGED <<state, browser>>

Client(c) ==
  \/ Connect(c)
  \/ Answer(c)
  \/ FullSnapshot(c)
  \/ YieldReplay(c)
  \/ YieldQueued(c)
  \/ Disconnect(c)

Next ==
  \/ \E b \in Builders : Aggregate(b) \/ Publish(b)
  \/ SnapshotStep
  \/ HeartbeatStep
  \/ \E c \in Clients : Client(c)
  \/ Change
  \/ Restart

\* the broadcaster loops while the process runs, and threads end
Fairness ==
  /\ WF_vars(SnapshotStep)
  /\ WF_vars(HeartbeatStep)
  /\ \A b \in Builders : WF_vars(Aggregate(b)) /\ WF_vars(Publish(b))

Spec == Init /\ [][Next]_vars /\ Fairness

-----------------------------------------------------------------------------
(* Types and the shape of the data.                                        *)

Ids == 1..event_sequence
Threads == [at : {"idle", "aggregate", "publish", "done"},
            content : Contents \cup {NoContent}, event : Event]

\* Every variable has its type; a queue is never longer than its limit and the
\* replay window never longer than its own (core/dashboard_stream.py, main.py).
TypeOK ==
  /\ state \in Contents
  /\ events \in Seq(Event) /\ Len(events) <= ReplayLimit
  /\ {event_sequence, snapshot_sequence, process} \subseteq Nat
  /\ last_content \in Contents \cup {NoContent}
  /\ turn \in {"sleep", "beat"}
  /\ thread \in [Builders -> Threads]
  /\ phase \in [Clients -> {"closed", "requested", "building", "open"}]
  /\ request \in [Clients -> Nat] /\ delivered \in [Clients -> Nat]
  /\ replay \in [Clients -> SUBSET Event]
  /\ queue \in [Clients -> Seq(Event)]
  /\ \A c \in Clients : Len(queue[c]) <= QueueLimit
  /\ sent \in [Clients -> Nat]
  /\ last_event_id \in [Clients -> Nat] /\ origin \in [Clients -> Nat]
  /\ shown \in [Clients -> Nat]
  /\ count \in [{"change", "beat", "connect", "restart", "fault"} -> Nat]

-----------------------------------------------------------------------------
(* Correctness.                                                            *)

\* Whatever id of this process a browser reconnects with, what replay_after
\* sends has no gap: it goes on right after that id, or it starts over with the
\* newest complete state; otherwise the browser gets a full snapshot
\* (DashboardEventBuffer._append and replay_after).
ReplayHasNoGap ==
  \A r \in Ids : ~NeedsFullSnapshot(r) =>
    LET ids == {e.id : e \in ReplayAfter(r)} IN
    \/ ids = (r + 1)..event_sequence
    \/ \E e \in ReplayAfter(r) : /\ Snapshot(e)
                                  /\ e.version = snapshot_sequence
                                  /\ ids = e.id..event_sequence

\* The queue of a browser is "latest wins": the newest event that was broadcast
\* to it is still on its way to the browser, or that event or a newer one has
\* been yielded, although snapshots are broadcast out of order and the queue
\* drops events (_broadcast_dashboard_event, event_generator).
LatestWins ==
  \A c \in Connected :
    \/ delivered[c] >= sent[c]
    \/ \E e \in replay[c] : e.id = sent[c]
    \/ \E i \in DOMAIN queue[c] : queue[c][i].id = sent[c]

\* One connection yields events in the order of their ids, none twice, although
\* replay, full snapshot and queue overlap (stream_candidates).
OrderedDelivery ==
  [][\A c \in Clients :
       (phase[c] # "closed" /\ phase'[c] # "closed"
                            /\ delivered'[c] # delivered[c])
       => delivered'[c] > delivered[c]]_vars

\* The version counter never falls below a version some browser has seen, also
\* after restarts (restart_safe_epoch): a browser that keeps the largest version
\* never ignores the snapshots of a new process.
VersionsSurviveRestart == \A c \in Clients : shown[c] <= snapshot_sequence

\* Ids of the replay window are consecutive and end with the last one issued; only
\* its first event can be a snapshot, the newest.
WindowInv ==
  /\ Len(events) <= event_sequence
  /\ \A i \in DOMAIN events :
       /\ events[i].id = event_sequence - Len(events) + i
       /\ Snapshot(events[i]) => i = 1 /\ events[i].version = snapshot_sequence

\* An event on its way to a browser has an id and a version that were issued.
WasIssued(e, ids, versions) == e.id \in 1..ids /\ e.version <= versions
Issued(e) == WasIssued(e, event_sequence, snapshot_sequence)

IssuedInv ==
  /\ process <= snapshot_sequence /\ snapshot_sequence < process + Headroom
  /\ \A e \in Retained : Issued(e)
  /\ \A b \in Builders :
       /\ thread[b].event # NoEvent => Issued(thread[b].event)
       /\ thread[b].at = "publish" => thread[b].content # NoContent
  /\ \A c \in Clients :
       /\ \A e \in replay[c] : Issued(e) /\ e.id > delivered[c]
       /\ \A i \in DOMAIN queue[c] : Issued(queue[c][i])
       /\ sent[c] <= event_sequence

\* A connection that has yielded nothing has nothing to compare with; a closed one
\* holds nothing.
PhaseInv ==
  \A c \in Clients :
    /\ phase[c] # "open" => delivered[c] = 0 /\ replay[c] = {}
    /\ phase[c] = "closed" => queue[c] = <<>> /\ sent[c] = 0

\* A snapshot that heartbeats have overtaken is broadcast after them: the newest
\* event is then at the tail of every queue, and a full queue drops another one.
OvertakenInv ==
  LET e == thread[Periodic].event IN
  \A c \in Connected :
    (e # NoEvent /\ e.id < sent[c] /\ queue[c] # <<>>)
    => queue[c][Len(queue[c])].id = sent[c]

\* The inductive invariant of the stream: window, issued ids and versions, phases,
\* the overtaken snapshot, and the promises that rest on them.
IInv ==
  /\ TypeOK
  /\ WindowInv
  /\ IssuedInv
  /\ PhaseInv
  /\ OvertakenInv
  /\ LatestWins
  /\ VersionsSurviveRestart

\* The newest snapshot of the buffer, when it is still retained.
Newest == IF events = <<>> THEN NoContent ELSE events[1].content

\* While a browser stays connected, the newest snapshot ends up with the business
\* state that stopped changing, however the aggregations of the broadcaster and
\* of connecting browsers overtook each other (publish_snapshot_if_changed).
EventuallyCurrent ==
  <>[](Connected # {}) => <>[](Newest = state)
=============================================================================
