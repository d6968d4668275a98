------------------------ MODULE DashboardStreamProofs ------------------------
(***************************************************************************)
(* Proofs about DashboardStream for any browsers, payloads, limits and      *)
(* bounds.                                                                  *)
(***************************************************************************)
EXTENDS DashboardStream, SequenceTheorems, TLAPS

\* s is kept with e behind it, without the first event when there was no room.
Extends(s, kept, e) ==
  LET n == Len(kept) - Len(s) + 1 IN
  /\ s \in Seq(Event) /\ Len(s) \in 1..ReplayLimit
  /\ s[Len(s)] = e
  /\ n \in {0, 1}
  /\ \A i \in 1..(Len(s) - 1) : i + n \in DOMAIN kept /\ s[i] = kept[i + n]

\* What the replay list is after an append: a deque of at most ReplayLimit.
LEMMA RetainFacts ==
  ASSUME StreamAssumption, NEW kept \in Seq(Event), Len(kept) <= ReplayLimit,
         NEW e \in Event
  PROVE  Extends(Retain(kept, e), kept, e)
<1>1. CASE Len(kept) = ReplayLimit
  <2>1. kept # <<>>
    BY <1>1 DEF StreamAssumption
  <2>2. Tail(kept) \in Seq(Event) /\ Len(Tail(kept)) = Len(kept) - 1
        /\ \A i \in 1..Len(Tail(kept)) : Tail(kept)[i] = kept[i + 1]
    BY <2>1, HeadTailProperties
  <2>. QED BY <1>1, <2>2 DEF Retain, StreamAssumption, Extends
<1>2. CASE Len(kept) # ReplayLimit
  <2>1. Retain(kept, e) = Append(kept, e) /\ Len(kept) \in Nat
    BY <1>2 DEF Retain
  <2>2. Len(Append(kept, e)) = Len(kept) + 1
    OBVIOUS
  <2>. QED BY <1>2, <2>1, <2>2 DEF StreamAssumption, Extends
<1>. QED BY <1>1, <1>2

\* s ends in e, holds nothing else that was not in q, and has not lost q's last.
Puts(s, q, e) ==
  /\ s \in Seq(Event) /\ Len(s) \in 1..QueueLimit
  /\ s[Len(s)] = e
  /\ \A i \in DOMAIN s : s[i] = e \/ \E j \in DOMAIN q : s[i] = q[j]
  /\ q # <<>> => \E i \in DOMAIN s : s[i] = q[Len(q)]

\* What a queue is after a broadcast: the new event is last, and of the others
\* only the oldest can be lost.
LEMMA PutFacts ==
  ASSUME StreamAssumption, NEW q \in Seq(Event), Len(q) <= QueueLimit,
         NEW e \in Event
  PROVE  Puts(Put(q, e), q, e)
<1>1. CASE Len(q) = QueueLimit
  <2>1. q # <<>> /\ Len(q) >= 2
    BY <1>1 DEF StreamAssumption
  <2>2. Tail(q) \in Seq(Event) /\ Len(Tail(q)) = Len(q) - 1
        /\ \A i \in 1..Len(Tail(q)) : Tail(q)[i] = q[i + 1]
    BY <2>1, HeadTailProperties
  <2>3. Put(q, e) = Append(Tail(q), e)
    BY <1>1 DEF Put
  <2>4. Put(q, e)[Len(q) - 1] = q[Len(q)]
    BY <2>1, <2>2, <2>3
  <2>5. Len(Put(q, e)) = Len(q) /\ Put(q, e)[Len(q)] = e
    BY <2>1, <2>2, <2>3
  <2>6. \A i \in 1..(Len(q) - 1) : i + 1 \in DOMAIN q /\ Put(q, e)[i] = q[i + 1]
    BY <2>1, <2>2, <2>3
  <2>7. Put(q, e) \in Seq(Event) /\ DOMAIN Put(q, e) = 1..Len(q)
    BY <2>2, <2>3, <2>5
  <2>8. \A i \in 1..Len(q) : i = Len(q) \/ i \in 1..(Len(q) - 1)
    BY <2>1
  <2>9. \A i \in 1..Len(q) : Put(q, e)[i] = e
                            \/ \E j \in DOMAIN q : Put(q, e)[i] = q[j]
    BY <2>5, <2>6, <2>8
  <2>10. Len(q) - 1 \in 1..Len(q)
    BY <2>1
  <2>. QED BY <1>1, <2>1, <2>4, <2>5, <2>7, <2>9, <2>10 DEF StreamAssumption, Puts
<1>2. CASE Len(q) # QueueLimit
  <2>1. Put(q, e) = Append(q, e)
    BY <1>2 DEF Put
  <2>2. q # <<>> => Len(q) \in DOMAIN Put(q, e) /\ Put(q, e)[Len(q)] = q[Len(q)]
    BY <2>1
  <2>. QED BY <1>2, <2>1, <2>2 DEF StreamAssumption, Puts
<1>. QED BY <1>1, <1>2

\* An append keeps the window in shape and adds no other event to it.
LEMMA AppendFacts ==
  ASSUME StreamAssumption, TypeOK, WindowInv, NEW e \in Event,
         e.id = event_sequence + 1, AppendEvent(e),
         IF Snapshot(e) THEN e.version = snapshot_sequence'
         ELSE snapshot_sequence' = snapshot_sequence
  PROVE  /\ events' \in Seq(Event) /\ Len(events') <= ReplayLimit
         /\ event_sequence' = event_sequence + 1
         /\ WindowInv'
         /\ Retained' \subseteq Retained \cup {e}
<1> DEFINE kept == IF Snapshot(e) THEN <<>> ELSE events
           n == Len(kept) - Len(events') + 1
<1>1. kept \in Seq(Event) /\ Len(kept) <= ReplayLimit /\ Len(kept) \in Nat
  BY DEF TypeOK, StreamAssumption
<1>2. events' = Retain(kept, e) /\ event_sequence' = event_sequence + 1
  BY DEF AppendEvent
<1>3. /\ events' \in Seq(Event) /\ Len(events') \in 1..ReplayLimit
      /\ events'[Len(events')] = e
      /\ n \in {0, 1}
      /\ \A i \in 1..(Len(events') - 1) : i + n \in DOMAIN kept
                                        /\ events'[i] = kept[i + n]
  <2>1. Extends(events', kept, e)
    <3>. HIDE DEF kept
    <3>. QED BY <1>1, <1>2, RetainFacts
  <2>. QED BY <2>1 DEF Extends
<1>4. Len(events') \in Nat /\ event_sequence \in Nat
  BY <1>3 DEF TypeOK
<1>5. Retained' \subseteq Retained \cup {e}
  <2> SUFFICES ASSUME NEW i \in DOMAIN events'
               PROVE  events'[i] = e \/ events'[i] \in Retained
    BY DEF Retained
  <2>1. i = Len(events') \/ i \in 1..(Len(events') - 1)
    BY <1>3
  <2>2. ASSUME i \in 1..(Len(events') - 1) PROVE events'[i] \in Retained
    <3>1. i + n \in DOMAIN kept /\ events'[i] = kept[i + n]
      BY <1>3, <2>2
    <3>2. kept = events
      BY <3>1, <1>3, <2>2
    <3>. QED BY <3>1, <3>2 DEF Retained
  <2>. QED BY <1>3, <2>1, <2>2
<1>6. WindowInv'
  <2>1. CASE Snapshot(e)
    <3>1. Len(events') = 1 /\ events'[1] = e
      BY <1>1, <1>3, <2>1
    <3>. QED BY <1>2, <1>3, <1>4, <2>1, <3>1 DEF WindowInv, Snapshot
  <2>2. CASE ~Snapshot(e)
    <3>1. /\ Len(events) <= event_sequence /\ Len(events) \in Nat
          /\ kept = events
      BY <2>2 DEF WindowInv, TypeOK
    <3>2. Len(events') <= event_sequence'
      BY <1>2, <1>3, <1>4, <3>1
    <3>3. ASSUME NEW i \in DOMAIN events', i # Len(events')
          PROVE  /\ events'[i].id = event_sequence' - Len(events') + i
                 /\ Snapshot(events'[i]) => i = 1
                                            /\ events'[i].version = snapshot_sequence'
      <4>1. /\ i \in 1..(Len(events') - 1) /\ i + n \in DOMAIN events
            /\ events'[i] = events[i + n] /\ i \in Nat /\ n \in {0, 1}
        BY SMTT(30), <1>3, <3>1, <3>3
      <4>2. /\ events[i + n].id = event_sequence - Len(events) + (i + n)
            /\ Snapshot(events[i + n]) => i + n = 1
                          /\ events[i + n].version = snapshot_sequence
        BY <4>1 DEF WindowInv
      <4>3. i + n = 1 => i = 1
        BY <4>1
      <4>4. events'[i].id = event_sequence' - Len(events') + i
        <5>1. n = Len(events) - Len(events') + 1
          BY <3>1
        <5>2. events'[i].id = event_sequence - Len(events) + (i + n)
          BY <4>1, <4>2
        <5>. HIDE DEF n
        <5>. QED BY <1>2, <1>4, <3>1, <4>1, <5>1, <5>2
      <4>. QED BY <2>2, <4>1, <4>2, <4>3, <4>4 DEF Snapshot
    <3>4. events'[Len(events')].id = event_sequence' /\ ~Snapshot(events'[Len(events')])
      BY <1>2, <1>3, <2>2 DEF Snapshot
    <3>. QED BY SMTT(30), <1>3, <1>4, <3>2, <3>3, <3>4 DEF WindowInv, Snapshot
  <2>. QED BY <2>1, <2>2
<1>. QED BY <1>2, <1>3, <1>5, <1>6

\* A broadcast gives every connected browser the event, and keeps the newest one on
\* its way when an event that is broadcast late finds the newest at the tail.
LEMMA BroadcastFacts ==
  ASSUME StreamAssumption, TypeOK, NEW e \in Event, Broadcast(e)
  PROVE  /\ queue' \in [Clients -> Seq(Event)] /\ sent' \in [Clients -> Nat]
         /\ \A c \in Clients : Len(queue'[c]) <= QueueLimit
         /\ \A c \in Clients \ Connected : queue'[c] = queue[c] /\ sent'[c] = sent[c]
         /\ \A c \in Connected : /\ sent'[c] = Larger(sent[c], e.id)
                                 /\ Puts(queue'[c], queue[c], e)
<1>1. \A c \in Clients : queue[c] \in Seq(Event) /\ Len(queue[c]) <= QueueLimit
  BY DEF TypeOK
<1>2. \A c \in Connected : /\ sent'[c] = Larger(sent[c], e.id)
                           /\ Puts(queue'[c], queue[c], e)
  <2>. TAKE c \in Connected
  <2>1. c \in Clients
    BY DEF Connected
  <2>2. queue'[c] = Put(queue[c], e) /\ sent'[c] = Larger(sent[c], e.id)
    BY <2>1 DEF Broadcast
  <2>3. Puts(Put(queue[c], e), queue[c], e)
    BY <1>1, <2>1, PutFacts
  <2>. QED BY <2>2, <2>3
<1>3. \A c \in Clients \ Connected : queue'[c] = queue[c] /\ sent'[c] = sent[c]
  BY DEF Broadcast
<1>4. \A c \in Clients : queue'[c] \in Seq(Event) /\ Len(queue'[c]) <= QueueLimit
  <2>. SUFFICES ASSUME NEW c \in Clients
                PROVE  queue'[c] \in Seq(Event) /\ Len(queue'[c]) <= QueueLimit
    OBVIOUS
  <2>1. CASE c \in Connected
    BY <1>2, <2>1 DEF Puts, StreamAssumption
  <2>2. CASE c \notin Connected
    BY <1>1, <1>3, <2>2
  <2>. QED BY <2>1, <2>2
<1>5. sent' \in [Clients -> Nat]
  <2>1. \A c \in Clients : Larger(sent[c], e.id) \in Nat /\ sent[c] \in Nat
    BY DEF Larger, Event, TypeOK
  <2>. QED BY <2>1 DEF Broadcast
<1>6. queue' \in [Clients -> Seq(Event)]
  BY <1>4 DEF Broadcast
<1>. QED BY <1>2, <1>3, <1>4, <1>5, <1>6

LEMMA BroadcastLatest ==
  ASSUME StreamAssumption, IInv, NEW e \in Event, e.id \in Nat \ {0}, Broadcast(e),
         \A c \in Connected : (e.id < sent[c] /\ queue[c] # <<>>)
                               => queue[c][Len(queue[c])].id = sent[c],
         UNCHANGED <<phase, delivered, replay>>
  PROVE  LatestWins'
<1>1. Connected' = Connected
  BY DEF Connected
<1>. SUFFICES ASSUME NEW c \in Connected
              PROVE  \/ delivered[c] >= sent'[c]
                     \/ \E f \in replay[c] : f.id = sent'[c]
                     \/ \E i \in DOMAIN queue'[c] : queue'[c][i].id = sent'[c]
  BY <1>1 DEF LatestWins
<1>2. c \in Clients /\ sent[c] \in Nat /\ e.id \in Nat /\ TypeOK
  BY DEF Connected, IInv, TypeOK, Event
<1>3. CASE e.id >= sent[c]
  <2>1. sent'[c] = e.id
    BY <1>2, <1>3, BroadcastFacts DEF Larger
  <2>. QED BY <1>2, <2>1, BroadcastFacts DEF Puts, StreamAssumption
<1>4. CASE e.id < sent[c]
  <2>1. sent'[c] = sent[c]
    BY <1>2, <1>4, BroadcastFacts DEF Larger
  <2>2. CASE queue[c] = <<>>
    <3>1. \/ delivered[c] >= sent[c]
          \/ \E f \in replay[c] : f.id = sent[c]
      BY <2>2 DEF IInv, LatestWins
    <3>. QED BY <2>1, <3>1
  <2>3. CASE queue[c] # <<>>
    <3>1. queue[c][Len(queue[c])].id = sent[c]
      BY <1>4, <2>3
    <3>2. \E i \in DOMAIN queue'[c] : queue'[c][i] = queue[c][Len(queue[c])]
      BY <1>2, <2>3, BroadcastFacts DEF Puts
    <3>. QED BY <2>1, <3>1, <3>2
  <2>. QED BY <2>2, <2>3
<1>. QED BY <1>2, <1>3, <1>4

\* A spent bound stays a number.
LEMMA SpendType ==
  ASSUME TypeOK, NEW what, NEW bound, Spend(what, bound)
  PROVE  count' \in [{"change", "beat", "connect", "restart", "fault"} -> Nat]
<1>. DEFINE D == {"change", "beat", "connect", "restart", "fault"}
<1>1. count \in [D -> Nat] /\ count' = [count EXCEPT ![what] = @ + 1]
  BY DEF TypeOK, Spend
<1>. HIDE DEF D
<1>2. \A w \in D : count'[w] \in Nat
  BY <1>1
<1>. QED BY <1>1, <1>2 DEF D

\* No event is an event, and is no snapshot.
LEMMA NoEventFacts ==
  ASSUME StreamAssumption
  PROVE  NoEvent \in Event /\ Idle \in Threads /\ Idle.event = NoEvent
BY DEF NoEvent, Event, Idle, Threads

LEMMA FinishedFacts ==
  ASSUME StreamAssumption, NEW b, NEW e \in Event
  PROVE  /\ Finished(b, e) \in Threads
         /\ Finished(b, e).event \in {e, NoEvent}
         /\ Finished(b, e).at \in {"idle", "done"}
BY NoEventFacts DEF Finished, Idle, Threads

\* What was issued stays issued while the counters grow.
LEMMA IssuedGrows ==
  ASSUME NEW f \in Event, NEW i \in Nat, NEW j \in Nat, NEW v \in Nat, NEW w \in Nat,
         i <= j, v <= w, WasIssued(f, i, v)
  PROVE  WasIssued(f, j, w)
BY DEF WasIssued, Event

\* The elements of the collections are events.
LEMMA EventTypes ==
  ASSUME TypeOK
  PROVE  /\ Retained \subseteq Event
         /\ \A b \in Builders : thread[b].event \in Event
         /\ \A c \in Clients :
              /\ replay[c] \subseteq Event
              /\ queue[c] \in Seq(Event)
              /\ \A i \in DOMAIN queue[c] : queue[c][i] \in Event
              /\ sent[c] \in Nat /\ delivered[c] \in Nat /\ shown[c] \in Nat
<1>1. \A c \in Clients : queue[c] \in Seq(Event)
  BY DEF TypeOK
<1>. QED BY SMTT(30), <1>1 DEF TypeOK, Retained, Threads

LEMMA InitInv ==
  ASSUME StreamAssumption, Init PROVE IInv
<1>1. TypeOK
  BY NoEventFacts DEF Init, TypeOK, StreamAssumption
<1>2. WindowInv /\ PhaseInv /\ OvertakenInv /\ LatestWins /\ VersionsSurviveRestart
  BY DEF Init, WindowInv, PhaseInv, OvertakenInv, LatestWins, Connected,
         VersionsSurviveRestart
<1>3. IssuedInv
  BY NoEventFacts DEF Init, IssuedInv, Retained, StreamAssumption, Idle
<1>. QED BY <1>1, <1>2, <1>3 DEF IInv

\* A step of a thread that issues nothing.
LEMMA AggregateInv ==
  ASSUME StreamAssumption, PeriodicAssumption, IInv, NEW b \in Builders, Aggregate(b)
  PROVE  IInv'
<1>. USE DEF buffer, connection, queues, browser
<1>1. /\ thread' \in [Builders -> Threads]
      /\ \A a \in Builders :
           /\ thread'[a].event \in {thread[a].event, NoEvent}
           /\ thread'[a].at = "publish" =>
                thread'[a] = thread[a] \/ thread'[a].content \in Contents
  <2>1. thread \in [Builders -> Threads] /\ state \in Contents
    BY DEF IInv, TypeOK
  <2>2. CASE thread' = [thread EXCEPT ![b].at = "publish", ![b].content = state]
    BY <2>1, <2>2 DEF Threads
  <2>3. CASE thread' = [thread EXCEPT ![b] = Finished(b, NoEvent)]
    BY <2>1, <2>3, NoEventFacts, FinishedFacts
  <2>. QED BY <2>2, <2>3 DEF Aggregate
<1>2. TypeOK'
  BY <1>1, SpendType DEF Aggregate, IInv, TypeOK
<1>3. WindowInv' /\ PhaseInv' /\ LatestWins' /\ VersionsSurviveRestart'
  BY DEF Aggregate, IInv, WindowInv, PhaseInv, LatestWins, VersionsSurviveRestart,
         Connected, Snapshot
<1>4. IssuedInv'
  BY <1>1 DEF Aggregate, IInv, IssuedInv, Issued, Retained
<1>5. OvertakenInv'
  BY <1>1 DEF Aggregate, IInv, OvertakenInv, Connected, Builders
<1>. QED BY <1>2, <1>3, <1>4, <1>5 DEF IInv

\* A publication issues the next id; nothing broadcast is newer.
LEMMA PublishInv ==
  ASSUME StreamAssumption, PeriodicAssumption, IInv, NEW b \in Builders, Publish(b)
  PROVE  IInv'
<1>. USE DEF buffer, connection, queues, browser
<1>. PICK e : e = [id |-> event_sequence + 1, version |-> snapshot_sequence + 1,
                   content |-> thread[b].content]
  OBVIOUS
<1>1. CASE UNCHANGED buffer /\ thread' = [thread EXCEPT ![b] = Finished(b, NoEvent)]
  <2>1. /\ thread' \in [Builders -> Threads]
        /\ \A a \in Builders :
             /\ thread'[a].event \in {thread[a].event, NoEvent}
             /\ thread'[a].at = "publish" => thread'[a] = thread[a]
    <3>1. thread \in [Builders -> Threads]
      BY DEF IInv, TypeOK
    <3>. QED BY <1>1, <3>1, NoEventFacts, FinishedFacts
  <2>2. TypeOK'
    BY <1>1, <2>1 DEF Publish, IInv, TypeOK
  <2>3. WindowInv' /\ PhaseInv' /\ LatestWins' /\ VersionsSurviveRestart'
    BY <1>1 DEF Publish, IInv, WindowInv, PhaseInv, LatestWins, Connected,
                VersionsSurviveRestart, Snapshot
  <2>4. IssuedInv'
    BY <1>1, <2>1 DEF Publish, IInv, IssuedInv, Issued, Retained
  <2>5. OvertakenInv'
    BY <1>1, <2>1 DEF Publish, IInv, OvertakenInv, Connected, Builders
  <2>. QED BY <2>2, <2>3, <2>4, <2>5 DEF IInv
<1>2. CASE /\ snapshot_sequence < process + Headroom - 1
           /\ snapshot_sequence' = e.version
           /\ last_content' = Remembered(b, thread[b].content)
           /\ AppendEvent(e)
           /\ thread' = [thread EXCEPT ![b] = Finished(b, e)]
  <2>1. /\ event_sequence \in Nat /\ snapshot_sequence \in Nat /\ process \in Nat
        /\ thread \in [Builders -> Threads] /\ Headroom \in Nat
    BY DEF IInv, TypeOK, StreamAssumption
  <2>2. /\ thread[b].content \in Contents \cup {NoContent}
        /\ thread[b].content # NoContent
    BY <2>1 DEF Publish, IInv, IssuedInv, Threads
  <2>3. /\ e \in Event /\ e.id = event_sequence + 1 /\ Snapshot(e)
        /\ e.version = snapshot_sequence + 1 /\ e.version = snapshot_sequence'
    BY <1>2, <2>1, <2>2 DEF Event, Snapshot
  <2>4. /\ events' \in Seq(Event) /\ Len(events') <= ReplayLimit
        /\ event_sequence' = event_sequence + 1
        /\ WindowInv'
        /\ Retained' \subseteq Retained \cup {e}
    BY <1>2, <2>3, AppendFacts DEF IInv
  <2>5. /\ thread' \in [Builders -> Threads]
        /\ \A a \in Builders :
             /\ thread'[a].event \in {thread[a].event, NoEvent, e}
             /\ thread'[a].at = "publish" => thread'[a] = thread[a]
    BY <1>2, <2>1, <2>3, FinishedFacts
  <2>6. UNCHANGED <<state, process, turn, phase, request, delivered, replay, queue, sent,
                    last_event_id, origin, shown, count>>
    BY DEF Publish
  <2>7. TypeOK'
    <3>1. event_sequence' \in Nat /\ snapshot_sequence' \in Nat
          /\ last_content' \in Contents \cup {NoContent}
      BY <1>2, <2>1, <2>2, <2>3, <2>4 DEF Remembered
    <3>. QED BY <2>4, <2>5, <2>6, <3>1 DEF IInv, TypeOK
  <2>8. IssuedInv'
    <3>1. \A f \in Event : Issued(f) => Issued(f)'
      <4>1. \A f \in Event :
              WasIssued(f, event_sequence, snapshot_sequence)
              => WasIssued(f, event_sequence', snapshot_sequence')
        BY <2>1, <2>3, <2>4, IssuedGrows
      <4>. QED BY <4>1 DEF Issued
    <3>2. Issued(e)'
      BY <2>1, <2>3, <2>4 DEF Issued, WasIssued
    <3>3. \A f \in Retained' : WasIssued(f, event_sequence', snapshot_sequence')
      BY <2>4, <3>1, <3>2, EventTypes DEF IInv, IssuedInv, Issued
    <3>4. \A a \in Builders :
            /\ thread'[a].event # NoEvent =>
                 WasIssued(thread'[a].event, event_sequence', snapshot_sequence')
            /\ thread'[a].at = "publish" => thread'[a].content # NoContent
      BY <2>5, <3>1, <3>2, EventTypes DEF IInv, IssuedInv, Issued
    <3>5. \A c \in Clients :
            /\ \A f \in replay'[c] :
                 WasIssued(f, event_sequence', snapshot_sequence') /\ f.id > delivered'[c]
            /\ \A i \in DOMAIN queue'[c] :
                 WasIssued(queue'[c][i], event_sequence', snapshot_sequence')
            /\ sent'[c] <= event_sequence'
      BY <2>1, <2>4, <2>6, <3>1, EventTypes DEF IInv, IssuedInv, Issued
    <3>. QED BY <1>2, <2>1, <2>3, <2>6, <3>3, <3>4, <3>5 DEF IInv, IssuedInv, Issued
  <2>9. PhaseInv' /\ LatestWins'
    BY <2>6 DEF IInv, PhaseInv, LatestWins, Connected
  <2>10. OvertakenInv'
    <3>1. \A c \in Clients : sent[c] <= event_sequence /\ sent[c] \in Nat
      BY DEF IInv, TypeOK, IssuedInv
    <3>2. \A c \in Connected' : ~(e.id < sent[c])
      BY <2>1, <2>3, <2>6, <3>1 DEF Connected
    <3>. QED BY <2>5, <2>6, <3>2 DEF IInv, OvertakenInv, Connected, Builders
  <2>11. VersionsSurviveRestart'
    BY <2>1, <2>3, <2>6, EventTypes DEF IInv, VersionsSurviveRestart
  <2>. QED BY <2>4, <2>7, <2>8, <2>9, <2>10, <2>11 DEF IInv
<1>. QED BY <1>1, <1>2 DEF Publish

\* The broadcaster hands a finished snapshot to every queue, possibly late.
LEMMA SnapshotStepInv ==
  ASSUME StreamAssumption, PeriodicAssumption, IInv, SnapshotStep
  PROVE  IInv'
<1>. USE DEF buffer, connection, queues, browser
<1>. PICK e \in Event : e = thread[Periodic].event
  BY EventTypes DEF IInv, Builders
<1>1. /\ thread' \in [Builders -> Threads]
      /\ \A a \in Builders :
           /\ thread'[a].event \in {thread[a].event, NoEvent}
           /\ thread'[a].at = "publish" => thread'[a] = thread[a]
      /\ thread[Periodic].at = "done" => thread'[Periodic].event = NoEvent
  <2>1. thread \in [Builders -> Threads] /\ Periodic \in Builders
    BY DEF IInv, TypeOK, Builders
  <2>2. [Idle EXCEPT !.at = "aggregate"] \in Threads
        /\ [Idle EXCEPT !.at = "aggregate"].event = NoEvent
        /\ [Idle EXCEPT !.at = "aggregate"].at = "aggregate"
        /\ Idle.at = "idle"
    BY NoEventFacts DEF Idle, Threads
  <2>3. CASE thread' = thread /\ thread[Periodic].at \notin {"idle", "done"}
    BY <2>1, <2>3
  <2>4. CASE thread' = [thread EXCEPT ![Periodic] = Idle]
    BY <2>1, <2>2, <2>4, NoEventFacts
  <2>5. CASE thread' = [thread EXCEPT ![Periodic] = [Idle EXCEPT !.at = "aggregate"]]
    BY <2>1, <2>2, <2>5, NoEventFacts
  <2>. QED BY <2>3, <2>4, <2>5 DEF SnapshotStep
<1>2. UNCHANGED <<state, events, event_sequence, snapshot_sequence, last_content, process,
                  phase, request, delivered, replay, last_event_id, origin, shown, count>>
      /\ turn' = "beat"
  BY DEF SnapshotStep
<1>3. WindowInv' /\ VersionsSurviveRestart'
  BY <1>2 DEF IInv, WindowInv, VersionsSurviveRestart, Snapshot
<1>4. CASE UNCHANGED queues
  <2>1. TypeOK'
    BY <1>1, <1>2, <1>4 DEF IInv, TypeOK
  <2>2. IssuedInv' /\ PhaseInv' /\ LatestWins'
    BY <1>1, <1>2, <1>4 DEF IInv, IssuedInv, Issued, Retained, PhaseInv, LatestWins,
                            Connected
  <2>3. OvertakenInv'
    BY <1>1, <1>2, <1>4 DEF IInv, OvertakenInv, Connected, Builders
  <2>. QED BY <1>3, <2>1, <2>2, <2>3 DEF IInv
<1>5. CASE thread[Periodic].at = "done" /\ e # NoEvent /\ Broadcast(e)
  <2>1. WasIssued(e, event_sequence, snapshot_sequence) /\ event_sequence \in Nat
    BY <1>5 DEF IInv, TypeOK, IssuedInv, Issued, Builders
  <2>2. e.id \in Nat \ {0} /\ e.id <= event_sequence
    BY <2>1 DEF WasIssued
  <2>3. /\ queue' \in [Clients -> Seq(Event)] /\ sent' \in [Clients -> Nat]
        /\ \A c \in Clients : Len(queue'[c]) <= QueueLimit
        /\ \A c \in Clients \ Connected : queue'[c] = queue[c] /\ sent'[c] = sent[c]
        /\ \A c \in Connected : /\ sent'[c] = Larger(sent[c], e.id)
                                /\ Puts(queue'[c], queue[c], e)
    BY <1>5, BroadcastFacts DEF IInv
  <2>4. TypeOK'
    BY <1>1, <1>2, <2>3 DEF IInv, TypeOK
  <2>5. LatestWins'
    BY <1>2, <1>5, <2>2, BroadcastLatest DEF IInv, OvertakenInv
  <2>6. OvertakenInv'
    BY <1>1, <1>5 DEF OvertakenInv
  <2>7. PhaseInv'
    BY <1>2, <2>3 DEF IInv, PhaseInv, Connected
  <2>8. IssuedInv'
    <3>1. \A c \in Clients : \A i \in DOMAIN queue'[c] :
            WasIssued(queue'[c][i], event_sequence, snapshot_sequence)
      <4>1. \A c \in Clients : \A i \in DOMAIN queue[c] :
              WasIssued(queue[c][i], event_sequence, snapshot_sequence)
        BY DEF IInv, IssuedInv, Issued
      <4>2. ASSUME NEW c \in Connected, NEW i \in DOMAIN queue'[c]
            PROVE  queue'[c][i] = e \/ \E j \in DOMAIN queue[c] : queue'[c][i] = queue[c][j]
        BY <2>3 DEF Puts
      <4>3. ASSUME NEW c \in Clients, NEW i \in DOMAIN queue'[c]
            PROVE  WasIssued(queue'[c][i], event_sequence, snapshot_sequence)
        <5>1. CASE c \in Connected
          BY <2>1, <4>1, <4>2, <5>1
        <5>2. CASE c \notin Connected
          BY <2>3, <4>1, <5>2
        <5>. QED BY <5>1, <5>2
      <4>. QED BY <4>3
    <3>2. \A c \in Clients : sent'[c] <= event_sequence
      BY <2>2, <2>3 DEF IInv, IssuedInv, Larger
    <3>. QED BY <1>1, <1>2, <3>1, <3>2 DEF IInv, IssuedInv, Issued, Retained
  <2>. QED BY <1>3, <2>4, <2>5, <2>6, <2>7, <2>8 DEF IInv
<1>. QED BY <1>4, <1>5 DEF SnapshotStep

\* A heartbeat is newer than everything that was broadcast.
LEMMA HeartbeatStepInv ==
  ASSUME StreamAssumption, PeriodicAssumption, IInv, HeartbeatStep
  PROVE  IInv'
<1>. USE DEF buffer, connection, queues, browser
<1>1. UNCHANGED <<state, snapshot_sequence, last_content, process, thread, phase, request,
                  delivered, replay, last_event_id, origin, shown>>
      /\ turn' = "sleep"
  BY DEF HeartbeatStep
<1>3. CASE UNCHANGED <<buffer, queues, count>>
  <2>1. TypeOK'
    BY <1>1, <1>3 DEF IInv, TypeOK
  <2>2. WindowInv' /\ IssuedInv' /\ VersionsSurviveRestart'
    BY <1>1, <1>3 DEF IInv, WindowInv, IssuedInv, Issued, Retained, Snapshot,
                      VersionsSurviveRestart
  <2>3. PhaseInv' /\ OvertakenInv' /\ LatestWins'
    BY <1>1, <1>3 DEF IInv, PhaseInv, OvertakenInv, LatestWins, Connected
  <2>. QED BY <2>1, <2>2, <2>3 DEF IInv
<1>4. CASE /\ Spend("beat", MaxBeats) /\ AppendEvent(Heartbeat) /\ Broadcast(Heartbeat)
  <2>. PICK e : e = Heartbeat
    OBVIOUS
  <2>1. /\ event_sequence \in Nat /\ snapshot_sequence \in Nat
        /\ e \in Event /\ e.id = event_sequence + 1 /\ ~Snapshot(e)
        /\ e.version = snapshot_sequence
    BY SMTT(30) DEF IInv, TypeOK, Heartbeat, Event, Snapshot
  <2>2. /\ events' \in Seq(Event) /\ Len(events') <= ReplayLimit
        /\ event_sequence' = event_sequence + 1
        /\ WindowInv'
        /\ Retained' \subseteq Retained \cup {e}
    BY <1>1, <1>4, <2>1, AppendFacts DEF IInv
  <2>3. /\ queue' \in [Clients -> Seq(Event)] /\ sent' \in [Clients -> Nat]
        /\ \A c \in Clients : Len(queue'[c]) <= QueueLimit
        /\ \A c \in Clients \ Connected : queue'[c] = queue[c] /\ sent'[c] = sent[c]
        /\ \A c \in Connected : /\ sent'[c] = Larger(sent[c], e.id)
                                /\ Puts(queue'[c], queue[c], e)
    BY <1>4, <2>1, BroadcastFacts DEF IInv
  <2>4. TypeOK'
    <3>1. count' \in [{"change", "beat", "connect", "restart", "fault"} -> Nat]
      BY <1>4, SpendType DEF IInv
    <3>2. event_sequence' \in Nat
      BY <2>1, <2>2
    <3>. QED BY <1>1, <2>2, <2>3, <3>1, <3>2 DEF IInv, TypeOK
  <2>5. \A c \in Clients : sent[c] \in Nat /\ sent[c] <= event_sequence
    BY EventTypes DEF IInv, IssuedInv
  <2>6. LatestWins'
    <3>1. \A c \in Connected : ~(e.id < sent[c])
      BY <2>1, <2>5 DEF Connected
    <3>. QED BY <1>1, <1>4, <2>1, <3>1, BroadcastLatest
  <2>7. \A c \in Connected : /\ sent'[c] = e.id
                             /\ queue'[c][Len(queue'[c])].id = sent'[c]
    BY SMTT(30), <2>1, <2>3, <2>5 DEF Larger, Puts, Connected
  <2>8. OvertakenInv'
    BY <1>1, <2>7 DEF OvertakenInv, Connected
  <2>9. PhaseInv'
    BY <1>1, <2>3 DEF IInv, PhaseInv, Connected
  <2>10. VersionsSurviveRestart'
    BY <1>1 DEF IInv, VersionsSurviveRestart
  <2>11. IssuedInv'
    <3>1. \A f \in Event :
            WasIssued(f, event_sequence, snapshot_sequence)
            => WasIssued(f, event_sequence', snapshot_sequence)
      BY <2>1, <2>2 DEF WasIssued, Event
    <3>2. WasIssued(e, event_sequence', snapshot_sequence)
      BY <2>1, <2>2 DEF WasIssued
    <3>3. \A f \in Retained' : WasIssued(f, event_sequence', snapshot_sequence)
      BY <2>2, <3>1, <3>2, EventTypes DEF IInv, IssuedInv, Issued
    <3>4. \A c \in Clients : \A i \in DOMAIN queue'[c] :
            WasIssued(queue'[c][i], event_sequence', snapshot_sequence)
      <4>1. \A c \in Clients : \A i \in DOMAIN queue[c] :
              WasIssued(queue[c][i], event_sequence', snapshot_sequence)
        BY <3>1, EventTypes DEF IInv, IssuedInv, Issued
      <4>2. ASSUME NEW c \in Connected, NEW i \in DOMAIN queue'[c]
            PROVE  queue'[c][i] = e \/ \E j \in DOMAIN queue[c] : queue'[c][i] = queue[c][j]
        BY <2>3 DEF Puts
      <4>3. ASSUME NEW c \in Clients, NEW i \in DOMAIN queue'[c]
            PROVE  WasIssued(queue'[c][i], event_sequence', snapshot_sequence)
        <5>1. CASE c \in Connected
          BY <3>2, <4>1, <4>2, <5>1
        <5>2. CASE c \notin Connected
          BY <2>3, <4>1, <5>2
        <5>. QED BY <5>1, <5>2
      <4>. QED BY <4>3
    <3>5. \A c \in Clients : sent'[c] <= event_sequence'
      BY <2>1, <2>2, <2>3, <2>5 DEF Larger
    <3>6. \A b \in Builders : thread[b].event # NoEvent =>
            WasIssued(thread[b].event, event_sequence', snapshot_sequence)
      BY <3>1, EventTypes DEF IInv, IssuedInv, Issued
    <3>7. \A c \in Clients : \A f \in replay[c] :
            WasIssued(f, event_sequence', snapshot_sequence)
      BY <3>1, EventTypes DEF IInv, IssuedInv, Issued
    <3>. QED BY <1>1, <3>3, <3>4, <3>5, <3>6, <3>7 DEF IInv, IssuedInv, Issued
  <2>. QED BY <2>2, <2>4, <2>6, <2>8, <2>9, <2>10, <2>11 DEF IInv
<1>. QED BY <1>3, <1>4 DEF HeartbeatStep

\* A new connection has been sent nothing.
LEMMA ConnectInv ==
  ASSUME StreamAssumption, IInv, NEW c \in Clients, Connect(c)
  PROVE  IInv'
<1>. USE DEF buffer, connection, queues, browser
<1>1. UNCHANGED <<state, events, event_sequence, snapshot_sequence, last_content, process,
                  turn, thread, replay, queue, sent, last_event_id, origin, shown>>
      /\ phase[c] = "closed"
      /\ phase' = [phase EXCEPT ![c] = "requested"]
      /\ request' = [request EXCEPT ![c] = last_event_id[c]]
      /\ delivered' = [delivered EXCEPT ![c] = 0]
  BY DEF Connect
<1>2. TypeOK'
  <2>1. count' \in [{"change", "beat", "connect", "restart", "fault"} -> Nat]
    BY SpendType DEF Connect, IInv
  <2>2. /\ phase' \in [Clients -> {"closed", "requested", "building", "open"}]
        /\ request' \in [Clients -> Nat] /\ delivered' \in [Clients -> Nat]
    BY <1>1 DEF IInv, TypeOK
  <2>. QED BY <1>1, <2>1, <2>2 DEF IInv, TypeOK
<1>3. /\ replay[c] = {} /\ delivered[c] = 0 /\ queue[c] = <<>> /\ sent[c] = 0
      /\ delivered' = delivered
  BY <1>1 DEF IInv, PhaseInv, TypeOK
<1>4. WindowInv' /\ IssuedInv' /\ VersionsSurviveRestart'
  BY <1>1, <1>3 DEF IInv, WindowInv, IssuedInv, Issued, Retained, Snapshot,
                    VersionsSurviveRestart
<1>5. PhaseInv'
  BY <1>1, <1>3 DEF IInv, PhaseInv, TypeOK
<1>6. LatestWins'
  <2>. SUFFICES ASSUME NEW d \in Connected'
                PROVE  \/ delivered[d] >= sent[d]
                       \/ \E e \in replay[d] : e.id = sent[d]
                       \/ \E i \in DOMAIN queue[d] : queue[d][i].id = sent[d]
    BY <1>1, <1>3 DEF LatestWins
  <2>1. CASE d = c
    BY <1>3, <2>1
  <2>2. CASE d # c
    <3>1. d \in Connected
      BY <1>1, <2>2 DEF Connected, IInv, TypeOK
    <3>. QED BY <3>1 DEF IInv, LatestWins
  <2>. QED BY <2>1, <2>2
<1>7. OvertakenInv'
  BY <1>1, <1>3 DEF IInv, OvertakenInv, Connected, TypeOK
<1>. QED BY <1>2, <1>4, <1>5, <1>6, <1>7 DEF IInv

\* A replay holds retained events only, or a thread is started.
LEMMA AnswerInv ==
  ASSUME StreamAssumption, PeriodicAssumption, IInv, NEW c \in Clients, Answer(c)
  PROVE  IInv'
<1>. USE DEF buffer, connection, queues, browser
<1>1. UNCHANGED <<state, events, event_sequence, snapshot_sequence, last_content, process,
                  turn, delivered, queue, sent, last_event_id, origin, shown, count>>
      /\ phase[c] = "requested"
  BY DEF Answer
<1>2. replay[c] = {} /\ delivered[c] = 0
  BY <1>1 DEF IInv, PhaseInv
<1>3. WindowInv' /\ VersionsSurviveRestart'
  BY <1>1 DEF IInv, WindowInv, Snapshot, VersionsSurviveRestart
<1>4. CASE /\ phase' = [phase EXCEPT ![c] = "building"]
           /\ request' = [request EXCEPT ![c] = 0]
           /\ thread' = [thread EXCEPT ![c].at = "aggregate"]
           /\ UNCHANGED replay
  <2>1. /\ thread' \in [Builders -> Threads]
        /\ \A a \in Builders :
             /\ thread'[a].event = thread[a].event
             /\ thread'[a].at = "publish" => thread'[a] = thread[a]
    <3>1. thread \in [Builders -> Threads] /\ c \in Builders
      BY DEF IInv, TypeOK, Builders
    <3>. QED BY <1>4, <3>1 DEF Threads
  <2>2. TypeOK'
    BY <1>1, <1>4, <2>1 DEF IInv, TypeOK
  <2>3. IssuedInv'
    BY <1>1, <1>4, <2>1 DEF IInv, IssuedInv, Issued, Retained
  <2>6. PhaseInv'
    BY <1>1, <1>2, <1>4 DEF IInv, PhaseInv, TypeOK
  <2>4. Connected' = Connected
    BY <1>1, <1>4 DEF Connected, IInv, TypeOK
  <2>5. LatestWins' /\ OvertakenInv'
    BY <1>1, <1>4, <2>1, <2>4 DEF IInv, LatestWins, OvertakenInv, Builders
  <2>. QED BY <1>3, <2>2, <2>3, <2>5, <2>6 DEF IInv
<1>5. CASE /\ phase' = [phase EXCEPT ![c] = "open"]
           /\ replay' = [replay EXCEPT ![c] = ReplayAfter(request[c])]
           /\ UNCHANGED <<request, thread>>
  <2>1. ReplayAfter(request[c]) \subseteq Retained
    BY DEF ReplayAfter
  <2>2. TypeOK'
    BY <1>1, <1>5, <2>1, EventTypes DEF IInv, TypeOK
  <2>3. IssuedInv'
    <3>1. \A e \in Retained : Issued(e) /\ e.id > delivered[c]
      <4>1. \A e \in Retained : Issued(e) /\ e.id \in Nat
        BY EventTypes DEF IInv, IssuedInv, Event
      <4>. QED BY <1>2, <4>1 DEF Issued, WasIssued
    <3>. QED BY <1>1, <1>5, <2>1, <3>1 DEF IInv, TypeOK, IssuedInv, Issued, Retained
  <2>4. Connected' = Connected
    BY <1>1, <1>5 DEF Connected, IInv, TypeOK
  <2>5. PhaseInv' /\ OvertakenInv'
    BY <1>1, <1>5, <2>4 DEF IInv, PhaseInv, OvertakenInv, TypeOK
  <2>6. LatestWins'
    <3>. SUFFICES ASSUME NEW d \in Connected
                  PROVE  \/ delivered[d] >= sent[d]
                         \/ \E e \in replay'[d] : e.id = sent[d]
                         \/ \E i \in DOMAIN queue[d] : queue[d][i].id = sent[d]
      BY <1>1, <2>4 DEF LatestWins
    <3>1. \/ delivered[d] >= sent[d]
          \/ \E e \in replay[d] : e.id = sent[d]
          \/ \E i \in DOMAIN queue[d] : queue[d][i].id = sent[d]
      BY DEF IInv, LatestWins
    <3>2. replay'[d] = replay[d] \/ replay[d] = {}
      BY <1>2, <1>5 DEF IInv, TypeOK
    <3>. QED BY <3>1, <3>2
  <2>. QED BY <1>3, <2>2, <2>3, <2>5, <2>6 DEF IInv
<1>. QED BY <1>4, <1>5 DEF Answer

\* A full snapshot takes over what the queue held: nothing newer is lost.
LEMMA FullSnapshotInv ==
  ASSUME StreamAssumption, PeriodicAssumption, IInv, NEW c \in Clients, FullSnapshot(c)
  PROVE  IInv'
<1>. USE DEF buffer, connection, queues, browser
<1>. PICK e \in Event : e = thread[c].event
  BY EventTypes DEF IInv, Builders
<1>. PICK held \in SUBSET Event : held = {queue[c][i] : i \in DOMAIN queue[c]} \cup {e}
  BY EventTypes DEF IInv
<1>1. UNCHANGED <<state, events, event_sequence, snapshot_sequence, last_content, process,
                  turn, request, delivered, sent, last_event_id, origin, shown, count>>
      /\ phase[c] = "building"
      /\ phase' = [phase EXCEPT ![c] = "open"]
      /\ thread' = [thread EXCEPT ![c] = Idle]
  BY DEF FullSnapshot
<1>2. replay[c] = {} /\ delivered[c] = 0
  BY <1>1 DEF IInv, PhaseInv
<1>3. WindowInv' /\ VersionsSurviveRestart'
  BY <1>1 DEF IInv, WindowInv, Snapshot, VersionsSurviveRestart
<1>4. Connected' = Connected /\ c \in Connected
  BY <1>1 DEF Connected, IInv, TypeOK
<1>5. /\ thread' \in [Builders -> Threads]
      /\ \A a \in Builders :
           /\ thread'[a].event \in {thread[a].event, NoEvent}
           /\ thread'[a].at = "publish" => thread'[a] = thread[a]
      /\ thread'[Periodic] = thread[Periodic]
  <2>1. thread \in [Builders -> Threads] /\ c \in Builders /\ Idle.at = "idle"
        /\ c # Periodic
    BY DEF IInv, TypeOK, Builders, Idle, PeriodicAssumption
  <2>. QED BY <1>1, <2>1, NoEventFacts
<1>6. CASE UNCHANGED <<replay, queue>>
  <2>1. TypeOK'
    BY <1>1, <1>5, <1>6 DEF IInv, TypeOK
  <2>2. IssuedInv'
    BY <1>1, <1>5, <1>6 DEF IInv, IssuedInv, Issued, Retained
  <2>3. PhaseInv'
    BY <1>1, <1>6 DEF IInv, PhaseInv, TypeOK
  <2>4. LatestWins' /\ OvertakenInv'
    BY <1>1, <1>4, <1>5, <1>6 DEF IInv, LatestWins, OvertakenInv
  <2>. QED BY <1>3, <2>1, <2>2, <2>3, <2>4 DEF IInv
<1>7. CASE /\ e # NoEvent
           /\ replay' = [replay EXCEPT ![c] = held]
           /\ queue' = [queue EXCEPT ![c] = <<>>]
  <2>0. <<>> \in Seq(Event) /\ Len(<<>>) <= QueueLimit
    BY DEF StreamAssumption
  <2>1. /\ replay' \in [Clients -> SUBSET Event] /\ queue' \in [Clients -> Seq(Event)]
        /\ \A d \in Clients : d # c => replay'[d] = replay[d] /\ queue'[d] = queue[d]
        /\ replay'[c] = held /\ queue'[c] = <<>>
    BY <1>7, <2>0 DEF IInv, TypeOK
  <2>2. TypeOK'
    <3>1. \A d \in Clients : Len(queue'[d]) <= QueueLimit
      BY <2>0, <2>1 DEF IInv, TypeOK
    <3>2. phase' \in [Clients -> {"closed", "requested", "building", "open"}]
      BY <1>1 DEF IInv, TypeOK
    <3>. QED BY <1>1, <1>5, <2>1, <3>1, <3>2 DEF IInv, TypeOK
  <2>3. IssuedInv'
    <3>1. \A f \in held : WasIssued(f, event_sequence, snapshot_sequence)
      BY <1>7 DEF IInv, IssuedInv, Issued, Builders
    <3>2. \A f \in held : f.id > 0
      <4>1. event_sequence \in Nat
        BY DEF IInv, TypeOK
      <4>. QED BY <3>1, <4>1 DEF WasIssued
    <3>3. \A d \in Clients : \A f \in replay'[d] :
            WasIssued(f, event_sequence, snapshot_sequence) /\ f.id > delivered[d]
      BY <1>2, <2>1, <3>1, <3>2 DEF IInv, IssuedInv, Issued
    <3>4. \A d \in Clients : \A i \in DOMAIN queue'[d] :
            WasIssued(queue'[d][i], event_sequence, snapshot_sequence)
      BY <2>1 DEF IInv, IssuedInv, Issued
    <3>. QED BY <1>1, <1>5, <3>3, <3>4 DEF IInv, IssuedInv, Issued, Retained
  <2>4. PhaseInv'
    BY <1>1, <2>1 DEF IInv, PhaseInv, TypeOK
  <2>5. LatestWins'
    <3>. SUFFICES ASSUME NEW d \in Connected
                  PROVE  \/ delivered[d] >= sent[d]
                         \/ \E f \in replay'[d] : f.id = sent[d]
                         \/ \E i \in DOMAIN queue'[d] : queue'[d][i].id = sent[d]
      BY <1>1, <1>4 DEF LatestWins
    <3>1. d \in Clients
      BY DEF Connected
    <3>2. \/ delivered[d] >= sent[d]
          \/ \E f \in replay[d] : f.id = sent[d]
          \/ \E i \in DOMAIN queue[d] : queue[d][i].id = sent[d]
      BY DEF IInv, LatestWins
    <3>3. CASE d # c
      BY <2>1, <3>1, <3>2, <3>3
    <3>4. CASE d = c
      BY <1>2, <2>1, <3>2, <3>4
    <3>. QED BY <3>3, <3>4
  <2>6. OvertakenInv'
    <3>. SUFFICES ASSUME NEW d \in Connected,
                         thread[Periodic].event # NoEvent,
                         thread[Periodic].event.id < sent[d], queue'[d] # <<>>
                  PROVE  queue'[d][Len(queue'[d])].id = sent[d]
      BY <1>1, <1>4, <1>5 DEF OvertakenInv
    <3>1. d \in Clients /\ d # c
      BY <2>1 DEF Connected
    <3>. QED BY <2>1, <3>1 DEF IInv, OvertakenInv
  <2>. QED BY <1>3, <2>2, <2>3, <2>4, <2>5, <2>6 DEF IInv
<1>. QED BY <1>6, <1>7 DEF FullSnapshot

\* What the browser gets has a version that was issued.
LEMMA DeliverFacts ==
  ASSUME TypeOK, IssuedInv, VersionsSurviveRestart, NEW c \in Clients, NEW e \in Event,
         e.version <= snapshot_sequence, Deliver(c, e),
         snapshot_sequence' = snapshot_sequence
  PROVE  /\ delivered' \in [Clients -> Nat] /\ delivered'[c] = e.id
         /\ \A d \in Clients : d # c => delivered'[d] = delivered[d]
         /\ last_event_id' \in [Clients -> Nat] /\ origin' \in [Clients -> Nat]
         /\ shown' \in [Clients -> Nat]
         /\ VersionsSurviveRestart'
<1>1. e.id \in Nat /\ e.version \in Nat /\ process \in Nat
  BY DEF Event, TypeOK
<1>2. /\ delivered' \in [Clients -> Nat] /\ delivered'[c] = e.id
      /\ \A d \in Clients : d # c => delivered'[d] = delivered[d]
  BY <1>1 DEF Deliver, TypeOK
<1>3. last_event_id' \in [Clients -> Nat] /\ origin' \in [Clients -> Nat]
  BY <1>1 DEF Deliver, TypeOK
<1>4. CASE Snapshot(e)
  <2>1. shown \in [Clients -> Nat] /\ shown' = [shown EXCEPT ![c] = Larger(@, e.version)]
    BY <1>4 DEF Deliver, TypeOK
  <2>2. Larger(shown[c], e.version) \in Nat /\ Larger(shown[c], e.version) <= snapshot_sequence
    BY <1>1, <2>1 DEF VersionsSurviveRestart, Larger
  <2>3. shown' \in [Clients -> Nat]
    BY <2>1, <2>2
  <2>4. \A d \in Clients : shown'[d] <= snapshot_sequence
    BY <2>1, <2>2 DEF VersionsSurviveRestart
  <2>. QED BY <1>2, <1>3, <2>3, <2>4 DEF VersionsSurviveRestart
<1>5. CASE ~Snapshot(e)
  <2>1. shown' = shown
    BY <1>5 DEF Deliver
  <2>. QED BY <1>2, <1>3, <2>1 DEF VersionsSurviveRestart, TypeOK
<1>. QED BY <1>4, <1>5

\* What remains of a sequence without its head.
LEMMA TailFacts ==
  ASSUME NEW S, NEW s \in Seq(S), s # <<>>
  PROVE  /\ Head(s) = s[1] /\ s[1] \in S
         /\ Tail(s) \in Seq(S) /\ Len(Tail(s)) = Len(s) - 1 /\ Len(s) \in Nat \ {0}
         /\ \A i \in DOMAIN Tail(s) : i + 1 \in DOMAIN s /\ Tail(s)[i] = s[i + 1]
         /\ \A i \in DOMAIN s : i # 1 => i - 1 \in DOMAIN Tail(s) /\ Tail(s)[i - 1] = s[i]
         /\ Tail(s) # <<>> => Tail(s)[Len(Tail(s))] = s[Len(s)]
<1>1. /\ Head(s) = s[1] /\ s[1] \in S
      /\ Tail(s) \in Seq(S) /\ Len(Tail(s)) = Len(s) - 1
      /\ \A i \in 1..Len(Tail(s)) : Tail(s)[i] = s[i + 1]
  BY HeadTailProperties
<1>2. Len(s) \in Nat \ {0} /\ DOMAIN s = 1..Len(s) /\ DOMAIN Tail(s) = 1..Len(Tail(s))
  BY <1>1
<1>3. \A i \in DOMAIN Tail(s) : i + 1 \in DOMAIN s /\ Tail(s)[i] = s[i + 1]
  BY <1>1, <1>2
<1>4. ASSUME NEW i \in DOMAIN s, i # 1
      PROVE  i - 1 \in DOMAIN Tail(s) /\ Tail(s)[i - 1] = s[i]
  <2>1. i \in Nat /\ i - 1 \in 1..Len(Tail(s)) /\ (i - 1) + 1 = i
    BY <1>1, <1>2, <1>4
  <2>. QED BY <1>1, <1>2, <2>1
<1>5. ASSUME Tail(s) # <<>> PROVE Tail(s)[Len(Tail(s))] = s[Len(s)]
  <2>1. Len(s) \in DOMAIN s /\ Len(s) # 1
    BY <1>1, <1>2, <1>5
  <2>. QED BY <1>1, <1>4, <2>1
<1>. QED BY <1>1, <1>2, <1>3, <1>4, <1>5

\* The least replayed event is yielded: what remains is newer.
LEMMA YieldReplayInv ==
  ASSUME StreamAssumption, IInv, NEW c \in Clients, YieldReplay(c)
  PROVE  IInv'
<1>. USE DEF buffer, connection, queues, browser
<1>. PICK e \in replay[c] : /\ \A f \in replay[c] : e.id <= f.id
                            /\ Deliver(c, e)
                            /\ replay' = [replay EXCEPT ![c] = {f \in @ : f.id > e.id}]
  BY DEF YieldReplay
<1>1. UNCHANGED <<state, events, event_sequence, snapshot_sequence, last_content, process,
                  turn, thread, phase, request, queue, sent, count>>
      /\ phase[c] = "open"
  BY DEF YieldReplay
<1>2. /\ e \in Event /\ e.id \in Nat /\ delivered[c] \in Nat /\ sent[c] \in Nat
      /\ WasIssued(e, event_sequence, snapshot_sequence) /\ e.id > delivered[c]
  BY EventTypes DEF IInv, IssuedInv, Issued, Event
<1>3. /\ delivered' \in [Clients -> Nat] /\ delivered'[c] = e.id
      /\ \A d \in Clients : d # c => delivered'[d] = delivered[d]
      /\ last_event_id' \in [Clients -> Nat] /\ origin' \in [Clients -> Nat]
      /\ shown' \in [Clients -> Nat]
      /\ VersionsSurviveRestart'
  BY <1>1, <1>2, DeliverFacts DEF IInv, WasIssued
<1>4. /\ replay' \in [Clients -> SUBSET Event]
      /\ replay'[c] = {f \in replay[c] : f.id > e.id}
      /\ \A d \in Clients : d # c => replay'[d] = replay[d]
  BY DEF IInv, TypeOK
<1>5. TypeOK'
  BY <1>1, <1>3, <1>4 DEF IInv, TypeOK
<1>6. WindowInv' /\ OvertakenInv'
  BY <1>1 DEF IInv, WindowInv, Snapshot, OvertakenInv, Connected
<1>7. IssuedInv'
  <2>1. \A d \in Clients : \A f \in replay'[d] :
          WasIssued(f, event_sequence, snapshot_sequence) /\ f.id > delivered'[d]
    BY <1>3, <1>4 DEF IInv, IssuedInv, Issued
  <2>. QED BY <1>1, <2>1 DEF IInv, IssuedInv, Issued, Retained
<1>8. PhaseInv'
  BY <1>1, <1>3, <1>4 DEF IInv, PhaseInv
<1>9. LatestWins'
  <2>. SUFFICES ASSUME NEW d \in Connected
                PROVE  \/ delivered'[d] >= sent[d]
                       \/ \E f \in replay'[d] : f.id = sent[d]
                       \/ \E i \in DOMAIN queue[d] : queue[d][i].id = sent[d]
    BY <1>1 DEF LatestWins, Connected
  <2>1. d \in Clients
    BY DEF Connected
  <2>2. \/ delivered[d] >= sent[d]
        \/ \E f \in replay[d] : f.id = sent[d]
        \/ \E i \in DOMAIN queue[d] : queue[d][i].id = sent[d]
    BY DEF IInv, LatestWins
  <2>3. CASE d # c
    BY <1>3, <1>4, <2>1, <2>2, <2>3
  <2>4. CASE d = c
    BY <1>2, <1>3, <1>4, <2>2, <2>4
  <2>. QED BY <2>3, <2>4
<1>. QED BY <1>3, <1>5, <1>6, <1>7, <1>8, <1>9 DEF IInv

\* The oldest queued event is yielded or skipped; skipped, it is not newer than the
\* last one yielded.
LEMMA YieldQueuedInv ==
  ASSUME StreamAssumption, IInv, NEW c \in Clients, YieldQueued(c)
  PROVE  IInv'
<1>. USE DEF buffer, connection, queues, browser
<1>. PICK e : e = Head(queue[c])
  OBVIOUS
<1>1. UNCHANGED <<state, events, event_sequence, snapshot_sequence, last_content, process,
                  turn, thread, phase, request, replay, sent, count>>
      /\ phase[c] = "open" /\ replay[c] = {} /\ queue[c] # <<>>
      /\ queue' = [queue EXCEPT ![c] = Tail(@)]
  BY DEF YieldQueued
<1>2. /\ queue[c] \in Seq(Event) /\ Len(queue[c]) <= QueueLimit
      /\ delivered[c] \in Nat /\ sent[c] \in Nat
  BY DEF IInv, TypeOK
<1>3. /\ e \in Event /\ e = queue[c][1] /\ Len(queue[c]) \in Nat \ {0}
      /\ Tail(queue[c]) \in Seq(Event) /\ Len(Tail(queue[c])) = Len(queue[c]) - 1
      /\ \A i \in DOMAIN Tail(queue[c]) : /\ i + 1 \in DOMAIN queue[c]
                                          /\ Tail(queue[c])[i] = queue[c][i + 1]
      /\ \A i \in DOMAIN queue[c] : i # 1 => /\ i - 1 \in DOMAIN Tail(queue[c])
                                             /\ Tail(queue[c])[i - 1] = queue[c][i]
      /\ Tail(queue[c]) # <<>> =>
           Tail(queue[c])[Len(Tail(queue[c]))] = queue[c][Len(queue[c])]
  <2>. PICK q \in Seq(Event) : q = queue[c]
    BY <1>2
  <2>1. q # <<>> /\ e = Head(q)
    BY <1>1
  <2>2. /\ Head(q) = q[1] /\ q[1] \in Event
        /\ Tail(q) \in Seq(Event) /\ Len(Tail(q)) = Len(q) - 1 /\ Len(q) \in Nat \ {0}
        /\ \A i \in DOMAIN Tail(q) : i + 1 \in DOMAIN q /\ Tail(q)[i] = q[i + 1]
        /\ \A i \in DOMAIN q : i # 1 => i - 1 \in DOMAIN Tail(q) /\ Tail(q)[i - 1] = q[i]
        /\ Tail(q) # <<>> => Tail(q)[Len(Tail(q))] = q[Len(q)]
    BY SMTT(30), <2>1, TailFacts
  <2>. QED BY <2>1, <2>2, Zenon
<1>4. e.id \in Nat /\ WasIssued(e, event_sequence, snapshot_sequence)
  BY SMTT(30), <1>3 DEF IInv, IssuedInv, Issued, Event
<1>5. /\ queue' \in [Clients -> Seq(Event)]
      /\ queue'[c] = Tail(queue[c])
      /\ \A d \in Clients : d # c => queue'[d] = queue[d]
      /\ \A d \in Clients : Len(queue'[d]) <= QueueLimit
  <2>1. queue \in [Clients -> Seq(Event)] /\ \A d \in Clients : Len(queue[d]) <= QueueLimit
    BY DEF IInv, TypeOK
  <2>2. QueueLimit \in Nat
    BY DEF StreamAssumption
  <2>. QED BY <1>1, <1>3, <2>1, <2>2
<1>6. /\ delivered' \in [Clients -> Nat]
      /\ \A d \in Clients : d # c => delivered'[d] = delivered[d]
      /\ last_event_id' \in [Clients -> Nat] /\ origin' \in [Clients -> Nat]
      /\ shown' \in [Clients -> Nat]
      /\ VersionsSurviveRestart'
      /\ delivered'[c] \in Nat
      /\ delivered'[c] >= delivered[c] /\ delivered'[c] >= e.id
  <2>1. CASE Fresh(c, e) /\ Deliver(c, e)
    <3>1. /\ delivered' \in [Clients -> Nat] /\ delivered'[c] = e.id
          /\ \A d \in Clients : d # c => delivered'[d] = delivered[d]
          /\ last_event_id' \in [Clients -> Nat] /\ origin' \in [Clients -> Nat]
          /\ shown' \in [Clients -> Nat]
          /\ VersionsSurviveRestart'
      BY <1>1, <1>3, <1>4, <2>1, DeliverFacts DEF IInv, WasIssued
    <3>2. delivered'[c] \in Nat /\ delivered'[c] >= delivered[c] /\ delivered'[c] >= e.id
      <4>1. e.id > delivered[c]
        BY <2>1 DEF Fresh
      <4>. QED BY SMTT(30), <1>2, <1>4, <3>1, <4>1
    <3>. QED BY <3>1, <3>2
  <2>2. CASE ~Fresh(c, e) /\ UNCHANGED <<delivered, browser>>
    <3>1. ~(e.id > delivered[c])
      BY <2>2 DEF Fresh
    <3>2. delivered'[c] \in Nat /\ delivered'[c] >= delivered[c] /\ delivered'[c] >= e.id
      BY <1>2, <1>4, <2>2, <3>1
    <3>. QED BY <1>1, <2>2, <3>2 DEF IInv, TypeOK, VersionsSurviveRestart
  <2>. QED BY <2>1, <2>2 DEF YieldQueued
<1>7. TypeOK'
  BY <1>1, <1>5, <1>6 DEF IInv, TypeOK
<1>8. WindowInv'
  BY <1>1 DEF IInv, WindowInv, Snapshot
<1>9. IssuedInv'
  <2>1. \A d \in Clients : \A i \in DOMAIN queue'[d] :
          WasIssued(queue'[d][i], event_sequence, snapshot_sequence)
    <3>1. \A d \in Clients : \A i \in DOMAIN queue[d] :
            WasIssued(queue[d][i], event_sequence, snapshot_sequence)
      BY DEF IInv, IssuedInv, Issued
    <3>2. ASSUME NEW i \in DOMAIN queue'[c]
          PROVE  i + 1 \in DOMAIN queue[c] /\ queue'[c][i] = queue[c][i + 1]
      BY <1>2, <1>3, <1>5
    <3>. QED BY <1>5, <3>1, <3>2
  <2>2. \A d \in Clients : \A f \in replay[d] : f.id > delivered'[d]
    BY <1>1, <1>6 DEF IInv, IssuedInv
  <2>. QED BY <1>1, <2>1, <2>2 DEF IInv, IssuedInv, Issued, Retained
<1>10. PhaseInv'
  BY <1>1, <1>5, <1>6 DEF IInv, PhaseInv
<1>11. LatestWins'
  <2>. SUFFICES ASSUME NEW d \in Connected
                PROVE  \/ delivered'[d] >= sent[d]
                       \/ \E f \in replay[d] : f.id = sent[d]
                       \/ \E i \in DOMAIN queue'[d] : queue'[d][i].id = sent[d]
    BY <1>1 DEF LatestWins, Connected
  <2>1. d \in Clients
    BY DEF Connected
  <2>2. \/ delivered[d] >= sent[d]
        \/ \E f \in replay[d] : f.id = sent[d]
        \/ \E i \in DOMAIN queue[d] : queue[d][i].id = sent[d]
    BY DEF IInv, LatestWins
  <2>3. CASE d # c
    BY <1>5, <1>6, <2>1, <2>2, <2>3
  <2>4. CASE d = c
    <3>1. CASE delivered[c] >= sent[c]
      BY <1>2, <1>6, <2>4, <3>1
    <3>2. CASE \E i \in DOMAIN queue[c] : queue[c][i].id = sent[c]
      <4>1. PICK i \in DOMAIN queue[c] : queue[c][i].id = sent[c]
        BY <3>2
      <4>2. CASE i = 1
        BY <1>3, <1>6, <2>4, <4>1, <4>2
      <4>3. CASE i # 1
        <5>1. i - 1 \in DOMAIN queue'[c] /\ queue'[c][i - 1] = queue[c][i]
          BY <1>2, <1>3, <1>5, <4>1, <4>3
        <5>. QED BY <2>4, <4>1, <5>1
      <4>. QED BY <4>2, <4>3
    <3>. QED BY <1>1, <2>2, <2>4, <3>1, <3>2
  <2>. QED BY <2>3, <2>4
<1>12. OvertakenInv'
  <2>. SUFFICES ASSUME NEW d \in Connected,
                       thread[Periodic].event # NoEvent,
                       thread[Periodic].event.id < sent[d], queue'[d] # <<>>
                PROVE  queue'[d][Len(queue'[d])].id = sent[d]
    BY <1>1 DEF OvertakenInv, Connected
  <2>1. d \in Clients
    BY DEF Connected
  <2>2. CASE d # c
    BY <1>5, <2>1, <2>2 DEF IInv, OvertakenInv
  <2>3. CASE d = c
    <3>1. queue[c][Len(queue[c])].id = sent[c]
      BY <1>1, <2>3 DEF IInv, OvertakenInv
    <3>2. queue'[c] # <<>> /\ queue'[c] = Tail(queue[c])
      BY <1>5, <2>3
    <3>3. queue'[c][Len(queue'[c])] = queue[c][Len(queue[c])]
      BY <1>3, <3>2
    <3>. QED BY <2>3, <3>1, <3>3
  <2>. QED BY <2>2, <2>3
<1>. QED BY <1>6, <1>7, <1>8, <1>9, <1>10, <1>11, <1>12 DEF IInv

\* A closed connection leaves nothing behind but its orphaned thread.
LEMMA DisconnectInv ==
  ASSUME StreamAssumption, PeriodicAssumption, IInv, NEW c \in Clients, Disconnect(c)
  PROVE  IInv'
<1>. USE DEF buffer, connection, queues, browser
<1>1. UNCHANGED <<state, events, event_sequence, snapshot_sequence, last_content, process,
                  turn, request, last_event_id, origin, shown, count>>
      /\ phase' = [phase EXCEPT ![c] = "closed"]
  BY DEF Disconnect
<1>2. <<>> \in Seq(Event) /\ Len(<<>>) <= QueueLimit
  BY DEF StreamAssumption
<1>3. /\ replay' \in [Clients -> SUBSET Event] /\ replay'[c] = {}
      /\ queue' \in [Clients -> Seq(Event)] /\ queue'[c] = <<>>
      /\ sent' \in [Clients -> Nat] /\ sent'[c] = 0
      /\ delivered' \in [Clients -> Nat] /\ delivered'[c] = 0
      /\ phase' \in [Clients -> {"closed", "requested", "building", "open"}]
      /\ phase'[c] = "closed"
      /\ \A d \in Clients : d # c => /\ replay'[d] = replay[d] /\ queue'[d] = queue[d]
                                     /\ sent'[d] = sent[d] /\ phase'[d] = phase[d]
                                     /\ delivered'[d] = delivered[d]
  BY <1>2 DEF Disconnect, IInv, TypeOK
<1>4. /\ thread' \in [Builders -> Threads]
      /\ \A a \in Builders :
           /\ thread'[a].event \in {thread[a].event, NoEvent}
           /\ thread'[a].at = "publish" => thread'[a] = thread[a]
      /\ thread'[Periodic] = thread[Periodic]
  <2>1. thread \in [Builders -> Threads] /\ c \in Builders /\ Idle.at = "idle"
        /\ c # Periodic
    BY DEF IInv, TypeOK, Builders, Idle, PeriodicAssumption
  <2>2. CASE thread' = [thread EXCEPT ![c] = Idle]
    BY <2>1, <2>2, NoEventFacts
  <2>3. CASE thread' = thread
    BY <2>1, <2>3
  <2>. QED BY <2>2, <2>3 DEF Disconnect
<1>5. TypeOK'
  <2>1. \A d \in Clients : Len(queue'[d]) <= QueueLimit
    BY <1>2, <1>3 DEF IInv, TypeOK
  <2>. QED BY <1>1, <1>3, <1>4, <2>1 DEF IInv, TypeOK
<1>6. WindowInv' /\ VersionsSurviveRestart'
  BY <1>1 DEF IInv, WindowInv, Snapshot, VersionsSurviveRestart
<1>7. IssuedInv'
  <2>1. \A d \in Clients : sent'[d] <= event_sequence
    <3>1. event_sequence \in Nat /\ \A d \in Clients : sent[d] <= event_sequence
      BY DEF IInv, TypeOK, IssuedInv
    <3>2. 0 <= event_sequence
      BY <3>1
    <3>3. ASSUME NEW d \in Clients PROVE sent'[d] = 0 \/ sent'[d] = sent[d]
      BY <1>3
    <3>. QED BY <3>1, <3>2, <3>3
  <2>2. \A d \in Clients :
          /\ \A f \in replay'[d] : WasIssued(f, event_sequence, snapshot_sequence)
                                   /\ f.id > delivered'[d]
          /\ \A i \in DOMAIN queue'[d] :
               WasIssued(queue'[d][i], event_sequence, snapshot_sequence)
    <3>. SUFFICES ASSUME NEW d \in Clients
                  PROVE  /\ \A f \in replay'[d] :
                              WasIssued(f, event_sequence, snapshot_sequence)
                              /\ f.id > delivered'[d]
                         /\ \A i \in DOMAIN queue'[d] :
                              WasIssued(queue'[d][i], event_sequence, snapshot_sequence)
      OBVIOUS
    <3>1. CASE d = c
      BY <1>3, <3>1
    <3>2. CASE d # c
      BY <1>3, <3>2 DEF IInv, IssuedInv, Issued
    <3>. QED BY <3>1, <3>2
  <2>. QED BY <1>1, <1>4, <2>1, <2>2 DEF IInv, IssuedInv, Issued, Retained
<1>8. PhaseInv'
  BY <1>3 DEF IInv, PhaseInv
<1>9. \A d \in Connected' : d # c /\ d \in Connected /\ d \in Clients
  BY <1>3 DEF Connected
<1>10. LatestWins'
  <2>. SUFFICES ASSUME NEW d \in Connected'
                PROVE  \/ delivered'[d] >= sent'[d]
                       \/ \E f \in replay'[d] : f.id = sent'[d]
                       \/ \E i \in DOMAIN queue'[d] : queue'[d][i].id = sent'[d]
    BY DEF LatestWins
  <2>1. d # c /\ d \in Connected /\ d \in Clients
    BY <1>9
  <2>2. \/ delivered[d] >= sent[d]
        \/ \E f \in replay[d] : f.id = sent[d]
        \/ \E i \in DOMAIN queue[d] : queue[d][i].id = sent[d]
    BY <2>1 DEF IInv, LatestWins
  <2>. QED BY <1>3, <2>1, <2>2
<1>11. OvertakenInv'
  BY ZenonT(30), <1>3, <1>4, <1>9 DEF IInv, OvertakenInv
<1>. QED BY <1>5, <1>6, <1>7, <1>8, <1>10, <1>11 DEF IInv

LEMMA ChangeInv ==
  ASSUME IInv, Change PROVE IInv'
<1>. USE DEF buffer, connection, queues, browser
<1>1. TypeOK'
  BY SpendType DEF Change, IInv, TypeOK
<1>2. WindowInv' /\ IssuedInv' /\ PhaseInv' /\ OvertakenInv' /\ LatestWins'
      /\ VersionsSurviveRestart'
  BY DEF Change, IInv, WindowInv, IssuedInv, Issued, Retained, Snapshot, PhaseInv,
         OvertakenInv, LatestWins, Connected, VersionsSurviveRestart
<1>. QED BY <1>1, <1>2 DEF IInv

\* The versions of the next process start above every version of this one.
LEMMA RestartInv ==
  ASSUME StreamAssumption, IInv, Restart PROVE IInv'
<1>. USE DEF buffer, connection, queues, browser
<1>1. /\ process' = process + Headroom /\ snapshot_sequence' = process'
      /\ {process, snapshot_sequence, Headroom} \subseteq Nat
      /\ snapshot_sequence < process + Headroom
      /\ Headroom > 0
  BY DEF Restart, RestartSafeEpoch, IInv, TypeOK, IssuedInv, StreamAssumption
<1>2. process' \in Nat /\ snapshot_sequence <= snapshot_sequence'
      /\ process' < process' + Headroom
  BY <1>1
<1>3. TypeOK'
  <2>1. count' \in [{"change", "beat", "connect", "restart", "fault"} -> Nat]
    BY SpendType DEF Restart, IInv
  <2>2. events' \in Seq(Event) /\ Len(events') <= ReplayLimit
    BY DEF Restart, StreamAssumption
  <2>3. thread' \in [Builders -> Threads]
    BY NoEventFacts DEF Restart
  <2>4. /\ queue' \in [Clients -> Seq(Event)]
        /\ \A c \in Clients : Len(queue'[c]) <= QueueLimit
    BY DEF Restart, StreamAssumption
  <2>5. last_content' \in Contents \cup {NoContent} /\ turn' \in {"sleep", "beat"}
        /\ phase' \in [Clients -> {"closed", "requested", "building", "open"}]
        /\ request' \in [Clients -> Nat] /\ delivered' \in [Clients -> Nat]
        /\ replay' \in [Clients -> SUBSET Event] /\ sent' \in [Clients -> Nat]
    BY DEF Restart
  <2>6. {event_sequence', snapshot_sequence', process'} \subseteq Nat
    BY <1>1, <1>2 DEF Restart
  <2>7. UNCHANGED <<state, last_event_id, origin, shown>>
    BY DEF Restart
  <2>. QED BY <2>1, <2>2, <2>3, <2>4, <2>5, <2>6, <2>7 DEF IInv, TypeOK
<1>4. WindowInv' /\ PhaseInv' /\ OvertakenInv' /\ LatestWins'
  BY DEF Restart, WindowInv, PhaseInv, OvertakenInv, LatestWins, Connected
<1>5. IssuedInv'
  BY <1>1, <1>2, NoEventFacts DEF Restart, IssuedInv, Retained, Idle
<1>6. VersionsSurviveRestart'
  <2>1. /\ shown' = shown /\ \A c \in Clients : shown[c] \in Nat
        /\ \A c \in Clients : shown[c] <= snapshot_sequence
    BY DEF Restart, IInv, TypeOK, VersionsSurviveRestart
  <2>2. \A c \in Clients : shown[c] <= snapshot_sequence'
    BY <1>1, <1>2, <2>1
  <2>. QED BY <2>1, <2>2 DEF VersionsSurviveRestart
<1>. QED BY <1>3, <1>4, <1>5, <1>6 DEF IInv

LEMMA NextInv ==
  ASSUME StreamAssumption, PeriodicAssumption, IInv, [Next]_vars PROVE IInv'
<1>1. ASSUME NEW b \in Builders, Aggregate(b) PROVE IInv'
  BY <1>1, AggregateInv
<1>2. ASSUME NEW b \in Builders, Publish(b) PROVE IInv'
  BY <1>2, PublishInv
<1>3. CASE SnapshotStep
  BY <1>3, SnapshotStepInv
<1>4. CASE HeartbeatStep
  BY <1>4, HeartbeatStepInv
<1>5. ASSUME NEW c \in Clients, Client(c) PROVE IInv'
  BY <1>5, ConnectInv, AnswerInv, FullSnapshotInv, YieldReplayInv, YieldQueuedInv,
     DisconnectInv DEF Client
<1>6. CASE Change
  BY <1>6, ChangeInv
<1>7. CASE Restart
  BY <1>7, RestartInv
<1>8. CASE UNCHANGED vars
  <2>. USE <1>8 DEF vars, buffer, connection, queues, browser
  <2>1. TypeOK'
    BY DEF IInv, TypeOK
  <2>2. WindowInv' /\ IssuedInv'
    BY DEF IInv, WindowInv, IssuedInv, Issued, Retained, Snapshot
  <2>3. PhaseInv' /\ OvertakenInv' /\ LatestWins' /\ VersionsSurviveRestart'
    BY DEF IInv, PhaseInv, OvertakenInv, LatestWins, Connected, VersionsSurviveRestart
  <2>. QED BY <2>1, <2>2, <2>3 DEF IInv
<1>. QED BY <1>1, <1>2, <1>3, <1>4, <1>5, <1>6, <1>7, <1>8 DEF Next

\* The inductive invariant holds in every reachable state (DashboardStream.tla).
THEOREM Invariance == Spec => []IInv
<1>1. Init => IInv
  BY InitInv, StreamAssumption
<1>2. IInv /\ [Next]_vars => IInv'
  BY NextInv, StreamAssumption, PeriodicAssumption
<1>. QED BY <1>1, <1>2, PTL DEF Spec

\* Queues and the replay window keep their limits, whatever the interleaving of the
\* event loop and the threads.
THEOREM TypeCorrect == Spec => []TypeOK
<1>1. IInv => TypeOK
  BY DEF IInv
<1>. QED BY <1>1, Invariance, PTL

\* A browser that stays connected is always on its way to the newest event that was
\* broadcast to it, although queues drop events (_broadcast_dashboard_event).
THEOREM Latest == Spec => []LatestWins
<1>1. IInv => LatestWins
  BY DEF IInv
<1>. QED BY <1>1, Invariance, PTL

\* A restarted process never numbers its snapshots below those a browser has seen
\* (restart_safe_epoch), as long as a process uses less versions than its headroom.
THEOREM Versions == Spec => []VersionsSurviveRestart
<1>1. IInv => VersionsSurviveRestart
  BY DEF IInv
<1>. QED BY <1>1, Invariance, PTL

\* What replay_after finds in a window of consecutive ids.
LEMMA WindowReplay ==
  ASSUME TypeOK, WindowInv PROVE ReplayHasNoGap
<1>1. /\ event_sequence \in Nat /\ Len(events) \in Nat /\ Len(events) <= event_sequence
      /\ DOMAIN events = 1..Len(events)
  BY DEF TypeOK, WindowInv
<1>2. \A i \in 1..Len(events) : events[i].id = event_sequence - Len(events) + i
  BY <1>1 DEF WindowInv
<1>3. \A k \in (event_sequence - Len(events) + 1)..event_sequence :
        \E e \in Retained : e.id = k
  <2>. TAKE k \in (event_sequence - Len(events) + 1)..event_sequence
  <2>1. k - (event_sequence - Len(events)) \in 1..Len(events)
    BY <1>1
  <2>2. events[k - (event_sequence - Len(events))].id = k
    BY <1>1, <1>2, <2>1
  <2>. QED BY <1>1, <2>1, <2>2 DEF Retained
<1>4. \A e \in Retained : e.id \in (event_sequence - Len(events) + 1)..event_sequence
  <2>1. \A i \in 1..Len(events) :
          events[i].id \in (event_sequence - Len(events) + 1)..event_sequence
    BY <1>1, <1>2
  <2>. QED BY <1>1, <2>1 DEF Retained
<1>. SUFFICES ASSUME NEW r \in Ids, ~NeedsFullSnapshot(r)
              PROVE  LET ids == {e.id : e \in ReplayAfter(r)} IN
                     \/ ids = (r + 1)..event_sequence
                     \/ \E e \in ReplayAfter(r) :
                          /\ Snapshot(e) /\ e.version = snapshot_sequence
                          /\ ids = e.id..event_sequence
  BY DEF ReplayHasNoGap
<1>. DEFINE ids == {e.id : e \in ReplayAfter(r)}
<1>5. r \in 1..event_sequence
  BY DEF Ids
<1>6. CASE r = event_sequence
  <2>1. ReplayAfter(r) = {}
    BY <1>1, <1>4, <1>6 DEF ReplayAfter
  <2>2. (r + 1)..event_sequence = {}
    BY <1>1, <1>6
  <2>. QED BY <2>1, <2>2
<1>7. CASE \E f \in Retained : f.id = r
  <2>1. ReplayAfter(r) = {e \in Retained : e.id > r}
    BY <1>7 DEF ReplayAfter
  <2>2. r \in (event_sequence - Len(events) + 1)..event_sequence
    BY <1>4, <1>7
  <2>3. ids \subseteq (r + 1)..event_sequence
    BY <1>1, <1>4, <1>5, <2>1
  <2>4. (r + 1)..event_sequence \subseteq ids
    <3>. SUFFICES ASSUME NEW k \in (r + 1)..event_sequence PROVE k \in ids
      OBVIOUS
    <3>1. k \in (event_sequence - Len(events) + 1)..event_sequence /\ k > r
      BY <1>1, <1>5, <2>2
    <3>. QED BY <1>3, <2>1, <3>1
  <2>. QED BY <2>3, <2>4
<1>8. CASE (\E f \in Retained : Snapshot(f) /\ ~(f.id <= r))
            /\ ~(\E f \in Retained : f.id = r)
  <2>1. PICK f \in Retained : Snapshot(f) /\ ~(f.id <= r)
    BY <1>8
  <2>2. PICK i \in 1..Len(events) : events[i] = f
    BY <1>1 DEF Retained
  <2>3. i = 1 /\ f = events[1] /\ f.version = snapshot_sequence
    BY <1>1, <2>1, <2>2 DEF WindowInv
  <2>4. f.id = event_sequence - Len(events) + 1 /\ f.id > r /\ f.id \in Nat
    BY <1>1, <1>2, <1>5, <2>1, <2>2, <2>3
  <2>5. \A g \in Retained : g.id >= f.id /\ g.id \in f.id..event_sequence
    BY <1>1, <1>4, <2>4
  <2>6. ReplayAfter(r) = Retained
    <3>1. \A g \in Retained : g.id > r /\ g.id >= f.id
      BY <1>1, <1>4, <1>5, <2>4, <2>5
    <3>. QED BY <2>1, <2>4, <3>1 DEF ReplayAfter
  <2>7. ids = f.id..event_sequence
    <3>1. ids \subseteq f.id..event_sequence
      BY <2>5, <2>6
    <3>2. f.id..event_sequence \subseteq ids
      BY <1>3, <2>4, <2>6
    <3>. QED BY <3>1, <3>2
  <2>. QED BY <2>1, <2>3, <2>6, <2>7
<1>. QED BY <1>5, <1>6, <1>7, <1>8 DEF NeedsFullSnapshot

\* Whatever id of this process a browser reconnects with, the replay it gets has no
\* gap (replay_after), for every limit of the window.
THEOREM NoGap == Spec => []ReplayHasNoGap
<1>1. IInv => ReplayHasNoGap
  BY WindowReplay DEF IInv
<1>. QED BY <1>1, Invariance, PTL

\* A step of another browser, of the broadcaster or of a thread yields nothing.
LEMMA OrderedStep ==
  ASSUME IInv, Next, NEW c \in Clients, phase[c] # "closed", phase'[c] # "closed",
         delivered'[c] # delivered[c]
  PROVE  delivered'[c] > delivered[c]
<1>. USE DEF connection, browser
<1>1. \A d \in Clients : delivered[d] \in Nat
  BY DEF IInv, TypeOK
<1>2. delivered \in [Clients -> Nat] /\ phase \in [Clients -> {"closed", "requested", "building", "open"}]
  BY DEF IInv, TypeOK
<1>3. ASSUME NEW d \in Clients, YieldReplay(d) PROVE delivered'[c] > delivered[c]
  <2>1. PICK e \in replay[d] : delivered' = [delivered EXCEPT ![d] = e.id]
    BY <1>3 DEF YieldReplay, Deliver
  <2>2. e.id > delivered[d]
    BY <2>1 DEF IInv, IssuedInv
  <2>. QED BY <1>2, <2>1, <2>2
<1>4. ASSUME NEW d \in Clients, YieldQueued(d) PROVE delivered'[c] > delivered[c]
  <2>1. /\ Head(queue[d]).id > delivered[d]
        /\ delivered' = [delivered EXCEPT ![d] = Head(queue[d]).id]
    BY <1>4 DEF YieldQueued, Fresh, Deliver
  <2>. QED BY <1>2, <2>1
<1>5. ASSUME NEW d \in Clients, Connect(d) \/ Disconnect(d)
      PROVE  delivered'[c] = delivered[c]
  <2>1. CASE d = c
    BY <1>2, <1>5, <2>1 DEF Connect, Disconnect
  <2>2. CASE d # c
    BY <1>2, <1>5, <2>2 DEF Connect, Disconnect
  <2>. QED BY <2>1, <2>2
<1>6. ASSUME NEW d \in Clients, Answer(d) \/ FullSnapshot(d) PROVE delivered' = delivered
  BY <1>6 DEF Answer, FullSnapshot
<1>7. ASSUME NEW b \in Builders, Aggregate(b) \/ Publish(b) PROVE delivered' = delivered
  BY <1>7 DEF Aggregate, Publish
<1>8. ASSUME SnapshotStep \/ HeartbeatStep \/ Change PROVE delivered' = delivered
  BY <1>8 DEF SnapshotStep, HeartbeatStep, Change
<1>9. ~Restart
  BY DEF Restart
<1>. QED BY <1>3, <1>4, <1>5, <1>6, <1>7, <1>8, <1>9 DEF Next, Client

\* One connection yields every event at most once and in the order of ids, although
\* replay, full snapshot and queue overlap (event_generator).
THEOREM Ordered == Spec => OrderedDelivery
<1>. DEFINE Step == \A c \in Clients :
       (phase[c] # "closed" /\ phase'[c] # "closed" /\ delivered'[c] # delivered[c])
       => delivered'[c] > delivered[c]
<1>1. IInv /\ [Next]_vars => [Step]_vars
  BY OrderedStep
<1>. QED BY <1>1, Invariance, PTL DEF Spec, OrderedDelivery
=============================================================================
