--------------------------- MODULE EvidenceCaches ---------------------------
(***************************************************************************)
(* What WebSocketManager keeps of the streams of one symbol, and what the  *)
(* evaluation reads of it: the last order-book snapshots, of which a       *)
(* sample spread over a span is taken; the recent trades, one per          *)
(* fingerprint; the recent liquidations, of which the flow of the current  *)
(* window is counted against the time before it.  Streams repeat rows,     *)
(* reorder them and stamp them with the exchange's own clock.              *)
(***************************************************************************)
EXTENDS Integers, Sequences, FiniteSets

CONSTANTS
    MaxNow,           \* bound: the last instant
    Rows,             \* identities of trades and of liquidations
    BookTtl,          \* ttl_seconds
    HistoryLimit,     \* orderbook_history_limit
    Count, Span,      \* what the reader of samples asks for
    Window,           \* liquidation_window_seconds
    Retention,        \* liquidation_retention_seconds, trade_ttl_seconds
    TradeLimit        \* trade_history_limit

CacheAssumption ==
    /\ MaxNow \in Nat /\ BookTtl \in Nat /\ Span \in Nat
    /\ HistoryLimit \in Nat \ {0} /\ Count \in Nat \ {0, 1}
    /\ TradeLimit \in Nat \ {0}
    /\ Window \in Nat /\ Retention \in Nat /\ Window <= Retention

VARIABLES
    now,
    history,    \* live_orderbook_history: the times of arrival
    trades,     \* live_trades: the rows [id, at]
    events,     \* live_liquidations: how often each row is kept
    stamp       \* the exchange's stamp of each row, 0 while it has not happened

vars == <<now, history, trades, events, stamp>>
Times == 1..(MaxNow + 1)
Row(id) == [id |-> id, at |-> stamp[id]]

TypeOK ==
    /\ now \in 1..MaxNow
    /\ history \in Seq(1..MaxNow) /\ Len(history) <= HistoryLimit
    /\ trades \subseteq [id : Rows, at : Times]
    /\ events \in [Rows -> 0..2]
    /\ stamp \in [Rows -> 0..(MaxNow + 1)]

Init ==
    /\ now = 1 /\ history = <<>> /\ trades = {} /\ events = [id \in Rows |-> 0]
    /\ stamp = [id \in Rows |-> 0]

Tick ==
    /\ now < MaxNow /\ now' = now + 1
    /\ UNCHANGED <<history, trades, events, stamp>>
\* Something is traded or liquidated; the exchange's clock may be ahead by one.
Happens(id) ==
    /\ stamp[id] = 0
    /\ \E skew \in {0, 1} : stamp' = [stamp EXCEPT ![id] = now + skew]
    /\ UNCHANGED <<now, history, trades, events>>

\* The times of a sequence that lie in a period (SelectSeq as a function that
\* proofs can unfold).
Within(times, period) ==
    LET kept[n \in 0..Len(times)] ==
            IF n = 0 THEN <<>>
            ELSE IF times[n] \in period THEN Append(kept[n - 1], times[n])
            ELSE kept[n - 1]
    IN kept[Len(times)]
Last(s, n) == IF Len(s) > n THEN SubSeq(s, Len(s) - n + 1, Len(s)) ELSE s
IngestOrderbook ==
    /\ history' = Last(Append(history, now), HistoryLimit)
    /\ UNCHANGED <<now, trades, events, stamp>>

\* The newest n rows of a set; which of two rows of one stamp is not said.
Newest(rows, n) ==
    {kept \in SUBSET rows :
        /\ Cardinality(kept) = IF Cardinality(rows) > n THEN n ELSE Cardinality(rows)
        /\ \A r \in kept, x \in rows \ kept : x.at <= r.at}
Kept(rows) == {r \in rows : r.at >= now - Retention}
\* A row with a known fingerprint replaces the row that is there.
IngestTrades(ids) ==
    /\ trades' \in Newest(Kept({r \in trades : r.id \notin ids} \cup {Row(id) : id \in ids}),
                          TradeLimit)
    /\ UNCHANGED <<now, history, events, stamp>>
\* Mutant: what one payload holds twice is added twice.
Seen_PerPayload(id, copies) == IF events[id] > 0 THEN events[id] ELSE copies
\* A payload may hold a row twice; one that was seen is not added again.
Seen(id, copies) == IF events[id] > 0 \/ copies = 0 THEN events[id] ELSE 1
Alive(id) == stamp[id] >= now - Retention
IngestLiquidations(payload) ==
    /\ events' = [id \in Rows |-> IF Alive(id) THEN Seen(id, payload[id]) ELSE 0]
    /\ UNCHANGED <<now, history, trades, stamp>>

\* prune_stale_cache, which also drops what is stamped in the future.
Prune ==
    /\ history' = Within(history, now - BookTtl .. MaxNow)
    /\ trades' = {r \in Kept(trades) : r.at <= now}
    /\ events' = [id \in Rows |->
                    IF Alive(id) /\ stamp[id] <= now THEN events[id] ELSE 0]
    /\ UNCHANGED <<now, stamp>>

Happened == {id \in Rows : stamp[id] # 0}
Next ==
    \/ Tick \/ IngestOrderbook \/ Prune
    \/ \E id \in Rows : Happens(id)
    \/ \E ids \in SUBSET Happened : IngestTrades(ids)
    \/ \E payload \in [Happened -> 0..2] :
        IngestLiquidations([id \in Rows |-> IF id \in Happened THEN payload[id] ELSE 0])

-----------------------------------------------------------------------------
(* What a reader gets.                                                     *)

Fresh == Within(history, now - BookTtl .. now)

\* Python's round, of n / d: to the even neighbour of a half.
Round(n, d) ==
    LET q == n \div d
        twice == 2 * (n % d)
    IN  IF twice < d \/ (twice = d /\ q % 2 = 0) THEN q ELSE q + 1
\* Mutant: the last snapshots are taken whatever they span.
Starts_Newest == {i \in 1..(Len(Fresh) - Count + 1) : TRUE}
\* Where the youngest window that is long enough starts.
Starts == {i \in 1..(Len(Fresh) - Count + 1) : Fresh[Len(Fresh)] - Fresh[i] >= Span}
Start == CHOOSE i \in Starts : \A j \in Starts : j <= i
\* get_realtime_orderbook_samples, as indexes of the fresh snapshots.
Samples ==
    IF Len(Fresh) < Count THEN <<>>
    ELSE IF Span = 0 THEN [p \in 1..Count |-> Len(Fresh) - Count + p]
    ELSE IF Starts = {} THEN <<>>
    ELSE [p \in 1..Count |-> Start + Round((p - 1) * (Len(Fresh) - Start), Count - 1)]

\* get_realtime_liquidation_flow: the events of the window and those before it.
Age(id) == now - stamp[id]
Current == {id \in Rows : events[id] > 0 /\ 0 <= Age(id) /\ Age(id) < Window}
Baseline == {id \in Rows : events[id] > 0 /\ Window <= Age(id) /\ Age(id) < Retention}

-----------------------------------------------------------------------------
(* Properties                                                              *)

\* Samples are different snapshots in the order of their arrival, the last is the
\* newest one, they cover the span, and they are withheld only when no run of
\* fresh snapshots does.
SamplesSpread ==
    LET n == Len(Fresh) IN
    IF Samples = <<>>
    THEN n < Count \/ Fresh[n] - Fresh[1] < Span
         \/ \A i \in 1..n : n - i + 1 >= Count => Fresh[n] - Fresh[i] < Span
    ELSE /\ Samples[Count] = n
         /\ \A p \in 1..(Count - 1) : Samples[p] < Samples[p + 1]
         /\ Fresh[n] - Fresh[Samples[1]] >= Span

\* However rows are repeated and whatever clock they were stamped by, what counts
\* for the flow counts once and in one window, and is not older than the retention.
FlowCountsOnce ==
    \A id \in Rows :
        /\ events[id] <= 1
        /\ id \in Current => id \notin Baseline
        /\ id \in Current \cup Baseline => stamp[id] \in (now - Retention + 1)..now

\* What an evaluation is given is no snapshot and no liquidation twice.
EvidenceCountsOnce == SamplesSpread /\ FlowCountsOnce
=============================================================================
