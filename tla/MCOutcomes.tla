----------------------------- MODULE MCOutcomes -----------------------------
(***************************************************************************)
(* Small instances of the ten machines of Outcomes for TLC.  Outcomes.cfg  *)
(* gives the sizes: three captures, one tampered with and one local; two   *)
(* symbols, each traded once; one symbol over three buckets, of which two  *)
(* are kept; two packets, read two by two; two contracts, of which one is  *)
(* a meme, measured one at a time.                                         *)
(***************************************************************************)
EXTENDS Outcomes

\* The price paths of three minutes for the older of two signals.
SteadyFall == [t \in 0..2 |-> "tp1"]
Falls == {p \in [0..2 -> Touches] : p[0] \in {"nothing", "tp1", "stop"}}
TwoSignals == 1..2
MCQuietPath == [s \in TwoSignals |-> SteadyFall]
PathsOfTwo == [s \in TwoSignals |-> IF s = 1 THEN Falls ELSE {SteadyFall}]

MCVolume == [c \in {1, 2} |-> 10 * c]

\* A packet that can be replayed and one without its context.
Inputs == {"ohlcv", "confirmation", "trades", "orderbooks", "filters",
           "derivatives", "provenance", "position"}
MCRecorded == {[context |-> "complete", observed |-> 1, inputs |-> Inputs,
             attempted |-> TRUE, code |-> "this", same |-> TRUE],
            [context |-> "absent", observed |-> 1, inputs |-> Inputs,
             attempted |-> FALSE, code |-> "this", same |-> TRUE]}
\* Books of up to three levels: deep, thin, crossed and one-sided.
Book(bids, asks) == [bids |-> bids, asks |-> asks, mark |-> 100]
MCBooks ==
    {Book(<<<<10, 1>>, <<9, 1>>, <<6, 2>>>>, <<<<12, 2>>, <<15, 1>>>>),
     Book(<<<<10, 1>>, <<5, 1>>>>, <<<<12, 1>>, <<15, 1>>, <<18, 1>>>>),
     Book(<<<<10, 1>>>>, <<<<12, 2>>>>), Book(<<<<9, 2>>>>, <<<<10, 2>>>>),
     Book(<<<<10, 2>>>>, <<<<10, 2>>>>), Book(<<>>, <<<<10, 2>>>>)}
MCQuietBook == Book(<<>>, <<<<10, 2>>>>)
\* The envelopes of a suitable and of a marginal contract.
MCSuitable == [availability |-> 95, cost |-> 1200, spread |-> 1500, depth |-> 18]
MCMarginal == [availability |-> 60, cost |-> 2500, spread |-> 2000, depth |-> 10]

\* What lets a lifecycle advance, end, go blind or fall back.
Ready == [profile |-> "STRICT", clock |-> "fresh", extension |-> "near",
          fuel |-> "yes", structure |-> "yes", flow |-> "unknown",
          relative |-> "yes", setup |-> "yes", closed |-> "no",
          execution |-> "yes", confirmed |-> "no"]
Broken == [Ready EXCEPT !.closed = "yes", !.confirmed = "yes"]
MCEvidences ==
    {Ready, Broken, [Broken EXCEPT !.profile = "EXPERIMENTAL"],
     [Ready EXCEPT !.extension = "late"], [Ready EXCEPT !.extension = "blocked"],
     [Ready EXCEPT !.clock = "stale"], [Ready EXCEPT !.clock = "unknown"],
     [Ready EXCEPT !.fuel = "no", !.structure = "no", !.setup = "no"],
     [Ready EXCEPT !.fuel = "unknown", !.structure = "unknown", !.execution = "unknown"]}
\* A request of up to four events: two positions of one cluster, opened whole
\* or in part, too late or twice, with funding on the first of them and prices
\* on either side of their liquidation.
MCPolicy == [minimumLeverage |-> 3, maximumLeverage |-> 20, slots |-> 3,
           positionMargin |-> 330, lockedMargin |-> 700, reserve |-> 250,
           positionRisk |-> 80, openRisk |-> 130, clusterRisk |-> 100,
           rewardRisk |-> 1500]
MCCosts == [taker |-> 1, maker |-> 1, entrySlippage |-> 1, exitSlippage |-> 1,
          funding |-> -1, buffer |-> 50]
MCMarket == [tick |-> 1, step |-> 2, minQuantity |-> 2, minNotional |-> 10,
           maximumLeverage |-> 20, lower |-> 500, upper |-> 500, maxAge |-> 1,
           provenAt |-> 0, provenUntil |-> 3, liquidationFee |-> 10,
           tiers |-> {[floor |-> 0, cap |-> 500, rate |-> 20],
                      [floor |-> 500, cap |-> 100000, rate |-> 50]}]
Offer == [signal |-> "s1", cluster |-> "c", at |-> 0, seenAt |-> 0,
          mark |-> 100, entry |-> 100, tp1 |-> 90, tp2 |-> 70, stop |-> 110,
          bounds |-> {4}, exchangeMax |-> 5, cash |-> 1000, unrealized |-> 0,
          exposures |-> {}, rate |-> 60]
Second == [Offer EXCEPT !.signal = "s2"]
Opens(id, at, position, offer, fill) ==
    [type |-> "OPEN", id |-> id, at |-> at, position |-> position,
     signal |-> offer.signal, cluster |-> offer.cluster, offer |-> offer,
     fill |-> fill, rejected |-> fill = 0, intact |-> TRUE]
Funds(id, amount) ==
    [type |-> "FUNDING", id |-> id, at |-> 1, position |-> "p1", amount |-> amount]
Prices(type, id, at, position, at_price) ==
    [type |-> type, id |-> id, at |-> at, position |-> position,
     price |-> at_price, cost |-> 1]
MCRequests ==
    {Opens(1, 0, "p1", Offer, 1000), Opens(2, 0, "p1", Offer, 500),
     Opens(3, 1, "p2", Second, 1000), Opens(4, 1, "p2", Second, 500),
     Opens(5, 0, "p2", [Second EXCEPT !.bounds = {2}], 1000),
     Opens(6, 1, "p1", [Offer EXCEPT !.at = 2], 1000),
     Opens(7, 1, "p2", Second, 0),
     Funds(11, -60), Funds(12, -200), Funds(13, 20),
     Prices("MARK", 21, 1, "p1", 105), Prices("MARK", 22, 1, "p1", 160),
     Prices("MARK", 23, 2, "p2", 122), Prices("CLOSE", 31, 1, "p1", 80),
     Prices("CLOSE", 32, 2, "p1", 160), Prices("CLOSE", 33, 2, "p1", 112),
     Prices("CLOSE", 34, 2, "p2", 110)}
\* Levels at equal distances, and histories that end at each of them, at the
\* entry after the first, at both ends of one candle, and nowhere.
Candle(best, worst, close) == [best |-> best, worst |-> worst, close |-> close]
Touch == Candle(3, -1, 1)
Higher == Candle(5, 1, 4)
MCHistories ==
    {<<>>, <<Candle(1, -1, -1)>>, <<Candle(7, -3, 5)>>, <<Touch>>,
     <<Touch, Candle(1, -1, 0)>>, <<Touch, Higher>>,
     <<Touch, Higher, Candle(7, 3, 6)>>}
Levels == [stop |-> 2, targets |-> <<2, 4, 6>>]
Candidates == {[ready |-> 740, flaws |-> {"cross_exchange_false"}, plan |-> Levels],
               [ready |-> 900, flaws |-> {"bad_timing"}, plan |-> Levels]}
=============================================================================
