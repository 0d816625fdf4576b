---------------------------- MODULE MarketData ----------------------------
(***************************************************************************)
(* How the signals of the worker come to their candles:                    *)
(* binance_market_data_service.py (ingest_symbol), the signal and snapshot *)
(* routes, and HybridSignalService.build_signal_pack, which reads both,    *)
(* ingests once when they are unusable, reads again and else falls back to *)
(* demo signals.  Readers, their ingestions and those of the backfill      *)
(* script interleave.                                                      *)
(*                                                                         *)
(* Candles of one symbol and timeframe are numbered from the first one the *)
(* exchange lists.  Their prices are left out, and so is the regime the    *)
(* reader asks for too: without an answer it goes on without one.          *)
(***************************************************************************)
EXTENDS Integers, FiniteSets

CONSTANTS Readers,     \* calls of build_signal_pack
          Backfills,   \* ingestions by scripts/backfill_market_candles.py
          Limit,       \* candles the worker reads
          BackfillLimit,
          ApiLimit,    \* the default of the route that ingests
          Needed,      \* candles without which an indicator has no value
          MaxListed    \* bounds the model only

VARIABLES listed,      \* candles at the exchange, the last one still open
          candles,     \* market_candles
          snapshot,    \* market_snapshots has a row for the symbol
          ingestion,   \* API tasks in ingest_symbol, with the klines they got
          reader       \* each reader's progress and answers

vars == <<listed, candles, snapshot, ingestion, reader>>

Ingestions == Readers \cup Backfills
NewReader == [pc |-> "idle", round |-> 1, signals |-> {}, asked |-> {},
              price |-> FALSE, from |-> 0, failed |-> FALSE]
NoTask == [pc |-> "idle", klines |-> {}]

Newest(S, n) == {c \in S : Cardinality({d \in S : d > c}) < n}

Init == /\ listed = 1
        /\ candles = {} /\ snapshot = FALSE
        /\ ingestion = [i \in Ingestions |-> NoTask]
        /\ reader = [r \in Readers |-> NewReader]

NextCandle == /\ listed < MaxListed
              /\ listed' = listed + 1
              /\ UNCHANGED <<candles, snapshot, ingestion, reader>>
-----------------------------------------------------------------------------
(* ingest_symbol.                                                           *)

\* The limit an ingestion is asked for; the mutant leaves it to the route.
RouteLimit(i) == IF i \in Backfills THEN BackfillLimit ELSE ApiLimit
IngestLimit(i) == IF i \in Backfills THEN BackfillLimit ELSE Limit

StartBackfill(i) ==
    /\ i \in Backfills /\ ingestion[i].pc = "idle"
    /\ ingestion' = [ingestion EXCEPT ![i].pc = "asking"]
    /\ UNCHANGED <<listed, candles, snapshot, reader>>

\* The exchange answers klines and prices.
Gathered(i) ==
    /\ ingestion[i].pc = "asking"
    /\ ingestion' = [ingestion EXCEPT
                       ![i] = [pc |-> "storing",
                               klines |-> Newest(1..listed, IngestLimit(i))]]
    /\ reader' = IF i \in Readers THEN [reader EXCEPT ![i].from = listed] ELSE reader
    /\ UNCHANGED <<listed, candles, snapshot>>

\* Candles stored already are left as they are; one commit for all.
Store(i) ==
    /\ ingestion[i].pc = "storing"
    /\ candles' = candles \cup ingestion[i].klines
    /\ snapshot' = TRUE
    /\ ingestion' = [ingestion EXCEPT ![i] = [pc |-> "stored", klines |-> {}]]
    /\ UNCHANGED <<listed, reader>>

\* Any of the calls or the commit raises: everything is rolled back.
IngestFails(i) ==
    /\ ingestion[i].pc \in {"asking", "storing"}
    /\ ingestion' = [ingestion EXCEPT ![i] = [pc |-> "failed", klines |-> {}]]
    /\ UNCHANGED <<listed, candles, snapshot, reader>>
-----------------------------------------------------------------------------
(* build_signal_pack: the signals and the market snapshot are two requests, *)
(* each answered from the tables as they are then.                          *)

Begin(r) ==
    /\ reader[r].pc = "idle"
    /\ reader' = [reader EXCEPT ![r].pc = "reading",
                                ![r].asked = {"signals", "price"}]
    /\ UNCHANGED <<listed, candles, snapshot, ingestion>>

SignalsAnswered(r) ==
    /\ reader[r].pc = "reading" /\ "signals" \in reader[r].asked
    /\ reader' = [reader EXCEPT ![r].asked = @ \ {"signals"},
                                ![r].signals = Newest(candles, Limit)]
    /\ UNCHANGED <<listed, candles, snapshot, ingestion>>

PriceAnswered(r) ==
    /\ reader[r].pc = "reading" /\ "price" \in reader[r].asked
    /\ reader' = [reader EXCEPT ![r].asked = @ \ {"price"}, ![r].price = snapshot]
    /\ UNCHANGED <<listed, candles, snapshot, ingestion>>

\* The route refuses too few candles, and the client takes that for None.
Usable(s) == Cardinality(s.signals) >= Needed

Reason(s) == CASE ~Usable(s) -> "snapshot_incompleto"
               [] Usable(s) /\ ~s.price -> "market_snapshot_missing"
               [] OTHER -> "ok"

\* _should_attempt_market_ingest; the mutant knows one reason only.
ShouldIngestIncomplete(reason) == reason = "snapshot_incompleto"
ShouldIngest(reason) ==
    reason \in {"snapshot_incompleto", "market_snapshot_missing"}

Judge(r) ==
    LET s == reader[r]
    IN  /\ s.pc = "reading" /\ s.asked = {}
        /\ IF s.round = 1 /\ ShouldIngest(Reason(s))
           THEN /\ reader' = [reader EXCEPT ![r].pc = "ingesting"]
                /\ ingestion' = [ingestion EXCEPT ![r].pc = "asking"]
           ELSE /\ reader' = [reader EXCEPT
                                ![r].pc = IF Reason(s) = "ok" THEN "market" ELSE "demo"]
                /\ UNCHANGED ingestion
        /\ UNCHANGED <<listed, candles, snapshot>>

\* The ingestion is answered, and both requests are made again.
ReadAgain(r) ==
    /\ reader[r].pc = "ingesting" /\ ingestion[r].pc = "stored"
    /\ reader' = [reader EXCEPT ![r].pc = "reading", ![r].round = 2,
                                ![r].asked = {"signals", "price"}]
    /\ UNCHANGED <<listed, candles, snapshot, ingestion>>

\* A request of the reader fails or takes too long; an ingestion it gave up
\* waiting for goes on.
GiveUp(r) ==
    /\ \/ reader[r].pc = "reading" /\ reader[r].asked # {}
       \/ reader[r].pc = "ingesting"
    /\ reader' = [reader EXCEPT ![r].pc = "demo", ![r].failed = TRUE,
                                ![r].signals = {}]
    /\ UNCHANGED <<listed, candles, snapshot, ingestion>>

Next == \/ NextCandle
        \/ \E i \in Ingestions : \/ StartBackfill(i) \/ Gathered(i)
                                 \/ Store(i) \/ IngestFails(i)
        \/ \E r \in Readers : \/ Begin(r) \/ SignalsAnswered(r) \/ PriceAnswered(r)
                              \/ Judge(r) \/ ReadAgain(r) \/ GiveUp(r)

Spec == Init /\ [][Next]_vars
-----------------------------------------------------------------------------
TypeOK ==
    /\ listed \in 1..MaxListed /\ candles \subseteq 1..listed /\ snapshot \in BOOLEAN
    /\ \A i \in Ingestions : ingestion[i].klines \subseteq 1..listed
    /\ \A r \in Readers : /\ reader[r].pc \in {"idle", "reading", "ingesting",
                                               "market", "demo"}
                          /\ reader[r].signals \subseteq candles

(* Signals are never computed across a hole: the candles they read follow   *)
(* each other, and there are as many as were asked for or the exchange      *)
(* lists, in whatever order ingestions of different candles are stored, as  *)
(* long as none of them asks for fewer candles than the reader.             *)
SignalsSeeNoHole ==
    \A r \in Readers : reader[r].signals # {} =>
      LET last == CHOOSE c \in reader[r].signals : \A d \in reader[r].signals : d <= c
      IN  reader[r].signals = {c \in 1..last : c > last - Limit}

(* A plan is built on demo signals only when a call failed or the exchange  *)
(* lists too few candles: not because another task stored candles and       *)
(* snapshot between the reader's two requests.                              *)
DemoOnlyWithoutData ==
    \A r \in Readers : reader[r].pc = "demo" /\ ~reader[r].failed =>
      reader[r].from \in 1..Needed - 1
=============================================================================
