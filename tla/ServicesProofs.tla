--------------------------- MODULE ServicesProofs ---------------------------
(***************************************************************************)
(* The invariants of the services of MCServices: the stream of prices, the *)
(* placement of protection orders, the access to the backtests, the        *)
(* candles behind the signals and the documentation sync.  Each is proved  *)
(* for the specification that composes them, from an inductive invariant   *)
(* of its own part, which the steps of the others leave alone.  So are the *)
(* types of every part, and that the placement and the confirmation of an  *)
(* entry are, seen from the core, the steps of EntryExecution.             *)
(***************************************************************************)
EXTENDS MCServices, FiniteSetTheorems, WellFoundedInduction, TLAPS

-----------------------------------------------------------------------------
(* What is stored of an entry order is never ahead of the exchange, for    *)
(* orders of any quantity and readings that lag in any way.                *)

USE ConfirmationAssumption

\* An order as it was reported claims no end and no execution the order does
\* not have by now, and some execution when its status says so.
Claim(r) ==
    /\ r \in Order
    /\ r.status \in Ended => r.status = real.status
    /\ r.qty <= real.qty
    /\ r.qty = Requested => r.status = "filled"
    /\ r.status \in {"partially_filled", "filled"} => r.qty > 0

\* The order's history leads to what the order is, and the exchange keeps its
\* records consistent.
HistInv ==
    /\ hist \in Seq(Order)
    /\ Len(hist) > 0
    /\ Consistent(real)
    /\ \A i \in DOMAIN hist : Claim(hist[i])

\* The handler's records, taken from that history.
RecordInv ==
    /\ Claim(ack)
    /\ Claim(merged)
    /\ traded \in Nat /\ traded <= real.qty
    /\ stored \in [status : Status \cup {"none"}, qty : 0 .. Requested]
    /\ stored.status \in Terminal => stored.status = real.status
    /\ stored.qty > real.qty => merged.status = "new" /\ merged.qty = 0
    /\ step \in {"send", "confirm", "trades", "store"} =>
         stored = [status |-> "none", qty |-> 0]
    /\ step \in {"send", "confirm", "trades", "store", "done"}

CInv == HistInv /\ RecordInv

-----------------------------------------------------------------------------
LEMMA RealOrder == ASSUME HistInv PROVE real \in Order
BY DEF HistInv, real

\* A payload claims no more than the order it reports.
LEMMA ReportClaims ==
    ASSUME HistInv, NEW i \in DOMAIN hist, NEW r \in Reports(hist[i])
    PROVE  Claim(r)
<1>1. hist[i] \in Order /\ Claim(hist[i])
  BY DEF HistInv
<1>2. r \in Order /\ r.status = hist[i].status /\ r.qty = hist[i].qty
  BY <1>1 DEF Reports, Order
<1> QED BY <1>1, <1>2 DEF Claim

\* Merging two claims makes no new one.
LEMMA MergeClaims ==
    ASSUME HistInv, NEW o, NEW r, Claim(o), Claim(r)
    PROVE  Claim(Merge(o, r))
<1>1. o \in Order /\ r \in Order
  BY DEF Claim
<1>2. PICK m : m = Merge(o, r)
  OBVIOUS
<1>3. /\ m \in Order
      /\ m.status \in {o.status, r.status}
      /\ m.qty \in {o.qty, r.qty}
      /\ m.qty >= o.qty \/ m.qty = r.qty
      /\ r.qty > 0 => m.qty = r.qty
      /\ o.qty > 0 => m.qty > 0
  BY <1>1, <1>2 DEF Merge, Order, PreferNumber
<1>4. o.status = "filled" \/ r.status = "filled" => m.status = "filled"
  BY <1>1, <1>2 DEF Merge, PreferStatus, Rank, Order, Status, Terminal, Negative
<1>5. m.qty = Requested => m.status = "filled"
  BY <1>3, <1>4 DEF Claim
<1> QED BY <1>1, <1>2, <1>3, <1>5 DEF Claim, Order

\* The order goes on: what was claimed of it still holds.
LEMMA ProgressClaims ==
    ASSUME HistInv, Progress, NEW r, Claim(r)
    PROVE  Claim(r)' /\ real'.qty >= real.qty /\ real.status \notin Ended
<1>1. PICK o \in Order :
        /\ Consistent(o)
        /\ o.qty >= real.qty
        /\ hist' = Append(hist, o)
  BY RealOrder DEF Progress, Order
<1>2. real' = o
  BY <1>1 DEF HistInv, real
<1>3. real.status \notin Ended
  BY DEF Progress
<1> QED BY <1>1, <1>2, <1>3, RealOrder DEF Claim, Order

LEMMA ProgressHist == ASSUME HistInv, Progress PROVE HistInv'
<1>1. PICK o \in Order :
        /\ Consistent(o)
        /\ hist' = Append(hist, o)
  BY DEF Progress
<1>2. real' = o /\ hist' \in Seq(Order) /\ Len(hist') = Len(hist) + 1
  BY <1>1 DEF HistInv, real
<1>3. ASSUME NEW i \in DOMAIN hist' PROVE Claim(hist[i])'
  <2>1. CASE i \in DOMAIN hist
    <3>1. PICK r \in Order : r = hist[i] /\ Claim(r)
      BY <2>1 DEF HistInv
    <3>2. hist'[i] = r
      BY <1>1, <2>1, <3>1 DEF HistInv
    <3>3. Claim(r)'
      BY <3>1, ProgressClaims
    <3> QED BY <3>2, <3>3 DEF Claim
  <2>2. CASE i \notin DOMAIN hist
    <3>1. hist'[i] = o
      BY <1>1, <1>2, <2>2 DEF HistInv
    <3> QED BY <1>1, <1>2, <3>1 DEF Claim, Consistent, Order
  <2> QED BY <2>1, <2>2
<1>4. Consistent(real)'
  BY <1>1, <1>2 DEF Consistent
<1> QED BY <1>2, <1>3, <1>4 DEF HistInv

-----------------------------------------------------------------------------
\* The steps of the handler leave the order alone.
LEMMA SameHist ==
    ASSUME HistInv, UNCHANGED hist
    PROVE  HistInv' /\ real' = real /\ \A r \in Order : Claim(r)' <=> Claim(r)
BY DEF HistInv, real, Claim, Consistent

LEMMA InitC == Init => CInv
<1> SUFFICES ASSUME Init PROVE CInv
  OBVIOUS
<1>1. NewOrder \in Order /\ Consistent(NewOrder)
  BY DEF NewOrder, Order, Status, Consistent, Terminal, Negative
<1>2. /\ hist = <<NewOrder>> /\ hist \in Seq(Order) /\ Len(hist) = 1
      /\ real = NewOrder
  BY <1>1 DEF Init, real
<1>3. Claim(NewOrder)
  BY <1>1, <1>2 DEF Claim, NewOrder, Consistent, Order, Terminal, Negative
<1>4. HistInv
  BY <1>1, <1>2, <1>3 DEF HistInv
<1>5. RecordInv
  BY <1>1, <1>2, <1>3 DEF RecordInv, Init, NewOrder, Terminal, Negative, Status
<1> QED BY <1>4, <1>5 DEF CInv

\* What the next steps of the handler may change of its records.
LEMMA AnsweredC == ASSUME CInv, Answered PROVE CInv'
<1>1. HistInv /\ RecordInv
  BY DEF CInv
<1>2. PICK i \in DOMAIN hist : ack' \in Reports(hist[i])
  BY <1>1 DEF Answered, Readable, HistInv
<1>3. PICK r \in Reports(hist[i]) : ack' = r
  BY <1>2
<1>4. Claim(r)
  BY <1>1, <1>3, ReportClaims
<1>5. HistInv' /\ real' = real /\ \A o \in Order : Claim(o)' <=> Claim(o)
  BY <1>1, SameHist DEF Answered
<1>6. Claim(ack)' /\ Claim(merged)'
  BY <1>1, <1>3, <1>4, <1>5 DEF Answered, RecordInv, Claim
<1> QED BY <1>1, <1>5, <1>6 DEF Answered, RecordInv, CInv

LEMMA UnconfirmedC == ASSUME CInv, Unconfirmed PROVE CInv'
<1>1. HistInv /\ RecordInv
  BY DEF CInv
<1>2. HistInv' /\ real' = real /\ \A o \in Order : Claim(o)' <=> Claim(o)
  BY <1>1, SameHist DEF Unconfirmed
<1>3. Claim(ack)' /\ Claim(merged)'
  BY <1>1, <1>2 DEF Unconfirmed, RecordInv, Claim
<1>4. /\ stored' = stored
      /\ ~ (stored.qty > real'.qty)
      /\ stored.status \notin Terminal
  BY <1>1, <1>2, RealOrder DEF Unconfirmed, RecordInv, Order, Terminal, Negative
<1> QED BY <1>1, <1>2, <1>3, <1>4 DEF Unconfirmed, RecordInv, CInv

LEMMA RefreshedC == ASSUME CInv, Refreshed PROVE CInv'
<1>1. HistInv /\ RecordInv
  BY DEF CInv
<1>a. PICK i \in DOMAIN hist :
        \E report \in Reports(hist[i]) : merged' = Merge(ack, report)
  BY <1>1 DEF Refreshed, Readable, HistInv
<1>2. PICK r \in Reports(hist[i]) : merged' = Merge(ack, r)
  BY <1>a
<1>3. PICK o : o = Merge(ack, r)
  OBVIOUS
<1>4. Claim(o)
  BY <1>1, <1>3, ReportClaims, MergeClaims DEF RecordInv
<1>5. HistInv' /\ real' = real /\ \A p \in Order : Claim(p)' <=> Claim(p)
  BY <1>1, SameHist DEF Refreshed
<1>6. Claim(ack)' /\ Claim(merged)'
  BY <1>1, <1>2, <1>3, <1>4, <1>5 DEF Refreshed, RecordInv, Claim
<1>7. /\ stored' = stored
      /\ ~ (stored.qty > real'.qty)
      /\ stored.status \notin Terminal
  BY <1>1, <1>5, RealOrder DEF Refreshed, RecordInv, Order, Terminal, Negative
<1> QED BY <1>1, <1>5, <1>6, <1>7 DEF Refreshed, RecordInv, CInv

LEMMA TradesReadC == ASSUME CInv, TradesRead PROVE CInv'
<1>1. HistInv /\ RecordInv
  BY DEF CInv
<1>2. traded' \in Nat /\ traded' <= real.qty
  <2>1. CASE traded' = 0
    BY <1>1, <2>1, RealOrder DEF Order
  <2>2. CASE traded' # 0
    <3>1. PICK i \in DOMAIN hist : traded' = hist[i].qty
      BY <1>1, <2>2 DEF TradesRead, Readable, HistInv
    <3>2. Claim(hist[i])
      BY <1>1 DEF HistInv
    <3> QED BY <3>1, <3>2 DEF Claim, Order
  <2> QED BY <2>1, <2>2
<1>3. HistInv' /\ real' = real /\ \A o \in Order : Claim(o)' <=> Claim(o)
  BY <1>1, SameHist DEF TradesRead
<1>4. Claim(ack)' /\ Claim(merged)'
  BY <1>1, <1>3 DEF TradesRead, RecordInv, Claim
<1> QED BY <1>1, <1>2, <1>3, <1>4 DEF TradesRead, RecordInv, CInv

\* Whatever was known of the order, what is stored of it is not ahead of it.
LEMMA StoreC == ASSUME CInv, Store PROVE CInv'
<1>1. HistInv /\ RecordInv
  BY DEF CInv
<1>2. HistInv' /\ real' = real /\ \A o \in Order : Claim(o)' <=> Claim(o)
  BY <1>1, SameHist DEF Store
<1>3. Claim(ack)' /\ Claim(merged)' /\ merged' = merged
  BY <1>1, <1>2 DEF Store, RecordInv, Claim
<1> DEFINE executed == IF traded > 0 THEN traded ELSE merged.qty
           status   == NormalizedStatus(merged.status, executed)
           amount   == AssumedQty(status, executed)
<1>4. real \in Order /\ Consistent(real)
  BY <1>1, RealOrder DEF HistInv
<1>5. /\ executed \in Nat /\ executed <= real.qty
      /\ executed = 0 => merged.qty = 0
  BY <1>1, <1>4 DEF RecordInv, Claim, Order
<1>6. /\ status \in Status
      /\ status \in Terminal => status = real.status
      /\ executed = 0 => status = merged.status
  <2>1. CASE executed <= 0 \/ merged.status \in {"filled", "partially_filled"}
    BY <1>1, <2>1 DEF NormalizedStatus, RecordInv, Claim, Order, Ended
  <2>2. CASE /\ executed > 0 /\ executed < Requested
             /\ merged.status \notin {"filled", "partially_filled"}
    BY <1>5, <2>2 DEF NormalizedStatus, Status, Terminal, Negative
  <2>3. CASE /\ executed >= Requested
             /\ merged.status \notin {"filled", "partially_filled"}
    <3>1. real.qty = Requested
      BY <1>4, <1>5, <2>3 DEF Order
    <3>2. real.status = "filled"
      BY <1>4, <3>1 DEF Consistent
    <3> QED BY <1>5, <2>3, <3>2 DEF NormalizedStatus, Status, Terminal
  <2> QED BY <1>5, <2>1, <2>2, <2>3
<1>7. /\ amount \in 0 .. Requested
      /\ amount > real.qty => merged.status = "new" /\ merged.qty = 0
  <2>1. CASE executed > 0
    BY <1>4, <1>5, <2>1 DEF AssumedQty, Order
  <2>2. CASE executed = 0
    BY <1>1, <1>4, <1>5, <1>6, <2>2 DEF AssumedQty, RecordInv, Claim, Order
  <2> QED BY <1>5, <2>1, <2>2
<1>8. stored' = [status |-> status, qty |-> amount]
  BY DEF Store
<1> HIDE DEF executed, status, amount
<1>9. /\ stored' \in [status : Status \cup {"none"}, qty : 0 .. Requested]
      /\ stored'.status = status /\ stored'.qty = amount
  BY <1>6, <1>7, <1>8
<1> QED BY <1>1, <1>2, <1>3, <1>6, <1>7, <1>9 DEF Store, RecordInv, CInv

\* The order going on makes nothing wrong that was right of it.
LEMMA ProgressC == ASSUME CInv, Progress PROVE CInv'
<1>1. HistInv /\ RecordInv
  BY DEF CInv
<1>2. HistInv'
  BY <1>1, ProgressHist
<1>3. real'.qty >= real.qty /\ real.status \notin Terminal
  BY <1>1, ProgressClaims DEF RecordInv, Ended
<1>4. UNCHANGED <<step, lagging, ack, merged, ackAt, readAt, traded, stored>>
  BY DEF Progress
<1>5. Claim(ack)'
  <2>1. PICK r : r = ack
    OBVIOUS
  <2> QED BY <1>1, <1>4, <2>1, ProgressClaims DEF RecordInv, Claim
<1>6. Claim(merged)'
  <2>1. PICK r : r = merged
    OBVIOUS
  <2> QED BY <1>1, <1>4, <2>1, ProgressClaims DEF RecordInv, Claim
<1>7. real \in Order /\ real' \in Order
  BY <1>1, <1>2, RealOrder DEF HistInv, real
<1>8. traded' \in Nat /\ traded' <= real'.qty
  BY <1>1, <1>3, <1>4, <1>7 DEF RecordInv, Order
<1>9. /\ stored'.status \in Terminal => stored'.status = real'.status
      /\ stored'.qty > real'.qty => merged'.status = "new" /\ merged'.qty = 0
  BY <1>1, <1>3, <1>4, <1>7 DEF RecordInv, Order
<1> QED BY <1>1, <1>2, <1>4, <1>5, <1>6, <1>8, <1>9 DEF RecordInv, CInv

LEMMA StutterC == ASSUME CInv, UNCHANGED vars PROVE CInv'
BY DEF CInv, HistInv, RecordInv, Claim, Consistent, real, vars

-----------------------------------------------------------------------------
\* An answer, a reading, a list of fills, what is stored of them: none claims
\* of the order what has not become of it, whatever they were mixed from.
THEOREM ClaimsHold == Spec => []CInv
<1>1. Init => CInv
  BY InitC
<1>2. ASSUME CInv, [Next]_vars PROVE CInv'
  BY <1>2, AnsweredC, UnconfirmedC, RefreshedC, TradesReadC, StoreC, ProgressC,
     StutterC DEF Next
<1> QED BY <1>1, <1>2, PTL DEF Spec

\* The status stored is never ahead of the exchange (StoredNeverAhead), for an
\* order of any quantity and any readings.
THEOREM StoredStatusIsReal == Spec => []StoredNeverAhead
<1>1. CInv => StoredNeverAhead
  BY DEF CInv, RecordInv, StoredNeverAhead
<1> QED BY <1>1, ClaimsHold, PTL

\* A position exceeds what the exchange executed only when the order was only
\* known to be new (NoPhantomPosition).
THEOREM PositionIsReal == Spec => []NoPhantomPosition
<1>1. CInv => NoPhantomPosition
  BY DEF CInv, RecordInv, NoPhantomPosition
<1> QED BY <1>1, ClaimsHold, PTL

-----------------------------------------------------------------------------
\* What a later state of an order may be: quantities grow, and a status that
\* has changed was one that does change.
Follows(o, p) ==
    /\ o.qty <= p.qty
    /\ o.status # p.status =>
         o.status \in {"new", "partially_filled"} /\ p.status # "new"

Ordered == \A i, j \in DOMAIN hist : i <= j => Follows(hist[i], hist[j])

\* Which reading each record comes from, and what was made of the two.
SourceInv ==
    /\ step \in {"send", "confirm"} => readAt = 0
    /\ ackAt \in Nat /\ readAt \in Nat
    /\ step = "send" => ackAt = 0
    /\ step # "send" =>
         /\ ackAt \in DOMAIN hist
         /\ ack.status = hist[ackAt].status
         /\ ack.qty = hist[ackAt].qty
    /\ readAt > 0 => readAt \in DOMAIN hist /\ step # "send"
    /\ MergeKeepsLatest

SInv == CInv /\ Ordered /\ SourceInv

LEMMA InitS == Init => SInv
<1> SUFFICES ASSUME Init PROVE SInv
  OBVIOUS
<1>1. hist = <<NewOrder>> /\ NewOrder.qty <= NewOrder.qty
  BY DEF Init, NewOrder
<1>2. Ordered
  BY <1>1 DEF Ordered, Follows
<1>3. SourceInv
  BY DEF Init, SourceInv, MergeKeepsLatest
<1> QED BY <1>2, <1>3, InitC DEF SInv

\* Two readings of an order merge into the later one.
LEMMA MergeLater ==
    ASSUME NEW o \in Order, NEW p \in Order,
           NEW a \in Order, a.status = o.status, a.qty = o.qty,
           NEW r \in Order, r.status = p.status, r.qty = p.qty
    PROVE  /\ Follows(o, p) =>
                /\ p.status # "odd" => Merge(a, r).status = p.status
                /\ Merge(a, r).qty = p.qty
           /\ Follows(p, o) =>
                (o.status # "odd" => Merge(a, r).status = o.status)
BY DEF Merge, Follows, Order, Status, Terminal, Negative, PreferStatus,
       PreferNumber, Rank

LEMMA AnsweredS == ASSUME SInv, Answered PROVE SInv'
<1>1. PICK i \in DOMAIN hist : ackAt' = i /\ ack' \in Reports(hist[i])
  BY DEF SInv, CInv, Answered, Readable, HistInv
<1>2. hist[i] \in Order
  BY DEF SInv, CInv, HistInv
<1>3. ack'.status = hist[i].status /\ ack'.qty = hist[i].qty
  BY <1>1, <1>2 DEF Reports, Order
<1>4. i \in Nat
  BY DEF SInv, CInv, HistInv
<1>5. SourceInv'
  BY <1>1, <1>3, <1>4 DEF SInv, SourceInv, Answered, MergeKeepsLatest
<1>6. Ordered'
  BY DEF SInv, Ordered, Answered
<1> QED BY <1>5, <1>6, AnsweredC DEF SInv

LEMMA UnconfirmedS == ASSUME SInv, Unconfirmed PROVE SInv'
<1>1. SourceInv'
  BY DEF SInv, SourceInv, Unconfirmed, MergeKeepsLatest
<1>2. Ordered'
  BY DEF SInv, Ordered, Unconfirmed
<1> QED BY <1>1, <1>2, UnconfirmedC DEF SInv

LEMMA RefreshedS == ASSUME SInv, Refreshed PROVE SInv'
<1>1. PICK i \in DOMAIN hist :
        /\ readAt' = i
        /\ \E report \in Reports(hist[i]) : merged' = Merge(ack, report)
  BY DEF SInv, CInv, Refreshed, Readable, HistInv
<1>2. PICK r \in Reports(hist[i]) : merged' = Merge(ack, r)
  BY <1>1
<1>3. /\ ackAt \in DOMAIN hist /\ ackAt \in Nat /\ i \in Nat
      /\ hist[ackAt] \in Order /\ hist[i] \in Order
      /\ ack.status = hist[ackAt].status /\ ack.qty = hist[ackAt].qty
      /\ ack \in Order
  BY DEF SInv, CInv, HistInv, RecordInv, Claim, SourceInv, Refreshed
<1>4. r \in Order /\ r.status = hist[i].status /\ r.qty = hist[i].qty
  BY <1>3 DEF Reports, Order
<1>5. /\ ackAt <= i => Follows(hist[ackAt], hist[i])
      /\ i <= ackAt => Follows(hist[i], hist[ackAt])
  BY <1>3 DEF SInv, Ordered
<1>6. UNCHANGED <<hist, lagging, ack, ackAt>>
  BY DEF Refreshed
<1>7. /\ Follows(hist[ackAt], hist[i]) =>
           /\ hist[i].status # "odd" => merged'.status = hist[i].status
           /\ merged'.qty = hist[i].qty
      /\ Follows(hist[i], hist[ackAt]) =>
           (hist[ackAt].status # "odd" => merged'.status = hist[ackAt].status)
  BY <1>2, <1>3, <1>4, MergeLater
<1>8. MergeKeepsLatest'
  <2>1. CASE ackAt < i
    BY <1>1, <1>3, <1>5, <1>6, <1>7, <2>1 DEF MergeKeepsLatest
  <2>2. CASE ackAt = i
    BY <1>1, <1>3, <1>5, <1>6, <1>7, <2>2 DEF MergeKeepsLatest
  <2>3. CASE i < ackAt
    BY <1>1, <1>3, <1>5, <1>6, <1>7, <2>3 DEF MergeKeepsLatest
  <2> QED BY <1>3, <2>1, <2>2, <2>3
<1>9. SourceInv'
  BY <1>1, <1>3, <1>6, <1>8 DEF SourceInv, Refreshed
<1>10. Ordered'
  BY <1>6 DEF SInv, Ordered
<1> QED BY <1>9, <1>10, RefreshedC DEF SInv

LEMMA TradesReadS == ASSUME SInv, TradesRead PROVE SInv'
<1>1. SourceInv'
  BY DEF SInv, SourceInv, TradesRead, MergeKeepsLatest
<1>2. Ordered'
  BY DEF SInv, Ordered, TradesRead
<1> QED BY <1>1, <1>2, TradesReadC DEF SInv

LEMMA StoreS == ASSUME SInv, Store PROVE SInv'
<1>1. SourceInv'
  BY DEF SInv, SourceInv, Store, MergeKeepsLatest
<1>2. Ordered'
  BY DEF SInv, Ordered, Store
<1> QED BY <1>1, <1>2, StoreC DEF SInv

LEMMA ProgressS == ASSUME SInv, Progress PROVE SInv'
<1>1. PICK o \in Order :
        /\ Consistent(o)
        /\ IF o.status \in {"partially_filled", "filled"}
           THEN o.qty > real.qty
           ELSE o.qty = real.qty /\ o.status # "new"
        /\ hist' = Append(hist, o)
  BY DEF Progress
<1>2. /\ hist \in Seq(Order) /\ Len(hist) \in Nat \ {0}
      /\ real = hist[Len(hist)] /\ real \in Order
      /\ real.status \notin Ended
  BY RealOrder DEF SInv, CInv, HistInv, real, Progress
<1>3. Follows(real, o)
  BY <1>1, <1>2 DEF Follows, Order, Status, Ended, Terminal, Negative
<1>4. /\ DOMAIN hist' = DOMAIN hist \cup {Len(hist) + 1}
      /\ \A i \in DOMAIN hist : hist'[i] = hist[i] /\ i <= Len(hist) /\ i \in Nat
      /\ hist'[Len(hist) + 1] = o
  BY <1>1, <1>2
<1>5. ASSUME NEW i \in DOMAIN hist', NEW j \in DOMAIN hist', i <= j
      PROVE  Follows(hist'[i], hist'[j])
  <2>1. CASE j \in DOMAIN hist
    <3>1. i \in DOMAIN hist
      BY <1>2, <1>4, <1>5, <2>1
    <3> QED BY <1>4, <1>5, <2>1, <3>1 DEF SInv, Ordered
  <2>2. CASE j = Len(hist) + 1 /\ i \in DOMAIN hist
    <3>1. Follows(hist[i], real)
      BY <1>2, <1>4, <2>2 DEF SInv, Ordered
    <3>2. hist[i] \in Order
      BY <1>2, <2>2
    <3>3. Follows(hist[i], o)
      BY <1>2, <1>3, <3>1, <3>2 DEF Follows, Order, Ended
    <3> QED BY <1>4, <2>2, <3>3
  <2>3. CASE j = Len(hist) + 1 /\ i = Len(hist) + 1
    BY <1>4, <2>3 DEF Follows, Order
  <2> QED BY <1>4, <2>1, <2>2, <2>3
<1>6. Ordered'
  BY <1>5 DEF Ordered
<1>7. UNCHANGED <<step, lagging, ack, merged, ackAt, readAt, traded, stored>>
  BY DEF Progress
<1>8. SourceInv'
  <2>1. MergeKeepsLatest'
    <3> SUFFICES ASSUME readAt > 0 PROVE MergeKeepsLatest'
      BY <1>7 DEF MergeKeepsLatest
    <3>1. ackAt \in DOMAIN hist /\ readAt \in DOMAIN hist
      BY DEF SInv, SourceInv
    <3>2. hist'[ackAt] = hist[ackAt] /\ hist'[readAt] = hist[readAt]
      BY <1>4, <3>1
    <3> QED BY <1>7, <3>2 DEF SInv, SourceInv, MergeKeepsLatest
  <2> QED BY <1>4, <1>7, <2>1 DEF SInv, SourceInv
<1> QED BY <1>6, <1>8, ProgressC DEF SInv

LEMMA StutterS == ASSUME SInv, UNCHANGED vars PROVE SInv'
<1>1. CInv'
  BY StutterC DEF SInv
<1>2. Ordered' /\ SourceInv'
  BY DEF SInv, Ordered, SourceInv, MergeKeepsLatest, vars
<1> QED BY <1>1, <1>2 DEF SInv

\* Two readings, whichever lags, merge into the later (MergeKeepsLatest).
THEOREM MergeIsLatest == Spec => []MergeKeepsLatest
<1>1. Init => SInv
  BY InitS
<1>2. ASSUME SInv, [Next]_vars PROVE SInv'
  BY <1>2, AnsweredS, UnconfirmedS, RefreshedS, TradesReadS, StoreS, ProgressS,
     StutterS DEF Next
<1>3. SInv => MergeKeepsLatest
  BY DEF SInv, SourceInv
<1> QED BY <1>1, <1>2, <1>3, PTL DEF Spec

-----------------------------------------------------------------------------
(* The other services, beside each other.                                  *)

\* A step is one of one part, and the others stay.
LEMMA PartsStep ==
  ASSUME [ServicesNext]_allVars
  PROVE  /\ Stream!Next \/ UNCHANGED streamVars
         /\ Placement!Next \/ UNCHANGED placementVars
         /\ Access!Next \/ UNCHANGED accessVars
         /\ Market!Next \/ UNCHANGED marketVars
  BY DEF ServicesNext, allVars

\* Every part starts as it does alone.
LEMMA PartsStart ==
  ASSUME ServicesInit
  PROVE  Stream!Init /\ Placement!Init /\ Access!Init /\ Market!Init
  BY DEF ServicesInit, StreamRests, PlacementRests
-----------------------------------------------------------------------------
(* The stream of prices. *)

\* The flag, the controller and the sleep agree.
StreamInv ==
  /\ closed \in BOOLEAN /\ misuse = FALSE
  /\ controller = "readable" <=> closed = FALSE
  /\ woken = closed
  /\ loop = "ended" => closed = TRUE

LEMMA StreamStart ==
  ASSUME Stream!Init
  PROVE  StreamInv
  BY DEF Stream!Init, StreamInv

LEMMA StreamStep ==
  ASSUME StreamInv, Stream!Next
  PROVE  StreamInv'
  <1>1. ASSUME Stream!SafeClose
        PROVE  closed' = TRUE /\ woken' = TRUE /\ misuse' = FALSE /\ controller' # "readable"
    <2>1. CASE closed = TRUE
      BY <1>1, <2>1 DEF StreamInv, Stream!SafeClose
    <2>2. CASE closed = FALSE
      BY <1>1, <2>2 DEF StreamInv, Stream!SafeClose, Stream!CloseStream
    <2>3. QED
      BY <2>1, <2>2 DEF StreamInv
  <1>2. ASSUME Stream!Send
        PROVE  UNCHANGED <<closed, woken, misuse, controller>>
    <2>1. CASE closed = TRUE
      BY <1>2, <2>1 DEF StreamInv, Stream!Send
    <2>2. CASE closed = FALSE
      BY <1>2, <2>2 DEF StreamInv, Stream!Send
    <2>3. QED
      BY <2>1, <2>2 DEF StreamInv
  <1>3. CASE Stream!FetchEnds \/ Stream!FetchFails
    <2>1. Stream!SafeClose \/ Stream!Send
      BY <1>3 DEF Stream!FetchEnds, Stream!FetchFails
    <2>2. loop' = IF closed' THEN "ended" ELSE "sleep"
      BY <1>3 DEF Stream!FetchEnds, Stream!FetchFails, Stream!AfterFetch
    <2>3. QED
      BY <1>1, <1>2, <2>1, <2>2 DEF StreamInv
  <1>4. CASE Stream!SleepEnds
    BY <1>4 DEF Stream!SleepEnds, StreamInv
  <1>5. CASE Stream!SleepAborted \/ Stream!Abort
    BY <1>1, <1>5 DEF Stream!SleepAborted, Stream!Abort, StreamInv
  <1>6. CASE Stream!Cancel
    BY <1>6 DEF Stream!Cancel, Stream!CloseStream, StreamInv
  <1>7. QED
    BY <1>3, <1>4, <1>5, <1>6 DEF Stream!Next, Stream!LoopStep

\* Whatever the order in which the request is aborted, the consumer cancels
\* and a fetch or a sleep ends: safeClose closes the controller once, nothing
\* is enqueued afterwards, and the loop leaves no stream open behind it.
THEOREM StreamClosesOnce == ServicesSpec => []ClosedOnce
  <1>1. ServicesInit => StreamInv
    BY PartsStart, StreamStart
  <1>2. StreamInv /\ [ServicesNext]_allVars => StreamInv'
    <2> SUFFICES ASSUME StreamInv, [ServicesNext]_allVars PROVE StreamInv'
      OBVIOUS
    <2>1. CASE Stream!Next
      BY <2>1, StreamStep
    <2>2. CASE UNCHANGED streamVars
      BY <2>2 DEF streamVars, StreamInv
    <2>3. QED
      BY <2>1, <2>2, PartsStep
  <1>3. StreamInv => ClosedOnce
    BY DEF StreamInv, ClosedOnce, Stream!ClosedOnce
  <1>4. QED
    BY <1>1, <1>2, <1>3, PTL DEF ServicesSpec
-----------------------------------------------------------------------------
(* The placement of protection orders. *)

\* Only orders of S are live without having strayed.
Strays(S) == \A k \in Placement!Key \ S : book[k] = "live" => k \in strayed

AlgoStop   == <<"algo", "stop">>
LegacyStop == <<"legacy", "stop">>

\* What is live at each call of a client with algo orders.
PlacementInv ==
  /\ book \in [Placement!Key -> {"absent", "live", "ended", "canceled"}]
  /\ hasAlgo \in BOOLEAN
  /\ hasAlgo = TRUE =>
       /\ place \notin {"only stop", "only tp"}
       /\ place \in {"algo stop", "algo tp"} => usedAlgo = TRUE
       /\ place \in {"algo stop", "legacy stop", "bare"} => Strays({})
       /\ place = "algo tp" => Strays({AlgoStop}) /\ AlgoStop \in refs
       /\ place = "clean algo" => Strays(refs \cap {AlgoStop})
       /\ place = "legacy tp" => Strays({LegacyStop}) /\ LegacyStop \in refs
       /\ place = "clean legacy" => Strays(refs \cap {LegacyStop})
       /\ place = "record" => Strays({<<Placement!Kind, "stop">>, <<Placement!Kind, "tp">>})
       /\ place = "protected" => Strays(rows)

LEMMA PlacementStart ==
  ASSUME Placement!Init
  PROVE  PlacementInv
  BY DEF Placement!Init, PlacementInv, Strays

\* A request that raised leaves what strays among the strays.
LEMMA RaiseStrays ==
  ASSUME NEW k \in Placement!Key, NEW S, Strays(S), Placement!Raise(k),
         book \in [Placement!Key -> {"absent", "live", "ended", "canceled"}]
  PROVE  /\ Strays(S)' /\ refs' = refs
         /\ book' \in [Placement!Key -> {"absent", "live", "ended", "canceled"}]
  BY DEF Placement!Raise, Strays

\* One that was answered adds its order to those known.
LEMMA AcceptStrays ==
  ASSUME NEW k \in Placement!Key, NEW S, Strays(S), Placement!Accept(k),
         book \in [Placement!Key -> {"absent", "live", "ended", "canceled"}]
  PROVE  /\ Strays(S \cup {k})' /\ refs' = refs \cup {k}
         /\ book' \in [Placement!Key -> {"absent", "live", "ended", "canceled"}]
  BY DEF Placement!Accept, Strays

\* A cancellation, answered or not, accounts for its order.
LEMMA CancelStrays ==
  ASSUME NEW k \in Placement!Key, NEW S, Strays(S \cup {k}), Placement!Cancel(k),
         book \in [Placement!Key -> {"absent", "live", "ended", "canceled"}]
  PROVE  /\ Strays(S)'
         /\ book' \in [Placement!Key -> {"absent", "live", "ended", "canceled"}]
  BY DEF Placement!Cancel, Strays

LEMMA PlacementKeys ==
  /\ \A kind \in {"algo", "legacy"} : \A side \in {"stop", "tp"} : <<kind, side>> \in Placement!Key
  /\ AlgoStop = <<"algo", "stop">> /\ LegacyStop = <<"legacy", "stop">>
  BY DEF Placement!Key, AlgoStop, LegacyStop

LEMMA PlacementStep ==
  ASSUME PlacementInv, Placement!Next
  PROVE  PlacementInv'
  <1>1. /\ book \in [Placement!Key -> {"absent", "live", "ended", "canceled"}]
        /\ hasAlgo \in BOOLEAN
        /\ hasAlgo' = hasAlgo
    BY DEF PlacementInv, Placement!Next, Placement!PlaceAlgoStop, Placement!PlaceAlgoTp,
           Placement!CleanAlgo, Placement!PlaceLegacyStop, Placement!PlaceLegacyTp,
           Placement!CleanLegacy, Placement!PlaceOnlyStop, Placement!PlaceOnlyTp,
           Placement!Record, Placement!Settle, Placement!Try
  <1>2. CASE Placement!PlaceAlgoStop
    <2>1. place = "algo stop" /\ usedAlgo' = usedAlgo
      BY <1>2 DEF Placement!PlaceAlgoStop, Placement!Try
    <2>2. CASE Placement!Accept(AlgoStop) /\ place' = "algo tp"
      BY <1>1, <2>1, <2>2, AcceptStrays, PlacementKeys DEF PlacementInv, Strays
    <2>3. CASE Placement!Raise(AlgoStop) /\ place' = "clean algo"
      BY <1>1, <2>1, <2>3, RaiseStrays, PlacementKeys DEF PlacementInv, Strays
    <2>4. \/ Placement!Accept(AlgoStop) /\ place' = "algo tp"
          \/ Placement!Raise(AlgoStop) /\ place' = "clean algo"
      BY <1>2, Zenon DEF Placement!PlaceAlgoStop, Placement!Try, AlgoStop
    <2> QED BY <2>2, <2>3, <2>4
  <1>3. CASE Placement!PlaceAlgoTp
    <2> DEFINE k == <<"algo", "tp">>
    <2>1. place = "algo tp" /\ usedAlgo' = usedAlgo
      BY <1>3 DEF Placement!PlaceAlgoTp, Placement!Try
    <2>2. CASE Placement!Accept(k) /\ place' = "record"
      <3>1. hasAlgo = TRUE => Strays({AlgoStop} \cup {k})' /\ usedAlgo' = TRUE
        BY <1>1, <2>1, <2>2, AcceptStrays, PlacementKeys DEF PlacementInv
      <3>2. book' \in [Placement!Key -> {"absent", "live", "ended", "canceled"}]
        BY <1>1, <2>2, PlacementKeys DEF Placement!Accept
      <3>3. QED
        BY <1>1, <2>2, <3>1, <3>2 DEF PlacementInv, Strays, Placement!Kind, AlgoStop
    <2>3. CASE Placement!Raise(k) /\ place' = "clean algo"
      <3>1. hasAlgo = TRUE => Strays({AlgoStop})' /\ AlgoStop \in refs'
        BY <1>1, <2>1, <2>3, RaiseStrays, PlacementKeys DEF PlacementInv
      <3>2. hasAlgo = TRUE => refs' \cap {AlgoStop} = {AlgoStop}
        BY <3>1
      <3>3. book' \in [Placement!Key -> {"absent", "live", "ended", "canceled"}]
        BY <1>1, <2>3, PlacementKeys DEF Placement!Raise
      <3>4. QED
        BY <1>1, <2>3, <3>1, <3>2, <3>3 DEF PlacementInv, Strays
    <2>4. QED
      BY <1>3, <2>2, <2>3 DEF Placement!PlaceAlgoTp, Placement!Try
  <1>4. CASE Placement!CleanAlgo
    <2>1. place = "clean algo" /\ place' = "legacy stop"
      BY <1>4 DEF Placement!CleanAlgo
    <2>2. CASE AlgoStop \in refs /\ Placement!Cancel(AlgoStop)
      BY <1>1, <2>1, <2>2, CancelStrays, PlacementKeys DEF PlacementInv, Strays
    <2>3. CASE AlgoStop \notin refs /\ UNCHANGED <<book, strayed>>
      BY <1>1, <2>1, <2>3 DEF PlacementInv, Strays
    <2>4. QED
      BY <1>4, <2>2, <2>3 DEF Placement!CleanAlgo, AlgoStop
  <1>5. CASE Placement!PlaceLegacyStop
    <2>1. place = "legacy stop"
      BY <1>5 DEF Placement!PlaceLegacyStop, Placement!Try
    <2>2. CASE Placement!Accept(LegacyStop) /\ place' = "legacy tp"
      BY <1>1, <2>1, <2>2, AcceptStrays, PlacementKeys DEF PlacementInv, Strays
    <2>3. CASE Placement!Raise(LegacyStop) /\ place' = "clean legacy"
      BY <1>1, <2>1, <2>3, RaiseStrays, PlacementKeys DEF PlacementInv, Strays
    <2>4. QED
      BY <1>5, <2>2, <2>3 DEF Placement!PlaceLegacyStop, Placement!Try, LegacyStop
  <1>6. CASE Placement!PlaceLegacyTp
    <2> DEFINE k == <<"legacy", "tp">>
    <2>1. place = "legacy tp"
      BY <1>6 DEF Placement!PlaceLegacyTp
    <2>2. CASE Placement!Accept(k) /\ place' = "record" /\ usedAlgo' = FALSE
      BY <1>1, <2>1, <2>2, AcceptStrays, PlacementKeys
         DEF PlacementInv, Strays, Placement!Kind, LegacyStop
    <2>3. CASE Placement!Raise(k) /\ place' = "clean legacy"
      <3>1. hasAlgo = TRUE => Strays({LegacyStop})' /\ LegacyStop \in refs'
        BY <1>1, <2>1, <2>3, RaiseStrays, PlacementKeys DEF PlacementInv
      <3>2. hasAlgo = TRUE => refs' \cap {LegacyStop} = {LegacyStop}
        BY <3>1
      <3>3. book' \in [Placement!Key -> {"absent", "live", "ended", "canceled"}]
        BY <1>1, <2>3, PlacementKeys DEF Placement!Raise
      <3>4. QED
        BY <1>1, <2>3, <3>1, <3>2, <3>3 DEF PlacementInv, Strays
    <2>4. QED
      BY <1>6, <2>2, <2>3 DEF Placement!PlaceLegacyTp
  <1>7. CASE Placement!CleanLegacy
    <2>1. place = "clean legacy" /\ place' = "bare"
      BY <1>7 DEF Placement!CleanLegacy
    <2>2. CASE LegacyStop \in refs /\ Placement!Cancel(LegacyStop)
      BY <1>1, <2>1, <2>2, CancelStrays, PlacementKeys DEF PlacementInv, Strays
    <2>3. CASE LegacyStop \notin refs /\ UNCHANGED <<book, strayed>>
      BY <1>1, <2>1, <2>3 DEF PlacementInv, Strays
    <2>4. QED
      BY <1>7, <2>2, <2>3 DEF Placement!CleanLegacy, LegacyStop
  \* A client with algo orders never comes to the last two calls.
  <1>8. CASE Placement!PlaceOnlyStop
    <2>1. hasAlgo = FALSE
      BY <1>1, <1>8 DEF PlacementInv, Placement!PlaceOnlyStop, Placement!Try
    <2>2. book' \in [Placement!Key -> {"absent", "live", "ended", "canceled"}]
      BY <1>1, <1>8, PlacementKeys
         DEF Placement!PlaceOnlyStop, Placement!Try, Placement!Accept, Placement!Raise
    <2>3. QED
      BY <1>1, <2>1, <2>2 DEF PlacementInv
  <1>9. CASE Placement!PlaceOnlyTp
    <2>1. hasAlgo = FALSE
      BY <1>1, <1>9 DEF PlacementInv, Placement!PlaceOnlyTp, Placement!Try
    <2>2. book' \in [Placement!Key -> {"absent", "live", "ended", "canceled"}]
      BY <1>1, <1>9, PlacementKeys
         DEF Placement!PlaceOnlyTp, Placement!Try, Placement!Accept, Placement!Raise
    <2>3. QED
      BY <1>1, <2>1, <2>2 DEF PlacementInv
  <1>10. CASE Placement!Record
    BY <1>1, <1>10 DEF PlacementInv, Strays, Placement!Record
  <1>11. ASSUME NEW k \in Placement!Key, Placement!Settle(k)
         PROVE  PlacementInv'
    <2>1. UNCHANGED <<place, hasAlgo, usedAlgo, refs, rows, strayed>>
      BY <1>11 DEF Placement!Settle
    <2>2. /\ book' \in [Placement!Key -> {"absent", "live", "ended", "canceled"}]
          /\ \A j \in Placement!Key : book'[j] = "live" => book[j] = "live"
      BY <1>1, <1>11 DEF Placement!Settle
    <2>3. QED
      BY <1>1, <2>1, <2>2 DEF PlacementInv, Strays, Placement!Kind
  <1>12. QED
    BY <1>2, <1>3, <1>4, <1>5, <1>6, <1>7, <1>8, <1>9, <1>10, <1>11 DEF Placement!Next

\* With a client that has algo orders, whichever of the calls fail, the
\* procedure ends with no live order that it does not store, but for one
\* whose answer was lost or whose cancellation failed.
THEOREM PlacementCleansUp == ServicesSpec => []OrphansNeedLostAnswers
  <1>1. ServicesInit => PlacementInv
    BY PartsStart, PlacementStart
  <1>2. PlacementInv /\ [ServicesNext]_allVars => PlacementInv'
    <2> SUFFICES ASSUME PlacementInv, [ServicesNext]_allVars PROVE PlacementInv'
      OBVIOUS
    <2>1. CASE Placement!Next
      BY <2>1, PlacementStep
    <2>2. CASE UNCHANGED placementVars
      BY <2>2 DEF placementVars, PlacementInv, Strays, Placement!Kind
    <2>3. QED
      BY <2>1, <2>2, PartsStep
  <1>3. PlacementInv => OrphansNeedLostAnswers
    BY DEF PlacementInv, Strays, OrphansNeedLostAnswers, Placement!OrphansNeedLostAnswers,
           Placement!Finished
  <1>4. QED
    BY <1>1, <1>2, <1>3, PTL DEF ServicesSpec
-----------------------------------------------------------------------------
(* The access to the backtests. *)

\* A waiting request read the clock at most MaxDelay ago.
ReadInv ==
    /\ clock \in Nat
    /\ now \in [Requests -> Nat \cup {Access!Never}]
    /\ \A q \in Requests : Access!Waiting(q) => now[q] <= clock /\ clock - now[q] <= MaxDelay

\* The table holds the latest accepted reading of a key.  A key it does not
\* hold was accepted so long ago that nobody waiting can be too early for it.
TableInv ==
    /\ last \in [Access!Keys -> Nat \cup {Access!Never}]
    /\ accepted \subseteq Requests \X Access!Keys \X Nat
    /\ \A a \in accepted :
         /\ last[a[2]] # Access!Never => a[3] <= last[a[2]]
         /\ last[a[2]] = Access!Never => a[3] + Interval + MaxDelay <= clock

AccessInv == ReadInv /\ TableInv /\ Access!AcceptedApart

LEMMA InitAccess == Access!Init => AccessInv
  BY DEF Access!Init, AccessInv, ReadInv, TableInv, Access!AcceptedApart, Access!Waiting, Access!Never

LEMMA TickAccess ==
    ASSUME Interval \in Nat \ {0}, MaxDelay \in Nat, AccessInv, Access!Tick
    PROVE  AccessInv'
<1>1. ReadInv'
  BY DEF AccessInv, ReadInv, Access!Tick, Access!Waiting, Access!Never
<1>2. TableInv'
  BY DEF AccessInv, ReadInv, TableInv, Access!Tick, Access!Never
<1>3. Access!AcceptedApart'
  BY DEF AccessInv, Access!AcceptedApart, Access!Tick
<1>4. QED
  BY <1>1, <1>2, <1>3 DEF AccessInv

LEMMA ReadClockAccess ==
    ASSUME MaxDelay \in Nat, AccessInv, NEW q \in Requests, Access!ReadClock(q)
    PROVE  AccessInv'
<1>1. ReadInv'
  BY DEF AccessInv, ReadInv, Access!ReadClock, Access!Waiting, Access!Never
<1>2. TableInv' /\ Access!AcceptedApart'
  BY DEF AccessInv, TableInv, Access!AcceptedApart, Access!ReadClock
<1>3. QED
  BY <1>1, <1>2 DEF AccessInv

\* What a request that leaves the lock has done to the table.
LEMMA LockedTable ==
    ASSUME AccessInv, NEW q \in Requests, Access!Locked(q)
    PROVE  /\ now[q] \in Nat /\ now[q] <= clock /\ clock - now[q] <= MaxDelay
           /\ KeyOf[q] \in Access!Keys
           /\ Access!Fresh(now[q]) \in [Access!Keys -> Nat \cup {Access!Never}]
           /\ \A k \in Access!Keys : Access!Fresh(now[q])[k] =
                IF last[k] # Access!Never /\ now[q] - last[k] >= Access!Ttl THEN Access!Never ELSE last[k]
           /\ now' = [now EXCEPT ![q] = Access!Never] /\ clock' = clock
  BY DEF AccessInv, ReadInv, TableInv, Access!Locked, Access!Waiting, Access!Fresh, Access!Keys, Access!Never

\* A reading that is let in is an interval later than every one before it.
LEMMA AdmittedLater ==
    ASSUME Interval \in Nat \ {0}, MaxDelay \in Nat, MaxDelay <= Interval,
           AccessInv, NEW q \in Requests, Access!Locked(q),
           ~(/\ Access!Fresh(now[q])[KeyOf[q]] # Access!Never
             /\ now[q] - Access!Fresh(now[q])[KeyOf[q]] < Interval),
           NEW a \in accepted, a[2] = KeyOf[q]
    PROVE  now[q] - a[3] >= Interval
<1> DEFINE t == now[q]
           k == KeyOf[q]
<1>1. /\ t \in Nat /\ t <= clock /\ clock - t <= MaxDelay /\ k \in Access!Keys
      /\ Access!Fresh(t)[k] = IF last[k] # Access!Never /\ t - last[k] >= Access!Ttl THEN Access!Never ELSE last[k]
  BY LockedTable
<1>2. /\ clock \in Nat /\ last[k] \in Nat \cup {Access!Never} /\ a[3] \in Nat
      /\ last[k] # Access!Never => a[3] <= last[k]
      /\ last[k] = Access!Never => a[3] + Interval + MaxDelay <= clock
  BY <1>1 DEF AccessInv, ReadInv, TableInv
<1>3. ~(Access!Fresh(t)[k] # Access!Never /\ t - Access!Fresh(t)[k] < Interval)
  OBVIOUS
<1> HIDE DEF t, k
<1>4. t - a[3] >= Interval
  BY <1>1, <1>2, <1>3 DEF Access!Ttl, Access!Never
<1>5. QED
  BY <1>4 DEF t

LEMMA LockedAccess ==
    ASSUME Interval \in Nat \ {0}, MaxDelay \in Nat, MaxDelay <= Interval,
           AccessInv, NEW q \in Requests, Access!Locked(q)
    PROVE  AccessInv'
<1> DEFINE t == now[q]
           k == KeyOf[q]
           table == Access!Fresh(t)
           refused == table[k] # Access!Never /\ t - table[k] < Interval
<1>1. /\ t \in Nat /\ t <= clock /\ clock - t <= MaxDelay /\ k \in Access!Keys
      /\ table \in [Access!Keys -> Nat \cup {Access!Never}]
      /\ \A j \in Access!Keys : table[j] =
           IF last[j] # Access!Never /\ t - last[j] >= Access!Ttl THEN Access!Never ELSE last[j]
      /\ now' = [now EXCEPT ![q] = Access!Never] /\ clock' = clock
  BY LockedTable
<1>2. IF refused THEN last' = table /\ accepted' = accepted
      ELSE last' = [table EXCEPT ![k] = t] /\ accepted' = accepted \cup {<<q, k, t>>}
  BY DEF Access!Locked
<1>3. ReadInv'
  BY <1>1 DEF AccessInv, ReadInv, Access!Waiting, Access!Never
<1>4. clock \in Nat /\ last \in [Access!Keys -> Nat \cup {Access!Never}]
      /\ accepted \subseteq Requests \X Access!Keys \X Nat
  BY DEF AccessInv, ReadInv, TableInv
<1>5. \A a \in accepted : /\ a[2] \in Access!Keys /\ a[3] \in Nat
                          /\ last[a[2]] # Access!Never => a[3] <= last[a[2]]
                          /\ last[a[2]] = Access!Never => a[3] + Interval + MaxDelay <= clock
  BY <1>4 DEF AccessInv, TableInv
<1>6. ~refused => \A a \in accepted : a[2] = k => t - a[3] >= Interval
  BY AdmittedLater
<1> HIDE DEF t, k, table, refused
\* What the table forgets is old enough for everyone still waiting.
<1>7. \A a \in accepted :
        /\ table[a[2]] # Access!Never => a[3] <= table[a[2]]
        /\ table[a[2]] = Access!Never => a[3] + Interval + MaxDelay <= clock
  <2> TAKE a \in accepted
  <2>1. CASE last[a[2]] # Access!Never /\ t - last[a[2]] >= Access!Ttl
    BY <1>1, <1>4, <1>5, <2>1 DEF Access!Ttl, Access!Never
  <2>2. CASE ~(last[a[2]] # Access!Never /\ t - last[a[2]] >= Access!Ttl)
    BY <1>1, <1>5, <2>2
  <2>3. QED
    BY <2>1, <2>2
<1>8. CASE refused
  <2>1. TableInv'
    BY <1>1, <1>2, <1>4, <1>7, <1>8 DEF TableInv
  <2>2. Access!AcceptedApart'
    BY <1>2, <1>8 DEF AccessInv, Access!AcceptedApart
  <2>3. QED
    BY <1>3, <2>1, <2>2 DEF AccessInv
<1>9. CASE ~refused
  <2>1. last' = [table EXCEPT ![k] = t] /\ accepted' = accepted \cup {<<q, k, t>>}
    BY <1>2, <1>9
  <2>2. TableInv'
    <3>1. accepted' \subseteq Requests \X Access!Keys \X Nat
      BY <1>1, <1>4, <2>1
    <3>2. last' \in [Access!Keys -> Nat \cup {Access!Never}]
      BY <1>1, <2>1
    <3>3. ASSUME NEW a \in accepted'
          PROVE  /\ last'[a[2]] # Access!Never => a[3] <= last'[a[2]]
                 /\ last'[a[2]] = Access!Never => a[3] + Interval + MaxDelay <= clock'
      <4>1. CASE a = <<q, k, t>>
        BY <1>1, <2>1, <4>1 DEF Access!Never
      <4>2. CASE a \in accepted /\ a[2] = k
        <5>1. last'[a[2]] = t /\ t \in Nat /\ a[3] \in Nat /\ t - a[3] >= Interval
          BY <1>1, <1>5, <1>6, <1>9, <2>1, <4>2
        <5>2. QED
          BY <5>1 DEF Access!Never
      <4>3. CASE a \in accepted /\ a[2] # k
        <5>1. last'[a[2]] = table[a[2]]
          BY <1>1, <1>5, <2>1, <4>3
        <5>2. QED
          BY <1>1, <1>7, <4>3, <5>1
      <4>4. QED
        BY <2>1, <4>1, <4>2, <4>3
    <3>4. QED
      BY <3>1, <3>2, <3>3 DEF TableInv
  <2>3. Access!AcceptedApart'
    <3>1. \A a, b \in accepted : a # b /\ a[2] = b[2] =>
            a[3] - b[3] >= Interval \/ b[3] - a[3] >= Interval
      BY DEF AccessInv, Access!AcceptedApart
    <3>2. \A a \in accepted : a[2] = k => t - a[3] >= Interval
      BY <1>6, <1>9
    <3>3. QED
      BY <2>1, <3>1, <3>2 DEF Access!AcceptedApart
  <2>4. QED
    BY <1>3, <2>2, <2>3 DEF AccessInv
<1>10. QED
  BY <1>8, <1>9

\* Two backtests of one key are accepted an interval apart by the clock they
\* read, although they come to the lock in any order and expire each other's
\* keys, if no thread waits longer than an interval for the lock.
THEOREM BacktestsApart ==
    ASSUME Interval \in Nat \ {0}, MaxDelay \in Nat, MaxDelay <= Interval
    PROVE  ServicesSpec => []AcceptedApart
<1>1. ServicesInit => AccessInv
  BY PartsStart, InitAccess
<1>2. AccessInv /\ [ServicesNext]_allVars => AccessInv'
  <2> SUFFICES ASSUME AccessInv, [ServicesNext]_allVars PROVE AccessInv'
    OBVIOUS
  <2>1. CASE Access!Tick
    BY <2>1, TickAccess
  <2>2. CASE \E q \in Requests : Access!ReadClock(q) \/ Access!Locked(q)
    BY <2>2, ReadClockAccess, LockedAccess
  <2>3. CASE UNCHANGED accessVars
    BY <2>3 DEF accessVars, AccessInv, ReadInv, TableInv, Access!AcceptedApart, Access!Waiting
  <2>4. QED
    BY <2>1, <2>2, <2>3, PartsStep DEF Access!Next
<1>3. AccessInv => AcceptedApart
  BY DEF AccessInv, AcceptedApart
<1>4. QED
  BY <1>1, <1>2, <1>3, PTL DEF ServicesSpec
-----------------------------------------------------------------------------
(* The candles behind the signals. *)

\* The last n of the candles up to m.
Window(m, n) == {c \in 1..m : c > m - n}

\* The candles stored up to the last one lack none that a reader asks for.
Gapless(S) == S = {} \/ \E m \in S : (\A c \in S : c <= m) /\ Window(m, Limit) \subseteq S

Asked == SUBSET {"signals", "price"}
Task == [pc : {"idle", "asking", "storing", "stored", "failed"}, klines : SUBSET Nat]
Reading == [pc : {"idle", "reading", "ingesting", "market", "demo"}, round : {1, 2},
            signals : SUBSET Nat, asked : Asked, price : BOOLEAN, from : Nat,
            failed : BOOLEAN]

\* What a reader knows of candles up to `top', of which `kept' are in the
\* table: a read is a window, and after its own ingestion the reader sees at
\* least what that ingestion stored.
ReaderInv(s, t, top, kept, priced) ==
  /\ s.signals = {} \/ \E m \in 1..top : s.signals = Window(m, Limit)
  /\ t.pc \in {"storing", "stored"} => s.from \in 1..top
  /\ t.pc = "storing" => Window(s.from, Limit) \subseteq t.klines
  /\ t.pc = "stored" => Window(s.from, Limit) \subseteq kept /\ priced = TRUE
  /\ s.round = 2 => t.pc = "stored"
  /\ s.round = 2 /\ s.pc = "reading" =>
       /\ "signals" \notin s.asked /\ Needed <= s.from => Needed <= Cardinality(s.signals)
       /\ "price" \notin s.asked => s.price = TRUE
  /\ s.pc = "demo" /\ s.failed = FALSE => s.round = 2 /\ s.from < Needed

MarketInv ==
  /\ listed \in Nat \ {0} /\ snapshot \in BOOLEAN
  /\ candles \subseteq 1..listed /\ Gapless(candles)
  /\ ingestion \in [Market!Ingestions -> Task]
  /\ \A i \in Market!Ingestions : ingestion[i].pc = "storing" =>
       \E m \in 1..listed : ingestion[i].klines = Window(m, Market!IngestLimit(i))
  /\ reader \in [Readers -> Reading]
  /\ \A r \in Readers : ReaderInv(reader[r], ingestion[r], listed, candles, snapshot)

\* No ingestion asks for fewer candles than a reader, and a reader asks for
\* as many as its indicators need.
MarketSizes ==
  /\ Limit \in Nat \ {0}
  /\ BackfillLimit \in Nat /\ Limit <= BackfillLimit
  /\ Needed \in Nat /\ Needed <= Limit

LEMMA WindowSize ==
  ASSUME NEW m \in Nat, NEW n \in Nat
  PROVE  /\ IsFiniteSet(Window(m, n))
         /\ n <= m => Cardinality(Window(m, n)) = n
  <1>1. Window(m, n) \subseteq 1..m /\ IsFiniteSet(1..m)
    BY FS_Interval DEF Window
  <1>2. IsFiniteSet(Window(m, n))
    BY <1>1, FS_Subset
  <1>3. ASSUME n <= m
        PROVE  Cardinality(Window(m, n)) = n
    <2>1. Window(m, n) = (m - n + 1)..m
      BY <1>3 DEF Window
    <2>2. Cardinality((m - n + 1)..m) = IF m - n + 1 > m THEN 0 ELSE m - (m - n + 1) + 1
      BY FS_Interval
    <2>3. QED
      BY <2>1, <2>2
  <1>4. QED
    BY <1>2, <1>3

\* MarketData counts as this module does.
LEMMA SameCount == ASSUME NEW S PROVE Market!Cardinality(S) = Cardinality(S)
  BY Zenon DEF Market!Cardinality, Cardinality

\* The newest n of a set that lacks none of the last n are those.
LEMMA NewestOfGapless ==
  ASSUME NEW m \in Nat \ {0}, NEW n \in Nat, NEW S \in SUBSET (1..m),
         Window(m, n) \subseteq S
  PROVE  Market!Newest(S, n) = Window(m, n)
  <1>1. IsFiniteSet(1..m)
    BY FS_Interval
  <1>2. ASSUME NEW c \in S
        PROVE  Cardinality({d \in S : d > c}) < n <=> c > m - n
    <2> DEFINE Above == {d \in S : d > c}
    <2>1. /\ c \in Nat /\ c >= 1 /\ c <= m
          /\ IsFiniteSet(Above) /\ Cardinality(Above) \in Nat
      <3>1. c \in 1..m
        OBVIOUS
      <3>2. Above \in SUBSET (1..m)
        OBVIOUS
      <3>3. IsFiniteSet(Above) /\ Cardinality(Above) \in Nat
        BY <1>1, <3>2, FS_Subset, FS_CardinalityType
      <3>4. QED
        BY <3>1, <3>3
    <2>2. CASE c > m - n
      <3>1. Above \in SUBSET ((c + 1)..m)
        <4>1. ASSUME NEW d \in Above
              PROVE  d \in (c + 1)..m
          <5>1. d \in 1..m /\ d > c
            OBVIOUS
          <5>2. QED
            BY <2>1, <5>1
        <4>2. QED
          BY <4>1
      <3>2. IsFiniteSet((c + 1)..m) /\ Cardinality((c + 1)..m) = m - c
        <4>1. Cardinality((c + 1)..m) = IF c + 1 > m THEN 0 ELSE m - (c + 1) + 1
          BY <2>1, FS_Interval
        <4>2. QED
          BY <2>1, <4>1, FS_Interval
      <3>3. Cardinality(Above) <= m - c
        BY <3>1, <3>2, FS_Subset
      <3>4. QED
        BY <2>1, <2>2, <3>3
    <2>3. CASE c <= m - n
      <3>1. Window(m, n) \subseteq Above
        BY <2>1, <2>3 DEF Window
      <3>2. Cardinality(Window(m, n)) = n
        BY <2>1, <2>3, WindowSize
      <3>3. Cardinality(Window(m, n)) <= Cardinality(Above)
        BY <2>1, <3>1, FS_Subset
      <3>4. QED
        BY <2>1, <2>3, <3>2, <3>3
    <2>4. QED
      BY <2>1, <2>2, <2>3
  <1>3. \A c \in S : c \in Market!Newest(S, n) <=> c > m - n
    <2> TAKE c \in S
    <2> DEFINE Above(x) == {d \in S : d > x}
    <2>1. Market!Newest(S, n) = {x \in S : Market!Cardinality(Above(x)) < n}
      BY DEF Market!Newest
    <2>2. Market!Cardinality(Above(c)) < n <=> c > m - n
      BY <1>2, SameCount
    <2> HIDE DEF Above
    <2>3. QED
      BY <2>1, <2>2
  <1>4. Market!Newest(S, n) \subseteq S
    BY DEF Market!Newest
  <1>5. \A c : c \in Window(m, n) <=> c \in S /\ c > m - n
    BY DEF Window
  <1>6. QED
    BY <1>3, <1>4, <1>5

\* What an ingestion brings leaves no hole, and neither does a longer one.
LEMMA GaplessGrows ==
  ASSUME NEW S \in SUBSET Nat, Gapless(S), NEW m \in Nat \ {0}, NEW n \in Nat,
         Limit \in Nat \ {0}, Limit <= n
  PROVE  Gapless(S \cup Window(m, n))
  <1>1. /\ m \in Window(m, n) /\ Window(m, Limit) \subseteq Window(m, n)
        /\ \A c \in Window(m, n) : c <= m /\ c \in Nat
    BY DEF Window
  <1>2. CASE \A c \in S : c <= m
    BY <1>1, <1>2 DEF Gapless
  <1>3. CASE \E c \in S : ~(c <= m)
    <2>1. PICK k \in S : (\A c \in S : c <= k) /\ Window(k, Limit) \subseteq S
      BY <1>3 DEF Gapless
    <2>2. m <= k
      BY <1>3, <2>1
    <2>3. QED
      BY <1>1, <2>1, <2>2 DEF Gapless
  <1>4. QED
    BY <1>2, <1>3

\* What is read of the candles is a window, up to the last of them.
LEMMA ReadIsWindow ==
  ASSUME Limit \in Nat \ {0}, candles \subseteq 1..listed, listed \in Nat \ {0},
         Gapless(candles), candles # {}
  PROVE  \E m \in candles : /\ \A c \in candles : c <= m
                            /\ Market!Newest(candles, Limit) = Window(m, Limit)
  <1>1. PICK m \in candles : (\A c \in candles : c <= m) /\ Window(m, Limit) \subseteq candles
    BY DEF Gapless
  <1>2. m \in Nat \ {0} /\ candles \in SUBSET (1..m)
    BY <1>1
  <1>3. Market!Newest(candles, Limit) = Window(m, Limit)
    BY <1>1, <1>2, NewestOfGapless
  <1>4. QED
    BY <1>1, <1>3

LEMMA MarketStart ==
  ASSUME Market!Init
  PROVE  MarketInv
  <1>1. /\ listed = 1 /\ candles = {} /\ snapshot = FALSE
        /\ ingestion = [i \in Market!Ingestions |-> Market!NoTask]
        /\ reader = [r \in Readers |-> Market!NewReader]
    BY DEF Market!Init
  <1>2. Market!NoTask \in Task /\ Market!NoTask.pc = "idle"
    BY DEF Market!NoTask, Task
  <1>3. /\ Market!NewReader \in Reading /\ Market!NewReader.signals = {}
        /\ Market!NewReader.round = 1 /\ Market!NewReader.pc = "idle"
    BY DEF Market!NewReader, Reading, Asked
  <1>4. Readers \subseteq Market!Ingestions
    BY DEF Market!Ingestions
  <1>5. \A r \in Readers : ReaderInv(reader[r], ingestion[r], listed, candles, snapshot)
    BY <1>1, <1>2, <1>3, <1>4 DEF ReaderInv
  <1>6. /\ ingestion \in [Market!Ingestions -> Task] /\ reader \in [Readers -> Reading]
        /\ \A i \in Market!Ingestions : ingestion[i].pc = "idle"
    BY <1>1, <1>2, <1>3
  <1>7. listed \in Nat \ {0} /\ candles \subseteq 1..listed /\ Gapless(candles)
    BY <1>1 DEF Gapless
  <1>8. snapshot \in BOOLEAN
    BY <1>1
  <1>9. QED
    BY <1>5, <1>6, <1>7, <1>8 DEF MarketInv

\* A reader's knowledge survives what the others add.
LEMMA ReaderGrows ==
  ASSUME NEW s, NEW t, NEW n \in Nat, NEW m \in Nat, n <= m,
         NEW S, NEW T, S \subseteq T, NEW p, NEW q, p = TRUE => q = TRUE,
         ReaderInv(s, t, n, S, p)
  PROVE  ReaderInv(s, t, m, T, q)
  <1>1. 1..n \subseteq 1..m
    OBVIOUS
  <1>2. QED
    BY <1>1 DEF ReaderInv

LEMMA CandleMarket ==
  ASSUME MarketInv, Market!NextCandle
  PROVE  MarketInv'
  <1>1. /\ listed' = listed + 1 /\ listed \in Nat \ {0}
        /\ UNCHANGED <<candles, snapshot, ingestion, reader>>
    BY DEF MarketInv, Market!NextCandle
  <1>2. ASSUME NEW r \in Readers
        PROVE  ReaderInv(reader[r], ingestion[r], listed', candles, snapshot)
    <2>1. /\ ReaderInv(reader[r], ingestion[r], listed, candles, snapshot)
          /\ snapshot \in BOOLEAN /\ listed \in Nat /\ listed' \in Nat /\ listed <= listed'
      BY <1>1 DEF MarketInv
    <2>2. QED
      BY <2>1, ReaderGrows
  <1>3. 1..listed \subseteq 1..listed'
    BY <1>1
  <1>4. \A i \in Market!Ingestions : ingestion[i].pc = "storing" =>
          \E m \in 1..listed' : ingestion[i].klines = Window(m, Market!IngestLimit(i))
    BY <1>3 DEF MarketInv
  <1>5. /\ Gapless(candles) /\ snapshot \in BOOLEAN /\ ingestion \in [Market!Ingestions -> Task]
        /\ reader \in [Readers -> Reading]
        /\ listed' \in Nat \ {0} /\ candles \subseteq 1..listed'
    BY <1>1, <1>3 DEF MarketInv
  <1>6. QED
    BY <1>1, <1>2, <1>4, <1>5 DEF MarketInv

LEMMA Limits ==
  ASSUME MarketSizes, NEW i
  PROVE  Market!IngestLimit(i) \in Nat /\ Limit <= Market!IngestLimit(i)
  BY DEF MarketSizes, Market!IngestLimit

\* One task takes a step, and nothing is stored.
LEMMA TaskMarket ==
  ASSUME MarketInv, NEW i \in Market!Ingestions, NEW t \in Task, t.pc # "storing",
         ingestion' = [ingestion EXCEPT ![i] = t],
         UNCHANGED <<listed, candles, snapshot, reader>>,
         i \in Readers => ReaderInv(reader[i], t, listed, candles, snapshot)
  PROVE  MarketInv'
  <1>1. /\ ingestion' \in [Market!Ingestions -> Task]
        /\ \A j \in Market!Ingestions : ingestion'[j] = IF j = i THEN t ELSE ingestion[j]
    BY DEF MarketInv
  <1>2. Readers \subseteq Market!Ingestions
    BY DEF Market!Ingestions
  <1>3. \A r \in Readers : ReaderInv(reader[r], ingestion'[r], listed, candles, snapshot)
    BY <1>1, <1>2 DEF MarketInv
  <1>4. \A j \in Market!Ingestions : ingestion'[j].pc = "storing" =>
          \E m \in 1..listed : ingestion'[j].klines = Window(m, Market!IngestLimit(j))
    BY <1>1 DEF MarketInv
  <1>5. QED
    BY <1>1, <1>3, <1>4 DEF MarketInv

LEMMA StartMarket ==
  ASSUME MarketInv, NEW i \in Market!Ingestions, Market!StartBackfill(i)
  PROVE  MarketInv'
  <1>1. /\ ingestion[i].pc = "idle"
        /\ ingestion' = [ingestion EXCEPT ![i] = [ingestion[i] EXCEPT !.pc = "asking"]]
        /\ UNCHANGED <<listed, candles, snapshot, reader>>
    BY DEF Market!StartBackfill
  <1>2. PICK t : t = [ingestion[i] EXCEPT !.pc = "asking"]
    OBVIOUS
  <1>3. ingestion[i] \in Task
    BY DEF MarketInv
  <1>4. t \in Task /\ t.pc = "asking"
    BY <1>2, <1>3 DEF Task
  <1>5. i \in Readers => ReaderInv(reader[i], t, listed, candles, snapshot)
    BY <1>1, <1>4 DEF MarketInv, ReaderInv
  <1>6. QED
    BY <1>1, <1>2, <1>4, <1>5, TaskMarket

LEMMA FailMarket ==
  ASSUME MarketInv, NEW i \in Market!Ingestions, Market!IngestFails(i)
  PROVE  MarketInv'
  <1>1. PICK t : t = [pc |-> "failed", klines |-> {}]
    OBVIOUS
  <1>2. /\ ingestion[i].pc \in {"asking", "storing"}
        /\ ingestion' = [ingestion EXCEPT ![i] = t]
        /\ UNCHANGED <<listed, candles, snapshot, reader>>
    BY <1>1 DEF Market!IngestFails
  <1>3. t \in Task /\ t.pc = "failed"
    BY <1>1 DEF Task
  <1>4. i \in Readers => ReaderInv(reader[i], t, listed, candles, snapshot)
    BY <1>2, <1>3 DEF MarketInv, ReaderInv
  <1>5. QED
    BY <1>2, <1>3, <1>4, TaskMarket

LEMMA GatheredMarket ==
  ASSUME MarketInv, MarketSizes, NEW i \in Market!Ingestions, Market!Gathered(i)
  PROVE  MarketInv'
  <1>1. PICK t : t = [pc |-> "storing", klines |-> Market!Newest(1..listed, Market!IngestLimit(i))]
    OBVIOUS
  <1>2. /\ ingestion[i].pc = "asking"
        /\ ingestion' = [ingestion EXCEPT ![i] = t]
        /\ reader' = IF i \in Readers
                     THEN [reader EXCEPT ![i] = [reader[i] EXCEPT !.from = listed]] ELSE reader
        /\ UNCHANGED <<listed, candles, snapshot>>
    BY <1>1 DEF Market!Gathered
  <1>3. listed \in Nat \ {0} /\ Market!IngestLimit(i) \in Nat /\ Limit <= Market!IngestLimit(i)
    BY Limits DEF MarketInv
  <1>4. t.klines = Window(listed, Market!IngestLimit(i)) /\ t.pc = "storing"
    BY <1>1, <1>3, NewestOfGapless DEF Window
  <1>5. t \in Task /\ Window(listed, Limit) \subseteq t.klines /\ listed \in 1..listed
    <2>1. Window(listed, Market!IngestLimit(i)) \in SUBSET Nat
      BY DEF Window
    <2>2. t \in Task
      BY <1>1, <1>4, <2>1 DEF Task
    <2>3. Limit \in Nat
      BY DEF MarketSizes
    <2>4. Window(listed, Limit) \subseteq Window(listed, Market!IngestLimit(i))
      BY <1>3, <2>3 DEF Window
    <2>5. QED
      BY <1>3, <1>4, <2>2, <2>4
  <1>6. /\ ingestion' \in [Market!Ingestions -> Task]
        /\ \A j \in Market!Ingestions : ingestion'[j] = IF j = i THEN t ELSE ingestion[j]
    BY <1>2, <1>5 DEF MarketInv
  <1>7. \A j \in Market!Ingestions : ingestion'[j].pc = "storing" =>
          \E m \in 1..listed : ingestion'[j].klines = Window(m, Market!IngestLimit(j))
    BY <1>4, <1>5, <1>6 DEF MarketInv
  <1>8. reader' \in [Readers -> Reading]
        /\ \A r \in Readers : ReaderInv(reader'[r], ingestion'[r], listed, candles, snapshot)
    <2>1. CASE i \in Readers
      <3>1. PICK s : s = [reader[i] EXCEPT !.from = listed]
        OBVIOUS
      <3>2. reader[i] \in Reading /\ ReaderInv(reader[i], ingestion[i], listed, candles, snapshot)
        BY <2>1 DEF MarketInv
      <3>3. /\ s \in Reading /\ s.from = listed /\ s.pc = reader[i].pc
            /\ s.signals = reader[i].signals /\ s.round = reader[i].round
            /\ s.failed = reader[i].failed
        BY <1>3, <3>1, <3>2 DEF Reading
      <3>4. ReaderInv(s, t, listed, candles, snapshot)
        BY <1>2, <1>4, <1>5, <3>2, <3>3 DEF ReaderInv
      <3>5. /\ reader' \in [Readers -> Reading]
            /\ \A r \in Readers : reader'[r] = IF r = i THEN s ELSE reader[r]
        BY <1>2, <2>1, <3>1, <3>3 DEF MarketInv
      <3>6. Readers \subseteq Market!Ingestions
        BY DEF Market!Ingestions
      <3>7. QED
        BY <1>6, <3>4, <3>5, <3>6 DEF MarketInv
    <2>2. CASE i \notin Readers
      <3>1. Readers \subseteq Market!Ingestions
        BY DEF Market!Ingestions
      <3>2. QED
        BY <1>2, <1>6, <2>2, <3>1 DEF MarketInv
    <2>3. QED
      BY <2>1, <2>2
  <1>9. QED
    BY <1>2, <1>6, <1>7, <1>8 DEF MarketInv

LEMMA StoreMarket ==
  ASSUME MarketInv, MarketSizes, NEW i \in Market!Ingestions, Market!Store(i)
  PROVE  MarketInv'
  <1>1. PICK t : t = [pc |-> "stored", klines |-> {}]
    OBVIOUS
  <1>2. /\ ingestion[i].pc = "storing"
        /\ candles' = candles \cup ingestion[i].klines /\ snapshot' = TRUE
        /\ ingestion' = [ingestion EXCEPT ![i] = t]
        /\ UNCHANGED <<listed, reader>>
    BY <1>1 DEF Market!Store
  <1>3. t \in Task /\ t.pc = "stored"
    BY <1>1 DEF Task
  <1>4. /\ ingestion' \in [Market!Ingestions -> Task]
        /\ \A j \in Market!Ingestions : ingestion'[j] = IF j = i THEN t ELSE ingestion[j]
    BY <1>2, <1>3 DEF MarketInv
  <1>5. \A j \in Market!Ingestions : ingestion'[j].pc = "storing" =>
          \E m \in 1..listed : ingestion'[j].klines = Window(m, Market!IngestLimit(j))
    BY <1>3, <1>4 DEF MarketInv
  <1>6. candles' \subseteq 1..listed /\ Gapless(candles')
    <2>1. PICK m \in 1..listed : ingestion[i].klines = Window(m, Market!IngestLimit(i))
      BY <1>2 DEF MarketInv
    <2>2. Window(m, Market!IngestLimit(i)) \subseteq 1..listed /\ m \in Nat \ {0}
      BY <2>1 DEF Window, MarketInv
    <2>3. /\ candles \in SUBSET Nat /\ Gapless(candles) /\ candles \subseteq 1..listed
          /\ Limit \in Nat \ {0}
      BY DEF MarketInv, MarketSizes
    <2>4. Gapless(candles \cup Window(m, Market!IngestLimit(i)))
      BY <2>2, <2>3, Limits, GaplessGrows
    <2>5. QED
      BY <1>2, <2>1, <2>2, <2>3, <2>4
  <1>7. ASSUME NEW r \in Readers
        PROVE  ReaderInv(reader[r], ingestion'[r], listed, candles', TRUE)
    <2>1. /\ r \in Market!Ingestions
          /\ ReaderInv(reader[r], ingestion[r], listed, candles, snapshot)
      BY DEF MarketInv, Market!Ingestions
    <2>2. CASE r = i
      <3>1. ingestion'[r] = t
        BY <1>4, <2>1, <2>2
      <3>2. QED
        BY <1>2, <1>3, <2>1, <2>2, <3>1 DEF ReaderInv
    <2>3. CASE r # i
      BY <1>2, <1>4, <2>1, <2>3 DEF ReaderInv
    <2>4. QED
      BY <2>2, <2>3
  <1>8. QED
    BY <1>2, <1>4, <1>5, <1>6, <1>7 DEF MarketInv

\* One reader takes a step, and the rest stays.
LEMMA OneReaderMarket ==
  ASSUME MarketInv, NEW r \in Readers, NEW s \in Reading,
         reader' = [reader EXCEPT ![r] = s],
         UNCHANGED <<listed, candles, snapshot, ingestion>>,
         ReaderInv(s, ingestion[r], listed, candles, snapshot)
  PROVE  MarketInv'
  <1>1. /\ reader' \in [Readers -> Reading]
        /\ \A q \in Readers : reader'[q] = IF q = r THEN s ELSE reader[q]
    BY DEF MarketInv
  <1>2. \A q \in Readers : ReaderInv(reader'[q], ingestion[q], listed, candles, snapshot)
    BY <1>1 DEF MarketInv
  <1>3. QED
    BY <1>1, <1>2 DEF MarketInv

\* What its next step finds a reader to be.
LEMMA ReaderNow ==
  ASSUME MarketInv, NEW r \in Readers
  PROVE  /\ reader[r] \in Reading
         /\ ReaderInv(reader[r], ingestion[r], listed, candles, snapshot)
  BY DEF MarketInv

LEMMA BeginMarket ==
  ASSUME MarketInv, NEW r \in Readers, Market!Begin(r)
  PROVE  MarketInv'
  <1>1. PICK s : s = [reader[r] EXCEPT !.pc = "reading", !.asked = {"signals", "price"}]
    OBVIOUS
  <1>2. /\ reader' = [reader EXCEPT ![r] = s]
        /\ UNCHANGED <<listed, candles, snapshot, ingestion>>
    BY <1>1 DEF Market!Begin
  <1>3. {"signals", "price"} \in Asked
    BY DEF Asked
  <1>4. /\ s \in Reading /\ s.pc = "reading" /\ s.asked = {"signals", "price"}
        /\ s.signals = reader[r].signals /\ s.from = reader[r].from /\ s.round = reader[r].round
    BY <1>1, <1>3, ReaderNow DEF Reading
  <1>5. "signals" \in s.asked /\ "price" \in s.asked
    BY <1>4
  <1>6. ReaderInv(reader[r], ingestion[r], listed, candles, snapshot)
    BY ReaderNow
  <1>7. ReaderInv(s, ingestion[r], listed, candles, snapshot)
    BY <1>4, <1>5, <1>6 DEF ReaderInv
  <1>8. QED
    BY <1>2, <1>4, <1>7, OneReaderMarket

\* In its second round a reader finds what its own ingestion stored.
LEMMA SignalsMarket ==
  ASSUME MarketInv, MarketSizes, NEW r \in Readers, Market!SignalsAnswered(r)
  PROVE  MarketInv'
  <1>1. PICK read : read = Market!Newest(candles, Limit)
    OBVIOUS
  <1>2. PICK s : s = [reader[r] EXCEPT !.asked = reader[r].asked \ {"signals"}, !.signals = read]
    OBVIOUS
  <1>3. /\ reader[r].pc = "reading"
        /\ reader' = [reader EXCEPT ![r] = s]
        /\ UNCHANGED <<listed, candles, snapshot, ingestion>>
    BY <1>1, <1>2 DEF Market!SignalsAnswered
  <1>4. /\ reader[r] \in Reading
        /\ ReaderInv(reader[r], ingestion[r], listed, candles, snapshot)
    BY ReaderNow
  <1>5. /\ listed \in Nat \ {0} /\ candles \subseteq 1..listed /\ Gapless(candles)
        /\ Limit \in Nat \ {0} /\ Needed \in Nat /\ Needed <= Limit
    BY DEF MarketInv, MarketSizes
  <1>6. /\ read = {} \/ \E m \in 1..listed : read = Window(m, Limit)
        /\ read \subseteq candles
    <2>1. read \subseteq candles
      BY <1>1 DEF Market!Newest
    <2>2. CASE candles = {}
      BY <2>1, <2>2
    <2>3. CASE candles # {}
      <3>1. PICK m \in candles : Market!Newest(candles, Limit) = Window(m, Limit)
        BY <1>5, <2>3, ReadIsWindow
      <3>2. QED
        BY <1>1, <1>5, <2>1, <3>1
    <2>4. QED
      BY <2>2, <2>3, <2>1
  <1>7. ASSUME reader[r].round = 2, Needed <= reader[r].from
        PROVE  Needed <= Cardinality(read)
    <2>1. reader[r].from \in 1..listed /\ Window(reader[r].from, Limit) \subseteq candles
      BY <1>4, <1>7 DEF ReaderInv
    <2>2. reader[r].from \in candles
      BY <1>5, <2>1 DEF Window
    <2>3. PICK m \in candles : /\ \A c \in candles : c <= m
                               /\ Market!Newest(candles, Limit) = Window(m, Limit)
      BY <1>5, <2>2, ReadIsWindow
    <2>4. m \in Nat /\ Needed <= m
      BY <1>5, <1>7, <2>1, <2>2, <2>3
    <2>5. Window(m, Needed) \subseteq Window(m, Limit)
      BY <1>5, <2>4 DEF Window
    <2>6. /\ IsFiniteSet(Window(m, Limit)) /\ Cardinality(Window(m, Needed)) = Needed
          /\ Cardinality(Window(m, Needed)) <= Cardinality(Window(m, Limit))
      BY <1>5, <2>4, <2>5, WindowSize, FS_Subset
    <2>7. QED
      BY <1>1, <2>3, <2>6
  <1>8. read \in SUBSET Nat
    BY <1>5, <1>6
  <1>9. /\ s \in Reading /\ s.signals = read /\ s.asked = reader[r].asked \ {"signals"}
        /\ s.pc = reader[r].pc /\ s.from = reader[r].from /\ s.round = reader[r].round
        /\ s.price = reader[r].price /\ s.failed = reader[r].failed
    <2>1. reader[r].asked \in Asked
      BY <1>4 DEF Reading
    <2>2. reader[r].asked \ {"signals"} \in Asked
      BY <2>1 DEF Asked
    <2>3. QED
      BY <1>2, <1>4, <1>8, <2>2 DEF Reading
  <1>10. ReaderInv(s, ingestion[r], listed, candles, snapshot)
    BY <1>3, <1>4, <1>6, <1>7, <1>9 DEF ReaderInv
  <1>11. QED
    BY <1>3, <1>9, <1>10, OneReaderMarket

LEMMA PriceMarket ==
  ASSUME MarketInv, NEW r \in Readers, Market!PriceAnswered(r)
  PROVE  MarketInv'
  <1>1. PICK s : s = [reader[r] EXCEPT !.asked = reader[r].asked \ {"price"}, !.price = snapshot]
    OBVIOUS
  <1>2. /\ reader[r].pc = "reading"
        /\ reader' = [reader EXCEPT ![r] = s]
        /\ UNCHANGED <<listed, candles, snapshot, ingestion>>
    BY <1>1 DEF Market!PriceAnswered
  <1>3. /\ reader[r] \in Reading /\ snapshot \in BOOLEAN
        /\ ReaderInv(reader[r], ingestion[r], listed, candles, snapshot)
    BY ReaderNow DEF MarketInv
  <1>4. /\ s \in Reading /\ s.price = snapshot /\ s.asked = reader[r].asked \ {"price"}
        /\ s.pc = reader[r].pc /\ s.from = reader[r].from /\ s.round = reader[r].round
        /\ s.signals = reader[r].signals /\ s.failed = reader[r].failed
    <2>1. reader[r].asked \in Asked
      BY <1>3 DEF Reading
    <2>2. reader[r].asked \ {"price"} \in Asked
      BY <2>1 DEF Asked
    <2>3. QED
      BY <1>1, <1>3, <2>2 DEF Reading
  <1>5. ReaderInv(s, ingestion[r], listed, candles, snapshot)
    BY <1>2, <1>3, <1>4 DEF ReaderInv
  <1>6. QED
    BY <1>2, <1>4, <1>5, OneReaderMarket

LEMMA AgainMarket ==
  ASSUME MarketInv, NEW r \in Readers, Market!ReadAgain(r)
  PROVE  MarketInv'
  <1>1. PICK s : s = [reader[r] EXCEPT !.pc = "reading", !.round = 2,
                                       !.asked = {"signals", "price"}]
    OBVIOUS
  <1>2. /\ ingestion[r].pc = "stored"
        /\ reader' = [reader EXCEPT ![r] = s]
        /\ UNCHANGED <<listed, candles, snapshot, ingestion>>
    BY <1>1 DEF Market!ReadAgain
  <1>3. {"signals", "price"} \in Asked
    BY DEF Asked
  <1>4. /\ reader[r] \in Reading
        /\ ReaderInv(reader[r], ingestion[r], listed, candles, snapshot)
    BY ReaderNow
  <1>5. /\ s \in Reading /\ s.pc = "reading" /\ s.asked = {"signals", "price"}
        /\ s.signals = reader[r].signals /\ s.from = reader[r].from
    BY <1>1, <1>3, <1>4 DEF Reading
  <1>6. "signals" \in s.asked /\ "price" \in s.asked
    BY <1>5
  <1>7. ReaderInv(s, ingestion[r], listed, candles, snapshot)
    BY <1>2, <1>4, <1>5, <1>6 DEF ReaderInv
  <1>8. QED
    BY <1>2, <1>5, <1>7, OneReaderMarket

LEMMA GiveUpMarket ==
  ASSUME MarketInv, NEW r \in Readers, Market!GiveUp(r)
  PROVE  MarketInv'
  <1>1. PICK s : s = [reader[r] EXCEPT !.pc = "demo", !.failed = TRUE, !.signals = {}]
    OBVIOUS
  <1>2. /\ reader' = [reader EXCEPT ![r] = s]
        /\ UNCHANGED <<listed, candles, snapshot, ingestion>>
    BY <1>1 DEF Market!GiveUp
  <1>3. /\ reader[r] \in Reading
        /\ ReaderInv(reader[r], ingestion[r], listed, candles, snapshot)
    BY ReaderNow
  <1>4. /\ s \in Reading /\ s.pc = "demo" /\ s.failed = TRUE
        /\ s.signals = {} /\ s.from = reader[r].from /\ s.round = reader[r].round
    BY <1>1, <1>3 DEF Reading
  <1>5. ReaderInv(s, ingestion[r], listed, candles, snapshot)
    BY <1>3, <1>4 DEF ReaderInv
  <1>6. QED
    BY <1>2, <1>4, <1>5, OneReaderMarket

\* Candles and a snapshot that the reader's own ingestion stored are usable,
\* unless the exchange listed too few.
LEMMA JudgeMarket ==
  ASSUME MarketInv, MarketSizes, NEW r \in Readers, Market!Judge(r)
  PROVE  MarketInv'
  <1> DEFINE good == Market!Usable(reader[r]) /\ reader[r].price = TRUE
  <1>1. /\ reader[r] \in Reading
        /\ ReaderInv(reader[r], ingestion[r], listed, candles, snapshot)
        /\ reader[r].pc = "reading" /\ reader[r].asked = {}
    BY ReaderNow DEF Market!Judge
  <1>2. CASE reader[r].round = 1 /\ ~good
    <2>1. Market!ShouldIngest(Market!Reason(reader[r]))
      BY <1>1, <1>2 DEF Market!ShouldIngest, Market!Reason, Reading
    <2>2. PICK s : s = [reader[r] EXCEPT !.pc = "ingesting"]
      OBVIOUS
    <2>3. PICK t : t = [ingestion[r] EXCEPT !.pc = "asking"]
      OBVIOUS
    <2>4. /\ reader' = [reader EXCEPT ![r] = s] /\ ingestion' = [ingestion EXCEPT ![r] = t]
          /\ UNCHANGED <<listed, candles, snapshot>>
      BY <1>2, <2>1, <2>2, <2>3 DEF Market!Judge
    <2>5. r \in Market!Ingestions /\ ingestion[r] \in Task
      BY DEF Market!Ingestions, MarketInv
    <2>6. t \in Task /\ t.pc = "asking"
      BY <2>3, <2>5 DEF Task
    <2>7. /\ s \in Reading /\ s.pc = "ingesting"
          /\ s.signals = reader[r].signals /\ s.round = reader[r].round
      BY <1>1, <2>2 DEF Reading
    <2>8. ReaderInv(s, t, listed, candles, snapshot)
      BY <1>1, <1>2, <2>6, <2>7 DEF ReaderInv
    <2>9. /\ ingestion' \in [Market!Ingestions -> Task] /\ reader' \in [Readers -> Reading]
          /\ \A i \in Market!Ingestions : ingestion'[i] = IF i = r THEN t ELSE ingestion[i]
          /\ \A q \in Readers : reader'[q] = IF q = r THEN s ELSE reader[q]
      BY <2>4, <2>6, <2>7 DEF MarketInv
    <2>10. \A q \in Readers : ReaderInv(reader'[q], ingestion'[q], listed, candles, snapshot)
      <3>1. Readers \subseteq Market!Ingestions
        BY DEF Market!Ingestions
      <3>2. QED
        BY <2>8, <2>9, <3>1 DEF MarketInv
    <2>11. \A i \in Market!Ingestions : ingestion'[i].pc = "storing" =>
             \E m \in 1..listed : ingestion'[i].klines = Window(m, Market!IngestLimit(i))
      BY <2>6, <2>9 DEF MarketInv
    <2>12. QED
      BY <2>4, <2>9, <2>10, <2>11 DEF MarketInv
  <1>3. CASE ~(reader[r].round = 1 /\ ~good)
    <2>1. PICK p : p = IF good THEN "market" ELSE "demo"
      OBVIOUS
    <2>2. PICK s : s = [reader[r] EXCEPT !.pc = p]
      OBVIOUS
    <2>3. /\ good <=> Market!Reason(reader[r]) = "ok"
          /\ good => ~Market!ShouldIngest(Market!Reason(reader[r]))
      BY <1>1 DEF Market!ShouldIngest, Market!Reason, Reading
    <2>4. /\ reader' = [reader EXCEPT ![r] = s]
          /\ UNCHANGED <<listed, candles, snapshot, ingestion>>
      BY <1>3, <2>1, <2>2, <2>3 DEF Market!Judge
    <2>5. /\ s \in Reading /\ s.pc = p
          /\ s.signals = reader[r].signals /\ s.round = reader[r].round
          /\ s.from = reader[r].from
      BY <1>1, <2>1, <2>2 DEF Reading
    <2>6. ASSUME ~good
          PROVE  reader[r].round = 2 /\ reader[r].from < Needed
      <3>1. reader[r].round = 2
        BY <1>1, <1>3, <2>6 DEF Reading
      <3>2. "signals" \notin reader[r].asked /\ "price" \notin reader[r].asked
        BY <1>1
      <3>3. reader[r].price = TRUE
        BY <1>1, <3>1, <3>2 DEF ReaderInv
      <3>4. ~(Needed <= Cardinality(reader[r].signals))
        <4>1. ~Market!Usable(reader[r])
          BY <2>6, <3>3
        <4>2. Market!Usable(reader[r]) <=> Market!Cardinality(reader[r].signals) >= Needed
          BY DEF Market!Usable
        <4>3. Market!Cardinality(reader[r].signals) = Cardinality(reader[r].signals)
          BY SameCount
        <4>4. QED
          BY <4>1, <4>2, <4>3
      <3>5. ~(Needed <= reader[r].from)
        BY <1>1, <3>1, <3>2, <3>4 DEF ReaderInv
      <3>6. QED
        BY <1>1, <3>1, <3>5 DEF Reading, MarketSizes
    <2>7. ReaderInv(s, ingestion[r], listed, candles, snapshot)
      BY <1>1, <2>1, <2>5, <2>6 DEF ReaderInv
    <2>8. QED
      BY <2>4, <2>5, <2>7, OneReaderMarket
  <1>4. QED
    BY <1>2, <1>3

LEMMA MarketStep ==
  ASSUME MarketInv, MarketSizes, Market!Next \/ UNCHANGED marketVars
  PROVE  MarketInv'
  <1>1. CASE Market!NextCandle
    BY <1>1, CandleMarket
  <1>2. ASSUME NEW i \in Market!Ingestions,
               Market!StartBackfill(i) \/ Market!Gathered(i) \/ Market!Store(i)
                 \/ Market!IngestFails(i)
        PROVE  MarketInv'
    BY <1>2, StartMarket, GatheredMarket, StoreMarket, FailMarket
  <1>3. ASSUME NEW r \in Readers,
               Market!Begin(r) \/ Market!SignalsAnswered(r) \/ Market!PriceAnswered(r)
                 \/ Market!Judge(r) \/ Market!ReadAgain(r) \/ Market!GiveUp(r)
        PROVE  MarketInv'
    BY <1>3, BeginMarket, SignalsMarket, PriceMarket, JudgeMarket, AgainMarket, GiveUpMarket
  <1>4. CASE UNCHANGED marketVars
    BY <1>4 DEF marketVars, MarketInv
  <1>5. QED
    BY <1>1, <1>2, <1>3, <1>4 DEF Market!Next

THEOREM MarketInvariance ==
  ASSUME MarketSizes
  PROVE  ServicesSpec => []MarketInv
  <1>1. ServicesInit => MarketInv
    BY PartsStart, MarketStart
  <1>2. MarketInv /\ [ServicesNext]_allVars => MarketInv'
    BY PartsStep, MarketStep
  <1>3. QED
    BY <1>1, <1>2, PTL DEF ServicesSpec

\* Whatever ingestions overlap, fail or come late: what a reader gets is every
\* candle up to the last one, as many as it asked for or the exchange lists,
\* if no ingestion asks for fewer than a reader.
THEOREM SignalsHaveNoHole ==
  ASSUME MarketSizes
  PROVE  ServicesSpec => []SignalsSeeNoHole
  <1>1. ASSUME MarketInv
        PROVE  SignalsSeeNoHole
    <2> SUFFICES ASSUME NEW r \in Readers, reader[r].signals # {}
                 PROVE  LET top == CHOOSE c \in reader[r].signals :
                                     \A d \in reader[r].signals : d <= c
                        IN  reader[r].signals = {c \in 1..top : c > top - Limit}
      BY DEF SignalsSeeNoHole, Market!SignalsSeeNoHole
    <2>1. PICK m \in 1..listed : reader[r].signals = Window(m, Limit)
      BY <1>1 DEF MarketInv, ReaderInv
    <2>2. /\ m \in Nat /\ m \in reader[r].signals
          /\ \A d \in reader[r].signals : d \in Nat /\ d <= m
      BY <1>1, <2>1 DEF Window, MarketInv, MarketSizes
    <2>3. m = CHOOSE c \in reader[r].signals : \A d \in reader[r].signals : d <= c
      BY <2>2
    <2>4. QED
      BY <2>1, <2>3 DEF Window
  <1>2. QED
    BY <1>1, MarketInvariance, PTL

\* A reader that asked for an ingestion and saw it through finds its candles
\* and its snapshot, so a plan on demo signals means a call that failed or an
\* exchange that lists too few candles.
THEOREM DemoMeansNoData ==
  ASSUME MarketSizes
  PROVE  ServicesSpec => []DemoOnlyWithoutData
  <1>1. ASSUME MarketInv
        PROVE  DemoOnlyWithoutData
    <2> SUFFICES ASSUME NEW r \in Readers, reader[r].pc = "demo", ~reader[r].failed
                 PROVE  reader[r].from \in 1..Needed - 1
      BY DEF DemoOnlyWithoutData, Market!DemoOnlyWithoutData
    <2>1. /\ reader[r].failed = FALSE
          /\ ReaderInv(reader[r], ingestion[r], listed, candles, snapshot)
          /\ listed \in Nat
      BY <1>1 DEF MarketInv, Reading
    <2>2. /\ reader[r].from \in 1..listed /\ reader[r].from < Needed
          /\ Needed \in Nat
      BY <2>1 DEF ReaderInv, MarketSizes
    <2>3. QED
      BY <2>1, <2>2
  <1>2. QED
    BY <1>1, MarketInvariance, PTL

-----------------------------------------------------------------------------
(* The synchronisation of the documentation. *)

\* A set of numbers that is not empty has a least one.
LEMMA LeastOfNats ==
  ASSUME NEW S \in SUBSET Nat, S # {}
  PROVE  \E n \in S : \A m \in S : n <= m
  <1> DEFINE T == {0..n : n \in S}
  <1>1. T \subseteq FiniteSubsetsOf(Nat) /\ T # {}
    <2>1. \A n \in S : IsFiniteSet(0..n) /\ 0..n \subseteq Nat
      BY FS_Interval
    <2>2. QED
      BY <2>1 DEF FiniteSubsetsOf
  <1>2. PICK A \in T : \A B \in T : ~(<<B, A>> \in StrictSubsetOrdering(Nat))
    BY <1>1, WFMin, FS_StrictSubsetOrderingWellFounded
  <1>3. PICK n \in S : A = 0..n
    OBVIOUS
  <1>4. ASSUME NEW m \in S, m < n
        PROVE  FALSE
    <2>1. 0..m \in T
      OBVIOUS
    <2>2. 0..m \subseteq Nat /\ 0..n \subseteq Nat /\ 0..m \subseteq 0..n
      BY <1>4
    <2>3. n \in 0..n /\ n \notin 0..m
      BY <1>4
    <2>4. <<0..m, A>> \in StrictSubsetOrdering(Nat)
      BY <1>3, <2>2, <2>3, Zenon DEF StrictSubsetOrdering
    <2>5. QED
      BY <1>2, <2>1, <2>4
  <1>5. QED
    BY <1>4

Columns == {"title", "parent", "text", "lists", "active"}
Fields == {"pc", "seen", "parent", "todo", "title", "newest", "hold"}

\* The positions at which a listing decides what is archived.
Early == {"dedupe", "merge", "mergeArchive", "ensure", "hub", "ensureArchive"}

\* What a mapped title had when d was active, it still has: d or an older one.
Kept(d) ==
  \E e \in Outline!Active : docs[e].title = docs[d].title /\ e <= d

\* A run that may archive duplicates knows of each a document that is kept,
\* and one that cleans up has no mapped title before it.
Careful(s) ==
  /\ s.pc \in Early =>
       \A d \in s.seen : d \in DOMAIN docs /\ (docs[d].title \in Outline!Desired => Kept(d))
  /\ s.pc = "unknown" =>
       \A d \in s.todo : d \in DOMAIN docs /\ docs[d].title \notin Outline!Desired

DocsInv ==
  \E W : docs \in Seq(W) /\ \A w \in W : Columns \subseteq DOMAIN w

SyncInv ==
  /\ DocsInv
  /\ DOMAIN run = Runs
  /\ \A r \in Runs : Fields \subseteq DOMAIN run[r] /\ Careful(run[r])

LEMMA DocsNumbered == ASSUME DocsInv PROVE DOMAIN docs \subseteq Nat
  BY DEF DocsInv

\* What a step may do to the documents: their titles stay, and a document of
\* a mapped title is archived only beside an older one.
Spares ==
  /\ DOMAIN docs \subseteq DOMAIN docs'
  /\ \A d \in DOMAIN docs : docs'[d].title = docs[d].title
  /\ \A d \in Outline!Active :
       \/ docs'[d].active
       \/ docs[d].title \notin Outline!Desired
       \/ \E e \in Outline!Active : docs[e].title = docs[d].title /\ e < d /\ docs'[e].active

LEMMA SparedKept ==
  ASSUME DocsInv, Spares, NEW d \in DOMAIN docs, docs[d].title \in Outline!Desired, Kept(d)
  PROVE  Kept(d)'
  <1>1. PICK e \in Outline!Active : docs[e].title = docs[d].title /\ e <= d
    BY DEF Kept
  <1>2. PICK f \in Outline!Active : docs[f].title = docs[d].title /\ f <= d /\ docs'[f].active
    <2>1. CASE docs'[e].active
      BY <1>1, <2>1
    <2>2. CASE ~docs'[e].active
      <3>1. PICK g \in Outline!Active : docs[g].title = docs[e].title /\ g < e /\ docs'[g].active
        BY <1>1, <2>2 DEF Spares
      <3>2. g \in Nat /\ e \in Nat /\ d \in Nat
        BY DocsNumbered DEF Outline!Active
      <3>3. QED
        BY <1>1, <3>1, <3>2
    <2>3. QED
      BY <2>1, <2>2
  <1>3. f \in DOMAIN docs
    BY DEF Outline!Active
  <1>4. QED
    BY <1>2, <1>3 DEF Kept, Spares, Outline!Active

\* What was careful stays so, and goes on being so when its listing does.
LEMMA SparedCareful ==
  ASSUME DocsInv, Spares, NEW s, Careful(s)
  PROVE  Careful(s)'
  BY SparedKept DEF Careful, Spares

LEMMA ListedKept ==
  ASSUME DocsInv, NEW d \in Outline!Active
  PROVE  d \in DOMAIN docs /\ Kept(d)
  BY DocsNumbered DEF Kept, Outline!Active

\* A run that goes on carefully leaves every run careful.
LEMMA RunGoes ==
  ASSUME SyncInv, DocsInv', Spares, NEW r \in Runs, NEW s, Fields \subseteq DOMAIN s,
         Careful(s)', Outline!Goes(r, s)
  PROVE  SyncInv' /\ Spares
  <1>1. run' = [run EXCEPT ![r] = s]
    BY DEF Outline!Goes
  <1>2. \A q \in Runs : run'[q] = IF q = r THEN s ELSE run[q]
    BY <1>1 DEF SyncInv
  <1>3. ASSUME NEW q \in Runs
        PROVE  Fields \subseteq DOMAIN run'[q] /\ Careful(run[q])'
    <2>1. CASE q = r
      BY <1>2, <2>1 DEF Careful, Kept
    <2>2. CASE q # r
      <3>1. PICK t : t = run[q] /\ t = run'[q]
        BY <1>2, <2>2
      <3>2. Careful(t)'
        BY <3>1, SparedCareful DEF SyncInv
      <3>3. QED
        BY <3>1, <3>2 DEF SyncInv, Careful, Kept
    <2>3. QED
      BY <2>1, <2>2
  <1>4. DOMAIN run' = Runs
    BY <1>1 DEF SyncInv
  <1>5. QED
    BY <1>3, <1>4 DEF SyncInv

-----------------------------------------------------------------------------
\* The calls spare the documents.
LEMMA SameSpares ==
  ASSUME DocsInv, UNCHANGED docs
  PROVE  DocsInv' /\ Spares
  BY DEF DocsInv, Spares, Outline!Active

LEMMA ChangeSpares ==
  ASSUME DocsInv, NEW d \in DOMAIN docs, NEW w, Columns \subseteq DOMAIN w,
         w.title = docs[d].title, w.active = docs[d].active,
         docs' = [docs EXCEPT ![d] = w]
  PROVE  DocsInv' /\ Spares
  <1>1. PICK W : docs \in Seq(W) /\ \A x \in W : Columns \subseteq DOMAIN x
    BY DEF DocsInv
  <1>2. docs' \in Seq(W \cup {w})
    BY <1>1
  <1>3. \A e \in DOMAIN docs : docs'[e] = IF e = d THEN w ELSE docs[e]
    OBVIOUS
  <1>4. DOMAIN docs' = DOMAIN docs
    OBVIOUS
  <1>5. DocsInv'
    BY <1>1, <1>2 DEF DocsInv
  <1>6. QED
    BY <1>3, <1>4, <1>5 DEF Spares, Outline!Active

LEMMA UpdateSpares ==
  ASSUME DocsInv, NEW d, NEW w, Outline!Update(d, w),
         d \in DOMAIN docs =>
           /\ DOMAIN w = DOMAIN docs[d]
           /\ w.title = docs[d].title /\ w.active = docs[d].active
  PROVE  DocsInv' /\ Spares
  <1>1. CASE UNCHANGED docs
    BY <1>1, SameSpares
  <1>2. CASE d \in DOMAIN docs /\ docs' = [docs EXCEPT ![d] = w]
    <2>1. Columns \subseteq DOMAIN docs[d]
      BY <1>2 DEF DocsInv
    <2>2. QED
      BY <1>2, <2>1, ChangeSpares
  <1>3. CASE d \notin DOMAIN docs
    <2>1. [docs EXCEPT ![d] = w] = docs
      BY <1>3 DEF DocsInv
    <2>2. UNCHANGED docs
      BY <2>1 DEF Outline!Update, Outline!Same
    <2>3. QED
      BY <2>2, SameSpares
  <1>4. QED
    BY <1>1, <1>2, <1>3 DEF Outline!Update, Outline!Same

LEMMA CreateSpares ==
  ASSUME DocsInv, NEW t, NEW text, NEW parent, Outline!Create(t, text, parent)
  PROVE  /\ DocsInv' /\ Spares
         /\ Len(docs) + 1 \in Outline!Active' /\ docs'[Len(docs) + 1].title = t
  <1>1. PICK w : /\ w.title = t /\ w.active = TRUE /\ Columns \subseteq DOMAIN w
                 /\ docs' = Append(docs, w)
    BY DEF Outline!Create, Columns
  <1>2. PICK W : docs \in Seq(W) /\ \A x \in W : Columns \subseteq DOMAIN x
    BY DEF DocsInv
  <1>3. docs' \in Seq(W \cup {w}) /\ docs \in Seq(W \cup {w})
    BY <1>1, <1>2
  <1>4. DocsInv'
    BY <1>1, <1>2, <1>3 DEF DocsInv
  <1>5. /\ DOMAIN docs \subseteq DOMAIN docs' /\ \A e \in DOMAIN docs : docs'[e] = docs[e]
        /\ Len(docs) + 1 \in DOMAIN docs' /\ docs'[Len(docs) + 1] = w
    BY <1>1, <1>3
  <1>6. QED
    BY <1>1, <1>4, <1>5 DEF Spares, Outline!Active

LEMMA ArchiveSpares ==
  ASSUME DocsInv, NEW d \in DOMAIN docs, Outline!Archive(d),
         \/ docs[d].title \notin Outline!Desired
         \/ \E e \in Outline!Active : docs[e].title = docs[d].title /\ e < d
  PROVE  DocsInv' /\ Spares
  <1>1. PICK W : docs \in Seq(W) /\ \A x \in W : Columns \subseteq DOMAIN x
    BY DEF DocsInv
  <1>2. PICK w : w = [docs[d] EXCEPT !.active = FALSE]
    OBVIOUS
  <1>3. Columns \subseteq DOMAIN w /\ w.title = docs[d].title
    BY <1>1, <1>2
  <1>4. docs' = [docs EXCEPT ![d] = w]
    BY <1>2 DEF Outline!Archive
  <1>5. docs' \in Seq(W \cup {w})
    BY <1>1, <1>4
  <1>6. DocsInv'
    BY <1>1, <1>3, <1>5 DEF DocsInv
  <1>7. \A e \in DOMAIN docs : docs'[e] = IF e = d THEN w ELSE docs[e]
    BY <1>4
  <1>8. DOMAIN docs' = DOMAIN docs
    BY <1>4
  <1>9. \A e \in Outline!Active : e < d => docs'[e].active
    BY <1>7, DocsNumbered DEF Outline!Active
  <1>10. QED
    BY <1>3, <1>6, <1>7, <1>8, <1>9 DEF Spares, Outline!Active

-----------------------------------------------------------------------------
\* The steps of a run: a listing, a call that changes no document, an update.
LEMMA QuietRun ==
  ASSUME SyncInv, NEW r \in Runs, NEW s, Fields \subseteq DOMAIN s, Careful(s),
         Outline!Goes(r, s), UNCHANGED docs
  PROVE  SyncInv' /\ Spares
  <1>1. DocsInv' /\ Spares
    BY SameSpares DEF SyncInv
  <1>2. Careful(s)'
    BY <1>1, SparedCareful DEF SyncInv
  <1>3. QED
    BY <1>1, <1>2, RunGoes

LEMMA UpdateRun ==
  ASSUME SyncInv, NEW r \in Runs, NEW s, Fields \subseteq DOMAIN s, Careful(s),
         Outline!Goes(r, s), NEW d, NEW w, Outline!Update(d, w),
         d \in DOMAIN docs =>
           /\ DOMAIN w = DOMAIN docs[d]
           /\ w.title = docs[d].title /\ w.active = docs[d].active
  PROVE  SyncInv' /\ Spares
  <1>1. DocsInv' /\ Spares
    BY UpdateSpares DEF SyncInv
  <1>2. Careful(s)'
    BY <1>1, SparedCareful DEF SyncInv
  <1>3. QED
    BY <1>1, <1>2, RunGoes

\* What a run may go on to: at an early position with part of the listing it
\* had, or with a new one, or at a later position.
LEMMA RunFields ==
  ASSUME SyncInv, NEW r \in Runs
  PROVE  Fields \subseteq DOMAIN run[r] /\ Careful(run[r])
  BY DEF SyncInv

LEMMA EarlyCareful ==
  ASSUME NEW q, NEW s, Careful(q), q.pc \in Early, s.seen \subseteq q.seen, s.pc # "unknown"
  PROVE  Careful(s)
  BY DEF Careful

LEMMA FreshCareful ==
  ASSUME SyncInv, NEW s, s.seen = Outline!Active, s.pc # "unknown"
  PROVE  Careful(s)
  BY ListedKept DEF Careful, SyncInv

LEMMA LateCareful ==
  ASSUME NEW s, s.pc \notin Early, s.pc # "unknown"
  PROVE  Careful(s)
  BY DEF Careful

LEMMA FirstListSync ==
  ASSUME SyncInv, NEW r \in Runs, Outline!FirstList(r)
  PROVE  SyncInv' /\ Spares
  <1>1. PICK s : /\ Outline!Goes(r, s) /\ s.seen = Outline!Active /\ s.pc = "dedupe"
                 /\ DOMAIN s = DOMAIN run[r]
    <2>1. PICK parents, todo, s :
            /\ s = [[run[r] EXCEPT !.seen = Outline!Active, !.parent = parents]
                      EXCEPT !.pc = "dedupe", !.todo = todo]
            /\ Outline!Goes(r, s)
      BY DEF Outline!FirstList, Outline!Listing
    <2>2. s.seen = Outline!Active /\ s.pc = "dedupe" /\ DOMAIN s = DOMAIN run[r]
      BY <2>1, RunFields DEF Fields
    <2>3. QED
      BY <2>1, <2>2
  <1>2. UNCHANGED docs
    BY DEF Outline!FirstList, Outline!Same
  <1>3. QED
    BY <1>1, <1>2, FreshCareful, RunFields, QuietRun

LEMMA SecondListSync ==
  ASSUME SyncInv, NEW r \in Runs, Outline!SecondList(r)
  PROVE  SyncInv' /\ Spares
  <1>1. PICK s : /\ Outline!Goes(r, s) /\ s.seen = Outline!Active /\ s.pc = "ensure"
                 /\ DOMAIN s = DOMAIN run[r]
    <2>1. PICK parents, s :
            /\ s = [[run[r] EXCEPT !.seen = Outline!Active, !.parent = parents]
                      EXCEPT !.pc = "ensure", !.title = Root, !.todo = Hubs]
            /\ Outline!Goes(r, s)
      BY DEF Outline!SecondList, Outline!Listing
    <2>2. s.seen = Outline!Active /\ s.pc = "ensure" /\ DOMAIN s = DOMAIN run[r]
      BY <2>1, RunFields DEF Fields
    <2>3. QED
      BY <2>1, <2>2
  <1>2. UNCHANGED docs
    BY DEF Outline!SecondList, Outline!Same
  <1>3. QED
    BY <1>1, <1>2, FreshCareful, RunFields, QuietRun

LEMMA ReadNewestSync ==
  ASSUME SyncInv, NEW r \in Runs, Outline!ReadNewest(r) \/ Outline!NextHub(r)
  PROVE  SyncInv' /\ Spares
  <1>1. PICK s : /\ Outline!Goes(r, s) /\ s.seen = run[r].seen /\ s.pc \in {"merge", "ensure"}
                 /\ DOMAIN s = DOMAIN run[r]
    <2>1. CASE Outline!ReadNewest(r)
      <3>1. PICK p, s :
              /\ s = [run[r] EXCEPT !.pc = "merge", !.title = p[1], !.newest = p[2],
                                    !.todo = @ \ {p}, !.hold = docs[p[2]].text]
              /\ Outline!Goes(r, s)
        BY <2>1 DEF Outline!ReadNewest
      <3>2. s.seen = run[r].seen /\ s.pc = "merge" /\ DOMAIN s = DOMAIN run[r]
        BY <3>1, RunFields DEF Fields
      <3>3. QED
        BY <3>1, <3>2
    <2>2. CASE Outline!NextHub(r)
      <3>1. PICK h, s :
              /\ s = [run[r] EXCEPT !.pc = "ensure", !.title = h, !.todo = @ \ {h}]
              /\ Outline!Goes(r, s)
        BY <2>2 DEF Outline!NextHub
      <3>2. s.seen = run[r].seen /\ s.pc = "ensure" /\ DOMAIN s = DOMAIN run[r]
        BY <3>1, RunFields DEF Fields
      <3>3. QED
        BY <3>1, <3>2
    <2>3. QED
      BY <2>1, <2>2
  <1>2. UNCHANGED docs /\ run[r].pc \in Early
    BY DEF Outline!ReadNewest, Outline!NextHub, Outline!Same, Early
  <1>3. QED
    BY <1>1, <1>2, EarlyCareful, RunFields, QuietRun

LEMMA MergeTextSync ==
  ASSUME SyncInv, NEW r \in Runs, Outline!MergeText(r)
  PROVE  SyncInv' /\ Spares
  <1>1. PICK s : /\ Outline!Goes(r, s) /\ s.seen = run[r].seen /\ s.pc = "mergeArchive"
                 /\ DOMAIN s = DOMAIN run[r]
    BY RunFields DEF Outline!MergeText, Fields
  <1>2. Careful(s) /\ Fields \subseteq DOMAIN s
    BY <1>1, EarlyCareful, RunFields DEF Outline!MergeText, Early
  <1>3. PICK d, w : /\ Outline!Update(d, w)
                    /\ w = [docs[d] EXCEPT !.text = run[r].hold]
    BY DEF Outline!MergeText
  <1>4. DOMAIN w = DOMAIN docs[d]
    BY <1>3
  <1>5. d \in DOMAIN docs => Columns \subseteq DOMAIN docs[d]
    BY DEF SyncInv, DocsInv
  <1>6. d \in DOMAIN docs => w.title = docs[d].title /\ w.active = docs[d].active
    BY <1>3, <1>5 DEF Columns
  <1>7. QED
    BY <1>1, <1>2, <1>3, <1>4, <1>6, UpdateRun

\* What goes on from the index and the hubs has the listing it had.
LEMMA AfterEnsureKeeps ==
  ASSUME NEW s, Fields \subseteq DOMAIN s
  PROVE  /\ Outline!AfterEnsure(s).seen = s.seen
         /\ Outline!AfterEnsure(s).pc \in {"targets", "hub"}
         /\ DOMAIN Outline!AfterEnsure(s) = DOMAIN s
  BY DEF Outline!AfterEnsure, Fields

LEMMA EnsureExistingSync ==
  ASSUME SyncInv, NEW r \in Runs, Outline!EnsureExisting(r)
  PROVE  SyncInv' /\ Spares
  <1>1. PICK s : /\ Outline!Goes(r, s) /\ s.seen = run[r].seen
                 /\ s.pc \in {"targets", "hub", "ensureArchive"}
                 /\ DOMAIN s = DOMAIN run[r]
    BY RunFields, AfterEnsureKeeps DEF Outline!EnsureExisting, Fields
  <1>2. Careful(s) /\ Fields \subseteq DOMAIN s
    BY <1>1, EarlyCareful, RunFields DEF Outline!EnsureExisting, Early
  <1>3. PICK d, p, w : /\ Outline!Update(d, w)
                       /\ w = [docs[d] EXCEPT !.text = "stub", !.lists = {}, !.parent = p]
    BY DEF Outline!EnsureExisting
  <1>4. DOMAIN w = DOMAIN docs[d]
    BY <1>3
  <1>5. d \in DOMAIN docs => Columns \subseteq DOMAIN docs[d]
    BY DEF SyncInv, DocsInv
  <1>6. d \in DOMAIN docs => w.title = docs[d].title /\ w.active = docs[d].active
    BY <1>3, <1>5 DEF Columns
  <1>7. QED
    BY <1>1, <1>2, <1>3, <1>4, <1>6, UpdateRun

\* The document a run creates is its own oldest, or younger than another.
LEMMA EnsureMissingSync ==
  ASSUME SyncInv, NEW r \in Runs, Outline!EnsureMissing(r)
  PROVE  SyncInv' /\ Spares
  <1>1. PICK n, t, p : n = Len(docs) + 1 /\ Outline!Create(t, "stub", p)
    BY DEF Outline!EnsureMissing
  <1>2. PICK s : /\ Outline!Goes(r, s) /\ s.seen = run[r].seen \cup {n}
                 /\ s.pc \in {"targets", "hub"}
                 /\ DOMAIN s = DOMAIN run[r]
    <2>1. PICK q : /\ q = [run[r] EXCEPT !.seen = @ \cup {n}]
                   /\ Outline!Goes(r, Outline!AfterEnsure(q))
      BY <1>1 DEF Outline!EnsureMissing
    <2>2. DOMAIN q = DOMAIN run[r] /\ q.seen = run[r].seen \cup {n}
      BY <2>1, RunFields DEF Fields
    <2>3. PICK s : s = Outline!AfterEnsure(q)
      OBVIOUS
    <2>4. Fields \subseteq DOMAIN q
      BY <2>2, RunFields
    <2>5. s.seen = q.seen /\ s.pc \in {"targets", "hub"} /\ DOMAIN s = DOMAIN q
      BY <2>3, <2>4, AfterEnsureKeeps
    <2>6. QED
      BY <2>1, <2>2, <2>3, <2>5
  <1>3. /\ DocsInv' /\ Spares
        /\ n \in Outline!Active' /\ n \in DOMAIN docs'
    BY <1>1, CreateSpares DEF SyncInv, Outline!Active
  <1>4. Kept(n)'
    BY <1>3, DocsNumbered DEF Kept, DocsInv, Outline!Active
  <1>5. run[r].pc \in Early
    BY DEF Outline!EnsureMissing, Early
  <1>6. Careful(run[r]) /\ Fields \subseteq DOMAIN s
    BY <1>2, RunFields
  <1>7. Careful(s)'
    <2>1. ASSUME NEW d \in run[r].seen
          PROVE  d \in DOMAIN docs' /\ (docs'[d].title \in Outline!Desired => Kept(d)')
      BY <1>3, <1>5, <1>6, SparedKept DEF Careful, SyncInv, Spares
    <2>2. QED
      BY <1>2, <1>3, <1>4, <2>1 DEF Careful
  <1>8. QED
    BY <1>2, <1>3, <1>6, <1>7, RunGoes

\* What a run archives beside the oldest of its listing, or unmapped.
LEMMA ExtrasSpared ==
  ASSUME SyncInv, NEW r \in Runs, run[r].pc \in Early, NEW d \in Outline!Extras(r)
  PROVE  /\ d \in DOMAIN docs
         /\ \/ docs[d].title \notin Outline!Desired
            \/ \E e \in Outline!Active : docs[e].title = docs[d].title /\ e < d
  <1>1. PICK same : same = Outline!Entitled(run[r].title, run[r].seen)
    OBVIOUS
  <1>2. Careful(run[r])
    BY RunFields
  <1>3. \A e \in same : /\ e \in DOMAIN docs /\ docs[e].title = run[r].title
                        /\ docs[e].title \in Outline!Desired => Kept(e)
    BY <1>1, <1>2 DEF Careful, Outline!Entitled
  <1>4. same \subseteq Nat
    BY <1>3, DocsNumbered DEF SyncInv
  <1>5. d \in same \ {Outline!Canonical(same)}
    BY <1>1 DEF Outline!Extras
  <1>6. PICK m \in same : m = Outline!Canonical(same) /\ \A e \in same : m <= e
    <2>1. \E n \in same : \A e \in same : n <= e
      BY <1>4, <1>5, LeastOfNats
    <2>2. QED
      BY <2>1 DEF Outline!Canonical, Outline!Least
  <1>7. m < d
    BY <1>4, <1>5, <1>6
  <1>8. CASE docs[d].title \in Outline!Desired
    <2>1. PICK e \in Outline!Active : docs[e].title = docs[m].title /\ e <= m
      BY <1>3, <1>5, <1>8 DEF Kept
    <2>2. e \in Nat /\ m \in Nat /\ d \in Nat
      BY <1>4, <1>5, DocsNumbered DEF SyncInv, Outline!Active
    <2>3. e < d
      BY <1>7, <2>1, <2>2
    <2>4. QED
      BY <1>3, <1>5, <2>1, <2>3
  <1>9. QED
    BY <1>3, <1>5, <1>8

LEMMA ArchiveExtraSync ==
  ASSUME SyncInv, NEW r \in Runs, Outline!ArchiveExtra(r)
  PROVE  SyncInv' /\ Spares
  <1>1. run[r].pc \in Early
    BY DEF Outline!ArchiveExtra, Early
  <1>2. PICK d, q, s :
          /\ d \in Outline!Extras(r) /\ Outline!Archive(d) /\ Outline!Goes(r, s)
          /\ q = [run[r] EXCEPT !.seen = @ \ {d}]
          /\ s \in {q, [q EXCEPT !.pc = "dedupe"], Outline!AfterEnsure(q)}
    BY DEF Outline!ArchiveExtra
  <1>3. DOMAIN q = DOMAIN run[r] /\ q.seen = run[r].seen \ {d} /\ q.pc = run[r].pc
    BY <1>2, RunFields DEF Fields
  <1>4. /\ DOMAIN s = DOMAIN run[r] /\ s.seen \subseteq run[r].seen /\ s.pc # "unknown"
    <2>1. CASE s = q
      BY <1>1, <1>3, <2>1 DEF Early
    <2>2. CASE s = [q EXCEPT !.pc = "dedupe"]
      BY <1>3, <2>2, RunFields DEF Fields
    <2>3. CASE s = Outline!AfterEnsure(q)
      BY <1>3, <2>3, RunFields, AfterEnsureKeeps
    <2>4. QED
      BY <1>2, <2>1, <2>2, <2>3
  <1>5. DocsInv' /\ Spares
    BY <1>1, <1>2, ExtrasSpared, ArchiveSpares DEF SyncInv
  <1>6. Careful(s) /\ Fields \subseteq DOMAIN s
    BY <1>1, <1>4, EarlyCareful, RunFields
  <1>7. Careful(s)'
    BY <1>5, <1>6, SparedCareful DEF SyncInv
  <1>8. QED
    BY <1>2, <1>5, <1>6, <1>7, RunGoes

LEMMA CreateTargetSync ==
  ASSUME SyncInv, NEW r \in Runs, Outline!CreateTarget(r)
  PROVE  SyncInv' /\ Spares
  <1>1. PICK t, p, n, s :
          /\ Outline!Create(t, "raw", p) /\ Outline!Goes(r, s)
          /\ s = [run[r] EXCEPT !.seen = @ \cup {n}, !.todo = @ \ {t}]
    BY DEF Outline!CreateTarget
  <1>2. s.pc = "targets" /\ DOMAIN s = DOMAIN run[r]
    BY <1>1, RunFields DEF Outline!CreateTarget, Fields
  <1>3. DocsInv' /\ Spares
    BY <1>1, CreateSpares DEF SyncInv
  <1>4. Careful(s)'
    BY <1>2 DEF Careful, Early
  <1>5. QED
    BY <1>1, <1>2, <1>3, <1>4, RunFields, RunGoes

LEMMA RewriteSync ==
  ASSUME SyncInv, NEW r \in Runs,
         Outline!ThirdList(r) \/ Outline!Rewrite(r) \/ Outline!LastList(r) \/ Outline!Fail(r)
  PROVE  SyncInv' /\ Spares
  <1>1. UNCHANGED docs
    BY DEF Outline!ThirdList, Outline!Rewrite, Outline!LastList, Outline!Fail, Outline!Same
  <1>2. PICK s : /\ Outline!Goes(r, s) /\ Fields \subseteq DOMAIN s
                 /\ s.pc \in {"rewrite", "write", "indexes", "failed"}
    <2>1. CASE Outline!ThirdList(r)
      <3>1. PICK seen, parents, known, todo, s :
              /\ s = [[run[r] EXCEPT !.seen = seen, !.parent = parents]
                        EXCEPT !.pc = "rewrite", !.seen = known, !.todo = todo]
              /\ Outline!Goes(r, s)
        BY <2>1 DEF Outline!ThirdList, Outline!Listing
      <3>2. s.pc = "rewrite" /\ DOMAIN s = DOMAIN run[r]
        BY <3>1, RunFields DEF Fields
      <3>3. QED
        BY <3>1, <3>2, RunFields
    <2>2. CASE Outline!Rewrite(r)
      <3>1. PICK t, d, q : /\ q = [run[r] EXCEPT !.todo = @ \ {t}, !.newest = d]
                           /\ \/ Outline!Goes(r, q)
                              \/ Outline!Goes(r, [q EXCEPT !.pc = "write", !.title = t])
        BY <2>2 DEF Outline!Rewrite
      <3>2. q.pc = "rewrite" /\ DOMAIN q = DOMAIN run[r]
        BY <2>2, <3>1, RunFields DEF Outline!Rewrite, Fields
      <3>3. PICK s : s = [q EXCEPT !.pc = "write", !.title = t]
        OBVIOUS
      <3>4. s.pc = "write" /\ DOMAIN s = DOMAIN q
        BY <3>2, <3>3, RunFields DEF Fields
      <3>5. QED
        BY <3>1, <3>2, <3>3, <3>4, RunFields
    <2>3. CASE Outline!LastList(r)
      <3>1. PICK parents, s :
              /\ s = [run[r] EXCEPT !.pc = "indexes", !.todo = Hubs, !.parent = parents]
              /\ Outline!Goes(r, s)
        BY <2>3 DEF Outline!LastList
      <3>2. s.pc = "indexes" /\ DOMAIN s = DOMAIN run[r]
        BY <3>1, RunFields DEF Fields
      <3>3. QED
        BY <3>1, <3>2, RunFields
    <2>4. CASE Outline!Fail(r)
      <3>1. PICK s : s = [Outline!Idle EXCEPT !.pc = "failed"] /\ Outline!Goes(r, s)
        BY <2>4 DEF Outline!Fail
      <3>2. s.pc = "failed" /\ Fields \subseteq DOMAIN s
        BY <3>1 DEF Outline!Idle, Fields
      <3>3. QED
        BY <3>1, <3>2
    <2>5. QED
      BY <2>1, <2>2, <2>3, <2>4
  <1>3. QED
    BY <1>1, <1>2, LateCareful, QuietRun DEF Early

LEMMA WriteSync ==
  ASSUME SyncInv, NEW r \in Runs,
         Outline!WriteFinal(r) \/ Outline!WriteIndex(r) \/ Outline!WriteRoot(r)
  PROVE  SyncInv' /\ Spares
  <1>1. PICK s : /\ Outline!Goes(r, s) /\ Fields \subseteq DOMAIN s
                 /\ s.pc \in {"rewrite", "indexes", "done"}
    <2>1. CASE Outline!WriteFinal(r)
      <3>1. PICK s : s = [run[r] EXCEPT !.pc = "rewrite"] /\ Outline!Goes(r, s)
        BY <2>1 DEF Outline!WriteFinal
      <3>2. s.pc = "rewrite" /\ DOMAIN s = DOMAIN run[r]
        BY <3>1, RunFields DEF Fields
      <3>3. QED
        BY <3>1, <3>2, RunFields
    <2>2. CASE Outline!WriteIndex(r)
      <3>1. PICK h, s : s = [run[r] EXCEPT !.todo = @ \ {h}] /\ Outline!Goes(r, s)
        BY <2>2 DEF Outline!WriteIndex
      <3>2. s.pc = "indexes" /\ DOMAIN s = DOMAIN run[r]
        BY <2>2, <3>1, RunFields DEF Outline!WriteIndex, Fields
      <3>3. QED
        BY <3>1, <3>2, RunFields
    <2>3. CASE Outline!WriteRoot(r)
      <3>1. PICK s : s = [Outline!Idle EXCEPT !.pc = "done"] /\ Outline!Goes(r, s)
        BY <2>3 DEF Outline!WriteRoot
      <3>2. s.pc = "done" /\ Fields \subseteq DOMAIN s
        BY <3>1 DEF Outline!Idle, Fields
      <3>3. QED
        BY <3>1, <3>2
    <2>4. QED
      BY <2>1, <2>2, <2>3
  <1>2. PICK d, x, w :
          /\ Outline!Update(d, w)
          /\ \/ w = [docs[d] EXCEPT !.text = "final", !.parent = x]
             \/ w = [docs[d] EXCEPT !.text = "index", !.lists = x]
             \/ w = [docs[d] EXCEPT !.text = "index"]
    BY DEF Outline!WriteFinal, Outline!WriteIndex, Outline!WriteRoot
  <1>3. DOMAIN w = DOMAIN docs[d]
    BY <1>2
  <1>4. d \in DOMAIN docs => Columns \subseteq DOMAIN docs[d]
    BY DEF SyncInv, DocsInv
  <1>5. d \in DOMAIN docs => w.title = docs[d].title /\ w.active = docs[d].active
    BY <1>2, <1>4 DEF Columns
  <1>6. Careful(s)
    BY <1>1, LateCareful DEF Early
  <1>7. QED
    BY <1>1, <1>2, <1>3, <1>5, <1>6, UpdateRun

LEMMA UnknownListSync ==
  ASSUME SyncInv, NEW r \in Runs, Outline!UnknownList(r)
  PROVE  SyncInv' /\ Spares
  <1>1. PICK s : /\ s = [run[r] EXCEPT !.pc = "unknown",
                           !.todo = {d \in Outline!Active : docs[d].title \notin Outline!Desired}]
                 /\ Outline!Goes(r, s)
    BY DEF Outline!UnknownList
  <1>2. /\ s.pc = "unknown" /\ DOMAIN s = DOMAIN run[r]
        /\ s.todo = {d \in Outline!Active : docs[d].title \notin Outline!Desired}
    BY <1>1, RunFields DEF Fields
  <1>3. UNCHANGED docs
    BY DEF Outline!UnknownList, Outline!Same
  <1>4. Careful(s)
    BY <1>2 DEF Careful, Outline!Active, Early
  <1>5. QED
    BY <1>1, <1>2, <1>3, <1>4, RunFields, QuietRun

LEMMA ArchiveUnknownSync ==
  ASSUME SyncInv, NEW r \in Runs, Outline!ArchiveUnknown(r)
  PROVE  SyncInv' /\ Spares
  <1>1. PICK d, s : /\ d \in run[r].todo /\ Outline!Archive(d) /\ Outline!Goes(r, s)
                    /\ s = [run[r] EXCEPT !.todo = @ \ {d}]
    BY DEF Outline!ArchiveUnknown
  <1>2. run[r].pc = "unknown"
    BY DEF Outline!ArchiveUnknown
  <1>3. s.pc = "unknown" /\ DOMAIN s = DOMAIN run[r] /\ s.todo \subseteq run[r].todo
    BY <1>1, <1>2, RunFields DEF Fields
  <1>4. d \in DOMAIN docs /\ docs[d].title \notin Outline!Desired
    BY <1>1, <1>2, RunFields DEF Careful
  <1>5. DocsInv' /\ Spares
    BY <1>1, <1>4, ArchiveSpares DEF SyncInv
  <1>6. Careful(s)
    BY <1>2, <1>3, RunFields DEF Careful, Early
  <1>7. Careful(s)'
    BY <1>5, <1>6, SparedCareful DEF SyncInv
  <1>8. QED
    BY <1>1, <1>3, <1>5, <1>7, RunFields, RunGoes

-----------------------------------------------------------------------------
LEMMA SyncStart ==
  ASSUME Outline!Init
  PROVE  SyncInv
  <1>1. PICK c \in Start : docs = c.docs
    BY DEF Outline!Init
  <1>2. docs \in Seq([title : Outline!Titles, parent : Nat, text : Outline!Texts,
                      lists : SUBSET Nat, active : BOOLEAN])
    BY <1>1, OutlineAssumption
  <1>3. DocsInv
    <2>1. PICK W : /\ W = [title : Outline!Titles, parent : Nat, text : Outline!Texts,
                           lists : SUBSET Nat, active : BOOLEAN]
                   /\ docs \in Seq(W)
      BY <1>2
    <2>2. \A w \in W : Columns \subseteq DOMAIN w
      BY <2>1 DEF Columns
    <2>3. QED
      BY <2>1, <2>2 DEF DocsInv
  <1>4. run = [r \in Runs |-> Outline!Idle]
    BY DEF Outline!Init
  <1>5. QED
    BY <1>3, <1>4 DEF SyncInv, Careful, Outline!Idle, Fields, Early

LEMMA SyncStep ==
  ASSUME SyncInv, Outline!Next
  PROVE  SyncInv' /\ Spares
  <1>1. PICK r \in Runs :
          \/ Outline!FirstList(r) \/ Outline!ReadNewest(r) \/ Outline!MergeText(r)
          \/ Outline!ArchiveExtra(r) \/ Outline!SecondList(r) \/ Outline!NextHub(r)
          \/ Outline!EnsureExisting(r) \/ Outline!EnsureMissing(r)
          \/ Outline!CreateTarget(r) \/ Outline!ThirdList(r) \/ Outline!Rewrite(r)
          \/ Outline!WriteFinal(r) \/ Outline!UnknownList(r) \/ Outline!ArchiveUnknown(r)
          \/ Outline!LastList(r) \/ Outline!WriteIndex(r) \/ Outline!WriteRoot(r)
          \/ Outline!Fail(r)
    BY DEF Outline!Next
  <1>2. QED
    BY <1>1, FirstListSync, ReadNewestSync, MergeTextSync, ArchiveExtraSync,
       SecondListSync, EnsureExistingSync, EnsureMissingSync, CreateTargetSync,
       RewriteSync, WriteSync, UnknownListSync, ArchiveUnknownSync

LEMMA SyncRests ==
  ASSUME SyncInv, UNCHANGED outlineVars
  PROVE  SyncInv' /\ Spares
  <1>1. UNCHANGED <<docs, run>>
    BY DEF outlineVars
  <1>2. DocsInv' /\ Spares
    BY <1>1, SameSpares DEF SyncInv
  <1>3. ASSUME NEW r \in Runs
        PROVE  Careful(run[r])'
    <2>1. PICK t : t = run[r] /\ t = run'[r]
      BY <1>1
    <2>2. Careful(t)'
      BY <1>2, <2>1, SparedCareful DEF SyncInv
    <2>3. QED
      BY <2>1, <2>2 DEF Careful, Kept
  <1>4. QED
    BY <1>1, <1>2, <1>3 DEF SyncInv

\* Whatever runs interleave, clean up or fail where: a mapped title that has
\* an active document keeps one, for any runs, titles and collections. Every
\* run archives duplicates only beside an older document of its own listing,
\* and of that title the oldest active document is one no run archives.
THEOREM TitlesAreNeverLost == ServicesSpec => TitleNeverLost
  <1>1. ServicesInit => SyncInv
    <2>1. ServicesInit => Outline!Init
      BY DEF ServicesInit, OutlineRests
    <2>2. QED
      BY <2>1, SyncStart
  <1>2. ASSUME SyncInv, [ServicesNext]_allVars
        PROVE  SyncInv' /\ Spares
    <2>1. Outline!Next \/ UNCHANGED outlineVars
      BY <1>2 DEF ServicesNext, allVars
    <2>2. QED
      BY <1>2, <2>1, SyncStep, SyncRests
  <1>3. ASSUME SyncInv, Spares, NEW t \in Outline!Desired,
               Outline!Entitled(t, Outline!Active) # {}
        PROVE  Outline!Entitled(t, Outline!Active)' # {}
    <2>1. PICK d \in Outline!Active : docs[d].title = t
      BY <1>3 DEF Outline!Entitled
    <2>2. d \in DOMAIN docs /\ Kept(d)
      BY <1>3, ListedKept DEF SyncInv
    <2>3. Kept(d)'
      BY <1>3, <2>1, <2>2, SparedKept DEF SyncInv
    <2>4. QED
      BY <1>3, <2>1, <2>2, <2>3 DEF Kept, Spares, Outline!Entitled
  <1>4. SyncInv /\ [ServicesNext]_allVars =>
          SyncInv' /\ [\A t \in Outline!Desired :
                         Outline!Entitled(t, Outline!Active) # {} =>
                           Outline!Entitled(t, Outline!Active)' # {}]_(Outline!vars)
    BY <1>2, <1>3
  <1>5. QED
    BY <1>1, <1>4, PTL DEF ServicesSpec, TitleNeverLost, Outline!TitleNeverLost

-----------------------------------------------------------------------------
\* The active documents of a title, and more than one of them.
Held(t)  == Outline!Entitled(t, Outline!Active)
Crowd(t) == \E a, b \in Held(t) : a # b

\* The document of a title a run writes to: the oldest it knows.
Chosen(s, t) == Outline!Canonical(Outline!Entitled(t, s.seen))
Knows(s, t)  == Outline!Entitled(t, s.seen) # {}

Groups  == {Root} \cup Hubs
Merging == {"dedupe", "merge", "mergeArchive"}
Over   == {"idle", "done", "failed"}

\* Each document was last updated at a place of its own.
PlacesInv ==
  /\ updated \in Seq(Nat) /\ Len(updated) = Len(docs)
  /\ \A d, e \in DOMAIN docs : /\ updated[d] <= Len(docs)
                               /\ updated[d] = updated[e] => d = e

Latest(d, t) == \A e \in Held(t) : updated[e] <= updated[d]

\* The document of an unmapped title that was updated last has the new text.
FreshInv == \A t \in Legacy : \A d \in Held(t) : Latest(d, t) => docs[d].text = "new"

\* What a run knows of the index and the hubs, from making sure of them on.
HubsKnown(s) ==
  /\ s.pc \in {"ensure", "ensureArchive", "hub"} =>
       s.todo \subseteq Hubs /\ \A t \in Groups \ (s.todo \cup {s.title}) : Knows(s, t)
  /\ s.pc \in {"ensure", "ensureArchive"} => s.title \in Groups
  /\ s.pc \in {"ensureArchive", "hub"} => s.title \in Groups /\ Knows(s, s.title)
  /\ s.pc \in {"targets", "rewrite", "write", "unknown", "indexes"} =>
       \A t \in Groups : Knows(s, t)
  /\ s.pc = "rewrite" => s.todo \subseteq Targets /\ \A t \in s.todo : Knows(s, t)
  /\ s.pc = "write" => /\ s.todo \subseteq Targets /\ \A t \in s.todo : Knows(s, t)
                       /\ s.newest \in DOMAIN docs /\ docs[s.newest].title \in Targets
  /\ s.pc = "targets" => s.todo \subseteq Targets
  /\ s.pc = "indexes" => s.todo \subseteq Hubs

\* What a run that merges duplicates knows of unmapped titles: all of their
\* documents, of several the oldest one, and texts that are new.
DuplicatesKnown(s) ==
  /\ \A t \in Legacy :
       /\ Held(t) \subseteq s.seen
       /\ Crowd(t) => /\ Chosen(s, t) \in Held(t)
                      /\ (\E p \in s.todo : p[1] = t) \/ (s.pc # "dedupe" /\ s.title = t)
  /\ \A p \in s.todo :
       /\ p[1] \in Outline!Titles /\ Knows(s, p[1])
       /\ p[2] \in DOMAIN docs /\ docs[p[2]].title = p[1]
       /\ p[1] \in Legacy => docs[p[2]].text = "new"
  /\ s.pc # "dedupe" => Knows(s, s.title)
  /\ s.title \in Legacy =>
       /\ s.pc = "merge" => s.hold = "new"
       /\ s.pc = "mergeArchive" /\ Crowd(s.title) => Latest(Chosen(s, s.title), s.title)

Informed(s) ==
  /\ s.pc \notin Over => s.seen \subseteq DOMAIN docs /\ HubsKnown(s)
  /\ s.pc \in Merging => DuplicatesKnown(s)
  /\ s.pc \notin Merging \cup Over => \A t \in Legacy : ~Crowd(t)

TextInv ==
  /\ SyncInv /\ PlacesInv /\ FreshInv
  /\ \A r \in Runs : Informed(run[r])

\* What a step does to the documents of unmapped titles: there are no more of
\* them and no new text is lost; where several are left, the oldest is, and
\* stays the last updated one if it was.
Tends ==
  /\ \A d \in DOMAIN docs' : docs'[d].title \in Legacy =>
       /\ d \in DOMAIN docs
       /\ docs'[d].active => docs[d].active
       /\ docs[d].text = "new" => docs'[d].text = "new"
  /\ \A t \in Legacy : Crowd(t)' =>
       \E m \in Held(t) : /\ \A e \in Held(t) : m <= e
                          /\ m \in Held(t)'
                          /\ Latest(m, t) => Latest(m, t)'

LEMMA LeastIsOldest ==
  ASSUME NEW S \in SUBSET Nat, S # {}
  PROVE  /\ Outline!Canonical(S) \in S
         /\ \A e \in S : Outline!Canonical(S) <= e
  <1>1. \E n \in S : \A m \in S : n <= m
    BY LeastOfNats
  <1>2. QED
    BY <1>1 DEF Outline!Canonical, Outline!Least

LEMMA LeastIsOnly ==
  ASSUME NEW S \in SUBSET Nat, NEW m \in S, \A e \in S : m <= e
  PROVE  Outline!Canonical(S) = m
  <1>1. PICK c : c = Outline!Canonical(S)
    OBVIOUS
  <1>2. c \in S /\ c <= m
    BY <1>1, LeastIsOldest
  <1>3. QED
    BY <1>1, <1>2

LEMMA EntitledStays ==
  ASSUME Spares, NEW S \in SUBSET DOMAIN docs, NEW t
  PROVE  Outline!Entitled(t, S)' = Outline!Entitled(t, S)
  BY DEF Spares, Outline!Entitled

LEMMA HeldShrinks ==
  ASSUME Spares, Tends, NEW t \in Legacy
  PROVE  Held(t)' \subseteq Held(t)
  BY DEF Spares, Tends, Held, Outline!Entitled, Outline!Active

\* What a run knows stays true under such steps.
LEMMA StaysInformed ==
  ASSUME SyncInv, Spares, Tends, NEW s, Informed(s)
  PROVE  Informed(s)'
  <1>1. ASSUME s.pc \notin Over
        PROVE  HubsKnown(s)' /\ s.seen \subseteq DOMAIN docs'
    <2>1. s.seen \subseteq DOMAIN docs /\ HubsKnown(s)
      BY <1>1 DEF Informed
    <2>2. \A t : Outline!Entitled(t, s.seen)' = Outline!Entitled(t, s.seen)
      BY <2>1, EntitledStays
    <2>3. \A t : Knows(s, t) => Knows(s, t)'
      BY <2>2 DEF Knows
    <2>4. \A d \in DOMAIN docs : d \in DOMAIN docs' /\ docs'[d].title = docs[d].title
      BY DEF Spares
    <2>5. QED
      BY <2>1, <2>3, <2>4 DEF HubsKnown
  <1>2. ASSUME NEW t \in Legacy, Crowd(t)'
        PROVE  Crowd(t)
    BY <1>2, HeldShrinks DEF Crowd
  <1>3. ASSUME s.pc \in Merging
        PROVE  DuplicatesKnown(s)'
    <2>1. s.seen \subseteq DOMAIN docs /\ DuplicatesKnown(s)
      BY <1>3 DEF Informed, Merging, Over
    <2>2. \A t : Outline!Entitled(t, s.seen)' = Outline!Entitled(t, s.seen)
      BY <2>1, EntitledStays
    <2>3. \A t : (Knows(s, t) => Knows(s, t)') /\ Chosen(s, t)' = Chosen(s, t)
      BY <2>2 DEF Knows, Chosen, Outline!Canonical, Outline!Least
    <2>4. \A t \in Legacy : Held(t)' \subseteq Held(t) /\ Held(t) \subseteq s.seen
      BY <2>1, HeldShrinks DEF DuplicatesKnown
    <2>5. ASSUME NEW t \in Legacy, Crowd(t)'
          PROVE  /\ Chosen(s, t)' \in Held(t)'
                 /\ Latest(Chosen(s, t), t) => Latest(Chosen(s, t), t)'
      <3>1. PICK m \in Held(t) : /\ \A e \in Held(t) : m <= e
                                 /\ m \in Held(t)'
                                 /\ Latest(m, t) => Latest(m, t)'
        BY <2>5 DEF Tends
      <3>2. Chosen(s, t) \in Held(t)
        BY <1>2, <2>1, <2>5 DEF DuplicatesKnown
      <3>3. PICK S : S = Outline!Entitled(t, s.seen)
        OBVIOUS
      <3>4. S \subseteq Nat /\ m \in S
        BY <2>1, <2>4, <3>3, DocsNumbered DEF SyncInv, Held, Outline!Entitled, Outline!Active
      <3>5. Chosen(s, t) = m
        <4>1. PICK c : c = Chosen(s, t)
          OBVIOUS
        <4>2. c \in S /\ c <= m
          BY <3>3, <3>4, <4>1, LeastIsOldest DEF Chosen
        <4>3. m <= c
          BY <3>1, <3>2, <4>1
        <4>4. QED
          BY <3>4, <4>1, <4>2, <4>3
      <3>6. QED
        BY <2>3, <3>1, <3>5
    <2>6. \A t \in Legacy :
             /\ Held(t)' \subseteq s.seen
             /\ Crowd(t)' => /\ Chosen(s, t)' \in Held(t)'
                             /\ \/ \E p \in s.todo : p[1] = t
                                \/ s.pc # "dedupe" /\ s.title = t
      BY <1>2, <2>1, <2>4, <2>5 DEF DuplicatesKnown
    <2>7. ASSUME NEW p \in s.todo
          PROVE  /\ p[1] \in Outline!Titles /\ Knows(s, p[1])'
                 /\ p[2] \in DOMAIN docs' /\ docs'[p[2]].title = p[1]
                 /\ p[1] \in Legacy => docs'[p[2]].text = "new"
      <3>1. /\ p[1] \in Outline!Titles /\ Knows(s, p[1])
            /\ p[2] \in DOMAIN docs /\ docs[p[2]].title = p[1]
            /\ p[1] \in Legacy => docs[p[2]].text = "new"
        BY <2>1 DEF DuplicatesKnown
      <3>2. p[2] \in DOMAIN docs' /\ docs'[p[2]].title = docs[p[2]].title
        BY <3>1 DEF Spares
      <3>3. QED
        BY <2>3, <3>1, <3>2 DEF Tends
    <2>8. s.title \in Legacy /\ s.pc = "mergeArchive" /\ Crowd(s.title)' =>
            Latest(Chosen(s, s.title), s.title)'
      BY <1>2, <2>1, <2>3, <2>5 DEF DuplicatesKnown
    <2>9. QED
      BY <2>1, <2>3, <2>6, <2>7, <2>8 DEF DuplicatesKnown
  <1>4. QED
    BY <1>1, <1>2, <1>3 DEF Informed

-----------------------------------------------------------------------------
\* The calls, and the documents of unmapped titles.
LEMMA HeldNumbered ==
  ASSUME SyncInv, NEW t
  PROVE  Held(t) \subseteq DOMAIN docs /\ Held(t) \subseteq Nat
  BY DocsNumbered DEF SyncInv, Held, Outline!Entitled, Outline!Active

LEMMA UntouchedTends ==
  ASSUME SyncInv, Spares,
         \A d \in DOMAIN docs' : docs'[d].title \in Legacy =>
           /\ d \in DOMAIN docs
           /\ docs'[d].text = docs[d].text /\ docs'[d].active = docs[d].active,
         \A a, b \in DOMAIN docs : docs[a].title \in Legacy /\ docs[b].title \in Legacy =>
           (updated'[a] <= updated'[b] <=> updated[a] <= updated[b])
  PROVE  Tends /\ (FreshInv => FreshInv')
  <1>1. ASSUME NEW t \in Legacy
        PROVE  Held(t)' = Held(t)
    BY DEF Held, Outline!Entitled, Outline!Active, Spares
  <1>2. ASSUME NEW t \in Legacy, NEW d \in Held(t)
        PROVE  Latest(d, t)' <=> Latest(d, t)
    <2>1. \A e \in Held(t) : e \in DOMAIN docs /\ docs[e].title \in Legacy
      BY HeldNumbered DEF Held, Outline!Entitled
    <2>2. QED
      BY <1>1, <1>2, <2>1 DEF Latest
  <1>3. ASSUME NEW t \in Legacy, Crowd(t)'
        PROVE  \E m \in Held(t) : /\ \A e \in Held(t) : m <= e
                                  /\ m \in Held(t)'
                                  /\ Latest(m, t) => Latest(m, t)'
    <2>1. Held(t) # {}
      BY <1>1, <1>3 DEF Crowd
    <2>2. PICK m \in Held(t) : \A e \in Held(t) : m <= e
      BY <2>1, HeldNumbered, LeastOfNats
    <2>3. QED
      BY <1>1, <1>2, <2>2
  <1>4. Tends
    BY <1>3 DEF Tends
  <1>5. ASSUME FreshInv, NEW t \in Legacy, NEW d \in Held(t)', Latest(d, t)'
        PROVE  docs'[d].text = "new"
    <2>1. d \in Held(t) /\ Latest(d, t)
      BY <1>1, <1>2, <1>5
    <2>2. docs[d].text = "new"
      BY <1>5, <2>1 DEF FreshInv
    <2>3. d \in DOMAIN docs' /\ docs'[d].title \in Legacy
      BY <1>5 DEF Held, Outline!Entitled, Outline!Active
    <2>4. QED
      BY <2>2, <2>3
  <1>6. QED
    BY <1>4, <1>5 DEF FreshInv

LEMMA TouchedPlaces ==
  ASSUME SyncInv, PlacesInv, NEW d \in DOMAIN docs, updated' = Outline!Touched(d),
         DOMAIN docs' = DOMAIN docs, Len(docs') = Len(docs)
  PROVE  /\ PlacesInv'
         /\ \A e \in DOMAIN docs : updated'[e] <= updated'[d]
         /\ \A a, b \in DOMAIN docs \ {d} :
              updated'[a] <= updated'[b] <=> updated[a] <= updated[b]
  <1>1. PICK n \in Nat : /\ n = Len(docs) /\ DOMAIN docs = 1..n
                         /\ DOMAIN updated = 1..n /\ updated \in [1..n -> Nat]
    BY DEF SyncInv, DocsInv, PlacesInv
  <1>2. updated' = [e \in 1..n |-> IF e = d THEN n
                                   ELSE IF updated[e] > updated[d] THEN updated[e] - 1
                                   ELSE updated[e]]
    BY <1>1 DEF Outline!Touched
  <1>3. \A e \in 1..n : /\ updated[e] \in Nat /\ updated[e] <= n
                        /\ e # d => updated[e] # updated[d]
    BY <1>1 DEF PlacesInv
  <1>4. \A e \in 1..n : updated'[e] = IF e = d THEN n
                                      ELSE IF updated[e] > updated[d] THEN updated[e] - 1
                                      ELSE updated[e]
    BY <1>2
  <1>5. \A e \in 1..n : updated'[e] \in Nat /\ updated'[e] <= n /\ (e # d => updated'[e] < n)
    BY <1>1, <1>3, <1>4
  <1>6. \A a, b \in 1..n : a # d /\ b # d =>
          /\ updated'[a] <= updated'[b] <=> updated[a] <= updated[b]
          /\ updated'[a] = updated'[b] => updated[a] = updated[b]
    BY <1>1, <1>3, <1>4
  <1>7. updated' \in Seq(Nat) /\ Len(updated') = n
    BY <1>2, <1>5
  <1>8. \A a, b \in 1..n : updated'[a] = updated'[b] => a = b
    <2>1. \A a, b \in 1..n : a # d /\ b # d /\ updated'[a] = updated'[b] => a = b
      BY <1>1, <1>6 DEF PlacesInv
    <2>2. updated'[d] = n
      BY <1>1, <1>4
    <2>3. QED
      BY <1>5, <2>1, <2>2
  <1>9. PlacesInv'
    BY <1>1, <1>5, <1>7, <1>8 DEF PlacesInv
  <1>10. QED
    BY <1>1, <1>4, <1>5, <1>6, <1>9

\* What the steps of a run share: the documents tend, texts stay fresh.
Fresh == Tends /\ PlacesInv' /\ FreshInv'

LEMMA SameFresh ==
  ASSUME SyncInv, PlacesInv, FreshInv, UNCHANGED <<docs, updated>>
  PROVE  Spares /\ Fresh
  <1>1. Spares
    BY SameSpares DEF SyncInv
  <1>2. PlacesInv'
    BY DEF PlacesInv
  <1>3. QED
    BY <1>1, <1>2, UntouchedTends DEF Fresh

\* An update of an active document, and of an archived one.
LEMMA UpdateIs ==
  ASSUME SyncInv, NEW d \in DOMAIN docs, NEW w, Outline!Update(d, w),
         DOMAIN w = DOMAIN docs[d], w.title = docs[d].title, w.active = docs[d].active
  PROVE  /\ DOMAIN docs' = DOMAIN docs /\ Len(docs') = Len(docs)
         /\ \/ d \notin Outline!Active /\ UNCHANGED <<docs, updated>>
            \/ /\ d \in Outline!Active /\ updated' = Outline!Touched(d)
               /\ \A e \in DOMAIN docs : docs'[e] = IF e = d THEN w ELSE docs[e]
  <1>1. PICK W : docs \in Seq(W) /\ \A x \in W : Columns \subseteq DOMAIN x
    BY DEF SyncInv, DocsInv
  <1>2. CASE docs[d].active
    <2>1. docs' = [docs EXCEPT ![d] = w] /\ updated' = Outline!Touched(d)
      BY <1>2 DEF Outline!Update
    <2>2. QED
      BY <1>1, <1>2, <2>1 DEF Outline!Active
  <1>3. CASE ~docs[d].active
    <2>1. UNCHANGED <<docs, updated>>
      BY <1>3 DEF Outline!Update, Outline!Same
    <2>2. QED
      BY <1>3, <2>1 DEF Outline!Active
  <1>4. QED
    BY <1>2, <1>3

LEMMA UpdateFresh ==
  ASSUME SyncInv, PlacesInv, FreshInv, NEW d \in DOMAIN docs, docs[d].title \notin Legacy,
         NEW w, Outline!Update(d, w),
         DOMAIN w = DOMAIN docs[d], w.title = docs[d].title, w.active = docs[d].active
  PROVE  Spares /\ Fresh
  <1>1. CASE UNCHANGED <<docs, updated>>
    BY <1>1, SameFresh
  <1>2. CASE /\ d \in Outline!Active /\ updated' = Outline!Touched(d)
             /\ \A e \in DOMAIN docs : docs'[e] = IF e = d THEN w ELSE docs[e]
    <2>1. Spares
      BY UpdateSpares DEF SyncInv
    <2>2. DOMAIN docs' = DOMAIN docs /\ Len(docs') = Len(docs)
      BY UpdateIs
    <2>3. PlacesInv' /\ \A a, b \in DOMAIN docs \ {d} :
                          updated'[a] <= updated'[b] <=> updated[a] <= updated[b]
      BY <1>2, <2>2, TouchedPlaces
    <2>4. \A e \in DOMAIN docs' : docs'[e].title \in Legacy =>
            e \in DOMAIN docs /\ e # d /\ docs'[e] = docs[e]
      BY <1>2, <2>2
    <2>5. Tends /\ FreshInv'
      BY <2>1, <2>3, <2>4, UntouchedTends
    <2>6. QED
      BY <2>1, <2>3, <2>5 DEF Fresh
  <1>3. QED
    BY <1>1, <1>2, UpdateIs

LEMMA CreateFresh ==
  ASSUME SyncInv, PlacesInv, FreshInv, NEW t, t \notin Legacy, NEW text, NEW parent,
         Outline!Create(t, text, parent)
  PROVE  Spares /\ Fresh
  <1>1. Spares
    BY CreateSpares DEF SyncInv
  <1>2. PICK w : w.title = t /\ docs' = Append(docs, w)
    BY DEF Outline!Create
  <1>3. PICK n \in Nat : n = Len(docs) /\ DOMAIN docs = 1..n
    BY DEF SyncInv, DocsInv
  <1>4. /\ DOMAIN docs' = 1..(n + 1) /\ docs'[n + 1] = w /\ Len(docs') = n + 1
        /\ \A e \in 1..n : docs'[e] = docs[e]
    BY <1>2, <1>3 DEF SyncInv, DocsInv
  <1>5. updated' = Append(updated, n + 1)
    BY <1>3 DEF Outline!Create
  <1>6. /\ updated \in Seq(Nat) /\ Len(updated) = n
        /\ \A d, e \in 1..n : updated[d] <= n /\ (updated[d] = updated[e] => d = e)
    BY <1>3 DEF PlacesInv
  <1>7. /\ updated' \in Seq(Nat) /\ Len(updated') = n + 1
        /\ updated'[n + 1] = n + 1 /\ \A e \in 1..n : updated'[e] = updated[e] /\ updated[e] \in Nat
    BY <1>5, <1>6
  <1>8. PlacesInv'
    <2>1. ASSUME NEW d \in 1..(n + 1), NEW e \in 1..(n + 1)
          PROVE  /\ updated'[d] <= n + 1
                 /\ updated'[d] = updated'[e] => d = e
      <3>1. d \in 1..n \/ d = n + 1
        BY <1>3
      <3>2. e \in 1..n \/ e = n + 1
        BY <1>3
      <3>3. QED
        BY <1>3, <1>6, <1>7, <3>1, <3>2
    <2>2. QED
      BY <1>4, <1>7, <2>1 DEF PlacesInv
  <1>9. \A e \in DOMAIN docs' : docs'[e].title \in Legacy =>
          e \in DOMAIN docs /\ docs'[e] = docs[e]
    <2>1. \A e \in 1..(n + 1) : e \in 1..n \/ e = n + 1
      BY <1>3
    <2>2. QED
      BY <1>2, <1>3, <1>4, <2>1
  <1>10. Tends /\ FreshInv'
    <2>1. \A a, b \in DOMAIN docs : updated'[a] <= updated'[b] <=> updated[a] <= updated[b]
      BY <1>3, <1>7
    <2>2. QED
      BY <1>1, <1>9, <2>1, UntouchedTends
  <1>11. QED
    BY <1>1, <1>8, <1>10 DEF Fresh

LEMMA ArchiveIs ==
  ASSUME SyncInv, NEW d \in DOMAIN docs, Outline!Archive(d)
  PROVE  /\ DOMAIN docs' = DOMAIN docs /\ Len(docs') = Len(docs) /\ UNCHANGED updated
         /\ Outline!Active' = Outline!Active \ {d}
         /\ \A e \in DOMAIN docs : docs'[e].title = docs[e].title /\ docs'[e].text = docs[e].text
                                   /\ docs'[e].parent = docs[e].parent
                                   /\ docs'[e].lists = docs[e].lists
  <1>1. PICK W : docs \in Seq(W) /\ \A x \in W : Columns \subseteq DOMAIN x
    BY DEF SyncInv, DocsInv
  <1>2. PICK w : w = [docs[d] EXCEPT !.active = FALSE]
    OBVIOUS
  <1>3. Columns \subseteq DOMAIN docs[d]
    BY <1>1
  <1>4. /\ w.title = docs[d].title /\ w.text = docs[d].text /\ w.parent = docs[d].parent
        /\ w.lists = docs[d].lists /\ w.active = FALSE
    BY <1>2, <1>3 DEF Columns
  <1>5. docs' = [docs EXCEPT ![d] = w] /\ UNCHANGED updated
    BY <1>2 DEF Outline!Archive
  <1>6. /\ DOMAIN docs' = DOMAIN docs /\ Len(docs') = Len(docs)
        /\ \A e \in DOMAIN docs : docs'[e] = IF e = d THEN w ELSE docs[e]
    BY <1>1, <1>5
  <1>7. Outline!Active' = Outline!Active \ {d}
    BY <1>4, <1>6 DEF Outline!Active
  <1>8. QED
    BY <1>4, <1>5, <1>6, <1>7

\* A document that is archived is not the last of a crowd to be updated, nor
\* the oldest of it.
LEMMA ArchiveFresh ==
  ASSUME SyncInv, PlacesInv, FreshInv, NEW d \in DOMAIN docs, Outline!Archive(d), Spares,
         d \in Outline!Active /\ docs[d].title \in Legacy /\ Crowd(docs[d].title) =>
           \E m \in Held(docs[d].title) : /\ m # d /\ Latest(m, docs[d].title)
                                         /\ \A e \in Held(docs[d].title) : m <= e
  PROVE  Fresh
  <1>1. PlacesInv'
    BY ArchiveIs DEF PlacesInv
  <1>2. \A t : Held(t)' = Held(t) \ {d}
    BY ArchiveIs DEF Held, Outline!Entitled, Outline!Active
  <1>3. ASSUME NEW t \in Legacy, Held(t)' # {}
        PROVE  \E m \in Held(t) : /\ m \in Held(t)' /\ \A e \in Held(t) : m <= e
                                  /\ d \in Held(t) => Latest(m, t)
    <2>1. CASE d \in Held(t)
      <3>1. docs[d].title = t /\ d \in Outline!Active
        BY <2>1 DEF Held, Outline!Entitled
      <3>2. Crowd(t)
        BY <1>2, <1>3, <2>1 DEF Crowd
      <3>3. QED
        BY <1>2, <3>1, <3>2
    <2>2. CASE d \notin Held(t)
      <3>1. Held(t)' = Held(t)
        BY <1>2, <2>2
      <3>2. PICK m \in Held(t) : \A e \in Held(t) : m <= e
        BY <1>3, <3>1, HeldNumbered, LeastOfNats
      <3>3. QED
        BY <2>2, <3>1, <3>2
    <2>3. QED
      BY <2>1, <2>2
  <1>4. \A m, t : Latest(m, t) => Latest(m, t)'
    BY <1>2, ArchiveIs DEF Latest
  <1>5. Tends
    <2>1. \A e \in DOMAIN docs' : /\ e \in DOMAIN docs
                                  /\ docs'[e].active => docs[e].active
                                  /\ docs'[e].text = docs[e].text
      BY ArchiveIs DEF Outline!Active
    <2>2. ASSUME NEW t \in Legacy, Crowd(t)'
          PROVE  \E m \in Held(t) : /\ \A e \in Held(t) : m <= e
                                    /\ m \in Held(t)'
                                    /\ Latest(m, t) => Latest(m, t)'
      <3>1. Held(t)' # {}
        BY <2>2 DEF Crowd
      <3>2. QED
        BY <1>3, <1>4, <3>1
    <2>3. QED
      BY <2>1, <2>2 DEF Tends
  <1>6. ASSUME NEW t \in Legacy, NEW e \in Held(t)', Latest(e, t)'
        PROVE  docs'[e].text = "new"
    <2>1. e \in Held(t) /\ e \in DOMAIN docs
      BY <1>2, HeldNumbered
    <2>2. Latest(e, t)
      <3>1. CASE d \in Held(t)
        <4>1. PICK m \in Held(t) : m \in Held(t)' /\ Latest(m, t)
          BY <1>3, <1>6, <3>1
        <4>2. updated[m] <= updated[e]
          BY <1>6, <4>1, ArchiveIs DEF Latest
        <4>3. \A f \in Held(t) : updated[f] <= updated[m] /\ updated[f] \in Nat
          BY <4>1, HeldNumbered DEF Latest, PlacesInv
        <4>4. QED
          BY <2>1, <4>1, <4>2, <4>3 DEF Latest
      <3>2. CASE d \notin Held(t)
        BY <1>2, <1>6, <3>2, ArchiveIs DEF Latest
      <3>3. QED
        BY <3>1, <3>2
    <2>3. docs[e].text = "new"
      BY <2>1, <2>2 DEF FreshInv
    <2>4. QED
      BY <2>1, <2>3, ArchiveIs
  <1>7. QED
    BY <1>1, <1>5, <1>6 DEF Fresh, FreshInv

-----------------------------------------------------------------------------
\* Where the steps of a run take it.
Went(r, s) == Outline!Goes(r, s) /\ Fields \subseteq DOMAIN s
Parents == [d \in Outline!Active |-> docs[d].parent]
Stays == UNCHANGED <<docs, updated>>

LEMMA SameNumber == ASSUME NEW S PROVE Outline!Cardinality(S) = Cardinality(S)
  BY Zenon DEF Outline!Cardinality, Cardinality

LEMMA FirstListGoes ==
  ASSUME SyncInv, NEW r \in Runs, Outline!FirstList(r)
  PROVE  /\ run[r].pc = "idle" /\ Stays
         /\ \E s : /\ Went(r, s) /\ s.pc = "dedupe"
                   /\ s.seen = Outline!Active /\ s.parent = Parents
                   /\ s.todo = {<<t, Outline!Newest(Held(t))>> :
                                  t \in {u \in Outline!Titles : Outline!Cardinality(Held(u)) > 1}}
  <1>1. PICK todo, s :
          /\ todo = {<<t, Outline!Newest(Held(t))>> :
                       t \in {u \in Outline!Titles : Outline!Cardinality(Held(u)) > 1}}
          /\ s = [[run[r] EXCEPT !.seen = Outline!Active, !.parent = Parents]
                    EXCEPT !.pc = "dedupe", !.todo = todo]
          /\ Outline!Goes(r, s)
    BY DEF Outline!FirstList, Outline!Listing, Parents, Held
  <1>2. /\ s.pc = "dedupe" /\ s.seen = Outline!Active /\ s.parent = Parents /\ s.todo = todo
        /\ Fields \subseteq DOMAIN s
    BY <1>1, RunFields DEF Fields
  <1>3. QED
    BY <1>1, <1>2 DEF Outline!FirstList, Outline!Same, Went, Stays

LEMMA ReadNewestGoes ==
  ASSUME SyncInv, NEW r \in Runs, Outline!ReadNewest(r)
  PROVE  /\ run[r].pc = "dedupe" /\ Stays
         /\ \E p, s :
              /\ p \in run[r].todo /\ Went(r, s) /\ s.pc = "merge" /\ s.title = p[1] /\ s.newest = p[2]
              /\ s.todo = run[r].todo \ {p} /\ s.hold = docs[p[2]].text
              /\ s.seen = run[r].seen /\ s.parent = run[r].parent
  <1>1. PICK p \in run[r].todo :
          Outline!Goes(r, [run[r] EXCEPT !.pc = "merge", !.title = p[1], !.newest = p[2],
                                         !.todo = @ \ {p}, !.hold = docs[p[2]].text])
    BY DEF Outline!ReadNewest
  <1>2. PICK s : s = [run[r] EXCEPT !.pc = "merge", !.title = p[1], !.newest = p[2],
                                    !.todo = @ \ {p}, !.hold = docs[p[2]].text]
    OBVIOUS
  <1>3. /\ s.pc = "merge" /\ s.title = p[1] /\ s.newest = p[2] /\ s.hold = docs[p[2]].text
        /\ s.todo = run[r].todo \ {p} /\ s.seen = run[r].seen /\ s.parent = run[r].parent
        /\ Fields \subseteq DOMAIN s
    BY <1>2, RunFields DEF Fields
  <1>4. QED
    BY <1>1, <1>2, <1>3 DEF Outline!ReadNewest, Outline!Same, Went, Stays

LEMMA MergeTextGoes ==
  ASSUME SyncInv, NEW r \in Runs, Outline!MergeText(r)
  PROVE  /\ run[r].pc = "merge"
         /\ \E d, w : /\ d = Chosen(run[r], run[r].title)
                      /\ Outline!Update(d, w) /\ w = [docs[d] EXCEPT !.text = run[r].hold]
         /\ \E s : /\ Went(r, s) /\ s.pc = "mergeArchive" /\ s.todo = run[r].todo
                   /\ s.title = run[r].title /\ s.seen = run[r].seen
                   /\ s.parent = run[r].parent
  <1>1. PICK s : s = [run[r] EXCEPT !.pc = "mergeArchive"] /\ Outline!Goes(r, s)
    BY DEF Outline!MergeText
  <1>2. /\ s.pc = "mergeArchive" /\ s.todo = run[r].todo /\ s.title = run[r].title
        /\ s.seen = run[r].seen /\ s.parent = run[r].parent /\ Fields \subseteq DOMAIN s
    BY <1>1, RunFields DEF Fields
  <1>3. QED
    BY <1>1, <1>2 DEF Outline!MergeText, Went, Chosen

\* Where a run goes from the index and the hubs.
After(s, q) ==
  /\ s.seen = q.seen /\ s.parent = q.parent /\ s.title = q.title
  /\ \/ q.todo = {} /\ s.pc = "targets" /\ s.todo = Targets
     \/ q.todo # {} /\ s.pc = "hub" /\ s.todo = q.todo

LEMMA AfterEnsureGoes ==
  ASSUME NEW q, Fields \subseteq DOMAIN q
  PROVE  After(Outline!AfterEnsure(q), q) /\ Fields \subseteq DOMAIN Outline!AfterEnsure(q)
  BY DEF After, Outline!AfterEnsure, Fields

LEMMA ArchiveExtraGoes ==
  ASSUME SyncInv, NEW r \in Runs, Outline!ArchiveExtra(r)
  PROVE  \E d, q, s :
           /\ d \in Outline!Extras(r) /\ run[r].pc \in {"mergeArchive", "ensureArchive"}
           /\ Outline!Archive(d) /\ Went(r, s)
           /\ q.todo = run[r].todo /\ q.title = run[r].title
           /\ q.seen = run[r].seen \ {d} /\ q.parent = run[r].parent
           /\ \/ /\ Outline!Extras(r) # {d} /\ s.pc = run[r].pc
                 /\ s.todo = q.todo /\ s.title = q.title
                 /\ s.seen = q.seen /\ s.parent = q.parent
              \/ /\ Outline!Extras(r) = {d} /\ run[r].pc = "mergeArchive"
                 /\ s.pc = "dedupe" /\ s.todo = q.todo /\ s.title = q.title
                 /\ s.seen = q.seen /\ s.parent = q.parent
              \/ run[r].pc = "ensureArchive" /\ After(s, q)
  <1>1. run[r].pc \in {"mergeArchive", "ensureArchive"}
    BY DEF Outline!ArchiveExtra
  <1>2. PICK d, q, s :
          /\ d \in Outline!Extras(r) /\ Outline!Archive(d) /\ Outline!Goes(r, s)
          /\ q = [run[r] EXCEPT !.seen = @ \ {d}]
          /\ s = IF Outline!Extras(r) # {d} THEN q
                 ELSE IF run[r].pc = "mergeArchive" THEN [q EXCEPT !.pc = "dedupe"]
                 ELSE Outline!AfterEnsure(q)
    BY DEF Outline!ArchiveExtra
  <1>3. /\ q.todo = run[r].todo /\ q.title = run[r].title /\ q.pc = run[r].pc
        /\ q.seen = run[r].seen \ {d} /\ q.parent = run[r].parent /\ Fields \subseteq DOMAIN q
    BY <1>2, RunFields DEF Fields
  <1>4. CASE Outline!Extras(r) # {d}
    <2>1. s = q
      BY <1>2, <1>4
    <2>2. /\ s.pc = run[r].pc /\ s.todo = q.todo /\ s.title = q.title
          /\ s.seen = q.seen /\ s.parent = q.parent /\ Fields \subseteq DOMAIN s
      BY <1>3, <2>1
    <2>3. QED
      BY <1>1, <1>2, <1>3, <1>4, <2>2 DEF Went
  <1>5. CASE Outline!Extras(r) = {d} /\ run[r].pc = "mergeArchive"
    <2>1. s = [q EXCEPT !.pc = "dedupe"]
      BY <1>2, <1>5
    <2>2. /\ s.pc = "dedupe" /\ s.todo = q.todo /\ s.title = q.title
          /\ s.seen = q.seen /\ s.parent = q.parent /\ Fields \subseteq DOMAIN s
      BY <1>3, <2>1 DEF Fields
    <2>3. Outline!Archive(d) /\ Went(r, s) /\ d \in Outline!Extras(r)
      BY <1>2, <2>2 DEF Went
    <2>4. QED
      BY <1>3, <1>5, <2>2, <2>3, Zenon
  <1>6. CASE Outline!Extras(r) = {d} /\ run[r].pc = "ensureArchive"
    <2>1. s = Outline!AfterEnsure(q)
      BY <1>2, <1>6
    <2>2. After(s, q) /\ Fields \subseteq DOMAIN s
      BY <1>3, <2>1, AfterEnsureGoes
    <2>3. QED
      BY <1>1, <1>2, <1>3, <1>6, <2>2 DEF Went
  <1>7. QED
    BY <1>1, <1>4, <1>5, <1>6

LEMMA SecondListGoes ==
  ASSUME SyncInv, NEW r \in Runs, Outline!SecondList(r)
  PROVE  /\ run[r].pc = "dedupe" /\ run[r].todo = {} /\ Stays
         /\ \E s : /\ Went(r, s) /\ s.pc = "ensure" /\ s.title = Root /\ s.todo = Hubs
                   /\ s.seen = Outline!Active /\ s.parent = Parents
  <1>1. PICK s :
          /\ s = [[run[r] EXCEPT !.seen = Outline!Active, !.parent = Parents]
                    EXCEPT !.pc = "ensure", !.title = Root, !.todo = Hubs]
          /\ Outline!Goes(r, s)
    BY DEF Outline!SecondList, Outline!Listing, Parents
  <1>2. /\ s.pc = "ensure" /\ s.title = Root /\ s.todo = Hubs
        /\ s.seen = Outline!Active /\ s.parent = Parents /\ Fields \subseteq DOMAIN s
    BY <1>1, RunFields DEF Fields
  <1>3. QED
    BY <1>1, <1>2 DEF Outline!SecondList, Outline!Same, Went, Stays

LEMMA NextHubGoes ==
  ASSUME SyncInv, NEW r \in Runs, Outline!NextHub(r)
  PROVE  /\ run[r].pc = "hub" /\ Stays
         /\ \E h, s :
              /\ h \in run[r].todo /\ Went(r, s) /\ s.pc = "ensure" /\ s.title = h /\ s.todo = run[r].todo \ {h}
              /\ s.seen = run[r].seen /\ s.parent = run[r].parent
  <1>1. PICK h, s :
          /\ h \in run[r].todo
          /\ s = [run[r] EXCEPT !.pc = "ensure", !.title = h, !.todo = @ \ {h}]
          /\ Outline!Goes(r, s)
    BY DEF Outline!NextHub
  <1>2. /\ s.pc = "ensure" /\ s.title = h /\ s.todo = run[r].todo \ {h}
        /\ s.seen = run[r].seen /\ s.parent = run[r].parent /\ Fields \subseteq DOMAIN s
    BY <1>1, RunFields DEF Fields
  <1>3. QED
    BY <1>1, <1>2 DEF Outline!NextHub, Outline!Same, Went, Stays

LEMMA EnsureExistingGoes ==
  ASSUME SyncInv, NEW r \in Runs, Outline!EnsureExisting(r)
  PROVE  /\ run[r].pc = "ensure" /\ Knows(run[r], run[r].title)
         /\ \E d, w : /\ d = Chosen(run[r], run[r].title) /\ Outline!Update(d, w)
                      /\ w = [docs[d] EXCEPT !.text = "stub", !.lists = {},
                                !.parent = IF run[r].title = Root THEN @
                                           ELSE Outline!ParentFor(r, run[r].title)]
         /\ \E s : /\ Went(r, s)
                   /\ \/ Outline!Extras(r) = {} /\ After(s, run[r])
                      \/ /\ Outline!Extras(r) # {} /\ s.pc = "ensureArchive"
                         /\ s.todo = run[r].todo /\ s.title = run[r].title
                         /\ s.seen = run[r].seen /\ s.parent = run[r].parent
  <1>1. PICK s : /\ Outline!Goes(r, s)
                 /\ s = IF Outline!Extras(r) = {} THEN Outline!AfterEnsure(run[r])
                        ELSE [run[r] EXCEPT !.pc = "ensureArchive"]
    BY DEF Outline!EnsureExisting
  <1>2. CASE Outline!Extras(r) = {}
    <2>1. After(s, run[r]) /\ Fields \subseteq DOMAIN s
      BY <1>1, <1>2, RunFields, AfterEnsureGoes
    <2>2. Went(r, s)
      BY <1>1, <2>1 DEF Went
    <2>3. QED
      BY <1>2, <2>1, <2>2 DEF Outline!EnsureExisting, Knows, Chosen, Outline!Known
  <1>3. CASE Outline!Extras(r) # {}
    <2>1. /\ s.pc = "ensureArchive" /\ s.todo = run[r].todo /\ s.title = run[r].title
          /\ s.seen = run[r].seen /\ s.parent = run[r].parent /\ Fields \subseteq DOMAIN s
      BY <1>1, <1>3, RunFields DEF Fields
    <2>2. Went(r, s)
      BY <1>1, <2>1 DEF Went
    <2>3. QED
      BY <1>3, <2>1, <2>2 DEF Outline!EnsureExisting, Knows, Chosen, Outline!Known
  <1>4. QED
    BY <1>2, <1>3

LEMMA EnsureMissingGoes ==
  ASSUME SyncInv, NEW r \in Runs, Outline!EnsureMissing(r)
  PROVE  /\ run[r].pc = "ensure" /\ ~Knows(run[r], run[r].title)
         /\ Outline!Create(run[r].title, "stub", Outline!ParentFor(r, run[r].title))
         /\ \E q, s : /\ Went(r, s) /\ After(s, q)
                      /\ q.todo = run[r].todo /\ q.title = run[r].title
                      /\ q.seen = run[r].seen \cup {Len(docs) + 1}
                      /\ q.parent = run[r].parent
  <1>1. PICK q, s : /\ q = [run[r] EXCEPT !.seen = @ \cup {Len(docs) + 1}]
                    /\ s = Outline!AfterEnsure(q) /\ Outline!Goes(r, s)
    BY DEF Outline!EnsureMissing
  <1>2. /\ q.todo = run[r].todo /\ q.title = run[r].title
        /\ q.seen = run[r].seen \cup {Len(docs) + 1} /\ q.parent = run[r].parent
        /\ Fields \subseteq DOMAIN q
    BY <1>1, RunFields DEF Fields
  <1>3. After(s, q) /\ Fields \subseteq DOMAIN s
    BY <1>1, <1>2, AfterEnsureGoes
  <1>4. QED
    BY <1>1, <1>2, <1>3 DEF Outline!EnsureMissing, Went, Knows

LEMMA CreateTargetGoes ==
  ASSUME SyncInv, NEW r \in Runs, Outline!CreateTarget(r)
  PROVE  /\ run[r].pc = "targets"
         /\ \E t, s : /\ t \in run[r].todo /\ ~Knows(run[r], t)
                      /\ Outline!Create(t, "raw", Outline!ParentFor(r, t))
                      /\ Went(r, s) /\ s.pc = "targets" /\ s.todo = run[r].todo \ {t}
                      /\ s.seen = run[r].seen \cup {Len(docs) + 1}
                      /\ s.parent = run[r].parent
  <1>1. PICK t, s : /\ t \in run[r].todo /\ ~Knows(run[r], t)
                    /\ Outline!Create(t, "raw", Outline!ParentFor(r, t))
                    /\ Outline!Goes(r, s)
                    /\ s = [run[r] EXCEPT !.seen = @ \cup {Len(docs) + 1}, !.todo = @ \ {t}]
    BY DEF Outline!CreateTarget, Knows
  <1>2. run[r].pc = "targets"
    BY DEF Outline!CreateTarget
  <1>3. /\ s.pc = "targets" /\ s.todo = run[r].todo \ {t} /\ Fields \subseteq DOMAIN s
        /\ s.seen = run[r].seen \cup {Len(docs) + 1} /\ s.parent = run[r].parent
    BY <1>1, <1>2, RunFields DEF Fields
  <1>4. QED
    BY <1>1, <1>2, <1>3 DEF Went

LEMMA ThirdListGoes ==
  ASSUME SyncInv, NEW r \in Runs, Outline!ThirdList(r)
  PROVE  /\ run[r].pc = "targets" /\ Stays
         /\ \A t \in run[r].todo : Knows(run[r], t)
         /\ \E s : /\ Went(r, s) /\ s.pc = "rewrite"
                   /\ s.seen = Outline!Active \cup {Chosen(run[r], g) : g \in Groups}
                   /\ s.todo = {t \in Targets : Held(t) # {}}
                   /\ s.parent = Parents
  <1>1. PICK known, todo, s :
          /\ known = Outline!Active \cup {Chosen(run[r], g) : g \in Groups}
          /\ todo = {t \in Targets : Held(t) # {}}
          /\ s = [[run[r] EXCEPT !.seen = Outline!Active, !.parent = Parents]
                    EXCEPT !.pc = "rewrite", !.seen = known, !.todo = todo]
          /\ Outline!Goes(r, s)
    BY DEF Outline!ThirdList, Outline!Listing, Outline!Known, Parents, Held, Chosen, Groups
  <1>2. /\ s.pc = "rewrite" /\ s.seen = known /\ s.todo = todo /\ s.parent = Parents
        /\ Fields \subseteq DOMAIN s
    BY <1>1, RunFields DEF Fields
  <1>3. QED
    BY <1>1, <1>2 DEF Outline!ThirdList, Outline!Same, Went, Stays, Knows

LEMMA RewriteGoes ==
  ASSUME SyncInv, NEW r \in Runs, Outline!Rewrite(r)
  PROVE  /\ run[r].pc = "rewrite" /\ Stays
         /\ \E t, d, s :
              /\ t \in run[r].todo /\ d = Chosen(run[r], t)
              /\ Went(r, s) /\ s.todo = run[r].todo \ {t} /\ s.newest = d
              /\ s.seen = run[r].seen /\ s.parent = run[r].parent
              /\ \/ /\ docs[d].text = "final" /\ run[r].parent[d] = Chosen(run[r], HubOf[t])
                    /\ s.pc = "rewrite"
                 \/ s.pc = "write" /\ s.title = t
  <1>1. PICK t, d, hub, q, s :
          /\ t \in run[r].todo /\ d = Chosen(run[r], t) /\ hub = Chosen(run[r], HubOf[t])
          /\ q = [run[r] EXCEPT !.todo = @ \ {t}, !.newest = d]
          /\ s = IF docs[d].text = "final" /\ run[r].parent[d] = hub THEN q
                 ELSE [q EXCEPT !.pc = "write", !.title = t]
          /\ Outline!Goes(r, s)
    <2>1. PICK t \in run[r].todo :
            LET d == Chosen(run[r], t)
                hub == Chosen(run[r], HubOf[t])
                q == [run[r] EXCEPT !.todo = @ \ {t}, !.newest = d]
            IN  IF docs[d].text = "final" /\ run[r].parent[d] = hub
                THEN Outline!Goes(r, q)
                ELSE Outline!Goes(r, [q EXCEPT !.pc = "write", !.title = t])
      BY DEF Outline!Rewrite, Outline!Known, Chosen
    <2>2. QED
      BY <2>1
  <1>2. run[r].pc = "rewrite"
    BY DEF Outline!Rewrite
  <1>3. /\ q.pc = "rewrite" /\ q.todo = run[r].todo \ {t} /\ q.newest = d
        /\ q.seen = run[r].seen /\ q.parent = run[r].parent /\ Fields \subseteq DOMAIN q
    BY <1>1, <1>2, RunFields DEF Fields
  <1>4. /\ s.todo = run[r].todo \ {t} /\ s.newest = d
        /\ s.seen = run[r].seen /\ s.parent = run[r].parent /\ Fields \subseteq DOMAIN s
        /\ \/ /\ docs[d].text = "final" /\ run[r].parent[d] = Chosen(run[r], HubOf[t])
              /\ s.pc = "rewrite"
           \/ s.pc = "write" /\ s.title = t
    BY <1>1, <1>3 DEF Fields
  <1>5. Stays /\ Went(r, s)
    BY <1>1, <1>4 DEF Outline!Rewrite, Outline!Same, Went, Stays
  <1>6. t \in run[r].todo /\ d = Chosen(run[r], t)
    BY <1>1
  <1>7. QED
    BY <1>2, <1>4, <1>5, <1>6, Zenon

LEMMA WriteFinalGoes ==
  ASSUME SyncInv, NEW r \in Runs, Outline!WriteFinal(r)
  PROVE  /\ run[r].pc = "write"
         /\ \E d, w : /\ d = run[r].newest /\ Outline!Update(d, w)
                      /\ w = [docs[d] EXCEPT !.text = "final",
                                             !.parent = Chosen(run[r], HubOf[run[r].title])]
         /\ \E s : /\ Went(r, s) /\ s.pc = "rewrite" /\ s.todo = run[r].todo
                   /\ s.seen = run[r].seen /\ s.parent = run[r].parent
  <1>1. PICK s : s = [run[r] EXCEPT !.pc = "rewrite"] /\ Outline!Goes(r, s)
    BY DEF Outline!WriteFinal
  <1>2. /\ s.pc = "rewrite" /\ s.todo = run[r].todo /\ s.seen = run[r].seen
        /\ s.parent = run[r].parent /\ Fields \subseteq DOMAIN s
    BY <1>1, RunFields DEF Fields
  <1>3. QED
    BY <1>1, <1>2 DEF Outline!WriteFinal, Went, Chosen, Outline!Known

LEMMA UnknownListGoes ==
  ASSUME SyncInv, NEW r \in Runs, Outline!UnknownList(r)
  PROVE  /\ run[r].pc = "rewrite" /\ run[r].todo = {} /\ r \in Cleaning /\ Stays
         /\ \E s : /\ Went(r, s) /\ s.pc = "unknown"
                   /\ s.todo = {d \in Outline!Active : docs[d].title \notin Outline!Desired}
                   /\ s.seen = run[r].seen /\ s.parent = run[r].parent
  <1>1. PICK s : /\ s = [run[r] EXCEPT !.pc = "unknown",
                           !.todo = {d \in Outline!Active : docs[d].title \notin Outline!Desired}]
                 /\ Outline!Goes(r, s)
    BY DEF Outline!UnknownList
  <1>2. /\ s.pc = "unknown" /\ Fields \subseteq DOMAIN s
        /\ s.todo = {d \in Outline!Active : docs[d].title \notin Outline!Desired}
        /\ s.seen = run[r].seen /\ s.parent = run[r].parent
    BY <1>1, RunFields DEF Fields
  <1>3. QED
    BY <1>1, <1>2 DEF Outline!UnknownList, Outline!Same, Went, Stays

LEMMA ArchiveUnknownGoes ==
  ASSUME SyncInv, NEW r \in Runs, Outline!ArchiveUnknown(r)
  PROVE  /\ run[r].pc = "unknown"
         /\ \E d, s : /\ d \in run[r].todo /\ Outline!Archive(d)
                      /\ Went(r, s) /\ s.pc = "unknown" /\ s.todo = run[r].todo \ {d}
                      /\ s.seen = run[r].seen /\ s.parent = run[r].parent
  <1>1. PICK d, s : /\ d \in run[r].todo /\ Outline!Archive(d) /\ Outline!Goes(r, s)
                    /\ s = [run[r] EXCEPT !.todo = @ \ {d}]
    BY DEF Outline!ArchiveUnknown
  <1>2. run[r].pc = "unknown"
    BY DEF Outline!ArchiveUnknown
  <1>3. /\ s.pc = "unknown" /\ s.todo = run[r].todo \ {d} /\ Fields \subseteq DOMAIN s
        /\ s.seen = run[r].seen /\ s.parent = run[r].parent
    BY <1>1, <1>2, RunFields DEF Fields
  <1>4. QED
    BY <1>1, <1>2, <1>3 DEF Went

LEMMA LastListGoes ==
  ASSUME SyncInv, NEW r \in Runs, Outline!LastList(r)
  PROVE  /\ \/ run[r].pc = "rewrite" /\ r \notin Cleaning
            \/ run[r].pc = "unknown"
         /\ run[r].todo = {} /\ Stays
         /\ \E s : /\ Went(r, s) /\ s.pc = "indexes" /\ s.todo = Hubs
                   /\ s.seen = run[r].seen /\ s.parent = Parents
  <1>1. PICK s : /\ s = [run[r] EXCEPT !.pc = "indexes", !.todo = Hubs, !.parent = Parents]
                 /\ Outline!Goes(r, s)
    BY DEF Outline!LastList, Parents
  <1>2. /\ s.pc = "indexes" /\ s.todo = Hubs /\ Fields \subseteq DOMAIN s
        /\ s.seen = run[r].seen /\ s.parent = Parents
    BY <1>1, RunFields DEF Fields
  <1>3. QED
    BY <1>1, <1>2 DEF Outline!LastList, Outline!Same, Went, Stays

LEMMA WriteIndexGoes ==
  ASSUME SyncInv, NEW r \in Runs, Outline!WriteIndex(r)
  PROVE  /\ run[r].pc = "indexes"
         /\ \E h, d, w, s :
              /\ h \in run[r].todo /\ d = Chosen(run[r], h) /\ Outline!Update(d, w)
              /\ w = [docs[d] EXCEPT
                        !.text = "index",
                        !.lists = {e \in DOMAIN run[r].parent : run[r].parent[e] = d} \ {d}]
              /\ Went(r, s) /\ s.pc = "indexes" /\ s.todo = run[r].todo \ {h}
              /\ s.seen = run[r].seen /\ s.parent = run[r].parent
  <1>1. PICK h, d, w, s :
          /\ h \in run[r].todo /\ d = Chosen(run[r], h) /\ Outline!Update(d, w)
          /\ w = [docs[d] EXCEPT
                    !.text = "index",
                    !.lists = {e \in DOMAIN run[r].parent : run[r].parent[e] = d} \ {d}]
          /\ s = [run[r] EXCEPT !.todo = @ \ {h}] /\ Outline!Goes(r, s)
    BY DEF Outline!WriteIndex, Outline!Known, Chosen
  <1>2. run[r].pc = "indexes"
    BY DEF Outline!WriteIndex
  <1>3. /\ s.pc = "indexes" /\ s.todo = run[r].todo \ {h} /\ Fields \subseteq DOMAIN s
        /\ s.seen = run[r].seen /\ s.parent = run[r].parent
    BY <1>1, <1>2, RunFields DEF Fields
  <1>4. Went(r, s)
    BY <1>1, <1>3 DEF Went
  <1>5. QED
    BY <1>1, <1>2, <1>3, <1>4

LEMMA WriteRootGoes ==
  ASSUME SyncInv, NEW r \in Runs, Outline!WriteRoot(r)
  PROVE  /\ run[r].pc = "indexes" /\ run[r].todo = {}
         /\ \E d, w : /\ d = Chosen(run[r], Root) /\ Outline!Update(d, w)
                      /\ w = [docs[d] EXCEPT !.text = "index"]
         /\ \E s : Went(r, s) /\ s.pc = "done"
  <1>1. PICK s : s = [Outline!Idle EXCEPT !.pc = "done"] /\ Outline!Goes(r, s)
    BY DEF Outline!WriteRoot
  <1>2. s.pc = "done" /\ Fields \subseteq DOMAIN s
    BY <1>1 DEF Outline!Idle, Fields
  <1>3. QED
    BY <1>1, <1>2 DEF Outline!WriteRoot, Went, Chosen, Outline!Known

LEMMA FailGoes ==
  ASSUME SyncInv, NEW r \in Runs, Outline!Fail(r)
  PROVE  Stays /\ \E s : Went(r, s) /\ s.pc = "failed"
  <1>1. PICK s : s = [Outline!Idle EXCEPT !.pc = "failed"] /\ Outline!Goes(r, s)
    BY DEF Outline!Fail
  <1>2. s.pc = "failed" /\ Fields \subseteq DOMAIN s
    BY <1>1 DEF Outline!Idle, Fields
  <1>3. QED
    BY <1>1, <1>2 DEF Outline!Fail, Outline!Same, Went, Stays

-----------------------------------------------------------------------------
\* What a run may know.
LEMMA SameSeen ==
  ASSUME NEW s, NEW q, s.seen = q.seen, NEW t
  PROVE  Chosen(s, t) = Chosen(q, t) /\ (Knows(s, t) <=> Knows(q, t))
  BY DEF Chosen, Knows

LEMMA ChosenKnown ==
  ASSUME SyncInv, NEW s, s.seen \subseteq DOMAIN docs, NEW t, Knows(s, t)
  PROVE  /\ Chosen(s, t) \in DOMAIN docs /\ docs[Chosen(s, t)].title = t
         /\ Chosen(s, t) \in s.seen
         /\ \A e \in Outline!Entitled(t, s.seen) : Chosen(s, t) <= e
  <1>1. PICK S : S = Outline!Entitled(t, s.seen)
    OBVIOUS
  <1>2. S \subseteq Nat /\ S # {}
    BY <1>1, DocsNumbered DEF SyncInv, Knows, Outline!Entitled
  <1>3. Chosen(s, t) \in S /\ \A e \in S : Chosen(s, t) <= e
    BY <1>1, <1>2, LeastIsOldest DEF Chosen
  <1>4. QED
    BY <1>1, <1>3 DEF Outline!Entitled

\* A run that gives up one of its extra documents chooses as before.
LEMMA ExtraGone ==
  ASSUME SyncInv, NEW r \in Runs, run[r].seen \subseteq DOMAIN docs,
         NEW d \in Outline!Extras(r), NEW s, s.seen = run[r].seen \ {d}
  PROVE  /\ d \in DOMAIN docs /\ docs[d].title = run[r].title
         /\ d # Chosen(run[r], run[r].title) /\ Knows(run[r], run[r].title)
         /\ \A t : Knows(run[r], t) => Chosen(s, t) = Chosen(run[r], t) /\ Knows(s, t)
  <1>1. PICK S : S = Outline!Entitled(run[r].title, run[r].seen)
    OBVIOUS
  <1>2. /\ d \in S /\ d # Chosen(run[r], run[r].title)
        /\ Outline!Extras(r) = S \ {Chosen(run[r], run[r].title)}
    BY <1>1 DEF Outline!Extras, Chosen
  <1>3. S \subseteq DOMAIN docs /\ docs[d].title = run[r].title /\ S \subseteq Nat
    BY <1>1, <1>2, DocsNumbered DEF SyncInv, Outline!Entitled
  <1>4. Knows(run[r], run[r].title)
    BY <1>1, <1>2 DEF Knows
  <1>5. Outline!Entitled(run[r].title, s.seen) = S \ {d}
    BY <1>1 DEF Outline!Entitled
  <1>6. PICK m : m = Chosen(run[r], run[r].title) /\ m \in S /\ \A e \in S : m <= e
    BY <1>1, <1>3, <1>4, LeastIsOldest DEF Chosen, Knows
  <1>7. ASSUME NEW t, Knows(run[r], t)
        PROVE  Chosen(s, t) = Chosen(run[r], t) /\ Knows(s, t)
    <2>1. CASE t = run[r].title
      <3>1. m \in S \ {d} /\ S \ {d} \subseteq Nat /\ \A e \in S \ {d} : m <= e
        BY <1>2, <1>3, <1>6
      <3>2. Outline!Canonical(S \ {d}) = m
        BY <3>1, LeastIsOnly
      <3>3. QED
        BY <1>5, <1>6, <2>1, <3>1, <3>2 DEF Chosen, Knows
    <2>2. CASE t # run[r].title
      <3>1. Outline!Entitled(t, s.seen) = Outline!Entitled(t, run[r].seen)
        BY <1>3, <2>2 DEF Outline!Entitled
      <3>2. QED
        BY <1>7, <3>1 DEF Chosen, Knows
    <2>3. QED
      BY <2>1, <2>2
  <1>8. QED
    BY <1>2, <1>3, <1>4, <1>7

LEMMA NewestIsLatest ==
  ASSUME SyncInv, PlacesInv, NEW t, Held(t) # {}
  PROVE  /\ Outline!Newest(Held(t)) \in Held(t)
         /\ Latest(Outline!Newest(Held(t)), t)
  <1>1. PICK n \in Nat : n = Len(docs) /\ DOMAIN docs = 1..n
    BY DEF SyncInv, DocsInv
  <1>2. \A d \in Held(t) : updated[d] \in Nat /\ updated[d] <= n
    BY <1>1, HeldNumbered DEF PlacesInv
  <1>3. PICK S : S = {n - updated[d] : d \in Held(t)}
    OBVIOUS
  <1>4. S \subseteq Nat /\ S # {}
    BY <1>2, <1>3
  <1>5. PICK k \in S : \A l \in S : k <= l
    BY <1>4, LeastOfNats
  <1>6. PICK d \in Held(t) : k = n - updated[d]
    BY <1>3
  <1>7. \A e \in Held(t) : updated[e] <= updated[d]
    <2>1. \A e \in Held(t) : k <= n - updated[e]
      BY <1>3, <1>5
    <2>2. QED
      BY <1>2, <1>6, <2>1
  <1>8. QED
    BY <1>7 DEF Outline!Newest, Latest

LEMMA CrowdsCount ==
  ASSUME SyncInv, NEW t
  PROVE  /\ Crowd(t) <=> Outline!Cardinality(Held(t)) > 1
         /\ ~Crowd(t) <=> Outline!Cardinality(Held(t)) <= 1
  <1>1. PICK n \in Nat : DOMAIN docs = 1..n
    BY DEF SyncInv, DocsInv
  <1>2. IsFiniteSet(Held(t))
    BY <1>1, HeldNumbered, FS_Interval, FS_Subset
  <1>3. Cardinality(Held(t)) \in Nat
    BY <1>2, FS_CardinalityType
  <1>4. ASSUME Crowd(t)
        PROVE  Cardinality(Held(t)) > 1
    <2>1. PICK a, b \in Held(t) : a # b
      BY <1>4 DEF Crowd
    <2>2. IsFiniteSet({a}) /\ Cardinality({a}) = 1
      BY FS_Singleton
    <2>3. Cardinality({a} \cup {b}) = 2 /\ IsFiniteSet({a} \cup {b})
      BY <2>1, <2>2, FS_AddElement
    <2>4. {a} \cup {b} \subseteq Held(t)
      BY <2>1
    <2>5. Cardinality({a} \cup {b}) <= Cardinality(Held(t))
      BY <1>2, <2>4, FS_Subset
    <2>6. QED
      BY <1>3, <2>3, <2>5
  <1>5. ASSUME ~Crowd(t)
        PROVE  Cardinality(Held(t)) <= 1
    <2>1. CASE Held(t) = {}
      BY <2>1, FS_EmptySet
    <2>2. CASE Held(t) # {}
      <3>1. PICK a \in Held(t) : TRUE
        BY <2>2
      <3>2. Held(t) = {a}
        BY <1>5, <3>1 DEF Crowd
      <3>3. Cardinality({a}) = 1
        BY FS_Singleton
      <3>4. QED
        BY <3>2, <3>3
    <2>3. QED
      BY <2>1, <2>2
  <1>6. QED
    BY <1>3, <1>4, <1>5, SameNumber

\* The oldest document of an unmapped title takes the new text.
LEMMA MergeFresh ==
  ASSUME SyncInv, PlacesInv, FreshInv, NEW t \in Legacy,
         NEW d \in DOMAIN docs, docs[d].title = t,
         NEW w, w = [docs[d] EXCEPT !.text = "new"], Outline!Update(d, w),
         Crowd(t) => d \in Held(t) /\ \A e \in Held(t) : d <= e
  PROVE  Spares /\ Fresh /\ (Crowd(t) => Latest(d, t)')
  <1>1. t = docs[d].title
    OBVIOUS
  <1>2. Columns \subseteq DOMAIN docs[d]
    BY DEF SyncInv, DocsInv
  <1>3. /\ DOMAIN w = DOMAIN docs[d] /\ w.title = t /\ w.active = docs[d].active
        /\ w.text = "new"
    BY <1>1, <1>2 DEF Columns
  <1>4. Spares
    BY <1>1, <1>3, UpdateSpares DEF SyncInv
  <1>5. CASE d \notin Outline!Active /\ UNCHANGED <<docs, updated>>
    <2>1. ~Crowd(t)
      BY <1>1, <1>5 DEF Held, Outline!Entitled
    <2>2. QED
      BY <1>1, <1>5, <2>1, SameFresh
  <1>6. CASE /\ d \in Outline!Active /\ updated' = Outline!Touched(d)
             /\ \A e \in DOMAIN docs : docs'[e] = IF e = d THEN w ELSE docs[e]
    <2>1. DOMAIN docs' = DOMAIN docs /\ Len(docs') = Len(docs)
      BY <1>1, <1>3, UpdateIs
    <2>2. /\ PlacesInv'
          /\ \A e \in DOMAIN docs : updated'[e] <= updated'[d]
          /\ \A a, b \in DOMAIN docs \ {d} :
               updated'[a] <= updated'[b] <=> updated[a] <= updated[b]
      BY <1>6, <2>1, TouchedPlaces
    <2>3. \A u : Held(u)' = Held(u)
      <3>1. \A e \in DOMAIN docs : /\ docs'[e].active = docs[e].active
                                   /\ docs'[e].title = docs[e].title
        BY <1>1, <1>3, <1>6
      <3>2. Outline!Active' = Outline!Active
        BY <2>1, <3>1 DEF Outline!Active
      <3>3. QED
        BY <3>1, <3>2 DEF Held, Outline!Entitled, Outline!Active
    <2>4. d \in Held(t) /\ Latest(d, t)'
      <3>1. d \in Held(t)
        BY <1>1, <1>6 DEF Held, Outline!Entitled
      <3>2. QED
        BY <2>2, <2>3, <3>1, HeldNumbered DEF Latest
    <2>5. ASSUME NEW u \in Legacy, u # t, NEW e \in Held(u)
          PROVE  Latest(e, u)' <=> Latest(e, u)
      <3>1. \A f \in Held(u) : f \in DOMAIN docs \ {d}
        BY <1>1, <2>5, HeldNumbered DEF Held, Outline!Entitled
      <3>2. QED
        BY <2>2, <2>3, <2>5, <3>1 DEF Latest
    <2>6. Tends
      <3>1. ASSUME NEW u \in Legacy, Crowd(u)'
            PROVE  \E m \in Held(u) : /\ \A e \in Held(u) : m <= e
                                      /\ m \in Held(u)'
                                      /\ Latest(m, u) => Latest(m, u)'
        <4>1. Crowd(u) /\ Held(u) # {}
          BY <2>3, <3>1 DEF Crowd
        <4>2. CASE u = t
          BY <1>1, <2>3, <2>4, <4>1, <4>2
        <4>3. CASE u # t
          <5>1. PICK m \in Held(u) : \A e \in Held(u) : m <= e
            BY <4>1, HeldNumbered, LeastOfNats
          <5>2. QED
            BY <2>3, <2>5, <4>3, <5>1
        <4>4. QED
          BY <4>2, <4>3
      <3>2. \A e \in DOMAIN docs' : /\ e \in DOMAIN docs
                                    /\ docs'[e].active => docs[e].active
                                    /\ docs[e].text = "new" => docs'[e].text = "new"
        BY <1>3, <1>6, <2>1
      <3>3. QED
        BY <3>1, <3>2 DEF Tends
    <2>7. ASSUME NEW u \in Legacy, NEW e \in Held(u)', Latest(e, u)'
          PROVE  docs'[e].text = "new"
      <3>1. e \in Held(u) /\ e \in DOMAIN docs
        BY <2>3, HeldNumbered
      <3>2. CASE u = t
        <4>1. updated'[d] <= updated'[e] /\ updated'[e] <= updated'[d]
          BY <2>2, <2>3, <2>4, <2>7, <3>1, <3>2 DEF Latest
        <4>2. updated'[d] \in Nat /\ updated'[e] \in Nat
          BY <2>1, <2>2, <3>1 DEF PlacesInv
        <4>3. updated'[d] = updated'[e]
          BY <4>1, <4>2
        <4>4. d = e
          BY <2>1, <2>2, <3>1, <4>3 DEF PlacesInv
        <4>5. QED
          BY <1>3, <1>6, <4>4
      <3>3. CASE u # t
        <4>1. Latest(e, u) /\ e # d
          BY <1>1, <2>5, <2>7, <3>1, <3>3 DEF Held, Outline!Entitled
        <4>2. docs[e].text = "new"
          BY <3>1, <4>1 DEF FreshInv
        <4>3. QED
          BY <1>6, <3>1, <4>1, <4>2
      <3>4. QED
        BY <3>2, <3>3
    <2>8. FreshInv'
      BY <2>7 DEF FreshInv
    <2>9. QED
      BY <1>1, <1>4, <2>2, <2>4, <2>6, <2>8 DEF Fresh
  <1>7. QED
    BY <1>1, <1>3, <1>5, <1>6, UpdateIs

-----------------------------------------------------------------------------
\* A step of a run: what it does to the documents, and what the run knows.
Advances(r) == Fresh /\ \E s : Went(r, s) /\ Informed(s)'

LEMMA TextKept ==
  ASSUME TextInv, SyncInv', Spares, NEW r \in Runs, Advances(r)
  PROVE  TextInv'
  <1>1. PICK s : Went(r, s) /\ Informed(s)'
    BY DEF Advances
  <1>2. \A q \in Runs : run'[q] = IF q = r THEN s ELSE run[q]
    BY <1>1 DEF Went, Outline!Goes, TextInv, SyncInv
  <1>3. ASSUME NEW q \in Runs
        PROVE  Informed(run[q])'
    <2>1. CASE q = r
      <3>1. run'[q] = s
        BY <1>2, <2>1
      <3>2. QED
        BY <1>1, <3>1 DEF Informed, HubsKnown, DuplicatesKnown, Knows, Chosen
    <2>2. CASE q # r
      <3>1. PICK p : p = run[q] /\ run'[q] = p
        BY <1>2, <2>2
      <3>2. Informed(p)'
        BY <3>1, StaysInformed DEF TextInv, Advances, Fresh
      <3>3. QED
        BY <3>1, <3>2 DEF Informed, HubsKnown, DuplicatesKnown, Knows, Chosen
    <2>3. QED
      BY <2>1, <2>2
  <1>4. QED
    BY <1>3 DEF TextInv, Advances, Fresh

\* A step that changes no document needs to know now what is known then.
LEMMA StaysAdvances ==
  ASSUME TextInv, NEW r, Stays, NEW s, Went(r, s), Informed(s)
  PROVE  Spares /\ Advances(r)
  <1>1. Spares /\ Fresh
    BY SameFresh DEF TextInv, Stays
  <1>2. Informed(s)'
    BY <1>1, StaysInformed DEF TextInv, Fresh
  <1>3. QED
    BY <1>1, <1>2 DEF Advances

LEMMA FirstListText ==
  ASSUME TextInv, NEW r \in Runs, Outline!FirstList(r)
  PROVE  Spares /\ Advances(r)
  <1>1. SyncInv /\ PlacesInv /\ FreshInv
    BY DEF TextInv
  <1>2. PICK s : /\ Stays /\ Went(r, s) /\ s.pc = "dedupe" /\ s.seen = Outline!Active
                 /\ s.todo = {<<t, Outline!Newest(Held(t))>> :
                                t \in {u \in Outline!Titles : Outline!Cardinality(Held(u)) > 1}}
    BY <1>1, FirstListGoes
  <1>3. s.seen \subseteq DOMAIN docs /\ HubsKnown(s)
    BY <1>2 DEF HubsKnown, Outline!Active
  <1>4. \A t : Held(t) = Outline!Entitled(t, s.seen)
    BY <1>2 DEF Held
  <1>5. ASSUME NEW t \in Legacy, Crowd(t)
        PROVE  Chosen(s, t) \in Held(t) /\ \E p \in s.todo : p[1] = t
    <2>1. Held(t) # {} /\ Held(t) \subseteq Nat
      BY <1>1, <1>5, HeldNumbered DEF Crowd
    <2>2. Chosen(s, t) \in Held(t)
      BY <1>4, <2>1, LeastIsOldest DEF Chosen
    <2>3. t \in {u \in Outline!Titles : Outline!Cardinality(Held(u)) > 1}
      BY <1>1, <1>5, CrowdsCount DEF Outline!Titles
    <2>4. <<t, Outline!Newest(Held(t))>> \in s.todo
      BY <1>2, <2>3
    <2>5. QED
      BY <2>2, <2>4
  <1>6. ASSUME NEW p \in s.todo
        PROVE  /\ p[1] \in Outline!Titles /\ Knows(s, p[1])
               /\ p[2] \in DOMAIN docs /\ docs[p[2]].title = p[1]
               /\ p[1] \in Legacy => docs[p[2]].text = "new"
    <2>1. PICK t \in Outline!Titles : /\ p = <<t, Outline!Newest(Held(t))>>
                                      /\ Outline!Cardinality(Held(t)) > 1
      BY <1>2
    <2>2. Held(t) # {}
      <3>1. Crowd(t)
        BY <1>1, <2>1, CrowdsCount
      <3>2. QED
        BY <3>1 DEF Crowd
    <2>3. p[2] \in Held(t) /\ Latest(p[2], t)
      BY <1>1, <2>1, <2>2, NewestIsLatest
    <2>4. p[2] \in DOMAIN docs /\ docs[p[2]].title = t
      BY <1>1, <2>3, HeldNumbered DEF Held, Outline!Entitled
    <2>5. t \in Legacy => docs[p[2]].text = "new"
      BY <1>1, <2>3 DEF FreshInv
    <2>6. QED
      BY <1>4, <2>1, <2>2, <2>4, <2>5 DEF Knows
  <1>7. DuplicatesKnown(s)
    BY <1>2, <1>4, <1>5, <1>6 DEF DuplicatesKnown, Outline!Entitled
  <1>8. Informed(s)
    BY <1>2, <1>3, <1>7 DEF Informed, Merging, Over
  <1>9. QED
    BY <1>2, <1>8, StaysAdvances

LEMMA RunKnows ==
  ASSUME TextInv, NEW r \in Runs
  PROVE  /\ SyncInv /\ PlacesInv /\ FreshInv /\ Informed(run[r])
         /\ run[r].pc \notin Over => run[r].seen \subseteq DOMAIN docs /\ HubsKnown(run[r])
         /\ run[r].pc \in Merging => DuplicatesKnown(run[r])
         /\ run[r].pc \notin Merging \cup Over => \A t \in Legacy : ~Crowd(t)
  BY DEF TextInv, Informed

LEMMA ReadNewestText ==
  ASSUME TextInv, NEW r \in Runs, Outline!ReadNewest(r)
  PROVE  Spares /\ Advances(r)
  <1>1. PICK p, s :
          /\ run[r].pc = "dedupe" /\ Stays
          /\ p \in run[r].todo /\ Went(r, s) /\ s.pc = "merge" /\ s.title = p[1]
          /\ s.todo = run[r].todo \ {p} /\ s.hold = docs[p[2]].text /\ s.seen = run[r].seen
    BY RunKnows, ReadNewestGoes
  <1>2. DuplicatesKnown(run[r]) /\ s.seen \subseteq DOMAIN docs
    BY <1>1, RunKnows DEF Merging, Over
  <1>3. \A t : Chosen(s, t) = Chosen(run[r], t) /\ (Knows(s, t) <=> Knows(run[r], t))
    BY <1>1, SameSeen
  <1>4. ASSUME NEW t \in Legacy, Crowd(t)
        PROVE  (\E q \in s.todo : q[1] = t) \/ s.title = t
    BY <1>1, <1>2, <1>4 DEF DuplicatesKnown
  <1>5. s.title \in Legacy => s.hold = "new"
    BY <1>1, <1>2 DEF DuplicatesKnown
  <1>6. DuplicatesKnown(s)
    BY <1>1, <1>2, <1>3, <1>4, <1>5 DEF DuplicatesKnown
  <1>7. Informed(s)
    BY <1>1, <1>2, <1>6 DEF Informed, HubsKnown, Merging, Over
  <1>8. QED
    BY <1>1, <1>7, StaysAdvances

LEMMA MergeTextText ==
  ASSUME TextInv, NEW r \in Runs, Outline!MergeText(r)
  PROVE  Spares /\ Advances(r)
  <1>1. PICK d, w :
          /\ run[r].pc = "merge" /\ d = Chosen(run[r], run[r].title)
          /\ Outline!Update(d, w) /\ w = [docs[d] EXCEPT !.text = run[r].hold]
    BY RunKnows, MergeTextGoes
  <1>2. PICK s : /\ Went(r, s) /\ s.pc = "mergeArchive" /\ s.todo = run[r].todo
                 /\ s.title = run[r].title /\ s.seen = run[r].seen
    BY RunKnows, MergeTextGoes
  <1>3. DuplicatesKnown(run[r]) /\ run[r].seen \subseteq DOMAIN docs
    BY <1>1, RunKnows DEF Merging, Over
  <1>4. PICK t : t = run[r].title /\ Knows(run[r], t)
    BY <1>1, <1>3 DEF DuplicatesKnown
  <1>5. d \in DOMAIN docs /\ docs[d].title = t /\ \A e \in Outline!Entitled(t, run[r].seen) : d <= e
    BY <1>1, <1>3, <1>4, RunKnows, ChosenKnown
  <1>6. Spares /\ Fresh /\ (t \in Legacy /\ Crowd(t) => Latest(d, t)')
    <2>1. CASE t \in Legacy
      <3>1. w = [docs[d] EXCEPT !.text = "new"]
        BY <1>1, <1>3, <1>4, <2>1 DEF DuplicatesKnown
      <3>2. Crowd(t) => d \in Held(t)
        BY <1>1, <1>3, <1>4, <2>1 DEF DuplicatesKnown
      <3>3. \A e \in Held(t) : d <= e
        <4>1. \A e \in Held(t) : e \in Outline!Entitled(t, run[r].seen)
          BY <1>3, <2>1 DEF DuplicatesKnown, Held, Outline!Entitled
        <4>2. QED
          BY <1>5, <4>1
      <3>4. QED
        BY <1>1, <1>5, <2>1, <3>1, <3>2, <3>3, RunKnows, MergeFresh
    <2>2. CASE t \notin Legacy
      <3>1. Columns \subseteq DOMAIN docs[d]
        BY <1>5, RunKnows DEF SyncInv, DocsInv
      <3>2. DOMAIN w = DOMAIN docs[d] /\ w.title = docs[d].title /\ w.active = docs[d].active
        BY <1>1, <3>1 DEF Columns
      <3>3. QED
        BY <1>1, <1>5, <2>2, <3>2, RunKnows, UpdateFresh
    <2>3. QED
      BY <2>1, <2>2
  <1>7. \A u : /\ Chosen(s, u)' = Chosen(run[r], u)
               /\ Knows(run[r], u) => Knows(s, u)'
    <2>1. \A u : Outline!Entitled(u, s.seen)' = Outline!Entitled(u, s.seen)
      BY <1>2, <1>3, <1>6, EntitledStays
    <2>2. QED
      BY <1>2, <2>1 DEF Chosen, Knows, Outline!Canonical, Outline!Least
  <1>8. \A u \in Legacy : Crowd(u)' => Crowd(u)
    BY <1>6, HeldShrinks DEF Crowd, Fresh
  <1>9. PICK q : q = run[r] /\ Informed(q)'
    <2>1. PICK q : q = run[r]
      OBVIOUS
    <2>2. Informed(q)'
      BY <1>6, <2>1, RunKnows, StaysInformed DEF Fresh
    <2>3. QED
      BY <2>1, <2>2
  <1>10. DuplicatesKnown(q)' /\ q.seen \subseteq DOMAIN docs'
    BY <1>1, <1>9 DEF Informed, Merging, Over
  <1>11. \A u : Chosen(q, u)' = Chosen(s, u)' /\ (Knows(q, u)' <=> Knows(s, u)')
    BY <1>2, <1>9 DEF Chosen, Knows
  <1>12. s.title \in Legacy /\ Crowd(s.title)' => Latest(Chosen(s, s.title), s.title)'
    <2>1. ASSUME s.title \in Legacy, Crowd(s.title)'
          PROVE  Latest(Chosen(s, s.title), s.title)'
      <3>1. t \in Legacy /\ Crowd(t) /\ s.title = t
        BY <1>2, <1>4, <1>8, <2>1
      <3>2. Latest(d, t)' /\ Chosen(s, t)' = d
        BY <1>1, <1>4, <1>6, <1>7, <3>1
      <3>3. QED
        BY <3>1, <3>2 DEF Latest
    <2>2. QED
      BY <2>1
  <1>13. DuplicatesKnown(s)'
    BY <1>1, <1>2, <1>4, <1>7, <1>9, <1>10, <1>11, <1>12 DEF DuplicatesKnown
  <1>14. Informed(s)'
    BY <1>2, <1>9, <1>10, <1>13 DEF Informed, HubsKnown, Merging, Over
  <1>15. QED
    BY <1>2, <1>6, <1>14 DEF Advances

LEMMA GroupsMapped ==
         /\ \A t \in Groups : t \in Outline!Desired /\ t \in Outline!Titles /\ t \notin Legacy
         /\ \A t \in Targets : t \in Outline!Desired /\ t \in Outline!Titles /\ t \notin Legacy
         /\ \A t \in Outline!Desired : t \in Outline!Titles
         /\ Hubs \subseteq Groups /\ Root \in Groups
  BY OutlineAssumption DEF Groups, Outline!Desired, Outline!Titles

\* What a run goes on to from the hubs.
LEMMA AfterHubs ==
  ASSUME NEW s, NEW q, After(s, q), q.todo \subseteq Hubs, q.title \in Groups,
         Knows(q, q.title), \A t \in Groups \ (q.todo \cup {q.title}) : Knows(q, t)
  PROVE  HubsKnown(s) /\ s.pc \notin Merging \cup Over
  <1>1. \A t : Knows(s, t) <=> Knows(q, t)
    BY SameSeen DEF After
  <1>2. s.title = q.title /\ s.pc \in {"targets", "hub"}
    BY DEF After
  <1>3. CASE q.todo = {} /\ s.pc = "targets" /\ s.todo = Targets
    BY <1>1, <1>3 DEF HubsKnown, Merging, Over
  <1>4. CASE s.pc = "hub" /\ s.todo = q.todo
    <2>1. \A t \in Groups \ (s.todo \cup {s.title}) : Knows(s, t)
      BY <1>1, <1>4
    <2>2. QED
      BY <1>1, <1>2, <1>4, <2>1 DEF HubsKnown, Merging, Over
  <1>5. QED
    BY <1>3, <1>4 DEF After

LEMMA ArchiveExtraText ==
  ASSUME TextInv, NEW r \in Runs, Outline!ArchiveExtra(r), Spares
  PROVE  Advances(r)
  <1>1. PICK d, q, s :
          /\ d \in Outline!Extras(r) /\ run[r].pc \in {"mergeArchive", "ensureArchive"}
          /\ Outline!Archive(d) /\ Went(r, s)
          /\ q.todo = run[r].todo /\ q.title = run[r].title
          /\ q.seen = run[r].seen \ {d} /\ q.parent = run[r].parent
          /\ \/ /\ Outline!Extras(r) # {d} /\ s.pc = run[r].pc
                /\ s.todo = q.todo /\ s.title = q.title
                /\ s.seen = q.seen /\ s.parent = q.parent
             \/ /\ Outline!Extras(r) = {d} /\ run[r].pc = "mergeArchive"
                /\ s.pc = "dedupe" /\ s.todo = q.todo /\ s.title = q.title
                /\ s.seen = q.seen /\ s.parent = q.parent
             \/ run[r].pc = "ensureArchive" /\ After(s, q)
    BY RunKnows, ArchiveExtraGoes
  <1>2. SyncInv /\ PlacesInv /\ FreshInv
    BY RunKnows
  <1>3. run[r].seen \subseteq DOMAIN docs /\ HubsKnown(run[r])
    BY <1>1, RunKnows DEF Over
  <1>4. PICK t : t = run[r].title
    OBVIOUS
  <1>5. s.seen = run[r].seen \ {d} /\ s.title = t
    BY <1>1, <1>4 DEF After
  <1>6. /\ d \in DOMAIN docs /\ docs[d].title = t
        /\ d # Chosen(run[r], t) /\ Knows(run[r], t)
        /\ Outline!Extras(r) = {d} => Outline!Entitled(t, s.seen) = {Chosen(run[r], t)}
    <2>1. d \in Outline!Extras(r) /\ s.seen = run[r].seen \ {d}
      BY <1>1, <1>5
    <2>2. run[r].seen \subseteq DOMAIN docs /\ SyncInv
      BY <1>2, <1>3
    <2>3. d \in DOMAIN docs /\ docs[d].title = run[r].title
      BY <2>1, <2>2, ExtraGone
    <2>4. d # Chosen(run[r], run[r].title) /\ Knows(run[r], run[r].title)
      BY <2>1, <2>2, ExtraGone
    <2>5. ASSUME Outline!Extras(r) = {d}
          PROVE  Outline!Entitled(t, s.seen) = {Chosen(run[r], t)}
      <3>1. Outline!Entitled(t, s.seen) = Outline!Entitled(t, run[r].seen) \ {d}
        BY <2>1 DEF Outline!Entitled
      <3>2. Outline!Entitled(t, run[r].seen) \ {Chosen(run[r], t)} = {d}
        BY <1>4, <2>5 DEF Outline!Extras, Chosen
      <3>3. Chosen(run[r], t) \in Outline!Entitled(t, run[r].seen)
        BY <1>4, <2>2, <2>4, ChosenKnown DEF Outline!Entitled
      <3>4. QED
        BY <1>4, <2>4, <3>1, <3>2, <3>3
    <2>6. QED
      BY <1>4, <2>3, <2>4, <2>5
  <1>7. \A u : Knows(run[r], u) => Chosen(s, u) = Chosen(run[r], u) /\ Knows(s, u)
    BY <1>1, <1>2, <1>3, <1>5, ExtraGone
  <1>8. t \in Legacy => run[r].pc = "mergeArchive" /\ DuplicatesKnown(run[r])
    BY <1>1, <1>3, <1>4, GroupsMapped, RunKnows DEF HubsKnown, Merging
  <1>9. Fresh
    <2>1. ASSUME t \in Legacy, Crowd(t)
          PROVE  \E m \in Held(t) : m # d /\ Latest(m, t) /\ \A e \in Held(t) : m <= e
      <3>1. PICK m : m = Chosen(run[r], t)
        OBVIOUS
      <3>2. m \in Held(t) /\ Latest(m, t) /\ Held(t) \subseteq run[r].seen
        BY <1>4, <1>8, <2>1, <3>1 DEF DuplicatesKnown
      <3>3. \A e \in Held(t) : e \in Outline!Entitled(t, run[r].seen)
        BY <3>2 DEF Held, Outline!Entitled
      <3>4. \A e \in Held(t) : m <= e
        BY <1>2, <1>3, <1>6, <3>1, <3>3, ChosenKnown
      <3>5. QED
        BY <1>6, <3>1, <3>2, <3>4
    <2>2. QED
      BY <1>1, <1>2, <1>6, <2>1, ArchiveFresh
  <1>10. s.seen \subseteq DOMAIN docs /\ s.seen \subseteq DOMAIN docs'
    BY <1>3, <1>5 DEF Spares
  <1>11. \A u : Outline!Entitled(u, s.seen)' = Outline!Entitled(u, s.seen)
    BY <1>10, EntitledStays
  <1>12. \A u : /\ Knows(s, u)' <=> Knows(s, u)
                /\ Chosen(s, u)' = Chosen(s, u)
    BY <1>11 DEF Knows, Chosen, Outline!Canonical, Outline!Least
  <1>13. PICK p : p = run[r] /\ Informed(p)'
    <2>1. PICK p : p = run[r]
      OBVIOUS
    <2>2. Informed(p)'
      BY <1>9, <2>1, RunKnows, StaysInformed DEF Fresh
    <2>3. QED
      BY <2>1, <2>2
  <1>14. CASE run[r].pc = "ensureArchive"
    <2>1. HubsKnown(s) /\ s.pc \notin Merging \cup Over
      <3>1. /\ q.todo \subseteq Hubs /\ q.title \in Groups
            /\ Knows(run[r], t) /\ \A u \in Groups \ (q.todo \cup {q.title}) : Knows(run[r], u)
        BY <1>1, <1>3, <1>6, <1>14 DEF HubsKnown
      <3>2. \A u : Knows(q, u) <=> Knows(s, u)
        BY <1>1, <1>5, SameSeen
      <3>3. Knows(q, q.title) /\ \A u \in Groups \ (q.todo \cup {q.title}) : Knows(q, u)
        BY <1>1, <1>4, <1>7, <3>1, <3>2
      <3>4. CASE After(s, q)
        BY <3>1, <3>3, <3>4, AfterHubs
      <3>5. CASE s.pc = run[r].pc /\ s.todo = q.todo /\ s.title = q.title
        BY <1>14, <3>1, <3>2, <3>3, <3>5 DEF HubsKnown, Merging, Over
      <3>6. QED
        BY <1>1, <1>14, <3>4, <3>5
    <2>2. HubsKnown(s)'
      BY <1>12, <2>1 DEF HubsKnown, Spares
    <2>3. \A u \in Legacy : ~Crowd(u)'
      BY <1>13, <1>14 DEF Informed, Merging, Over
    <2>4. Informed(s)'
      BY <1>10, <2>1, <2>2, <2>3 DEF Informed
    <2>5. QED
      BY <1>1, <1>9, <2>4 DEF Advances
  <1>15. CASE run[r].pc = "mergeArchive"
    <2>1. /\ s.pc \in {"dedupe", "mergeArchive"} /\ s.todo = p.todo /\ s.title = p.title
          /\ s.pc = "dedupe" => Outline!Extras(r) = {d}
      BY <1>1, <1>13, <1>15
    <2>2. DuplicatesKnown(p)'
      BY <1>13, <1>15 DEF Informed, Merging
    <2>3. \A u : Knows(p, u)' => Knows(s, u)' /\ Chosen(s, u)' = Chosen(p, u)'
      <3>1. \A u : Outline!Entitled(u, p.seen)' = Outline!Entitled(u, p.seen)
        BY <1>3, <1>13, EntitledStays
      <3>2. \A u : Chosen(p, u)' = Chosen(p, u) /\ (Knows(p, u)' <=> Knows(p, u))
        BY <3>1 DEF Knows, Chosen, Outline!Canonical, Outline!Least
      <3>3. QED
        BY <1>7, <1>12, <1>13, <3>2
    <2>4. \A u \in Legacy : Held(u)' \subseteq s.seen
      <3>1. \A u \in Legacy : Held(u)' \subseteq p.seen
        BY <2>2 DEF DuplicatesKnown
      <3>2. \A u \in Legacy : d \notin Held(u)'
        BY <1>1, <1>2, <1>6, ArchiveIs DEF Held, Outline!Entitled
      <3>3. QED
        BY <1>5, <1>13, <3>1, <3>2
    <2>5. ASSUME NEW u \in Legacy, Crowd(u)'
          PROVE  /\ Chosen(s, u)' \in Held(u)'
                 /\ (\E v \in s.todo : v[1] = u) \/ (s.pc # "dedupe" /\ s.title = u)
      <3>1. /\ Chosen(p, u)' \in Held(u)'
            /\ (\E v \in p.todo : v[1] = u) \/ p.title = u
        BY <2>2, <2>5 DEF DuplicatesKnown
      <3>2. Knows(p, u)'
        BY <2>2, <3>1 DEF DuplicatesKnown, Knows, Held, Outline!Entitled
      <3>3. Chosen(s, u)' \in Held(u)'
        BY <2>3, <3>1, <3>2
      <3>4. CASE s.pc = "dedupe" /\ u = t
        <4>1. Outline!Entitled(t, s.seen)' = {Chosen(run[r], t)}
          BY <1>6, <1>11, <2>1, <3>4
        <4>2. Held(u)' \subseteq Outline!Entitled(t, s.seen)'
          BY <2>4, <3>4 DEF Held, Outline!Entitled
        <4>3. QED
          BY <2>5, <4>1, <4>2 DEF Crowd
      <3>5. CASE ~(s.pc = "dedupe" /\ u = t)
        BY <1>4, <1>13, <2>1, <3>1, <3>3, <3>5
      <3>6. QED
        BY <3>4, <3>5
    <2>6. ASSUME s.title \in Legacy, s.pc = "mergeArchive", Crowd(s.title)'
          PROVE  Latest(Chosen(s, s.title), s.title)'
      <3>1. Latest(Chosen(p, s.title), s.title)'
        BY <1>13, <1>15, <2>1, <2>2, <2>6 DEF DuplicatesKnown
      <3>2. Chosen(s, s.title)' = Chosen(p, s.title)'
        BY <1>13, <1>15, <2>1, <2>2, <2>3 DEF DuplicatesKnown
      <3>3. QED
        BY <3>1, <3>2 DEF Latest
    <2>7. DuplicatesKnown(s)'
      <3>1. \A v \in s.todo : /\ v[1] \in Outline!Titles /\ Knows(p, v[1])'
                              /\ v[2] \in DOMAIN docs' /\ docs'[v[2]].title = v[1]
                              /\ v[1] \in Legacy => docs'[v[2]].text = "new"
        BY <2>1, <2>2 DEF DuplicatesKnown
      <3>2. Knows(s, s.title)'
        BY <1>13, <1>15, <2>1, <2>2, <2>3 DEF DuplicatesKnown
      <3>3. QED
        BY <2>1, <2>3, <2>4, <2>5, <2>6, <3>1, <3>2 DEF DuplicatesKnown
    <2>8. Informed(s)'
      BY <1>10, <2>1, <2>7 DEF Informed, HubsKnown, Merging, Over
    <2>9. QED
      BY <1>1, <1>9, <2>8 DEF Advances
  <1>16. QED
    BY <1>1, <1>14, <1>15

-----------------------------------------------------------------------------
\* The steps after the merge: there is at most one document of an unmapped
\* title left, and the run goes on with documents it knows.
LEMMA HubsStay ==
  ASSUME SyncInv, Spares, NEW s, s.seen \subseteq DOMAIN docs, HubsKnown(s)
  PROVE  s.seen \subseteq DOMAIN docs' /\ HubsKnown(s)'
  <1>1. \A t : Outline!Entitled(t, s.seen)' = Outline!Entitled(t, s.seen)
    BY EntitledStays
  <1>2. \A t : Knows(s, t) => Knows(s, t)'
    BY <1>1 DEF Knows
  <1>3. \A d \in DOMAIN docs : d \in DOMAIN docs' /\ docs'[d].title = docs[d].title
    BY DEF Spares
  <1>4. QED
    BY <1>2, <1>3 DEF HubsKnown

LEMMA LateAdvances ==
  ASSUME TextInv, NEW r \in Runs, run[r].pc \notin Merging \cup Over, Spares, Fresh,
         NEW s, Went(r, s), s.pc \notin Merging \cup Over,
         s.seen \subseteq DOMAIN docs', HubsKnown(s)'
  PROVE  Advances(r)
  <1>1. \A t \in Legacy : ~Crowd(t)
    BY RunKnows
  <1>2. \A t \in Legacy : ~Crowd(t)'
    BY <1>1, HeldShrinks DEF Crowd, Fresh
  <1>3. Informed(s)'
    BY <1>2 DEF Informed
  <1>4. QED
    BY <1>3 DEF Advances

LEMMA LateStaysAdvances ==
  ASSUME TextInv, NEW r \in Runs, run[r].pc \notin Merging \cup Over, Stays,
         NEW s, Went(r, s), s.pc \notin Merging \cup Over,
         s.seen \subseteq DOMAIN docs, HubsKnown(s)
  PROVE  Advances(r)
  <1>1. Informed(s)
    BY RunKnows DEF Informed
  <1>2. QED
    BY <1>1, StaysAdvances

LEMMA UpdateAdvances ==
  ASSUME TextInv, NEW r \in Runs, run[r].pc \notin Merging \cup Over, Spares,
         NEW d \in DOMAIN docs, docs[d].title \notin Legacy, NEW w, Outline!Update(d, w),
         DOMAIN w = DOMAIN docs[d], w.title = docs[d].title, w.active = docs[d].active,
         NEW s, Went(r, s), s.pc \notin Merging \cup Over,
         s.seen \subseteq DOMAIN docs, HubsKnown(s)
  PROVE  Advances(r)
  <1>1. SyncInv /\ PlacesInv /\ FreshInv
    BY DEF TextInv
  <1>2. Fresh
    BY <1>1, UpdateFresh
  <1>3. s.seen \subseteq DOMAIN docs' /\ HubsKnown(s)'
    BY <1>1, HubsStay
  <1>4. QED
    BY <1>2, <1>3, LateAdvances

LEMMA SecondListText ==
  ASSUME TextInv, NEW r \in Runs, Outline!SecondList(r)
  PROVE  Advances(r)
  <1>1. PICK s : /\ run[r].pc = "dedupe" /\ run[r].todo = {} /\ Stays
                 /\ Went(r, s) /\ s.pc = "ensure" /\ s.title = Root /\ s.todo = Hubs
                 /\ s.seen = Outline!Active
    BY RunKnows, SecondListGoes
  <1>2. \A t \in Legacy : ~Crowd(t)
    BY <1>1, RunKnows DEF DuplicatesKnown, Merging
  <1>3. HubsKnown(s) /\ s.seen \subseteq DOMAIN docs
    BY <1>1 DEF HubsKnown, Groups, Outline!Active
  <1>4. Informed(s)
    BY <1>1, <1>2, <1>3 DEF Informed, Merging
  <1>5. QED
    BY <1>1, <1>4, StaysAdvances

LEMMA NextHubText ==
  ASSUME TextInv, NEW r \in Runs, Outline!NextHub(r)
  PROVE  Advances(r)
  <1>1. PICK h, s :
          /\ run[r].pc = "hub" /\ Stays
          /\ h \in run[r].todo /\ Went(r, s) /\ s.pc = "ensure" /\ s.title = h
          /\ s.todo = run[r].todo \ {h} /\ s.seen = run[r].seen
    BY RunKnows, NextHubGoes
  <1>2. run[r].seen \subseteq DOMAIN docs /\ HubsKnown(run[r])
    BY <1>1, RunKnows DEF Over
  <1>3. \A t : Knows(s, t) <=> Knows(run[r], t)
    BY <1>1, SameSeen
  <1>4. /\ run[r].todo \subseteq Hubs /\ Knows(run[r], run[r].title)
        /\ \A t \in Groups \ (run[r].todo \cup {run[r].title}) : Knows(run[r], t)
    BY <1>1, <1>2 DEF HubsKnown
  <1>5. \A t \in Groups \ (s.todo \cup {s.title}) : Knows(s, t)
    BY <1>1, <1>3, <1>4
  <1>6. HubsKnown(s)
    BY <1>1, <1>4, <1>5, GroupsMapped DEF HubsKnown
  <1>7. QED
    BY <1>1, <1>2, <1>6, LateStaysAdvances DEF Merging, Over

LEMMA EnsureExistingText ==
  ASSUME TextInv, NEW r \in Runs, Outline!EnsureExisting(r), Spares
  PROVE  Advances(r)
  <1>1. run[r].pc = "ensure" /\ Knows(run[r], run[r].title)
    BY RunKnows, EnsureExistingGoes
  <1>2. PICK d, w, parent :
          /\ d = Chosen(run[r], run[r].title) /\ Outline!Update(d, w)
          /\ w = [docs[d] EXCEPT !.text = "stub", !.lists = {}, !.parent = parent]
    <2>1. PICK d, w : /\ d = Chosen(run[r], run[r].title) /\ Outline!Update(d, w)
                      /\ w = [docs[d] EXCEPT !.text = "stub", !.lists = {},
                                !.parent = IF run[r].title = Root THEN @
                                           ELSE Outline!ParentFor(r, run[r].title)]
      BY RunKnows, EnsureExistingGoes
    <2>2. PICK parent : parent = IF run[r].title = Root THEN docs[d].parent
                                 ELSE Outline!ParentFor(r, run[r].title)
      OBVIOUS
    <2>3. QED
      BY <2>1, <2>2
  <1>3. PICK s : /\ Went(r, s)
                 /\ \/ After(s, run[r])
                    \/ /\ s.pc = "ensureArchive" /\ s.todo = run[r].todo
                       /\ s.title = run[r].title /\ s.seen = run[r].seen
    BY RunKnows, EnsureExistingGoes
  <1>4. SyncInv /\ run[r].seen \subseteq DOMAIN docs /\ HubsKnown(run[r])
    BY <1>1, RunKnows DEF Over
  <1>5. d \in DOMAIN docs /\ docs[d].title = run[r].title
    BY <1>1, <1>2, <1>4, ChosenKnown
  <1>6. /\ run[r].todo \subseteq Hubs /\ run[r].title \in Groups
        /\ \A t \in Groups \ (run[r].todo \cup {run[r].title}) : Knows(run[r], t)
    BY <1>1, <1>4 DEF HubsKnown
  <1>7. DOMAIN w = DOMAIN docs[d] /\ w.title = docs[d].title /\ w.active = docs[d].active
    <2>1. Columns \subseteq DOMAIN docs[d]
      BY <1>4, <1>5 DEF SyncInv, DocsInv
    <2>2. QED
      BY <1>2, <2>1 DEF Columns
  <1>8. s.seen = run[r].seen
    BY <1>3 DEF After
  <1>9. HubsKnown(s) /\ s.pc \notin Merging \cup Over
    <2>1. CASE After(s, run[r])
      BY <1>1, <1>6, <2>1, AfterHubs
    <2>2. CASE s.pc = "ensureArchive" /\ s.todo = run[r].todo /\ s.title = run[r].title
      <3>1. \A t : Knows(s, t) <=> Knows(run[r], t)
        BY <1>8, SameSeen
      <3>2. /\ s.todo \subseteq Hubs /\ s.title \in Groups /\ Knows(s, s.title)
            /\ \A t \in Groups \ (s.todo \cup {s.title}) : Knows(s, t)
        BY <1>1, <1>6, <2>2, <3>1
      <3>3. QED
        BY <2>2, <3>2 DEF HubsKnown, Merging, Over
    <2>3. QED
      BY <1>3, <2>1, <2>2
  <1>10. docs[d].title \notin Legacy /\ run[r].pc \notin Merging \cup Over
    BY <1>1, <1>5, <1>6, GroupsMapped DEF Merging, Over
  <1>11. QED
    BY <1>2, <1>3, <1>4, <1>5, <1>7, <1>8, <1>9, <1>10, UpdateAdvances

\* A new document of a mapped title, which the run knows from then on.
LEMMA CreateAdvances ==
  ASSUME TextInv, NEW r \in Runs, run[r].pc \notin Merging \cup Over, Spares,
         NEW t \in Outline!Titles, t \notin Legacy, NEW text, NEW parent,
         Outline!Create(t, text, parent), NEW q, q.seen = run[r].seen \cup {Len(docs) + 1}
  PROVE  /\ Fresh /\ q.seen \subseteq DOMAIN docs'
         /\ Knows(q, t)' /\ \A u : Knows(run[r], u) => Knows(q, u)'
  <1>1. SyncInv /\ PlacesInv /\ FreshInv /\ run[r].seen \subseteq DOMAIN docs
    BY RunKnows
  <1>2. Fresh
    BY <1>1, CreateFresh
  <1>3. PICK w : w.title = t /\ docs' = Append(docs, w)
    BY DEF Outline!Create
  <1>4. PICK n \in Nat : n = Len(docs) /\ DOMAIN docs = 1..n
    BY <1>1 DEF SyncInv, DocsInv
  <1>5. DOMAIN docs' = 1..(n + 1) /\ docs'[n + 1] = w
    BY <1>1, <1>3, <1>4 DEF SyncInv, DocsInv
  <1>6. q.seen \subseteq DOMAIN docs'
    BY <1>1, <1>4, <1>5
  <1>7. n + 1 \in Outline!Entitled(t, q.seen)'
    BY <1>3, <1>4, <1>5 DEF Outline!Entitled
  <1>8. ASSUME NEW u, Knows(run[r], u)
        PROVE  Knows(q, u)'
    <2>1. PICK d : d \in run[r].seen /\ docs[d].title = u
      BY <1>8 DEF Knows, Outline!Entitled
    <2>2. docs'[d].title = u
      BY <1>1, <2>1 DEF Spares
    <2>3. QED
      BY <2>1, <2>2 DEF Knows, Outline!Entitled
  <1>9. QED
    BY <1>2, <1>6, <1>7, <1>8 DEF Knows

LEMMA EnsureMissingText ==
  ASSUME TextInv, NEW r \in Runs, Outline!EnsureMissing(r), Spares
  PROVE  Advances(r)
  <1>1. PICK q, s : /\ run[r].pc = "ensure" /\ Went(r, s) /\ After(s, q)
                    /\ q.todo = run[r].todo /\ q.title = run[r].title
                    /\ q.seen = run[r].seen \cup {Len(docs) + 1}
    BY RunKnows, EnsureMissingGoes
  <1>2. PICK t, parent : t = run[r].title /\ Outline!Create(t, "stub", parent)
    BY RunKnows, EnsureMissingGoes
  <1>3. HubsKnown(run[r]) /\ run[r].pc \notin Merging \cup Over
    BY <1>1, RunKnows DEF Over, Merging
  <1>4. /\ q.todo \subseteq Hubs /\ t \in Groups /\ q.title = t
        /\ \A u \in Groups \ (q.todo \cup {t}) : Knows(run[r], u)
    BY <1>1, <1>2, <1>3 DEF HubsKnown
  <1>5. t \in Outline!Titles /\ t \notin Legacy
    BY <1>4, GroupsMapped
  <1>6. /\ Fresh /\ q.seen \subseteq DOMAIN docs'
        /\ Knows(q, t)' /\ \A u : Knows(run[r], u) => Knows(q, u)'
    BY <1>1, <1>2, <1>3, <1>5, CreateAdvances
  <1>7. s.seen = q.seen /\ s.title = t
    BY <1>1, <1>4 DEF After
  <1>8. \A u \in Groups \ q.todo : Knows(s, u)'
    BY <1>4, <1>6, <1>7 DEF Knows
  <1>9. HubsKnown(s)' /\ s.pc \notin Merging \cup Over
    <2>1. CASE q.todo = {} /\ s.pc = "targets" /\ s.todo = Targets
      BY <1>8, <2>1 DEF HubsKnown, Merging, Over
    <2>2. CASE s.pc = "hub" /\ s.todo = q.todo
      <3>1. \A u \in Groups \ (s.todo \cup {s.title}) : Knows(s, u)'
        BY <1>8, <2>2
      <3>2. Knows(s, s.title)'
        BY <1>6, <1>7 DEF Knows
      <3>3. QED
        BY <1>4, <1>7, <2>2, <3>1, <3>2 DEF HubsKnown, Merging, Over
    <2>3. QED
      BY <1>1, <2>1, <2>2 DEF After
  <1>10. QED
    BY <1>1, <1>3, <1>6, <1>7, <1>9, LateAdvances

LEMMA CreateTargetText ==
  ASSUME TextInv, NEW r \in Runs, Outline!CreateTarget(r), Spares
  PROVE  Advances(r)
  <1>1. PICK t, s, parent :
          /\ run[r].pc = "targets" /\ t \in run[r].todo /\ Outline!Create(t, "raw", parent)
          /\ Went(r, s) /\ s.pc = "targets" /\ s.todo = run[r].todo \ {t}
          /\ s.seen = run[r].seen \cup {Len(docs) + 1}
    BY RunKnows, CreateTargetGoes
  <1>2. HubsKnown(run[r]) /\ run[r].pc \notin Merging \cup Over
    BY <1>1, RunKnows DEF Over, Merging
  <1>3. run[r].todo \subseteq Targets /\ \A u \in Groups : Knows(run[r], u)
    BY <1>1, <1>2 DEF HubsKnown
  <1>4. t \in Outline!Titles /\ t \notin Legacy
    BY <1>1, <1>3, GroupsMapped
  <1>5. /\ Fresh /\ s.seen \subseteq DOMAIN docs'
        /\ \A u : Knows(run[r], u) => Knows(s, u)'
    BY <1>1, <1>2, <1>4, CreateAdvances
  <1>6. HubsKnown(s)' /\ s.pc \notin Merging \cup Over
    BY <1>1, <1>3, <1>5 DEF HubsKnown, Merging, Over
  <1>7. QED
    BY <1>1, <1>2, <1>5, <1>6, LateAdvances

LEMMA ThirdListText ==
  ASSUME TextInv, NEW r \in Runs, Outline!ThirdList(r)
  PROVE  Advances(r)
  <1>1. PICK s : /\ run[r].pc = "targets" /\ Stays /\ Went(r, s) /\ s.pc = "rewrite"
                 /\ s.seen = Outline!Active \cup {Chosen(run[r], g) : g \in Groups}
                 /\ s.todo = {t \in Targets : Held(t) # {}}
    BY RunKnows, ThirdListGoes
  <1>2. /\ SyncInv /\ run[r].seen \subseteq DOMAIN docs
        /\ \A g \in Groups : Knows(run[r], g)
    BY <1>1, RunKnows DEF HubsKnown, Over
  <1>3. \A g \in Groups : Chosen(run[r], g) \in DOMAIN docs /\ docs[Chosen(run[r], g)].title = g
    BY <1>2, ChosenKnown
  <1>4. s.seen \subseteq DOMAIN docs
    BY <1>1, <1>3 DEF Outline!Active
  <1>5. \A g \in Groups : Knows(s, g)
    BY <1>1, <1>3 DEF Knows, Outline!Entitled
  <1>6. \A t \in s.todo : t \in Targets /\ Knows(s, t)
    BY <1>1 DEF Knows, Held, Outline!Entitled
  <1>7. HubsKnown(s)
    BY <1>1, <1>5, <1>6 DEF HubsKnown
  <1>8. QED
    BY <1>1, <1>4, <1>7, LateStaysAdvances DEF Merging, Over

LEMMA RewriteText ==
  ASSUME TextInv, NEW r \in Runs, Outline!Rewrite(r)
  PROVE  Advances(r)
  <1>1. PICK t, d, s :
          /\ run[r].pc = "rewrite" /\ Stays /\ t \in run[r].todo /\ d = Chosen(run[r], t)
          /\ Went(r, s) /\ s.todo = run[r].todo \ {t} /\ s.newest = d
          /\ s.seen = run[r].seen /\ s.pc \in {"rewrite", "write"}
    BY RunKnows, RewriteGoes
  <1>2. SyncInv /\ run[r].seen \subseteq DOMAIN docs /\ HubsKnown(run[r])
    BY <1>1, RunKnows DEF Over
  <1>3. /\ run[r].todo \subseteq Targets /\ \A u \in run[r].todo : Knows(run[r], u)
        /\ \A g \in Groups : Knows(run[r], g)
    BY <1>1, <1>2 DEF HubsKnown
  <1>4. d \in DOMAIN docs /\ docs[d].title \in Targets
    BY <1>1, <1>2, <1>3, ChosenKnown
  <1>5. \A u : Knows(s, u) <=> Knows(run[r], u)
    BY <1>1, SameSeen
  <1>6. HubsKnown(s)
    BY <1>1, <1>3, <1>4, <1>5 DEF HubsKnown
  <1>7. QED
    BY <1>1, <1>2, <1>6, LateStaysAdvances DEF Merging, Over

LEMMA WriteFinalText ==
  ASSUME TextInv, NEW r \in Runs, Outline!WriteFinal(r), Spares
  PROVE  Advances(r)
  <1>1. PICK d, w, parent :
          /\ run[r].pc = "write" /\ d = run[r].newest /\ Outline!Update(d, w)
          /\ w = [docs[d] EXCEPT !.text = "final", !.parent = parent]
    <2>1. PICK d, w :
            /\ run[r].pc = "write" /\ d = run[r].newest /\ Outline!Update(d, w)
            /\ w = [docs[d] EXCEPT !.text = "final",
                                   !.parent = Chosen(run[r], HubOf[run[r].title])]
      BY RunKnows, WriteFinalGoes
    <2>2. PICK parent : parent = Chosen(run[r], HubOf[run[r].title])
      OBVIOUS
    <2>3. QED
      BY <2>1, <2>2
  <1>2. PICK s : /\ Went(r, s) /\ s.pc = "rewrite" /\ s.todo = run[r].todo
                 /\ s.seen = run[r].seen
    BY RunKnows, WriteFinalGoes
  <1>3. SyncInv /\ run[r].seen \subseteq DOMAIN docs /\ HubsKnown(run[r])
    BY <1>1, RunKnows DEF Over
  <1>4. /\ run[r].todo \subseteq Targets /\ \A u \in run[r].todo : Knows(run[r], u)
        /\ \A g \in Groups : Knows(run[r], g)
        /\ d \in DOMAIN docs /\ docs[d].title \in Targets
    BY <1>1, <1>3 DEF HubsKnown
  <1>5. DOMAIN w = DOMAIN docs[d] /\ w.title = docs[d].title /\ w.active = docs[d].active
    <2>1. Columns \subseteq DOMAIN docs[d]
      BY <1>3, <1>4 DEF SyncInv, DocsInv
    <2>2. QED
      BY <1>1, <2>1 DEF Columns
  <1>6. \A u : Knows(s, u) <=> Knows(run[r], u)
    BY <1>2, SameSeen
  <1>7. HubsKnown(s)
    BY <1>2, <1>4, <1>6 DEF HubsKnown
  <1>8. docs[d].title \notin Legacy
    BY <1>4, GroupsMapped
  <1>9. QED
    BY <1>1, <1>2, <1>3, <1>4, <1>5, <1>7, <1>8, UpdateAdvances DEF Merging, Over

LEMMA UnknownListText ==
  ASSUME TextInv, NEW r \in Runs, Outline!UnknownList(r)
  PROVE  Advances(r)
  <1>1. PICK s : /\ run[r].pc = "rewrite" /\ Stays /\ Went(r, s) /\ s.pc = "unknown"
                 /\ s.seen = run[r].seen
    BY RunKnows, UnknownListGoes
  <1>2. /\ run[r].seen \subseteq DOMAIN docs
        /\ \A g \in Groups : Knows(run[r], g)
    BY <1>1, RunKnows DEF HubsKnown, Over
  <1>3. HubsKnown(s)
    BY <1>1, <1>2, SameSeen DEF HubsKnown
  <1>4. QED
    BY <1>1, <1>2, <1>3, LateStaysAdvances DEF Merging, Over

LEMMA ArchiveUnknownText ==
  ASSUME TextInv, NEW r \in Runs, Outline!ArchiveUnknown(r), Spares
  PROVE  Advances(r)
  <1>1. PICK d, s : /\ run[r].pc = "unknown" /\ d \in run[r].todo /\ Outline!Archive(d)
                    /\ Went(r, s) /\ s.pc = "unknown" /\ s.seen = run[r].seen
    BY RunKnows, ArchiveUnknownGoes
  <1>2. /\ SyncInv /\ run[r].seen \subseteq DOMAIN docs
        /\ \A g \in Groups : Knows(run[r], g)
    BY <1>1, RunKnows DEF HubsKnown, Over
  <1>3. d \in DOMAIN docs
    BY <1>1, <1>2 DEF SyncInv, Careful
  <1>4. \A t \in Legacy : ~Crowd(t)
    BY <1>1, RunKnows DEF Merging, Over
  <1>5. Fresh
    BY <1>1, <1>3, <1>4, RunKnows, ArchiveFresh
  <1>6. HubsKnown(s)
    BY <1>1, <1>2, SameSeen DEF HubsKnown
  <1>7. s.seen \subseteq DOMAIN docs' /\ HubsKnown(s)'
    BY <1>1, <1>2, <1>6, HubsStay
  <1>8. QED
    BY <1>1, <1>5, <1>7, LateAdvances DEF Merging, Over

LEMMA LastListText ==
  ASSUME TextInv, NEW r \in Runs, Outline!LastList(r)
  PROVE  Advances(r)
  <1>1. PICK s : /\ run[r].pc \in {"rewrite", "unknown"} /\ Stays /\ Went(r, s)
                 /\ s.pc = "indexes" /\ s.todo = Hubs /\ s.seen = run[r].seen
    BY RunKnows, LastListGoes
  <1>2. /\ run[r].seen \subseteq DOMAIN docs
        /\ \A g \in Groups : Knows(run[r], g)
    BY <1>1, RunKnows DEF HubsKnown, Over
  <1>3. HubsKnown(s)
    BY <1>1, <1>2, SameSeen DEF HubsKnown
  <1>4. QED
    BY <1>1, <1>2, <1>3, LateStaysAdvances DEF Merging, Over

LEMMA WriteIndexText ==
  ASSUME TextInv, NEW r \in Runs, Outline!WriteIndex(r), Spares
  PROVE  Advances(r)
  <1>1. PICK h, d, w, s, lists :
          /\ run[r].pc = "indexes" /\ h \in run[r].todo /\ d = Chosen(run[r], h)
          /\ Outline!Update(d, w) /\ w = [docs[d] EXCEPT !.text = "index", !.lists = lists]
          /\ Went(r, s) /\ s.pc = "indexes" /\ s.todo = run[r].todo \ {h}
          /\ s.seen = run[r].seen
    <2>1. PICK h, d, w, s :
            /\ run[r].pc = "indexes" /\ h \in run[r].todo /\ d = Chosen(run[r], h)
            /\ Outline!Update(d, w)
            /\ w = [docs[d] EXCEPT
                      !.text = "index",
                      !.lists = {e \in DOMAIN run[r].parent : run[r].parent[e] = d} \ {d}]
            /\ Went(r, s) /\ s.pc = "indexes" /\ s.todo = run[r].todo \ {h}
            /\ s.seen = run[r].seen
      BY RunKnows, WriteIndexGoes
    <2>2. PICK lists : lists = {e \in DOMAIN run[r].parent : run[r].parent[e] = d} \ {d}
      OBVIOUS
    <2>3. w = [docs[d] EXCEPT !.text = "index", !.lists = lists]
      BY <2>1, <2>2
    <2>4. QED
      BY <2>1, <2>3
  <1>2. /\ SyncInv /\ run[r].seen \subseteq DOMAIN docs /\ run[r].todo \subseteq Hubs
        /\ \A g \in Groups : Knows(run[r], g)
    BY <1>1, RunKnows DEF HubsKnown, Over
  <1>3. d \in DOMAIN docs /\ docs[d].title \in Groups /\ docs[d].title \notin Legacy
    BY <1>1, <1>2, ChosenKnown, GroupsMapped
  <1>4. DOMAIN w = DOMAIN docs[d] /\ w.title = docs[d].title /\ w.active = docs[d].active
    <2>1. Columns \subseteq DOMAIN docs[d]
      BY <1>2, <1>3 DEF SyncInv, DocsInv
    <2>2. QED
      BY <1>1, <2>1 DEF Columns
  <1>5. HubsKnown(s)
    BY <1>1, <1>2, SameSeen DEF HubsKnown
  <1>6. QED
    BY <1>1, <1>2, <1>3, <1>4, <1>5, UpdateAdvances DEF Merging, Over

\* A run that ends knows nothing more.
LEMMA OverAdvances ==
  ASSUME NEW r, Fresh, NEW s, Went(r, s), s.pc \in {"done", "failed"}
  PROVE  Advances(r)
  <1>1. Informed(s)'
    BY DEF Informed, Merging, Over
  <1>2. QED
    BY <1>1 DEF Advances

LEMMA WriteRootText ==
  ASSUME TextInv, NEW r \in Runs, Outline!WriteRoot(r)
  PROVE  Advances(r)
  <1>1. PICK d, w, s :
          /\ run[r].pc = "indexes" /\ d = Chosen(run[r], Root) /\ Outline!Update(d, w)
          /\ w = [docs[d] EXCEPT !.text = "index"]
          /\ Went(r, s) /\ s.pc = "done"
    BY RunKnows, WriteRootGoes
  <1>2. SyncInv /\ run[r].seen \subseteq DOMAIN docs /\ Knows(run[r], Root)
    BY <1>1, RunKnows, GroupsMapped DEF HubsKnown, Over
  <1>3. d \in DOMAIN docs /\ docs[d].title = Root /\ docs[d].title \notin Legacy
    BY <1>1, <1>2, ChosenKnown, GroupsMapped
  <1>4. DOMAIN w = DOMAIN docs[d] /\ w.title = docs[d].title /\ w.active = docs[d].active
    <2>1. Columns \subseteq DOMAIN docs[d]
      BY <1>2, <1>3 DEF SyncInv, DocsInv
    <2>2. QED
      BY <1>1, <2>1 DEF Columns
  <1>5. Fresh
    BY <1>1, <1>3, <1>4, RunKnows, UpdateFresh
  <1>6. QED
    BY <1>1, <1>5, OverAdvances

LEMMA FailText ==
  ASSUME TextInv, NEW r \in Runs, Outline!Fail(r)
  PROVE  Advances(r)
  <1>1. PICK s : Stays /\ Went(r, s) /\ s.pc = "failed"
    BY RunKnows, FailGoes
  <1>2. Fresh
    BY <1>1, RunKnows, SameFresh DEF Stays
  <1>3. QED
    BY <1>1, <1>2, OverAdvances

LEMMA TextStart ==
  ASSUME Outline!Init
  PROVE  TextInv
  <1>1. PICK c \in Start : docs = c.docs /\ updated = c.updated
    BY DEF Outline!Init
  <1>2. /\ updated \in Seq(Nat) /\ Len(updated) = Len(docs)
        /\ \A d, e \in DOMAIN docs : /\ updated[d] <= Len(docs)
                                     /\ updated[d] = updated[e] => d = e
    BY <1>1, OutlineAssumption
  <1>3. ASSUME NEW t \in Legacy, NEW d \in Held(t), Latest(d, t)
        PROVE  docs[d].text = "new"
    <2>1. Held(t) = {e \in DOMAIN c.docs : c.docs[e].title = t /\ c.docs[e].active}
      BY <1>1 DEF Held, Outline!Entitled, Outline!Active
    <2>2. \A e \in {f \in DOMAIN c.docs : c.docs[f].title = t /\ c.docs[f].active} :
            c.updated[e] <= c.updated[d]
      BY <1>1, <1>3, <2>1 DEF Latest
    <2>3. QED
      BY <1>1, <1>3, <2>1, <2>2, OutlineAssumption
  <1>4. \A r \in Runs : run[r].pc = "idle"
    BY DEF Outline!Init, Outline!Idle
  <1>5. QED
    BY <1>2, <1>3, <1>4, SyncStart
       DEF TextInv, PlacesInv, FreshInv, Informed, Merging, Over

LEMMA TextStep ==
  ASSUME TextInv, Outline!Next
  PROVE  TextInv'
  <1>1. PICK r \in Runs :
          \/ Outline!FirstList(r) \/ Outline!ReadNewest(r) \/ Outline!MergeText(r)
          \/ Outline!ArchiveExtra(r) \/ Outline!SecondList(r) \/ Outline!NextHub(r)
          \/ Outline!EnsureExisting(r) \/ Outline!EnsureMissing(r)
          \/ Outline!CreateTarget(r) \/ Outline!ThirdList(r) \/ Outline!Rewrite(r)
          \/ Outline!WriteFinal(r) \/ Outline!UnknownList(r) \/ Outline!ArchiveUnknown(r)
          \/ Outline!LastList(r) \/ Outline!WriteIndex(r) \/ Outline!WriteRoot(r)
          \/ Outline!Fail(r)
    BY DEF Outline!Next
  <1>2. SyncInv' /\ Spares
    BY SyncStep DEF TextInv
  <1>3. Advances(r)
    BY <1>1, <1>2, FirstListText, ReadNewestText, MergeTextText, ArchiveExtraText,
       SecondListText, NextHubText, EnsureExistingText, EnsureMissingText,
       CreateTargetText, ThirdListText, RewriteText, WriteFinalText, UnknownListText,
       ArchiveUnknownText, LastListText, WriteIndexText, WriteRootText, FailText
  <1>4. QED
    BY <1>2, <1>3, TextKept

LEMMA TextRests ==
  ASSUME TextInv, UNCHANGED outlineVars
  PROVE  TextInv'
  <1>1. UNCHANGED <<docs, updated, run>> /\ SyncInv'
    BY SyncRests DEF outlineVars, TextInv
  <1>2. Spares /\ Fresh
    BY <1>1, SameFresh DEF TextInv
  <1>3. ASSUME NEW r \in Runs
        PROVE  Informed(run[r])'
    <2>1. PICK s : s = run[r] /\ s = run'[r]
      BY <1>1
    <2>2. Informed(s)'
      BY <1>2, <2>1, StaysInformed DEF TextInv, Fresh
    <2>3. QED
      BY <2>1, <2>2 DEF Informed, HubsKnown, DuplicatesKnown, Knows, Chosen
  <1>4. QED
    BY <1>1, <1>2, <1>3 DEF TextInv, Fresh

\* Merging the duplicates of a title that no file maps keeps its last text in
\* an active document, for any runs, titles and collections, at every point
\* where a run may fail. Of several active documents, the oldest is the one
\* every run that merges has chosen; it takes the new text before a duplicate
\* goes, and is then the last updated, so that whoever lists next reads the new
\* text again. What cleans up unmapped titles starts when no duplicates are left.
THEOREM NewestTextsSurvive == ServicesSpec => []NewestTextSurvives
  <1>1. ServicesInit => TextInv
    <2>1. ServicesInit => Outline!Init
      BY DEF ServicesInit, OutlineRests
    <2>2. QED
      BY <2>1, TextStart
  <1>2. ASSUME TextInv, [ServicesNext]_allVars
        PROVE  TextInv'
    <2>1. Outline!Next \/ UNCHANGED outlineVars
      BY <1>2 DEF ServicesNext, allVars
    <2>2. QED
      BY <1>2, <2>1, TextStep, TextRests
  <1>3. TextInv => Outline!NewestTextSurvives
    <2>1. ASSUME TextInv, NEW t \in Legacy, Held(t) # {}
          PROVE  \E d \in Held(t) : docs[d].text = "new"
      BY <2>1, NewestIsLatest DEF TextInv, FreshInv
    <2>2. QED
      BY <2>1 DEF Outline!NewestTextSurvives, Held
  <1>4. QED
    BY <1>1, <1>2, <1>3, PTL DEF ServicesSpec, NewestTextSurvives


-----------------------------------------------------------------------------
\* The positions from making sure of the index on; in a calm run no document
\* is archived beside the one made sure of.
Later == {"ensure", "hub", "targets", "rewrite", "write", "unknown", "indexes"}

\* No title has two active documents.
Alone == \A t \in Outline!Titles : ~Crowd(t)

\* What a run takes for the documents of a mapped title is what there is.
Sees(s) == \A t \in Outline!Desired : Outline!Entitled(t, s.seen) = Held(t)

\* A hub under the index, a target as it should be, and a hub's list of what
\* is under it.
Hung(h)    == \A d \in Held(h) : docs[d].parent \in Held(Root)
Filed(t)   == \A d \in Held(t) : /\ docs[d].text = "final"
                                 /\ docs[d].parent \in Held(HubOf[t])
Indexed(h) == \A d \in Held(h) : /\ docs[d].text = "index"
                                 /\ docs[d].lists = {e \in Outline!Active : docs[e].parent = d}

\* The hubs a run has made sure of.
Settled(s) == CASE s.pc = "ensure" -> Hubs \ (s.todo \cup {s.title})
                [] s.pc = "hub" -> Hubs \ s.todo
                [] OTHER -> Hubs

\* What a run that nobody overlapped has put in order so far.
CalmRun(r, s) ==
  /\ s.pc # "ensureArchive"
  /\ s.pc \in Merging =>
       /\ s.seen = Outline!Active
       /\ \A t \in Outline!Titles : Crowd(t) =>
            (\E p \in s.todo : p[1] = t) \/ (s.pc # "dedupe" /\ s.title = t)
  /\ s.pc \in Later => Alone /\ Sees(s) /\ \A h \in Settled(s) : Hung(h)
  /\ s.pc = "targets" => \A t \in Targets \ s.todo : Held(t) # {}
  /\ s.pc \in {"rewrite", "write"} =>
       /\ \A t \in Targets : Held(t) # {}
       /\ \A t \in s.todo : \A d \in Held(t) : s.parent[d] = docs[d].parent
       /\ \A t \in Targets \ s.todo : Filed(t) \/ (s.pc = "write" /\ t = s.title)
  /\ s.pc = "write" => s.title \in Targets \ s.todo /\ s.newest \in Held(s.title)
  /\ s.pc \in {"unknown", "indexes"} => \A t \in Targets : Held(t) # {} /\ Filed(t)
  /\ s.pc = "unknown" =>
       \A d \in Outline!Active : docs[d].title \in Outline!Desired \/ d \in s.todo
  /\ s.pc = "indexes" =>
       /\ s.parent = Parents
       /\ r \in Cleaning => \A d \in Outline!Active : docs[d].title \in Outline!Desired
       /\ \A h \in Hubs \ s.todo : Indexed(h)
  /\ s.pc = "done" => Outline!InOrder(r)

CalmInv ==
  \A r \in Runs : quiet[r] /\ run[r].pc \notin {"idle", "failed"} => CalmRun(r, run[r])

\* The run made a step that kept it calm, if it was.
Calms(r) ==
  \E s : Went(r, s) /\ (quiet[r] => s.pc = "failed" \/ CalmRun(r, s)')

LEMMA CalmKept ==
  ASSUME SyncInv, CalmInv, NEW r \in Runs, Calms(r)
  PROVE  CalmInv'
  <1>1. PICK s : Went(r, s) /\ (quiet[r] => s.pc = "failed" \/ CalmRun(r, s)')
    BY DEF Calms
  <1>2. \A q \in Runs : run'[q] = IF q = r THEN s ELSE run[q]
    BY <1>1 DEF Went, Outline!Goes, SyncInv
  <1>3. \A q \in Runs : quiet'[q] => quiet[q] /\ (q = r \/ run[q].pc = "idle")
    BY <1>1 DEF Went, Outline!Goes
  <1>4. ASSUME NEW q \in Runs, quiet'[q], run'[q].pc \notin {"idle", "failed"}
        PROVE  CalmRun(q, run[q])'
    <2>1. q = r /\ quiet[r]
      BY <1>2, <1>3, <1>4
    <2>2. run'[q] = s /\ CalmRun(r, s)'
      BY <1>1, <1>2, <1>4, <2>1
    <2>3. QED
      BY <2>1, <2>2 DEF CalmRun, Settled, Sees
  <1>5. QED
    BY <1>4 DEF CalmInv

LEMMA RunIsCalm ==
  ASSUME CalmInv, NEW r \in Runs, quiet[r], run[r].pc \notin Over
  PROVE  CalmRun(r, run[r])
  BY DEF CalmInv, Over

\* A step that changes no document needs to know now what is known then.
LEMMA SameCalm ==
  ASSUME Stays, NEW r, NEW s, CalmRun(r, s)
  PROVE  CalmRun(r, s)'
  <1>1. docs' = docs
    BY DEF Stays
  <1>2. Outline!Active' = Outline!Active /\ Parents' = Parents
    BY <1>1 DEF Outline!Active, Parents
  <1>3. \A t, S : Outline!Entitled(t, S)' = Outline!Entitled(t, S)
    BY <1>1 DEF Outline!Entitled
  <1>4. \A t : Held(t)' = Held(t)
    BY <1>1, <1>2 DEF Held, Outline!Entitled
  <1>5. \A t : /\ Crowd(t)' <=> Crowd(t)
               /\ Hung(t)' <=> Hung(t)
               /\ Filed(t)' <=> Filed(t)
               /\ Indexed(t)' <=> Indexed(t)
    BY <1>1, <1>2, <1>4 DEF Crowd, Hung, Filed, Indexed
  <1>6. /\ Alone' <=> Alone
        /\ Sees(s)' <=> Sees(s)
        /\ Settled(s)' = Settled(s)
    BY <1>3, <1>4, <1>5 DEF Alone, Sees, Settled
  <1>7. Outline!InOrder(r)' <=> Outline!InOrder(r)
    BY <1>1 DEF Outline!InOrder, Outline!Entitled, Outline!Active, Outline!Cardinality
  <1>8. QED
    BY <1>1, <1>2, <1>4, <1>5, <1>6, <1>7 DEF CalmRun

LEMMA StaysCalm ==
  ASSUME NEW r, Stays, NEW s, Went(r, s), quiet[r] => CalmRun(r, s)
  PROVE  Calms(r)
  BY SameCalm DEF Calms


LEMMA FailCalm ==
  ASSUME TextInv, NEW r \in Runs, Outline!Fail(r)
  PROVE  Calms(r)
  BY RunKnows, FailGoes DEF Calms

LEMMA FirstListCalm ==
  ASSUME TextInv, NEW r \in Runs, Outline!FirstList(r)
  PROVE  Calms(r)
  <1>1. PICK s : /\ Stays /\ Went(r, s) /\ s.pc = "dedupe" /\ s.seen = Outline!Active
                 /\ s.todo = {<<t, Outline!Newest(Held(t))>> :
                                t \in {u \in Outline!Titles : Outline!Cardinality(Held(u)) > 1}}
    BY RunKnows, FirstListGoes
  <1>2. ASSUME NEW t \in Outline!Titles, Crowd(t)
        PROVE  \E p \in s.todo : p[1] = t
    <2>1. t \in {u \in Outline!Titles : Outline!Cardinality(Held(u)) > 1}
      BY <1>2, RunKnows, CrowdsCount
    <2>2. <<t, Outline!Newest(Held(t))>> \in s.todo
      BY <1>1, <2>1
    <2>3. QED
      BY <2>2
  <1>3. CalmRun(r, s)
    BY <1>1, <1>2 DEF CalmRun, Later
  <1>4. QED
    BY <1>1, <1>3, StaysCalm

LEMMA ReadNewestCalm ==
  ASSUME TextInv, CalmInv, NEW r \in Runs, Outline!ReadNewest(r)
  PROVE  Calms(r)
  <1>1. PICK p, s :
          /\ run[r].pc = "dedupe" /\ Stays
          /\ p \in run[r].todo /\ Went(r, s) /\ s.pc = "merge" /\ s.title = p[1]
          /\ s.todo = run[r].todo \ {p} /\ s.seen = run[r].seen
    BY RunKnows, ReadNewestGoes
  <1>2. quiet[r] => CalmRun(r, run[r])
    BY <1>1, RunIsCalm DEF Over
  <1>3. quiet[r] => CalmRun(r, s)
    BY <1>1, <1>2 DEF CalmRun, Merging, Later
  <1>4. QED
    BY <1>1, <1>3, StaysCalm

LEMMA SecondListCalm ==
  ASSUME TextInv, CalmInv, NEW r \in Runs, Outline!SecondList(r)
  PROVE  Calms(r)
  <1>1. PICK s : /\ run[r].pc = "dedupe" /\ run[r].todo = {} /\ Stays
                 /\ Went(r, s) /\ s.pc = "ensure" /\ s.title = Root /\ s.todo = Hubs
                 /\ s.seen = Outline!Active
    BY RunKnows, SecondListGoes
  <1>2. quiet[r] => CalmRun(r, run[r])
    BY <1>1, RunIsCalm DEF Over
  <1>3. quiet[r] => Alone
    BY <1>1, <1>2 DEF CalmRun, Merging, Alone
  <1>4. Sees(s) /\ Settled(s) = {}
    BY <1>1 DEF Sees, Settled, Held
  <1>5. quiet[r] => CalmRun(r, s)
    BY <1>1, <1>3, <1>4 DEF CalmRun, Merging, Later
  <1>6. QED
    BY <1>1, <1>5, StaysCalm

LEMMA NextHubCalm ==
  ASSUME TextInv, CalmInv, NEW r \in Runs, Outline!NextHub(r)
  PROVE  Calms(r)
  <1>1. PICK h, s :
          /\ run[r].pc = "hub" /\ Stays
          /\ h \in run[r].todo /\ Went(r, s) /\ s.pc = "ensure" /\ s.title = h
          /\ s.todo = run[r].todo \ {h} /\ s.seen = run[r].seen
    BY RunKnows, NextHubGoes
  <1>2. quiet[r] => CalmRun(r, run[r])
    BY <1>1, RunIsCalm DEF Over
  <1>3. Settled(s) = Settled(run[r]) /\ (Sees(s) <=> Sees(run[r]))
    BY <1>1 DEF Sees, Settled
  <1>4. quiet[r] => CalmRun(r, s)
    BY <1>1, <1>2, <1>3 DEF CalmRun, Merging, Later
  <1>5. QED
    BY <1>1, <1>4, StaysCalm

\* What a calm run knows once it has made sure of the index and the hubs.
LEMMA KnowsHeld ==
  ASSUME TextInv, NEW r \in Runs, run[r].pc \notin Over, Sees(run[r]),
         NEW t \in Outline!Desired, Knows(run[r], t)
  PROVE  /\ Chosen(run[r], t) \in Held(t)
         /\ Chosen(run[r], t) \in DOMAIN docs /\ Chosen(run[r], t) \in Outline!Active
         /\ docs[Chosen(run[r], t)].title = t
  <1>1. SyncInv /\ run[r].seen \subseteq DOMAIN docs
    BY RunKnows
  <1>2. Chosen(run[r], t) \in Outline!Entitled(t, run[r].seen)
    BY <1>1, ChosenKnown DEF Outline!Entitled
  <1>3. Chosen(run[r], t) \in Held(t)
    BY <1>2 DEF Sees
  <1>4. QED
    BY <1>3 DEF Held, Outline!Entitled, Outline!Active

\* In a title with one document, all that is held is that one.
LEMMA AloneIsOne ==
  ASSUME Alone, NEW t \in Outline!Titles, NEW d \in Held(t)
  PROVE  Held(t) = {d}
  BY DEF Alone, Crowd

LEMMA ThirdListCalm ==
  ASSUME TextInv, CalmInv, NEW r \in Runs, Outline!ThirdList(r)
  PROVE  Calms(r)
  <1>1. PICK s : /\ run[r].pc = "targets" /\ Stays
                 /\ \A t \in run[r].todo : Knows(run[r], t)
                 /\ Went(r, s) /\ s.pc = "rewrite"
                 /\ s.seen = Outline!Active \cup {Chosen(run[r], g) : g \in Groups}
                 /\ s.todo = {t \in Targets : Held(t) # {}}
                 /\ s.parent = Parents
    BY RunKnows, ThirdListGoes
  <1>2. run[r].pc \notin Over
    BY <1>1 DEF Over
  <1>3. run[r].todo \subseteq Targets /\ \A g \in Groups : Knows(run[r], g)
    BY <1>1, <1>2, RunKnows DEF HubsKnown
  <1>4. SUFFICES ASSUME quiet[r] PROVE CalmRun(r, s)
    BY <1>1, StaysCalm
  <1>5. CalmRun(r, run[r])
    BY <1>2, <1>4, RunIsCalm
  <1>6. Alone /\ Sees(run[r]) /\ \A h \in Hubs : Hung(h)
    BY <1>1, <1>5 DEF CalmRun, Later, Settled
  <1>7. \A t \in Targets : Held(t) # {}
    <2>1. \A t \in Targets \ run[r].todo : Held(t) # {}
      BY <1>1, <1>5 DEF CalmRun
    <2>2. \A t \in run[r].todo : Held(t) # {}
      BY <1>1, <1>3, <1>6, GroupsMapped DEF Sees, Knows
    <2>3. QED
      BY <2>1, <2>2
  <1>8. s.seen = Outline!Active
    BY <1>1, <1>2, <1>3, <1>6, KnowsHeld, GroupsMapped
  <1>9. Sees(s) /\ Settled(s) = Hubs /\ s.todo = Targets
    BY <1>1, <1>7, <1>8 DEF Sees, Settled, Held
  <1>10. \A t \in Targets : \A d \in Held(t) : s.parent[d] = docs[d].parent
    BY <1>1 DEF Parents, Held, Outline!Entitled
  <1>11. QED
    BY <1>1, <1>6, <1>7, <1>9, <1>10 DEF CalmRun, Merging

LEMMA RewriteCalm ==
  ASSUME TextInv, CalmInv, NEW r \in Runs, Outline!Rewrite(r)
  PROVE  Calms(r)
  <1>1. PICK t, d, s :
          /\ run[r].pc = "rewrite" /\ Stays
          /\ t \in run[r].todo /\ d = Chosen(run[r], t)
          /\ Went(r, s) /\ s.todo = run[r].todo \ {t} /\ s.newest = d
          /\ s.seen = run[r].seen /\ s.parent = run[r].parent
          /\ \/ /\ docs[d].text = "final" /\ run[r].parent[d] = Chosen(run[r], HubOf[t])
                /\ s.pc = "rewrite"
             \/ s.pc = "write" /\ s.title = t
    BY RunKnows, RewriteGoes
  <1>2. run[r].pc \notin Over
    BY <1>1 DEF Over
  <1>3. /\ run[r].todo \subseteq Targets /\ \A u \in run[r].todo : Knows(run[r], u)
        /\ \A g \in Groups : Knows(run[r], g)
    BY <1>1, <1>2, RunKnows DEF HubsKnown
  <1>4. SUFFICES ASSUME quiet[r] PROVE CalmRun(r, s)
    BY <1>1, StaysCalm
  <1>5. CalmRun(r, run[r])
    BY <1>2, <1>4, RunIsCalm
  <1>6. /\ Alone /\ Sees(run[r]) /\ \A h \in Hubs : Hung(h)
        /\ \A u \in Targets : Held(u) # {}
        /\ \A u \in run[r].todo : \A e \in Held(u) : run[r].parent[e] = docs[e].parent
        /\ \A u \in Targets \ run[r].todo : Filed(u)
    BY <1>1, <1>5 DEF CalmRun, Later, Settled
  <1>7. t \in Targets /\ t \in Outline!Desired /\ t \in Outline!Titles
    BY <1>1, <1>3, GroupsMapped
  <1>8. d \in Held(t) /\ Held(t) = {d}
    BY <1>1, <1>2, <1>3, <1>6, <1>7, KnowsHeld, AloneIsOne
  <1>9. s.pc = "rewrite" => Filed(t)
    <2>1. HubOf[t] \in Groups /\ HubOf[t] \in Outline!Desired
      BY <1>7, GroupsMapped, OutlineAssumption
    <2>2. Chosen(run[r], HubOf[t]) \in Held(HubOf[t])
      BY <1>2, <1>3, <1>6, <2>1, KnowsHeld
    <2>3. run[r].parent[d] = docs[d].parent
      BY <1>1, <1>6, <1>8
    <2>4. QED
      BY <1>1, <1>8, <2>2, <2>3 DEF Filed
  <1>10. Sees(s) /\ Settled(s) = Hubs
    BY <1>1, <1>6 DEF Sees, Settled
  <1>11. \A u \in Targets \ s.todo : Filed(u) \/ (s.pc = "write" /\ u = s.title)
    BY <1>1, <1>6, <1>9
  <1>12. s.pc = "write" => s.title \in Targets \ s.todo /\ s.newest \in Held(s.title)
    BY <1>1, <1>7, <1>8
  <1>13. s.pc \in {"rewrite", "write"}
    BY <1>1
  <1>14. QED
    BY <1>1, <1>6, <1>10, <1>11, <1>12, <1>13 DEF CalmRun, Merging

LEMMA UnknownListCalm ==
  ASSUME TextInv, CalmInv, NEW r \in Runs, Outline!UnknownList(r)
  PROVE  Calms(r)
  <1>1. PICK s : /\ run[r].pc = "rewrite" /\ run[r].todo = {} /\ Stays
                 /\ Went(r, s) /\ s.pc = "unknown"
                 /\ s.todo = {d \in Outline!Active : docs[d].title \notin Outline!Desired}
                 /\ s.seen = run[r].seen
    BY RunKnows, UnknownListGoes
  <1>2. quiet[r] => CalmRun(r, run[r])
    BY <1>1, RunIsCalm DEF Over
  <1>3. Settled(s) = Settled(run[r]) /\ (Sees(s) <=> Sees(run[r]))
    BY <1>1 DEF Sees, Settled
  <1>4. quiet[r] => CalmRun(r, s)
    BY <1>1, <1>2, <1>3 DEF CalmRun, Merging, Later
  <1>5. QED
    BY <1>1, <1>4, StaysCalm

LEMMA LastListCalm ==
  ASSUME TextInv, CalmInv, NEW r \in Runs, Outline!LastList(r)
  PROVE  Calms(r)
  <1>1. PICK s : /\ \/ run[r].pc = "rewrite" /\ r \notin Cleaning
                    \/ run[r].pc = "unknown"
                 /\ run[r].todo = {} /\ Stays
                 /\ Went(r, s) /\ s.pc = "indexes" /\ s.todo = Hubs
                 /\ s.seen = run[r].seen /\ s.parent = Parents
    BY RunKnows, LastListGoes
  <1>2. quiet[r] => CalmRun(r, run[r])
    BY <1>1, RunIsCalm DEF Over
  <1>3. Settled(s) = Settled(run[r]) /\ (Sees(s) <=> Sees(run[r]))
    BY <1>1 DEF Sees, Settled
  <1>4. quiet[r] => /\ \A t \in Targets : Held(t) # {} /\ Filed(t)
                    /\ r \in Cleaning => \A d \in Outline!Active : docs[d].title \in Outline!Desired
    BY <1>1, <1>2 DEF CalmRun
  <1>5. quiet[r] => CalmRun(r, s)
    BY <1>1, <1>2, <1>3, <1>4 DEF CalmRun, Merging, Later
  <1>6. QED
    BY <1>1, <1>5, StaysCalm


-----------------------------------------------------------------------------
\* The calls of a calm run.
Rewritten(d, w) ==
  /\ DOMAIN docs' = DOMAIN docs /\ Outline!Active' = Outline!Active
  /\ \A e \in DOMAIN docs : docs'[e] = IF e = d THEN w ELSE docs[e]
  /\ \A S \in SUBSET DOMAIN docs : \A t : Outline!Entitled(t, S)' = Outline!Entitled(t, S)
  /\ \A t : Held(t)' = Held(t) /\ Held(t) \subseteq DOMAIN docs
            /\ (d \in Held(t) <=> t = docs[d].title)
  /\ Alone' <=> Alone

LEMMA CalmUpdate ==
  ASSUME SyncInv, NEW d \in Outline!Active, NEW w, Outline!Update(d, w),
         DOMAIN w = DOMAIN docs[d], w.title = docs[d].title, w.active = docs[d].active
  PROVE  Rewritten(d, w)
  <1>1. d \in DOMAIN docs
    BY DEF Outline!Active
  <1>2. DOMAIN docs' = DOMAIN docs /\ \A e \in DOMAIN docs : docs'[e] = IF e = d THEN w ELSE docs[e]
    BY <1>1, UpdateIs
  <1>3. Outline!Active' = Outline!Active
    BY <1>2 DEF Outline!Active
  <1>4. \A S \in SUBSET DOMAIN docs : \A t : Outline!Entitled(t, S)' = Outline!Entitled(t, S)
    BY <1>2 DEF Outline!Entitled
  <1>5. Outline!Active \subseteq DOMAIN docs
    BY DEF Outline!Active
  <1>6. \A t : Held(t)' = Held(t)
    <2>1. \A t : Held(t)' = {e \in Outline!Active' : docs'[e].title = t}
      BY DEF Held, Outline!Entitled
    <2>2. \A e \in Outline!Active : docs'[e].title = docs[e].title
      BY <1>2, <1>5
    <2>3. QED
      BY <1>3, <2>1, <2>2 DEF Held, Outline!Entitled
  <1>7. \A t : Crowd(t)' <=> Crowd(t)
    BY <1>6 DEF Crowd
  <1>8. QED
    BY <1>2, <1>3, <1>4, <1>5, <1>6, <1>7 DEF Rewritten, Alone, Held, Outline!Entitled

\* A call that leaves a document's parent leaves every hub under the index.
LEMMA HungStays ==
  ASSUME SyncInv, NEW d \in Outline!Active, NEW w, Outline!Update(d, w),
         DOMAIN w = DOMAIN docs[d], w.title = docs[d].title, w.active = docs[d].active,
         NEW h, Hung(h), w.parent = docs[d].parent \/ docs[d].title # h
  PROVE  Hung(h)'
  <1>1. \A e \in Held(h) : docs'[e].parent = docs[e].parent
    BY CalmUpdate DEF Rewritten
  <1>2. QED
    BY <1>1, CalmUpdate DEF Rewritten, Hung

LEMMA FiledStays ==
  ASSUME SyncInv, NEW d \in Outline!Active, NEW w, Outline!Update(d, w),
         DOMAIN w = DOMAIN docs[d], w.title = docs[d].title, w.active = docs[d].active,
         NEW t, Filed(t), docs[d].title # t
  PROVE  Filed(t)'
  <1>1. \A e \in Held(t) : docs'[e] = docs[e]
    BY CalmUpdate DEF Rewritten
  <1>2. QED
    BY <1>1, CalmUpdate DEF Rewritten, Filed

LEMMA IndexedStays ==
  ASSUME SyncInv, NEW d \in Outline!Active, NEW w, Outline!Update(d, w),
         DOMAIN w = DOMAIN docs[d], w.title = docs[d].title, w.active = docs[d].active,
         NEW h, Indexed(h), w.parent = docs[d].parent, docs[d].title # h
  PROVE  Indexed(h)'
  <1>1. \A e \in Held(h) : docs'[e] = docs[e]
    BY CalmUpdate DEF Rewritten
  <1>2. \A e \in Outline!Active : docs'[e].parent = docs[e].parent
    BY CalmUpdate DEF Rewritten, Outline!Active
  <1>3. QED
    BY <1>1, <1>2, CalmUpdate DEF Rewritten, Indexed

LEMMA DocColumns ==
  ASSUME SyncInv, NEW d \in DOMAIN docs
  PROVE  Columns \subseteq DOMAIN docs[d]
  BY DEF SyncInv, DocsInv

LEMMA MergeTextCalm ==
  ASSUME TextInv, CalmInv, NEW r \in Runs, Outline!MergeText(r)
  PROVE  Calms(r)
  <1>1. PICK d, w :
          /\ run[r].pc = "merge" /\ d = Chosen(run[r], run[r].title)
          /\ Outline!Update(d, w) /\ w = [docs[d] EXCEPT !.text = run[r].hold]
    BY RunKnows, MergeTextGoes
  <1>2. PICK s : /\ Went(r, s) /\ s.pc = "mergeArchive" /\ s.todo = run[r].todo
                 /\ s.title = run[r].title /\ s.seen = run[r].seen
    BY RunKnows, MergeTextGoes
  <1>3. SUFFICES ASSUME quiet[r] PROVE CalmRun(r, s)'
    BY <1>2 DEF Calms
  <1>4. CalmRun(r, run[r])
    BY <1>1, <1>3, RunIsCalm DEF Over
  <1>5. /\ run[r].seen = Outline!Active
        /\ \A t \in Outline!Titles : Crowd(t) => (\E p \in run[r].todo : p[1] = t) \/ run[r].title = t
    BY <1>1, <1>4 DEF CalmRun, Merging
  <1>6. SyncInv /\ d \in DOMAIN docs /\ d \in Outline!Active
    <2>1. Knows(run[r], run[r].title) /\ SyncInv /\ run[r].seen \subseteq DOMAIN docs
      BY <1>1, RunKnows DEF DuplicatesKnown, Merging, Over
    <2>2. QED
      BY <1>1, <1>5, <2>1, ChosenKnown
  <1>7. DOMAIN w = DOMAIN docs[d] /\ w.title = docs[d].title /\ w.active = docs[d].active
    BY <1>1, <1>6, DocColumns DEF Columns
  <1>8. Outline!Active' = Outline!Active /\ \A t : Held(t)' = Held(t)
    BY <1>1, <1>6, <1>7, CalmUpdate DEF Rewritten
  <1>9. \A t : Crowd(t)' => Crowd(t)
    BY <1>8 DEF Crowd
  <1>10. s.seen = Outline!Active'
    BY <1>2, <1>5, <1>8
  <1>11. QED
    BY <1>2, <1>5, <1>9, <1>10 DEF CalmRun, Later

LEMMA ArchiveExtraCalm ==
  ASSUME TextInv, CalmInv, NEW r \in Runs, Outline!ArchiveExtra(r)
  PROVE  Calms(r)
  <1>1. PICK d, s :
          /\ d \in Outline!Extras(r) /\ run[r].pc \in {"mergeArchive", "ensureArchive"}
          /\ Outline!Archive(d) /\ Went(r, s)
          /\ run[r].pc = "mergeArchive" =>
               /\ s.seen = run[r].seen \ {d} /\ s.todo = run[r].todo /\ s.title = run[r].title
               /\ \/ Outline!Extras(r) # {d} /\ s.pc = "mergeArchive"
                  \/ Outline!Extras(r) = {d} /\ s.pc = "dedupe"
    BY RunKnows, ArchiveExtraGoes
  <1>2. SUFFICES ASSUME quiet[r] PROVE CalmRun(r, s)'
    BY <1>1 DEF Calms
  <1>3. CalmRun(r, run[r]) /\ run[r].pc = "mergeArchive"
    <2>1. CalmRun(r, run[r])
      BY <1>1, <1>2, RunIsCalm DEF Over
    <2>2. QED
      BY <1>1, <2>1 DEF CalmRun
  <1>4. /\ run[r].seen = Outline!Active
        /\ \A t \in Outline!Titles : Crowd(t) => (\E p \in run[r].todo : p[1] = t) \/ run[r].title = t
    BY <1>3 DEF CalmRun, Merging
  <1>5. SyncInv /\ d \in DOMAIN docs
    BY <1>1, <1>3, RunKnows, ExtraGone DEF Over
  <1>6. /\ Outline!Active' = Outline!Active \ {d}
        /\ \A e \in DOMAIN docs : docs'[e].title = docs[e].title
    BY <1>1, <1>5, ArchiveIs
  <1>7. \A t : Held(t)' = Held(t) \ {d}
    BY <1>6 DEF Held, Outline!Entitled, Outline!Active
  <1>8. \A t : Crowd(t)' => Crowd(t)
    BY <1>7 DEF Crowd
  <1>9. PICK t, c : t = run[r].title /\ t = s.title /\ c = Chosen(run[r], t)
    BY <1>1, <1>3
  <1>10. s.seen = Outline!Active'
    BY <1>1, <1>3, <1>4, <1>6
  <1>11. Held(t) \ {c} = Outline!Extras(r)
    BY <1>4, <1>9 DEF Outline!Extras, Held, Chosen
  <1>12. s.pc = "dedupe" => ~Crowd(t)'
    <2>1. s.pc = "dedupe" => Held(t)' \subseteq {c}
      BY <1>1, <1>3, <1>7, <1>11
    <2>2. QED
      BY <2>1 DEF Crowd
  <1>13. \A u \in Outline!Titles : Crowd(u)' =>
           (\E p \in s.todo : p[1] = u) \/ (s.pc # "dedupe" /\ s.title = u)
    BY <1>1, <1>3, <1>4, <1>8, <1>9, <1>12
  <1>14. QED
    BY <1>1, <1>3, <1>10, <1>13 DEF CalmRun, Later, Outline!Titles, Outline!Desired


LEMMA WriteFinalCalm ==
  ASSUME TextInv, CalmInv, NEW r \in Runs, Outline!WriteFinal(r)
  PROVE  Calms(r)
  <1>1. PICK d, w :
          /\ run[r].pc = "write" /\ d = run[r].newest /\ Outline!Update(d, w)
          /\ w = [docs[d] EXCEPT !.text = "final",
                                 !.parent = Chosen(run[r], HubOf[run[r].title])]
    BY RunKnows, WriteFinalGoes
  <1>2. PICK s : /\ Went(r, s) /\ s.pc = "rewrite" /\ s.todo = run[r].todo
                 /\ s.seen = run[r].seen /\ s.parent = run[r].parent
    BY RunKnows, WriteFinalGoes
  <1>3. SUFFICES ASSUME quiet[r] PROVE CalmRun(r, s)'
    BY <1>2 DEF Calms
  <1>4. run[r].pc \notin Over
    BY <1>1 DEF Over
  <1>5. CalmRun(r, run[r])
    BY <1>3, <1>4, RunIsCalm
  <1>6. PICK t : t = run[r].title
    OBVIOUS
  <1>7. /\ Alone /\ Sees(run[r]) /\ \A h \in Hubs : Hung(h)
        /\ \A u \in Targets : Held(u) # {}
        /\ \A u \in run[r].todo : \A e \in Held(u) : run[r].parent[e] = docs[e].parent
        /\ \A u \in Targets \ run[r].todo : Filed(u) \/ u = t
        /\ t \in Targets /\ t \notin run[r].todo /\ d \in Held(t)
    BY <1>1, <1>5, <1>6 DEF CalmRun, Later, Settled
  <1>8. /\ SyncInv /\ run[r].seen \subseteq DOMAIN docs
        /\ run[r].todo \subseteq Targets /\ \A g \in Groups : Knows(run[r], g)
    BY <1>1, <1>4, RunKnows DEF HubsKnown
  <1>9. d \in Outline!Active /\ d \in DOMAIN docs /\ docs[d].title = t
    BY <1>7 DEF Held, Outline!Entitled, Outline!Active
  <1>10. /\ DOMAIN w = DOMAIN docs[d] /\ w.title = docs[d].title /\ w.active = docs[d].active
         /\ w.text = "final" /\ w.parent = Chosen(run[r], HubOf[t])
    BY <1>1, <1>6, <1>8, <1>9, DocColumns DEF Columns
  <1>11. /\ \A e \in DOMAIN docs : docs'[e] = IF e = d THEN w ELSE docs[e]
         /\ \A S \in SUBSET DOMAIN docs : \A u : Outline!Entitled(u, S)' = Outline!Entitled(u, S)
         /\ \A u : Held(u)' = Held(u) /\ Held(u) \subseteq DOMAIN docs /\ (d \in Held(u) <=> u = t)
         /\ Alone'
    <2>1. Rewritten(d, w)
      BY <1>1, <1>8, <1>9, <1>10, CalmUpdate
    <2>2. QED
      BY <1>7, <1>9, <2>1 DEF Rewritten
  <1>12. Filed(t)'
    <2>1. HubOf[t] \in Groups /\ HubOf[t] \in Outline!Desired /\ t \in Outline!Titles
      BY <1>7, GroupsMapped, OutlineAssumption
    <2>2. Chosen(run[r], HubOf[t]) \in Held(HubOf[t])
      BY <1>4, <1>7, <1>8, <2>1, KnowsHeld
    <2>3. Held(t) = {d}
      BY <1>7, <2>1, AloneIsOne
    <2>4. docs'[d] = w
      BY <1>9, <1>11
    <2>5. QED
      BY <1>10, <1>11, <2>2, <2>3, <2>4 DEF Filed
  <1>13. \A u \in Targets \ s.todo : Filed(u)'
    BY <1>1, <1>2, <1>7, <1>8, <1>9, <1>10, <1>12, FiledStays
  <1>14. \A h \in Hubs : Hung(h)'
    <2>1. \A h \in Hubs : h # t
      BY <1>7, OutlineAssumption
    <2>2. QED
      BY <1>1, <1>7, <1>8, <1>9, <1>10, <2>1, HungStays
  <1>15. \A u \in s.todo : \A e \in Held(u)' : s.parent[e] = docs'[e].parent
    BY <1>2, <1>7, <1>11
  <1>16. Sees(s)' /\ Settled(s)' = Hubs
    BY <1>2, <1>7, <1>8, <1>11 DEF Sees, Settled
  <1>17. \A u \in Targets : Held(u)' # {}
    BY <1>7, <1>11
  <1>18. QED
    BY <1>2, <1>11, <1>13, <1>14, <1>15, <1>16, <1>17 DEF CalmRun, Merging

LEMMA ArchiveUnknownCalm ==
  ASSUME TextInv, CalmInv, NEW r \in Runs, Outline!ArchiveUnknown(r)
  PROVE  Calms(r)
  <1>1. PICK d, s : /\ run[r].pc = "unknown" /\ d \in run[r].todo /\ Outline!Archive(d)
                    /\ Went(r, s) /\ s.pc = "unknown" /\ s.todo = run[r].todo \ {d}
                    /\ s.seen = run[r].seen
    BY RunKnows, ArchiveUnknownGoes
  <1>2. SUFFICES ASSUME quiet[r] PROVE CalmRun(r, s)'
    BY <1>1 DEF Calms
  <1>3. CalmRun(r, run[r])
    BY <1>1, <1>2, RunIsCalm DEF Over
  <1>4. /\ Alone /\ Sees(run[r]) /\ \A h \in Hubs : Hung(h)
        /\ \A t \in Targets : Held(t) # {} /\ Filed(t)
        /\ \A e \in Outline!Active : docs[e].title \in Outline!Desired \/ e \in run[r].todo
    BY <1>1, <1>3 DEF CalmRun, Later, Settled
  <1>5. /\ SyncInv /\ run[r].seen \subseteq DOMAIN docs
        /\ d \in DOMAIN docs /\ docs[d].title \notin Outline!Desired
    BY <1>1, RunKnows, RunFields DEF Careful, Over
  <1>6. /\ DOMAIN docs' = DOMAIN docs /\ Outline!Active' = Outline!Active \ {d}
        /\ \A e \in DOMAIN docs : /\ docs'[e].title = docs[e].title /\ docs'[e].text = docs[e].text
                                  /\ docs'[e].parent = docs[e].parent
    BY <1>1, <1>5, ArchiveIs
  <1>7. \A S \in SUBSET DOMAIN docs : \A t : Outline!Entitled(t, S)' = Outline!Entitled(t, S)
    BY <1>6 DEF Outline!Entitled
  <1>8. \A t : /\ Held(t)' = {e \in Outline!Active \ {d} : docs[e].title = t}
               /\ Held(t) \subseteq DOMAIN docs
    <2>1. \A t : Held(t)' = {e \in Outline!Active' : docs'[e].title = t}
      BY DEF Held, Outline!Entitled
    <2>2. \A e \in Outline!Active : e \in DOMAIN docs
      BY DEF Outline!Active
    <2>3. QED
      BY <1>6, <2>1, <2>2 DEF Held, Outline!Entitled
  <1>9. \A t : Held(t)' \subseteq Held(t) /\ (t \in Outline!Desired => Held(t)' = Held(t))
    BY <1>5, <1>8 DEF Held, Outline!Entitled
  <1>10. Alone' /\ Sees(s)' /\ Settled(s)' = Hubs
    <2>1. Alone'
      BY <1>4, <1>9 DEF Alone, Crowd
    <2>2. Sees(s)'
      BY <1>1, <1>4, <1>5, <1>7, <1>9 DEF Sees
    <2>3. QED
      BY <1>1, <2>1, <2>2 DEF Settled
  <1>11. \A h \in Hubs : Hung(h)'
    <2>1. \A h \in Hubs : h \in Outline!Desired /\ Root \in Outline!Desired
      BY GroupsMapped
    <2>2. QED
      BY <1>4, <1>6, <1>8, <1>9, <2>1 DEF Hung
  <1>12. \A t \in Targets : Held(t)' # {} /\ Filed(t)'
    <2>1. \A t \in Targets : t \in Outline!Desired /\ HubOf[t] \in Outline!Desired
      BY GroupsMapped, OutlineAssumption
    <2>2. QED
      BY <1>4, <1>6, <1>8, <1>9, <2>1 DEF Filed
  <1>13. \A e \in Outline!Active' : docs'[e].title \in Outline!Desired \/ e \in s.todo
    <2>1. \A e \in Outline!Active : e \in DOMAIN docs
      BY DEF Outline!Active
    <2>2. QED
      BY <1>1, <1>4, <1>6, <2>1
  <1>14. QED
    BY <1>1, <1>10, <1>11, <1>12, <1>13 DEF CalmRun, Merging

LEMMA WriteIndexCalm ==
  ASSUME TextInv, CalmInv, NEW r \in Runs, Outline!WriteIndex(r)
  PROVE  Calms(r)
  <1>1. PICK h, d, w, s :
          /\ run[r].pc = "indexes"
          /\ h \in run[r].todo /\ d = Chosen(run[r], h) /\ Outline!Update(d, w)
          /\ w = [docs[d] EXCEPT
                    !.text = "index",
                    !.lists = {e \in DOMAIN run[r].parent : run[r].parent[e] = d} \ {d}]
          /\ Went(r, s) /\ s.pc = "indexes" /\ s.todo = run[r].todo \ {h}
          /\ s.seen = run[r].seen /\ s.parent = run[r].parent
    BY RunKnows, WriteIndexGoes
  <1>2. SUFFICES ASSUME quiet[r] PROVE CalmRun(r, s)'
    BY <1>1 DEF Calms
  <1>3. run[r].pc \notin Over
    BY <1>1 DEF Over
  <1>4. CalmRun(r, run[r])
    BY <1>2, <1>3, RunIsCalm
  <1>5. /\ Alone /\ Sees(run[r]) /\ \A g \in Hubs : Hung(g)
        /\ \A t \in Targets : Held(t) # {} /\ Filed(t)
        /\ run[r].parent = Parents
        /\ r \in Cleaning => \A e \in Outline!Active : docs[e].title \in Outline!Desired
        /\ \A g \in Hubs \ run[r].todo : Indexed(g)
    BY <1>1, <1>4 DEF CalmRun, Later, Settled
  <1>6. /\ SyncInv /\ run[r].seen \subseteq DOMAIN docs
        /\ run[r].todo \subseteq Hubs /\ \A g \in Groups : Knows(run[r], g)
    BY <1>1, <1>3, RunKnows DEF HubsKnown
  <1>7. h \in Hubs /\ h \in Groups /\ h \in Outline!Desired /\ h \in Outline!Titles
    BY <1>1, <1>6, GroupsMapped
  <1>8. d \in Held(h) /\ d \in DOMAIN docs /\ d \in Outline!Active /\ docs[d].title = h
    BY <1>1, <1>3, <1>5, <1>6, <1>7, KnowsHeld
  <1>9. Columns \subseteq DOMAIN docs[d]
    BY <1>6, <1>8, DocColumns
  <1>10. /\ DOMAIN w = DOMAIN docs[d] /\ w.title = docs[d].title /\ w.active = docs[d].active
         /\ w.text = "index" /\ w.parent = docs[d].parent
    BY <1>1, <1>9 DEF Columns
  <1>11. w.lists = {e \in Outline!Active : docs[e].parent = d}
    <2>1. w.lists = {e \in DOMAIN run[r].parent : run[r].parent[e] = d} \ {d}
      BY <1>1, <1>9 DEF Columns
    <2>2. {e \in DOMAIN Parents : Parents[e] = d} = {e \in Outline!Active : docs[e].parent = d}
      BY DEF Parents
    <2>3. docs[d].parent # d
      <3>1. docs[d].parent \in Held(Root)
        BY <1>5, <1>7, <1>8 DEF Hung
      <3>2. h # Root
        BY <1>7, OutlineAssumption
      <3>3. QED
        BY <1>8, <3>1, <3>2 DEF Held, Outline!Entitled
    <2>4. QED
      BY <1>5, <2>1, <2>2, <2>3
  <1>12. /\ DOMAIN docs' = DOMAIN docs /\ Outline!Active' = Outline!Active
         /\ \A e \in DOMAIN docs : docs'[e] = IF e = d THEN w ELSE docs[e]
         /\ \A S \in SUBSET DOMAIN docs : \A u : Outline!Entitled(u, S)' = Outline!Entitled(u, S)
         /\ \A u : Held(u)' = Held(u) /\ Held(u) \subseteq DOMAIN docs /\ (d \in Held(u) <=> u = h)
         /\ Alone'
    <2>1. Rewritten(d, w)
      BY <1>1, <1>6, <1>8, <1>10, CalmUpdate
    <2>2. QED
      BY <1>5, <1>8, <2>1 DEF Rewritten
  <1>13. \A e \in Outline!Active : e \in DOMAIN docs /\ docs'[e].parent = docs[e].parent
    BY <1>10, <1>12 DEF Outline!Active
  <1>14. Indexed(h)'
    <2>1. Held(h) = {d} /\ docs'[d] = w
      BY <1>5, <1>7, <1>8, <1>12, AloneIsOne
    <2>2. {e \in Outline!Active' : docs'[e].parent = d} = w.lists
      BY <1>11, <1>12, <1>13
    <2>3. QED
      BY <1>10, <1>12, <2>1, <2>2 DEF Indexed
  <1>15. \A g \in Hubs \ s.todo : Indexed(g)'
    BY <1>1, <1>5, <1>6, <1>8, <1>10, <1>14, IndexedStays
  <1>16. \A g \in Hubs : Hung(g)'
    BY <1>1, <1>5, <1>6, <1>8, <1>10, HungStays
  <1>17. \A t \in Targets : Held(t)' # {} /\ Filed(t)'
    <2>1. \A t \in Targets : t # h
      BY <1>7, OutlineAssumption
    <2>2. QED
      BY <1>1, <1>5, <1>6, <1>8, <1>10, <1>12, <2>1, FiledStays
  <1>18. s.parent = Parents'
    <2>1. Parents' = [e \in Outline!Active' |-> docs'[e].parent]
      BY DEF Parents
    <2>2. QED
      BY <1>1, <1>5, <1>12, <1>13, <2>1 DEF Parents
  <1>19. r \in Cleaning => \A e \in Outline!Active' : docs'[e].title \in Outline!Desired
    BY <1>5, <1>10, <1>12, <1>13
  <1>20. Sees(s)' /\ Settled(s)' = Hubs
    BY <1>1, <1>5, <1>6, <1>12 DEF Sees, Settled
  <1>21. QED
    BY <1>1, <1>12, <1>15, <1>16, <1>17, <1>18, <1>19, <1>20 DEF CalmRun, Merging


\* From the index or a hub that is put in order, a calm run goes on to the
\* next hub or to the targets.
LEMMA AfterCalm ==
  ASSUME NEW r, NEW s, NEW q, After(s, q), q.todo \subseteq Hubs, Alone', Sees(q)',
         \A h \in Hubs \ q.todo : Hung(h)'
  PROVE  CalmRun(r, s)'
  <1>1. s.pc \in {"targets", "hub"} /\ s.seen = q.seen
    BY DEF After
  <1>2. Sees(s)'
    BY <1>1 DEF Sees
  <1>3. \A h \in Settled(s)' : Hung(h)'
    BY DEF After, Settled
  <1>4. s.pc = "targets" => Targets \ s.todo = {}
    BY DEF After
  <1>5. QED
    BY <1>1, <1>2, <1>3, <1>4 DEF CalmRun, Merging

LEMMA EnsureExistingCalm ==
  ASSUME TextInv, CalmInv, NEW r \in Runs, Outline!EnsureExisting(r)
  PROVE  Calms(r)
  <1>1. run[r].pc = "ensure" /\ Knows(run[r], run[r].title)
    BY RunKnows, EnsureExistingGoes
  <1>2. PICK d, w, parent :
          /\ d = Chosen(run[r], run[r].title) /\ Outline!Update(d, w)
          /\ w = [docs[d] EXCEPT !.text = "stub", !.lists = {}, !.parent = parent]
          /\ parent = IF run[r].title = Root THEN docs[d].parent
                      ELSE Outline!ParentFor(r, run[r].title)
    <2>1. PICK d, w : /\ d = Chosen(run[r], run[r].title) /\ Outline!Update(d, w)
                      /\ w = [docs[d] EXCEPT !.text = "stub", !.lists = {},
                                !.parent = IF run[r].title = Root THEN @
                                           ELSE Outline!ParentFor(r, run[r].title)]
      BY RunKnows, EnsureExistingGoes
    <2>2. PICK parent : parent = IF run[r].title = Root THEN docs[d].parent
                                 ELSE Outline!ParentFor(r, run[r].title)
      OBVIOUS
    <2>3. QED
      BY <2>1, <2>2
  <1>3. PICK s : /\ Went(r, s)
                 /\ After(s, run[r]) \/ Outline!Extras(r) # {}
    BY RunKnows, EnsureExistingGoes
  <1>4. SUFFICES ASSUME quiet[r] PROVE CalmRun(r, s)'
    BY <1>3 DEF Calms
  <1>5. run[r].pc \notin Over
    BY <1>1 DEF Over
  <1>6. CalmRun(r, run[r])
    BY <1>4, <1>5, RunIsCalm
  <1>7. PICK q, t : q = run[r] /\ t = q.title
    OBVIOUS
  <1>8. Alone /\ Sees(q) /\ \A h \in Hubs \ (q.todo \cup {t}) : Hung(h)
    BY <1>1, <1>6, <1>7 DEF CalmRun, Later, Settled
  <1>9. /\ SyncInv /\ q.seen \subseteq DOMAIN docs /\ HubsKnown(q)
        /\ q.todo \subseteq Hubs /\ t \in Groups
        /\ \A g \in Groups \ (q.todo \cup {t}) : Knows(q, g)
    BY <1>1, <1>5, <1>7, RunKnows DEF HubsKnown
  <1>10. t \in Outline!Desired /\ t \in Outline!Titles
    BY <1>9, GroupsMapped
  <1>11. /\ d \in Held(t) /\ d \in DOMAIN docs /\ d \in Outline!Active /\ docs[d].title = t
         /\ Held(t) = {d}
    BY <1>1, <1>2, <1>5, <1>7, <1>8, <1>10, KnowsHeld, AloneIsOne
  <1>12. After(s, q)
    <2>1. Outline!Extras(r) = Outline!Entitled(t, q.seen) \ {d}
      BY <1>2, <1>7 DEF Outline!Extras, Chosen
    <2>2. Outline!Entitled(t, q.seen) = {d}
      BY <1>8, <1>10, <1>11 DEF Sees
    <2>3. QED
      BY <1>3, <1>7, <2>1, <2>2
  <1>13. Columns \subseteq DOMAIN docs[d]
    BY <1>9, <1>11, DocColumns
  <1>14. /\ DOMAIN w = DOMAIN docs[d] /\ w.title = docs[d].title /\ w.active = docs[d].active
         /\ w.parent = parent
    BY <1>2, <1>13 DEF Columns
  <1>15. Rewritten(d, w)
    BY <1>2, <1>9, <1>11, <1>14, CalmUpdate
  <1>16. t # Root => parent \in Held(Root)
    <2>1. ASSUME t # Root PROVE Root \in Groups \ (q.todo \cup {t}) /\ t \in Hubs
      BY <1>9, <2>1, OutlineAssumption DEF Groups
    <2>2. ASSUME t # Root PROVE parent = Chosen(run[r], Root)
      BY <1>2, <1>7, <2>1, <2>2 DEF Outline!ParentFor, Outline!Known, Chosen
    <2>3. Root \in Outline!Desired
      BY GroupsMapped
    <2>4. QED
      BY <1>5, <1>7, <1>8, <1>9, <2>1, <2>2, <2>3, KnowsHeld
  <1>17. t \in Hubs => Hung(t)'
    <2>1. t \in Hubs => t # Root
      BY OutlineAssumption
    <2>2. docs'[d].parent = parent /\ Held(t)' = {d} /\ Held(Root)' = Held(Root)
      BY <1>11, <1>14, <1>15 DEF Rewritten
    <2>3. QED
      BY <1>16, <2>1, <2>2 DEF Hung
  <1>18. \A h \in Hubs \ (q.todo \cup {t}) : Hung(h)'
    BY <1>2, <1>8, <1>9, <1>11, <1>14, HungStays
  <1>19. \A h \in Hubs \ q.todo : Hung(h)'
    BY <1>17, <1>18
  <1>20. Alone' /\ Sees(q)'
    BY <1>8, <1>9, <1>15 DEF Rewritten, Sees
  <1>21. QED
    BY <1>9, <1>12, <1>19, <1>20, AfterCalm

\* A new document of a title that had none.
Added(t, n, parent) ==
  /\ DOMAIN docs \subseteq DOMAIN docs' /\ n \notin DOMAIN docs
  /\ Outline!Active' = Outline!Active \cup {n}
  /\ \A e \in DOMAIN docs : docs'[e] = docs[e]
  /\ docs'[n].title = t /\ docs'[n].parent = parent
  /\ \A u : Held(u)' = IF u = t THEN Held(u) \cup {n} ELSE Held(u)
  /\ \A S \in SUBSET DOMAIN docs : \A u :
       Outline!Entitled(u, S \cup {n})' = IF u = t THEN Outline!Entitled(u, S) \cup {n}
                                          ELSE Outline!Entitled(u, S)

LEMMA CalmCreate ==
  ASSUME SyncInv, NEW t, NEW text, NEW parent, Outline!Create(t, text, parent)
  PROVE  Added(t, Len(docs) + 1, parent)
  <1>1. PICK W : docs \in Seq(W)
    BY DEF SyncInv, DocsInv
  <1>2. PICK n : n = Len(docs) + 1
    OBVIOUS
  <1>3. PICK w : /\ w = [title |-> t, parent |-> parent, text |-> text, lists |-> {}, active |-> TRUE]
                 /\ docs' = Append(docs, w)
    BY DEF Outline!Create
  <1>4. w.title = t /\ w.parent = parent /\ w.active
    BY <1>3
  <1>5. /\ DOMAIN docs' = DOMAIN docs \cup {n} /\ n \notin DOMAIN docs /\ docs'[n] = w
        /\ \A e \in DOMAIN docs : docs'[e] = docs[e]
    BY <1>1, <1>2, <1>3
  <1>6. Outline!Active' = Outline!Active \cup {n}
    BY <1>4, <1>5 DEF Outline!Active
  <1>7. \A S \in SUBSET DOMAIN docs : \A u :
          {d \in S \cup {n} : docs'[d].title = u}
            = IF u = t THEN {d \in S : docs[d].title = u} \cup {n}
              ELSE {d \in S : docs[d].title = u}
    BY <1>4, <1>5
  <1>8. Outline!Active \subseteq DOMAIN docs
    BY DEF Outline!Active
  <1>9. \A u : Held(u)' = {d \in Outline!Active' : docs'[d].title = u}
    BY DEF Held, Outline!Entitled
  <1>10. \A u : Held(u)' = IF u = t THEN Held(u) \cup {n} ELSE Held(u)
    BY <1>6, <1>7, <1>8, <1>9 DEF Held, Outline!Entitled
  <1>11. \A S \in SUBSET DOMAIN docs : \A u :
           Outline!Entitled(u, S \cup {n})' = IF u = t THEN Outline!Entitled(u, S) \cup {n}
                                              ELSE Outline!Entitled(u, S)
    BY <1>7 DEF Outline!Entitled
  <1>12. Added(t, n, parent)
    BY <1>4, <1>5, <1>6, <1>10, <1>11 DEF Added
  <1>13. QED
    BY <1>2, <1>12


\* It leaves the hubs and the other titles as they were.
LEMMA AddedCalm ==
  ASSUME NEW t \in Outline!Desired, NEW n, NEW parent, Added(t, n, parent),
         NEW q, NEW p, q.seen \subseteq DOMAIN docs, p.seen = q.seen \cup {n},
         Alone, Sees(q), ~Knows(q, t)
  PROVE  /\ Alone' /\ Sees(p)' /\ Held(t)' = {n}
         /\ \A h : Hung(h) /\ h # t => Hung(h)'
  <1>1. Held(t) = {}
    BY DEF Sees, Knows
  <1>2. /\ \A u : Held(u)' = IF u = t THEN {n} ELSE Held(u)
        /\ \A e \in DOMAIN docs : docs'[e] = docs[e]
    BY <1>1 DEF Added
  <1>3. \A u : Held(u) \subseteq DOMAIN docs
    BY DEF Held, Outline!Entitled, Outline!Active
  <1>4. Alone'
    BY <1>2 DEF Alone, Crowd
  <1>5. Sees(p)'
    <2>1. ASSUME NEW u \in Outline!Desired
          PROVE  Outline!Entitled(u, p.seen)' = Held(u)'
      <3>1. Outline!Entitled(u, q.seen) = Held(u)
        BY DEF Sees
      <3>2. PICK S \in SUBSET DOMAIN docs : S = q.seen
        OBVIOUS
      <3>3. Outline!Entitled(u, S \cup {n})' = IF u = t THEN Held(u) \cup {n} ELSE Held(u)
        BY <3>1, <3>2 DEF Added
      <3>4. Outline!Entitled(u, p.seen)' = Outline!Entitled(u, S \cup {n})'
        BY <3>2 DEF Outline!Entitled
      <3>5. QED
        BY <1>1, <1>2, <3>3, <3>4
    <2>2. QED
      BY <2>1 DEF Sees
  <1>6. ASSUME NEW h, Hung(h), h # t
        PROVE  Hung(h)'
    <2>1. ASSUME NEW e \in Held(h)
          PROVE  docs'[e].parent \in Held(Root)'
      <3>1. docs'[e] = docs[e] /\ docs[e].parent \in Held(Root)
        BY <1>2, <1>3, <1>6 DEF Hung
      <3>2. Held(Root) \subseteq Held(Root)'
        BY <1>1, <1>2
      <3>3. QED
        BY <3>1, <3>2
    <2>2. QED
      BY <1>2, <1>6, <2>1 DEF Hung
  <1>7. QED
    BY <1>2, <1>4, <1>5, <1>6

LEMMA EnsureMissingCalm ==
  ASSUME TextInv, CalmInv, NEW r \in Runs, Outline!EnsureMissing(r)
  PROVE  Calms(r)
  <1>1. /\ run[r].pc = "ensure" /\ ~Knows(run[r], run[r].title)
        /\ Outline!Create(run[r].title, "stub", Outline!ParentFor(r, run[r].title))
    BY RunKnows, EnsureMissingGoes
  <1>2. PICK p, s : /\ Went(r, s) /\ After(s, p)
                    /\ p.todo = run[r].todo /\ p.title = run[r].title
                    /\ p.seen = run[r].seen \cup {Len(docs) + 1}
    BY RunKnows, EnsureMissingGoes
  <1>3. SUFFICES ASSUME quiet[r] PROVE CalmRun(r, s)'
    BY <1>2 DEF Calms
  <1>4. run[r].pc \notin Over
    BY <1>1 DEF Over
  <1>5. CalmRun(r, run[r])
    BY <1>3, <1>4, RunIsCalm
  <1>6. PICK q, t, n, parent : /\ q = run[r] /\ t = q.title /\ n = Len(docs) + 1
                               /\ parent = Outline!ParentFor(r, t)
    OBVIOUS
  <1>7. Alone /\ Sees(q) /\ \A h \in Hubs \ (q.todo \cup {t}) : Hung(h)
    BY <1>1, <1>5, <1>6 DEF CalmRun, Later, Settled
  <1>8. /\ SyncInv /\ q.seen \subseteq DOMAIN docs /\ HubsKnown(q)
        /\ q.todo \subseteq Hubs /\ t \in Groups
        /\ \A g \in Groups \ (q.todo \cup {t}) : Knows(q, g)
    BY <1>1, <1>4, <1>6, RunKnows DEF HubsKnown
  <1>9. t \in Outline!Desired
    BY <1>8, GroupsMapped
  <1>10. Added(t, n, parent)
    BY <1>1, <1>6, <1>8, CalmCreate
  <1>11. /\ Alone' /\ Sees(p)' /\ Held(t)' = {n}
         /\ \A h : Hung(h) /\ h # t => Hung(h)'
    BY <1>1, <1>2, <1>6, <1>7, <1>8, <1>9, <1>10, AddedCalm
  <1>12. t \in Hubs => Hung(t)'
    <2>1. ASSUME t \in Hubs
          PROVE  Hung(t)'
      <3>1. t # Root /\ Root \in Groups \ (q.todo \cup {t}) /\ Root \in Outline!Desired
        BY <1>8, <2>1, GroupsMapped, OutlineAssumption DEF Groups
      <3>2. parent = Chosen(run[r], Root)
        BY <1>6, <2>1, <3>1 DEF Outline!ParentFor, Outline!Known, Chosen
      <3>3. parent \in Held(Root)
        BY <1>4, <1>6, <1>7, <1>8, <3>1, <3>2, KnowsHeld
      <3>4. Held(Root)' = Held(Root) /\ docs'[n].parent = parent
        BY <1>10, <3>1 DEF Added
      <3>5. QED
        BY <1>11, <3>3, <3>4 DEF Hung
    <2>2. QED
      BY <2>1
  <1>13. \A h \in Hubs \ p.todo : Hung(h)'
    BY <1>2, <1>6, <1>7, <1>11, <1>12
  <1>14. QED
    BY <1>2, <1>6, <1>8, <1>11, <1>13, AfterCalm

LEMMA CreateTargetCalm ==
  ASSUME TextInv, CalmInv, NEW r \in Runs, Outline!CreateTarget(r)
  PROVE  Calms(r)
  <1>1. PICK t, s : /\ run[r].pc = "targets" /\ t \in run[r].todo /\ ~Knows(run[r], t)
                    /\ Outline!Create(t, "raw", Outline!ParentFor(r, t))
                    /\ Went(r, s) /\ s.pc = "targets" /\ s.todo = run[r].todo \ {t}
                    /\ s.seen = run[r].seen \cup {Len(docs) + 1}
    BY RunKnows, CreateTargetGoes
  <1>2. SUFFICES ASSUME quiet[r] PROVE CalmRun(r, s)'
    BY <1>1 DEF Calms
  <1>3. run[r].pc \notin Over
    BY <1>1 DEF Over
  <1>4. CalmRun(r, run[r])
    BY <1>2, <1>3, RunIsCalm
  <1>5. PICK q, n, parent : q = run[r] /\ n = Len(docs) + 1 /\ parent = Outline!ParentFor(r, t)
    OBVIOUS
  <1>6. /\ Alone /\ Sees(q) /\ \A h \in Hubs : Hung(h)
        /\ \A u \in Targets \ q.todo : Held(u) # {}
    BY <1>1, <1>4, <1>5 DEF CalmRun, Later, Settled
  <1>7. SyncInv /\ q.seen \subseteq DOMAIN docs /\ q.todo \subseteq Targets
    BY <1>1, <1>3, <1>5, RunKnows DEF HubsKnown
  <1>8. t \in Outline!Desired /\ t \in Targets
    BY <1>1, <1>5, <1>7, GroupsMapped
  <1>9. Added(t, n, parent)
    BY <1>1, <1>5, <1>7, CalmCreate
  <1>10. /\ Alone' /\ Sees(s)' /\ Held(t)' = {n}
         /\ \A h : Hung(h) /\ h # t => Hung(h)'
    BY <1>1, <1>5, <1>6, <1>7, <1>8, <1>9, AddedCalm
  <1>11. \A h \in Hubs : Hung(h)'
    BY <1>6, <1>8, <1>10, OutlineAssumption
  <1>12. \A u \in Targets \ s.todo : Held(u)' # {}
    BY <1>1, <1>5, <1>6, <1>9, <1>10 DEF Added
  <1>13. Settled(s)' = Hubs
    BY <1>1 DEF Settled
  <1>14. QED
    BY <1>1, <1>10, <1>11, <1>12, <1>13 DEF CalmRun, Merging

\* One document in order.
DocInOrder(d) ==
  \A t : t = docs[d].title =>
    /\ t \in Targets => /\ docs[d].text = "final"
                        /\ docs[d].parent \in Outline!Entitled(HubOf[t], Outline!Active)
    /\ t \in Hubs => /\ docs[d].text = "index"
                     /\ docs[d].parent \in Outline!Entitled(Root, Outline!Active)
                     /\ docs[d].lists = {e \in Outline!Active : docs[e].parent = d}

\* The last call: the index lists the hubs, and everything else is in order.
LEMMA WriteRootCalm ==
  ASSUME TextInv, CalmInv, NEW r \in Runs, Outline!WriteRoot(r)
  PROVE  Calms(r)
  <1>1. PICK d, w : /\ run[r].pc = "indexes" /\ run[r].todo = {}
                    /\ d = Chosen(run[r], Root) /\ Outline!Update(d, w)
                    /\ w = [docs[d] EXCEPT !.text = "index"]
    BY RunKnows, WriteRootGoes
  <1>2. PICK s : Went(r, s) /\ s.pc = "done"
    BY RunKnows, WriteRootGoes
  <1>3. SUFFICES ASSUME quiet[r] PROVE Outline!InOrder(r)'
    BY <1>2 DEF Calms, CalmRun, Merging, Later
  <1>4. run[r].pc \notin Over
    BY <1>1 DEF Over
  <1>5. CalmRun(r, run[r])
    BY <1>3, <1>4, RunIsCalm
  <1>6. /\ Alone /\ Sees(run[r]) /\ \A h \in Hubs : Hung(h) /\ Indexed(h)
        /\ \A t \in Targets : Held(t) # {} /\ Filed(t)
        /\ r \in Cleaning => \A e \in Outline!Active : docs[e].title \in Outline!Desired
    BY <1>1, <1>5 DEF CalmRun, Later, Settled
  <1>7. SyncInv /\ run[r].seen \subseteq DOMAIN docs /\ \A g \in Groups : Knows(run[r], g)
    BY <1>1, <1>4, RunKnows DEF HubsKnown
  <1>8. Root \in Groups /\ Root \in Outline!Desired
    BY GroupsMapped
  <1>9. d \in Held(Root) /\ d \in DOMAIN docs /\ d \in Outline!Active /\ docs[d].title = Root
    BY <1>1, <1>4, <1>6, <1>7, <1>8, KnowsHeld
  <1>10. /\ DOMAIN w = DOMAIN docs[d] /\ w.title = docs[d].title /\ w.active = docs[d].active
         /\ w.parent = docs[d].parent
    BY <1>1, <1>7, <1>9, DocColumns DEF Columns
  <1>11. Rewritten(d, w)
    BY <1>1, <1>7, <1>9, <1>10, CalmUpdate
  <1>12. \A h \in Hubs : Hung(h)' /\ Indexed(h)'
    <2>1. \A h \in Hubs : h # Root
      BY OutlineAssumption
    <2>2. QED
      BY <1>1, <1>6, <1>7, <1>9, <1>10, <2>1, HungStays, IndexedStays
  <1>13. \A t \in Targets : Filed(t)'
    <2>1. \A t \in Targets : t # Root
      BY OutlineAssumption
    <2>2. QED
      BY <1>1, <1>6, <1>7, <1>9, <1>10, <2>1, FiledStays
  <1>14. \A t \in Outline!Desired : Held(t)' # {}
    <2>1. \A g \in Groups : g \in Outline!Desired
      BY GroupsMapped
    <2>2. \A g \in Groups : Held(g) # {}
      BY <1>4, <1>6, <1>7, <2>1, KnowsHeld
    <2>3. \A t \in Outline!Desired : t \in Groups \/ t \in Targets
      BY DEF Groups, Outline!Desired
    <2>4. QED
      BY <1>6, <1>11, <2>2, <2>3 DEF Rewritten
  <1>15. r \in Cleaning => \A e \in Outline!Active' : docs'[e].title \in Outline!Desired
    <2>1. \A e \in Outline!Active : e \in DOMAIN docs
      BY DEF Outline!Active
    <2>2. QED
      BY <1>6, <1>8, <1>9, <1>10, <1>11, <2>1 DEF Rewritten
  <1>16. \A t \in Outline!Titles : Outline!Cardinality(Outline!Entitled(t, Outline!Active))' <= 1
    <2>1. \A t \in Outline!Titles : Outline!Cardinality(Held(t)) <= 1
      BY <1>6, <1>7, CrowdsCount DEF Alone
    <2>2. ASSUME NEW t \in Outline!Titles
          PROVE  Outline!Cardinality(Outline!Entitled(t, Outline!Active))' <= 1
      <3>1. PICK S : S = Held(t) /\ Outline!Cardinality(S) <= 1
        BY <2>1
      <3>2. Outline!Entitled(t, Outline!Active)' = S
        BY <1>11, <3>1 DEF Rewritten, Held
      <3>3. QED
        BY <3>1, <3>2 DEF Outline!Cardinality
    <2>3. QED
      BY <2>2
  <1>17. ASSUME NEW e, e \in Outline!Active'
         PROVE  DocInOrder(e)'
    <2>1. ASSUME NEW t, t = docs'[e].title
          PROVE  /\ t \in Targets =>
                      /\ docs'[e].text = "final"
                      /\ docs'[e].parent \in Outline!Entitled(HubOf[t], Outline!Active)'
                 /\ t \in Hubs =>
                      /\ docs'[e].text = "index"
                      /\ docs'[e].parent \in Outline!Entitled(Root, Outline!Active)'
                      /\ docs'[e].lists = {f \in Outline!Active' : docs'[f].parent = e}
      <3>1. e \in Held(t)'
        BY <1>17, <2>1 DEF Held, Outline!Entitled
      <3>2. t \in Targets => /\ docs'[e].text = "final"
                             /\ docs'[e].parent \in Outline!Entitled(HubOf[t], Outline!Active)'
        BY <1>13, <3>1 DEF Filed, Held
      <3>3. t \in Hubs => /\ docs'[e].text = "index"
                          /\ docs'[e].parent \in Outline!Entitled(Root, Outline!Active)'
                          /\ docs'[e].lists = {f \in Outline!Active' : docs'[f].parent = e}
        BY <1>12, <3>1 DEF Hung, Indexed, Held
      <3>4. QED
        BY <3>2, <3>3
    <2>2. QED
      BY <2>1 DEF DocInOrder
  <1>18. \A t \in Outline!Desired : Outline!Entitled(t, Outline!Active)' # {}
    BY <1>14 DEF Held
  <1>19. QED
    BY <1>15, <1>16, <1>17, <1>18 DEF Outline!InOrder, DocInOrder


LEMMA CalmStep ==
  ASSUME TextInv, CalmInv, Outline!Next
  PROVE  CalmInv'
  <1>1. PICK r \in Runs :
          \/ Outline!FirstList(r) \/ Outline!ReadNewest(r) \/ Outline!MergeText(r)
          \/ Outline!ArchiveExtra(r) \/ Outline!SecondList(r) \/ Outline!NextHub(r)
          \/ Outline!EnsureExisting(r) \/ Outline!EnsureMissing(r)
          \/ Outline!CreateTarget(r) \/ Outline!ThirdList(r) \/ Outline!Rewrite(r)
          \/ Outline!WriteFinal(r) \/ Outline!UnknownList(r) \/ Outline!ArchiveUnknown(r)
          \/ Outline!LastList(r) \/ Outline!WriteIndex(r) \/ Outline!WriteRoot(r)
          \/ Outline!Fail(r)
    BY DEF Outline!Next
  <1>2. Calms(r)
    BY <1>1, FirstListCalm, ReadNewestCalm, MergeTextCalm, ArchiveExtraCalm,
       SecondListCalm, NextHubCalm, EnsureExistingCalm, EnsureMissingCalm,
       CreateTargetCalm, ThirdListCalm, RewriteCalm, WriteFinalCalm, UnknownListCalm,
       ArchiveUnknownCalm, LastListCalm, WriteIndexCalm, WriteRootCalm, FailCalm
  <1>3. QED
    BY <1>2, CalmKept, RunKnows

LEMMA CalmRests ==
  ASSUME CalmInv, UNCHANGED outlineVars
  PROVE  CalmInv'
  <1>1. Stays /\ UNCHANGED <<run, quiet>>
    BY DEF outlineVars, Stays
  <1>2. ASSUME NEW r \in Runs, quiet'[r], run'[r].pc \notin {"idle", "failed"}
        PROVE  CalmRun(r, run[r])'
    <2>1. PICK s : s = run[r] /\ s = run'[r]
      BY <1>1
    <2>2. CalmRun(r, s)
      BY <1>1, <1>2, <2>1 DEF CalmInv
    <2>3. CalmRun(r, s)'
      BY <1>1, <2>2, SameCalm
    <2>4. QED
      BY <2>1, <2>3 DEF CalmRun, Settled, Sees
  <1>3. QED
    BY <1>2 DEF CalmInv

\* A run that no other run overlaps leaves the collection in order, whatever the
\* runs before it left, for any runs, titles and collections: one active document
\* per title, the final text of each target under its hub, each hub under the
\* index with a list of what is under it. Each of its calls puts one document in
\* order and disturbs none that is, because it writes only to the document of a
\* title that has no other, and nobody else writes.
THEOREM QuietSyncsConverge == ServicesSpec => []QuietSyncConverges
  <1>1. ServicesInit => TextInv /\ CalmInv
    <2>1. ServicesInit => Outline!Init
      BY DEF ServicesInit, OutlineRests
    <2>2. Outline!Init => CalmInv
      BY DEF Outline!Init, Outline!Idle, CalmInv
    <2>3. QED
      BY <2>1, <2>2, TextStart
  <1>2. ASSUME TextInv, CalmInv, [ServicesNext]_allVars
        PROVE  TextInv' /\ CalmInv'
    <2>1. Outline!Next \/ UNCHANGED outlineVars
      BY <1>2 DEF ServicesNext, allVars
    <2>2. QED
      BY <1>2, <2>1, TextStep, TextRests, CalmStep, CalmRests
  <1>3. CalmInv => Outline!QuietSyncConverges
    BY DEF CalmInv, CalmRun, Outline!QuietSyncConverges
  <1>4. QED
    BY <1>1, <1>2, <1>3, PTL DEF ServicesSpec, QuietSyncConverges

-----------------------------------------------------------------------------
(* The types of every part. *)

\* Records of the confirmation, of quantities within what was requested.
LEMMA EntryTypes ==
  ASSUME SInv, lagging \in BOOLEAN
  PROVE  TypeOK
  <1>1. ack \in Order /\ merged \in Order /\ hist \in Seq(Order)
    BY DEF SInv, CInv, HistInv, RecordInv, Claim
  <1>2. step \in {"send", "confirm", "trades", "store", "done"}
    BY DEF SInv, CInv, RecordInv
  <1>3. real.qty <= Requested /\ real.qty \in Nat
    <2>1. real \in Order
      BY RealOrder DEF SInv, CInv
    <2>2. QED
      BY <2>1 DEF Order
  <1>4. traded \in 0 .. Requested
    BY <1>3, ConfirmationAssumption DEF SInv, CInv, RecordInv
  <1>5. stored \in [status : Status \cup {"none"}, qty : 0 .. Requested]
    BY DEF SInv, CInv, RecordInv
  <1>6. ackAt \in 0 .. Len(hist) /\ readAt \in 0 .. Len(hist)
    <2>1. DOMAIN hist = 1 .. Len(hist)
      BY <1>1
    <2>2. ackAt \in Nat /\ readAt \in Nat /\ (readAt > 0 => readAt \in DOMAIN hist)
          /\ (ackAt = 0 \/ ackAt \in DOMAIN hist)
      BY DEF SInv, SourceInv
    <2>3. Len(hist) \in Nat
      BY <1>1
    <2>4. QED
      BY <2>1, <2>2, <2>3
  <1>7. QED
    BY <1>1, <1>2, <1>4, <1>5, <1>6 DEF TypeOK

LEMMA PlacementTypesStep ==
  ASSUME PlacementInv, Placement!TypeOK, Placement!Next \/ UNCHANGED placementVars
  PROVE  Placement!TypeOK'
  <1>1. book' \in [Placement!Key -> {"absent", "live", "ended", "canceled"}]
    <2>1. CASE Placement!Next
      BY <2>1, PlacementStep DEF PlacementInv
    <2>2. CASE UNCHANGED placementVars
      BY <2>2 DEF placementVars, PlacementInv
    <2>3. QED
      BY <2>1, <2>2
  <1>2. ASSUME NEW k \in Placement!Key, Placement!Accept(k) \/ Placement!Raise(k)
        PROVE  refs' \subseteq Placement!Key /\ strayed' \subseteq Placement!Key
    BY <1>2 DEF Placement!Accept, Placement!Raise, Placement!TypeOK
  <1>3. ASSUME NEW k \in Placement!Key, NEW at, NEW success \in Placement!Step,
               NEW failure \in Placement!Step, Placement!Try(at, k, success, failure)
        PROVE  Placement!TypeOK'
    BY <1>1, <1>2, <1>3 DEF Placement!Try, Placement!TypeOK
  <1>4. ASSUME NEW k \in Placement!Key, Placement!Cancel(k)
        PROVE  strayed' \subseteq Placement!Key
    BY <1>4 DEF Placement!Cancel, Placement!TypeOK
  <1>5. CASE Placement!PlaceAlgoStop \/ Placement!PlaceAlgoTp \/ Placement!PlaceLegacyStop
             \/ Placement!PlaceOnlyStop \/ Placement!PlaceOnlyTp
    BY <1>3, <1>5 DEF Placement!PlaceAlgoStop, Placement!PlaceAlgoTp, Placement!PlaceLegacyStop,
         Placement!PlaceOnlyStop, Placement!PlaceOnlyTp, Placement!Key, Placement!Step
  <1>6. CASE Placement!PlaceLegacyTp
    BY <1>1, <1>2, <1>6 DEF Placement!PlaceLegacyTp, Placement!TypeOK, Placement!Step, Placement!Key
  <1>7. CASE Placement!CleanAlgo
    BY <1>1, <1>4, <1>7 DEF Placement!CleanAlgo, Placement!TypeOK, Placement!Step, Placement!Key
  <1>8. CASE Placement!CleanLegacy
    BY <1>1, <1>4, <1>8 DEF Placement!CleanLegacy, Placement!TypeOK, Placement!Step, Placement!Key
  <1>9. CASE Placement!Record
    BY <1>1, <1>9 DEF Placement!Record, Placement!TypeOK, Placement!Step, Placement!Key, Placement!Kind
  <1>10. CASE \E k \in Placement!Key : Placement!Settle(k)
    BY <1>1, <1>10 DEF Placement!Settle, Placement!TypeOK
  <1>11. CASE UNCHANGED placementVars
    BY <1>11 DEF placementVars, Placement!TypeOK
  <1>12. QED
    BY <1>5, <1>6, <1>7, <1>8, <1>9, <1>10, <1>11 DEF Placement!Next

LEMMA StreamTypesStep ==
  ASSUME StreamInv, Stream!TypeOK, Stream!Next \/ UNCHANGED streamVars
  PROVE  Stream!TypeOK'
  <1>1. closed' \in BOOLEAN /\ woken' \in BOOLEAN /\ misuse' \in BOOLEAN
    <2>1. StreamInv'
      <3>1. CASE Stream!Next
        BY <3>1, StreamStep
      <3>2. CASE UNCHANGED streamVars
        BY <3>2 DEF streamVars, StreamInv
      <3>3. QED
        BY <3>1, <3>2
    <2>2. QED
      BY <2>1 DEF StreamInv
  <1>2. aborted' \in BOOLEAN
    BY DEF Stream!Next, Stream!LoopStep, Stream!FetchEnds, Stream!FetchFails,
       Stream!SleepEnds, Stream!SleepAborted, Stream!Abort, Stream!Cancel, Stream!TypeOK,
       streamVars
  <1>3. loop' \in {"fetch", "sleep", "ended"}
    BY DEF Stream!Next, Stream!LoopStep, Stream!FetchEnds, Stream!FetchFails,
       Stream!SleepEnds, Stream!SleepAborted, Stream!Abort, Stream!Cancel, Stream!TypeOK,
       Stream!AfterFetch, streamVars
  <1>4. ASSUME Stream!SafeClose
        PROVE  controller' \in {"readable", "closed", "cancelled"}
    BY <1>4 DEF Stream!SafeClose, Stream!TypeOK
  <1>5. MaxSent \in Nat /\ sent \in 0..MaxSent
    BY BoundsAssumption DEF Stream!TypeOK
  <1>6. ASSUME Stream!Send
        PROVE  controller' \in {"readable", "closed", "cancelled"} /\ sent' \in 0..MaxSent
    <2>1. CASE closed = TRUE
      BY <1>5, <1>6, <2>1 DEF Stream!Send, Stream!TypeOK
    <2>2. CASE closed = FALSE /\ controller = "readable"
      <3>1. sent' = (IF sent < MaxSent THEN sent + 1 ELSE sent) /\ controller' = controller
        BY <1>6, <2>2 DEF Stream!Send
      <3>2. QED
        BY <1>5, <2>2, <3>1
    <2>3. CASE closed = FALSE /\ controller # "readable"
      BY <1>4, <1>5, <1>6, <2>3 DEF Stream!Send
    <2>4. QED
      BY <2>1, <2>2, <2>3 DEF StreamInv
  <1>7. controller' \in {"readable", "closed", "cancelled"} /\ sent' \in 0..MaxSent
    <2>1. CASE Stream!FetchEnds \/ Stream!FetchFails
      BY <1>4, <1>5, <1>6, <2>1 DEF Stream!FetchEnds, Stream!FetchFails
    <2>2. CASE Stream!SleepEnds \/ UNCHANGED streamVars
      BY <1>5, <2>2 DEF Stream!SleepEnds, streamVars, Stream!TypeOK
    <2>3. CASE Stream!SleepAborted \/ Stream!Abort
      BY <1>4, <1>5, <2>3 DEF Stream!SleepAborted, Stream!Abort
    <2>4. CASE Stream!Cancel
      BY <1>5, <2>4 DEF Stream!Cancel
    <2>5. QED
      BY <2>1, <2>2, <2>3, <2>4 DEF Stream!Next, Stream!LoopStep
  <1>8. QED
    BY <1>1, <1>2, <1>3, <1>7 DEF Stream!TypeOK

LEMMA AccessTypesStep ==
  ASSUME Access!TypeOK, Access!Next \/ UNCHANGED accessVars
  PROVE  Access!TypeOK'
  <1>1. MaxClock \in Nat
    BY BoundsAssumption
  <1>2. CASE Access!Tick
    BY <1>1, <1>2 DEF Access!Tick, Access!TypeOK
  <1>3. ASSUME NEW q \in Requests, Access!ReadClock(q)
        PROVE  Access!TypeOK'
    BY <1>3 DEF Access!ReadClock, Access!TypeOK
  <1>4. ASSUME NEW q \in Requests, Access!Locked(q)
        PROVE  Access!TypeOK'
    <2>1. now[q] \in 0..MaxClock /\ KeyOf[q] \in Access!Keys
      BY <1>4 DEF Access!Locked, Access!Waiting, Access!TypeOK, Access!Keys
    <2>2. Access!Fresh(now[q]) \in [Access!Keys -> {Access!Never} \cup 0..MaxClock]
      BY DEF Access!Fresh, Access!TypeOK
    <2>3. now' \in [Requests -> {Access!Never} \cup 0..MaxClock] /\ clock' \in 0..MaxClock
      BY <1>4 DEF Access!Locked, Access!TypeOK
    <2>4. \/ last' = Access!Fresh(now[q]) /\ accepted' = accepted
          \/ /\ last' = [Access!Fresh(now[q]) EXCEPT ![KeyOf[q]] = now[q]]
             /\ accepted' = accepted \cup {<<q, KeyOf[q], now[q]>>}
      BY <1>4 DEF Access!Locked
    <2>5. PICK table, t : table = Access!Fresh(now[q]) /\ t = now[q]
      OBVIOUS
    <2>6. /\ last' \in [Access!Keys -> {Access!Never} \cup 0..MaxClock]
          /\ accepted' \subseteq Requests \X Access!Keys \X (0..MaxClock)
      BY <2>1, <2>2, <2>4, <2>5 DEF Access!TypeOK
    <2>7. QED
      BY <2>3, <2>6 DEF Access!TypeOK
  <1>5. CASE UNCHANGED accessVars
    BY <1>5 DEF accessVars, Access!TypeOK
  <1>6. QED
    BY <1>2, <1>3, <1>4, <1>5 DEF Access!Next

\* How far a reader is when the candles S are stored.
ProgressOf(S) ==
  [pc : {"idle", "reading", "ingesting", "market", "demo"}, round : {1, 2},
   signals : SUBSET S, asked : Asked, price : BOOLEAN, from : Nat, failed : BOOLEAN]

\* The tasks and the readers of the candles, whatever limits they ask for.
MarketTypes ==
  /\ listed \in 1..MaxListed /\ candles \subseteq 1..listed /\ snapshot \in BOOLEAN
  /\ ingestion \in [Market!Ingestions -> [pc : {"idle", "asking", "storing", "stored", "failed"},
                                         klines : SUBSET (1..listed)]]
  /\ reader \in [Readers -> ProgressOf(candles)]

LEMMA MarketTypesStart ==
  ASSUME Market!Init
  PROVE  MarketTypes
  <1>1. listed = 1 /\ candles = {} /\ snapshot = FALSE /\ 1 \in 1..MaxListed
    BY BoundsAssumption DEF Market!Init
  <1>2. Market!NoTask \in [pc : {"idle", "asking", "storing", "stored", "failed"},
                          klines : SUBSET (1..listed)]
    BY DEF Market!NoTask
  <1>3. Market!NewReader \in ProgressOf(candles)
    BY DEF ProgressOf, Market!NewReader, Asked
  <1>4. /\ ingestion = [i \in Market!Ingestions |-> Market!NoTask]
        /\ reader = [r \in Readers |-> Market!NewReader]
    BY DEF Market!Init
  <1>5. QED
    BY <1>1, <1>2, <1>3, <1>4 DEF MarketTypes

LEMMA MarketTypesStep ==
  ASSUME MarketTypes, Market!Next \/ UNCHANGED marketVars
  PROVE  MarketTypes'
  <1> USE DEF MarketTypes
  <1>1. /\ MaxListed \in Nat \ {0} /\ 1..listed \subseteq Nat
        /\ \A S : Market!Newest(S, Limit) \subseteq S
        /\ \A i \in Market!Ingestions : Market!Newest(1..listed, Market!IngestLimit(i)) \subseteq 1..listed
    BY BoundsAssumption DEF Market!Newest
  <1>2. CASE Market!NextCandle
    BY <1>1, <1>2 DEF Market!NextCandle
  <1>3. ASSUME NEW i \in Market!Ingestions,
               Market!StartBackfill(i) \/ Market!IngestFails(i)
        PROVE  MarketTypes'
    BY <1>3 DEF Market!StartBackfill, Market!IngestFails
  <1>4. ASSUME NEW i \in Market!Ingestions, Market!Gathered(i)
        PROVE  MarketTypes'
    <2>1. PICK K : K = Market!Newest(1..listed, Market!IngestLimit(i)) /\ K \subseteq 1..listed
      BY <1>1
    <2>2. ingestion' = [ingestion EXCEPT ![i] = [pc |-> "storing", klines |-> K]]
      BY <1>4, <2>1 DEF Market!Gathered
    <2>3. reader' = (IF i \in Readers THEN [reader EXCEPT ![i].from = listed] ELSE reader)
          /\ UNCHANGED <<listed, candles, snapshot>>
      BY <1>4 DEF Market!Gathered
    <2>4. listed \in Nat
      OBVIOUS
    <2>5. ingestion' \in [Market!Ingestions -> [pc : {"idle", "asking", "storing", "stored", "failed"},
                                                klines : SUBSET (1..listed)]]
      BY <2>1, <2>2
    <2>6. reader' \in [Readers -> ProgressOf(candles)]
      BY <2>3, <2>4 DEF ProgressOf
    <2>7. QED
      BY <2>3, <2>5, <2>6
  <1>5. ASSUME NEW i \in Market!Ingestions, Market!Store(i)
        PROVE  MarketTypes'
    BY <1>1, <1>5 DEF Market!Store, ProgressOf
  <1>6. ASSUME NEW r \in Readers, Market!Begin(r) \/ Market!ReadAgain(r) \/ Market!GiveUp(r)
        PROVE  MarketTypes'
    BY <1>6 DEF Market!Begin, Market!ReadAgain, Market!GiveUp, Asked, ProgressOf
  <1>7. ASSUME NEW r \in Readers, Market!SignalsAnswered(r) \/ Market!PriceAnswered(r)
        PROVE  MarketTypes'
    <2>1. PICK S : S = Market!Newest(candles, Limit) /\ S \subseteq candles
      BY <1>1
    <2>2. PICK A, V : A = reader[r].asked \ {"signals"} /\ V = reader[r].asked \ {"price"}
      OBVIOUS
    <2>3. A \in Asked /\ V \in Asked
      <3>1. reader[r].asked \in Asked
        BY DEF ProgressOf
      <3>2. QED
        BY <2>2, <3>1 DEF Asked
    <2>4. CASE Market!SignalsAnswered(r)
      <3>1. reader' = [reader EXCEPT ![r].asked = A, ![r].signals = S]
        BY <2>1, <2>2, <2>4 DEF Market!SignalsAnswered
      <3>2. UNCHANGED <<listed, candles, snapshot, ingestion>>
        BY <2>4 DEF Market!SignalsAnswered
      <3>3. PICK w : w = [reader[r] EXCEPT !.asked = A, !.signals = S]
        OBVIOUS
      <3>4. w \in ProgressOf(candles)
        BY <2>1, <2>3, <3>3 DEF ProgressOf
      <3>5. reader' \in [Readers -> ProgressOf(candles)]
        BY <3>1, <3>3, <3>4
      <3>6. QED
        BY <3>2, <3>5
    <2>5. CASE Market!PriceAnswered(r)
      <3>1. reader' = [reader EXCEPT ![r].asked = V, ![r].price = snapshot]
        BY <2>2, <2>5 DEF Market!PriceAnswered
      <3>2. UNCHANGED <<listed, candles, snapshot, ingestion>>
        BY <2>5 DEF Market!PriceAnswered
      <3>3. PICK w : w = [reader[r] EXCEPT !.asked = V, !.price = snapshot]
        OBVIOUS
      <3>4. w \in ProgressOf(candles)
        BY <2>3, <3>3 DEF ProgressOf
      <3>5. reader' \in [Readers -> ProgressOf(candles)]
        BY <3>1, <3>3, <3>4
      <3>6. QED
        BY <3>2, <3>5
    <2>6. QED
      BY <1>7, <2>4, <2>5
  <1>8. ASSUME NEW r \in Readers, Market!Judge(r)
        PROVE  MarketTypes'
    <2>1. PICK pc \in {"ingesting", "market", "demo"} :
            /\ reader' = [reader EXCEPT ![r].pc = pc]
            /\ \/ ingestion' = [ingestion EXCEPT ![r].pc = "asking"]
               \/ UNCHANGED ingestion
            /\ UNCHANGED <<listed, candles, snapshot>>
      BY <1>8 DEF Market!Judge
    <2>2. reader' \in [Readers -> ProgressOf(candles)]
      BY <2>1 DEF ProgressOf
    <2>3. ingestion' \in [Market!Ingestions -> [pc : {"idle", "asking", "storing", "stored", "failed"},
                                                klines : SUBSET (1..listed)]]
      BY <2>1 DEF Market!Ingestions
    <2>4. QED
      BY <2>1, <2>2, <2>3
  <1>9. CASE UNCHANGED marketVars
    BY <1>9 DEF marketVars
  <1>10. QED
    BY <1>2, <1>3, <1>4, <1>5, <1>6, <1>7, <1>8, <1>9 DEF Market!Next

\* A document of a collection of n documents.
Doc(n) == [title : Outline!Titles, parent : 0..n, text : Outline!Texts,
           lists : SUBSET (1..n), active : BOOLEAN]

\* What a run remembers are documents, titles and a text.
RunShape(s) ==
  /\ s.seen \subseteq DOMAIN docs /\ DOMAIN s.parent \subseteq DOMAIN docs
  /\ s.title \in Outline!Titles /\ s.hold \in Outline!Texts
  /\ s.pc = "write" => s.title \in Targets

\* Every place in the order of the last updates is some document's.
CollectionShape ==
  /\ docs \in Seq(Doc(Len(docs))) /\ Len(updated) = Len(docs)
  /\ updated \in Seq(Nat) /\ {updated[d] : d \in DOMAIN updated} = DOMAIN docs

ShapeInv ==
  /\ CollectionShape
  /\ \A r \in Runs : RunShape(run[r])
  /\ quiet \in [Runs -> BOOLEAN]

\* The calls keep the collection, and the documents a run remembers in it.
CallKeeps == CollectionShape' /\ DOMAIN docs \subseteq DOMAIN docs'

LEMMA UpdateShape ==
  ASSUME CollectionShape, PlacesInv, NEW d \in DOMAIN docs, NEW w \in Doc(Len(docs)),
         Outline!Update(d, w)
  PROVE  CallKeeps
  <1>1. PICK n \in Nat : /\ n = Len(docs) /\ DOMAIN docs = 1..n /\ docs \in [1..n -> Doc(n)]
                         /\ DOMAIN updated = 1..n /\ updated \in [1..n -> Nat]
    BY DEF CollectionShape
  <1>2. CASE ~docs[d].active
    BY <1>2 DEF Outline!Update, Outline!Same, CallKeeps, CollectionShape
  <1>3. CASE docs[d].active
    <2>1. docs' = [docs EXCEPT ![d] = w] /\ updated' = Outline!Touched(d)
      BY <1>3 DEF Outline!Update
    <2>2. docs' \in Seq(Doc(n)) /\ Len(docs') = n /\ DOMAIN docs' = 1..n
      BY <1>1, <2>1 DEF CollectionShape
    <2>3. \A e \in 1..n : updated[e] \in Nat /\ updated[e] <= n /\ updated[e] \in 1..n
      <3>1. \A e \in 1..n : updated[e] \in DOMAIN docs
        BY <1>1 DEF CollectionShape
      <3>2. QED
        BY <1>1, <3>1
    <2>0. PICK u \in 1..n : u = updated[d]
      BY <1>1, <2>3
    <2>4. updated' = [e \in 1..n |-> IF e = d THEN n
                                     ELSE IF updated[e] > u THEN updated[e] - 1
                                     ELSE updated[e]]
      BY <1>1, <2>0, <2>1 DEF Outline!Touched
    <2>5. ASSUME NEW e \in 1..n
          PROVE  updated'[e] \in 1..n
      <3>1. PICK x \in 1..n : x = updated[e]
        BY <2>3
      <3>2. updated'[e] = IF e = d THEN n ELSE IF x > u THEN x - 1 ELSE x
        BY <2>4, <3>1
      <3>3. QED
        BY <3>2
    <2>6. updated' \in Seq(Nat) /\ Len(updated') = n /\ DOMAIN updated' = 1..n
      BY <1>1, <2>4, <2>5
    <2>7. ASSUME NEW v \in 1..n
          PROVE  \E e \in 1..n : updated'[e] = v
      <3>1. \A x \in 1..n : \E e \in 1..n : updated[e] = x
        BY <1>1 DEF CollectionShape
      <3>2. CASE v = n
        BY <1>1, <2>4, <3>2
      <3>3. CASE v # n /\ v < u
        <4>1. PICK e \in 1..n : updated[e] = v
          BY <3>1
        <4>2. e # d /\ ~(updated[e] > u)
          BY <2>0, <3>3, <4>1
        <4>3. QED
          BY <2>4, <4>1, <4>2
      <3>4. CASE v # n /\ ~(v < u)
        <4>1. v + 1 \in 1..n
          BY <3>4
        <4>2. PICK e \in 1..n : updated[e] = v + 1
          BY <3>1, <4>1
        <4>3. e # d /\ updated[e] > u
          BY <2>0, <3>4, <4>2
        <4>4. QED
          BY <2>4, <4>2, <4>3
      <3>5. QED
        BY <3>2, <3>3, <3>4
    <2>8. {updated'[e] : e \in DOMAIN updated'} = DOMAIN docs'
      BY <2>2, <2>5, <2>6, <2>7
    <2>9. QED
      BY <1>1, <2>2, <2>6, <2>8 DEF CallKeeps, CollectionShape
  <1>4. QED
    BY <1>2, <1>3

LEMMA ArchiveShape ==
  ASSUME CollectionShape, NEW d \in DOMAIN docs, Outline!Archive(d)
  PROVE  CallKeeps
  <1>1. PICK w : w = [docs[d] EXCEPT !.active = FALSE]
    OBVIOUS
  <1>2. docs' = [docs EXCEPT ![d] = w] /\ updated' = updated
    BY <1>1 DEF Outline!Archive
  <1>3. w \in Doc(Len(docs))
    <2>1. docs[d] \in Doc(Len(docs))
      BY DEF CollectionShape
    <2>2. QED
      BY <1>1, <2>1 DEF Doc
  <1>4. docs' \in Seq(Doc(Len(docs))) /\ Len(docs') = Len(docs) /\ DOMAIN docs' = DOMAIN docs
    BY <1>2, <1>3 DEF CollectionShape
  <1>5. QED
    BY <1>2, <1>4 DEF CallKeeps, CollectionShape

LEMMA CreateShape ==
  ASSUME CollectionShape, NEW t \in Outline!Titles, NEW text \in Outline!Texts,
         NEW parent \in 0..Len(docs), Outline!Create(t, text, parent)
  PROVE  CallKeeps /\ Len(docs) + 1 \in DOMAIN docs'
  <1>1. PICK n \in Nat : /\ n = Len(docs) /\ DOMAIN docs = 1..n /\ docs \in [1..n -> Doc(n)]
                         /\ DOMAIN updated = 1..n /\ updated \in [1..n -> Nat]
    BY DEF CollectionShape
  <1>2. Doc(n) \subseteq Doc(n + 1)
    <2>1. 0..n \subseteq 0..(n + 1) /\ 1..n \subseteq 1..(n + 1)
      OBVIOUS
    <2>2. QED
      BY <2>1 DEF Doc
  <1>3. PICK w : w = [title |-> t, parent |-> parent, text |-> text, lists |-> {}, active |-> TRUE]
    OBVIOUS
  <1>4. w \in Doc(n + 1)
    BY <1>1, <1>3 DEF Doc
  <1>5. docs' = Append(docs, w) /\ updated' = Append(updated, n + 1)
    BY <1>1, <1>3 DEF Outline!Create
  <1>6. docs \in Seq(Doc(n + 1))
    BY <1>1, <1>2
  <1>7. docs' \in Seq(Doc(n + 1)) /\ Len(docs') = n + 1 /\ DOMAIN docs' = 1..(n + 1)
    BY <1>1, <1>4, <1>5, <1>6
  <1>8. updated' \in Seq(Nat) /\ Len(updated') = n + 1 /\ DOMAIN updated' = 1..(n + 1)
        /\ \A e \in 1..(n + 1) : updated'[e] = IF e = n + 1 THEN n + 1 ELSE updated[e]
    <2>1. updated \in Seq(Nat) /\ Len(updated) = n
      BY <1>1 DEF CollectionShape
    <2>2. updated' = Append(updated, n + 1) /\ n + 1 \in Nat
      BY <1>5
    <2>3. updated' \in Seq(Nat) /\ Len(updated') = n + 1 /\ DOMAIN updated' = 1..(n + 1)
      BY <2>1, <2>2
    <2>4. \A e \in 1..(n + 1) : updated'[e] = IF e = n + 1 THEN n + 1 ELSE updated[e]
      BY <2>1, <2>2
    <2>5. QED
      BY <2>3, <2>4
  <1>9. {updated'[e] : e \in 1..(n + 1)} = 1..(n + 1)
    <2>1. {updated[e] : e \in 1..n} = 1..n
      BY <1>1 DEF CollectionShape
    <2>2. \A e \in 1..n : e \in 1..(n + 1) /\ updated'[e] = updated[e] /\ updated[e] \in 1..n
      BY <1>8, <2>1
    <2>3. ASSUME NEW v \in 1..(n + 1)
          PROVE  \E e \in 1..(n + 1) : updated'[e] = v
      <3>1. CASE v = n + 1
        BY <1>8, <3>1
      <3>2. CASE v # n + 1
        <4>1. PICK e \in 1..n : updated[e] = v
          BY <2>1, <3>2
        <4>2. QED
          BY <2>2, <4>1
      <3>3. QED
        BY <3>1, <3>2
    <2>4. \A e \in 1..(n + 1) : updated'[e] \in 1..(n + 1)
      BY <1>8, <2>2
    <2>5. QED
      BY <2>3, <2>4
  <1>10. CollectionShape'
    BY <1>7, <1>8, <1>9 DEF CollectionShape
  <1>11. QED
    BY <1>1, <1>7, <1>10 DEF CallKeeps


-----------------------------------------------------------------------------
\* What a step of r does to the collection, and where it takes r.
Moves(r) == CallKeeps /\ \E s : Outline!Goes(r, s) /\ RunShape(s)'

LEMMA StillShaped ==
  ASSUME CallKeeps, NEW s, RunShape(s)
  PROVE  RunShape(s)'
  BY DEF CallKeeps, RunShape

LEMMA ShapeKept ==
  ASSUME SyncInv, ShapeInv, NEW r \in Runs, Moves(r)
  PROVE  ShapeInv'
  <1>1. PICK s : Outline!Goes(r, s) /\ RunShape(s)'
    BY DEF Moves
  <1>2. \A q \in Runs : run'[q] = IF q = r THEN s ELSE run[q]
    BY <1>1 DEF Outline!Goes, SyncInv
  <1>3. ASSUME NEW q \in Runs
        PROVE  RunShape(run[q])'
    <2>1. CASE q = r
      <3>1. run'[q] = s
        BY <1>2, <2>1
      <3>2. QED
        BY <1>1, <3>1 DEF RunShape
    <2>2. CASE q # r
      <3>1. PICK p : p = run[q] /\ run'[q] = p
        BY <1>2, <2>2
      <3>2. RunShape(p)'
        BY <3>1, StillShaped DEF ShapeInv, Moves
      <3>3. QED
        BY <3>1, <3>2 DEF RunShape
    <2>3. QED
      BY <2>1, <2>2
  <1>4. quiet' \in [Runs -> BOOLEAN]
    <2>1. quiet' = [q \in Runs |-> IF q = r THEN quiet[r] /\ \A o \in Runs \ {r} : ~Outline!Running(o)
                                   ELSE run[q].pc = "idle" /\ quiet[q]]
      BY <1>1 DEF Outline!Goes
    <2>2. \A q \in Runs : (IF q = r THEN quiet[r] /\ \A o \in Runs \ {r} : ~Outline!Running(o)
                           ELSE run[q].pc = "idle" /\ quiet[q]) \in BOOLEAN
      OBVIOUS
    <2>3. QED
      BY <2>1, <2>2, Zenon
  <1>5. QED
    BY <1>3, <1>4 DEF Moves, CallKeeps, ShapeInv

\* The texts of the documents and what the titles are.
LEMMA Names ==
  /\ Root \in Outline!Titles /\ Hubs \subseteq Outline!Titles /\ Targets \subseteq Outline!Titles
  /\ Groups \subseteq Outline!Titles /\ Root \in Groups /\ Hubs \subseteq Groups
  /\ \A t \in Targets : HubOf[t] \in Groups /\ t \notin Groups
  /\ {"old", "new", "raw", "final", "stub", "index"} \subseteq Outline!Texts
  BY OutlineAssumption DEF Outline!Titles, Outline!Desired, Groups, Outline!Texts

LEMMA SameCollection ==
  ASSUME CollectionShape, UNCHANGED <<docs, updated>>
  PROVE  CallKeeps
  BY DEF CallKeeps, CollectionShape

\* A document of the collection, and one a run knows.
LEMMA DocShape ==
  ASSUME CollectionShape, NEW d \in DOMAIN docs
  PROVE  /\ docs[d] \in Doc(Len(docs)) /\ d \in 0..Len(docs) /\ d \in 1..Len(docs)
         /\ docs[d].text \in Outline!Texts
         /\ DOMAIN docs = 1..Len(docs) /\ 0 \in 0..Len(docs) /\ Len(docs) \in Nat
  <1>1. /\ docs[d] \in Doc(Len(docs)) /\ DOMAIN docs = 1..Len(docs) /\ Len(docs) \in Nat
    BY DEF CollectionShape
  <1>2. QED
    BY <1>1 DEF Doc

LEMMA ListingShape ==
  Outline!Active \subseteq DOMAIN docs /\ DOMAIN Parents \subseteq DOMAIN docs
  BY DEF Outline!Active, Parents

\* Runs over.
LEMMA OverShape ==
  ASSUME NEW pc \in {"done", "failed"}
  PROVE  RunShape([Outline!Idle EXCEPT !.pc = pc])
  <1>1. PICK s : s = [Outline!Idle EXCEPT !.pc = pc]
    OBVIOUS
  <1>2. s.seen = {} /\ s.parent = <<>> /\ s.title = Root /\ s.hold = "old" /\ s.pc = pc
    BY <1>1 DEF Outline!Idle
  <1>3. DOMAIN s.parent = {}
    BY <1>2
  <1>4. RunShape(s)
    BY <1>2, <1>3, Names DEF RunShape
  <1>5. QED
    BY <1>1, <1>4

\* Steps that call nothing but listings.
LEMMA FirstListShape ==
  ASSUME SyncInv, ShapeInv, NEW r \in Runs, Outline!FirstList(r)
  PROVE  Moves(r)
  <1>1. PICK todo, s :
          /\ s = [[run[r] EXCEPT !.seen = Outline!Active, !.parent = Parents]
                    EXCEPT !.pc = "dedupe", !.todo = todo]
          /\ Outline!Goes(r, s)
    BY DEF Outline!FirstList, Outline!Listing, Parents
  <1>2. /\ s.pc = "dedupe" /\ s.seen = Outline!Active /\ s.parent = Parents
        /\ s.title = run[r].title /\ s.hold = run[r].hold
    BY <1>1, RunFields DEF Fields
  <1>3. RunShape(s)
    BY <1>2, ListingShape DEF RunShape, ShapeInv
  <1>4. CallKeeps
    BY SameCollection DEF Outline!FirstList, Outline!Same, ShapeInv
  <1>5. QED
    BY <1>1, <1>3, <1>4, StillShaped DEF Moves

LEMMA SecondListShape ==
  ASSUME SyncInv, ShapeInv, NEW r \in Runs, Outline!SecondList(r)
  PROVE  Moves(r)
  <1>1. PICK s :
          /\ s = [[run[r] EXCEPT !.seen = Outline!Active, !.parent = Parents]
                    EXCEPT !.pc = "ensure", !.title = Root, !.todo = Hubs]
          /\ Outline!Goes(r, s)
    BY DEF Outline!SecondList, Outline!Listing, Parents
  <1>2. /\ s.pc = "ensure" /\ s.seen = Outline!Active /\ s.parent = Parents
        /\ s.title = Root /\ s.hold = run[r].hold
    BY <1>1, RunFields DEF Fields
  <1>3. RunShape(s)
    BY <1>2, ListingShape, Names DEF RunShape, ShapeInv
  <1>4. CallKeeps
    BY SameCollection DEF Outline!SecondList, Outline!Same, ShapeInv
  <1>5. QED
    BY <1>1, <1>3, <1>4, StillShaped DEF Moves

LEMMA ThirdListShape ==
  ASSUME TextInv, ShapeInv, NEW r \in Runs, Outline!ThirdList(r)
  PROVE  Moves(r)
  <1>1. PICK todo, s :
          /\ s = [[run[r] EXCEPT !.seen = Outline!Active, !.parent = Parents]
                    EXCEPT !.pc = "rewrite",
                           !.seen = Outline!Active \cup {Chosen(run[r], g) : g \in Groups},
                           !.todo = todo]
          /\ Outline!Goes(r, s)
    BY DEF Outline!ThirdList, Outline!Listing, Parents, Chosen, Outline!Known, Groups
  <1>2. SyncInv /\ run[r].pc = "targets" /\ run[r].seen \subseteq DOMAIN docs /\ HubsKnown(run[r])
    BY RunKnows DEF Outline!ThirdList, Over
  <1>3. PICK known : known = Outline!Active \cup {Chosen(run[r], g) : g \in Groups}
    OBVIOUS
  <1>4. /\ s.pc = "rewrite" /\ s.seen = known /\ s.parent = Parents
        /\ s.title = run[r].title /\ s.hold = run[r].hold
    BY <1>1, <1>2, <1>3, RunFields DEF Fields
  <1>5. \A g \in Groups : Chosen(run[r], g) \in DOMAIN docs
    BY <1>2, ChosenKnown DEF HubsKnown
  <1>6. RunShape(s)
    BY <1>3, <1>4, <1>5, ListingShape DEF RunShape, ShapeInv
  <1>7. CallKeeps
    BY SameCollection DEF Outline!ThirdList, Outline!Same, ShapeInv
  <1>8. QED
    BY <1>1, <1>6, <1>7, StillShaped DEF Moves

LEMMA LastListShape ==
  ASSUME SyncInv, ShapeInv, NEW r \in Runs, Outline!LastList(r)
  PROVE  Moves(r)
  <1>1. PICK s : /\ s = [run[r] EXCEPT !.pc = "indexes", !.todo = Hubs, !.parent = Parents]
                 /\ Outline!Goes(r, s)
    BY DEF Outline!LastList, Parents
  <1>2. /\ s.pc = "indexes" /\ s.seen = run[r].seen /\ s.parent = Parents
        /\ s.title = run[r].title /\ s.hold = run[r].hold
    BY <1>1, RunFields DEF Fields
  <1>3. RunShape(s)
    BY <1>2, ListingShape DEF RunShape, ShapeInv
  <1>4. CallKeeps
    BY SameCollection DEF Outline!LastList, Outline!Same, ShapeInv
  <1>5. QED
    BY <1>1, <1>3, <1>4, StillShaped DEF Moves


LEMMA ReadNewestShape ==
  ASSUME TextInv, ShapeInv, NEW r \in Runs, Outline!ReadNewest(r)
  PROVE  Moves(r)
  <1>1. PICK p \in run[r].todo :
          Outline!Goes(r, [run[r] EXCEPT !.pc = "merge", !.title = p[1], !.newest = p[2],
                                         !.todo = @ \ {p}, !.hold = docs[p[2]].text])
    BY DEF Outline!ReadNewest
  <1>2. PICK s : s = [run[r] EXCEPT !.pc = "merge", !.title = p[1], !.newest = p[2],
                                    !.todo = @ \ {p}, !.hold = docs[p[2]].text]
    OBVIOUS
  <1>3. SyncInv /\ run[r].pc = "dedupe" /\ DuplicatesKnown(run[r])
    BY RunKnows DEF Outline!ReadNewest, Merging
  <1>4. p[1] \in Outline!Titles /\ p[2] \in DOMAIN docs
    BY <1>3 DEF DuplicatesKnown
  <1>5. docs[p[2]].text \in Outline!Texts
    BY <1>4, DocShape DEF ShapeInv
  <1>6. /\ s.pc = "merge" /\ s.seen = run[r].seen /\ s.parent = run[r].parent
        /\ s.title = p[1] /\ s.hold = docs[p[2]].text
    BY <1>2, <1>3, RunFields DEF Fields
  <1>7. RunShape(s)
    BY <1>4, <1>5, <1>6 DEF RunShape, ShapeInv
  <1>8. CallKeeps
    BY SameCollection DEF Outline!ReadNewest, Outline!Same, ShapeInv
  <1>9. QED
    BY <1>1, <1>2, <1>7, <1>8, StillShaped DEF Moves

LEMMA NextHubShape ==
  ASSUME TextInv, ShapeInv, NEW r \in Runs, Outline!NextHub(r)
  PROVE  Moves(r)
  <1>1. PICK h, s :
          /\ h \in run[r].todo
          /\ s = [run[r] EXCEPT !.pc = "ensure", !.title = h, !.todo = @ \ {h}]
          /\ Outline!Goes(r, s)
    BY DEF Outline!NextHub
  <1>2. SyncInv /\ run[r].pc = "hub" /\ HubsKnown(run[r])
    BY RunKnows DEF Outline!NextHub, Over
  <1>3. h \in Outline!Titles
    BY <1>1, <1>2, Names DEF HubsKnown
  <1>4. /\ s.pc = "ensure" /\ s.seen = run[r].seen /\ s.parent = run[r].parent
        /\ s.title = h /\ s.hold = run[r].hold
    BY <1>1, <1>2, RunFields DEF Fields
  <1>5. RunShape(s)
    BY <1>3, <1>4 DEF RunShape, ShapeInv
  <1>6. CallKeeps
    BY SameCollection DEF Outline!NextHub, Outline!Same, ShapeInv
  <1>7. QED
    BY <1>1, <1>5, <1>6, StillShaped DEF Moves

LEMMA RewriteShape ==
  ASSUME TextInv, ShapeInv, NEW r \in Runs, Outline!Rewrite(r)
  PROVE  Moves(r)
  <1>1. PICK t, d, q, s :
          /\ t \in run[r].todo
          /\ q = [run[r] EXCEPT !.todo = @ \ {t}, !.newest = d]
          /\ s = q \/ s = [q EXCEPT !.pc = "write", !.title = t]
          /\ Outline!Goes(r, s)
    <2>1. PICK t \in run[r].todo :
            LET d == Chosen(run[r], t)
                hub == Chosen(run[r], HubOf[t])
                q == [run[r] EXCEPT !.todo = @ \ {t}, !.newest = d]
            IN  IF docs[d].text = "final" /\ run[r].parent[d] = hub
                THEN Outline!Goes(r, q)
                ELSE Outline!Goes(r, [q EXCEPT !.pc = "write", !.title = t])
      BY DEF Outline!Rewrite, Outline!Known, Chosen
    <2>2. QED
      BY <2>1
  <1>2. SyncInv /\ run[r].pc = "rewrite" /\ HubsKnown(run[r])
    BY RunKnows DEF Outline!Rewrite, Over
  <1>3. t \in Targets /\ t \in Outline!Titles
    BY <1>1, <1>2, Names DEF HubsKnown
  <1>4. /\ q.pc = "rewrite" /\ q.seen = run[r].seen /\ q.parent = run[r].parent
        /\ q.title = run[r].title /\ q.hold = run[r].hold /\ Fields \subseteq DOMAIN q
    BY <1>1, <1>2, RunFields DEF Fields
  <1>5. /\ s.seen = run[r].seen /\ s.parent = run[r].parent /\ s.hold = run[r].hold
        /\ \/ s.pc = "rewrite" /\ s.title = run[r].title
           \/ s.title = t
    BY <1>1, <1>4 DEF Fields
  <1>6. RunShape(s)
    BY <1>3, <1>5 DEF RunShape, ShapeInv
  <1>7. CallKeeps
    BY SameCollection DEF Outline!Rewrite, Outline!Same, ShapeInv
  <1>8. QED
    BY <1>1, <1>6, <1>7, StillShaped DEF Moves

LEMMA UnknownListShape ==
  ASSUME SyncInv, ShapeInv, NEW r \in Runs, Outline!UnknownList(r)
  PROVE  Moves(r)
  <1>1. PICK todo, s : s = [run[r] EXCEPT !.pc = "unknown", !.todo = todo] /\ Outline!Goes(r, s)
    BY DEF Outline!UnknownList
  <1>2. /\ s.pc = "unknown" /\ s.seen = run[r].seen /\ s.parent = run[r].parent
        /\ s.title = run[r].title /\ s.hold = run[r].hold
    BY <1>1, RunFields DEF Fields
  <1>3. RunShape(s)
    BY <1>2 DEF RunShape, ShapeInv
  <1>4. CallKeeps
    BY SameCollection DEF Outline!UnknownList, Outline!Same, ShapeInv
  <1>5. QED
    BY <1>1, <1>3, <1>4, StillShaped DEF Moves

LEMMA FailShape ==
  ASSUME SyncInv, ShapeInv, NEW r \in Runs, Outline!Fail(r)
  PROVE  Moves(r)
  <1>1. PICK s : s = [Outline!Idle EXCEPT !.pc = "failed"] /\ Outline!Goes(r, s)
    BY DEF Outline!Fail
  <1>2. RunShape(s)
    BY <1>1, OverShape
  <1>3. CallKeeps
    BY SameCollection DEF Outline!Fail, Outline!Same, ShapeInv
  <1>4. QED
    BY <1>1, <1>2, <1>3, StillShaped DEF Moves

\* Steps that write.
LEMMA MergeTextShape ==
  ASSUME TextInv, ShapeInv, NEW r \in Runs, Outline!MergeText(r)
  PROVE  Moves(r)
  <1>1. PICK s : s = [run[r] EXCEPT !.pc = "mergeArchive"] /\ Outline!Goes(r, s)
    BY DEF Outline!MergeText
  <1>2. /\ SyncInv /\ PlacesInv /\ run[r].pc = "merge" /\ run[r].seen \subseteq DOMAIN docs
        /\ Knows(run[r], run[r].title)
    BY RunKnows DEF Outline!MergeText, Merging, Over, DuplicatesKnown
  <1>3. PICK d, w : /\ d = Chosen(run[r], run[r].title)
                    /\ Outline!Update(d, w) /\ w = [docs[d] EXCEPT !.text = run[r].hold]
    BY <1>2, MergeTextGoes
  <1>4. d \in DOMAIN docs
    BY <1>2, <1>3, ChosenKnown
  <1>5. docs[d] \in Doc(Len(docs)) /\ run[r].hold \in Outline!Texts
    BY <1>4, DocShape DEF ShapeInv, RunShape
  <1>6. w \in Doc(Len(docs))
    BY <1>3, <1>5 DEF Doc
  <1>7. CallKeeps
    BY <1>2, <1>3, <1>4, <1>6, UpdateShape DEF ShapeInv
  <1>8. /\ s.pc = "mergeArchive" /\ s.seen = run[r].seen /\ s.parent = run[r].parent
        /\ s.title = run[r].title /\ s.hold = run[r].hold
    BY <1>1, <1>2, RunFields DEF Fields
  <1>9. RunShape(s)
    BY <1>8 DEF RunShape, ShapeInv
  <1>10. QED
    BY <1>1, <1>7, <1>9, StillShaped DEF Moves

LEMMA AfterShape ==
  ASSUME NEW q, Fields \subseteq DOMAIN q, RunShape(q), q.pc # "write"
  PROVE  RunShape(Outline!AfterEnsure(q))
  <1>1. PICK s : s = Outline!AfterEnsure(q)
    OBVIOUS
  <1>2. s.seen = q.seen /\ s.parent = q.parent /\ s.title = q.title /\ s.hold = q.hold
        /\ s.pc \in {"targets", "hub"}
    BY <1>1 DEF Outline!AfterEnsure, Fields
  <1>3. RunShape(s)
    BY <1>2 DEF RunShape
  <1>4. QED
    BY <1>1, <1>3

LEMMA ArchiveExtraShape ==
  ASSUME SyncInv, ShapeInv, NEW r \in Runs, Outline!ArchiveExtra(r)
  PROVE  Moves(r)
  <1>1. PICK d, q, s :
          /\ d \in Outline!Extras(r) /\ Outline!Archive(d) /\ Outline!Goes(r, s)
          /\ q = [run[r] EXCEPT !.seen = @ \ {d}]
          /\ s = IF Outline!Extras(r) # {d} THEN q
                 ELSE IF run[r].pc = "mergeArchive" THEN [q EXCEPT !.pc = "dedupe"]
                 ELSE Outline!AfterEnsure(q)
    BY DEF Outline!ArchiveExtra
  <1>2. /\ q.pc \in {"mergeArchive", "ensureArchive"} /\ q.title = run[r].title
        /\ q.hold = run[r].hold
        /\ q.seen = run[r].seen \ {d} /\ q.parent = run[r].parent /\ Fields \subseteq DOMAIN q
    BY <1>1, RunFields DEF Fields, Outline!ArchiveExtra
  <1>3. RunShape(q)
    BY <1>2 DEF RunShape, ShapeInv
  <1>4. d \in DOMAIN docs
    BY <1>1 DEF Outline!Extras, Outline!Entitled, ShapeInv, RunShape
  <1>5. RunShape(s)
    <2>1. CASE s = q
      BY <1>3, <2>1
    <2>2. CASE s = [q EXCEPT !.pc = "dedupe"]
      <3>1. /\ s.pc = "dedupe" /\ s.title = q.title /\ s.hold = q.hold
            /\ s.seen = q.seen /\ s.parent = q.parent
        BY <1>2, <2>2 DEF Fields
      <3>2. QED
        BY <1>3, <3>1 DEF RunShape
    <2>3. CASE s = Outline!AfterEnsure(q)
      BY <1>2, <1>3, <2>3, AfterShape
    <2>4. QED
      BY <1>1, <2>1, <2>2, <2>3
  <1>6. CallKeeps
    BY <1>1, <1>4, ArchiveShape DEF ShapeInv
  <1>7. QED
    BY <1>1, <1>5, <1>6, StillShaped DEF Moves

LEMMA ArchiveUnknownShape ==
  ASSUME SyncInv, ShapeInv, NEW r \in Runs, Outline!ArchiveUnknown(r)
  PROVE  Moves(r)
  <1>1. PICK d, s : /\ d \in run[r].todo /\ Outline!Archive(d) /\ Outline!Goes(r, s)
                    /\ s = [run[r] EXCEPT !.todo = @ \ {d}]
    BY DEF Outline!ArchiveUnknown
  <1>2. d \in DOMAIN docs /\ run[r].pc = "unknown"
    BY <1>1, RunFields DEF Outline!ArchiveUnknown, Careful
  <1>3. /\ s.pc = "unknown" /\ s.seen = run[r].seen /\ s.parent = run[r].parent
        /\ s.title = run[r].title /\ s.hold = run[r].hold
    BY <1>1, <1>2, RunFields DEF Fields
  <1>4. RunShape(s)
    BY <1>3 DEF RunShape, ShapeInv
  <1>5. CallKeeps
    BY <1>1, <1>2, ArchiveShape DEF ShapeInv
  <1>6. QED
    BY <1>1, <1>4, <1>5, StillShaped DEF Moves


\* The document a run hangs another one under.
LEMMA ParentShape ==
  ASSUME SyncInv, ShapeInv, NEW r \in Runs, run[r].seen \subseteq DOMAIN docs, NEW t,
         \/ t = Root
         \/ t \in Hubs /\ Knows(run[r], Root)
         \/ t \in Targets /\ Knows(run[r], HubOf[t])
  PROVE  Outline!ParentFor(r, t) \in 0..Len(docs)
  <1>1. CASE t = Root
    <2>1. Outline!ParentFor(r, t) = 0
      BY <1>1, OutlineAssumption DEF Outline!ParentFor, Outline!NoDoc
    <2>2. Len(docs) \in Nat
      BY DEF ShapeInv, CollectionShape
    <2>3. QED
      BY <2>1, <2>2
  <1>2. CASE t # Root /\ t \in Hubs /\ Knows(run[r], Root)
    <2>1. Chosen(run[r], Root) \in DOMAIN docs
      BY <1>2, ChosenKnown
    <2>2. Outline!ParentFor(r, t) = Chosen(run[r], Root)
      BY <1>2 DEF Outline!ParentFor, Outline!Known, Chosen
    <2>3. QED
      BY <2>1, <2>2, DocShape DEF ShapeInv
  <1>3. CASE t # Root /\ t \notin Hubs /\ Knows(run[r], HubOf[t])
    <2>1. Chosen(run[r], HubOf[t]) \in DOMAIN docs
      BY <1>3, ChosenKnown
    <2>2. Outline!ParentFor(r, t) = Chosen(run[r], HubOf[t])
      BY <1>3 DEF Outline!ParentFor, Outline!Known, Chosen
    <2>3. QED
      BY <2>1, <2>2, DocShape DEF ShapeInv
  <1>4. QED
    BY <1>1, <1>2, <1>3, OutlineAssumption

\* What a run that makes sure of the index and the hubs knows.
LEMMA EnsureKnows ==
  ASSUME TextInv, NEW r \in Runs, run[r].pc = "ensure"
  PROVE  /\ SyncInv /\ PlacesInv /\ run[r].seen \subseteq DOMAIN docs
         /\ run[r].title \in Groups /\ run[r].title \in Outline!Titles
         /\ run[r].title = Root \/ (run[r].title \in Hubs /\ Knows(run[r], Root))
  <1>1. /\ SyncInv /\ PlacesInv /\ run[r].seen \subseteq DOMAIN docs /\ HubsKnown(run[r])
    BY RunKnows DEF Over
  <1>2. /\ run[r].title \in Groups /\ run[r].todo \subseteq Hubs
        /\ \A t \in Groups \ (run[r].todo \cup {run[r].title}) : Knows(run[r], t)
    BY <1>1 DEF HubsKnown
  <1>3. Root \in Groups /\ Root \notin Hubs
    BY OutlineAssumption DEF Groups
  <1>4. run[r].title \in Outline!Titles
    BY <1>2, Names
  <1>5. run[r].title = Root \/ (run[r].title \in Hubs /\ Knows(run[r], Root))
    BY <1>2, <1>3 DEF Groups
  <1>6. QED
    BY <1>1, <1>2, <1>4, <1>5

LEMMA EnsureExistingShape ==
  ASSUME TextInv, ShapeInv, NEW r \in Runs, Outline!EnsureExisting(r)
  PROVE  Moves(r)
  <1>1. PICK s : /\ Outline!Goes(r, s)
                 /\ s = IF Outline!Extras(r) = {} THEN Outline!AfterEnsure(run[r])
                        ELSE [run[r] EXCEPT !.pc = "ensureArchive"]
    BY DEF Outline!EnsureExisting
  <1>2. run[r].pc = "ensure" /\ SyncInv
    BY RunKnows DEF Outline!EnsureExisting
  <1>3. /\ PlacesInv /\ run[r].seen \subseteq DOMAIN docs
        /\ run[r].title = Root \/ (run[r].title \in Hubs /\ Knows(run[r], Root))
    BY <1>2, EnsureKnows
  <1>4. /\ Knows(run[r], run[r].title)
        /\ \E d, w : /\ d = Chosen(run[r], run[r].title) /\ Outline!Update(d, w)
                     /\ w = [docs[d] EXCEPT !.text = "stub", !.lists = {},
                               !.parent = IF run[r].title = Root THEN @
                                          ELSE Outline!ParentFor(r, run[r].title)]
    BY <1>2, EnsureExistingGoes
  <1>5. PICK d, w : /\ d = Chosen(run[r], run[r].title) /\ Outline!Update(d, w)
                    /\ w = [docs[d] EXCEPT !.text = "stub", !.lists = {},
                              !.parent = IF run[r].title = Root THEN @
                                         ELSE Outline!ParentFor(r, run[r].title)]
    BY <1>4
  <1>6. d \in DOMAIN docs
    BY <1>2, <1>3, <1>4, <1>5, ChosenKnown
  <1>7. docs[d] \in Doc(Len(docs)) /\ Outline!ParentFor(r, run[r].title) \in 0..Len(docs)
    BY <1>2, <1>3, <1>6, DocShape, ParentShape DEF ShapeInv
  <1>8. w \in Doc(Len(docs))
    BY <1>5, <1>7, Names DEF Doc
  <1>9. CallKeeps
    BY <1>3, <1>5, <1>6, <1>8, UpdateShape DEF ShapeInv
  <1>10. RunShape(s)
    <2>1. CASE Outline!Extras(r) = {}
      BY <1>1, <1>2, <2>1, RunFields, AfterShape DEF ShapeInv
    <2>2. CASE Outline!Extras(r) # {}
      <3>1. /\ s.pc = "ensureArchive" /\ s.title = run[r].title /\ s.hold = run[r].hold
            /\ s.seen = run[r].seen /\ s.parent = run[r].parent
        BY <1>1, <1>2, <2>2, RunFields DEF Fields
      <3>2. QED
        BY <3>1 DEF RunShape, ShapeInv
    <2>3. QED
      BY <2>1, <2>2
  <1>11. QED
    BY <1>1, <1>9, <1>10, StillShaped DEF Moves

LEMMA EnsureMissingShape ==
  ASSUME TextInv, ShapeInv, NEW r \in Runs, Outline!EnsureMissing(r)
  PROVE  Moves(r)
  <1>1. PICK n, q, s : /\ n = Len(docs) + 1 /\ q = [run[r] EXCEPT !.seen = @ \cup {n}]
                       /\ s = Outline!AfterEnsure(q) /\ Outline!Goes(r, s)
    BY DEF Outline!EnsureMissing
  <1>2. run[r].pc = "ensure" /\ SyncInv
    BY RunKnows DEF Outline!EnsureMissing
  <1>3. /\ run[r].seen \subseteq DOMAIN docs /\ run[r].title \in Outline!Titles
        /\ run[r].title = Root \/ (run[r].title \in Hubs /\ Knows(run[r], Root))
    BY <1>2, EnsureKnows
  <1>4. Outline!Create(run[r].title, "stub", Outline!ParentFor(r, run[r].title))
    BY <1>2, EnsureMissingGoes
  <1>5. Outline!ParentFor(r, run[r].title) \in 0..Len(docs)
    BY <1>2, <1>3, ParentShape
  <1>6. CallKeeps /\ n \in DOMAIN docs'
    BY <1>1, <1>3, <1>4, <1>5, CreateShape, Names DEF ShapeInv
  <1>7. /\ q.seen = run[r].seen \cup {n} /\ q.title = run[r].title /\ q.hold = run[r].hold
        /\ q.pc = "ensure" /\ q.parent = run[r].parent /\ Fields \subseteq DOMAIN q
    BY <1>1, <1>2, RunFields DEF Fields
  <1>8. /\ s.seen = q.seen /\ s.parent = q.parent /\ s.title = q.title /\ s.hold = q.hold
        /\ s.pc \in {"targets", "hub"}
    BY <1>1, <1>7 DEF Outline!AfterEnsure, Fields
  <1>9. PICK p : p = run[r]
    OBVIOUS
  <1>10. RunShape(p)'
    BY <1>6, <1>9, StillShaped DEF ShapeInv
  <1>11. RunShape(s)'
    BY <1>6, <1>7, <1>8, <1>9, <1>10 DEF RunShape
  <1>12. QED
    BY <1>1, <1>6, <1>11 DEF Moves

\* What a run that is past the hubs knows.
LEMMA LateKnows ==
  ASSUME TextInv, NEW r \in Runs, run[r].pc \in {"targets", "write", "indexes"}
  PROVE  /\ SyncInv /\ PlacesInv /\ run[r].seen \subseteq DOMAIN docs
         /\ \A t \in Groups : Knows(run[r], t) /\ Chosen(run[r], t) \in DOMAIN docs
         /\ run[r].pc = "targets" => run[r].todo \subseteq Targets
         /\ run[r].pc = "write" => run[r].newest \in DOMAIN docs
         /\ run[r].pc = "indexes" => run[r].todo \subseteq Hubs
  <1>1. /\ SyncInv /\ PlacesInv /\ run[r].seen \subseteq DOMAIN docs /\ HubsKnown(run[r])
    BY RunKnows DEF Over
  <1>2. \A t \in Groups : Knows(run[r], t)
    BY <1>1 DEF HubsKnown
  <1>3. \A t \in Groups : Chosen(run[r], t) \in DOMAIN docs
    BY <1>1, <1>2, ChosenKnown
  <1>4. QED
    BY <1>1, <1>2, <1>3 DEF HubsKnown

LEMMA CreateTargetShape ==
  ASSUME TextInv, ShapeInv, NEW r \in Runs, Outline!CreateTarget(r)
  PROVE  Moves(r)
  <1>1. PICK t, n, s : /\ n = Len(docs) + 1 /\ t \in run[r].todo
                       /\ Outline!Create(t, "raw", Outline!ParentFor(r, t))
                       /\ Outline!Goes(r, s)
                       /\ s = [run[r] EXCEPT !.seen = @ \cup {n}, !.todo = @ \ {t}]
    BY DEF Outline!CreateTarget
  <1>2. run[r].pc = "targets"
    BY DEF Outline!CreateTarget
  <1>3. /\ SyncInv /\ run[r].seen \subseteq DOMAIN docs /\ t \in Targets
        /\ Knows(run[r], HubOf[t])
    BY <1>1, <1>2, LateKnows, Names
  <1>4. Outline!ParentFor(r, t) \in 0..Len(docs)
    BY <1>3, ParentShape
  <1>5. CallKeeps /\ n \in DOMAIN docs'
    BY <1>1, <1>3, <1>4, CreateShape, Names DEF ShapeInv
  <1>6. /\ s.seen = run[r].seen \cup {n} /\ s.title = run[r].title /\ s.hold = run[r].hold
        /\ s.pc = "targets" /\ s.parent = run[r].parent
    BY <1>1, <1>2, <1>3, RunFields DEF Fields
  <1>7. PICK p : p = run[r]
    OBVIOUS
  <1>8. RunShape(p)'
    BY <1>5, <1>7, StillShaped DEF ShapeInv
  <1>9. RunShape(s)'
    BY <1>5, <1>6, <1>7, <1>8 DEF RunShape
  <1>10. QED
    BY <1>1, <1>5, <1>9 DEF Moves

LEMMA WriteFinalShape ==
  ASSUME TextInv, ShapeInv, NEW r \in Runs, Outline!WriteFinal(r)
  PROVE  Moves(r)
  <1>1. PICK s : s = [run[r] EXCEPT !.pc = "rewrite"] /\ Outline!Goes(r, s)
    BY DEF Outline!WriteFinal
  <1>2. run[r].pc = "write"
    BY DEF Outline!WriteFinal
  <1>3. /\ SyncInv /\ PlacesInv /\ run[r].newest \in DOMAIN docs /\ run[r].title \in Targets
        /\ HubOf[run[r].title] \in Groups
        /\ Chosen(run[r], HubOf[run[r].title]) \in DOMAIN docs
    BY <1>2, LateKnows, Names DEF ShapeInv, RunShape
  <1>4. PICK d, w : /\ d = run[r].newest /\ Outline!Update(d, w)
                    /\ w = [docs[d] EXCEPT !.text = "final",
                                           !.parent = Chosen(run[r], HubOf[run[r].title])]
    BY <1>3, WriteFinalGoes
  <1>5. docs[d] \in Doc(Len(docs)) /\ Chosen(run[r], HubOf[run[r].title]) \in 0..Len(docs)
    BY <1>3, <1>4, DocShape DEF ShapeInv
  <1>6. w \in Doc(Len(docs))
    BY <1>4, <1>5, Names DEF Doc
  <1>7. CallKeeps
    BY <1>3, <1>4, <1>6, UpdateShape DEF ShapeInv
  <1>8. /\ s.pc = "rewrite" /\ s.seen = run[r].seen /\ s.parent = run[r].parent
        /\ s.title = run[r].title /\ s.hold = run[r].hold
    BY <1>1, <1>3, RunFields DEF Fields
  <1>9. RunShape(s)
    BY <1>8 DEF RunShape, ShapeInv
  <1>10. QED
    BY <1>1, <1>7, <1>9, StillShaped DEF Moves

LEMMA WriteIndexShape ==
  ASSUME TextInv, ShapeInv, NEW r \in Runs, Outline!WriteIndex(r)
  PROVE  Moves(r)
  <1>1. PICK h, d, w, s :
          /\ h \in run[r].todo /\ d = Chosen(run[r], h) /\ Outline!Update(d, w)
          /\ w = [docs[d] EXCEPT
                    !.text = "index",
                    !.lists = {e \in DOMAIN run[r].parent : run[r].parent[e] = d} \ {d}]
          /\ s = [run[r] EXCEPT !.todo = @ \ {h}] /\ Outline!Goes(r, s)
    BY DEF Outline!WriteIndex, Outline!Known, Chosen
  <1>2. run[r].pc = "indexes"
    BY DEF Outline!WriteIndex
  <1>3. SyncInv /\ PlacesInv /\ d \in DOMAIN docs
    BY <1>1, <1>2, LateKnows, Names
  <1>4. PICK listed_ : listed_ = {e \in DOMAIN run[r].parent : run[r].parent[e] = d} \ {d}
    OBVIOUS
  <1>5. docs[d] \in Doc(Len(docs)) /\ listed_ \subseteq 1..Len(docs)
    <2>1. DOMAIN run[r].parent \subseteq DOMAIN docs
      BY DEF ShapeInv, RunShape
    <2>2. QED
      BY <1>3, <1>4, <2>1, DocShape DEF ShapeInv
  <1>6. w \in Doc(Len(docs))
    BY <1>1, <1>4, <1>5, Names DEF Doc
  <1>7. CallKeeps
    BY <1>1, <1>3, <1>6, UpdateShape DEF ShapeInv
  <1>8. /\ s.pc = "indexes" /\ s.seen = run[r].seen /\ s.parent = run[r].parent
        /\ s.title = run[r].title /\ s.hold = run[r].hold
    BY <1>1, <1>2, <1>3, RunFields DEF Fields
  <1>9. RunShape(s)
    BY <1>8 DEF RunShape, ShapeInv
  <1>10. QED
    BY <1>1, <1>7, <1>9, StillShaped DEF Moves

LEMMA WriteRootShape ==
  ASSUME TextInv, ShapeInv, NEW r \in Runs, Outline!WriteRoot(r)
  PROVE  Moves(r)
  <1>1. PICK s : s = [Outline!Idle EXCEPT !.pc = "done"] /\ Outline!Goes(r, s)
    BY DEF Outline!WriteRoot
  <1>2. run[r].pc = "indexes"
    BY DEF Outline!WriteRoot
  <1>3. SyncInv /\ PlacesInv /\ Chosen(run[r], Root) \in DOMAIN docs
    BY <1>2, LateKnows, Names
  <1>4. PICK d, w : /\ d = Chosen(run[r], Root) /\ Outline!Update(d, w)
                    /\ w = [docs[d] EXCEPT !.text = "index"]
    BY <1>3, WriteRootGoes
  <1>5. docs[d] \in Doc(Len(docs))
    BY <1>3, <1>4, DocShape DEF ShapeInv
  <1>6. w \in Doc(Len(docs))
    BY <1>4, <1>5, Names DEF Doc
  <1>7. CallKeeps
    BY <1>3, <1>4, <1>6, UpdateShape DEF ShapeInv
  <1>8. RunShape(s)
    BY <1>1, OverShape
  <1>9. QED
    BY <1>1, <1>7, <1>8, StillShaped DEF Moves

LEMMA MemberOf ==
  ASSUME NEW W, NEW q \in Seq(W), NEW d \in DOMAIN q
  PROVE  q[d] \in W
  OBVIOUS

LEMMA ShapeStart ==
  ASSUME Outline!Init
  PROVE  ShapeInv
  <1>1. PICK c \in Start : docs = c.docs /\ updated = c.updated
    BY DEF Outline!Init
  <1>2. /\ docs \in Seq([title : Outline!Titles, parent : Nat, text : Outline!Texts,
                         lists : SUBSET Nat, active : BOOLEAN])
        /\ updated \in Seq(Nat) /\ Len(updated) = Len(docs)
        /\ {updated[d] : d \in DOMAIN updated} = DOMAIN docs
        /\ \A d \in DOMAIN docs : docs[d].parent <= Len(docs) /\ docs[d].lists \subseteq DOMAIN docs
    BY <1>1, OutlineAssumption, Zenon
  <1>3. PICK n \in Nat : n = Len(docs) /\ DOMAIN docs = 1..n
    BY <1>2
  <1>4. ASSUME NEW d \in 1..n
        PROVE  docs[d] \in Doc(n)
    <2>1. docs[d] \in [title : Outline!Titles, parent : Nat, text : Outline!Texts,
                       lists : SUBSET Nat, active : BOOLEAN]
      <3>1. PICK W : W = [title : Outline!Titles, parent : Nat, text : Outline!Texts,
                          lists : SUBSET Nat, active : BOOLEAN] /\ docs \in Seq(W)
        BY <1>2
      <3>2. d \in DOMAIN docs
        BY <1>3
      <3>3. docs[d] \in W
        BY <3>1, <3>2, MemberOf
      <3>4. QED
        BY <3>1, <3>3
    <2>2. docs[d].parent <= n /\ docs[d].lists \subseteq 1..n
      BY <1>2, <1>3
    <2>3. QED
      BY <2>1, <2>2 DEF Doc
  <1>5. docs \in Seq(Doc(n))
    BY <1>2, <1>3, <1>4
  <1>6. ASSUME NEW r \in Runs
        PROVE  RunShape(run[r])
    <2>1. PICK s : s = run[r] /\ s = Outline!Idle
      BY DEF Outline!Init
    <2>2. s.seen = {} /\ s.parent = <<>> /\ s.title = Root /\ s.hold = "old" /\ s.pc = "idle"
      BY <2>1 DEF Outline!Idle
    <2>3. DOMAIN s.parent = {}
      BY <2>2
    <2>4. RunShape(s)
      BY <2>2, <2>3, Names DEF RunShape
    <2>5. QED
      BY <2>1, <2>4
  <1>7. quiet \in [Runs -> BOOLEAN]
    BY DEF Outline!Init
  <1>8. QED
    BY <1>2, <1>3, <1>5, <1>6, <1>7 DEF ShapeInv, CollectionShape

LEMMA ShapeStep ==
  ASSUME TextInv, ShapeInv, Outline!Next \/ UNCHANGED outlineVars
  PROVE  ShapeInv'
  <1>1. CASE UNCHANGED outlineVars
    BY <1>1 DEF outlineVars, ShapeInv, CollectionShape, RunShape
  <1>2. CASE Outline!Next
    <2>1. PICK r \in Runs :
            \/ Outline!FirstList(r) \/ Outline!ReadNewest(r) \/ Outline!MergeText(r)
            \/ Outline!ArchiveExtra(r) \/ Outline!SecondList(r) \/ Outline!NextHub(r)
            \/ Outline!EnsureExisting(r) \/ Outline!EnsureMissing(r)
            \/ Outline!CreateTarget(r) \/ Outline!ThirdList(r) \/ Outline!Rewrite(r)
            \/ Outline!WriteFinal(r) \/ Outline!UnknownList(r) \/ Outline!ArchiveUnknown(r)
            \/ Outline!LastList(r) \/ Outline!WriteIndex(r) \/ Outline!WriteRoot(r)
            \/ Outline!Fail(r)
      BY <1>2 DEF Outline!Next
    <2>2. SyncInv
      BY DEF TextInv
    <2>3. Moves(r)
      BY <2>1, <2>2, FirstListShape, ReadNewestShape, MergeTextShape, ArchiveExtraShape,
         SecondListShape, NextHubShape, EnsureExistingShape, EnsureMissingShape,
         CreateTargetShape, ThirdListShape, RewriteShape, WriteFinalShape, UnknownListShape,
         ArchiveUnknownShape, LastListShape, WriteIndexShape, WriteRootShape, FailShape
    <2>4. QED
      BY <2>2, <2>3, ShapeKept
  <1>3. QED
    BY <1>1, <1>2

LEMMA ShapeIsType ==
  ASSUME ShapeInv
  PROVE  Outline!TypeOK
  <1>1. /\ DOMAIN docs = 1..Len(docs) /\ Len(updated) = Len(docs)
        /\ {updated[d] : d \in DOMAIN updated} = DOMAIN docs
        /\ \A d \in DOMAIN docs : docs[d] \in Doc(Len(docs))
    BY DEF ShapeInv, CollectionShape
  <1>2. \A d \in DOMAIN docs :
          docs[d] \in [title : Outline!Titles, parent : 0..Len(docs), text : Outline!Texts,
                       lists : SUBSET DOMAIN docs, active : BOOLEAN]
    BY <1>1 DEF Doc
  <1>3. QED
    BY <1>1, <1>2 DEF Outline!TypeOK, ShapeInv, RunShape

-----------------------------------------------------------------------------
\* The parts' invariants that their types need.
TypesInv ==
  /\ part \in {"entry", "placement", "outline", "stream", "access", "market"}
  /\ SInv /\ lagging \in BOOLEAN
  /\ PlacementInv /\ Placement!TypeOK
  /\ StreamInv /\ Stream!TypeOK
  /\ Access!TypeOK /\ MarketTypes
  /\ TextInv /\ ShapeInv

LEMMA TypesStart == ASSUME ServicesInit PROVE TypesInv
  <1>1. /\ Init /\ Placement!Init /\ Stream!Init /\ Access!Init /\ Market!Init /\ Outline!Init
        /\ part \in {"entry", "placement", "outline", "stream", "access", "market"}
    BY DEF ServicesInit, EntryRests, PlacementRests, OutlineRests, StreamRests
  <1>2. SInv /\ lagging \in BOOLEAN
    BY <1>1, InitS DEF Init
  <1>3. PlacementInv /\ Placement!TypeOK
    <2>1. book = [k \in Placement!Key |-> "absent"]
      BY <1>1 DEF Placement!Init
    <2>2. Placement!TypeOK
      BY <1>1, <2>1 DEF Placement!Init, Placement!TypeOK, Placement!Step
    <2>3. QED
      BY <1>1, <2>2, PlacementStart
  <1>4. StreamInv /\ Stream!TypeOK
    <2>1. /\ {closed, aborted, woken, misuse} \subseteq BOOLEAN
          /\ controller = "readable" /\ loop = "fetch" /\ sent = 0
      BY <1>1 DEF Stream!Init
    <2>2. sent \in 0..MaxSent
      BY <2>1, BoundsAssumption
    <2>3. QED
      BY <1>1, <2>1, <2>2, StreamStart DEF Stream!TypeOK
  <1>5. Access!TypeOK
    BY <1>1, BoundsAssumption DEF Access!Init, Access!TypeOK
  <1>6. MarketTypes /\ TextInv /\ ShapeInv
    BY <1>1, MarketTypesStart, TextStart, ShapeStart
  <1>7. QED
    BY <1>1, <1>2, <1>3, <1>4, <1>5, <1>6 DEF TypesInv

LEMMA TypesStep == ASSUME TypesInv, [ServicesNext]_allVars PROVE TypesInv'
  <1>1. /\ Next \/ UNCHANGED vars
        /\ Outline!Next \/ UNCHANGED outlineVars
        /\ part' = part
    BY DEF ServicesNext, allVars
  <1>2. SInv' /\ lagging' \in BOOLEAN
    <2>1. CASE Next
      <3>1. SInv'
        BY <2>1, AnsweredS, UnconfirmedS, RefreshedS, TradesReadS, StoreS, ProgressS
           DEF Next, TypesInv
      <3>2. lagging' = lagging
        BY <2>1 DEF Next, Answered, Unconfirmed, Refreshed, TradesRead, Store, Progress
      <3>3. QED
        BY <3>1, <3>2 DEF TypesInv
    <2>2. CASE UNCHANGED vars
      BY <2>2, StutterS DEF TypesInv, vars
    <2>3. QED
      BY <1>1, <2>1, <2>2
  <1>3. PlacementInv' /\ Placement!TypeOK'
    <2>1. CASE Placement!Next
      BY <2>1, PlacementStep, PlacementTypesStep DEF TypesInv
    <2>2. CASE UNCHANGED placementVars
      BY <2>2, PlacementTypesStep DEF TypesInv, PlacementInv, placementVars, Strays, Placement!Kind
    <2>3. QED
      BY <2>1, <2>2, PartsStep
  <1>4. StreamInv' /\ Stream!TypeOK'
    <2>1. CASE Stream!Next
      BY <2>1, StreamStep, StreamTypesStep DEF TypesInv
    <2>2. CASE UNCHANGED streamVars
      BY <2>2, StreamTypesStep DEF TypesInv, StreamInv, streamVars
    <2>3. QED
      BY <2>1, <2>2, PartsStep
  <1>5. Access!TypeOK' /\ MarketTypes'
    BY PartsStep, AccessTypesStep, MarketTypesStep DEF TypesInv
  <1>6. TextInv' /\ ShapeInv'
    BY <1>1, TextStep, TextRests, ShapeStep DEF TypesInv
  <1>7. QED
    BY <1>1, <1>2, <1>3, <1>4, <1>5, <1>6 DEF TypesInv

\* Every variable of the confirmation, the placement, the documentation sync,
\* the price stream, the access to backtests and the market data keeps its
\* type, for any constants: the documents a run remembers, hangs others under
\* or lists exist, and the last updates keep their order.
THEOREM ServicesTypes == ServicesSpec => []EveryTypeOK
  <1>1. ServicesInit => TypesInv
    BY TypesStart
  <1>2. TypesInv /\ [ServicesNext]_allVars => TypesInv'
    BY TypesStep
  <1>3. ASSUME TypesInv PROVE EveryTypeOK
    <2>1. TypeOK /\ Outline!TypeOK
      BY <1>3, EntryTypes, ShapeIsType DEF TypesInv
    <2>2. Market!TypeOK
      <3>1. \A i \in Market!Ingestions : ingestion[i].klines \subseteq 1..listed
        BY <1>3 DEF TypesInv, MarketTypes
      <3>2. \A r \in Readers : /\ reader[r].pc \in {"idle", "reading", "ingesting", "market", "demo"}
                               /\ reader[r].signals \subseteq candles
        BY <1>3 DEF TypesInv, MarketTypes, ProgressOf
      <3>3. QED
        BY <1>3, <3>1, <3>2 DEF TypesInv, MarketTypes, Market!TypeOK
    <2>3. QED
      BY <1>3, <2>1, <2>2 DEF EveryTypeOK, TypesInv
  <1>4. QED
    BY <1>1, <1>2, <1>3, PTL DEF ServicesSpec

-----------------------------------------------------------------------------
(* The placement is the step Protect of EntryExecution: to the core it     *)
(* happens at once, when the procedure comes to its end.                   *)

\* Orders that were placed and are not cancelled.
Standing(k) == book[k] \in {"live", "ended"}

One == "execution"
Sides == {"entry", "stop", "tp", "orphan"}

\* What the core sees of the placement once it has ended, of a pair that is
\* recorded and of orders that are not.
CorePc == [e \in {One} |-> IF Placement!Finished THEN place ELSE "priced"]

CoreBook ==
  [k \in {One} \X Sides |->
     IF \/ k[2] = "entry"
        \/ /\ Placement!Finished /\ k[2] = "orphan"
           /\ \E o \in Placement!Key \ rows : Standing(o)
        \/ /\ Placement!Finished
           /\ \E o \in rows : o[2] = k[2] /\ Standing(o)
     THEN "new" ELSE "absent"]

\* An execution of one plan; what Protect leaves alone stays as it is.
Core == INSTANCE EntryExecution WITH
  Plan <- {"plan"}, Symbol <- {"symbol"}, SymbolOf <- [p \in {"plan"} |-> "symbol"],
  Dir <- [p \in {"plan"} |-> 1], Qty <- [p \in {"plan"} |-> 1],
  Exec <- {One}, Paper <- {}, Sync <- {}, OneAtATime <- FALSE, None <- "none",
  planStatus <- [p \in {"plan"} |-> "approved"],
  position <- [r \in {One} |-> [status |-> "none", qty |-> 0, id |-> 0]],
  lastId <- 0, orders <- [k \in {One} \X Sides |-> "absent"],
  book <- CoreBook, fill <- [e \in {One} |-> 0], held <- [s \in {"symbol"} |-> 0],
  pc <- CorePc, planOf <- [r \in {One} |-> "plan"],
  view <- [e \in {One} |-> [status |-> "new", qty |-> 0]],
  target <- <<>>, loaded <- <<>>, seen <- <<>>, tried <- <<>>

\* Seen so, the procedure does nothing until it ends, and then what Protect does:
\* a stop and a take profit that both stand go with "protected", and whatever
\* else stands is an orphan.
ProtectsAtOnce ==
  /\ CorePc[One] = "priced"
  /\ [][Core!Protect(One)]_<<CorePc, CoreBook>>

\* At each call, the orders that are to be recorded stand at the exchange.
PairInv ==
  /\ book \in [Placement!Key -> {"absent", "live", "ended", "canceled"}]
  /\ place \in Placement!Step
  /\ place = "algo tp" => usedAlgo = TRUE /\ Standing(AlgoStop)
  /\ place = "algo stop" => usedAlgo = TRUE
  /\ place \in {"only stop", "only tp"} => usedAlgo = FALSE
  /\ place \in {"legacy tp", "only tp"} => Standing(LegacyStop)
  /\ place = "record" => \A side \in {"stop", "tp"} : Standing(<<Placement!Kind, side>>)
  /\ place # "protected" => rows = {}
  /\ place = "protected" => \E kind \in {"algo", "legacy"} :
       /\ rows = {<<kind, "stop">>, <<kind, "tp">>}
       /\ \A o \in rows : Standing(o)

LEMMA PairStart ==
  ASSUME Placement!Init
  PROVE  PairInv /\ ~Placement!Finished
  BY DEF Placement!Init, PairInv, Placement!Finished, Placement!Step

\* An answered request leaves its order standing, and a call that places or
\* settles leaves standing what does.
LEMMA AcceptStands ==
  ASSUME PairInv, NEW k \in Placement!Key, Placement!Accept(k)
  PROVE  /\ book' \in [Placement!Key -> {"absent", "live", "ended", "canceled"}]
         /\ Standing(k)' /\ \A o \in Placement!Key : Standing(o) => Standing(o)'
  BY DEF PairInv, Placement!Accept, Standing

LEMMA RaiseStands ==
  ASSUME PairInv, NEW k \in Placement!Key, Placement!Raise(k)
  PROVE  /\ book' \in [Placement!Key -> {"absent", "live", "ended", "canceled"}]
         /\ \A o \in Placement!Key : Standing(o) => Standing(o)'
  BY DEF PairInv, Placement!Raise, Standing

\* A request goes on to one of two calls.
LEMMA TryStands ==
  ASSUME PairInv, NEW at, NEW k \in Placement!Key, NEW success, NEW failure,
         Placement!Try(at, k, success, failure)
  PROVE  /\ place = at /\ UNCHANGED <<hasAlgo, usedAlgo, rows>>
         /\ book' \in [Placement!Key -> {"absent", "live", "ended", "canceled"}]
         /\ \A o \in Placement!Key : Standing(o) => Standing(o)'
         /\ \/ place' = success /\ Standing(k)'
            \/ place' = failure
  <1>1. place = at /\ UNCHANGED <<hasAlgo, usedAlgo, rows>>
    BY DEF Placement!Try
  <1>2. CASE Placement!Accept(k) /\ place' = success
    BY <1>1, <1>2, AcceptStands
  <1>3. CASE Placement!Raise(k) /\ place' = failure
    BY <1>1, <1>3, RaiseStands
  <1>4. QED
    BY <1>2, <1>3 DEF Placement!Try

LEMMA PairStep ==
  ASSUME PairInv, Placement!Next
  PROVE  PairInv'
  <1> USE PlacementKeys
  <1>1. CASE Placement!PlaceAlgoStop
    <2>1. /\ place = "algo stop" /\ UNCHANGED <<hasAlgo, usedAlgo, rows>>
          /\ book' \in [Placement!Key -> {"absent", "live", "ended", "canceled"}]
          /\ \/ place' = "algo tp" /\ Standing(AlgoStop)'
             \/ place' = "clean algo"
      BY <1>1, TryStands DEF Placement!PlaceAlgoStop
    <2>2. QED
      BY <2>1 DEF PairInv, Placement!Step
  <1>2. CASE Placement!PlaceAlgoTp
    <2>1. /\ place = "algo tp" /\ UNCHANGED <<hasAlgo, usedAlgo, rows>>
          /\ book' \in [Placement!Key -> {"absent", "live", "ended", "canceled"}]
          /\ \A o \in Placement!Key : Standing(o) => Standing(o)'
          /\ \/ place' = "record" /\ Standing(<<"algo", "tp">>)'
             \/ place' = "clean algo"
      BY <1>2, TryStands DEF Placement!PlaceAlgoTp
    <2>2. Standing(AlgoStop)' /\ Placement!Kind' = "algo" /\ rows' = {}
      BY <2>1 DEF PairInv, Placement!Kind
    <2>3. place' = "record" => \A side \in {"stop", "tp"} : Standing(<<Placement!Kind, side>>)'
      BY <2>1, <2>2 DEF Standing
    <2>4. QED
      BY <2>1, <2>2, <2>3 DEF PairInv, Placement!Step
  <1>3. CASE Placement!CleanAlgo
    <2>1. book' \in [Placement!Key -> {"absent", "live", "ended", "canceled"}]
      BY <1>3 DEF Placement!CleanAlgo, Placement!Cancel, PairInv
    <2>2. place = "clean algo" /\ place' = "legacy stop" /\ rows' = rows
      BY <1>3 DEF Placement!CleanAlgo
    <2>3. QED
      BY <2>1, <2>2 DEF PairInv, Placement!Step
  <1>4. CASE Placement!PlaceLegacyStop
    <2>1. /\ place = "legacy stop" /\ UNCHANGED <<hasAlgo, usedAlgo, rows>>
          /\ book' \in [Placement!Key -> {"absent", "live", "ended", "canceled"}]
          /\ \/ place' = "legacy tp" /\ Standing(LegacyStop)'
             \/ place' = "clean legacy"
      BY <1>4, TryStands DEF Placement!PlaceLegacyStop
    <2>2. QED
      BY <2>1 DEF PairInv, Placement!Step
  <1>5. CASE Placement!PlaceLegacyTp
    <2>1. place = "legacy tp" /\ rows' = {} /\ Standing(LegacyStop)
      BY <1>5 DEF Placement!PlaceLegacyTp, PairInv
    <2>2. CASE Placement!Accept(<<"legacy", "tp">>) /\ usedAlgo' = FALSE /\ place' = "record"
      <3>1. /\ book' \in [Placement!Key -> {"absent", "live", "ended", "canceled"}]
            /\ Standing(<<"legacy", "tp">>)' /\ Standing(LegacyStop)'
        BY <2>1, <2>2, AcceptStands
      <3>2. Placement!Kind' = "legacy"
        BY <2>2 DEF Placement!Kind
      <3>3. \A side \in {"stop", "tp"} : Standing(<<Placement!Kind, side>>)'
        BY <3>1, <3>2 DEF Standing
      <3>4. QED
        BY <2>1, <2>2, <3>1, <3>3 DEF PairInv, Placement!Step
    <2>3. CASE Placement!Raise(<<"legacy", "tp">>) /\ place' = "clean legacy"
      BY <2>1, <2>3, RaiseStands DEF PairInv, Placement!Step
    <2>4. QED
      BY <1>5, <2>2, <2>3 DEF Placement!PlaceLegacyTp
  <1>6. CASE Placement!CleanLegacy
    <2>1. book' \in [Placement!Key -> {"absent", "live", "ended", "canceled"}]
      BY <1>6 DEF Placement!CleanLegacy, Placement!Cancel, PairInv
    <2>2. place = "clean legacy" /\ place' = "bare" /\ rows' = rows
      BY <1>6 DEF Placement!CleanLegacy
    <2>3. QED
      BY <2>1, <2>2 DEF PairInv, Placement!Step
  <1>7. CASE Placement!PlaceOnlyStop
    <2>1. /\ place = "only stop" /\ UNCHANGED <<hasAlgo, usedAlgo, rows>>
          /\ book' \in [Placement!Key -> {"absent", "live", "ended", "canceled"}]
          /\ \/ place' = "only tp" /\ Standing(LegacyStop)'
             \/ place' = "bare"
      BY <1>7, TryStands DEF Placement!PlaceOnlyStop
    <2>2. QED
      BY <2>1 DEF PairInv, Placement!Step
  <1>8. CASE Placement!PlaceOnlyTp
    <2>1. /\ place = "only tp" /\ UNCHANGED <<hasAlgo, usedAlgo, rows>>
          /\ book' \in [Placement!Key -> {"absent", "live", "ended", "canceled"}]
          /\ \A o \in Placement!Key : Standing(o) => Standing(o)'
          /\ \/ place' = "record" /\ Standing(<<"legacy", "tp">>)'
             \/ place' = "bare"
      BY <1>8, TryStands DEF Placement!PlaceOnlyTp
    <2>2. Standing(LegacyStop)' /\ Placement!Kind' = "legacy" /\ rows' = {}
      BY <2>1 DEF PairInv, Placement!Kind
    <2>3. place' = "record" => \A side \in {"stop", "tp"} : Standing(<<Placement!Kind, side>>)'
      BY <2>1, <2>2 DEF Standing
    <2>4. QED
      BY <2>1, <2>2, <2>3 DEF PairInv, Placement!Step
  <1>9. CASE Placement!Record
    <2>1. PICK kind : kind = Placement!Kind /\ kind \in {"algo", "legacy"}
      BY DEF Placement!Kind
    <2>2. /\ place = "record" /\ place' = "protected" /\ UNCHANGED book
          /\ rows' = {<<kind, "stop">>, <<kind, "tp">>}
      BY <1>9, <2>1 DEF Placement!Record
    <2>3. \A side \in {"stop", "tp"} : Standing(<<kind, side>>)'
      BY <2>1, <2>2 DEF PairInv, Standing
    <2>4. QED
      BY <2>1, <2>2, <2>3 DEF PairInv, Placement!Step
  <1>10. CASE \E k \in Placement!Key : Placement!Settle(k)
    <2>1. /\ book' \in [Placement!Key -> {"absent", "live", "ended", "canceled"}]
          /\ \A o \in Placement!Key : Standing(o) => Standing(o)'
          /\ UNCHANGED <<place, usedAlgo, rows>>
      BY <1>10 DEF Placement!Settle, PairInv, Standing
    <2>2. Placement!Kind' = Placement!Kind /\ Placement!Kind \in {"algo", "legacy"}
      BY <2>1 DEF Placement!Kind
    <2>3. place = "record" => \A side \in {"stop", "tp"} : Standing(<<Placement!Kind, side>>)'
      <3>1. PICK kind \in {"algo", "legacy"} : kind = Placement!Kind /\ kind = Placement!Kind'
        BY <2>2
      <3>2. place = "record" => \A side \in {"stop", "tp"} : Standing(<<kind, side>>)'
        BY <2>1, <3>1 DEF PairInv
      <3>3. QED
        BY <3>1, <3>2 DEF Standing
    <2>4. place = "protected" => \E kind \in {"algo", "legacy"} :
            rows' = {<<kind, "stop">>, <<kind, "tp">>} /\ \A o \in rows' : Standing(o)'
      BY <2>1 DEF PairInv
    <2>5. QED
      BY <2>1, <2>3, <2>4 DEF PairInv
  <1>11. QED
    BY <1>1, <1>2, <1>3, <1>4, <1>5, <1>6, <1>7, <1>8, <1>9, <1>10 DEF Placement!Next

\* Until its end the core sees nothing of the procedure, and afterwards the
\* exchange only goes on with orders that stand.
LEMMA CoreWaits ==
  ASSUME ~Placement!Finished, ~Placement!Finished'
  PROVE  UNCHANGED <<CorePc, CoreBook>>
  BY DEF CorePc, CoreBook

LEMMA CoreRests ==
  ASSUME UNCHANGED <<place, rows>>, rows \subseteq Placement!Key,
         \A o \in Placement!Key : Standing(o)' <=> Standing(o)
  PROVE  UNCHANGED <<CorePc, CoreBook>>
  <1>1. Placement!Finished' = Placement!Finished
    BY DEF Placement!Finished
  <1>2. \A o \in rows : Standing(o)' <=> Standing(o)
    OBVIOUS
  <1>3. QED
    BY <1>1, <1>2 DEF CorePc, CoreBook

LEMMA CoreProtects ==
  ASSUME PairInv', ~Placement!Finished, Placement!Finished'
  PROVE  Core!Protect(One)
  <1> DEFINE recorded == place' = "protected"
             orphaned == \E o \in Placement!Key \ rows' : Standing(o)'
  <1>1. CorePc = [e \in {One} |-> "priced"] /\ CorePc' = [e \in {One} |-> place']
    BY DEF CorePc
  <1>2. place' = IF recorded THEN "protected" ELSE "bare"
    BY DEF Placement!Finished
  <1>3. CorePc' = [CorePc EXCEPT ![One] = IF recorded THEN "protected" ELSE "bare"]
    BY <1>1, <1>2
  <1>4. \A side \in {"stop", "tp"} : (\E o \in rows' : o[2] = side /\ Standing(o)') <=> recorded
    BY DEF PairInv
  <1>5. \A o \in rows' : o[2] \in {"stop", "tp"}
    <2>1. CASE place' = "protected"
      <3>1. PICK kind : rows' = {<<kind, "stop">>, <<kind, "tp">>}
        BY <2>1 DEF PairInv
      <3>2. QED
        BY <3>1
    <2>2. CASE place' # "protected"
      BY <2>2 DEF PairInv
    <2>3. QED
      BY <2>1, <2>2
  <1>6. Core!OrderKey = {One} \X Sides
    BY DEF Core!OrderKey, Sides
  <1>7. CoreBook = [k \in {One} \X Sides |-> IF k[2] = "entry" THEN "new" ELSE "absent"]
    BY DEF CoreBook
  <1>8. CoreBook' = [k \in {One} \X Sides |->
          IF \/ k[2] = "entry"
             \/ k[2] = "orphan" /\ orphaned
             \/ \E o \in rows' : o[2] = k[2] /\ Standing(o)'
          THEN "new" ELSE "absent"]
    BY DEF CoreBook
  <1>9. ASSUME NEW k \in {One} \X Sides
        PROVE  CoreBook'[k] = IF \/ recorded /\ k \in Core!ProtectionPair(One)
                                 \/ orphaned /\ k = <<One, "orphan">>
                              THEN "new" ELSE CoreBook[k]
    <2>1. PICK side \in Sides : k = <<One, side>>
      OBVIOUS
    <2>2. (k \in Core!ProtectionPair(One) <=> side \in {"stop", "tp"})
          /\ (k = <<One, "orphan">> <=> side = "orphan")
      BY <2>1 DEF Core!ProtectionPair
    <2>3. /\ CoreBook[k] = IF side = "entry" THEN "new" ELSE "absent"
          /\ CoreBook'[k] = IF \/ side = "entry"
                               \/ side = "orphan" /\ orphaned
                               \/ \E o \in rows' : o[2] = side /\ Standing(o)'
                            THEN "new" ELSE "absent"
      BY <1>7, <1>8, <2>1
    <2>4. QED
      BY <1>4, <1>5, <2>2, <2>3 DEF Sides
  <1>10. CoreBook' = [k \in Core!OrderKey |->
           IF \/ recorded /\ k \in Core!ProtectionPair(One)
              \/ orphaned /\ k = <<One, "orphan">>
           THEN "new" ELSE CoreBook[k]]
    BY <1>6, <1>8, <1>9
  <1>11. recorded \in BOOLEAN /\ orphaned \in BOOLEAN
    OBVIOUS
  <1>12. QED
    BY <1>1, <1>3, <1>10, <1>11 DEF Core!Protect

LEMMA CoreStep ==
  ASSUME PairInv, PairInv', Placement!Next \/ UNCHANGED placementVars
  PROVE  Core!Protect(One) \/ UNCHANGED <<CorePc, CoreBook>>
  <1>1. CASE ~Placement!Finished
    BY <1>1, CoreWaits, CoreProtects
  <1>2. CASE Placement!Finished /\ UNCHANGED placementVars
    <2>1. UNCHANGED <<place, rows, book>>
      BY <1>2 DEF placementVars
    <2>2. QED
      BY <2>1 DEF CorePc, CoreBook, Standing, Placement!Finished
  <1>3. CASE Placement!Finished /\ Placement!Next
    <2>1. PICK k \in Placement!Key : Placement!Settle(k)
      BY <1>3 DEF Placement!Finished, Placement!Next, Placement!PlaceAlgoStop,
         Placement!PlaceAlgoTp, Placement!CleanAlgo, Placement!PlaceLegacyStop,
         Placement!PlaceLegacyTp, Placement!CleanLegacy, Placement!PlaceOnlyStop,
         Placement!PlaceOnlyTp, Placement!Record, Placement!Try
    <2>2. UNCHANGED <<place, rows>> /\ \A o \in Placement!Key : Standing(o)' <=> Standing(o)
      BY <2>1 DEF Placement!Settle, PairInv, Standing
    <2>3. rows \subseteq Placement!Key
      <3>1. CASE place = "protected"
        <4>1. PICK kind \in {"algo", "legacy"} : rows = {<<kind, "stop">>, <<kind, "tp">>}
          BY <3>1 DEF PairInv
        <4>2. QED
          BY <4>1, PlacementKeys
      <3>2. CASE place # "protected"
        BY <3>2 DEF PairInv
      <3>3. QED
        BY <3>1, <3>2
    <2>4. QED
      BY <2>2, <2>3, CoreRests
  <1>4. QED
    BY <1>1, <1>2, <1>3

\* The placement call by call, with its fallback, its cleanups and an exchange
\* that settles orders in the meantime, does what the core takes it to do in
\* one step: it records a stop and a take profit that both stand, or neither.
THEOREM PlacementIsProtect == ServicesSpec => ProtectsAtOnce
  <1>1. ASSUME ServicesInit PROVE PairInv /\ CorePc[One] = "priced"
    BY <1>1, PartsStart, PairStart DEF CorePc
  <1>2. ASSUME PairInv, [ServicesNext]_allVars PROVE PairInv'
    <2>1. CASE Placement!Next
      BY <1>2, <2>1, PairStep
    <2>2. CASE UNCHANGED placementVars
      BY <1>2, <2>2 DEF placementVars, PairInv, Standing, Placement!Kind
    <2>3. QED
      BY <1>2, <2>1, <2>2, PartsStep
  <1>3. PairInv /\ PairInv' /\ [ServicesNext]_allVars => [Core!Protect(One)]_<<CorePc, CoreBook>>
    BY PartsStep, CoreStep
  <1>4. QED
    BY <1>1, <1>2, <1>3, PTL DEF ServicesSpec, ProtectsAtOnce

-----------------------------------------------------------------------------
(* The confirmation is the steps ConfirmEntry and PriceEntry of the same   *)
(* module, while the order goes on as the exchange of the core lets it.    *)

\* The core keeps one status for every end without a complete execution.
CoreStatus(s) == IF s \in Negative \cup {"odd"} THEN "expired" ELSE s

\* Before the order is confirmed, while its trades are read, and after.
EntryAt == [e \in {One} |-> CASE step \in {"send", "confirm"} -> "placed"
                              [] step = "trades" -> "confirmed"
                              [] OTHER -> "priced"]

EntryBook == [k \in {One} \X Sides |-> IF k[2] = "entry" THEN CoreStatus(real.status) ELSE "absent"]
EntryFill == [e \in {One} |-> real.qty]
EntryHeld == [s \in {"symbol"} |-> real.qty]

\* What the handler has learnt by then.
EntryView ==
  [e \in {One} |->
     IF step \in {"send", "confirm"} THEN [status |-> "absent", qty |-> 0]
     ELSE [status |-> CoreStatus(merged.status),
           qty |-> IF step \in {"store", "done"} /\ traded > 0 THEN traded ELSE merged.qty]]

\* An execution of one plan, beside an exchange that may act at any time.
Trading == INSTANCE TestnetTrading WITH
  Plan <- {"plan"}, Symbol <- {"symbol"}, SymbolOf <- [p \in {"plan"} |-> "symbol"],
  Dir <- [p \in {"plan"} |-> 1], Qty <- [p \in {"plan"} |-> Requested],
  Exec <- {One}, Paper <- {}, Sync <- {}, OneAtATime <- FALSE, None <- "none",
  planStatus <- [p \in {"plan"} |-> "approved"],
  position <- [r \in {One} |-> [status |-> "none", qty |-> 0, id |-> 0]],
  lastId <- 0, orders <- [k \in {One} \X Sides |-> "absent"],
  book <- EntryBook, fill <- EntryFill, held <- EntryHeld,
  pc <- EntryAt, planOf <- [r \in {One} |-> "plan"], view <- EntryView,
  target <- <<>>, loaded <- <<>>, seen <- <<>>, tried <- <<>>

EntryVars == <<EntryAt, EntryBook, EntryFill, EntryHeld, EntryView>>

\* A step of the core that this one may be.
EntrySteps ==
  \/ Trading!ConfirmEntry(One) \/ Trading!PriceEntry(One)
  \/ Trading!FillEntry(One) \/ Trading!Expire(<<One, "entry">>)

\* What is stored is what CommitEntry computes of what was learnt.
StoresAsCommitted ==
  step = "done" =>
    LET learnt == EntryView[One]
        status == Trading!NormalizedStatus(learnt.status, learnt.qty, Requested)
    IN /\ CoreStatus(stored.status) = status
       /\ stored.qty = Trading!AssumedQty(status, learnt.qty, Requested)

\* Answer, merge and list of trades, taken from a history that lags in any way,
\* do what the core takes them to do in two steps: the execution ends up with
\* claims that hold of its order, and the commit goes by them.
LearnsByClaims ==
  /\ EntryAt[One] = "placed" /\ EntryBook[<<One, "entry">>] = "new"
  /\ [][EntrySteps]_EntryVars
  /\ []StoresAsCommitted

LEMMA EntryNames ==
  /\ One = "execution" /\ <<One, "entry">> \in {One} \X Sides
  /\ Trading!OrderKey = {One} \X Sides
  /\ Trading!KeyPlan(<<One, "entry">>) = "plan"
  BY DEF One, Sides, Trading!OrderKey, Trading!KeyPlan

\* The claims of EntryExecution are those of the confirmation.
LEMMA ClaimIsClaims ==
  ASSUME CInv, NEW r, Claim(r)
  PROVE  [status |-> CoreStatus(r.status), qty |-> r.qty] \in Trading!Claims(One)
  <1>1. r \in Order /\ real \in Order
    BY RealOrder DEF CInv, Claim
  <1>2. /\ EntryBook[<<One, "entry">>] = CoreStatus(real.status)
        /\ EntryFill[One] = real.qty
    BY EntryNames DEF EntryBook, EntryFill
  <1>3. r.qty \in 0 .. real.qty
    BY <1>1 DEF Claim, Order
  <1>4. CoreStatus(r.status) \in {"new", "partially_filled", CoreStatus(real.status)}
    BY <1>1 DEF CoreStatus, Claim, Order, Status, Ended, Terminal, Negative
  <1>5. CoreStatus(r.status) \in {"partially_filled", "filled"} => r.qty > 0
    BY DEF CoreStatus, Claim
  <1>6. r.qty = Requested => CoreStatus(r.status) = "filled"
    BY DEF CoreStatus, Claim, Negative
  <1>7. QED
    BY <1>2, <1>3, <1>4, <1>5, <1>6 DEF Trading!Claims

LEMMA ConfirmIsCore ==
  ASSUME CInv, CInv', Unconfirmed \/ Refreshed
  PROVE  Trading!ConfirmEntry(One)
  <1>1. /\ step = "confirm" /\ step' = "trades" /\ UNCHANGED hist
    BY DEF Unconfirmed, Refreshed
  <1>2. real' = real /\ Claim(merged)'
    BY <1>1, SameHist DEF CInv, RecordInv
  <1>3. PICK r : r = merged' /\ Claim(r)
    <2>1. PICK r : r = merged'
      OBVIOUS
    <2>2. QED
      BY <1>2, <2>1 DEF Claim
  <1>4. PICK answer \in Trading!Claims(One) : answer = [status |-> CoreStatus(r.status), qty |-> r.qty]
    BY <1>3, ClaimIsClaims
  <1>5. EntryView' = [EntryView EXCEPT ![One] = answer]
    BY <1>1, <1>3, <1>4 DEF EntryView
  <1>6. EntryAt[One] = "placed" /\ EntryAt' = [EntryAt EXCEPT ![One] = "confirmed"]
    BY <1>1 DEF EntryAt
  <1>7. UNCHANGED <<EntryBook, EntryFill, EntryHeld>>
    BY <1>2 DEF EntryBook, EntryFill, EntryHeld
  <1>8. QED
    BY <1>4, <1>5, <1>6, <1>7 DEF Trading!ConfirmEntry, Trading!database, Trading!exchange,
       Trading!reads

LEMMA TradesAreCore ==
  ASSUME CInv, CInv', TradesRead
  PROVE  Trading!PriceEntry(One)
  <1>1. /\ step = "trades" /\ step' = "store" /\ UNCHANGED <<hist, merged>>
    BY DEF TradesRead
  <1>2. real' = real
    BY <1>1, SameHist DEF CInv
  <1>3. traded' \in Nat /\ traded' <= real.qty /\ real.qty \in Nat
    BY <1>2, RealOrder DEF CInv, RecordInv, Order
  <1>4. \/ \E q \in 1 .. EntryFill[One] : EntryView' = [EntryView EXCEPT ![One].qty = q]
        \/ UNCHANGED EntryView
    <2>1. CASE traded' = 0
      BY <1>1, <2>1 DEF EntryView
    <2>2. CASE traded' > 0
      <3>1. traded' \in 1 .. EntryFill[One]
        BY <1>3, <2>2 DEF EntryFill
      <3>2. EntryView' = [EntryView EXCEPT ![One].qty = traded']
        BY <1>1, <2>2 DEF EntryView
      <3>3. QED
        BY <3>1, <3>2
    <2>3. QED
      BY <1>3, <2>1, <2>2
  <1>5. EntryAt[One] = "confirmed" /\ EntryAt' = [EntryAt EXCEPT ![One] = "priced"]
    BY <1>1 DEF EntryAt
  <1>6. UNCHANGED <<EntryBook, EntryFill, EntryHeld>>
    BY <1>2 DEF EntryBook, EntryFill, EntryHeld
  <1>7. QED
    BY <1>4, <1>5, <1>6 DEF Trading!PriceEntry, Trading!database, Trading!exchange, Trading!reads

\* The answer is no step of the core, which waits for it with the order placed,
\* and the commit has a step of its own there.
LEMMA AnswerAndStoreRest ==
  ASSUME CInv, Answered \/ Store
  PROVE  UNCHANGED EntryVars
  <1>1. UNCHANGED <<hist, merged, traded>>
    BY DEF Answered, Store
  <1>2. real' = real
    BY <1>1, SameHist DEF CInv
  <1>3. \/ step = "send" /\ step' = "confirm"
        \/ step = "store" /\ step' = "done"
    BY DEF Answered, Store
  <1>4. UNCHANGED <<EntryBook, EntryFill, EntryHeld>>
    BY <1>2 DEF EntryBook, EntryFill, EntryHeld
  <1>5. UNCHANGED <<EntryAt, EntryView>>
    BY <1>1, <1>3 DEF EntryAt, EntryView
  <1>6. QED
    BY <1>4, <1>5 DEF EntryVars

LEMMA ProgressIsCore ==
  ASSUME CInv, CInv', Progress
  PROVE  Trading!FillEntry(One) \/ Trading!Expire(<<One, "entry">>)
  <1>1. PICK o \in Order :
          /\ Consistent(o)
          /\ IF o.status \in {"partially_filled", "filled"}
             THEN o.qty > real.qty
             ELSE o.qty = real.qty /\ o.status # "new"
          /\ hist' = Append(hist, o)
    BY DEF Progress
  <1>2. real' = o
    BY <1>1 DEF CInv, HistInv, real
  <1>3. real \in Order /\ real.status \in {"new", "partially_filled"}
    BY RealOrder DEF CInv, Progress, Order, Status, Ended, Terminal, Negative
  <1>4. EntryBook[<<One, "entry">>] \in Trading!Live
    BY <1>3, EntryNames DEF EntryBook, Trading!Live, CoreStatus, Negative
  <1>5. UNCHANGED <<EntryAt, EntryView>>
    BY DEF Progress, EntryAt, EntryView
  <1>6. EntryBook' = [EntryBook EXCEPT ![<<One, "entry">>] = CoreStatus(o.status)]
    <2>1. PICK was, next : was = CoreStatus(real.status) /\ next = CoreStatus(o.status)
      OBVIOUS
    <2>2. CoreStatus(real.status)' = next
      BY <1>2, <2>1 DEF CoreStatus
    <2>3. /\ EntryBook = [k \in {One} \X Sides |-> IF k[2] = "entry" THEN was ELSE "absent"]
          /\ EntryBook' = [k \in {One} \X Sides |-> IF k[2] = "entry" THEN next ELSE "absent"]
      BY <2>1, <2>2 DEF EntryBook
    <2>4. \A k \in {One} \X Sides : k[2] = "entry" <=> k = <<One, "entry">>
      OBVIOUS
    <2>5. EntryBook' = [EntryBook EXCEPT ![<<One, "entry">>] = next]
      BY <2>3, <2>4
    <2>6. QED
      BY <2>1, <2>5
  <1>7. CASE o.status \in {"partially_filled", "filled"}
    <2>1. PICK x : x = o.qty - real.qty
      OBVIOUS
    <2>2. x \in 1 .. Requested - EntryFill[One] /\ o.qty = real.qty + x
      <3>1. real.qty \in 0 .. Requested /\ o.qty \in 0 .. Requested /\ o.qty > real.qty
        BY <1>1, <1>3, <1>7 DEF Order
      <3>2. EntryFill[One] = real.qty
        BY DEF EntryFill
      <3>3. o.qty - real.qty \in 1 .. Requested - real.qty /\ o.qty = real.qty + (o.qty - real.qty)
        BY <3>1
      <3>4. QED
        BY <2>1, <3>2, <3>3
    <2>3. EntryFill' = [EntryFill EXCEPT ![One] = @ + x]
      BY <1>2, <2>2 DEF EntryFill
    <2>4. EntryHeld' = [EntryHeld EXCEPT !["symbol"] = @ + 1 * x]
      BY <1>2, <1>3, <2>2 DEF EntryHeld, Order
    <2>5. CoreStatus(o.status) = IF EntryFill[One] + x = Requested THEN "filled" ELSE "partially_filled"
      BY <1>1, <1>7, <2>2 DEF CoreStatus, EntryFill, Consistent, Negative
    <2>6. Trading!FillEntry(One)
      BY <1>4, <1>5, <1>6, <2>2, <2>3, <2>4, <2>5, EntryNames
         DEF Trading!FillEntry, Trading!database, Trading!reads
    <2>7. QED
      BY <2>6
  <1>8. CASE o.status \notin {"partially_filled", "filled"}
    <2>1. o.qty = real.qty /\ o.status \in Negative \cup {"odd"}
      BY <1>1, <1>8 DEF Order, Status, Terminal
    <2>2. EntryBook' = [EntryBook EXCEPT ![<<One, "entry">>] = "expired"]
      BY <1>6, <2>1 DEF CoreStatus
    <2>3. UNCHANGED <<EntryFill, EntryHeld>>
      BY <1>2, <2>1 DEF EntryFill, EntryHeld
    <2>4. Trading!Expire(<<One, "entry">>)
      BY <1>4, <1>5, <2>2, <2>3 DEF Trading!Expire, Trading!database, Trading!reads
    <2>5. QED
      BY <2>4
  <1>9. QED
    BY <1>7, <1>8

LEMMA EntryIsCore ==
  ASSUME CInv, CInv', [Next]_vars
  PROVE  EntrySteps \/ UNCHANGED EntryVars
  <1>1. CASE UNCHANGED vars
    BY <1>1 DEF vars, real, EntryVars, EntryAt, EntryBook, EntryFill, EntryHeld, EntryView
  <1>2. CASE Next
    BY <1>2, ConfirmIsCore, TradesAreCore, AnswerAndStoreRest, ProgressIsCore DEF Next, EntrySteps
  <1>3. QED
    BY <1>1, <1>2

\* The commit of the confirmation is that of the core.
LEMMA StoreCommits ==
  ASSUME CInv, Store
  PROVE  StoresAsCommitted'
  <1> DEFINE executed == IF traded > 0 THEN traded ELSE merged.qty
             status   == NormalizedStatus(merged.status, executed)
  <1>1. /\ stored' = [status |-> status, qty |-> AssumedQty(status, executed)]
        /\ step' = "done" /\ UNCHANGED <<merged, traded>>
    BY DEF Store
  <1>2. EntryView'[One] = [status |-> CoreStatus(merged.status), qty |-> executed]
    BY <1>1 DEF EntryView
  <1>3. executed \in Nat /\ merged.status \in Status
    BY DEF CInv, RecordInv, Claim, Order
  <1>4. CoreStatus(status) = Trading!NormalizedStatus(CoreStatus(merged.status), executed, Requested)
    BY <1>3 DEF NormalizedStatus, Trading!NormalizedStatus, CoreStatus, Negative
  <1>5. AssumedQty(status, executed) = Trading!AssumedQty(CoreStatus(status), executed, Requested)
    BY <1>3 DEF AssumedQty, Trading!AssumedQty, CoreStatus, Negative
  <1> HIDE DEF executed, status
  <1>6. QED
    BY <1>1, <1>2, <1>4, <1>5 DEF StoresAsCommitted

LEMMA StoredStays ==
  ASSUME CInv, StoresAsCommitted, [Next]_vars
  PROVE  StoresAsCommitted'
  <1>1. CASE Store
    BY <1>1, StoreCommits
  <1>2. CASE ~Store /\ Next
    <2>1. step' # "done" \/ UNCHANGED <<step, merged, traded, stored>>
      BY <1>2 DEF Next, Answered, Unconfirmed, Refreshed, TradesRead, Progress
    <2>2. QED
      BY <2>1 DEF StoresAsCommitted, EntryView
  <1>3. CASE UNCHANGED vars
    BY <1>3 DEF vars, StoresAsCommitted, EntryView
  <1>4. QED
    BY <1>1, <1>2, <1>3

\* The confirmation, with its merge of an answer and a reading that may both
\* lag, its trades and an order that goes on in the meantime, implements the
\* steps the core takes it for, and stores what the core's commit stores.
THEOREM ConfirmationIsClaims == ServicesSpec => LearnsByClaims
  <1>1. ASSUME ServicesInit
        PROVE  /\ CInv /\ StoresAsCommitted
               /\ EntryAt[One] = "placed" /\ EntryBook[<<One, "entry">>] = "new"
    <2>1. Init
      BY <1>1 DEF ServicesInit, EntryRests
    <2>2. QED
      BY <2>1, InitC, EntryNames DEF Init, EntryAt, EntryBook, StoresAsCommitted, real, NewOrder,
         CoreStatus, Negative
  <1>2. ASSUME CInv, StoresAsCommitted, [ServicesNext]_allVars
        PROVE  /\ CInv' /\ StoresAsCommitted' /\ [EntrySteps]_EntryVars
    <2>1. [Next]_vars
      BY <1>2 DEF ServicesNext, allVars
    <2>2. CInv'
      BY <1>2, <2>1, AnsweredC, UnconfirmedC, RefreshedC, TradesReadC, StoreC, ProgressC, StutterC
         DEF Next
    <2>3. QED
      BY <1>2, <2>1, <2>2, EntryIsCore, StoredStays
  <1>3. QED
    BY <1>1, <1>2, PTL DEF ServicesSpec, LearnsByClaims
=============================================================================
