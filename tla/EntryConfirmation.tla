------------------------- MODULE EntryConfirmation -------------------------
(***************************************************************************)
(* How an execution learns what became of its entry order: the answer to   *)
(* the order, _confirm_exchange_order with its merge of the answer and of  *)
(* a later reading, the userTrades lookup, and what is stored of it all.   *)
(* The order goes on at the exchange between any two of these.             *)
(*                                                                         *)
(* These are the steps PlaceEntry, ConfirmEntry, PriceEntry and            *)
(* CommitEntry of EntryExecution with the data the decisions look at.      *)
(* The exchange may serve readings that lag behind, back to before what an *)
(* earlier answer reported.                                                *)
(***************************************************************************)
EXTENDS Integers, Sequences

CONSTANT Requested  \* quantity of the order, in step sizes

ASSUME ConfirmationAssumption == Requested \in Nat \ {0}

VARIABLES
    step,     \* next step of the handler
    hist,     \* the order at the exchange: what it was, and what it is
    lagging,  \* readings may lag behind the exchange
    ack,      \* the answer to place_market_order
    merged,   \* the record after _confirm_exchange_order
    ackAt,    \* where in hist the answer was taken
    readAt,   \* where in hist the order was read again, 0 if it was not
    traded,   \* the quantity found in userTrades, 0 if none
    stored    \* what the commit stores: order status and position quantity

vars == <<step, hist, lagging, ack, merged, ackAt, readAt, traded, stored>>

real == hist[Len(hist)]

\* "odd" stands for a status the code does not know, EXPIRED_IN_MATCH for one.
Negative == {"canceled", "expired", "rejected"}
Terminal == Negative \cup {"filled"}
Status   == {"new", "partially_filled", "odd"} \cup Terminal
Ended    == Terminal \cup {"odd"}

\* avg is positive exactly when the payload carries an average price.
Order == [status : Status, qty : 0 .. Requested, avg : {0, 1}]

\* Orders as the exchange keeps them.
Consistent(o) ==
    /\ o.status = "new" => o.qty = 0
    /\ o.status = "partially_filled" => o.qty \in 1 .. Requested - 1
    /\ o.status = "filled" <=> o.qty = Requested
    /\ o.status = "rejected" => o.qty = 0
    /\ o.avg = 1 <=> o.qty > 0

\* A payload reports an order; its average price may be missing.
Reports(o) == {o, [o EXCEPT !.avg = 0]}

NewOrder == [status |-> "new", qty |-> 0, avg |-> 0]

\* Where in hist a reading may come from.
Readable == IF lagging THEN DOMAIN hist ELSE {Len(hist)}

\* The position of a status in the progress of an order; unknown ones are last.
Rank(status) ==
    CASE status = "new"              -> 0
      [] status = "partially_filled" -> 1
      [] status \in Negative         -> 2
      [] status = "filled"           -> 3
      [] OTHER                       -> -1

\* Mutant: any status that was read replaces the one before.
PreferAnyStatus(original, refreshed) == TRUE

\* _prefer_refresh_value for the status, and for a number.
PreferStatus(original, refreshed) ==
    /\ ~ (original = "odd" /\ refreshed = "odd")
    /\ Rank(refreshed) >= Rank(original)

PreferNumber(original, refreshed) == ~ (refreshed <= 0 /\ 0 < original)

Merge(o, r) ==
    [status |-> IF PreferStatus(o.status, r.status) THEN r.status ELSE o.status,
     qty    |-> IF PreferNumber(o.qty, r.qty) THEN r.qty ELSE o.qty,
     avg    |-> IF PreferNumber(o.avg, r.avg) THEN r.avg ELSE o.avg]

NeedsRefresh(o) ==
    /\ ~ (o.status \in Negative /\ o.qty <= 0)
    /\ \/ o.avg <= 0
       \/ o.qty <= 0
       \/ o.status = "new"

Init ==
    /\ step = "send"
    /\ hist = <<NewOrder>>
    /\ lagging \in BOOLEAN
    /\ ack = NewOrder
    /\ merged = NewOrder
    /\ ackAt = 0
    /\ readAt = 0
    /\ traded = 0
    /\ stored = [status |-> "none", qty |-> 0]

\* place_market_order is answered.
Answered ==
    /\ step = "send"
    /\ \E i \in Readable :
         /\ ackAt' = i
         /\ ack' \in Reports(hist[i])
    /\ step' = "confirm"
    /\ UNCHANGED <<hist, lagging, merged, readAt, traded, stored>>

\* The answer needs no second look, or the order cannot be read.
Unconfirmed ==
    /\ step = "confirm"
    /\ merged' = ack
    /\ step' = "trades"
    /\ UNCHANGED <<hist, lagging, ack, ackAt, readAt, traded, stored>>

\* The order is read again and merged into the answer.
Refreshed ==
    /\ step = "confirm"
    /\ NeedsRefresh(ack)
    /\ \E i \in Readable :
         /\ readAt' = i
         /\ \E report \in Reports(hist[i]) : merged' = Merge(ack, report)
    /\ step' = "trades"
    /\ UNCHANGED <<hist, lagging, ack, ackAt, traded, stored>>

\* Mutant: every fill is counted twice.
TradesReadTwice ==
    /\ step = "trades"
    /\ \E i \in Readable : traded' = 2 * hist[i].qty
    /\ step' = "store"
    /\ UNCHANGED <<hist, lagging, ack, merged, ackAt, readAt, stored>>

\* get_order_trades: the quantity of the fills listed, none if it fails.
TradesRead ==
    /\ step = "trades"
    /\ \/ \E i \in Readable : traded' = hist[i].qty
       \/ traded' = 0
    /\ step' = "store"
    /\ UNCHANGED <<hist, lagging, ack, merged, ackAt, readAt, stored>>

\* Mutant: any execution counts as a complete one.
FilledByAnyExecution(status, executed) ==
    IF executed <= 0 THEN status ELSE "filled"

\* _normalize_order_status.
NormalizedStatus(status, executed) ==
    IF executed <= 0 \/ status \in {"filled", "partially_filled"} THEN status
    ELSE IF executed >= Requested THEN "filled" ELSE "partially_filled"

\* Mutant: every order without a known fill is taken to be executed.
AssumedAlways(status, executed) ==
    IF executed <= 0 THEN Requested ELSE executed

AssumedQty(status, executed) ==
    IF executed <= 0 /\ status \in {"filled", "partially_filled", "new"}
    THEN Requested ELSE executed

\* What the commit stores of the entry order and of its position.
Store ==
    /\ step = "store"
    /\ LET executed == IF traded > 0 THEN traded ELSE merged.qty
           status   == NormalizedStatus(merged.status, executed)
       IN stored' = [status |-> status, qty |-> AssumedQty(status, executed)]
    /\ step' = "done"
    /\ UNCHANGED <<hist, lagging, ack, merged, ackAt, readAt, traded>>

\* The order fills further, or ends with something unexecuted.
Progress ==
    /\ real.status \notin Ended
    /\ \E o \in Order :
         /\ Consistent(o)
         /\ IF o.status \in {"partially_filled", "filled"}
            THEN o.qty > real.qty
            ELSE o.qty = real.qty /\ o.status # "new"
         /\ hist' = Append(hist, o)
    /\ UNCHANGED <<step, lagging, ack, merged, ackAt, readAt, traded, stored>>

Next == Answered \/ Unconfirmed \/ Refreshed \/ TradesRead \/ Store \/ Progress

Spec == Init /\ [][Next]_vars

\* Types of the handler's records and of the order's history.
TypeOK ==
    /\ step \in {"send", "confirm", "trades", "store", "done"}
    /\ hist \in Seq(Order)
    /\ lagging \in BOOLEAN
    /\ ack \in Order
    /\ merged \in Order
    /\ ackAt \in 0 .. Len(hist)
    /\ readAt \in 0 .. Len(hist)
    /\ traded \in 0 .. Requested
    /\ stored \in [status : Status \cup {"none"}, qty : 0 .. Requested]

\* Two readings are merged into the later of the two, whichever came first:
\* a reading that lags never takes a status back, and one that does not lag
\* is adopted, in status and in quantity.  The exception is a latest status the
\* table of ranks does not have: it ranks below every other, so a status known
\* from the other reading is kept in its place.
MergeKeepsLatest ==
    readAt > 0 =>
        LET latest == hist[IF ackAt < readAt THEN readAt ELSE ackAt]
        IN /\ latest.status # "odd" => merged.status = latest.status
           /\ ackAt <= readAt => merged.qty = latest.qty

\* The status stored is never ahead of the exchange: an end that is stored
\* is the end the order came to, although status and quantity were read at
\* different times and the order went on in between.
StoredNeverAhead ==
    stored.status \in Terminal => stored.status = real.status

\* A position is larger than what the exchange executed only when all that
\* was known of the order is that it is new: an order known to have ended, or
\* to be executed in part, is never taken to be executed in full.
NoPhantomPosition ==
    stored.qty > real.qty => merged.status = "new" /\ merged.qty = 0
=============================================================================
