-------------------------- MODULE ProtectionLevels --------------------------
(***************************************************************************)
(* The numbers of a testnet execution: the quantity a plan's risk budget   *)
(* pays for, the levels of its exits, taken from what the entry was filled *)
(* at and where the market stands then instead of from the plan, both      *)
(* rounded to the sizes the exchange allows, and the exits that            *)
(* synchronisations trigger themselves when no native ones were placed.    *)
(*                                                                         *)
(* Prices, sizes and quantities are in the smallest of the units 10^-k a   *)
(* size is rounded to, Whole of which are 1.                               *)
(***************************************************************************)
EXTENDS Integers

CONSTANTS
    Decimals,            \* of the smallest unit
    Plan,                \* plans that are executed, each with its risk budget
    Price,               \* prices of the market
    StepSize, TickSize   \* steps of quantities, ticks of prices

Whole  == 10 ^ Decimals
Powers == {10 ^ k : k \in 0 .. Decimals}

\* A plan is [side, entry, stop, target, budget].  Prices and entries are
\* multiples of 1000, so that the tenth of a percent the exits keep at least
\* is a whole number of units.

VARIABLES
    plan, stage,
    quantity, step,   \* of the entry
    price, mark,      \* exchange_price, and the mark price read after it
    stop, target,     \* the exits as they are asked for
    tick,
    seen, due         \* the mark price of the latest synchronisation, and its exit

levelVars == <<plan, stage, quantity, step, price, mark, stop, target, tick, seen, due>>

Distance(n, m) == IF n >= m THEN n - m ELSE m - n
Least(n, m) == IF n <= m THEN n ELSE m
Most(n, m)  == IF n >= m THEN n ELSE m

-----------------------------------------------------------------------------
\* The unit the decimals of a size stand for: the power of ten nearest to the
\* size by its logarithm, and 1 at most.
Unit(size) ==
    IF size >= Whole THEN Whole
    ELSE CHOOSE p \in Powers : p * p <= 10 * size * size /\ size * size < 10 * p * p

\* round(n, decimals), ties either way.
ToDecimals(n, size) ==
    LET below == (n \div Unit(size)) * Unit(size)
    IN {m \in {below, below + Unit(size)} : 2 * Distance(m, n) <= Unit(size)}

Floor(n, size)   == (n \div size) * size
Ceiling(n, size) == -((-n) \div size) * size

\* _round_price_to_tick; a tick of 0 is one that could not be read.
Down(n) == IF tick' = 0 THEN {n} ELSE ToDecimals(Floor(n, tick'), tick')
Up(n)   == IF tick' = 0 THEN {n} ELSE ToDecimals(Ceiling(n, tick'), tick')

StopDistance   == Distance(plan.entry, plan.stop)
TargetDistance == Distance(plan.target, plan.entry)

\* What the budget pays for, by _round_to_step.
Quantities(size) ==
    IF StopDistance = 0 THEN {0}
    ELSE ToDecimals(Floor(plan.budget \div StopDistance, size), size)

\* Mutant: the exits leave from the fill, wherever the market stands.
BelowFill(distance) == price - Most(distance, mark \div 1000)

\* _derive_protection_prices.
Below(distance) == Least(price, mark) - Most(distance, mark \div 1000)
Above(distance) == Most(price, mark) + Most(distance, mark \div 1000)

\* Mutant: the plan's own levels.
PlannedLevels == [stop |-> plan.stop, target |-> plan.target]

\* _resolve_local_exit_levels: the failure that left a position without native
\* exits was logged with their levels.
LocalExitLevels == [stop |-> stop, target |-> target]

\* _detect_local_exit_trigger.
Trigger(p) ==
    LET Reached(n, m) == IF plan.side = "long" THEN n <= m ELSE n >= m
    IN IF Reached(p, LocalExitLevels.stop) THEN "stop_market"
       ELSE IF Reached(LocalExitLevels.target, p) THEN "take_profit_market" ELSE "none"

-----------------------------------------------------------------------------
Init ==
    /\ plan \in Plan
    /\ stage = "approved" /\ due = "none"
    /\ quantity = 0 /\ step = 0 /\ tick = 0
    /\ price = 0 /\ mark = 0 /\ stop = 0 /\ target = 0 /\ seen = 0

\* An execution that could not read the step size tries again from here.
SizeEntry ==
    /\ stage = "approved"
    /\ step' \in StepSize
    /\ \E q \in Quantities(step') :
         /\ quantity' = q
         /\ stage' = IF q > 0 THEN "sized" ELSE "invalid_quantity"
    /\ UNCHANGED <<plan, price, mark, stop, target, tick, seen, due>>

\* The entry, at the price of the fills or, when nothing tells it, the plan's.
Enter ==
    /\ stage = "sized"
    /\ price' \in Price \cup {plan.entry}
    /\ stage' = "entered"
    /\ UNCHANGED <<plan, quantity, step, mark, stop, target, tick, seen, due>>

\* The position risk is read, or it cannot be and the fill stands for it.
ReadMark ==
    /\ stage = "entered"
    /\ mark' \in Price \cup {price}
    /\ seen' = mark'
    /\ stage' = "marked"
    /\ UNCHANGED <<plan, quantity, step, price, stop, target, tick, due>>

\* _place_protection_orders: two native exits, or a failure that names them.
Protect ==
    /\ stage = "marked"
    /\ tick' \in TickSize \cup {0}
    /\ IF plan.side = "long"
       THEN stop' \in Down(Below(StopDistance)) /\ target' \in Up(Above(TargetDistance))
       ELSE stop' \in Up(Above(StopDistance)) /\ target' \in Down(Below(TargetDistance))
    /\ stage' \in {"native", "failed"}
    /\ UNCHANGED <<plan, quantity, step, price, mark, seen, due>>

\* A synchronisation of a position without native exits: an exit that is due
\* is closed at the exchange, or tried again by the next one.
Synchronise ==
    /\ stage = "failed"
    /\ seen' \in Price \cup {seen}
    /\ due' = Trigger(seen')
    /\ UNCHANGED <<plan, stage, quantity, step, price, mark, stop, target, tick>>

Next == SizeEntry \/ Enter \/ ReadMark \/ Protect \/ Synchronise

-----------------------------------------------------------------------------
\* Types of the execution's numbers.
TypeOK ==
    /\ plan \in Plan
    /\ stage \in {"approved", "invalid_quantity", "sized", "entered", "marked",
                  "native", "failed"}
    /\ quantity \in Nat /\ step \in StepSize \cup {0} /\ tick \in TickSize \cup {0}
    /\ {price, mark, seen} \subseteq Price \cup {plan.entry, 0}
    /\ {stop, target} \subseteq Int
    /\ due \in {"none", "stop_market", "take_profit_market"}

Protected == stage \in {"native", "failed"}

\* How far the decimals of a size may take a number beyond the size's grid.
OffGrid(size) ==
    IF size = 0 \/ size % Unit(size) = 0 THEN 0 ELSE Unit(size) \div 2

\* No exit is due where the market was when its position was opened: the fill
\* and the mark are between the two levels, and a synchronisation triggers an
\* exit only after the market has left that range; as long as the decimals of
\* the tick take less than the exits' distance.
NoExitIsDue ==
    LET long   == plan.side = "long"
        least  == Most(Least(StopDistance, TargetDistance), mark \div 1000)
        Low(p) == IF long THEN stop < p ELSE target < p
        High(p) == IF long THEN p < target ELSE p < stop
    IN /\ Protected /\ OffGrid(tick) < least =>
            \A p \in {price, mark} : Low(p) /\ High(p)
       /\ due # "none" /\ OffGrid(tick) < least =>
            seen \notin Least(price, mark) .. Most(price, mark)

\* An exit at its stop costs the plan's budget, and no more than the gap
\* between fill and mark, a tick and what the decimals of step and tick add.
LossIsBudgeted ==
    Protected /\ StopDistance >= mark \div 1000 =>
        quantity * Distance(price, stop) <=
            plan.budget + OffGrid(step) * StopDistance
              + quantity * (Distance(price, mark) + tick + OffGrid(tick))

\* What holds of an execution's exits, whatever the market did to its entry.
ExitsFollowMarket == NoExitIsDue /\ LossIsBudgeted
=============================================================================
