--------------------------- MODULE BacktestAccess ---------------------------
(***************************************************************************)
(* require_backtesting_access of apps/api/app/api/routes.py: one backtest  *)
(* per key and interval.  The dependency runs in a thread of a pool: it    *)
(* reads the clock, then waits for a lock that guards the table of the     *)
(* last accepted request of each key, so requests reach the table in       *)
(* another order than they read the clock.                                 *)
(***************************************************************************)
EXTENDS Integers

CONSTANTS Requests, KeyOf,   \* requests and the key each one presents
          Interval,          \* BACKTESTING_MIN_INTERVAL_SECONDS
          MaxDelay,          \* the longest a thread waits for the lock
          MaxClock           \* bounds the model only

VARIABLES clock,      \* time.monotonic()
          now,        \* what each waiting request read of it
          last,       \* _backtesting_last_request_by_key
          accepted    \* requests let in, with their reading

vars == <<clock, now, last, accepted>>

Keys == {KeyOf[q] : q \in Requests}
Never == -1

Init == /\ clock = 0
        /\ now = [q \in Requests |-> Never]
        /\ last = [k \in Keys |-> Never]
        /\ accepted = {}

\* BACKTESTING_RATE_LIMIT_TTL_SECONDS; the mutant forgets a key as soon as
\* its interval has passed.
IntervalOnly == Interval
Ttl == Interval * 2

Waiting(q) == now[q] # Never

Tick == /\ clock < MaxClock
        /\ \A q \in Requests : Waiting(q) => clock - now[q] < MaxDelay
        /\ clock' = clock + 1
        /\ UNCHANGED <<now, last, accepted>>

\* The key is authorised and the clock is read.
ReadClock(q) == /\ ~Waiting(q)
                /\ now' = [now EXCEPT ![q] = clock]
                /\ UNCHANGED <<clock, last, accepted>>

\* What the table still holds for a request that read t.
Fresh(t) == [k \in Keys |-> IF last[k] # Never /\ t - last[k] >= Ttl
                            THEN Never ELSE last[k]]

\* Under the lock: keys expire, and the request is refused or recorded.
Locked(q) ==
    LET t == now[q]
        k == KeyOf[q]
        table == Fresh(t)
    IN  /\ Waiting(q)
        /\ IF table[k] # Never /\ t - table[k] < Interval
           THEN last' = table /\ UNCHANGED accepted
           ELSE /\ last' = [table EXCEPT ![k] = t]
                /\ accepted' = accepted \cup {<<q, k, t>>}
        /\ now' = [now EXCEPT ![q] = Never]
        /\ UNCHANGED clock

Next == Tick \/ \E q \in Requests : ReadClock(q) \/ Locked(q)

Spec == Init /\ [][Next]_vars
-----------------------------------------------------------------------------
TypeOK == /\ clock \in 0..MaxClock
          /\ now \in [Requests -> {Never} \cup 0..MaxClock]
          /\ last \in [Keys -> {Never} \cup 0..MaxClock]
          /\ accepted \subseteq Requests \X Keys \X (0..MaxClock)

(* Two accepted requests of one key read the clock an interval apart, in    *)
(* whatever order they came to the lock and whichever request made the key  *)
(* expire, as long as no thread waits longer than the time to live leaves   *)
(* beyond the interval.                                                     *)
AcceptedApart ==
    \A a, b \in accepted :
        a # b /\ a[2] = b[2] => \/ a[3] - b[3] >= Interval
                                \/ b[3] - a[3] >= Interval
=============================================================================
