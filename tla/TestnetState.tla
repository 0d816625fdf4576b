---------------------------- MODULE TestnetState ----------------------------
(***************************************************************************)
(* The state the trading handlers of the API share: the rows of the       *)
(* trade_plans, orders and positions tables, the Binance testnet account   *)
(* behind them, and what each request in flight has read so far.           *)
(*                                                                         *)
(* A request handler runs in a database session of its own; between two    *)
(* of its awaits other handlers run, and nothing locks or versions a row.  *)
(* A request opens at most one position and sends at most one entry or one *)
(* exit order, so rows and exchange orders are named by the request that   *)
(* made them: <<e, "stop">> is the stop order of the execution e.          *)
(***************************************************************************)
EXTENDS Integers

CONSTANTS
    Plan,        \* trade_plans rows
    Symbol,      \* traded symbols
    SymbolOf,    \* trade_plans.symbol
    Dir,         \* trade_plans.side: 1 for "long", -1 for "short"
    Qty,         \* quantity of the plan, in step sizes
    Exec,        \* requests to POST /testnet-trading/execute/{id}
    Paper,       \* requests to POST /paper-trading/execute/{id}
    Sync,        \* sync_exit_orders tasks
    OneAtATime,  \* TRUE: the clients never overlap two executions in a slot
    None         \* no plan, no row

Request == Exec \cup Paper \cup Sync

\* The requests that may open a position row.
Row == Exec \cup Paper

ASSUME ConstantsAssumption ==
    /\ SymbolOf \in [Plan -> Symbol]
    /\ Dir \in [Plan -> {-1, 1}]
    /\ Qty \in [Plan -> Nat \ {0}]
    /\ OneAtATime \in BOOLEAN
    /\ Exec \cap Paper = {} /\ Exec \cap Sync = {} /\ Paper \cap Sync = {}
    /\ None \notin Plan /\ None \notin Row

VARIABLES
    planStatus,  \* trade_plans.status
    position,    \* positions rows: status, quantity and primary key
    lastId,      \* last value of the positions primary key
    orders,      \* orders.status as stored, by order
    book,        \* status of each order at the exchange
    fill,        \* quantity the exchange executed for an entry or an exit
    held,        \* signed position of the one-way account, by symbol
    pc,          \* progress of each request
    planOf,      \* plan a request works on
    view,        \* what an execution learnt of its entry order
    target,      \* position row a synchronisation works on
    loaded,      \* order rows a synchronisation loaded
    seen,        \* the statuses it read from the exchange for them
    tried        \* sibling orders it asked the exchange to cancel

database == <<planStatus, position, lastId, orders>>
exchange == <<book, fill, held>>
reads    == <<loaded, seen, tried>>
vars     == <<database, exchange, pc, planOf, view, target, reads>>

(***************************************************************************)
(* Orders.  "orphan" stands for the protection orders of an execution      *)
(* that are live at the exchange and in no row of the orders table; paper  *)
(* entries exist in the database only and are left out.  "expired" also    *)
(* stands for "rejected".                                                  *)
(***************************************************************************)
OrderKey == (Exec \X {"entry", "stop", "tp", "orphan"}) \cup (Sync \X {"exit"})

Protective == Exec \X {"stop", "tp", "orphan"}

Live     == {"new", "partially_filled"}
Terminal == {"filled", "canceled", "expired"}
OrderStatus == Live \cup Terminal
Status   == OrderStatus \cup {"absent"}

PlanStatus == {"blocked", "approved", "paper_executed", "testnet_executed", "testnet_closed"}

KeyPlan(k) == planOf[k[1]]

SameSlot(p, q) == SymbolOf[p] = SymbolOf[q] /\ Dir[p] = Dir[q]

NoReads == [k \in OrderKey |-> "absent"]
NoView  == [status |-> "absent", qty |-> 0]
NoRow   == [status |-> "none", qty |-> 0, id |-> 0]

\* What the exchange still holds in the direction of plan p.
Exposure(p) == Dir[p] * held[SymbolOf[p]]

OpenRows(p) == {r \in Row : planOf[r] = p /\ position[r].status = "open"}

\* Mutant: the query asks for filled protection orders.
ProtectionRowsFilled(p) ==
    {k \in OrderKey : /\ k[2] \in {"stop", "tp", "exit"}
                      /\ KeyPlan(k) = p
                      /\ orders[k] = "filled"}

\* The rows of order_type stop_market or take_profit_market of plan p.  The
\* order of a local exit is stored under one of those types too.
ProtectionRows(p) ==
    {k \in OrderKey : /\ k[2] \in {"stop", "tp", "exit"}
                      /\ KeyPlan(k) = p
                      /\ orders[k] # "absent"}

Init ==
    /\ planStatus \in [Plan -> {"blocked", "approved"}]
    /\ position = [r \in Row |-> NoRow]
    /\ lastId = 0
    /\ orders = NoReads
    /\ book = NoReads
    /\ fill = [r \in Exec \cup Sync |-> 0]
    /\ held = [s \in Symbol |-> 0]
    /\ pc = [r \in Request |-> "idle"]
    /\ planOf = [r \in Request |-> None]
    /\ view = [e \in Exec |-> NoView]
    /\ target = [s \in Sync |-> None]
    /\ loaded = [s \in Sync |-> NoReads]
    /\ seen = [s \in Sync |-> NoReads]
    /\ tried = [s \in Sync |-> {}]
=============================================================================
