------------------------- MODULE WorkerCycleProofs -------------------------
(***************************************************************************)
(* The worker's memory and the plans, for any keys and candles and any     *)
(* number of lost calls, demo packs and restarts: types; a processed       *)
(* candle has a plan; and every candle of the market planned again is owed *)
(* to a lost call, a restart or a demo plan, every two consecutive plans   *)
(* of one candle and every plan executed twice to one of the first two.    *)
(***************************************************************************)
EXTENDS WorkerCycle, FiniteSetTheorems, TLAPS

Plan == [key : Key, candle : Candle, source : {"market", "demo"},
         status : {"approved", "blocked", "executed", "paper_executed"},
         orders : Nat, papers : Nat]

Task == [pc : {"idle", "packing", "packed", "waiting", "done", "failed"},
         seen : Candle \cup {None}, prev : Candle \cup {None},
         call : Call \cup {NoCall}]

TaskOK(t) ==
    /\ t \in Task
    /\ t.pc = "packed" => t.seen \in Candle
    /\ t.pc = "waiting" => t.call \in Call

\* The types the argument needs.  Outside of a cycle no task is under way.
WType ==
    /\ candle \in [Key -> 1 .. MaxCandle]
    /\ marks \in [Key -> Candle \cup {None}]
    /\ DOMAIN task = Key /\ task = [k \in Key |-> task[k]]
    /\ \A k \in Key : TaskOK(task[k])
    /\ \A k \in Key : phase # "running" => task[k].pc = "idle"
    /\ DOMAIN late \subseteq Call
    /\ plans \in Seq(Plan)

\* A task that creates a plan asks for the candle it has marked, and can take
\* back the mark before it.
CreatingInv(k) ==
    /\ task[k].call.key = k
    /\ task[k].call.candle = marks[k]
    /\ task[k].call.stage # "sent" => Planned(k, marks[k])
    /\ task[k].prev # None => Planned(k, task[k].prev)

MarkInv(k) ==
    IF Creating(k) THEN CreatingInv(k) ELSE marks[k] # None => Planned(k, marks[k])

\* The inductive invariant of the marks.
MarksInv == \A k \in Key : MarkInv(k)

-----------------------------------------------------------------------------
(* Plans are added and never taken away.                                   *)

\* Appending a plan keeps the plans there are, and adds that one.
LEMMA PlanAppended ==
    ASSUME plans \in Seq(Plan), NEW p \in Plan, plans' = Append(plans, p)
    PROVE  /\ plans' \in Seq(Plan)
           /\ Planned(p.key, p.candle)'
           /\ \A k \in Key : \A x \in Candle \cup {None} : Planned(k, x) => Planned(k, x)'
<1>1. plans' \in Seq(Plan) /\ Len(plans') = Len(plans) + 1 /\ plans'[Len(plans) + 1] = p
  OBVIOUS
<1>2. \A i \in DOMAIN plans : i \in DOMAIN plans' /\ plans'[i] = plans[i]
  OBVIOUS
<1>3. Len(plans) + 1 \in DOMAIN plans'
  BY <1>1
<1> QED BY <1>1, <1>2, <1>3 DEF Planned

\* A plan whose status or counters change is still the plan of its candle.
LEMMA PlanUpdated ==
    ASSUME plans \in Seq(Plan), plans' \in Seq(Plan), DOMAIN plans' = DOMAIN plans,
           \A i \in DOMAIN plans :
               plans'[i].key = plans[i].key /\ plans'[i].candle = plans[i].candle
    PROVE  \A k \in Key : \A x \in Candle \cup {None} : Planned(k, x) => Planned(k, x)'
BY DEF Planned

\* One field of a plan changes.
LEMMA StatusUpdate ==
    ASSUME plans \in Seq(Plan), NEW i \in Nat, NEW s \in {"executed", "paper_executed"},
           \/ plans' = [plans EXCEPT ![i].status = s]
           \/ plans' = [plans EXCEPT ![i].orders = @ + 1]
           \/ plans' = [plans EXCEPT ![i].status = s, ![i].papers = @ + 1]
    PROVE  /\ plans' \in Seq(Plan)
           /\ \A k \in Key : \A x \in Candle \cup {None} : Planned(k, x) => Planned(k, x)'
<1>1. DOMAIN plans' = DOMAIN plans /\ Len(plans') = Len(plans)
  OBVIOUS
<1>2. \A j \in DOMAIN plans : plans[j] \in Plan
  OBVIOUS
<1>3. \A j \in DOMAIN plans :
          /\ plans'[j] \in Plan
          /\ plans'[j].key = plans[j].key
          /\ plans'[j].candle = plans[j].candle
  <2> TAKE j \in DOMAIN plans
  <2>1. plans[j] \in Plan
    BY <1>2
  <2>2. CASE plans' = [plans EXCEPT ![i].status = s]
    <3>1. plans'[j] = IF j = i THEN [plans[j] EXCEPT !.status = s] ELSE plans[j]
      BY <2>2
    <3> QED BY <2>1, <3>1 DEF Plan
  <2>3. CASE plans' = [plans EXCEPT ![i].orders = @ + 1]
    <3>1. plans'[j] = IF j = i THEN [plans[j] EXCEPT !.orders = plans[j].orders + 1]
                      ELSE plans[j]
      BY <2>3
    <3>2. plans[j].orders + 1 \in Nat
      BY <2>1 DEF Plan
    <3> QED BY <2>1, <3>1, <3>2 DEF Plan
  <2>4. CASE plans' = [plans EXCEPT ![i].status = s, ![i].papers = @ + 1]
    <3>1. plans'[j] = IF j = i
                      THEN [plans[j] EXCEPT !.status = s, !.papers = plans[j].papers + 1]
                      ELSE plans[j]
      BY <2>4
    <3>2. plans[j].papers + 1 \in Nat
      BY <2>1 DEF Plan
    <3> QED BY <2>1, <3>1, <3>2 DEF Plan
  <2> QED BY <2>2, <2>3, <2>4
<1>4. plans' \in Seq(Plan)
  BY <1>1, <1>3
<1> QED BY <1>1, <1>3, <1>4, PlanUpdated

\* What a step of a handler may do to the plans.
PlansGrow ==
    /\ plans' \in Seq(Plan)
    /\ \A k \in Key : \A x \in Candle \cup {None} : Planned(k, x) => Planned(k, x)'

\* A step that leaves the plans alone.
LEMMA PlansSame ==
    ASSUME plans \in Seq(Plan), plans' = plans
    PROVE  PlansGrow
BY DEF PlansGrow, Planned

\* A step of a handler passes its call on as a call for the same candle, and
\* what was to be created is stored.
LEMMA HandleStep ==
    ASSUME NEW c \in Call, NEW s \in Stage, plans \in Seq(Plan), Handle(c, s)
    PROVE  /\ PlansGrow
           /\ Passed(c, s) \in Call
           /\ Passed(c, s).key = c.key
           /\ Passed(c, s).candle = c.candle
           /\ Passed(c, s).kind = c.kind
           /\ c.kind = "create" => Planned(c.key, c.candle)'
<1>1. /\ Passed(c, s) \in Call
      /\ Passed(c, s).key = c.key
      /\ Passed(c, s).candle = c.candle
      /\ Passed(c, s).kind = c.kind
  <2>1. Len(plans) + 1 \in Nat
    OBVIOUS
  <2> QED BY <2>1 DEF Passed, Call
<1>2. c.plan \in Nat /\ c.key \in Key
  BY DEF Call
<1>3. CASE StorePlan(c, s)
  <2> DEFINE p == [key |-> c.key, candle |-> c.candle, source |-> c.source,
                   status |-> s, orders |-> 0, papers |-> 0]
  <2>1. p \in Plan
    BY <1>3 DEF Plan, Call, StorePlan
  <2>2. plans' = Append(plans, p)
    BY <1>3 DEF StorePlan
  <2> HIDE DEF p
  <2>3. PlansGrow /\ Planned(p.key, p.candle)'
    BY <2>1, <2>2, PlanAppended DEF PlansGrow
  <2> QED BY <1>1, <2>3 DEF p
<1>4. CASE CheckExecution(c, s)
  BY <1>1, <1>4, PlansSame DEF CheckExecution
<1>5. CASE SendOrder(c, s)
  BY <1>1, <1>2, <1>5, StatusUpdate DEF SendOrder, PlansGrow
<1>6. CASE LoseOrder(c, s)
  BY <1>1, <1>6, PlansSame DEF LoseOrder
<1>7. CASE CommitTestnet(c, s)
  BY <1>1, <1>2, <1>7, StatusUpdate DEF CommitTestnet, PlansGrow
<1>8. CASE CommitPaper(c, s)
  BY <1>1, <1>2, <1>8, StatusUpdate DEF CommitPaper, PlansGrow
<1> QED BY <1>3, <1>4, <1>5, <1>6, <1>7, <1>8 DEF Handle

-----------------------------------------------------------------------------
(* Calls given up.                                                         *)

\* What is left of calls are some of those calls.
LEMMA RemainingDomain ==
    ASSUME NEW C, \A c \in C : c \in Call \/ c.stage = "none"
    PROVE  DOMAIN Remaining(C) \subseteq Call
BY DEF Remaining, SetToBag

\* A sum of two bags has the elements of both.
LEMMA SumDomain ==
    ASSUME NEW B1, NEW B2, DOMAIN B1 \subseteq Call, DOMAIN B2 \subseteq Call
    PROVE  DOMAIN (B1 (+) B2) \subseteq Call
BY DEF (+)

\* A bag without a copy of c, B (-) SetToBag({c}) of Bags.
TakenFrom(B, c) ==
    [d \in {e \in DOMAIN B : (IF e = c THEN B[e] - 1 ELSE B[e]) > 0} |->
        IF d = c THEN B[d] - 1 ELSE B[d]]

\* The copies of a call in a bag, and the sum of two bags, (+) of Bags.
Held(B, c) == IF c \in DOMAIN B THEN B[c] ELSE 0
SumOf(B1, B2) == [c \in DOMAIN B1 \cup DOMAIN B2 |-> Held(B1, c) + Held(B2, c)]

LEMMA TakeCopy ==
    ASSUME NEW B, NEW c, NEW R, R = B (-) SetToBag({c}) PROVE R = TakenFrom(B, c)
BY DEF (-), SetToBag, TakenFrom

LEMMA AddCopies ==
    ASSUME NEW B1, NEW B2, NEW R, R = B1 (+) B2 PROVE R = SumOf(B1, B2)
BY DEF (+), SumOf, Held

\* A call given up is served.
LEMMA ServeLateTakes ==
    ASSUME ServeLate
    PROVE  \E c \in DOMAIN late, s \in Stage :
             Handle(c, s) /\ late' = SumOf(TakenFrom(late, c), Remaining({Passed(c, s)}))
<1>1. PICK c \in DOMAIN late, s \in Stage :
        Handle(c, s) /\ late' = (late (-) SetToBag({c})) (+) Remaining({Passed(c, s)})
  BY DEF ServeLate
<1>2. PICK R : R = late (-) SetToBag({c})
  OBVIOUS
<1>3. R = TakenFrom(late, c)
  BY <1>2, TakeCopy DEF (-)
<1>4. late' = SumOf(R, Remaining({Passed(c, s)}))
  BY <1>1, <1>2, Zenon DEF (+), SumOf, Held
<1>5. Handle(c, s)
  BY <1>1, Zenon
<1> QED BY <1>3, <1>4, <1>5

-----------------------------------------------------------------------------
(* One task changes.                                                       *)

\* What is planned stays planned, a mark or a mark to go back to in particular.
LEMMA KeepMark ==
    ASSUME WType, PlansGrow, NEW j \in Key, MarkInv(j),
           task'[j] = task[j], marks'[j] = marks[j]
    PROVE  MarkInv(j)'
<1>1. PICK m \in Candle \cup {None}, p \in Candle \cup {None} : m = marks[j] /\ p = task[j].prev
  BY DEF WType, TaskOK, Task
<1>2. (Planned(j, m) => Planned(j, m)') /\ (Planned(j, p) => Planned(j, p)')
  BY DEF PlansGrow
<1>3. marks'[j] = m /\ task'[j].prev = p
  BY <1>1
<1>4. (Creating(j)' <=> Creating(j))
  BY DEF Creating
<1>5. CASE Creating(j)
  BY <1>1, <1>2, <1>3, <1>4, <1>5 DEF MarkInv, CreatingInv
<1>6. CASE ~Creating(j)
  BY <1>1, <1>2, <1>3, <1>4, <1>6 DEF MarkInv
<1> QED BY <1>5, <1>6

\* The step of a task that leaves the others, and their marks, alone.
LEMMA OneTask ==
    ASSUME WType, MarksInv, NEW k \in Key, NEW t, TaskOK(t),
           task' = [task EXCEPT ![k] = t],
           phase' = phase, phase = "running" \/ t.pc = "idle",
           candle' \in [Key -> 1 .. MaxCandle],
           marks' \in [Key -> Candle \cup {None}],
           \A j \in Key \ {k} : marks'[j] = marks[j],
           DOMAIN late' \subseteq Call,
           PlansGrow,
           MarkInv(k)'
    PROVE  WType' /\ MarksInv'
<1>1. DOMAIN task' = Key /\ task'[k] = t /\ \A j \in Key \ {k} : task'[j] = task[j]
  BY DEF WType
<1>2. WType'
  BY <1>1 DEF WType, PlansGrow
<1>3. ASSUME NEW j \in Key, j # k PROVE MarkInv(j)'
  BY <1>1, <1>3, KeepMark DEF MarksInv
<1> QED BY <1>2, <1>3 DEF MarksInv

\* The context of a task's step other than what it does to the task.
TaskContext(k) ==
    /\ phase = "running" /\ phase' = phase
    /\ candle' = candle
    /\ marks' \in [Key -> Candle \cup {None}]
    /\ \A j \in Key \ {k} : marks'[j] = marks[j]
    /\ DOMAIN late' \subseteq Call
    /\ PlansGrow

\* A task ends when its mark, if any, has a plan.
LEMMA TaskEnds ==
    ASSUME WType, MarksInv, NEW k \in Key, NEW r \in {"done", "failed"},
           End(k, r), TaskContext(k), (marks[k] # None => Planned(k, marks[k]))'
    PROVE  WType' /\ MarksInv'
<1> DEFINE t == [Idle EXCEPT !.pc = r]
<1>1. TaskOK(t) /\ t.pc = r
  BY DEF TaskOK, Task, Idle, NoCall
<1>2. task' = [task EXCEPT ![k] = t]
  BY DEF End
<1>3. task'[k] = t
  BY <1>2 DEF WType
<1>4. MarkInv(k)'
  BY <1>1, <1>3 DEF MarkInv, Creating
<1> HIDE DEF t
<1> QED BY <1>1, <1>2, <1>4, OneTask DEF TaskContext, WType

\* So does a task that asks for an execution.
LEMMA TaskSends ==
    ASSUME WType, MarksInv, NEW k \in Key, NEW kind \in {"testnet", "paper"},
           task[k].pc = "waiting",
           Send(k, kind), TaskContext(k), (marks[k] # None => Planned(k, marks[k]))'
    PROVE  WType' /\ MarksInv'
<1>1. PICK old \in Task : old = task[k] /\ old.call \in Call
  BY DEF WType, TaskOK
<1> DEFINE t == [old EXCEPT !.call = [old.call EXCEPT !.kind = kind, !.stage = "sent"]]
<1>2. [old.call EXCEPT !.kind = kind, !.stage = "sent"] \in Call
  BY <1>1 DEF Call, Stage
<1>3. t \in Task /\ t.pc = "waiting" /\ t.call \in Call /\ t.call.kind = kind
  BY <1>1, <1>2 DEF Task, Call
<1>4. task' = [task EXCEPT ![k] = t]
  BY <1>1 DEF Send, WType
<1>5. task'[k] = t
  BY <1>4 DEF WType
<1> HIDE DEF t
<1>6. MarkInv(k)'
  BY <1>3, <1>5 DEF MarkInv, Creating
<1> QED BY <1>3, <1>4, <1>6, OneTask DEF TaskContext, TaskOK, WType

LEMMA TaskFallsBack ==
    ASSUME WType, MarksInv, NEW k \in Key, NEW r \in {"done", "failed"},
           task[k].pc = "waiting",
           Fallback(k, r), TaskContext(k), (marks[k] # None => Planned(k, marks[k]))'
    PROVE  WType' /\ MarksInv'
BY TaskEnds, TaskSends DEF Fallback

\* A candle is decided upon.
LEMMA TaskDecides ==
    ASSUME WType, MarksInv, NEW k \in Key, NEW c \in Candle, NEW source \in {"market", "demo"},
           task[k].pc \in {"packing", "packed"}, phase' = phase, candle' = candle,
           UNCHANGED <<late, plans>>, Decide(k, c, source)
    PROVE  WType' /\ MarksInv'
<1>1. phase = "running" /\ plans \in Seq(Plan) /\ DOMAIN late' \subseteq Call
  BY DEF WType
<1>2. PlansGrow
  BY <1>1, PlansSame
<1>3. MarkInv(k) /\ ~Creating(k)
  BY DEF MarksInv, Creating
<1>4. PICK m \in Candle \cup {None} : m = marks[k]
  BY DEF WType
<1>5. m # None => Planned(k, m)
  BY <1>3, <1>4 DEF MarkInv
<1>6. m # None => Planned(k, m)'
  BY <1>2, <1>5 DEF PlansGrow
<1>7. CASE marks[k] = c
  <2>1. End(k, "done") /\ marks' = marks
    BY <1>7 DEF Decide
  <2> QED BY <1>1, <1>2, <1>4, <1>6, <2>1, TaskEnds DEF TaskContext, WType
<1>8. CASE marks[k] # c
  <2> DEFINE t == [pc |-> "waiting", seen |-> c, prev |-> m,
                   call |-> [kind |-> "create", key |-> k, candle |-> c,
                             source |-> source, plan |-> 0, stage |-> "sent"]]
  <2>1. task' = [task EXCEPT ![k] = t] /\ marks' = [marks EXCEPT ![k] = c]
    BY <1>4, <1>8 DEF Decide
  <2>2. TaskOK(t)
    BY DEF TaskOK, Task, Call, Stage
  <2>3. task'[k] = t /\ marks'[k] = c
    BY <2>1 DEF WType
  <2>4. MarkInv(k)'
    BY <1>6, <2>3 DEF MarkInv, Creating, CreatingInv
  <2>5. marks' \in [Key -> Candle \cup {None}] /\ \A j \in Key \ {k} : marks'[j] = marks[j]
    BY <2>1 DEF WType
  <2> HIDE DEF t
  <2> QED BY <1>1, <1>2, <2>1, <2>2, <2>4, <2>5, OneTask DEF WType
<1> QED BY <1>7, <1>8

-----------------------------------------------------------------------------
(* One lemma per action.                                                   *)

WInv == WType /\ MarksInv

\* A waiting task is part of a running cycle, and its mark is accounted for.
LEMMA WaitingTask ==
    ASSUME WInv, NEW k \in Key, task[k].pc = "waiting"
    PROVE  /\ phase = "running"
           /\ task[k].call \in Call
           /\ MarkInv(k)
           /\ Creating(k) <=> task[k].call.kind = "create"
           /\ ~Creating(k) /\ marks[k] # None => Planned(k, marks[k])
BY DEF WInv, WType, TaskOK, MarksInv, MarkInv, Creating

LEMMA ServeKeeps == ASSUME WInv, NEW k \in Key, Serve(k) PROVE WInv'
<1>1. PICK s \in Stage : /\ Handle(task[k].call, s)
                        /\ task' = [task EXCEPT ![k].call = Passed(task[k].call, s)]
  BY DEF Serve
<1>2. PICK old \in Task : old = task[k] /\ old.pc = "waiting" /\ old.call \in Call
  BY WaitingTask DEF Serve, WInv, WType, TaskOK
<1>3. PICK next : next = Passed(old.call, s)
  OBVIOUS
<1>4. /\ PlansGrow
      /\ next \in Call /\ next.key = old.call.key /\ next.candle = old.call.candle
      /\ next.kind = old.call.kind
      /\ old.call.kind = "create" => Planned(old.call.key, old.call.candle)'
  BY <1>1, <1>2, <1>3, HandleStep DEF WInv, WType
<1> DEFINE t == [old EXCEPT !.call = next]
<1>5. /\ task' = [task EXCEPT ![k] = t]
      /\ t \in Task /\ t.pc = "waiting" /\ t.call = next /\ t.prev = old.prev
  BY <1>1, <1>2, <1>3, <1>4 DEF Task, WInv, WType
<1>6. task'[k] = t /\ marks' = marks /\ phase = "running"
  BY <1>2, <1>5, WaitingTask DEF Serve, WInv, WType
<1>7. PICK m \in Candle \cup {None}, p \in Candle \cup {None} : m = marks[k] /\ p = old.prev
  BY <1>2 DEF WInv, WType, Task
<1>8. (Planned(k, m) => Planned(k, m)') /\ (Planned(k, p) => Planned(k, p)')
  BY <1>4 DEF PlansGrow
<1> HIDE DEF t
<1>9. MarkInv(k)'
  <2>1. CASE old.call.kind = "create"
    <3>1. CreatingInv(k)
      BY <1>2, <2>1, WaitingTask DEF MarkInv
    <3>2. old.call.key = k /\ old.call.candle = m /\ (p # None => Planned(k, p))
      BY <1>2, <1>7, <3>1 DEF CreatingInv
    <3>3. CreatingInv(k)'
      BY <1>4, <1>5, <1>6, <1>7, <1>8, <2>1, <3>2 DEF CreatingInv
    <3>4. Creating(k)'
      BY <1>4, <1>5, <1>6, <2>1 DEF Creating
    <3> QED BY <3>3, <3>4 DEF MarkInv
  <2>2. CASE old.call.kind # "create"
    <3>1. m # None => Planned(k, m)
      BY <1>2, <1>7, <2>2, WaitingTask
    <3>2. ~Creating(k)'
      BY <1>4, <1>5, <1>6, <2>2 DEF Creating
    <3> QED BY <1>6, <1>7, <1>8, <3>1, <3>2 DEF MarkInv
  <2> QED BY <2>1, <2>2
<1>10. TaskOK(t)
  BY <1>4, <1>5 DEF TaskOK
<1> QED BY <1>4, <1>5, <1>6, <1>9, <1>10, OneTask DEF Serve, WInv, WType

LEMMA ServeLateKeeps == ASSUME WInv, ServeLate PROVE WInv'
<1>1. PICK c \in DOMAIN late, s \in Stage :
        Handle(c, s) /\ late' = SumOf(TakenFrom(late, c), Remaining({Passed(c, s)}))
  BY ServeLateTakes
<1>2. c \in Call
  BY DEF WInv, WType
<1>3. PlansGrow /\ Passed(c, s) \in Call
  BY <1>1, <1>2, HandleStep DEF WInv, WType
<1>4. PICK next \in Call : next = Passed(c, s)
  BY <1>3
<1>5. PICK B1 : B1 = TakenFrom(late, c) /\ DOMAIN B1 \subseteq Call
  BY DEF WInv, WType, TakenFrom
<1>6. PICK B2 : B2 = Remaining({next}) /\ DOMAIN B2 \subseteq Call
  BY RemainingDomain
<1>7. DOMAIN late' \subseteq Call
  BY <1>1, <1>4, <1>5, <1>6 DEF SumOf
<1>8. WType'
  BY <1>3, <1>7 DEF ServeLate, WInv, WType, PlansGrow
<1>9. MarksInv'
  BY <1>3, KeepMark DEF ServeLate, WInv, MarksInv
<1> QED BY <1>8, <1>9 DEF WInv

LEMMA ReadCandleKeeps == ASSUME WInv, NEW k \in Key, ReadCandle(k) PROVE WInv'
<1>1. PICK old \in Task : old = task[k] /\ old.pc \in {"packing", "packed"}
  BY DEF ReadCandle, WInv, WType, TaskOK
<1>2. PICK c \in Candle : c = candle[k]
  BY DEF WInv, WType, Candle
<1> DEFINE t == [old EXCEPT !.pc = "packed", !.seen = c]
<1>3. task' = [task EXCEPT ![k] = t] /\ TaskOK(t) /\ t.pc = "packed"
  BY <1>1, <1>2 DEF ReadCandle, TaskOK, Task, WInv, WType
<1>4. phase = "running" /\ PlansGrow /\ DOMAIN late' \subseteq Call
  BY <1>1, PlansSame DEF ReadCandle, WInv, WType
<1>5. (marks[k] # None => Planned(k, marks[k])) /\ marks' = marks /\ plans' = plans
  BY <1>1 DEF ReadCandle, WInv, MarksInv, MarkInv, Creating
<1>6. task'[k] = t
  BY <1>3 DEF WInv, WType
<1> HIDE DEF t
<1>7. MarkInv(k)'
  BY <1>3, <1>5, <1>6 DEF MarkInv, Creating, Planned
<1> QED BY <1>3, <1>4, <1>5, <1>7, OneTask DEF ReadCandle, WInv, WType

LEMMA PlanFromMarketKeeps ==
    ASSUME WInv, NEW k \in Key, PlanFromMarket(k) PROVE WInv'
<1>1. PICK c \in Candle : c = task[k].seen
  BY DEF PlanFromMarket, WInv, WType, TaskOK
<1> QED BY <1>1, TaskDecides DEF PlanFromMarket, WInv

LEMMA PlanFromDemoKeeps ==
    ASSUME WInv, NEW k \in Key, PlanFromDemo(k) PROVE WInv'
<1>1. CASE k \in DemoKey
  <2>1. DemoCandle \in Candle
    BY WorkerAssumption DEF DemoCandle, Candle
  <2> QED BY <1>1, <2>1, TaskDecides DEF PlanFromDemo, WInv
<1>2. CASE k \notin DemoKey
  <2>1. (marks[k] # None => Planned(k, marks[k])) /\ phase = "running"
    BY DEF PlanFromDemo, WInv, WType, MarksInv, MarkInv, Creating
  <2>2. TaskContext(k) /\ plans' = plans /\ marks' = marks
    BY <1>2, <2>1, PlansSame DEF PlanFromDemo, TaskContext, WInv, WType
  <2>3. (marks[k] # None => Planned(k, marks[k]))'
    BY <2>1, <2>2 DEF Planned
  <2> QED BY <1>2, <2>2, <2>3, TaskEnds DEF PlanFromDemo, WInv
<1> QED BY <1>1, <1>2

LEMMA CreatedKeeps == ASSUME WInv, NEW k \in Key, Created(k) PROVE WInv'
<1>1. /\ phase = "running" /\ CreatingInv(k) /\ task[k].call.stage # "sent"
  BY WaitingTask DEF Created, MarkInv
<1>2. TaskContext(k) /\ plans' = plans /\ marks' = marks
  BY <1>1, PlansSame DEF Created, TaskContext, WInv, WType
<1>3. (marks[k] # None => Planned(k, marks[k]))'
  BY <1>1, <1>2 DEF CreatingInv, Planned
<1>4. CASE Route(k)
  BY <1>2, <1>3, <1>4, TaskSends, TaskFallsBack DEF Route, Created, WInv
<1>5. CASE End(k, "done")
  BY <1>2, <1>3, <1>5, TaskEnds DEF WInv
<1> QED BY <1>4, <1>5 DEF Created

LEMMA ExecutedKeeps == ASSUME WInv, NEW k \in Key, Executed(k) PROVE WInv'
<1>1. phase = "running" /\ (marks[k] # None => Planned(k, marks[k]))
  BY WaitingTask DEF Executed
<1>2. TaskContext(k) /\ plans' = plans /\ marks' = marks
  BY <1>1, PlansSame DEF Executed, TaskContext, WInv, WType
<1>3. (marks[k] # None => Planned(k, marks[k]))'
  BY <1>1, <1>2 DEF Planned
<1>4. CASE End(k, "done")
  BY <1>2, <1>3, <1>4, TaskEnds DEF WInv
<1>5. CASE Fallback(k, "failed")
  BY <1>2, <1>3, <1>5, TaskFallsBack DEF Executed, WInv
<1> QED BY <1>4, <1>5 DEF Executed

LEMMA GiveUpKeeps == ASSUME WInv, NEW k \in Key, GiveUp(k) PROVE WInv'
<1>1. PICK old \in Task : old = task[k] /\ old.pc = "waiting" /\ old.call \in Call
  BY WaitingTask DEF GiveUp, WInv, WType, TaskOK
<1>2. phase = "running" /\ plans' = plans /\ PlansGrow
  BY WaitingTask, PlansSame DEF GiveUp, WInv, WType
<1>3. DOMAIN late' \subseteq Call
  <2>1. PICK B : B = Remaining({old.call}) /\ DOMAIN B \subseteq Call
    BY <1>1, RemainingDomain
  <2>2. late' \in {late, late (+) B}
    BY <1>1, <2>1 DEF GiveUp, Abandon
  <2>3. PICK B0 : B0 = late /\ DOMAIN B0 \subseteq Call
    BY DEF WInv, WType
  <2>4. DOMAIN (B0 (+) B) \subseteq Call
    BY <2>1, <2>3, SumDomain
  <2> QED BY <2>2, <2>3, <2>4
<1>4. CASE old.call.kind = "create"
  <2>1. CreatingInv(k) /\ marks' = [marks EXCEPT ![k] = old.prev] /\ End(k, "failed")
    BY <1>1, <1>4, WaitingTask DEF GiveUp, MarkInv
  <2>2. marks'[k] = old.prev /\ old.prev \in Candle \cup {None}
    BY <1>1, <2>1 DEF WInv, WType, Task
  <2>3. TaskContext(k)
    BY <1>2, <1>3, <2>1, <2>2 DEF GiveUp, TaskContext, WInv, WType
  <2>4. (marks[k] # None => Planned(k, marks[k]))'
    BY <1>1, <1>2, <2>1, <2>2 DEF CreatingInv, Planned
  <2> QED BY <2>1, <2>3, <2>4, TaskEnds DEF WInv
<1>5. CASE old.call.kind # "create"
  <2>1. marks' = marks /\ (marks[k] # None => Planned(k, marks[k]))
    BY <1>1, <1>5, WaitingTask DEF GiveUp
  <2>2. TaskContext(k)
    BY <1>2, <1>3, <2>1 DEF GiveUp, TaskContext, WInv, WType
  <2>3. (marks[k] # None => Planned(k, marks[k]))'
    BY <1>2, <2>1 DEF Planned
  <2>4. Fallback(k, "failed") \/ End(k, "failed")
    BY DEF GiveUp
  <2> QED BY <1>1, <2>2, <2>3, <2>4, TaskEnds, TaskFallsBack DEF WInv
<1> QED BY <1>4, <1>5

-----------------------------------------------------------------------------
(* The steps of the cycle.                                                 *)

\* Every task is replaced by one that creates nothing.
LEMMA AllTasks ==
    ASSUME WInv, NEW t, TaskOK(t), t.pc # "waiting",
           \A k \in Key : ~Creating(k),
           task' = [k \in Key |-> t], phase' = "running" \/ t.pc = "idle",
           UNCHANGED <<candle, marks, late, plans>>
    PROVE  WInv'
<1>1. \A k \in Key : task'[k] = t
  OBVIOUS
<1>2. WType'
  BY <1>1 DEF WInv, WType
<1>3. ASSUME NEW k \in Key PROVE MarkInv(k)'
  <2>1. marks[k] # None => Planned(k, marks[k])
    BY DEF WInv, MarksInv, MarkInv
  <2> QED BY <1>1, <2>1 DEF MarkInv, Creating, Planned
<1> QED BY <1>2, <1>3 DEF WInv, MarksInv

LEMMA IdleOK ==
    /\ TaskOK(Idle) /\ Idle.pc = "idle"
    /\ TaskOK([Idle EXCEPT !.pc = "packing"]) /\ [Idle EXCEPT !.pc = "packing"].pc = "packing"
BY DEF TaskOK, Task, Idle, NoCall

LEMMA LaunchKeeps ==
    ASSUME WInv, phase # "running", Launch, UNCHANGED <<candle, marks, late, plans>>
    PROVE  WInv'
<1>1. \A k \in Key : ~Creating(k)
  BY DEF WInv, WType, Creating
<1>2. PICK t : t = [Idle EXCEPT !.pc = "packing"]
  OBVIOUS
<1> QED BY <1>1, <1>2, IdleOK, AllTasks DEF Launch

\* A step that changes nothing the invariant looks at.
LEMMA SameKeeps ==
    ASSUME WInv, UNCHANGED <<marks, task, late, plans>>,
           candle' \in [Key -> 1 .. MaxCandle],
           phase' = phase \/ (phase # "running" /\ phase' # "running")
    PROVE  WInv'
BY DEF WInv, WType, MarksInv, MarkInv, CreatingInv, Creating, Planned

LEMMA CycleKeeps == ASSUME WInv, CycleStep PROVE WInv'
<1>1. CASE StartCycle
  <2>1. CASE conf.paper
    BY <1>1, <2>1, LaunchKeeps DEF StartCycle
  <2>2. CASE ~conf.paper
    BY <1>1, <2>2, SameKeeps DEF StartCycle, WInv, WType
  <2> QED BY <2>1, <2>2
<1>2. CASE Synced
  BY <1>2, LaunchKeeps DEF Synced
<1>3. CASE EndCycle
  <2>1. \A k \in Key : ~Creating(k)
    BY <1>3 DEF EndCycle, Finished, Creating
  <2>2. PICK t : t = Idle
    OBVIOUS
  <2> QED BY <1>3, <2>1, <2>2, IdleOK, AllTasks DEF EndCycle
<1> QED BY <1>1, <1>2, <1>3 DEF CycleStep

LEMMA RestartKeeps == ASSUME WInv, Restart PROVE WInv'
<1>1. \A k \in Key : task[k].call \in Call \/ task[k].call.stage = "none"
  BY DEF WInv, WType, TaskOK, Task, NoCall
<1>2. PICK C : C = {task[k].call : k \in Key}
  OBVIOUS
<1>3. \A c \in C : c \in Call \/ c.stage = "none"
  BY <1>1, <1>2
<1>4. PICK B1, B2 : B1 = late /\ B2 = Remaining(C)
  OBVIOUS
<1>5. DOMAIN B1 \subseteq Call /\ late' = B1 (+) B2
  BY <1>2, <1>4 DEF Restart, WInv, WType
<1>6. DOMAIN B2 \subseteq Call
  BY <1>3, <1>4, RemainingDomain
<1>7. DOMAIN late' \subseteq Call
  BY <1>5, <1>6, SumDomain
<1>8. \A k \in Key : task'[k] = Idle /\ marks'[k] = None
  BY DEF Restart
<1>9. WType'
  BY <1>7, <1>8, IdleOK DEF Restart, WInv, WType
<1>10. MarksInv'
  BY <1>8, IdleOK DEF MarksInv, MarkInv, Creating
<1> QED BY <1>9, <1>10 DEF WInv

LEMMA AdvanceKeeps == ASSUME WInv, NEW k \in Key, Advance(k) PROVE WInv'
<1>1. candle' \in [Key -> 1 .. MaxCandle]
  BY WorkerAssumption DEF Advance, WInv, WType
<1> QED BY <1>1, SameKeeps DEF Advance

-----------------------------------------------------------------------------
\* The invariant holds of every state: a mark is the candle of a plan, or of
\* the plan being created.
THEOREM MarksInvariant == Spec => []WInv
<1>1. Init => WInv
  BY WorkerAssumption, IdleOK
  DEF Init, WInv, WType, MarksInv, MarkInv, Creating, EmptyBag, SetToBag, None, Candle
<1>2. WInv /\ [Next]_vars => WInv'
  <2> SUFFICES ASSUME WInv, [Next]_vars PROVE WInv'
    OBVIOUS
  <2>1. ASSUME NEW k \in Key, TaskStep(k) PROVE WInv'
    BY <2>1, ReadCandleKeeps, PlanFromMarketKeeps, PlanFromDemoKeeps, CreatedKeeps,
       ExecutedKeeps, GiveUpKeeps, ServeKeeps DEF TaskStep
  <2>2. ASSUME NEW k \in Key, Advance(k) PROVE WInv'
    BY <2>2, AdvanceKeeps
  <2>3. CASE UNCHANGED vars
    BY <2>3, SameKeeps DEF vars, WInv, WType
  <2> QED BY <2>1, <2>2, <2>3, CycleKeeps, ServeLateKeeps, RestartKeeps DEF Next
<1> QED BY <1>1, <1>2, PTL DEF Spec

\* A candle marked as processed has a plan once its creation is over, however
\* calls fail: process_symbol_cycle takes back the marks of failed creations.
THEOREM MarksArePlanned == Spec => []MarkedMeansPlanned
<1>1. WInv => MarkedMeansPlanned
  BY DEF WInv, MarksInv, MarkInv, MarkedMeansPlanned
<1> QED BY <1>1, MarksInvariant, PTL
-----------------------------------------------------------------------------
(* Repetition: what a plan may have been asked to execute, and by whom.     *)

Exec(c) == c.kind \in {"testnet", "paper"}
NoneLate(kind, i) == \A c \in DOMAIN late : c.kind = kind => c.plan # i

\* Calls given up are not answered, and no two of them execute a plan in one
\* way.  One that has not come to its order finds the plan without one.
LateInv ==
    /\ \A c \in DOMAIN late :
         /\ late[c] \in Nat \ {0}
         /\ c.kind = "create" => c.stage = "sent"
         /\ c.kind = "paper" => c.stage \in {"sent", "checked"}
         /\ Exec(c) => /\ late[c] = 1
                       /\ c.plan \in DOMAIN plans /\ plans[c.plan].key = c.key
         /\ c.kind = "testnet" =>
              /\ c.stage \in {"sent", "checked", "ordered"}
              /\ c.stage # "ordered" => plans[c.plan].orders = 0
         /\ c.kind = "paper" => plans[c.plan].papers = 0
    /\ \A c, d \in DOMAIN late :
         Exec(c) /\ c.kind = d.kind /\ c.plan = d.plan => c = d

\* The plan a call the worker waits for is about.
HasPlan(c) == Exec(c) \/ (c.kind = "create" /\ c.stage # "sent")

\* A task's call is the first to execute its plan in its way; nothing has been
\* asked of the plan before its creation was answered, and no paper execution
\* before the testnet's.
CallInv(k, t) ==
    /\ t.pc # "waiting" => t.call = NoCall
    /\ t.pc = "waiting" =>
         LET c == t.call
         IN  /\ c.key = k
             /\ c.kind = "create" =>
                  c.stage \in {"sent", "approved", "blocked"} /\ t.prev # c.candle
             /\ c.kind = "paper" => c.stage # "ordered"
             /\ HasPlan(c) =>
                  /\ c.plan \in DOMAIN plans /\ plans[c.plan].key = k
                  /\ NoneLate("paper", c.plan)
                  /\ c.kind # "paper" =>
                       NoneLate("testnet", c.plan) /\ plans[c.plan].papers = 0
                  /\ c.kind = "create" => plans[c.plan].orders = 0
                  /\ c.kind = "testnet" /\ c.stage \in {"sent", "checked"} =>
                       plans[c.plan].orders = 0
                  /\ c.kind = "paper" /\ c.stage \in {"sent", "checked"} =>
                       plans[c.plan].papers = 0

PlanCounts == \A i \in DOMAIN plans : plans[i].orders \in 0 .. 1 /\ plans[i].papers \in 0 .. 1

ChainInv == LateInv /\ PlanCounts /\ \A k \in Key : CallInv(k, task[k])

\* Plans both of whose executions were asked for, or are about to be.
Ordered(i) == plans[i].orders # 0 \/ ~NoneLate("testnet", i)
BoundForPaper(t, i) ==
    /\ t.pc = "waiting" /\ t.call.plan = i
    /\ t.call.kind = "paper" \/ (t.call.kind = "testnet" /\ t.call.stage = "refused")
OnPaper(i) ==
    \/ plans[i].papers # 0 \/ ~NoneLate("paper", i)
    \/ BoundForPaper(task[plans[i].key], i)
Doubled(k) == {i \in DOMAIN plans : plans[i].key = k /\ Ordered(i) /\ OnPaper(i)}

DoubledInv == \A k \in Key : Cardinality(Doubled(k)) <= lost[k]

\* The candle of a key's last plan, and the one the worker goes by.
LastIs(k, c) ==
    \E i \in DOMAIN plans :
        /\ plans[i].key = k /\ plans[i].candle = c
        /\ \A m \in i + 1 .. Len(plans) : plans[m].key # k
Believed(k) ==
    IF Creating(k) /\ task[k].call.stage = "sent" THEN task[k].prev ELSE marks[k]
Debt(k) == IF \E c \in Candle : LastIs(k, c) /\ c # Believed(k) THEN 1 ELSE 0

\* The creations of a key still to be served, one by one.
Copies(k) ==
    UNION {{<<c, n>> : n \in 1 .. late[c]} :
             c \in {d \in DOMAIN late : d.kind = "create" /\ d.key = k}}

\* Every lost call pays for one repetition, of a plan or by one, and every
\* restart for two.
RepeatsOK(k) ==
    /\ IsFiniteSet(Copies(k))
    /\ Cardinality(Repeats(k)) + Cardinality(Copies(k)) + Debt(k) <= lost[k] + 2 * restarts

RepeatsInv == \A k \in Key : RepeatsOK(k)

-----------------------------------------------------------------------------
(* What a step of a handler does to the plans, plan by plan.                *)

\* Everything of a plan but its status and its counters.
SamePlan(i) ==
    /\ plans'[i].key = plans[i].key /\ plans'[i].candle = plans[i].candle
    /\ plans'[i].source = plans[i].source

\* An execution changes its plan only, and of it the counter of its kind only.
LEMMA ExecEffect ==
    ASSUME NEW c \in Call, NEW s \in Stage, plans \in Seq(Plan), Exec(c), Handle(c, s)
    PROVE  /\ DOMAIN plans' = DOMAIN plans
           /\ \A i \in DOMAIN plans :
                /\ SamePlan(i)
                /\ i # c.plan => plans'[i] = plans[i]
                /\ c.kind = "paper" => plans'[i].orders = plans[i].orders
                /\ c.kind = "testnet" => plans'[i].papers = plans[i].papers
                /\ i = c.plan =>
                     /\ plans'[i].orders =
                          IF SendOrder(c, s) THEN plans[i].orders + 1 ELSE plans[i].orders
                     /\ plans'[i].papers =
                          IF CommitPaper(c, s) THEN plans[i].papers + 1 ELSE plans[i].papers
<1>1. \A i \in DOMAIN plans : plans[i] \in Plan
  OBVIOUS
<1>2. CASE CheckExecution(c, s) \/ LoseOrder(c, s)
  BY <1>2 DEF CheckExecution, LoseOrder, SendOrder, CommitPaper, SamePlan
<1>3. CASE SendOrder(c, s)
  <2>1. /\ plans' = [plans EXCEPT ![c.plan].orders = @ + 1] /\ c.kind = "testnet"
        /\ ~CommitPaper(c, s)
    BY <1>3 DEF SendOrder, CommitPaper
  <2>2. \A i \in DOMAIN plans :
          plans'[i] = IF i = c.plan THEN [plans[i] EXCEPT !.orders = plans[i].orders + 1]
                      ELSE plans[i]
    BY <2>1
  <2> QED BY <1>1, <1>3, <2>1, <2>2 DEF Plan, SamePlan
<1>4. CASE CommitTestnet(c, s)
  <2>1. /\ plans' = [plans EXCEPT ![c.plan].status = "executed"]
        /\ ~SendOrder(c, s) /\ ~CommitPaper(c, s)
    BY <1>4 DEF CommitTestnet, SendOrder, CommitPaper
  <2>2. \A i \in DOMAIN plans :
          plans'[i] = IF i = c.plan THEN [plans[i] EXCEPT !.status = "executed"]
                      ELSE plans[i]
    BY <2>1
  <2> QED BY <1>1, <2>1, <2>2 DEF Plan, SamePlan
<1>5. CASE CommitPaper(c, s)
  <2>1. /\ plans' = [plans EXCEPT ![c.plan].status = "paper_executed", ![c.plan].papers = @ + 1]
        /\ c.kind = "paper" /\ ~SendOrder(c, s)
    BY <1>5 DEF CommitPaper, SendOrder
  <2>2. \A i \in DOMAIN plans :
          plans'[i] = IF i = c.plan
                      THEN [plans[i] EXCEPT !.status = "paper_executed",
                                            !.papers = plans[i].papers + 1]
                      ELSE plans[i]
    BY <2>1
  <2> QED BY <1>1, <1>5, <2>1, <2>2 DEF Plan, SamePlan
<1> QED BY <1>2, <1>3, <1>4, <1>5 DEF Handle, StorePlan, Exec

\* A creation adds a plan nobody has executed.
LEMMA CreateEffect ==
    ASSUME NEW c \in Call, NEW s \in Stage, plans \in Seq(Plan), c.kind = "create", Handle(c, s)
    PROVE  /\ c.stage = "sent" /\ s \in {"approved", "blocked"} /\ lost' = lost
           /\ Len(plans) \in Nat /\ DOMAIN plans = 1 .. Len(plans)
           /\ Len(plans') = Len(plans) + 1
           /\ DOMAIN plans' = DOMAIN plans \cup {Len(plans) + 1}
           /\ \A i \in DOMAIN plans : plans'[i] = plans[i]
           /\ plans'[Len(plans) + 1].key = c.key
           /\ plans'[Len(plans) + 1].candle = c.candle
           /\ plans'[Len(plans) + 1].source = c.source
           /\ plans'[Len(plans) + 1].orders = 0
           /\ plans'[Len(plans) + 1].papers = 0
<1> DEFINE p == [key |-> c.key, candle |-> c.candle, source |-> c.source,
                 status |-> s, orders |-> 0, papers |-> 0]
<1>1. /\ c.stage = "sent" /\ s \in {"approved", "blocked"} /\ lost' = lost
      /\ plans' = Append(plans, p)
  BY DEF Handle, StorePlan, CheckExecution, SendOrder, LoseOrder, CommitTestnet, CommitPaper
<1>2. p.key = c.key /\ p.candle = c.candle /\ p.source = c.source /\ p.orders = 0 /\ p.papers = 0
  OBVIOUS
<1> HIDE DEF p
<1>3. /\ Len(plans) \in Nat /\ DOMAIN plans = 1 .. Len(plans)
      /\ Len(plans') = Len(plans) + 1
      /\ DOMAIN plans' = DOMAIN plans \cup {Len(plans) + 1}
      /\ \A i \in DOMAIN plans : plans'[i] = plans[i]
      /\ plans'[Len(plans) + 1] = p
  BY <1>1
<1> QED BY <1>1, <1>2, <1>3

\* Calls go through their stages in order.
LEMMA StageOrder ==
    ASSUME NEW c \in Call, NEW s \in Stage, Exec(c), Handle(c, s)
    PROVE  /\ c.kind = "paper" => \/ c.stage = "sent" /\ s \in {"checked", "refused"}
                                  \/ c.stage = "checked" /\ s = "executed"
           /\ c.kind = "testnet" => \/ c.stage = "sent" /\ s \in {"checked", "refused"}
                                    \/ c.stage = "checked" /\ s = "ordered"
                                    \/ c.stage = "ordered" /\ s \in {"executed", "refused"}
           /\ SendOrder(c, s) <=> c.kind = "testnet" /\ s = "ordered"
           /\ CommitPaper(c, s) <=> c.kind = "paper" /\ s = "executed"
           /\ lost' = IF c.kind = "testnet" /\ c.stage = "ordered" /\ s = "refused"
                      THEN [lost EXCEPT ![c.key] = @ + 1] ELSE lost
BY DEF Handle, StorePlan, CheckExecution, SendOrder, LoseOrder, CommitTestnet, CommitPaper,
       Exec, Call

\* The call a step passes on.
LEMMA PassedFields ==
    ASSUME NEW c \in Call, NEW s \in Stage, plans \in Seq(Plan)
    PROVE  /\ Passed(c, s) \in Call
           /\ Passed(c, s).stage = s /\ Passed(c, s).kind = c.kind
           /\ Passed(c, s).key = c.key /\ Passed(c, s).candle = c.candle
           /\ Passed(c, s).plan = IF c.kind = "create" THEN Len(plans) + 1 ELSE c.plan
<1>1. Len(plans) + 1 \in Nat
  OBVIOUS
<1> QED BY <1>1 DEF Passed, Call

-----------------------------------------------------------------------------
(* The calls given up, copy by copy.                                       *)

Pending == {"sent", "checked", "ordered"}

\* What is left of calls is one copy of each that is not answered.
LEMMA RemainingBag ==
    ASSUME NEW C
    PROVE  /\ DOMAIN Remaining(C) = {c \in C : c.stage \in Pending}
           /\ \A c \in DOMAIN Remaining(C) : Remaining(C)[c] = 1
BY DEF Remaining, SetToBag, Pending

\* A copy is taken out of a bag.
LEMMA RemoveBag ==
    ASSUME NEW B, NEW c \in DOMAIN B, \A d \in DOMAIN B : B[d] \in Nat \ {0}
    PROVE  /\ DOMAIN TakenFrom(B, c) = IF B[c] = 1 THEN DOMAIN B \ {c} ELSE DOMAIN B
           /\ \A d \in DOMAIN TakenFrom(B, c) :
                TakenFrom(B, c)[d] = IF d = c THEN B[c] - 1 ELSE B[d]
BY DEF TakenFrom

\* Calls are given up together with those given up before.
LEMMA LateGrows ==
    ASSUME NEW C, late' = SumOf(late, Remaining(C)),
           \A c \in DOMAIN late : late[c] \in Nat \ {0}
    PROVE  /\ DOMAIN late' = DOMAIN late \cup {c \in C : c.stage \in Pending}
           /\ \A c \in DOMAIN late' :
                late'[c] = Held(late, c) + (IF c \in C /\ c.stage \in Pending THEN 1 ELSE 0)
<1>1. PICK B : B = Remaining(C)
  OBVIOUS
<1>2. /\ DOMAIN B = {c \in C : c.stage \in Pending}
      /\ \A c \in DOMAIN B : B[c] = 1
  BY <1>1, RemainingBag
<1>3. PICK L : L = late
  OBVIOUS
<1>4. late' = SumOf(L, B)
  BY <1>1, <1>3
<1> QED BY <1>2, <1>3, <1>4 DEF SumOf, Held

\* A call given up is served, and stays unless it is answered.
LEMMA LatePasses ==
    ASSUME NEW c \in DOMAIN late, NEW p, late' = SumOf(TakenFrom(late, c), Remaining({p})),
           \A d \in DOMAIN late : late[d] \in Nat \ {0}
    PROVE  LET rest == IF late[c] = 1 THEN DOMAIN late \ {c} ELSE DOMAIN late
           IN  /\ DOMAIN late' = rest \cup {d \in {p} : d.stage \in Pending}
               /\ \A d \in DOMAIN late' :
                    late'[d] = (IF d \in rest THEN IF d = c THEN late[c] - 1 ELSE late[d] ELSE 0)
                               + (IF d = p /\ d.stage \in Pending THEN 1 ELSE 0)
<1>1. PICK B : B = Remaining({p})
  OBVIOUS
<1>2. /\ DOMAIN B = {d \in {p} : d.stage \in Pending}
      /\ \A d \in DOMAIN B : B[d] = 1
  BY <1>1, RemainingBag
<1>3. PICK R : R = TakenFrom(late, c)
  OBVIOUS
<1>4. /\ DOMAIN R = IF late[c] = 1 THEN DOMAIN late \ {c} ELSE DOMAIN late
      /\ \A d \in DOMAIN R : R[d] = IF d = c THEN late[c] - 1 ELSE late[d]
  BY <1>3, RemoveBag
<1>5. late' = SumOf(R, B)
  BY <1>1, <1>3
<1>6. \A d \in DOMAIN late' : late'[d] = Held(R, d) + Held(B, d)
  BY <1>5 DEF SumOf
<1>7. DOMAIN late' = DOMAIN R \cup DOMAIN B
  BY <1>5 DEF SumOf
<1> QED BY <1>2, <1>4, <1>6, <1>7 DEF Held

-----------------------------------------------------------------------------
(* The chain of the calls about a plan: first its creation, then the testnet, *)
(* then paper.                                                             *)

\* A task keeps its place in the chain when no new call is given up about its
\* plan, and its plan is not executed by others the way it executes it.
LEMMA CallStays ==
    ASSUME NEW j \in Key, NEW t, CallInv(j, t),
           t.pc = "waiting" /\ HasPlan(t.call) =>
             LET i == t.call.plan
             IN  /\ i \in DOMAIN plans' /\ plans'[i].key = plans[i].key
                 /\ NoneLate("paper", i) => NoneLate("paper", i)'
                 /\ NoneLate("testnet", i) => NoneLate("testnet", i)'
                 /\ t.call.kind = "paper" \/ plans'[i].orders = plans[i].orders
                 /\ plans'[i].papers = plans[i].papers
    PROVE  CallInv(j, t)'
<1>1. CASE t.pc # "waiting"
  BY <1>1 DEF CallInv
<1>2. CASE t.pc = "waiting" /\ ~HasPlan(t.call)
  BY <1>2 DEF CallInv
<1>3. CASE t.pc = "waiting" /\ HasPlan(t.call)
  BY <1>3 DEF CallInv, HasPlan, Exec
<1> QED BY <1>1, <1>2, <1>3

\* A step that changes neither the plans nor the calls given up.
LEMMA QuietChain ==
    ASSUME ChainInv, late' = late, plans' = plans, \A k \in Key : CallInv(k, task'[k])
    PROVE  ChainInv'
<1>1. LateInv' /\ PlanCounts'
  BY DEF ChainInv, LateInv, PlanCounts
<1>2. ASSUME NEW k \in Key PROVE CallInv(k, task[k])'
  <2>1. PICK t : t = task'[k]
    OBVIOUS
  <2>2. CallInv(k, t)
    BY <2>1
  <2>3. t.pc = "waiting" /\ HasPlan(t.call) => t.call.plan \in DOMAIN plans
    BY <2>2 DEF CallInv
  <2>4. CallInv(k, t)'
    BY <2>2, <2>3, CallStays DEF NoneLate
  <2> QED BY <2>1, <2>4
<1> QED BY <1>1, <1>2 DEF ChainInv

LEMMA NoCallInv == ASSUME NEW k, NEW t, t.pc # "waiting", t.call = NoCall PROVE CallInv(k, t)
BY DEF CallInv

\* The task of one key changes, and the other tasks keep theirs.
LEMMA OneChain ==
    ASSUME WType, ChainInv, NEW k \in Key, NEW t, task' = [task EXCEPT ![k] = t],
           CallInv(k, t), late' = late, plans' = plans
    PROVE  ChainInv'
<1>1. \A j \in Key : task'[j] = IF j = k THEN t ELSE task[j]
  BY DEF WType
<1>2. \A j \in Key : CallInv(j, task'[j])
  BY <1>1 DEF ChainInv
<1> QED BY <1>2, QuietChain

LEMMA EndChain ==
    ASSUME WType, ChainInv, NEW k \in Key, NEW r \in {"done", "failed"}, End(k, r),
           late' = late, plans' = plans
    PROVE  ChainInv'
<1>1. PICK t : t = [Idle EXCEPT !.pc = r]
  OBVIOUS
<1>2. CallInv(k, t)
  BY <1>1, NoCallInv DEF Idle
<1> QED BY <1>1, <1>2, OneChain DEF End

\* The call after an answer that is about a plan of the task.
LEMMA NextCall ==
    ASSUME WType, ChainInv, NEW k \in Key, NEW kind \in {"testnet", "paper"},
           task[k].pc = "waiting", HasPlan(task[k].call),
           task[k].call.kind # "paper",
           kind = "testnet" => task[k].call.kind = "create"
    PROVE  CallInv(k, [task[k] EXCEPT !.call = [task[k].call EXCEPT !.kind = kind,
                                                                   !.stage = "sent"]])
<1>1. PICK old \in Task : old = task[k] /\ old.pc = "waiting" /\ old.call \in Call
  BY DEF WType, TaskOK
<1>2. CallInv(k, old)
  BY <1>1 DEF ChainInv
<1>3. PICK c : c = [old.call EXCEPT !.kind = kind, !.stage = "sent"]
  OBVIOUS
<1>4. /\ c.kind = kind /\ c.stage = "sent"
      /\ c.key = old.call.key /\ c.plan = old.call.plan
  BY <1>1, <1>3 DEF Call
<1>5. PICK t : t = [old EXCEPT !.call = c]
  OBVIOUS
<1>6. t.pc = "waiting" /\ t.call = c
  BY <1>1, <1>5 DEF Task
<1>7. old.call.kind = "create" \/ old.call.kind = "testnet"
  BY <1>1 DEF HasPlan, Exec
<1>8. CallInv(k, t)
  BY <1>1, <1>2, <1>4, <1>6, <1>7 DEF CallInv, HasPlan, Exec
<1> QED BY <1>1, <1>3, <1>5, <1>8

LEMMA SendChain ==
    ASSUME WType, ChainInv, NEW k \in Key, NEW kind \in {"testnet", "paper"},
           task[k].pc = "waiting", HasPlan(task[k].call),
           task[k].call.kind # "paper",
           kind = "testnet" => task[k].call.kind = "create",
           Send(k, kind), late' = late, plans' = plans
    PROVE  ChainInv'
<1>1. PICK old \in Task : old = task[k] /\ old.call \in Call
  BY DEF WType, TaskOK
<1>2. PICK t : t = [old EXCEPT !.call = [old.call EXCEPT !.kind = kind, !.stage = "sent"]]
  OBVIOUS
<1>3. task' = [task EXCEPT ![k] = t]
  BY <1>1, <1>2 DEF Send, WType
<1>4. CallInv(k, t)
  BY <1>1, <1>2, NextCall
<1> QED BY <1>3, <1>4, OneChain

\* The steps of a task that only it notices.
LEMMA ReadChain == ASSUME WType, ChainInv, NEW k \in Key, ReadCandle(k) PROVE ChainInv'
<1>1. PICK old \in Task : old = task[k] /\ old.pc \in {"packing", "packed"}
  BY DEF ReadCandle, WType, TaskOK
<1>2. PICK t : t = [old EXCEPT !.pc = "packed", !.seen = candle[k]]
  OBVIOUS
<1>3. task' = [task EXCEPT ![k] = t] /\ t.pc = "packed" /\ t.call = old.call
  BY <1>1, <1>2 DEF ReadCandle, WType, Task
<1>4. old.call = NoCall
  BY <1>1 DEF ChainInv, CallInv
<1> QED BY <1>3, <1>4, NoCallInv, OneChain DEF ReadCandle

LEMMA DecideChain ==
    ASSUME WType, ChainInv, NEW k \in Key, NEW c \in Candle, NEW source \in {"market", "demo"},
           Decide(k, c, source), late' = late, plans' = plans
    PROVE  ChainInv'
<1>1. CASE marks[k] = c
  BY <1>1, EndChain DEF Decide
<1>2. CASE marks[k] # c
  <2>1. PICK call : call = [kind |-> "create", key |-> k, candle |-> c,
                            source |-> source, plan |-> 0, stage |-> "sent"]
    OBVIOUS
  <2>2. PICK t : t = [pc |-> "waiting", seen |-> c, prev |-> marks[k], call |-> call]
    OBVIOUS
  <2>3. task' = [task EXCEPT ![k] = t]
    BY <1>2, <2>1, <2>2 DEF Decide
  <2>4. CallInv(k, t)
    BY <1>2, <2>1, <2>2 DEF CallInv, HasPlan, Exec
  <2> QED BY <2>3, <2>4, OneChain
<1> QED BY <1>1, <1>2

LEMMA CreatedChain == ASSUME WType, ChainInv, NEW k \in Key, Created(k) PROVE ChainInv'
<1>1. /\ task[k].pc = "waiting" /\ task[k].call.kind = "create"
      /\ HasPlan(task[k].call) /\ late' = late /\ plans' = plans
  BY DEF Created, HasPlan
<1>2. CASE Route(k)
  BY <1>1, <1>2, SendChain, EndChain DEF Route, Fallback
<1>3. CASE End(k, "done")
  BY <1>1, <1>3, EndChain
<1> QED BY <1>2, <1>3 DEF Created

LEMMA ExecutedChain == ASSUME WType, ChainInv, NEW k \in Key, Executed(k) PROVE ChainInv'
<1>1. /\ task[k].pc = "waiting" /\ HasPlan(task[k].call) /\ late' = late /\ plans' = plans
  BY DEF Executed, HasPlan, Exec
<1>2. CASE task[k].call.kind = "testnet" /\ Fallback(k, "failed")
  BY <1>1, <1>2, SendChain, EndChain DEF Fallback
<1>3. CASE End(k, "done")
  BY <1>1, <1>3, EndChain
<1> QED BY <1>2, <1>3 DEF Executed

\* Calls given up together, at most one for each key and each of them a task's
\* call, take their places among those given up before.
LEMMA GivenUpLate ==
    ASSUME WType, ChainInv, NEW K, K \subseteq Key, \A k \in K : task[k].pc = "waiting",
           late' = SumOf(late, Remaining({task[k].call : k \in K})), plans' = plans
    PROVE  LateInv' /\ DOMAIN late' = DOMAIN late \cup
                         {c \in {task[k].call : k \in K} : c.stage \in Pending}
<1> DEFINE C == {task[k].call : k \in K}
           N == {c \in C : c.stage \in Pending}
<1>1. \A c \in DOMAIN late : late[c] \in Nat \ {0}
  BY DEF ChainInv, LateInv
<1>2. /\ DOMAIN late' = DOMAIN late \cup N
      /\ \A c \in DOMAIN late' : late'[c] = Held(late, c) + (IF c \in N THEN 1 ELSE 0)
  BY <1>1, LateGrows
<1>3. \A c \in C : \E k \in K : c = task[k].call /\ CallInv(k, task[k])
  BY DEF ChainInv
<1>4. \A c \in C : c \in Call
  BY DEF WType, TaskOK
<1> HIDE DEF C
<1>5. \A c \in N : /\ c.kind = "create" => c.stage = "sent"
                   /\ c.kind = "paper" => c.stage \in {"sent", "checked"}
                   /\ Exec(c) => /\ c.plan \in DOMAIN plans /\ plans[c.plan].key = c.key
                                 /\ NoneLate(c.kind, c.plan)
                   /\ c.kind = "testnet" /\ c.stage # "ordered" => plans[c.plan].orders = 0
                   /\ c.kind = "paper" => plans[c.plan].papers = 0
  BY <1>3 DEF CallInv, HasPlan, Exec, Pending
<1>6. \A c \in N : Exec(c) => c \notin DOMAIN late
  BY <1>5 DEF NoneLate
<1>7. \A c, d \in N : Exec(c) /\ Exec(d) /\ c.plan = d.plan => c = d
  <2> SUFFICES ASSUME NEW c \in N, NEW d \in N, Exec(c), Exec(d), c.plan = d.plan
               PROVE  c = d
    OBVIOUS
  <2>1. PICK k \in K : c = task[k].call /\ CallInv(k, task[k])
    BY <1>3
  <2>2. PICK j \in K : d = task[j].call /\ CallInv(j, task[j])
    BY <1>3
  <2>3. plans[c.plan].key = k /\ plans[d.plan].key = j
    BY <2>1, <2>2 DEF CallInv, HasPlan
  <2> QED BY <2>1, <2>2, <2>3
<1>8. ASSUME NEW c \in DOMAIN late'
      PROVE  /\ late'[c] \in Nat \ {0}
             /\ c.kind = "create" => c.stage = "sent"
             /\ c.kind = "paper" => c.stage \in {"sent", "checked"}
             /\ Exec(c) => /\ late'[c] = 1
                           /\ c.plan \in DOMAIN plans /\ plans[c.plan].key = c.key
             /\ c.kind = "testnet" =>
                  /\ c.stage \in {"sent", "checked", "ordered"}
                  /\ c.stage # "ordered" => plans[c.plan].orders = 0
             /\ c.kind = "paper" => plans[c.plan].papers = 0
  <2>1. CASE c \in N
    <3>1. late'[c] \in Nat \ {0} /\ (Exec(c) => late'[c] = 1)
      BY <1>1, <1>2, <1>6, <2>1 DEF Held
    <3> QED BY <1>5, <2>1, <3>1 DEF Pending
  <2>2. CASE c \notin N
    <3>1. c \in DOMAIN late /\ late'[c] = late[c]
      BY <1>1, <1>2, <2>2 DEF Held
    <3> QED BY <3>1 DEF ChainInv, LateInv
  <2> QED BY <2>1, <2>2
<1>9. ASSUME NEW c \in DOMAIN late', NEW d \in DOMAIN late',
             Exec(c), c.kind = d.kind, c.plan = d.plan
      PROVE  c = d
  <2>1. CASE c \in N /\ d \in N
    BY <1>7, <1>9, <2>1 DEF Exec
  <2>2. CASE c \in N /\ d \notin N
    BY <1>2, <1>5, <1>9, <2>2 DEF NoneLate
  <2>3. CASE c \notin N /\ d \in N
    BY <1>2, <1>5, <1>9, <2>3 DEF NoneLate, Exec
  <2>4. CASE c \notin N /\ d \notin N
    BY <1>2, <1>9, <2>4 DEF ChainInv, LateInv
  <2> QED BY <2>1, <2>2, <2>3, <2>4
<1> QED BY <1>2, <1>8, <1>9 DEF LateInv, C

\* A task whose call was not given up keeps its place.
LEMMA OthersStay ==
    ASSUME WType, ChainInv, NEW K, K \subseteq Key,
           DOMAIN late' \subseteq DOMAIN late \cup {task[k].call : k \in K}, plans' = plans,
           \A k \in K : task[k].pc = "waiting",
           NEW j \in Key, j \notin K
    PROVE  \A t : t = task[j] => CallInv(j, t)'
<1>1. CallInv(j, task[j])
  BY DEF ChainInv
<1>2. ASSUME NEW t, t = task[j] PROVE CallInv(j, t)'
  <2>1. CallInv(j, t)
    BY <1>1, <1>2
  <2>2. ASSUME NEW kind \in {"testnet", "paper"}, t.pc = "waiting", HasPlan(t.call),
               NoneLate(kind, t.call.plan)
        PROVE  NoneLate(kind, t.call.plan)'
    <3> SUFFICES ASSUME NEW c \in DOMAIN late', c.kind = kind PROVE c.plan # t.call.plan
      BY DEF NoneLate
    <3>1. CASE c \in DOMAIN late
      BY <2>2, <3>1 DEF NoneLate
    <3>2. CASE c \notin DOMAIN late
      <4>1. PICK k \in K : c = task[k].call
        BY <3>2
      <4>2. CallInv(k, task[k]) /\ HasPlan(task[k].call)
        BY <4>1 DEF ChainInv, HasPlan, Exec
      <4>3. plans[c.plan].key = k /\ plans[t.call.plan].key = j
        BY <2>1, <2>2, <4>1, <4>2 DEF CallInv
      <4> QED BY <4>3
    <3> QED BY <3>1, <3>2
  <2>3. t.pc = "waiting" /\ HasPlan(t.call) => t.call.plan \in DOMAIN plans
    BY <2>1 DEF CallInv
  <2> QED BY <2>1, <2>2, <2>3, CallStays
<1> QED BY <1>1, <1>2

LEMMA GiveUpChain == ASSUME WType, ChainInv, NEW k \in Key, GiveUp(k) PROVE ChainInv'
<1>1. task[k].pc = "waiting" /\ plans' = plans
  BY DEF GiveUp
<1>2. CASE late' = late
  <2>1. CASE task[k].call.kind = "testnet" /\ Fallback(k, "failed")
    BY <1>1, <1>2, <2>1, SendChain, EndChain DEF Fallback, HasPlan, Exec
  <2>2. CASE End(k, "failed")
    BY <1>1, <1>2, <2>2, EndChain
  <2> QED BY <2>1, <2>2 DEF GiveUp
<1>3. CASE late' # late
  <2>1. PICK c : c = task[k].call
    OBVIOUS
  <2>2. late' = SumOf(late, Remaining({c}))
    BY <1>3, <2>1 DEF GiveUp, Abandon, SumOf, Held, (+)
  <2> DEFINE K == {k}
  <2>3. K \subseteq Key /\ {task[j].call : j \in K} = {c} /\ \A j : j \in K <=> j = k
    BY <2>1
  <2> HIDE DEF K
  <2>4. LateInv' /\ DOMAIN late' = DOMAIN late \cup {d \in {c} : d.stage \in Pending}
    <3>1. late' = SumOf(late, Remaining({task[j].call : j \in K}))
      BY <2>2, <2>3
    <3>2. \A j \in K : task[j].pc = "waiting"
      BY <1>1, <2>3
    <3>3. /\ LateInv'
          /\ DOMAIN late' = DOMAIN late \cup
               {d \in {task[j].call : j \in K} : d.stage \in Pending}
      BY <1>1, <2>3, <3>1, <3>2, GivenUpLate
    <3> QED BY <2>3, <3>3
  <2>5. PlanCounts'
    BY <1>1 DEF ChainInv, PlanCounts
  <2>6. DOMAIN task' = Key /\ \A j \in Key \ {k} : task'[j] = task[j]
    BY DEF GiveUp, Fallback, Send, End, WType
  <2>7. ASSUME NEW j \in Key, j # k PROVE CallInv(j, task[j])'
    <3>1. PICK t : t = task[j]
      OBVIOUS
    <3>2. /\ \A i \in K : task[i].pc = "waiting"
          /\ DOMAIN late' \subseteq DOMAIN late \cup {task[i].call : i \in K}
          /\ j \notin K
      BY <1>1, <2>3, <2>4, <2>7
    <3>3. CallInv(j, t)'
      BY <1>1, <2>3, <3>1, <3>2, OthersStay
    <3> QED BY <2>6, <2>7, <3>1, <3>3
  <2>8. CallInv(k, task[k])'
    <3>1. CASE End(k, "failed")
      <4>1. task'[k].pc # "waiting" /\ task'[k].call = NoCall
        BY <3>1 DEF End, Idle, WType
      <4> QED BY <4>1 DEF CallInv
    <3>2. CASE c.kind = "testnet" /\ Send(k, "paper")
      <4>1. PICK old \in Task : old = task[k] /\ old.call = c /\ c \in Call
        BY <1>1, <2>1 DEF WType, TaskOK
      <4>2. PICK t : t = [old EXCEPT !.call = [old.call EXCEPT !.kind = "paper", !.stage = "sent"]]
        OBVIOUS
      <4>3. task'[k] = t
        BY <3>2, <4>1, <4>2 DEF Send, WType
      <4>4. CallInv(k, t)
        BY <1>1, <2>1, <3>2, <4>1, <4>2, NextCall DEF HasPlan, Exec
      <4>5. t.call.kind = "paper" /\ t.call.plan = c.plan /\ t.pc = "waiting"
        BY <1>1, <4>1, <4>2 DEF Task, Call
      <4>6. /\ CallInv(k, old) /\ c.kind = "testnet" /\ old.pc = "waiting"
            /\ NoneLate("paper", c.plan) /\ c.plan \in DOMAIN plans
        BY <1>1, <3>2, <4>1 DEF ChainInv, CallInv, HasPlan, Exec
      <4>7. NoneLate("paper", c.plan)'
        BY <2>4, <4>6 DEF NoneLate
      <4>8. CallInv(k, t)'
        BY <1>1, <4>4, <4>5, <4>6, <4>7 DEF CallInv, HasPlan, Exec
      <4> QED BY <4>3, <4>8
    <3> QED BY <2>1, <3>1, <3>2 DEF GiveUp, Fallback
  <2>9. \A j \in Key : CallInv(j, task[j])'
    BY <2>7, <2>8
  <2> QED BY <2>4, <2>5, <2>9 DEF ChainInv
<1> QED BY <1>2, <1>3

\* A restart gives up the calls of all tasks.
LEMMA WaitingCalls ==
    ASSUME WType, ChainInv
    PROVE  Remaining({task[k].call : k \in Key})
             = Remaining({task[k].call : k \in {j \in Key : task[j].pc = "waiting"}})
<1>1. \A k \in Key : task[k].pc # "waiting" => task[k].call.stage \notin Pending
  BY DEF ChainInv, CallInv, NoCall, Pending
<1>2. {c \in {task[k].call : k \in Key} : c.stage \in Pending}
        = {c \in {task[k].call : k \in {j \in Key : task[j].pc = "waiting"}} : c.stage \in Pending}
  BY <1>1
<1> QED BY <1>2 DEF Remaining, Pending

LEMMA RestartLate ==
    ASSUME WType, ChainInv, Restart
    PROVE  LET C == {task[k].call : k \in {j \in Key : task[j].pc = "waiting"}}
           IN  /\ late' = SumOf(late, Remaining(C))
               /\ LateInv'
               /\ DOMAIN late' = DOMAIN late \cup {c \in C : c.stage \in Pending}
<1> DEFINE K == {j \in Key : task[j].pc = "waiting"}
<1>1. K \subseteq Key /\ \A k \in K : task[k].pc = "waiting"
  OBVIOUS
<1>2. late' = SumOf(late, Remaining({task[k].call : k \in Key}))
  BY DEF Restart, SumOf, Held, (+)
<1>3. late' = SumOf(late, Remaining({task[k].call : k \in K}))
  BY <1>2, WaitingCalls
<1>4. plans' = plans
  BY DEF Restart
<1> HIDE DEF K
<1>5. /\ LateInv'
      /\ DOMAIN late' = DOMAIN late \cup {c \in {task[k].call : k \in K} : c.stage \in Pending}
  BY <1>1, <1>3, <1>4, GivenUpLate
<1> QED BY <1>3, <1>5 DEF K

LEMMA RestartChain == ASSUME WType, ChainInv, Restart PROVE ChainInv'
<1>1. LateInv'
  BY RestartLate
<1>2. PlanCounts'
  BY DEF ChainInv, PlanCounts, Restart
<1>3. \A k \in Key : CallInv(k, task[k])'
  BY DEF Restart, CallInv, Idle
<1> QED BY <1>1, <1>2, <1>3 DEF ChainInv

LEMMA CycleChain == ASSUME WType, ChainInv, CycleStep PROVE ChainInv'
<1>1. late' = late /\ plans' = plans
  BY DEF CycleStep, StartCycle, Synced, EndCycle
<1>2. task' = task \/ \A k \in Key : task'[k].pc # "waiting" /\ task'[k].call = NoCall
  BY DEF CycleStep, StartCycle, Synced, EndCycle, Launch, Idle
<1>3. \A k \in Key : CallInv(k, task'[k])
  BY <1>2, NoCallInv DEF ChainInv
<1> QED BY <1>1, <1>3, QuietChain

\* A plan is stored: nobody has executed it or been asked to.
LEMMA StoredChain ==
    ASSUME WType, ChainInv, NEW c \in Call, NEW s \in Stage, c.kind = "create", Handle(c, s),
           DOMAIN late' \subseteq DOMAIN late,
           \A d \in DOMAIN late' : late'[d] \in Nat \ {0} /\ (Exec(d) => late'[d] = late[d])
    PROVE  /\ LateInv' /\ PlanCounts'
           /\ \A j \in Key : \A t : t = task[j] => CallInv(j, t)'
           /\ \A n : n = Len(plans) + 1 => NoneLate("testnet", n)' /\ NoneLate("paper", n)'
<1>1. /\ Len(plans) \in Nat /\ DOMAIN plans = 1 .. Len(plans)
      /\ DOMAIN plans' = DOMAIN plans \cup {Len(plans) + 1}
      /\ \A i \in DOMAIN plans : plans'[i] = plans[i]
      /\ plans'[Len(plans) + 1].orders = 0 /\ plans'[Len(plans) + 1].papers = 0
  BY CreateEffect DEF WType
<1>2. LateInv'
  <2>1. ASSUME NEW d \in DOMAIN late', Exec(d)
        PROVE  d.plan \in DOMAIN plans' /\ plans'[d.plan] = plans[d.plan]
    BY <1>1, <2>1 DEF ChainInv, LateInv
  <2>2. \A d \in DOMAIN late' : d \in DOMAIN late
    OBVIOUS
  <2> QED BY <2>1, <2>2 DEF ChainInv, LateInv, Exec
<1>3. PlanCounts'
  BY <1>1 DEF ChainInv, PlanCounts
<1>4. ASSUME NEW j \in Key, NEW t, t = task[j] PROVE CallInv(j, t)'
  <2>1. CallInv(j, t)
    BY <1>4 DEF ChainInv
  <2>2. t.pc = "waiting" /\ HasPlan(t.call) => t.call.plan \in DOMAIN plans
    BY <2>1 DEF CallInv
  <2> QED BY <1>1, <2>1, <2>2, CallStays DEF NoneLate
<1>5. ASSUME NEW n, n = Len(plans) + 1 PROVE NoneLate("testnet", n)' /\ NoneLate("paper", n)'
  <2> SUFFICES ASSUME NEW d \in DOMAIN late', Exec(d) PROVE d.plan # n
    BY DEF NoneLate, Exec
  <2>1. d.plan \in DOMAIN plans
    BY DEF ChainInv, LateInv
  <2> QED BY <1>1, <1>5, <2>1
<1> QED BY <1>2, <1>3, <1>4, <1>5

LEMMA ServeChain == ASSUME WType, ChainInv, NEW k \in Key, Serve(k) PROVE ChainInv'
<1>1. PICK s \in Stage : /\ Handle(task[k].call, s)
                        /\ task' = [task EXCEPT ![k].call = Passed(task[k].call, s)]
  BY DEF Serve
<1>2. PICK old \in Task : old = task[k] /\ old.pc = "waiting" /\ old.call \in Call
  BY DEF Serve, WType, TaskOK
<1>3. PICK c \in Call : c = old.call /\ Handle(c, s)
  BY <1>1, <1>2
<1>4. PICK p : p = Passed(c, s)
  OBVIOUS
<1>5. PICK t : t = [old EXCEPT !.call = p]
  OBVIOUS
<1>6. t.pc = "waiting" /\ t.call = p /\ t.prev = old.prev
  BY <1>2, <1>5 DEF Task
<1>7. task'[k] = t /\ \A j \in Key \ {k} : task'[j] = task[j]
  BY <1>1, <1>2, <1>3, <1>4, <1>5 DEF WType
<1>8. /\ p.stage = s /\ p.kind = c.kind /\ p.key = c.key /\ p.candle = c.candle
      /\ p.plan = IF c.kind = "create" THEN Len(plans) + 1 ELSE c.plan
  BY <1>4, PassedFields DEF WType
<1>9. CallInv(k, old) /\ late' = late /\ plans \in Seq(Plan)
  BY <1>2 DEF ChainInv, Serve, WType
<1>10. CASE c.kind = "create"
  <2>1. /\ LateInv' /\ PlanCounts'
        /\ \A j \in Key : \A u : u = task[j] => CallInv(j, u)'
        /\ \A n : n = Len(plans) + 1 => NoneLate("testnet", n)' /\ NoneLate("paper", n)'
    BY <1>3, <1>9, <1>10, StoredChain DEF ChainInv, LateInv
  <2>2. CallInv(k, t)'
    <3>1. /\ s \in {"approved", "blocked"}
          /\ Len(plans) + 1 \in DOMAIN plans'
          /\ plans'[Len(plans) + 1].key = c.key
          /\ plans'[Len(plans) + 1].orders = 0
          /\ plans'[Len(plans) + 1].papers = 0
      BY <1>3, <1>9, <1>10, CreateEffect
    <3>2. c.key = k /\ old.prev # c.candle
      BY <1>2, <1>3, <1>9, <1>10 DEF CallInv
    <3> QED BY <1>6, <1>8, <1>10, <2>1, <3>1, <3>2 DEF CallInv, HasPlan, Exec
  <2>3. ASSUME NEW j \in Key PROVE CallInv(j, task[j])'
    <3>1. CASE j = k
      BY <1>7, <2>2, <3>1
    <3>2. CASE j # k
      BY <1>7, <2>1, <3>2
    <3> QED BY <3>1, <3>2
  <2> QED BY <2>1, <2>3 DEF ChainInv
<1>11. CASE Exec(c)
  <2>1. /\ c.plan \in DOMAIN plans /\ plans[c.plan].key = k
        /\ NoneLate("paper", c.plan)
        /\ c.kind = "testnet" => NoneLate("testnet", c.plan) /\ plans[c.plan].papers = 0
        /\ c.kind = "testnet" /\ c.stage \in {"sent", "checked"} => plans[c.plan].orders = 0
        /\ c.kind = "paper" /\ c.stage \in {"sent", "checked"} => plans[c.plan].papers = 0
        /\ c.key = k
    BY <1>2, <1>3, <1>9, <1>11 DEF CallInv, HasPlan, Exec
  <2>2. /\ DOMAIN plans' = DOMAIN plans
        /\ \A i \in DOMAIN plans :
             /\ SamePlan(i)
             /\ i # c.plan => plans'[i] = plans[i]
             /\ c.kind = "paper" => plans'[i].orders = plans[i].orders
             /\ c.kind = "testnet" => plans'[i].papers = plans[i].papers
             /\ i = c.plan =>
                  /\ plans'[i].orders =
                       IF SendOrder(c, s) THEN plans[i].orders + 1 ELSE plans[i].orders
                  /\ plans'[i].papers =
                       IF CommitPaper(c, s) THEN plans[i].papers + 1 ELSE plans[i].papers
    BY <1>3, <1>9, <1>11, ExecEffect
  <2>3. /\ c.kind = "paper" => \/ c.stage = "sent" /\ s \in {"checked", "refused"}
                               \/ c.stage = "checked" /\ s = "executed"
        /\ c.kind = "testnet" => \/ c.stage = "sent" /\ s \in {"checked", "refused"}
                                 \/ c.stage = "checked" /\ s = "ordered"
                                 \/ c.stage = "ordered" /\ s \in {"executed", "refused"}
        /\ SendOrder(c, s) <=> c.kind = "testnet" /\ s = "ordered"
        /\ CommitPaper(c, s) <=> c.kind = "paper" /\ s = "executed"
    BY <1>3, <1>11, StageOrder
  <2>4. LateInv'
    <3>1. \A d \in DOMAIN late : Exec(d) =>
             /\ d.plan \in DOMAIN plans' /\ plans'[d.plan].key = d.key
             /\ d.kind = "testnet" => plans'[d.plan].orders = plans[d.plan].orders
             /\ d.kind = "paper" => plans'[d.plan].papers = plans[d.plan].papers
      BY <1>11, <2>1, <2>2 DEF ChainInv, LateInv, NoneLate, Exec, SamePlan
    <3> QED BY <1>9, <3>1 DEF ChainInv, LateInv, Exec
  <2>5. PlanCounts'
    BY <2>1, <2>2, <2>3 DEF ChainInv, PlanCounts
  <2>6. CallInv(k, t)'
    <3>1. /\ plans'[c.plan].key = k /\ c.plan \in DOMAIN plans'
          /\ NoneLate("paper", c.plan)'
          /\ c.kind = "testnet" => NoneLate("testnet", c.plan)' /\ plans'[c.plan].papers = 0
      BY <1>9, <2>1, <2>2 DEF NoneLate, SamePlan
    <3>2. CASE c.kind = "testnet"
      <4>1. /\ s \in {"sent", "checked"} => plans'[c.plan].orders = 0
            /\ p.plan = c.plan
        BY <1>8, <2>1, <2>2, <2>3, <3>2
      <4> QED BY <1>6, <1>8, <2>1, <3>1, <3>2, <4>1 DEF CallInv, HasPlan, Exec
    <3>3. CASE c.kind = "paper"
      <4>1. s # "ordered" /\ (s \in {"sent", "checked"} => plans'[c.plan].papers = 0)
        BY <2>1, <2>2, <2>3, <3>3
      <4> QED BY <1>6, <1>8, <2>1, <3>1, <3>3, <4>1 DEF CallInv, HasPlan, Exec
    <3> QED BY <1>11, <3>2, <3>3 DEF Exec
  <2>7. ASSUME NEW j \in Key PROVE CallInv(j, task[j])'
    <3>1. CASE j = k
      BY <1>7, <2>6, <3>1
    <3>2. CASE j # k
      <4>1. PICK u : u = task[j] /\ CallInv(j, u)
        BY DEF ChainInv
      <4>2. u.pc = "waiting" /\ HasPlan(u.call) =>
              u.call.plan \in DOMAIN plans /\ plans[u.call.plan].key = j
        BY <4>1 DEF CallInv
      <4>3. u.pc = "waiting" /\ HasPlan(u.call) =>
              u.call.plan \in DOMAIN plans' /\ plans'[u.call.plan] = plans[u.call.plan]
        BY <2>1, <2>2, <3>2, <4>2
      <4>4. CallInv(j, u)'
        BY <1>9, <4>1, <4>3, CallStays DEF NoneLate
      <4> QED BY <1>7, <3>2, <4>1, <4>4
    <3> QED BY <3>1, <3>2
  <2> QED BY <2>4, <2>5, <2>7 DEF ChainInv
<1> QED BY <1>10, <1>11 DEF Call, Exec

\* What serving the call c, which is p after it, leaves of the calls given up.
LateServed(c, p) ==
    /\ c.kind = "create" =>
         /\ DOMAIN late' = IF late[c] = 1 THEN DOMAIN late \ {c} ELSE DOMAIN late
         /\ \A d \in DOMAIN late' : late'[d] = IF d = c THEN late[c] - 1 ELSE late[d]
    /\ Exec(c) =>
         /\ DOMAIN late' = (DOMAIN late \ {c}) \cup {d \in {p} : d.stage \in Pending}
         /\ \A d \in DOMAIN late' : late'[d] = IF d = p THEN 1 ELSE late[d]
         /\ p \notin DOMAIN late \ {c}

LEMMA ServeLateEffect ==
    ASSUME WType, ChainInv, NEW c \in DOMAIN late, NEW s \in Stage, NEW p, p = Passed(c, s),
           Handle(c, s), late' = SumOf(TakenFrom(late, c), Remaining({p}))
    PROVE  c \in Call /\ LateServed(c, p)
<1>1. c \in Call /\ plans \in Seq(Plan)
  BY DEF WType
<1>2. late' = SumOf(TakenFrom(late, c), Remaining({p}))
  OBVIOUS
<1>3. \A d \in DOMAIN late : late[d] \in Nat \ {0}
  BY DEF ChainInv, LateInv
<1>4. PICK rest : rest = IF late[c] = 1 THEN DOMAIN late \ {c} ELSE DOMAIN late
  OBVIOUS
<1>5. /\ DOMAIN late' = rest \cup {d \in {p} : d.stage \in Pending}
      /\ \A d \in DOMAIN late' :
           late'[d] = (IF d \in rest THEN IF d = c THEN late[c] - 1 ELSE late[d] ELSE 0)
                      + (IF d = p /\ d.stage \in Pending THEN 1 ELSE 0)
  BY <1>2, <1>3, <1>4, LatePasses
<1>6. /\ p.stage = s /\ p.kind = c.kind
      /\ p.plan = IF c.kind = "create" THEN Len(plans) + 1 ELSE c.plan
  BY <1>1, PassedFields
<1>7. CASE c.kind = "create"
  <2>1. p.stage \notin Pending
    BY <1>1, <1>6, <1>7, CreateEffect DEF Pending
  <2>2. DOMAIN late' = rest
    BY <1>5, <2>1
  <2>3. ASSUME NEW d \in DOMAIN late'
        PROVE  late'[d] = IF d = c THEN late[c] - 1 ELSE late[d]
    <3>1. d \in rest /\ d \in DOMAIN late /\ ~(d = p /\ d.stage \in Pending)
      BY <1>4, <2>1, <2>2
    <3>2. late'[d] = (IF d = c THEN late[c] - 1 ELSE late[d]) + 0
      BY <1>5, <3>1
    <3>3. late[d] \in Nat /\ late[c] \in Nat
      BY <1>3, <3>1
    <3> QED BY <3>2, <3>3
  <2> QED BY <1>1, <1>4, <1>7, <2>2, <2>3 DEF Exec, LateServed
<1>8. CASE Exec(c)
  <2>1. late[c] = 1 /\ rest = DOMAIN late \ {c}
    BY <1>4, <1>8 DEF ChainInv, LateInv
  <2>2. p \notin rest
    <3> SUFFICES ASSUME p \in DOMAIN late PROVE p = c
      BY <2>1
    <3>1. p.kind = c.kind /\ p.plan = c.plan
      BY <1>6, <1>8 DEF Exec
    <3> QED BY <1>8, <3>1 DEF ChainInv, LateInv
  <2>3. ASSUME NEW d \in DOMAIN late'
        PROVE  late'[d] = IF d = p THEN 1 ELSE late[d]
    <3>1. CASE d = p
      <4>1. d \notin rest /\ d.stage \in Pending
        BY <1>5, <2>2, <3>1
      <4>2. late'[d] = 0 + 1
        BY <1>5, <3>1, <4>1
      <4> QED BY <3>1, <4>2
    <3>2. CASE d # p
      <4>1. d \in rest /\ d # c /\ late[d] \in Nat
        BY <1>3, <1>5, <2>1, <3>2
      <4>2. late'[d] = late[d] + 0
        BY <1>5, <3>2, <4>1
      <4> QED BY <3>2, <4>1, <4>2
    <3> QED BY <3>1, <3>2
  <2>4. DOMAIN late' = (DOMAIN late \ {c}) \cup {d \in {p} : d.stage \in Pending}
    BY <1>5, <2>1
  <2>5. p \notin DOMAIN late \ {c}
    BY <2>1, <2>2
  <2>6. c.kind # "create"
    BY <1>8 DEF Exec
  <2> QED BY <1>1, <2>3, <2>4, <2>5, <2>6 DEF LateServed
<1>9. c.kind = "create" \/ Exec(c)
  BY <1>1 DEF Call, Exec
<1> QED BY <1>7, <1>8, <1>9

LEMMA ServeLateChain == ASSUME WType, ChainInv, ServeLate PROVE ChainInv'
<1>1. PICK c \in DOMAIN late, s \in Stage :
        Handle(c, s) /\ late' = SumOf(TakenFrom(late, c), Remaining({Passed(c, s)}))
  BY ServeLateTakes
<1>2. PICK p : p = Passed(c, s) /\ late' = SumOf(TakenFrom(late, c), Remaining({p}))
  BY <1>1
<1>3. c \in Call /\ LateServed(c, p)
  BY <1>1, <1>2, ServeLateEffect
<1>4. /\ p.stage = s /\ p.kind = c.kind /\ p.key = c.key
      /\ p.plan = IF c.kind = "create" THEN Len(plans) + 1 ELSE c.plan
  BY <1>2, <1>3, PassedFields DEF WType
<1>5. task' = task /\ plans \in Seq(Plan)
  BY DEF ServeLate, WType
<1>6. \A d \in DOMAIN late : late[d] \in Nat \ {0}
  BY DEF ChainInv, LateInv
<1>7. CASE c.kind = "create"
  <2>1. /\ DOMAIN late' \subseteq DOMAIN late
        /\ \A d \in DOMAIN late' :
             late'[d] \in Nat \ {0} /\ (Exec(d) => late'[d] = late[d])
    BY <1>3, <1>6, <1>7 DEF Exec, LateServed
  <2>2. /\ LateInv' /\ PlanCounts'
        /\ \A j \in Key : \A u : u = task[j] => CallInv(j, u)'
    BY <1>1, <1>3, <1>7, <2>1, StoredChain
  <2>3. \A j \in Key : CallInv(j, task[j])'
    BY <1>5, <2>2
  <2> QED BY <2>2, <2>3 DEF ChainInv
<1>8. CASE Exec(c)
  <2>1. /\ c.plan \in DOMAIN plans /\ plans[c.plan].key = c.key
        /\ c.kind = "testnet" /\ c.stage # "ordered" => plans[c.plan].orders = 0
        /\ c.kind = "paper" => plans[c.plan].papers = 0
        /\ \A d \in DOMAIN late \ {c} : d.kind = c.kind => d.plan # c.plan
    BY <1>8 DEF ChainInv, LateInv, Exec
  <2>2. /\ DOMAIN plans' = DOMAIN plans
        /\ \A i \in DOMAIN plans :
             /\ SamePlan(i)
             /\ i # c.plan => plans'[i] = plans[i]
             /\ c.kind = "paper" => plans'[i].orders = plans[i].orders
             /\ c.kind = "testnet" => plans'[i].papers = plans[i].papers
             /\ i = c.plan =>
                  /\ plans'[i].orders =
                       IF SendOrder(c, s) THEN plans[i].orders + 1 ELSE plans[i].orders
                  /\ plans'[i].papers =
                       IF CommitPaper(c, s) THEN plans[i].papers + 1 ELSE plans[i].papers
    BY <1>1, <1>3, <1>5, <1>8, ExecEffect
  <2>3. /\ c.kind = "paper" => \/ c.stage = "sent" /\ s \in {"checked", "refused"}
                               \/ c.stage = "checked" /\ s = "executed"
        /\ c.kind = "testnet" => \/ c.stage = "sent" /\ s \in {"checked", "refused"}
                                 \/ c.stage = "checked" /\ s = "ordered"
                                 \/ c.stage = "ordered" /\ s \in {"executed", "refused"}
        /\ SendOrder(c, s) <=> c.kind = "testnet" /\ s = "ordered"
        /\ CommitPaper(c, s) <=> c.kind = "paper" /\ s = "executed"
    BY <1>1, <1>3, <1>8, StageOrder
  <2>4. p.plan = c.plan /\ p.kind = c.kind /\ Exec(p)
    BY <1>4, <1>8 DEF Exec
  <2>5. \A d \in DOMAIN late' : (d = p /\ p.stage \in Pending) \/ d \in DOMAIN late \ {c}
    BY <1>3, <1>8 DEF LateServed
  <2>6. LateInv'
    <3>1. ASSUME NEW d \in DOMAIN late \ {c}, d # p, d \in DOMAIN late'
          PROVE  /\ late'[d] \in Nat \ {0}
                 /\ d.kind = "create" => d.stage = "sent"
                 /\ d.kind = "paper" => d.stage \in {"sent", "checked"}
                 /\ Exec(d) => /\ late'[d] = 1
                               /\ d.plan \in DOMAIN plans' /\ plans'[d.plan].key = d.key
                 /\ d.kind = "testnet" =>
                      /\ d.stage \in {"sent", "checked", "ordered"}
                      /\ d.stage # "ordered" => plans'[d.plan].orders = 0
                 /\ d.kind = "paper" => plans'[d.plan].papers = 0
      <4>1. late'[d] = late[d]
        BY <1>3, <1>8, <3>1 DEF LateServed
      <4>2. Exec(d) => d.plan \in DOMAIN plans
        BY DEF ChainInv, LateInv
      <4>3. d.kind = "testnet" => plans'[d.plan].orders = plans[d.plan].orders
        BY <1>8, <2>1, <2>2, <4>2 DEF Exec
      <4>4. d.kind = "paper" => plans'[d.plan].papers = plans[d.plan].papers
        BY <1>8, <2>1, <2>2, <4>2 DEF Exec
      <4> QED BY <2>2, <4>1, <4>2, <4>3, <4>4 DEF ChainInv, LateInv, Exec, SamePlan
    <3>2. ASSUME p \in DOMAIN late', p.stage \in Pending
          PROVE  /\ late'[p] = 1
                 /\ p.plan \in DOMAIN plans' /\ plans'[p.plan].key = p.key
                 /\ p.kind = "paper" => p.stage \in {"sent", "checked"}
                 /\ p.kind = "testnet" =>
                      /\ p.stage \in {"sent", "checked", "ordered"}
                      /\ p.stage # "ordered" => plans'[p.plan].orders = 0
                 /\ p.kind = "paper" => plans'[p.plan].papers = 0
      <4>1. late'[p] = 1 /\ p.plan \in DOMAIN plans' /\ plans'[p.plan].key = p.key
        BY <1>3, <1>4, <1>8, <2>1, <2>2, <2>4, <3>2 DEF SamePlan, LateServed
      <4>2. p.kind = "testnet" =>
              /\ p.stage \in {"sent", "checked", "ordered"}
              /\ p.stage # "ordered" => plans'[p.plan].orders = 0
        BY <1>4, <2>1, <2>2, <2>3, <2>4, <3>2 DEF Pending
      <4>3. p.kind = "paper" => p.stage \in {"sent", "checked"} /\ plans'[p.plan].papers = 0
        BY <1>4, <2>1, <2>2, <2>3, <2>4, <3>2 DEF Pending
      <4> QED BY <4>1, <4>2, <4>3
    <3>3. ASSUME NEW d \in DOMAIN late', NEW e \in DOMAIN late',
                 Exec(d), d.kind = e.kind, d.plan = e.plan
          PROVE  d = e
      <4>1. CASE d \in DOMAIN late \ {c} /\ e \in DOMAIN late \ {c}
        BY <3>3, <4>1 DEF ChainInv, LateInv
      <4> QED BY <2>1, <2>4, <2>5, <3>3, <4>1
    <3>4. \A d \in DOMAIN late' :
             /\ d # p => d \in DOMAIN late \ {c}
             /\ d = p => Exec(p) /\ (p.stage \in Pending \/ p \in DOMAIN late \ {c})
      BY <2>4, <2>5
    <3>5. p \notin DOMAIN late \ {c}
      BY <1>3, <1>8 DEF LateServed
    <3> QED BY <3>1, <3>2, <3>3, <3>4, <3>5 DEF LateInv, Exec
  <2>7. PlanCounts'
    BY <2>1, <2>2, <2>3 DEF ChainInv, PlanCounts
  <2>8. ASSUME NEW j \in Key PROVE CallInv(j, task[j])'
    <3>1. PICK u : u = task[j] /\ CallInv(j, u)
      BY DEF ChainInv
    <3>2. ASSUME u.pc = "waiting", HasPlan(u.call)
          PROVE  LET i == u.call.plan
                 IN  /\ i \in DOMAIN plans' /\ plans'[i].key = plans[i].key
                     /\ NoneLate("paper", i) => NoneLate("paper", i)'
                     /\ NoneLate("testnet", i) => NoneLate("testnet", i)'
                     /\ u.call.kind = "paper" \/ plans'[i].orders = plans[i].orders
                     /\ plans'[i].papers = plans[i].papers
      <4>1. PICK i : i = u.call.plan
        OBVIOUS
      <4>2. /\ i \in DOMAIN plans /\ NoneLate("paper", i)
            /\ u.call.kind # "paper" => NoneLate("testnet", i)
        BY <3>1, <3>2, <4>1 DEF CallInv
      <4>3. \A kind : NoneLate(kind, i) => NoneLate(kind, i)'
        BY <2>4, <2>5 DEF NoneLate
      <4>4. /\ c.kind = "paper" => i # c.plan
            /\ c.kind = "testnet" /\ u.call.kind # "paper" => i # c.plan
        BY <4>2 DEF NoneLate
      <4>5. i \in DOMAIN plans' /\ plans'[i].key = plans[i].key
        BY <2>2, <4>2 DEF SamePlan
      <4>6. u.call.kind = "paper" \/ plans'[i].orders = plans[i].orders
        BY <1>8, <2>2, <4>2, <4>4 DEF Exec
      <4>7. plans'[i].papers = plans[i].papers
        BY <1>8, <2>2, <4>2, <4>4 DEF Exec
      <4> QED BY <4>1, <4>3, <4>5, <4>6, <4>7
    <3>3. CallInv(j, u)'
      BY <3>1, <3>2, CallStays
    <3> QED BY <1>5, <3>1, <3>3
  <2> QED BY <2>6, <2>7, <2>8 DEF ChainInv
<1> QED BY <1>3, <1>7, <1>8 DEF Call, Exec

LEMMA ChainStep == ASSUME WType, ChainInv, Next PROVE ChainInv'
<1>1. ASSUME NEW k \in Key, TaskStep(k) PROVE ChainInv'
  <2>1. ASSUME PlanFromMarket(k) PROVE ChainInv'
    <3>1. PICK c \in Candle : c = task[k].seen
      BY <2>1 DEF PlanFromMarket, WType, TaskOK
    <3> QED BY <2>1, <3>1, DecideChain DEF PlanFromMarket
  <2>2. ASSUME PlanFromDemo(k) PROVE ChainInv'
    <3>1. DemoCandle \in Candle
      BY WorkerAssumption DEF DemoCandle, Candle
    <3> QED BY <2>2, <3>1, DecideChain, EndChain DEF PlanFromDemo
  <2> QED BY <1>1, <2>1, <2>2, ReadChain, CreatedChain, ExecutedChain, GiveUpChain, ServeChain
          DEF TaskStep
<1>2. ASSUME NEW k \in Key, Advance(k) PROVE ChainInv'
  <2>1. late' = late /\ plans' = plans /\ task' = task
    BY <1>2 DEF Advance
  <2> QED BY <2>1, QuietChain DEF ChainInv
<1> QED BY <1>1, <1>2, CycleChain, ServeLateChain, RestartChain DEF Next

\* No plan is executed twice in one way, and calls given up are about a plan
\* the worker has left behind, however late they are served.
THEOREM ChainInvariance == Spec => []ChainInv
<1>1. Init => ChainInv
  <2> SUFFICES ASSUME Init PROVE ChainInv
    OBVIOUS
  <2>1. DOMAIN late = {} /\ plans = <<>> /\ \A k \in Key : task[k] = Idle
    BY DEF Init, EmptyBag, SetToBag
  <2> QED BY <2>1 DEF ChainInv, LateInv, PlanCounts, CallInv, Idle
<1>2. ASSUME WInv, ChainInv, [Next]_vars PROVE ChainInv'
  <2>1. CASE UNCHANGED vars
    <3>1. late' = late /\ plans' = plans /\ task' = task
      BY <2>1 DEF vars
    <3> QED BY <1>2, <3>1, QuietChain DEF ChainInv
  <2> QED BY <1>2, <2>1, ChainStep DEF WInv
<1> QED BY <1>1, <1>2, MarksInvariant, PTL DEF Spec

-----------------------------------------------------------------------------
(* The counters of the bounds, and the types of what the steps of a task    *)
(* leave alone.                                                            *)

Counters ==
    /\ conf \in Settings
    /\ phase \in {"sleeping", "syncing", "running"}
    /\ lost \in [Key -> 0 .. MaxLost]
    /\ demos \in 0 .. MaxDemo
    /\ restarts \in 0 .. MaxRestarts

\* A step of a handler loses at most one answer, of its own key.
LEMMA HandleLoses ==
    ASSUME NEW c \in Call, NEW s \in Stage, Handle(c, s), lost \in [Key -> 0 .. MaxLost]
    PROVE  lost' \in [Key -> 0 .. MaxLost] /\ \A j \in Key : lost'[j] >= lost[j]
<1>1. c.key \in Key
  BY DEF Call
<1>2. CASE lost' = lost
  BY <1>2
<1>3. CASE lost[c.key] < MaxLost /\ lost' = [lost EXCEPT ![c.key] = @ + 1]
  BY <1>1, <1>3, WorkerAssumption
<1> QED BY <1>2, <1>3 DEF Handle, StorePlan, CheckExecution, SendOrder, LoseOrder,
                          CommitTestnet, CommitPaper

LEMMA CountersStep ==
    ASSUME WType, Counters, [Next]_vars
    PROVE  Counters' /\ (\A j \in Key : lost'[j] >= lost[j]) /\ restarts' >= restarts
<1> USE DEF Counters
<1>1. ASSUME NEW k \in Key, TaskStep(k)
      PROVE  Counters' /\ (\A j \in Key : lost'[j] >= lost[j]) /\ restarts' >= restarts
  <2>1. CASE ReadCandle(k) \/ PlanFromMarket(k) \/ Created(k) \/ Executed(k)
    BY <2>1 DEF ReadCandle, PlanFromMarket, Created, Executed, budget
  <2>2. CASE PlanFromDemo(k)
    BY <2>2, WorkerAssumption DEF PlanFromDemo
  <2>3. CASE GiveUp(k)
    BY <2>3, WorkerAssumption DEF GiveUp
  <2>4. CASE Serve(k)
    <3>1. PICK c \in Call, s \in Stage : Handle(c, s)
      BY <2>4 DEF Serve, WType, TaskOK
    <3> QED BY <2>4, <3>1, HandleLoses DEF Serve
  <2> QED BY <1>1, <2>1, <2>2, <2>3, <2>4 DEF TaskStep
<1>2. ASSUME NEW k \in Key, Advance(k)
      PROVE  Counters' /\ (\A j \in Key : lost'[j] >= lost[j]) /\ restarts' >= restarts
  BY <1>2 DEF Advance, budget
<1>3. CASE CycleStep
  BY <1>3 DEF CycleStep, StartCycle, Synced, EndCycle, Launch, budget
<1>4. CASE ServeLate
  <2>1. PICK c \in Call, s \in Stage : Handle(c, s)
    BY <1>4 DEF ServeLate, WType
  <2> QED BY <1>4, <2>1, HandleLoses DEF ServeLate
<1>5. CASE Restart
  BY <1>5, WorkerAssumption DEF Restart
<1>6. CASE UNCHANGED vars
  BY <1>6 DEF vars
<1> QED BY <1>1, <1>2, <1>3, <1>4, <1>5, <1>6 DEF Next

THEOREM CountersInvariance == Spec => []Counters
<1>1. Init => Counters
  BY WorkerAssumption DEF Init, Counters
<1>2. WInv /\ Counters /\ [Next]_vars => Counters'
  BY CountersStep DEF WInv
<1> QED BY <1>1, <1>2, MarksInvariant, PTL DEF Spec

\* The worker's memory, its calls and its plans have their types; a plan has
\* at most one order and at most one paper execution.
THEOREM WorkerTypes == Spec => []TypeOK
<1>1. ASSUME WInv, ChainInv, Counters PROVE TypeOK
  <2>1. task \in [Key -> Task]
    BY <1>1 DEF WInv, WType, TaskOK
  <2> DEFINE P == [key : Key, candle : Candle, source : {"market", "demo"},
                   status : {"approved", "blocked", "executed", "paper_executed"},
                   orders : 0 .. 1, papers : 0 .. 1]
  <2>2. plans \in Seq(Plan) /\ Len(plans) \in Nat
    BY <1>1 DEF WInv, WType
  <2>3. \A i \in 1 .. Len(plans) : plans[i] \in P
    <3> SUFFICES ASSUME NEW i \in 1 .. Len(plans) PROVE plans[i] \in P
      OBVIOUS
    <3>1. plans[i] \in Plan /\ plans[i].orders \in 0 .. 1 /\ plans[i].papers \in 0 .. 1
      BY <1>1, <2>2 DEF ChainInv, PlanCounts
    <3> QED BY <3>1 DEF Plan
  <2> HIDE DEF P
  <2>4. plans \in Seq(P)
    BY <2>2, <2>3
  <2> QED BY <1>1, <2>1, <2>4 DEF TypeOK, WInv, WType, Counters, Task, P
<1> QED BY <1>1, MarksInvariant, ChainInvariance, CountersInvariance, PTL

-----------------------------------------------------------------------------
(* Plans executed both ways.                                               *)

LEMMA DoubledFinite ==
    ASSUME plans \in Seq(Plan), NEW k
    PROVE  IsFiniteSet(Doubled(k))
<1>1. IsFiniteSet(1 .. Len(plans))
  <2>1. 1 \in Int /\ Len(plans) \in Int
    OBVIOUS
  <2> QED BY <2>1, FS_Interval
<1>2. Doubled(k) \subseteq 1 .. Len(plans)
  BY DEF Doubled
<1> QED BY <1>1, <1>2, FS_Subset

\* What a step may do to the plans executed both ways: there are no more of
\* them, or one more and one more lost call.
DoubledStep(k) ==
    \/ Doubled(k)' \subseteq Doubled(k)
    \/ /\ lost'[k] = lost[k] + 1
       /\ \E i \in Nat : Doubled(k)' \subseteq Doubled(k) \cup {i}

LEMMA DoubledPaid ==
    ASSUME WType, Counters, NEW k \in Key, Cardinality(Doubled(k)) <= lost[k],
           lost' \in [Key -> 0 .. MaxLost], lost'[k] >= lost[k], DoubledStep(k)
    PROVE  Cardinality(Doubled(k)') <= lost'[k]
<1>1. PICK D : D = Doubled(k) /\ IsFiniteSet(D) /\ Cardinality(D) \in Nat
  BY DoubledFinite, FS_CardinalityType DEF WType
<1>2. PICK E : E = Doubled(k)'
  OBVIOUS
<1>3. lost[k] \in Nat /\ lost'[k] \in Nat
  BY WorkerAssumption DEF Counters
<1>4. CASE E \subseteq D
  <2>1. Cardinality(E) \in Nat /\ Cardinality(E) <= Cardinality(D)
    BY <1>1, <1>4, FS_Subset, FS_CardinalityType
  <2> QED BY <1>1, <1>2, <1>3, <2>1
<1>5. ASSUME NEW i \in Nat, E \subseteq D \cup {i}, lost'[k] = lost[k] + 1
      PROVE  Cardinality(E) <= lost'[k]
  <2>1. /\ IsFiniteSet(D \cup {i})
        /\ Cardinality(D \cup {i}) = Cardinality(D) \/ Cardinality(D \cup {i}) = Cardinality(D) + 1
    BY <1>1, FS_AddElement
  <2>2. Cardinality(E) \in Nat /\ Cardinality(E) <= Cardinality(D \cup {i})
    BY <1>5, <2>1, FS_Subset, FS_CardinalityType
  <2> QED BY <1>1, <1>3, <1>5, <2>1, <2>2
<1> QED BY <1>1, <1>2, <1>4, <1>5 DEF DoubledStep

\* Element by element.
LEMMA DoubledShrinks ==
    ASSUME NEW k,
           \A i \in DOMAIN plans' : plans'[i].key = k /\ Ordered(i)' /\ OnPaper(i)' =>
               i \in DOMAIN plans /\ plans[i].key = k /\ Ordered(i) /\ OnPaper(i)
    PROVE  Doubled(k)' \subseteq Doubled(k)
BY DEF Doubled

LEMMA PlanKeys == ASSUME WType, NEW i \in DOMAIN plans PROVE plans[i].key \in Key
<1>1. plans[i] \in Plan
  BY DEF WType
<1> QED BY <1>1 DEF Plan

\* Only the tasks change.
LEMMA QuietDoubled ==
    ASSUME WType, late' = late, plans' = plans,
           \A k \in Key : \A i \in DOMAIN plans :
               BoundForPaper(task'[k], i) /\ plans[i].key = k /\ Ordered(i) => OnPaper(i)
    PROVE  \A k \in Key : DoubledStep(k)
<1> SUFFICES ASSUME NEW k \in Key PROVE Doubled(k)' \subseteq Doubled(k)
  BY DEF DoubledStep
<1>1. ASSUME NEW i \in DOMAIN plans, plans[i].key = k, Ordered(i)', OnPaper(i)'
      PROVE  Ordered(i) /\ OnPaper(i)
  <2>1. Ordered(i)
    BY <1>1 DEF Ordered, NoneLate
  <2>2. CASE BoundForPaper(task'[k], i)
    BY <1>1, <2>1, <2>2
  <2>3. CASE ~BoundForPaper(task'[k], i)
    <3>1. OnPaper(i)' => \/ plans'[i].papers # 0 \/ ~NoneLate("paper", i)'
                         \/ BoundForPaper(task'[plans'[i].key], i)
      BY DEF OnPaper, BoundForPaper
    <3>2. plans'[i].papers # 0 \/ ~NoneLate("paper", i)'
      BY <1>1, <2>3, <3>1
    <3> QED BY <2>1, <3>2 DEF OnPaper, NoneLate
  <2> QED BY <2>1, <2>2, <2>3
<1> QED BY <1>1, DoubledShrinks

\* The task of one key changes, to one that is not bound for paper or was.
LEMMA OneDoubled ==
    ASSUME WType, NEW k \in Key, late' = late, plans' = plans,
           \A j \in Key \ {k} : task'[j] = task[j],
           \A i \in DOMAIN plans :
               BoundForPaper(task'[k], i) /\ plans[i].key = k /\ Ordered(i) => OnPaper(i)
    PROVE  \A j \in Key : DoubledStep(j)
<1>1. ASSUME NEW j \in Key, NEW i \in DOMAIN plans,
             BoundForPaper(task'[j], i), plans[i].key = j, Ordered(i)
      PROVE  OnPaper(i)
  BY <1>1 DEF OnPaper
<1> QED BY <1>1, QuietDoubled

LEMMA QuietTaskDoubled ==
    ASSUME WType, NEW k \in Key, late' = late, plans' = plans,
           \A j \in Key \ {k} : task'[j] = task[j],
           task'[k].pc # "waiting" \/ task'[k].call.kind = "create"
    PROVE  \A j \in Key : DoubledStep(j)
BY OneDoubled DEF BoundForPaper

\* A task asks for an execution of its plan.
LEMMA SentTask ==
    ASSUME WType, NEW k \in Key, NEW kind \in {"testnet", "paper"}, task[k].pc = "waiting",
           Send(k, kind)
    PROVE  /\ \A j \in Key \ {k} : task'[j] = task[j]
           /\ task'[k].pc = "waiting"
           /\ task'[k].call.kind = kind /\ task'[k].call.stage = "sent"
           /\ task'[k].call.plan = task[k].call.plan
<1>1. PICK old \in Task : old = task[k] /\ old.pc = "waiting" /\ old.call \in Call
  BY DEF WType, TaskOK
<1>2. PICK c : c = [old.call EXCEPT !.kind = kind, !.stage = "sent"]
  OBVIOUS
<1>3. c.kind = kind /\ c.stage = "sent" /\ c.plan = old.call.plan
  BY <1>1, <1>2 DEF Call
<1>4. PICK t : t = [old EXCEPT !.call = c]
  OBVIOUS
<1>5. t.call = c /\ t.pc = "waiting"
  BY <1>1, <1>4 DEF Task
<1>6. task' = [task EXCEPT ![k] = t]
  BY <1>1, <1>2, <1>4 DEF Send, WType
<1>7. task'[k] = t /\ \A j \in Key \ {k} : task'[j] = task[j]
  BY <1>6 DEF WType
<1> QED BY <1>1, <1>3, <1>5, <1>7

\* A task goes on to paper: its plan has no order, or it was bound for paper.
LEMMA PaperDoubled ==
    ASSUME WType, ChainInv, NEW k \in Key, late' = late, plans' = plans,
           task[k].pc = "waiting", Send(k, "paper"),
           \/ task[k].call.kind = "create" /\ task[k].call.stage # "sent"
           \/ task[k].call.kind = "testnet" /\ task[k].call.stage = "refused"
    PROVE  \A j \in Key : DoubledStep(j)
<1>1. /\ \A j \in Key \ {k} : task'[j] = task[j]
      /\ task'[k].call.plan = task[k].call.plan
  BY SentTask
<1>2. ASSUME NEW i \in DOMAIN plans, BoundForPaper(task'[k], i), plans[i].key = k, Ordered(i)
      PROVE  OnPaper(i)
  <2>1. task[k].call.plan = i
    BY <1>1, <1>2 DEF BoundForPaper
  <2>2. CASE task[k].call.kind = "testnet"
    BY <1>2, <2>1, <2>2 DEF OnPaper, BoundForPaper
  <2>3. CASE task[k].call.kind = "create"
    <3>1. CallInv(k, task[k]) /\ HasPlan(task[k].call)
      BY <2>3 DEF ChainInv, HasPlan
    <3>2. plans[i].orders = 0 /\ NoneLate("testnet", i)
      BY <2>1, <2>3, <3>1 DEF CallInv
    <3> QED BY <1>2, <3>2 DEF Ordered
  <2> QED BY <2>2, <2>3
<1> QED BY <1>1, <1>2, OneDoubled

\* A task ends, or goes to the testnet.
LEMMA EndDoubled ==
    ASSUME WType, NEW k \in Key, late' = late, plans' = plans,
           NEW r \in {"done", "failed"}, End(k, r)
    PROVE  \A j \in Key : DoubledStep(j)
<1>1. task'[k].pc # "waiting" /\ \A j \in Key \ {k} : task'[j] = task[j]
  BY DEF End, WType, Idle
<1> QED BY <1>1, QuietTaskDoubled

LEMMA TestnetDoubled ==
    ASSUME WType, NEW k \in Key, late' = late, plans' = plans, task[k].pc = "waiting",
           Send(k, "testnet")
    PROVE  \A j \in Key : DoubledStep(j)
<1>1. /\ \A j \in Key \ {k} : task'[j] = task[j]
      /\ task'[k].call.kind = "testnet" /\ task'[k].call.stage = "sent"
  BY SentTask
<1> QED BY <1>1, OneDoubled DEF BoundForPaper

LEMMA DecideDoubled ==
    ASSUME WType, NEW k \in Key, late' = late, plans' = plans, NEW c, NEW source,
           Decide(k, c, source)
    PROVE  \A j \in Key : DoubledStep(j)
<1>1. CASE marks[k] = c
  BY <1>1, EndDoubled DEF Decide
<1>2. CASE marks[k] # c
  <2> DEFINE t == [pc |-> "waiting", seen |-> c, prev |-> marks[k],
                   call |-> [kind |-> "create", key |-> k, candle |-> c,
                             source |-> source, plan |-> 0, stage |-> "sent"]]
  <2>1. task' = [task EXCEPT ![k] = t] /\ t.call.kind = "create"
    BY <1>2 DEF Decide
  <2> HIDE DEF t
  <2>2. task'[k] = t /\ \A j \in Key \ {k} : task'[j] = task[j]
    BY <2>1 DEF WType
  <2> QED BY <2>1, <2>2, QuietTaskDoubled
<1> QED BY <1>1, <1>2

LEMMA ReadDoubled ==
    ASSUME WType, NEW k \in Key, ReadCandle(k) PROVE \A j \in Key : DoubledStep(j)
<1>1. /\ task'[k].pc = "packed" /\ \A j \in Key \ {k} : task'[j] = task[j]
      /\ late' = late /\ plans' = plans
  BY DEF ReadCandle, WType, TaskOK, Task
<1> QED BY <1>1, QuietTaskDoubled

LEMMA CreatedDoubled ==
    ASSUME WType, ChainInv, NEW k \in Key, Created(k) PROVE \A j \in Key : DoubledStep(j)
<1>1. /\ task[k].pc = "waiting" /\ task[k].call.kind = "create"
      /\ task[k].call.stage # "sent" /\ late' = late /\ plans' = plans
  BY DEF Created
<1>2. CASE Route(k)
  BY <1>1, <1>2, PaperDoubled, TestnetDoubled, EndDoubled DEF Route, Fallback
<1>3. CASE End(k, "done")
  BY <1>1, <1>3, EndDoubled
<1> QED BY <1>2, <1>3 DEF Created

LEMMA ExecutedDoubled ==
    ASSUME WType, ChainInv, NEW k \in Key, Executed(k) PROVE \A j \in Key : DoubledStep(j)
<1>1. task[k].pc = "waiting" /\ late' = late /\ plans' = plans
  BY DEF Executed
<1>2. CASE /\ task[k].call.kind = "testnet" /\ task[k].call.stage = "refused"
           /\ Fallback(k, "failed")
  BY <1>1, <1>2, PaperDoubled, EndDoubled DEF Fallback
<1>3. CASE End(k, "done")
  BY <1>1, <1>3, EndDoubled
<1> QED BY <1>2, <1>3 DEF Executed

LEMMA CycleDoubled == ASSUME WType, CycleStep PROVE \A j \in Key : DoubledStep(j)
<1>1. late' = late /\ plans' = plans
  BY DEF CycleStep, StartCycle, Synced, EndCycle
<1>2. task' = task \/ \A k \in Key : task'[k].pc # "waiting"
  BY DEF CycleStep, StartCycle, Synced, EndCycle, Launch, Idle
<1>3. ASSUME NEW k \in Key, NEW i \in DOMAIN plans,
             BoundForPaper(task'[k], i), plans[i].key = k
      PROVE  OnPaper(i)
  BY <1>2, <1>3 DEF BoundForPaper, OnPaper
<1> QED BY <1>1, <1>3, QuietDoubled

\* A call given up may add its plan, and is a lost call.
LEMMA GiveUpDoubled ==
    ASSUME WType, ChainInv, Counters, NEW k \in Key, GiveUp(k)
    PROVE  \A j \in Key : DoubledStep(j)
<1>1. PICK c : /\ c = task[k].call /\ task[k].pc = "waiting" /\ c \in Call
  BY DEF GiveUp, WType, TaskOK
<1>2. plans' = plans /\ lost' = [lost EXCEPT ![k] = lost[k] + 1]
  BY DEF GiveUp
<1>3. DOMAIN late' \subseteq DOMAIN late \cup {c}
  <2>1. CASE late' = late
    BY <2>1
  <2>2. CASE late' # late
    <3>1. late' = SumOf(late, Remaining({c}))
      BY <1>1, <2>2 DEF GiveUp, Abandon, SumOf, Held, (+)
    <3>2. \A d \in DOMAIN late : late[d] \in Nat \ {0}
      BY DEF ChainInv, LateInv
    <3>3. DOMAIN late' = DOMAIN late \cup {d \in {c} : d.stage \in Pending}
      BY <3>1, <3>2, LateGrows
    <3> QED BY <3>3
  <2> QED BY <2>1, <2>2
<1>4. /\ \A j \in Key \ {k} : task'[j] = task[j]
      /\ task'[k].pc = "waiting" =>
           c.kind = "testnet" /\ task'[k].call.plan = c.plan
  <2>1. CASE c.kind = "testnet" /\ Send(k, "paper")
    BY <1>1, <2>1, SentTask
  <2>2. CASE End(k, "failed")
    BY <2>2 DEF End, WType, Idle
  <2> QED BY <1>1, <2>1, <2>2 DEF GiveUp, Fallback
<1>5. Exec(c) => c.plan \in DOMAIN plans /\ plans[c.plan].key = k
  <2>1. CallInv(k, task[k])
    BY DEF ChainInv
  <2> QED BY <1>1, <2>1 DEF CallInv, HasPlan
<1>6. ASSUME NEW i \in DOMAIN plans, i # c.plan \/ ~Exec(c), Ordered(i)', OnPaper(i)'
      PROVE  Ordered(i) /\ OnPaper(i)
  <2>1. \A kind \in {"testnet", "paper"} : NoneLate(kind, i) => NoneLate(kind, i)'
    BY <1>3, <1>6 DEF NoneLate, Exec
  <2>2. Ordered(i)
    BY <1>2, <1>6, <2>1 DEF Ordered
  <2>3. plans[i].key \in Key
    BY PlanKeys
  <2>4. BoundForPaper(task'[plans[i].key], i) => BoundForPaper(task[plans[i].key], i)
    BY <1>4, <1>6, <2>3 DEF BoundForPaper, Exec
  <2>5. OnPaper(i)' => \/ plans'[i].papers # 0 \/ ~NoneLate("paper", i)'
                       \/ BoundForPaper(task'[plans'[i].key], i)
    BY DEF OnPaper, BoundForPaper
  <2>6. OnPaper(i)
    BY <1>2, <1>6, <2>1, <2>4, <2>5 DEF OnPaper
  <2> QED BY <2>2, <2>6
<1>7. ASSUME NEW j \in Key, j # k PROVE DoubledStep(j)
  <2>1. ASSUME NEW i \in DOMAIN plans, plans[i].key = j, Ordered(i)', OnPaper(i)'
        PROVE  Ordered(i) /\ OnPaper(i)
    <3>1. i # c.plan \/ ~Exec(c)
      BY <1>5, <1>7, <2>1
    <3> QED BY <1>6, <2>1, <3>1
  <2> QED BY <1>2, <2>1, DoubledShrinks DEF DoubledStep
<1>8. DoubledStep(k)
  <2>1. PICK n : n = c.plan /\ n \in Nat
    BY <1>1 DEF Call
  <2>2. Doubled(k)' \subseteq Doubled(k) \cup {n}
    BY <1>2, <1>6, <2>1 DEF Doubled
  <2>3. lost'[k] = lost[k] + 1
    BY <1>2 DEF Counters
  <2> QED BY <2>1, <2>2, <2>3 DEF DoubledStep
<1> QED BY <1>7, <1>8

\* A restart gives up every call: a testnet call's plan is not on paper, and a
\* paper call's plan was bound for it.
LEMMA RestartDoubled ==
    ASSUME WType, ChainInv, Restart
    PROVE  \A j \in Key : DoubledStep(j)
<1> SUFFICES ASSUME NEW k \in Key PROVE Doubled(k)' \subseteq Doubled(k)
  BY DEF DoubledStep
<1>1. \A c \in DOMAIN late' : \/ c \in DOMAIN late
                              \/ \E j \in Key : /\ task[j].pc = "waiting" /\ c = task[j].call
                                                /\ c.stage \in Pending
  BY RestartLate
<1>2. plans' = plans /\ \A j \in Key : task'[j].pc # "waiting"
  BY DEF Restart, Idle
<1>3. \A j \in Key : CallInv(j, task[j])
  BY DEF ChainInv
<1>4. ASSUME NEW i \in DOMAIN plans, plans[i].key = k, Ordered(i)', OnPaper(i)'
      PROVE  Ordered(i) /\ OnPaper(i)
  <2>1. CASE \E c \in DOMAIN late' : /\ Exec(c) /\ c.plan = i /\ task[k].pc = "waiting"
                                     /\ c = task[k].call /\ c.stage \in Pending
    <3>1. PICK c : /\ Exec(c) /\ c.plan = i /\ task[k].pc = "waiting"
                   /\ c = task[k].call /\ c.stage \in Pending
      BY <2>1
    <3>2. /\ NoneLate("paper", i)
          /\ c.kind = "testnet" => NoneLate("testnet", i) /\ plans[i].papers = 0
      BY <1>3, <3>1 DEF CallInv, HasPlan, Exec
    <3>3. CASE c.kind = "testnet"
      <4>1. \A d \in DOMAIN late' : d.kind = "paper" => d.plan # i
        <5> SUFFICES ASSUME NEW d \in DOMAIN late', d.kind = "paper", d.plan = i PROVE FALSE
          OBVIOUS
        <5>1. CASE d \in DOMAIN late
          BY <3>2, <5>1 DEF NoneLate
        <5>2. ASSUME NEW j \in Key, task[j].pc = "waiting", d = task[j].call PROVE FALSE
          <6>1. plans[i].key = j
            BY <1>3, <5>2 DEF CallInv, HasPlan, Exec
          <6> QED BY <1>4, <3>1, <3>3, <5>2, <6>1
        <5> QED BY <1>1, <5>1, <5>2
      <4>2. OnPaper(i)' => plans'[i].papers # 0 \/ ~NoneLate("paper", i)'
        <5>1. plans'[i].key \in Key /\ task'[plans'[i].key].pc # "waiting"
          BY <1>2, PlanKeys
        <5> QED BY <5>1 DEF OnPaper, BoundForPaper
      <4> QED BY <1>2, <1>4, <3>2, <3>3, <4>1, <4>2 DEF NoneLate
    <3>4. CASE c.kind = "paper"
      <4>1. OnPaper(i)
        BY <1>4, <3>1, <3>4 DEF OnPaper, BoundForPaper
      <4>2. \A d \in DOMAIN late' : d.kind = "testnet" /\ d.plan = i => d \in DOMAIN late
        <5> SUFFICES ASSUME NEW d \in DOMAIN late', d.kind = "testnet", d.plan = i,
                            d \notin DOMAIN late
                     PROVE  FALSE
          OBVIOUS
        <5>1. PICK j \in Key : task[j].pc = "waiting" /\ d = task[j].call
          BY <1>1
        <5>2. plans[i].key = j
          BY <1>3, <5>1 DEF CallInv, HasPlan, Exec
        <5> QED BY <1>4, <3>1, <3>4, <5>1, <5>2
      <4>3. Ordered(i)
        BY <1>2, <1>4, <4>2 DEF Ordered, NoneLate
      <4> QED BY <4>1, <4>3
    <3> QED BY <3>1, <3>3, <3>4 DEF Exec
  <2>2. CASE ~\E c \in DOMAIN late' : /\ Exec(c) /\ c.plan = i /\ task[k].pc = "waiting"
                                      /\ c = task[k].call /\ c.stage \in Pending
    <3>1. \A d \in DOMAIN late' : Exec(d) /\ d.plan = i => d \in DOMAIN late
      <4> SUFFICES ASSUME NEW d \in DOMAIN late', Exec(d), d.plan = i, d \notin DOMAIN late
                   PROVE  FALSE
        OBVIOUS
      <4>1. PICK j \in Key : task[j].pc = "waiting" /\ d = task[j].call /\ d.stage \in Pending
        BY <1>1
      <4>2. plans[i].key = j
        BY <1>3, <4>1 DEF CallInv, HasPlan
      <4> QED BY <1>4, <2>2, <4>1, <4>2
    <3>2. Ordered(i)
      BY <1>2, <1>4, <3>1 DEF Ordered, NoneLate, Exec
    <3>3. OnPaper(i)' => plans'[i].papers # 0 \/ ~NoneLate("paper", i)'
      <4>1. plans'[i].key \in Key /\ task'[plans'[i].key].pc # "waiting"
        BY <1>2, PlanKeys
      <4> QED BY <4>1 DEF OnPaper, BoundForPaper
    <3>4. OnPaper(i)
      BY <1>2, <1>4, <3>1, <3>3 DEF OnPaper, NoneLate, Exec
    <3> QED BY <3>2, <3>4
  <2> QED BY <2>1, <2>2
<1> QED BY <1>2, <1>4, DoubledShrinks

\* A stored plan has no order.
LEMMA StoredDoubled ==
    ASSUME WType, ChainInv, NEW c \in Call, NEW s \in Stage, c.kind = "create", Handle(c, s),
           DOMAIN late' \subseteq DOMAIN late,
           \A d \in DOMAIN late' : late'[d] \in Nat \ {0} /\ (Exec(d) => late'[d] = late[d]),
           \A j \in Key : task'[j] = task[j] \/ task'[j].call.kind = "create"
    PROVE  \A j \in Key : DoubledStep(j)
<1> SUFFICES ASSUME NEW k \in Key PROVE Doubled(k)' \subseteq Doubled(k)
  BY DEF DoubledStep
<1>1. PICK n : n = Len(plans) + 1
  OBVIOUS
<1>2. /\ DOMAIN plans' = DOMAIN plans \cup {n}
      /\ \A i \in DOMAIN plans : plans'[i] = plans[i]
      /\ plans'[n].orders = 0
  BY <1>1, CreateEffect DEF WType
<1>3. NoneLate("testnet", n)'
  BY <1>1, StoredChain
<1>4. ASSUME NEW i \in DOMAIN plans', plans'[i].key = k, Ordered(i)', OnPaper(i)'
      PROVE  i \in DOMAIN plans /\ plans[i].key = k /\ Ordered(i) /\ OnPaper(i)
  <2>1. i # n
    BY <1>2, <1>3, <1>4 DEF Ordered
  <2>2. i \in DOMAIN plans /\ plans'[i] = plans[i] /\ plans[i].key = k
    BY <1>2, <1>4, <2>1
  <2>3. Ordered(i)
    BY <1>4, <2>2 DEF Ordered, NoneLate
  <2>4. OnPaper(i)' => \/ plans'[i].papers # 0 \/ ~NoneLate("paper", i)'
                       \/ BoundForPaper(task'[plans'[i].key], i)
    BY DEF OnPaper, BoundForPaper
  <2>5. BoundForPaper(task'[k], i) => BoundForPaper(task[k], i)
    BY DEF BoundForPaper
  <2>6. OnPaper(i)
    BY <1>4, <2>2, <2>4, <2>5 DEF OnPaper, NoneLate
  <2> QED BY <2>2, <2>3, <2>6
<1> QED BY <1>4, DoubledShrinks

\* An execution is served: its plan was ordered or bound for paper before, and
\* comes to be both only when the answer of its order is lost.
LEMMA ServeDoubled ==
    ASSUME WType, ChainInv, Counters, NEW k \in Key, Serve(k)
    PROVE  \A j \in Key : DoubledStep(j)
<1>1. PICK s \in Stage : /\ Handle(task[k].call, s)
                        /\ task' = [task EXCEPT ![k].call = Passed(task[k].call, s)]
  BY DEF Serve
<1>2. PICK old \in Task : old = task[k] /\ old.pc = "waiting" /\ old.call \in Call
  BY DEF Serve, WType, TaskOK
<1>3. PICK c \in Call : c = old.call /\ Handle(c, s)
  BY <1>1, <1>2
<1>4. PICK p : p = Passed(c, s)
  OBVIOUS
<1>5. PICK t : t = [old EXCEPT !.call = p]
  OBVIOUS
<1>6. t.pc = "waiting" /\ t.call = p
  BY <1>2, <1>5 DEF Task
<1>7. task'[k] = t /\ \A j \in Key \ {k} : task'[j] = task[j]
  BY <1>1, <1>2, <1>3, <1>4, <1>5 DEF WType
<1>8. /\ p.stage = s /\ p.kind = c.kind
      /\ p.plan = IF c.kind = "create" THEN Len(plans) + 1 ELSE c.plan
  BY <1>4, PassedFields DEF WType
<1>9. CallInv(k, old) /\ late' = late /\ plans \in Seq(Plan)
  BY <1>2 DEF ChainInv, Serve, WType
<1>10. CASE c.kind = "create"
  <2>1. \A j \in Key : task'[j] = task[j] \/ task'[j].call.kind = "create"
    BY <1>6, <1>7, <1>8, <1>10
  <2> QED BY <1>3, <1>9, <1>10, <2>1, StoredDoubled DEF ChainInv, LateInv
<1>11. CASE Exec(c)
  <2>1. /\ c.plan \in DOMAIN plans /\ plans[c.plan].key = k
        /\ NoneLate("paper", c.plan)
        /\ c.kind = "testnet" => NoneLate("testnet", c.plan) /\ plans[c.plan].papers = 0
        /\ c.kind = "testnet" /\ c.stage \in {"sent", "checked"} => plans[c.plan].orders = 0
        /\ c.key = k
    BY <1>2, <1>3, <1>9, <1>11 DEF CallInv, HasPlan, Exec
  <2>2. /\ DOMAIN plans' = DOMAIN plans
        /\ \A i \in DOMAIN plans :
             /\ SamePlan(i)
             /\ i # c.plan => plans'[i] = plans[i]
             /\ c.kind = "paper" => plans'[i].orders = plans[i].orders
             /\ c.kind = "testnet" => plans'[i].papers = plans[i].papers
             /\ i = c.plan =>
                  plans'[i].orders =
                    IF SendOrder(c, s) THEN plans[i].orders + 1 ELSE plans[i].orders
    BY <1>3, <1>9, <1>11, ExecEffect
  <2>3. /\ c.kind = "testnet" => \/ c.stage = "sent" /\ s \in {"checked", "refused"}
                                 \/ c.stage = "checked" /\ s = "ordered"
                                 \/ c.stage = "ordered" /\ s \in {"executed", "refused"}
        /\ SendOrder(c, s) <=> c.kind = "testnet" /\ s = "ordered"
        /\ lost' = IF c.kind = "testnet" /\ c.stage = "ordered" /\ s = "refused"
                   THEN [lost EXCEPT ![c.key] = @ + 1] ELSE lost
    BY <1>3, <1>11, StageOrder
  <2>4. ASSUME NEW i PROVE OnPaper(i)' => \/ plans'[i].papers # 0 \/ ~NoneLate("paper", i)'
                                         \/ BoundForPaper(task'[plans'[i].key], i)
    BY DEF OnPaper, BoundForPaper
  <2>5. ASSUME NEW i \in DOMAIN plans, i # c.plan, Ordered(i)', OnPaper(i)'
        PROVE  Ordered(i) /\ OnPaper(i)
    <3>1. plans'[i] = plans[i] /\ plans[i].key \in Key
      BY <2>2, <2>5, PlanKeys
    <3>2. Ordered(i)
      BY <1>9, <2>5, <3>1 DEF Ordered, NoneLate
    <3>3. BoundForPaper(task'[plans[i].key], i) => BoundForPaper(task[plans[i].key], i)
      BY <1>6, <1>7, <1>8, <1>11, <2>5, <3>1 DEF BoundForPaper, Exec
    <3>4. OnPaper(i)
      BY <1>9, <2>4, <2>5, <3>1, <3>3 DEF OnPaper, NoneLate
    <3> QED BY <3>2, <3>4
  <2>6. ASSUME Ordered(c.plan)', OnPaper(c.plan)',
               ~(c.kind = "testnet" /\ c.stage = "ordered" /\ s = "refused")
        PROVE  Ordered(c.plan) /\ OnPaper(c.plan)
    <3>1. PICK i \in DOMAIN plans : i = c.plan
      BY <2>1
    <3>2. CASE c.kind = "paper"
      <4>1. Ordered(i)
        BY <1>9, <2>2, <2>6, <3>1, <3>2 DEF Ordered, NoneLate
      <4>2. OnPaper(i)
        BY <1>2, <1>3, <2>1, <3>1, <3>2 DEF OnPaper, BoundForPaper
      <4> QED BY <3>1, <4>1, <4>2
    <3>3. CASE c.kind = "testnet"
      <4>1. plans'[i].papers = 0 /\ NoneLate("paper", i)' /\ plans'[i].key = k
        BY <1>9, <2>1, <2>2, <3>1, <3>3 DEF NoneLate, SamePlan
      <4>2. BoundForPaper(t, i)
        BY <1>7, <2>4, <2>6, <3>1, <4>1
      <4>3. s = "refused" /\ c.stage = "sent"
        BY <1>6, <1>8, <2>3, <2>6, <3>3, <4>2 DEF BoundForPaper
      <4>4. plans'[i].orders = 0 /\ NoneLate("testnet", i)'
        BY <1>9, <2>1, <2>2, <2>3, <3>1, <3>3, <4>3 DEF NoneLate
      <4> QED BY <2>6, <3>1, <4>4 DEF Ordered
    <3> QED BY <1>11, <3>2, <3>3 DEF Exec
  <2>7. ASSUME NEW j \in Key, j # k PROVE DoubledStep(j)
    <3>1. ASSUME NEW i \in DOMAIN plans', plans'[i].key = j, Ordered(i)', OnPaper(i)'
          PROVE  i \in DOMAIN plans /\ plans[i].key = j /\ Ordered(i) /\ OnPaper(i)
      <4>1. i \in DOMAIN plans /\ plans[i].key = j /\ i # c.plan
        BY <2>1, <2>2, <2>7, <3>1 DEF SamePlan
      <4> QED BY <2>5, <3>1, <4>1
    <3> QED BY <3>1, DoubledShrinks DEF DoubledStep
  <2>8. CASE c.kind = "testnet" /\ c.stage = "ordered" /\ s = "refused"
    <3>1. PICK n : n = c.plan /\ n \in Nat
      BY DEF Call
    <3>2. Doubled(k)' \subseteq Doubled(k) \cup {n}
      BY <2>2, <2>5, <3>1 DEF Doubled, SamePlan
    <3>3. lost'[k] = lost[k] + 1
      BY <2>1, <2>3, <2>8 DEF Counters
    <3>4. DoubledStep(k)
      BY <3>1, <3>2, <3>3 DEF DoubledStep
    <3> QED BY <2>7, <3>4
  <2>9. CASE ~(c.kind = "testnet" /\ c.stage = "ordered" /\ s = "refused")
    <3>1. ASSUME NEW i \in DOMAIN plans', plans'[i].key = k, Ordered(i)', OnPaper(i)'
          PROVE  i \in DOMAIN plans /\ plans[i].key = k /\ Ordered(i) /\ OnPaper(i)
      <4>1. i \in DOMAIN plans /\ plans[i].key = k
        BY <2>2, <3>1 DEF SamePlan
      <4>2. CASE i = c.plan
        BY <2>6, <2>9, <3>1, <4>1, <4>2
      <4>3. CASE i # c.plan
        BY <2>5, <3>1, <4>1, <4>3
      <4> QED BY <4>1, <4>2, <4>3
    <3>2. DoubledStep(k)
      BY <3>1, DoubledShrinks DEF DoubledStep
    <3> QED BY <2>7, <3>2
  <2> QED BY <2>8, <2>9
<1> QED BY <1>10, <1>11 DEF Call, Exec

LEMMA ServeLateDoubled ==
    ASSUME WType, ChainInv, ServeLate
    PROVE  \A j \in Key : DoubledStep(j)
<1>1. PICK c \in DOMAIN late, s \in Stage :
        Handle(c, s) /\ late' = SumOf(TakenFrom(late, c), Remaining({Passed(c, s)}))
  BY ServeLateTakes
<1>2. PICK p : p = Passed(c, s) /\ late' = SumOf(TakenFrom(late, c), Remaining({p}))
  BY <1>1
<1>3. c \in Call /\ LateServed(c, p)
  BY <1>1, <1>2, ServeLateEffect
<1>4. p.kind = c.kind /\ p.plan = IF c.kind = "create" THEN Len(plans) + 1 ELSE c.plan
  BY <1>2, <1>3, PassedFields DEF WType
<1>5. task' = task /\ plans \in Seq(Plan)
  BY DEF ServeLate, WType
<1>6. \A d \in DOMAIN late : late[d] \in Nat \ {0}
  BY DEF ChainInv, LateInv
<1>7. CASE c.kind = "create"
  <2>1. /\ DOMAIN late' \subseteq DOMAIN late
        /\ \A d \in DOMAIN late' :
             late'[d] \in Nat \ {0} /\ (Exec(d) => late'[d] = late[d])
    BY <1>3, <1>6, <1>7 DEF Exec, LateServed
  <2> QED BY <1>1, <1>3, <1>5, <1>7, <2>1, StoredDoubled
<1>8. CASE Exec(c)
  <2> SUFFICES ASSUME NEW k \in Key PROVE Doubled(k)' \subseteq Doubled(k)
    BY DEF DoubledStep
  <2>1. /\ DOMAIN plans' = DOMAIN plans
        /\ \A i \in DOMAIN plans :
             /\ SamePlan(i)
             /\ i # c.plan => plans'[i] = plans[i]
             /\ c.kind = "paper" => plans'[i].orders = plans[i].orders
             /\ c.kind = "testnet" => plans'[i].papers = plans[i].papers
    BY <1>1, <1>3, <1>5, <1>8, ExecEffect
  <2>2. p.plan = c.plan /\ p.kind = c.kind
    BY <1>4, <1>8 DEF Exec
  <2>3. \A d \in DOMAIN late' : d = p \/ d \in DOMAIN late
    BY <1>3, <1>8 DEF LateServed
  <2>4. \A kind, i : NoneLate(kind, i) => NoneLate(kind, i)'
    BY <2>2, <2>3 DEF NoneLate
  <2>5. ASSUME NEW i \in DOMAIN plans', plans'[i].key = k, Ordered(i)', OnPaper(i)'
        PROVE  i \in DOMAIN plans /\ plans[i].key = k /\ Ordered(i) /\ OnPaper(i)
    <3>1. i \in DOMAIN plans /\ plans[i].key = k
      BY <2>1, <2>5 DEF SamePlan
    <3>2. OnPaper(i)' => \/ plans'[i].papers # 0 \/ ~NoneLate("paper", i)'
                         \/ BoundForPaper(task'[plans'[i].key], i)
      BY DEF OnPaper, BoundForPaper
    <3>3. Ordered(i)
      <4>1. CASE c.kind = "testnet" /\ i = c.plan
        BY <4>1 DEF Ordered, NoneLate
      <4>2. CASE c.kind = "paper" \/ i # c.plan
        BY <2>1, <2>4, <2>5, <3>1, <4>2 DEF Ordered
      <4> QED BY <1>8, <4>1, <4>2 DEF Exec
    <3>4. OnPaper(i)
      <4>1. CASE c.kind = "paper" /\ i = c.plan
        BY <4>1 DEF OnPaper, NoneLate
      <4>2. CASE c.kind = "testnet" \/ i # c.plan
        BY <1>5, <2>1, <2>4, <2>5, <3>1, <3>2, <4>2 DEF OnPaper
      <4> QED BY <1>8, <4>1, <4>2 DEF Exec
    <3> QED BY <3>1, <3>3, <3>4
  <2> QED BY <2>5, DoubledShrinks
<1> QED BY <1>3, <1>7, <1>8 DEF Call, Exec

LEMMA EveryDoubledStep ==
    ASSUME WType, ChainInv, Counters, [Next]_vars
    PROVE  \A j \in Key : DoubledStep(j)
<1>1. ASSUME NEW k \in Key, TaskStep(k) PROVE \A j \in Key : DoubledStep(j)
  <2>1. CASE PlanFromMarket(k)
    BY <2>1, DecideDoubled DEF PlanFromMarket
  <2>2. CASE PlanFromDemo(k)
    BY <2>2, DecideDoubled, EndDoubled DEF PlanFromDemo
  <2> QED BY <1>1, <2>1, <2>2, ReadDoubled, CreatedDoubled, ExecutedDoubled, GiveUpDoubled,
             ServeDoubled DEF TaskStep
<1>2. ASSUME late' = late, plans' = plans, task' = task
      PROVE  \A j \in Key : DoubledStep(j)
  BY <1>2, QuietDoubled DEF OnPaper
<1>3. ASSUME NEW k \in Key, Advance(k) PROVE \A j \in Key : DoubledStep(j)
  BY <1>2, <1>3 DEF Advance
<1>4. CASE UNCHANGED vars
  BY <1>2, <1>4 DEF vars
<1> QED BY <1>1, <1>3, <1>4, CycleDoubled, ServeLateDoubled, RestartDoubled DEF Next

THEOREM DoubledInvariance == Spec => []DoubledInv
<1>1. Init => DoubledInv
  <2> SUFFICES ASSUME Init, NEW k \in Key PROVE Cardinality(Doubled(k)) <= lost[k]
    BY DEF DoubledInv
  <2>1. Doubled(k) = {}
    BY DEF Init, Doubled
  <2> QED BY <2>1, FS_EmptySet DEF Init
<1>2. ASSUME WInv, WInv', ChainInv, Counters, DoubledInv, [Next]_vars PROVE DoubledInv'
  <2>1. /\ \A j \in Key : DoubledStep(j) /\ lost'[j] >= lost[j]
        /\ lost' \in [Key -> 0 .. MaxLost]
    BY <1>2, EveryDoubledStep, CountersStep DEF WInv, Counters
  <2>2. ASSUME NEW k \in Key PROVE Cardinality(Doubled(k)') <= lost'[k]
    BY <1>2, <2>1, DoubledPaid DEF WInv, DoubledInv
  <2> QED BY <2>2 DEF DoubledInv
<1> QED BY <1>1, <1>2, MarksInvariant, ChainInvariance, CountersInvariance, PTL DEF Spec

\* A plan is executed both at the exchange and on paper only when the answer
\* of its testnet execution was lost: the fallback of the router and the calls
\* it gave up never do it otherwise.
THEOREM DoubleExecutionsArePaid == Spec => []DoubleExecutionIsPaid
<1>1. ASSUME WInv, ChainInv, Counters, DoubledInv PROVE DoubleExecutionIsPaid
  <2> SUFFICES ASSUME NEW k \in Key
               PROVE  Cardinality({i \in DOMAIN plans :
                          plans[i].key = k /\ plans[i].orders + plans[i].papers > 1}) <= lost[k]
    BY DEF DoubleExecutionIsPaid
  <2> DEFINE B == {i \in DOMAIN plans :
                      plans[i].key = k /\ plans[i].orders + plans[i].papers > 1}
  <2>1. B \subseteq Doubled(k)
    BY <1>1 DEF ChainInv, PlanCounts, Doubled, Ordered, OnPaper
  <2>2. IsFiniteSet(Doubled(k)) /\ Cardinality(Doubled(k)) \in Nat
    BY <1>1, DoubledFinite, FS_CardinalityType DEF WInv, WType
  <2> HIDE DEF B
  <2>3. Cardinality(B) <= Cardinality(Doubled(k)) /\ Cardinality(B) \in Nat
    BY <2>1, <2>2, FS_Subset, FS_CardinalityType
  <2>4. Cardinality(Doubled(k)) <= lost[k] /\ lost[k] \in Nat
    BY <1>1, WorkerAssumption DEF DoubledInv, Counters
  <2>5. Cardinality(B) <= lost[k]
    BY <2>2, <2>3, <2>4
  <2> QED BY <2>5 DEF B
<1> QED BY <1>1, MarksInvariant, ChainInvariance, CountersInvariance, DoubledInvariance, PTL

-----------------------------------------------------------------------------
(* Candles planned twice.                                                  *)

\* Plans that keep their key and their candle repeat what they repeated.
LEMMA PlansKept ==
    ASSUME plans \in Seq(Plan), DOMAIN plans' = DOMAIN plans, Len(plans') = Len(plans),
           \A i \in DOMAIN plans : SamePlan(i),
           NEW k
    PROVE  Repeats(k)' = Repeats(k) /\ \A c : LastIs(k, c)' <=> LastIs(k, c)
<1>1. DOMAIN plans = 1 .. Len(plans) /\ Len(plans) \in Nat
  OBVIOUS
<1>2. ASSUME NEW i \in DOMAIN plans
      PROVE  i \in Repeats(k)' <=> i \in Repeats(k)
  <2>1. i \in Nat /\ 1 .. i - 1 \subseteq DOMAIN plans
    BY <1>1
  <2>2. \A j \in 1 .. i - 1 : j + 1 .. i - 1 \subseteq DOMAIN plans
    BY <1>1, <2>1
  <2> QED BY <2>1, <2>2 DEF Repeats, SamePlan
<1>3. Repeats(k)' \subseteq DOMAIN plans /\ Repeats(k) \subseteq DOMAIN plans
  BY DEF Repeats
<1>4. ASSUME NEW c PROVE LastIs(k, c)' <=> LastIs(k, c)
  <2>1. \A i \in DOMAIN plans : i + 1 .. Len(plans) \subseteq DOMAIN plans
    BY <1>1
  <2>2. \A i \in DOMAIN plans : plans'[i].key = plans[i].key /\ plans'[i].candle = plans[i].candle
    BY DEF SamePlan
  <2> QED BY <2>1, <2>2 DEF LastIs
<1> QED BY <1>2, <1>3, <1>4

\* What a plan stored at n does to the repetitions and to the last plans.
AddedLast(n, k, x) ==
    /\ \A j : j # k => /\ Repeats(j)' = Repeats(j)
                      /\ \A c : LastIs(j, c)' <=> LastIs(j, c)
    /\ Repeats(k)' \subseteq Repeats(k) \cup {n}
    /\ ~LastIs(k, x) => Repeats(k)' \subseteq Repeats(k)
    /\ \A c : LastIs(k, c)' <=> c = x

\* A plan that is added repeats its candle when it is the candle of its key's
\* last plan, and becomes its key's last plan.
LEMMA PlanAdded ==
    ASSUME plans \in Seq(Plan), NEW n, n = Len(plans) + 1, Len(plans') = n,
           DOMAIN plans' = DOMAIN plans \cup {n},
           \A i \in DOMAIN plans : plans'[i] = plans[i],
           NEW k, NEW x, plans'[n].key = k, plans'[n].candle = x
    PROVE  AddedLast(n, k, x)
<1>1. DOMAIN plans = 1 .. Len(plans) /\ Len(plans) \in Nat
  OBVIOUS
<1>2. ASSUME NEW j, NEW i \in DOMAIN plans
      PROVE  i \in Repeats(j)' <=> i \in Repeats(j)
  <2>1. i \in Nat /\ 1 .. i - 1 \subseteq DOMAIN plans
    BY <1>1
  <2>2. \A m \in 1 .. i - 1 : m + 1 .. i - 1 \subseteq DOMAIN plans
    BY <1>1, <2>1
  <2> QED BY <2>1, <2>2 DEF Repeats
<1>3. \A j : Repeats(j)' \subseteq DOMAIN plans \cup {n} /\ Repeats(j) \subseteq DOMAIN plans
  BY DEF Repeats
<1>4. \A j : n \in Repeats(j)' => j = k
  BY DEF Repeats
<1>5. n \in Repeats(k)' => LastIs(k, x)
  <2> SUFFICES ASSUME n \in Repeats(k)' PROVE LastIs(k, x)
    OBVIOUS
  <2>1. PICK j \in 1 .. n - 1 : /\ plans'[j].key = k /\ plans'[j].candle = x
                               /\ \A m \in j + 1 .. n - 1 : plans'[m].key # k
    BY DEF Repeats
  <2>2. j \in DOMAIN plans /\ n - 1 = Len(plans)
    BY <1>1
  <2>3. \A m \in j + 1 .. Len(plans) : m \in DOMAIN plans
    BY <1>1, <2>2
  <2>4. plans[j].key = k /\ plans[j].candle = x
    BY <2>1, <2>2
  <2>5. \A m \in j + 1 .. Len(plans) : plans[m].key # k
    BY <2>1, <2>2, <2>3
  <2> QED BY <2>2, <2>4, <2>5 DEF LastIs
<1>6. ASSUME NEW j, j # k, NEW c PROVE LastIs(j, c)' <=> LastIs(j, c)
  <2>1. \A i \in DOMAIN plans : /\ i + 1 .. n = (i + 1 .. Len(plans)) \cup {n}
                                /\ i + 1 .. Len(plans) \subseteq DOMAIN plans
    BY <1>1
  <2>2. \A i \in DOMAIN plans :
           (\A m \in i + 1 .. n : plans'[m].key # j)
             <=> (\A m \in i + 1 .. Len(plans) : plans[m].key # j)
    BY <1>6, <2>1
  <2> QED BY <1>6, <2>2 DEF LastIs
<1>7. ASSUME NEW c PROVE LastIs(k, c)' <=> c = x
  <2>1. n \in Nat /\ \A i \in DOMAIN plans : n \in i + 1 .. n
    BY <1>1
  <2>2. n + 1 .. n = {}
    BY <2>1
  <2> QED BY <2>1, <2>2 DEF LastIs
<1>8. ASSUME NEW j, j # k PROVE Repeats(j)' = Repeats(j)
  <2>1. ASSUME NEW i PROVE i \in Repeats(j)' <=> i \in Repeats(j)
    <3>1. i \in Repeats(j)' => i \in DOMAIN plans
      BY <1>3, <1>4, <1>8
    <3>2. i \in Repeats(j) => i \in DOMAIN plans
      BY <1>3
    <3> QED BY <1>2, <3>1, <3>2
  <2> QED BY <2>1
<1>9. Repeats(k)' \subseteq Repeats(k) \cup {n}
  BY <1>2, <1>3
<1>10. ASSUME ~LastIs(k, x) PROVE Repeats(k)' \subseteq Repeats(k)
  BY <1>5, <1>9, <1>10
<1> QED BY <1>6, <1>7, <1>8, <1>9, <1>10 DEF AddedLast

LEMMA RepeatsFinite ==
    ASSUME plans \in Seq(Plan), NEW k
    PROVE  IsFiniteSet(Repeats(k)) /\ Cardinality(Repeats(k)) \in Nat
<1>1. IsFiniteSet(1 .. Len(plans))
  <2>1. 1 \in Int /\ Len(plans) \in Int
    OBVIOUS
  <2> QED BY <2>1, FS_Interval
<1>2. Repeats(k) \subseteq 1 .. Len(plans)
  BY DEF Repeats
<1> QED BY <1>1, <1>2, FS_Subset, FS_CardinalityType

\* The creations of a key to be served stay the same.
LEMMA CopiesKept ==
    ASSUME NEW k,
           \A c : c.kind = "create" /\ c.key = k =>
               /\ c \in DOMAIN late' <=> c \in DOMAIN late
               /\ c \in DOMAIN late => late'[c] = late[c]
    PROVE  Copies(k)' = Copies(k)
<1>1. ASSUME NEW x PROVE x \in Copies(k)' <=> x \in Copies(k)
  <2>1. x \in Copies(k) <=> \E c \in DOMAIN late : /\ c.kind = "create" /\ c.key = k
                                                   /\ \E n \in 1 .. late[c] : x = <<c, n>>
    BY DEF Copies
  <2>2. x \in Copies(k)' <=> \E c \in DOMAIN late' : /\ c.kind = "create" /\ c.key = k
                                                     /\ \E n \in 1 .. late'[c] : x = <<c, n>>
    BY DEF Copies
  <2> QED BY <2>1, <2>2
<1> QED BY <1>1

\* One more creation of the key is given up at the most.
LEMMA CopiesGrow ==
    ASSUME NEW k, NEW N, NEW c, \A d \in N : d.kind = "create" /\ d.key = k => d = c,
           \A d \in DOMAIN late : late[d] \in Nat \ {0},
           DOMAIN late' = DOMAIN late \cup N,
           \A d \in DOMAIN late' : late'[d] = Held(late, d) + (IF d \in N THEN 1 ELSE 0)
    PROVE  Copies(k)' \subseteq Copies(k) \cup {<<c, Held(late, c) + 1>>}
<1> SUFFICES ASSUME NEW x \in Copies(k)', x # <<c, Held(late, c) + 1>> PROVE x \in Copies(k)
  OBVIOUS
<1>1. PICK d \in DOMAIN late' : /\ d.kind = "create" /\ d.key = k
                               /\ \E n \in 1 .. late'[d] : x = <<d, n>>
  BY DEF Copies
<1>2. PICK n \in 1 .. late'[d] : x = <<d, n>>
  BY <1>1
<1>3. Held(late, d) \in Nat
  BY DEF Held
<1>4. n \in 1 .. Held(late, d)
  <2>1. CASE d \in N
    <3>1. d = c /\ late'[d] = Held(late, d) + 1
      BY <1>1, <2>1
    <3> QED BY <1>2, <1>3, <3>1
  <2>2. CASE d \notin N
    <3>1. late'[d] = Held(late, d)
      BY <1>3, <2>2
    <3> QED BY <3>1
  <2> QED BY <2>1, <2>2
<1>5. d \in DOMAIN late /\ n \in 1 .. late[d]
  BY <1>3, <1>4 DEF Held
<1> QED BY <1>1, <1>2, <1>5 DEF Copies

\* None is given up.
LEMMA CopiesNoMore ==
    ASSUME NEW k, NEW N, \A d \in N : ~(d.kind = "create" /\ d.key = k),
           \A d \in DOMAIN late : late[d] \in Nat \ {0},
           DOMAIN late' = DOMAIN late \cup N,
           \A d \in DOMAIN late' : late'[d] = Held(late, d) + (IF d \in N THEN 1 ELSE 0)
    PROVE  Copies(k)' = Copies(k)
<1>1. ASSUME NEW c, c.kind = "create", c.key = k
      PROVE  /\ c \in DOMAIN late' <=> c \in DOMAIN late
             /\ c \in DOMAIN late => late'[c] = late[c]
  <2>1. c \notin N
    BY <1>1
  <2>2. c \in DOMAIN late => late'[c] = late[c] + 0 /\ late[c] \in Nat
    BY <2>1 DEF Held
  <2> QED BY <2>1, <2>2
<1> QED BY <1>1, CopiesKept

\* One is served.
LEMMA CopiesServed ==
    ASSUME NEW c \in DOMAIN late, NEW p, LateServed(c, p), c.kind = "create",
           \A d \in DOMAIN late : late[d] \in Nat \ {0}
    PROVE  /\ <<c, late[c]>> \in Copies(c.key)
           /\ Copies(c.key)' \subseteq Copies(c.key) \ {<<c, late[c]>>}
           /\ \A k : k # c.key => Copies(k)' = Copies(k)
<1>1. /\ DOMAIN late' = IF late[c] = 1 THEN DOMAIN late \ {c} ELSE DOMAIN late
      /\ \A d \in DOMAIN late' : late'[d] = IF d = c THEN late[c] - 1 ELSE late[d]
  BY DEF LateServed
<1>2. late[c] \in 1 .. late[c]
  OBVIOUS
<1>3. <<c, late[c]>> \in Copies(c.key)
  BY <1>2 DEF Copies
<1>4. ASSUME NEW x \in Copies(c.key)' PROVE x \in Copies(c.key) /\ x # <<c, late[c]>>
  <2>1. PICK d \in DOMAIN late' : /\ d.kind = "create" /\ d.key = c.key
                                 /\ \E n \in 1 .. late'[d] : x = <<d, n>>
    BY <1>4 DEF Copies
  <2>2. PICK n \in 1 .. late'[d] : x = <<d, n>>
    BY <2>1
  <2>3. n \in 1 .. late[d] /\ d \in DOMAIN late /\ (d = c => n # late[c])
    BY <1>1, <2>2
  <2> QED BY <2>1, <2>2, <2>3 DEF Copies
<1>5. ASSUME NEW k, k # c.key PROVE Copies(k)' = Copies(k)
  <2>1. \A d : d.kind = "create" /\ d.key = k =>
             /\ d \in DOMAIN late' <=> d \in DOMAIN late
             /\ d \in DOMAIN late => late'[d] = late[d]
    BY <1>1, <1>5
  <2> QED BY <2>1, CopiesKept
<1>6. Copies(c.key)' \subseteq Copies(c.key) \ {<<c, late[c]>>}
  BY <1>4
<1> QED BY <1>3, <1>5, <1>6

-----------------------------------------------------------------------------
(* A key a step has nothing to do with.                                    *)

Untouched(k) ==
    /\ Repeats(k)' = Repeats(k) /\ Copies(k)' = Copies(k)
    /\ Debt(k)' = Debt(k) /\ Believed(k)' = Believed(k)

LEMMA DebtType == ASSUME NEW k PROVE Debt(k) \in 0 .. 1 /\ Debt(k)' \in 0 .. 1
BY DEF Debt

LEMMA DebtKept ==
    ASSUME NEW k, \A c : LastIs(k, c)' <=> LastIs(k, c), Believed(k)' = Believed(k)
    PROVE  Debt(k)' = Debt(k)
<1>1. PICK b : b = Believed(k) /\ b = Believed(k)'
  OBVIOUS
<1>2. (\E c \in Candle : LastIs(k, c)' /\ c # b) <=> (\E c \in Candle : LastIs(k, c) /\ c # b)
  OBVIOUS
<1>3. Debt(k) = IF \E c \in Candle : LastIs(k, c) /\ c # b THEN 1 ELSE 0
  BY <1>1 DEF Debt
<1>4. Debt(k)' = IF \E c \in Candle : LastIs(k, c)' /\ c # b THEN 1 ELSE 0
  BY <1>1 DEF Debt
<1> QED BY <1>2, <1>3, <1>4

\* The counters only grow.
CountersGrow ==
    /\ lost \in [Key -> Nat] /\ lost' \in [Key -> Nat]
    /\ restarts \in Nat /\ restarts' \in Nat
    /\ \A k \in Key : lost'[k] >= lost[k]
    /\ restarts' >= restarts

LEMMA UntouchedOK ==
    ASSUME plans \in Seq(Plan), NEW k \in Key, RepeatsOK(k), Untouched(k), CountersGrow
    PROVE  RepeatsOK(k)'
<1>1. /\ Cardinality(Repeats(k)) \in Nat /\ Cardinality(Copies(k)) \in Nat
      /\ Debt(k) \in Nat
  BY RepeatsFinite, FS_CardinalityType, DebtType DEF RepeatsOK
<1>2. PICK r, c, d : /\ r = Cardinality(Repeats(k)) /\ r = Cardinality(Repeats(k))'
                     /\ c = Cardinality(Copies(k)) /\ c = Cardinality(Copies(k))'
                     /\ d = Debt(k) /\ d = Debt(k)'
  BY DEF Untouched
<1>3. IsFiniteSet(Copies(k))'
  BY DEF RepeatsOK, Untouched
<1>4. r + c + d <= lost[k] + 2 * restarts
  BY <1>2 DEF RepeatsOK
<1>5. r + c + d <= lost'[k] + 2 * restarts'
  BY <1>1, <1>2, <1>4 DEF CountersGrow
<1> QED BY <1>2, <1>3, <1>5 DEF RepeatsOK

LEMMA SameBelieved ==
    ASSUME NEW k, task'[k] = task[k], marks'[k] = marks[k]
    PROVE  Believed(k)' = Believed(k)
BY DEF Believed, Creating

\* A task that is not asking for a plan goes by its mark.
LEMMA MarkBelieved ==
    ASSUME NEW k, ~(Creating(k) /\ task[k].call.stage = "sent"),
           ~(Creating(k) /\ task[k].call.stage = "sent")', marks'[k] = marks[k]
    PROVE  Believed(k)' = Believed(k)
BY DEF Believed

\* Nothing but tasks and marks changes.
LEMMA QuietUntouched ==
    ASSUME plans \in Seq(Plan), late' = late, plans' = plans, NEW k, Believed(k)' = Believed(k)
    PROVE  Untouched(k)
<1>1. Repeats(k)' = Repeats(k) /\ \A c : LastIs(k, c)' <=> LastIs(k, c)
  BY DEF Repeats, LastIs
<1>2. Copies(k)' = Copies(k)
  BY DEF Copies
<1> QED BY <1>1, <1>2, DebtKept DEF Untouched

LEMMA OneUntouched ==
    ASSUME WType, NEW k \in Key, late' = late, plans' = plans,
           \A j \in Key \ {k} : task'[j] = task[j] /\ marks'[j] = marks[j],
           Believed(k)' = Believed(k)
    PROVE  \A j \in Key : Untouched(j)
<1>1. ASSUME NEW j \in Key PROVE Believed(j)' = Believed(j)
  <2>1. CASE j = k
    BY <2>1
  <2>2. CASE j # k
    BY <2>2, SameBelieved
  <2> QED BY <2>1, <2>2
<1> QED BY <1>1, QuietUntouched DEF WType

LEMMA ReadUntouched ==
    ASSUME WType, NEW k \in Key, ReadCandle(k) PROVE \A j \in Key : Untouched(j)
<1>1. /\ task'[k].pc = "packed" /\ \A j \in Key \ {k} : task'[j] = task[j]
      /\ late' = late /\ plans' = plans /\ marks' = marks
      /\ task[k].pc # "waiting"
  BY DEF ReadCandle, WType, TaskOK, Task
<1>2. Believed(k)' = Believed(k)
  BY <1>1, MarkBelieved DEF Creating
<1> QED BY <1>1, <1>2, OneUntouched

LEMMA EndUntouched ==
    ASSUME WType, NEW k \in Key, late' = late, plans' = plans, marks' = marks,
           ~(Creating(k) /\ task[k].call.stage = "sent"),
           NEW r \in {"done", "failed"}, End(k, r)
    PROVE  \A j \in Key : Untouched(j)
<1>1. task'[k].pc # "waiting" /\ \A j \in Key \ {k} : task'[j] = task[j]
  BY DEF End, WType, Idle
<1>2. Believed(k)' = Believed(k)
  BY <1>1, MarkBelieved DEF Creating
<1> QED BY <1>1, <1>2, OneUntouched

LEMMA SendUntouched ==
    ASSUME WType, NEW k \in Key, late' = late, plans' = plans, marks' = marks,
           task[k].pc = "waiting", ~(Creating(k) /\ task[k].call.stage = "sent"),
           NEW kind \in {"testnet", "paper"}, Send(k, kind)
    PROVE  \A j \in Key : Untouched(j)
<1>1. task'[k].call.kind = kind /\ \A j \in Key \ {k} : task'[j] = task[j]
  BY SentTask
<1>2. Believed(k)' = Believed(k)
  BY <1>1, MarkBelieved DEF Creating
<1> QED BY <1>1, <1>2, OneUntouched

\* Asking for a plan: the worker can still go back to the mark before.
LEMMA DecideUntouched ==
    ASSUME WType, NEW k \in Key, late' = late, plans' = plans, NEW c, NEW source,
           task[k].pc # "waiting", Decide(k, c, source)
    PROVE  \A j \in Key : Untouched(j)
<1>1. CASE marks[k] = c
  BY <1>1, EndUntouched DEF Decide, Creating
<1>2. CASE marks[k] # c
  <2> DEFINE t == [pc |-> "waiting", seen |-> c, prev |-> marks[k],
                   call |-> [kind |-> "create", key |-> k, candle |-> c,
                             source |-> source, plan |-> 0, stage |-> "sent"]]
  <2>1. /\ task' = [task EXCEPT ![k] = t] /\ marks' = [marks EXCEPT ![k] = c]
        /\ t.call.kind = "create" /\ t.call.stage = "sent" /\ t.pc = "waiting"
        /\ t.prev = marks[k]
    BY <1>2 DEF Decide
  <2> HIDE DEF t
  <2>2. /\ task'[k] = t
        /\ \A j \in Key \ {k} : task'[j] = task[j] /\ marks'[j] = marks[j]
    BY <2>1 DEF WType
  <2>3. Believed(k) = marks[k]
    BY DEF Believed, Creating
  <2>4. Believed(k)' = task'[k].prev
    BY <2>1, <2>2 DEF Believed, Creating
  <2>5. Believed(k)' = Believed(k)
    BY <2>1, <2>2, <2>3, <2>4
  <2> QED BY <2>2, <2>5, OneUntouched
<1> QED BY <1>1, <1>2

LEMMA CreatedUntouched ==
    ASSUME WType, NEW k \in Key, Created(k) PROVE \A j \in Key : Untouched(j)
<1>1. /\ task[k].pc = "waiting" /\ task[k].call.stage # "sent"
      /\ late' = late /\ plans' = plans /\ marks' = marks
  BY DEF Created
<1>2. CASE Route(k)
  BY <1>1, <1>2, SendUntouched, EndUntouched DEF Route, Fallback
<1>3. CASE End(k, "done")
  BY <1>1, <1>3, EndUntouched
<1> QED BY <1>2, <1>3 DEF Created

LEMMA ExecutedUntouched ==
    ASSUME WType, NEW k \in Key, Executed(k) PROVE \A j \in Key : Untouched(j)
<1>1. /\ task[k].pc = "waiting" /\ ~Creating(k)
      /\ late' = late /\ plans' = plans /\ marks' = marks
  BY DEF Executed, Creating
<1>2. CASE Fallback(k, "failed")
  BY <1>1, <1>2, SendUntouched, EndUntouched DEF Fallback
<1>3. CASE End(k, "done")
  BY <1>1, <1>3, EndUntouched
<1> QED BY <1>2, <1>3 DEF Executed

LEMMA CycleUntouched ==
    ASSUME WType, CycleStep PROVE \A j \in Key : Untouched(j)
<1>1. /\ late' = late /\ plans' = plans /\ marks' = marks
  BY DEF CycleStep, StartCycle, Synced, EndCycle
<1>2. ASSUME NEW j \in Key PROVE Believed(j)' = Believed(j)
  <2>1. CASE task' = task
    BY <1>1, <2>1, SameBelieved
  <2>2. CASE task' # task
    <3>1. task'[j].pc # "waiting"
      BY <2>2 DEF CycleStep, StartCycle, Synced, EndCycle, Launch, Idle
    <3>2. task[j].pc # "waiting"
      BY <2>2 DEF CycleStep, StartCycle, Synced, EndCycle, Launch, Finished, WType
    <3> QED BY <1>1, <3>1, <3>2, MarkBelieved DEF Creating
  <2> QED BY <2>1, <2>2
<1> QED BY <1>1, <1>2, QuietUntouched DEF WType

\* What a key may gain, against what it pays.
LEMMA CostPaid ==
    ASSUME plans \in Seq(Plan), plans' \in Seq(Plan), NEW k \in Key, RepeatsOK(k), CountersGrow,
           NEW x, NEW y, NEW dr \in 0 .. 1, NEW dc \in 0 .. 1,
           Repeats(k)' \subseteq IF dr = 1 THEN Repeats(k) \cup {x} ELSE Repeats(k),
           Copies(k)' \subseteq IF dc = 1 THEN Copies(k) \cup {y} ELSE Copies(k),
           dr + dc + Debt(k)' + lost[k] + 2 * restarts <= Debt(k) + lost'[k] + 2 * restarts'
    PROVE  RepeatsOK(k)'
<1>1. PICK R, C : R = Repeats(k) /\ C = Copies(k)
  OBVIOUS
<1>2. PICK R1, C1 : R1 = Repeats(k)' /\ C1 = Copies(k)'
  OBVIOUS
<1>3. IsFiniteSet(R) /\ Cardinality(R) \in Nat /\ IsFiniteSet(C) /\ Cardinality(C) \in Nat
  BY <1>1, RepeatsFinite, FS_CardinalityType DEF RepeatsOK
<1>4. Cardinality(R1) \in Nat /\ Cardinality(R1) <= Cardinality(R) + dr
  <2>1. CASE dr = 1
    <3>1. /\ IsFiniteSet(R \cup {x})
          /\ Cardinality(R \cup {x}) = Cardinality(R) \/ Cardinality(R \cup {x}) = Cardinality(R) + 1
      BY <1>3, FS_AddElement
    <3>2. R1 \subseteq R \cup {x}
      BY <1>1, <1>2, <2>1
    <3>3. /\ IsFiniteSet(R1) /\ Cardinality(R1) \in Nat
          /\ Cardinality(R1) <= Cardinality(R \cup {x})
      BY <3>1, <3>2, FS_Subset, FS_CardinalityType
    <3> QED BY <1>3, <2>1, <3>1, <3>3
  <2>2. CASE dr = 0
    <3>1. R1 \subseteq R
      BY <1>1, <1>2, <2>2
    <3>2. IsFiniteSet(R1) /\ Cardinality(R1) \in Nat /\ Cardinality(R1) <= Cardinality(R)
      BY <1>3, <3>1, FS_Subset, FS_CardinalityType
    <3> QED BY <1>3, <2>2, <3>2
  <2> QED BY <2>1, <2>2
<1>5. IsFiniteSet(C1) /\ Cardinality(C1) \in Nat /\ Cardinality(C1) <= Cardinality(C) + dc
  <2>1. CASE dc = 1
    <3>1. /\ IsFiniteSet(C \cup {y})
          /\ Cardinality(C \cup {y}) = Cardinality(C) \/ Cardinality(C \cup {y}) = Cardinality(C) + 1
      BY <1>3, FS_AddElement
    <3>2. C1 \subseteq C \cup {y}
      BY <1>1, <1>2, <2>1
    <3>3. /\ IsFiniteSet(C1) /\ Cardinality(C1) \in Nat
          /\ Cardinality(C1) <= Cardinality(C \cup {y})
      BY <3>1, <3>2, FS_Subset, FS_CardinalityType
    <3> QED BY <1>3, <2>1, <3>1, <3>3
  <2>2. CASE dc = 0
    <3>1. C1 \subseteq C
      BY <1>1, <1>2, <2>2
    <3>2. IsFiniteSet(C1) /\ Cardinality(C1) \in Nat /\ Cardinality(C1) <= Cardinality(C)
      BY <1>3, <3>1, FS_Subset, FS_CardinalityType
    <3> QED BY <1>3, <2>2, <3>2
  <2> QED BY <2>1, <2>2
<1>6. PICK d, d1 \in 0 .. 1 : d = Debt(k) /\ d1 = Debt(k)'
  BY DebtType
<1>7. Cardinality(R) + Cardinality(C) + d <= lost[k] + 2 * restarts
  BY <1>1, <1>6 DEF RepeatsOK
<1>8. dr + dc + d1 + lost[k] + 2 * restarts <= d + lost'[k] + 2 * restarts'
  BY <1>6
<1>9. Cardinality(R1) + Cardinality(C1) + d1 <= lost'[k] + 2 * restarts'
  <2>1. PICK l \in Nat, l1 \in Nat, n \in Nat, n1 \in Nat :
          l = lost[k] /\ l1 = lost'[k] /\ n = restarts /\ n1 = restarts'
    BY DEF CountersGrow
  <2>2. dr + dc + d1 + l + 2 * n <= d + l1 + 2 * n1
    BY <1>8, <2>1
  <2>3. Cardinality(R) + Cardinality(C) + d <= l + 2 * n
    BY <1>7, <2>1
  <2>4. PICK a \in Nat, a1 \in Nat, b \in Nat, b1 \in Nat :
          /\ a = Cardinality(R) /\ a1 = Cardinality(R1)
          /\ b = Cardinality(C) /\ b1 = Cardinality(C1)
    BY <1>3, <1>4, <1>5
  <2>5. a1 <= a + dr /\ b1 <= b + dc /\ a + b + d <= l + 2 * n
    BY <1>4, <1>5, <2>3, <2>4
  <2>6. a1 + b1 + d1 <= l1 + 2 * n1
    <3>1. dr \in Nat /\ dc \in Nat /\ d \in Nat /\ d1 \in Nat
      OBVIOUS
    <3> QED BY <3>1, <2>2, <2>5
  <2> QED BY <2>1, <2>4, <2>6
<1> QED BY <1>2, <1>5, <1>6, <1>9 DEF RepeatsOK

LEMMA AllUntouchedOK ==
    ASSUME plans \in Seq(Plan), RepeatsInv, CountersGrow, \A j \in Key : Untouched(j)
    PROVE  RepeatsInv'
BY UntouchedOK DEF RepeatsInv

\* The calls in N are given up, one copy of each.
GivenUp(N) ==
    /\ DOMAIN late' = DOMAIN late \cup N
    /\ \A d \in DOMAIN late' : late'[d] = Held(late, d) + (IF d \in N THEN 1 ELSE 0)

LEMMA GiveUpGives ==
    ASSUME ChainInv, NEW k \in Key, GiveUp(k)
    PROVE  \E N : GivenUp(N) /\ \A d \in N : d = task[k].call /\ d.stage \in Pending
<1>1. PICK c : c = task[k].call
  OBVIOUS
<1>2. \A d \in DOMAIN late : late[d] \in Nat \ {0}
  BY DEF ChainInv, LateInv
<1>3. CASE late' = late
  <2>1. \A d \in DOMAIN late' : late'[d] = Held(late, d) + 0
    BY <1>2, <1>3 DEF Held
  <2>2. PICK N : N = {}
    OBVIOUS
  <2>3. GivenUp(N)
    BY <1>3, <2>1, <2>2 DEF GivenUp
  <2> QED BY <2>2, <2>3
<1>4. CASE late' # late
  <2>1. late' = SumOf(late, Remaining({c}))
    BY <1>1, <1>4 DEF GiveUp, Abandon, SumOf, Held, (+)
  <2>2. PICK N : N = {d \in {c} : d.stage \in Pending}
    OBVIOUS
  <2>3. /\ DOMAIN late' = DOMAIN late \cup N
        /\ \A d \in DOMAIN late' :
             late'[d] = Held(late, d) + (IF d \in {c} /\ d.stage \in Pending THEN 1 ELSE 0)
    BY <1>2, <2>1, <2>2, LateGrows
  <2>4. \A d : d \in N <=> d \in {c} /\ d.stage \in Pending
    BY <2>2
  <2>5. GivenUp(N)
    BY <2>3, <2>4 DEF GivenUp
  <2> QED BY <1>1, <2>4, <2>5
<1> QED BY <1>3, <1>4

\* A restart gives up the calls of all the tasks that wait.
LEMMA RestartGives ==
    ASSUME WType, ChainInv, Restart
    PROVE  \E N : /\ GivenUp(N)
                  /\ \A d \in N : /\ d.stage \in Pending
                                  /\ \E j \in Key : /\ task[j].pc = "waiting" /\ d = task[j].call
                                                    /\ d.key = j
<1>1. PICK C : /\ C = {task[k].call : k \in {j \in Key : task[j].pc = "waiting"}}
               /\ late' = SumOf(late, Remaining(C))
  BY RestartLate
<1>2. \A d \in DOMAIN late : late[d] \in Nat \ {0}
  BY DEF ChainInv, LateInv
<1>3. PICK N : N = {d \in C : d.stage \in Pending}
  OBVIOUS
<1>4. GivenUp(N)
  <2>1. /\ DOMAIN late' = DOMAIN late \cup N
        /\ \A d \in DOMAIN late' :
             late'[d] = Held(late, d) + (IF d \in C /\ d.stage \in Pending THEN 1 ELSE 0)
    BY <1>1, <1>2, <1>3, LateGrows
  <2>2. \A d : d \in N <=> d \in C /\ d.stage \in Pending
    BY <1>3
  <2> QED BY <2>1, <2>2 DEF GivenUp
<1>5. ASSUME NEW d \in N
      PROVE  /\ d.stage \in Pending
             /\ \E j \in Key : task[j].pc = "waiting" /\ d = task[j].call /\ d.key = j
  <2>1. PICK j \in Key : task[j].pc = "waiting" /\ d = task[j].call
    BY <1>1, <1>3
  <2>2. d.key = j
    BY <2>1 DEF ChainInv, CallInv
  <2> QED BY <1>3, <2>1, <2>2
<1> QED BY <1>4, <1>5

\* A call that is given up is lost: a creation may come late, or its plan may
\* no longer be the one the worker goes by.
LEMMA GiveUpRepeats ==
    ASSUME WInv, ChainInv, CountersGrow, RepeatsInv, NEW k \in Key, GiveUp(k)
    PROVE  RepeatsInv'
<1>1. PICK c : c = task[k].call /\ task[k].pc = "waiting" /\ CallInv(k, task[k])
  BY DEF GiveUp, ChainInv
<1>2. /\ plans' = plans /\ plans \in Seq(Plan) /\ plans' \in Seq(Plan)
      /\ lost'[k] = lost[k] + 1 /\ restarts' = restarts
  BY DEF GiveUp, WInv, WType, CountersGrow
<1>3. c.key = k
  BY <1>1 DEF CallInv
<1>4. \A j : Repeats(j)' = Repeats(j) /\ \A x : LastIs(j, x)' <=> LastIs(j, x)
  BY <1>2 DEF Repeats, LastIs
<1>5. \A d \in DOMAIN late : late[d] \in Nat \ {0}
  BY DEF ChainInv, LateInv
<1>6. PICK N : GivenUp(N) /\ \A d \in N : d = c /\ c.stage \in Pending
  BY <1>1, GiveUpGives DEF WInv
<1>7. /\ \A d \in N : d = c /\ c.stage \in Pending
      /\ DOMAIN late' = DOMAIN late \cup N
      /\ \A d \in DOMAIN late' : late'[d] = Held(late, d) + (IF d \in N THEN 1 ELSE 0)
  BY <1>6 DEF GivenUp
<1>8. /\ \A j \in Key \ {k} : task'[j] = task[j] /\ marks'[j] = marks[j]
      /\ task'[k].pc = "waiting" => task'[k].call.kind = "paper"
  <2>1. CASE c.kind = "testnet" /\ Send(k, "paper")
    BY <1>1, <2>1, SentTask DEF GiveUp, WInv
  <2>2. CASE End(k, "failed")
    BY <2>2 DEF GiveUp, End, Idle, WInv, WType
  <2> QED BY <1>1, <2>1, <2>2 DEF GiveUp, Fallback
<1>9. ASSUME NEW j \in Key, j # k PROVE RepeatsOK(j)'
  <2>1. Copies(j)' = Copies(j)
    BY <1>3, <1>5, <1>7, <1>9, CopiesNoMore
  <2>2. Believed(j)' = Believed(j)
    BY <1>8, <1>9, SameBelieved
  <2>3. Untouched(j)
    BY <1>4, <2>1, <2>2, DebtKept DEF Untouched
  <2> QED BY <1>2, <2>3, UntouchedOK DEF RepeatsInv
<1>10. RepeatsOK(k)'
  <2>1. CASE c.kind # "create"
    <3>1. Copies(k)' = Copies(k)
      BY <1>5, <1>7, <2>1, CopiesNoMore
    <3>2. marks' = marks /\ ~Creating(k) /\ ~Creating(k)'
      BY <1>1, <1>8, <2>1 DEF GiveUp, Creating
    <3>3. Untouched(k)
      BY <1>4, <3>1, <3>2, MarkBelieved, DebtKept DEF Untouched
    <3> QED BY <1>2, <3>3, UntouchedOK DEF RepeatsInv
  <2>2. CASE c.kind = "create" /\ c.stage = "sent"
    <3>1. PICK y : Copies(k)' \subseteq Copies(k) \cup {y}
      <4>1. \A d \in N : d.kind = "create" /\ d.key = k => d = c
        BY <1>7
      <4>2. Copies(k)' \subseteq Copies(k) \cup {<<c, Held(late, c) + 1>>}
        BY <1>5, <1>7, <4>1, CopiesGrow
      <4> QED BY <4>2
    <3>2. Believed(k) = task[k].prev
      BY <1>1, <2>2 DEF Believed, Creating
    <3>3. marks' = [marks EXCEPT ![k] = task[k].prev]
      BY <1>1, <2>2 DEF GiveUp
    <3>4. marks'[k] = task[k].prev
      BY <3>3 DEF WInv, WType
    <3>5. Believed(k)' = marks'[k]
      BY <1>8 DEF Believed, Creating
    <3>6. Debt(k)' = Debt(k)
      BY <1>4, <3>2, <3>4, <3>5, DebtKept
    <3>7. PICK d \in 0 .. 1 : d = Debt(k) /\ d = Debt(k)'
      BY <3>6, DebtType
    <3>8. PICK l \in Nat, r \in Nat : l = lost[k] /\ r = restarts
      BY DEF CountersGrow
    <3>9. 0 + 1 + Debt(k)' + lost[k] + 2 * restarts <= Debt(k) + lost'[k] + 2 * restarts'
      BY <1>2, <3>7, <3>8
    <3>10. Repeats(k)' \subseteq Repeats(k)
      BY <1>4
    <3> QED BY <1>2, <3>1, <3>9, <3>10, CostPaid DEF RepeatsInv
  <2>3. CASE c.kind = "create" /\ c.stage # "sent"
    <3>1. c.stage \notin Pending
      BY <1>1, <2>3 DEF CallInv, Pending
    <3>2. Copies(k)' = Copies(k)
      BY <1>5, <1>7, <3>1, CopiesNoMore
    <3>3. PICK d, d1 \in 0 .. 1 : d = Debt(k) /\ d1 = Debt(k)'
      BY DebtType
    <3>4. PICK l \in Nat, r \in Nat : l = lost[k] /\ r = restarts
      BY DEF CountersGrow
    <3>5. PICK z \in 0 .. 1 : z = 0
      OBVIOUS
    <3>6. z + z + Debt(k)' + lost[k] + 2 * restarts <= Debt(k) + lost'[k] + 2 * restarts'
      <4>1. z + z + d1 + l + 2 * r <= d + (l + 1) + 2 * r
        <5>1. z = 0 /\ d \in Nat /\ d1 \in Nat /\ d1 <= d + 1
          BY <3>5
        <5> QED BY <5>1
      <4> QED BY <1>2, <3>3, <3>4, <4>1
    <3>7. /\ Repeats(k)' \subseteq IF z = 1 THEN Repeats(k) \cup {z} ELSE Repeats(k)
          /\ Copies(k)' \subseteq IF z = 1 THEN Copies(k) \cup {z} ELSE Copies(k)
      BY <1>4, <3>2, <3>5
    <3> QED BY <1>2, <3>6, <3>7, CostPaid DEF RepeatsInv
  <2> QED BY <2>1, <2>2, <2>3
<1> QED BY <1>9, <1>10 DEF RepeatsInv

\* A key has one last plan.
LEMMA LastOnce ==
    ASSUME plans \in Seq(Plan), NEW k, NEW x, NEW y, LastIs(k, x), LastIs(k, y)
    PROVE  x = y
<1>1. PICK i \in DOMAIN plans : /\ plans[i].key = k /\ plans[i].candle = x
                               /\ \A m \in i + 1 .. Len(plans) : plans[m].key # k
  BY DEF LastIs
<1>2. PICK j \in DOMAIN plans : /\ plans[j].key = k /\ plans[j].candle = y
                               /\ \A m \in j + 1 .. Len(plans) : plans[m].key # k
  BY DEF LastIs
<1>3. i \in 1 .. Len(plans) /\ j \in 1 .. Len(plans) /\ Len(plans) \in Nat
  OBVIOUS
<1>4. ~(i < j) /\ ~(j < i)
  BY <1>1, <1>2, <1>3
<1> QED BY <1>1, <1>2, <1>3, <1>4

\* The plan the worker waits for is stored: it repeats a candle only where the
\* worker went by an older one.
LEMMA ServeRepeats ==
    ASSUME WInv, WInv', ChainInv, CountersGrow, RepeatsInv, NEW k \in Key, Serve(k)
    PROVE  RepeatsInv'
<1>1. PICK s \in Stage : /\ Handle(task[k].call, s)
                        /\ task' = [task EXCEPT ![k].call = Passed(task[k].call, s)]
  BY DEF Serve
<1>2. PICK old \in Task : old = task[k] /\ old.pc = "waiting" /\ old.call \in Call
  BY DEF Serve, WInv, WType, TaskOK
<1>3. PICK c \in Call : c = old.call /\ Handle(c, s)
  BY <1>1, <1>2
<1>4. PICK p : p = Passed(c, s)
  OBVIOUS
<1>5. PICK t : t = [old EXCEPT !.call = p]
  OBVIOUS
<1>6. t.pc = "waiting" /\ t.call = p /\ t.prev = old.prev
  BY <1>2, <1>5 DEF Task
<1>7. task'[k] = t /\ \A j \in Key \ {k} : task'[j] = task[j]
  BY <1>1, <1>2, <1>3, <1>4, <1>5 DEF WInv, WType
<1>8. p.stage = s /\ p.kind = c.kind
  BY <1>4, PassedFields DEF WInv, WType
<1>9. /\ CallInv(k, old) /\ late' = late /\ plans \in Seq(Plan) /\ plans' \in Seq(Plan)
      /\ marks' = marks /\ restarts' = restarts
  BY <1>2 DEF ChainInv, Serve, WInv, WType
<1>10. \A j : Copies(j)' = Copies(j)
  BY <1>9 DEF Copies
<1>11. ASSUME NEW j \in Key, j # k PROVE Believed(j)' = Believed(j)
  BY <1>7, <1>9, <1>11, SameBelieved
<1>12. CASE c.kind = "create"
  <2>1. PICK x : x = c.candle /\ x = marks[k] /\ x \in Candle /\ c.key = k /\ old.prev # x
    <3>1. CreatingInv(k)
      BY <1>2, <1>3, <1>12, WaitingTask DEF MarkInv
    <3> QED BY <1>2, <1>3, <1>9, <1>12, <3>1 DEF CreatingInv, CallInv, Call
  <2>2. PICK n : n = Len(plans) + 1
    OBVIOUS
  <2>3. /\ c.stage = "sent" /\ s \in {"approved", "blocked"} /\ lost' = lost
        /\ Len(plans') = n /\ DOMAIN plans' = DOMAIN plans \cup {n}
        /\ \A i \in DOMAIN plans : plans'[i] = plans[i]
        /\ plans'[n].key = k /\ plans'[n].candle = x
    BY <1>3, <1>9, <1>12, <2>1, <2>2, CreateEffect
  <2>4. /\ \A j : j # k => /\ Repeats(j)' = Repeats(j)
                          /\ \A d : LastIs(j, d)' <=> LastIs(j, d)
        /\ Repeats(k)' \subseteq Repeats(k) \cup {n}
        /\ ~LastIs(k, x) => Repeats(k)' \subseteq Repeats(k)
        /\ \A d : LastIs(k, d)' <=> d = x
    <3>1. AddedLast(n, k, x)
      BY <1>9, <2>2, <2>3, PlanAdded
    <3> QED BY <3>1 DEF AddedLast
  <2>5. ASSUME NEW j \in Key, j # k PROVE RepeatsOK(j)'
    <3>1. Untouched(j)
      BY <1>10, <1>11, <2>4, <2>5, DebtKept DEF Untouched
    <3> QED BY <1>9, <3>1, UntouchedOK DEF RepeatsInv
  <2>6. Believed(k) = old.prev
    BY <1>2, <1>3, <1>12, <2>3 DEF Believed, Creating
  <2>7. Believed(k)' = x
    BY <1>6, <1>7, <1>8, <1>9, <2>1, <2>3 DEF Believed, Creating
  <2>8. Debt(k)' = 0
    BY <2>4, <2>7 DEF Debt
  <2>9. LastIs(k, x) => Debt(k) = 1
    BY <2>1, <2>6 DEF Debt
  <2>10. PICK d \in 0 .. 1, l \in Nat, r \in Nat : d = Debt(k) /\ l = lost[k] /\ r = restarts
    BY DebtType DEF CountersGrow
  <2>11. PICK z \in 0 .. 1 : z = 0
    OBVIOUS
  <2>12. d + z + 0 + l + 2 * r <= d + l + 2 * r
    BY <2>10, <2>11
  <2>13. d + z + Debt(k)' + lost[k] + 2 * restarts <= Debt(k) + lost'[k] + 2 * restarts'
    BY <1>9, <2>3, <2>8, <2>10, <2>12
  <2>14. /\ Repeats(k)' \subseteq IF d = 1 THEN Repeats(k) \cup {n} ELSE Repeats(k)
         /\ Copies(k)' \subseteq IF z = 1 THEN Copies(k) \cup {n} ELSE Copies(k)
    BY <1>10, <2>4, <2>9, <2>10, <2>11
  <2>15. RepeatsOK(k)'
    BY <1>9, <2>13, <2>14, CostPaid DEF RepeatsInv
  <2> QED BY <2>5, <2>15 DEF RepeatsInv
<1>13. CASE Exec(c)
  <2>1. /\ DOMAIN plans' = DOMAIN plans
        /\ \A i \in DOMAIN plans : SamePlan(i)
    BY <1>3, <1>9, <1>13, ExecEffect
  <2>2. Len(plans') = Len(plans)
    BY <1>9, <2>1
  <2>3. \A j : Repeats(j)' = Repeats(j) /\ \A x : LastIs(j, x)' <=> LastIs(j, x)
    BY <1>9, <2>1, <2>2, PlansKept
  <2>4. ~Creating(k) /\ ~Creating(k)'
    BY <1>2, <1>3, <1>6, <1>7, <1>8, <1>13 DEF Creating, Exec
  <2>5. \A j \in Key : Believed(j)' = Believed(j)
    BY <1>9, <1>11, <2>4, MarkBelieved
  <2>6. \A j \in Key : Untouched(j)
    BY <1>10, <2>3, <2>5, DebtKept DEF Untouched
  <2> QED BY <1>9, <2>6, AllUntouchedOK
<1> QED BY <1>12, <1>13 DEF Call, Exec

\* A creation that was given up is served: what it may repeat, or leave the
\* worker behind by, was counted when it was given up.
LEMMA ServeLateRepeats ==
    ASSUME WInv, WInv', ChainInv, CountersGrow, RepeatsInv, ServeLate
    PROVE  RepeatsInv'
<1>1. PICK c \in DOMAIN late, s \in Stage :
        Handle(c, s) /\ late' = SumOf(TakenFrom(late, c), Remaining({Passed(c, s)}))
  BY ServeLateTakes
<1>2. PICK p : p = Passed(c, s) /\ late' = SumOf(TakenFrom(late, c), Remaining({p}))
  BY <1>1
<1>3. c \in Call /\ LateServed(c, p)
  BY <1>1, <1>2, ServeLateEffect DEF WInv
<1>4. p.kind = c.kind
  BY <1>2, <1>3, PassedFields DEF WInv, WType
<1>5. /\ task' = task /\ marks' = marks /\ restarts' = restarts
      /\ plans \in Seq(Plan) /\ plans' \in Seq(Plan)
      /\ \A d \in DOMAIN late : late[d] \in Nat \ {0}
  BY DEF ServeLate, WInv, WType, ChainInv, LateInv
<1>6. \A j : Believed(j)' = Believed(j)
  BY <1>5, SameBelieved
<1>7. CASE c.kind = "create"
  <2>1. PICK k \in Key, x \in Candle : k = c.key /\ x = c.candle
    BY <1>3 DEF Call
  <2>2. PICK n : n = Len(plans) + 1
    OBVIOUS
  <2>3. /\ lost' = lost
        /\ Len(plans') = n /\ DOMAIN plans' = DOMAIN plans \cup {n}
        /\ \A i \in DOMAIN plans : plans'[i] = plans[i]
        /\ plans'[n].key = k /\ plans'[n].candle = x
    BY <1>1, <1>3, <1>5, <1>7, <2>1, <2>2, CreateEffect
  <2>4. /\ \A j : j # k => /\ Repeats(j)' = Repeats(j)
                          /\ \A d : LastIs(j, d)' <=> LastIs(j, d)
        /\ Repeats(k)' \subseteq Repeats(k) \cup {n}
        /\ ~LastIs(k, x) => Repeats(k)' \subseteq Repeats(k)
        /\ \A d : LastIs(k, d)' <=> d = x
    <3>1. AddedLast(n, k, x)
      BY <1>5, <2>2, <2>3, PlanAdded
    <3> QED BY <3>1 DEF AddedLast
  <2>5. PICK q : /\ q \in Copies(k) /\ Copies(k)' \subseteq Copies(k) \ {q}
                 /\ \A j : j # k => Copies(j)' = Copies(j)
    BY <1>3, <1>5, <1>7, <2>1, CopiesServed
  <2>6. ASSUME NEW j \in Key, j # k PROVE RepeatsOK(j)'
    <3>1. Untouched(j)
      BY <1>6, <2>4, <2>5, <2>6, DebtKept DEF Untouched
    <3> QED BY <1>5, <3>1, UntouchedOK DEF RepeatsInv
  <2>7. PICK R, C : R = Repeats(k) /\ C = Copies(k)
    OBVIOUS
  <2>8. PICK R1, C1 : R1 = Repeats(k)' /\ C1 = Copies(k)'
    OBVIOUS
  <2>9. IsFiniteSet(R) /\ Cardinality(R) \in Nat /\ IsFiniteSet(C) /\ Cardinality(C) \in Nat
    BY <2>7, RepeatsFinite, FS_CardinalityType, <1>5 DEF RepeatsInv, RepeatsOK
  <2>10. IsFiniteSet(C1) /\ Cardinality(C1) \in Nat /\ Cardinality(C1) + 1 <= Cardinality(C)
    <3>1. IsFiniteSet(C \ {q}) /\ Cardinality(C \ {q}) = Cardinality(C) - 1
      BY <2>5, <2>7, <2>9, FS_RemoveElement
    <3>2. /\ IsFiniteSet(C1) /\ Cardinality(C1) \in Nat
          /\ Cardinality(C1) <= Cardinality(C \ {q})
      BY <2>5, <2>7, <2>8, <3>1, FS_Subset, FS_CardinalityType
    <3> QED BY <2>9, <3>1, <3>2
  <2>11. PICK d \in 0 .. 1, d1 \in 0 .. 1 : d = Debt(k) /\ d1 = Debt(k)'
    BY DebtType
  <2>12. Cardinality(R1) \in Nat /\ Cardinality(R1) + d1 <= Cardinality(R) + d + 1
    <3>1. CASE LastIs(k, x)
      <4>1. \A y : LastIs(k, y)' <=> LastIs(k, y)
        BY <1>5, <2>4, <3>1, LastOnce
      <4>2. d1 = d
        BY <1>6, <2>11, <4>1, DebtKept
      <4>3. /\ IsFiniteSet(R \cup {n})
            /\ \/ Cardinality(R \cup {n}) = Cardinality(R)
               \/ Cardinality(R \cup {n}) = Cardinality(R) + 1
        BY <2>9, FS_AddElement
      <4>4. Cardinality(R1) \in Nat /\ Cardinality(R1) <= Cardinality(R \cup {n})
        BY <2>4, <2>7, <2>8, <4>3, FS_Subset, FS_CardinalityType
      <4> QED BY <2>9, <2>11, <4>2, <4>3, <4>4
    <3>2. CASE ~LastIs(k, x)
      <4>1. Cardinality(R1) \in Nat /\ Cardinality(R1) <= Cardinality(R)
        BY <2>4, <2>7, <2>8, <2>9, <3>2, FS_Subset, FS_CardinalityType
      <4> QED BY <2>9, <2>11, <4>1
    <3> QED BY <3>1, <3>2
  <2>13. PICK l \in Nat, r \in Nat : l = lost[k] /\ r = restarts
    BY DEF CountersGrow
  <2>14. Cardinality(R) + Cardinality(C) + d <= l + 2 * r
    BY <2>7, <2>11, <2>13 DEF RepeatsInv, RepeatsOK
  <2>15. Cardinality(R1) + Cardinality(C1) + d1 <= l + 2 * r
    BY <2>9, <2>10, <2>11, <2>12, <2>13, <2>14
  <2>16. RepeatsOK(k)'
    BY <1>5, <2>3, <2>8, <2>10, <2>11, <2>13, <2>15 DEF RepeatsOK
  <2> QED BY <2>6, <2>16 DEF RepeatsInv
<1>8. CASE Exec(c)
  <2>1. /\ DOMAIN plans' = DOMAIN plans
        /\ \A i \in DOMAIN plans : SamePlan(i)
    BY <1>1, <1>3, <1>5, <1>8, ExecEffect
  <2>2. Len(plans') = Len(plans)
    BY <1>5, <2>1
  <2>3. \A j : Repeats(j)' = Repeats(j) /\ \A x : LastIs(j, x)' <=> LastIs(j, x)
    BY <1>5, <2>1, <2>2, PlansKept
  <2>4. \A d : d.kind = "create" =>
             /\ d \in DOMAIN late' <=> d \in DOMAIN late
             /\ d \in DOMAIN late => late'[d] = late[d]
    BY <1>3, <1>4, <1>8 DEF LateServed, Exec
  <2>5. \A j : Copies(j)' = Copies(j)
    BY <2>4, CopiesKept
  <2>6. \A j \in Key : Untouched(j)
    BY <1>6, <2>3, <2>5, DebtKept DEF Untouched
  <2> QED BY <1>5, <2>6, AllUntouchedOK
<1> QED BY <1>3, <1>7, <1>8 DEF Call, Exec

\* A restart forgets the marks and leaves the calls under way behind: of each
\* key at most one creation comes late, and one plan is no longer gone by.
LEMMA RestartRepeats ==
    ASSUME WInv, WInv', ChainInv, CountersGrow, RepeatsInv, Restart
    PROVE  RepeatsInv'
<1>1. PICK N : /\ GivenUp(N)
               /\ \A d \in N : /\ d.stage \in Pending
                               /\ \E j \in Key : /\ task[j].pc = "waiting" /\ d = task[j].call
                                                 /\ d.key = j
  BY RestartGives DEF WInv
<1>2. \A d \in DOMAIN late : late[d] \in Nat \ {0}
  BY DEF ChainInv, LateInv
<1>4. /\ DOMAIN late' = DOMAIN late \cup N
      /\ \A d \in DOMAIN late' : late'[d] = Held(late, d) + (IF d \in N THEN 1 ELSE 0)
  BY <1>1 DEF GivenUp
<1>5. /\ plans' = plans /\ lost' = lost /\ restarts' = restarts + 1
      /\ plans \in Seq(Plan) /\ plans' \in Seq(Plan)
  BY DEF Restart, WInv, WType
<1> SUFFICES ASSUME NEW k \in Key PROVE RepeatsOK(k)'
  BY DEF RepeatsInv
<1>6. PICK c : c = task[k].call
  OBVIOUS
<1>7. \A d \in N : d.kind = "create" /\ d.key = k => d = c
  BY <1>1, <1>6
<1>8. PICK y : Copies(k)' \subseteq Copies(k) \cup {y}
  BY <1>2, <1>4, <1>7, CopiesGrow
<1>9. Repeats(k)' = Repeats(k)
  BY <1>5 DEF Repeats
<1>10. PICK z \in 0 .. 1, o \in 0 .. 1 : z = 0 /\ o = 1
  OBVIOUS
<1>11. PICK d, d1 \in 0 .. 1 : d = Debt(k) /\ d1 = Debt(k)'
  BY DebtType
<1>12. PICK l \in Nat, r \in Nat : l = lost[k] /\ r = restarts
  BY DEF CountersGrow
<1>13. z + o + Debt(k)' + lost[k] + 2 * restarts <= Debt(k) + lost'[k] + 2 * restarts'
  <2>1. z + o + d1 + l + 2 * r <= d + l + 2 * (r + 1)
    BY <1>10, <1>11, <1>12
  <2> QED BY <1>5, <1>11, <1>12, <2>1
<1>14. /\ Repeats(k)' \subseteq IF z = 1 THEN Repeats(k) \cup {y} ELSE Repeats(k)
       /\ Copies(k)' \subseteq IF o = 1 THEN Copies(k) \cup {y} ELSE Copies(k)
  BY <1>8, <1>9, <1>10
<1> QED BY <1>5, <1>13, <1>14, CostPaid DEF RepeatsInv

LEMMA EveryRepeatsStep ==
    ASSUME WInv, WInv', ChainInv, CountersGrow, RepeatsInv, [Next]_vars
    PROVE  RepeatsInv'
<1>1. WType /\ plans \in Seq(Plan)
  BY DEF WInv, WType
<1>2. ASSUME NEW k \in Key, TaskStep(k) PROVE RepeatsInv'
  <2>1. CASE ReadCandle(k)
    BY <1>1, <2>1, ReadUntouched, AllUntouchedOK
  <2>2. CASE PlanFromMarket(k)
    <3>1. \A j \in Key : Untouched(j)
      BY <1>1, <2>2, DecideUntouched DEF PlanFromMarket
    <3> QED BY <1>1, <3>1, AllUntouchedOK
  <2>3. CASE PlanFromDemo(k)
    <3>1. \A j \in Key : Untouched(j)
      BY <1>1, <2>3, DecideUntouched, EndUntouched DEF PlanFromDemo, Creating
    <3> QED BY <1>1, <3>1, AllUntouchedOK
  <2>4. CASE Created(k)
    BY <1>1, <2>4, CreatedUntouched, AllUntouchedOK
  <2>5. CASE Executed(k)
    BY <1>1, <2>5, ExecutedUntouched, AllUntouchedOK
  <2> QED BY <1>2, <2>1, <2>2, <2>3, <2>4, <2>5, GiveUpRepeats, ServeRepeats DEF TaskStep
<1>3. ASSUME late' = late, plans' = plans, task' = task, marks' = marks PROVE RepeatsInv'
  <2>1. \A j \in Key : Untouched(j)
    BY <1>1, <1>3, SameBelieved, QuietUntouched
  <2> QED BY <1>1, <2>1, AllUntouchedOK
<1>4. ASSUME NEW k \in Key, Advance(k) PROVE RepeatsInv'
  BY <1>3, <1>4 DEF Advance
<1>5. CASE UNCHANGED vars
  BY <1>3, <1>5 DEF vars
<1>6. CASE CycleStep
  BY <1>1, <1>6, CycleUntouched, AllUntouchedOK
<1> QED BY <1>2, <1>4, <1>5, <1>6, ServeLateRepeats, RestartRepeats DEF Next

\* The inductive invariant of the repetitions: what was repeated, the creations
\* that may still come late and a plan the worker does not go by are all paid.
THEOREM RepeatsInvariance == Spec => []RepeatsInv
<1>1. Init => RepeatsInv
  <2> SUFFICES ASSUME Init, NEW k \in Key PROVE RepeatsOK(k)
    BY DEF RepeatsInv
  <2>1. plans = <<>> /\ DOMAIN plans = {} /\ DOMAIN late = {} /\ lost[k] = 0 /\ restarts = 0
    BY DEF Init, EmptyBag, SetToBag
  <2>2. Repeats(k) = {}
    BY <2>1 DEF Repeats
  <2>3. Copies(k) = {}
    BY <2>1 DEF Copies
  <2>4. Debt(k) = 0
    BY <2>1 DEF Debt, LastIs
  <2>5. IsFiniteSet({}) /\ Cardinality({}) = 0
    BY FS_EmptySet
  <2> QED BY <2>1, <2>2, <2>3, <2>4, <2>5 DEF RepeatsOK
<1>2. ASSUME WInv, WInv', ChainInv, Counters, Counters', RepeatsInv, [Next]_vars
      PROVE  RepeatsInv'
  <2>1. CountersGrow
    BY <1>2, CountersStep, WorkerAssumption DEF WInv, Counters, CountersGrow
  <2> QED BY <1>2, <2>1, EveryRepeatsStep
<1> QED BY <1>1, <1>2, MarksInvariant, ChainInvariance, CountersInvariance, PTL DEF Spec

-----------------------------------------------------------------------------
(* Candles of the market planned again, whatever was planned in between.   *)

\* A task that waits for its plan to be stored, and the last candle of the
\* market the worker is at: what it read, what it asks a plan of, or what it
\* would read next.
Asking(k) == Creating(k) /\ task[k].call.stage = "sent"
Upcoming(k) ==
    IF task[k].pc = "packed" THEN task[k].seen
    ELSE IF Asking(k) /\ task[k].call.source = "market" THEN task[k].call.candle
    ELSE candle[k]

\* The plan of the key at i has candle x and source s, and so has the creation
\* c, asked for or given up.
PlanIs(k, i, x, s) ==
    i \in DOMAIN plans /\ plans[i].key = k /\ plans[i].candle = x /\ plans[i].source = s
CallIs(k, c, x, s) ==
    /\ (c \in DOMAIN late /\ c.kind = "create" /\ c.key = k) \/ (Asking(k) /\ c = task[k].call)
    /\ c.candle = x /\ c.source = s
Known(k, x, s) == (\E i : PlanIs(k, i, x, s)) \/ (\E c : CallIs(k, c, x, s))

\* No plan is ahead of the candle the worker is at; those of the demo preset
\* have a candle of their own.
BehindOK(k) ==
    /\ Upcoming(k) \in 1 .. candle[k]
    /\ \A x, s : Known(k, x, s) => x \in 0 .. Upcoming(k) /\ (s = "demo" <=> x = DemoCandle)

\* The worker is about to plan a candle again.
Owed(k) == IF Planned(k, Upcoming(k)) /\ Believed(k) # Upcoming(k) THEN 1 ELSE 0

MarketCopies(k) == {q \in Copies(k) : q[1].source = "market"}

\* A lost call and a restart pay for one repetition each, and so does a demo
\* plan, of a candle planned again, about to be, or to come late.
MarketOK(k) ==
    Cardinality(MarketRepeats(k)) + Cardinality(MarketCopies(k)) + Owed(k)
        <= lost[k] + restarts + Cardinality(DemoPlans(k))

OwedInv == \A k \in Key : BehindOK(k) /\ MarketOK(k)

\* What a step does to the candle a task is at: it stays, or becomes the last.
Moves(k) ==
    /\ candle'[k] >= candle[k]
    /\ Upcoming(k)' = Upcoming(k) \/ Upcoming(k)' = candle'[k]
    /\ Asking(k)' => \/ Asking(k) /\ task'[k].call = task[k].call
                     \/ task'[k].call.candle = Upcoming(k)' /\ task'[k].call.source = "market"
                     \/ task'[k].call.candle = DemoCandle /\ task'[k].call.source = "demo"

LEMMA SameMoves ==
    ASSUME WType, NEW k \in Key, task'[k] = task[k], candle' = candle
    PROVE  Moves(k)
<1>1. candle[k] \in Nat
  BY DEF WType
<1>2. Asking(k)' <=> Asking(k)
  BY DEF Asking, Creating
<1> QED BY <1>1, <1>2 DEF Moves, Upcoming

LEMMA QuietMoves ==
    ASSUME WType, NEW k \in Key, candle' = candle, task'[k].pc # "packed", ~Asking(k)'
    PROVE  Moves(k)
<1>1. candle[k] \in Nat
  BY DEF WType
<1> QED BY <1>1 DEF Moves, Upcoming

\* The other tasks stay where they are.
LEMMA OneMoves ==
    ASSUME WType, NEW k \in Key, candle' = candle, Moves(k),
           \A j \in Key \ {k} : task'[j] = task[j]
    PROVE  \A j \in Key : Moves(j)
<1> SUFFICES ASSUME NEW j \in Key PROVE Moves(j)
  OBVIOUS
<1>1. CASE j = k
  BY <1>1
<1>2. CASE j # k
  BY <1>2, SameMoves
<1> QED BY <1>1, <1>2

LEMMA ReadMoves == ASSUME WType, NEW k \in Key, ReadCandle(k) PROVE \A j \in Key : Moves(j)
<1>1. PICK old \in Task : old = task[k]
  BY DEF WType, TaskOK
<1>2. PICK t : t = [old EXCEPT !.pc = "packed", !.seen = candle[k]]
  OBVIOUS
<1>3. t.pc = "packed" /\ t.seen = candle[k]
  BY <1>1, <1>2 DEF Task
<1>4. /\ candle' = candle /\ candle[k] \in Nat /\ task'[k] = t
      /\ \A j \in Key \ {k} : task'[j] = task[j]
  BY <1>1, <1>2 DEF ReadCandle, WType
<1>5. Moves(k)
  BY <1>3, <1>4 DEF Moves, Upcoming, Asking, Creating
<1> QED BY <1>4, <1>5, OneMoves

LEMMA EndMoves ==
    ASSUME WType, NEW k \in Key, candle' = candle, NEW r \in {"done", "failed"}, End(k, r)
    PROVE  \A j \in Key : Moves(j)
<1>1. /\ task'[k].pc \notin {"waiting", "packed"}
      /\ \A j \in Key \ {k} : task'[j] = task[j]
  BY DEF End, WType, Idle
<1>2. Moves(k)
  BY <1>1, QuietMoves DEF Asking, Creating
<1> QED BY <1>1, <1>2, OneMoves

LEMMA SendMoves ==
    ASSUME WType, NEW k \in Key, candle' = candle, task[k].pc = "waiting",
           NEW kind \in {"testnet", "paper"}, Send(k, kind)
    PROVE  \A j \in Key : Moves(j)
<1>1. PICK old \in Task : old = task[k] /\ old.call \in Call /\ old.pc = "waiting"
  BY DEF WType, TaskOK
<1>2. PICK t : t = [old EXCEPT !.call = [old.call EXCEPT !.kind = kind, !.stage = "sent"]]
  OBVIOUS
<1>3. t.pc = "waiting" /\ t.call.kind = kind
  BY <1>1, <1>2 DEF Task, Call
<1>4. task'[k] = t /\ \A j \in Key \ {k} : task'[j] = task[j]
  BY <1>1, <1>2 DEF Send, WType
<1>5. Moves(k)
  BY <1>3, <1>4, QuietMoves DEF Asking, Creating
<1> QED BY <1>4, <1>5, OneMoves

\* A task asks for a plan of the market's candle it has read, or of the demo's.
LEMMA DecideMoves ==
    ASSUME WType, NEW k \in Key, candle' = candle, NEW c, NEW source, Decide(k, c, source),
           task[k].pc \in {"packing", "packed"},
           \/ source = "market" /\ task[k].pc = "packed" /\ c = task[k].seen
           \/ source = "demo" /\ c = DemoCandle
    PROVE  \A j \in Key : Moves(j)
<1>1. CASE marks[k] = c
  BY <1>1, EndMoves DEF Decide
<1>2. CASE marks[k] # c
  <2>1. PICK call : call = [kind |-> "create", key |-> k, candle |-> c,
                            source |-> source, plan |-> 0, stage |-> "sent"]
    OBVIOUS
  <2>2. PICK t : t = [pc |-> "waiting", seen |-> c, prev |-> marks[k], call |-> call]
    OBVIOUS
  <2>3. task'[k] = t /\ \A j \in Key \ {k} : task'[j] = task[j]
    BY <1>2, <2>1, <2>2 DEF Decide, WType
  <2>4. /\ task'[k].pc = "waiting" /\ task'[k].call = call
        /\ call.candle = c /\ call.source = source /\ candle[k] \in Nat
    BY <2>1, <2>2, <2>3 DEF WType
  <2>5. ~Asking(k)
    BY DEF Asking, Creating
  <2>6. Asking(k)'
    BY <2>1, <2>4 DEF Asking, Creating
  <2>7. Moves(k)
    <3>1. CASE source = "market"
      <4>1. Upcoming(k) = c /\ Upcoming(k)' = c
        BY <2>4, <2>6, <3>1 DEF Upcoming
      <4> QED BY <2>4, <3>1, <4>1 DEF Moves
    <3>2. CASE source # "market"
      <4>1. Upcoming(k)' = candle'[k]
        BY <2>4, <3>2 DEF Upcoming
      <4> QED BY <2>4, <3>2, <4>1 DEF Moves
    <3> QED BY <3>1, <3>2
  <2> QED BY <2>3, <2>7, OneMoves
<1> QED BY <1>1, <1>2

\* A call under way is served and leaves its first stage.
LEMMA ServeMoves == ASSUME WType, NEW k \in Key, Serve(k) PROVE \A j \in Key : Moves(j)
<1>1. PICK s \in Stage : /\ Handle(task[k].call, s)
                        /\ task' = [task EXCEPT ![k].call = Passed(task[k].call, s)]
  BY DEF Serve
<1>2. PICK old \in Task : old = task[k] /\ old.pc = "waiting" /\ old.call \in Call
  BY DEF Serve, WType, TaskOK
<1>3. PICK t : t = [old EXCEPT !.call = Passed(old.call, s)]
  OBVIOUS
<1>4. t.pc = "waiting" /\ t.call = Passed(old.call, s)
  BY <1>2, <1>3 DEF Task
<1>5. task'[k] = t /\ \A j \in Key \ {k} : task'[j] = task[j]
  BY <1>1, <1>2, <1>3 DEF WType
<1>6. s # "sent"
  BY <1>1 DEF Handle, StorePlan, CheckExecution, SendOrder, LoseOrder, CommitTestnet, CommitPaper
<1>7. t.call.stage = s
  BY <1>2, <1>4, PassedFields DEF WType
<1>8. Moves(k)
  BY <1>4, <1>5, <1>6, <1>7, QuietMoves DEF Asking, Serve
<1> QED BY <1>5, <1>8, OneMoves DEF Serve

LEMMA EveryMoves == ASSUME WType, [Next]_vars PROVE \A k \in Key : Moves(k)
<1>1. ASSUME NEW k \in Key, TaskStep(k) PROVE \A j \in Key : Moves(j)
  <2>1. CASE ReadCandle(k)
    BY <2>1, ReadMoves
  <2>2. CASE PlanFromMarket(k)
    BY <2>2, DecideMoves DEF PlanFromMarket
  <2>3. CASE PlanFromDemo(k)
    BY <2>3, DecideMoves, EndMoves DEF PlanFromDemo
  <2>4. CASE Created(k)
    BY <2>4, SendMoves, EndMoves DEF Created, Route, Fallback
  <2>5. CASE Executed(k)
    BY <2>5, SendMoves, EndMoves DEF Executed, Fallback
  <2>6. CASE GiveUp(k)
    BY <2>6, SendMoves, EndMoves DEF GiveUp, Fallback
  <2> QED BY <1>1, <2>1, <2>2, <2>3, <2>4, <2>5, <2>6, ServeMoves DEF TaskStep
<1>2. ASSUME task' = task, candle' = candle PROVE \A j \in Key : Moves(j)
  BY <1>2, SameMoves
<1>3. ASSUME NEW k \in Key, Advance(k) PROVE \A j \in Key : Moves(j)
  <2>1. task' = task /\ \A j \in Key : candle'[j] >= candle[j]
    BY <1>3 DEF Advance, WType
  <2>2. \A j \in Key : /\ Asking(j)' <=> Asking(j)
                       /\ Upcoming(j)' = Upcoming(j) \/ Upcoming(j)' = candle'[j]
    BY <2>1 DEF Asking, Creating, Upcoming
  <2> QED BY <2>1, <2>2 DEF Moves
<1>4. CASE CycleStep \/ Restart
  <2> SUFFICES ASSUME NEW j \in Key PROVE Moves(j)
    OBVIOUS
  <2>1. candle' = candle
    BY <1>4 DEF CycleStep, StartCycle, Synced, EndCycle, Restart
  <2>2. CASE task' = task
    BY <1>2, <2>1, <2>2
  <2>3. CASE task' # task
    <3>1. task'[j].pc \notin {"waiting", "packed"}
      BY <1>4, <2>3 DEF CycleStep, StartCycle, Synced, EndCycle, Restart, Launch, Idle
    <3> QED BY <2>1, <3>1, QuietMoves DEF Asking, Creating
  <2> QED BY <2>2, <2>3
<1>5. CASE ServeLate
  BY <1>2, <1>5 DEF ServeLate
<1>6. CASE UNCHANGED vars
  BY <1>2, <1>6 DEF vars
<1> QED BY <1>1, <1>3, <1>4, <1>5, <1>6 DEF Next

\* A step that knows of no new candle, or of that the task is at.
LEMMA BehindKept ==
    ASSUME WType, WType', NEW k \in Key, BehindOK(k), Moves(k),
           \A i \in DOMAIN plans' : plans'[i].key = k =>
               Known(k, plans'[i].candle, plans'[i].source),
           \A c \in DOMAIN late' : c.kind = "create" /\ c.key = k => Known(k, c.candle, c.source)
    PROVE  BehindOK(k)'
<1>1. /\ candle[k] \in 1 .. MaxCandle /\ candle'[k] \in 1 .. MaxCandle
      /\ candle'[k] >= candle[k] /\ Upcoming(k) \in 1 .. candle[k]
      /\ Upcoming(k)' = Upcoming(k) \/ Upcoming(k)' = candle'[k]
  BY DEF WType, Moves, BehindOK
<1>2. Upcoming(k)' \in 1 .. candle'[k] /\ 0 .. Upcoming(k) \subseteq 0 .. Upcoming(k)'
  BY <1>1, WorkerAssumption
<1>3. ASSUME NEW x, NEW s, Known(k, x, s)'
      PROVE  \/ Known(k, x, s)
             \/ x = Upcoming(k)' /\ s = "market"
             \/ x = DemoCandle /\ s = "demo"
  <2>1. CASE \E i : PlanIs(k, i, x, s)'
    BY <2>1 DEF PlanIs
  <2>2. CASE \E c : CallIs(k, c, x, s)'
    <3>1. PICK c : CallIs(k, c, x, s)'
      BY <2>2
    <3>2. CASE c \in DOMAIN late' /\ c.kind = "create" /\ c.key = k
      BY <3>1, <3>2 DEF CallIs
    <3>3. CASE Asking(k)' /\ c = task'[k].call
      <4>1. CASE Asking(k) /\ task'[k].call = task[k].call
        BY <3>1, <3>3, <4>1 DEF CallIs, Known
      <4> QED BY <3>1, <3>3, <4>1 DEF CallIs, Moves
    <3> QED BY <3>1, <3>2, <3>3 DEF CallIs
  <2> QED BY <1>3, <2>1, <2>2 DEF Known
<1>4. ASSUME NEW x, NEW s, Known(k, x, s)'
      PROVE  x \in 0 .. Upcoming(k)' /\ (s = "demo" <=> x = DemoCandle)
  <2>1. CASE Known(k, x, s)
    BY <1>2, <2>1 DEF BehindOK
  <2>2. CASE x = Upcoming(k)' /\ s = "market"
    BY <1>2, <2>2 DEF DemoCandle
  <2>3. CASE x = DemoCandle /\ s = "demo"
    BY <1>2, <2>3 DEF DemoCandle
  <2> QED BY <1>3, <1>4, <2>1, <2>2, <2>3
<1> QED BY <1>2, <1>4 DEF BehindOK

\* The plans there are, and the calls given up.
LEMMA KnownPlans ==
    ASSUME NEW k, NEW i \in DOMAIN plans, plans[i].key = k
    PROVE  Known(k, plans[i].candle, plans[i].source)
BY DEF Known, PlanIs

LEMMA KnownLate ==
    ASSUME NEW k, NEW c \in DOMAIN late, c.kind = "create", c.key = k
    PROVE  Known(k, c.candle, c.source)
BY DEF Known, CallIs

LEMMA KnownAsked ==
    ASSUME NEW k, Asking(k)
    PROVE  Known(k, task[k].call.candle, task[k].call.source)
BY DEF Known, CallIs

\* A planned candle is none after the one the task is at.
LEMMA PlannedBehind ==
    ASSUME WType, NEW k \in Key, BehindOK(k), NEW x, Planned(k, x)
    PROVE  x \in 0 .. Upcoming(k)
<1>1. PICK i \in DOMAIN plans : plans[i].key = k /\ plans[i].candle = x
  BY DEF Planned
<1> QED BY <1>1, KnownPlans DEF BehindOK

LEMMA OwedType == ASSUME NEW k PROVE Owed(k) \in 0 .. 1 /\ Owed(k)' \in 0 .. 1
BY DEF Owed

\* A task that moves on moves to a candle that has no plan.
LEMMA MovedOn ==
    ASSUME WType, WType', NEW k \in Key, BehindOK(k), BehindOK(k)', Moves(k), NEW x,
           x \in 0 .. Upcoming(k), \A y : Planned(k, y)' => Planned(k, y) \/ y = x,
           Upcoming(k)' # Upcoming(k)
    PROVE  Owed(k)' = 0
<1>1. /\ candle[k] \in 1 .. MaxCandle /\ candle'[k] \in 1 .. MaxCandle
      /\ candle'[k] >= candle[k] /\ Upcoming(k) \in 1 .. candle[k]
      /\ Upcoming(k)' = candle'[k]
  BY DEF WType, Moves, BehindOK
<1>2. PICK u, v : u = Upcoming(k) /\ v = Upcoming(k)'
  OBVIOUS
<1>3. v \notin 0 .. u
  BY <1>1, <1>2, WorkerAssumption
<1>4. ~Planned(k, v)
  BY <1>2, <1>3, PlannedBehind
<1>5. ~Planned(k, v)'
  BY <1>2, <1>3, <1>4
<1> QED BY <1>2, <1>5 DEF Owed

\* Nothing is stored, and the task goes by the same mark.
LEMMA OwedKept ==
    ASSUME WType, WType', NEW k \in Key, BehindOK(k), BehindOK(k)', Moves(k),
           \A y : Planned(k, y)' <=> Planned(k, y),
           Upcoming(k)' = Upcoming(k) => Believed(k)' = Believed(k)
    PROVE  Owed(k)' <= Owed(k)
<1>1. CASE Upcoming(k)' = Upcoming(k)
  <2>1. PICK u, b : /\ u = Upcoming(k) /\ u = Upcoming(k)'
                    /\ b = Believed(k) /\ b = Believed(k)'
    BY <1>1
  <2>2. Owed(k) = IF Planned(k, u) /\ b # u THEN 1 ELSE 0
    BY <2>1 DEF Owed
  <2>3. Owed(k)' = IF Planned(k, u)' /\ b # u THEN 1 ELSE 0
    BY <2>1 DEF Owed
  <2> QED BY <2>2, <2>3
<1>2. CASE Upcoming(k)' # Upcoming(k)
  <2>1. Upcoming(k) \in 0 .. Upcoming(k)
    BY DEF BehindOK
  <2>2. Owed(k)' = 0
    BY <1>2, <2>1, MovedOn
  <2> QED BY <2>2, OwedType
<1> QED BY <1>1, <1>2

-----------------------------------------------------------------------------
(* What a step does to the plans, once more.                               *)

\* Plans that keep their key, candle and source.
LEMMA MarketKept ==
    ASSUME plans \in Seq(Plan), DOMAIN plans' = DOMAIN plans,
           \A i \in DOMAIN plans : SamePlan(i), NEW k
    PROVE  /\ MarketRepeats(k)' = MarketRepeats(k) /\ DemoPlans(k)' = DemoPlans(k)
           /\ \A y : Planned(k, y)' <=> Planned(k, y)
<1>1. ASSUME NEW i \in DOMAIN plans PROVE i \in MarketRepeats(k)' <=> i \in MarketRepeats(k)
  <2>1. i \in Nat /\ 1 .. i - 1 \subseteq DOMAIN plans
    OBVIOUS
  <2>2. /\ plans'[i].key = plans[i].key /\ plans'[i].candle = plans[i].candle
        /\ plans'[i].source = plans[i].source
    BY DEF SamePlan
  <2>3. \A j \in 1 .. i - 1 : plans'[j].key = plans[j].key /\ plans'[j].candle = plans[j].candle
    BY <2>1 DEF SamePlan
  <2> QED BY <2>2, <2>3 DEF MarketRepeats
<1>2. MarketRepeats(k)' \subseteq DOMAIN plans /\ MarketRepeats(k) \subseteq DOMAIN plans
  BY DEF MarketRepeats
<1>3. DemoPlans(k)' = DemoPlans(k)
  BY DEF DemoPlans, SamePlan
<1>4. \A y : Planned(k, y)' <=> Planned(k, y)
  BY DEF Planned, SamePlan
<1> QED BY <1>1, <1>2, <1>3, <1>4

MarketAdded(n, k, x, s) ==
    /\ \A j : j # k => /\ MarketRepeats(j)' = MarketRepeats(j) /\ DemoPlans(j)' = DemoPlans(j)
                      /\ \A y : Planned(j, y)' <=> Planned(j, y)
    /\ \A y : Planned(k, y)' <=> Planned(k, y) \/ y = x
    /\ MarketRepeats(k)' \subseteq MarketRepeats(k) \cup {n}
    /\ ~Planned(k, x) \/ s = "demo" => MarketRepeats(k)' \subseteq MarketRepeats(k)
    /\ DemoPlans(k)' = IF s = "demo" THEN DemoPlans(k) \cup {n} ELSE DemoPlans(k)
    /\ n \notin DemoPlans(k)

\* A plan that is added.
LEMMA PlanOfMarketAdded ==
    ASSUME plans \in Seq(Plan), NEW n, n = Len(plans) + 1,
           DOMAIN plans' = DOMAIN plans \cup {n},
           \A i \in DOMAIN plans : plans'[i] = plans[i],
           NEW k, NEW x, NEW s, plans'[n].key = k, plans'[n].candle = x, plans'[n].source = s
    PROVE  MarketAdded(n, k, x, s)
<1>1. DOMAIN plans = 1 .. Len(plans) /\ Len(plans) \in Nat /\ n \notin DOMAIN plans
  OBVIOUS
<1>2. ASSUME NEW j, NEW i \in DOMAIN plans
      PROVE  i \in MarketRepeats(j)' <=> i \in MarketRepeats(j)
  <2>1. i \in Nat /\ 1 .. i - 1 \subseteq DOMAIN plans
    BY <1>1
  <2> QED BY <2>1 DEF MarketRepeats
<1>3. \A j : /\ MarketRepeats(j)' \subseteq DOMAIN plans \cup {n}
             /\ MarketRepeats(j) \subseteq DOMAIN plans
  BY DEF MarketRepeats
<1>4. \A j : n \in MarketRepeats(j)' => j = k /\ s = "market" /\ Planned(k, x)
  <2> SUFFICES ASSUME NEW j, n \in MarketRepeats(j)' PROVE j = k /\ s = "market" /\ Planned(k, x)
    OBVIOUS
  <2>1. j = k /\ s = "market"
    BY DEF MarketRepeats
  <2>2. PICK i \in 1 .. n - 1 : plans'[i].key = k /\ plans'[i].candle = x
    BY <2>1 DEF MarketRepeats
  <2>3. i \in DOMAIN plans
    BY <1>1, <2>2
  <2>4. Planned(k, x)
    BY <2>2, <2>3 DEF Planned
  <2> QED BY <2>1, <2>4
<1>5. ASSUME NEW j, j # k
      PROVE  MarketRepeats(j)' = MarketRepeats(j) /\ DemoPlans(j)' = DemoPlans(j)
  <2>1. MarketRepeats(j)' = MarketRepeats(j)
    <3>1. MarketRepeats(j)' \subseteq DOMAIN plans /\ MarketRepeats(j) \subseteq DOMAIN plans
      BY <1>3, <1>4, <1>5
    <3>2. \A i \in DOMAIN plans : i \in MarketRepeats(j)' <=> i \in MarketRepeats(j)
      BY <1>2
    <3> QED BY <3>1, <3>2
  <2>2. DemoPlans(j)' = DemoPlans(j)
    BY <1>5 DEF DemoPlans
  <2> QED BY <2>1, <2>2
<1>6. \A j, y : Planned(j, y)' <=> Planned(j, y) \/ (j = k /\ y = x)
  BY DEF Planned
<1>7. MarketRepeats(k)' \subseteq MarketRepeats(k) \cup {n}
  BY <1>2, <1>3
<1>8. ~Planned(k, x) \/ s = "demo" => MarketRepeats(k)' \subseteq MarketRepeats(k)
  BY <1>4, <1>7
<1>9. /\ DemoPlans(k)' = IF s = "demo" THEN DemoPlans(k) \cup {n} ELSE DemoPlans(k)
      /\ n \notin DemoPlans(k)
  BY <1>1 DEF DemoPlans
<1> QED BY <1>5, <1>6, <1>7, <1>8, <1>9 DEF MarketAdded

-----------------------------------------------------------------------------
(* What a key may gain, against what it pays.                              *)

LEMMA NoMoreOf ==
    ASSUME NEW S, IsFiniteSet(S), NEW T, T \subseteq S
    PROVE  Cardinality(T) \in Nat /\ Cardinality(T) <= Cardinality(S)
BY FS_Subset, FS_CardinalityType

LEMMA OneMoreOf ==
    ASSUME NEW S, IsFiniteSet(S), NEW x, NEW T, T \subseteq S \cup {x}
    PROVE  Cardinality(T) \in Nat /\ Cardinality(T) <= Cardinality(S) + 1
<1>1. /\ IsFiniteSet(S \cup {x}) /\ Cardinality(S) \in Nat
      /\ Cardinality(S \cup {x}) = Cardinality(S) \/ Cardinality(S \cup {x}) = Cardinality(S) + 1
  BY FS_AddElement, FS_CardinalityType
<1>2. Cardinality(T) \in Nat /\ Cardinality(T) <= Cardinality(S \cup {x})
  BY <1>1, FS_Subset, FS_CardinalityType
<1> QED BY <1>1, <1>2

LEMMA OneLessOf ==
    ASSUME NEW S, IsFiniteSet(S), NEW x \in S, NEW T, T \subseteq S \ {x}
    PROVE  Cardinality(T) \in Nat /\ Cardinality(T) <= Cardinality(S) - 1
<1>1. IsFiniteSet(S \ {x}) /\ Cardinality(S \ {x}) = Cardinality(S) - 1
  BY FS_RemoveElement
<1>2. Cardinality(T) \in Nat /\ Cardinality(T) <= Cardinality(S \ {x})
  BY <1>1, FS_Subset, FS_CardinalityType
<1> QED BY <1>1, <1>2

\* The sets that are counted.
LEMMA MarketFinite ==
    ASSUME plans \in Seq(Plan), NEW k, IsFiniteSet(Copies(k))
    PROVE  /\ IsFiniteSet(MarketRepeats(k)) /\ Cardinality(MarketRepeats(k)) \in Nat
           /\ IsFiniteSet(MarketCopies(k)) /\ Cardinality(MarketCopies(k)) \in Nat
           /\ IsFiniteSet(DemoPlans(k)) /\ Cardinality(DemoPlans(k)) \in Nat
<1>1. IsFiniteSet(1 .. Len(plans))
  <2>1. 1 \in Int /\ Len(plans) \in Int
    OBVIOUS
  <2> QED BY <2>1, FS_Interval
<1>2. MarketRepeats(k) \subseteq 1 .. Len(plans) /\ DemoPlans(k) \subseteq 1 .. Len(plans)
  BY DEF MarketRepeats, DemoPlans
<1>3. MarketCopies(k) \subseteq Copies(k)
  BY DEF MarketCopies
<1> QED BY <1>1, <1>2, <1>3, FS_Subset, FS_CardinalityType

\* A step adds a repetitions, b copies and e demo plans.
MarketCost(k, a, b, e) ==
    /\ Cardinality(MarketRepeats(k)') \in Nat
    /\ Cardinality(MarketRepeats(k)') <= Cardinality(MarketRepeats(k)) + a
    /\ Cardinality(MarketCopies(k)') \in Nat
    /\ Cardinality(MarketCopies(k)') <= Cardinality(MarketCopies(k)) + b
    /\ Cardinality(DemoPlans(k)') \in Nat
    /\ Cardinality(DemoPlans(k)') >= Cardinality(DemoPlans(k)) + e

LEMMA CostsAdd ==
    ASSUME NEW mr \in Int, NEW mc \in Int, NEW dp \in Int, NEW ow \in Int,
           NEW mr1 \in Int, NEW mc1 \in Int, NEW dp1 \in Int, NEW ow1 \in Int,
           NEW l \in Int, NEW l1 \in Int, NEW r \in Int, NEW r1 \in Int,
           NEW a \in Int, NEW b \in Int, NEW e \in Int,
           mr1 <= mr + a, mc1 <= mc + b, dp1 >= dp + e,
           mr + mc + ow <= l + r + dp,
           a + b + ow1 + l + r <= e + ow + l1 + r1
    PROVE  mr1 + mc1 + ow1 <= l1 + r1 + dp1
OBVIOUS

LEMMA MarketPaid ==
    ASSUME plans \in Seq(Plan), NEW k \in Key, IsFiniteSet(Copies(k)), MarketOK(k), CountersGrow,
           NEW a \in Int, NEW b \in Int, NEW e \in Int, MarketCost(k, a, b, e),
           a + b + Owed(k)' + lost[k] + restarts <= e + Owed(k) + lost'[k] + restarts'
    PROVE  MarketOK(k)'
<1>1. /\ Cardinality(MarketRepeats(k)) \in Nat /\ Cardinality(MarketCopies(k)) \in Nat
      /\ Cardinality(DemoPlans(k)) \in Nat
  BY MarketFinite
<1>2. PICK mr \in Nat, mc \in Nat, dp \in Nat :
        /\ mr = Cardinality(MarketRepeats(k)) /\ mc = Cardinality(MarketCopies(k))
        /\ dp = Cardinality(DemoPlans(k))
  BY <1>1
<1>3. PICK mr1 \in Nat, mc1 \in Nat, dp1 \in Nat :
        /\ mr1 = Cardinality(MarketRepeats(k)') /\ mc1 = Cardinality(MarketCopies(k)')
        /\ dp1 = Cardinality(DemoPlans(k)')
  BY DEF MarketCost
<1>4. PICK ow \in 0 .. 1, ow1 \in 0 .. 1 : ow = Owed(k) /\ ow1 = Owed(k)'
  BY OwedType
<1>5. PICK l \in Nat, l1 \in Nat, r \in Nat, r1 \in Nat :
        l = lost[k] /\ l1 = lost'[k] /\ r = restarts /\ r1 = restarts'
  BY DEF CountersGrow
<1>6. mr1 <= mr + a /\ mc1 <= mc + b /\ dp1 >= dp + e
  BY <1>2, <1>3 DEF MarketCost
<1>7. mr + mc + ow <= l + r + dp
  BY <1>2, <1>4, <1>5 DEF MarketOK
<1>8. a + b + ow1 + l + r <= e + ow + l1 + r1
  BY <1>4, <1>5
<1>9. mr1 + mc1 + ow1 <= l1 + r1 + dp1
  <2>1. ow \in Int /\ ow1 \in Int
    OBVIOUS
  <2> QED BY <1>6, <1>7, <1>8, <2>1, CostsAdd
<1> QED BY <1>3, <1>4, <1>5, <1>9 DEF MarketOK

\* A step that stores nothing of the key and gives up none of its creations.
LEMMA QuietMarket ==
    ASSUME WType, WType', NEW k \in Key, BehindOK(k), MarketOK(k), Moves(k), CountersGrow,
           IsFiniteSet(Copies(k)), Copies(k)' = Copies(k), Believed(k)' = Believed(k),
           MarketRepeats(k)' = MarketRepeats(k), DemoPlans(k)' = DemoPlans(k),
           \A y : Planned(k, y)' <=> Planned(k, y),
           \A i \in DOMAIN plans' : plans'[i].key = k =>
               Known(k, plans'[i].candle, plans'[i].source),
           \A c \in DOMAIN late' : c.kind = "create" /\ c.key = k => Known(k, c.candle, c.source)
    PROVE  BehindOK(k)' /\ MarketOK(k)'
<1>1. BehindOK(k)'
  BY BehindKept
<1>2. Owed(k)' <= Owed(k)
  BY <1>1, OwedKept
<1>3. PICK z \in Int : z = 0
  OBVIOUS
<1>4. MarketCost(k, z, z, z)
  <2>1. MarketCopies(k)' = MarketCopies(k)
    BY DEF MarketCopies
  <2> QED BY <1>3, <2>1, MarketFinite DEF MarketCost, WType
<1>5. z + z + Owed(k)' + lost[k] + restarts <= z + Owed(k) + lost'[k] + restarts'
  <2>1. PICK ow \in 0 .. 1, ow1 \in 0 .. 1 : ow = Owed(k) /\ ow1 = Owed(k)'
    BY OwedType
  <2>2. PICK l \in Nat, l1 \in Nat, r \in Nat, r1 \in Nat :
          l = lost[k] /\ l1 = lost'[k] /\ r = restarts /\ r1 = restarts'
    BY DEF CountersGrow
  <2>3. ow1 <= ow /\ l <= l1 /\ r <= r1
    BY <1>2, <2>1, <2>2 DEF CountersGrow
  <2> QED BY <1>3, <2>1, <2>2, <2>3
<1>6. MarketOK(k)'
  BY <1>4, <1>5, MarketPaid DEF WType
<1> QED BY <1>1, <1>6

LEMMA AllQuiet ==
    ASSUME WType, WType', RepeatsInv, OwedInv, CountersGrow, late' = late, plans' = plans,
           \A j \in Key : Moves(j) /\ Untouched(j)
    PROVE  OwedInv'
<1> SUFFICES ASSUME NEW k \in Key PROVE BehindOK(k)' /\ MarketOK(k)'
  BY DEF OwedInv
<1>1. /\ MarketRepeats(k)' = MarketRepeats(k) /\ DemoPlans(k)' = DemoPlans(k)
      /\ \A y : Planned(k, y)' <=> Planned(k, y)
  BY DEF MarketRepeats, DemoPlans, Planned
<1>2. Copies(k)' = Copies(k) /\ Believed(k)' = Believed(k) /\ IsFiniteSet(Copies(k))
  BY DEF Untouched, RepeatsInv, RepeatsOK
<1>3. BehindOK(k) /\ MarketOK(k)
  BY DEF OwedInv
<1>4. /\ \A i \in DOMAIN plans' : plans'[i].key = k => Known(k, plans'[i].candle, plans'[i].source)
      /\ \A c \in DOMAIN late' : c.kind = "create" /\ c.key = k => Known(k, c.candle, c.source)
  BY KnownPlans, KnownLate
<1> QED BY <1>1, <1>2, <1>3, <1>4, QuietMarket

-----------------------------------------------------------------------------
(* The steps that cost: calls given up, and plans stored.                  *)

\* A key one of whose creations may be given up, for a call or a restart that
\* is counted.  The creation of a market plan that is given up was either the
\* first of its candle, or owed already.
LEMMA GivenUpMarket ==
    ASSUME WType, WType', ChainInv, CountersGrow, NEW k \in Key, BehindOK(k), MarketOK(k),
           Moves(k), IsFiniteSet(Copies(k)), plans' = plans, NEW N, GivenUp(N),
           \A d \in N : d.kind = "create" /\ d.key = k => Asking(k) /\ d = task[k].call,
           lost'[k] + restarts' >= lost[k] + restarts + 1
    PROVE  BehindOK(k)' /\ MarketOK(k)'
<1>1. /\ DOMAIN late' = DOMAIN late \cup N
      /\ \A d \in DOMAIN late' : late'[d] = Held(late, d) + (IF d \in N THEN 1 ELSE 0)
      /\ \A d \in DOMAIN late : late[d] \in Nat \ {0}
  BY DEF GivenUp, ChainInv, LateInv
<1>2. BehindOK(k)'
  <2>1. \A i \in DOMAIN plans' : plans'[i].key = k =>
            Known(k, plans'[i].candle, plans'[i].source)
    BY KnownPlans
  <2>2. \A c \in DOMAIN late' : c.kind = "create" /\ c.key = k => Known(k, c.candle, c.source)
    BY <1>1, KnownLate, KnownAsked
  <2> QED BY <2>1, <2>2, BehindKept
<1>3. PICK c : c = task[k].call
  OBVIOUS
<1>4. Copies(k)' \subseteq Copies(k) \cup {<<c, Held(late, c) + 1>>}
  <2>1. \A d \in N : d.kind = "create" /\ d.key = k => d = c
    BY <1>3
  <2> QED BY <1>1, <2>1, CopiesGrow
<1>5. ~Asking(k) => Copies(k)' = Copies(k)
  <2> SUFFICES ASSUME ~Asking(k) PROVE Copies(k)' = Copies(k)
    OBVIOUS
  <2>1. \A d \in N : ~(d.kind = "create" /\ d.key = k)
    OBVIOUS
  <2> QED BY <1>1, <2>1, CopiesNoMore
<1>6. MarketRepeats(k)' = MarketRepeats(k) /\ DemoPlans(k)' = DemoPlans(k)
  BY DEF MarketRepeats, DemoPlans
<1>7. PICK o \in Int, z \in Int : o = 1 /\ z = 0
  OBVIOUS
<1>8. PICK l \in Nat, l1 \in Nat, r \in Nat, r1 \in Nat :
        l = lost[k] /\ l1 = lost'[k] /\ r = restarts /\ r1 = restarts'
  BY DEF CountersGrow
<1>9. PICK ow \in 0 .. 1, ow1 \in 0 .. 1 : ow = Owed(k) /\ ow1 = Owed(k)'
  BY OwedType
<1>10. l1 + r1 >= l + r + 1
  BY <1>8
<1>11. CASE Asking(k) /\ c.source = "market"
  <2>1. ow1 <= ow
    <3>1. CASE Upcoming(k)' = Upcoming(k)
      <4>1. Upcoming(k) = c.candle
        BY <1>3, <1>11 DEF Upcoming, Asking, Creating
      <4>2. Believed(k) = task[k].prev /\ task[k].prev # c.candle
        BY <1>3, <1>11 DEF Believed, Asking, Creating, ChainInv, CallInv
      <4>3. Planned(k, c.candle)' <=> Planned(k, c.candle)
        BY DEF Planned
      <4>4. Planned(k, c.candle) => Owed(k) = 1
        BY <4>1, <4>2 DEF Owed
      <4>5. ~Planned(k, c.candle) => Owed(k)' = 0
        BY <3>1, <4>1, <4>3 DEF Owed
      <4> QED BY <1>9, <4>4, <4>5
    <3>2. CASE Upcoming(k)' # Upcoming(k)
      <4>1. Upcoming(k) \in 0 .. Upcoming(k) /\ \A y : Planned(k, y)' => Planned(k, y)
        BY DEF BehindOK, Planned
      <4>2. Owed(k)' = 0
        BY <1>2, <3>2, <4>1, MovedOn
      <4> QED BY <1>9, <4>2
    <3> QED BY <3>1, <3>2
  <2>2. PICK y : MarketCopies(k)' \subseteq MarketCopies(k) \cup {y}
    BY <1>4 DEF MarketCopies
  <2>3. MarketCost(k, z, o, z)
    <3>1. /\ Cardinality(MarketCopies(k)') \in Nat
          /\ Cardinality(MarketCopies(k)') <= Cardinality(MarketCopies(k)) + 1
      BY <2>2, MarketFinite, OneMoreOf DEF WType
    <3> QED BY <1>6, <1>7, <3>1, MarketFinite DEF MarketCost, WType
  <2>4. z + o + Owed(k)' + lost[k] + restarts <= z + Owed(k) + lost'[k] + restarts'
    <3>1. z + o + ow1 + l + r <= z + ow + l1 + r1
      BY <1>7, <1>10, <2>1
    <3> QED BY <1>8, <1>9, <3>1
  <2>5. MarketOK(k)'
    BY <2>3, <2>4, MarketPaid DEF WType
  <2> QED BY <1>2, <2>5
<1>12. CASE ~(Asking(k) /\ c.source = "market")
  <2>1. MarketCopies(k)' \subseteq MarketCopies(k)
    <3>1. CASE ~Asking(k)
      BY <1>5, <3>1 DEF MarketCopies
    <3>2. CASE Asking(k)
      <4>1. c.source # "market"
        BY <1>12, <3>2
      <4> QED BY <1>4, <4>1 DEF MarketCopies
    <3> QED BY <3>1, <3>2
  <2>2. MarketCost(k, z, z, z)
    <3>1. /\ Cardinality(MarketCopies(k)') \in Nat
          /\ Cardinality(MarketCopies(k)') <= Cardinality(MarketCopies(k))
      BY <2>1, MarketFinite, NoMoreOf DEF WType
    <3> QED BY <1>6, <1>7, <3>1, MarketFinite DEF MarketCost, WType
  <2>3. z + z + Owed(k)' + lost[k] + restarts <= z + Owed(k) + lost'[k] + restarts'
    <3>1. z + z + ow1 + l + r <= z + ow + l1 + r1
      BY <1>7, <1>10
    <3> QED BY <1>8, <1>9, <3>1
  <2>4. MarketOK(k)'
    BY <2>2, <2>3, MarketPaid DEF WType
  <2> QED BY <1>2, <2>4
<1> QED BY <1>11, <1>12

LEMMA GiveUpMarket ==
    ASSUME WInv, WInv', ChainInv, CountersGrow, RepeatsInv, OwedInv,
           \A j \in Key : Moves(j), NEW k \in Key, GiveUp(k)
    PROVE  OwedInv'
<1>1. /\ WType /\ WType' /\ plans' = plans /\ restarts' = restarts /\ restarts \in Nat
      /\ lost'[k] = lost[k] + 1 /\ lost[k] \in Nat
  BY DEF GiveUp, WInv, CountersGrow
<1>2. task[k].pc = "waiting" /\ CallInv(k, task[k]) /\ task[k].call.key = k
  BY DEF GiveUp, ChainInv, CallInv
<1>3. PICK N : GivenUp(N) /\ \A d \in N : d = task[k].call /\ d.stage \in Pending
  BY GiveUpGives
<1>4. \A d \in N : d.kind = "create" => Asking(k)
  BY <1>2, <1>3 DEF CallInv, Asking, Creating, Pending
<1> SUFFICES ASSUME NEW j \in Key PROVE BehindOK(j)' /\ MarketOK(j)'
  BY DEF OwedInv
<1>5. BehindOK(j) /\ MarketOK(j) /\ IsFiniteSet(Copies(j)) /\ Moves(j)
  BY DEF OwedInv, RepeatsInv, RepeatsOK
<1>6. CASE j = k
  BY <1>1, <1>3, <1>4, <1>5, <1>6, GivenUpMarket
<1>7. CASE j # k
  <2>1. \A d \in N : ~(d.kind = "create" /\ d.key = j)
    BY <1>2, <1>3, <1>7
  <2>2. /\ DOMAIN late' = DOMAIN late \cup N
        /\ \A d \in DOMAIN late' : late'[d] = Held(late, d) + (IF d \in N THEN 1 ELSE 0)
        /\ \A d \in DOMAIN late : late[d] \in Nat \ {0}
    BY <1>3 DEF GivenUp, ChainInv, LateInv
  <2>3. Copies(j)' = Copies(j)
    BY <2>1, <2>2, CopiesNoMore
  <2>4. task'[j] = task[j] /\ marks'[j] = marks[j]
    BY <1>1, <1>7 DEF GiveUp, Fallback, Send, End, WType
  <2>5. Believed(j)' = Believed(j)
    BY <2>4, SameBelieved
  <2>6. /\ MarketRepeats(j)' = MarketRepeats(j) /\ DemoPlans(j)' = DemoPlans(j)
        /\ \A y : Planned(j, y)' <=> Planned(j, y)
    BY <1>1 DEF MarketRepeats, DemoPlans, Planned
  <2>7. /\ \A i \in DOMAIN plans' : plans'[i].key = j =>
              Known(j, plans'[i].candle, plans'[i].source)
        /\ \A c \in DOMAIN late' : c.kind = "create" /\ c.key = j => Known(j, c.candle, c.source)
    BY <1>1, <2>1, <2>2, KnownPlans, KnownLate
  <2> QED BY <1>1, <1>5, <2>3, <2>5, <2>6, <2>7, QuietMarket
<1> QED BY <1>6, <1>7

LEMMA RestartMarket ==
    ASSUME WInv, WInv', ChainInv, CountersGrow, RepeatsInv, OwedInv,
           \A j \in Key : Moves(j), Restart
    PROVE  OwedInv'
<1>1. /\ WType /\ WType' /\ plans' = plans /\ lost' = lost
      /\ restarts' = restarts + 1 /\ restarts \in Nat
  BY DEF Restart, WInv, CountersGrow
<1>2. PICK N : /\ GivenUp(N)
               /\ \A d \in N : /\ d.stage \in Pending
                               /\ \E j \in Key : /\ task[j].pc = "waiting" /\ d = task[j].call
                                                 /\ d.key = j
  BY <1>1, RestartGives
<1> SUFFICES ASSUME NEW k \in Key PROVE BehindOK(k)' /\ MarketOK(k)'
  BY DEF OwedInv
<1>3. BehindOK(k) /\ MarketOK(k) /\ IsFiniteSet(Copies(k)) /\ Moves(k) /\ lost[k] \in Nat
  BY DEF OwedInv, RepeatsInv, RepeatsOK, CountersGrow
<1>4. CallInv(k, task[k])
  BY DEF ChainInv
<1>5. \A d \in N : d.kind = "create" /\ d.key = k => Asking(k) /\ d = task[k].call
  BY <1>2, <1>4 DEF CallInv, Asking, Creating, Pending
<1>6. lost'[k] + restarts' >= lost[k] + restarts + 1
  BY <1>1, <1>3
<1> QED BY <1>1, <1>2, <1>3, <1>5, <1>6, GivenUpMarket

\* A plan of the key is stored at n, of a candle and a source that were known.
LEMMA StoredBehind ==
    ASSUME WType, WType', NEW k \in Key, BehindOK(k), Moves(k),
           NEW n, DOMAIN plans' = DOMAIN plans \cup {n},
           \A i \in DOMAIN plans : plans'[i] = plans[i],
           plans'[n].key = k => Known(k, plans'[n].candle, plans'[n].source),
           \A c \in DOMAIN late' : c.kind = "create" /\ c.key = k => c \in DOMAIN late
    PROVE  /\ BehindOK(k)'
           /\ \A i \in DOMAIN plans' : plans'[i].key = k =>
                  Known(k, plans'[i].candle, plans'[i].source)
           /\ \A c \in DOMAIN late' : c.kind = "create" /\ c.key = k =>
                  Known(k, c.candle, c.source)
<1>1. \A i \in DOMAIN plans' : plans'[i].key = k => Known(k, plans'[i].candle, plans'[i].source)
  BY KnownPlans
<1>2. \A c \in DOMAIN late' : c.kind = "create" /\ c.key = k => Known(k, c.candle, c.source)
  BY KnownLate
<1> QED BY <1>1, <1>2, BehindKept

\* A demo plan pays for the repetition it may make.
LEMMA DemoStored ==
    ASSUME WType, WType', CountersGrow, NEW k \in Key, MarketOK(k), lost' = lost,
           restarts' = restarts, IsFiniteSet(Copies(k)), Copies(k)' \subseteq Copies(k),
           NEW n, NEW x, MarketAdded(n, k, x, "demo")
    PROVE  MarketOK(k)'
<1>1. PICK o \in Int, z \in Int : o = 1 /\ z = 0
  OBVIOUS
<1>2. /\ Cardinality(MarketRepeats(k)') \in Nat
      /\ Cardinality(MarketRepeats(k)') <= Cardinality(MarketRepeats(k))
  BY MarketFinite, NoMoreOf DEF MarketAdded, WType
<1>3. /\ Cardinality(MarketCopies(k)') \in Nat
      /\ Cardinality(MarketCopies(k)') <= Cardinality(MarketCopies(k))
  <2>1. MarketCopies(k)' \subseteq MarketCopies(k)
    BY DEF MarketCopies
  <2> QED BY <2>1, MarketFinite, NoMoreOf DEF WType
<1>4. Cardinality(DemoPlans(k)') = Cardinality(DemoPlans(k)) + 1
  <2>1. IsFiniteSet(DemoPlans(k)) /\ n \notin DemoPlans(k)
    BY MarketFinite DEF MarketAdded, WType
  <2>2. DemoPlans(k)' = DemoPlans(k) \cup {n}
    BY DEF MarketAdded
  <2> QED BY <2>1, <2>2, FS_AddElement
<1>5. MarketCost(k, z, z, o)
  BY <1>1, <1>2, <1>3, <1>4, MarketFinite DEF MarketCost, WType
<1>6. z + z + Owed(k)' + lost[k] + restarts <= o + Owed(k) + lost'[k] + restarts'
  <2>1. PICK ow \in 0 .. 1, ow1 \in 0 .. 1 : ow = Owed(k) /\ ow1 = Owed(k)'
    BY OwedType
  <2>2. PICK l \in Nat, r \in Nat : l = lost[k] /\ r = restarts
    BY DEF CountersGrow
  <2>3. z + z + ow1 + l + r <= o + ow + l + r
    BY <1>1
  <2> QED BY <2>1, <2>2, <2>3
<1> QED BY <1>1, <1>5, <1>6, MarketPaid DEF WType

\* A market plan the task waits for is stored: where it repeats a candle, that
\* was owed, and the task goes by it from now on.
LEMMA OwnStored ==
    ASSUME WType, WType', CountersGrow, NEW k \in Key, BehindOK(k), BehindOK(k)', MarketOK(k),
           Moves(k), lost' = lost, restarts' = restarts, IsFiniteSet(Copies(k)),
           Copies(k)' = Copies(k), NEW n, NEW x, MarketAdded(n, k, x, "market"),
           Upcoming(k) = x, Believed(k) # x, Believed(k)' = x
    PROVE  MarketOK(k)'
<1>1. PICK o \in Int, z \in Int : o = 1 /\ z = 0
  OBVIOUS
<1>2. Owed(k)' = 0
  <2>1. CASE Upcoming(k)' = Upcoming(k)
    BY <2>1 DEF Owed
  <2>2. CASE Upcoming(k)' # Upcoming(k)
    <3>1. x \in 0 .. Upcoming(k) /\ \A y : Planned(k, y)' => Planned(k, y) \/ y = x
      BY DEF BehindOK, MarketAdded
    <3> QED BY <2>2, <3>1, MovedOn
  <2> QED BY <2>1, <2>2
<1>3. /\ Cardinality(MarketCopies(k)') = Cardinality(MarketCopies(k))
      /\ Cardinality(DemoPlans(k)') = Cardinality(DemoPlans(k))
      /\ Cardinality(MarketCopies(k)') \in Nat /\ Cardinality(DemoPlans(k)') \in Nat
  <2>1. MarketCopies(k)' = MarketCopies(k) /\ DemoPlans(k)' = DemoPlans(k)
    BY DEF MarketCopies, MarketAdded
  <2> QED BY <2>1, MarketFinite DEF WType
<1>4. PICK l \in Nat, r \in Nat : l = lost[k] /\ r = restarts
  BY DEF CountersGrow
<1>5. CASE Planned(k, x)
  <2>1. Owed(k) = 1
    BY <1>5 DEF Owed
  <2>2. /\ Cardinality(MarketRepeats(k)') \in Nat
        /\ Cardinality(MarketRepeats(k)') <= Cardinality(MarketRepeats(k)) + 1
    BY MarketFinite, OneMoreOf DEF MarketAdded, WType
  <2>3. MarketCost(k, o, z, z)
    BY <1>1, <1>3, <2>2, MarketFinite DEF MarketCost, WType
  <2>4. o + z + Owed(k)' + lost[k] + restarts <= z + Owed(k) + lost'[k] + restarts'
    BY <1>1, <1>2, <1>4, <2>1
  <2> QED BY <2>3, <2>4, MarketPaid DEF WType
<1>6. CASE ~Planned(k, x)
  <2>1. Owed(k) = 0
    BY <1>6 DEF Owed
  <2>2. /\ Cardinality(MarketRepeats(k)') \in Nat
        /\ Cardinality(MarketRepeats(k)') <= Cardinality(MarketRepeats(k))
    BY <1>6, MarketFinite, NoMoreOf DEF MarketAdded, WType
  <2>3. MarketCost(k, z, z, z)
    BY <1>1, <1>3, <2>2, MarketFinite DEF MarketCost, WType
  <2>4. z + z + Owed(k)' + lost[k] + restarts <= z + Owed(k) + lost'[k] + restarts'
    BY <1>1, <1>2, <1>4, <2>1
  <2> QED BY <2>3, <2>4, MarketPaid DEF WType
<1> QED BY <1>5, <1>6

\* A market plan given up comes late: it repeats a candle, or is the first of a
\* candle that may be planned again; either was counted when it was given up.
LEMMA LateStored ==
    ASSUME WType, WType', CountersGrow, NEW k \in Key, BehindOK(k), BehindOK(k)', MarketOK(k),
           Moves(k), lost' = lost, restarts' = restarts, IsFiniteSet(Copies(k)),
           NEW q \in Copies(k), Copies(k)' \subseteq Copies(k) \ {q}, q[1].source = "market",
           NEW n, NEW x, MarketAdded(n, k, x, "market"), Believed(k)' = Believed(k)
    PROVE  MarketOK(k)'
<1>1. PICK o \in Int, z \in Int, m \in Int : o = 1 /\ z = 0 /\ m = -1
  OBVIOUS
<1>2. /\ Cardinality(MarketCopies(k)') \in Nat
      /\ Cardinality(MarketCopies(k)') <= Cardinality(MarketCopies(k)) - 1
  <2>1. q \in MarketCopies(k) /\ MarketCopies(k)' \subseteq MarketCopies(k) \ {q}
    BY DEF MarketCopies
  <2> QED BY <2>1, MarketFinite, OneLessOf DEF WType
<1>3. Cardinality(DemoPlans(k)') = Cardinality(DemoPlans(k)) /\ Cardinality(DemoPlans(k)') \in Nat
  <2>1. DemoPlans(k)' = DemoPlans(k)
    BY DEF MarketAdded
  <2> QED BY <2>1, MarketFinite DEF WType
<1>4. PICK l \in Nat, r \in Nat : l = lost[k] /\ r = restarts
  BY DEF CountersGrow
<1>5. PICK ow \in 0 .. 1, ow1 \in 0 .. 1 : ow = Owed(k) /\ ow1 = Owed(k)'
  BY OwedType
<1>6. CASE Planned(k, x)
  <2>1. \A y : Planned(k, y)' <=> Planned(k, y)
    BY <1>6 DEF MarketAdded
  <2>2. ow1 <= ow
    BY <1>5, <2>1, OwedKept
  <2>3. /\ Cardinality(MarketRepeats(k)') \in Nat
        /\ Cardinality(MarketRepeats(k)') <= Cardinality(MarketRepeats(k)) + 1
    BY MarketFinite, OneMoreOf DEF MarketAdded, WType
  <2>4. MarketCost(k, o, m, z)
    BY <1>1, <1>2, <1>3, <2>3, MarketFinite DEF MarketCost, WType
  <2>5. o + m + Owed(k)' + lost[k] + restarts <= z + Owed(k) + lost'[k] + restarts'
    BY <1>1, <1>4, <1>5, <2>2
  <2> QED BY <2>4, <2>5, MarketPaid DEF WType
<1>7. CASE ~Planned(k, x)
  <2>1. /\ Cardinality(MarketRepeats(k)') \in Nat
        /\ Cardinality(MarketRepeats(k)') <= Cardinality(MarketRepeats(k))
    BY <1>7, MarketFinite, NoMoreOf DEF MarketAdded, WType
  <2>2. MarketCost(k, z, m, z)
    BY <1>1, <1>2, <1>3, <2>1, MarketFinite DEF MarketCost, WType
  <2>3. z + m + Owed(k)' + lost[k] + restarts <= z + Owed(k) + lost'[k] + restarts'
    BY <1>1, <1>4, <1>5
  <2> QED BY <2>2, <2>3, MarketPaid DEF WType
<1> QED BY <1>6, <1>7

\* An execution is served: its plan keeps its key, its candle and its source.
LEMMA ExecutedMarket ==
    ASSUME WType, WType', CountersGrow, \A j \in Key : Moves(j),
           \A j \in Key : BehindOK(j) /\ MarketOK(j) /\ IsFiniteSet(Copies(j)),
           DOMAIN plans' = DOMAIN plans, \A i \in DOMAIN plans : SamePlan(i),
           \A j : Copies(j)' = Copies(j), \A j \in Key : Believed(j)' = Believed(j),
           \A d : d.kind = "create" => (d \in DOMAIN late' <=> d \in DOMAIN late)
    PROVE  OwedInv'
<1> SUFFICES ASSUME NEW j \in Key PROVE BehindOK(j)' /\ MarketOK(j)'
  BY DEF OwedInv
<1>1. /\ MarketRepeats(j)' = MarketRepeats(j) /\ DemoPlans(j)' = DemoPlans(j)
      /\ \A y : Planned(j, y)' <=> Planned(j, y)
  BY MarketKept DEF WType
<1>2. \A i \in DOMAIN plans' : plans'[i].key = j => Known(j, plans'[i].candle, plans'[i].source)
  BY KnownPlans DEF SamePlan
<1>3. \A d \in DOMAIN late' : d.kind = "create" /\ d.key = j => Known(j, d.candle, d.source)
  BY KnownLate
<1> QED BY <1>1, <1>2, <1>3, QuietMarket

LEMMA ServeMarket ==
    ASSUME WInv, WInv', ChainInv, CountersGrow, RepeatsInv, OwedInv,
           \A j \in Key : Moves(j), NEW k \in Key, Serve(k)
    PROVE  OwedInv'
<1>1. PICK s \in Stage : /\ Handle(task[k].call, s)
                        /\ task' = [task EXCEPT ![k].call = Passed(task[k].call, s)]
  BY DEF Serve
<1>2. PICK old \in Task : old = task[k] /\ old.pc = "waiting" /\ old.call \in Call
  BY DEF Serve, WInv, WType, TaskOK
<1>3. PICK c \in Call : c = old.call /\ Handle(c, s)
  BY <1>1, <1>2
<1>4. PICK p : p = Passed(c, s)
  OBVIOUS
<1>5. PICK t : t = [old EXCEPT !.call = p]
  OBVIOUS
<1>6. t.pc = "waiting" /\ t.call = p
  BY <1>2, <1>5 DEF Task
<1>7. task'[k] = t /\ \A j \in Key \ {k} : task'[j] = task[j]
  BY <1>1, <1>2, <1>3, <1>4, <1>5 DEF WInv, WType
<1>8. p.stage = s /\ p.kind = c.kind
  BY <1>4, PassedFields DEF WInv, WType
<1>9. /\ WType /\ WType' /\ plans \in Seq(Plan) /\ CallInv(k, old) /\ late' = late
      /\ marks' = marks /\ restarts' = restarts
      /\ \A j : Copies(j)' = Copies(j)
  <2>1. WType /\ WType' /\ plans \in Seq(Plan)
    BY DEF WInv, WType
  <2>2. CallInv(k, old)
    BY <1>2 DEF ChainInv
  <2>3. late' = late /\ marks' = marks /\ restarts' = restarts
    BY DEF Serve
  <2> QED BY <2>1, <2>2, <2>3 DEF Copies
<1>10. ASSUME NEW j \in Key, j # k PROVE Believed(j)' = Believed(j)
  BY <1>7, <1>9, <1>10, SameBelieved
<1>11. \A j \in Key : BehindOK(j) /\ MarketOK(j) /\ IsFiniteSet(Copies(j))
  BY DEF OwedInv, RepeatsInv, RepeatsOK
<1>12. CASE c.kind = "create"
  <2>1. PICK x, src : x = c.candle /\ src = c.source /\ src \in {"market", "demo"}
    BY DEF Call
  <2>2. c.key = k /\ old.prev # x /\ marks[k] = x
    <3>1. CreatingInv(k)
      BY <1>2, <1>3, <1>12, WaitingTask DEF MarkInv
    <3> QED BY <1>2, <1>3, <1>9, <1>12, <2>1, <3>1 DEF CreatingInv, CallInv
  <2>3. PICK n : n = Len(plans) + 1
    OBVIOUS
  <2>4. /\ c.stage = "sent" /\ s \in {"approved", "blocked"} /\ lost' = lost
        /\ DOMAIN plans' = DOMAIN plans \cup {n}
        /\ \A i \in DOMAIN plans : plans'[i] = plans[i]
        /\ plans'[n].key = k /\ plans'[n].candle = x /\ plans'[n].source = src
    BY <1>3, <1>9, <1>12, <2>1, <2>2, <2>3, CreateEffect
  <2>5. MarketAdded(n, k, x, src)
    BY <1>9, <2>3, <2>4, PlanOfMarketAdded
  <2>6. Asking(k) /\ Known(k, x, src)
    <3>1. Asking(k)
      BY <1>2, <1>3, <1>12, <2>4 DEF Asking, Creating
    <3> QED BY <1>2, <1>3, <2>1, <3>1, KnownAsked
  <2>7. ASSUME NEW j \in Key
        PROVE  /\ BehindOK(j)'
               /\ \A i \in DOMAIN plans' : plans'[i].key = j =>
                      Known(j, plans'[i].candle, plans'[i].source)
               /\ \A d \in DOMAIN late' : d.kind = "create" /\ d.key = j =>
                      Known(j, d.candle, d.source)
    BY <1>9, <1>11, <2>4, <2>6, StoredBehind
  <2>8. ASSUME NEW j \in Key, j # k PROVE MarketOK(j)'
    <3>1. /\ MarketRepeats(j)' = MarketRepeats(j) /\ DemoPlans(j)' = DemoPlans(j)
          /\ \A y : Planned(j, y)' <=> Planned(j, y)
      BY <2>5, <2>8 DEF MarketAdded
    <3> QED BY <1>9, <1>10, <1>11, <2>7, <2>8, <3>1, QuietMarket
  <2>9. MarketOK(k)'
    <3>1. CASE src = "demo"
      BY <1>9, <1>11, <2>4, <2>5, <3>1, DemoStored
    <3>2. CASE src = "market"
      <4>1. Upcoming(k) = x /\ Believed(k) # x
        BY <1>2, <1>3, <2>1, <2>2, <2>6, <3>2 DEF Upcoming, Believed, Asking
      <4>2. Believed(k)' = x
        BY <1>6, <1>7, <1>8, <1>9, <2>2, <2>4 DEF Believed, Creating
      <4> QED BY <1>9, <1>11, <2>4, <2>5, <2>7, <3>2, <4>1, <4>2, OwnStored
    <3> QED BY <2>1, <3>1, <3>2
  <2> QED BY <2>7, <2>8, <2>9 DEF OwedInv
<1>13. CASE Exec(c)
  <2>1. DOMAIN plans' = DOMAIN plans /\ \A i \in DOMAIN plans : SamePlan(i)
    BY <1>3, <1>9, <1>13, ExecEffect
  <2>2. ~Creating(k) /\ ~Creating(k)'
    BY <1>2, <1>3, <1>6, <1>7, <1>8, <1>13 DEF Creating, Exec
  <2>3. \A j \in Key : Believed(j)' = Believed(j)
    BY <1>9, <1>10, <2>2, MarkBelieved
  <2> QED BY <1>9, <1>11, <2>1, <2>3, ExecutedMarket
<1> QED BY <1>12, <1>13 DEF Call, Exec

LEMMA ServeLateMarket ==
    ASSUME WInv, WInv', ChainInv, CountersGrow, RepeatsInv, OwedInv,
           \A j \in Key : Moves(j), ServeLate
    PROVE  OwedInv'
<1>1. PICK c \in DOMAIN late, s \in Stage :
        Handle(c, s) /\ late' = SumOf(TakenFrom(late, c), Remaining({Passed(c, s)}))
  BY ServeLateTakes
<1>2. PICK p : p = Passed(c, s) /\ late' = SumOf(TakenFrom(late, c), Remaining({p}))
  BY <1>1
<1>3. c \in Call /\ LateServed(c, p)
  BY <1>1, <1>2, ServeLateEffect DEF WInv
<1>4. p.kind = c.kind
  BY <1>2, <1>3, PassedFields DEF WInv, WType
<1>5. /\ WType /\ WType' /\ plans \in Seq(Plan)
      /\ task' = task /\ marks' = marks /\ restarts' = restarts
      /\ \A d \in DOMAIN late : late[d] \in Nat \ {0}
  BY DEF ServeLate, WInv, WType, ChainInv, LateInv
<1>6. \A j : Believed(j)' = Believed(j)
  BY <1>5, SameBelieved
<1>7. \A j \in Key : BehindOK(j) /\ MarketOK(j) /\ IsFiniteSet(Copies(j))
  BY DEF OwedInv, RepeatsInv, RepeatsOK
<1>8. CASE c.kind = "create"
  <2>1. PICK k, x, src : /\ k = c.key /\ x = c.candle /\ src = c.source
                          /\ k \in Key /\ src \in {"market", "demo"}
    BY <1>3 DEF Call
  <2>2. PICK n : n = Len(plans) + 1
    OBVIOUS
  <2>3. /\ lost' = lost /\ DOMAIN plans' = DOMAIN plans \cup {n}
        /\ \A i \in DOMAIN plans : plans'[i] = plans[i]
        /\ plans'[n].key = k /\ plans'[n].candle = x /\ plans'[n].source = src
    BY <1>1, <1>3, <1>5, <1>8, <2>1, <2>2, CreateEffect
  <2>4. MarketAdded(n, k, x, src)
    BY <1>5, <2>2, <2>3, PlanOfMarketAdded
  <2>5. Known(k, x, src)
    BY <1>8, <2>1, KnownLate
  <2>6. PICK q : q = <<c, late[c]>>
    OBVIOUS
  <2>7. /\ q \in Copies(k) /\ Copies(k)' \subseteq Copies(k) \ {q} /\ q[1].source = src
        /\ \A j : j # k => Copies(j)' = Copies(j)
    BY <1>3, <1>5, <1>8, <2>1, <2>6, CopiesServed
  <2>8. DOMAIN late' \subseteq DOMAIN late
    BY <1>3, <1>8 DEF LateServed
  <2>9. ASSUME NEW j \in Key
        PROVE  /\ BehindOK(j)'
               /\ \A i \in DOMAIN plans' : plans'[i].key = j =>
                      Known(j, plans'[i].candle, plans'[i].source)
               /\ \A d \in DOMAIN late' : d.kind = "create" /\ d.key = j =>
                      Known(j, d.candle, d.source)
    BY <1>5, <1>7, <2>3, <2>5, <2>8, StoredBehind
  <2>10. ASSUME NEW j \in Key, j # k PROVE MarketOK(j)'
    <3>1. /\ MarketRepeats(j)' = MarketRepeats(j) /\ DemoPlans(j)' = DemoPlans(j)
          /\ \A y : Planned(j, y)' <=> Planned(j, y)
      BY <2>4, <2>10 DEF MarketAdded
    <3> QED BY <1>5, <1>6, <1>7, <2>7, <2>9, <2>10, <3>1, QuietMarket
  <2>11. MarketOK(k)'
    <3>1. CASE src = "demo"
      BY <1>5, <1>7, <2>1, <2>3, <2>4, <2>7, <3>1, DemoStored
    <3>2. CASE src = "market"
      BY <1>5, <1>6, <1>7, <2>1, <2>3, <2>4, <2>7, <2>9, <3>2, LateStored
    <3> QED BY <2>1, <3>1, <3>2
  <2> QED BY <2>9, <2>10, <2>11 DEF OwedInv
<1>9. CASE Exec(c)
  <2>1. DOMAIN plans' = DOMAIN plans /\ \A i \in DOMAIN plans : SamePlan(i)
    BY <1>1, <1>3, <1>5, <1>9, ExecEffect
  <2>2. \A d : d.kind = "create" =>
             /\ d \in DOMAIN late' <=> d \in DOMAIN late
             /\ d \in DOMAIN late => late'[d] = late[d]
    BY <1>3, <1>4, <1>9 DEF LateServed, Exec
  <2>3. \A j : Copies(j)' = Copies(j)
    BY <2>2, CopiesKept
  <2> QED BY <1>5, <1>6, <1>7, <2>1, <2>2, <2>3, ExecutedMarket
<1> QED BY <1>3, <1>8, <1>9 DEF Call, Exec

LEMMA EveryOwedStep ==
    ASSUME WInv, WInv', ChainInv, CountersGrow, RepeatsInv, OwedInv, [Next]_vars
    PROVE  OwedInv'
<1>1. WType /\ WType' /\ plans \in Seq(Plan) /\ \A j \in Key : Moves(j)
  BY EveryMoves DEF WInv, WType
<1>2. ASSUME late' = late, plans' = plans, \A j \in Key : Untouched(j) PROVE OwedInv'
  BY <1>1, <1>2, AllQuiet
<1>3. ASSUME NEW k \in Key, TaskStep(k) PROVE OwedInv'
  <2>1. CASE ReadCandle(k)
    BY <1>1, <1>2, <2>1, ReadUntouched DEF ReadCandle
  <2>2. CASE PlanFromMarket(k)
    <3>1. \A j \in Key : Untouched(j)
      BY <1>1, <2>2, DecideUntouched DEF PlanFromMarket
    <3> QED BY <1>2, <2>2, <3>1 DEF PlanFromMarket
  <2>3. CASE PlanFromDemo(k)
    <3>1. \A j \in Key : Untouched(j)
      BY <1>1, <2>3, DecideUntouched, EndUntouched DEF PlanFromDemo, Creating
    <3> QED BY <1>2, <2>3, <3>1 DEF PlanFromDemo
  <2>4. CASE Created(k)
    BY <1>1, <1>2, <2>4, CreatedUntouched DEF Created
  <2>5. CASE Executed(k)
    BY <1>1, <1>2, <2>5, ExecutedUntouched DEF Executed
  <2> QED BY <1>1, <1>3, <2>1, <2>2, <2>3, <2>4, <2>5, GiveUpMarket, ServeMarket DEF TaskStep
<1>4. ASSUME late' = late, plans' = plans, task' = task, marks' = marks PROVE OwedInv'
  <2>1. \A j \in Key : Untouched(j)
    BY <1>1, <1>4, SameBelieved, QuietUntouched
  <2> QED BY <1>2, <1>4, <2>1
<1>5. ASSUME NEW k \in Key, Advance(k) PROVE OwedInv'
  BY <1>4, <1>5 DEF Advance
<1>6. CASE UNCHANGED vars
  BY <1>4, <1>6 DEF vars
<1>7. CASE CycleStep
  <2>1. late' = late /\ plans' = plans
    BY <1>7 DEF CycleStep, StartCycle, Synced, EndCycle
  <2> QED BY <1>1, <1>2, <1>7, <2>1, CycleUntouched
<1> QED BY <1>1, <1>3, <1>5, <1>6, <1>7, ServeLateMarket, RestartMarket DEF Next

\* The inductive invariant of the candles of the market: no plan is ahead of
\* its worker, and what was planned again, is about to be, or may come late is
\* paid by lost calls, restarts and demo plans.
THEOREM OwedInvariance == Spec => []OwedInv
<1>1. Init => OwedInv
  <2> SUFFICES ASSUME Init, NEW k \in Key PROVE BehindOK(k) /\ MarketOK(k)
    BY DEF OwedInv
  <2>1. /\ plans = <<>> /\ DOMAIN plans = {} /\ DOMAIN late = {}
        /\ lost[k] = 0 /\ restarts = 0 /\ candle[k] = 1 /\ task[k].pc = "idle"
    BY DEF Init, EmptyBag, SetToBag, Idle
  <2>2. Upcoming(k) = 1 /\ ~Asking(k)
    BY <2>1 DEF Upcoming, Asking, Creating
  <2>3. BehindOK(k)
    BY <2>1, <2>2 DEF BehindOK, Known, PlanIs, CallIs
  <2>4. MarketRepeats(k) = {} /\ DemoPlans(k) = {} /\ MarketCopies(k) = {}
    BY <2>1 DEF MarketRepeats, DemoPlans, MarketCopies, Copies
  <2>5. Owed(k) = 0
    BY <2>1 DEF Owed, Planned
  <2>6. Cardinality({}) = 0
    BY FS_EmptySet
  <2> QED BY <2>1, <2>3, <2>4, <2>5, <2>6 DEF MarketOK
<1>2. ASSUME WInv, WInv', ChainInv, Counters, Counters', RepeatsInv, OwedInv, [Next]_vars
      PROVE  OwedInv'
  <2>1. CountersGrow
    BY <1>2, CountersStep, WorkerAssumption DEF WInv, Counters, CountersGrow
  <2> QED BY <1>2, <2>1, EveryOwedStep
<1> QED BY <1>1, <1>2, MarksInvariant, ChainInvariance, CountersInvariance, RepeatsInvariance,
           PTL DEF Spec

\* Every candle of the market planned again is owed to a lost call, a restart
\* or a demo plan of its key; consecutive plans of one candle, and a plan
\* executed in both ways, to a lost call or a restart alone: the mark set
\* before the plan is asked for, and taken back when that fails, allows no more.
THEOREM RepetitionsArePaid == Spec => []RepetitionIsPaid
<1>1. ASSUME WInv, Counters, RepeatsInv PROVE ConsecutiveRepeatsArePaid
  <2> SUFFICES ASSUME NEW k \in Key
               PROVE  Cardinality(Repeats(k)) <= lost[k] + 2 * restarts
    BY DEF ConsecutiveRepeatsArePaid
  <2>1. Cardinality(Repeats(k)) \in Nat
    BY <1>1, RepeatsFinite DEF WInv, WType
  <2>2. Cardinality(Copies(k)) \in Nat
    BY <1>1, FS_CardinalityType DEF RepeatsInv, RepeatsOK
  <2>3. PICK p, c, d \in Nat :
          p = Cardinality(Repeats(k)) /\ c = Cardinality(Copies(k)) /\ d = Debt(k)
    BY <2>1, <2>2, DebtType
  <2>4. PICK l, r \in Nat : l = lost[k] /\ r = restarts
    BY <1>1, WorkerAssumption DEF Counters
  <2>5. p + c + d <= l + 2 * r
    BY <1>1, <2>3, <2>4 DEF RepeatsInv, RepeatsOK
  <2>6. p <= l + 2 * r
    BY <2>3, <2>4, <2>5
  <2> QED BY <2>3, <2>4, <2>6
<1>2. ASSUME WInv, Counters, RepeatsInv, OwedInv PROVE MarketRepeatsArePaid
  <2> SUFFICES ASSUME NEW k \in Key
               PROVE  Cardinality(MarketRepeats(k))
                          <= lost[k] + restarts + Cardinality(DemoPlans(k))
    BY DEF MarketRepeatsArePaid
  <2>1. /\ Cardinality(MarketRepeats(k)) \in Nat /\ Cardinality(MarketCopies(k)) \in Nat
        /\ Cardinality(DemoPlans(k)) \in Nat
    BY <1>2, MarketFinite DEF WInv, WType, RepeatsInv, RepeatsOK
  <2>2. PICK p \in Nat, c \in Nat, e \in Nat, d \in 0 .. 1 :
          /\ p = Cardinality(MarketRepeats(k)) /\ c = Cardinality(MarketCopies(k))
          /\ e = Cardinality(DemoPlans(k)) /\ d = Owed(k)
    BY <2>1, OwedType
  <2>3. PICK l, r \in Nat : l = lost[k] /\ r = restarts
    BY <1>2, WorkerAssumption DEF Counters
  <2>4. p + c + d <= l + r + e
    BY <1>2, <2>2, <2>3 DEF OwedInv, MarketOK
  <2>5. p <= l + r + e
    BY <2>2, <2>3, <2>4
  <2> QED BY <2>2, <2>3, <2>5
<1>3. ASSUME WInv, Counters, RepeatsInv, OwedInv, DoubleExecutionIsPaid PROVE RepetitionIsPaid
  BY <1>1, <1>2, <1>3 DEF RepetitionIsPaid
<1> QED BY <1>3, MarksInvariant, CountersInvariance, RepeatsInvariance, OwedInvariance,
           DoubleExecutionsArePaid, PTL
=============================================================================
