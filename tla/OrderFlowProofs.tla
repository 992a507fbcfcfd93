---------------------------- MODULE OrderFlowProofs ----------------------------
(***************************************************************************)
(* For any number of signals, strategies, orders and attempts, on every    *)
(* kind of account: types, how often a signal becomes an entry, what the   *)
(* books show of the entries that filled, and who owns the symbol.  And,   *)
(* from PositionLedgerProofs, the net outcome the two books of             *)
(* MCOrdersBooks show of a closed position.                                *)
(***************************************************************************)
EXTENDS MCOrdersBooks, DataLemmas

PostSet  == [at : {"idle", "sent", "checked", "admitted", "refused", "done"}, tries : Nat]
OrderSet == [signal : Signals \cup {NULL},
             status : Results \cup {"none", "received", "conflict", "size_too_small"}]
TaskSet  == [at : {"none", "guard", "size", "call", "write", "apply", "flip", "raised", "done",
                   "gone"}, result : Results \cup {NULL}]
JobSet   == [at : {"none", "load", "submit", "record", "answer", "over"},
             try : 0..Attempts, result : Results \cup {NULL}, flip : BOOLEAN]

\* What the stages of an order's task and of its execution say of it.
Kept(k) ==
  /\ job[k].at \in {"record", "answer"} => job[k].result \in Results
  /\ task[k].at = "write" => task[k].result \in Results
  /\ job[k].at # "none" => task[k].at \notin {"none", "guard", "size"}
  /\ order[k].status = "none" =>
       /\ order[k].signal = NULL /\ entries[k] = 0
       /\ task[k].at = "none" /\ job[k].at = "none"
  /\ order[k].status # "none" => order[k].signal \in Signals

FlowInv == TypeOK /\ \A k \in Orders : Kept(k)

-------------------------------------------------------------------------------
(* What the operators return.                                              *)

LEMMA NoJobType == NoJob \in JobSet /\ NoJob.at = "none" /\ NoJob.flip = FALSE
BY FlowBoundsAssumption DEF NoJob, JobSet

LEMMA WorldType ==
  ASSUME TypeOK
  PROVE  /\ world.venue \in {"blofin", "hyperliquid", "binance"}
         /\ world.hedge \in BOOLEAN /\ world.busy \in BOOLEAN
         /\ world.posts \in Nat /\ world.faults \in Nat
         /\ world.plan \in [Signals -> [strategy : Strategies, side : Sides, kind : Kinds]]
BY WorldsAssumption DEF TypeOK

LEMMA AskedType ==
  ASSUME FlowInv, NEW k \in Orders, order[k].status # "none"
  PROVE  /\ Asked(k).strategy \in Strategies /\ Asked(k).side \in Sides
         /\ Asked(k).kind \in Kinds /\ order[k].signal \in Signals
<1>1. order[k].signal \in Signals BY DEF FlowInv, Kept
<1>2. world.plan \in [Signals -> [strategy : Strategies, side : Sides, kind : Kinds]]
  BY WorldType DEF FlowInv
<1> QED BY <1>1, <1>2 DEF Asked

\* An order the exchange took is never answered as a transport error.
LEMMA VerdictsIn ==
  ASSUME FlowInv, NEW k \in Orders, order[k].status # "none",
         NEW a \in Verdicts.in[Asked(k).kind]
  PROVE  a \in {"filled", "pending"}
<1>1. Asked(k).kind \in {"market", "limit"} BY AskedType DEF Kinds
<1>2. world.venue \in {"blofin", "hyperliquid", "binance"} BY WorldType DEF FlowInv
<1> QED BY <1>1, <1>2 DEF Verdicts, BlofinVerdicts, HyperliquidVerdicts, BinanceVerdicts

\* The answer to an attempt: the next one, or the verdict.
LEMMA ConcludeDoes ==
  ASSUME TypeOK, NEW k \in Orders, NEW answer \in Results, NEW flip \in BOOLEAN,
         Conclude(k, answer, flip)
  PROVE  /\ job' \in [Orders -> JobSet] /\ \A q \in Orders : q # k => job'[q] = job[q]
         /\ \/ /\ job'[k].at = "load" /\ answer = "route_failed"
               /\ job'[k].result = job[k].result /\ job'[k].flip = job[k].flip
            \/ job'[k].at = "record" /\ job'[k].result = answer /\ job'[k].flip = flip
<1> DEFINE j == job[k]
<1>1. job \in [Orders -> JobSet] /\ j \in JobSet BY DEF TypeOK, JobSet
<1>2. CASE answer = "route_failed" /\ j.try < Attempts
  <2> DEFINE n == j.try + 1
             g == [j EXCEPT !.at = "load", !.try = n]
  <2>0. j.try \in 0..Attempts BY <1>1 DEF JobSet
  <2>1. n \in 0..Attempts
    <3>1. j.try < Attempts BY <1>2
    <3> HIDE DEF j
    <3> QED BY <2>0, <3>1, FlowBoundsAssumption
  <2>2. job' = [job EXCEPT ![k] = g] BY <1>2 DEF Conclude
  <2> HIDE DEF n
  <2>3. g \in JobSet /\ g.at = "load" /\ g.result = j.result /\ g.flip = j.flip
    BY <1>1, <2>1 DEF JobSet
  <2> HIDE DEF g
  <2> QED BY <1>1, <1>2, <2>2, <2>3
<1>3. CASE ~(answer = "route_failed" /\ j.try < Attempts)
  <2> DEFINE g == [j EXCEPT !.at = "record", !.result = answer, !.flip = flip]
  <2>1. job' = [job EXCEPT ![k] = g] BY <1>3 DEF Conclude
  <2>2. g \in JobSet /\ g.at = "record" /\ g.result = answer /\ g.flip = flip
    BY <1>1 DEF JobSet
  <2> HIDE DEF g
  <2> QED BY <1>1, <2>1, <2>2
<1> QED BY <1>2, <1>3

-------------------------------------------------------------------------------
(* Types and stages are kept, step by step.                                *)

LEMMA FaultType ==
  ASSUME TypeOK
  PROVE  /\ Slip => faults' \in Nat /\ fails' \in Nat /\ lost' \in [Signals -> Nat]
         /\ Fail => faults' \in Nat /\ fails' \in Nat /\ lost' \in [Signals -> Nat]
         /\ \A g : Lose(g) => faults' \in Nat /\ fails' \in Nat /\ lost' \in [Signals -> Nat]
BY DEF TypeOK, Slip, Fail, Lose, Fault

\* A step of one order leaves what is known of the others.
LEMMA FlowAt ==
  ASSUME FlowInv, NEW k \in Orders, TypeOK', Kept(k)',
         \A q \in Orders : q # k => /\ job'[q] = job[q] /\ task'[q] = task[q]
                                    /\ order'[q] = order[q] /\ entries'[q] = entries[q]
  PROVE  FlowInv'
<1>1. ASSUME NEW q \in Orders, q # k PROVE Kept(q)'
  BY <1>1 DEF FlowInv, Kept
<1> QED BY <1>1 DEF FlowInv

\* One that moves no order leaves all.
LEMMA FlowStill ==
  ASSUME FlowInv, TypeOK', job' = job, task' = task, order' = order, entries' = entries
  PROVE  FlowInv'
<1>1. ASSUME NEW q \in Orders PROVE Kept(q)'
  BY DEF FlowInv, Kept
<1> QED BY <1>1 DEF FlowInv

LEMMA PostKept ==
  ASSUME FlowInv, NEW g \in Signals, Send(g) \/ PostStep(g) \/ AnswerLost(g)
  PROVE  FlowInv'
<1> USE DEF gate, book, exchange, counts
<1>0. TypeOK BY DEF FlowInv
<1>1. CASE Send(g)
  <2>1. post' \in [Signals -> PostSet] BY <1>0, <1>1 DEF Send, TypeOK, PostSet
  <2> QED BY <1>0, <1>1, <2>1, FlowStill DEF Send, TypeOK, PostSet
<1>2. CASE LoadStrategy(g)
  <2>1. world.plan[g].strategy \in Strategies BY <1>0, WorldType
  <2>2. cached' \in [Strategies -> BOOLEAN \cup {NULL}]
    BY <1>0, <1>2, <2>1 DEF LoadStrategy, TypeOK
  <2>3. post' \in [Signals -> PostSet] BY <1>0, <1>2 DEF LoadStrategy, TypeOK, PostSet
  <2> QED BY <1>0, <1>2, <2>2, <2>3, FlowStill DEF LoadStrategy, TypeOK, PostSet
<1>3. CASE Reject(g)
  <2>1. post' \in [Signals -> PostSet] BY <1>0, <1>3 DEF Reject, TypeOK, PostSet
  <2> QED BY <1>0, <1>3, <2>1, FlowStill DEF Reject, TypeOK, PostSet
<1>4. CASE Admit(g)
  <2>1. PICK k \in Orders :
          /\ order[k].status = "none"
          /\ order' = [order EXCEPT ![k] = [signal |-> g, status |-> "received"]]
          /\ task' = [task EXCEPT ![k].at = "guard"]
    BY <1>4 DEF Admit
  <2>2. post' \in [Signals -> PostSet]
    <3>1. post' = [post EXCEPT ![g].at = "admitted"] BY <1>4 DEF Admit
    <3>2. post \in [Signals -> PostSet] BY <1>0 DEF TypeOK, PostSet
    <3> QED BY <3>1, <3>2 DEF PostSet
  <2>3. order' \in [Orders -> OrderSet] /\ order'[k].signal = g /\ order'[k].status = "received"
    BY <1>0, <2>1 DEF TypeOK, OrderSet
  <2>4. task' \in [Orders -> TaskSet] /\ task'[k].at = "guard"
    BY <1>0, <2>1 DEF TypeOK, TaskSet
  <2>5. TypeOK' BY <1>0, <1>4, <2>2, <2>3, <2>4 DEF Admit, TypeOK, PostSet, OrderSet, TaskSet
  <2>6. Kept(k)'
    <3>1. job' = job /\ entries' = entries BY <1>4 DEF Admit
    <3> QED BY <2>1, <2>3, <2>4, <3>1 DEF FlowInv, Kept
  <2> QED BY <1>0, <1>4, <2>1, <2>5, <2>6, FlowAt DEF Admit, TypeOK
<1>5. CASE Answer(g)
  <2>1. post' \in [Signals -> PostSet] BY SMTT(30), <1>0, <1>5 DEF Answer, TypeOK, PostSet
  <2> QED BY <1>0, <1>5, <2>1, FlowStill DEF Answer, TypeOK, PostSet
<1>6. CASE AnswerLost(g)
  <2>1. post' \in [Signals -> PostSet] BY SMTT(30), <1>0, <1>6 DEF AnswerLost, TypeOK, PostSet
  <2>2. faults' \in Nat /\ fails' \in Nat /\ lost' \in [Signals -> Nat]
    BY <1>0, <1>6, FaultType DEF AnswerLost
  <2> QED BY <1>0, <1>6, <2>1, <2>2, FlowStill DEF AnswerLost, TypeOK, PostSet
<1> QED BY <1>1, <1>2, <1>3, <1>4, <1>5, <1>6 DEF PostStep

LEMMA GateKept ==
  ASSUME FlowInv, NEW s \in Strategies, Toggle(s) \/ CacheExpires(s)
  PROVE  FlowInv'
<1> USE DEF book, exchange, counts
<1>0. TypeOK BY DEF FlowInv
<1>1. CASE Toggle(s)
  <2>1. faults' \in Nat /\ fails' \in Nat /\ lost' \in [Signals -> Nat]
    BY <1>0, <1>1, FaultType DEF Toggle
  <2>2. enabled' \in [Strategies -> BOOLEAN] BY <1>0, <1>1 DEF Toggle, TypeOK
  <2> QED BY <1>0, <1>1, <2>1, <2>2, FlowStill DEF Toggle, TypeOK
<1>2. CASE CacheExpires(s)
  <2>1. cached' \in [Strategies -> BOOLEAN \cup {NULL}] BY <1>0, <1>2 DEF CacheExpires, TypeOK
  <2> QED BY <1>0, <1>2, <2>1, FlowStill DEF CacheExpires, TypeOK
<1> QED BY <1>1, <1>2

\* What a task's step may do to the tables: the types follow from those of what it wrote.
LEMMA TaskTypes ==
  ASSUME TypeOK, world' = world, gate' = gate, post' = post, exchange' = exchange,
         order' \in [Orders -> OrderSet], task' \in [Orders -> TaskSet],
         job' \in [Orders -> JobSet], pos' \in [Strategies -> [Sides -> Nat]],
         dead' \subseteq Orders, faults' \in Nat, fails' \in Nat, lost' \in [Signals -> Nat]
  PROVE  TypeOK'
BY DEF TypeOK, OrderSet, TaskSet, JobSet, gate, exchange

LEMMA SetStatus ==
  ASSUME order \in [Orders -> OrderSet], NEW k \in Orders,
         NEW status \in Results \cup {"none", "received", "conflict", "size_too_small"}
  PROVE  [order EXCEPT ![k].status = status] \in [Orders -> OrderSet]
BY DEF OrderSet

LEMMA SetTaskAt ==
  ASSUME task \in [Orders -> TaskSet], NEW k \in Orders,
         NEW at \in {"none", "guard", "size", "call", "write", "apply", "flip", "raised",
                    "done", "gone"}
  PROVE  [task EXCEPT ![k].at = at] \in [Orders -> TaskSet]
BY DEF TaskSet

LEMMA TaskKept ==
  ASSUME FlowInv, NEW k \in Orders,
         TaskStep(k) \/ GuardFails(k) \/ CallExpires(k) \/ TaskRaises(k)
  PROVE  FlowInv'
<1> USE DEF book, counts
<1>0. TypeOK /\ Kept(k) BY DEF FlowInv
<1>a. /\ order \in [Orders -> OrderSet] /\ task \in [Orders -> TaskSet]
      /\ job \in [Orders -> JobSet] /\ pos \in [Strategies -> [Sides -> Nat]]
      /\ dead \subseteq Orders /\ faults \in Nat /\ fails \in Nat /\ lost \in [Signals -> Nat]
  BY <1>0 DEF TypeOK, OrderSet, TaskSet, JobSet
<1>b. job[k] \in JobSet /\ task[k] \in TaskSet /\ order[k] \in OrderSet BY <1>a
<1>1. CASE Guard(k)
  <2>1. \/ /\ order' = [order EXCEPT ![k].status = "conflict"]
           /\ task' = [task EXCEPT ![k].at = "done"]
        \/ task' = [task EXCEPT ![k].at = "size"] /\ order' = order
    BY <1>1 DEF Guard
  <2>2. order' \in [Orders -> OrderSet] /\ task' \in [Orders -> TaskSet]
    <3>1. [order EXCEPT ![k].status = "conflict"] \in [Orders -> OrderSet]
      BY <1>a, SetStatus
    <3>2. /\ [task EXCEPT ![k].at = "done"] \in [Orders -> TaskSet]
          /\ [task EXCEPT ![k].at = "size"] \in [Orders -> TaskSet]
      BY <1>a, SetTaskAt
    <3> QED BY <1>a, <2>1, <3>1, <3>2
  <2>3. TypeOK' BY <1>0, <1>1, <1>a, <2>2, TaskTypes DEF Guard
  <2>4. task[k].at = "guard" /\ job' = job /\ entries' = entries BY <1>1 DEF Guard, exchange
  <2>5. Kept(k)' BY <1>0, <1>a, <2>1, <2>4 DEF Kept, OrderSet, TaskSet
  <2> QED BY <1>a, <2>1, <2>3, <2>4, <2>5, FlowAt
<1>2. CASE GuardFails(k)
  <2>1. task' = [task EXCEPT ![k].at = "size"] BY <1>2 DEF GuardFails
  <2>2. task' \in [Orders -> TaskSet] BY <1>a, <2>1 DEF TaskSet
  <2>3. TypeOK' BY <1>0, <1>2, <1>a, <2>2, TaskTypes, FaultType DEF GuardFails
  <2>4. task[k].at = "guard" /\ job' = job /\ entries' = entries /\ order' = order
    BY <1>2 DEF GuardFails, exchange
  <2>5. Kept(k)' BY <1>0, <1>a, <2>1, <2>4 DEF Kept, TaskSet
  <2> QED BY <1>a, <2>1, <2>3, <2>4, <2>5, FlowAt
<1>3. CASE TooSmall(k)
  <2>1. /\ order' = [order EXCEPT ![k].status = "size_too_small"]
        /\ task' = [task EXCEPT ![k].at = "done"]
    BY <1>3 DEF TooSmall
  <2>2. order' \in [Orders -> OrderSet] /\ task' \in [Orders -> TaskSet]
    BY <1>a, <2>1 DEF OrderSet, TaskSet
  <2>3. TypeOK' BY <1>0, <1>3, <1>a, <2>2, TaskTypes DEF TooSmall
  <2>4. task[k].at = "size" /\ job' = job /\ entries' = entries BY <1>3 DEF TooSmall, exchange
  <2>5. Kept(k)' BY <1>0, <1>a, <2>1, <2>4 DEF Kept, OrderSet, TaskSet
  <2> QED BY <1>a, <2>1, <2>3, <2>4, <2>5, FlowAt
<1>4. CASE CallExecutor(k)
  <2> DEFINE g == [NoJob EXCEPT !.at = "load", !.try = 1]
  <2>1. task' = [task EXCEPT ![k].at = "call"] /\ job' = [job EXCEPT ![k] = g]
    BY <1>4 DEF CallExecutor
  <2>2. g \in JobSet /\ g.at = "load"
    <3>1. 1 \in 0..Attempts BY FlowBoundsAssumption
    <3> QED BY <3>1 DEF NoJob, JobSet
  <2> HIDE DEF g
  <2>3. task' \in [Orders -> TaskSet] /\ job' \in [Orders -> JobSet]
    BY <1>a, <2>1, <2>2 DEF TaskSet
  <2>4. TypeOK' BY <1>0, <1>4, <1>a, <2>3, TaskTypes DEF CallExecutor
  <2>5. task[k].at = "size" /\ order' = order /\ entries' = entries
    BY <1>4 DEF CallExecutor, exchange
  <2>6. job'[k].at = "load" /\ task'[k].at = "call" BY <1>a, <2>1, <2>2 DEF TaskSet
  <2>7. Kept(k)' BY <1>0, <2>5, <2>6 DEF Kept
  <2> QED BY <1>a, <2>1, <2>4, <2>5, <2>7, FlowAt
<1>5. CASE Answered(k)
  <2> DEFINE t == [at |-> "write", result |-> job[k].result]
  <2>1. /\ task' = [task EXCEPT ![k] = t] /\ job' = [job EXCEPT ![k].at = "over"]
        /\ task[k].at = "call" /\ job[k].at = "answer"
    BY <1>5 DEF Answered
  <2>2. t \in TaskSet /\ t.at = "write" /\ t.result \in Results
    BY <1>0, <1>b, <2>1 DEF TaskSet, JobSet, Kept
  <2> HIDE DEF t
  <2>3. task' \in [Orders -> TaskSet] /\ job' \in [Orders -> JobSet]
    BY <1>a, <2>1, <2>2 DEF JobSet
  <2>4. TypeOK' BY <1>0, <1>5, <1>a, <2>3, TaskTypes DEF Answered
  <2>5. order' = order /\ entries' = entries BY <1>5 DEF Answered, exchange
  <2>6. job'[k].at = "over" /\ task'[k] = t BY <1>a, <2>1, <2>2 DEF JobSet
  <2>7. Kept(k)' BY <1>0, <2>1, <2>2, <2>5, <2>6 DEF Kept
  <2> QED BY <1>a, <2>1, <2>4, <2>5, <2>7, FlowAt
<1>6. CASE CallExpires(k)
  <2> DEFINE t == [at |-> "write", result |-> "route_failed"]
  <2>1. task' = [task EXCEPT ![k] = t] /\ task[k].at = "call" BY <1>6 DEF CallExpires
  <2>2. t \in TaskSet /\ t.at = "write" /\ t.result \in Results BY DEF TaskSet, Results
  <2> HIDE DEF t
  <2>3. task' \in [Orders -> TaskSet] BY <1>a, <2>1, <2>2
  <2>4. TypeOK' BY <1>0, <1>6, <1>a, <2>3, TaskTypes, FaultType DEF CallExpires
  <2>5. order' = order /\ entries' = entries /\ job' = job BY <1>6 DEF CallExpires, exchange
  <2>6. Kept(k)' BY <1>0, <1>a, <2>1, <2>2, <2>5 DEF Kept
  <2> QED BY <1>a, <2>1, <2>4, <2>5, <2>6, FlowAt
<1>7. CASE WriteStatus(k)
  <2>1. /\ order' = [order EXCEPT ![k].status = task[k].result]
        /\ \/ task' = [task EXCEPT ![k].at = "apply"]
           \/ task' = [task EXCEPT ![k].at = "done"]
        /\ task[k].at = "write"
    BY <1>7 DEF WriteStatus
  <2>2. task[k].result \in Results BY <1>0, <2>1 DEF Kept
  <2>3. order' \in [Orders -> OrderSet] /\ task' \in [Orders -> TaskSet]
    <3>1. [order EXCEPT ![k].status = task[k].result] \in [Orders -> OrderSet]
      BY <1>a, <2>2, SetStatus
    <3>2. /\ [task EXCEPT ![k].at = "done"] \in [Orders -> TaskSet]
          /\ [task EXCEPT ![k].at = "apply"] \in [Orders -> TaskSet]
      BY <1>a, SetTaskAt
    <3> QED BY <2>1, <3>1, <3>2
  <2>4. TypeOK' BY <1>0, <1>7, <1>a, <2>3, TaskTypes DEF WriteStatus
  <2>5. job' = job /\ entries' = entries BY <1>7 DEF WriteStatus, exchange
  <2>6. Kept(k)' BY <1>0, <1>a, <2>1, <2>2, <2>5 DEF Kept, OrderSet, TaskSet, Results
  <2> QED BY <1>a, <2>1, <2>4, <2>5, <2>6, FlowAt
<1>8. CASE ApplyFill(k)
  <2>1. task' = [task EXCEPT ![k].at = "flip"] /\ task[k].at = "apply" BY <1>8 DEF ApplyFill
  <2>2. task' \in [Orders -> TaskSet] BY <1>a, <2>1 DEF TaskSet
  <2>3. pos' \in [Strategies -> [Sides -> Nat]]
    <3> DEFINE s == Asked(k).strategy  d == Asked(k).side
    <3>1. pos' = [pos EXCEPT ![s][d] = pos[s][d] + 1] BY <1>8 DEF ApplyFill
    <3>2. s \in Strategies /\ d \in Sides BY <1>0, <2>1, AskedType DEF Kept
    <3> HIDE DEF s, d
    <3> QED BY <1>a, <3>1, <3>2
  <2>4. TypeOK' BY <1>0, <1>8, <1>a, <2>2, <2>3, TaskTypes DEF ApplyFill
  <2>5. job' = job /\ entries' = entries /\ order' = order BY <1>8 DEF ApplyFill, exchange
  <2>6. Kept(k)' BY <1>0, <1>a, <2>1, <2>5 DEF Kept, TaskSet
  <2> QED BY <1>a, <2>1, <2>4, <2>5, <2>6, FlowAt
<1>9. CASE Flip(k)
  <2>1. task' = [task EXCEPT ![k].at = "done"] /\ task[k].at = "flip" BY <1>9 DEF Flip
  <2>2. task' \in [Orders -> TaskSet] BY <1>a, <2>1 DEF TaskSet
  <2>3. pos' \in [Strategies -> [Sides -> Nat]]
    <3>1. pos' = pos
          \/ pos' = [pos EXCEPT ![Asked(k).strategy][Opposite(Asked(k).side)] = 0]
      BY <1>9 DEF Flip
    <3> QED BY SMTT(30), <1>a, <3>1
  <2>4. TypeOK' BY <1>0, <1>9, <1>a, <2>2, <2>3, TaskTypes DEF Flip
  <2>5. job' = job /\ entries' = entries /\ order' = order BY <1>9 DEF Flip, exchange
  <2>6. Kept(k)' BY <1>0, <1>a, <2>1, <2>5 DEF Kept, TaskSet
  <2> QED BY <1>a, <2>1, <2>4, <2>5, <2>6, FlowAt
<1>10. CASE TaskRaises(k)
  <2>1. task' = [task EXCEPT ![k].at = "raised"] /\ task[k].at \in {"write", "apply"}
    BY <1>10 DEF TaskRaises
  <2>2. task' \in [Orders -> TaskSet] BY <1>a, <2>1 DEF TaskSet
  <2>3. TypeOK' BY <1>0, <1>10, <1>a, <2>2, TaskTypes, FaultType DEF TaskRaises
  <2>4. job' = job /\ entries' = entries /\ order' = order BY <1>10 DEF TaskRaises, exchange
  <2>5. Kept(k)' BY <1>0, <1>a, <2>1, <2>4 DEF Kept, TaskSet
  <2> QED BY <1>a, <2>1, <2>3, <2>4, <2>5, FlowAt
<1>11. CASE Raised(k)
  <2>1. /\ order' = [order EXCEPT ![k].status = "route_failed"]
        /\ task' = [task EXCEPT ![k].at = "done"] /\ task[k].at = "raised"
    BY <1>11 DEF Raised
  <2>2. order' \in [Orders -> OrderSet] /\ task' \in [Orders -> TaskSet]
    BY ZenonT(60), <1>a, <2>1 DEF OrderSet, TaskSet, Results
  <2>3. TypeOK' BY <1>0, <1>11, <1>a, <2>2, TaskTypes DEF Raised
  <2>4. job' = job /\ entries' = entries BY <1>11 DEF Raised, exchange
  <2>5. Kept(k)' BY <1>0, <1>a, <2>1, <2>4 DEF Kept, OrderSet, TaskSet
  <2> QED BY <1>a, <2>1, <2>3, <2>4, <2>5, FlowAt
<1> QED BY <1>1, <1>2, <1>3, <1>4, <1>5, <1>6, <1>7, <1>8, <1>9, <1>10, <1>11 DEF TaskStep

\* What a step of an execution may do to the tables.
LEMMA JobTypes ==
  ASSUME TypeOK, world' = world, gate' = gate, post' = post, task' = task, pos' = pos,
         order' \in [Orders -> OrderSet], job' \in [Orders -> JobSet], dead' \subseteq Orders,
         entries' \in [Orders -> Nat], fills' \in [Orders -> Nat], netted' \in BOOLEAN,
         faults' \in Nat, fails' \in Nat, lost' \in [Signals -> Nat]
  PROVE  TypeOK'
BY DEF TypeOK, OrderSet, TaskSet, JobSet, gate

\* An order under execution has been admitted.
LEMMA JobOrder ==
  ASSUME FlowInv, NEW k \in Orders, job[k].at # "none"
  PROVE  /\ order[k].status # "none" /\ order[k].signal \in Signals
         /\ task[k].at \notin {"none", "guard", "size"}
BY DEF FlowInv, Kept

LEMMA SetJobAt ==
  ASSUME job \in [Orders -> JobSet], NEW k \in Orders,
         NEW at \in {"none", "load", "submit", "record", "answer", "over"}
  PROVE  /\ [job EXCEPT ![k].at = at] \in [Orders -> JobSet]
         /\ [job EXCEPT ![k].at = at][k].at = at
         /\ [job EXCEPT ![k].at = at][k].result = job[k].result
         /\ \A q \in Orders : q # k => [job EXCEPT ![k].at = at][q] = job[q]
BY DEF JobSet

\* An attempt's end, whatever it did on the exchange.
LEMMA ConcludeKept ==
  ASSUME FlowInv, NEW k \in Orders, job[k].at = "submit",
         NEW answer \in Results, NEW flip \in BOOLEAN, Conclude(k, answer, flip),
         world' = world, gate' = gate, post' = post, task' = task, book' = book,
         entries' \in [Orders -> Nat], fills' \in [Orders -> Nat], netted' \in BOOLEAN,
         \A q \in Orders : q # k => entries'[q] = entries[q],
         faults' \in Nat, fails' \in Nat, lost' \in [Signals -> Nat]
  PROVE  FlowInv'
<1> USE DEF book
<1>0. TypeOK /\ Kept(k) BY DEF FlowInv
<1>1. /\ job' \in [Orders -> JobSet] /\ \A q \in Orders : q # k => job'[q] = job[q]
      /\ job'[k].at \in {"load", "record"}
      /\ job'[k].at = "record" => job'[k].result \in Results
  BY <1>0, ConcludeDoes
<1>2. TypeOK' BY <1>0, <1>1, JobTypes DEF TypeOK, OrderSet
<1>3. Kept(k)' BY <1>0, <1>1, JobOrder DEF Kept
<1> QED BY <1>1, <1>2, <1>3, FlowAt

LEMMA EnterType ==
  ASSUME TypeOK, NEW k \in Orders, NEW answer, Enter(k, answer)
  PROVE  /\ entries' \in [Orders -> Nat] /\ fills' \in [Orders -> Nat] /\ netted' \in BOOLEAN
         /\ \A q \in Orders : q # k => entries'[q] = entries[q] /\ fills'[q] = fills[q]
         /\ entries'[k] = entries[k] + 1
         /\ fills'[k] = IF answer = "pending" THEN fills[k] ELSE fills[k] + 1
         /\ netted' = (netted \/ Nets(k))
<1>1. /\ entries \in [Orders -> Nat] /\ fills \in [Orders -> Nat] /\ netted \in BOOLEAN
  BY DEF TypeOK
<1>2. Nets(k) \in BOOLEAN BY DEF Nets
<1> QED BY <1>1, <1>2 DEF Enter

LEMMA JobKept ==
  ASSUME FlowInv, NEW k \in Orders,
         \/ JobStep(k) \/ AdapterFails(k) \/ NotSent(k) \/ SubmitLost(k) \/ StateUnread(k)
         \/ RecordFails(k)
  PROVE  FlowInv'
<1> USE DEF counts
<1>0. TypeOK /\ Kept(k) BY DEF FlowInv
<1>a. /\ order \in [Orders -> OrderSet] /\ task \in [Orders -> TaskSet]
      /\ job \in [Orders -> JobSet] /\ dead \subseteq Orders
      /\ entries \in [Orders -> Nat] /\ fills \in [Orders -> Nat] /\ netted \in BOOLEAN
      /\ faults \in Nat /\ fails \in Nat /\ lost \in [Signals -> Nat]
  BY <1>0 DEF TypeOK, OrderSet, TaskSet, JobSet
<1>b. Results = {"filled", "pending", "rejected", "route_failed"} BY DEF Results
<1>1. CASE GetAdapter(k)
  <2>1. job' = [job EXCEPT ![k].at = "submit"] /\ job[k].at = "load" BY <1>1 DEF GetAdapter
  <2>2. job' \in [Orders -> JobSet] /\ job'[k].at = "submit"
        /\ \A q \in Orders : q # k => job'[q] = job[q]
    BY ZenonT(60), <1>a, <2>1, SetJobAt
  <2>3. /\ order' = order /\ task' = task /\ entries' = entries /\ fills' = fills
        /\ netted' = netted /\ dead' = dead
    BY <1>1 DEF GetAdapter, book, exchange
  <2>4. TypeOK' BY <1>0, <1>1, <1>a, <2>2, <2>3, JobTypes DEF GetAdapter, book
  <2>5. Kept(k)' BY <1>0, <2>1, <2>2, <2>3, JobOrder DEF Kept
  <2> QED BY <2>2, <2>3, <2>4, <2>5, FlowAt
<1>2. CASE Record(k)
  <2>1. /\ job' = [job EXCEPT ![k].at = "answer"] /\ job[k].at = "record"
        /\ order' = [order EXCEPT ![k].status = job[k].result]
    BY <1>2 DEF Record
  <2>2. job' \in [Orders -> JobSet] /\ job'[k].at = "answer" /\ job'[k].result = job[k].result
        /\ \A q \in Orders : q # k => job'[q] = job[q]
    BY ZenonT(60), <1>a, <2>1, SetJobAt
  <2>3. job[k].result \in Results BY <1>0, <2>1 DEF Kept
  <2>4. order' \in [Orders -> OrderSet] BY <1>a, <2>1, <2>3, SetStatus
  <2>5. /\ task' = task /\ entries' = entries /\ fills' = fills /\ netted' = netted
        /\ dead' = dead
    BY <1>2 DEF Record, exchange
  <2>6. TypeOK' BY <1>0, <1>2, <1>a, <2>2, <2>4, <2>5, JobTypes DEF Record
  <2>7. order'[k].status = job[k].result /\ order'[k].signal = order[k].signal
        /\ \A q \in Orders : q # k => order'[q] = order[q]
    BY <1>a, <2>1 DEF OrderSet
  <2>8. Kept(k)' BY <1>0, <1>b, <2>1, <2>2, <2>3, <2>5, <2>7, JobOrder DEF Kept
  <2> QED BY <2>2, <2>5, <2>6, <2>7, <2>8, FlowAt
<1>3. ASSUME NEW answer \in Results, Submitted(k, answer) PROVE FlowInv'
  <2>1. Enter(k, answer) /\ job[k].at = "submit" BY <1>3 DEF Submitted
  <2>2. \E flip \in BOOLEAN : Conclude(k, answer, flip)
    <3>1. (Nets(k) /\ world.venue # "hyperliquid") \in BOOLEAN OBVIOUS
    <3> QED BY <1>3, <3>1 DEF Submitted
  <2>3. /\ world' = world /\ gate' = gate /\ post' = post /\ task' = task /\ book' = book
        /\ faults' = faults /\ fails' = fails /\ lost' = lost
    BY <1>3 DEF Submitted
  <2> QED BY <1>0, <1>a, <2>1, <2>2, <2>3, EnterType, ConcludeKept
<1>4. ASSUME NEW answer \in Results, Declined(k, answer) PROVE FlowInv'
  <2>1. /\ world' = world /\ gate' = gate /\ post' = post /\ task' = task /\ book' = book
        /\ faults' = faults /\ fails' = fails /\ lost' = lost
        /\ entries' = entries /\ fills' = fills /\ netted' = netted
        /\ job[k].at = "submit" /\ Conclude(k, answer, FALSE)
    BY <1>4 DEF Declined, exchange
  <2> QED BY <1>a, <2>1, ConcludeKept
<1>5. CASE NotSent(k)
  <2>1. /\ world' = world /\ gate' = gate /\ post' = post /\ task' = task /\ book' = book
        /\ entries' = entries /\ fills' = fills /\ netted' = netted
        /\ job[k].at = "submit" /\ Conclude(k, "route_failed", FALSE) /\ Slip
    BY <1>5 DEF NotSent, exchange
  <2>2. faults' \in Nat /\ fails' \in Nat /\ lost' \in [Signals -> Nat]
    BY <1>0, <2>1, FaultType
  <2>3. "route_failed" \in Results BY <1>b
  <2> QED BY <1>a, <2>1, <2>2, <2>3, ConcludeKept
<1>6. CASE SubmitLost(k)
  <2>1. /\ world' = world /\ gate' = gate /\ post' = post /\ task' = task /\ book' = book
        /\ job[k].at = "submit" /\ Lose(order[k].signal) /\ Enter(k, "filled")
        /\ \E answer \in Results : Conclude(k, answer, FALSE)
    BY <1>6, <1>b DEF SubmitLost
  <2>2. faults' \in Nat /\ fails' \in Nat /\ lost' \in [Signals -> Nat]
    BY <1>0, <2>1, FaultType
  <2> QED BY <1>0, <2>1, <2>2, EnterType, ConcludeKept
<1>7. CASE StateUnread(k)
  <2>1. /\ world' = world /\ gate' = gate /\ post' = post /\ task' = task /\ book' = book
        /\ fills' = fills /\ netted' = netted /\ entries' = [entries EXCEPT ![k] = @ + 1]
        /\ job[k].at = "submit" /\ Fail /\ Conclude(k, "filled", FALSE)
    BY <1>7 DEF StateUnread
  <2>2. faults' \in Nat /\ fails' \in Nat /\ lost' \in [Signals -> Nat]
    BY <1>0, <2>1, FaultType
  <2>3. entries' \in [Orders -> Nat] /\ \A q \in Orders : q # k => entries'[q] = entries[q]
    BY <1>a, <2>1
  <2>4. "filled" \in Results BY <1>b
  <2> QED BY <1>a, <2>1, <2>2, <2>3, <2>4, ConcludeKept
<1>8. CASE AdapterFails(k)
  <2> DEFINE n == job[k].try + 1
  <2>0. job[k].try \in 0..Attempts BY <1>a DEF JobSet
  <2>1. /\ \/ job[k].try < Attempts /\ job' = [job EXCEPT ![k].try = n] /\ dead' = dead
           \/ /\ job' = [job EXCEPT ![k].at = "record", ![k].result = "route_failed"]
              /\ dead' = dead \cup {k} \/ dead' = dead
        /\ job[k].at = "load" /\ Fail
    BY <1>8 DEF AdapterFails
  <2>2. job[k].try < Attempts => n \in 0..Attempts BY <2>0, FlowBoundsAssumption
  <2> HIDE DEF n
  <2>3. /\ job' \in [Orders -> JobSet] /\ job'[k].at \in {"load", "record"}
        /\ job'[k].at = "record" => job'[k].result \in Results
        /\ \A q \in Orders : q # k => job'[q] = job[q]
    BY SMTT(60), <1>a, <1>b, <2>1, <2>2 DEF JobSet
  <2>4. /\ order' = order /\ task' = task /\ entries' = entries /\ fills' = fills
        /\ netted' = netted
    BY <1>8 DEF AdapterFails, exchange
  <2>5. faults' \in Nat /\ fails' \in Nat /\ lost' \in [Signals -> Nat]
    BY <1>0, <2>1, FaultType
  <2>6. TypeOK' BY <1>0, <1>8, <1>a, <2>1, <2>3, <2>4, <2>5, JobTypes DEF AdapterFails
  <2>7. Kept(k)' BY <1>0, <2>1, <2>3, <2>4, JobOrder DEF Kept
  <2> QED BY <2>3, <2>4, <2>6, <2>7, FlowAt
<1>9. CASE RecordFails(k)
  <2>1. job' = [job EXCEPT ![k].at = "answer"] /\ job[k].at = "record" /\ Fail
    BY <1>9 DEF RecordFails
  <2>2. job' \in [Orders -> JobSet] /\ job'[k].at = "answer" /\ job'[k].result = job[k].result
        /\ \A q \in Orders : q # k => job'[q] = job[q]
    BY ZenonT(60), <1>a, <2>1, SetJobAt
  <2>3. /\ order' = order /\ task' = task /\ entries' = entries /\ fills' = fills
        /\ netted' = netted /\ dead' = dead
    BY <1>9 DEF RecordFails, book, exchange
  <2>4. faults' \in Nat /\ fails' \in Nat /\ lost' \in [Signals -> Nat]
    BY <1>0, <2>1, FaultType
  <2>5. TypeOK' BY <1>0, <1>9, <1>a, <2>2, <2>3, <2>4, JobTypes DEF RecordFails, book
  <2>6. Kept(k)' BY <1>0, <2>1, <2>2, <2>3, JobOrder DEF Kept
  <2> QED BY <2>2, <2>3, <2>5, <2>6, FlowAt
<1> QED
  BY <1>1, <1>2, <1>3, <1>4, <1>5, <1>6, <1>7, <1>8, <1>9, <1>b DEF JobStep

LEMMA RestartKept ==
  ASSUME FlowInv, ListenerRestarts \/ ExecutorRestarts
  PROVE  FlowInv'
<1>0. TypeOK BY DEF FlowInv
<1>a. /\ task \in [Orders -> TaskSet] /\ job \in [Orders -> JobSet]
      /\ post \in [Signals -> PostSet] /\ lost \in [Signals -> Nat]
      /\ faults \in Nat /\ fails \in Nat
  BY <1>0 DEF TypeOK, TaskSet, JobSet, PostSet
<1>1. CASE ListenerRestarts
  <2> DEFINE t(k) == IF task[k].at \in {"none", "done"} THEN task[k]
                     ELSE [task[k] EXCEPT !.at = "gone"]
             p(g) == IF post[g].at = "done" THEN post[g] ELSE [post[g] EXCEPT !.at = "idle"]
             n(g) == lost[g] + (IF post[g].at = "admitted" THEN 1 ELSE 0)
  <2>1. /\ task' = [k \in Orders |-> t(k)] /\ post' = [g \in Signals |-> p(g)]
        /\ lost' = [g \in Signals |-> n(g)]
    BY <1>1 DEF ListenerRestarts
  <2>2. \A k \in Orders : /\ t(k) \in TaskSet
                          /\ t(k) = task[k] \/ (task[k].at # "none" /\ t(k).at = "gone")
    BY <1>a DEF TaskSet
  <2>3. \A g \in Signals : p(g) \in PostSet BY <1>a DEF PostSet
  <2>4. \A g \in Signals : n(g) \in Nat BY <1>a
  <2> HIDE DEF t, p, n
  <2>5. /\ task' \in [Orders -> TaskSet] /\ post' \in [Signals -> PostSet]
        /\ lost' \in [Signals -> Nat]
        /\ \A k \in Orders : task'[k] = task[k] \/ (task[k].at # "none" /\ task'[k].at = "gone")
    BY <2>1, <2>2, <2>3, <2>4
  <2>6. /\ faults' = faults + 1 /\ fails' = fails + 1
        /\ UNCHANGED <<world, gate, job, book, exchange>>
    BY <1>1 DEF ListenerRestarts, Fault
  <2>7. faults' \in Nat /\ fails' \in Nat BY <1>a, <2>6
  <2>8. TypeOK' BY <1>0, <2>5, <2>6, <2>7 DEF TypeOK, TaskSet, PostSet, gate, book, exchange
  <2>9. ASSUME NEW k \in Orders PROVE Kept(k)'
    BY <2>5, <2>6 DEF FlowInv, Kept, book, exchange
  <2> QED BY <2>8, <2>9 DEF FlowInv
<1>2. CASE ExecutorRestarts
  <2> DEFINE j(k) == IF job[k].at = "none" THEN job[k] ELSE [job[k] EXCEPT !.at = "over"]
             t(k) == IF task[k].at = "call" THEN [at |-> "write", result |-> "route_failed"]
                     ELSE task[k]
  <2>1. task' = [k \in Orders |-> t(k)] /\ job' = [k \in Orders |-> j(k)]
    BY <1>2 DEF ExecutorRestarts
  <2>2. \A k \in Orders : /\ t(k) \in TaskSet
                          /\ \/ t(k) = task[k]
                             \/ /\ task[k].at = "call" /\ t(k).at = "write"
                                /\ t(k).result \in Results
    BY <1>a DEF TaskSet, Results
  <2>3. \A k \in Orders : /\ j(k) \in JobSet
                          /\ j(k) = job[k] \/ (job[k].at # "none" /\ j(k).at = "over")
    BY <1>a DEF JobSet
  <2> HIDE DEF t, j
  <2>4. /\ task' \in [Orders -> TaskSet] /\ job' \in [Orders -> JobSet]
        /\ \A k \in Orders :
             /\ job'[k] = job[k] \/ (job[k].at # "none" /\ job'[k].at = "over")
             /\ \/ task'[k] = task[k]
                \/ task[k].at = "call" /\ task'[k].at = "write" /\ task'[k].result \in Results
    BY <2>1, <2>2, <2>3
  <2>5. faults' \in Nat /\ fails' \in Nat /\ lost' \in [Signals -> Nat]
    BY <1>0, <1>2, FaultType DEF ExecutorRestarts
  <2>6. UNCHANGED <<world, gate, post, book, exchange>> BY <1>2 DEF ExecutorRestarts
  <2>7. TypeOK' BY <1>0, <2>4, <2>5, <2>6 DEF TypeOK, TaskSet, JobSet, gate, book, exchange
  <2>8. ASSUME NEW k \in Orders PROVE Kept(k)'
    BY <2>4, <2>6 DEF FlowInv, Kept, book, exchange
  <2> QED BY <2>7, <2>8 DEF FlowInv
<1> QED BY <1>1, <1>2

LEMMA FlowInit == Init => FlowInv
<1> SUFFICES ASSUME Init PROVE FlowInv OBVIOUS
<1>1. job \in [Orders -> JobSet] BY NoJobType DEF Init
<1>2. /\ post \in [Signals -> PostSet] /\ order \in [Orders -> OrderSet]
      /\ task \in [Orders -> TaskSet]
  BY DEF Init, PostSet, OrderSet, TaskSet
<1>3. TypeOK BY <1>1, <1>2 DEF Init, TypeOK, JobSet, PostSet, OrderSet, TaskSet
<1>4. ASSUME NEW k \in Orders PROVE Kept(k)
  <2>1. job[k].at = "none" BY NoJobType DEF Init
  <2> QED BY <2>1 DEF Init, Kept
<1> QED BY <1>3, <1>4 DEF FlowInv

LEMMA FlowNext == FlowInv /\ [Next]_vars => FlowInv'
<1> SUFFICES ASSUME FlowInv, [Next]_vars PROVE FlowInv' OBVIOUS
<1>1. CASE UNCHANGED vars
  <2>1. TypeOK' BY <1>1 DEF FlowInv, TypeOK, vars, gate, book, exchange, counts
  <2> QED BY <1>1, <2>1, FlowStill DEF vars, book, exchange
<1>2. ASSUME NEW k \in Orders,
             \/ TaskStep(k) \/ GuardFails(k) \/ CallExpires(k) \/ TaskRaises(k)
             \/ JobStep(k) \/ AdapterFails(k) \/ NotSent(k) \/ SubmitLost(k) \/ StateUnread(k)
             \/ RecordFails(k)
      PROVE  FlowInv'
  BY <1>2, TaskKept, JobKept
<1> QED BY <1>1, <1>2, PostKept, GateKept, RestartKept DEF Next

\* The stages of the post, the task and the execution of every order fit each other and
\* its row: an execution belongs to a task that called it, a verdict is one of the four.
THEOREM FlowInvariant == Spec => []FlowInv
BY FlowInit, FlowNext, PTL DEF Spec

\* The variables keep their types, for any number of signals, orders, attempts and faults;
\* in particular no row or verdict is ever without a status.
THEOREM TypeCorrect == Spec => []TypeOK
<1>1. FlowInv => TypeOK BY DEF FlowInv
<1> QED BY <1>1, FlowInvariant, PTL

-------------------------------------------------------------------------------
(* Entries per signal.                                                     *)

\* An order may yet become an entry: its task has not called, or an attempt is to come.
May(k) ==
  IF task[k].at \in {"guard", "size"} \/ job[k].at \in {"load", "submit"} THEN 1 ELSE 0

\* The entries an order has made and may yet make, and whether its sender may post again.
Weights   == [k \in Orders |-> entries[k] + May(k)]
Again(g)  == IF post[g].at \in {"admitted", "done"} THEN 0 ELSE 1
Credit    == \A g \in Signals : Total(Weights, Of(g)) + Again(g) <= 1 + lost[g]

LEMMA OfIsFinite ==
  ASSUME NEW g
  PROVE  IsFiniteSet(Orders) /\ Of(g) \subseteq Orders /\ IsFiniteSet(Of(g))
<1>1. IsFiniteSet(Orders) BY FlowBoundsAssumption, FS_Interval DEF Orders
<1>2. Of(g) \in SUBSET Orders BY DEF Of
<1> QED BY <1>1, <1>2, FS_Subset

LEMMA WeightsType ==
  ASSUME TypeOK
  PROVE  \A k \in Orders : /\ Weights[k] = entries[k] + May(k) /\ May(k) \in {0, 1}
                           /\ entries[k] \in Nat /\ Weights[k] \in Nat
BY DEF TypeOK, Weights, May

LEMMA WeightsTypeNext ==
  ASSUME TypeOK'
  PROVE  \A k \in Orders : /\ Weights'[k] = entries'[k] + May(k)' /\ May(k)' \in {0, 1}
                           /\ entries'[k] \in Nat /\ Weights'[k] \in Nat
BY DEF TypeOK, Weights, May

\* Steps under which no order's weight grows, and a sender may post again only if an
\* answer was lost.
LEMMA CreditShrinks ==
  ASSUME TypeOK, TypeOK', Credit,
         \A k \in Orders : order'[k].signal = order[k].signal,
         \A k \in Orders : Weights'[k] <= Weights[k],
         \A g \in Signals : Again(g)' - Again(g) <= lost'[g] - lost[g]
  PROVE  Credit'
<1> SUFFICES ASSUME NEW g \in Signals
             PROVE  Total(Weights', Of(g)') + Again(g)' <= 1 + lost'[g]
  BY DEF Credit
<1>1. Of(g)' = Of(g) BY DEF Of
<1> DEFINE f == Weights  h == Weights'  S == Of(g)
<1>2. \A k \in S : f[k] \in Int /\ h[k] \in Int /\ h[k] <= f[k]
  BY OfIsFinite, WeightsType, WeightsTypeNext
<1>3. IsFiniteSet(S) BY OfIsFinite
<1>4. Total(f, S) + Again(g) <= 1 + lost[g] BY DEF Credit
<1> HIDE DEF f, h, S
<1>5. Total(h, S) <= Total(f, S) /\ Total(h, S) \in Int /\ Total(f, S) \in Int
  BY <1>2, <1>3, TotalLeq, TotalIsInt
<1>6. /\ Again(g) \in {0, 1} /\ Again(g)' \in {0, 1} /\ lost[g] \in Nat /\ lost'[g] \in Nat
      /\ Again(g)' - Again(g) <= lost'[g] - lost[g]
  BY DEF Again, TypeOK
<1> DEFINE x == Again(g)  y == Again(g)'  m == lost[g]  n == lost'[g]
           t == Total(f, S)  u == Total(h, S)
<1>7. u + y <= 1 + n
  <2>1. /\ t + x <= 1 + m /\ u <= t /\ u \in Int /\ t \in Int
        /\ x \in {0, 1} /\ y \in {0, 1} /\ m \in Nat /\ n \in Nat /\ y - x <= n - m
    BY <1>4, <1>5, <1>6
  <2> HIDE DEF x, y, m, n, t, u
  <2> QED BY ONLY <2>1
<1> QED BY <1>1, <1>7 DEF h, S

\* The one step that makes an entry of an order and leaves it to be tried again: the
\* answer was lost.
LEMMA CreditLost ==
  ASSUME TypeOK, TypeOK', Credit, NEW k \in Orders, order[k].signal \in Signals,
         order' = order, post' = post,
         \A q \in Orders : q # k => Weights'[q] = Weights[q],
         Weights'[k] <= Weights[k] + 1,
         lost' = [lost EXCEPT ![order[k].signal] = @ + 1]
  PROVE  Credit'
<1> SUFFICES ASSUME NEW g \in Signals
             PROVE  Total(Weights', Of(g)') + Again(g)' <= 1 + lost'[g]
  BY DEF Credit
<1>1. Of(g)' = Of(g) /\ Again(g)' = Again(g) BY DEF Of, Again
<1> DEFINE f == Weights  h == Weights'  S == Of(g)
<1>2. \A q \in S : f[q] \in Int /\ h[q] \in Int BY OfIsFinite, WeightsType, WeightsTypeNext
<1>3. IsFiniteSet(S) BY OfIsFinite
<1>4. Total(f, S) + Again(g) <= 1 + lost[g] BY DEF Credit
<1>5. k \in S <=> order[k].signal = g BY DEF Of
<1>6. \A q \in S : q # k => h[q] = f[q] BY OfIsFinite
<1>7. h[k] <= f[k] + 1 OBVIOUS
<1>8. lost[g] \in Nat /\ lost \in [Signals -> Nat] /\ Again(g) \in {0, 1}
  BY DEF TypeOK, Again
<1> HIDE DEF f, h, S
<1>9. Total(h, S) \in Int /\ Total(f, S) \in Int BY <1>2, <1>3, TotalIsInt
<1>10. CASE order[k].signal = g
  <2>1. Total(h, S) = Total(f, S) + (h[k] - f[k]) BY <1>2, <1>3, <1>5, <1>6, <1>10, TotalChange
  <2>2. h[k] \in Int /\ f[k] \in Int BY <1>2, <1>5, <1>10
  <2>3. lost'[g] = lost[g] + 1 BY <1>8, <1>10
  <2>4. Total(h, S) + Again(g) <= 1 + lost'[g]
    BY ONLY <1>4, <1>7, <1>8, <1>9, <2>1, <2>2, <2>3
  <2> QED BY <1>1, <2>4 DEF h, S
<1>11. CASE order[k].signal # g
  <2>1. \A q \in S : h[q] = f[q] BY <1>5, <1>6, <1>11
  <2>2. Total(h, S) = Total(f, S) BY <1>3, <2>1, TotalSame
  <2>3. lost'[g] = lost[g] BY <1>8, <1>11
  <2> QED BY <1>1, <1>4, <2>2, <2>3 DEF h, S
<1> QED BY <1>10, <1>11

\* A signal is admitted: its chance to be posted becomes an order's to be entered.
LEMMA CreditAdmit ==
  ASSUME FlowInv, TypeOK', Credit, NEW g \in Signals, Admit(g)
  PROVE  Credit'
<1>0. TypeOK BY DEF FlowInv
<1>1. PICK k \in Orders :
        /\ order[k].status = "none"
        /\ order' = [order EXCEPT ![k] = [signal |-> g, status |-> "received"]]
        /\ task' = [task EXCEPT ![k].at = "guard"]
  BY DEF Admit
<1>2. /\ order[k].signal = NULL /\ entries[k] = 0 /\ job[k].at = "none" /\ job' = job
      /\ entries' = entries /\ lost' = lost
      /\ post[g].at = "checked" /\ post' = [post EXCEPT ![g].at = "admitted"]
  BY <1>1 DEF FlowInv, Kept, Admit, exchange, counts
<1>3. /\ order'[k].signal = g /\ task'[k].at = "guard"
      /\ \A q \in Orders : q # k => order'[q] = order[q] /\ task'[q] = task[q]
  BY <1>0, <1>1 DEF TypeOK
<1>4. /\ Weights'[k] = 1 /\ \A q \in Orders : q # k => Weights'[q] = Weights[q]
  BY <1>2, <1>3 DEF Weights, May
<1>5. /\ Again(g) = 1 /\ Again(g)' = 0 /\ \A h \in Signals : h # g => Again(h)' = Again(h)
  <2>1. post'[g].at = "admitted" /\ \A h \in Signals : h # g => post'[h] = post[h]
    BY <1>0, <1>2 DEF TypeOK
  <2> QED BY <1>2, <2>1 DEF Again
<1> SUFFICES ASSUME NEW h \in Signals
             PROVE  Total(Weights', Of(h)') + Again(h)' <= 1 + lost'[h]
  BY DEF Credit
<1> DEFINE f == Weights  w == Weights'  S == Of(h)
<1>6. /\ IsFiniteSet(S) /\ k \notin S
      /\ \A q \in S : f[q] \in Int /\ w[q] \in Int /\ w[q] = f[q]
  <2>1. k \notin S BY <1>2, FlowNullAssumption DEF Of
  <2>2. S \subseteq Orders /\ IsFiniteSet(S) BY OfIsFinite
  <2> HIDE DEF S
  <2> QED BY <1>0, <1>4, <2>1, <2>2, WeightsType, WeightsTypeNext
<1>7. Total(f, S) + Again(h) <= 1 + lost[h] BY DEF Credit
<1>8. /\ h = g => Of(h)' = S \cup {k}
      /\ h # g => Of(h)' = S
  <2>1. \A q \in Orders : q # k => order'[q].signal = order[q].signal BY <1>3
  <2>2. order[k].signal # h /\ order'[k].signal = g BY <1>2, <1>3, FlowNullAssumption
  <2>3. Of(h)' = {q \in Orders : order'[q].signal = h} BY DEF Of
  <2>4. S = {q \in Orders : order[q].signal = h} BY DEF Of
  <2> HIDE DEF S
  <2> QED BY <2>1, <2>2, <2>3, <2>4
<1>9. w[k] = 1 BY <1>4
<1>10. lost[h] \in Nat /\ Again(h) \in {0, 1} BY <1>0 DEF TypeOK, Again
<1> HIDE DEF f, w, S
<1>11. Total(w, S) = Total(f, S) /\ Total(f, S) \in Int BY <1>6, TotalSame, TotalIsInt
<1>12. CASE h = g
  <2>1. \A q \in S \cup {k} : w[q] \in Int BY <1>6, <1>9
  <2>2. Total(w, S \cup {k}) = Total(w, S) + w[k] BY <1>6, <2>1, TotalAdd
  <2>3. Total(w, Of(h)') = Total(f, S) + 1 BY <1>8, <1>9, <1>11, <1>12, <2>2
  <2>4. Again(h) = 1 /\ Again(h)' = 0 BY <1>5, <1>12
  <2> QED BY <1>2, <1>7, <1>10, <1>11, <2>3, <2>4 DEF w
<1>13. CASE h # g
  <2>1. Total(w, Of(h)') = Total(f, S) BY <1>8, <1>11, <1>13
  <2>2. Again(h)' = Again(h) BY <1>5, <1>13
  <2> QED BY <1>2, <1>7, <2>1, <2>2 DEF w
<1> QED BY <1>12, <1>13

\* Lost answers are never forgotten.
LEMMA LostGrows ==
  ASSUME FlowInv, [Next]_vars
  PROVE  \A g \in Signals : lost'[g] >= lost[g]
<1>0. lost \in [Signals -> Nat] BY DEF FlowInv, TypeOK
<1>1. CASE lost' = lost BY <1>0, <1>1
<1>2. ASSUME NEW g, Lose(g) PROVE \A h \in Signals : lost'[h] >= lost[h]
  BY <1>0, <1>2 DEF Lose
<1>3. CASE ListenerRestarts BY <1>0, <1>3 DEF ListenerRestarts
<1>4. \/ lost' = lost \/ ListenerRestarts \/ \E g : Lose(g)
  BY ZenonT(60) DEF Next, vars, counts, Send, PostStep, LoadStrategy, Reject, Admit, Answer, AnswerLost,
         Toggle, CacheExpires, TaskStep, Guard, TooSmall, CallExecutor, Answered, WriteStatus,
         ApplyFill, Flip, Raised, GuardFails, CallExpires, TaskRaises, JobStep, GetAdapter,
         Record, Submitted, Declined, AdapterFails, NotSent, SubmitLost, StateUnread,
         RecordFails, ExecutorRestarts, Slip, Fail
<1> QED BY <1>1, <1>2, <1>3, <1>4

\* A step of one order after which it may make no more entries than before.
LEMMA CreditOne ==
  ASSUME FlowInv, TypeOK', Credit, NEW k \in Orders, post' = post,
         \A g \in Signals : lost'[g] >= lost[g],
         \A q \in Orders : order'[q].signal = order[q].signal,
         \A q \in Orders : q # k => /\ entries'[q] = entries[q] /\ task'[q] = task[q]
                                    /\ job'[q] = job[q],
         entries'[k] + May(k)' <= entries[k] + May(k)
  PROVE  Credit'
<1>0. TypeOK BY DEF FlowInv
<1>1. ASSUME NEW q \in Orders PROVE Weights'[q] <= Weights[q]
  <2>1. CASE q = k BY <1>0, <2>1, WeightsType, WeightsTypeNext
  <2>2. CASE q # k
    <3>1. Weights'[q] = Weights[q] BY <2>2 DEF Weights, May
    <3> QED BY <1>0, <3>1, WeightsType
  <2> QED BY <2>1, <2>2
<1>2. \A g \in Signals : Again(g)' - Again(g) <= lost'[g] - lost[g]
  <2> TAKE g \in Signals
  <2>1. Again(g)' = Again(g) /\ Again(g) \in {0, 1} BY DEF Again
  <2>2. lost[g] \in Nat /\ lost'[g] \in Nat /\ lost'[g] >= lost[g] BY <1>0 DEF TypeOK
  <2> QED BY <2>1, <2>2
<1> QED BY <1>0, <1>1, <1>2, CreditShrinks

LEMMA CreditPost ==
  ASSUME FlowInv, TypeOK', Credit,
         \/ \E g \in Signals : Send(g) \/ LoadStrategy(g) \/ Reject(g) \/ Answer(g) \/ AnswerLost(g)
         \/ \E s \in Strategies : Toggle(s) \/ CacheExpires(s)
         \/ UNCHANGED vars
  PROVE  Credit'
<1> USE DEF book, exchange, counts
<1>0. /\ TypeOK /\ post \in [Signals -> PostSet] /\ lost \in [Signals -> Nat]
  BY DEF FlowInv, TypeOK, PostSet
<1>1. order' = order /\ Weights' = Weights
  <2>1. order' = order /\ task' = task /\ job' = job /\ entries' = entries
    BY DEF Send, LoadStrategy, Reject, Answer, AnswerLost, Toggle, CacheExpires, vars
  <2> QED BY <2>1 DEF Weights, May
<1>2. ASSUME NEW g \in Signals PROVE Again(g)' - Again(g) <= lost'[g] - lost[g]
  <2>1. CASE UNCHANGED <<post, lost>> BY <1>0, <2>1 DEF Again
  <2>2. CASE \E h \in Signals : Send(h) \/ LoadStrategy(h) \/ Reject(h) \/ Answer(h)
    <3> DEFINE Same(h) ==
          /\ lost' = lost
          /\ \A q \in Signals : q # h => post'[q] = post[q]
          /\ (post[h].at \in {"admitted", "done"}) <=> (post'[h].at \in {"admitted", "done"})
    <3>a. PICK h \in Signals : Send(h) \/ LoadStrategy(h) \/ Reject(h) \/ Answer(h) BY <2>2
    <3>b. Send(h) => Same(h) BY <1>0 DEF Send, PostSet
    <3>c. ASSUME LoadStrategy(h) PROVE Same(h)
      <4>1. PICK x \in {"checked", "refused"} : post' = [post EXCEPT ![h].at = x]
        BY <3>c DEF LoadStrategy
      <4>2. lost' = lost /\ post[h].at = "sent" BY <3>c DEF LoadStrategy
      <4> QED BY <1>0, <4>1, <4>2 DEF PostSet
    <3>d. Reject(h) => Same(h) BY <1>0 DEF Reject, PostSet
    <3>e. Answer(h) => Same(h) BY <1>0 DEF Answer, PostSet
    <3>1. Same(h)
      <4> HIDE DEF Same
      <4> QED BY <3>a, <3>b, <3>c, <3>d, <3>e
    <3>2. Again(g)' = Again(g) BY <3>1 DEF Again
    <3> QED BY <1>0, <3>1, <3>2 DEF Again
  <2>3. CASE \E h \in Signals : AnswerLost(h)
    <3>1. PICK h \in Signals :
            /\ lost' = [lost EXCEPT ![h] = @ + 1]
            /\ \A q \in Signals : q # h => post'[q] = post[q]
      BY <1>0, <2>3 DEF AnswerLost, Lose
    <3>2. CASE g = h BY <1>0, <3>1, <3>2 DEF Again
    <3>3. CASE g # h BY <1>0, <3>1, <3>3 DEF Again
    <3> QED BY <3>2, <3>3
  <2> QED BY <2>1, <2>2, <2>3 DEF Toggle, CacheExpires, Slip, vars
<1>3. \A k \in Orders : Weights'[k] <= Weights[k] BY <1>0, <1>1, WeightsType
<1> QED BY <1>0, <1>1, <1>2, <1>3, CreditShrinks

LEMMA CreditTask ==
  ASSUME FlowInv, TypeOK', Credit, NEW k \in Orders, [Next]_vars,
         TaskStep(k) \/ GuardFails(k) \/ CallExpires(k) \/ TaskRaises(k)
  PROVE  Credit'
<1>0. /\ TypeOK /\ task \in [Orders -> TaskSet] /\ job \in [Orders -> JobSet]
      /\ order \in [Orders -> OrderSet] /\ entries \in [Orders -> Nat]
  BY DEF FlowInv, TypeOK, TaskSet, JobSet, OrderSet
<1>1. post' = post /\ entries' = entries
  BY DEF TaskStep, Guard, TooSmall, CallExecutor, Answered, WriteStatus, ApplyFill, Flip, Raised,
         GuardFails, CallExpires, TaskRaises, exchange
<1>2. \/ order' = order
      \/ \E s : order' = [order EXCEPT ![k].status = s]
  BY DEF TaskStep, Guard, TooSmall, CallExecutor, Answered, WriteStatus, ApplyFill, Flip, Raised,
         GuardFails, CallExpires, TaskRaises, book
<1>3. \A q \in Orders : order'[q].signal = order[q].signal BY <1>0, <1>2 DEF OrderSet
<1>4. \/ /\ job' = job
         /\ \E at \in {"size", "done", "write", "apply", "flip", "raised"} :
              \/ task' = [task EXCEPT ![k].at = at] /\ (at = "size" => task[k].at = "guard")
              \/ \E v : at = "write" /\ task' = [task EXCEPT ![k] = [at |-> at, result |-> v]]
      \/ /\ task[k].at = "size" /\ task' = [task EXCEPT ![k].at = "call"]
         /\ \E j : job' = [job EXCEPT ![k] = j]
      \/ /\ \E v : task' = [task EXCEPT ![k] = [at |-> "write", result |-> v]]
         /\ job' = [job EXCEPT ![k].at = "over"]
  <2>1. CASE Guard(k) BY <2>1 DEF Guard
  <2>2. CASE TooSmall(k) BY <2>2 DEF TooSmall
  <2>3. CASE CallExecutor(k) BY <2>3 DEF CallExecutor
  <2>4. CASE Answered(k) BY <2>4 DEF Answered
  <2>5. CASE WriteStatus(k) BY <2>5 DEF WriteStatus
  <2>6. CASE ApplyFill(k) BY <2>6 DEF ApplyFill
  <2>7. CASE Flip(k) BY <2>7 DEF Flip
  <2>8. CASE Raised(k) BY <2>8 DEF Raised
  <2>9. CASE GuardFails(k) BY <2>9 DEF GuardFails
  <2>10. CASE CallExpires(k) BY <2>10 DEF CallExpires
  <2>11. CASE TaskRaises(k) BY <2>11 DEF TaskRaises
  <2> QED BY <2>1, <2>2, <2>3, <2>4, <2>5, <2>6, <2>7, <2>8, <2>9, <2>10, <2>11 DEF TaskStep
<1>5. \A q \in Orders : q # k => task'[q] = task[q] /\ job'[q] = job[q]
  BY <1>0, <1>4
<1>6. May(k)' <= May(k)
  <2>1. \/ /\ job' = job
           /\ task'[k].at \in {"guard", "size"} => task[k].at \in {"guard", "size"}
        \/ task[k].at = "size"
        \/ task'[k].at = "write" /\ job'[k].at = "over"
    BY <1>0, <1>4 DEF TaskSet, JobSet
  <2> QED BY <2>1 DEF May
<1>7. entries'[k] + May(k)' <= entries[k] + May(k)
  BY <1>0, <1>1, <1>6, WeightsType, WeightsTypeNext
<1> QED BY <1>1, <1>3, <1>5, <1>7, LostGrows, CreditOne

\* What an attempt's end leaves an order to do.
LEMMA ConcludeMay ==
  ASSUME FlowInv, FlowInv', NEW k \in Orders, job[k].at = "submit", task' = task, order' = order,
         NEW answer \in Results, NEW flip \in BOOLEAN, Conclude(k, answer, flip)
  PROVE  /\ May(k) = 1 /\ May(k)' \in {0, 1}
         /\ answer # "route_failed" => May(k)' = 0
         /\ \A q \in Orders : q # k => job'[q] = job[q]
         /\ order[k].signal \in Signals /\ order[k].status # "none"
<1>0. TypeOK BY DEF FlowInv
<1>1. /\ \A q \in Orders : q # k => job'[q] = job[q]
      /\ answer # "route_failed" => job'[k].at = "record"
  BY <1>0, ConcludeDoes
<1>2. task[k].at \notin {"guard", "size"} /\ order[k].signal \in Signals /\ order[k].status # "none"
  BY JobOrder
<1> QED BY <1>1, <1>2 DEF May

LEMMA CreditJob ==
  ASSUME FlowInv, FlowInv', Credit, NEW k \in Orders, [Next]_vars,
         \/ JobStep(k) \/ AdapterFails(k) \/ NotSent(k) \/ SubmitLost(k) \/ StateUnread(k)
         \/ RecordFails(k)
  PROVE  Credit'
<1> USE DEF book, exchange
<1>0. /\ TypeOK /\ TypeOK' /\ job \in [Orders -> JobSet] /\ order \in [Orders -> OrderSet]
      /\ entries \in [Orders -> Nat] /\ lost \in [Signals -> Nat]
  BY DEF FlowInv, TypeOK, JobSet, OrderSet
<1>a. Results = {"filled", "pending", "rejected", "route_failed"} BY DEF Results
<1>1. ASSUME \/ GetAdapter(k) \/ Record(k) \/ AdapterFails(k) \/ RecordFails(k) PROVE Credit'
  <2>1. /\ post' = post /\ entries' = entries /\ task' = task
        /\ order' = order \/ \E s : order' = [order EXCEPT ![k].status = s]
        /\ job[k].at \in {"load", "submit"} \/ job' = [job EXCEPT ![k].at = "answer"]
    BY <1>1 DEF GetAdapter, Record, AdapterFails, RecordFails
  <2>2. \A q \in Orders : order'[q].signal = order[q].signal BY <1>0, <2>1 DEF OrderSet
  <2>3. \A q \in Orders : q # k => job'[q] = job[q]
    BY <1>0, <1>1 DEF GetAdapter, Record, AdapterFails, RecordFails
  <2>4. job[k].at \in {"load", "submit"} \/ job'[k].at = "answer" BY <1>0, <2>1 DEF JobSet
  <2>5. May(k)' <= May(k) BY <2>1, <2>4 DEF May
  <2>6. entries'[k] + May(k)' <= entries[k] + May(k)
    BY <1>0, <2>1, <2>5, WeightsType, WeightsTypeNext
  <2> QED BY <1>0, <2>1, <2>2, <2>3, <2>6, LostGrows, CreditOne
<1>2. ASSUME NEW answer \in Results, Declined(k, answer) \/ (answer = "route_failed" /\ NotSent(k))
      PROVE  Credit'
  <2>1. /\ post' = post /\ entries' = entries /\ task' = task /\ order' = order
        /\ job[k].at = "submit" /\ Conclude(k, answer, FALSE)
    BY <1>2 DEF Declined, NotSent
  <2>2. /\ May(k) = 1 /\ May(k)' \in {0, 1} /\ \A q \in Orders : q # k => job'[q] = job[q]
    BY <2>1, ConcludeMay
  <2>3. entries'[k] + May(k)' <= entries[k] + May(k) BY <1>0, <2>1, <2>2
  <2> QED BY <1>0, <2>1, <2>2, <2>3, LostGrows, CreditOne
<1>3. ASSUME NEW answer \in Results,
             Submitted(k, answer) \/ (answer = "filled" /\ StateUnread(k))
      PROVE  Credit'
  <2>1. /\ post' = post /\ task' = task /\ order' = order /\ job[k].at = "submit"
        /\ \E flip \in BOOLEAN : Conclude(k, answer, flip)
    <3>1. (Nets(k) /\ world.venue # "hyperliquid") \in BOOLEAN OBVIOUS
    <3> QED BY <1>3, <3>1 DEF Submitted, StateUnread
  <2>2. /\ entries'[k] = entries[k] + 1
        /\ \A q \in Orders : q # k => entries'[q] = entries[q]
    <3>1. CASE Submitted(k, answer) BY <1>0, <3>1, EnterType DEF Submitted
    <3>2. CASE StateUnread(k) BY <1>0, <3>2 DEF StateUnread
    <3> QED BY <1>3, <3>1, <3>2
  <2>3. answer # "route_failed"
    <3>1. order[k].status # "none" BY <2>1, JobOrder
    <3>2. CASE Submitted(k, answer) BY <3>1, <3>2, VerdictsIn DEF Submitted
    <3> QED BY <1>3, <3>2
  <2>4. /\ May(k) = 1 /\ May(k)' = 0 /\ \A q \in Orders : q # k => job'[q] = job[q]
    BY <2>1, <2>3, ConcludeMay
  <2>5. entries'[k] + May(k)' <= entries[k] + May(k) BY <1>0, <2>2, <2>4
  <2> QED BY <1>0, <2>1, <2>2, <2>4, <2>5, LostGrows, CreditOne
<1>4. CASE SubmitLost(k)
  <2>1. /\ post' = post /\ task' = task /\ order' = order /\ job[k].at = "submit"
        /\ lost' = [lost EXCEPT ![order[k].signal] = @ + 1] /\ Enter(k, "filled")
        /\ \E answer \in Results : Conclude(k, answer, FALSE)
    BY <1>4, <1>a DEF SubmitLost, Lose
  <2>2. /\ entries'[k] = entries[k] + 1
        /\ \A q \in Orders : q # k => entries'[q] = entries[q]
    BY <1>0, <2>1, EnterType
  <2>3. /\ May(k) = 1 /\ May(k)' \in {0, 1} /\ \A q \in Orders : q # k => job'[q] = job[q]
        /\ order[k].signal \in Signals
    BY <2>1, ConcludeMay
  <2>4. \A q \in Orders : q # k => Weights'[q] = Weights[q]
    BY <2>1, <2>2, <2>3 DEF Weights, May
  <2>5. Weights'[k] <= Weights[k] + 1 BY <1>0, <2>2, <2>3, WeightsType, WeightsTypeNext
  <2> QED BY <1>0, <2>1, <2>3, <2>4, <2>5, CreditLost
<1> QED BY <1>1, <1>2, <1>3, <1>4, <1>a DEF JobStep

LEMMA CreditRestart ==
  ASSUME FlowInv, TypeOK', Credit, ListenerRestarts \/ ExecutorRestarts
  PROVE  Credit'
<1>0. /\ TypeOK /\ post \in [Signals -> PostSet] /\ lost \in [Signals -> Nat]
      /\ task \in [Orders -> TaskSet] /\ job \in [Orders -> JobSet]
  BY DEF FlowInv, TypeOK, PostSet, TaskSet, JobSet
<1>1. order' = order /\ entries' = entries BY DEF ListenerRestarts, ExecutorRestarts, book, exchange
<1>2. ASSUME NEW k \in Orders PROVE May(k)' <= May(k)
  <2>1. CASE ListenerRestarts
    <3>1. job' = job /\ (task'[k] = task[k] \/ task'[k].at = "gone")
      BY <1>0, <2>1 DEF ListenerRestarts, TaskSet
    <3> QED BY <3>1 DEF May
  <2>2. CASE ExecutorRestarts
    <3>1. /\ job'[k] = job[k] \/ job'[k].at = "over"
          /\ task'[k] = task[k] \/ task'[k].at = "write"
      BY <1>0, <2>2 DEF ExecutorRestarts, JobSet
    <3> QED BY <3>1 DEF May
  <2> QED BY <2>1, <2>2
<1>3. \A k \in Orders : Weights'[k] <= Weights[k]
  BY <1>0, <1>1, <1>2, WeightsType, WeightsTypeNext
<1>4. ASSUME NEW g \in Signals PROVE Again(g)' - Again(g) <= lost'[g] - lost[g]
  <2>1. CASE ListenerRestarts
    <3>1. /\ lost'[g] = lost[g] + (IF post[g].at = "admitted" THEN 1 ELSE 0)
          /\ post[g].at = "done" => post'[g].at = "done"
      BY <2>1 DEF ListenerRestarts
    <3> QED BY <1>0, <3>1 DEF Again
  <2>2. CASE ExecutorRestarts
    <3>1. lost' = lost /\ post' = post BY <2>2 DEF ExecutorRestarts, Fail
    <3> QED BY <1>0, <3>1 DEF Again
  <2> QED BY <2>1, <2>2
<1> QED BY <1>0, <1>1, <1>3, <1>4, CreditShrinks

LEMMA CreditInit == Init => Credit
<1> SUFFICES ASSUME Init, NEW g \in Signals PROVE Total(Weights, Of(g)) + Again(g) <= 1 + lost[g]
  BY DEF Credit
<1>1. Of(g) = {} BY FlowNullAssumption DEF Init, Of
<1>2. Total(Weights, Of(g)) = 0 BY <1>1, TotalOfNone
<1>3. Again(g) = 1 /\ lost[g] = 0 BY DEF Init, Again
<1> QED BY <1>2, <1>3

LEMMA CreditNext == FlowInv /\ Credit /\ [Next]_vars => Credit'
<1> SUFFICES ASSUME FlowInv, Credit, [Next]_vars PROVE Credit' OBVIOUS
<1>1. FlowInv' /\ TypeOK' BY FlowNext DEF FlowInv
<1>2. ASSUME NEW k \in Orders,
             \/ TaskStep(k) \/ GuardFails(k) \/ CallExpires(k) \/ TaskRaises(k)
             \/ JobStep(k) \/ AdapterFails(k) \/ NotSent(k) \/ SubmitLost(k) \/ StateUnread(k)
             \/ RecordFails(k)
      PROVE  Credit'
  BY <1>1, <1>2, CreditTask, CreditJob
<1>3. ASSUME NEW g \in Signals, Send(g) \/ PostStep(g) \/ AnswerLost(g) PROVE Credit'
  BY <1>1, <1>3, CreditPost, CreditAdmit DEF PostStep
<1>4. ASSUME NEW s \in Strategies, Toggle(s) \/ CacheExpires(s) PROVE Credit'
  BY <1>1, <1>4, CreditPost
<1>5. CASE UNCHANGED vars BY <1>1, <1>5, CreditPost
<1>6. CASE ListenerRestarts \/ ExecutorRestarts BY <1>1, <1>6, CreditRestart
<1> QED BY <1>2, <1>3, <1>4, <1>5, <1>6 DEF Next

LEMMA CreditCovers == ASSUME FlowInv, Credit PROVE OneEntryPerAnswer
<1> SUFFICES ASSUME NEW g \in Signals PROVE EntriesOf(g) <= 1 + lost[g]
  BY DEF OneEntryPerAnswer
<1>0. TypeOK BY DEF FlowInv
<1> DEFINE S == Of(g)
<1>1. EntriesOf(g) = Total(entries, S) BY DEF EntriesOf, Total
<1>2. Total(Weights, S) + Again(g) <= 1 + lost[g] BY DEF Credit
<1>3. \A k \in S : entries[k] \in Int /\ Weights[k] \in Int /\ entries[k] <= Weights[k]
  BY <1>0, OfIsFinite, WeightsType
<1>4. IsFiniteSet(S) BY OfIsFinite
<1>5. Again(g) \in {0, 1} /\ lost[g] \in Nat BY <1>0 DEF Again, TypeOK
<1> HIDE DEF S
<1>6. /\ Total(entries, S) <= Total(Weights, S)
      /\ Total(entries, S) \in Int /\ Total(Weights, S) \in Int
  BY <1>3, <1>4, TotalLeq, TotalIsInt
<1> DEFINE a == Total(entries, S)  b == Total(Weights, S)  n == lost[g]  x == Again(g)
<1>7. a <= b /\ a \in Int /\ b \in Int /\ n \in Nat /\ x \in {0, 1} /\ b + x <= 1 + n
  BY <1>2, <1>5, <1>6
<1>8. a <= 1 + n
  <2> HIDE DEF a, b, n, x
  <2> QED BY ONLY <1>7
<1> QED BY <1>1, <1>8

\* A signal becomes more than one entry only as often as an answer about it was lost, for
\* any number of signals, orders, posts, attempts and faults on every kind of account: what
\* was counted on the exchange and what may still be submitted never exceed the answers.
THEOREM OneEntryPerAnswerHolds == Spec => []OneEntryPerAnswer
<1>1. Init => FlowInv /\ Credit BY FlowInit, CreditInit
<1>2. FlowInv /\ Credit /\ [Next]_vars => FlowInv' /\ Credit' BY FlowNext, CreditNext
<1>3. FlowInv /\ Credit => OneEntryPerAnswer BY CreditCovers
<1> QED BY <1>1, <1>2, <1>3, PTL DEF Spec

-------------------------------------------------------------------------------
(* Who owns the symbol.                                                    *)

\* While one order is processed at a time, and no statement failed: at most one task is
\* past its guard, what the guard saw still holds for it, and the rows have one owner.
Owned ==
  (~world.busy /\ fails = 0) =>
    /\ \A s \in Strategies : enabled[s] = TRUE
    /\ \A k, q \in Under : k = q
    /\ \A k \in Under : ~Conflict(k)
    /\ \A s, t \in Strategies, d, e \in Sides :
         pos[s][d] > 0 /\ pos[t][e] > 0 /\ (d = e \/ ~world.hedge) => s = t

LEMMA OwnedInit == Init => Owned
<1> SUFFICES ASSUME Init PROVE Owned OBVIOUS
<1>1. Under = {} BY DEF Init, Under
<1>2. \A s \in Strategies, d \in Sides : ~(pos[s][d] > 0) BY DEF Init
<1> QED BY <1>1, <1>2 DEF Init, Owned

\* A step that takes no task past its guard and fills no row.
LEMMA OwnedStill ==
  ASSUME FlowInv, Owned, world' = world, enabled' = enabled, fails' = 0 => fails = 0,
         \A s \in Strategies, d \in Sides : pos'[s][d] > 0 => pos[s][d] > 0,
         \A k \in Under' : k \in Under /\ order'[k].signal = order[k].signal
  PROVE  Owned'
<1> SUFFICES ASSUME ~world.busy, fails = 0
             PROVE  /\ \A s \in Strategies : enabled'[s] = TRUE
                    /\ \A k, q \in Under' : k = q
                    /\ \A k \in Under' : ~Conflict(k)'
                    /\ \A s, t \in Strategies, d, e \in Sides :
                         pos'[s][d] > 0 /\ pos'[t][e] > 0 /\ (d = e \/ ~world.hedge) => s = t
  BY DEF Owned
<1>1. ASSUME NEW k \in Under' PROVE ~Conflict(k)'
  <2>1. Asked(k)' = Asked(k) /\ k \in Under BY <1>1 DEF Asked
  <2>2. Taken(k)' \subseteq Taken(k) BY <2>1 DEF Taken
  <2>3. ~Conflict(k) BY <2>1 DEF Owned
  <2> QED BY <2>1, <2>2, <2>3 DEF Conflict
<1> QED BY <1>1 DEF Owned

\* One in which a statement fails.
LEMMA OwnedFails == ASSUME FlowInv, Fail \/ fails' = fails + 1 PROVE Owned'
BY DEF FlowInv, TypeOK, Fail, Owned

LEMMA OwnedTask ==
  ASSUME FlowInv, Owned, NEW k \in Orders, TaskStep(k)
  PROVE  Owned'
<1> USE DEF counts
<1>0. /\ TypeOK /\ Kept(k) /\ task \in [Orders -> TaskSet] /\ order \in [Orders -> OrderSet]
      /\ pos \in [Strategies -> [Sides -> Nat]]
  BY DEF FlowInv, TypeOK, TaskSet, OrderSet
<1>1. world' = world /\ enabled' = enabled /\ fails' = fails
  BY DEF TaskStep, Guard, TooSmall, CallExecutor, Answered, WriteStatus, ApplyFill, Flip, Raised,
         gate
<1>2. CASE Guard(k) /\ ~Conflict(k)
  <2>1. /\ task' = [task EXCEPT ![k].at = "size"] /\ order' = order /\ pos' = pos
        /\ world.busy \/ Under = {}
    BY <1>2 DEF Guard
  <2>2. CASE world.busy BY <1>1, <2>2 DEF Owned
  <2>3. CASE ~world.busy
    <3>1. Under' \subseteq {k} BY <1>0, <2>1, <2>3 DEF Under, TaskSet
    <3>2. Asked(k)' = Asked(k) BY <1>1, <2>1 DEF Asked
    <3>3. Conflict(k)' = Conflict(k) BY <1>1, <2>1, <3>2 DEF Conflict, Taken
    <3>4. \A q \in Under' : ~Conflict(q)'
      <4> SUFFICES ASSUME NEW q \in Under' PROVE ~Conflict(q)' OBVIOUS
      <4>1. q = k BY <3>1
      <4> QED BY <1>2, <3>3, <4>1
    <3> QED BY <1>1, <2>1, <3>1, <3>4 DEF Owned
  <2> QED BY <2>2, <2>3
<1>3. CASE ApplyFill(k)
  <2> DEFINE s == Asked(k).strategy  d == Asked(k).side
  <2>1. /\ task' = [task EXCEPT ![k].at = "flip"] /\ order' = order /\ task[k].at = "apply"
        /\ pos' = [pos EXCEPT ![s][d] = pos[s][d] + 1]
    BY <1>3 DEF ApplyFill
  <2>2. s \in Strategies /\ d \in Sides BY <1>0, <2>1, AskedType DEF Kept
  <2>3. Under' = Under /\ k \in Under BY <1>0, <2>1 DEF Under, TaskSet
  <2>4. SUFFICES ASSUME ~world.busy, fails = 0
                 PROVE  /\ \A q \in Under' : ~Conflict(q)'
                        /\ \A t, u \in Strategies, e, f \in Sides :
                             pos'[t][e] > 0 /\ pos'[u][f] > 0 /\ (e = f \/ ~world.hedge) => t = u
    BY <1>1, <2>3 DEF Owned
  <2>5. ~Conflict(k) /\ \A q \in Under : q = k BY <2>3, <2>4 DEF Owned
  <2>6. \A t \in Strategies, e \in Sides : (t # s \/ e # d) => pos'[t][e] = pos[t][e]
    <3> HIDE DEF s, d
    <3> QED BY <1>0, <2>1, <2>2
  <2>7. Conflict(k)' = Conflict(k)
    <3>1. Asked(k)' = Asked(k) BY <1>1, <2>1 DEF Asked
    <3>2. Taken(k)' = Taken(k) BY <1>1, <2>6, <3>1 DEF Taken
    <3> QED BY <1>1, <3>1, <3>2 DEF Conflict
  <2>8. ASSUME NEW t \in Strategies, NEW e \in Sides, pos[t][e] > 0, e = d \/ ~world.hedge
        PROVE  t = s
    <3>1. SUFFICES ASSUME t # s PROVE FALSE OBVIOUS
    <3>2. enabled[t] = TRUE BY <2>4 DEF Owned
    <3>3. e \in Taken(k) BY <2>8, <3>1, <3>2 DEF Taken
    <3> QED BY <2>5, <2>8, <3>3 DEF Conflict
  <2>9. ASSUME NEW t \in Strategies, NEW u \in Strategies, NEW e \in Sides, NEW f \in Sides,
               pos'[t][e] > 0, pos'[u][f] > 0, e = f \/ ~world.hedge
        PROVE  t = u
    <3> HIDE DEF s, d
    <3>1. CASE t = s /\ e = d /\ ~(u = s /\ f = d) BY <2>6, <2>8, <2>9, <3>1
    <3>2. CASE u = s /\ f = d /\ ~(t = s /\ e = d) BY <2>6, <2>8, <2>9, <3>2
    <3>3. CASE ~(t = s /\ e = d) /\ ~(u = s /\ f = d)
      <4>1. pos[t][e] > 0 /\ pos[u][f] > 0 BY <2>6, <2>9, <3>3
      <4> QED BY <2>4, <2>9, <4>1 DEF Owned
    <3> QED BY <3>1, <3>2, <3>3
  <2> QED BY <2>3, <2>5, <2>7, <2>9
<1>4. CASE Flip(k)
  <2>1. task' = [task EXCEPT ![k].at = "done"] /\ order' = order BY <1>4 DEF Flip
  <2>2. \A s \in Strategies, d \in Sides : pos'[s][d] > 0 => pos[s][d] > 0
    <3>1. \/ pos' = pos
          \/ pos' = [pos EXCEPT ![Asked(k).strategy][Opposite(Asked(k).side)] = 0]
      BY <1>4 DEF Flip
    <3> QED BY <1>0, <3>1
  <2>3. \A q \in Under' : q \in Under BY <1>0, <2>1 DEF Under, TaskSet
  <2> QED BY <1>1, <2>1, <2>2, <2>3, OwnedStill
<1>5. ASSUME \/ Guard(k) /\ Conflict(k)
             \/ TooSmall(k) \/ CallExecutor(k) \/ Answered(k) \/ WriteStatus(k) \/ Raised(k)
      PROVE  Owned'
  <2>1. /\ pos' = pos /\ \A q \in Orders : q # k => task'[q] = task[q]
        /\ task[k].at = "guard" => task'[k].at = "done"
        /\ task[k].at \notin {"none", "done", "gone"}
    BY <1>0, <1>5
       DEF Guard, TooSmall, CallExecutor, Answered, WriteStatus, Raised, book, TaskSet
  <2>2. \A q \in Orders : order'[q].signal = order[q].signal
    BY <1>0, <1>5
       DEF Guard, TooSmall, CallExecutor, Answered, WriteStatus, Raised, book, OrderSet
  <2>3. \A q \in Under' : q \in Under BY <2>1 DEF Under
  <2> QED BY <1>1, <2>1, <2>2, <2>3, OwnedStill DEF Under
<1> QED BY <1>2, <1>3, <1>4, <1>5 DEF TaskStep

LEMMA OwnedNext == FlowInv /\ Owned /\ [Next]_vars => Owned'
<1> SUFFICES ASSUME FlowInv, Owned, [Next]_vars PROVE Owned' OBVIOUS
<1> USE DEF gate, book, exchange, counts
<1>0. /\ TypeOK /\ task \in [Orders -> TaskSet] /\ order \in [Orders -> OrderSet]
  BY DEF FlowInv, TypeOK, TaskSet, OrderSet
<1>1. ASSUME NEW g \in Signals,
             Send(g) \/ LoadStrategy(g) \/ Reject(g) \/ Answer(g) \/ AnswerLost(g)
      PROVE  Owned'
  <2>1. world' = world /\ enabled' = enabled /\ fails' = fails /\ pos' = pos /\ task' = task
        /\ order' = order
    BY <1>1 DEF Send, LoadStrategy, Reject, Answer, AnswerLost, Lose
  <2> QED BY <2>1, OwnedStill DEF Under
<1>2. ASSUME NEW g \in Signals, Admit(g) PROVE Owned'
  <2>1. PICK k \in Orders :
          /\ order[k].status = "none"
          /\ order' = [order EXCEPT ![k] = [signal |-> g, status |-> "received"]]
          /\ task' = [task EXCEPT ![k].at = "guard"]
    BY <1>2 DEF Admit
  <2>2. \A q \in Under' : q \in Under /\ order'[q].signal = order[q].signal
    BY <1>0, <2>1 DEF Under, TaskSet
  <2>3. world' = world /\ enabled' = enabled /\ fails' = fails /\ pos' = pos
    BY <1>2 DEF Admit
  <2> QED BY <2>2, <2>3, OwnedStill
<1>3. ASSUME NEW s \in Strategies, Toggle(s) \/ CacheExpires(s) PROVE Owned'
  <2>1. world.busy /\ world' = world BY <1>3 DEF Toggle, CacheExpires
  <2> QED BY <2>1 DEF Owned
<1>4. ASSUME NEW k \in Orders,
             \/ GuardFails(k) \/ CallExpires(k) \/ TaskRaises(k) \/ AdapterFails(k)
             \/ StateUnread(k) \/ RecordFails(k)
      PROVE  Owned'
  BY <1>4, OwnedFails DEF GuardFails, CallExpires, TaskRaises, AdapterFails, StateUnread, RecordFails
<1>5. ASSUME NEW k \in Orders, JobStep(k) \/ NotSent(k) \/ SubmitLost(k) PROVE Owned'
  <2>1. /\ world' = world /\ enabled' = enabled /\ fails' = fails /\ pos' = pos /\ task' = task
        /\ order' = order \/ \E s : order' = [order EXCEPT ![k].status = s]
    BY <1>5 DEF JobStep, GetAdapter, Record, Submitted, Declined, NotSent, SubmitLost, Slip, Lose
  <2>2. \A q \in Orders : order'[q].signal = order[q].signal BY <1>0, <2>1 DEF OrderSet
  <2> QED BY <2>1, <2>2, OwnedStill DEF Under
<1>6. CASE ListenerRestarts \/ ExecutorRestarts
  BY <1>6, OwnedFails DEF ListenerRestarts, ExecutorRestarts
<1>7. CASE UNCHANGED vars
  <2>1. world' = world /\ enabled' = enabled /\ fails' = fails /\ pos' = pos /\ task' = task
        /\ order' = order
    BY <1>7 DEF vars
  <2> QED BY <2>1, OwnedStill DEF Under
<1> QED BY <1>1, <1>2, <1>3, <1>4, <1>5, <1>6, <1>7, OwnedTask DEF Next, PostStep

\* A set whose members are all the same has at most one.
LEMMA AtMostOne ==
  ASSUME NEW S, \A x, y \in S : x = y
  PROVE  Cardinality(S) <= 1
<1>1. CASE S = {} BY <1>1, FS_EmptySet
<1>2. CASE S # {}
  <2>1. PICK x \in S : S = {x} BY <1>2
  <2> QED BY <2>1, FS_Singleton
<1> QED BY <1>1, <1>2

LEMMA OwnedCovers == ASSUME Owned PROVE OneOwner
<1> SUFFICES ASSUME ~world.busy, fails = 0
             PROVE  /\ \A d \in Sides : Cardinality(Holders(d)) <= 1
                    /\ world.hedge \/ Cardinality(UNION {Holders(d) : d \in Sides}) <= 1
  BY DEF OneOwner
<1>1. \A s, t \in Strategies, d, e \in Sides :
        pos[s][d] > 0 /\ pos[t][e] > 0 /\ (d = e \/ ~world.hedge) => s = t
  BY DEF Owned
<1>2. ASSUME NEW d \in Sides PROVE Cardinality(Holders(d)) <= 1
  <2>1. \A x, y \in Holders(d) : x = y BY <1>1 DEF Holders
  <2> QED BY <2>1, AtMostOne
<1>3. ASSUME ~world.hedge PROVE Cardinality(UNION {Holders(d) : d \in Sides}) <= 1
  <2> DEFINE U == UNION {Holders(d) : d \in Sides}
  <2>1. \A x, y \in U : x = y BY <1>1, <1>3 DEF Holders
  <2> HIDE DEF U
  <2>2. Cardinality(U) <= 1 BY <2>1, AtMostOne
  <2> QED BY <2>2 DEF U
<1> QED BY <1>2, <1>3

\* While orders are processed one at a time and no statement fails, no two strategies hold
\* the same side of the symbol, nor any two sides on a one-way account, for any number of
\* strategies and orders: what the guard read is still true when the fill is booked.
THEOREM OneOwnerHolds == Spec => []OneOwner
<1>1. Init => FlowInv /\ Owned BY FlowInit, OwnedInit
<1>2. FlowInv /\ Owned /\ [Next]_vars => FlowInv' /\ Owned' BY FlowNext, OwnedNext
<1>3. Owned => OneOwner BY OwnedCovers
<1> QED BY <1>1, <1>2, <1>3, PTL DEF Spec

-------------------------------------------------------------------------------
(* What the books show of the fills.                                       *)

\* An order's task, its execution and its row, as long as nothing was lost and no
\* statement failed.
Clean(k) ==
  /\ task[k].at \notin {"raised", "gone"}
  /\ task[k].at = "call" <=> job[k].at \in {"load", "submit", "record", "answer"}
  /\ task[k].at \in {"none", "guard", "size"} =>
       job[k].at = "none" /\ order[k].status # "filled"
  /\ task[k].at \in {"write", "apply", "flip"} => job[k].at = "over"
  /\ task[k].at = "write" => task[k].result = job[k].result
  /\ task[k].at \in {"apply", "flip"} => order[k].status = "filled" /\ fills[k] = 1
  /\ task[k].at = "done" =>
       job[k].at \in {"none", "over"} /\ (order[k].status = "filled" <=> fills[k] > 0)
  /\ job[k].at \in {"none", "load", "submit"} => fills[k] = 0
  /\ job[k].at \in {"record", "answer", "over"} =>
       fills[k] = IF job[k].result = "filled" THEN 1 ELSE 0
  /\ ~netted => job[k].flip = FALSE

\* The fills that are in the books, of the orders for a strategy's side.
Landed    == [k \in Orders |-> IF task[k].at \in {"flip", "done"} THEN fills[k] ELSE 0]
For(s, d) ==
  {k \in Orders : order[k].signal # NULL /\ Asked(k).strategy = s /\ Asked(k).side = d}
Booked    == ~netted => \A s \in Strategies, d \in Sides : pos[s][d] = Total(Landed, For(s, d))

Tracked == Unharmed => (\A k \in Orders : Clean(k)) /\ Booked

LEMMA FaultsHarm ==
  ASSUME FlowInv
  PROVE  /\ Fail => ~Unharmed'
         /\ \A g \in Signals : Lose(g) => ~Unharmed'
         /\ ListenerRestarts => ~Unharmed'
<1>1. fails \in Nat /\ lost \in [Signals -> Nat] BY DEF FlowInv, TypeOK
<1>2. ASSUME NEW g \in Signals, Lose(g) PROVE ~Unharmed'
  <2>1. lost'[g] = lost[g] + 1 BY <1>1, <1>2 DEF Lose
  <2> QED BY <1>1, <2>1 DEF Unharmed
<1> QED BY <1>1, <1>2 DEF Unharmed, Fail, ListenerRestarts

\* Harm stays: who is unharmed after a step was so before.
LEMMA HarmStays ==
  ASSUME FlowInv, [Next]_vars, Unharmed'
  PROVE  Unharmed
<1>1. \A g \in Signals : lost[g] \in Nat /\ lost'[g] >= lost[g] BY LostGrows DEF FlowInv, TypeOK
<1>2. fails' = fails \/ fails' = fails + 1
  BY ZenonT(60) DEF Next, vars, counts, Send, PostStep, LoadStrategy, Reject, Admit, Answer, AnswerLost,
         Toggle, CacheExpires, TaskStep, Guard, TooSmall, CallExecutor, Answered, WriteStatus,
         ApplyFill, Flip, Raised, GuardFails, CallExpires, TaskRaises, JobStep, GetAdapter,
         Record, Submitted, Declined, AdapterFails, NotSent, SubmitLost, StateUnread,
         RecordFails, ExecutorRestarts, ListenerRestarts, Slip, Fail, Lose
<1>3. fails \in Nat BY DEF FlowInv, TypeOK
<1> QED BY <1>1, <1>2, <1>3 DEF Unharmed

LEMMA LandedType ==
  ASSUME TypeOK
  PROVE  \A k \in Orders : Landed[k] \in Nat /\ Landed[k] \in Int
BY DEF TypeOK, Landed

LEMMA LandedTypeNext ==
  ASSUME TypeOK'
  PROVE  \A k \in Orders : Landed'[k] \in Nat /\ Landed'[k] \in Int
BY DEF TypeOK, Landed

LEMMA ForIsFinite ==
  ASSUME NEW s, NEW d
  PROVE  For(s, d) \subseteq Orders /\ IsFiniteSet(For(s, d))
<1>1. IsFiniteSet(Orders) BY FlowBoundsAssumption, FS_Interval DEF Orders
<1>2. For(s, d) \in SUBSET Orders BY DEF For
<1> QED BY <1>1, <1>2, FS_Subset

\* A step of one order that leaves the others as they are.
LEMMA CleanAt ==
  ASSUME \A q \in Orders : Clean(q), NEW k \in Orders, Clean(k)', netted => netted',
         \A q \in Orders : q # k => /\ job'[q] = job[q] /\ task'[q] = task[q]
                                    /\ order'[q] = order[q] /\ fills'[q] = fills[q]
  PROVE  \A q \in Orders : Clean(q)'
<1>1. ASSUME NEW q \in Orders, q # k PROVE Clean(q)' BY <1>1 DEF Clean
<1> QED BY <1>1

\* One that books nothing.
LEMMA BookedStill ==
  ASSUME Booked, pos' = pos, world' = world, netted => netted',
         \A k \in Orders : order'[k].signal = order[k].signal,
         \A k \in Orders : Landed'[k] = Landed[k]
  PROVE  Booked'
<1> SUFFICES ASSUME ~netted', NEW s \in Strategies, NEW d \in Sides
             PROVE  pos[s][d] = Total(Landed', For(s, d)')
  BY DEF Booked
<1>1. For(s, d)' = For(s, d) BY DEF For, Asked
<1> DEFINE f == Landed  g == Landed'  S == For(s, d)
<1>2. IsFiniteSet(S) /\ \A k \in S : g[k] = f[k] BY ForIsFinite
<1>3. pos[s][d] = Total(f, S) BY DEF Booked
<1> HIDE DEF f, g, S
<1>4. Total(g, S) = Total(f, S) BY <1>2, TotalSame
<1> QED BY <1>1, <1>3, <1>4 DEF g, S

\* A new order has landed nothing.
LEMMA TrackedAdmit ==
  ASSUME FlowInv, TypeOK', \A q \in Orders : Clean(q), Booked, NEW g \in Signals, Admit(g)
  PROVE  (\A q \in Orders : Clean(q)') /\ Booked'
<1>0. TypeOK /\ task \in [Orders -> TaskSet] BY DEF FlowInv, TypeOK, TaskSet
<1>1. PICK k \in Orders :
        /\ order[k].status = "none"
        /\ order' = [order EXCEPT ![k] = [signal |-> g, status |-> "received"]]
        /\ task' = [task EXCEPT ![k].at = "guard"]
  BY DEF Admit
<1>2. /\ order[k].signal = NULL /\ task[k].at = "none" /\ job[k].at = "none" /\ job' = job
      /\ pos' = pos /\ fills' = fills /\ netted' = netted /\ world' = world
  BY <1>1 DEF FlowInv, Kept, Admit, exchange
<1>3. /\ order'[k].signal = g /\ order'[k].status = "received" /\ task'[k].at = "guard"
      /\ \A q \in Orders : q # k => order'[q] = order[q] /\ task'[q] = task[q]
  BY <1>0, <1>1 DEF TypeOK, TaskSet
<1>4. Clean(k)'
  <2>1. Clean(k) OBVIOUS
  <2> QED BY <1>2, <1>3, <2>1 DEF Clean
<1>5. \A q \in Orders : Clean(q)' BY <1>2, <1>3, <1>4, CleanAt
<1>6. \A q \in Orders : Landed'[q] = Landed[q] BY <1>2, <1>3 DEF Landed
<1>7. Landed[k] = 0 BY <1>2 DEF Landed
<1>8. ASSUME ~netted', NEW s \in Strategies, NEW d \in Sides
      PROVE  pos'[s][d] = Total(Landed', For(s, d)')
  <2> DEFINE f == Landed  h == Landed'  S == For(s, d)
  <2>1. For(s, d)' = S \/ For(s, d)' = S \cup {k}
    <3>1. S = {q \in Orders : /\ order[q].signal # NULL
                              /\ world.plan[order[q].signal].strategy = s
                              /\ world.plan[order[q].signal].side = d}
      BY DEF For, Asked
    <3>2. For(s, d)' = {q \in Orders : /\ order'[q].signal # NULL
                                       /\ world.plan[order'[q].signal].strategy = s
                                       /\ world.plan[order'[q].signal].side = d}
      BY <1>2 DEF For, Asked
    <3>3. \A q \in Orders : q # k => order'[q].signal = order[q].signal BY <1>3
    <3> HIDE DEF S
    <3> QED BY <1>2, <3>1, <3>2, <3>3
  <2>2. k \notin S BY <1>2 DEF For
  <2>3. /\ IsFiniteSet(S)
        /\ \A q \in S : h[q] = f[q]
        /\ \A q \in S \cup {k} : h[q] \in Int
    BY <1>6, ForIsFinite, LandedTypeNext
  <2>4. pos[s][d] = Total(f, S) BY <1>2, <1>8 DEF Booked
  <2>5. h[k] = 0 BY <1>6, <1>7
  <2> HIDE DEF f, h, S
  <2>6. Total(h, S) = Total(f, S) /\ Total(h, S) \in Int BY <2>3, TotalSame, TotalIsInt
  <2>7. Total(h, S \cup {k}) = Total(h, S) + h[k] BY <2>2, <2>3, TotalAdd
  <2>8. Total(h, S \cup {k}) = Total(f, S) BY <2>5, <2>6, <2>7
  <2> QED BY <1>2, <2>1, <2>4, <2>6, <2>8 DEF h
<1> QED BY <1>5, <1>8 DEF Booked

\* The step that books a fill.
LEMMA TrackedApply ==
  ASSUME FlowInv, TypeOK', \A q \in Orders : Clean(q), Booked, NEW k \in Orders, ApplyFill(k)
  PROVE  (\A q \in Orders : Clean(q)') /\ Booked'
<1>0. /\ TypeOK /\ Kept(k) /\ Clean(k) /\ task \in [Orders -> TaskSet]
      /\ pos \in [Strategies -> [Sides -> Nat]]
  BY DEF FlowInv, TypeOK, TaskSet
<1> DEFINE s == Asked(k).strategy  d == Asked(k).side
<1>1. /\ task' = [task EXCEPT ![k].at = "flip"] /\ task[k].at = "apply"
      /\ pos' = [pos EXCEPT ![s][d] = pos[s][d] + 1]
      /\ order' = order /\ job' = job /\ fills' = fills /\ netted' = netted /\ world' = world
  BY DEF ApplyFill, exchange
<1>2. task'[k].at = "flip" /\ \A q \in Orders : q # k => task'[q] = task[q]
  BY <1>0, <1>1 DEF TaskSet
<1>3. Clean(k)' BY <1>0, <1>1, <1>2 DEF Clean
<1>4. \A q \in Orders : Clean(q)' BY <1>1, <1>2, <1>3, CleanAt
<1>5. order[k].status # "none" /\ fills[k] = 1 BY <1>0, <1>1 DEF Clean
<1>6. s \in Strategies /\ d \in Sides /\ order[k].signal \in Signals BY <1>5, AskedType
<1>7. /\ Landed[k] = 0 /\ Landed'[k] = 1
      /\ \A q \in Orders : q # k => Landed'[q] = Landed[q]
  BY <1>1, <1>2, <1>5 DEF Landed
<1>8. ASSUME ~netted', NEW t \in Strategies, NEW e \in Sides
      PROVE  pos'[t][e] = Total(Landed', For(t, e)')
  <2> DEFINE f == Landed  h == Landed'  S == For(t, e)
  <2>1. For(t, e)' = S BY <1>1 DEF For, Asked
  <2>2. k \in S <=> (t = s /\ e = d) BY <1>6, FlowNullAssumption DEF For
  <2>3. /\ IsFiniteSet(S)
        /\ \A q \in S : q # k => h[q] = f[q]
        /\ \A q \in S : f[q] \in Int /\ h[q] \in Int
    BY <1>0, <1>7, ForIsFinite, LandedType, LandedTypeNext
  <2>4. pos[t][e] = Total(f, S) BY <1>1, <1>8 DEF Booked
  <2>5. f[k] = 0 /\ h[k] = 1 BY <1>7
  <2> HIDE DEF f, h, S, s, d
  <2>6. Total(f, S) \in Int BY <2>3, TotalIsInt
  <2>7. CASE t = s /\ e = d
    <3>1. pos'[t][e] = pos[t][e] + 1 BY <1>0, <1>1, <1>6, <2>7
    <3>2. Total(h, S) = Total(f, S) + (h[k] - f[k]) BY <2>2, <2>3, <2>7, TotalChange
    <3> QED BY <2>1, <2>4, <2>5, <2>6, <3>1, <3>2 DEF h
  <2>8. CASE ~(t = s /\ e = d)
    <3>1. pos'[t][e] = pos[t][e] BY <1>0, <1>1, <1>6, <2>8
    <3>2. Total(h, S) = Total(f, S) BY <2>2, <2>3, <2>8, TotalSame
    <3> QED BY <2>1, <2>4, <3>1, <3>2 DEF h
  <2> QED BY <2>7, <2>8
<1> QED BY <1>4, <1>8 DEF Booked

LEMMA TrackedTask ==
  ASSUME FlowInv, FlowInv', \A q \in Orders : Clean(q), Booked, NEW k \in Orders, TaskStep(k)
  PROVE  (\A q \in Orders : Clean(q)') /\ Booked'
<1> USE DEF counts
<1>0. /\ TypeOK /\ TypeOK' /\ Kept(k) /\ Clean(k) /\ task \in [Orders -> TaskSet]
      /\ job \in [Orders -> JobSet] /\ order \in [Orders -> OrderSet] /\ fills \in [Orders -> Nat]
  BY DEF FlowInv, TypeOK, TaskSet, JobSet, OrderSet
<1>1. CASE ApplyFill(k) BY <1>0, <1>1, TrackedApply
<1>2. SUFFICES ASSUME ~ApplyFill(k) PROVE (\A q \in Orders : Clean(q)') /\ Booked'
  BY <1>1
<1>3. /\ world' = world /\ fills' = fills /\ netted' = netted
      /\ \A q \in Orders : q # k => /\ job'[q] = job[q] /\ task'[q] = task[q]
                                    /\ order'[q] = order[q]
      /\ order'[k].signal = order[k].signal
  <2>1. /\ order' = order \/ \E s : order' = [order EXCEPT ![k].status = s]
        /\ \/ \E at : task' = [task EXCEPT ![k].at = at]
           \/ \E t : task' = [task EXCEPT ![k] = t]
        /\ \/ job' = job
           \/ job' = [job EXCEPT ![k].at = "over"] \/ \E j : job' = [job EXCEPT ![k] = j]
        /\ world' = world /\ fills' = fills /\ netted' = netted
    BY <1>2 DEF TaskStep, Guard, TooSmall, CallExecutor, Answered, WriteStatus, Flip, Raised,
                book, exchange
  <2> QED BY <1>0, <2>1 DEF TaskSet, JobSet, OrderSet
<1>4. Clean(k)' /\ (pos' = pos \/ netted)
  <2>1. CASE Guard(k)
    <3>1. /\ task[k].at = "guard" /\ job' = job /\ pos' = pos
          /\ \/ task'[k].at = "done" /\ order'[k].status = "conflict"
             \/ task'[k].at = "size" /\ order' = order
      BY <1>0, <2>1 DEF Guard, TaskSet, OrderSet
    <3> QED BY <1>0, <1>3, <3>1 DEF Clean
  <2>2. CASE TooSmall(k)
    <3>1. /\ task[k].at = "size" /\ job' = job /\ pos' = pos
          /\ task'[k].at = "done" /\ order'[k].status = "size_too_small"
      BY <1>0, <2>2 DEF TooSmall, TaskSet, OrderSet
    <3> QED BY <1>0, <1>3, <3>1 DEF Clean
  <2>3. CASE CallExecutor(k)
    <3>1. /\ task[k].at = "size" /\ order' = order /\ pos' = pos /\ task'[k].at = "call"
      BY <1>0, <2>3 DEF CallExecutor, TaskSet, book
    <3>2. job'[k].at = "load" /\ job'[k].flip = FALSE
      BY <1>0, <2>3, NoJobType DEF CallExecutor, JobSet
    <3> QED BY <1>0, <1>3, <3>1, <3>2 DEF Clean
  <2>4. CASE Answered(k)
    <3>1. /\ task[k].at = "call" /\ job[k].at = "answer" /\ order' = order /\ pos' = pos
          /\ task'[k].at = "write" /\ task'[k].result = job[k].result
      BY <1>0, <2>4 DEF Answered, TaskSet, book
    <3>2. job'[k].at = "over" /\ job'[k].result = job[k].result /\ job'[k].flip = job[k].flip
      BY <1>0, <2>4 DEF Answered, JobSet
    <3> QED BY <1>0, <1>3, <3>1, <3>2 DEF Clean
  <2>5. CASE WriteStatus(k)
    <3>1. /\ task[k].at = "write" /\ job' = job /\ pos' = pos
          /\ task'[k].at = IF task[k].result = "filled" THEN "apply" ELSE "done"
          /\ order'[k].status = task[k].result
      BY <1>0, <2>5 DEF WriteStatus, TaskSet, OrderSet
    <3> QED BY <1>0, <1>3, <3>1 DEF Clean
  <2>6. CASE Flip(k)
    <3>1. /\ task[k].at = "flip" /\ job' = job /\ order' = order /\ task'[k].at = "done"
          /\ job[k].flip \/ pos' = pos
      BY <1>0, <2>6 DEF Flip, TaskSet
    <3> QED BY <1>0, <1>3, <3>1 DEF Clean
  <2>7. ~Raised(k) BY <1>0 DEF Raised, Clean
  <2> QED BY <1>2, <2>1, <2>2, <2>3, <2>4, <2>5, <2>6, <2>7 DEF TaskStep
<1>5. \A q \in Orders : Clean(q)' BY <1>3, <1>4, CleanAt
<1>6. Landed'[k] = Landed[k]
  <2>1. \/ task'[k].at \in {"flip", "done"} <=> task[k].at \in {"flip", "done"}
        \/ fills[k] = 0
    <3>1. CASE Guard(k) \/ TooSmall(k) BY <1>0, <3>1 DEF Guard, TooSmall, Clean
    <3>2. CASE CallExecutor(k) \/ Answered(k)
      BY <1>0, <3>2 DEF CallExecutor, Answered, TaskSet
    <3>3. CASE WriteStatus(k)
      <4>1. CASE task[k].result = "filled" BY <1>0, <3>3, <4>1 DEF WriteStatus, TaskSet
      <4>2. CASE task[k].result # "filled" BY <1>0, <3>3, <4>2 DEF WriteStatus, Clean
      <4> QED BY <4>1, <4>2
    <3>4. CASE Flip(k) BY <1>0, <3>4 DEF Flip, TaskSet
    <3>5. ~Raised(k) BY <1>0 DEF Raised, Clean
    <3> QED BY <1>2, <3>1, <3>2, <3>3, <3>4, <3>5 DEF TaskStep
  <2> QED BY <1>3, <2>1 DEF Landed
<1>7. \A q \in Orders : Landed'[q] = Landed[q] /\ order'[q].signal = order[q].signal
  BY <1>3, <1>6 DEF Landed
<1>8. Booked'
  <2>1. CASE netted BY <1>3, <2>1 DEF Booked
  <2>2. CASE ~netted BY <1>3, <1>4, <1>7, <2>2, BookedStill
  <2> QED BY <2>1, <2>2
<1> QED BY <1>5, <1>8

LEMMA TrackedJob ==
  ASSUME FlowInv, FlowInv', \A q \in Orders : Clean(q), Booked, NEW k \in Orders,
         JobStep(k) \/ NotSent(k)
  PROVE  (\A q \in Orders : Clean(q)') /\ Booked'
<1> USE DEF book, exchange
<1>0. /\ TypeOK /\ TypeOK' /\ Kept(k) /\ Clean(k) /\ task \in [Orders -> TaskSet]
      /\ job \in [Orders -> JobSet] /\ order \in [Orders -> OrderSet] /\ fills \in [Orders -> Nat]
      /\ netted \in BOOLEAN
  BY DEF FlowInv, TypeOK, TaskSet, JobSet, OrderSet
<1>a. Results = {"filled", "pending", "rejected", "route_failed"} BY DEF Results
<1>1. SUFFICES ASSUME /\ task' = task /\ pos' = pos /\ world' = world /\ (netted => netted')
                      /\ task[k].at = "call" /\ Clean(k)'
                      /\ \A q \in Orders : q # k => /\ job'[q] = job[q] /\ order'[q] = order[q]
                                                    /\ fills'[q] = fills[q]
                      /\ order'[k].signal = order[k].signal
               PROVE  (\A q \in Orders : Clean(q)') /\ Booked'
  <2>0. task[k].at = "call"
    BY <1>0 DEF JobStep, NotSent, GetAdapter, Record, Submitted, Declined, Clean
  <2>1. CASE GetAdapter(k)
    <3>1. /\ job[k].at = "load" /\ UNCHANGED <<world, task, book, exchange>>
          /\ job'[k].at = "submit" /\ job'[k].flip = job[k].flip
          /\ \A q \in Orders : q # k => job'[q] = job[q]
      BY <1>0, <2>1 DEF GetAdapter, JobSet
    <3>2. Clean(k)' BY <1>0, <2>0, <3>1 DEF Clean
    <3> QED BY <1>1, <2>0, <3>1, <3>2
  <2>2. CASE Record(k)
    <3>1. /\ job[k].at = "record" /\ UNCHANGED <<world, task, pos, exchange>>
          /\ job'[k].at = "answer" /\ job'[k].result = job[k].result
          /\ job'[k].flip = job[k].flip /\ order'[k].signal = order[k].signal
          /\ \A q \in Orders : q # k => job'[q] = job[q] /\ order'[q] = order[q]
      BY <1>0, <2>2 DEF Record, JobSet, OrderSet
    <3>2. Clean(k)' BY <1>0, <2>0, <3>1 DEF Clean
    <3> QED BY <1>1, <2>0, <3>1, <3>2
  <2>3. ASSUME NEW answer \in Results, Submitted(k, answer)
        PROVE (\A q \in Orders : Clean(q)') /\ Booked'
    <3> DEFINE flip == Nets(k) /\ world.venue # "hyperliquid"
    <3>1. /\ job[k].at = "submit" /\ UNCHANGED <<world, task, book>> /\ Enter(k, answer)
          /\ Conclude(k, answer, flip) /\ answer \in Verdicts.in[Asked(k).kind]
      BY <2>3 DEF Submitted
    <3>2. flip \in BOOLEAN /\ (flip => Nets(k)) OBVIOUS
    <3>3. answer \in {"filled", "pending"}
      <4>1. order[k].status # "none" BY <3>1, JobOrder
      <4> QED BY <3>1, <4>1, VerdictsIn
    <3> HIDE DEF flip
    <3>4. /\ job'[k].at = "record" /\ job'[k].result = answer /\ job'[k].flip = flip
          /\ \A q \in Orders : q # k => job'[q] = job[q]
      BY <1>0, <3>1, <3>2, <3>3, ConcludeDoes
    <3>5. /\ fills'[k] = IF answer = "pending" THEN fills[k] ELSE fills[k] + 1
          /\ \A q \in Orders : q # k => fills'[q] = fills[q]
          /\ netted' = (netted \/ Nets(k))
      BY <1>0, <3>1, EnterType
    <3>6. fills[k] = 0 BY <1>0, <3>1 DEF Clean
    <3>7. Clean(k)'
      <4>1. fills'[k] = IF answer = "filled" THEN 1 ELSE 0 BY <3>3, <3>5, <3>6
      <4>2. ~netted' => job'[k].flip = FALSE BY <3>2, <3>4, <3>5
      <4>3. task'[k].at = "call" BY <2>0, <3>1
      <4> QED BY <3>4, <4>1, <4>2, <4>3 DEF Clean
    <3>8. order' = order /\ pos' = pos /\ task' = task /\ world' = world BY <3>1
    <3>9. netted => netted' BY <3>5
    <3> QED BY <1>1, <2>0, <3>4, <3>5, <3>7, <3>8, <3>9
  <2>4. ASSUME NEW answer \in Results, Declined(k, answer) \/ (answer = "route_failed" /\ NotSent(k))
        PROVE (\A q \in Orders : Clean(q)') /\ Booked'
    <3>1. /\ job[k].at = "submit" /\ UNCHANGED <<world, task, book, exchange>>
          /\ Conclude(k, answer, FALSE)
      BY <2>4 DEF Declined, NotSent
    <3>2. answer # "filled"
      <4>1. world.venue \in {"blofin", "hyperliquid", "binance"} BY <1>0, WorldType
      <4>2. Verdicts.out \subseteq {"rejected", "route_failed"}
        BY <4>1 DEF Verdicts, BlofinVerdicts, HyperliquidVerdicts, BinanceVerdicts
      <4> QED BY <2>4, <4>2 DEF Declined
    <3>3. /\ \/ job'[k].at = "load" /\ job'[k].flip = job[k].flip
             \/ job'[k].at = "record" /\ job'[k].result = answer /\ job'[k].flip = FALSE
          /\ \A q \in Orders : q # k => job'[q] = job[q]
      BY <1>0, <3>1, ConcludeDoes
    <3>4. Clean(k)' BY <1>0, <2>0, <3>1, <3>2, <3>3 DEF Clean
    <3> QED BY <1>1, <2>0, <3>1, <3>3, <3>4
  <2>5. "route_failed" \in Results BY <1>a
  <2> QED BY <1>a, <2>1, <2>2, <2>3, <2>4, <2>5 DEF JobStep
<1>2. \A q \in Orders : Clean(q)' BY <1>1, CleanAt
<1>3. \A q \in Orders : Landed'[q] = Landed[q] /\ order'[q].signal = order[q].signal
  BY <1>1 DEF Landed
<1> QED BY <1>1, <1>2, <1>3, BookedStill

LEMMA TrackedInit == Init => Tracked
<1> SUFFICES ASSUME Init PROVE Tracked OBVIOUS
<1>1. ASSUME NEW k \in Orders PROVE Clean(k)
  <2>1. job[k] = NoJob /\ task[k].at = "none" /\ order[k].status = "none" /\ fills[k] = 0
    BY DEF Init
  <2> QED BY <2>1, NoJobType DEF Clean
<1>2. ASSUME NEW s \in Strategies, NEW d \in Sides PROVE pos[s][d] = Total(Landed, For(s, d))
  <2>1. For(s, d) = {} BY DEF Init, For
  <2>2. pos[s][d] = 0 BY DEF Init
  <2> QED BY <2>1, <2>2, TotalOfNone
<1> QED BY <1>1, <1>2 DEF Tracked, Booked

LEMMA TrackedNext == FlowInv /\ Tracked /\ [Next]_vars => Tracked'
<1> SUFFICES ASSUME FlowInv, Tracked, [Next]_vars, Unharmed'
             PROVE  (\A k \in Orders : Clean(k)') /\ Booked'
  BY DEF Tracked
<1>1. FlowInv' /\ TypeOK' BY FlowNext DEF FlowInv
<1>2. (\A k \in Orders : Clean(k)) /\ Booked BY HarmStays DEF Tracked
<1>3. CASE UNCHANGED <<world, order, task, job, pos, fills, netted>>
  <2>1. \A k \in Orders : Clean(k)' BY <1>2, <1>3 DEF Clean
  <2>2. \A k \in Orders : Landed'[k] = Landed[k] /\ order'[k].signal = order[k].signal
    BY <1>3 DEF Landed
  <2> QED BY <1>2, <1>3, <2>1, <2>2, BookedStill
<1>4. ASSUME NEW g \in Signals, Send(g) \/ PostStep(g) \/ AnswerLost(g)
      PROVE  (\A k \in Orders : Clean(k)') /\ Booked'
  <2>1. CASE Admit(g) BY <1>1, <1>2, <2>1, TrackedAdmit
  <2>2. CASE ~Admit(g)
    <3>1. UNCHANGED <<world, order, task, job, pos, fills, netted>>
      BY <1>4, <2>2 DEF Send, PostStep, LoadStrategy, Reject, Answer, AnswerLost, book, exchange
    <3> QED BY <1>3, <3>1
  <2> QED BY <2>1, <2>2
<1>5. ASSUME NEW s \in Strategies, Toggle(s) \/ CacheExpires(s)
      PROVE  (\A k \in Orders : Clean(k)') /\ Booked'
  BY <1>3, <1>5 DEF Toggle, CacheExpires, book, exchange
<1>6. ASSUME NEW k \in Orders,
             \/ TaskStep(k) \/ GuardFails(k) \/ CallExpires(k) \/ TaskRaises(k)
             \/ JobStep(k) \/ AdapterFails(k) \/ NotSent(k) \/ SubmitLost(k) \/ StateUnread(k)
             \/ RecordFails(k)
      PROVE  (\A q \in Orders : Clean(q)') /\ Booked'
  <2>1. TaskStep(k) \/ JobStep(k) \/ NotSent(k)
    <3>1. ~Fail BY FaultsHarm
    <3>2. ~SubmitLost(k)
      <4>1. job[k].at = "submit" => order[k].signal \in Signals BY JobOrder
      <4> QED BY <4>1, FaultsHarm DEF SubmitLost
    <3> QED
      BY <1>6, <3>1, <3>2 DEF GuardFails, CallExpires, TaskRaises, AdapterFails, StateUnread,
                              RecordFails
  <2> QED BY <1>1, <1>2, <2>1, TrackedTask, TrackedJob
<1>7. ~ListenerRestarts /\ ~ExecutorRestarts BY FaultsHarm DEF ExecutorRestarts
<1>8. CASE UNCHANGED vars BY <1>3, <1>8 DEF vars, book, exchange
<1> QED BY <1>4, <1>5, <1>6, <1>7, <1>8 DEF Next

LEMMA TrackedCovers == ASSUME FlowInv, Tracked PROVE FillsAreTracked
<1> SUFFICES ASSUME Quiet, Unharmed, ~netted
             PROVE  /\ \A s \in Strategies, d \in Sides : pos[s][d] = FilledFor(s, d)
                    /\ \A k \in Orders : order[k].status = "filled" <=> fills[k] > 0
  BY DEF FillsAreTracked
<1>1. (\A k \in Orders : Clean(k)) /\ Booked BY DEF Tracked
<1>2. ASSUME NEW k \in Orders
      PROVE  /\ Landed[k] = fills[k]
             /\ order[k].status = "filled" <=> fills[k] > 0
  <2>1. task[k].at \in {"none", "done"} BY DEF Quiet
  <2>2. CASE task[k].at = "none"
    <3>1. job[k].at = "none" /\ order[k].status # "filled" /\ fills[k] = 0
      BY <1>1, <2>2 DEF Clean
    <3> QED BY <2>2, <3>1 DEF Landed
  <2>3. CASE task[k].at = "done" BY <1>1, <2>3 DEF Clean, Landed
  <2> QED BY <2>1, <2>2, <2>3
<1>3. ASSUME NEW s \in Strategies, NEW d \in Sides PROVE pos[s][d] = FilledFor(s, d)
  <2> DEFINE f == Landed  S == For(s, d)
  <2>1. FilledFor(s, d) = Total(fills, S) BY DEF FilledFor, Total, For
  <2>2. pos[s][d] = Total(f, S) BY <1>1 DEF Booked
  <2>3. IsFiniteSet(S) /\ \A k \in S : f[k] = fills[k] BY <1>2, ForIsFinite
  <2> HIDE DEF f, S
  <2>4. Total(f, S) = Total(fills, S) BY <2>3, TotalSame
  <2> QED BY <2>1, <2>2, <2>4
<1> QED BY <1>2, <1>3

\* With no answer lost and no statement failing, the rows of every strategy show the lots
\* that filled for it and an order row says "filled" exactly when its entry did, for any
\* number of signals, strategies, orders, retries and switches, however they overlap: until
\* an entry meets the strategy's own opposite leg.
THEOREM FillsAreTrackedHolds == Spec => []FillsAreTracked
<1>1. Init => FlowInv /\ Tracked BY FlowInit, TrackedInit
<1>2. FlowInv /\ Tracked /\ [Next]_vars => FlowInv' /\ Tracked' BY FlowNext, TrackedNext
<1>3. FlowInv /\ Tracked => FillsAreTracked BY TrackedCovers
<1> QED BY <1>1, <1>2, <1>3, PTL DEF Spec
-------------------------------------------------------------------------------
(* The books of MCOrdersBooks: its instances of PositionLedger are those   *)
(* PositionLedgerProofs has the theorems of.                               *)

SequentialProofs == INSTANCE PositionLedgerProofs WITH
  Agents <- {a1}, LastRow <- 1, Legs <- {long}, MaxSize <- 3, Gains <- LossGain,
  OpenFee <- 1, CloseFee <- 1, FeeScope <- "round_trip", Responses <- {"reported"},
  PartialTriggers <- FALSE, HistoryMayLag <- FALSE, DbMayFail <- FALSE,
  MayRestart <- FALSE, StartCapital <- 100, MaxDrawdown <- 50, job <- closing

RecoveryProofs == INSTANCE PositionLedgerProofs WITH
  Agents <- {a1, a2}, LastRow <- 1, Legs <- {long}, MaxSize <- 1, Gains <- LossGain,
  OpenFee <- 1, CloseFee <- 1, FeeScope <- "close_only",
  Responses <- {"reported", "silent"}, PartialTriggers <- FALSE,
  HistoryMayLag <- TRUE, DbMayFail <- TRUE, MayRestart <- FALSE,
  StartCapital <- 100, MaxDrawdown <- 50, job <- closing

LEMMA SameSequential ==
  /\ Sequential!Init => SequentialProofs!Init
  /\ Sequential!Next => SequentialProofs!Next
  /\ SequentialProofs!RealizedIsNet => Sequential!RealizedIsNet
BY DEF
       Sequential!Rows, Sequential!rowVars, Sequential!exchVars, Sequential!agentVars,
       Sequential!history, Sequential!vars, Sequential!Maybe, Sequential!MinOf,
       Sequential!MaxOf, Sequential!Amount, Sequential!IsOpen, Sequential!OpenIn,
       Sequential!NoJob, Sequential!NoSignal, Sequential!OrderTotal, Sequential!Resume,
       Sequential!Unpaid, Sequential!Reduced, Sequential!Closing, Sequential!Outcome,
       Sequential!CloseQuantity, Sequential!WithFill, Sequential!NetPnl, Sequential!Updated,
       Sequential!Linked, Sequential!Lands, Sequential!Priced, Sequential!Capital,
       Sequential!Breached, Sequential!FlattenDone, Sequential!History, Sequential!WholeFee,
       Sequential!ClosingFee, Sequential!HistoryFee, Sequential!RemainingPnl,
       Sequential!RemainingFee, Sequential!Correction, Sequential!Unexplained,
       Sequential!Unattributed, Sequential!RecoveredNet, Sequential!Init,
       Sequential!CreatePosition, Sequential!TriggerFires, Sequential!ManualClose,
       Sequential!SignalClose, Sequential!SignalLeg, Sequential!ExchangeClose,
       Sequential!CommitClose, Sequential!CommitFails, Sequential!PriceOrder,
       Sequential!Book, Sequential!BookFails, Sequential!CheckDrawdown,
       Sequential!FlattenLeg, Sequential!Disable, Sequential!ExternalClose,
       Sequential!ExternalSelect, Sequential!ExternalReduce, Sequential!SyncAttribute,
       Sequential!SyncCorrect, Sequential!RecoverSelect, Sequential!RecoverPnl,
       Sequential!InsertRecovered, Sequential!EndPass, Sequential!Restart,
       Sequential!Continue, Sequential!Begin, Sequential!Market, Sequential!Next,
       Sequential!RealizedIsNet,
       SequentialProofs!Rows, SequentialProofs!rowVars, SequentialProofs!exchVars,
       SequentialProofs!agentVars, SequentialProofs!history, SequentialProofs!vars,
       SequentialProofs!Maybe, SequentialProofs!MinOf, SequentialProofs!MaxOf,
       SequentialProofs!Amount, SequentialProofs!IsOpen, SequentialProofs!OpenIn,
       SequentialProofs!NoJob, SequentialProofs!NoSignal, SequentialProofs!OrderTotal,
       SequentialProofs!Resume, SequentialProofs!Unpaid, SequentialProofs!Reduced,
       SequentialProofs!Closing, SequentialProofs!Outcome, SequentialProofs!CloseQuantity,
       SequentialProofs!WithFill, SequentialProofs!NetPnl, SequentialProofs!Updated,
       SequentialProofs!Linked, SequentialProofs!Lands, SequentialProofs!Priced,
       SequentialProofs!Capital, SequentialProofs!Breached, SequentialProofs!FlattenDone,
       SequentialProofs!History, SequentialProofs!WholeFee, SequentialProofs!ClosingFee,
       SequentialProofs!HistoryFee, SequentialProofs!RemainingPnl,
       SequentialProofs!RemainingFee, SequentialProofs!Correction,
       SequentialProofs!Unexplained, SequentialProofs!Unattributed,
       SequentialProofs!RecoveredNet, SequentialProofs!Init,
       SequentialProofs!CreatePosition, SequentialProofs!TriggerFires,
       SequentialProofs!ManualClose, SequentialProofs!SignalClose,
       SequentialProofs!SignalLeg, SequentialProofs!ExchangeClose,
       SequentialProofs!CommitClose, SequentialProofs!CommitFails,
       SequentialProofs!PriceOrder, SequentialProofs!Book, SequentialProofs!BookFails,
       SequentialProofs!CheckDrawdown, SequentialProofs!FlattenLeg,
       SequentialProofs!Disable, SequentialProofs!ExternalClose,
       SequentialProofs!ExternalSelect, SequentialProofs!ExternalReduce,
       SequentialProofs!SyncAttribute, SequentialProofs!SyncCorrect,
       SequentialProofs!RecoverSelect, SequentialProofs!RecoverPnl,
       SequentialProofs!InsertRecovered, SequentialProofs!EndPass, SequentialProofs!Restart,
       SequentialProofs!Continue, SequentialProofs!Begin, SequentialProofs!Market,
       SequentialProofs!Next, SequentialProofs!RealizedIsNet

LEMMA SameRecovery ==
  /\ Recovery!Init => RecoveryProofs!Init
  /\ Recovery!Next => RecoveryProofs!Next
  /\ RecoveryProofs!RealizedIsNet => Recovery!RealizedIsNet
BY DEF
       Recovery!Rows, Recovery!rowVars, Recovery!exchVars, Recovery!agentVars,
       Recovery!history, Recovery!vars, Recovery!Maybe, Recovery!MinOf, Recovery!MaxOf,
       Recovery!Amount, Recovery!IsOpen, Recovery!OpenIn, Recovery!NoJob, Recovery!NoSignal,
       Recovery!OrderTotal, Recovery!Resume, Recovery!Unpaid, Recovery!Reduced,
       Recovery!Closing, Recovery!Outcome, Recovery!CloseQuantity, Recovery!WithFill,
       Recovery!NetPnl, Recovery!Updated, Recovery!Linked, Recovery!Lands, Recovery!Priced,
       Recovery!Capital, Recovery!Breached, Recovery!FlattenDone, Recovery!History,
       Recovery!WholeFee, Recovery!ClosingFee, Recovery!HistoryFee, Recovery!RemainingPnl,
       Recovery!RemainingFee, Recovery!Correction, Recovery!Unexplained,
       Recovery!Unattributed, Recovery!RecoveredNet, Recovery!Init, Recovery!CreatePosition,
       Recovery!TriggerFires, Recovery!ManualClose, Recovery!SignalClose,
       Recovery!SignalLeg, Recovery!ExchangeClose, Recovery!CommitClose,
       Recovery!CommitFails, Recovery!PriceOrder, Recovery!Book, Recovery!BookFails,
       Recovery!CheckDrawdown, Recovery!FlattenLeg, Recovery!Disable,
       Recovery!ExternalClose, Recovery!ExternalSelect, Recovery!ExternalReduce,
       Recovery!SyncAttribute, Recovery!SyncCorrect, Recovery!RecoverSelect,
       Recovery!RecoverPnl, Recovery!InsertRecovered, Recovery!EndPass, Recovery!Restart,
       Recovery!Continue, Recovery!Begin, Recovery!Market, Recovery!Next,
       Recovery!RealizedIsNet,
       RecoveryProofs!Rows, RecoveryProofs!rowVars, RecoveryProofs!exchVars,
       RecoveryProofs!agentVars, RecoveryProofs!history, RecoveryProofs!vars,
       RecoveryProofs!Maybe, RecoveryProofs!MinOf, RecoveryProofs!MaxOf,
       RecoveryProofs!Amount, RecoveryProofs!IsOpen, RecoveryProofs!OpenIn,
       RecoveryProofs!NoJob, RecoveryProofs!NoSignal, RecoveryProofs!OrderTotal,
       RecoveryProofs!Resume, RecoveryProofs!Unpaid, RecoveryProofs!Reduced,
       RecoveryProofs!Closing, RecoveryProofs!Outcome, RecoveryProofs!CloseQuantity,
       RecoveryProofs!WithFill, RecoveryProofs!NetPnl, RecoveryProofs!Updated,
       RecoveryProofs!Linked, RecoveryProofs!Lands, RecoveryProofs!Priced,
       RecoveryProofs!Capital, RecoveryProofs!Breached, RecoveryProofs!FlattenDone,
       RecoveryProofs!History, RecoveryProofs!WholeFee, RecoveryProofs!ClosingFee,
       RecoveryProofs!HistoryFee, RecoveryProofs!RemainingPnl, RecoveryProofs!RemainingFee,
       RecoveryProofs!Correction, RecoveryProofs!Unexplained, RecoveryProofs!Unattributed,
       RecoveryProofs!RecoveredNet, RecoveryProofs!Init, RecoveryProofs!CreatePosition,
       RecoveryProofs!TriggerFires, RecoveryProofs!ManualClose, RecoveryProofs!SignalClose,
       RecoveryProofs!SignalLeg, RecoveryProofs!ExchangeClose, RecoveryProofs!CommitClose,
       RecoveryProofs!CommitFails, RecoveryProofs!PriceOrder, RecoveryProofs!Book,
       RecoveryProofs!BookFails, RecoveryProofs!CheckDrawdown, RecoveryProofs!FlattenLeg,
       RecoveryProofs!Disable, RecoveryProofs!ExternalClose, RecoveryProofs!ExternalSelect,
       RecoveryProofs!ExternalReduce, RecoveryProofs!SyncAttribute,
       RecoveryProofs!SyncCorrect, RecoveryProofs!RecoverSelect, RecoveryProofs!RecoverPnl,
       RecoveryProofs!InsertRecovered, RecoveryProofs!EndPass, RecoveryProofs!Restart,
       RecoveryProofs!Continue, RecoveryProofs!Begin, RecoveryProofs!Market,
       RecoveryProofs!Next, RecoveryProofs!RealizedIsNet

LEMMA SequentialNet == SequentialProofs!Spec => []SequentialProofs!RealizedIsNet
<1>1. SequentialProofs!Alone1(a1, long) BY DEF SequentialProofs!Alone1
<1>2. LossGain \subseteq Int BY DEF LossGain
<1> QED BY <1>1, <1>2, BooksNullAssumption, SequentialProofs!NetWhenAlone

LEMMA RecoveryNet == RecoveryProofs!Spec => []RecoveryProofs!RealizedIsNet
<1>1. RecoveryProofs!OneLot BY DEF RecoveryProofs!OneLot
<1>2. LossGain \subseteq Int BY DEF LossGain
<1> QED BY <1>1, <1>2, BooksNullAssumption, RecoveryProofs!NetOfOneLot

\* On both instances a closed position shows what the exchange made of it: one coroutine
\* whose venue's fees are round-trip, and two that race, with silent answers, lagging
\* history and failing statements, on a venue whose fees are the closing trades' own.
THEOREM RealizedIsNetHolds == SpecAll => []RealizedIsNet
<1> DEFINE InSequence == turn = "sequential"
           InRecovery == turn = "recovery"
<1>1. InitAll => /\ InSequence => SequentialProofs!Init
                 /\ InRecovery => RecoveryProofs!Init
  BY SameSequential, SameRecovery DEF InitAll
<1>2. [NextAll]_allVars => (InSequence' <=> InSequence) /\ (InRecovery' <=> InRecovery)
  BY DEF NextAll, allVars
<1>3. InSequence /\ [NextAll]_allVars => [SequentialProofs!Next]_(SequentialProofs!vars)
  <2>1. UNCHANGED bookVars => UNCHANGED SequentialProofs!vars
    BY DEF bookVars, SequentialProofs!vars, SequentialProofs!rowVars, SequentialProofs!exchVars,
       SequentialProofs!agentVars, SequentialProofs!history
  <2> QED BY <2>1, SameSequential DEF NextAll, allVars
<1>4. InRecovery /\ [NextAll]_allVars => [RecoveryProofs!Next]_(RecoveryProofs!vars)
  <2>1. UNCHANGED bookVars => UNCHANGED RecoveryProofs!vars
    BY DEF bookVars, RecoveryProofs!vars, RecoveryProofs!rowVars, RecoveryProofs!exchVars,
       RecoveryProofs!agentVars, RecoveryProofs!history
  <2> QED BY <2>1, SameRecovery DEF NextAll, allVars
<1>5. /\ InSequence /\ SequentialProofs!RealizedIsNet => RealizedIsNet
      /\ InRecovery /\ RecoveryProofs!RealizedIsNet => RealizedIsNet
      /\ ~InSequence /\ ~InRecovery => RealizedIsNet
  BY SameSequential, SameRecovery DEF RealizedIsNet
<1> HIDE DEF InSequence, InRecovery
<1>6. SpecAll => InitAll /\ [][NextAll]_allVars
  BY PTL DEF SpecAll
<1> QED
  BY <1>1, <1>2, <1>3, <1>4, <1>5, <1>6, SequentialNet, RecoveryNet, PTL
     DEF SequentialProofs!Spec, RecoveryProofs!Spec
===============================================================================
