----------------------------- MODULE MCOrdersBooks -----------------------------
(***************************************************************************)
(* What order-listener does with entries (OrderFlow) and with the books of *)
(* positions (PositionLedger), on small instances.  The two share no       *)
(* state, so Init picks which of them moves and the other one stays at its *)
(* start.  The books are on three instances:                               *)
(*   sequential  one coroutine; a venue whose history is whole-position    *)
(*               and round-trip                                            *)
(*   recovery    closes without fill details; a venue whose history prices *)
(*               the closing trades only, and lags; failing statements     *)
(*   stop        losing closes, some of them refused                       *)
(***************************************************************************)
EXTENDS OrderFlow, TLC

CONSTANTS g1, g2, s1, s2, a1, a2, long

VARIABLES turn, row, ord, strat, exch, truth, pc, closing, debt, sig, after, halting, todo,
          found, swept, booked, owed

\* A value of PositionLedger's Maybe(Int) that is no amount.
ASSUME BooksNullAssumption == NULL \notin Int

Asks(s, d, k) == [strategy |-> s, side |-> d, kind |-> k]
World(v, h, p, b, f, asks, other) ==
  [venue |-> v, hedge |-> h, posts |-> p, busy |-> b, faults |-> f,
   plan |-> (g1 :> asks) @@ (g2 :> other)]

\* Two strategies on both sides of a hedge account, with posts that are repeated; one
\* strategy against itself, switched off meanwhile; two that collide on one-way accounts.
FourWorlds ==
  {World("blofin", TRUE, 2, FALSE, 1, Asks(s1, "long", "market"), Asks(s2, "short", "limit")),
   World("blofin", FALSE, 1, TRUE, 1, Asks(s1, "long", "market"), Asks(s1, "short", "market")),
   World("hyperliquid", FALSE, 1, FALSE, 2, Asks(s1, "long", "market"), Asks(s2, "short", "limit")),
   World("binance", FALSE, 1, FALSE, 1, Asks(s1, "long", "limit"), Asks(s2, "long", "market"))}

LossGain == {-4, 5}

Sequential == INSTANCE PositionLedger WITH
  Agents <- {a1}, LastRow <- 1, Legs <- {long}, MaxSize <- 3, Gains <- LossGain,
  OpenFee <- 1, CloseFee <- 1, FeeScope <- "round_trip", Responses <- {"reported"},
  PartialTriggers <- FALSE, HistoryMayLag <- FALSE, DbMayFail <- FALSE,
  MayRestart <- FALSE, StartCapital <- 100, MaxDrawdown <- 50, job <- closing

Recovery == INSTANCE PositionLedger WITH
  Agents <- {a1, a2}, LastRow <- 1, Legs <- {long}, MaxSize <- 1, Gains <- LossGain,
  OpenFee <- 1, CloseFee <- 1, FeeScope <- "close_only",
  Responses <- {"reported", "silent"}, PartialTriggers <- FALSE,
  HistoryMayLag <- TRUE, DbMayFail <- TRUE, MayRestart <- FALSE,
  StartCapital <- 100, MaxDrawdown <- 50, job <- closing

Stop == INSTANCE PositionLedger WITH
  Agents <- {a1, a2}, LastRow <- 2, Legs <- {long}, MaxSize <- 1, Gains <- LossGain,
  OpenFee <- 1, CloseFee <- 1, FeeScope <- "round_trip",
  Responses <- {"reported", "refused"}, PartialTriggers <- TRUE,
  HistoryMayLag <- FALSE, DbMayFail <- FALSE, MayRestart <- FALSE,
  StartCapital <- 10, MaxDrawdown <- 50, job <- closing

bookVars == <<row, ord, strat, exch, truth, pc, closing, debt, sig, after, halting, todo,
              found, swept, booked, owed>>
allVars  == <<turn, vars, bookVars>>

AtRest == Init /\ world.busy

InitAll ==
  \/ turn = "orders" /\ Init /\ Sequential!Init
  \/ turn = "sequential" /\ Sequential!Init /\ AtRest
  \/ turn = "recovery" /\ Recovery!Init /\ AtRest
  \/ turn = "stop" /\ Stop!Init /\ AtRest

NextAll ==
  \/ turn = "orders" /\ Next /\ UNCHANGED <<turn, bookVars>>
  \/ turn = "sequential" /\ Sequential!Next /\ UNCHANGED <<turn, vars>>
  \/ turn = "recovery" /\ Recovery!Next /\ UNCHANGED <<turn, vars>>
  \/ turn = "stop" /\ Stop!Next /\ UNCHANGED <<turn, vars>>

\* The fairness of the two modules' FairSpecs, each for what moves.
TaskRuns(k)      == turn = "orders" /\ TaskStep(k) /\ UNCHANGED <<turn, bookVars>>
JobRuns(k)       == turn = "orders" /\ JobStep(k) /\ UNCHANGED <<turn, bookVars>>
StopContinues(a) == turn = "stop" /\ Stop!Continue(a) /\ UNCHANGED <<turn, vars>>

SpecAll ==
  /\ InitAll /\ [][NextAll]_allVars
  /\ \A k \in Orders : WF_allVars(TaskRuns(k)) /\ WF_allVars(JobRuns(k))
  /\ \A a \in {a1, a2} : WF_allVars(StopContinues(a))

\* PositionLedger's RealizedIsNet, on the two instances where a row's books are not
\* split between closers that overlap: a closed position shows what the exchange made of
\* it, whatever the history's fees cover.
RealizedIsNet ==
  /\ turn = "sequential" => Sequential!RealizedIsNet
  /\ turn = "recovery" => Recovery!RealizedIsNet

\* PositionLedger's BreachStops: check_and_stop_strategy's drawdown stop always lands.
BreachStops ==
  turn = "stop" /\ Stop!Breached /\ strat.enabled ~> ~strat.enabled \/ ~Stop!Breached
===============================================================================
