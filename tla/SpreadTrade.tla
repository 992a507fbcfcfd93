------------------------------ MODULE SpreadTrade ------------------------------
(***************************************************************************)
(* Cross-venue spread trades in one coin: order-executor's execute_plan,   *)
(* close_spread and watcher, and the monitor of ai-signal-generator that   *)
(* arms plans and asks for the unwinding.                                  *)
(*                                                                         *)
(* Two venues fill two legs with no transaction between them.  Every       *)
(* request is a coroutine of its own: confirmations by the operator, and   *)
(* closes asked for by the operator, the watcher or the monitor.  Each     *)
(* await (a query, an order, a close) is a step.                           *)
(***************************************************************************)
EXTENDS Integers, FiniteSets

CONSTANTS
  Confirms,      \* concurrent execute_plan requests
  Closers,       \* concurrent close_spread requests
  LastPlan,      \* plans that may be armed (serial ids)
  MaxConfirms,   \* confirmations the operator gives
  Size,          \* lots of one leg
  PartialFills,  \* may a venue fill fewer lots and call the order filled?
  MayLose,       \* answers that may be lost after the venue acted: "order", "close"
  DbMayFail,     \* may an UPDATE or INSERT fail?
  MaxRestarts,   \* times the executor may be restarted
  NULL

Plans     == 1..LastPlan
Positions == 1..MaxConfirms
Legs      == {"short", "long"}

ASSUME PlanAssumption    == LastPlan \in Nat
ASSUME ConfirmAssumption == MaxConfirms \in Nat
ASSUME SizeAssumption    == Size \in Nat \ {0}
ASSUME FaultAssumption   ==
  MayLose \subseteq {"order", "close"} /\ PartialFills \in BOOLEAN /\ DbMayFail \in BOOLEAN
ASSUME RestartAssumption == MaxRestarts \in Nat
ASSUME NullAssumption    == NULL \notin Int

VARIABLES
  plan,       \* spread_plans.status, by plan
  band,       \* where the mark is against the plan's abort prices
  position,   \* spread_positions: status and plan
  lots,       \* what the venues hold, per leg
  exec,       \* per confirmation: where it is, its plan, tries
  close,      \* per close: where it is, its position (NULL: by coin), reason, outcome so far
  monitor,    \* where the monitor's cycle for the coin is
  regime,     \* the coin's stored state: "hot" or "cool"
  alarms,     \* spread.leg_failure notifications
  confirmed, restarts,
  pending     \* history: lots moved by a request that has not recorded its outcome

vars == <<plan, band, position, lots, exec, close, monitor, regime, alarms, confirmed,
          restarts, pending>>
venues  == <<lots, pending>>
planner == <<band, monitor, regime>>
bounds  == <<confirmed, restarts>>

-------------------------------------------------------------------------------
NotPlacing == [at |-> "idle", plan |-> NULL, tries |-> 0]
NotClosing == [at |-> "idle", position |-> NULL, reason |-> "manual", ok |-> TRUE]
Settled    == [l \in Legs |-> 0]

Init ==
  /\ plan = [p \in Plans |-> "none"] /\ band = [p \in Plans |-> "within"]
  /\ position = [q \in Positions |-> [status |-> "none", plan |-> NULL]]
  /\ lots = [l \in Legs |-> 0]
  /\ exec = [c \in Confirms |-> NotPlacing] /\ close = [k \in Closers |-> NotClosing]
  /\ monitor = "idle" /\ regime = "cool"
  /\ alarms = 0 /\ confirmed = 0 /\ restarts = 0
  /\ pending = Settled

IsOpen(q) == position[q].status = "open"
Open      == {q \in Positions : IsOpen(q)}

\* What a venue makes of n lots: some fill, none, or some with the answer lost.
Answers(n, may_lose) ==
  {a \in [fill: 0..n, ok: BOOLEAN] :
     \/ a.fill > 0 /\ (PartialFills \/ a.fill = n) /\ (a.ok \/ may_lose)
     \/ a.fill = 0 /\ ~a.ok}

OrderAnswers      == Answers(Size, "order" \in MayLose)
CloseAnswers(leg) == Answers(lots[leg], "close" \in MayLose)

Move(leg, n) ==
  /\ lots' = [lots EXCEPT ![leg] = @ + n]
  /\ pending' = [pending EXCEPT ![leg] = @ + n]

Saves == IF DbMayFail THEN BOOLEAN ELSE {TRUE}

-------------------------------------------------------------------------------
(* The monitor (ai-signal-generator).                                      *)

\* _persist: one transaction expires the coin's armed plan and arms a new one.
Arm(p) ==
  /\ plan[p] = "none" /\ \A q \in Plans : q < p => plan[q] # "none"
  /\ plan' = [q \in Plans |-> IF q = p THEN "armed"
                              ELSE IF plan[q] = "armed" THEN "expired" ELSE plan[q]]

\* The preview endpoint with persist=true.
ArmOnDemand(p) ==
  /\ Arm(p)
  /\ UNCHANGED <<planner, position, venues, exec, close, alarms, bounds>>

\* cool -> hot: arm a plan, if a slot is free and one can be built.
Heat ==
  /\ monitor = "idle" /\ regime = "cool"
  /\ (\E p \in Plans : Arm(p)) \/ UNCHANGED plan
  /\ monitor' = "hot"
  /\ UNCHANGED <<band, regime, position, venues, exec, close, alarms, bounds>>

\* hot -> cool: expire what is armed (a failure is swallowed), ...
Cool(saved) ==
  /\ monitor = "idle" /\ regime = "hot"
  /\ plan' = IF saved
             THEN [p \in Plans |-> IF plan[p] = "armed" THEN "expired" ELSE plan[p]]
             ELSE plan
  /\ monitor' = "unwind"
  /\ UNCHANGED <<band, regime, position, venues, exec, close, alarms, bounds>>

\* ... and ask the executor to unwind, which may not be reached.
Unwind ==
  /\ monitor = "unwind"
  /\ \/ \E k \in Closers :
          /\ close[k].at = "idle"
          /\ close' = [close EXCEPT ![k] = [NotClosing EXCEPT !.at = "select",
                                                              !.reason = "cooled"]]
     \/ UNCHANGED close
  /\ monitor' = "cool"
  /\ UNCHANGED <<plan, band, regime, position, venues, exec, alarms, bounds>>

Store ==
  /\ monitor \in {"hot", "cool"}
  /\ regime' = monitor /\ monitor' = "idle"
  /\ UNCHANGED <<plan, band, position, venues, exec, close, alarms, bounds>>

\* The monitor's service restarts, or Redis refuses the new state.
MonitorFails ==
  /\ monitor # "idle" /\ monitor' = "idle"
  /\ UNCHANGED <<plan, band, regime, position, venues, exec, close, alarms, bounds>>

\* The market.
MarkMoves(p, where) ==
  /\ plan[p] # "none" /\ band[p] # where
  /\ band' = [band EXCEPT ![p] = where]
  /\ UNCHANGED <<plan, monitor, regime, position, venues, exec, close, alarms, bounds>>

-------------------------------------------------------------------------------
(* execute_plan.                                                           *)

\* Faulty variant: the bound is one too high.
FourTries == 4

LegTries      == 2
RollbackTries == 3

\* Faulty variant: only a failed plan is refused.
ConfirmableUnlessFailed(p) == plan[p] \in {"armed", "executed"}

Confirmable(p) == plan[p] = "armed"

Confirm(c, p) ==
  /\ exec[c].at = "idle" /\ confirmed < MaxConfirms /\ Confirmable(p)
  /\ exec' = [exec EXCEPT ![c] = [NotPlacing EXCEPT !.at = "armed", !.plan = p]]
  /\ confirmed' = confirmed + 1
  /\ UNCHANGED <<plan, planner, position, venues, close, alarms, restarts>>

\* No second open position for the coin; and the accounts, marks and sizes must be there.
Check(c, usable) ==
  /\ exec[c].at = "armed"
  /\ exec' = [exec EXCEPT ![c] = IF usable /\ Open = {}
                                 THEN [@ EXCEPT !.at = "short"] ELSE NotPlacing]
  /\ UNCHANGED <<plan, planner, position, venues, close, alarms, bounds>>

\* _place_leg: an answer other than success is tried again once.
AfterLeg(e, ok) ==
  IF ok THEN [e EXCEPT !.at = IF e.at = "short" THEN "long" ELSE "record", !.tries = 0]
  ELSE IF e.tries + 1 < LegTries THEN [e EXCEPT !.tries = e.tries + 1]
  ELSE [e EXCEPT !.at = IF e.at = "short" THEN "refused" ELSE "rollback", !.tries = 0]

PlaceLeg(c, leg, answer) ==
  /\ exec[c].at = leg
  /\ Move(leg, answer.fill)
  /\ exec' = [exec EXCEPT ![c] = AfterLeg(exec[c], answer.ok)]
  /\ UNCHANGED <<plan, planner, position, close, alarms, bounds>>

\* The short leg is flattened whole, in up to three tries.
Rollback(c, answer) ==
  LET e == exec[c] IN
  /\ e.at = "rollback"
  /\ Move("short", -answer.fill)
  /\ exec' = [exec EXCEPT ![c] =
        IF answer.ok \/ e.tries + 1 = RollbackTries THEN [e EXCEPT !.at = "undone"]
        ELSE [e EXCEPT !.tries = e.tries + 1]]
  /\ UNCHANGED <<plan, planner, position, close, alarms, bounds>>

\* Only a failed long leg is worth an alarm, rolled back or not.
MarkFailed(c, saved) ==
  LET e == exec[c] IN
  /\ e.at \in {"refused", "undone"}
  /\ plan' = IF saved THEN [plan EXCEPT ![e.plan] = "failed"] ELSE plan
  /\ exec' = [exec EXCEPT ![c] = IF saved /\ e.at = "undone" THEN [e EXCEPT !.at = "alarm"]
                                 ELSE NotPlacing]
  /\ pending' = Settled
  /\ UNCHANGED <<planner, position, lots, close, alarms, bounds>>

\* Faulty variant: a failed INSERT does not end the request.
AfterRecordAnyway(e, stored) == [e EXCEPT !.at = "mark"]

AfterRecord(e, stored) == IF stored THEN [e EXCEPT !.at = "mark"] ELSE NotPlacing

\* The position's row; the unique index refuses a second open one for the coin.
Record(c, q, saved) ==
  LET e == exec[c]  stored == saved /\ Open = {} IN
  /\ e.at = "record"
  /\ position[q].status = "none" /\ \A r \in Positions : r < q => position[r].status # "none"
  /\ position' = IF stored
                 THEN [position EXCEPT ![q] = [status |-> "open", plan |-> e.plan]]
                 ELSE position
  /\ exec' = [exec EXCEPT ![c] = AfterRecord(e, stored)]
  /\ pending' = Settled
  /\ UNCHANGED <<plan, planner, lots, close, alarms, bounds>>

MarkExecuted(c, saved) ==
  LET e == exec[c] IN
  /\ e.at = "mark"
  /\ plan' = IF saved THEN [plan EXCEPT ![e.plan] = "executed"] ELSE plan
  /\ exec' = [exec EXCEPT ![c] = NotPlacing]
  /\ UNCHANGED <<planner, position, venues, close, alarms, bounds>>

RaiseAlarm(c) ==
  /\ exec[c].at = "alarm"
  /\ alarms' = alarms + 1
  /\ exec' = [exec EXCEPT ![c] = NotPlacing]
  /\ UNCHANGED <<plan, planner, position, venues, close, bounds>>

-------------------------------------------------------------------------------
(* close_spread and the watcher.                                           *)

ManualClose(k, q) ==
  /\ close[k].at = "idle" /\ position[q].status # "none"
  /\ close' = [close EXCEPT ![k] = [NotClosing EXCEPT !.at = "select", !.position = q]]
  /\ UNCHANGED <<plan, planner, position, venues, exec, alarms, bounds>>

\* Faulty variant: only the upper abort price is watched.
BreachedAbove(q) == band[position[q].plan] = "above"

Breached(q) == band[position[q].plan] # "within"

\* The watcher closes one position at a time.
Watch(k, q) ==
  /\ close[k].at = "idle"
  /\ \A other \in Closers : close[other].at = "idle" \/ close[other].reason # "abort"
  /\ IsOpen(q) /\ Breached(q)
  /\ close' = [close EXCEPT ![k] = [NotClosing EXCEPT !.at = "select", !.position = q,
                                                      !.reason = "abort"]]
  /\ UNCHANGED <<plan, planner, position, venues, exec, alarms, bounds>>

Select(k) ==
  LET d == close[k] IN
  /\ d.at = "select"
  /\ \/ \E q \in Open :
          /\ d.position \in {q, NULL}
          /\ close' = [close EXCEPT ![k] = [d EXCEPT !.at = "short", !.position = q]]
     \/ /\ \A q \in Open : d.position \notin {q, NULL}
        /\ close' = [close EXCEPT ![k] = NotClosing]
  /\ UNCHANGED <<plan, planner, position, venues, exec, alarms, bounds>>

\* Faulty variant: the second answer hides the first.
StillOkLast(d, answer) == answer.ok

StillOk(d, answer) == d.ok /\ answer.ok

\* A leg that fails does not keep the other from being tried.
CloseLeg(k, leg, answer) ==
  LET d == close[k] IN
  /\ d.at = leg
  /\ Move(leg, -answer.fill)
  /\ close' = [close EXCEPT ![k] = [d EXCEPT !.at = IF leg = "short" THEN "long" ELSE "write",
                                             !.ok = StillOk(d, answer)]]
  /\ UNCHANGED <<plan, planner, position, exec, alarms, bounds>>

Outcome(d) ==
  IF ~d.ok THEN "close_failed" ELSE IF d.reason = "abort" THEN "aborted" ELSE "closed"

\* The UPDATE names the row only by its id: whatever it is by now is overwritten.
WriteOutcome(k, saved) ==
  LET d == close[k] IN
  /\ d.at = "write"
  /\ position' = IF saved THEN [position EXCEPT ![d.position].status = Outcome(d)] ELSE position
  /\ close' = [close EXCEPT ![k] = IF saved /\ ~d.ok THEN [d EXCEPT !.at = "alarm"]
                                   ELSE NotClosing]
  /\ pending' = Settled
  /\ UNCHANGED <<plan, planner, lots, exec, alarms, bounds>>

RaiseCloseAlarm(k) ==
  /\ close[k].at = "alarm"
  /\ alarms' = alarms + 1
  /\ close' = [close EXCEPT ![k] = NotClosing]
  /\ UNCHANGED <<plan, planner, position, venues, exec, bounds>>

\* Requests that were under way are gone; what they placed is not.
Restart ==
  /\ restarts < MaxRestarts
  /\ restarts' = restarts + 1
  /\ exec' = [c \in Confirms |-> NotPlacing] /\ close' = [k \in Closers |-> NotClosing]
  /\ pending' = Settled
  /\ UNCHANGED <<plan, planner, position, lots, alarms, confirmed>>

-------------------------------------------------------------------------------
MonitorStep ==
  \/ \E p \in Plans : ArmOnDemand(p)
  \/ Heat \/ (\E saved \in Saves : Cool(saved)) \/ Unwind \/ Store \/ MonitorFails

ExecStep(c) ==
  \/ \E usable \in BOOLEAN : Check(c, usable)
  \/ \E leg \in Legs, answer \in OrderAnswers : PlaceLeg(c, leg, answer)
  \/ \E answer \in CloseAnswers("short") : Rollback(c, answer)
  \/ \E saved \in Saves : MarkFailed(c, saved) \/ MarkExecuted(c, saved)
  \/ \E q \in Positions, saved \in Saves : Record(c, q, saved)
  \/ RaiseAlarm(c)

CloseStep(k) ==
  \/ Select(k)
  \/ \E leg \in Legs : \E answer \in CloseAnswers(leg) : CloseLeg(k, leg, answer)
  \/ \E saved \in Saves : WriteOutcome(k, saved)
  \/ RaiseCloseAlarm(k)

Next ==
  \/ MonitorStep
  \/ \E p \in Plans, where \in {"above", "within", "below"} : MarkMoves(p, where)
  \/ \E c \in Confirms : ExecStep(c) \/ \E p \in Plans : Confirm(c, p)
  \/ \E k \in Closers : CloseStep(k) \/ \E q \in Positions : ManualClose(k, q) \/ Watch(k, q)
  \/ Restart

Spec == Init /\ [][Next]_vars

\* The watcher's loop survives anything and comes back every minute, a request goes on
\* once started, and a database that is asked again and again answers in the end.
FairSpec ==
  /\ Spec
  /\ \A k \in Closers : WF_vars(CloseStep(k)) /\ SF_vars(WriteOutcome(k, TRUE))
  /\ \A q \in Positions : SF_vars(\E k \in Closers : Watch(k, q))

-------------------------------------------------------------------------------
(* Properties.                                                             *)

Stage   == {"idle", "armed", "short", "long", "record", "mark", "rollback", "undone",
            "refused", "alarm"}
Placing == [at: Stage, plan: Plans \cup {NULL}, tries: 0..2]
Closing == [at: {"idle", "select", "short", "long", "write", "alarm"},
            position: Positions \cup {NULL}, reason: {"manual", "cooled", "abort"},
            ok: BOOLEAN]
Row     == [status: {"none", "open", "closed", "aborted", "close_failed"},
            plan: Plans \cup {NULL}]

\* Every variable holds a value of its kind; no leg goes below flat, and no retry loop
\* makes more attempts than it should.
TypeOK ==
  /\ plan \in [Plans -> {"none", "armed", "executed", "expired", "failed"}]
  /\ band \in [Plans -> {"above", "within", "below"}]
  /\ position \in [Positions -> Row] /\ lots \in [Legs -> Nat]
  /\ exec \in [Confirms -> Placing] /\ close \in [Closers -> Closing]
  /\ monitor \in {"idle", "hot", "unwind", "cool"} /\ regime \in {"hot", "cool"}
  /\ alarms \in Nat /\ confirmed \in 0..MaxConfirms /\ restarts \in 0..MaxRestarts
  /\ pending \in [Legs -> Int]

\* A row of a plan that is marked executed exists: the mark is never ahead of the record.
ExecutedIsRecorded ==
  \A p \in Plans : plan[p] = "executed" => \E q \in Positions : position[q].plan = p

\* A plan makes at most one position, however often it is confirmed, when one confirmation
\* follows the other (overlapping ones read the plan's status before either writes it).
OneEpisode ==
  \A q, r \in Positions : position[q].plan = position[r].plan /\ position[q].plan # NULL => q = r

\* A position whose mark stays beyond an abort price does not stay open.
AbortsBeyondBand ==
  \A q \in Positions :
    <>[](IsOpen(q) => band[position[q].plan] # "within") => <>[](~IsOpen(q))

Owed ==
  Cardinality({c \in Confirms : exec[c].at = "alarm"}) +
  Cardinality({k \in Closers : close[k].at = "alarm"})

Pair == INSTANCE TwoLegTrade WITH
  legs   <- [l \in Legs |-> lots[l] - pending[l]],
  open   <- Open # {},
  alarms <- alarms + Owed

\* "with rollback (if the second leg fails, the first is immediately flattened; if the
\* rollback itself fails, a critical notification ...)": seen at the moments its requests
\* record their outcome, the pair is entered and left whole, or an alarm is raised.
WholeOrAlarmed == Pair!Spec

================================================================================
