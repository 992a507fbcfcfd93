--------------------------- MODULE SpreadTradeProofs ---------------------------
(***************************************************************************)
(* Types of SpreadTrade for every instance, that a plan marked executed    *)
(* has its row, and that with one confirmation and one close at a time     *)
(* the two legs behave as the transaction TwoLegTrade.                     *)
(***************************************************************************)
EXTENDS SpreadTrade, FiniteSetTheorems, TLAPS

-------------------------------------------------------------------------------
(* Operators.                                                              *)

\* An answer fills at most what was asked.
LEMMA AnswersFill ==
  ASSUME NEW n \in Nat, NEW may_lose, NEW a \in Answers(n, may_lose)
  PROVE  a.fill \in 0..n /\ a.fill \in Nat /\ a.fill <= n /\ a.ok \in BOOLEAN
BY DEF Answers

\* Without partial fills and lost answers a success is the whole and a failure is nothing.
LEMMA WholeFill ==
  ASSUME ~PartialFills, NEW n \in Nat, NEW lossy, NEW a \in Answers(n, lossy)
  PROVE  /\ a.ok => a.fill = n /\ n > 0
         /\ ~a.ok => a.fill = 0 \/ (lossy /\ a.fill = n)
BY DEF Answers

\* Moving a request on, or counting a try, keeps the rest of it.
LEMMA SetAt ==
  ASSUME NEW e \in Placing, NEW tries \in 0..2, NEW at \in Stage
  PROVE  /\ [e EXCEPT !.at = at] \in Placing /\ [e EXCEPT !.at = at].plan = e.plan
         /\ [e EXCEPT !.tries = tries] \in Placing /\ [e EXCEPT !.tries = tries].plan = e.plan
         /\ [e EXCEPT !.at = at, !.tries = tries] \in Placing
         /\ [e EXCEPT !.at = at, !.tries = tries].plan = e.plan
         /\ [e EXCEPT !.at = at].at = at /\ [e EXCEPT !.tries = tries].at = e.at
         /\ [e EXCEPT !.at = at, !.tries = tries].at = at
BY DEF Placing

\* What the answer to a leg makes of a request, and where it leads.
LEMMA AfterLegIsPlacing ==
  ASSUME NEW e \in Placing, NEW ok
  PROVE  /\ AfterLeg(e, ok) \in Placing /\ AfterLeg(e, ok).plan = e.plan
         /\ ok /\ e.at = "short" => AfterLeg(e, ok).at = "long"
         /\ ok /\ e.at # "short" => AfterLeg(e, ok).at = "record"
         /\ ~ok /\ e.at = "short" => AfterLeg(e, ok).at \in {"short", "refused"}
         /\ ~ok /\ e.at # "short" => AfterLeg(e, ok).at \in {e.at, "rollback"}
<1>0. 0 \in 0..2 OBVIOUS
<1>1. CASE ok
  <2> DEFINE at == IF e.at = "short" THEN "long" ELSE "record"
  <2>1. AfterLeg(e, ok) = [e EXCEPT !.at = at, !.tries = 0] BY <1>1 DEF AfterLeg
  <2>2. (e.at = "short" /\ at = "long") \/ (e.at # "short" /\ at = "record") OBVIOUS
  <2> HIDE DEF at
  <2>3. at \in Stage BY <2>2 DEF Stage
  <2> DEFINE f == [e EXCEPT !.at = at, !.tries = 0]
  <2>4. f \in Placing /\ f.plan = e.plan /\ f.at = at BY ZenonT(60), <1>0, <2>3, SetAt
  <2>5. AfterLeg(e, ok) = f BY <2>1
  <2> HIDE DEF f
  <2> QED BY <1>1, <2>2, <2>4, <2>5
<1>2. CASE ~ok /\ e.tries + 1 < LegTries
  <2> DEFINE n == e.tries + 1
  <2>1. AfterLeg(e, ok) = [e EXCEPT !.tries = n] BY <1>2 DEF AfterLeg
  <2>2. n \in 0..2 BY <1>2 DEF LegTries, Placing
  <2> HIDE DEF n
  <2>3. "idle" \in Stage BY DEF Stage
  <2> DEFINE f == [e EXCEPT !.tries = n]
  <2>4. f \in Placing /\ f.plan = e.plan /\ f.at = e.at BY <2>2, <2>3, SetAt
  <2>5. AfterLeg(e, ok) = f BY <2>1
  <2> HIDE DEF f
  <2> QED BY <1>2, <2>4, <2>5
<1>3. CASE ~ok /\ ~(e.tries + 1 < LegTries)
  <2> DEFINE at == IF e.at = "short" THEN "refused" ELSE "rollback"
  <2>1. AfterLeg(e, ok) = [e EXCEPT !.at = at, !.tries = 0] BY <1>3 DEF AfterLeg
  <2>2. (e.at = "short" /\ at = "refused") \/ (e.at # "short" /\ at = "rollback") OBVIOUS
  <2> HIDE DEF at
  <2>3. at \in Stage BY <2>2 DEF Stage
  <2> DEFINE f == [e EXCEPT !.at = at, !.tries = 0]
  <2>4. f \in Placing /\ f.plan = e.plan /\ f.at = at BY ZenonT(60), <1>0, <2>3, SetAt
  <2>5. AfterLeg(e, ok) = f BY <2>1
  <2> HIDE DEF f
  <2> QED BY <1>3, <2>2, <2>4, <2>5
<1> QED BY <1>1, <1>2, <1>3

LEMMA ConfirmedIsPlacing ==
  ASSUME NEW e \in Placing, NEW p \in Plans
  PROVE  [e EXCEPT !.at = "armed", !.plan = p] \in Placing
BY DEF Placing, Stage

LEMMA IdleIsPlacing == NotPlacing \in Placing
BY DEF NotPlacing, Placing, Stage

LEMMA IdleIsClosing == NotClosing \in Closing
BY DEF NotClosing, Closing

\* The row a close writes.
LEMMA OutcomeIsStatus ==
  ASSUME NEW d \in Closing
  PROVE  Outcome(d) \in {"closed", "aborted", "close_failed"}
BY DEF Outcome

\* Moving a close on.
LEMMA SetClose ==
  ASSUME NEW d \in Closing, NEW q \in Positions,
         NEW at \in {"idle", "select", "short", "long", "write", "alarm"}
  PROVE  /\ [d EXCEPT !.at = at] \in Closing
         /\ [d EXCEPT !.at = at, !.position = q] \in Closing
         /\ \A ok \in BOOLEAN : [d EXCEPT !.at = at, !.ok = ok] \in Closing
BY DEF Closing

\* A move of lots that a venue answered leaves no leg below flat.
LEMMA MoveKeepsType ==
  ASSUME lots \in [Legs -> Nat], pending \in [Legs -> Int],
         NEW leg \in Legs, NEW n \in Int, lots[leg] + n \in Nat, Move(leg, n)
  PROVE  lots' \in [Legs -> Nat] /\ pending' \in [Legs -> Int]
BY DEF Move

LEMMA SettledIsMap == Settled \in [Legs -> Int]
BY DEF Settled

-------------------------------------------------------------------------------
(* Types.                                                                  *)

LEMMA TypeInit == Init => TypeOK
<1> SUFFICES ASSUME Init PROVE TypeOK OBVIOUS
<1>1. [status |-> "none", plan |-> NULL] \in Row BY DEF Row
<1>2. position \in [Positions -> Row] BY <1>1 DEF Init
<1>3. exec \in [Confirms -> Placing] /\ close \in [Closers -> Closing]
  BY IdleIsPlacing, IdleIsClosing DEF Init
<1>4. 0 \in 0..MaxConfirms /\ 0 \in 0..MaxRestarts
  BY ConfirmAssumption, RestartAssumption
<1> QED BY <1>2, <1>3, <1>4, SettledIsMap DEF Init, TypeOK

LEMMA TypeMonitor == ASSUME TypeOK, MonitorStep PROVE TypeOK'
<1> USE DEF TypeOK, planner, venues, bounds
<1>1. ASSUME NEW p \in Plans, ArmOnDemand(p) PROVE TypeOK'
  BY <1>1 DEF ArmOnDemand, Arm
<1>2. ASSUME Heat PROVE TypeOK' BY <1>2 DEF Heat, Arm
<1>3. ASSUME NEW saved \in Saves, Cool(saved) PROVE TypeOK' BY <1>3 DEF Cool
<1>4. ASSUME Unwind PROVE TypeOK'
  <2> DEFINE d == [NotClosing EXCEPT !.at = "select", !.reason = "cooled"]
  <2>1. d \in Closing BY DEF NotClosing, Closing
  <2> HIDE DEF d
  <2>2. close' = close \/ \E k \in Closers : close' = [close EXCEPT ![k] = d]
    BY <1>4 DEF Unwind, d
  <2>3. close' \in [Closers -> Closing] BY <2>1, <2>2
  <2> QED BY <1>4, <2>3 DEF Unwind
<1>5. ASSUME Store PROVE TypeOK' BY <1>5 DEF Store
<1>6. ASSUME MonitorFails PROVE TypeOK' BY <1>6 DEF MonitorFails
<1> QED BY <1>1, <1>2, <1>3, <1>4, <1>5, <1>6 DEF MonitorStep

LEMMA TypeExec ==
  ASSUME TypeOK, NEW c \in Confirms, ExecStep(c) \/ \E p \in Plans : Confirm(c, p)
  PROVE  TypeOK'
<1> DEFINE e == exec[c]
<1>0. e \in Placing BY DEF TypeOK
<1> USE DEF TypeOK, planner, venues, bounds
<1>a. ASSUME NEW f \in Placing, exec' = [exec EXCEPT ![c] = f]
      PROVE  exec' \in [Confirms -> Placing]
  BY <1>a
<1>b. "short" \in Stage /\ "mark" \in Stage /\ "undone" \in Stage /\ "alarm" \in Stage
  BY DEF Stage
<1>c. 0 \in 0..2 OBVIOUS
<1>1. ASSUME NEW p \in Plans, Confirm(c, p) PROVE TypeOK'
  <2>1. [NotPlacing EXCEPT !.at = "armed", !.plan = p] \in Placing
    BY IdleIsPlacing, ConfirmedIsPlacing
  <2>2. exec' \in [Confirms -> Placing] BY <1>1, <1>a, <2>1 DEF Confirm
  <2>3. confirmed' \in 0..MaxConfirms
    <3>1. confirmed \in 0..MaxConfirms /\ confirmed < MaxConfirms /\ confirmed' = confirmed + 1
      BY <1>1 DEF Confirm
    <3> QED BY ONLY <3>1, ConfirmAssumption
  <2> QED BY <1>1, <2>2, <2>3 DEF Confirm
<1>2. ASSUME NEW usable \in BOOLEAN, Check(c, usable) PROVE TypeOK'
  <2>1. [e EXCEPT !.at = "short"] \in Placing BY <1>0, <1>b, <1>c, SetAt
  <2>2. exec' = [exec EXCEPT ![c] = [e EXCEPT !.at = "short"]]
        \/ exec' = [exec EXCEPT ![c] = NotPlacing]
    BY <1>2 DEF Check
  <2>3. exec' \in [Confirms -> Placing] BY <1>a, <2>1, <2>2, IdleIsPlacing
  <2> QED BY <1>2, <2>3 DEF Check
<1>3. ASSUME NEW leg \in Legs, NEW answer \in OrderAnswers, PlaceLeg(c, leg, answer)
      PROVE  TypeOK'
  <2>1. answer.fill \in Nat BY SizeAssumption, AnswersFill DEF OrderAnswers
  <2>2. lots' \in [Legs -> Nat] /\ pending' \in [Legs -> Int]
    BY <1>3, <2>1, MoveKeepsType DEF PlaceLeg
  <2>3. exec' \in [Confirms -> Placing]
    BY <1>0, <1>3, <1>a, AfterLegIsPlacing DEF PlaceLeg
  <2> QED BY <1>3, <2>2, <2>3 DEF PlaceLeg
<1>4. ASSUME NEW answer \in CloseAnswers("short"), Rollback(c, answer) PROVE TypeOK'
  <2>1. "short" \in Legs /\ lots["short"] \in Nat BY DEF Legs
  <2>2. answer.fill \in Nat /\ answer.fill <= lots["short"]
    BY <2>1, AnswersFill DEF CloseAnswers
  <2>3. lots' \in [Legs -> Nat] /\ pending' \in [Legs -> Int]
    BY <1>4, <2>1, <2>2, MoveKeepsType DEF Rollback
  <2>4. [e EXCEPT !.at = "undone"] \in Placing BY <1>0, <1>b, <1>c, SetAt
  <2>5. exec' = [exec EXCEPT ![c] = [e EXCEPT !.at = "undone"]]
        \/ (e.tries + 1 # 3 /\ exec' = [exec EXCEPT ![c] = [e EXCEPT !.tries = e.tries + 1]])
    BY <1>4 DEF Rollback, RollbackTries
  <2>6. exec' \in [Confirms -> Placing]
    <3>1. CASE exec' = [exec EXCEPT ![c] = [e EXCEPT !.at = "undone"]]
      BY <1>a, <2>4, <3>1
    <3>2. CASE e.tries + 1 # 3 /\ exec' = [exec EXCEPT ![c] = [e EXCEPT !.tries = e.tries + 1]]
      <4> DEFINE n == e.tries + 1
      <4>1. n \in 0..2 BY <1>0, <3>2 DEF Placing
      <4> HIDE DEF n
      <4>2. [e EXCEPT !.tries = n] \in Placing BY <1>0, <1>b, <4>1, SetAt
      <4> QED BY <1>a, <3>2, <4>2 DEF n
    <3> QED BY <2>5, <3>1, <3>2
  <2> QED BY <1>4, <2>3, <2>6 DEF Rollback
<1>5. ASSUME NEW saved \in Saves, MarkFailed(c, saved) PROVE TypeOK'
  <2>1. [e EXCEPT !.at = "alarm"] \in Placing BY <1>0, <1>b, <1>c, SetAt
  <2>2. exec' = [exec EXCEPT ![c] = [e EXCEPT !.at = "alarm"]]
        \/ exec' = [exec EXCEPT ![c] = NotPlacing]
    BY <1>5 DEF MarkFailed
  <2>3. exec' \in [Confirms -> Placing] BY <1>a, <2>1, <2>2, IdleIsPlacing
  <2> QED BY <1>5, <2>3, SettledIsMap DEF MarkFailed
<1>6. ASSUME NEW saved \in Saves, MarkExecuted(c, saved) PROVE TypeOK'
  <2>1. exec' \in [Confirms -> Placing] BY <1>6, <1>a, IdleIsPlacing DEF MarkExecuted
  <2> QED BY <1>6, <2>1 DEF MarkExecuted
<1>7. ASSUME NEW q \in Positions, NEW saved \in Saves, Record(c, q, saved) PROVE TypeOK'
  <2>1. [e EXCEPT !.at = "mark"] \in Placing BY <1>0, <1>b, <1>c, SetAt
  <2>2. exec' = [exec EXCEPT ![c] = [e EXCEPT !.at = "mark"]]
        \/ exec' = [exec EXCEPT ![c] = NotPlacing]
    BY <1>7 DEF Record, AfterRecord
  <2>3. exec' \in [Confirms -> Placing] BY <1>a, <2>1, <2>2, IdleIsPlacing
  <2>4. [status |-> "open", plan |-> e.plan] \in Row BY <1>0 DEF Row, Placing
  <2>5. position' \in [Positions -> Row] BY <1>7, <2>4 DEF Record
  <2> QED BY <1>7, <2>3, <2>5, SettledIsMap DEF Record
<1>8. ASSUME RaiseAlarm(c) PROVE TypeOK'
  <2>1. exec' \in [Confirms -> Placing] BY <1>8, <1>a, IdleIsPlacing DEF RaiseAlarm
  <2> QED BY <1>8, <2>1 DEF RaiseAlarm
<1> QED BY <1>1, <1>2, <1>3, <1>4, <1>5, <1>6, <1>7, <1>8 DEF ExecStep

LEMMA TypeClose ==
  ASSUME TypeOK, NEW k \in Closers,
         CloseStep(k) \/ \E q \in Positions : ManualClose(k, q) \/ Watch(k, q)
  PROVE  TypeOK'
<1> DEFINE d == close[k]
<1>0. d \in Closing BY DEF TypeOK
<1> USE DEF TypeOK, planner, venues, bounds
<1>a. ASSUME NEW f \in Closing, close' = [close EXCEPT ![k] = f]
      PROVE  close' \in [Closers -> Closing]
  BY <1>a
<1>1. ASSUME NEW q \in Positions, ManualClose(k, q) PROVE TypeOK'
  <2>1. [NotClosing EXCEPT !.at = "select", !.position = q] \in Closing
    BY DEF NotClosing, Closing
  <2>2. close' \in [Closers -> Closing] BY <1>1, <1>a, <2>1 DEF ManualClose
  <2> QED BY <1>1, <2>2 DEF ManualClose
<1>2. ASSUME NEW q \in Positions, Watch(k, q) PROVE TypeOK'
  <2>1. [NotClosing EXCEPT !.at = "select", !.position = q, !.reason = "abort"] \in Closing
    BY DEF NotClosing, Closing
  <2>2. close' \in [Closers -> Closing] BY <1>2, <1>a, <2>1 DEF Watch
  <2> QED BY <1>2, <2>2 DEF Watch
<1>3. ASSUME Select(k) PROVE TypeOK'
  <2>1. \/ close' = [close EXCEPT ![k] = NotClosing]
        \/ \E q \in Positions :
              close' = [close EXCEPT ![k] = [d EXCEPT !.at = "short", !.position = q]]
    BY <1>3 DEF Select, Open
  <2>2. \A q \in Positions : [d EXCEPT !.at = "short", !.position = q] \in Closing
    BY <1>0, SetClose
  <2>3. close' \in [Closers -> Closing] BY <1>a, <2>1, <2>2, IdleIsClosing
  <2> QED BY <1>3, <2>3 DEF Select
<1>4. ASSUME NEW leg \in Legs, NEW answer \in CloseAnswers(leg), CloseLeg(k, leg, answer)
      PROVE  TypeOK'
  <2>1. lots[leg] \in Nat OBVIOUS
  <2>2. answer.fill \in Nat /\ answer.fill <= lots[leg] BY <2>1, AnswersFill DEF CloseAnswers
  <2>3. lots' \in [Legs -> Nat] /\ pending' \in [Legs -> Int]
    BY <1>4, <2>1, <2>2, MoveKeepsType DEF CloseLeg
  <2>4. PICK ok \in BOOLEAN : ok = StillOk(d, answer) BY Zenon DEF StillOk
  <2>5. PICK at \in {"long", "write"} : at = IF leg = "short" THEN "long" ELSE "write"
    OBVIOUS
  <2>6. close' = [close EXCEPT ![k] = [d EXCEPT !.at = at, !.ok = ok]]
    BY <1>4, <2>4, <2>5, Zenon DEF CloseLeg
  <2>7. close' \in [Closers -> Closing]
    <3> HIDE DEF d
    <3>1. at \in {"idle", "select", "short", "long", "write", "alarm"} BY <2>5
    <3>2. [d EXCEPT !.at = at, !.ok = ok] \in Closing
      <4>1. CASE Positions = {} BY <1>0, <3>1 DEF Closing
      <4>2. CASE Positions # {} BY <1>0, <3>1, <4>2, SetClose
      <4> QED BY <4>1, <4>2
    <3> QED BY <1>a, <2>6, <3>2
  <2> QED BY <1>4, <2>3, <2>7 DEF CloseLeg
<1>5. ASSUME NEW saved \in Saves, WriteOutcome(k, saved) PROVE TypeOK'
  <2>1. close' = [close EXCEPT ![k] = NotClosing]
        \/ close' = [close EXCEPT ![k] = [d EXCEPT !.at = "alarm"]]
    BY <1>5 DEF WriteOutcome
  <2>2. [d EXCEPT !.at = "alarm"] \in Closing BY <1>0 DEF Closing
  <2>3. close' \in [Closers -> Closing] BY <1>a, <2>1, <2>2, IdleIsClosing
  <2> DEFINE s == Outcome(d)
  <2>4. s \in {"closed", "aborted", "close_failed"} BY <1>0, OutcomeIsStatus
  <2>5. position' = position \/ position' = [position EXCEPT ![d.position].status = s]
    BY <1>5 DEF WriteOutcome
  <2> HIDE DEF s, d
  <2>6. position' \in [Positions -> Row] BY <2>4, <2>5 DEF Row
  <2> QED BY <1>5, <2>3, <2>6, SettledIsMap DEF WriteOutcome
<1>6. ASSUME RaiseCloseAlarm(k) PROVE TypeOK'
  <2>1. close' \in [Closers -> Closing] BY <1>6, <1>a, IdleIsClosing DEF RaiseCloseAlarm
  <2> QED BY <1>6, <2>1 DEF RaiseCloseAlarm
<1> QED BY <1>1, <1>2, <1>3, <1>4, <1>5, <1>6 DEF CloseStep

\* The variables keep their types and no leg goes below flat, for every instance: any
\* number of overlapping confirmations and closes, lost answers, partial fills, failing
\* statements and restarts.
THEOREM TypeCorrect == Spec => []TypeOK
<1>1. TypeOK /\ [Next]_vars => TypeOK'
  <2> SUFFICES ASSUME TypeOK, [Next]_vars PROVE TypeOK' OBVIOUS
  <2>1. ASSUME NEW p \in Plans, NEW where \in {"above", "within", "below"},
               MarkMoves(p, where)
        PROVE  TypeOK'
    BY <2>1 DEF MarkMoves, TypeOK, venues, bounds
  <2>2. CASE Restart
    BY <2>2, IdleIsPlacing, IdleIsClosing, SettledIsMap, RestartAssumption
    DEF Restart, TypeOK, planner
  <2>3. CASE UNCHANGED vars BY <2>3 DEF vars, TypeOK
  <2> QED BY <2>1, <2>2, <2>3, TypeMonitor, TypeExec, TypeClose DEF Next
<1> QED BY <1>1, TypeInit, PTL DEF Spec

-------------------------------------------------------------------------------
(* The mark follows the record.                                            *)

\* A request that goes on to mark its plan has a row of it, and an unused id has no plan.
RecordInv ==
  /\ \A c \in Confirms : exec[c].at = "mark" =>
       \E q \in Positions : position[q].plan = exec[c].plan
  /\ \A c \in Confirms : exec[c].at # "idle" => exec[c].plan \in Plans
  /\ \A q \in Positions : position[q].status = "none" => position[q].plan = NULL

\* No step but Record touches the plan of a row, and that row had none.
LEMMA RecordStep ==
  ASSUME TypeOK, RecordInv, ExecutedIsRecorded, [Next]_vars
  PROVE  RecordInv' /\ ExecutedIsRecorded'
<1> USE DEF planner, venues, bounds
<1>0. /\ position \in [Positions -> Row] /\ exec \in [Confirms -> Placing]
      /\ plan \in [Plans -> {"none", "armed", "executed", "expired", "failed"}]
      /\ close \in [Closers -> Closing]
  BY DEF TypeOK
<1>a. ASSUME position' = position,
             \A c \in Confirms : exec'[c].at = "mark" => exec'[c] = exec[c],
             \A c \in Confirms : exec'[c].at # "idle" => exec'[c].plan \in Plans,
             \A p \in Plans : plan'[p] = "executed" => plan[p] = "executed"
      PROVE  RecordInv' /\ ExecutedIsRecorded'
  BY <1>a DEF RecordInv, ExecutedIsRecorded
<1>1. ASSUME MonitorStep PROVE RecordInv' /\ ExecutedIsRecorded'
  <2>1. position' = position /\ exec' = exec
    BY <1>1 DEF MonitorStep, ArmOnDemand, Heat, Cool, Unwind, Store, MonitorFails
  <2>2. \A p \in Plans : plan'[p] = "executed" => plan[p] = "executed"
    BY <1>0, <1>1 DEF MonitorStep, ArmOnDemand, Arm, Heat, Cool, Unwind, Store, MonitorFails
  <2> QED BY <1>a, <2>1, <2>2 DEF RecordInv
<1>2. ASSUME NEW p \in Plans, NEW where \in {"above", "within", "below"}, MarkMoves(p, where)
      PROVE  RecordInv' /\ ExecutedIsRecorded'
  BY <1>2, <1>a DEF MarkMoves, RecordInv
<1>3. ASSUME NEW c \in Confirms, NEW p \in Plans, Confirm(c, p)
      PROVE  RecordInv' /\ ExecutedIsRecorded'
  <2>1. exec' = [exec EXCEPT ![c] = [NotPlacing EXCEPT !.at = "armed", !.plan = p]]
        /\ position' = position /\ plan' = plan
    BY <1>3 DEF Confirm
  <2>2. [NotPlacing EXCEPT !.at = "armed", !.plan = p].at = "armed"
        /\ [NotPlacing EXCEPT !.at = "armed", !.plan = p].plan = p
    BY DEF NotPlacing
  <2> QED BY <1>0, <1>a, <2>1, <2>2 DEF RecordInv
<1>4. ASSUME NEW c \in Confirms, ExecStep(c) PROVE RecordInv' /\ ExecutedIsRecorded'
  <2> DEFINE e == exec[c]
  <2>0. e \in Placing /\ NotPlacing.at = "idle" BY <1>0 DEF NotPlacing
  <2>a. e.at # "idle" => e.plan \in Plans BY DEF RecordInv
  <2>1. ASSUME NEW f, f.at # "mark", f.at # "idle" => f.plan \in Plans, exec' = [exec EXCEPT ![c] = f],
               position' = position,
               \A p \in Plans : plan'[p] = "executed" => plan[p] = "executed"
        PROVE  RecordInv' /\ ExecutedIsRecorded'
    BY <1>0, <1>a, <2>1 DEF RecordInv
  <2>2. ASSUME NEW usable \in BOOLEAN, Check(c, usable) PROVE RecordInv' /\ ExecutedIsRecorded'
    <3>1. [e EXCEPT !.at = "short"].at = "short" /\ [e EXCEPT !.at = "short"].plan = e.plan
      BY <2>0 DEF Placing
    <3>2. \/ exec' = [exec EXCEPT ![c] = [e EXCEPT !.at = "short"]]
          \/ exec' = [exec EXCEPT ![c] = NotPlacing]
      BY <2>2 DEF Check
    <3>3. e.at = "armed" /\ position' = position /\ plan' = plan BY <2>2 DEF Check
    <3> QED BY <2>0, <2>1, <2>a, <3>1, <3>2, <3>3
  <2>3. ASSUME NEW leg \in Legs, NEW answer \in OrderAnswers, PlaceLeg(c, leg, answer)
        PROVE  RecordInv' /\ ExecutedIsRecorded'
    <3>1. e.at \in Legs /\ position' = position /\ plan' = plan
          /\ exec' = [exec EXCEPT ![c] = AfterLeg(e, answer.ok)]
      BY <2>3 DEF PlaceLeg
    <3> DEFINE f == AfterLeg(e, answer.ok)
    <3> HIDE DEF e
    <3>3. e.at = "short" \/ e.at = "long" BY <3>1 DEF Legs
    <3>2. f.at # "mark" /\ f.plan = e.plan BY ONLY <2>0, <3>3, AfterLegIsPlacing
    <3> QED BY <2>1, <2>a, <3>1, <3>2 DEF Legs
  <2>4. ASSUME NEW answer \in CloseAnswers("short"), Rollback(c, answer)
        PROVE  RecordInv' /\ ExecutedIsRecorded'
    <3>1. \E f : /\ f.at \in {"rollback", "undone"} /\ f.plan = e.plan
                 /\ exec' = [exec EXCEPT ![c] = f]
      <4> DEFINE n == e.tries + 1
      <4>1. exec' = [exec EXCEPT ![c] = [e EXCEPT !.at = "undone"]]
            \/ exec' = [exec EXCEPT ![c] = [e EXCEPT !.tries = n]]
        BY <2>4 DEF Rollback
      <4>2. e.at = "rollback" BY <2>4 DEF Rollback
      <4> HIDE DEF n
      <4>3. /\ [e EXCEPT !.at = "undone"].at = "undone" /\ [e EXCEPT !.tries = n].at = "rollback"
            /\ [e EXCEPT !.at = "undone"].plan = e.plan /\ [e EXCEPT !.tries = n].plan = e.plan
        BY <2>0, <4>2 DEF Placing
      <4> QED BY <4>1, <4>3
    <3>2. e.at # "idle" /\ position' = position /\ plan' = plan BY <2>4 DEF Rollback
    <3> QED BY <2>1, <2>a, <3>1, <3>2
  <2>5. ASSUME NEW saved \in Saves, MarkFailed(c, saved) PROVE RecordInv' /\ ExecutedIsRecorded'
    <3>1. [e EXCEPT !.at = "alarm"].at = "alarm" /\ [e EXCEPT !.at = "alarm"].plan = e.plan
      BY <2>0 DEF Placing
    <3>2. \A p \in Plans : plan'[p] = "executed" => plan[p] = "executed"
      BY <1>0, <2>5 DEF MarkFailed
    <3>3. \/ exec' = [exec EXCEPT ![c] = [e EXCEPT !.at = "alarm"]]
          \/ exec' = [exec EXCEPT ![c] = NotPlacing]
      BY <2>5 DEF MarkFailed
    <3>4. e.at # "idle" /\ position' = position BY <2>5 DEF MarkFailed
    <3> QED BY <2>0, <2>1, <2>a, <3>1, <3>2, <3>3, <3>4
  <2>6. ASSUME NEW saved \in Saves, MarkExecuted(c, saved)
        PROVE  RecordInv' /\ ExecutedIsRecorded'
    <3>1. PICK q \in Positions : position[q].plan = e.plan BY <2>6 DEF RecordInv, MarkExecuted
    <3>2. position' = position /\ exec' = [exec EXCEPT ![c] = NotPlacing]
      BY <2>6 DEF MarkExecuted
    <3>3. \A p \in Plans : plan'[p] = "executed" => plan[p] = "executed" \/ p = e.plan
      BY <1>0, <2>6 DEF MarkExecuted
    <3>4. ExecutedIsRecorded' BY <3>1, <3>2, <3>3 DEF ExecutedIsRecorded
    <3> QED BY <1>0, <2>0, <3>2, <3>4 DEF RecordInv
  <2>7. ASSUME NEW q \in Positions, NEW saved \in Saves, Record(c, q, saved)
        PROVE  RecordInv' /\ ExecutedIsRecorded'
    <3>1. CASE ~(saved /\ Open = {})
      BY <2>0, <2>1, <2>7, <3>1 DEF Record, AfterRecord
    <3>2. CASE saved /\ Open = {}
      <4>1. /\ position' = [position EXCEPT ![q] = [status |-> "open", plan |-> e.plan]]
            /\ exec' = [exec EXCEPT ![c] = [e EXCEPT !.at = "mark"]]
            /\ plan' = plan /\ position[q].plan = NULL
        BY <2>7, <3>2 DEF Record, AfterRecord, RecordInv
      <4>2. position'[q].plan = e.plan /\ position'[q].status = "open"
            /\ \A r \in Positions : r # q => position'[r] = position[r]
        BY <1>0, <4>1
      <4>3. \A p \in Plans \cup {NULL}, r \in Positions :
              position[r].plan = p /\ p # NULL => position'[r].plan = p
        BY <4>1, <4>2
      <4>4. NULL \notin Plans BY NullAssumption DEF Plans
      <4>5. ExecutedIsRecorded' BY <4>1, <4>3, <4>4 DEF ExecutedIsRecorded
      <4>6. [e EXCEPT !.at = "mark"].plan = e.plan BY <2>0 DEF Placing
      <4>7. ASSUME NEW b \in Confirms, exec'[b].at = "mark"
            PROVE  \E r \in Positions : position'[r].plan = exec'[b].plan
        <5>1. CASE b = c BY <1>0, <4>1, <4>2, <4>6, <5>1
        <5>2. CASE b # c
          <6>1. exec'[b] = exec[b] BY <1>0, <4>1, <5>2
          <6>2. exec[b].plan \in Plans BY <4>7, <6>1 DEF RecordInv
          <6> QED BY <4>3, <4>4, <4>7, <6>1, <6>2 DEF RecordInv
        <5> QED BY <5>1, <5>2
      <4>8. \A r \in Positions : position'[r].status = "none" => position'[r].plan = NULL
        BY <4>2 DEF RecordInv
      <4>9. \A b \in Confirms : exec'[b].at # "idle" => exec'[b].plan \in Plans
        BY <1>0, <2>7, <2>a, <4>1, <4>6 DEF Record, RecordInv
      <4> QED BY <4>5, <4>7, <4>8, <4>9 DEF RecordInv
    <3> QED BY <3>1, <3>2
  <2>8. ASSUME RaiseAlarm(c) PROVE RecordInv' /\ ExecutedIsRecorded'
    BY <2>0, <2>1, <2>8 DEF RaiseAlarm
  <2> QED BY <1>4, <2>2, <2>3, <2>4, <2>5, <2>6, <2>7, <2>8 DEF ExecStep
<1>5. ASSUME NEW k \in Closers,
             CloseStep(k) \/ \E q \in Positions : ManualClose(k, q) \/ Watch(k, q)
      PROVE  RecordInv' /\ ExecutedIsRecorded'
  <2>1. exec' = exec /\ plan' = plan
    BY <1>5 DEF CloseStep, Select, CloseLeg, WriteOutcome, RaiseCloseAlarm, ManualClose, Watch
  <2>2. position' = position
        \/ \E q, s : position' = [position EXCEPT ![q].status = s] /\ s # "none"
    <3>1. ASSUME NEW saved \in Saves, WriteOutcome(k, saved) 
          PROVE  position' = position
                 \/ \E q, s : position' = [position EXCEPT ![q].status = s] /\ s # "none"
      <4>1. Outcome(close[k]) # "none" BY DEF Outcome
      <4> QED BY <3>1, <4>1 DEF WriteOutcome
    <3> QED BY <1>5, <3>1 DEF CloseStep, Select, CloseLeg, RaiseCloseAlarm, ManualClose, Watch
  <2>3. \A q \in Positions : /\ position'[q].plan = position[q].plan
                             /\ position'[q].status = "none" => position[q].status = "none"
    BY <1>0, <2>2 DEF Row
  <2> QED BY <2>1, <2>3 DEF RecordInv, ExecutedIsRecorded
<1>6. ASSUME Restart PROVE RecordInv' /\ ExecutedIsRecorded'
  <2>1. position' = position /\ plan' = plan /\ \A c \in Confirms : exec'[c].at = "idle"
    BY <1>6 DEF Restart, NotPlacing
  <2> QED BY <1>a, <2>1
<1>7. ASSUME UNCHANGED vars PROVE RecordInv' /\ ExecutedIsRecorded'
  BY <1>7 DEF vars, RecordInv, ExecutedIsRecorded
<1> QED BY <1>1, <1>2, <1>3, <1>4, <1>5, <1>6, <1>7 DEF Next

\* A plan is marked executed only once its position has a row, with any overlap of
\* requests, failing statements and restarts.
THEOREM ExecutedIsRecordedHolds == Spec => []ExecutedIsRecorded
<1>1. Init => RecordInv /\ ExecutedIsRecorded
  BY DEF Init, RecordInv, ExecutedIsRecorded, NotPlacing
<1>2. TypeOK /\ RecordInv /\ ExecutedIsRecorded /\ [Next]_vars
      => RecordInv' /\ ExecutedIsRecorded'
  BY RecordStep
<1> QED BY <1>1, <1>2, TypeCorrect, PTL DEF Spec

-------------------------------------------------------------------------------
(* One position of a plan, when one confirmation follows the other.        *)

\* The stages at which a request has settled with its plan, or has none.
Past == {"idle", "mark", "alarm"}

\* What keeps a plan from a second position: its row is followed by the mark, and a request
\* that may yet make a row has a plan of which there is none.
EpisodeInv(c) ==
  /\ OneEpisode
  /\ \A q \in Positions : position[q].plan # NULL =>
       /\ plan[position[q].plan] # "none"
       /\ plan[position[q].plan] = "armed" =>
            exec[c].at = "mark" /\ exec[c].plan = position[q].plan
  /\ exec[c].at \notin Past =>
       plan[exec[c].plan] # "none" /\ \A q \in Positions : position[q].plan # exec[c].plan

\* Steps that make no row and finish no mark.
LEMMA EpisodeQuiet ==
  ASSUME NEW c \in Confirms, TypeOK, RecordInv, EpisodeInv(c),
         \A q \in Positions : position'[q].plan = position[q].plan,
         \A p \in Plans : plan[p] # "none" => plan'[p] # "none",
         \A p \in Plans : plan'[p] = "armed" => plan[p] \in {"none", "armed"},
         \/ exec'[c] = exec[c]
         \/ exec'[c].plan = exec[c].plan /\ exec[c].at \notin Past /\ exec'[c].at # "mark"
         \/ exec'[c].at = "idle" /\ exec[c].at # "mark"
  PROVE  EpisodeInv(c)'
<1>1. \A q \in Positions : position[q].plan \in Plans \cup {NULL} BY DEF TypeOK, Row
<1>2. OneEpisode' BY DEF EpisodeInv, OneEpisode
<1>3. ASSUME NEW q \in Positions, position'[q].plan # NULL
      PROVE  /\ plan'[position'[q].plan] # "none"
             /\ plan'[position'[q].plan] = "armed" =>
                  exec'[c].at = "mark" /\ exec'[c].plan = position'[q].plan
  <2> DEFINE p == position[q].plan
  <2>1. p \in Plans /\ plan[p] # "none" /\ position'[q].plan = p
    BY <1>1, <1>3 DEF EpisodeInv
  <2>4. plan[p] = "armed" => exec[c].at = "mark" /\ exec[c].plan = p
    BY <2>1, <1>3 DEF EpisodeInv
  <2> HIDE DEF p
  <2>5. plan'[p] = "armed" => plan[p] = "armed" BY <2>1
  <2>2. plan'[p] = "armed" => exec[c].at = "mark" /\ exec[c].plan = p
    BY <2>4, <2>5
  <2>3. exec[c].at = "mark" => exec'[c] = exec[c] BY DEF Past
  <2> QED BY <2>1, <2>2, <2>3
<1>4. ASSUME exec'[c].at \notin Past
      PROVE  plan'[exec'[c].plan] # "none"
             /\ \A q \in Positions : position'[q].plan # exec'[c].plan
  <2>1. exec'[c].plan = exec[c].plan /\ exec[c].at \notin Past BY <1>4 DEF Past
  <2>2. exec[c].plan \in Plans BY <2>1 DEF RecordInv, Past
  <2> QED BY <2>1, <2>2 DEF EpisodeInv
<1> QED BY <1>2, <1>3, <1>4 DEF EpisodeInv

LEMMA EpisodeExec ==
  ASSUME NEW c \in Confirms, ~DbMayFail, TypeOK, RecordInv, EpisodeInv(c),
         ExecStep(c) \/ \E p \in Plans : Confirm(c, p)
  PROVE  EpisodeInv(c)'
<1> DEFINE e == exec[c]
<1>0. /\ e \in Placing /\ exec \in [Confirms -> Placing] /\ position \in [Positions -> Row]
      /\ plan \in [Plans -> {"none", "armed", "executed", "expired", "failed"}]
      /\ NotPlacing.at = "idle"
  BY DEF TypeOK, NotPlacing
<1>a. e.at # "idle" => e.plan \in Plans BY DEF RecordInv
<1>b. NULL \notin Plans BY NullAssumption DEF Plans
<1> USE DEF planner, venues, bounds
<1>1. ASSUME NEW f, exec' = [exec EXCEPT ![c] = f], position' = position, plan' = plan,
             \/ f.plan = e.plan /\ e.at \notin Past /\ f.at # "mark"
             \/ f.at = "idle" /\ e.at # "mark"
      PROVE  EpisodeInv(c)'
  BY <1>0, <1>1, EpisodeQuiet
<1>2. ASSUME NEW p \in Plans, Confirm(c, p) PROVE EpisodeInv(c)'
  <2>1. /\ exec' = [exec EXCEPT ![c] = [NotPlacing EXCEPT !.at = "armed", !.plan = p]]
        /\ position' = position /\ plan' = plan /\ e.at = "idle" /\ plan[p] = "armed"
    BY <1>2 DEF Confirm, Confirmable
  <2>2. [NotPlacing EXCEPT !.at = "armed", !.plan = p].at = "armed"
        /\ [NotPlacing EXCEPT !.at = "armed", !.plan = p].plan = p
    BY DEF NotPlacing
  <2>3. exec'[c].at = "armed" /\ exec'[c].plan = p BY <1>0, <2>1, <2>2
  <2>4. \A q \in Positions : position[q].plan # NULL => plan[position[q].plan] # "armed"
    BY <2>1 DEF EpisodeInv
  <2>5. \A q \in Positions : position[q].plan # p BY <1>b, <2>1, <2>4
  <2> QED BY <2>1, <2>3, <2>4, <2>5 DEF EpisodeInv, OneEpisode
<1>3. ASSUME NEW usable \in BOOLEAN, Check(c, usable) PROVE EpisodeInv(c)'
  <2>1. [e EXCEPT !.at = "short"].at = "short" /\ [e EXCEPT !.at = "short"].plan = e.plan
    BY <1>0 DEF Placing
  <2>2. \/ exec' = [exec EXCEPT ![c] = [e EXCEPT !.at = "short"]]
        \/ exec' = [exec EXCEPT ![c] = NotPlacing]
    BY <1>3 DEF Check
  <2>3. e.at = "armed" /\ position' = position /\ plan' = plan BY <1>3 DEF Check
  <2> QED BY <1>0, <1>1, <2>1, <2>2, <2>3 DEF Past
<1>4. ASSUME NEW leg \in Legs, NEW answer \in OrderAnswers, PlaceLeg(c, leg, answer)
      PROVE  EpisodeInv(c)'
  <2> DEFINE f == AfterLeg(e, answer.ok)
  <2>1. e.at \in Legs /\ position' = position /\ plan' = plan
        /\ exec' = [exec EXCEPT ![c] = f]
    BY <1>4 DEF PlaceLeg
  <2> HIDE DEF e
  <2>2. e.at = "short" \/ e.at = "long" BY <2>1 DEF Legs
  <2>3. f.at # "mark" /\ f.plan = e.plan BY ONLY <1>0, <2>2, AfterLegIsPlacing
  <2> HIDE DEF f
  <2> QED BY <1>1, <2>1, <2>2, <2>3 DEF Past
<1>5. ASSUME NEW answer \in CloseAnswers("short"), Rollback(c, answer) PROVE EpisodeInv(c)'
  <2> DEFINE n == e.tries + 1
  <2>1. /\ \/ exec' = [exec EXCEPT ![c] = [e EXCEPT !.at = "undone"]]
           \/ exec' = [exec EXCEPT ![c] = [e EXCEPT !.tries = n]]
        /\ e.at = "rollback" /\ position' = position /\ plan' = plan
    BY <1>5 DEF Rollback
  <2> HIDE DEF n
  <2>2. /\ [e EXCEPT !.at = "undone"].at = "undone" /\ [e EXCEPT !.tries = n].at = "rollback"
        /\ [e EXCEPT !.at = "undone"].plan = e.plan /\ [e EXCEPT !.tries = n].plan = e.plan
    BY <1>0, <2>1 DEF Placing
  <2> QED BY <1>1, <2>1, <2>2 DEF Past
<1>6. ASSUME NEW saved \in Saves, MarkFailed(c, saved) PROVE EpisodeInv(c)'
  <2>1. e.at \in {"refused", "undone"} /\ position' = position /\ e.plan \in Plans
        /\ (plan' = plan \/ plan' = [plan EXCEPT ![e.plan] = "failed"])
    BY <1>6, <1>a DEF MarkFailed
  <2>2. [e EXCEPT !.at = "alarm"].at = "alarm" /\ [e EXCEPT !.at = "alarm"].plan = e.plan
    BY <1>0 DEF Placing
  <2>3. \/ exec' = [exec EXCEPT ![c] = [e EXCEPT !.at = "alarm"]]
        \/ exec' = [exec EXCEPT ![c] = NotPlacing]
    BY <1>6 DEF MarkFailed
  <2>4. \/ exec'[c].plan = e.plan /\ exec'[c].at # "mark" 
        \/ exec'[c].at = "idle"
    BY <1>0, <2>2, <2>3
  <2>5. \A p \in Plans : /\ plan[p] # "none" => plan'[p] # "none"
                         /\ plan'[p] = "armed" => plan[p] \in {"none", "armed"}
    BY <1>0, <2>1
  <2> QED BY <2>1, <2>4, <2>5, EpisodeQuiet DEF Past
<1>7. ASSUME NEW saved \in Saves, MarkExecuted(c, saved) PROVE EpisodeInv(c)'
  <2>1. /\ e.at = "mark" /\ position' = position /\ saved /\ e.plan \in Plans
        /\ plan' = [plan EXCEPT ![e.plan] = "executed"]
        /\ exec' = [exec EXCEPT ![c] = NotPlacing]
    BY <1>7, <1>a DEF MarkExecuted, Saves
  <2>2. exec'[c].at = "idle" BY <1>0, <2>1
  <2>3. ASSUME NEW q \in Positions, position[q].plan # NULL
        PROVE  plan'[position[q].plan] \notin {"none", "armed"}
    <3>1. position[q].plan \in Plans BY <1>0, <2>3 DEF Row
    <3>2. plan[position[q].plan] # "none"
          /\ (plan[position[q].plan] = "armed" => position[q].plan = e.plan)
      BY <2>3 DEF EpisodeInv
    <3> QED BY <1>0, <2>1, <3>1, <3>2
  <2> QED BY <2>1, <2>2, <2>3 DEF EpisodeInv, OneEpisode, Past
<1>8. ASSUME NEW q \in Positions, NEW saved \in Saves, Record(c, q, saved)
      PROVE  EpisodeInv(c)'
  <2>1. CASE ~(saved /\ Open = {})
    BY <1>0, <1>1, <1>8, <2>1 DEF Record, AfterRecord
  <2>2. CASE saved /\ Open = {}
    <3>1. /\ position' = [position EXCEPT ![q] = [status |-> "open", plan |-> e.plan]]
          /\ exec' = [exec EXCEPT ![c] = [e EXCEPT !.at = "mark"]]
          /\ plan' = plan /\ position[q].plan = NULL /\ e.at = "record" /\ e.plan \in Plans
      BY <1>8, <1>a, <2>2 DEF Record, AfterRecord, RecordInv
    <3>2. position'[q].plan = e.plan
          /\ \A r \in Positions : r # q => position'[r] = position[r]
      BY <1>0, <3>1
    <3>3. [e EXCEPT !.at = "mark"].at = "mark" /\ [e EXCEPT !.at = "mark"].plan = e.plan
      BY <1>0 DEF Placing
    <3>4. exec'[c].at = "mark" /\ exec'[c].plan = e.plan BY <1>0, <3>1, <3>3
    <3>5. plan[e.plan] # "none" /\ \A r \in Positions : position[r].plan # e.plan
      BY <3>1 DEF EpisodeInv, Past
    <3>6. OneEpisode' BY <3>2, <3>5 DEF EpisodeInv, OneEpisode
    <3>7. \A r \in Positions : position[r].plan # NULL =>
            plan[position[r].plan] \notin {"none", "armed"}
      BY <3>1 DEF EpisodeInv
    <3>8. \A r \in Positions : position'[r].plan # NULL =>
            /\ plan'[position'[r].plan] # "none"
            /\ plan'[position'[r].plan] = "armed" => position'[r].plan = e.plan
      BY <3>1, <3>2, <3>5, <3>7
    <3> QED BY <3>4, <3>6, <3>8 DEF EpisodeInv, Past
  <2> QED BY <2>1, <2>2
<1>9. ASSUME RaiseAlarm(c) PROVE EpisodeInv(c)'
  BY <1>0, <1>1, <1>9 DEF RaiseAlarm
<1> QED BY <1>2, <1>3, <1>4, <1>5, <1>6, <1>7, <1>8, <1>9 DEF ExecStep

LEMMA EpisodeStep ==
  ASSUME NEW c, Confirms = {c}, ~DbMayFail, MaxRestarts = 0,
         TypeOK, RecordInv, EpisodeInv(c), [Next]_vars
  PROVE  EpisodeInv(c)'
<1>0. /\ plan \in [Plans -> {"none", "armed", "executed", "expired", "failed"}]
      /\ position \in [Positions -> Row] /\ close \in [Closers -> Closing]
  BY DEF TypeOK
<1>1. ASSUME MonitorStep PROVE EpisodeInv(c)'
  <2>1. position' = position /\ exec' = exec
    BY <1>1 DEF MonitorStep, ArmOnDemand, Heat, Cool, Unwind, Store, MonitorFails
  <2>2. \A p \in Plans : /\ plan[p] # "none" => plan'[p] # "none"
                         /\ plan'[p] = "armed" => plan[p] \in {"none", "armed"}
    BY <1>0, <1>1 DEF MonitorStep, ArmOnDemand, Arm, Heat, Cool, Unwind, Store, MonitorFails
  <2> QED BY <2>1, <2>2, EpisodeQuiet
<1>2. ASSUME NEW p \in Plans, NEW where \in {"above", "within", "below"}, MarkMoves(p, where)
      PROVE  EpisodeInv(c)'
  BY <1>2, EpisodeQuiet DEF MarkMoves
<1>3. ASSUME NEW b \in Confirms, ExecStep(b) \/ \E p \in Plans : Confirm(b, p)
      PROVE  EpisodeInv(c)'
  BY <1>3, EpisodeExec
<1>4. ASSUME NEW k \in Closers,
             CloseStep(k) \/ \E q \in Positions : ManualClose(k, q) \/ Watch(k, q)
      PROVE  EpisodeInv(c)'
  <2>1. exec' = exec /\ plan' = plan
    BY <1>4 DEF CloseStep, Select, CloseLeg, WriteOutcome, RaiseCloseAlarm, ManualClose, Watch
  <2>2. position' = position
        \/ \E q, s : position' = [position EXCEPT ![q].status = s]
    BY <1>4 DEF CloseStep, Select, CloseLeg, WriteOutcome, RaiseCloseAlarm, ManualClose, Watch
  <2>3. \A q \in Positions : position'[q].plan = position[q].plan BY <1>0, <2>2 DEF Row
  <2> QED BY <2>1, <2>3, EpisodeQuiet
<1>5. ~Restart BY RestartAssumption DEF Restart, TypeOK
<1>6. CASE UNCHANGED vars BY <1>6, EpisodeQuiet DEF vars
<1> QED BY <1>1, <1>2, <1>3, <1>4, <1>5, <1>6 DEF Next

\* With one confirmation at a time, any number of closes, and statements and a process that
\* do not fail between the row and the mark, a plan makes at most one position, however
\* often it is confirmed.
THEOREM EpisodeIsOne ==
  ASSUME NEW c, Confirms = {c}, ~DbMayFail, MaxRestarts = 0
  PROVE  Spec => []OneEpisode
<1>1. Init => EpisodeInv(c) /\ RecordInv /\ ExecutedIsRecorded
  <2> SUFFICES ASSUME Init PROVE EpisodeInv(c) /\ RecordInv /\ ExecutedIsRecorded OBVIOUS
  <2>1. exec[c].at = "idle" /\ \A q \in Positions : position[q].plan = NULL
    BY DEF Init, NotPlacing
  <2>2. EpisodeInv(c) BY <2>1 DEF EpisodeInv, OneEpisode, Past
  <2>3. RecordInv /\ ExecutedIsRecorded
    BY DEF Init, RecordInv, ExecutedIsRecorded, NotPlacing
  <2> QED BY <2>2, <2>3
<1>2. TypeOK /\ RecordInv /\ ExecutedIsRecorded /\ EpisodeInv(c) /\ [Next]_vars
      => RecordInv' /\ ExecutedIsRecorded' /\ EpisodeInv(c)'
  BY RecordStep, EpisodeStep
<1>3. EpisodeInv(c) => OneEpisode BY DEF EpisodeInv
<1> QED BY <1>1, <1>2, <1>3, TypeCorrect, PTL DEF Spec

-------------------------------------------------------------------------------
(* One confirmation and one close at a time, and no lost order answers:    *)
(* the pair behaves as the transaction.                                    *)

Moved(short, long) == pending["short"] = short /\ pending["long"] = long

Entering(e) == e.at \in {"short", "long", "record", "rollback", "refused", "undone"}
Leaving(d)  == d.at \in {"short", "long", "write"}

\* What a confirmation has moved and not recorded, by where it is.
Placed(e) ==
  /\ e.at \in {"short", "refused"} => Moved(0, 0)
  /\ e.at = "long" => Moved(Size, 0)
  /\ e.at = "record" => Moved(Size, Size)
  /\ e.at \in {"rollback", "undone"} =>
       pending["long"] = 0 /\ (pending["short"] = Size \/ lots["short"] = 0)

\* A leg is as it was, or flat.
Whole(leg) == pending[leg] = 0 \/ lots[leg] = 0

\* What a close has moved and not recorded, by where it is.
Unwound(d) ==
  /\ d.at = "short" => Moved(0, 0) /\ d.ok
  /\ d.at = "long" =>
       pending["long"] = 0 /\ Whole("short") /\ (d.ok => lots["short"] = 0)
  /\ d.at = "write" =>
       /\ Whole("short") /\ Whole("long")
       /\ d.ok => lots["short"] = 0 /\ lots["long"] = 0

\* An entry and an exit are never under way together: one needs no open row, the other has one.
PairInv(c, k) ==
  /\ \A q, r \in Open : q = r
  /\ Entering(exec[c]) => Open = {}
  /\ Leaving(close[k]) => close[k].position \in Open
  /\ ~Entering(exec[c]) /\ ~Leaving(close[k]) => Moved(0, 0)
  /\ Placed(exec[c]) /\ Unwound(close[k])
  /\ close[k].at = "select" => close[k].ok

\* Requests of which there is at most one.
LEMMA AtMostOne ==
  ASSUME NEW S, NEW x, S = {x} \/ S = {}
  PROVE  Cardinality(S) = IF x \in S THEN 1 ELSE 0
BY FS_Singleton, FS_EmptySet

Of(at) == IF at = "alarm" THEN 1 ELSE 0

\* The alarms still to be raised are those of the two requests there are.
LEMMA OwedByTwo ==
  ASSUME NEW c, NEW k, Confirms = {c}, Closers = {k}
  PROVE  /\ Owed = Of(exec[c].at) + Of(close[k].at)
         /\ Owed' = Of(exec'[c].at) + Of(close'[k].at)
<1> DEFINE A == {a \in Confirms : exec[a].at = "alarm"}
           B == {b \in Closers : close[b].at = "alarm"}
<1>1. (A = {c} \/ A = {}) /\ (c \in A <=> exec[c].at = "alarm") OBVIOUS
<1>2. (A' = {c} \/ A' = {}) /\ (c \in A' <=> exec'[c].at = "alarm") OBVIOUS
<1>3. (B = {k} \/ B = {}) /\ (k \in B <=> close[k].at = "alarm") OBVIOUS
<1>4. (B' = {k} \/ B' = {}) /\ (k \in B' <=> close'[k].at = "alarm") OBVIOUS
<1>5. Owed = Cardinality(A) + Cardinality(B) /\ Owed' = Cardinality(A') + Cardinality(B')
  BY DEF Owed
<1> HIDE DEF A, B
<1>6. Cardinality(A) = Of(exec[c].at) BY <1>1, AtMostOne DEF Of
<1>7. Cardinality(A') = Of(exec'[c].at) BY <1>2, AtMostOne DEF Of
<1>8. Cardinality(B) = Of(close[k].at) BY <1>3, AtMostOne DEF Of
<1>9. Cardinality(B') = Of(close'[k].at) BY <1>4, AtMostOne DEF Of
<1> QED BY <1>5, <1>6, <1>7, <1>8, <1>9

\* A step that moves nothing, records nothing and owes nothing more or less leaves the pair
\* as it was.
LEMMA PairStutters ==
  ASSUME position' = position, alarms' + Owed' = alarms + Owed,
         \A l \in Legs : lots'[l] - pending'[l] = lots[l] - pending[l]
  PROVE  UNCHANGED Pair!vars
<1>1. Open' = Open BY DEF Open, IsOpen
<1>2. [l \in Legs |-> lots'[l] - pending'[l]] = [l \in Legs |-> lots[l] - pending[l]] OBVIOUS
<1> QED BY <1>1, <1>2 DEF Pair!vars

\* The ways a step can keep PairInv: it touches none of it, ...
LEMMA QuietStep ==
  ASSUME NEW c, NEW k, PairInv(c, k), position' = position, lots' = lots, pending' = pending,
         exec'[c] = exec[c] \/ (~Entering(exec[c]) /\ ~Entering(exec'[c])),
         close'[k] = close[k] \/ (~Leaving(close[k]) /\ ~Leaving(close'[k])),
         close'[k].at = "select" => close'[k].ok
  PROVE  PairInv(c, k)'
<1>1. Open' = Open BY DEF Open, IsOpen
<1> QED BY <1>1 DEF PairInv, Moved, Whole, Placed, Unwound, Entering, Leaving

\* ... an entry goes on, ...
LEMMA EnterStep ==
  ASSUME NEW c, NEW k, PairInv(c, k), position' = position, close' = close,
         Entering(exec[c]), Entering(exec'[c]), Placed(exec[c])'
  PROVE  PairInv(c, k)'
<1>1. Open' = Open BY DEF Open, IsOpen
<1>2. ~Leaving(close[k]) BY DEF PairInv
<1>3. Unwound(close[k])' BY <1>2 DEF Unwound, Leaving
<1> QED BY <1>1, <1>2, <1>3 DEF PairInv, Entering, Leaving

\* ... an exit goes on, ...
LEMMA LeaveStep ==
  ASSUME NEW c, NEW k, PairInv(c, k), position' = position, exec' = exec,
         Leaving(close[k]), Leaving(close'[k]), close'[k].position = close[k].position,
         Unwound(close[k])'
  PROVE  PairInv(c, k)'
<1>1. Open' = Open BY DEF Open, IsOpen
<1>2. ~Entering(exec[c]) BY DEF PairInv
<1>3. Placed(exec[c])' BY <1>2 DEF Placed, Entering
<1> QED BY <1>1, <1>2, <1>3 DEF PairInv, Entering, Leaving

\* ... or one of them ends.
LEMMA EndStep ==
  ASSUME NEW c, NEW k, pending' = Settled, ~Entering(exec'[c]), ~Leaving(close'[k]),
         close'[k].at = "select" => close'[k].ok,
         \A q, r \in Open' : q = r
  PROVE  PairInv(c, k)'
<1>1. Moved(0, 0)' BY DEF Moved, Settled, Legs
<1> QED BY <1>1 DEF PairInv, Placed, Unwound, Entering, Leaving

\* What the pair is worth in the abstract: the lots of finished requests.
LEMMA MoveKeepsPair ==
  ASSUME lots \in [Legs -> Nat], pending \in [Legs -> Int], NEW leg \in Legs, NEW n \in Int,
         Move(leg, n)
  PROVE  /\ \A l \in Legs : lots'[l] - pending'[l] = lots[l] - pending[l]
         /\ lots'[leg] = lots[leg] + n /\ pending'[leg] = pending[leg] + n
         /\ \A l \in Legs : l # leg => lots'[l] = lots[l] /\ pending'[l] = pending[l]
BY DEF Move

\* What every step does: it keeps PairInv, and the pair takes a step of its own or none.
Kept(c, k) == PairInv(c, k)' /\ (Pair!Next \/ UNCHANGED Pair!vars)

OneAtATime(c, k) == Confirms = {c} /\ Closers = {k}

Reliable == ~PartialFills /\ "order" \notin MayLose /\ ~DbMayFail /\ MaxRestarts = 0

\* A step that touches neither entry nor exit and raises no alarm.
LEMMA QuietKept ==
  ASSUME NEW c, NEW k, OneAtATime(c, k), TypeOK, PairInv(c, k),
         position' = position, lots' = lots, pending' = pending, alarms' = alarms,
         \/ exec'[c] = exec[c]
         \/ /\ ~Entering(exec[c]) /\ ~Entering(exec'[c])
            /\ exec[c].at # "alarm" /\ exec'[c].at # "alarm",
         \/ close'[k] = close[k]
         \/ /\ ~Leaving(close[k]) /\ ~Leaving(close'[k])
            /\ close[k].at # "alarm" /\ close'[k].at # "alarm"
            /\ close'[k].at = "select" => close'[k].ok
  PROVE  Kept(c, k)
<1>1. PairInv(c, k)'
  <2>1. close'[k].at = "select" => close'[k].ok BY DEF PairInv
  <2> QED BY <2>1, QuietStep
<1>2. alarms' + Owed' = alarms + Owed BY OwedByTwo DEF OneAtATime, Of
<1>3. \A l \in Legs : lots'[l] - pending'[l] = lots[l] - pending[l] OBVIOUS
<1> QED BY <1>1, <1>2, <1>3, PairStutters DEF Kept

\* A confirmation's leg, and its rollback.
LEMMA PlaceLegKept ==
  ASSUME NEW c, NEW k, OneAtATime(c, k), Reliable, TypeOK, PairInv(c, k),
         NEW leg \in Legs, NEW answer \in OrderAnswers, PlaceLeg(c, leg, answer)
  PROVE  Kept(c, k)
<1> DEFINE e == exec[c]  f == AfterLeg(e, answer.ok)
<1>a. c \in Confirms /\ e \in Placing /\ Size \in Nat \ {0}
      /\ lots \in [Legs -> Nat] /\ pending \in [Legs -> Int]
  BY SizeAssumption DEF OneAtATime, TypeOK
<1>1. e.at = leg /\ Move(leg, answer.fill) /\ exec' = [exec EXCEPT ![c] = f]
      /\ close' = close /\ position' = position /\ alarms' = alarms
  BY DEF PlaceLeg
<1>2. exec'[c] = f BY <1>1, <1>a DEF TypeOK
<1> HIDE DEF e, f
<1>3. /\ answer.ok \in BOOLEAN /\ answer.fill \in Nat
      /\ answer.ok => answer.fill = Size
      /\ ~answer.ok => answer.fill = 0
  BY <1>a, AnswersFill, WholeFill DEF OrderAnswers, Reliable
<1>4. /\ \A l \in Legs : lots'[l] - pending'[l] = lots[l] - pending[l]
      /\ pending'[leg] = pending[leg] + answer.fill
      /\ \A l \in Legs : l # leg => pending'[l] = pending[l]
  BY <1>1, <1>3, <1>a, MoveKeepsPair
<1>5. /\ answer.ok /\ leg = "short" => f.at = "long"
      /\ answer.ok /\ leg = "long" => f.at = "record"
      /\ ~answer.ok /\ leg = "short" => f.at \in {"short", "refused"}
      /\ ~answer.ok /\ leg = "long" => f.at \in {"long", "rollback"}
  <2>1. PICK ok \in BOOLEAN : ok = answer.ok BY <1>3
  <2>2. f = AfterLeg(e, ok) BY <2>1 DEF f
  <2>3. leg = "short" \/ leg = "long" BY DEF Legs
  <2> QED BY <1>1, <1>a, <2>1, <2>2, <2>3, AfterLegIsPlacing
<1>6. Placed(e) BY DEF PairInv, e
<1>7. Placed(exec[c])'
  <2>1. CASE leg = "short"
    <3>1. Moved(0, 0) BY <1>1, <1>6, <2>1 DEF Placed
    <3> QED BY <1>2, <1>3, <1>4, <1>5, <1>a, <2>1, <3>1 DEF Placed, Moved, Legs
  <2>2. CASE leg = "long"
    <3>1. Moved(Size, 0) BY <1>1, <1>6, <2>2 DEF Placed
    <3> QED BY <1>2, <1>3, <1>4, <1>5, <1>a, <2>2, <3>1 DEF Placed, Moved, Legs
  <2> QED BY <2>1, <2>2 DEF Legs
<1>8. Entering(exec[c]) /\ Entering(exec'[c])
  BY <1>1, <1>2, <1>3, <1>5 DEF Entering, Legs, e
<1>9. PairInv(c, k)' BY <1>1, <1>7, <1>8, EnterStep
<1>10. alarms' + Owed' = alarms + Owed
  <2>1. e.at # "alarm" /\ f.at # "alarm" BY <1>1, <1>3, <1>5 DEF Legs
  <2>2. exec[c].at # "alarm" /\ exec'[c].at # "alarm" BY <1>2, <2>1 DEF e
  <2> QED BY <1>1, <2>2, OwedByTwo DEF OneAtATime, Of
<1> QED BY <1>1, <1>4, <1>9, <1>10, PairStutters DEF Kept

\* Each try of the rollback flattens the short leg or leaves it.
LEMMA RollbackKept ==
  ASSUME NEW c, NEW k, OneAtATime(c, k), Reliable, TypeOK, PairInv(c, k),
         NEW answer \in CloseAnswers("short"), Rollback(c, answer)
  PROVE  Kept(c, k)
<1> DEFINE e == exec[c]  f == exec'[c]
<1>a. c \in Confirms /\ e \in Placing /\ lots["short"] \in Nat /\ "short" \in Legs
      /\ lots \in [Legs -> Nat] /\ pending \in [Legs -> Int]
  BY DEF OneAtATime, TypeOK, Legs
<1>1. e.at = "rollback" /\ Move("short", -answer.fill)
      /\ close' = close /\ position' = position /\ alarms' = alarms
  BY DEF Rollback
<1>2. f.at \in {"rollback", "undone"}
  <2> DEFINE n == e.tries + 1
  <2>1. exec' = [exec EXCEPT ![c] = [e EXCEPT !.at = "undone"]]
        \/ exec' = [exec EXCEPT ![c] = [e EXCEPT !.tries = n]]
    BY DEF Rollback
  <2>2. f = [e EXCEPT !.at = "undone"] \/ f = [e EXCEPT !.tries = n]
    BY <2>1, <1>a DEF TypeOK
  <2> HIDE DEF e, f, n
  <2>3. [e EXCEPT !.at = "undone"].at = "undone" /\ [e EXCEPT !.tries = n].at = "rollback"
    BY <1>1, <1>a DEF Placing
  <2> QED BY <2>2, <2>3
<1> HIDE DEF e, f
<1>3. answer.fill \in Nat /\ (answer.fill = lots["short"] \/ answer.fill = 0)
  BY <1>a, AnswersFill, WholeFill DEF CloseAnswers, Reliable
<1>4. /\ \A l \in Legs : lots'[l] - pending'[l] = lots[l] - pending[l]
      /\ lots'["short"] = lots["short"] - answer.fill
      /\ pending'["short"] = pending["short"] - answer.fill
      /\ pending'["long"] = pending["long"]
  <2>1. -answer.fill \in Int BY <1>3
  <2> QED BY <1>1, <1>3, <1>a, <2>1, MoveKeepsPair DEF Legs
<1>5. pending["long"] = 0 /\ (pending["short"] = Size \/ lots["short"] = 0)
  BY <1>1 DEF PairInv, Placed, e
<1>6. Placed(exec[c])'
  <2>1. pending'["long"] = 0 /\ (pending'["short"] = Size \/ lots'["short"] = 0)
    BY <1>3, <1>4, <1>5, <1>a, SizeAssumption
  <2> QED BY <1>2, <2>1 DEF Placed, f
<1>7. Entering(exec[c]) /\ Entering(exec'[c]) BY <1>1, <1>2 DEF Entering, e, f
<1>8. PairInv(c, k)' BY <1>1, <1>6, <1>7, EnterStep
<1>9. alarms' + Owed' = alarms + Owed BY <1>1, <1>2, OwedByTwo DEF OneAtATime, Of, e, f
<1> QED BY <1>1, <1>4, <1>8, <1>9, PairStutters DEF Kept

\* The statements a confirmation makes, and its alarm.
LEMMA MarkFailedKept ==
  ASSUME NEW c, NEW k, OneAtATime(c, k), Reliable, TypeOK, PairInv(c, k),
         NEW saved \in Saves, MarkFailed(c, saved)
  PROVE  Kept(c, k)
<1> DEFINE e == exec[c]  f == exec'[c]
<1>a. c \in Confirms /\ e \in Placing /\ alarms \in Nat
      /\ lots \in [Legs -> Nat] /\ pending \in [Legs -> Int] /\ Legs = {"short", "long"}
  BY DEF OneAtATime, TypeOK, Legs
<1>1. /\ e.at \in {"refused", "undone"} /\ saved /\ pending' = Settled
      /\ exec' = [exec EXCEPT ![c] = IF saved /\ e.at = "undone" THEN [e EXCEPT !.at = "alarm"]
                                     ELSE NotPlacing]
      /\ position' = position /\ lots' = lots /\ close' = close /\ alarms' = alarms
  BY DEF MarkFailed, Saves, Reliable
<1>2. /\ e.at = "undone" => f.at = "alarm"
      /\ e.at = "refused" => f.at = "idle"
  <2>1. /\ e.at = "undone" => f = [e EXCEPT !.at = "alarm"]
        /\ e.at = "refused" => f = NotPlacing
    BY <1>1, <1>a DEF TypeOK
  <2> HIDE DEF e, f
  <2>2. [e EXCEPT !.at = "alarm"].at = "alarm" /\ NotPlacing.at = "idle"
    BY <1>a DEF Placing, NotPlacing
  <2> QED BY <2>1, <2>2
<1> HIDE DEF e, f
<1>3. Entering(exec[c]) /\ ~Entering(exec'[c]) /\ Open = {} /\ ~Leaving(close[k])
  BY <1>1, <1>2 DEF PairInv, Entering, e, f
<1>4. Open' = Open BY <1>1 DEF Open, IsOpen
<1>5. PairInv(c, k)'
  <2>1. close'[k].at = "select" => close'[k].ok BY <1>1 DEF PairInv
  <2> QED BY <1>1, <1>3, <1>4, <2>1, EndStep
<1>6. pending' = [l \in Legs |-> 0] BY <1>1 DEF Settled
<1>7. CASE e.at = "refused"
  <2>1. Moved(0, 0) BY <1>7 DEF PairInv, Placed, e
  <2>2. \A l \in Legs : lots'[l] - pending'[l] = lots[l] - pending[l]
    BY <1>1, <1>6, <1>a, <2>1 DEF Moved
  <2>3. exec[c].at # "alarm" /\ exec'[c].at # "alarm" BY <1>2, <1>7 DEF e, f
  <2>4. alarms' + Owed' = alarms + Owed BY <1>1, <2>3, OwedByTwo DEF OneAtATime, Of
  <2> QED BY <1>1, <1>5, <2>2, <2>4, PairStutters DEF Kept
<1>8. CASE e.at = "undone"
  <2>1. pending["long"] = 0 /\ (pending["short"] = Size \/ lots["short"] = 0)
    BY <1>8 DEF PairInv, Placed, e
  <2>2. exec[c].at # "alarm" /\ exec'[c].at = "alarm" BY <1>2, <1>8 DEF e, f
  <2>3. alarms' + Owed' = alarms + Owed + 1
    BY <1>1, <1>a, <2>2, OwedByTwo DEF OneAtATime, Of
  <2> DEFINE before == [l \in Legs |-> lots[l] - pending[l]]
             after  == [l \in Legs |-> lots'[l] - pending'[l]]
  <2>4. /\ after["short"] = lots["short"] /\ after["long"] = lots["long"]
        /\ before["short"] = lots["short"] - pending["short"] /\ before["long"] = lots["long"]
        /\ lots["short"] \in Nat /\ lots["long"] \in Nat /\ pending["short"] \in Int
    BY <1>1, <1>6, <1>a, <2>1
  <2>5. before = [l \in Legs |-> before[l]] /\ after = [l \in Legs |-> after[l]] OBVIOUS
  <2> HIDE DEF before, after
  <2>6. \E n \in {0, before["short"] + Size} : after = [before EXCEPT !["short"] = n]
    <3>1. after["short"] \in {0, before["short"] + Size} /\ after["long"] = before["long"]
      BY <2>1, <2>4, SizeAssumption
    <3>2. after = [before EXCEPT !["short"] = after["short"]]
      BY <1>a, <2>5, <3>1
    <3> QED BY <3>1, <3>2
  <2>7. Pair!EnterFails BY <1>3, <1>4, <2>3, <2>6 DEF Pair!EnterFails, before, after
  <2> QED BY <1>5, <2>7 DEF Kept, Pair!Next
<1> QED BY <1>1, <1>7, <1>8

\* The row's INSERT is the entry.
LEMMA RecordKept ==
  ASSUME NEW c, NEW k, OneAtATime(c, k), Reliable, TypeOK, PairInv(c, k),
         NEW q \in Positions, NEW saved \in Saves, Record(c, q, saved)
  PROVE  Kept(c, k)
<1> DEFINE e == exec[c]  f == exec'[c]
<1>a. c \in Confirms /\ e \in Placing /\ position \in [Positions -> Row]
      /\ lots \in [Legs -> Nat] /\ pending \in [Legs -> Int] /\ Legs = {"short", "long"}
  BY DEF OneAtATime, TypeOK, Legs
<1>1. e.at = "record" /\ saved BY DEF Record, Saves, Reliable
<1>2. Open = {} /\ Moved(Size, Size) /\ Entering(exec[c]) /\ ~Leaving(close[k])
  BY <1>1 DEF PairInv, Placed, Entering
<1>3. /\ pending' = Settled /\ lots' = lots /\ close' = close /\ alarms' = alarms
      /\ position' = [position EXCEPT ![q] = [status |-> "open", plan |-> e.plan]]
      /\ exec' = [exec EXCEPT ![c] = [e EXCEPT !.at = "mark"]]
  BY <1>1, <1>2 DEF Record, AfterRecord
<1>4. Open' = {q}
  <2>1. position'[q].status = "open" /\ \A r \in Positions : r # q => position'[r] = position[r]
    BY <1>3, <1>a
  <2> QED BY <1>2, <2>1 DEF Open, IsOpen
<1>5. f.at = "mark"
  <2>1. f = [e EXCEPT !.at = "mark"] BY <1>3, <1>a DEF TypeOK
  <2> HIDE DEF e, f
  <2> QED BY <1>a, <2>1 DEF Placing
<1>6. PairInv(c, k)'
  <2>1. close'[k].at = "select" => close'[k].ok BY <1>3 DEF PairInv
  <2> QED BY <1>2, <1>3, <1>4, <1>5, <2>1, EndStep DEF Entering
<1>7. alarms' + Owed' = alarms + Owed
  <2>1. exec[c].at # "alarm" /\ exec'[c].at # "alarm" BY <1>1, <1>5
  <2> QED BY <1>3, <2>1, OwedByTwo DEF OneAtATime, Of
<1>8. [l \in Legs |-> lots'[l] - pending'[l]]
        = [l \in Legs |-> [m \in Legs |-> lots[m] - pending[m]][l] + Size]
  BY <1>2, <1>3, <1>a, SizeAssumption DEF Settled, Moved
<1>9. Pair!Legs = Legs BY DEF Pair!Legs, Legs
<1>10. Pair!Enter
  <2>1. Open = {} /\ Open' # {} BY <1>2, <1>4
  <2> QED BY <1>7, <1>8, <1>9, <2>1 DEF Pair!Enter
<1> QED BY <1>6, <1>10 DEF Kept, Pair!Next

\* Every step of a confirmation.
LEMMA ExecKept ==
  ASSUME NEW c, NEW k, OneAtATime(c, k), Reliable, TypeOK, PairInv(c, k),
         ExecStep(c) \/ \E p \in Plans : Confirm(c, p)
  PROVE  Kept(c, k)
<1> DEFINE e == exec[c]  f == exec'[c]
<1>a. c \in Confirms /\ e \in Placing /\ NotPlacing.at = "idle"
  BY DEF OneAtATime, TypeOK, NotPlacing
<1>1. ASSUME NEW p \in Plans, Confirm(c, p) PROVE Kept(c, k)
  <2>1. f = [NotPlacing EXCEPT !.at = "armed", !.plan = p] BY <1>1, <1>a DEF Confirm, TypeOK
  <2>2. f.at = "armed" /\ e.at = "idle" BY <1>1, <2>1 DEF Confirm, NotPlacing
  <2>3. /\ position' = position /\ lots' = lots /\ pending' = pending
        /\ alarms' = alarms /\ close' = close
    BY <1>1 DEF Confirm, venues
  <2> QED BY <2>2, <2>3, QuietKept DEF Entering
<1>2. ASSUME NEW usable \in BOOLEAN, Check(c, usable) PROVE Kept(c, k)
  <2>1. /\ position' = position /\ lots' = lots /\ pending' = pending
        /\ alarms' = alarms /\ close' = close /\ e.at = "armed"
    BY <1>2 DEF Check, venues
  <2>2. \/ f = NotPlacing
        \/ f = [e EXCEPT !.at = "short"] /\ Open = {}
    <3>1. \/ exec' = [exec EXCEPT ![c] = NotPlacing]
          \/ exec' = [exec EXCEPT ![c] = [e EXCEPT !.at = "short"]] /\ Open = {}
      BY <1>2 DEF Check
    <3> QED BY <1>a, <3>1 DEF TypeOK
  <2> HIDE DEF e, f
  <2>3. f.at = "idle" \/ (f.at = "short" /\ Open = {})
    <3>1. [e EXCEPT !.at = "short"].at = "short" BY <1>a DEF Placing
    <3> QED BY <1>a, <2>2, <3>1
  <2>4. CASE f.at = "idle" BY <2>1, <2>4, QuietKept DEF Entering, e, f
  <2>5. CASE f.at = "short" /\ Open = {}
    <3>1. Open' = Open BY <2>1 DEF Open, IsOpen
    <3>2. ~Entering(exec[c]) /\ ~Leaving(close[k])
      BY <2>1, <2>5 DEF PairInv, Entering, e
    <3>3. Moved(0, 0) BY <3>2 DEF PairInv
    <3>4. Placed(exec[c])' BY <2>1, <2>5, <3>3 DEF Placed, Moved, f
    <3>5. Unwound(close[k])' BY <2>1, <3>2 DEF Unwound, Leaving
    <3>6. PairInv(c, k)'
      <4>1. Entering(exec'[c]) BY <2>5 DEF Entering, f
      <4> QED BY <2>1, <2>5, <3>1, <3>2, <3>4, <3>5, <4>1 DEF PairInv, Leaving
    <3>7. exec[c].at # "alarm" /\ exec'[c].at # "alarm" BY <2>1, <2>5 DEF e, f
    <3>8. alarms' + Owed' = alarms + Owed BY <2>1, <3>7, OwedByTwo DEF OneAtATime, Of
    <3>9. \A l \in Legs : lots'[l] - pending'[l] = lots[l] - pending[l] BY <2>1
    <3> QED BY <2>1, <3>6, <3>8, <3>9, PairStutters DEF Kept
  <2> QED BY <2>3, <2>4, <2>5
<1>3. ASSUME NEW saved \in Saves, MarkExecuted(c, saved) PROVE Kept(c, k)
  <2>1. /\ position' = position /\ lots' = lots /\ pending' = pending
        /\ alarms' = alarms /\ close' = close /\ e.at = "mark"
        /\ exec' = [exec EXCEPT ![c] = NotPlacing]
    BY <1>3 DEF MarkExecuted, venues
  <2>2. f.at = "idle" BY <1>a, <2>1 DEF TypeOK
  <2> QED BY <2>1, <2>2, QuietKept DEF Entering
<1>4. ASSUME RaiseAlarm(c) PROVE Kept(c, k)
  <2>1. /\ position' = position /\ lots' = lots /\ pending' = pending
        /\ alarms' = alarms + 1 /\ alarms \in Nat /\ close' = close /\ e.at = "alarm"
        /\ exec' = [exec EXCEPT ![c] = NotPlacing]
    BY <1>4 DEF RaiseAlarm, venues, TypeOK
  <2>2. f.at = "idle" BY <1>a, <2>1 DEF TypeOK
  <2>0. close'[k].at = "select" => close'[k].ok BY <2>1 DEF PairInv
  <2>3. PairInv(c, k)' BY <2>0, <2>1, <2>2, QuietStep DEF Entering
  <2>4. alarms' + Owed' = alarms + Owed
    <3>1. Of(exec[c].at) = 1 /\ Of(exec'[c].at) = 0 /\ Of(close[k].at) \in {0, 1}
      BY <2>1, <2>2 DEF Of
    <3> QED BY ONLY <2>1, <3>1, OwedByTwo, OneAtATime(c, k) DEF OneAtATime
  <2>5. \A l \in Legs : lots'[l] - pending'[l] = lots[l] - pending[l] BY <2>1
  <2> QED BY <2>1, <2>3, <2>4, <2>5, PairStutters DEF Kept
<1> QED BY <1>1, <1>2, <1>3, <1>4, PlaceLegKept, RollbackKept, MarkFailedKept, RecordKept
        DEF ExecStep

\* A close's leg.
LEMMA CloseLegKept ==
  ASSUME NEW c, NEW k, OneAtATime(c, k), Reliable, TypeOK, PairInv(c, k),
         NEW leg \in Legs, NEW answer \in CloseAnswers(leg), CloseLeg(k, leg, answer)
  PROVE  Kept(c, k)
<1> DEFINE d == close[k]  g == close'[k]
<1>a. /\ k \in Closers /\ d \in Closing /\ lots[leg] \in Nat
      /\ lots \in [Legs -> Nat] /\ pending \in [Legs -> Int] /\ Legs = {"short", "long"}
  BY DEF OneAtATime, TypeOK, Legs
<1>1. /\ d.at = leg /\ Move(leg, -answer.fill)
      /\ exec' = exec /\ position' = position /\ alarms' = alarms
  BY DEF CloseLeg
<1>2. /\ answer.fill \in Nat /\ answer.ok \in BOOLEAN
      /\ answer.fill = lots[leg] \/ answer.fill = 0
      /\ answer.ok => answer.fill = lots[leg]
  BY <1>a, AnswersFill, WholeFill DEF CloseAnswers, Reliable
<1>3. /\ g.at = IF leg = "short" THEN "long" ELSE "write"
      /\ g.ok => d.ok /\ answer.ok
      /\ g.position = d.position
  <2> DEFINE at == IF leg = "short" THEN "long" ELSE "write"
             ok == StillOk(d, answer)
  <2>1. g = [d EXCEPT !.at = at, !.ok = ok] BY <1>a DEF CloseLeg, TypeOK
  <2>2. ok => d.ok /\ answer.ok BY DEF StillOk
  <2> HIDE DEF d, g, at, ok
  <2>3. g.at = at /\ g.ok = ok /\ g.position = d.position BY <1>a, <2>1 DEF Closing
  <2> QED BY <2>2, <2>3 DEF at
<1> HIDE DEF d, g
<1>4. /\ \A l \in Legs : lots'[l] - pending'[l] = lots[l] - pending[l]
      /\ lots'[leg] = lots[leg] - answer.fill
      /\ pending'[leg] = pending[leg] - answer.fill
      /\ \A l \in Legs : l # leg => lots'[l] = lots[l] /\ pending'[l] = pending[l]
  <2>1. -answer.fill \in Int BY <1>2
  <2> QED BY <1>1, <1>2, <1>a, <2>1, MoveKeepsPair
<1>5. Unwound(d) BY DEF PairInv, d
<1>6. Unwound(close[k])'
  <2>1. CASE leg = "short"
    <3>1. Moved(0, 0) BY <1>1, <1>5, <2>1 DEF Unwound
    <3>2. g.at = "long" BY <1>3, <2>1
    <3>3. pending'["long"] = 0 /\ (pending'["short"] = 0 \/ lots'["short"] = 0)
          /\ (g.ok => lots'["short"] = 0)
      BY <1>2, <1>3, <1>4, <1>a, <2>1, <3>1 DEF Moved
    <3> QED BY <3>2, <3>3 DEF Unwound, Whole, g
  <2>2. CASE leg = "long"
    <3>1. pending["long"] = 0 /\ (pending["short"] = 0 \/ lots["short"] = 0)
          /\ (d.ok => lots["short"] = 0)
      BY <1>1, <1>5, <2>2 DEF Unwound, Whole
    <3>2. g.at = "write" BY <1>3, <2>2
    <3>3. lots'["short"] = lots["short"] /\ pending'["short"] = pending["short"]
      BY <1>4, <1>a, <2>2
    <3>4. (answer.fill = 0 => pending'["long"] = 0)
          /\ (answer.fill = lots["long"] => lots'["long"] = 0)
      <4>1. lots'["long"] = lots["long"] - answer.fill /\ lots["long"] \in Nat
            /\ pending'["long"] = 0 - answer.fill
        BY <1>4, <1>a, <2>2, <3>1
      <4> QED BY ONLY <4>1
    <3>5. pending'["long"] = 0 \/ lots'["long"] = 0 BY <1>2, <2>2, <3>4
    <3>6. g.ok => lots'["short"] = 0 /\ lots'["long"] = 0
      BY <1>2, <1>3, <2>2, <3>1, <3>3, <3>4
    <3> QED BY <3>1, <3>2, <3>3, <3>5, <3>6 DEF Unwound, Whole, g
  <2> QED BY <1>a, <2>1, <2>2
<1>7. Leaving(close[k]) /\ Leaving(close'[k])
  BY <1>1, <1>3, <1>a DEF Leaving, d, g
<1>8. PairInv(c, k)' BY <1>1, <1>3, <1>6, <1>7, LeaveStep DEF d, g
<1>9. alarms' + Owed' = alarms + Owed
  <2>1. close[k].at # "alarm" /\ close'[k].at # "alarm" BY <1>7 DEF Leaving
  <2> QED BY <1>1, <2>1, OwedByTwo DEF OneAtATime, Of
<1> QED BY <1>1, <1>4, <1>8, <1>9, PairStutters DEF Kept

\* The row's UPDATE is the exit.
LEMMA WriteOutcomeKept ==
  ASSUME NEW c, NEW k, OneAtATime(c, k), Reliable, TypeOK, PairInv(c, k),
         NEW saved \in Saves, WriteOutcome(k, saved)
  PROVE  Kept(c, k)
<1> DEFINE d == close[k]  g == close'[k]
<1>a. /\ k \in Closers /\ d \in Closing /\ position \in [Positions -> Row] /\ alarms \in Nat
      /\ lots \in [Legs -> Nat] /\ pending \in [Legs -> Int] /\ Legs = {"short", "long"}
  BY DEF OneAtATime, TypeOK, Legs
<1>1. d.at = "write" /\ saved BY DEF WriteOutcome, Saves, Reliable
<1>2. /\ pending' = Settled /\ lots' = lots /\ exec' = exec /\ alarms' = alarms
      /\ position' = [position EXCEPT ![d.position].status = Outcome(d)]
      /\ close' = [close EXCEPT ![k] = IF ~d.ok THEN [d EXCEPT !.at = "alarm"] ELSE NotClosing]
  BY <1>1 DEF WriteOutcome
<1>3. /\ Leaving(close[k]) /\ d.position \in Open /\ \A q, r \in Open : q = r
      /\ Whole("short") /\ Whole("long")
      /\ d.ok => lots["short"] = 0 /\ lots["long"] = 0
  BY <1>1 DEF PairInv, Unwound, Leaving
<1>4. Open' = {}
  <2>1. Outcome(d) # "open" BY DEF Outcome
  <2>2. d.position \in Positions BY <1>3 DEF Open
  <2>3. position'[d.position].status # "open"
        /\ \A r \in Positions : r # d.position => position'[r] = position[r]
    BY <1>2, <1>a, <2>1, <2>2 DEF Row
  <2> QED BY <1>3, <2>3 DEF Open, IsOpen
<1>5. /\ ~d.ok => g.at = "alarm"
      /\ d.ok => g.at = "idle"
  <2>1. /\ ~d.ok => g = [d EXCEPT !.at = "alarm"]
        /\ d.ok => g = NotClosing
    BY <1>2, <1>a DEF TypeOK
  <2> HIDE DEF d, g
  <2>2. [d EXCEPT !.at = "alarm"].at = "alarm" /\ NotClosing.at = "idle"
    BY <1>a DEF Closing, NotClosing
  <2> QED BY <2>1, <2>2
<1>6. PairInv(c, k)'
  <2>1. ~Entering(exec'[c]) BY <1>2, <1>3 DEF PairInv
  <2>2. ~Leaving(close'[k]) BY <1>5 DEF Leaving
  <2>3. close'[k].at # "select" BY <1>5
  <2> QED BY <1>2, <1>4, <2>1, <2>2, <2>3, EndStep
<1> DEFINE before == [l \in Legs |-> lots[l] - pending[l]]
           after  == [l \in Legs |-> lots'[l] - pending'[l]]
<1>7. \A l \in Legs : after[l] = lots[l] /\ before[l] = lots[l] - pending[l]
                      /\ lots[l] \in Nat /\ pending[l] \in Int
  BY <1>2, <1>a DEF Settled
<1>8. before = [l \in Legs |-> before[l]] /\ after = [l \in Legs |-> after[l]] OBVIOUS
<1>9. Pair!Legs = Legs BY DEF Pair!Legs, Legs
<1>10. Open # {} /\ Open' = {} BY <1>3, <1>4
<1> HIDE DEF before, after
<1>11. CASE d.ok
  <2>1. after = [l \in Legs |-> 0] BY <1>3, <1>7, <1>8, <1>a, <1>11
  <2>2. alarms' + Owed' = alarms + Owed
    <3>1. close[k].at # "alarm" /\ close'[k].at # "alarm" BY <1>1, <1>5, <1>11
    <3> QED BY <1>2, <3>1, OwedByTwo DEF OneAtATime, Of
  <2>3. Pair!Leave BY <1>9, <1>10, <2>1, <2>2 DEF Pair!Leave, after
  <2> QED BY <1>6, <2>3 DEF Kept, Pair!Next
<1>12. CASE ~d.ok
  <2>1. \A l \in Legs : after[l] \in {0, before[l]}
    BY <1>3, <1>7, <1>a DEF Whole
  <2>2. after \in [Legs -> {0, before["short"], before["long"]}]
    BY <1>8, <1>a, <2>1
  <2>3. alarms' + Owed' = (alarms + Owed) + 1
    <3>1. Of(close[k].at) = 0 /\ Of(close'[k].at) = 1 /\ Of(exec[c].at) \in {0, 1}
      BY <1>1, <1>5, <1>12 DEF Of
    <3>2. alarms' = alarms /\ Of(exec'[c].at) = Of(exec[c].at) BY <1>2
    <3> QED BY ONLY <1>a, <3>1, <3>2, OwedByTwo, OneAtATime(c, k) DEF OneAtATime
  <2>4. Pair!LeaveFails BY <1>9, <1>10, <2>1, <2>2, <2>3 DEF Pair!LeaveFails, before, after
  <2> QED BY <1>6, <2>4 DEF Kept, Pair!Next
<1> QED BY <1>11, <1>12

\* Every step of a close.
LEMMA CloseKept ==
  ASSUME NEW c, NEW k, OneAtATime(c, k), Reliable, TypeOK, PairInv(c, k),
         CloseStep(k) \/ \E q \in Positions : ManualClose(k, q) \/ Watch(k, q)
  PROVE  Kept(c, k)
<1> DEFINE d == close[k]  g == close'[k]
<1>a. /\ k \in Closers /\ d \in Closing /\ close \in [Closers -> Closing] /\ alarms \in Nat
      /\ NotClosing.at = "idle"
  BY DEF OneAtATime, TypeOK, NotClosing
<1>1. ASSUME NEW q \in Positions, ManualClose(k, q) \/ Watch(k, q) PROVE Kept(c, k)
  <2>1. /\ position' = position /\ lots' = lots /\ pending' = pending
        /\ alarms' = alarms /\ exec' = exec /\ d.at = "idle"
    BY <1>1 DEF ManualClose, Watch, venues
  <2>2. g.at = "select" /\ g.ok BY ZenonT(60), <1>1, <1>a DEF ManualClose, Watch, NotClosing
  <2> QED BY <2>1, <2>2, QuietKept DEF Leaving
<1>2. ASSUME Select(k) PROVE Kept(c, k)
  <2>1. /\ position' = position /\ lots' = lots /\ pending' = pending
        /\ alarms' = alarms /\ exec' = exec /\ d.at = "select"
    BY <1>2 DEF Select, venues
  <2>2. CASE close' = [close EXCEPT ![k] = NotClosing]
    <3>1. g.at = "idle" BY <1>a, <2>2
    <3> QED BY <2>1, <3>1, QuietKept DEF Leaving
  <2>3. ASSUME NEW q \in Open,
               close' = [close EXCEPT ![k] = [d EXCEPT !.at = "short", !.position = q]]
        PROVE  Kept(c, k)
    <3>1. g = [d EXCEPT !.at = "short", !.position = q] BY <1>a, <2>3
    <3> HIDE DEF d, g
    <3>2. g.at = "short" /\ g.position = q /\ g.ok = d.ok BY <1>a, <3>1 DEF Closing
    <3>3. Open' = Open BY <2>1 DEF Open, IsOpen
    <3>4. ~Leaving(close[k]) /\ ~Entering(exec[c]) BY <2>1 DEF PairInv, Leaving, d
    <3>5. Moved(0, 0) BY <3>4 DEF PairInv
    <3>6. Placed(exec[c])' BY <2>1, <3>4 DEF Placed, Entering
    <3>7. Unwound(close[k])'
      <4>1. d.ok BY <2>1 DEF PairInv, d
      <4> QED BY <2>1, <3>2, <3>5, <4>1 DEF Unwound, Moved, g
    <3>8. PairInv(c, k)'
      <4>1. Leaving(close'[k]) /\ close'[k].position \in Open BY <3>2 DEF Leaving, g
      <4> QED BY <2>1, <3>2, <3>3, <3>4, <3>6, <3>7, <4>1 DEF PairInv, Entering, g
    <3>9. alarms' + Owed' = alarms + Owed
      <4>1. close[k].at # "alarm" /\ close'[k].at # "alarm" BY <2>1, <3>2 DEF d, g
      <4> QED BY <2>1, <4>1, OwedByTwo DEF OneAtATime, Of
    <3>10. \A l \in Legs : lots'[l] - pending'[l] = lots[l] - pending[l] BY <2>1
    <3> QED BY <2>1, <3>8, <3>9, <3>10, PairStutters DEF Kept
  <2> QED BY <1>2, <2>2, <2>3 DEF Select
<1>3. ASSUME RaiseCloseAlarm(k) PROVE Kept(c, k)
  <2>1. /\ position' = position /\ lots' = lots /\ pending' = pending
        /\ alarms' = alarms + 1 /\ exec' = exec /\ d.at = "alarm"
        /\ close' = [close EXCEPT ![k] = NotClosing]
    BY <1>3 DEF RaiseCloseAlarm, venues
  <2>2. g.at = "idle" BY <1>a, <2>1
  <2>3. PairInv(c, k)' BY <2>1, <2>2, QuietStep DEF Leaving
  <2>4. alarms' + Owed' = alarms + Owed
    <3>1. Of(close[k].at) = 1 /\ Of(close'[k].at) = 0 /\ Of(exec[c].at) \in {0, 1}
      BY <2>1, <2>2 DEF Of
    <3>2. alarms' = alarms + 1 /\ Of(exec'[c].at) = Of(exec[c].at) BY <2>1
    <3> QED BY ONLY <1>a, <3>1, <3>2, OwedByTwo, OneAtATime(c, k) DEF OneAtATime
  <2>5. \A l \in Legs : lots'[l] - pending'[l] = lots[l] - pending[l] BY <2>1
  <2> QED BY <2>1, <2>3, <2>4, <2>5, PairStutters DEF Kept
<1> QED BY <1>1, <1>2, <1>3, CloseLegKept, WriteOutcomeKept DEF CloseStep

\* Every step.
LEMMA StepKept ==
  ASSUME NEW c, NEW k, OneAtATime(c, k), Reliable, TypeOK, PairInv(c, k), [Next]_vars
  PROVE  Kept(c, k)
<1>a. close \in [Closers -> Closing] /\ k \in Closers BY DEF TypeOK, OneAtATime
<1>1. ASSUME MonitorStep PROVE Kept(c, k)
  <2>1. /\ position' = position /\ lots' = lots /\ pending' = pending
        /\ alarms' = alarms /\ exec' = exec
    BY <1>1 DEF MonitorStep, ArmOnDemand, Heat, Cool, Unwind, Store, MonitorFails, venues
  <2>2. close' = close
        \/ \E j \in Closers : /\ close[j].at = "idle"
                              /\ close' = [close EXCEPT ![j] =
                                   [NotClosing EXCEPT !.at = "select", !.reason = "cooled"]]
    BY <1>1 DEF MonitorStep, ArmOnDemand, Heat, Cool, Unwind, Store, MonitorFails
  <2>3. LET d == [NotClosing EXCEPT !.at = "select", !.reason = "cooled"]
        IN  d.at = "select" /\ d.ok
    BY DEF NotClosing
  <2>4. close'[k] = close[k]
        \/ (close[k].at = "idle" /\ close'[k].at = "select" /\ close'[k].ok)
    BY <1>a, <2>2, <2>3 DEF OneAtATime
  <2> QED BY <2>1, <2>4, QuietKept DEF Leaving
<1>2. ASSUME UNCHANGED vars \/ \E p \in Plans, where \in {"above", "within", "below"} :
                                 MarkMoves(p, where)
      PROVE  Kept(c, k)
  <2>1. /\ position' = position /\ lots' = lots /\ pending' = pending
        /\ alarms' = alarms /\ exec' = exec /\ close' = close
    BY <1>2 DEF vars, MarkMoves, venues
  <2> QED BY <2>1, QuietKept
<1>3. ~Restart BY RestartAssumption DEF Restart, Reliable, TypeOK
<1>4. ASSUME NEW b \in Confirms, ExecStep(b) \/ \E p \in Plans : Confirm(b, p)
      PROVE  Kept(c, k)
  BY <1>4, ExecKept DEF OneAtATime
<1>5. ASSUME NEW j \in Closers,
             CloseStep(j) \/ \E q \in Positions : ManualClose(j, q) \/ Watch(j, q)
      PROVE  Kept(c, k)
  BY <1>5, CloseKept DEF OneAtATime
<1> QED BY <1>1, <1>2, <1>3, <1>4, <1>5 DEF Next

\* With one confirmation and one close at a time and venues whose order answers arrive, the
\* pair is entered and left whole, or an alarm says that it was not.
THEOREM ImplementsTwoLegTrade ==
  ASSUME NEW c, NEW k, OneAtATime(c, k), Reliable
  PROVE  Spec => WholeOrAlarmed
<1>1. Init => PairInv(c, k) /\ Pair!Init
  <2> SUFFICES ASSUME Init PROVE PairInv(c, k) /\ Pair!Init OBVIOUS
  <2>1. c \in Confirms /\ k \in Closers BY DEF OneAtATime
  <2>2. exec[c].at = "idle" /\ close[k].at = "idle" BY <2>1 DEF Init, NotPlacing, NotClosing
  <2>3. Open = {} BY DEF Init, Open, IsOpen
  <2>4. Moved(0, 0) BY DEF Init, Settled, Moved, Legs
  <2>5. PairInv(c, k) BY <2>2, <2>3, <2>4 DEF PairInv, Placed, Unwound, Entering, Leaving
  <2>6. alarms + Owed = 0
    <3>1. alarms = 0 BY DEF Init
    <3>2. Owed = Of(exec[c].at) + Of(close[k].at) BY OwedByTwo DEF OneAtATime
    <3> QED BY <2>2, <3>1, <3>2 DEF Of
  <2>7. [l \in Legs |-> lots[l] - pending[l]] = [l \in Legs |-> 0] BY DEF Init, Settled
  <2>8. Pair!Legs = Legs BY DEF Pair!Legs, Legs
  <2> QED BY <2>3, <2>5, <2>6, <2>7, <2>8 DEF Pair!Init
<1>2. TypeOK /\ PairInv(c, k) /\ [Next]_vars => PairInv(c, k)' /\ [Pair!Next]_(Pair!vars)
  BY StepKept DEF Kept
<1> QED BY <1>1, <1>2, TypeCorrect, PTL DEF Spec, WholeOrAlarmed, Pair!Spec

================================================================================
