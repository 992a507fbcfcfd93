-------------------------------- MODULE AiCycle --------------------------------
(***************************************************************************)
(* The ai-signal-generator: the decision cycles of one strategy.           *)
(*                                                                         *)
(* Four tasks run cycles: the scheduler's loop, the event watcher, a cycle *)
(* kicked from the dashboard, and the dry manual trigger.  A cycle reads   *)
(* the position, recovers one that the exchange has closed, gathers, asks  *)
(* the model, guards, logs, and only then sends its webhook; every step is *)
(* an await.  Reloads start and stop the loop meanwhile.                   *)
(***************************************************************************)
EXTENDS Integers, Sequences, FiniteSets

CONSTANTS
  Plans,      \* [tasks, alarms, signals, prices, rows, resting, faults, clock, toggles, calls,
              \* fires, market]: what a cycle may see and what may happen
  Cooldown,   \* minutes between two entries
  Quiet,      \* minutes a watcher's trigger stays quiet
  MaxRows,    \* positions ever
  NULL

Tasks == {"loop", "watch", "kick", "manual"}
Reloads == {1, 2}
Entries == {"open_long", "open_short", "place_limit_long", "place_limit_short"}
Limits  == {"place_limit_long", "place_limit_short"}
Closes  == {"close_long", "close_short"}

VARIABLES
  plan,
  now,        \* the clock
  slot,       \* the task whose cycle is in flight: _in_flight
  cycles,     \* task -> its cycle
  loop,       \* where the scheduler's loop is
  registered, \* the scheduler is in app.state.schedulers
  enabled,    \* strategies.enabled
  reloads,    \* the reconciles in flight
  log,        \* ai_signal_log: rows that passed the gate
  alerted,    \* ai_signal_log: the watcher's last row for each of its reasons, 0 for none
  rows,       \* strategy_positions, and whether the exchange has the position
  resting,    \* sides with a limit order on the book
  fired,      \* webhooks that reached the listener
  faults, toggles, calls,
  moves       \* what happened on the exchange and at the listener

service == <<slot, cycles, loop, registered, reloads>>
stored  == <<enabled, log, alerted, rows>>
vars == <<plan, now, service, stored, resting, fired, faults, toggles, calls, moves>>

-------------------------------------------------------------------------------
(* Cycles and positions.                                                   *)

Idle == [at |-> "idle", row |-> 0, resting |-> {}, started |-> 0, signal |-> "none",
         passed |-> FALSE, blind |-> FALSE, logged |-> FALSE, decided |-> 0, reason |-> NULL]
Fresh(why) == [Idle EXCEPT !.at = "read", !.reason = why]
Dry(t) == t = "manual"

Opened(s) == [side |-> s, open |-> TRUE, live |-> TRUE, by |-> NULL, synthetic |-> 0]
OpenRows  == {i \in 1..Len(rows) : rows[i].open}
Latest    == IF OpenRows = {} THEN 0 ELSE CHOOSE i \in OpenRows : \A j \in OpenRows : j <= i
OnExchange == \E i \in 1..Len(rows) : rows[i].live

Fault == faults < plan.faults /\ faults' = faults + 1
Step(t, to) == cycles' = [cycles EXCEPT ![t].at = to]

\* The slot is not looked at: every trigger runs.
AcquireAlways(t, why) == slot' = t /\ cycles' = [cycles EXCEPT ![t] = Fresh(why)]

\* A trigger that arrives while a cycle is in flight is dropped, never queued.
Acquire(t, why) ==
  IF slot = NULL THEN slot' = t /\ cycles' = [cycles EXCEPT ![t] = Fresh(why)]
  ELSE UNCHANGED <<slot, cycles>>

Release(t) ==
  /\ slot' = IF slot = t THEN NULL ELSE slot
  /\ cycles' = [cycles EXCEPT ![t] = Idle]
  /\ loop' = IF t = "loop" /\ loop = "cycle" THEN "plan" ELSE loop

-------------------------------------------------------------------------------
(* The guard.  Prices are whole numbers, the entry is at 100.              *)

Entry == 100  Threshold == 2  Override == 3  MinMove == 1  MinDistance == 1  MinPartial == 200

Ahead(side, x, y) == IF side = "long" THEN x > y ELSE x < y
Apart(x, y) == IF x > y THEN x - y ELSE y - x
SideOf(action) == IF action \in {"open_long", "place_limit_long"} THEN "long" ELSE "short"

Confident(sig) == sig.action \in {"cancel_order", "amend_order"} \/ sig.confidence >= Threshold

Coherent(sig, c) ==
  /\ sig.action \in Entries => c.row = 0
  /\ sig.action \in Closes \cup {"partial_close"} => c.row # 0

\* All entries share one window; a partial close keeps its own.
Group(action) == IF action \in Entries THEN Entries ELSE {action}

Cooled(sig) ==
  sig.action \in Entries \cup {"partial_close", "adjust_stops"} =>
    ~\E r \in log : r.action \in Group(sig.action) /\ r.at >= now - Cooldown

WorthClosing(sig, price) ==
  sig.action \in Closes => (Apart(price, Entry) * 100 >= MinMove * Entry \/ sig.confidence >= Override)

\* Without a position the sides are not checked, only the distance.
StopsFit(sig, c, price) ==
  sig.action = "adjust_stops" =>
    /\ c.row # 0 => /\ Ahead(rows[c.row].side, price, sig.stop)
                    /\ Ahead(rows[c.row].side, price, Entry) => ~Ahead(rows[c.row].side, Entry, sig.stop)
    /\ Apart(sig.stop, price) * 100 >= MinDistance * price

LimitFits(sig, c) == sig.action \in Limits => SideOf(sig.action) \notin c.resting

\* The side of an order that was not read is not checked.
AmendFits(sig, c) ==
  sig.action = "amend_order" => (sig.target \in c.resting => Ahead(sig.target, sig.limit, sig.stop))

\* Hundredths of a per cent; a fraction is read as the percentage it plainly is.
Percent(p) == IF p < 100 THEN p * 100 ELSE p
PartialFits(sig) == sig.action = "partial_close" => Percent(sig.part) >= MinPartial

Passes(sig, c, price, unread) ==
  /\ sig.action \notin {"none", "hold"}
  /\ Confident(sig) /\ Coherent(sig, c)
  /\ unread \/ Cooled(sig)
  /\ WorthClosing(sig, price) /\ StopsFit(sig, c, price)
  /\ LimitFits(sig, c) /\ AmendFits(sig, c) /\ PartialFits(sig)

-------------------------------------------------------------------------------
(* A cycle, await by await.                                                *)

At(t, step) == cycles[t].at = step
Fails(t, step) == At(t, step) /\ Fault /\ Release(t)

\* A cycle of a strategy that is not enabled raises; the manual trigger does not look.
Read(t) ==
  /\ At(t, "read")
  /\ IF ~enabled /\ t # "manual" THEN Release(t)
     ELSE /\ cycles' = [cycles EXCEPT ![t] =
                 [@ EXCEPT !.at = IF Latest # 0 /\ t # "manual" THEN "check" ELSE "gather",
                           !.row = Latest, !.started = now]]
          /\ UNCHANGED <<slot, loop>>
  /\ UNCHANGED <<plan, now, registered, reloads, stored, resting, fired, faults, toggles, calls, moves>>

ReadFails(t) ==
  /\ Fails(t, "read")
  /\ UNCHANGED <<plan, now, registered, reloads, stored, resting, fired, toggles, calls, moves>>

\* "Skipping recovery": live, or the executor did not answer.
Check(t) ==
  /\ At(t, "check")
  /\ \/ Step(t, IF OnExchange THEN "gather" ELSE "history") /\ UNCHANGED faults
     \/ Step(t, "gather") /\ Fault
  /\ UNCHANGED <<plan, now, slot, loop, registered, reloads, stored, resting, fired, toggles, calls, moves>>

\* A history that ends before the position began is stale; none at all is not.
History(t) ==
  /\ At(t, "history")
  /\ \/ Step(t, "write") /\ UNCHANGED faults
     \/ Step(t, "write") /\ Fault
     \/ Step(t, "gather") /\ Fault
  /\ UNCHANGED <<plan, now, slot, loop, registered, reloads, stored, resting, fired, toggles, calls, moves>>

\* The order in a transaction of its own: the row can stay open without it.
RecoverHalf(i) ==
  \/ rows' = [rows EXCEPT ![i].synthetic = @ + 1]
  \/ rows' = [rows EXCEPT ![i] = [@ EXCEPT !.synthetic = @ + 1, !.open = FALSE, !.by = "recovery"]]

\* One transaction: the synthetic order, and the row where it is still open.
Recover(i) ==
  LET row == rows[i] IN
  rows' = [rows EXCEPT ![i] = [row EXCEPT !.synthetic = row.synthetic + 1, !.open = FALSE,
                                          !.by = IF row.open THEN "recovery" ELSE row.by]]

\* "Treat as flat regardless of DB write outcome."
Write(t) ==
  /\ At(t, "write")
  /\ \/ Recover(cycles[t].row) /\ UNCHANGED faults
     \/ Fault /\ UNCHANGED rows
  /\ cycles' = [cycles EXCEPT ![t] = [@ EXCEPT !.at = "gather", !.row = 0]]
  /\ UNCHANGED <<plan, now, slot, loop, registered, reloads, enabled, log, alerted, resting, fired, toggles, calls, moves>>

\* Orders that cannot be fetched read as none.
Gather(t) ==
  /\ At(t, "gather")
  /\ \/ cycles' = [cycles EXCEPT ![t] = [@ EXCEPT !.at = "think", !.resting = resting]] /\ UNCHANGED faults
     \/ cycles' = [cycles EXCEPT ![t] = [@ EXCEPT !.at = "think"]] /\ Fault
  /\ UNCHANGED <<plan, now, slot, loop, registered, reloads, stored, resting, fired, toggles, calls, moves>>

\* A weak range with nothing open or resting holds unasked; an exhausted chain is no signal.
Offered == (IF Len(fired) < plan.fires THEN plan.signals ELSE {})
             \cup {[action |-> "hold"], [action |-> "none"]}

\* A cooldown that cannot be read does not reject.
Think(t) ==
  /\ At(t, "think")
  /\ \E sig \in Offered, price \in plan.prices, unread \in BOOLEAN :
       /\ IF unread THEN Fault ELSE UNCHANGED faults
       /\ cycles' = [cycles EXCEPT ![t] =
            [@ EXCEPT !.at = "log", !.signal = sig.action, !.blind = unread, !.decided = now,
                      !.passed = Passes(sig, cycles[t], price, unread)]]
  /\ UNCHANGED <<plan, now, slot, loop, registered, reloads, stored, resting, fired, toggles, calls, moves>>

ThinkFails(t) ==
  /\ Fails(t, "think")
  /\ UNCHANGED <<plan, now, registered, reloads, stored, resting, fired, toggles, calls, moves>>

Dispatches(t) == cycles[t].passed /\ (cycles[t].signal = "adjust_stops" \/ ~Dry(t))

\* The log row comes before the webhook; one that cannot be written does not stop it.
Log(t) ==
  LET c == cycles[t]
      writes == c.passed /\ c.signal \in Entries \cup {"partial_close", "adjust_stops"} IN
  /\ At(t, "log")
  /\ \E done \in BOOLEAN :
       /\ IF done THEN UNCHANGED faults ELSE Fault
       /\ log' = IF done /\ writes THEN log \cup {[at |-> c.started, action |-> c.signal]} ELSE log
       /\ alerted' = IF done /\ t = "watch" THEN [alerted EXCEPT ![c.reason] = c.started] ELSE alerted
       /\ IF Dispatches(t)
          THEN cycles' = [cycles EXCEPT ![t] = [@ EXCEPT !.at = "fire", !.logged = done]] /\ UNCHANGED <<slot, loop>>
          ELSE Release(t)
  /\ UNCHANGED <<plan, now, registered, reloads, enabled, rows, resting, fired, toggles, calls, moves>>

\* The webhook is lost, or the listener does what it can with it.
Fire(t) ==
  LET c == cycles[t]
      Sent == fired' = Append(fired, [action |-> c.signal, started |-> c.started, decided |-> c.decided,
                                      blind |-> c.blind, logged |-> c.logged]) IN
  /\ At(t, "fire")
  /\ \/ Fault /\ UNCHANGED <<fired, rows, resting>>
     \/ Sent /\ UNCHANGED <<rows, resting, faults>>
     \/ /\ Sent /\ c.signal \in Entries \ Limits /\ Len(rows) < MaxRows
        /\ rows' = Append(rows, Opened(SideOf(c.signal)))
        /\ UNCHANGED <<resting, faults>>
     \/ /\ Sent /\ c.signal \in Limits
        /\ resting' = resting \cup {SideOf(c.signal)}
        /\ UNCHANGED <<rows, faults>>
     \/ /\ Sent /\ c.signal \in Closes /\ rows[c.row].open
        /\ rows' = [rows EXCEPT ![c.row] = [@ EXCEPT !.open = FALSE, !.live = FALSE, !.by = "listener"]]
        /\ UNCHANGED <<resting, faults>>
     \/ /\ Sent /\ c.signal = "cancel_order"
        /\ \E s \in resting : resting' = resting \ {s}
        /\ UNCHANGED <<rows, faults>>
  /\ Release(t)
  /\ UNCHANGED <<plan, now, registered, reloads, enabled, log, alerted, toggles, calls, moves>>

CycleStep(t) ==
  \/ Read(t) \/ Check(t) \/ History(t) \/ Write(t) \/ Gather(t) \/ Think(t) \/ Log(t) \/ Fire(t)

-------------------------------------------------------------------------------
(* The loop, and the other triggers.                                       *)

\* An exception in the interval ends the loop.
LoopPlansOnce ==
  /\ loop = "plan"
  /\ \/ loop' = "asleep" /\ UNCHANGED faults
     \/ loop' = "dead" /\ Fault
  /\ UNCHANGED <<plan, now, slot, cycles, registered, reloads, stored, resting, fired, toggles, calls, moves>>

\* _get_interval reads the database.
LoopPlans ==
  /\ loop = "plan"
  /\ \/ loop' = "asleep" /\ UNCHANGED faults
     \/ loop' = "backoff" /\ Fault
  /\ UNCHANGED <<plan, now, slot, cycles, registered, reloads, stored, resting, fired, toggles, calls, moves>>

LoopRetries ==
  /\ loop = "backoff" /\ loop' = "plan"
  /\ UNCHANGED <<plan, now, slot, cycles, registered, reloads, stored, resting, fired, faults, toggles, calls, moves>>

LoopWakes ==
  /\ loop = "asleep"
  /\ Acquire("loop", NULL)
  /\ loop' = IF slot = NULL THEN "cycle" ELSE "plan"
  /\ UNCHANGED <<plan, now, registered, reloads, stored, resting, fired, faults, toggles, calls, moves>>

Triggers(t, why) ==
  /\ t \in plan.tasks /\ cycles[t].at = "idle"
  /\ Acquire(t, why)
  /\ UNCHANGED <<plan, now, loop, registered, reloads, stored, resting, fired, faults, toggles, moves>>

\* The watcher's conditions, each where the strategy asks for it.  One that cannot be
\* evaluated (no exchange, too few candles, no funding rate, no news) is not met.
NewsBreaks    == plan.alarms \cap {"news_high_impact"}
VolumeSpikes  == plan.alarms \cap {"volume_spike"}
FundingSpikes == plan.alarms \cap {"funding_spike"}
Recent(why)   == alerted[why] # 0 /\ alerted[why] >= now - Quiet

\* One pass of the watcher: the first condition met that has not been logged lately.
Watch ==
  /\ registered
  /\ \E why \in NewsBreaks \cup VolumeSpikes \cup FundingSpikes :
       ~Recent(why) /\ Triggers("watch", why)
  /\ UNCHANGED calls

\* 404 without a scheduler; a task of its own otherwise.
Kick   == registered /\ calls < plan.calls /\ Triggers("kick", NULL) /\ calls' = calls + 1
Manual == calls < plan.calls /\ Triggers("manual", NULL) /\ calls' = calls + 1

-------------------------------------------------------------------------------
(* Reloads: the database first, the registry after the await.              *)

Toggle ==
  /\ toggles < plan.toggles
  /\ toggles' = toggles + 1
  /\ enabled' = ~enabled
  /\ UNCHANGED <<plan, now, service, log, alerted, rows, resting, fired, faults, calls, moves>>

ReloadReads(r) ==
  /\ reloads[r] = "idle" /\ toggles > 0 /\ calls < plan.calls
  /\ calls' = calls + 1
  /\ reloads' = [reloads EXCEPT ![r] = IF enabled THEN "on" ELSE "off"]
  /\ UNCHANGED <<plan, now, slot, cycles, loop, registered, stored, resting, fired, faults, toggles, moves>>

\* Started, interrupted (asleep or backing off), or left alone.
ReloadStarts(r) ==
  /\ reloads[r] = "on"
  /\ reloads' = [reloads EXCEPT ![r] = "idle"]
  /\ registered' = TRUE
  /\ loop' = IF ~registered \/ loop \in {"asleep", "backoff"} THEN "plan" ELSE loop
  /\ UNCHANGED <<plan, now, slot, cycles, stored, resting, fired, faults, toggles, calls, moves>>

ReloadStops(r) ==
  /\ reloads[r] = "off"
  /\ reloads' = [reloads EXCEPT ![r] = IF registered THEN "stopping" ELSE "idle"]
  /\ UNCHANGED <<plan, now, slot, cycles, loop, registered, stored, resting, fired, faults, toggles, calls, moves>>

\* The loop and the watcher are cancelled where they stand, and with them their cycles;
\* a second reload that waited for the same loop finds the entry gone.
Cancelled == {"loop", "watch"}
ReloadStopped ==
  /\ \E r \in Reloads : reloads[r] = "stopping"
  /\ reloads' = [r \in Reloads |-> IF reloads[r] = "stopping" THEN "idle" ELSE reloads[r]]
  /\ registered' = FALSE /\ loop' = "off"
  /\ cycles' = [t \in Tasks |-> IF t \in Cancelled THEN Idle ELSE cycles[t]]
  /\ slot' = IF slot \in Cancelled THEN NULL ELSE slot
  /\ UNCHANGED <<plan, now, stored, resting, fired, faults, toggles, calls, moves>>

\* A restart forgets the cycles; the schedulers start from the database, or not at all.
Restart ==
  /\ Fault
  /\ \E found \in BOOLEAN :
       /\ registered' = (enabled /\ found)
       /\ loop' = IF enabled /\ found THEN "plan" ELSE "off"
  /\ slot' = NULL /\ cycles' = [t \in Tasks |-> Idle]
  /\ reloads' = [r \in Reloads |-> "idle"]
  /\ UNCHANGED <<plan, now, stored, resting, fired, toggles, calls, moves>>

-------------------------------------------------------------------------------
(* What happens around the service.                                        *)

Tick ==
  /\ now < plan.clock /\ now' = now + 1
  /\ UNCHANGED <<plan, service, stored, resting, fired, faults, toggles, calls, moves>>

Moves == moves < plan.market /\ moves' = moves + 1

\* A stop or a target on the exchange, where a side has one position for all its rows.
ExchangeCloses(s) ==
  /\ Moves
  /\ \E i \in 1..Len(rows) : rows[i].side = s /\ rows[i].live
  /\ rows' = [i \in 1..Len(rows) |-> [rows[i] EXCEPT !.live = @ /\ rows[i].side # s]]
  /\ UNCHANGED <<plan, now, service, enabled, log, alerted, resting, fired, faults, toggles, calls>>

\* order-listener books what it found closed.
ListenerCloses(i) ==
  /\ Moves
  /\ rows[i].open /\ ~rows[i].live
  /\ rows' = [rows EXCEPT ![i] = [@ EXCEPT !.open = FALSE, !.by = "listener"]]
  /\ UNCHANGED <<plan, now, service, enabled, log, alerted, resting, fired, faults, toggles, calls>>

LimitFills(s) ==
  /\ Moves
  /\ s \in resting /\ Len(rows) < MaxRows
  /\ resting' = resting \ {s}
  /\ rows' = Append(rows, Opened(s))
  /\ UNCHANGED <<plan, now, service, enabled, log, alerted, fired, faults, toggles, calls>>

-------------------------------------------------------------------------------
InitFor(p) ==
  /\ plan = p /\ now = 1
  /\ slot = NULL /\ cycles = [t \in Tasks |-> Idle]
  /\ loop = "plan" /\ registered = TRUE /\ enabled = TRUE
  /\ reloads = [r \in Reloads |-> "idle"]
  /\ log = {} /\ alerted = [why \in p.alarms |-> 0] /\ rows = p.rows /\ resting = p.resting
  /\ fired = <<>> /\ faults = 0 /\ toggles = 0 /\ calls = 0 /\ moves = 0
Init == \E p \in Plans : InitFor(p)

Next ==
  \/ \E t \in Tasks :
       \/ Read(t) \/ ReadFails(t) \/ Check(t) \/ History(t) \/ Write(t)
       \/ Gather(t) \/ Think(t) \/ ThinkFails(t) \/ Log(t) \/ Fire(t)
  \/ LoopPlans \/ LoopRetries \/ LoopWakes
  \/ Watch \/ Kick \/ Manual
  \/ Toggle \/ ReloadStopped \/ Restart \/ Tick
  \/ \E r \in Reloads : ReloadReads(r) \/ ReloadStarts(r) \/ ReloadStops(r)
  \/ \E i \in 1..Len(rows) : ListenerCloses(i)
  \/ \E s \in {"long", "short"} : ExchangeCloses(s) \/ LimitFills(s)

Spec == Init /\ [][Next]_vars

\* The event loop gets to every task; calls, the market and the faults come as they like.
Fairness ==
  /\ WF_vars(LoopPlans) /\ WF_vars(LoopRetries) /\ WF_vars(LoopWakes)
  /\ \A t \in Tasks : WF_vars(CycleStep(t))
  /\ WF_vars(ReloadStopped) /\ \A r \in Reloads : WF_vars(ReloadStarts(r) \/ ReloadStops(r))
FairSpec == Spec /\ Fairness

-------------------------------------------------------------------------------
(* Properties.                                                             *)

\* The record of a cycle and the slot it holds agree.
TypeOK ==
  /\ slot \in Tasks \cup {NULL}
  /\ \A t \in Tasks : cycles[t].at # "idle" => slot = t
  /\ loop \in {"off", "plan", "asleep", "cycle", "backoff"}
  /\ registered \in BOOLEAN /\ enabled \in BOOLEAN
  /\ \A i \in 1..Len(rows) : rows[i].open = (rows[i].by = NULL)

\* Two entries never come within one cooldown, whichever tasks decided them and
\* whichever of the four actions they are: the slot keeps the second cycle from
\* deciding before the first is logged.  Only a log row that was not written or
\* could not be read lets one through.
OneEntryPerWindow ==
  \A j \in 1..Len(fired), i \in 1..Len(fired) :
    (i < j /\ {fired[i].action, fired[j].action} \subseteq Entries /\ fired[i].logged /\ ~fired[j].blind)
      => fired[j].decided > fired[i].started + Cooldown

\* A recovery writes at most one synthetic order for a position, however it races with
\* order-listener, with a stop of its scheduler or with a restart.
RecoveredOnce == \A i \in 1..Len(rows) : rows[i].synthetic <= 1

-------------------------------------------------------------------------------
(* Why the two hold: at most one cycle is under way, and only it recovers, *)
(* logs and fires.  A row that is open has no synthetic order, and the row *)
(* a recovery is at has none yet; an entry on its way was decided after    *)
(* the window of every one that fired with its log row, and its own row is *)
(* in the log before it goes out.                                          *)

Sides  == {"long", "short"}
Stages == {"idle", "read", "check", "history", "write", "gather", "think", "log", "fire"}
Actions == Entries \cup Closes \cup
           {"partial_close", "adjust_stops", "cancel_order", "amend_order", "hold", "none"}
Alarms  == {"news_high_impact", "volume_spike", "funding_spike"}
CycleTypes ==
  /\ plan \in Plans /\ now \in Nat
  /\ cycles \in [Tasks -> [at : Stages, row : Nat, resting : SUBSET Sides, started : Nat,
                          signal : Actions, passed : BOOLEAN, blind : BOOLEAN, logged : BOOLEAN,
                          decided : Nat, reason : Alarms \cup {NULL}]]
  /\ log \in SUBSET [at : Nat, action : Actions]
  /\ rows \in Seq([side : Sides, open : BOOLEAN, live : BOOLEAN,
                  by : {NULL, "listener", "recovery"}, synthetic : Nat])
  /\ resting \in SUBSET Sides
  /\ fired \in Seq([action : Actions, started : Nat, decided : Nat, blind : BOOLEAN, logged : BOOLEAN])

OneInHand == \A t \in Tasks : cycles[t].at # "idle" => slot = t

Counts(f) == f.action \in Entries /\ f.logged
InLog(c)  == [at |-> c.started, action |-> c.signal] \in log
FiredIsLogged ==
  \A i \in 1..Len(fired) :
    Counts(fired[i]) => [at |-> fired[i].started, action |-> fired[i].action] \in log

CycleFits(c) ==
  /\ c.at \in {"check", "history", "write"} => c.row \in 1..Len(rows) /\ rows[c.row].synthetic = 0
  /\ c.at \in {"log", "fire"} /\ c.passed /\ ~c.blind /\ c.signal \in Entries =>
       \A i \in 1..Len(fired) : Counts(fired[i]) => c.decided > fired[i].started + Cooldown
  /\ c.at = "fire" => c.passed /\ (c.logged /\ c.signal \in Entries => InLog(c))

Unwritten == \A i \in 1..Len(rows) : rows[i].open => rows[i].synthetic = 0

CycleInv ==
  /\ CycleTypes /\ OneInHand /\ FiredIsLogged /\ Unwritten
  /\ \A t \in Tasks : CycleFits(cycles[t])
  /\ OneEntryPerWindow /\ RecoveredOnce

-------------------------------------------------------------------------------
Unrecorded(i) == i <= Len(rows) /\ rows[i].open /\ ~rows[i].live
Masked(i) == \E j \in 1..Len(rows) : j # i /\ rows[j].live

\* A position that the exchange has closed is in the end recorded as closed, by the
\* scheduler alone: its loop outlives every failure.  Another live position hides it (the
\* check is by symbol), and a reload may have lost the scheduler.
Resolved(i) == ~Unrecorded(i) \/ Masked(i) \/ ~registered \/ ~enabled
GoneIsRecorded == \A i \in 1..MaxRows : Unrecorded(i) ~> Resolved(i)
=============================================================================
