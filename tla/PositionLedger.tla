---------------------------- MODULE PositionLedger ----------------------------
(***************************************************************************)
(* The money side of order-listener: closing a strategy_positions row,     *)
(* attributing realized PnL to it, and booking that PnL into the strategy. *)
(*                                                                         *)
(* Agents are the concurrent coroutines that reach this code: webhook      *)
(* handlers (_process_order), manual closes, and reconcile passes (the 60s *)
(* loop and POST /reconcile, which take no lock).  Every await between two *)
(* database or executor calls is a point where another agent may run, so   *)
(* each call is an action of its own and pc says which call comes next.    *)
(*                                                                         *)
(* One strategy, one symbol; Legs are its sides.  Money is in integers.    *)
(***************************************************************************)
EXTENDS Integers, FiniteSets

CONSTANTS
  Agents,       \* concurrent coroutines
  LastRow,      \* strategy_positions rows that may be created (serial ids)
  Legs,         \* sides; two of them only on a hedge account
  MaxSize,      \* largest entry, in lots
  Gains,        \* gross PnL per lot an exchange close may realize
  OpenFee,      \* exchange_fee of an opening order
  CloseFee,     \* fee of one exchange-side close
  FeeScope,     \* what a history fee covers: "round_trip" or "close_only"
  Responses,    \* how a close call to the executor may end
  PartialTriggers, \* a trigger or liquidation may take part of a leg only
  HistoryMayLag,   \* position history may not have the close yet
  DbMayFail,       \* a synthetic order's INSERT or a booking's UPDATE may fail
  MayRestart,      \* the order-listener process may be restarted
  StartCapital, \* strategies.capital_allocation at the start
  MaxDrawdown,  \* strategies.max_drawdown_pct
  NULL

Rows == 1..LastRow

ASSUME LastRowAssumption  == LastRow \in Nat
ASSUME MoneyAssumption    == Gains \subseteq Int /\ OpenFee \in Nat /\ CloseFee \in Nat
                             /\ StartCapital \in Nat /\ MaxDrawdown \in 0..100
ASSUME SizeAssumption     == MaxSize \in Nat
ASSUME FeeScopeAssumption == FeeScope \in {"round_trip", "close_only"}
ASSUME ResponsesAssumption ==
  Responses \subseteq {"reported", "silent", "lost", "refused"}
ASSUME FlagAssumption     == PartialTriggers \in BOOLEAN /\ HistoryMayLag \in BOOLEAN
                             /\ DbMayFail \in BOOLEAN /\ MayRestart \in BOOLEAN
ASSUME NullAssumption     == NULL \notin Int

VARIABLES
  row,      \* strategy_positions: status, leg, size, pnl_realized
  ord,      \* orders with closes_position_id = r: SUM(pnl), SUM(exchange_fee), counts
  strat,    \* strategies: pnl_total, allocation_peak, enabled
  exch,     \* the exchange: lots held per leg, whose episode it is, last one closed
  truth,    \* what the exchange really realized and charged over a row's episode
  pc, job, debt, \* per agent: next call, the close in progress, PnL set but not booked
  sig,      \* per agent: the webhook close order it is processing
  after,    \* per agent: where to go on once a close and its booking are done
  halting, todo, \* per agent: a drawdown stop under way and the legs it still flattens
  found,    \* per agent: closed rows its pass SELECTed for PnL recovery
  \* history variables, read by properties only
  swept,    \* sync_position_pnl attributed PnL to the row while it was open
  booked,   \* sum of _book_realized_pnl calls made for the row
  owed      \* sum of the amounts set on the row and still to be booked

rowVars   == <<row, ord, strat>>
exchVars  == <<exch, truth>>
agentVars == <<pc, job, debt, sig, after, halting, todo, found>>
history   == <<swept, booked, owed>>
vars      == <<rowVars, exchVars, agentVars, history>>

-------------------------------------------------------------------------------
Maybe(S)   == S \cup {NULL}
MinOf(x, y) == IF x <= y THEN x ELSE y
MaxOf(x, y) == IF x >= y THEN x ELSE y
Amount(x)  == IF x = NULL THEN 0 ELSE x
IsOpen(r)  == row[r].status = "open"
OpenIn(l)  == {r \in Rows : IsOpen(r) /\ row[r].leg = l}

NoJob    == [row |-> NULL, leg |-> NULL, full |-> FALSE, size |-> 0,
             own |-> FALSE, gross |-> NULL, fee |-> 0]
NoSignal == [legs |-> {}, want |-> NULL, link |-> NULL, first |-> TRUE,
             failed |-> FALSE, gross |-> NULL, fee |-> 0]

\* The rollup sync_position_pnl computes: orders' PnL, less their fees, less the entry's.
OrderTotal(r) == ord[r].pnl - ord[r].fee - OpenFee

Init ==
  /\ row = [r \in Rows |-> [status |-> "none", leg |-> NULL, size |-> 0, pnl |-> NULL]]
  /\ ord = [r \in Rows |-> [links |-> 0, priced |-> FALSE, pnl |-> 0, fee |-> 0]]
  /\ strat = [total |-> 0, peak |-> StartCapital, enabled |-> TRUE]
  /\ exch = [l \in Legs |-> [size |-> 0, episode |-> NULL, last |-> NULL]]
  /\ truth = [r \in Rows |-> [gross |-> 0, fee |-> 0]]
  /\ pc = [a \in Agents |-> "idle"] /\ job = [a \in Agents |-> NoJob]
  /\ debt = [a \in Agents |-> [r \in Rows |-> 0]]
  /\ sig = [a \in Agents |-> NoSignal] /\ after = [a \in Agents |-> "idle"]
  /\ halting = [a \in Agents |-> FALSE] /\ todo = [a \in Agents |-> {}]
  /\ found = [a \in Agents |-> {}]
  /\ swept = [r \in Rows |-> FALSE]
  /\ booked = [r \in Rows |-> 0] /\ owed = [r \in Rows |-> 0]

\* Where an agent goes when a close (with its booking and drawdown check) has returned.
Resume(a, unpaid) ==
  CASE halting[a]                       -> "flatten"
    [] ~halting[a] /\ unpaid            -> "book"
    [] OTHER                            -> after[a]

Unpaid(d) == \E r \in Rows : d[r] # 0

-------------------------------------------------------------------------------
(* The exchange and the entry path.                                        *)

\* The exchange takes n lots off leg l at g per lot.
Reduced(l, n, g) ==
  LET e == exch[l].episode IN
  /\ exch' = [exch EXCEPT ![l] =
        [size |-> @.size - n, episode |-> e,
         last |-> IF n = @.size THEN e ELSE @.last]]
  /\ truth' = [truth EXCEPT ![e] = [gross |-> @.gross + n * g, fee |-> @.fee + CloseFee]]

\* A confirmed entry fill creates the next row (at most one open row per leg).  Whether
\* the strategy is enabled was checked when the webhook arrived, not when its fill lands.
CreatePosition(r, l, n) ==
  /\ row[r].status = "none" /\ \A q \in Rows : q < r => row[q].status # "none"
  /\ OpenIn(l) = {} /\ exch[l].size = 0
  /\ row' = [row EXCEPT ![r] = [status |-> "open", leg |-> l, size |-> n, pnl |-> NULL]]
  /\ exch' = [exch EXCEPT ![l].size = n, ![l].episode = r]
  /\ truth' = [truth EXCEPT ![r].fee = OpenFee]
  /\ UNCHANGED <<ord, strat, agentVars, history>>

\* A resting TP/SL or a liquidation fires on the exchange, whole or in part.
TriggerFires(l, n, g) ==
  /\ n \in (IF PartialTriggers THEN 1 ELSE MaxOf(exch[l].size, 1))..exch[l].size
  /\ Reduced(l, n, g)
  /\ UNCHANGED <<rowVars, agentVars, history>>

-------------------------------------------------------------------------------
(* close_strategy_position: SELECT the open leg, call the executor, commit. *)

\* The SELECT, and the full/partial decision taken on the size it returned.
Closing(r, want, own) ==
  [row |-> r, leg |-> row[r].leg, own |-> own, gross |-> NULL, fee |-> 0,
   full |-> want = NULL \/ want >= row[r].size,
   size |-> IF want = NULL THEN row[r].size ELSE MinOf(want, row[r].size)]

\* A manual close, whole or in part, with no order row of its own.  The row the user
\* named is looked up first, but what is closed is the row open in its leg by then.
ManualClose(a, r, want) ==
  /\ pc[a] = "idle" /\ IsOpen(r)
  /\ pc' = [pc EXCEPT ![a] = "exchange"]
  /\ job' = [job EXCEPT ![a] = Closing(r, want, FALSE)]
  /\ after' = [after EXCEPT ![a] = "idle"]
  /\ UNCHANGED <<rowVars, exchVars, debt, sig, halting, todo, found, history>>

\* A close_long/close_short webhook names one leg, and a size unless it is flat; a flat
\* entry signal names every open leg.  Both logged their order row before this point.
SignalClose(a, legs, want) ==
  /\ pc[a] = "idle" /\ legs # {} /\ \A l \in legs : OpenIn(l) # {}
  /\ pc' = [pc EXCEPT ![a] = "signal"]
  /\ sig' = [sig EXCEPT ![a] = [NoSignal EXCEPT !.legs = legs, !.want = want]]
  /\ after' = [after EXCEPT ![a] = "signal"]
  /\ UNCHANGED <<rowVars, exchVars, job, debt, halting, todo, found, history>>

SignalLeg(a, l) ==
  /\ pc[a] = "signal" /\ l \in sig[a].legs
  /\ \/ \E r \in OpenIn(l) :
          /\ pc' = [pc EXCEPT ![a] = "exchange"]
          /\ job' = [job EXCEPT ![a] = Closing(r, sig[a].want, TRUE)]
          /\ sig' = [sig EXCEPT ![a].legs = @ \ {l}]
     \/ /\ OpenIn(l) = {}                            \* no_position_to_close
        /\ sig' = [sig EXCEPT ![a].legs = @ \ {l}, ![a].failed = TRUE,
                              ![a].first = FALSE]
        /\ UNCHANGED <<pc, job>>
  /\ UNCHANGED <<rowVars, exchVars, debt, after, halting, todo, found, history>>

\* What the first leg reported is what the order row will carry.
Outcome(s, ok, g, f) ==
  IF ok THEN IF s.first THEN [s EXCEPT !.first = FALSE, !.gross = g, !.fee = f] ELSE s
  ELSE [s EXCEPT !.first = FALSE, !.failed = TRUE]

\* Faulty variant: a partial close that is not reduce-only.
CloseQuantityUncapped(j) == IF j.full THEN exch[j.leg].size ELSE j.size

\* A full close flattens whatever the leg holds, a reduce-only order at most that.
CloseQuantity(j) ==
  IF j.full THEN exch[j.leg].size ELSE MinOf(j.size, exch[j.leg].size)

\* What the answer to a close of n lots at g tells of it.  One that names no order is looked
\* up among the account's recent reduce-only fills; a fill that cannot be told from
\* another, or is not found, leaves the close without figures ("silent").
WithFill(j, resp, n, g) ==
  IF resp = "reported"
  THEN [j EXCEPT !.gross = n * g, !.fee = CloseFee, !.size = IF j.full THEN @ ELSE n]
  ELSE j

\* The executor's close call.  The exchange has nothing to close on a flat leg.  The
\* answer may carry no fill details ("silent"), or never arrive ("lost").
ExchangeClose(a, resp, g) ==
  LET j == job[a]
      n == CloseQuantity(j)
      failed == resp \in {"lost", "refused"}
  IN
  /\ pc[a] = "exchange"
  /\ n <= 0 => resp = "refused"
  /\ IF resp = "refused" THEN UNCHANGED exchVars ELSE Reduced(j.leg, n, g)
  /\ pc' = [pc EXCEPT ![a] = IF failed THEN Resume(a, Unpaid(debt[a])) ELSE "commit"]
  /\ job' = [job EXCEPT ![a] = IF failed THEN NoJob ELSE WithFill(j, resp, n, g)]
  /\ sig' = IF failed /\ j.own THEN [sig EXCEPT ![a] = Outcome(@, FALSE, NULL, 0)] ELSE sig
  /\ UNCHANGED <<rowVars, debt, after, halting, todo, found, history>>

\* The position-level figure of a full close: net of its own fee and the entry's.
NetPnl(j) == IF j.gross = NULL THEN NULL ELSE j.gross - OpenFee - j.fee

\* The row after the closing UPDATE; a full close keeps pnl_realized when it has none.
Updated(j, p) ==
  IF j.full
  THEN [p EXCEPT !.status = "closed", !.pnl = IF NetPnl(j) = NULL THEN @ ELSE NetPnl(j)]
  ELSE [p EXCEPT !.size = @ - j.size]

\* The order linked to row r: a webhook's own order is still without PnL and, if it
\* closed another leg before, moves; a synthetic one carries the close's figures.
Linked(a, j, r, inserted) ==
  IF j.own
  THEN [q \in Rows |-> [ord[q] EXCEPT !.links =
          @ + (IF q = r THEN 1 ELSE 0) - (IF q = sig[a].link THEN 1 ELSE 0)]]
  ELSE IF ~inserted THEN ord
  ELSE [ord EXCEPT ![r] =
          [links |-> @.links + 1, priced |-> @.priced \/ j.gross # NULL,
           pnl |-> @.pnl + Amount(j.gross),
           fee |-> @.fee + IF j.gross = NULL THEN 0 ELSE j.fee]]

\* Faulty variant: the closing UPDATE without its status guard.
LandsUnguarded(r) == row[r].status # "none"

\* The closing UPDATE lands only WHERE id = ... AND status = 'open'.
Lands(r) == IsOpen(r)

\* The closing transaction, on the row SELECTed before.
CommitClose(a, inserted) ==
  LET j == job[a]  r == job[a].row  net == NetPnl(job[a]) IN
  /\ pc[a] = "commit"
  /\ IF Lands(r)
     THEN /\ row' = [row EXCEPT ![r] = Updated(j, @)]
          /\ ord' = Linked(a, j, r, inserted)
          /\ IF j.full /\ net # NULL
             THEN /\ debt' = [debt EXCEPT ![a][r] = @ + net]
                  /\ owed' = [owed EXCEPT ![r] = @ + net]
             ELSE UNCHANGED <<debt, owed>>
          /\ pc' = [pc EXCEPT ![a] =
                IF j.full /\ net # NULL /\ debt'[a][r] # 0 THEN "book"
                ELSE Resume(a, Unpaid(debt[a]))]
          /\ sig' = IF j.own
                    THEN [sig EXCEPT ![a] = [Outcome(@, TRUE, j.gross, j.fee)
                                               EXCEPT !.link = r]]
                    ELSE sig
     ELSE \* race_condition: the exchange order stands, nothing is recorded
          /\ pc' = [pc EXCEPT ![a] = Resume(a, Unpaid(debt[a]))]
          /\ sig' = IF j.own THEN [sig EXCEPT ![a] = Outcome(@, FALSE, NULL, 0)] ELSE sig
          /\ UNCHANGED <<row, ord, debt, owed>>
  /\ job' = [job EXCEPT ![a] = NoJob]
  /\ UNCHANGED <<strat, exchVars, after, halting, todo, found, swept, booked>>

\* The closing transaction raised, and the row stays open.  A drawdown stop swallows it
\* and ends there, not disabling the strategy, unless it was nested in another stop,
\* which goes on; any other coroutine ends.
CommitFails(a) ==
  /\ DbMayFail /\ pc[a] = "commit"
  /\ job' = [job EXCEPT ![a] = NoJob]
  /\ \/ /\ halting[a] /\ pc' = [pc EXCEPT ![a] = "flatten"]
        /\ UNCHANGED <<sig, after, halting, todo>>
     \/ /\ halting' = [halting EXCEPT ![a] = FALSE] /\ todo' = [todo EXCEPT ![a] = {}]
        /\ IF halting[a]
           THEN /\ pc' = [pc EXCEPT ![a] = IF Unpaid(debt[a]) THEN "book" ELSE after[a]]
                /\ UNCHANGED <<sig, after>>
           ELSE /\ pc' = [pc EXCEPT ![a] = "idle"] /\ after' = [after EXCEPT ![a] = "idle"]
                /\ sig' = [sig EXCEPT ![a] = NoSignal]
  /\ UNCHANGED <<rowVars, exchVars, debt, found, history>>

Priced(o, s) == [o EXCEPT !.priced = TRUE, !.pnl = @ + s.gross, !.fee = @ + s.fee]

\* _update_order_status after the close returned: the order row gets its PnL and fee.
PriceOrder(a) ==
  LET s == sig[a] IN
  /\ pc[a] = "signal" /\ s.legs = {}
  /\ IF s.failed \/ s.gross = NULL \/ s.link = NULL
     THEN UNCHANGED ord
     ELSE ord' = [ord EXCEPT ![s.link] = Priced(@, s)]
  /\ pc' = [pc EXCEPT ![a] = "idle"]
  /\ sig' = [sig EXCEPT ![a] = NoSignal]
  /\ after' = [after EXCEPT ![a] = "idle"]
  /\ UNCHANGED <<row, strat, exchVars, job, debt, halting, todo, found, history>>

-------------------------------------------------------------------------------
(* _book_realized_pnl and the drawdown stop it ends in.                    *)

Capital == StartCapital + strat.total
Breached == strat.peak > 0 /\ 100 * Capital <= strat.peak * (100 - MaxDrawdown)

Book(a, r) ==
  LET d == debt[a][r] IN
  /\ pc[a] = "book" /\ d # 0
  /\ strat' = [strat EXCEPT !.total = @ + d, !.peak = MaxOf(@, Capital + d)]
  /\ debt' = [debt EXCEPT ![a][r] = 0]
  /\ owed' = [owed EXCEPT ![r] = @ - d]
  /\ booked' = [booked EXCEPT ![r] = @ + d]
  /\ pc' = [pc EXCEPT ![a] = "check"]
  /\ UNCHANGED <<row, ord, exchVars, job, sig, after, halting, todo, found, swept>>

\* Its UPDATE raised: the amount is dropped with a warning, and nothing is checked.
BookFails(a, r) ==
  /\ DbMayFail /\ pc[a] = "book" /\ debt[a][r] # 0
  /\ debt' = [debt EXCEPT ![a][r] = 0]
  /\ pc' = [pc EXCEPT ![a] = Resume(a, Unpaid(debt'[a]))]
  /\ UNCHANGED <<rowVars, exchVars, job, sig, after, halting, todo, found, history>>

\* _disable_if_drawdown_breached: read the strategy; on a breach snapshot the open legs.
CheckDrawdown(a) ==
  /\ pc[a] = "check"
  /\ IF strat.enabled /\ Breached
     THEN /\ halting' = [halting EXCEPT ![a] = TRUE]
          /\ todo' = [todo EXCEPT ![a] = @ \cup {l \in Legs : OpenIn(l) # {}}]
          /\ pc' = [pc EXCEPT ![a] = "flatten"]
     ELSE /\ pc' = [pc EXCEPT ![a] = Resume(a, Unpaid(debt[a]))]
          /\ UNCHANGED <<halting, todo>>
  /\ UNCHANGED <<rowVars, exchVars, job, debt, sig, after, found, history>>

FlattenLeg(a, l) ==
  /\ pc[a] = "flatten" /\ l \in todo[a]
  /\ todo' = [todo EXCEPT ![a] = @ \ {l}]
  /\ \/ \E r \in OpenIn(l) :
          /\ pc' = [pc EXCEPT ![a] = "exchange"]
          /\ job' = [job EXCEPT ![a] = Closing(r, NULL, FALSE)]
     \/ OpenIn(l) = {} /\ UNCHANGED <<pc, job>>
  /\ UNCHANGED <<rowVars, exchVars, debt, sig, after, halting, found, history>>

\* Faulty variant: the user-stop rule, which waits for every close to succeed.
FlattenDoneIfFlat(a) == todo[a] = {} /\ \A l \in Legs : OpenIn(l) = {}

\* Every leg was tried; the per-leg results are not looked at.
FlattenDone(a) == todo[a] = {}

Disable(a) ==
  /\ pc[a] = "flatten" /\ FlattenDone(a)
  /\ strat' = [strat EXCEPT !.enabled = FALSE]
  /\ halting' = [halting EXCEPT ![a] = FALSE]
  /\ pc' = [pc EXCEPT ![a] = IF Unpaid(debt[a]) THEN "book" ELSE after[a]]
  /\ UNCHANGED <<row, ord, exchVars, job, debt, sig, after, todo, found, history>>

-------------------------------------------------------------------------------
(* The reconciler's part.                                                  *)

\* The exchange's history answers with its latest closed episode, opened at r or later.
History(r) ==
  LET e == exch[row[r].leg].last IN IF e # NULL /\ e >= r THEN e ELSE NULL

\* The fee it names: of the whole position, or of the closing fills alone.
WholeFee(e)   == truth[e].fee
ClosingFee(e) == truth[e].fee - OpenFee
HistoryFee(e) == IF FeeScope = "close_only" THEN ClosingFee(e) ELSE WholeFee(e)

\* Faulty variant: history's whole-position figure taken for this close alone.
WholePnl(e, r) == truth[e].gross

\* History reports the position whole; this close's own leg is the part no order reported.
RemainingPnl(e, r) == truth[e].gross - ord[r].pnl
RemainingFee(e, r) ==
  MaxOf(HistoryFee(e) - (IF FeeScope = "round_trip" THEN OpenFee ELSE 0) - ord[r].fee, 0)

\* _handle_full_external_close: the leg is gone from the exchange.
ExternalClose(a, r) ==
  LET e == History(r)
      closing == [Closing(r, NULL, FALSE) EXCEPT
                    !.gross = RemainingPnl(e, r), !.fee = RemainingFee(e, r)]
  IN
  /\ pc[a] = "idle" /\ IsOpen(r) /\ exch[row[r].leg].size = 0
  /\ pc' = [pc EXCEPT ![a] = "external"]
  /\ \/ e # NULL /\ job' = [job EXCEPT ![a] = closing]
     \/ /\ HistoryMayLag \/ e = NULL                 \* pnl_unconfirmed
        /\ job' = [job EXCEPT ![a] = Closing(r, NULL, FALSE)]
  /\ after' = [after EXCEPT ![a] = "idle"]
  /\ UNCHANGED <<rowVars, exchVars, debt, sig, halting, todo, found, history>>

\* It then closes by (symbol, side): the row open in the leg by now, if there is one.
ExternalSelect(a) ==
  LET l == job[a].leg IN
  /\ pc[a] = "external"
  /\ \/ \E q \in OpenIn(l) :
          /\ pc' = [pc EXCEPT ![a] = "commit"]
          /\ job' = [job EXCEPT ![a].row = q, ![a].size = row[q].size]
     \/ /\ OpenIn(l) = {}
        /\ pc' = [pc EXCEPT ![a] = "idle"]
        /\ job' = [job EXCEPT ![a] = NoJob]
  /\ UNCHANGED <<rowVars, exchVars, debt, sig, after, halting, todo, found, history>>

\* The exchange holds less than the row: shrink the row, with no PnL known.
ExternalReduce(a, r) ==
  LET held == exch[row[r].leg].size IN
  /\ pc[a] = "idle" /\ IsOpen(r) /\ held > 0 /\ held < row[r].size
  /\ pc' = [pc EXCEPT ![a] = "commit"]
  /\ job' = [job EXCEPT ![a] = Closing(r, row[r].size - held, FALSE)]
  /\ after' = [after EXCEPT ![a] = "idle"]
  /\ UNCHANGED <<rowVars, exchVars, debt, sig, halting, todo, found, history>>

\* sync_position_pnl, first statement: rows still without PnL take their orders' total.
SyncAttribute(a) ==
  LET newly == {r \in Rows : ord[r].priced /\ row[r].pnl = NULL}
      gain(r) == IF r \in newly THEN OrderTotal(r) ELSE 0
  IN
  /\ pc[a] = "idle"
  /\ row' = [r \in Rows |-> IF r \in newly THEN [row[r] EXCEPT !.pnl = OrderTotal(r)]
                            ELSE row[r]]
  /\ debt' = [debt EXCEPT ![a] = [r \in Rows |-> debt[a][r] + gain(r)]]
  /\ owed' = [r \in Rows |-> owed[r] + gain(r)]
  /\ swept' = [r \in Rows |-> swept[r] \/ (r \in newly /\ IsOpen(r))]
  /\ pc' = [pc EXCEPT ![a] = "correct"]
  /\ after' = [after EXCEPT ![a] = "select"]
  /\ UNCHANGED <<ord, strat, exchVars, job, sig, halting, todo, found, booked>>

\* Faulty variant: correct the row without booking the difference.
CorrectionUnbooked(r) == 0

\* The amount a correction owes the strategy.
Correction(r) == OrderTotal(r) - row[r].pnl

\* Second statement: rows whose total has changed take it, and owe the difference.
SyncCorrect(a) ==
  LET changed == {r \in Rows : ord[r].priced /\ row[r].pnl # NULL
                                 /\ row[r].pnl # OrderTotal(r)}
      delta(r) == IF r \in changed THEN Correction(r) ELSE 0
  IN
  /\ pc[a] = "correct"
  /\ row' = [r \in Rows |-> IF r \in changed THEN [row[r] EXCEPT !.pnl = OrderTotal(r)]
                            ELSE row[r]]
  /\ debt' = [debt EXCEPT ![a] = [r \in Rows |-> debt[a][r] + delta(r)]]
  /\ owed' = [r \in Rows |-> owed[r] + delta(r)]
  /\ pc' = [pc EXCEPT ![a] = IF Unpaid(debt'[a]) THEN "book" ELSE "select"]
  /\ UNCHANGED <<ord, strat, exchVars, job, sig, after, halting, todo, found, swept, booked>>

\* Closed, never attributed, and no order explains it so far.
Unexplained(r) == row[r].status = "closed" /\ row[r].pnl = NULL /\ ~ord[r].priced

\* _recover_manual_close_pnl SELECTs its rows once; each is then looked up in turn.
RecoverSelect(a) ==
  /\ pc[a] = "select"
  /\ found' = [found EXCEPT ![a] = {r \in Rows : Unexplained(r)}]
  /\ pc' = [pc EXCEPT ![a] = "recover"]
  /\ after' = [after EXCEPT ![a] = "recover"]
  /\ UNCHANGED <<rowVars, exchVars, job, debt, sig, halting, todo, history>>

\* Faulty variant: the recovering UPDATE without its NULL -> value gate.
UnattributedUngated(r) == row[r].status = "closed"

\* The recovering UPDATE lands only while no one has attributed PnL to the row.
Unattributed(r) == row[r].status = "closed" /\ row[r].pnl = NULL

\* Faulty variant: every venue's history fee taken to include the entry's.
RecoveredNetRoundTrip(e) == truth[e].gross - HistoryFee(e)

\* A close_only fee leaves the entry's to be charged, a round_trip fee does not.
RecoveredNet(e) ==
  truth[e].gross - HistoryFee(e) - (IF FeeScope = "round_trip" THEN 0 ELSE OpenFee)

\* A row found unexplained takes history's figure, unless it was attributed meanwhile.
RecoverPnl(a, r) ==
  LET e == History(r)  net == RecoveredNet(History(r)) IN
  /\ pc[a] = "recover" /\ r \in found[a] /\ Unattributed(r) /\ e # NULL
  /\ found' = [found EXCEPT ![a] = @ \ {r}]
  /\ row' = [row EXCEPT ![r].pnl = net]
  /\ debt' = [debt EXCEPT ![a][r] = @ + net]
  /\ owed' = [owed EXCEPT ![r] = @ + net]
  /\ sig' = [sig EXCEPT ![a] = [NoSignal EXCEPT !.link = r, !.gross = truth[e].gross,
                                                !.fee = HistoryFee(e)]]
  /\ after' = [after EXCEPT ![a] = "insert"]
  /\ pc' = [pc EXCEPT ![a] = IF Unpaid(debt'[a]) THEN "book" ELSE "insert"]
  /\ UNCHANGED <<ord, strat, exchVars, job, halting, todo, swept, booked>>

\* Its synthetic close order, unless the row has one by now or the INSERT fails.
InsertRecovered(a, inserted) ==
  LET r == sig[a].link IN
  /\ pc[a] = "insert"
  /\ ord' = IF ord[r].links > 0 \/ ~inserted THEN ord
            ELSE [ord EXCEPT ![r] = [links |-> 1, priced |-> TRUE,
                                     pnl |-> sig[a].gross, fee |-> sig[a].fee]]
  /\ sig' = [sig EXCEPT ![a] = NoSignal]
  /\ after' = [after EXCEPT ![a] = "recover"]
  /\ pc' = [pc EXCEPT ![a] = "recover"]
  /\ UNCHANGED <<row, strat, exchVars, job, debt, halting, todo, found, history>>

\* The pass ends; rows that were attributed meanwhile, or whose history is not there
\* yet, are skipped.
EndPass(a) ==
  /\ pc[a] = "recover"
  /\ \A r \in found[a] : Unattributed(r) => HistoryMayLag \/ History(r) = NULL
  /\ pc' = [pc EXCEPT ![a] = "idle"]
  /\ after' = [after EXCEPT ![a] = "idle"]
  /\ found' = [found EXCEPT ![a] = {}]
  /\ UNCHANGED <<rowVars, exchVars, job, debt, sig, halting, todo, history>>

\* The process restarts: every coroutine is gone with what it still meant to book.
Restart ==
  /\ MayRestart /\ \E a \in Agents : pc[a] # "idle"
  /\ pc' = [a \in Agents |-> "idle"] /\ job' = [a \in Agents |-> NoJob]
  /\ debt' = [a \in Agents |-> [r \in Rows |-> 0]]
  /\ sig' = [a \in Agents |-> NoSignal] /\ after' = [a \in Agents |-> "idle"]
  /\ halting' = [a \in Agents |-> FALSE] /\ todo' = [a \in Agents |-> {}]
  /\ found' = [a \in Agents |-> {}]
  /\ UNCHANGED <<rowVars, exchVars, history>>

-------------------------------------------------------------------------------
\* What an agent that has started must go on with.
Continue(a) ==
  \/ \E l \in Legs : SignalLeg(a, l) \/ FlattenLeg(a, l)
  \/ \E resp \in Responses, g \in Gains : ExchangeClose(a, resp, g)
  \/ \E inserted \in {TRUE, ~DbMayFail} : CommitClose(a, inserted)
  \/ \E inserted \in {TRUE, ~DbMayFail} : InsertRecovered(a, inserted)
  \/ PriceOrder(a) \/ CommitFails(a)
  \/ \E r \in Rows : Book(a, r) \/ BookFails(a, r) \/ RecoverPnl(a, r)
  \/ CheckDrawdown(a) \/ Disable(a)
  \/ ExternalSelect(a)
  \/ SyncCorrect(a) \/ RecoverSelect(a) \/ EndPass(a)

Begin(a) ==
  \/ \E r \in Rows, want \in Maybe(1..MaxSize) : ManualClose(a, r, want)
  \/ \E r \in Rows : ExternalClose(a, r) \/ ExternalReduce(a, r)
  \/ \E l \in Legs, want \in Maybe(1..MaxSize) : SignalClose(a, {l}, want)
  \/ SignalClose(a, {l \in Legs : OpenIn(l) # {}}, NULL)
  \/ SyncAttribute(a)

Market ==
  \/ \E r \in Rows, l \in Legs, n \in 1..MaxSize : CreatePosition(r, l, n)
  \/ \E l \in Legs, n \in 1..MaxSize, g \in Gains : TriggerFires(l, n, g)

Next ==
  \/ Market
  \/ \E a \in Agents : Begin(a) \/ Continue(a)
  \/ Restart

Spec == Init /\ [][Next]_vars

\* asyncio runs every started coroutine to its end, and every await in it is bounded
\* by a client timeout; nothing obliges a trader, a trigger or a pass to begin.
FairSpec == Spec /\ \A a \in Agents : WF_vars(Continue(a))

-------------------------------------------------------------------------------
(* Properties.                                                             *)

Position == [status: {"none", "open", "closed"}, leg: Maybe(Legs), size: Int,
             pnl: Maybe(Int)]
Linkage  == [links: Int, priced: BOOLEAN, pnl: Int, fee: Int]
Holding  == [size: Nat, episode: Maybe(Rows), last: Maybe(Rows)]
Ledger   == [gross: Int, fee: Int]
Job    == [row: Maybe(Rows), leg: Maybe(Legs), full: BOOLEAN, size: Int, own: BOOLEAN,
           gross: Maybe(Int), fee: Int]
Signal == [legs: SUBSET Legs, want: Maybe(Nat), link: Maybe(Rows), first: BOOLEAN,
           failed: BOOLEAN, gross: Maybe(Int), fee: Int]
Stages == {"idle", "signal", "exchange", "external", "commit", "book", "check",
           "flatten", "correct", "select", "recover", "insert"}

\* Every variable holds a value of its kind; no leg is ever closed below zero.
TypeOK ==
  /\ row \in [Rows -> Position] /\ ord \in [Rows -> Linkage]
  /\ strat \in [total: Int, peak: Int, enabled: BOOLEAN]
  /\ exch \in [Legs -> Holding] /\ truth \in [Rows -> Ledger]
  /\ pc \in [Agents -> Stages] /\ job \in [Agents -> Job]
  /\ debt \in [Agents -> [Rows -> Int]]
  /\ sig \in [Agents -> Signal]
  /\ after \in [Agents -> {"idle", "signal", "select", "recover", "insert"}]
  /\ halting \in [Agents -> BOOLEAN] /\ todo \in [Agents -> SUBSET Legs]
  /\ found \in [Agents -> SUBSET Rows]
  /\ swept \in [Rows -> BOOLEAN] /\ booked \in [Rows -> Int] /\ owed \in [Rows -> Int]

\* What has been booked for a position, and what is still to be booked, is exactly its
\* pnl_realized: concurrent closers, late order prices, corrections and recoveries
\* neither book a position twice nor leave it out.  Excepted are the rows a sync pass
\* attributed PnL to while they were open (see BookedExactly).
BookedOnce ==
  \A r \in Rows : ~swept[r] => booked[r] + owed[r] = Amount(row[r].pnl)

\* Once no agent has anything left to book for such a position, the strategy's books
\* agree with the position: the promise to book is always some running agent's.
SettledIsBooked ==
  \A r \in Rows :
    ~swept[r] /\ (\A a \in Agents : debt[a][r] = 0) => booked[r] = Amount(row[r].pnl)

\* _book_realized_pnl is to be called "EXACTLY ONCE per position close, gated by the
\* caller on the pnl_realized NULL->value transition": the strategy has booked for a
\* closed, settled position what the position shows.
BookedExactly ==
  \A r \in Rows :
    row[r].status = "closed" /\ (\A a \in Agents : debt[a][r] = 0 /\ pc[a] = "idle")
      /\ ord[r].priced /\ row[r].pnl = OrderTotal(r)
    => booked[r] = row[r].pnl

\* With nothing left to correct, a closed position shows the economic outcome of its
\* exchange episode: all that was realized, less the entry's and every close's fee, each
\* once, however the closes were split between us, the triggers and the history lookup.
RealizedIsNet ==
  \A r \in Rows :
    /\ row[r].status = "closed" /\ row[r].pnl # NULL
    /\ ord[r].priced => row[r].pnl = OrderTotal(r)
    /\ \A a \in Agents : pc[a] = "idle"
    => row[r].pnl = truth[r].gross - truth[r].fee

\* A closed position is history: no late closer, top-down sync or lost race reopens it,
\* resizes it or un-attributes its PnL.
StaysClosed(r) ==
  row[r].status = "closed" =>
    /\ row'[r].status = "closed" /\ row'[r].size = row[r].size
    /\ row[r].pnl # NULL => row'[r].pnl # NULL

ClosedIsFinal == [][\A r \in Rows : StaysClosed(r)]_vars

\* The drawdown stop always lands: a strategy below its floor is disabled, or recovers.
BreachStops == Breached /\ strat.enabled ~> ~strat.enabled \/ ~Breached

===============================================================================
