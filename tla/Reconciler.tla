------------------------------ MODULE Reconciler ------------------------------
(***************************************************************************)
(* The size side of order-listener's reconcile pass: one leg of one        *)
(* account, the strategy_positions rows that stand for it, the lots the    *)
(* exchange really holds, and the miss counter that keeps a pass from      *)
(* acting on one bad read.                                                 *)
(*                                                                         *)
(* Passes are the 60 s loop and POST /reconcile; nothing keeps two of them *)
(* apart.  Traders are the coroutines that enter and close meanwhile: the  *)
(* exchange always moves first and the row follows, one await later.       *)
(* A pass reads the rows once at its start; every later step uses them.    *)
(***************************************************************************)
EXTENDS Integers

CONSTANTS
  Passes,        \* concurrent reconcile passes
  Traders,       \* concurrent webhooks and manual closes
  LastRow,       \* rows that may be created for the leg (serial ids)
  MaxSize,       \* most lots the exchange may hold, or a row show, once an entry fills
  Threshold,     \* RECONCILE_MISS_THRESHOLD
  MaxRestarts,   \* times the process may be restarted
  NULL

Rows == 1..LastRow

ASSUME LastRowAssumption   == LastRow \in Nat
ASSUME MaxSizeAssumption   == MaxSize \in Nat
ASSUME ThresholdAssumption == Threshold \in Nat \ {0}
ASSUME RestartsAssumption  == MaxRestarts \in Nat
ASSUME NullAssumption      == NULL \notin Int

VARIABLES
  row,      \* strategy_positions: status, size, reconcile_miss_count, reconcile_divergent
  held,     \* lots on the exchange
  pass,     \* per pass: where it is, the row it read, what the exchange answered
  trade,    \* per trader: where it is, and the fill or close it is making
  restarts,
  \* history variables, read by properties only
  real,     \* per pass: what the exchange held when it answered, if it did
  short     \* per row: consecutive confirmed reads that showed less than the row

vars == <<row, held, pass, trade, restarts, real, short>>
history == <<real, short>>

-------------------------------------------------------------------------------
Least(x, y) == IF x <= y THEN x ELSE y

IsOpen(r) == row[r].status = "open"
Open      == {r \in Rows : IsOpen(r)}

Resting == [at |-> "idle", row |-> NULL, size |-> 0, miss |-> 0, flagged |-> FALSE,
            seen |-> NULL, full |-> FALSE, cut |-> 0]
Free    == [at |-> "idle", row |-> NULL, size |-> 0, base |-> 0, full |-> FALSE]

Init ==
  /\ row = [r \in Rows |-> [status |-> "none", size |-> 0, miss |-> 0,
                            divergent |-> FALSE]]
  /\ held = 0
  /\ pass = [i \in Passes |-> Resting] /\ trade = [t \in Traders |-> Free]
  /\ restarts = 0
  /\ real = [i \in Passes |-> NULL]
  /\ short = [r \in Rows |-> 0]

\* The row after the closing UPDATE: closed by a full close, smaller by a partial one.
Cut(p, full, n) ==
  IF full THEN [p EXCEPT !.status = "closed"] ELSE [p EXCEPT !.size = @ - n]

-------------------------------------------------------------------------------
(* Trading.                                                                *)

\* A resting trigger or a liquidation takes lots off the leg.
TriggerFires(n) ==
  /\ n \in 1..held
  /\ held' = held - n
  /\ UNCHANGED <<row, pass, trade, restarts, history>>

\* An entry order fills on the exchange; no row knows yet.
EntryFills(t, n) ==
  /\ trade[t].at = "idle" /\ held + n <= MaxSize
  /\ \A r \in Open : row[r].size + n <= MaxSize
  /\ held' = held + n
  /\ trade' = [trade EXCEPT ![t] = [Free EXCEPT !.at = "filled", !.size = n]]
  /\ UNCHANGED <<row, pass, restarts, history>>

\* _apply_position_fill reads the open row, if there is one, ...
EntrySelect(t) ==
  /\ trade[t].at = "filled"
  /\ \/ \E q \in Open :
          trade' = [trade EXCEPT ![t] = [@ EXCEPT !.at = "top up", !.row = q,
                                                  !.base = row[q].size]]
     \/ Open = {} /\ trade' = [trade EXCEPT ![t] = [@ EXCEPT !.at = "create"]]
  /\ UNCHANGED <<row, held, pass, restarts, history>>

\* ... and writes the sum back: an absolute size, on whatever the row is by now.
EntryTopUp(t) ==
  LET j == trade[t] IN
  /\ j.at = "top up"
  /\ row' = [row EXCEPT ![j.row].size = j.base + j.size]
  /\ trade' = [trade EXCEPT ![t] = Free]
  /\ UNCHANGED <<held, pass, restarts, history>>

\* Or creates one, which the unique index refuses if another was created meanwhile.
EntryCreate(t, r) ==
  /\ trade[t].at = "create"
  /\ row[r].status = "none" /\ \A q \in Rows : q < r => row[q].status # "none"
  /\ row' = IF Open = {}
            THEN [row EXCEPT ![r] = [status |-> "open", size |-> trade[t].size,
                                     miss |-> 0, divergent |-> FALSE]]
            ELSE row
  /\ trade' = [trade EXCEPT ![t] = Free]
  /\ UNCHANGED <<held, pass, restarts, history>>

\* close_strategy_position reads the open row and decides between full and partial.
CloseSelect(t, want) ==
  /\ trade[t].at = "idle"
  /\ \E q \in Open :
       trade' = [trade EXCEPT ![t] =
         [at |-> "closing", row |-> q, base |-> 0,
          full |-> want = NULL \/ want >= row[q].size,
          size |-> IF want = NULL THEN row[q].size ELSE Least(want, row[q].size)]]
  /\ UNCHANGED <<row, held, pass, restarts, history>>

\* Faulty variant: a close that is not reduce-only.
FilledUncapped(j) == IF j.full THEN held ELSE j.size

\* A full close flattens the leg, a reduce-only order takes at most what it holds.
Filled(j) == IF j.full THEN held ELSE Least(j.size, held)

\* The executor closes (with or without saying how much it filled), or fails.
CloseFills(t, reported) ==
  LET j == trade[t]  n == Filled(trade[t]) IN
  /\ j.at = "closing" /\ n > 0
  /\ held' = held - n
  /\ trade' = [trade EXCEPT ![t] =
        [@ EXCEPT !.at = "commit", !.size = IF reported /\ ~j.full THEN n ELSE j.size]]
  /\ UNCHANGED <<row, pass, restarts, history>>

CloseFails(t) ==
  /\ trade[t].at = "closing"
  /\ trade' = [trade EXCEPT ![t] = Free]
  /\ UNCHANGED <<row, held, pass, restarts, history>>

CloseCommit(t) ==
  LET j == trade[t] IN
  /\ j.at = "commit"
  /\ row' = IF IsOpen(j.row) THEN [row EXCEPT ![j.row] = Cut(@, j.full, j.size)]
            ELSE row                                               \* race_condition
  /\ trade' = [trade EXCEPT ![t] = Free]
  /\ UNCHANGED <<held, pass, restarts, history>>

-------------------------------------------------------------------------------
(* reconcile_once.                                                         *)

Loaded(r, p) == [Resting EXCEPT !.at = "loaded", !.row = r, !.size = p.size,
                                !.miss = p.miss, !.flagged = p.divergent]

LoadRows(i) ==
  /\ pass[i].at = "idle"
  /\ \E r \in Open :
       pass' = [pass EXCEPT ![i] = Loaded(r, row[r])]
  /\ UNCHANGED <<row, held, trade, restarts, history>>

\* Faulty variant: a failed read taken for an empty account.
ObservedOrEmpty(reachable) == IF reachable THEN held ELSE 0

\* What get_account_positions answers: what the leg holds, or UNKNOWN.
Observed(reachable) == IF reachable THEN held ELSE NULL

Fetched(p, n) == [p EXCEPT !.at = "fetched", !.seen = n]

\* An account that is UNKNOWN is left alone for this pass.
FetchPositions(i, reachable) ==
  /\ pass[i].at = "loaded"
  /\ pass' = [pass EXCEPT ![i] =
        IF Observed(reachable) = NULL THEN Resting
        ELSE Fetched(@, Observed(reachable))]
  /\ real' = [real EXCEPT ![i] = IF reachable THEN held ELSE NULL]
  /\ UNCHANGED <<row, held, trade, restarts, short>>

\* Faulty variant: a leg that is there matches, whatever its size.
MatchesPresent(p) == p.seen > 0

\* A leg with no lots is absent from the answer, and matches no row.
Matches(p) == p.seen > 0 /\ p.seen = p.size
Larger(p)  == p.seen > 0 /\ p.seen > p.size

\* Faulty variant: an excess that was flagged before is taken for settled.
FlaggedOnce(p) == Larger(p) /\ ~p.flagged

\* What a reset writes to the divergence flag: raised by an excess, dropped by a match.
Flagged(p) == Larger(p)

\* A leg that is there, equal or larger, clears the counter; one that is gone or smaller
\* raises the count the pass read.
NextMiss(p) == IF Matches(p) \/ Larger(p) THEN 0 ELSE p.miss + 1

\* Faulty variant: act one pass early.
DueEarly(p) == NextMiss(p) >= Threshold - 1

Due(p) == NextMiss(p) >= Threshold

\* What to do about a row that is due: close it, or reduce it by what is missing.
Acting(p) == [Resting EXCEPT !.at = "select", !.row = p.row, !.full = (p.seen = 0),
                             !.cut = p.size - p.seen]

\* For the history: lots that do not make up the row.
Lacking(n, size) == n = 0 \/ n < size

\* Compare the row as it was read with the answer, and UPDATE its counter and flag
\* (a match that finds nothing to reset writes nothing); at the threshold go on to act.
\* History: a read that misses lots extends the streak, one that finds them breaks it
\* unless they have gone again by the time it is recorded.
Compare(i) ==
  LET p == pass[i]  r == pass[i].row
      resets  == Larger(p) \/ (Matches(p) /\ (p.miss # 0 \/ p.flagged))
      missed  == ~Matches(p) /\ ~Larger(p)
      missing == real[i] # NULL /\ Lacking(real[i], p.size)
      gone    == real[i] # NULL /\ ~missing /\ Lacking(held, p.size)
  IN
  /\ p.at = "fetched"
  /\ row' = CASE resets             -> [row EXCEPT ![r].miss = NextMiss(p),
                                                    ![r].divergent = Flagged(p)]
              [] missed /\ IsOpen(r) -> [row EXCEPT ![r].miss = NextMiss(p)]
              [] OTHER               -> row
  /\ pass' = [pass EXCEPT ![i] =
        IF ~missed \/ ~Due(p) THEN Resting
        ELSE Acting(p)]
  /\ short' = [short EXCEPT ![r] =
        CASE missing -> Least(@ + 1, Threshold) [] gone -> @ [] OTHER -> 0]
  /\ real' = [real EXCEPT ![i] = NULL]
  /\ UNCHANGED <<held, trade, restarts>>

Picked(p, q, size) ==
  [p EXCEPT !.at = IF p.full THEN "close" ELSE "reduce", !.seen = q,
            !.full = p.full \/ p.cut >= size, !.cut = Least(p.cut, size)]

\* close_strategy_position, by (symbol, side): the row that is open by now, at its size.
SelectRow(i) ==
  LET p == pass[i] IN
  /\ p.at = "select"
  /\ \/ \E q \in Open :
          pass' = [pass EXCEPT ![i] = Picked(p, q, row[q].size)]
     \/ Open = {} /\ pass' = [pass EXCEPT ![i] = Resting]
  /\ UNCHANGED <<row, held, trade, restarts, history>>

\* The closing UPDATE.  A reduction that landed clears the counter afterwards.
CommitCut(i) ==
  LET p == pass[i]  q == pass[i].seen IN
  /\ p.at \in {"close", "reduce"}
  /\ row' = IF IsOpen(q) THEN [row EXCEPT ![q] = Cut(@, p.full, p.cut)] ELSE row
  /\ pass' = [pass EXCEPT ![i] =
        IF p.at = "reduce" /\ IsOpen(q) THEN [p EXCEPT !.at = "clear"] ELSE Resting]
  /\ UNCHANGED <<held, trade, restarts, history>>

ClearMiss(i) ==
  LET r == pass[i].row IN
  /\ pass[i].at = "clear"
  /\ row' = [row EXCEPT ![r].miss = 0]
  /\ pass' = [pass EXCEPT ![i] = Resting]
  /\ short' = [short EXCEPT ![r] = 0]
  /\ UNCHANGED <<held, trade, restarts, real>>

\* The process restarts: fills and closes that were not written yet stay unwritten.
Restart ==
  /\ restarts < MaxRestarts
  /\ restarts' = restarts + 1
  /\ pass' = [i \in Passes |-> Resting] /\ trade' = [t \in Traders |-> Free]
  /\ real' = [i \in Passes |-> NULL]
  /\ UNCHANGED <<row, held, short>>

-------------------------------------------------------------------------------
PassStep(i) ==
  \/ LoadRows(i)
  \/ \E reachable \in BOOLEAN : FetchPositions(i, reachable)
  \/ Compare(i) \/ SelectRow(i) \/ CommitCut(i) \/ ClearMiss(i)

TradeStep(t) ==
  \/ EntrySelect(t) \/ EntryTopUp(t)
  \/ \E r \in Rows : EntryCreate(t, r)
  \/ \E reported \in BOOLEAN : CloseFills(t, reported)
  \/ CloseFails(t) \/ CloseCommit(t)

Begin(t) ==
  \/ \E n \in 1..MaxSize : EntryFills(t, n)
  \/ \E want \in 1..MaxSize \cup {NULL} : CloseSelect(t, want)

Next ==
  \/ \E n \in 1..MaxSize : TriggerFires(n)
  \/ \E t \in Traders : Begin(t) \/ TradeStep(t)
  \/ \E i \in Passes : PassStep(i)
  \/ Restart

Spec == Init /\ [][Next]_vars

\* The loop never ends and catches what a pass raises, a started coroutine goes on, and
\* an exchange that is asked again and again answers in the end.
FairSpec ==
  /\ Spec
  /\ \A i \in Passes  : WF_vars(PassStep(i)) /\ SF_vars(FetchPositions(i, TRUE))
  /\ \A t \in Traders : WF_vars(TradeStep(t))

-------------------------------------------------------------------------------
(* Properties.                                                             *)

Position == [status: {"none", "open", "closed"}, size: Int, miss: Nat,
             divergent: BOOLEAN]
Looking == [at: {"idle", "loaded", "fetched", "select", "close", "reduce", "clear"},
            row: Rows \cup {NULL}, size: Int, miss: Nat, flagged: BOOLEAN,
            seen: Int \cup {NULL}, full: BOOLEAN, cut: Int]
Trading == [at: {"idle", "filled", "top up", "create", "closing", "commit"},
            row: Rows \cup {NULL}, size: Int, base: Int, full: BOOLEAN]

\* Every variable holds a value of its kind; the exchange never goes below flat.
TypeOK ==
  /\ row \in [Rows -> Position] /\ held \in 0..MaxSize
  /\ pass \in [Passes -> Looking] /\ trade \in [Traders -> Trading]
  /\ restarts \in 0..MaxRestarts
  /\ real \in [Passes -> 0..MaxSize \cup {NULL}]
  /\ short \in [Rows -> 0..Threshold]

\* The stored counter never runs ahead of the confirmed, consecutive reads that earned
\* it: outages, matches, excesses, restarts and trading in between do not raise it.
MissIsEarned == \A r \in Rows : Least(row[r].miss, Threshold) <= short[r]

Cuts(i, r) == pass[i].at \in {"close", "reduce"} /\ pass'[i] # pass[i] /\ row'[r] # row[r]

\* "never close or shrink a row on a single exchange read": a pass cuts a row only after
\* the threshold of confirmed, consecutive short reads of that very row.
ActsOnStreak ==
  [][\A i \in Passes, r \in Rows : Cuts(i, r) => short[r] >= Threshold]_vars

Settled == \A t \in Traders : trade[t].at = "idle"

\* No live position is left behind: with nothing in flight, lots the exchange holds have
\* an open row.
NoOrphan == Settled /\ (\A i \in Passes : pass[i].at = "idle") /\ held > 0 => Open # {}

TooLarge(r) == IsOpen(r) /\ (row[r].size > held \/ held = 0)
TooSmall(r) == IsOpen(r) /\ held > 0 /\ row[r].size < held

\* Once trading pauses, no row goes on showing lots the exchange does not hold: whatever
\* triggers took, closes failed to record or a restart cut short is written off.
Heals == <>[]Settled => <>[](\A r \in Rows : ~TooLarge(r))

\* Once trading pauses, a row that shows less than the exchange holds is flagged.
ExcessIsFlagged ==
  <>[]Settled => <>[](\A r \in Rows : TooSmall(r) => row[r].divergent)

===============================================================================
