------------------------------ MODULE EngineLoops ------------------------------
(***************************************************************************)
(* The signal engine: one strategy, its position, and the loops around it. *)
(*                                                                         *)
(* entry  on every closed 1h bar: the RSI exit, then entries and flips;    *)
(* near   polls the forming 1m bar and feeds its close to the bracket;     *)
(* net    feeds every closed 1m bar's high and low to the bracket;         *)
(* intra  polls the forming 1h bar, for strategies that enter within it.   *)
(*                                                                         *)
(* A bracket is an object of its own: a loop that has read it goes on with *)
(* it over its awaits, whatever the position has become.  Prices are       *)
(* offsets in twentieths of a per cent, a bracket's levels gains on its    *)
(* side, and an hour has two minutes.                                      *)
(***************************************************************************)
EXTENDS Integers, Sequences

CONSTANTS
  Scripts,    \* [intrabar, minutes, hours, faults]: 1m bars [high, low, close], 1h bars
              \* [cross, extreme], what may fail
  MaxTrades,  \* brackets ever made
  NULL

Loops == {"entry", "near", "net", "intra"}

VARIABLES
  script,
  minute,     \* closed 1m bars
  side,       \* position.side
  bracket,    \* position.bracket, 0 for none
  since,      \* position.entry_bar_time
  brackets,   \* every BracketState made
  loops,
  seen,       \* last bar each subscription delivered
  rows,       \* shadow_signals
  faults,
  raced       \* history: two loops were in the middle of something at once

position == <<side, bracket, since>>
vars == <<script, minute, position, brackets, loops, seen, rows, faults, raced>>

-------------------------------------------------------------------------------
(* A bracket.                                                              *)

Stop == 14  Tight == 7  BreakEven == 2  Arm == 8  Target1 == 10  Target2 == 20
Trail == 6  Part == 50

Greater(a, b) == IF a > b THEN a ELSE b
Leg(reason, size) == [reason |-> reason, size |-> size]

NewBracket(s, entry) ==
  [side |-> s, entry |-> entry, stop |-> -Stop, peak |-> 0, left |-> 100,
   armed |-> FALSE, hit |-> FALSE, tight |-> FALSE, closed |-> FALSE]

\* RSI extremes tighten the stop once, and only before the first target.
Tightens(b, extreme) == extreme /\ ~b.hit /\ ~b.tight

\* The stop is checked before the targets; a bar that reaches both takes both.
Update(b, best, worst, extreme) ==
  LET peak   == Greater(b.peak, best)
      tight  == Tightens(b, extreme)
      stop   == IF tight THEN -Tight ELSE b.stop
      armed  == b.armed \/ best >= Arm
      limit  == IF armed THEN Greater(stop, peak - Trail) ELSE stop
      first  == ~b.hit /\ best >= Target1
      left   == IF first THEN b.left - Part ELSE b.left
      second == (b.hit \/ first) /\ best >= Target2
      marked == [b EXCEPT !.peak = peak, !.stop = stop, !.tight = @ \/ tight, !.armed = armed] IN
  IF b.closed THEN [now |-> b, legs |-> <<>>]
  ELSE IF worst <= limit
  THEN [now  |-> [marked EXCEPT !.closed = TRUE],
        legs |-> <<Leg(IF worst > stop THEN "trail" ELSE IF b.hit THEN "be_stop" ELSE "stop", b.left)>>]
  ELSE [now  |-> [marked EXCEPT !.hit = @ \/ first, !.left = left, !.closed = second,
                                !.stop = IF first THEN BreakEven ELSE @],
        legs |-> (IF first THEN <<Leg("tp1", Part)>> ELSE <<>>)
                   \o (IF second THEN <<Leg("tp2", left)>> ELSE <<>>)]

Gain(b, p) == IF b.side = "long" THEN p - b.entry ELSE b.entry - p
Feed(b, high, low, extreme) ==
  IF b.side = "long" THEN Update(b, Gain(b, high), Gain(b, low), extreme)
  ELSE Update(b, Gain(b, low), Gain(b, high), extreme)

-------------------------------------------------------------------------------
(* Bars and rows.                                                          *)

PerHour   == 2
Bar(m)    == script.minutes[m]
Hour(h)   == script.hours[h]
Hours     == minute \div PerHour
CloseOf(h) == Bar(h * PerHour).close
HourTime(h)   == (h - 1) * PerHour
MinuteTime(m) == m - 1

Extreme(b, h) == Hour(h).extreme = b.side
Live == bracket # 0 /\ ~brackets[bracket].closed

Row(signal, s, time, leg, of) ==
  [signal |-> signal, side |-> s, time |-> time, reason |-> leg.reason, size |-> leg.size, of |-> of]
Key(r) == <<r.signal, r.side, r.time, r.reason>>

\* ON CONFLICT DO NOTHING.
Stored(set, r) == IF \E q \in set : Key(q) = Key(r) THEN set ELSE set \cup {r}

\* The side the strategy is on by now.
SideNow(b) == IF side = NULL THEN "short" ELSE side

\* "Side of the bracket being closed -- NOT strategy.position.side".
SideOf(b) == brackets[b].side
ExitRow(b, leg, time) == Row("close", SideOf(b), time, leg, b)

Idle == [at |-> "idle", of |-> 0, todo |-> <<>>, time |-> 0, price |-> 0]
Set(l, r) ==
  /\ loops' = [loops EXCEPT ![l] = r]
  /\ raced' = (raced \/ \E k \in Loops \ {l} : loops[k].at # "idle")
Fault == faults < script.faults /\ faults' = faults + 1

MarkFlat == side' = NULL /\ bracket' = 0 /\ since' = 0

\* Only the bracket is cleared: evaluate() has set the new side already.
ClearBracket == bracket' = 0 /\ since' = 0 /\ UNCHANGED side

-------------------------------------------------------------------------------
(* evaluate(): a cross against the side is a flip, a cross from flat an    *)
(* entry.                                                                  *)

Toward(cross) == IF cross = "up" THEN "long" ELSE "short"
Signals(s, cross) ==
  IF cross = "none" \/ s = Toward(cross) THEN <<>>
  ELSE (IF s = NULL THEN <<>> ELSE <<[signal |-> "close", side |-> s]>>)
         \o <<[signal |-> "open", side |-> Toward(cross)]>>
SideAfter(s, cross) == IF cross = "none" THEN s ELSE Toward(cross)

\* evaluate() moves the side at once; the rows and the brackets follow.
Evaluate(l, from, cross, time, price) ==
  /\ side' = SideAfter(from, cross)
  /\ IF Signals(from, cross) = <<>> THEN Set(l, Idle)
     ELSE Set(l, [Idle EXCEPT !.at = "signals", !.todo = Signals(from, cross),
                              !.time = time, !.price = price])

StoreSignal(l) ==
  LET it == loops[l]  sig == Head(it.todo) IN
  /\ it.at = "signals"
  /\ rows' = Stored(rows, Row(sig.signal, sig.side, it.time, Leg("", 0), 0))
  /\ IF sig.signal = "close" THEN ClearBracket /\ UNCHANGED brackets
     ELSE /\ Len(brackets) < MaxTrades
          /\ brackets' = Append(brackets, NewBracket(sig.side, it.price))
          /\ bracket' = Len(brackets) + 1 /\ since' = it.time /\ UNCHANGED side
  /\ Set(l, IF Len(it.todo) = 1 THEN Idle ELSE [it EXCEPT !.todo = Tail(it.todo)])
  /\ UNCHANGED <<script, minute, seen, faults>>

StoreSignalFails ==
  /\ loops["intra"].at = "signals" /\ Fault /\ Set("intra", Idle)
  /\ UNCHANGED <<script, minute, position, brackets, seen, rows>>

\* What follows the exits of a closed 1h bar: entries and flips, unless they are intrabar.
EntriesAt(from, h) ==
  Evaluate("entry", from, IF script.intrabar THEN "none" ELSE Hour(h).cross, HourTime(h), CloseOf(h))

-------------------------------------------------------------------------------
(* Exits.                                                                  *)

\* A loop has fed bracket b: its legs are stored one await each.
Exit(l, b, fed, time) ==
  /\ brackets' = [brackets EXCEPT ![b] = fed.now]
  /\ Set(l, [Idle EXCEPT !.at = "legs", !.of = b, !.todo = fed.legs, !.time = time])

NearPoll ==
  /\ loops["near"].at = "idle" /\ Live
  /\ Set("near", [Idle EXCEPT !.at = "read", !.of = bracket])
  /\ UNCHANGED <<script, minute, position, brackets, seen, rows, faults>>

NearRead ==
  LET b == loops["near"].of IN
  /\ loops["near"].at = "read" /\ minute < Len(script.minutes)
  /\ \E p \in {Bar(minute + 1).low, Bar(minute + 1).high, Bar(minute + 1).close} :
       LET fed == Feed(brackets[b], p, p, FALSE) IN
       IF fed.legs # <<>> THEN Exit("near", b, fed, MinuteTime(minute + 1)) /\ UNCHANGED position
       ELSE /\ brackets' = [brackets EXCEPT ![b] = fed.now] /\ Set("near", Idle)
            /\ IF fed.now.closed THEN MarkFlat ELSE UNCHANGED position
  /\ UNCHANGED <<script, minute, seen, rows, faults>>

\* No forming bar, or Redis does not answer.
NearReadsNothing ==
  /\ loops["near"].at = "read" /\ Set("near", Idle)
  /\ UNCHANGED <<script, minute, position, brackets, seen, rows, faults>>

NetBar ==
  LET m == seen.minute + 1  fed == Feed(brackets[bracket], Bar(m).high, Bar(m).low, FALSE) IN
  /\ loops["net"].at = "idle" /\ seen.minute < minute
  /\ seen' = [seen EXCEPT !.minute = m]
  /\ IF ~Live THEN UNCHANGED <<brackets, loops, raced>>
     ELSE IF fed.legs # <<>> THEN Exit("net", bracket, fed, MinuteTime(m))
     ELSE brackets' = [brackets EXCEPT ![bracket] = fed.now] /\ UNCHANGED <<loops, raced>>
  /\ UNCHANGED <<script, minute, position, rows, faults>>

EntryBar ==
  LET h == seen.hour + 1
      fed == Feed(brackets[bracket], CloseOf(h), CloseOf(h), Extreme(brackets[bracket], h)) IN
  /\ loops["entry"].at = "idle" /\ seen.hour < Hours
  /\ seen' = [seen EXCEPT !.hour = h]
  /\ IF Live /\ fed.legs # <<>>
     THEN Exit("entry", bracket, fed, HourTime(h)) /\ UNCHANGED position
     ELSE /\ brackets' = IF Live THEN [brackets EXCEPT ![bracket] = fed.now] ELSE brackets
          /\ EntriesAt(side, h) /\ UNCHANGED <<bracket, since>>
  /\ UNCHANGED <<script, minute, rows, faults>>

\* After the last leg: flat if the bracket is closed, and the entry loop goes on.
StoreLeg(l) ==
  LET it == loops[l]  closed == brackets[it.of].closed IN
  /\ it.at = "legs"
  /\ rows' = Stored(rows, ExitRow(it.of, Head(it.todo), it.time))
  /\ IF Len(it.todo) > 1
     THEN Set(l, [it EXCEPT !.todo = Tail(it.todo)]) /\ UNCHANGED position
     ELSE IF l = "entry"
     THEN /\ EntriesAt(IF closed THEN NULL ELSE side, seen.hour)
          /\ IF closed THEN bracket' = 0 /\ since' = 0 ELSE UNCHANGED <<bracket, since>>
     ELSE Set(l, Idle) /\ IF closed THEN MarkFlat ELSE UNCHANGED position
  /\ UNCHANGED <<script, minute, brackets, seen, faults>>

\* The loop survives it, and goes to its next bar.
StoreLegFails(l) ==
  /\ l # "entry" /\ loops[l].at = "legs" /\ Fault /\ Set(l, Idle)
  /\ UNCHANGED <<script, minute, position, brackets, seen, rows>>

\* The forming hour has crossed by now, or has not.
IntraPoll ==
  LET h == Hours + 1 IN
  /\ script.intrabar /\ loops["intra"].at = "idle"
  /\ minute < Len(script.minutes) /\ h <= Len(script.hours)
  /\ Len(brackets) < MaxTrades /\ Signals(side, Hour(h).cross) # <<>>
  /\ Evaluate("intra", side, Hour(h).cross, HourTime(h), Bar(minute + 1).close)
  /\ UNCHANGED <<script, minute, bracket, since, brackets, seen, rows, faults>>

-------------------------------------------------------------------------------
(* A start: the 1h bars on record are evaluated again, then the 1m bars    *)
(* since the entry are run through the bracket that is left.               *)

WarmUp(h) ==
  LET w[k \in 0..h] ==
        IF k = 0 THEN [side |-> NULL, at |-> 0, rows |-> {}]
        ELSE LET was == w[k - 1]  cross == Hour(k).cross  sigs == Signals(was.side, cross) IN
             [side |-> SideAfter(was.side, cross),
              at   |-> IF sigs = <<>> THEN was.at ELSE k,
              rows |-> was.rows \cup {Row(sigs[i].signal, sigs[i].side, HourTime(k), Leg("", 0), 0) :
                                        i \in 1..Len(sigs)}]
  IN w[h]

CatchUp(b, from, of) ==
  LET c[m \in from..minute] ==
        IF m = from THEN [now |-> b, rows |-> {}]
        ELSE LET was == c[m - 1]  fed == Feed(was.now, Bar(m).high, Bar(m).low, FALSE) IN
             [now  |-> fed.now,
              rows |-> was.rows \cup {Row("close", b.side, MinuteTime(m), fed.legs[i], of) :
                                        i \in 1..Len(fed.legs)}]
  IN c[minute]

\* The entry loop died or the process did.  A bar that closes after the history is read
\* and before the subscription stands is seen by nobody.
Restart ==
  \E h \in {Hours, Hours - 1} \cap Nat :
    LET w == WarmUp(h)
        of == Len(brackets) + 1
        c == CatchUp(NewBracket(w.side, CloseOf(w.at)), w.at * PerHour, of)
        found == w.rows \cup (IF w.at = 0 THEN {} ELSE c.rows) IN
    /\ Fault /\ Len(brackets) < MaxTrades
    /\ loops' = [l \in Loops |-> Idle] /\ seen' = [minute |-> minute, hour |-> Hours]
    /\ rows' = rows \cup {r \in found : \A q \in rows : Key(q) # Key(r)}
    /\ brackets' = IF w.at = 0 THEN brackets ELSE Append(brackets, c.now)
    /\ IF w.at = 0 \/ c.now.closed THEN MarkFlat
       ELSE side' = w.side /\ bracket' = of /\ since' = HourTime(w.at)
    /\ UNCHANGED <<script, minute, raced>>

\* A bound: the next minute ends after every bar before it has been delivered.
Tick ==
  /\ minute < Len(script.minutes) /\ minute' = minute + 1
  /\ seen.minute = minute /\ seen.hour = Hours
  /\ UNCHANGED <<script, position, brackets, loops, seen, rows, faults, raced>>

Init ==
  /\ script \in Scripts /\ minute = 0 /\ side = NULL /\ bracket = 0 /\ since = 0
  /\ brackets = <<>> /\ loops = [l \in Loops |-> Idle] /\ seen = [minute |-> 0, hour |-> 0]
  /\ rows = {} /\ faults = 0 /\ raced = FALSE

Next ==
  \/ Tick \/ NearPoll \/ NearRead \/ NearReadsNothing \/ NetBar \/ EntryBar \/ IntraPoll
  \/ \E l \in Loops : StoreSignal(l) \/ StoreLeg(l) \/ StoreLegFails(l)
  \/ StoreSignalFails \/ Restart

Spec == Init /\ [][Next]_vars

-------------------------------------------------------------------------------
(* Properties.                                                             *)

TypeOK ==
  /\ script \in Scripts /\ minute \in 0..Len(script.minutes)
  /\ side \in {"long", "short", NULL} /\ bracket \in 0..Len(brackets)
  /\ Len(brackets) <= MaxTrades /\ seen.minute <= minute /\ seen.hour <= Hours
  /\ \A b \in DOMAIN brackets : brackets[b].left \in {Part, 100} /\ brackets[b].stop <= BreakEven
  /\ \A l \in Loops : loops[l].at \in {"idle", "read", "legs", "signals"}
                      /\ loops[l].of \in 0..Len(brackets)

Exits(b) == {r \in rows : r.of = b}
Taken(b) ==
  LET of(reason) == {r \in Exits(b) : r.reason = reason}
      size(reason) == IF of(reason) = {} THEN 0 ELSE (CHOOSE r \in of(reason) : TRUE).size IN
  size("tp1") + size("tp2") + size("stop") + size("be_stop") + size("trail")

\* Whichever loops feed a bracket, and however stale their hold of it, its exits are
\* recorded on its own side and take out at most what was opened.
ExitsAddUp ==
  \A b \in DOMAIN brackets :
    Taken(b) <= 100 /\ \A r \in Exits(b) : r.side = brackets[b].side

\* "no second copy to keep in sync": when the loops' turns do not overlap and no store
\* fails, the side, the bracket and the bracket's side agree between them, flips included.
InStep ==
  ~raced /\ (\A l \in Loops : loops[l].at = "idle") /\ faults = 0
    => IF bracket = 0 THEN side = NULL
       ELSE side = brackets[bracket].side /\ ~brackets[bracket].closed
-------------------------------------------------------------------------------
(* Why it holds.                                                           *)

Sides    == {"long", "short"}
Final    == {"tp2", "stop", "be_stop", "trail"}
Brackets == [side : Sides, entry : Int, stop : {-Stop, -Tight, BreakEven}, peak : Int,
             left : {Part, 100}, armed : BOOLEAN, hit : BOOLEAN, tight : BOOLEAN, closed : BOOLEAN]
LegSet   == [reason : Final \cup {"tp1"}, size : {Part, 100}]
SigSet   == [signal : {"open", "close"}, side : Sides]
LoopSet  == [at : {"idle", "read", "legs", "signals"}, of : Nat,
             todo : Seq(LegSet) \cup Seq(SigSet), time : Int, price : Int]
RowSet   == [signal : {"open", "close"}, side : Sides, time : Int,
             reason : Final \cup {"tp1", ""}, size : {0, Part, 100}, of : Nat]

EngineTypes ==
  /\ script \in Scripts /\ minute \in 0..Len(script.minutes)
  /\ side \in Sides \cup {NULL} /\ bracket \in 0..Len(brackets)
  /\ brackets \in Seq(Brackets) /\ Len(brackets) <= MaxTrades
  /\ loops \in [Loops -> LoopSet] /\ rows \subseteq RowSet
  /\ seen \in [minute : 0..minute, hour : 0..Hours] /\ faults \in Nat /\ raced \in BOOLEAN

\* What a loop holds on to is there.
LoopFits(l) ==
  /\ loops[l].of \in 0..Len(brackets)
  /\ loops[l].at = "read" => loops[l].of # 0
  /\ loops[l].at = "legs" => /\ loops[l].of # 0 /\ loops[l].todo \in Seq(LegSet) \ {<<>>}
                             /\ l = "entry" => seen.hour # 0
  /\ loops[l].at = "signals" => loops[l].todo \in Seq(SigSet) \ {<<>>}

\* The exits a bracket has given: stored, or with a loop that is about to store them.
Stores(l, b) ==
  IF loops[l].at = "legs" /\ loops[l].of = b
  THEN {loops[l].todo[i] : i \in DOMAIN loops[l].todo} ELSE {}
Given(b) == {Leg(r.reason, r.size) : r \in Exits(b)} \cup UNION {Stores(l, b) : l \in Loops}

\* A bracket gives its first target once, and then one exit that closes it with all the rest.
GivesOnce(b, outs) ==
  /\ b.left = IF b.hit THEN Part ELSE 100
  /\ \A x \in outs : IF x.reason = "tp1" THEN x.size = Part /\ b.hit
                     ELSE x.reason \in Final /\ x.size = b.left /\ b.closed
  /\ \A x, y \in outs : "tp1" \notin {x.reason, y.reason} => x.reason = y.reason

Sided == \A r \in rows : r.of \in 0..Len(brackets) /\ (r.of # 0 => r.side = brackets[r.of].side)

\* While one loop's turn follows another's, only the one that is on may be ahead of the position.
Agree ==
  IF bracket = 0 THEN side = NULL ELSE side = brackets[bracket].side /\ ~brackets[bracket].closed
Turn(l) ==
  LET it == loops[l] IN
  /\ it.at = "read" => Agree /\ it.of = bracket
  /\ it.at = "legs" => it.of = bracket /\ side = brackets[bracket].side
  /\ it.at = "signals" =>
       /\ it.todo[Len(it.todo)] = [signal |-> "open", side |-> side]
       /\ IF Len(it.todo) = 1 THEN bracket = 0
          ELSE Len(it.todo) = 2 /\ it.todo[1].signal = "close"
InTurn ==
  ~raced /\ faults = 0 =>
    /\ \A l, k \in Loops : loops[l].at # "idle" /\ loops[k].at # "idle" => l = k
    /\ (\A l \in Loops : loops[l].at = "idle") => Agree
    /\ \A l \in Loops : Turn(l)

EngineInv ==
  /\ EngineTypes /\ Sided /\ InTurn /\ \A l \in Loops : LoopFits(l)
  /\ \A b \in DOMAIN brackets : GivesOnce(brackets[b], Given(b))
===============================================================================
