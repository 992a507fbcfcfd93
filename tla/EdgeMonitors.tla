---------------------------- MODULE EdgeMonitors ----------------------------
(***************************************************************************)
(* The edge-triggered monitors that feed the notification stream.          *)
(*                                                                         *)
(*   health   notification-service's watcher: heartbeats, /health of the   *)
(*            services, and the accounts, which must miss twice in a row.  *)
(*            It remembers up and down in memory; a failing emit raises,   *)
(*            ends the pass, and is tried again by the next one.           *)
(*   funding  ai-signal-generator's funding monitor, with hysteresis, and  *)
(*            the harvest plan it arms and expires.                        *)
(*   llm      ai-signal-generator's health monitor of the LLM cycles.      *)
(*                                                                         *)
(* The last two remember in a Redis hash and swallow a failing emit.       *)
(***************************************************************************)
EXTENDS Naturals, SequencesExt

CONSTANTS
  Worlds,      \* [monitor, targets]: who watches what, in the order of a pass
  Threshold,   \* misses in a row before an account is reported
  MaxMoves,    \* bound: changes of the watched conditions
  MaxFaults,   \* bound: failing calls
  MaxCrashes   \* bound: restarts of the monitor's process

VARIABLES
  world,    \* the monitor and its targets
  level,    \* the condition of each target: 0 good, 1 between the thresholds, 2 bad
  told,     \* what the monitor remembers of each target
  fails,    \* consecutive misses of an account
  stream,   \* the edges put on the notification stream
  plan,     \* the funding-harvest plan of each target
  pass,     \* where the monitor is in its pass
  run,      \* how often in a row the account really missed, in this process
  torn,     \* targets whose event and memory were parted by a fault or a crash
  stale,    \* coins whose plan could not be expired, or was armed by a cycle cut short
  moves, faults, crashes

vars == <<world, level, told, fails, stream, plan, pass, run, torn, stale, moves, faults, crashes>>
budget == <<moves, faults, crashes>>

Kinds == {"exchange", "service", "account", "coin", "strategy"}
Targets == DOMAIN world.targets
Kind(t) == world.targets[t]
InMemory == world.monitor = "health"
Resting == [at |-> 0, step |-> "idle", bad |-> FALSE]
Current == pass.at

Edge(t) == [target |-> t, bad |-> ~told[t], run |-> run[t]]
\* What the stream last said of the target was bad.
LastEdge(t) == \E i \in DOMAIN stream :
                 /\ stream[i].target = t /\ stream[i].bad
                 /\ \A j \in DOMAIN stream : stream[j].target = t => j <= i

\* Where the pass goes after target t.
After(t) == IF t = Len(world.targets) THEN Resting ELSE [at |-> t + 1, step |-> "probe", bad |-> FALSE]

Init ==
  /\ world \in Worlds
  /\ level = [t \in Targets |-> 0]
  /\ told = [t \in Targets |-> FALSE]
  /\ fails = [t \in Targets |-> 0] /\ run = [t \in Targets |-> 0]
  /\ stream = <<>>
  /\ plan = [t \in Targets |-> "none"]
  /\ pass = Resting
  /\ torn = {} /\ stale = {}
  /\ moves = 0 /\ faults = 0 /\ crashes = 0

\* A feed stalls, a service dies, a key is revoked, funding rises, cycles fail; only the
\* measured shares of funding and cycles have a zone between their two thresholds.
Move(t) ==
  /\ moves < MaxMoves
  /\ \E l \in (IF InMemory THEN {0, 2} ELSE 0..2) \ {level[t]} : level' = [level EXCEPT ![t] = l]
  /\ moves' = moves + 1
  /\ UNCHANGED <<world, told, fails, stream, plan, pass, run, torn, stale, faults, crashes>>

Begin ==
  /\ pass = Resting
  /\ pass' = After(0)
  /\ UNCHANGED <<world, level, told, fails, stream, plan, run, torn, stale, budget>>

(***************************************************************************)
(* One target: read it, and emit when it crossed its threshold.  Beyond    *)
(* its threshold a longer run of misses makes no difference, so the        *)
(* counters stop there.                                                    *)
(***************************************************************************)
OneMore(n) == IF n < Threshold THEN n + 1 ELSE n
Missed(t, l) == IF l = 2 THEN OneMore(fails[t]) ELSE 0

UpOrDown(t, l) == IF told[t] THEN l = 0 ELSE l = 2
AccountEdge(t, l) == IF told[t] THEN l = 0 ELSE l = 2 /\ Missed(t, l) >= Threshold
\* Between the two thresholds neither edge fires.
HysteresisEdge(t, l) == (~told[t] /\ l = 2) \/ (told[t] /\ l = 0)

Probing(kind) == pass.step = "probe" /\ Kind(Current) = kind
Fault == faults < MaxFaults /\ faults' = faults + 1

\* A coin's plan comes before its event.
Crossing == IF Kind(Current) = "coin" THEN "plan" ELSE "emit"

\* What was read of the current target, and whether that crossed.
Observe(l, crossed) ==
  /\ run' = [run EXCEPT ![Current] = IF l = 2 THEN OneMore(@) ELSE 0]
  /\ pass' = IF crossed THEN [pass EXCEPT !.step = Crossing, !.bad = ~told[Current]] ELSE After(Current)
  /\ UNCHANGED <<world, level, told, stream, plan, torn, stale, moves, crashes>>

\* A call that does not answer counts as a bad answer, at the price of a fault.
Answered(l) == (l = level[Current] /\ faults' = faults) \/ (l = 2 /\ Fault)

ProbeExchange ==
  /\ Probing("exchange")
  /\ Observe(level[Current], UpOrDown(Current, level[Current]))
  /\ UNCHANGED <<fails, faults>>

ProbeService ==
  /\ Probing("service")
  /\ \E l \in {0, 2} : Answered(l) /\ Observe(l, UpOrDown(Current, l))
  /\ UNCHANGED fails

ProbeAccount ==
  /\ Probing("account")
  /\ \E l \in {0, 2} :
        /\ Answered(l)
        /\ fails' = [fails EXCEPT ![Current] = Missed(Current, l)]
        /\ Observe(l, AccountEdge(Current, l))

ProbeCoin ==
  /\ Probing("coin")
  /\ Observe(level[Current], HysteresisEdge(Current, level[Current]))
  /\ UNCHANGED <<fails, faults>>

ProbeStrategy ==
  /\ Probing("strategy")
  /\ Observe(level[Current], HysteresisEdge(Current, level[Current]))
  /\ UNCHANGED <<fails, faults>>

Unread == UNCHANGED <<world, level, told, fails, stream, plan, run, torn, stale, moves, crashes>>
FirstOfKind == \A t \in 1..(Current - 1) : Kind(t) # Kind(Current)

\* Accounts are on a slower clock than the rest of the pass.
AccountsNotDue == Probing("account") /\ FirstOfKind /\ pass' = Resting /\ Unread /\ UNCHANGED faults

\* A coin whose settlements cannot be fetched, or are too few, is passed over.
CoinSkipped == Probing("coin") /\ Fault /\ pass' = After(Current) /\ Unread

\* Too few cycles in the window for the share to mean anything.
StrategySkipped == Probing("strategy") /\ pass' = After(Current) /\ Unread /\ UNCHANGED faults

\* Redis or the database does not answer: the pass ends here.
ReadFails ==
  /\ pass.step = "probe" /\ Kind(Current) # "service"
  /\ Kind(Current) \in {"account", "strategy"} => FirstOfKind
  /\ Fault
  /\ pass' = Resting
  /\ Unread

\* A plan is armed before the event goes out and expired before it; neither step raises, and
\* an unsupported coin, a thin book or a failing query leaves the plans as they were.
BuildPlan(t) ==
  /\ plan' \in {plan, [plan EXCEPT ![t] = "armed"]}
  /\ stale' = IF plan' = plan THEN stale ELSE stale \ {t}
ExpirePlans(t) ==
  \/ plan' = [plan EXCEPT ![t] = IF @ = "armed" THEN "expired" ELSE @] /\ stale' = stale \ {t}
  \/ plan' = plan /\ stale' = stale \cup {t}

Plan ==
  /\ pass.step = "plan"
  /\ IF pass.bad THEN BuildPlan(Current) ELSE ExpirePlans(Current)
  /\ pass' = [pass EXCEPT !.step = "emit"]
  /\ UNCHANGED <<world, level, told, fails, stream, run, torn, budget>>

Remember(t) == told' = [told EXCEPT ![t] = pass.bad]

Emit ==
  /\ pass.step = "emit"
  /\ stream' = Append(stream, Edge(Current))
  /\ pass' = [pass EXCEPT !.step = "store"]
  /\ UNCHANGED <<world, level, told, fails, plan, run, torn, stale, budget>>

\* A new state is remembered once its event is out; the watcher's memory cannot fail.
Store ==
  /\ pass.step = "store"
  /\ Remember(Current)
  /\ torn' = torn \ {Current}
  /\ pass' = After(Current)
  /\ UNCHANGED <<world, level, fails, stream, plan, run, stale, budget>>

EmitSwallowed ==
  /\ pass.step = "emit"
  /\ Fault
  /\ Remember(Current)
  /\ torn' = IF InMemory THEN torn ELSE torn \cup {Current}
  /\ pass' = After(Current)
  /\ UNCHANGED <<world, level, fails, stream, plan, run, stale, moves, crashes>>

\* A failing emit ends the watcher's pass with nothing remembered; the other monitors log it
\* and remember an edge nobody was told of.
EmitFails ==
  /\ pass.step = "emit"
  /\ IF InMemory
     THEN /\ Fault
          /\ pass' = Resting
          /\ UNCHANGED <<world, level, told, fails, stream, plan, run, torn, stale, moves, crashes>>
     ELSE EmitSwallowed

\* The event is on the stream and the call raised all the same, or the hash was not written.
EmitBlurred ==
  /\ pass.step = "store"
  /\ Fault
  /\ torn' = torn \cup {Current}
  /\ pass' = Resting
  /\ UNCHANGED <<world, level, told, fails, stream, plan, run, stale, moves, crashes>>

\* The watcher starts over with everything up; the hash survives.
Crash ==
  /\ crashes < MaxCrashes
  /\ crashes' = crashes + 1
  /\ pass' = Resting
  /\ run' = [t \in Targets |-> 0] /\ fails' = [t \in Targets |-> 0]
  /\ told' = IF InMemory THEN [t \in Targets |-> FALSE] ELSE told
  /\ torn' = torn \cup (IF InMemory THEN {t \in Targets : told[t]} ELSE {})
                  \cup (IF pass.step = "store" THEN {Current} ELSE {})
  /\ stale' = stale \cup (IF pass.step = "emit" /\ plan[Current] = "armed" THEN {Current} ELSE {})
  /\ UNCHANGED <<world, level, stream, plan, moves, faults>>

Next ==
  \/ Begin
  \/ ProbeExchange \/ ProbeService \/ ProbeAccount \/ ProbeCoin \/ ProbeStrategy
  \/ AccountsNotDue \/ CoinSkipped \/ StrategySkipped \/ ReadFails
  \/ Plan \/ Emit \/ EmitFails \/ EmitBlurred \/ Store \/ Crash
  \/ \E t \in Targets : Move(t)

Spec == Init /\ [][Next]_vars

TypeOK ==
  /\ told \in [Targets -> BOOLEAN]
  /\ level \in [Targets -> 0..2]
  /\ fails \in [Targets -> Nat] /\ run \in [Targets -> Nat]
  /\ plan \in [Targets -> {"none", "armed", "expired"}]
  /\ torn \cup stale \subseteq Targets
  /\ pass.at \in 0..Len(world.targets) /\ pass.step \in {"idle", "probe", "plan", "emit", "store"}
  /\ ToSet(stream) \subseteq [target : Targets, bad : BOOLEAN, run : Nat]

----------------------------------------------------------------------------
(***************************************************************************)
(* What a monitor remembers is what the stream last said of the target,    *)
(* except between an event and its memory and where a fault or a restart   *)
(* parted the two ("edge-triggered ... so they get logged + delivered",    *)
(* health_watcher.py docstring).  An account goes down on the stream only  *)
(* after Threshold misses in a row, and a coin that cooled keeps no armed  *)
(* plan unless expiring it failed or a crash came between plan and event.  *)
(***************************************************************************)
EdgesAreTold ==
  /\ \A t \in Targets \ torn :
        (pass.step = "store" /\ Current = t) \/ (told[t] <=> LastEdge(t))
  /\ \A i \in DOMAIN stream :
        Kind(stream[i].target) = "account" /\ stream[i].bad => stream[i].run >= Threshold
  /\ \A t \in Targets \ (torn \cup stale) :
        plan[t] = "armed" => told[t] \/ (pass.step \in {"emit", "store"} /\ Current = t)

----------------------------------------------------------------------------
(* Why it holds: an edge under way is the opposite of what is remembered,  *)
(* an account's is earned by its run of misses, and once it is out the     *)
(* stream says what is about to be remembered; a plan that outlived its    *)
(* expiry is known to.                                                     *)

EdgeTypes ==
  /\ world \in Worlds
  /\ level \in [Targets -> 0..2] /\ told \in [Targets -> BOOLEAN]
  /\ fails \in [Targets -> Nat] /\ run \in [Targets -> Nat]
  /\ plan \in [Targets -> {"none", "armed", "expired"}]
  /\ stream \in Seq([target : Targets, bad : BOOLEAN, run : Nat])
  /\ pass \in [at : 0..Len(world.targets), step : {"idle", "probe", "plan", "emit", "store"},
               bad : BOOLEAN]
  /\ pass.step \in {"probe", "plan", "emit", "store"} => Current \in Targets

Judged ==
  pass.step \in {"plan", "emit", "store"} =>
    /\ pass.bad <=> ~told[Current]
    /\ Kind(Current) = "account" /\ pass.bad => run[Current] >= Threshold
Counted == \A t \in Targets : Kind(t) = "account" => fails[t] = run[t]
Posted  == pass.step = "store" => (LastEdge(Current) <=> pass.bad)
Plans ==
  /\ \A t \in Targets : Kind(t) # "coin" => plan[t] = "none"
  /\ pass.step = "plan" => Kind(Current) = "coin"
  /\ pass.step \in {"emit", "store"} /\ ~pass.bad /\ plan[Current] = "armed" => Current \in stale

EdgeInv == EdgeTypes /\ Judged /\ Counted /\ Posted /\ Plans /\ EdgesAreTold
============================================================================
