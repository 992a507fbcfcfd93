------------------------------ MODULE MCServices ------------------------------
(***************************************************************************)
(* The services round the listener and the executor's orders, on small     *)
(* instances: the social listener's channel, the signal engine, the AI     *)
(* generator's cycles and its key pool, notifications, the monitors that   *)
(* feed them, candle ingestion and the executor's adapter cache.  They     *)
(* share no state and are checked apart: Init picks the one that moves in  *)
(* a behaviour, `turn'.  As the others are not there at all, v1, v2, ...   *)
(* stand for the VARIABLES of whichever service moves, in the order its    *)
(* module declares them.                                                   *)
(***************************************************************************)
EXTENDS Naturals, Integers, Sequences

CONSTANTS
  Services, NULL,  \* the services to check
  \* What the modules have: bounds of the key pool, candle ingestion and the adapter cache,
  \* the notification stream's events and devices, the monitors and what they watch, what the
  \* AI cycles may see, the posts of the channel, and the bars and brackets of the engine.
  KeyCount, KeyWorlds, Askers, Models, MaxClock, MaxAsks, MaxEdits,
  Window, FetchLimit, LastBar,
  Callers, MaxCalls, MaxRotations, MaxSwitches,
  Feeds, Devices, Replies, Batch, MaxDays,
  Watched, Misses, MaxMoves,
  Outlooks, Cooldown, Quiet, MaxRows,
  Stories, Scripts, MaxTrades,
  MaxFaults, MaxCrashes

\* _MAX_KEYS_PER_CANDIDATE: a call tries three keys per candidate, so all there are.
ASSUME KeysAssumption == KeyCount \in 0..3 /\ Models \in Nat /\ Askers \subseteq Nat
ASSUME KeyWorldsAssumption == KeyWorlds \subseteq [1..KeyCount -> {"good", "limited", "revoked"}]
\* The exchange has a bar when ingestion begins, or two.
ASSUME FeedAssumption ==
  /\ Window \in Nat /\ FetchLimit \in Nat /\ LastBar \in Nat \ {0, 1}
  /\ NULL \notin [t : Nat, final : BOOLEAN]
ASSUME BoundsAssumption == MaxClock \in Nat /\ MaxRotations \in Nat

ASSUME FeedsAssumption ==
  \A f \in Feeds : f \in Seq([kind : {"event", "unknown", "malformed", "bare"},
                              key : STRING \cup {NULL}])
ASSUME DaysAssumption == Batch \in Nat /\ MaxDays \in Nat
ASSUME RepliesAssumption == Replies \subseteq [Devices -> {"delivered", "refused", "gone"}]
\* The health watcher watches what holds candles, services and accounts; it arms no plans.
ASSUME WatchedAssumption ==
  /\ Misses \in Nat
  /\ \A w \in Watched :
       /\ w.targets \in Seq({"exchange", "service", "account", "coin", "strategy"})
       /\ \A t \in DOMAIN w.targets : w.monitor = "health" => w.targets[t] # "coin"

VARIABLES turn,
  v1, v2, v3, v4, v5, v6, v7, v8, v9, v10, v11, v12, v13, v14, v15, v16, v17, v18

cells == <<v1, v2, v3, v4, v5, v6, v7, v8, v9, v10, v11, v12, v13, v14, v15, v16, v17, v18>>
after17 == <<v18>>
after13 == <<v14, v15, v16, v17, after17>>
after12 == <<v13, after13>>
after11 == <<v12, after12>>
after9  == <<v10, v11, after11>>
all == <<turn, cells>>

-------------------------------------------------------------------------------
(* The channel: posts a trader makes about one coin.                       *)

Says(act, dir, level, be) == [act |-> act, dir |-> dir, level |-> level, be |-> be]
Story(multi, start, posts, faults, moves) ==
  [multi |-> multi, start |-> start, posts |-> posts, faults |-> faults, moves |-> moves]
Held(S) == [x \in S |-> FALSE]

\* A trade opened and closed on a hedge account; a flip and then a stop at break-even on
\* a net one; an add to a leg at break-even while the mark swings; a parked trim, and a
\* close before its level; two legs of which one is closed; an open between two recaps, so
\* that its flush can be cut off while a catchup has it on its list.
SixStories ==
  {Story(TRUE, <<>>, <<Says("OPEN", "LONG", NULL, FALSE), Says("CLOSE", NULL, NULL, FALSE)>>, 1, 0),
   Story(FALSE, Held({"LONG"}), <<Says("FLIP", "SHORT", NULL, FALSE), Says("STOP", NULL, NULL, TRUE)>>, 1, 0),
   Story(TRUE, [x \in {"LONG"} |-> TRUE], <<Says("ADD", NULL, NULL, FALSE), Says("RECAP", NULL, NULL, TRUE)>>, 0, 2),
   Story(TRUE, Held({"LONG"}), <<Says("TRIM", NULL, 3, FALSE), Says("CLOSE", "LONG", NULL, FALSE)>>, 1, 1),
   Story(TRUE, [x \in {"LONG", "SHORT"} |-> x = "LONG"], <<Says("CLOSE", "LONG", NULL, FALSE)>>, 1, 0),
   Story(TRUE, <<>>, <<Says("RECAP", NULL, NULL, FALSE), Says("OPEN", "LONG", NULL, FALSE),
                       Says("RECAP", NULL, NULL, FALSE)>>, 1, 0)}

C == INSTANCE SocialChannel WITH
  Worlds <- Stories,
  world <- v1, up <- v2, posted <- v3, buffer <- v4, logged <- v5, judged <- v6, legs <- v7,
  trims <- v8, judge <- v9, watch <- v10, orders <- v11, pos <- v12, mark <- v13,
  faults <- v14, moves <- v15, slips <- v16, sent <- v17, twice <- v18

\* A post names a leg or none, and a level or none.
ASSUME StoriesAssumption ==
  /\ NULL \notin {"LONG", "SHORT"} /\ NULL \notin 0..3 /\ NULL \notin C!Trims
  /\ \A w \in Stories :
       /\ w.faults \in Nat
       /\ w.posts \in Seq([act : {"OPEN", "CLOSE", "FLIP", "ADD", "TRIM", "STOP", "RECAP"},
                           dir : {"LONG", "SHORT", NULL}, level : 1..3 \cup {NULL}, be : BOOLEAN])

-------------------------------------------------------------------------------
(* The signal engine: up, to the first target and back; a flip with an     *)
(* extreme before it; straight down.                                       *)

Bar(high, low, close) == [high |-> high, low |-> low, close |-> close]
Hour(cross, extreme) == [cross |-> cross, extreme |-> extreme]
ThreeScripts ==
  {[intrabar |-> FALSE, faults |-> 1, hours |-> <<Hour("up", NULL), Hour("down", "long")>>,
    minutes |-> <<Bar(0,0,0), Bar(0,0,0), Bar(11,0,11), Bar(11,-8,-8)>>],
   [intrabar |-> FALSE, faults |-> 0, hours |-> <<Hour("up", NULL), Hour("down", "long")>>,
    minutes |-> <<Bar(0,0,0), Bar(0,0,0), Bar(12,8,12), Bar(22,8,8), Bar(22,8,9)>>],
   [intrabar |-> TRUE, faults |-> 1, hours |-> <<Hour("up", NULL), Hour("down", NULL)>>,
    minutes |-> <<Bar(25,0,25), Bar(25,-15,0), Bar(0,-9,-9)>>]}

E == INSTANCE EngineLoops WITH
  script <- v1, minute <- v2, side <- v3, bracket <- v4, since <- v5, brackets <- v6,
  loops <- v7, seen <- v8, rows <- v9, faults <- v10, raced <- v11

\* A minute of a script has prices.
ASSUME ScriptsAssumption ==
  /\ MaxTrades \in Nat /\ NULL \notin {"long", "short"}
  /\ \A s \in Scripts : s.minutes \in Seq([high : Int, low : Int, close : Int])

-------------------------------------------------------------------------------
(* AI cycles: entries against the clock, a position and an order to        *)
(* manage, a position to recover, and reloads in between.                  *)

Sig(action, confidence) == [action |-> action, confidence |-> confidence]
NewStop(stop) == [action |-> "adjust_stops", confidence |-> 2, stop |-> stop]
Amends(limit, stop) ==
  [action |-> "amend_order", confidence |-> 1, target |-> "long", limit |-> limit, stop |-> stop]
Part(part) == [action |-> "partial_close", confidence |-> 2, part |-> part]
Cancels == [action |-> "cancel_order", confidence |-> 1]
LongRow == [side |-> "long", open |-> TRUE, live |-> TRUE, by |-> NULL, synthetic |-> 0]

FiveOutlooks ==
  {[tasks |-> {"loop", "watch"}, alarms |-> {"volume_spike"}, prices |-> {100}, rows |-> <<>>, resting |-> {}, faults |-> 1,
    clock |-> 3, toggles |-> 0, calls |-> 0, fires |-> 2, market |-> 0,
    signals |-> {Sig("open_long", 2), Sig("place_limit_short", 2)}],
   [tasks |-> {"loop"}, alarms |-> {}, prices |-> {99, 102}, rows |-> <<LongRow>>, resting |-> {"long"},
    faults |-> 0, clock |-> 1, toggles |-> 0, calls |-> 0, fires |-> 1, market |-> 2,
    signals |-> {Sig("close_long", 2), NewStop(98), NewStop(101), Amends(98, 99), Amends(99, 97),
                 Part(50), Part(150), Cancels, Sig("open_short", 1), Sig("open_long", 2)}],
   [tasks |-> {"loop", "kick", "manual"}, alarms |-> {}, prices |-> {100}, rows |-> <<LongRow>>, resting |-> {},
    faults |-> 2, clock |-> 1, toggles |-> 0, calls |-> 1, fires |-> 1, market |-> 2,
    signals |-> {Sig("open_long", 2)}],
   [tasks |-> {"loop", "watch", "kick"}, alarms |-> {"funding_spike"}, prices |-> {100}, rows |-> <<LongRow>>, resting |-> {},
    faults |-> 1, clock |-> 1, toggles |-> 2, calls |-> 3, fires |-> 0, market |-> 1,
    signals |-> {}],
   [tasks |-> {"watch"}, alarms |-> {"volume_spike", "news_high_impact"}, prices |-> {100},
    rows |-> <<>>, resting |-> {}, faults |-> 0, clock |-> 3, toggles |-> 0, calls |-> 0,
    fires |-> 2, market |-> 0, signals |-> {Sig("open_long", 2)}]}

A == INSTANCE AiCycle WITH
  Plans <- Outlooks,
  plan <- v1, now <- v2, slot <- v3, cycles <- v4, loop <- v5, registered <- v6,
  enabled <- v7, reloads <- v8, log <- v9, alerted <- v10, rows <- v11, resting <- v12,
  fired <- v13, faults <- v14, toggles <- v15, calls <- v16, moves <- v17

\* The positions that are there at first are open without a synthetic order, or closed by
\* someone with one at most.
ASSUME OutlooksAssumption ==
  /\ Cooldown \in Nat /\ NULL \notin {"loop", "watch", "kick", "manual", "listener", "recovery"}
  /\ \A p \in Outlooks :
       /\ p.rows \in Seq([side : {"long", "short"}, open : BOOLEAN, live : BOOLEAN,
                         by : {NULL, "listener", "recovery"}, synthetic : 0..1])
       /\ \A i \in DOMAIN p.rows :
            /\ p.rows[i].open => p.rows[i].synthetic = 0
            /\ p.rows[i].open <=> p.rows[i].by = NULL
       /\ p.resting \subseteq {"long", "short"} /\ \A sig \in p.signals : sig.action \in A!Actions

-------------------------------------------------------------------------------
(* Three keys of which one or none is good at first.                       *)

OneGoodKeyOrNone == {<<"revoked", "limited", "good">>, <<"revoked", "revoked", "revoked">>}

K == INSTANCE KeyPool WITH
  Keys <- 1..KeyCount, Callers <- Askers, Candidates <- Models, Kinds <- KeyWorlds,
  MaxCalls <- MaxAsks,
  kind <- v1, table <- v2, pool <- v3, calls <- v4, now <- v5, begun <- v6, faults <- v7,
  edits <- v8, misjudged <- v9

-------------------------------------------------------------------------------
(* The same event twice with a keyless one between; stuck entries ahead of *)
(* a good one; entries that are dropped; a repeat after a repeat.          *)

Entry(kind, key) == [kind |-> kind, key |-> key]
FourFeeds ==
  {<<Entry("event", "opened"), Entry("event", NULL), Entry("event", "opened")>>,
   <<Entry("malformed", NULL), Entry("malformed", NULL), Entry("event", "down")>>,
   <<Entry("bare", NULL), Entry("unknown", NULL), Entry("event", "down")>>,
   <<Entry("event", "down"), Entry("event", "down"), Entry("event", "down")>>}

OneIsGone == {<<"delivered", "gone">>}

N == INSTANCE Notifications WITH
  feed <- v1, stream <- v2, given <- v3, pending <- v4, log <- v5, device <- v6,
  consumer <- v7, day <- v8, pushed <- v9, unlogged <- v10, raised <- v11, crashes <- v12,
  faults <- v13

-------------------------------------------------------------------------------
(* Each monitor on two or three targets.                                   *)

ThreeMonitors ==
  {[monitor |-> "health", targets |-> <<"exchange", "service", "account">>],
   [monitor |-> "funding", targets |-> <<"coin", "coin">>],
   [monitor |-> "llm", targets |-> <<"strategy", "strategy">>]}

M == INSTANCE EdgeMonitors WITH
  Worlds <- Watched, Threshold <- Misses,
  world <- v1, level <- v2, told <- v3, fails <- v4, stream <- v5, plan <- v6, pass <- v7,
  run <- v8, torn <- v9, stale <- v10, moves <- v11, faults <- v12, crashes <- v13

-------------------------------------------------------------------------------
(* Candle ingestion, and the adapter cache.                                *)

F == INSTANCE CandleFeed WITH
  Warmup <- Window, MaxBar <- LastBar,
  bar <- v1, settled <- v2, stream <- v3, forming <- v4, proc <- v5, stalled <- v6,
  missing <- v7, again <- v8, wedged <- v9, faults <- v10, crashes <- v11

R == INSTANCE AdapterCache WITH
  row <- v1, exchange <- v2, adapters <- v3, cached <- v4, call <- v5, rotation <- v6,
  switch <- v7, begun <- v8, rotations <- v9, switches <- v10, faults <- v11, behind <- v12

-------------------------------------------------------------------------------
blank17 == v18 = NULL
blank13 == v14 = NULL /\ v15 = NULL /\ v16 = NULL /\ v17 = NULL /\ blank17
blank12 == v13 = NULL /\ blank13
blank11 == v12 = NULL /\ blank12
blank9  == v10 = NULL /\ v11 = NULL /\ blank11

InitServices ==
  /\ turn \in Services
  /\ \/ turn = "channel"  /\ C!Init
     \/ turn = "engine"   /\ E!Init /\ blank11
     \/ turn = "ai"       /\ A!Init /\ blank17
     \/ turn = "keys"     /\ K!Init /\ blank9
     \/ turn = "notices"  /\ N!Init /\ blank13
     \/ turn = "monitors" /\ M!Init /\ blank13
     \/ turn = "candles"  /\ F!Init /\ blank11
     \/ turn = "adapters" /\ R!Init /\ blank12

NextServices ==
  \/ turn = "channel"  /\ C!Next /\ UNCHANGED turn
  \/ turn = "engine"   /\ E!Next /\ UNCHANGED <<turn, after11>>
  \/ turn = "ai"       /\ A!Next /\ UNCHANGED <<turn, after17>>
  \/ turn = "keys"     /\ K!Next /\ UNCHANGED <<turn, after9>>
  \/ turn = "notices"  /\ N!Next /\ UNCHANGED <<turn, after13>>
  \/ turn = "monitors" /\ M!Next /\ UNCHANGED <<turn, after13>>
  \/ turn = "candles"  /\ F!Next /\ UNCHANGED <<turn, after11>>
  \/ turn = "adapters" /\ R!Next /\ UNCHANGED <<turn, after12>>

-------------------------------------------------------------------------------
(* Fairness: what the modules' FairSpecs ask, each for its own service.    *)

Channel(action)  == turn = "channel" /\ action /\ UNCHANGED turn
ChannelCalls     == Channel(C!Calls)
ChannelWatches   == Channel(C!WatchStep)
ChannelJudges(t) == Channel(C!JudgeStep(t))
CarriedOut       == Channel(\E o \in v11 : C!CarryOut(o))
TimePasses(s)    == Channel(C!Time(s))

Cycle(action)    == turn = "ai" /\ action /\ UNCHANGED <<turn, after17>>
LoopPlans        == Cycle(A!LoopPlans)
LoopRetries      == Cycle(A!LoopRetries)
LoopWakes        == Cycle(A!LoopWakes)
CycleRuns(t)     == Cycle(A!CycleStep(t))
Reloaded         == Cycle(A!ReloadStopped)
ReloadRuns(r)    == Cycle(A!ReloadStarts(r) \/ A!ReloadStops(r))

SpecServices == InitServices /\ [][NextServices]_all
LiveServices ==
  /\ SpecServices
  /\ WF_all(ChannelCalls) /\ WF_all(ChannelWatches) /\ WF_all(CarriedOut)
  /\ \A t \in {"live", "catchup", "backfill"} : WF_all(ChannelJudges(t))
  /\ \A s \in {"LONG", "SHORT"} : WF_all(TimePasses(s))
  /\ WF_all(LoopPlans) /\ WF_all(LoopRetries) /\ WF_all(LoopWakes) /\ WF_all(Reloaded)
  /\ \A t \in {"loop", "watch", "kick", "manual"} : WF_all(CycleRuns(t))
  /\ \A r \in {1, 2} : WF_all(ReloadRuns(r))

-------------------------------------------------------------------------------
(* Properties: those of the modules, each for its own service.             *)

\* The types of the service that moves.
Typed ==
  /\ turn = "channel"  => C!TypeOK
  /\ turn = "engine"   => E!TypeOK
  /\ turn = "ai"       => A!TypeOK
  /\ turn = "keys"     => K!TypeOK
  /\ turn = "notices"  => N!TypeOK
  /\ turn = "monitors" => M!TypeOK
  /\ turn = "candles"  => F!TypeOK
  /\ turn = "adapters" => R!TypeOK

\* One post has one effect, whoever judges it and however often the process dies; a leg
\* outgrows the ceiling by at most one entry; a leg the exchange has closed does not stay on
\* record; and the stop of a leg at break-even follows its entry (ActsOnce, WithinCeiling,
\* NoGhost and HoldsBreakEven of SocialChannel).
ChannelSafe ==
  /\ [](turn = "channel" => C!ActsOnce /\ C!WithinCeiling)
  /\ \A s \in {"LONG", "SHORT"} :
       /\ (turn = "channel" /\ C!Ghost(s)) ~> (turn = "channel" /\ ~C!Ghost(s))
       /\ (turn = "channel" /\ C!RiskOff(s)) ~> (turn = "channel" /\ C!AtEntry(s))

\* The exits of a bracket are recorded on its own side and take out at most what was
\* opened; undisturbed loops agree on what is open (ExitsAddUp, InStep of EngineLoops).
EngineSafe == turn = "engine" => E!ExitsAddUp /\ E!InStep

\* Two entries never come within one cooldown, and a recovery writes at most one synthetic
\* order (OneEntryPerWindow, RecoveredOnce of AiCycle).
CycleSafe == turn = "ai" => A!OneEntryPerWindow /\ A!RecoveredOnce

\* A position the exchange has closed is in the end recorded as closed, by the AI
\* scheduler alone (GoneIsRecorded of AiCycle).
GoneIsRecorded ==
  \A i \in 1..2 : (turn = "ai" /\ A!Unrecorded(i)) ~> (turn = "ai" /\ A!Resolved(i))

\* A call to the models is answered whenever one of its keys was good as it began.
GoodKeyServes == turn = "keys" => K!GoodKeyServes

\* An acknowledged event is in notification_log, and no device gets it twice in a window.
NoticedOnce == turn = "notices" => N!NoticedOnce

\* What a monitor remembers of its target is what the stream last said.
EdgesAreTold == turn = "monitors" => M!EdgesAreTold

\* The candle stream is an unbroken series of closed bars.
FeedIsWhole == turn = "candles" => F!FeedIsWhole

\* The cached adapter has the row's credentials and the exchange's mode.
AdapterIsCurrent == turn = "adapters" => R!AdapterIsCurrent
===============================================================================
