----------------------------- MODULE SocialChannel -----------------------------
(***************************************************************************)
(* The social listener: posts of a channel are judged against the legs it  *)
(* is recorded as holding in one coin, and sent to order-listener.         *)
(*                                                                         *)
(* A post is judged by the live buffer's flush or by the catchup loop, and *)
(* after a restart by the backfill; a watcher clears legs that are gone,   *)
(* fires parked trims and re-asserts break-even stops.  They share the     *)
(* recorded legs, the trims and the log with no lock but one per post, and *)
(* every step below is what runs between two awaits.                       *)
(*                                                                         *)
(* order-listener answers when an order is admitted and carries it out in  *)
(* a task of its own: orders are those admitted and not yet carried out.   *)
(* Sizes are lots, Unit of them a standard entry; a trim takes one.        *)
(***************************************************************************)
EXTENDS Integers, FiniteSets, Sequences

CONSTANTS
  Worlds,     \* [multi, start, posts, faults, moves]: the account's mode, the legs at the
              \* beginning, what will be posted, failures, moves of the mark
  NULL

Sides == {"LONG", "SHORT"}
Judges == {"live", "catchup", "backfill"}

VARIABLES
  world,
  up,         \* backfill is over: the live handler, catchup and the watcher run
  posted,     \* how many posts there are
  buffer,     \* _LiveBuffer._msgs
  logged,     \* social_signal_log
  judged,     \* social_shadow_orders
  legs,       \* social_position_state
  trims,      \* social_pending_trims
  judge,      \* the three callers of handle()
  watch,      \* _pending_trim_loop
  orders,     \* admitted by order-listener
  pos,        \* strategy_positions
  mark,
  faults, moves,
  \* history variables, read by properties only
  slips,      \* what has cut in: "cut" a flush, "died" the process, "lost" an answer
  sent,       \* what was admitted for which post
  twice       \*   and whether anything was admitted again

stored  == <<logged, judged, legs, trims>>
tasks   == <<up, buffer, judge, watch>>
market  == <<orders, pos, mark>>
counts  == <<faults, moves, slips>>
history == <<sent, twice>>
vars    == <<world, posted, stored, tasks, market, counts, history>>

-------------------------------------------------------------------------------
Unit    == 2
Ceiling == 4                       \* max_position_multiple standard entries
Prices  == 1..3

Opposite(s) == IF s = "LONG" THEN "SHORT" ELSE "LONG"
Posts   == 1..Len(world.posts)
Post(p) == world.posts[p]
Flat    == [size |-> 0, entry |-> 0]
Idle    == [at |-> "idle", post |-> 0, todo |-> {}, plan |-> NULL, size |-> 0, stop |-> 0]
Rest    == [at |-> "legs", todo |-> {}, side |-> NULL, post |-> 0, size |-> 0, stop |-> 0]

Open(s)  == legs[s] # NULL
OpenLegs == {s \in Sides : Open(s)}
Fresh    == [stop |-> 0, standing |-> FALSE, young |-> TRUE]

Fault == faults < world.faults /\ faults' = faults + 1
Slip(kind) == Fault /\ slips' = slips \cup {kind}

Init ==
  /\ world \in Worlds
  /\ up = TRUE /\ posted = 0 /\ buffer = {} /\ logged = {} /\ judged = {}
  /\ legs = [s \in Sides |-> IF s \in DOMAIN world.start
                             THEN [Fresh EXCEPT !.standing = world.start[s], !.young = FALSE]
                             ELSE NULL]
  /\ pos = [s \in Sides |-> IF s \in DOMAIN world.start THEN [size |-> Unit, entry |-> 2]
                            ELSE Flat]
  /\ trims = [p \in Posts |-> NULL]
  /\ judge = [t \in Judges |-> Idle] /\ watch = Rest
  /\ orders = {} /\ mark \in {1, 3} /\ faults = 0 /\ moves = 0 /\ slips = {}
  /\ sent = {} /\ twice = FALSE

-------------------------------------------------------------------------------
(* The state machine.                                                      *)

Plan(s, steps, advance) == [leg |-> s, steps |-> steps, advance |-> advance]
Step(kind, s) == [kind |-> kind, side |-> s]
Nothing == Plan(NULL, <<>>, <<>>)

\* The one leg a management post is about, NULL when there is none or it is not clear.
ResolveLeg(x) ==
  IF x.dir # NULL THEN (IF Open(x.dir) THEN x.dir ELSE NULL)
  ELSE IF Cardinality(OpenLegs) = 1 THEN CHOOSE s \in OpenLegs : TRUE ELSE NULL

\* An unnamed side closes everything.
PlanClose(x) ==
  LET out == IF x.dir # NULL THEN OpenLegs \cap {x.dir} ELSE OpenLegs IN
  IF out = {} THEN Nothing
  ELSE Plan(x.dir, [i \in 1..Cardinality(out) |->
                     Step("close", IF Cardinality(out) = 1 THEN CHOOSE s \in out : TRUE
                                   ELSE <<"LONG", "SHORT">>[i])],
            [s \in out |-> FALSE])

\* An OPEN against the other leg is a second position on a hedge account, a flip otherwise.
PlanOpen(x, flip) ==
  LET want == x.dir  other == Opposite(x.dir) IN
  IF want = NULL THEN Nothing
  ELSE IF Open(want)
  THEN IF flip /\ Open(other)
       THEN Plan(want, <<Step("close", other)>>, [s \in {other} |-> FALSE]) ELSE Nothing
  ELSE IF Open(other) /\ (flip \/ ~world.multi)
  THEN Plan(want, <<Step("close", other), Step("open", want)>>, [s \in Sides |-> s = want])
  ELSE Plan(want, <<Step("open", want)>>, [s \in {want} |-> TRUE])

PlanAdd(x) ==
  IF OpenLegs = {} /\ x.dir # NULL THEN PlanOpen(x, FALSE)
  ELSE IF ResolveLeg(x) = NULL THEN Nothing
  ELSE Plan(ResolveLeg(x), <<Step("add", ResolveLeg(x))>>, <<>>)

\* Another trim of this stance with the same level, or in the last half hour.  The posts
\* of a world lie within half an hour of one another.
AlreadyTaken(s) ==
  pos[s].size > 0 /\ \E p \in Posts : trims[p] # NULL /\ trims[p].side = s
                                      /\ trims[p].status \in {"pending", "fired"}

Reached(s, level) == IF s = "SHORT" THEN mark <= level ELSE mark >= level

\* A trim whose level is not reached is parked: it has a leg and no step.
PlanTrim(x) ==
  LET s == ResolveLeg(x) IN
  IF s = NULL \/ AlreadyTaken(s) THEN Nothing
  ELSE IF x.level = NULL \/ Reached(s, x.level)
  THEN Plan(s, <<Step("trim", s)>>, <<>>)
  ELSE Plan(s, <<>>, <<>>)

\* What a post is judged to mean, when neither its age nor the price forbids it.
Evaluate(x, phase) ==
  CASE x.act \in {"ADD", "TRIM"} /\ phase = "backfill" /\ OpenLegs # {} -> Nothing
    [] x.act = "TRIM"  -> PlanTrim(x)
    [] x.act = "ADD"   -> PlanAdd(x)
    [] x.act = "CLOSE" -> PlanClose(x)
    [] x.act = "OPEN"  -> PlanOpen(x, FALSE)
    [] x.act = "FLIP"  -> PlanOpen(x, TRUE)
    [] x.act \in {"STOP", "RECAP"} -> Nothing

\* A stop is never worse than break-even, never crossed, and never walks back.
Tighter(s, want, prev) == prev = 0 \/ (IF s = "SHORT" THEN want <= prev ELSE want >= prev)
EvaluateStop(s, entry, last) ==
  IF /\ entry # 0 /\ Tighter(s, entry, last)
     /\ IF s = "SHORT" THEN entry > mark ELSE entry < mark
  THEN entry ELSE 0

-------------------------------------------------------------------------------
(* A judge: handle().                                                      *)

Set(t, r) == judge' = [judge EXCEPT ![t] = r]
Go(t, at) == Set(t, [judge[t] EXCEPT !.at = at])
Drop(t)   == Set(t, [Idle EXCEPT !.todo = judge[t].todo])
Mine(t)   == Post(judge[t].post)

\* The second caller drops the post rather than queuing behind the first.
Claim(t, p) ==
  LET inFlight == \E u \in Judges : judge[u].at # "idle" /\ judge[u].post = p IN
  Set(t, [Idle EXCEPT !.at = IF inFlight THEN "idle" ELSE "look",
                      !.post = IF inFlight THEN 0 ELSE p, !.todo = judge[t].todo \ {p}])

\* What was judged is not judged again.  A failed extraction leaves no trace.
Look(t) ==
  /\ judge[t].at = "look"
  /\ IF judge[t].post \in judged THEN Drop(t) /\ UNCHANGED logged
     ELSE Go(t, "judge") /\ logged' = logged \cup {judge[t].post}
  /\ UNCHANGED <<world, posted, judged, legs, trims, up, buffer, watch, market, counts, history>>

ExtractionFails(t) ==
  /\ judge[t].at = "look" /\ judge[t].post \notin judged \cup logged /\ Fault
  /\ Drop(t)
  /\ UNCHANGED <<world, posted, stored, up, buffer, watch, market, moves, slips, history>>

\* The legs are read, and what follows is decided from them.
Judge(t) ==
  LET x == Mine(t)
      plan == Evaluate(x, t)
      levels == t # "backfill" /\ x.be /\ plan.advance = <<>> /\ OpenLegs # {} IN
  /\ judge[t].at = "judge"
  /\ IF x.act = "RECAP" /\ ~levels THEN Drop(t)
     ELSE Set(t, [judge[t] EXCEPT !.plan = plan, !.at = IF levels THEN "levels" ELSE "size"])
  /\ UNCHANGED <<world, posted, stored, up, buffer, watch, market, counts, history>>

\* Too old, or the price has run away: recorded as skipped.
JudgeStale(t) ==
  /\ judge[t].at = "judge" /\ t # "backfill" /\ Mine(t).act # "RECAP" /\ Fault
  /\ Set(t, [judge[t] EXCEPT !.plan = Nothing, !.at = "size"])
  /\ UNCHANGED <<world, posted, stored, up, buffer, watch, market, moves, slips, history>>

\* apply_levels: the position and the levels held are read, then the stop is sent.
Levels(t) ==
  LET s == ResolveLeg(Mine(t)) IN
  /\ judge[t].at = "levels"
  /\ LET want == IF s = NULL THEN 0 ELSE EvaluateStop(s, pos[s].entry, legs[s].stop) IN
     IF want = 0 THEN Go(t, "size")
     ELSE Set(t, [judge[t] EXCEPT !.at = "adjust", !.stop = want, !.plan.leg = s])
  /\ UNCHANGED <<world, posted, stored, up, buffer, watch, market, counts, history>>

\* The levels are confirmed and recorded; break-even becomes a standing wish.
SetLevels(s, stop, standing) ==
  legs' = IF legs[s] = NULL THEN legs
          ELSE [legs EXCEPT ![s] = [stop |-> stop, standing |-> @.standing \/ standing,
                                    young |-> TRUE]]

Adjust(t) ==
  /\ judge[t].at = "adjust"
  /\ Go(t, "size")
  /\ LET s == judge[t].plan.leg IN
       IF pos[s].size > 0 THEN SetLevels(s, judge[t].stop, TRUE) ELSE UNCHANGED legs
  /\ UNCHANGED <<world, posted, logged, judged, trims, up, buffer, watch, market, counts, history>>

AdjustFails(t) ==
  /\ judge[t].at = "adjust" /\ Fault
  /\ Go(t, "size")
  /\ UNCHANGED <<world, posted, stored, up, buffer, watch, market, moves, slips, history>>

\* A plan that cannot be sent is dropped, and the post recorded as skipped.
Abandon(t) == Set(t, [judge[t] EXCEPT !.at = "record", !.plan = Nothing])

\* The size of a trim or of an add comes from the position as it is now.
TrimSize(s) == IF pos[s].size >= Unit THEN 1 ELSE 0
AddSize(s)  == IF pos[s].size = 0 THEN 0
               ELSE IF Ceiling - pos[s].size >= 1 THEN 1 ELSE 0
SizeFor(step) ==
  CASE step.kind = "trim" -> TrimSize(step.side)
    [] step.kind = "add"  -> AddSize(step.side)
    [] OTHER              -> Unit

Size(t) ==
  LET steps == judge[t].plan.steps IN
  /\ judge[t].at = "size"
  /\ IF steps = <<>> \/ t = "backfill" THEN Go(t, "record")
     ELSE IF SizeFor(steps[1]) = 0 THEN Abandon(t)
     ELSE Set(t, [judge[t] EXCEPT !.at = "send", !.size = SizeFor(steps[1])])
  /\ UNCHANGED <<world, posted, stored, up, buffer, watch, market, counts, history>>

-------------------------------------------------------------------------------
(* order-listener.                                                         *)

Admit(p, step, size) ==
  LET o == [post |-> p, kind |-> step.kind, side |-> step.side, size |-> size] IN
  /\ orders' = orders \cup {o}
  /\ sent' = sent \cup {<<p, step>>}
  /\ twice' = (twice \/ <<p, step>> \in sent)

Blend(p, size) ==
  [size |-> p.size + size, entry |-> IF p.size = 0 THEN mark ELSE (p.entry + mark) \div 2]

Trimmed(p, size) == IF p.size <= size THEN Flat ELSE [p EXCEPT !.size = @ - size]

\* One order is carried out, whenever its turn comes.
CarryOut(o) ==
  /\ o \in orders /\ orders' = orders \ {o}
  /\ CASE o.kind = "close" -> pos' = [pos EXCEPT ![o.side] = Flat]
       [] o.kind = "trim"  -> pos' = [pos EXCEPT ![o.side] = Trimmed(@, o.size)]
       [] o.kind \in {"open", "add"} ->
            pos' = [s \in Sides |-> IF s = o.side THEN Blend(pos[s], o.size)
                                    ELSE IF world.multi THEN pos[s] ELSE Flat]
  /\ UNCHANGED <<world, posted, stored, tasks, mark, counts, history>>

OrderFails(o) ==
  /\ o \in orders /\ orders' = orders \ {o} /\ Fault
  /\ UNCHANGED <<world, posted, stored, tasks, pos, mark, moves, slips, history>>

\* A trigger, a liquidation or a person ends the position: no post says so.
StopOut(s) ==
  /\ pos[s].size > 0 /\ pos' = [pos EXCEPT ![s] = Flat] /\ Fault
  /\ UNCHANGED <<world, posted, stored, tasks, orders, mark, moves, slips, history>>

MarkMoves ==
  /\ moves < world.moves /\ moves' = moves + 1 /\ mark' = 4 - mark
  /\ UNCHANGED <<world, posted, stored, tasks, orders, pos, faults, slips, history>>

-------------------------------------------------------------------------------
(* A judge sends, records and advances.                                    *)

\* After an add the stop held means something else; a trim enters the ledger of trims.
Sent(t, step) ==
  LET p == judge[t].post IN
  /\ legs' = IF step.kind = "add" /\ Open(step.side)
             THEN [legs EXCEPT ![step.side] = [@ EXCEPT !.stop = 0, !.young = TRUE]] ELSE legs
  /\ trims' = IF step.kind = "trim" /\ trims[p] = NULL
              THEN [trims EXCEPT ![p] = [status |-> "fired", side |-> step.side, level |-> 0]]
              ELSE trims

Send(t) ==
  LET steps == judge[t].plan.steps IN
  /\ judge[t].at = "send"
  /\ Admit(judge[t].post, steps[1], judge[t].size)
  /\ IF Len(steps) = 1
     THEN Go(t, "record") /\ Sent(t, steps[1])
     ELSE Set(t, [judge[t] EXCEPT !.plan.steps = Tail(steps)]) /\ UNCHANGED <<legs, trims>>
  /\ UNCHANGED <<world, posted, logged, judged, up, buffer, watch, pos, mark, counts>>

\* Refused, unreachable, or admitted with the answer lost.
SendFails(t) ==
  /\ judge[t].at = "send" /\ Fault
  /\ Abandon(t)
  /\ UNCHANGED <<world, posted, stored, up, buffer, watch, market, moves, slips, history>>

AnswerLost(t) ==
  /\ judge[t].at = "send" /\ Slip("lost")
  /\ Admit(judge[t].post, judge[t].plan.steps[1], judge[t].size)
  /\ Abandon(t)
  /\ UNCHANGED <<world, posted, stored, up, buffer, watch, pos, mark, moves>>

\* The row that says the post has been judged comes after the orders.
Record(t) ==
  LET x == Mine(t)  plan == judge[t].plan IN
  /\ judge[t].at = "record"
  /\ judged' = judged \cup {judge[t].post}
  /\ IF x.act # "RECAP" /\ (plan.advance # <<>> \/ (x.act = "TRIM" /\ plan.leg # NULL))
     THEN Go(t, "advance") ELSE Drop(t)
  /\ UNCHANGED <<world, posted, logged, legs, trims, up, buffer, watch, market, counts, history>>

CancelTrims(S) ==
  [p \in Posts |-> IF trims[p] # NULL /\ trims[p].status = "pending" /\ trims[p].side \in S
                   THEN [trims[p] EXCEPT !.status = "cancelled"] ELSE trims[p]]

Advance(t) ==
  LET plan == judge[t].plan  p == judge[t].post
      shut == {s \in DOMAIN plan.advance : ~plan.advance[s]} IN
  /\ judge[t].at = "advance"
  /\ legs' = [s \in Sides |-> IF s \notin DOMAIN plan.advance THEN legs[s]
                              ELSE IF plan.advance[s] THEN Fresh ELSE NULL]
  /\ trims' = IF plan.advance # <<>> THEN CancelTrims(shut)
              ELSE IF trims[p] # NULL THEN trims
              ELSE [trims EXCEPT ![p] = [status |-> "pending", side |-> plan.leg,
                                         level |-> Post(p).level]]
  /\ Drop(t)
  /\ UNCHANGED <<world, posted, logged, judged, up, buffer, watch, market, counts, history>>

JudgeStep(t) ==
  \/ Look(t) \/ Judge(t) \/ Levels(t) \/ Adjust(t) \/ Size(t) \/ Send(t)
  \/ Record(t) \/ Advance(t)
JudgeFault(t) ==
  ExtractionFails(t) \/ JudgeStale(t) \/ AdjustFails(t) \/ SendFails(t) \/ AnswerLost(t)

-------------------------------------------------------------------------------
(* Who calls a judge.                                                      *)

\* A new message cancels the flush task, in the middle of a judgement too.
Arrive ==
  /\ up /\ posted < Len(world.posts) /\ posted' = posted + 1
  /\ buffer' = buffer \cup {posted + 1}
  /\ IF judge["live"].at = "idle" THEN UNCHANGED <<judge, faults, slips>>
     ELSE Slip("cut") /\ judge' = [judge EXCEPT !["live"] = Idle]
  /\ UNCHANGED <<world, stored, up, watch, market, moves, history>>

\* Telegram never delivers it: only the history has it.
Missed ==
  /\ up /\ posted < Len(world.posts) /\ posted' = posted + 1 /\ Fault
  /\ UNCHANGED <<world, stored, tasks, market, moves, slips, history>>

\* Posts lie more than the merge window apart: each is a burst of its own.
Flush ==
  /\ up /\ judge["live"].at = "idle"
  /\ \E p \in buffer : buffer' = buffer \ {p} /\ Claim("live", p)
  /\ UNCHANGED <<world, posted, stored, up, watch, market, counts, history>>

Newest == CHOOSE p \in logged : \A q \in logged : q <= p

\* The history after the newest post on record, oldest first.
Catchup ==
  /\ up /\ judge["catchup"].at = "idle" /\ judge["catchup"].todo = {} /\ logged # {}
  /\ \E p \in 1..posted : p > Newest
  /\ Set("catchup", [Idle EXCEPT !.todo = (Newest + 1)..posted])
  /\ UNCHANGED <<world, posted, stored, up, buffer, watch, market, counts, history>>

NextOf(t) ==
  /\ judge[t].at = "idle" /\ judge[t].todo # {}
  /\ Claim(t, CHOOSE p \in judge[t].todo : \A q \in judge[t].todo : p <= q)
  /\ UNCHANGED <<world, posted, stored, up, buffer, watch, market, counts, history>>

\* The process dies; it starts again with a sweep and a replay of the last posts.
Restart ==
  /\ up /\ Slip("died")
  /\ up' = FALSE /\ buffer' = {} /\ watch' = Rest
  /\ judge' = [t \in Judges |-> IF t = "backfill" THEN [Idle EXCEPT !.todo = 1..posted] ELSE Idle]
  /\ LET gone == {s \in Sides : Open(s) /\ ~legs[s].young /\ pos[s].size = 0} IN
       /\ legs' = [s \in Sides |-> IF s \in gone THEN NULL ELSE legs[s]]
       /\ trims' = CancelTrims(gone)
  /\ UNCHANGED <<world, posted, logged, judged, market, moves, history>>

BackfillEnds ==
  /\ ~up /\ judge["backfill"] = Idle /\ up' = TRUE
  /\ UNCHANGED <<world, posted, stored, buffer, judge, watch, market, counts, history>>

-------------------------------------------------------------------------------
(* The watcher: closed legs, parked trims, standing stops, over and over.  *)

Time(s) ==
  /\ Open(s) /\ legs[s].young /\ legs' = [legs EXCEPT ![s].young = FALSE]
  /\ UNCHANGED <<world, posted, logged, judged, trims, tasks, market, counts, history>>

\* The coin's row is cleared only when this was its last leg.
StaleAlone(s) == OpenLegs = {s} /\ ~legs[s].young /\ pos[s].size = 0

\* No position and past the grace period: the leg is cleared, the other one stays.
Stale(s) == Open(s) /\ ~legs[s].young /\ pos[s].size = 0

SweepLegs ==
  /\ up /\ watch.at = "legs"
  /\ IF \E s \in Sides : Stale(s)
     THEN \E s \in Sides : Stale(s) /\ watch' = [watch EXCEPT !.at = "clear", !.side = s]
     ELSE watch' = [Rest EXCEPT !.at = "trims",
                      !.todo = {p \in Posts : trims[p] # NULL /\ trims[p].status = "pending"}]
  /\ UNCHANGED <<world, posted, stored, up, buffer, judge, market, counts, history>>

ClearLeg ==
  /\ watch.at = "clear" /\ watch' = Rest
  /\ legs' = [legs EXCEPT ![watch.side] = NULL] /\ trims' = CancelTrims({watch.side})
  /\ UNCHANGED <<world, posted, logged, judged, up, buffer, judge, market, counts, history>>

Resolve(p, status) ==
  trims' = IF trims[p].status = "pending" THEN [trims EXCEPT ![p].status = status] ELSE trims

\* The legs' rows are read afresh for every trim.
SweepTrims ==
  /\ watch.at = "trims"
  /\ IF watch.todo = {}
     THEN watch' = [Rest EXCEPT !.at = "stops",
                      !.todo = {s \in Sides : Open(s) /\ legs[s].standing}] /\ UNCHANGED trims
     ELSE LET p == CHOOSE q \in watch.todo : TRUE  s == trims[p].side
              rest == [watch EXCEPT !.todo = @ \ {p}] IN
          IF ~Open(s) THEN watch' = rest /\ Resolve(p, "cancelled")
          ELSE /\ watch' = IF ~Reached(s, trims[p].level) \/ TrimSize(s) = 0 THEN rest
                           ELSE [rest EXCEPT !.at = "fire", !.post = p, !.size = TrimSize(s)]
               /\ UNCHANGED trims
  /\ UNCHANGED <<world, posted, logged, judged, legs, up, buffer, judge, market, counts, history>>

Expire(p) ==
  /\ up /\ watch.at = "trims" /\ trims[p] # NULL /\ trims[p].status = "pending" /\ Fault
  /\ trims' = [trims EXCEPT ![p].status = "expired"] /\ watch' = [watch EXCEPT !.todo = @ \ {p}]
  /\ UNCHANGED <<world, posted, logged, judged, legs, up, buffer, judge, market, moves, slips, history>>

Fire ==
  /\ watch.at = "fire" /\ watch' = [watch EXCEPT !.at = "resolve"]
  /\ Admit(watch.post, Step("trim", trims[watch.post].side), watch.size)
  /\ UNCHANGED <<world, posted, stored, up, buffer, judge, pos, mark, counts>>

\* "Left pending on purpose": the next pass tries again.
FireFails ==
  /\ watch.at = "fire" /\ Fault
  /\ watch' = [watch EXCEPT !.at = "trims"]
  /\ UNCHANGED <<world, posted, stored, up, buffer, judge, market, moves, slips, history>>

FireAnswerLost ==
  /\ watch.at = "fire" /\ Slip("lost")
  /\ watch' = [watch EXCEPT !.at = "trims"]
  /\ Admit(watch.post, Step("trim", trims[watch.post].side), watch.size)
  /\ UNCHANGED <<world, posted, stored, up, buffer, judge, pos, mark, moves>>

Fired ==
  /\ watch.at = "resolve" /\ watch' = [watch EXCEPT !.at = "trims"]
  /\ Resolve(watch.post, "fired")
  /\ UNCHANGED <<world, posted, logged, judged, legs, up, buffer, judge, market, counts, history>>

\* The entry legitimately moved, so the stop held does not bind the correction.
Wanted(s) == EvaluateStop(s, pos[s].entry, 0)

SweepStops ==
  /\ watch.at = "stops"
  /\ watch' = IF watch.todo = {} THEN Rest
              ELSE LET s == CHOOSE q \in watch.todo : TRUE
                       rest == [watch EXCEPT !.todo = @ \ {s}] IN
                   IF \/ pos[s].size = 0 \/ legs[s] = NULL
                      \/ legs[s].stop = pos[s].entry \/ Wanted(s) = 0 THEN rest
                   ELSE [rest EXCEPT !.at = "assert", !.side = s, !.stop = Wanted(s)]
  /\ UNCHANGED <<world, posted, stored, up, buffer, judge, market, counts, history>>

Assert ==
  /\ watch.at = "assert" /\ watch' = [watch EXCEPT !.at = "stops"]
  /\ IF pos[watch.side].size > 0 THEN SetLevels(watch.side, watch.stop, FALSE) ELSE UNCHANGED legs
  /\ UNCHANGED <<world, posted, logged, judged, trims, up, buffer, judge, market, counts, history>>

AssertFails ==
  /\ watch.at = "assert" /\ watch' = [watch EXCEPT !.at = "stops"] /\ Fault
  /\ UNCHANGED <<world, posted, stored, up, buffer, judge, market, moves, slips, history>>

WatchStep  == SweepLegs \/ ClearLeg \/ SweepTrims \/ Fire \/ Fired \/ SweepStops \/ Assert
WatchFault == FireFails \/ FireAnswerLost \/ AssertFails \/ \E p \in Posts : Expire(p)

-------------------------------------------------------------------------------
Calls == Flush \/ Catchup \/ BackfillEnds \/ \E t \in {"catchup", "backfill"} : NextOf(t)

Next ==
  \/ Arrive \/ Missed \/ Calls \/ Restart
  \/ \E t \in Judges : JudgeStep(t) \/ JudgeFault(t)
  \/ WatchStep \/ WatchFault
  \/ \E o \in orders : CarryOut(o) \/ OrderFails(o)
  \/ \E s \in Sides : StopOut(s) \/ Time(s)
  \/ MarkMoves

\* Tasks run to their end, the loops go round for ever, admitted orders are carried out
\* and time passes; nobody has to post, and no price has to move.
FairSpec ==
  /\ Init /\ [][Next]_vars
  /\ WF_vars(Calls) /\ WF_vars(WatchStep)
  /\ \A t \in Judges : WF_vars(JudgeStep(t))
  /\ WF_vars(\E o \in orders : CarryOut(o))
  /\ \A s \in Sides : WF_vars(Time(s))

-------------------------------------------------------------------------------
(* Properties.                                                             *)

TypeOK ==
  /\ world \in Worlds /\ posted \in 0..Len(world.posts)
  /\ buffer \subseteq 1..posted /\ judged \subseteq logged /\ logged \subseteq 1..posted
  /\ \A s \in Sides : pos[s].size \in Nat /\ pos[s].entry \in 0..3
  /\ \A s \in Sides : Open(s) => legs[s].stop \in 0..3
  /\ \A t \in Judges : judge[t].size \in 0..Unit
  /\ faults \in 0..world.faults /\ (slips # {} => faults > 0) /\ mark \in Prices

\* However adds, opens and repetitions come together, a leg grows past max_position_multiple
\* by at most the entry that was under way as the ceiling was read.
WithinCeiling == \A s \in Sides : pos[s].size <= Ceiling + Unit

\* "the second caller drops the post": one post has one effect, whoever judges it and
\* however often the process dies.  Two things excuse a repetition: a parked trim is sent
\* again when its answer was lost or the process died on it, and a flush that was cut off
\* between an order and its record leaves its post to a catchup that had read it before.
Parked(p) == trims[p] # NULL /\ trims[p].level # 0
Excused   == "cut" \in slips \/ (slips # {} /\ \E p \in Posts : Parked(p))
ActsOnce  == twice => Excused

\* A leg the exchange has closed, or that never came about, does not stay on record.
Ghost(s) == Open(s) /\ pos[s].size = 0
NoGhost  == \A s \in Sides : Ghost(s) ~> ~Ghost(s)

\* "Risk off" is a standing instruction: whatever moves the entry, the stop of a leg at
\* break-even follows, unless the market has already crossed it.
Crossed(s) == IF s = "SHORT" THEN pos[s].entry <= mark ELSE pos[s].entry >= mark
RiskOff(s)  == Open(s) /\ legs[s].standing /\ pos[s].size > 0
AtEntry(s)  == ~Open(s) \/ pos[s].size = 0 \/ Crossed(s) \/ legs[s].stop = pos[s].entry
HoldsBreakEven == \A s \in Sides : RiskOff(s) ~> AtEntry(s)

-------------------------------------------------------------------------------
(* Why a post acts once.  Its judge is alone with it until the row that    *)
(* says it has been judged (OnePerPost, Unjudged); a post that was acted   *)
(* on is judged, or its judge is about to write that row, or nobody but    *)
(* the backfill, which sends nothing, will come to it again (Waiting,      *)
(* Untouched); and of a plan only what was not yet sent is left (Ahead).   *)

Senders == {"live", "catchup"}
Working == {"judge", "levels", "adjust", "size", "send", "record"}
Early   == {"look", "judge", "levels", "adjust", "size"}
Steps   == [kind : {"open", "close", "add", "trim"}, side : Sides]
Trims   == [status : {"pending", "fired", "cancelled", "expired"}, side : Sides,
            level : 0..3 \cup {NULL}]
Distinct(steps) ==
  \A i, j \in DOMAIN steps : i # j => steps[i] # steps[j] /\ steps[i].kind # "trim"
PlanFits(plan) ==
  /\ DOMAIN plan = DOMAIN Nothing
  /\ plan.leg \in Sides \cup {NULL} /\ plan.steps \in Seq(Steps) /\ Distinct(plan.steps)

CallFits(t, c) ==
  /\ DOMAIN c = DOMAIN Idle /\ c.todo \subseteq 1..posted
  /\ c.at \in Working \cup {"idle", "look", "advance"}
  /\ c.at # "idle" => c.post \in 1..posted
  /\ c.at \in (Working \ {"judge"}) \cup {"advance"} => PlanFits(c.plan)
  /\ c.at = "send" => t \in Senders /\ c.plan.steps # <<>>
  /\ c.at = "advance" => c.plan.advance # <<>> \/ c.plan.leg \in Sides

ChannelTypes ==
  /\ world \in Worlds /\ posted \in 0..Len(world.posts)
  /\ buffer \subseteq 1..posted /\ logged \subseteq 1..posted /\ judged \subseteq logged
  /\ trims \in [Posts -> Trims \cup {NULL}]
  /\ sent \subseteq logged \X Steps
  /\ DOMAIN watch = DOMAIN Rest /\ DOMAIN judge = Judges
  /\ \A t \in Judges : CallFits(t, judge[t])

OnePerPost ==
  \A t, u \in Judges :
    (judge[t].at # "idle" /\ judge[u].at # "idle" /\ judge[t].post = judge[u].post) => t = u

Unjudged ==
  \A t \in Judges :
    /\ judge[t].at \in Working => judge[t].post \in logged \ judged
    /\ judge[t].at = "advance" => judge[t].post \in judged

ParkedFits ==
  /\ \A p \in Posts : Parked(p) => p \in judged
  /\ \A p \in Posts : trims[p] # NULL /\ trims[p].status = "pending" => Parked(p)
  /\ watch.at \in {"trims", "fire", "resolve"} =>
       \A p \in watch.todo : p \in Posts /\ Parked(p)
  /\ watch.at \in {"fire", "resolve"} =>
       watch.post \in Posts /\ Parked(watch.post) /\ watch.post \notin watch.todo

Acted(p) == \E step \in Steps : <<p, step>> \in sent

\* Whoever has yet to send for a post that is not judged finds it untouched.
Untouched ==
  \A t \in Senders :
    judge[t].at \in Early /\ Acted(judge[t].post) => judge[t].post \in judged

Ahead ==
  \A t \in Judges : judge[t].at = "send" =>
    \A i \in DOMAIN judge[t].plan.steps : <<judge[t].post, judge[t].plan.steps[i]>> \notin sent

Held(p) == \E t \in Senders : judge[t].at \in {"send", "record"} /\ judge[t].post = p
Waiting == \A p \in buffer \cup judge["catchup"].todo : Acted(p) => p \in judged \/ Held(p)

\* Undisturbed, a parked trim is fired by one pass and resolved in it.
FiredOnce ==
  slips = {} =>
    \A p \in Posts, s \in Sides : <<p, Step("trim", s)>> \in sent =>
      /\ trims[p] # NULL
      /\ Parked(p) =>
           /\ watch.at \in {"trims", "fire", "resolve"} => p \notin watch.todo
           /\ ~(watch.at = "fire" /\ watch.post = p)
           /\ trims[p].status = "pending" => watch.at = "resolve" /\ watch.post = p

ChannelInv ==
  /\ ChannelTypes /\ OnePerPost /\ Unjudged /\ ParkedFits
  /\ Excused \/ (Untouched /\ Ahead /\ Waiting /\ FiredOnce /\ ~twice)
=============================================================================
