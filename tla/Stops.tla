--------------------------------- MODULE Stops ---------------------------------
(***************************************************************************)
(* The stop-loss and take-profit triggers that rest on the exchange for    *)
(* one open position, and the five routines that move them:                *)
(*   postfill   a resting entry filled; its stops are set for the fill     *)
(*   reanchor   a market entry slipped; its stops are moved to the fill    *)
(*   adjust     POST /strategies/{id}/adjust-stops                         *)
(*   resize     after a partial close the same levels, at the new size     *)
(*   guard      the liquidation-safety guard of a reconcile pass           *)
(* Each calls order-executor's modify-stops, which cancels every trigger   *)
(* it can see and places the legs again, reading them back to be sure.     *)
(* Nothing serialises the calls, and a caller that has waited too long     *)
(* goes on while the executor still works.                                 *)
(*                                                                         *)
(* call is a caller's coroutine in order-listener, job the executor's work *)
(* for it.  Prices are levels: a stop at 0 lies beyond liquidation.        *)
(***************************************************************************)
EXTENDS Integers, FiniteSets

CONSTANTS
  Callers,
  Worlds,     \* [venue, entry, legs, callers, asks, faults]: the account, the legs in use,
              \* who may be active together, how many requests and faults there are
  Attempts,   \* _MODIFY_STOPS_VERIFY_ATTEMPTS
  Lots,       \* what the entry filled
  NULL

VARIABLES
  world,
  held,       \* the exchange: lots of the position
  rest,       \*   its resting triggers
  opening,    \* the opening order's row: recorded levels and the guard's flags
  fresh,      \* the entry has just filled
  call, job,
  asks, faults,
  \* history variables, read by properties only
  told,       \* who heard that the stop may be missing: "none", "log" or "caller"
  slips,      \* cancels that failed and placements whose answer was lost
  had         \* per caller: the legs its job found resting

exchange == <<held, rest>>
agents   == <<call, job>>
counts   == <<asks, faults>>
history  == <<told, slips, had>>
vars     == <<world, exchange, opening, fresh, agents, counts, history>>

-------------------------------------------------------------------------------
Legs     == {"tp", "sl"}
Levels   == [tp |-> {5}, sl |-> {0, 1}]
Maybe(S) == S \cup {NULL}
Safe     == 1                                  \* liq_price -/+ margin

Nothing  == [leg \in Legs |-> NULL]
NoCall   == [at |-> "idle", kind |-> NULL, want |-> Nothing, verdict |-> NULL]
NoJob    == [at |-> "none", want |-> Nothing, size |-> 0, seen |-> {}, state |-> Nothing,
             tries |-> 0]
Refused  == [success |-> FALSE, ok |-> Nothing, eff |-> Nothing]

At(leg)  == {t \in rest : t.leg = leg}
Level(leg) == IF At(leg) = {} THEN NULL ELSE (CHOOSE t \in At(leg) : TRUE).px

\* A new order: n tells it from those that rest and from those a job remembers.
New(leg, px, size) ==
  LET used == {t.n : t \in {u \in rest \cup UNION {job[c].seen : c \in Callers} :
                              u.leg = leg /\ u.px = px /\ u.size = size}} IN
  [leg |-> leg, px |-> px, size |-> size,
   n |-> CHOOSE n \in 1..(Cardinality(used) + 1) : n \notin used]

Init ==
  /\ world \in Worlds
  /\ held = Lots /\ fresh = (world.entry # "none")
  /\ opening \in [tp : Levels.tp, sl : Levels.sl, unconfirmed : {FALSE}, tightened : {FALSE}]
  /\ rest = {[leg |-> leg, px |-> opening[leg], size |-> Lots, n |-> 1] : leg \in world.legs}
  /\ call = [c \in Callers |-> NoCall] /\ job = [c \in Callers |-> NoJob]
  /\ asks = 0 /\ faults = 0 /\ told = "none" /\ slips = 0
  /\ had = [c \in Callers |-> {}]

Request == asks < world.asks /\ asks' = asks + 1
Fault == faults < world.faults /\ faults' = faults + 1
Slip  == Fault /\ slips' = slips + 1

-------------------------------------------------------------------------------
(* Who asks for what.                                                      *)

\* A request, the guard and a close are tasks of their own: nothing keeps two apart.
Free(c) == c \in world.callers /\ call[c].at = "idle" /\ job[c].at = "none"

Ask(c, kind, want) ==
  /\ call' = [call EXCEPT ![c] = [at |-> "wait", kind |-> kind, want |-> want, verdict |-> NULL]]
  /\ job' = [job EXCEPT ![c] = [NoJob EXCEPT !.at = "start", !.want = want]]

\* The fill price decides whether a leg keeps its level or is re-anchored.
Revalidated(recorded) == {recorded} \cup {[recorded EXCEPT !.sl = px] : px \in {0, 1}}
Recorded == [leg \in Legs |-> IF leg \in world.legs THEN opening[leg] ELSE NULL]

\* UPDATE orders SET tp_price = COALESCE(...), sl_price = COALESCE(...).
Coalesce(want) ==
  [opening EXCEPT !.tp = IF want.tp = NULL THEN @ ELSE want.tp,
                  !.sl = IF want.sl = NULL THEN @ ELSE want.sl]

PostFill(c) ==
  /\ Free(c) /\ fresh /\ fresh' = FALSE /\ world.entry = "limit"
  /\ \E want \in Revalidated(Recorded) :
       /\ opening' = Coalesce(want)
       /\ Ask(c, "postfill", want)
  /\ UNCHANGED <<world, exchange, counts, history>>

Reanchor(c) ==
  /\ Free(c) /\ fresh /\ fresh' = FALSE /\ world.entry = "market"
  /\ \E want \in Revalidated(Recorded) \ {Recorded} : Ask(c, "reanchor", want)
  /\ UNCHANGED <<world, exchange, opening, counts, history>>

\* At least one price; an omitted leg is to stay where it is.
Adjust(c) ==
  /\ Free(c) /\ held > 0 /\ Request
  /\ \E tp \in Maybe(IF "tp" \in world.legs THEN Levels.tp ELSE {}), sl \in Maybe(Levels.sl) :
       /\ tp # NULL \/ sl # NULL
       /\ Ask(c, "adjust", [tp |-> tp, sl |-> sl])
  /\ UNCHANGED <<world, exchange, opening, fresh, faults, history>>

\* A partial close remembers the resting levels first, or falls back on the recorded ones
\* when it cannot read them.
PartialClose(c) ==
  /\ Free(c) /\ held > 1 /\ Request
  /\ call' = [call EXCEPT ![c] = [at |-> "closing", kind |-> "resize", verdict |-> NULL,
                                  want |-> [leg \in Legs |-> Level(leg)]]]
  /\ UNCHANGED <<world, exchange, opening, fresh, job, faults, history>>

PartialCloseBlind(c) ==
  /\ Free(c) /\ held > 1 /\ Request /\ Fault
  /\ call' = [call EXCEPT ![c] = [at |-> "closing", kind |-> "blind", verdict |-> NULL,
                                  want |-> Recorded]]
  /\ UNCHANGED <<world, exchange, opening, fresh, job, history>>

CloseLands(c) ==
  /\ call[c].at = "closing" /\ held > 1
  /\ held' = held - 1
  /\ IF call[c].want = Nothing
     THEN /\ call' = [call EXCEPT ![c] = NoCall] /\ UNCHANGED job
          /\ opening' = [opening EXCEPT !.unconfirmed = @ \/ call[c].kind = "blind"]
     ELSE Ask(c, "resize", call[c].want) /\ UNCHANGED opening
  /\ UNCHANGED <<world, rest, fresh, counts, history>>

CloseRefused(c) ==
  /\ call[c].at = "closing" /\ (Fault \/ (held < 2 /\ UNCHANGED faults))
  /\ call' = [call EXCEPT ![c] = NoCall]
  /\ UNCHANGED <<world, asks, exchange, opening, fresh, job, history>>

\* Only what the guard itself has placed.
ManagedIfTightened == opening.tightened

\* The guard never invents a stop, unless the missing one is its own to restore.
Managed == opening.unconfirmed \/ opening.tightened
Unsafe  == \E t \in At("sl") : t.px = 0

GuardPass(c) ==
  /\ Free(c) /\ held > 0
  /\ (At("sl") = {} /\ Managed) \/ Unsafe
  /\ Ask(c, "guard", [tp |-> Level("tp"), sl |-> Safe])
  /\ UNCHANGED <<world, exchange, opening, fresh, counts, history>>

-------------------------------------------------------------------------------
(* modify-stops.                                                           *)

Answered(c, success, ok) ==
  /\ job' = [job EXCEPT ![c] = NoJob]
  /\ call' = IF call[c].at = "wait"
             THEN [call EXCEPT ![c].at = "answered",
                               ![c].verdict = [success |-> success, ok |-> ok,
                                 eff |-> IF success THEN job[c].want ELSE Nothing]]
             ELSE call

\* The adapter or the position cannot be had: nothing was touched.
Unavailable(c) ==
  /\ job[c].at \in {"start", "list"} /\ Fault
  /\ Answered(c, FALSE, Nothing)
  /\ UNCHANGED <<world, asks, exchange, opening, fresh, history>>

FindPosition(c) ==
  /\ job[c].at = "start"
  /\ IF held = 0 THEN Answered(c, FALSE, Nothing)
     ELSE job' = [job EXCEPT ![c].at = "list", ![c].size = held] /\ UNCHANGED call
  /\ UNCHANGED <<world, exchange, opening, fresh, counts, history>>

\* An unpriced leg is not carried forward.
EffectiveBare(want) == want

\* A leg the caller did not price is carried forward at the level it rests at.
Effective(want) ==
  [leg \in Legs |-> IF want[leg] = NULL THEN Level(leg) ELSE want[leg]]

ListTriggers(c) ==
  LET want == Effective(job[c].want) IN
  /\ job[c].at = "list"
  /\ job' = [job EXCEPT ![c].at = "cancel", ![c].seen = rest, ![c].want = want,
       ![c].state = [leg \in Legs |-> IF want[leg] = NULL THEN NULL ELSE "pending"]]
  /\ had' = [had EXCEPT ![c] = {t.leg : t \in rest}]
  /\ UNCHANGED <<world, exchange, opening, fresh, call, counts, told, slips>>

\* One call per trigger; a refusal is logged and the loop goes on.
Cancel(c) ==
  /\ job[c].at = "cancel"
  /\ job[c].seen # {}
  /\ LET t == CHOOSE u \in job[c].seen : TRUE IN
       rest' = rest \ {t} /\ job' = [job EXCEPT ![c].seen = @ \ {t}]
  /\ UNCHANGED <<world, held, opening, fresh, call, counts, history>>

CancelRefused(c) ==
  /\ job[c].at = "cancel" /\ job[c].seen # {} /\ Slip
  /\ job' = [job EXCEPT ![c].seen = @ \ {CHOOSE u \in job[c].seen : TRUE}]
  /\ UNCHANGED <<world, asks, exchange, opening, fresh, call, told, had>>

Pending(c) == {leg \in Legs : job[c].state[leg] = "pending"}
More(c)    == Pending(c) # {} /\ job[c].tries < Attempts

\* What a placement may leave on the exchange and say of each leg: "placed", "error", or
\* nothing at all when the adapter gives up with one error for the whole call.
Said(legs, refused) == [leg \in legs |-> IF leg \in refused THEN "error" ELSE "placed"]
Honest(legs) ==
  {[put |-> legs \ refused, said |-> Said(legs, refused)] : refused \in SUBSET legs}

\* Both legs go out in turn: a call that raises hides what was placed before it.
BlofinPlaces(legs) ==
  Honest(legs) \cup {[put |-> put, said |-> <<>>] : put \in {{}, legs \ {"sl"}, legs}}

\* One signed action for both legs.
HyperliquidPlaces(legs) ==
  Honest(legs) \cup {[put |-> put, said |-> <<>>] : put \in {{}, legs}}

\* Each leg's failure is caught by itself, an answer that was lost included.
BinancePlaces(legs) ==
  {[put |-> put, said |-> Said(legs, refused)] : put \in SUBSET legs, refused \in SUBSET legs}

Places(legs) ==
  {o \in CASE world.venue = "blofin"      -> BlofinPlaces(legs)
           [] world.venue = "hyperliquid" -> HyperliquidPlaces(legs)
           [] world.venue = "binance"     -> BinancePlaces(legs) :
     \A leg \in DOMAIN o.said : o.said[leg] = "placed" => leg \in o.put}

\* What the loop makes of it: an error and silence both leave a leg to be placed again.
Noted(state, said) ==
  [leg \in Legs |-> IF leg \notin DOMAIN said THEN state[leg]
                    ELSE IF said[leg] = "placed" THEN "awaiting" ELSE "pending"]

\* Binance's triggers follow the position, the other venues' carry the size read above.
SizeOf(c) == IF world.venue = "binance" THEN 0 ELSE job[c].size

Place(c) ==
  /\ job[c].at = "cancel" /\ job[c].seen = {} /\ More(c) /\ held > 0
  /\ LET legs == Pending(c) IN \E o \in Places(legs) :
       /\ CASE o.put = legs /\ o.said = Said(legs, {}) -> UNCHANGED <<faults, slips>>
            [] \E leg \in o.put : leg \notin DOMAIN o.said \/ o.said[leg] = "error" -> Slip
            [] OTHER -> Fault /\ UNCHANGED slips
       /\ rest' = rest \cup {New(leg, job[c].want[leg], SizeOf(c)) : leg \in o.put}
       /\ job' = [job EXCEPT ![c].at = "verify", ![c].tries = @ + 1,
                             ![c].state = Noted(job[c].state, o.said)]
  /\ UNCHANGED <<world, asks, held, opening, fresh, call, told, had>>

\* There is no position left to reduce.
PlaceRejected(c) ==
  /\ job[c].at = "cancel" /\ job[c].seen = {} /\ More(c) /\ held = 0
  /\ job' = [job EXCEPT ![c].at = "verify", ![c].tries = @ + 1]
  /\ UNCHANGED <<world, exchange, opening, fresh, call, counts, history>>

Landed(leg, px) == \E t \in rest : t.leg = leg /\ t.px = px

Confirmed(c) ==
  [leg \in Legs |->
     IF job[c].state[leg] \in {NULL, "confirmed"} THEN job[c].state[leg]
     ELSE IF Landed(leg, job[c].want[leg]) THEN "confirmed" ELSE "pending"]

Verify(c) ==
  /\ job[c].at = "verify"
  /\ job' = [job EXCEPT ![c].at = "cancel", ![c].state = Confirmed(c)]
  /\ UNCHANGED <<world, exchange, opening, fresh, call, counts, history>>

\* A failed read counts as an absence.
VerifyUnknownDemotes(c) ==
  /\ job[c].at = "verify" /\ Fault
  /\ job' = [job EXCEPT ![c].at = "cancel",
       ![c].state = [leg \in Legs |-> IF @[leg] = "awaiting" THEN "pending" ELSE @[leg]]]
  /\ UNCHANGED <<world, asks, exchange, opening, fresh, call, history>>

\* Every retry of the read fails: no leg changes its state.
VerifyUnknown(c) ==
  /\ job[c].at = "verify" /\ Fault
  /\ job' = [job EXCEPT ![c].at = "cancel"]
  /\ UNCHANGED <<world, asks, exchange, opening, fresh, call, history>>

Ok(c) == [leg \in Legs |-> IF job[c].want[leg] = NULL THEN NULL
                           ELSE job[c].state[leg] = "confirmed"]

Conclude(c) ==
  /\ job[c].at = "cancel" /\ job[c].seen = {} /\ ~More(c)
  /\ Answered(c, \A leg \in Legs : Ok(c)[leg] # FALSE, Ok(c))
  /\ UNCHANGED <<world, exchange, opening, fresh, counts, history>>

-------------------------------------------------------------------------------
(* What the caller makes of the answer.                                    *)

\* The wait ends before the executor does.
Expire(c) ==
  /\ call[c].at = "wait" /\ Fault
  /\ call' = [call EXCEPT ![c].at = "answered", ![c].verdict = Refused]
  /\ UNCHANGED <<world, asks, exchange, opening, fresh, job, history>>

\* The other leg's verdict is looked at.
StopUnsureOfTarget(c) == call[c].want.tp # NULL /\ call[c].verdict.ok.tp # TRUE

StopUnsure(c) == call[c].want.sl # NULL /\ call[c].verdict.ok.sl # TRUE

Hear(c) ==
  LET v == call[c].verdict  want == call[c].want  kind == call[c].kind IN
  /\ call[c].at = "answered"
  /\ call' = [call EXCEPT ![c] = NoCall]
  /\ CASE kind = "adjust" ->
            /\ opening' = IF v.success THEN Coalesce(v.eff) ELSE opening
            /\ told' = IF v.success THEN told ELSE "caller"
       [] kind = "reanchor" ->
            /\ opening' = Coalesce(want)
            /\ told' = IF v.success \/ told = "caller" THEN told ELSE "log"
       [] kind \in {"postfill", "resize"} ->
            /\ opening' = [opening EXCEPT !.unconfirmed = @ \/ StopUnsure(c)]
            /\ UNCHANGED told
       [] kind = "guard" ->
            /\ opening' = IF v.ok.sl = TRUE
                          THEN [opening EXCEPT !.tightened = TRUE, !.unconfirmed = FALSE]
                          ELSE opening
            /\ told' = IF v.ok.sl = TRUE \/ told = "caller" THEN told ELSE "log"
  /\ had' = [had EXCEPT ![c] = {}]
  /\ UNCHANGED <<world, exchange, fresh, job, counts, slips>>

\* Writing the levels down fails: "the exchange is already updated and correct".
NotPersisted(c) ==
  /\ call[c].at = "answered" /\ call[c].kind \in {"adjust", "reanchor"}
  /\ call[c].verdict.success /\ Fault
  /\ call' = [call EXCEPT ![c] = NoCall]
  /\ UNCHANGED <<world, asks, exchange, opening, fresh, job, history>>

\* The position is closed as a whole, by us or by a trigger, and its triggers go with it.
PositionEnds ==
  /\ held > 0 /\ held' = 0 /\ rest' = {}
  /\ UNCHANGED <<world, opening, fresh, agents, counts, history>>

-------------------------------------------------------------------------------
Begin(c)  == PostFill(c) \/ Reanchor(c) \/ Adjust(c) \/ PartialClose(c) \/ PartialCloseBlind(c)
Close(c)  == CloseLands(c) \/ CloseRefused(c)
Modify(c) ==
  \/ Unavailable(c) \/ FindPosition(c) \/ ListTriggers(c) \/ Cancel(c) \/ CancelRefused(c)
  \/ Place(c) \/ PlaceRejected(c) \/ Verify(c) \/ VerifyUnknown(c) \/ Conclude(c)
Return(c) == Expire(c) \/ Hear(c) \/ NotPersisted(c)
Runs(c)   == Close(c) \/ Modify(c) \/ Return(c)

Next ==
  \/ \E c \in Callers : Begin(c) \/ GuardPass(c) \/ Runs(c)
  \/ PositionEnds

\* Coroutines run to their end, every await in them being bounded, and the reconcile loop
\* passes again and again whatever else goes on; nothing obliges anybody to adjust, to
\* fill or to close.
FairSpec ==
  /\ Init /\ [][Next]_vars
  /\ \A c \in Callers : WF_vars(Runs(c)) /\ SF_vars(GuardPass(c))

-------------------------------------------------------------------------------
(* Properties.                                                             *)

TypeOK ==
  /\ world \in Worlds /\ held \in 0..Lots
  /\ \A t \in rest : t.leg \in Legs /\ t.px \in Levels[t.leg] /\ t.size \in 0..Lots
  /\ opening.tp \in Levels.tp /\ opening.sl \in Levels.sl
  /\ opening.unconfirmed \in BOOLEAN /\ opening.tightened \in BOOLEAN
  /\ \A c \in Callers : job[c].tries \in 0..Attempts /\ job[c].size \in 0..Lots
  /\ faults \in 0..world.faults /\ slips \in 0..faults /\ told \in {"none", "log", "caller"}

Flagged  == opening.unconfirmed \/ opening.tightened
Quiet    == \A c \in Callers : call[c].at = "idle" /\ job[c].at = "none"
Alone    == Cardinality(world.callers) = 1
Answer(c) == call[c].at = "answered" /\ job[c].at = "none"

\* modify-stops' verdict can be relied on: a leg it calls ok rests at the level it was to
\* have, and a leg its caller left out is not dropped in silence.
VerdictIsTrue ==
  \A c \in Callers : Alone /\ Answer(c) /\ held > 0 =>
    \A leg \in Legs :
      /\ call[c].verdict.ok[leg] = TRUE =>
           IF call[c].want[leg] = NULL THEN At(leg) # {} ELSE Landed(leg, call[c].want[leg])
      /\ call[c].verdict.success /\ leg \in had[c] => At(leg) # {}

\* A position that had a stop has one, or somebody knows: it is flagged for the guard, the
\* caller was answered with a failure, or (a slipped market entry, the guard) it was logged.
ProtectedOrTold ==
  Quiet /\ held > 0 /\ At("sl") = {} /\ "sl" \in world.legs => Flagged \/ told # "none"

\* "a retry never re-requests a leg the adapter already placed": calls that do not overlap
\* leave one trigger per leg, whatever the reads answer, unless a cancel was refused or
\* the answer to a placement was lost.
OneOfEach ==
  Quiet /\ Alone /\ slips = 0 => \A leg \in Legs : Cardinality(At(leg)) <= 1

\* What is flagged is healed: once the faults are over, a pass of the guard restores the
\* stop of a position that is flagged for it.
Heals == held > 0 /\ At("sl") = {} /\ Flagged /\ Quiet ~> At("sl") # {} \/ held = 0

\* "position may be UNPROTECTED; will retry next pass": a position whose stop is gone is
\* one the guard will act on, or somebody outside was told.
StaysWatched ==
  Quiet /\ held > 0 /\ At("sl") = {} /\ "sl" \in world.legs => Flagged \/ told = "caller"
===============================================================================
