------------------------------- MODULE OrderFlow -------------------------------
(***************************************************************************)
(* An entry from the signal that asks for it to the position that holds    *)
(* it, across three services: a sender posts the signal, order-listener    *)
(* admits it as an order and processes that in a task of its own, and      *)
(* order-executor submits it to the exchange.                              *)
(*                                                                         *)
(*   post     a sender's attempts to post a signal                         *)
(*   task     _process_order, one per admitted order                       *)
(*   job      execute(), one per call the task makes                       *)
(*                                                                         *)
(* No message carries a key that would make its repetition harmless: a     *)
(* post whose answer is lost is posted again, a submission whose answer is *)
(* lost is submitted again under a new client id, and a task that waited   *)
(* too long writes its verdict while the executor is still at work.        *)
(*                                                                         *)
(* One account and symbol; each signal asks for one lot.  Closing signals  *)
(* are in PositionLedger, resting entries in RestingOrders.  "world" is    *)
(* the account, the sender and the load, chosen once:                      *)
(*   venue    whose adapter submits                                        *)
(*   hedge    both sides of the symbol may be held at once                 *)
(*   posts    how often the sender posts a signal it has no 200 for        *)
(*   busy     signals come and orders are processed while others still     *)
(*            are, and strategies are switched off and on                  *)
(*   plan     what each signal asks for                                    *)
(*   faults   how many lost answers, failed statements, restarts, expired  *)
(*            waits, unsent submissions and switches may happen            *)
(***************************************************************************)
EXTENDS Integers, FiniteSets, FiniteSetsExt

CONSTANTS
  Signals,      \* signals that may be emitted
  Strategies,
  Worlds,
  LastOrder,    \* orders rows
  Attempts,     \* submissions per order, MAX_RETRIES
  NULL

Sides  == {"long", "short"}
Kinds  == {"market", "limit"}
Orders == 1..LastOrder

ASSUME WorldsAssumption ==
  Worlds \subseteq [venue : {"blofin", "hyperliquid", "binance"}, hedge : BOOLEAN,
                    posts : Nat, busy : BOOLEAN, faults : Nat,
                    plan : [Signals -> [strategy : Strategies, side : Sides, kind : Kinds]]]
ASSUME FlowBoundsAssumption ==
  LastOrder \in Nat /\ Attempts \in Nat \ {0}
ASSUME FlowNullAssumption ==
  NULL \notin Signals

VARIABLES
  world,
  enabled,    \* strategies.enabled
  cached,     \* config:strategy_cache: the flag as it was read, NULL when expired
  post, order, task, job,
  pos,        \* strategy_positions: lots of each strategy's open row of a side
  dead,       \* dead_letter_orders
  entries,    \* the exchange: entries accepted for an order
  fills,      \* those that executed at once
  lost,       \* per signal, answers lost after what they answer was done
  fails,      \* failed statements, restarts and expired waits
  faults,     \* all faults there have been
  netted      \* some entry met the strategy's own opposite leg

book     == <<order, pos, dead>>
exchange == <<entries, fills, netted>>
counts   == <<lost, fails, faults>>
gate     == <<enabled, cached>>
vars     == <<world, gate, post, task, job, book, exchange, counts>>

-------------------------------------------------------------------------------
Opposite(side) == IF side = "long" THEN "short" ELSE "long"
Asked(k)       == world.plan[order[k].signal]
NoJob          == [at |-> "none", try |-> 0, result |-> NULL, flip |-> FALSE]

Init ==
  /\ world \in Worlds
  /\ enabled = [s \in Strategies |-> TRUE] /\ cached = [s \in Strategies |-> NULL]
  /\ post = [g \in Signals |-> [at |-> "idle", tries |-> 0]]
  /\ order = [k \in Orders |-> [signal |-> NULL, status |-> "none"]]
  /\ task = [k \in Orders |-> [at |-> "none", result |-> NULL]]
  /\ job = [k \in Orders |-> NoJob]
  /\ pos = [s \in Strategies |-> [d \in Sides |-> 0]]
  /\ dead = {}
  /\ entries = [k \in Orders |-> 0] /\ fills = [k \in Orders |-> 0] /\ netted = FALSE
  /\ lost = [g \in Signals |-> 0] /\ fails = 0 /\ faults = 0

Fault   == faults < world.faults /\ faults' = faults + 1
Lose(g) == Fault /\ lost' = [lost EXCEPT ![g] = @ + 1] /\ UNCHANGED fails
Fail    == Fault /\ fails' = fails + 1 /\ UNCHANGED lost
Slip    == Fault /\ UNCHANGED <<lost, fails>>

-------------------------------------------------------------------------------
(* The sender, and what order-listener does before it answers.             *)

Send(g) ==
  /\ post[g].at = "idle" /\ post[g].tries < world.posts
  /\ world.busy \/ \A h \in Signals \ {g} : post[h].at \in {"idle", "done"}
  /\ post' = [post EXCEPT ![g] = [at |-> "sent", tries |-> @.tries + 1]]
  /\ UNCHANGED <<world, gate, task, job, book, exchange, counts>>

\* The strategy as it was up to a few seconds ago decides whether the signal passes.
LoadStrategy(g) ==
  LET s == world.plan[g].strategy  on == IF cached[s] = NULL THEN enabled[s] ELSE cached[s] IN
  /\ post[g].at = "sent"
  /\ cached' = [cached EXCEPT ![s] = on]
  /\ post' = [post EXCEPT ![g].at = IF on THEN "checked" ELSE "refused"]
  /\ UNCHANGED <<world, enabled, task, job, book, exchange, counts>>

\* Symbol, leverage, reference price, bracket or reward/risk: 422.
Reject(g) ==
  /\ post[g].at = "checked"
  /\ post' = [post EXCEPT ![g].at = "refused"]
  /\ UNCHANGED <<world, gate, task, job, book, exchange, counts>>

\* A new order, under an id of its own, and a task to process it.
Admit(g) ==
  /\ post[g].at = "checked"
  /\ \E k \in Orders :
       /\ order[k].status = "none" /\ \A q \in Orders : q < k => order[q].status # "none"
       /\ order' = [order EXCEPT ![k] = [signal |-> g, status |-> "received"]]
       /\ task' = [task EXCEPT ![k].at = "guard"]
  /\ post' = [post EXCEPT ![g].at = "admitted"]
  /\ UNCHANGED <<world, gate, job, pos, dead, exchange, counts>>

\* The sender hears of it: a 200 ends the matter, anything else is posted again.
Answer(g) ==
  /\ post[g].at \in {"admitted", "refused"}
  /\ post' = [post EXCEPT ![g].at = IF @ = "admitted" THEN "done" ELSE "idle"]
  /\ UNCHANGED <<world, gate, task, job, book, exchange, counts>>

\* It does not: the post ended in a time-out.
AnswerLost(g) ==
  /\ post[g].at = "admitted" /\ Lose(g)
  /\ post' = [post EXCEPT ![g].at = "idle"]
  /\ UNCHANGED <<world, gate, task, job, book, exchange>>

Toggle(s) ==
  /\ world.busy /\ Slip
  /\ enabled' = [enabled EXCEPT ![s] = ~@]
  /\ UNCHANGED <<world, cached, post, task, job, book, exchange>>

CacheExpires(s) ==
  /\ cached[s] # NULL /\ world.busy
  /\ cached' = [cached EXCEPT ![s] = NULL]
  /\ UNCHANGED <<world, enabled, post, task, job, book, exchange, counts>>

-------------------------------------------------------------------------------
(* _process_order.                                                         *)

Under == {k \in Orders : task[k].at \notin {"none", "guard", "done", "gone"}}

\* The sides other strategies, as far as they are enabled, hold on the symbol.
Taken(k) ==
  {d \in Sides : \E s \in Strategies : s # Asked(k).strategy /\ enabled[s] /\ pos[s][d] > 0}

\* Faulty variant: only the other side is a conflict on a one-way account.
ConflictOpposite(k) ==
  IF world.hedge THEN Asked(k).side \in Taken(k) ELSE Opposite(Asked(k).side) \in Taken(k)
\* In hedge mode only the same side collides; otherwise any.
Conflict(k) == IF world.hedge THEN Asked(k).side \in Taken(k) ELSE Taken(k) # {}

Guard(k) ==
  /\ task[k].at = "guard" /\ (world.busy \/ Under = {})
  /\ IF Conflict(k)
     THEN /\ order' = [order EXCEPT ![k].status = "conflict"]
          /\ task' = [task EXCEPT ![k].at = "done"]
     ELSE task' = [task EXCEPT ![k].at = "size"] /\ UNCHANGED order
  /\ UNCHANGED <<world, gate, post, job, pos, dead, exchange, counts>>

\* A failed query lets the order pass.
GuardFails(k) ==
  /\ task[k].at = "guard" /\ Fail
  /\ task' = [task EXCEPT ![k].at = "size"]
  /\ UNCHANGED <<world, gate, post, job, book, exchange>>

TooSmall(k) ==
  /\ task[k].at = "size"
  /\ order' = [order EXCEPT ![k].status = "size_too_small"]
  /\ task' = [task EXCEPT ![k].at = "done"]
  /\ UNCHANGED <<world, gate, post, job, pos, dead, exchange, counts>>

CallExecutor(k) ==
  /\ task[k].at = "size"
  /\ task' = [task EXCEPT ![k].at = "call"]
  /\ job' = [job EXCEPT ![k] = [NoJob EXCEPT !.at = "load", !.try = 1]]
  /\ UNCHANGED <<world, gate, post, book, exchange, counts>>

Answered(k) ==
  /\ task[k].at = "call" /\ job[k].at = "answer"
  /\ task' = [task EXCEPT ![k] = [at |-> "write", result |-> job[k].result]]
  /\ job' = [job EXCEPT ![k].at = "over"]
  /\ UNCHANGED <<world, gate, post, book, exchange, counts>>

\* Faulty variant: the time-out is passed on as it is.
CallExpiresBare(k) ==
  /\ task[k].at = "call" /\ Fail
  /\ task' = [task EXCEPT ![k] = [at |-> "write", result |-> NULL]]
  /\ UNCHANGED <<world, gate, post, job, book, exchange>>
\* 30 seconds are over, or the connection broke: the executor goes on alone.
CallExpires(k) ==
  /\ task[k].at = "call" /\ Fail
  /\ task' = [task EXCEPT ![k] = [at |-> "write", result |-> "route_failed"]]
  /\ UNCHANGED <<world, gate, post, job, book, exchange>>

\* Faulty variant: a resting entry counts as filled.
WriteStatusEager(k) ==
  /\ task[k].at = "write"
  /\ order' = [order EXCEPT ![k].status = task[k].result]
  /\ task' = [task EXCEPT ![k].at =
                IF task[k].result \in {"filled", "pending"} THEN "apply" ELSE "done"]
  /\ UNCHANGED <<world, gate, post, job, pos, dead, exchange, counts>>
\* The verdict is written over whatever the row says; only a confirmed fill goes on.
WriteStatus(k) ==
  /\ task[k].at = "write"
  /\ order' = [order EXCEPT ![k].status = task[k].result]
  /\ task' = [task EXCEPT ![k].at = IF task[k].result = "filled" THEN "apply" ELSE "done"]
  /\ UNCHANGED <<world, gate, post, job, pos, dead, exchange, counts>>

\* Top up the leg's row or create it.
ApplyFill(k) ==
  /\ task[k].at = "apply"
  /\ pos' = [pos EXCEPT ![Asked(k).strategy][Asked(k).side] = @ + 1]
  /\ task' = [task EXCEPT ![k].at = "flip"]
  /\ UNCHANGED <<world, gate, post, job, order, dead, exchange, counts>>

\* On a one-way account an entry that reports a profit or loss has netted the opposite
\* leg, whose row is closed.
Flip(k) ==
  LET a == Asked(k) IN
  /\ task[k].at = "flip"
  /\ pos' = IF ~world.hedge /\ job[k].flip THEN [pos EXCEPT ![a.strategy][Opposite(a.side)] = 0]
            ELSE pos
  /\ task' = [task EXCEPT ![k].at = "done"]
  /\ UNCHANGED <<world, gate, post, job, order, dead, exchange, counts>>

\* A statement raises.
TaskRaises(k) ==
  /\ task[k].at \in {"write", "apply"} /\ Fail
  /\ task' = [task EXCEPT ![k].at = "raised"]
  /\ UNCHANGED <<world, gate, post, job, book, exchange>>

\* Faulty variant: the exception is only logged.
RaisedLogged(k) ==
  /\ task[k].at = "raised"
  /\ task' = [task EXCEPT ![k].at = "done"]
  /\ UNCHANGED <<world, gate, post, job, book, exchange, counts>>
\* The order is recorded as failed, whatever happened to it on the exchange.
Raised(k) ==
  /\ task[k].at = "raised"
  /\ order' = [order EXCEPT ![k].status = "route_failed"]
  /\ task' = [task EXCEPT ![k].at = "done"]
  /\ UNCHANGED <<world, gate, post, job, pos, dead, exchange, counts>>

\* The listener's tasks are gone after a restart; the posts it had not answered fail.
ListenerRestarts ==
  /\ Fault /\ fails' = fails + 1
  /\ task' = [k \in Orders |-> IF task[k].at \in {"none", "done"} THEN task[k]
                               ELSE [task[k] EXCEPT !.at = "gone"]]
  /\ post' = [g \in Signals |-> IF post[g].at = "done" THEN post[g]
                                ELSE [post[g] EXCEPT !.at = "idle"]]
  /\ lost' = [g \in Signals |-> lost[g] + (IF post[g].at = "admitted" THEN 1 ELSE 0)]
  /\ UNCHANGED <<world, gate, job, book, exchange>>

-------------------------------------------------------------------------------
(* execute().                                                              *)

\* What submit_order may answer about an order the exchange took (in) or did not (out),
\* when the exchange answers.
BlofinVerdicts == [out |-> {"rejected"},
                   in  |-> [market |-> {"filled"}, limit |-> {"filled", "pending"}]]
HyperliquidVerdicts == [out |-> {"rejected"},
                        in  |-> [market |-> {"filled"}, limit |-> {"pending"}]]
BinanceVerdicts == [out |-> {"rejected", "route_failed"},
                    in  |-> [market |-> {"filled"}, limit |-> {"filled", "pending"}]]

\* Faulty variant: an accepted limit order whose state cannot be read is an error.
VerdictsStrict == [CASE world.venue = "blofin"      -> BlofinVerdicts
                     [] world.venue = "hyperliquid" -> HyperliquidVerdicts
                     [] world.venue = "binance"     -> BinanceVerdicts
                   EXCEPT !.in.limit = @ \cup {"route_failed"}]
Verdicts == CASE world.venue = "blofin"      -> BlofinVerdicts
              [] world.venue = "hyperliquid" -> HyperliquidVerdicts
              [] world.venue = "binance"     -> BinanceVerdicts

\* Each attempt begins by getting the account's adapter.
GetAdapter(k) ==
  /\ job[k].at = "load"
  /\ job' = [job EXCEPT ![k].at = "submit"]
  /\ UNCHANGED <<world, gate, post, task, book, exchange, counts>>

\* A failure to load it is retried, and dead-lettered in the end; an account that is
\* unknown or inactive ends the matter.
AdapterFails(k) ==
  /\ job[k].at = "load" /\ Fail
  /\ \/ /\ job[k].try < Attempts
        /\ job' = [job EXCEPT ![k].try = @ + 1] /\ UNCHANGED dead
     \/ /\ job[k].try = Attempts
        /\ job' = [job EXCEPT ![k].at = "record", ![k].result = "route_failed"]
        /\ dead' = dead \cup {k}
     \/ /\ job' = [job EXCEPT ![k].at = "record", ![k].result = "route_failed"]
        /\ UNCHANGED dead
  /\ UNCHANGED <<world, gate, post, task, order, pos, exchange>>

\* A transport error is retried while attempts are left; any other answer is final.
Conclude(k, answer, flip) ==
  LET j == job[k] IN
  job' = [job EXCEPT ![k] =
            IF answer = "route_failed" /\ j.try < Attempts
            THEN [j EXCEPT !.at = "load", !.try = j.try + 1]
            ELSE [j EXCEPT !.at = "record", !.result = answer, !.flip = flip]]

\* An entry against the strategy's own leg nets on a one-way account; one venue's adapter
\* reports no PnL for entries.
Nets(k) == ~world.hedge /\ pos[Asked(k).strategy][Opposite(Asked(k).side)] > 0

Enter(k, answer) ==
  /\ entries' = [entries EXCEPT ![k] = @ + 1]
  /\ fills' = IF answer = "pending" THEN fills ELSE [fills EXCEPT ![k] = @ + 1]
  /\ netted' = (netted \/ Nets(k))

Submitted(k, answer) ==
  /\ job[k].at = "submit" /\ answer \in Verdicts.in[Asked(k).kind]
  /\ Enter(k, answer)
  /\ Conclude(k, answer, Nets(k) /\ world.venue # "hyperliquid")
  /\ UNCHANGED <<world, gate, post, task, book, counts>>

Declined(k, answer) ==
  /\ job[k].at = "submit" /\ answer \in Verdicts.out
  /\ Conclude(k, answer, FALSE)
  /\ UNCHANGED <<world, gate, post, task, book, exchange, counts>>

NotSent(k) ==
  /\ job[k].at = "submit" /\ Slip
  /\ Conclude(k, "route_failed", FALSE)
  /\ UNCHANGED <<world, gate, post, task, book, exchange>>

\* The exchange took the order and its answer did not arrive; or arrived as an HTTP
\* error, which one adapter takes for a rejection.
SubmitLost(k) ==
  /\ job[k].at = "submit" /\ Lose(order[k].signal)
  /\ Enter(k, "filled")
  /\ \/ Conclude(k, "route_failed", FALSE)
     \/ world.venue = "blofin" /\ Conclude(k, "rejected", FALSE)
  /\ UNCHANGED <<world, gate, post, task, book>>

\* BloFin took a limit order that rests, and none of the lookups of its state succeeded:
\* the empty answer is not told from an order that left the book.
StateUnread(k) ==
  /\ job[k].at = "submit" /\ world.venue = "blofin" /\ Asked(k).kind = "limit" /\ Fail
  /\ entries' = [entries EXCEPT ![k] = @ + 1]
  /\ Conclude(k, "filled", FALSE)
  /\ UNCHANGED <<world, gate, post, task, book, fills, netted>>

\* The executor writes the row before it answers.
Record(k) ==
  /\ job[k].at = "record"
  /\ order' = [order EXCEPT ![k].status = job[k].result]
  /\ job' = [job EXCEPT ![k].at = "answer"]
  /\ UNCHANGED <<world, gate, post, task, pos, dead, exchange, counts>>

RecordFails(k) ==
  /\ job[k].at = "record" /\ Fail
  /\ job' = [job EXCEPT ![k].at = "answer"]
  /\ UNCHANGED <<world, gate, post, task, book, exchange>>

\* The executor's process is replaced; the listener's connection breaks.
ExecutorRestarts ==
  /\ Fail
  /\ job' = [k \in Orders |-> IF job[k].at = "none" THEN job[k]
                              ELSE [job[k] EXCEPT !.at = "over"]]
  /\ task' = [k \in Orders |-> IF task[k].at = "call"
                               THEN [at |-> "write", result |-> "route_failed"] ELSE task[k]]
  /\ UNCHANGED <<world, gate, post, book, exchange>>

-------------------------------------------------------------------------------
PostStep(g) == LoadStrategy(g) \/ Reject(g) \/ Admit(g) \/ Answer(g)
TaskStep(k) == \/ Guard(k) \/ TooSmall(k) \/ CallExecutor(k) \/ Answered(k) \/ WriteStatus(k)
               \/ ApplyFill(k) \/ Flip(k) \/ Raised(k)
JobStep(k)  == \/ GetAdapter(k) \/ Record(k)
               \/ \E answer \in {"filled", "pending", "rejected", "route_failed"} :
                    Submitted(k, answer) \/ Declined(k, answer)

Next ==
  \/ \E g \in Signals : Send(g) \/ PostStep(g) \/ AnswerLost(g)
  \/ \E s \in Strategies : Toggle(s) \/ CacheExpires(s)
  \/ \E k \in Orders :
       \/ TaskStep(k) \/ GuardFails(k) \/ CallExpires(k) \/ TaskRaises(k)
       \/ JobStep(k) \/ AdapterFails(k) \/ NotSent(k) \/ SubmitLost(k) \/ StateUnread(k)
       \/ RecordFails(k)
  \/ ListenerRestarts \/ ExecutorRestarts

Spec == Init /\ [][Next]_vars

\* The event loops of both services run what they have started.
FairSpec ==
  /\ Spec
  /\ \A k \in Orders : WF_vars(TaskStep(k)) /\ WF_vars(JobStep(k))

-------------------------------------------------------------------------------
Results == {"filled", "pending", "rejected", "route_failed"}

\* Types of the variables.
TypeOK ==
  /\ world \in Worlds
  /\ enabled \in [Strategies -> BOOLEAN] /\ cached \in [Strategies -> BOOLEAN \cup {NULL}]
  /\ post \in [Signals -> [at : {"idle", "sent", "checked", "admitted", "refused", "done"},
                           tries : Nat]]
  /\ order \in [Orders -> [signal : Signals \cup {NULL},
                  status : Results \cup {"none", "received", "conflict", "size_too_small"}]]
  /\ task \in [Orders -> [at : {"none", "guard", "size", "call", "write", "apply", "flip",
                                "raised", "done", "gone"}, result : Results \cup {NULL}]]
  /\ job \in [Orders -> [at : {"none", "load", "submit", "record", "answer", "over"},
                 try : 0..Attempts, result : Results \cup {NULL}, flip : BOOLEAN]]
  /\ pos \in [Strategies -> [Sides -> Nat]] /\ dead \subseteq Orders
  /\ entries \in [Orders -> Nat] /\ fills \in [Orders -> Nat] /\ netted \in BOOLEAN
  /\ lost \in [Signals -> Nat] /\ fails \in Nat /\ faults \in Nat

Of(g) == {k \in Orders : order[k].signal = g}
EntriesOf(g) == MapThenSumSet(LAMBDA k : entries[k], Of(g))

\* A signal becomes more than one entry only as often as an answer about it was lost -
\* whatever is refused, not sent, retried, restarted or waited for in vain
\* (_emit_signal, receive_webhook, execute).
OneEntryPerAnswer == \A g \in Signals : EntriesOf(g) <= 1 + lost[g]

Quiet == \A k \in Orders : task[k].at \in {"none", "done"} /\ job[k].at \in {"none", "over"}
Unharmed == fails = 0 /\ \A g \in Signals : lost[g] = 0

FilledFor(s, d) == MapThenSumSet(LAMBDA k : fills[k],
  {k \in Orders : order[k].signal # NULL /\ Asked(k).strategy = s /\ Asked(k).side = d})

\* With no answer lost and no statement failing, each strategy's rows show the entries
\* that filled for it, no more and no less, and the order rows of both writers agree
\* with that (_process_order, _apply_position_fill, _update_order_record).
FillsAreTracked ==
  (Quiet /\ Unharmed /\ ~netted) =>
    /\ \A s \in Strategies, d \in Sides : pos[s][d] = FilledFor(s, d)
    /\ \A k \in Orders : order[k].status = "filled" <=> fills[k] > 0

Holders(d) == {s \in Strategies : pos[s][d] > 0}

\* While orders are processed one at a time, no two strategies hold the same side of the
\* account's symbol, and on a one-way account no two hold any (the same-symbol guard).
OneOwner ==
  ~world.busy /\ fails = 0 =>
    /\ \A d \in Sides : Cardinality(Holders(d)) <= 1
    /\ world.hedge \/ Cardinality(UNION {Holders(d) : d \in Sides}) <= 1

\* An admitted order does not stay "received", unless a restart took its task.
Decided ==
  \A k \in Orders :
    order[k].status = "received" ~> order[k].status # "received" \/ task[k].at = "gone"
===============================================================================
