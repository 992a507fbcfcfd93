--------------------------- MODULE Notifications ---------------------------
(***************************************************************************)
(* The notification service's consumer (consumer.py): one member of a      *)
(* Redis consumer group reads the event stream in batches and takes each   *)
(* entry through dedup, push, log and ack.  An entry whose processing      *)
(* raises stays pending and is only read again when the process restarts,  *)
(* by the drain that precedes the live loop.                               *)
(*                                                                         *)
(* Any call may fail, with or without its effect, the process may crash    *)
(* between any two calls, and time may pass the 24 hour dedup window.      *)
(***************************************************************************)
EXTENDS Naturals, FiniteSets, Sequences

CONSTANTS
  NULL,        \* no dedup key
  Feeds,       \* the event sequences publishers may put on the stream
  Devices,     \* push subscriptions
  Replies,     \* what the push service may answer for each of them
  Batch,       \* entries one read returns (10 in the code)
  MaxDays,     \* bound: how often the dedup window passes
  MaxCrashes,  \* bound: process crashes
  MaxFaults    \* bound: failing calls

VARIABLES
  feed,      \* the events still to be published
  stream,    \* the notification stream
  given,     \* the group's last delivered position
  pending,   \* delivered and not acknowledged
  log,       \* the rows of notification_log
  device,    \* push_subscriptions: enabled, and what the push service answers
  consumer,  \* the consumer task
  day,       \* dedup windows gone by
  pushed,    \* the pushes that reached a device
  unlogged,  \* keys whose push reached a device and left no row
  raised,    \* entries left behind since the process started
  crashes, faults

vars == <<feed, stream, given, pending, log, device, consumer, day, pushed, unlogged, raised,
          crashes, faults>>
budget == <<crashes, faults>>

Kinds == {"event", "unknown", "malformed", "bare"}
Keys   == STRING \cup {NULL}
Events == [kind : Kinds, key : Keys]
Entry(kind, key) == [kind |-> kind, key |-> key]
Answers == {"delivered", "refused", "gone"}
\* A batch is the set of its entries still to be processed, in the order of their ids.
Idle(phase) == [phase |-> phase, batch |-> {}, last |-> {}, step |-> "next", todo |-> {},
                reached |-> {}, status |-> "skipped"]

Current == CHOOSE id \in consumer.batch : \A other \in consumer.batch : id <= other
Key == stream[Current].key
FirstOf(ids) == {id \in ids : Cardinality({other \in ids : other < id}) < Batch}

\* A row of the same key in the last 24 hours, whatever its status.
AlreadySent(key) == key # NULL /\ \E i \in DOMAIN log : log[i].key = key /\ log[i].day = day

\* The key is written whatever the status: a failed or skipped row silences repeats too.
RowUnkeyed(status) == [id |-> Current, key |-> NULL, status |-> status, day |-> day]
Row(status) == [id |-> Current, key |-> Key, status |-> status, day |-> day]

\* What a run of an entry owes when it ends without its row.
Unlogged == IF consumer.reached # {} THEN Append(unlogged, Key) ELSE unlogged

(***************************************************************************)
(* The task starts, drains what an earlier process left, then reads on.    *)
(***************************************************************************)
Init ==
  /\ feed \in Feeds
  /\ stream = <<>> /\ given = 0 /\ pending = {} /\ log = <<>>
  /\ \E reply \in Replies : device = [d \in Devices |-> [enabled |-> TRUE, answer |-> reply[d]]]
  /\ consumer = Idle("down")
  /\ day = 0 /\ pushed = <<>> /\ unlogged = <<>> /\ raised = {}
  /\ crashes = 0 /\ faults = 0

Publish ==
  /\ feed # <<>>
  /\ stream' = Append(stream, Head(feed))
  /\ feed' = Tail(feed)
  /\ UNCHANGED <<given, pending, log, device, consumer, day, pushed, unlogged, raised, budget>>

DayPasses ==
  /\ day < MaxDays
  /\ day' = day + 1
  /\ UNCHANGED <<feed, stream, given, pending, log, device, consumer, pushed, unlogged, raised, budget>>

Fault == faults < MaxFaults /\ faults' = faults + 1

\* ensure_group, then the drain loop.
Start ==
  /\ consumer.phase = "down"
  /\ consumer' = Idle("drain")
  /\ UNCHANGED <<feed, stream, given, pending, log, device, day, pushed, unlogged, raised, budget>>

\* The drain stops when nothing is pending or when a whole batch got nowhere.
ReadPending ==
  /\ consumer.phase = "drain" /\ consumer.batch = {}
  /\ LET ids == FirstOf(pending)
     IN  consumer' = IF ids = {} \/ ids = consumer.last THEN Idle("live")
                     ELSE [consumer EXCEPT !.batch = ids, !.last = ids]
  /\ UNCHANGED <<feed, stream, given, pending, log, device, day, pushed, unlogged, raised, budget>>

\* A read that fails while draining is outside every try: the task ends, the process lives on.
DrainDies ==
  /\ consumer.phase = "drain" /\ consumer.batch = {}
  /\ Fault
  /\ consumer' = Idle("dead")
  /\ UNCHANGED <<feed, stream, given, pending, log, device, day, pushed, unlogged, raised, crashes>>

Upto == IF given + Batch < Len(stream) THEN given + Batch ELSE Len(stream)
NextBatch == (given + 1)..Upto
Deliver == given' = Upto /\ pending' = pending \cup NextBatch

ReadGroup ==
  /\ consumer.phase = "live" /\ consumer.batch = {}
  /\ NextBatch # {}
  /\ Deliver /\ consumer' = [consumer EXCEPT !.batch = NextBatch]
  /\ UNCHANGED <<feed, stream, log, device, day, pushed, unlogged, raised, budget>>

\* The server delivered the batch, the answer never came: nobody reads it before a restart.
ReadLost ==
  /\ consumer.phase = "live" /\ consumer.batch = {}
  /\ NextBatch # {}
  /\ Fault
  /\ Deliver /\ raised' = raised \cup NextBatch
  /\ UNCHANGED <<feed, stream, log, device, consumer, day, pushed, unlogged, crashes>>

(***************************************************************************)
(* process_entry                                                           *)
(***************************************************************************)
At(step) == consumer.phase \in {"drain", "live"} /\ consumer.batch # {} /\ consumer.step = step
Go(step) == consumer' = [consumer EXCEPT !.step = step]
NextEntry == consumer' = [Idle(consumer.phase) EXCEPT !.batch = consumer.batch \ {Current},
                                                      !.last = consumer.last]

\* Whatever raises leaves the entry pending; the loop takes the next one.
Raise ==
  /\ raised' = raised \cup {Current}
  /\ unlogged' = IF consumer.step = "ack" THEN unlogged ELSE Unlogged
  /\ NextEntry

\* Dedup, then rendering; an entry without data skips both.
Judge ==
  /\ At("next")
  /\ LET kind == stream[Current].kind
     IN  /\ kind # "malformed"
         /\ consumer' = IF kind = "bare" THEN [consumer EXCEPT !.step = "ack"]
                        ELSE IF kind = "unknown" \/ AlreadySent(Key) THEN [consumer EXCEPT !.step = "log"]
                        ELSE [consumer EXCEPT !.step = "push", !.status = "failed",
                                              !.todo = {d \in Devices : device[d].enabled}]
  /\ UNCHANGED <<feed, stream, given, pending, log, device, day, pushed, unlogged, raised, budget>>

\* json.loads raises on every attempt: the entry stays pending for good.
Malformed ==
  /\ At("next") /\ stream[Current].kind = "malformed"
  /\ Raise
  /\ UNCHANGED <<feed, stream, given, pending, log, device, day, pushed, budget>>

\* One device after the other; a subscription the push service calls gone is disabled.
Push(d) ==
  /\ At("push") /\ d \in consumer.todo
  /\ LET reached == device[d].answer = "delivered"
     IN  /\ consumer' = [consumer EXCEPT !.todo = @ \ {d},
                                         !.reached = IF reached THEN @ \cup {d} ELSE @,
                                         !.status = IF reached THEN "sent" ELSE @]
         /\ pushed' = IF reached THEN Append(pushed, [key |-> Key, day |-> day, device |-> d])
                      ELSE pushed
  /\ device' = [device EXCEPT ![d].enabled = device[d].enabled /\ device[d].answer # "gone"]
  /\ UNCHANGED <<feed, stream, given, pending, log, day, unlogged, raised, budget>>

Pushed ==
  /\ At("push") /\ consumer.todo = {}
  /\ Go("log")
  /\ UNCHANGED <<feed, stream, given, pending, log, device, day, pushed, unlogged, raised, budget>>

Record ==
  /\ At("log")
  /\ log' = Append(log, Row(consumer.status))
  /\ Go("ack")
  /\ UNCHANGED <<feed, stream, given, pending, device, day, pushed, unlogged, raised, budget>>

Ack ==
  /\ At("ack")
  /\ pending' = pending \ {Current} /\ raised' = raised \ {Current}
  /\ NextEntry
  /\ UNCHANGED <<feed, stream, given, log, device, day, pushed, unlogged, budget>>

\* A query, an insert or an ack fails before it takes effect.
CallFails ==
  /\ \/ At("next") /\ stream[Current].kind \in {"event", "unknown"}
     \/ At("push") /\ \E d \in consumer.todo : device[d].answer = "gone"
     \/ At("log") \/ At("ack")
  /\ Fault
  /\ Raise
  /\ UNCHANGED <<feed, stream, given, pending, log, device, day, pushed, crashes>>

\* The insert is committed and the answer lost: the row is there, the entry stays pending.
RecordLost ==
  /\ At("log")
  /\ Fault
  /\ log' = Append(log, Row(consumer.status))
  /\ raised' = raised \cup {Current}
  /\ NextEntry
  /\ UNCHANGED <<feed, stream, given, pending, device, day, pushed, unlogged, crashes>>

Crash ==
  /\ consumer.phase # "down"
  /\ crashes < MaxCrashes
  /\ crashes' = crashes + 1
  /\ unlogged' = IF consumer.batch # {} /\ consumer.step # "ack" THEN Unlogged ELSE unlogged
  /\ raised' = {}
  /\ consumer' = Idle("down")
  /\ UNCHANGED <<feed, stream, given, pending, log, device, day, pushed, faults>>

\* create_subscription: the same endpoint subscribes again.
Subscribe(d) ==
  /\ ~device[d].enabled
  /\ Fault
  /\ device' = [device EXCEPT ![d] = [enabled |-> TRUE, answer |-> "delivered"]]
  /\ UNCHANGED <<feed, stream, given, pending, log, consumer, day, pushed, unlogged, raised, crashes>>

Unsubscribe(d) ==
  /\ device[d].enabled
  /\ Fault
  /\ device' = [device EXCEPT ![d].enabled = FALSE]
  /\ UNCHANGED <<feed, stream, given, pending, log, consumer, day, pushed, unlogged, raised, crashes>>

Serve ==
  \/ Start \/ ReadPending \/ ReadGroup
  \/ Judge \/ Malformed \/ Pushed \/ Record \/ Ack
  \/ \E d \in Devices : Push(d)
Environment ==
  \/ Publish \/ DayPasses \/ DrainDies \/ ReadLost \/ CallFails \/ RecordLost \/ Crash
  \/ \E d \in Devices : Subscribe(d) \/ Unsubscribe(d)
Next == Serve \/ Environment

Spec == Init /\ [][Next]_vars

TypeOK ==
  /\ stream \in Seq(Events)
  /\ given \in 0..Len(stream)
  /\ pending \subseteq 1..given
  /\ device \in [Devices -> [enabled : BOOLEAN, answer : Answers]]
  /\ consumer.phase \in {"down", "drain", "live", "dead"}
  /\ consumer.step \in {"next", "push", "log", "ack"}
  /\ consumer.todo \cup consumer.reached \subseteq Devices
  /\ consumer.batch \subseteq pending
  /\ raised \subseteq pending

----------------------------------------------------------------------------
Copies(s, x) == Cardinality({i \in DOMAIN s : s[i] = x})

(***************************************************************************)
(* "An entry is left unacked so it is redelivered on restart" (consumer.py *)
(* docstring): an acknowledged event has its row in notification_log.  And *)
(* redelivery does not push twice: a device gets a keyed event once per    *)
(* dedup window, once more for each run that reached a device and was cut  *)
(* off before its row was written.                                         *)
(***************************************************************************)
NoticedOnce ==
  /\ \A id \in (1..given) \ pending :
        stream[id].kind # "bare" => \E i \in DOMAIN log : log[i].id = id
  /\ \A i \in DOMAIN pushed :
        pushed[i].key # NULL =>
          Copies(pushed, pushed[i]) <= 1 + Copies(unlogged, pushed[i].key)

----------------------------------------------------------------------------
(* Why it holds: an entry comes to its ack with its row, and a device that *)
(* got an event either has a row of the same or a later window behind it,  *)
(* or the run that is about to write that row, or one that was cut off.    *)

Rows   == [id : Nat, key : Keys, status : {"sent", "failed", "skipped"}, day : Nat]
Pushes == [key : Keys, day : Nat, device : Devices]
NoticeTypes ==
  /\ feed \in Seq(Events) /\ stream \in Seq(Events) /\ given \in 0..Len(stream)
  /\ pending \subseteq 1..given
  /\ log \in Seq(Rows) /\ day \in Nat /\ pushed \in Seq(Pushes) /\ unlogged \in Seq(Keys)
  /\ device \in [Devices -> [enabled : BOOLEAN, answer : Answers]]
  /\ consumer \in [phase : {"down", "drain", "live", "dead"}, batch : SUBSET Nat,
                   last : SUBSET Nat, step : {"next", "push", "log", "ack"},
                   todo : SUBSET Devices, reached : SUBSET Devices,
                   status : {"sent", "failed", "skipped"}]
  /\ consumer.batch \subseteq pending

\* Only an entry in hand is beyond its first step, with nobody reached who is yet to be pushed.
InHand ==
  /\ consumer.phase \in {"down", "dead"} => consumer.batch = {}
  /\ consumer.batch = {} => consumer.step = "next"
  /\ consumer.step = "next" => consumer.reached = {}
  /\ consumer.todo \cap consumer.reached = {}

Logged(id) == stream[id].kind # "bare" => \E i \in DOMAIN log : log[i].id = id
Acked ==
  /\ \A id \in (1..given) \ pending : Logged(id)
  /\ consumer.step = "ack" => Logged(Current)

\* Nothing is ahead of the clock, and while an event is pushed this window has no row of it.
Fresh ==
  /\ \A i \in DOMAIN log : log[i].day <= day
  /\ \A i \in DOMAIN pushed : pushed[i].day <= day
  /\ consumer.step = "push" /\ Key # NULL =>
       \A i \in DOMAIN log : log[i].key = Key => log[i].day < day

Covered(p) ==
  \/ \E i \in DOMAIN log : log[i].key = p.key /\ p.day <= log[i].day
  \/ consumer.step \in {"push", "log"} /\ Key = p.key /\ p.device \in consumer.reached
Once ==
  \A p \in Pushes :
    p.key # NULL =>
      Copies(pushed, p) <= Copies(unlogged, p.key) + (IF Covered(p) THEN 1 ELSE 0)

NoticeInv == NoticeTypes /\ InHand /\ Acked /\ Fresh /\ Once
============================================================================
