----------------------------- MODULE CandleFeed -----------------------------
(***************************************************************************)
(* Candle ingestion (market-ingestion/app/ingestor.py): one symbol's REST  *)
(* warmup and its watch loop, which turns the exchange's candle updates    *)
(* into a Redis stream of closed bars and stitches gaps over REST.         *)
(*                                                                         *)
(* Bars are numbered; the exchange's current bar moves on whatever the     *)
(* ingestor does.  A call may fail before or after it took effect, and the *)
(* process may die between any two calls and start again with a warmup.    *)
(***************************************************************************)
EXTENDS Integers, SequencesExt

CONSTANTS
  NULL,
  Warmup,      \* closed bars a warmup asks for
  FetchLimit,  \* bars one gap fetch can return (1000 in the code)
  MaxBar,      \* bound: the exchange's last bar
  MaxFaults,   \* bound: failing calls and simulated stalls
  MaxCrashes   \* bound: process deaths

VARIABLES
  bar,      \* the exchange's current bar, still forming
  settled,  \* the current bar had its last update
  stream,   \* the closed bars published, in order
  forming,  \* candle:forming
  proc,     \* the ingestor's process and its locals
  stalled,  \* the simulate-gap flag
  missing,  \* bars given up: a failed stitch, an outage longer than a fetch covers
  again,    \* bars whose insert went through although the call raised
  wedged,   \* the loop lost its first event and raises on every one since
  faults, crashes

vars == <<bar, settled, stream, forming, proc, stalled, missing, again, wedged, faults, crashes>>

Candle(t, final) == [t |-> t, final |-> final]
Now == Candle(bar, settled)
Steps == {"down", "warmup", "write", "watch", "first", "close", "check", "stitch", "insert"}

\* The watch loop's locals, and the bars a REST answer still has to be written from.
Fresh(step) == [step |-> step, prev |-> NULL, first |-> TRUE, event |-> NULL, todo |-> <<>>, from |-> 0]

LastClosed == IF stream = <<>> THEN NULL ELSE Last(stream).t
BarsBetween(a, b) == [i \in 1..(b - a + 1) |-> Candle(a + i - 1, TRUE)]
Rest(a, b) == IF a > b THEN <<>> ELSE BarsBetween(a, b)
Older(x, y) == IF x < y THEN x ELSE y
Newer(x, y) == IF x < y THEN y ELSE x

Fault == faults < MaxFaults /\ faults' = faults + 1
ToStep(step) == proc' = [proc EXCEPT !.step = step]

Init ==
  /\ bar \in {1, 2} /\ settled = FALSE
  /\ stream = <<>> /\ forming = NULL
  /\ proc = Fresh("down") /\ stalled = FALSE
  /\ missing = {} /\ again = {} /\ wedged = FALSE
  /\ faults = 0 /\ crashes = 0

(***************************************************************************)
(* The exchange, the simulate-gap flag                                     *)
(***************************************************************************)
Update ==
  /\ ~settled /\ settled' = TRUE
  /\ UNCHANGED <<bar, stream, forming, proc, stalled, missing, again, wedged, faults, crashes>>

BarOpens ==
  /\ settled /\ bar < MaxBar
  /\ bar' = bar + 1 /\ settled' = FALSE
  /\ UNCHANGED <<stream, forming, proc, stalled, missing, again, wedged, faults, crashes>>

Stall ==
  /\ ~stalled /\ Fault /\ stalled' = TRUE
  /\ UNCHANGED <<bar, settled, stream, forming, proc, missing, again, wedged, crashes>>

StallEnds ==
  /\ stalled /\ stalled' = FALSE
  /\ UNCHANGED <<bar, settled, stream, forming, proc, missing, again, wedged, faults, crashes>>

(***************************************************************************)
(* warmup: the last closed bars, skipping what the stream already has      *)
(***************************************************************************)
Start ==
  /\ proc.step = "down"
  /\ ToStep("warmup")
  /\ UNCHANGED <<bar, settled, stream, forming, stalled, missing, again, wedged, faults, crashes>>

\* The first bar the stream does not have yet: older ones are skipped.
Unseen == IF stream = <<>> THEN 1 ELSE LastClosed + 1

WarmupFetch ==
  /\ proc.step = "warmup"
  /\ LET new == Rest(Newer(Unseen, bar - Warmup), bar - 1)
     IN  /\ proc' = [proc EXCEPT !.step = "write", !.todo = new, !.event = Now]
         \* An outage longer than the window leaves a hole, with a warning.
         /\ missing' = IF stream # <<>> /\ new # <<>>
                       THEN missing \cup (LastClosed + 1)..(Head(new).t - 1) ELSE missing
  /\ UNCHANGED <<bar, settled, stream, forming, stalled, again, wedged, faults, crashes>>

\* The fetch failed or came back empty: on to the watch loop without a warmup.
WarmupFails ==
  /\ proc.step = "warmup"
  /\ Fault
  /\ ToStep("watch")
  /\ UNCHANGED <<bar, settled, stream, forming, stalled, missing, again, wedged, crashes>>

WarmupWrite ==
  /\ proc.step = "write" /\ proc.todo # <<>>
  /\ stream' = Append(stream, Head(proc.todo))
  /\ proc' = [proc EXCEPT !.todo = Tail(@)]
  /\ UNCHANGED <<bar, settled, forming, stalled, missing, again, wedged, faults, crashes>>

WarmupDone ==
  /\ proc.step = "write" /\ proc.todo = <<>>
  /\ forming' = proc.event
  /\ proc' = Fresh("watch")
  /\ UNCHANGED <<bar, settled, stream, stalled, missing, again, wedged, faults, crashes>>

(***************************************************************************)
(* run: the watch loop                                                     *)
(***************************************************************************)
\* An update arrives: the forming candle and the heartbeat are written first.  A wedged loop
\* does no more than that.
Hear ==
  /\ proc.step = "watch" /\ ~stalled
  /\ forming # Now \/ proc.first
  /\ forming' = Now
  /\ IF wedged THEN UNCHANGED proc
     ELSE proc' = [proc EXCEPT !.event = Now,
                               !.step = IF proc.first THEN "first"
                                        ELSE IF bar > proc.prev.t THEN "close" ELSE "watch",
                               !.prev = IF ~proc.first /\ bar = proc.prev.t THEN Now ELSE @]
  /\ UNCHANGED <<bar, settled, stream, stalled, missing, again, wedged, faults, crashes>>

\* A write or the read of the flag fails before anything was decided: the event is dropped.
HearFails ==
  /\ proc.step = "watch" /\ ~wedged
  /\ Fault
  /\ forming' \in {forming, Now}
  /\ UNCHANGED <<bar, settled, stream, proc, stalled, missing, again, wedged, crashes>>

\* On the first event the stream's tail decides whether a startup gap is stitched.
FirstEvent ==
  /\ proc.step = "first"
  /\ proc' = [proc EXCEPT !.first = FALSE,
                          !.from = IF stream = <<>> THEN 0 ELSE LastClosed,
                          !.step = IF stream # <<>> /\ proc.event.t > LastClosed + 1
                                   THEN "stitch" ELSE "watch",
                          !.prev = IF stream # <<>> /\ proc.event.t > LastClosed + 1
                                   THEN @ ELSE proc.event]
  /\ UNCHANGED <<bar, settled, stream, forming, stalled, missing, again, wedged, faults, crashes>>

\* The read of the tail fails after first_event was cleared: prev_open_time stays None, and
\* comparing with it raises on every later event.
FirstEventFails ==
  /\ proc.step = "first"
  /\ Fault
  /\ wedged' = TRUE
  /\ proc' = [proc EXCEPT !.first = FALSE, !.step = "watch"]
  /\ UNCHANGED <<bar, settled, stream, forming, stalled, missing, again, crashes>>

\* A new bar opened: the previous one, as last heard, is closed.
CloseBar ==
  /\ proc.step = "close"
  /\ stream' = Append(stream, proc.prev)
  /\ ToStep("check")
  /\ UNCHANGED <<bar, settled, forming, stalled, missing, again, wedged, faults, crashes>>

\* The insert or the publish behind it fails: the same bar is closed again with the next event.
CloseFails ==
  /\ proc.step = "close"
  /\ Fault
  /\ \/ UNCHANGED <<stream, again>>
     \/ stream' = Append(stream, proc.prev) /\ again' = again \cup {proc.prev.t}
  /\ ToStep("watch")
  /\ UNCHANGED <<bar, settled, forming, stalled, missing, wedged, crashes>>

CheckGap ==
  /\ proc.step = "check"
  /\ proc' = IF proc.event.t > proc.prev.t + 1
             THEN [proc EXCEPT !.step = "stitch", !.from = proc.prev.t]
             ELSE [proc EXCEPT !.step = "watch", !.prev = proc.event]
  /\ UNCHANGED <<bar, settled, stream, forming, stalled, missing, again, wedged, faults, crashes>>

(***************************************************************************)
(* _gap_stitch: the bars after from, up to the forming one                 *)
(***************************************************************************)
SinceFrom == proc.from
Since == proc.from + 1

Resume(p) == [p EXCEPT !.step = "watch", !.prev = p.event, !.todo = <<>>]

Stitch ==
  /\ proc.step = "stitch"
  /\ LET to == Older(proc.event.t - 1, Since + FetchLimit - 1)
     IN  /\ proc' = [proc EXCEPT !.step = "insert", !.todo = Rest(Since, to)]
         /\ missing' = missing \cup (to + 1)..(proc.event.t - 1)
  /\ UNCHANGED <<bar, settled, stream, forming, stalled, again, wedged, faults, crashes>>

\* A failed or empty fetch is logged and the loop goes on behind the hole.
StitchFails ==
  /\ proc.step = "stitch"
  /\ Fault
  /\ missing' = missing \cup (proc.from + 1)..(proc.event.t - 1)
  /\ proc' = Resume(proc)
  /\ UNCHANGED <<bar, settled, stream, forming, stalled, again, wedged, crashes>>

StitchInsert ==
  /\ proc.step = "insert" /\ proc.todo # <<>>
  /\ stream' = Append(stream, Head(proc.todo))
  /\ proc' = [proc EXCEPT !.todo = Tail(@)]
  /\ UNCHANGED <<bar, settled, forming, stalled, missing, again, wedged, faults, crashes>>

StitchInsertFails ==
  /\ proc.step = "insert" /\ proc.todo # <<>>
  /\ Fault
  /\ stream' \in {stream, Append(stream, Head(proc.todo))}
  /\ missing' = missing \cup {c.t : c \in ToSet(proc.todo)}
  /\ proc' = Resume(proc)
  /\ UNCHANGED <<bar, settled, forming, stalled, again, wedged, crashes>>

StitchDone ==
  /\ proc.step = "insert" /\ proc.todo = <<>>
  /\ proc' = Resume(proc)
  /\ UNCHANGED <<bar, settled, stream, forming, stalled, missing, again, wedged, faults, crashes>>

\* The container restarts the process; a write that raises in the warmup ends it too.
Crash ==
  /\ proc.step # "down"
  /\ crashes < MaxCrashes /\ crashes' = crashes + 1
  /\ proc' = Fresh("down")
  /\ wedged' = FALSE
  /\ UNCHANGED <<bar, settled, stream, forming, stalled, missing, again, faults>>

Ingest ==
  \/ Start \/ WarmupFetch \/ WarmupWrite \/ WarmupDone
  \/ Hear \/ FirstEvent \/ CloseBar \/ CheckGap \/ Stitch \/ StitchInsert \/ StitchDone
Environment ==
  \/ Update \/ BarOpens \/ Stall \/ StallEnds \/ Crash
  \/ WarmupFails \/ HearFails \/ FirstEventFails \/ CloseFails \/ StitchFails \/ StitchInsertFails
Next == Ingest \/ Environment

Spec == Init /\ [][Next]_vars

CandleOrNull == [t : 1..MaxBar, final : BOOLEAN] \cup {NULL}
TypeOK ==
  /\ bar \in 1..MaxBar /\ settled \in BOOLEAN
  /\ ToSet(stream) \subseteq [t : 1..MaxBar, final : BOOLEAN]
  /\ {forming, proc.prev, proc.event} \subseteq CandleOrNull
  /\ proc.step \in Steps /\ proc.first \in BOOLEAN
  /\ missing \cup again \subseteq 1..MaxBar
  /\ stalled \in BOOLEAN /\ wedged \in BOOLEAN

----------------------------------------------------------------------------
(***************************************************************************)
(* Readers take the stream for an unbroken series of closed bars: each     *)
(* entry is closed, and one bar after the one before.  A bar appears twice *)
(* only when its insert went through and the call raised; bars are passed  *)
(* over only when a stitch failed or the outage was longer than a fetch    *)
(* covers.                                                                 *)
(***************************************************************************)
FeedIsWhole ==
  /\ \A i \in DOMAIN stream : stream[i].t < bar
  /\ \A i \in 1..(Len(stream) - 1) :
        LET here == stream[i].t
            next == stream[i + 1].t
        IN  \/ next > here /\ (here + 1)..(next - 1) \subseteq missing
            \/ next = here /\ here \in again

----------------------------------------------------------------------------
(***************************************************************************)
(* Why it holds: what the process has in hand at every step continues the  *)
(* stream.                                                                 *)
(***************************************************************************)
Bars == [t : Nat, final : BOOLEAN]
Procs == [step : Steps, prev : Bars \cup {NULL}, first : BOOLEAN, event : Bars \cup {NULL},
          todo : Seq(Bars), from : Nat]
FeedTypes ==
  /\ bar \in Nat /\ settled \in BOOLEAN /\ wedged \in BOOLEAN
  /\ stream \in Seq(Bars) /\ proc \in Procs

Passed(a, b) == (a + 1)..(b - 1) \subseteq missing
Follows(t)   == stream # <<>> => LastClosed < t /\ Passed(LastClosed, t)
Repeats(t)   == stream # <<>> /\ t = LastClosed /\ t \in again
InSeries(t)  == \A i \in DOMAIN proc.todo : proc.todo[i].t = t + i - 1

HandFits ==
  /\ proc.step \in {"down", "warmup"} => proc.first
  /\ proc.step = "write" /\ proc.todo # <<>> =>
       /\ InSeries(proc.todo[1].t) /\ Follows(proc.todo[1].t)
       /\ \A i \in DOMAIN proc.todo : proc.todo[i].t < bar
  /\ proc.step \in {"watch", "close"} /\ ~proc.first /\ ~wedged =>
       proc.prev \in Bars /\ proc.prev.t <= bar /\ (Follows(proc.prev.t) \/ Repeats(proc.prev.t))
  /\ proc.step \in {"first", "close", "check", "stitch", "insert"} =>
       proc.event \in Bars /\ proc.event.t <= bar
  /\ proc.step = "first" /\ stream # <<>> => LastClosed < proc.event.t
  /\ proc.step \in {"close", "check"} => proc.prev \in Bars /\ proc.prev.t < proc.event.t
  /\ proc.step = "close" => ~proc.first
  /\ proc.step = "check" => stream # <<>> /\ LastClosed = proc.prev.t
  /\ proc.step = "stitch" => stream # <<>> /\ LastClosed = proc.from /\ proc.from + 1 < proc.event.t
  /\ proc.step = "insert" =>
       /\ stream # <<>> /\ InSeries(LastClosed + 1)
       /\ LastClosed + Len(proc.todo) < proc.event.t
       /\ Passed(LastClosed + Len(proc.todo), proc.event.t)
  /\ wedged => proc.step = "watch" /\ ~proc.first

FeedInv == FeedTypes /\ FeedIsWhole /\ HandFits
============================================================================
