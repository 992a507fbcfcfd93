----------------------------- MODULE RestingOrders -----------------------------
(***************************************************************************)
(* Limit orders that rest on an exchange, from the order row that says     *)
(* "pending" to the position that holds their fill: the reconcile pass     *)
(* that tells a fill from a cancellation, and the cancel and amend         *)
(* requests that change the same orders meanwhile.  One strategy, one leg. *)
(*                                                                         *)
(* A pass makes three reads that are not a snapshot: the pending rows, the *)
(* open orders, the positions.  An order that is off the open-order list   *)
(* is called filled if the exchange holds more than the position row       *)
(* shows, for as much as it holds more, and cancelled otherwise.           *)
(*                                                                         *)
(* "world" is what varies between venues and callers; it is chosen once:   *)
(*   style    how the venue amends: cancel then replace (BloFin), a native *)
(*            modify that hands out a new id (Hyperliquid), or one that    *)
(*            keeps the id (Binance)                                       *)
(*   blind    a failed open-order read answers an empty list               *)
(*   careful  requests and closes stay out of a running pass, and leave    *)
(*            partly filled orders alone                                   *)
(***************************************************************************)
EXTENDS Integers

CONSTANTS
  Orders,        \* limit orders, numbered by received_at
  Size,          \* lots each order asks for
  Worlds,        \* the combinations of style, blind and careful considered
  MaxRequests,   \* cancel and amend requests made
  MaxBreaks,     \* failed reads, passes and requests cut short by a restart
  NULL

ASSUME OrdersAssumption == Orders \subseteq Nat
ASSUME SizeAssumption   == Size \in [Orders -> Nat \ {0}]
ASSUME WorldsAssumption ==
  Worlds \subseteq [style : {"replace", "modify", "native"}, blind : BOOLEAN, careful : BOOLEAN]
ASSUME BoundsAssumption == MaxRequests \in Nat /\ MaxBreaks \in Nat
\* NULL is no order and no loaded row.
ASSUME RestingNullAssumption ==
  NULL \notin Orders /\ NULL \notin [order : Orders, id : Nat, size : Nat]

VARIABLES
  world,
  row,        \* orders: status, exchange_order_id, size
  venue,      \* the exchange's side of each order: state, id, size, filled
  held,       \* lots of the leg on the exchange
  tracked,    \* strategy_positions.size of the open row, 0 if there is none
  pass,       \* _reconcile_pending_orders: where it is and what it has read
  req,        \* the cancel or amend request under way
  asked, breaks   \* counters that bound the instances

vars == <<world, row, venue, held, tracked, pass, req, asked, breaks>>

-------------------------------------------------------------------------------
NoPass == [at |-> "idle", todo |-> {}, resting |-> {}, live |-> 0,
           order |-> NULL, spare |-> 0]
NoReq  == [at |-> "idle", order |-> NULL, id |-> 0, new |-> 0, size |-> 0]

Init ==
  /\ world \in Worlds
  /\ row = [o \in Orders |-> [status |-> "none", id |-> 0, size |-> 0]]
  /\ venue = [o \in Orders |-> [state |-> "none", id |-> 0, size |-> 0, filled |-> 0]]
  /\ held = 0 /\ tracked = 0
  /\ pass = NoPass /\ req = NoReq
  /\ asked = 0 /\ breaks = 0

Least(x, y) == IF x <= y THEN x ELSE y

Rests(o) == venue[o].state = "resting"

\* Nothing a careful caller does falls into a running pass.
MayInterfere == world.careful => pass.at = "idle"

-------------------------------------------------------------------------------
(* The exchange.                                                           *)

\* A limit entry is accepted and rests; the order row says so.
Place(o) ==
  /\ row[o].status = "none" /\ \A q \in Orders : q < o => row[q].status # "none"
  /\ row' = [row EXCEPT ![o] = [status |-> "pending", id |-> 1, size |-> Size[o]]]
  /\ venue' = [venue EXCEPT ![o] = [state |-> "resting", id |-> 1, size |-> Size[o], filled |-> 0]]
  /\ UNCHANGED <<world, held, tracked, pass, req, asked, breaks>>

Fill(o, n) ==
  /\ Rests(o) /\ n \in 1..(venue[o].size - venue[o].filled)
  /\ venue' = [venue EXCEPT ![o].filled = @ + n,
                 ![o].state = IF venue[o].filled + n = venue[o].size THEN "filled" ELSE @]
  /\ held' = held + n
  /\ UNCHANGED <<world, row, tracked, pass, req, asked, breaks>>

\* An order expires, or is cancelled in the exchange's own app.
Expire(o) ==
  /\ Rests(o)
  /\ venue' = [venue EXCEPT ![o].state = "gone"]
  /\ UNCHANGED <<world, row, held, tracked, pass, req, asked, breaks>>

\* A closer flattens the leg and closes its row.
Close ==
  /\ tracked > 0 /\ MayInterfere
  /\ held' = held - Least(held, tracked) /\ tracked' = 0
  /\ UNCHANGED <<world, row, venue, pass, req, asked, breaks>>

-------------------------------------------------------------------------------
(* The pass.                                                               *)

LoadPending ==
  LET pending == {o \in Orders : row[o].status = "pending"} IN
  /\ pass.at = "idle" /\ pending # {} /\ (world.careful => req.at = "idle")
  /\ pass' = [NoPass EXCEPT !.at = "orders",
                !.todo = {[order |-> o, id |-> row[o].id, size |-> row[o].size] : o \in pending}]
  /\ UNCHANGED <<world, row, venue, held, tracked, req, asked, breaks>>

\* Faulty variant: a partly filled order is not listed.
OnTheBookUntouched == {<<o, venue[o].id>> : o \in {q \in Orders : Rests(q) /\ venue[q].filled = 0}}
\* What the open-order list says of the resting orders.
OnTheBook == {<<o, venue[o].id>> : o \in {q \in Orders : Rests(q)}}

ReadOrders ==
  /\ pass.at = "orders"
  /\ pass' = [pass EXCEPT !.at = "positions", !.resting = OnTheBook]
  /\ UNCHANGED <<world, row, venue, held, tracked, req, asked, breaks>>

\* A failed read is unknown, and leaves every order for the next pass; on a blind
\* venue it is an empty list.
OrdersReadFails ==
  /\ pass.at = "orders" /\ breaks < MaxBreaks
  /\ pass' = IF world.blind THEN [pass EXCEPT !.at = "positions", !.resting = {}] ELSE NoPass
  /\ breaks' = breaks + 1
  /\ UNCHANGED <<world, row, venue, held, tracked, req, asked>>

ReadPositions ==
  /\ pass.at = "positions"
  /\ pass' = [pass EXCEPT !.at = "scan", !.live = held]
  /\ UNCHANGED <<world, row, venue, held, tracked, req, asked, breaks>>

\* Faulty variant: an order is looked at only if something is left to attribute.
OffBookFilled == {t \in pass.todo : <<t.order, t.id>> \notin pass.resting /\ pass.live > tracked}
\* The loaded orders that are off the book, oldest first.
OffBook == {t \in pass.todo : <<t.order, t.id>> \notin pass.resting}
Oldest(ts) == CHOOSE t \in ts : \A u \in ts : t.order <= u.order

\* How much of the exchange's position is not tracked yet, at most the order's size.
Spare(t) == Least(t.size, pass.live - tracked)

\* The position row is read afresh for each order.
SelectRow ==
  /\ pass.at = "scan" /\ OffBook # {}
  /\ LET t == Oldest(OffBook) IN
     pass' = [pass EXCEPT !.at = IF Spare(t) > 0 THEN "apply" ELSE "mark",
                          !.todo = @ \ {t}, !.order = t, !.spare = Spare(t)]
  /\ UNCHANGED <<world, row, venue, held, tracked, req, asked, breaks>>

\* _apply_position_fill tops up the row, or creates it.
Apply ==
  /\ pass.at = "apply"
  /\ tracked' = tracked + pass.spare
  /\ pass' = [pass EXCEPT !.at = "mark"]
  /\ UNCHANGED <<world, row, venue, held, req, asked, breaks>>

\* _update_order_status: filled with the size that was attributed, or cancelled;
\* unconditional, and the id of the load is written back.
Mark ==
  LET t == pass.order IN
  /\ pass.at = "mark"
  /\ row' = [row EXCEPT ![t.order] =
       IF pass.spare > 0 THEN [status |-> "filled", id |-> t.id, size |-> pass.spare]
                         ELSE [status |-> "cancelled", id |-> t.id, size |-> @.size]]
  /\ pass' = [pass EXCEPT !.at = "scan", !.order = NULL, !.spare = 0]
  /\ UNCHANGED <<world, venue, held, tracked, req, asked, breaks>>

EndPass ==
  /\ pass.at = "scan" /\ OffBook = {}
  /\ pass' = NoPass
  /\ UNCHANGED <<world, row, venue, held, tracked, req, asked, breaks>>

\* The pass raises, or the process restarts, anywhere: between applying a fill and
\* marking its order too.
PassBreaks ==
  /\ pass.at # "idle" /\ breaks < MaxBreaks
  /\ pass' = NoPass /\ breaks' = breaks + 1
  /\ UNCHANGED <<world, row, venue, held, tracked, req, asked>>

-------------------------------------------------------------------------------
(* Cancel and amend.                                                       *)

Ask(o, kind, n) ==
  /\ req.at = "idle" /\ asked < MaxRequests
  /\ row[o].status = "pending" /\ MayInterfere
  /\ req' = [NoReq EXCEPT !.at = kind, !.order = o, !.id = row[o].id, !.size = n]
  /\ asked' = asked + 1
  /\ UNCHANGED <<world, row, venue, held, tracked, pass, breaks>>

\* The exchange still has the order under the id the request names, and less of it
\* has filled than the request leaves; a careful caller leaves a part fill alone.
Found == /\ Rests(req.order) /\ venue[req.order].id = req.id
         /\ req.size = 0 \/ req.size > venue[req.order].filled
         /\ world.careful => venue[req.order].filled = 0

\* An order already gone counts as cancelled on the native venue.
AlreadyGone == world.style = "native" /\ req.at = "cancel" /\ ~Rests(req.order)

Refused ==
  /\ req.at \in {"cancel", "amend"} /\ ~Found /\ ~AlreadyGone
  /\ req' = NoReq
  /\ UNCHANGED <<world, row, venue, held, tracked, pass, asked, breaks>>

\* The order is cancelled, for the cancel request or as the first half of an amend.
VenueCancels ==
  /\ \/ req.at = "cancel" /\ (Found \/ AlreadyGone)
     \/ req.at = "amend" /\ Found /\ world.style = "replace"
  /\ venue' = IF Found THEN [venue EXCEPT ![req.order].state = "gone"] ELSE venue
  /\ req' = [req EXCEPT !.at = IF req.at = "cancel" THEN "strike" ELSE "replace"]
  /\ UNCHANGED <<world, row, held, tracked, pass, asked, breaks>>

\* Second half: the replacement rests under a new id, for the size asked for or the
\* whole size of the old order, whatever part of it had filled.
Replace ==
  LET o == req.order  n == IF req.size = 0 THEN venue[o].size ELSE req.size IN
  /\ req.at = "replace"
  /\ venue' = [venue EXCEPT ![o] =
       [state |-> "resting", id |-> @.id + 1, size |-> @.filled + n, filled |-> @.filled]]
  /\ req' = [req EXCEPT !.at = "write", !.new = venue[o].id + 1]
  /\ UNCHANGED <<world, row, held, tracked, pass, asked, breaks>>

\* The replacement is rejected: the order is gone.
ReplaceRejected ==
  /\ req.at = "replace"
  /\ req' = [req EXCEPT !.at = "strike"]
  /\ UNCHANGED <<world, row, venue, held, tracked, pass, asked, breaks>>

\* Hyperliquid's amend gives the order a new id and does not say which.
Modify ==
  LET o == req.order IN
  /\ req.at = "amend" /\ world.style = "modify" /\ Found
  /\ venue' = [venue EXCEPT ![o].id = @ + 1, ![o].size = IF req.size = 0 THEN @ ELSE req.size]
  /\ req' = [req EXCEPT !.at = "find"]
  /\ UNCHANGED <<world, row, held, tracked, pass, asked, breaks>>

\* Binance's leaves the order where it is, or as it was.
AmendInPlace ==
  /\ req.at = "amend" /\ world.style = "native" /\ Found
  /\ venue' = [venue EXCEPT ![req.order].size = IF req.size = 0 THEN @ ELSE req.size]
  /\ req' = [req EXCEPT !.at = "write", !.new = req.id]
  /\ UNCHANGED <<world, row, held, tracked, pass, asked, breaks>>

\* Faulty variant: nothing is returned for an order that has filled.
FindIdOrNone ==
  /\ req.at = "find"
  /\ req' = [req EXCEPT !.at = "write",
               !.new = IF Rests(req.order) THEN venue[req.order].id ELSE NULL]
  /\ UNCHANGED <<world, row, venue, held, tracked, pass, asked, breaks>>
\* The new id is looked for on the book; an order that has filled by then keeps
\* its old id on record.
FindId ==
  /\ req.at = "find"
  /\ req' = [req EXCEPT !.at = "write",
               !.new = IF Rests(req.order) THEN venue[req.order].id ELSE req.id]
  /\ UNCHANGED <<world, row, venue, held, tracked, pass, asked, breaks>>

\* The row the request's id names, as long as it is pending.
Named == row[req.order].id = req.id /\ row[req.order].status = "pending"

\* Faulty variant: the new id is not recorded.
WriteAmendKeepingId ==
  /\ req.at = "write"
  /\ row' = IF Named THEN [row EXCEPT ![req.order].size = IF req.size = 0 THEN @ ELSE req.size]
                     ELSE row
  /\ req' = NoReq
  /\ UNCHANGED <<world, venue, held, tracked, pass, asked, breaks>>
WriteAmend ==
  /\ req.at = "write"
  /\ row' = IF Named
            THEN [row EXCEPT ![req.order].id = req.new,
                             ![req.order].size = IF req.size = 0 THEN @ ELSE req.size]
            ELSE row
  /\ req' = NoReq
  /\ UNCHANGED <<world, venue, held, tracked, pass, asked, breaks>>

\* The order's row is struck off as cancelled.
Strike ==
  /\ req.at = "strike"
  /\ row' = IF Named THEN [row EXCEPT ![req.order].status = "cancelled"] ELSE row
  /\ req' = NoReq
  /\ UNCHANGED <<world, venue, held, tracked, pass, asked, breaks>>

\* The process restarts between the exchange's answer and the UPDATE.
RequestBreaks ==
  /\ req.at \in {"strike", "write"} /\ ~world.careful /\ breaks < MaxBreaks
  /\ req' = NoReq /\ breaks' = breaks + 1
  /\ UNCHANGED <<world, row, venue, held, tracked, pass, asked>>

-------------------------------------------------------------------------------
PassStep == ReadOrders \/ ReadPositions \/ SelectRow \/ Apply \/ Mark \/ EndPass
RequestStep == \/ Refused \/ VenueCancels \/ Replace \/ ReplaceRejected \/ Modify \/ AmendInPlace
               \/ FindId \/ WriteAmend \/ Strike

Next ==
  \/ \E o \in Orders : Place(o) \/ Expire(o) \/ \E n \in 1..Size[o] : Fill(o, n)
  \/ Close
  \/ LoadPending \/ PassStep \/ OrdersReadFails \/ PassBreaks
  \/ \E o \in Orders : Ask(o, "cancel", 0) \/ \E n \in 0..Size[o] : Ask(o, "amend", n)
  \/ RequestStep \/ RequestBreaks

Spec == Init /\ [][Next]_vars

\* The reconcile loop comes back every minute and finishes what it starts; a request
\* under way goes on.
FairSpec == Spec /\ WF_vars(LoadPending) /\ WF_vars(PassStep) /\ WF_vars(RequestStep)

-------------------------------------------------------------------------------
Status == {"none", "pending", "filled", "cancelled"}
Loaded == [order : Orders, id : Nat, size : Nat]

\* Types; and the position row never shows less than nothing.
TypeOK ==
  /\ world \in Worlds
  /\ row \in [Orders -> [status : Status, id : Nat, size : Nat]]
  /\ venue \in [Orders -> [state : {"none", "resting", "filled", "gone"}, id : Nat,
                           size : Nat, filled : Nat]]
  /\ held \in Nat /\ tracked \in Nat
  /\ pass.at \in {"idle", "orders", "positions", "scan", "apply", "mark"}
  /\ pass.todo \subseteq Loaded /\ pass.live \in Nat /\ pass.spare \in Int
  /\ pass.resting \subseteq Orders \X Nat
  /\ pass.order \in Loaded \cup {NULL}
  /\ pass.at \in {"apply", "mark"} => pass.order # NULL
  /\ req.at \in {"idle", "cancel", "amend", "replace", "find", "write", "strike"}
  /\ req.order \in Orders \cup {NULL} /\ req.id \in Nat /\ req.new \in Nat /\ req.size \in Nat
  /\ req.at # "idle" => req.order # NULL
  /\ asked \in 0..MaxRequests /\ breaks \in 0..MaxBreaks

Seeing == ~world.blind /\ world.style # "native"
Settled == pass.at = "idle" /\ req.at = "idle" /\ \A o \in Orders : row[o].status # "pending"

\* No fill is lost and none is counted twice: once no order is pending, the position
\* row shows exactly what the exchange holds - however fills, expiries, partial fills,
\* amended ids and interrupted passes fell (_reconcile_pending_orders).
NoFillLost == world.careful /\ Seeing /\ Settled => tracked = held

\* A second pending order cannot claim what a first one was given: the row never
\* shows more than the exchange holds (the docstring of _reconcile_pending_orders).
NoDoubleClaim == world.careful => tracked <= held

\* The two together: every fill reaches the position row, once.
FillsCountOnce == NoFillLost /\ NoDoubleClaim

\* An order the books call cancelled does not rest on the exchange any more, unless a
\* failed read was taken for an empty book (get_account_open_orders: "an empty list is a
\* confirmed read").
KnownCancelled ==
  world.careful /\ Seeing => \A o \in Orders : row[o].status = "cancelled" => ~Rests(o)

\* An order that left the book does not stay pending: a later pass decides it.
Decided ==
  \A o \in Orders :
    (row[o].status = "pending" /\ ~Rests(o)) ~> (row[o].status # "pending" \/ Rests(o))
===============================================================================
