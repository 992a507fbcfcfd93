--------------------------- MODULE RestingStopsProofs ---------------------------
(***************************************************************************)
(* Resting entries, and the triggers of open positions beside them.        *)
(*                                                                         *)
(* Entries, for any orders and sizes, any number of requests and broken    *)
(* passes: when callers stay out of a running pass, what a pass attributes *)
(* is there, an order called cancelled does not rest, and every fill       *)
(* reaches the position row once.                                          *)
(*                                                                         *)
(* Triggers, for any accounts, callers and numbers of faults:              *)
(* modify-stops' verdicts are true, calls that do not overlap leave one    *)
(* trigger per leg, and a position that has lost its stop is known to      *)
(* somebody.                                                               *)
(***************************************************************************)
EXTENDS MCRestingStops, DataLemmas


PassSet  == [at : {"idle", "orders", "positions", "scan", "apply", "mark"},
             todo : SUBSET Loaded, resting : SUBSET (Orders \X Nat), live : Nat,
             order : Loaded \cup {NULL}, spare : Int]
ReqSet   == [at : {"idle", "cancel", "amend", "replace", "find", "write", "strike"},
             order : Orders \cup {NULL}, id : Nat, new : Nat, size : Nat]
RowSet   == [status : Status, id : Nat, size : Nat]
VenueSet == [state : {"none", "resting", "filled", "gone"}, id : Nat, size : Nat, filled : Nat]

\* Types, and what a pass and a request are about.
Types ==
  /\ world \in Worlds
  /\ row \in [Orders -> RowSet] /\ venue \in [Orders -> VenueSet]
  /\ held \in Nat /\ tracked \in Nat
  /\ pass \in PassSet /\ req \in ReqSet
  /\ asked \in 0..MaxRequests /\ breaks \in 0..MaxBreaks
  /\ pass.at \in {"apply", "mark"} => pass.order \in Loaded
  /\ pass.at = "apply" => pass.spare > 0
  /\ req.at # "idle" => req.order \in Orders

\* What a careful pass attributes is there: neither a fill nor a close makes less of it.
Backed ==
  world.careful =>
    /\ tracked <= held
    /\ pass.at \in {"scan", "apply", "mark"} => pass.live <= held
    /\ pass.at = "apply" => tracked + pass.spare <= pass.live

\* A request between the exchange's answer and the UPDATE, about this order.
Amending(o) == req.at \in {"find", "write"} /\ req.order = o

\* The order row and the exchange's order.
OrderFits(o) ==
  /\ row[o].status = "none" => venue[o].state = "none" /\ venue[o].filled = 0
  /\ row[o].status \in {"filled", "cancelled"} => ~Rests(o)
  /\ venue[o].filled <= venue[o].size
  /\ row[o].status = "pending" /\ ~Amending(o) =>
       venue[o].size <= row[o].size /\ (Rests(o) => row[o].id = venue[o].id)

\* The request and the order it names.
ReqFits ==
  LET o == req.order IN
  req.at # "idle" =>
    /\ pass.at = "idle" /\ Named
    /\ req.at \in {"replace", "strike"} => ~Rests(o) /\ venue[o].filled = 0
    /\ Amending(o) => venue[o].size <= (IF req.size = 0 THEN row[o].size ELSE req.size)
    /\ req.at = "write" => (Rests(o) => req.new = venue[o].id)

\* What the pass loaded is still so, and what it found off the book stays off.
LoadFits(t) ==
  row[t.order].status = "pending" /\ row[t.order].id = t.id /\ row[t.order].size = t.size
PassFits ==
  /\ pass.at # "idle" => \A t \in pass.todo : LoadFits(t)
  /\ pass.at \in {"positions", "scan", "apply", "mark"} =>
       \A t \in pass.todo : <<t.order, t.id>> \notin pass.resting => ~Rests(t.order)
  /\ pass.at \in {"apply", "mark"} =>
       /\ LoadFits(pass.order) /\ ~Rests(pass.order.order)
       /\ \A t \in pass.todo : t.order # pass.order.order

Fits == world.careful /\ Seeing => ReqFits /\ PassFits /\ \A o \in Orders : OrderFits(o)

\* What the pending orders have filled; the orders the pass found off the book.
Open == [o \in Orders |-> IF row[o].status = "pending" THEN venue[o].filled ELSE 0]
Off  == {t.order : t \in OffBook} \cup
          (IF pass.at \in {"apply", "mark"} THEN {pass.order.order} ELSE {})

\* What is not tracked yet is filled on pending orders: on others than the one about to be
\* marked; and what was filled after the pass read the positions, on those on the book.
Accounts ==
  /\ held - tracked <= Total(Open, Orders)
  /\ pass.at \in {"scan", "apply", "mark"} => held - pass.live <= Total(Open, Orders \ Off)
  /\ pass.at = "apply" => pass.spare = Spare(pass.order)
  /\ pass.at = "mark" => held - tracked <= Total(Open, Orders \ {pass.order.order})

Accounted == world.careful /\ Seeing => Accounts

-------------------------------------------------------------------------------
(* What the operators return.                                              *)

LEMMA LeastIs ==
  ASSUME NEW x \in Int, NEW y \in Int
  PROVE  /\ Least(x, y) \in Int /\ Least(x, y) <= x /\ Least(x, y) <= y
         /\ Least(x, y) = x \/ Least(x, y) = y
BY DEF Least

LEMMA NoPassIs ==
  NoPass \in PassSet /\ NoPass.at = "idle" /\ NoPass.todo = {}
BY DEF NoPass, PassSet

LEMMA NoReqIs == NoReq \in ReqSet /\ NoReq.at = "idle"
BY DEF NoReq, ReqSet

LEMMA SpareIs ==
  ASSUME Types, NEW t \in Loaded
  PROVE  /\ Spare(t) \in Int /\ t.size \in Nat /\ pass.live \in Nat
         /\ Spare(t) <= t.size /\ Spare(t) <= pass.live - tracked
         /\ Spare(t) = t.size \/ Spare(t) = pass.live - tracked
<1>1. /\ t.size \in Nat /\ pass.live \in Nat /\ tracked \in Nat
  BY DEF Types, PassSet, Loaded
<1>2. t.size \in Int /\ pass.live - tracked \in Int BY <1>1
<1> QED BY <1>1, <1>2, LeastIs DEF Spare

\* The oldest of the orders off the book is one of them.
LEMMA OldestIs ==
  ASSUME Types, OffBook # {}
  PROVE  Oldest(OffBook) \in OffBook /\ Oldest(OffBook) \in pass.todo
         /\ Oldest(OffBook) \in Loaded
<1> DEFINE B == OffBook  N == {t.order : t \in B}
<1>1. B \subseteq pass.todo /\ B \subseteq Loaded BY DEF Types, PassSet, OffBook
<1>2. \A t \in B : t.order \in Nat BY <1>1, OrdersAssumption DEF Loaded
<1>3. N \subseteq Nat /\ N # {} BY <1>2
<1>4. PICK n \in N : \A m \in N : ~(<<m, n>> \in OpToRel(<, Nat))
  <2> HIDE DEF N
  <2> QED BY <1>3, NatLessThanWellFounded, WFMin
<1>5. PICK t \in B : t.order = n OBVIOUS
<1>6. \A u \in B : t.order <= u.order
  <2> TAKE u \in B
  <2>1. t.order \in Nat /\ u.order \in Nat /\ u.order \in N BY <1>2
  <2>2. ~(<<u.order, t.order>> \in OpToRel(<, Nat)) BY <1>4, <1>5, <2>1
  <2>3. ~(u.order < t.order) BY <2>1, <2>2 DEF OpToRel
  <2> QED BY <2>1, <2>3
<1>7. Oldest(B) \in B
  <2> HIDE DEF B
  <2> QED BY <1>6 DEF Oldest
<1> QED BY <1>1, <1>7

-------------------------------------------------------------------------------
(* The types, and what each step does to the pass, the request, the row.   *)

LEMMA TypesInit == Init => Types
<1> SUFFICES ASSUME Init PROVE Types OBVIOUS
<1>1. row \in [Orders -> RowSet] /\ venue \in [Orders -> VenueSet]
  BY DEF Init, RowSet, VenueSet, Status
<1> QED BY <1>1, NoPassIs, NoReqIs, BoundsAssumption DEF Init, Types

\* What happens on the exchange, and closing.
LEMMA VenueTypes ==
  ASSUME Types,
         \/ \E o \in Orders : Place(o) \/ Expire(o) \/ \E n \in 1..Size[o] : Fill(o, n)
         \/ Close
  PROVE  Types'
<1>a. /\ row \in [Orders -> RowSet] /\ venue \in [Orders -> VenueSet]
      /\ held \in Nat /\ tracked \in Nat
  BY DEF Types
<1>1. ASSUME NEW o \in Orders, Place(o) PROVE Types'
  <2>1. Size[o] \in Nat BY SizeAssumption
  <2>2. /\ row' = [row EXCEPT ![o] = [status |-> "pending", id |-> 1, size |-> Size[o]]]
        /\ venue' = [venue EXCEPT ![o] = [state |-> "resting", id |-> 1, size |-> Size[o],
                                          filled |-> 0]]
    BY <1>1 DEF Place
  <2>3. row' \in [Orders -> RowSet] BY <1>a, <2>1, <2>2 DEF RowSet, Status
  <2>4. venue' \in [Orders -> VenueSet] BY <1>a, <2>1, <2>2 DEF VenueSet
  <2> QED BY <1>1, <2>3, <2>4 DEF Place, Types
<1>2. ASSUME NEW o \in Orders, Expire(o) PROVE Types'
  <2>1. venue' \in [Orders -> VenueSet] BY <1>a, <1>2 DEF Expire, VenueSet
  <2> QED BY <1>2, <2>1 DEF Expire, Types
<1>3. ASSUME NEW o \in Orders, NEW n \in 1..Size[o], Fill(o, n) PROVE Types'
  <2> DEFINE v == venue[o]
             s == IF v.filled + n = v.size THEN "filled" ELSE v.state
             w == [v EXCEPT !.filled = v.filled + n, !.state = s]
  <2>0. n \in Nat BY SizeAssumption
  <2>1. v \in VenueSet /\ v.filled + n \in Nat /\ s \in {"none", "resting", "filled", "gone"}
    BY <1>a, <2>0 DEF VenueSet
  <2>2. venue' = [venue EXCEPT ![o] = w] BY <1>3, <1>a DEF Fill
  <2>3. w \in VenueSet
    <3> HIDE DEF v, s
    <3> QED BY <2>1 DEF VenueSet
  <2> HIDE DEF w
  <2>4. venue' \in [Orders -> VenueSet] BY <1>a, <2>2, <2>3
  <2>5. held' \in Nat BY <1>a, <1>3, <2>0 DEF Fill
  <2> QED BY <1>3, <2>4, <2>5 DEF Fill, Types
<1>4. CASE Close
  <2>1. /\ Least(held, tracked) \in Int /\ Least(held, tracked) <= held
    BY <1>a, LeastIs
  <2>2. held' \in Nat /\ tracked' \in Nat BY <1>4, <1>a, <2>1 DEF Close
  <2> QED BY <1>4, <2>2 DEF Close, Types
<1> QED BY <1>1, <1>2, <1>3, <1>4

\* What the steps of a pass do to it.
LEMMA LoadDoes ==
  ASSUME Types, LoadPending
  PROVE  /\ pass' \in PassSet /\ pass'.at = "orders" /\ pass.at = "idle"
         /\ \A t \in pass'.todo : LoadFits(t)
<1> DEFINE pending == {o \in Orders : row[o].status = "pending"}
           l(o) == [order |-> o, id |-> row[o].id, size |-> row[o].size]
           todo == {l(o) : o \in pending}
<1>1. pass' = [NoPass EXCEPT !.at = "orders", !.todo = todo] /\ pass.at = "idle"
  BY DEF LoadPending
<1>2. \A o \in pending : l(o) \in Loaded BY DEF Types, RowSet, Loaded
<1>3. todo \subseteq Loaded BY <1>2
<1>4. \A t \in todo : LoadFits(t) BY DEF LoadFits
<1> HIDE DEF todo
<1>5. pass' \in PassSet /\ pass'.at = "orders" /\ pass'.todo = todo
  BY <1>1, <1>3, NoPassIs DEF PassSet
<1> QED BY <1>1, <1>4, <1>5

LEMMA SelectDoes ==
  ASSUME Types, SelectRow
  PROVE  \E t \in OffBook :
           /\ t \in pass.todo /\ t \in Loaded
           /\ pass' \in PassSet /\ pass'.at = IF Spare(t) > 0 THEN "apply" ELSE "mark"
           /\ pass'.todo = pass.todo \ {t} /\ pass'.order = t /\ pass'.spare = Spare(t)
           /\ pass'.live = pass.live /\ pass'.resting = pass.resting /\ pass.at = "scan"
<1> DEFINE t == Oldest(OffBook)
<1>1. t \in OffBook /\ t \in pass.todo /\ t \in Loaded BY OldestIs DEF SelectRow
<1>2. Spare(t) \in Int BY <1>1, SpareIs
<1>3. /\ pass' = [pass EXCEPT !.at = IF Spare(t) > 0 THEN "apply" ELSE "mark",
                              !.todo = pass.todo \ {t}, !.order = t, !.spare = Spare(t)]
      /\ pass.at = "scan"
  BY DEF SelectRow
<1>4. pass \in PassSet BY DEF Types
<1> HIDE DEF t
<1>5. /\ pass' \in PassSet /\ pass'.at = (IF Spare(t) > 0 THEN "apply" ELSE "mark")
      /\ pass'.todo = pass.todo \ {t} /\ pass'.order = t /\ pass'.spare = Spare(t)
      /\ pass'.live = pass.live /\ pass'.resting = pass.resting
  BY <1>1, <1>2, <1>3, <1>4 DEF PassSet
<1> QED BY <1>1, <1>3, <1>5

LEMMA ReadDoes ==
  ASSUME Types
  PROVE  /\ ReadOrders =>
              /\ pass' \in PassSet /\ pass.at = "orders" /\ pass'.at = "positions"
              /\ pass'.todo = pass.todo /\ pass'.resting = OnTheBook
         /\ ReadPositions =>
              /\ pass' \in PassSet /\ pass.at = "positions" /\ pass'.at = "scan"
              /\ pass'.todo = pass.todo /\ pass'.resting = pass.resting /\ pass'.live = held
         /\ Apply =>
              /\ pass' \in PassSet /\ pass.at = "apply" /\ pass'.at = "mark"
              /\ pass'.todo = pass.todo /\ pass'.resting = pass.resting
              /\ pass'.live = pass.live /\ pass'.order = pass.order /\ pass'.spare = pass.spare
         /\ Mark =>
              /\ pass' \in PassSet /\ pass.at = "mark" /\ pass'.at = "scan"
              /\ pass'.todo = pass.todo /\ pass'.resting = pass.resting /\ pass'.live = pass.live
<1>1. pass \in PassSet /\ held \in Nat BY DEF Types
<1>2. OnTheBook \in SUBSET (Orders \X Nat) BY DEF Types, OnTheBook, VenueSet
<1> DEFINE b == OnTheBook
<1>3. ASSUME ReadOrders
      PROVE  /\ pass' \in PassSet /\ pass.at = "orders" /\ pass'.at = "positions"
             /\ pass'.todo = pass.todo /\ pass'.resting = b
  <2>1. pass' = [pass EXCEPT !.at = "positions", !.resting = b] /\ pass.at = "orders"
    BY <1>3 DEF ReadOrders
  <2>2. b \subseteq Orders \X Nat BY <1>2
  <2> HIDE DEF b
  <2> QED BY <1>1, <2>1, <2>2 DEF PassSet
<1>4. ASSUME ReadPositions
      PROVE  /\ pass' \in PassSet /\ pass.at = "positions" /\ pass'.at = "scan"
             /\ pass'.todo = pass.todo /\ pass'.resting = pass.resting /\ pass'.live = held
  BY <1>1, <1>4 DEF ReadPositions, PassSet
<1>5. ASSUME Apply
      PROVE  /\ pass' \in PassSet /\ pass.at = "apply" /\ pass'.at = "mark"
             /\ pass'.todo = pass.todo /\ pass'.resting = pass.resting
             /\ pass'.live = pass.live /\ pass'.order = pass.order /\ pass'.spare = pass.spare
  BY <1>1, <1>5 DEF Apply, PassSet
<1>6. ASSUME Mark
      PROVE  /\ pass' \in PassSet /\ pass.at = "mark" /\ pass'.at = "scan"
             /\ pass'.todo = pass.todo /\ pass'.resting = pass.resting /\ pass'.live = pass.live
  <2>1. pass' = [pass EXCEPT !.at = "scan", !.order = NULL, !.spare = 0] /\ pass.at = "mark"
    BY <1>6 DEF Mark
  <2> DEFINE g == [pass EXCEPT !.at = "scan"]  h == [g EXCEPT !.order = NULL]
  <2>2. /\ g \in PassSet /\ g.at = "scan" /\ g.todo = pass.todo
        /\ g.resting = pass.resting /\ g.live = pass.live
    BY <1>1 DEF PassSet
  <2> HIDE DEF g
  <2>3. /\ h \in PassSet /\ h.at = "scan" /\ h.todo = pass.todo
        /\ h.resting = pass.resting /\ h.live = pass.live
    BY <2>2 DEF PassSet
  <2> HIDE DEF h
  <2>4. pass' = [h EXCEPT !.spare = 0] BY <2>1 DEF g, h
  <2> QED BY <2>1, <2>3, <2>4 DEF PassSet
<1> QED BY <1>3, <1>4, <1>5, <1>6

LEMMA PassTypes ==
  ASSUME Types, LoadPending \/ PassStep \/ OrdersReadFails \/ PassBreaks
  PROVE  Types'
<1>a. /\ row \in [Orders -> RowSet] /\ tracked \in Nat /\ pass \in PassSet
      /\ breaks \in 0..MaxBreaks
  BY DEF Types
<1>1. CASE LoadPending BY <1>1, LoadDoes DEF LoadPending, Types
<1>2. CASE ReadOrders BY <1>2, ReadDoes DEF ReadOrders, Types
<1>3. CASE ReadPositions BY <1>3, ReadDoes DEF ReadPositions, Types
<1>4. CASE SelectRow
  <2>1. PICK t \in Loaded :
          /\ pass' \in PassSet /\ pass'.at = IF Spare(t) > 0 THEN "apply" ELSE "mark"
          /\ pass'.order = t /\ pass'.spare = Spare(t)
    BY <1>4, SelectDoes
  <2> QED BY <1>4, <2>1 DEF SelectRow, Types
<1>5. CASE Apply
  <2>1. pass.spare \in Int /\ pass.spare > 0 BY <1>5, <1>a DEF Apply, Types, PassSet
  <2>2. tracked' \in Nat BY <1>5, <1>a, <2>1 DEF Apply
  <2> QED BY <1>5, <2>2, ReadDoes DEF Apply, Types
<1>6. CASE Mark
  <2> DEFINE t == pass.order
  <2>1. t.order \in Orders /\ t.id \in Nat /\ pass.spare \in Int
    BY <1>6, <1>a DEF Mark, Types, Loaded, PassSet
  <2>2. row' \in [Orders -> RowSet]
    <3> DEFINE r == IF pass.spare > 0
                    THEN [status |-> "filled", id |-> t.id, size |-> pass.spare]
                    ELSE [status |-> "cancelled", id |-> t.id, size |-> row[t.order].size]
    <3>1. row' = [row EXCEPT ![t.order] = r] BY <1>6 DEF Mark
    <3>2. row[t.order].size \in Nat BY <1>a, <2>1 DEF RowSet
    <3>3. r \in RowSet BY <2>1, <3>2 DEF RowSet, Status
    <3> HIDE DEF r
    <3> QED BY <1>a, <3>1, <3>3
  <2> QED BY <1>6, <2>2, ReadDoes DEF Mark, Types
<1>7. CASE EndPass BY <1>7, NoPassIs DEF EndPass, Types
<1>8. CASE OrdersReadFails
  <2>1. breaks' \in 0..MaxBreaks BY <1>8, <1>a, BoundsAssumption DEF OrdersReadFails
  <2>2. pass' \in PassSet /\ pass'.at \in {"idle", "positions"}
    <3>1. pass' = NoPass \/ pass' = [pass EXCEPT !.at = "positions", !.resting = {}]
      BY <1>8 DEF OrdersReadFails
    <3> QED BY <1>a, <3>1, NoPassIs DEF PassSet
  <2> QED BY <1>8, <2>1, <2>2 DEF OrdersReadFails, Types
<1>9. CASE PassBreaks
  <2>1. breaks' \in 0..MaxBreaks BY <1>9, <1>a, BoundsAssumption DEF PassBreaks
  <2> QED BY <1>9, <2>1, NoPassIs DEF PassBreaks, Types
<1> QED BY <1>1, <1>2, <1>3, <1>4, <1>5, <1>6, <1>7, <1>8, <1>9 DEF PassStep

\* What the steps of a request do.
LEMMA AskDoes ==
  ASSUME Types, NEW o \in Orders, NEW kind \in {"cancel", "amend"}, NEW n \in Nat,
         Ask(o, kind, n)
  PROVE  /\ req' \in ReqSet /\ req'.at = kind /\ req'.order = o /\ req'.id = row[o].id
         /\ req.at = "idle" /\ asked' \in 0..MaxRequests
<1>1. row[o].id \in Nat /\ asked \in 0..MaxRequests BY DEF Types, RowSet
<1>2. /\ req' = [NoReq EXCEPT !.at = kind, !.order = o, !.id = row[o].id, !.size = n]
      /\ req.at = "idle" /\ asked < MaxRequests /\ asked' = asked + 1
  BY DEF Ask
<1>3. /\ req' \in ReqSet /\ req'.at = kind /\ req'.order = o /\ req'.id = row[o].id
  BY <1>1, <1>2, NoReqIs DEF ReqSet
<1>4. asked' \in 0..MaxRequests BY <1>1, <1>2, BoundsAssumption
<1> QED BY <1>2, <1>3, <1>4

LEMMA VenueCancelsDoes ==
  ASSUME Types, VenueCancels
  PROVE  /\ req.order \in Orders /\ req' \in ReqSet /\ venue' \in [Orders -> VenueSet]
         /\ req'.at \in {"strike", "replace"} /\ req.at \in {"cancel", "amend"}
         /\ req'.order = req.order /\ req'.id = req.id /\ req'.size = req.size
         /\ \A o \in Orders : o # req.order => venue'[o] = venue[o]
         /\ Found => venue'[req.order] = [venue[req.order] EXCEPT !.state = "gone"]
<1>1. req.order \in Orders /\ req \in ReqSet /\ venue \in [Orders -> VenueSet]
  BY DEF Types, VenueCancels
<1>2. /\ req'.at \in {"strike", "replace"} /\ req' \in ReqSet
      /\ req'.order = req.order /\ req'.id = req.id /\ req'.size = req.size
  BY <1>1 DEF VenueCancels, ReqSet
<1>3. venue' \in [Orders -> VenueSet] BY <1>1 DEF VenueCancels, VenueSet
<1> QED BY <1>1, <1>2, <1>3 DEF VenueCancels

LEMMA ReplaceDoes ==
  ASSUME Types, Replace
  PROVE  LET o == req.order
             n == IF req.size = 0 THEN venue[o].size ELSE req.size
             w == [state |-> "resting", id |-> venue[o].id + 1, size |-> venue[o].filled + n,
                   filled |-> venue[o].filled]
         IN  /\ o \in Orders /\ req' \in ReqSet /\ venue' \in [Orders -> VenueSet]
             /\ req.at = "replace" /\ req'.at = "write" /\ req'.order = o /\ req'.id = req.id
             /\ req'.size = req.size /\ req'.new = venue[o].id + 1 /\ n \in Nat
             /\ venue'[o] = w /\ \A q \in Orders : q # o => venue'[q] = venue[q]
<1> DEFINE o == req.order
           n == IF req.size = 0 THEN venue[o].size ELSE req.size
           w == [state |-> "resting", id |-> venue[o].id + 1, size |-> venue[o].filled + n,
                 filled |-> venue[o].filled]
<1>1. /\ o \in Orders /\ req \in ReqSet /\ venue \in [Orders -> VenueSet]
      /\ venue[o] \in VenueSet
  BY DEF Types, Replace
<1>2. n \in Nat /\ venue[o].id \in Nat /\ venue[o].filled \in Nat BY <1>1 DEF ReqSet, VenueSet
<1>3. /\ venue' = [venue EXCEPT ![o] = w]
      /\ req' = [req EXCEPT !.at = "write", !.new = venue[o].id + 1] /\ req.at = "replace"
  BY DEF Replace
<1>4. w \in VenueSet
  <2> HIDE DEF n
  <2> QED BY <1>2 DEF VenueSet
<1>5. /\ req' \in ReqSet /\ req'.at = "write" /\ req'.order = o /\ req'.id = req.id
      /\ req'.size = req.size /\ req'.new = venue[o].id + 1
  <2> DEFINE m == venue[o].id + 1
  <2>1. m \in Nat /\ req' = [req EXCEPT !.at = "write", !.new = m] BY <1>2, <1>3
  <2> HIDE DEF m
  <2>2. /\ req' \in ReqSet /\ req'.at = "write" /\ req'.order = o /\ req'.id = req.id
        /\ req'.size = req.size /\ req'.new = m
    BY <1>1, <2>1 DEF ReqSet
  <2> QED BY <2>2 DEF m
<1> HIDE DEF w
<1>6. /\ venue' \in [Orders -> VenueSet] /\ venue'[o] = w
      /\ \A q \in Orders : q # o => venue'[q] = venue[q]
  BY <1>1, <1>3, <1>4
<1> QED BY <1>1, <1>2, <1>3, <1>5, <1>6 DEF w

LEMMA ModifyDoes ==
  ASSUME Types, Modify
  PROVE  LET o == req.order
             w == [venue[o] EXCEPT !.id = venue[o].id + 1,
                     !.size = IF req.size = 0 THEN venue[o].size ELSE req.size]
         IN  /\ o \in Orders /\ req' \in ReqSet /\ venue' \in [Orders -> VenueSet]
             /\ req.at = "amend" /\ req'.at = "find" /\ req'.order = o /\ req'.id = req.id
             /\ req'.size = req.size
             /\ venue'[o] = w /\ \A q \in Orders : q # o => venue'[q] = venue[q]
<1> DEFINE o == req.order
           n == IF req.size = 0 THEN venue[o].size ELSE req.size
           w == [venue[o] EXCEPT !.id = venue[o].id + 1, !.size = n]
<1>1. /\ o \in Orders /\ req \in ReqSet /\ venue \in [Orders -> VenueSet]
      /\ venue[o] \in VenueSet
  BY DEF Types, Modify
<1>2. n \in Nat BY <1>1 DEF ReqSet, VenueSet
<1>3. /\ venue' = [venue EXCEPT ![o] = w] /\ req' = [req EXCEPT !.at = "find"]
      /\ req.at = "amend"
  BY <1>1 DEF Modify
<1>4. w \in VenueSet
  <2> DEFINE m == venue[o].id + 1  u == [venue[o] EXCEPT !.id = m]
  <2>1. m \in Nat BY <1>1 DEF VenueSet
  <2> HIDE DEF m
  <2>2. u \in VenueSet BY <1>1, <2>1 DEF VenueSet
  <2> HIDE DEF u, n
  <2>3. [u EXCEPT !.size = n] \in VenueSet BY <1>2, <2>2 DEF VenueSet
  <2> QED BY <2>3 DEF u, m
<1>5. /\ req' \in ReqSet /\ req'.at = "find" /\ req'.order = o /\ req'.id = req.id
      /\ req'.size = req.size
  BY <1>1, <1>3 DEF ReqSet
<1>6. /\ venue' \in [Orders -> VenueSet] /\ venue'[o] = w
      /\ \A q \in Orders : q # o => venue'[q] = venue[q]
  <2> HIDE DEF w
  <2> QED BY <1>1, <1>3, <1>4
<1> QED BY <1>1, <1>3, <1>5, <1>6

LEMMA FindDoes ==
  ASSUME Types, FindId
  PROVE  /\ req.order \in Orders /\ req' \in ReqSet /\ req.at = "find" /\ req'.at = "write"
         /\ req'.order = req.order /\ req'.id = req.id /\ req'.size = req.size
         /\ Rests(req.order) => req'.new = venue[req.order].id
<1>1. /\ req.order \in Orders /\ req \in ReqSet /\ venue[req.order] \in VenueSet
  BY DEF Types, FindId
<1> QED BY <1>1 DEF FindId, ReqSet, VenueSet

LEMMA WriteDoes ==
  ASSUME Types, WriteAmend
  PROVE  LET o == req.order
             r == [row[o] EXCEPT !.id = req.new,
                     !.size = IF req.size = 0 THEN row[o].size ELSE req.size]
         IN  /\ o \in Orders /\ row' \in [Orders -> RowSet] /\ req.at = "write" /\ req' = NoReq
             /\ row'[o] = (IF Named THEN r ELSE row[o])
             /\ \A q \in Orders : q # o => row'[q] = row[q]
<1> DEFINE o == req.order
           n == IF req.size = 0 THEN row[o].size ELSE req.size
           r == [row[o] EXCEPT !.id = req.new, !.size = n]
<1>1. /\ o \in Orders /\ req \in ReqSet /\ row \in [Orders -> RowSet] /\ row[o] \in RowSet
  BY DEF Types, WriteAmend
<1>2. n \in Nat /\ req.new \in Nat BY <1>1 DEF ReqSet, RowSet
<1>3. /\ row' = (IF Named THEN [row EXCEPT ![o] = r] ELSE row)
      /\ req.at = "write" /\ req' = NoReq
  BY <1>1 DEF WriteAmend
<1>4. r \in RowSet
  <2> HIDE DEF n
  <2> QED BY <1>1, <1>2 DEF RowSet
<1>5. /\ row' \in [Orders -> RowSet] /\ row'[o] = (IF Named THEN r ELSE row[o])
      /\ \A q \in Orders : q # o => row'[q] = row[q]
  <2> HIDE DEF r
  <2> QED BY <1>1, <1>3, <1>4
<1> QED BY <1>1, <1>3, <1>5

LEMMA StrikeDoes ==
  ASSUME Types, Strike
  PROVE  LET o == req.order
         IN  /\ o \in Orders /\ row' \in [Orders -> RowSet] /\ req.at = "strike" /\ req' = NoReq
             /\ row'[o] = (IF Named THEN [row[o] EXCEPT !.status = "cancelled"] ELSE row[o])
             /\ \A q \in Orders : q # o => row'[q] = row[q]
<1> DEFINE o == req.order
           r == [row[o] EXCEPT !.status = "cancelled"]
<1>1. /\ o \in Orders /\ row \in [Orders -> RowSet] /\ row[o] \in RowSet
  BY DEF Types, Strike
<1>2. /\ row' = (IF Named THEN [row EXCEPT ![o] = r] ELSE row)
      /\ req.at = "strike" /\ req' = NoReq
  BY <1>1 DEF Strike
<1>3. r \in RowSet BY <1>1 DEF RowSet, Status
<1>4. /\ row' \in [Orders -> RowSet] /\ row'[o] = (IF Named THEN r ELSE row[o])
      /\ \A q \in Orders : q # o => row'[q] = row[q]
  <2> HIDE DEF r
  <2> QED BY <1>1, <1>2, <1>3
<1> QED BY <1>1, <1>2, <1>4

LEMMA ReqTypes ==
  ASSUME Types,
         \/ \E o \in Orders : Ask(o, "cancel", 0) \/ \E n \in 0..Size[o] : Ask(o, "amend", n)
         \/ RequestStep \/ RequestBreaks
  PROVE  Types'
<1>a. req \in ReqSet /\ venue \in [Orders -> VenueSet] /\ breaks \in 0..MaxBreaks BY DEF Types
<1>1. ASSUME NEW o \in Orders, NEW kind \in {"cancel", "amend"}, NEW n \in Nat, Ask(o, kind, n)
      PROVE  Types'
  BY <1>1, AskDoes DEF Ask, Types
<1>2. CASE VenueCancels BY <1>2, VenueCancelsDoes DEF VenueCancels, Types
<1>3. CASE Replace BY <1>3, ReplaceDoes DEF Replace, Types
<1>4. CASE Modify BY <1>4, ModifyDoes DEF Modify, Types
<1>5. CASE FindId BY <1>5, FindDoes DEF FindId, Types
<1>6. CASE WriteAmend BY <1>6, WriteDoes, NoReqIs DEF WriteAmend, Types
<1>7. CASE Strike BY <1>7, StrikeDoes, NoReqIs DEF Strike, Types
<1>8. CASE Refused BY <1>8, NoReqIs DEF Refused, Types
<1>9. CASE ReplaceRejected
  <2>1. req' \in ReqSet /\ req'.order = req.order BY <1>9, <1>a DEF ReplaceRejected, ReqSet
  <2> QED BY <1>9, <2>1 DEF ReplaceRejected, Types
<1>10. CASE AmendInPlace
  <2> DEFINE o == req.order
             n == IF req.size = 0 THEN venue[o].size ELSE req.size
  <2>1. req.order \in Orders /\ venue[o] \in VenueSet BY <1>10, <1>a DEF AmendInPlace, Types
  <2>2. n \in Nat BY <1>a, <2>1 DEF ReqSet, VenueSet
  <2>3. venue' = [venue EXCEPT ![o].size = n] BY <1>10, <1>a, <2>1 DEF AmendInPlace
  <2> HIDE DEF n
  <2>4. venue' \in [Orders -> VenueSet] BY <1>a, <2>2, <2>3 DEF VenueSet
  <2>5. req' \in ReqSet /\ req'.order = req.order BY <1>10, <1>a DEF AmendInPlace, ReqSet
  <2> QED BY <1>10, <2>1, <2>4, <2>5 DEF AmendInPlace, Types
<1>11. CASE RequestBreaks
  <2>1. breaks' \in 0..MaxBreaks BY <1>11, <1>a, BoundsAssumption DEF RequestBreaks
  <2> QED BY <1>11, <2>1, NoReqIs DEF RequestBreaks, Types
<1>12. ASSUME NEW o \in Orders, NEW n \in 0..Size[o] PROVE n \in Nat BY SizeAssumption
<1> QED BY <1>1, <1>2, <1>3, <1>4, <1>5, <1>6, <1>7, <1>8, <1>9, <1>10, <1>11, <1>12
        DEF RequestStep

LEMMA TypesNext == Types /\ [Next]_vars => Types'
<1>1. Types /\ UNCHANGED vars => Types' BY DEF Types, vars
<1> QED BY <1>1, VenueTypes, PassTypes, ReqTypes DEF Next

\* The variables keep their types, for any orders and sizes.
THEOREM TypeCorrect == Spec => []TypeOK
<1>1. Types => TypeOK
  BY RestingNullAssumption DEF Types, TypeOK, PassSet, ReqSet, RowSet, VenueSet, Loaded
<1> QED BY <1>1, TypesInit, TypesNext, PTL DEF Spec

-------------------------------------------------------------------------------
(* What a pass attributes is there.                                        *)

\* The kind of venue and of callers does not change.
LEMMA WorldStays == [Next]_vars => world' = world
<1>1. \A o : Place(o) \/ Expire(o) \/ (\E n : Fill(o, n)) => world' = world
  BY DEF Place, Expire, Fill
<1>2. \A o, kind, n : Ask(o, kind, n) => world' = world BY DEF Ask
<1>3. Close \/ LoadPending \/ PassStep \/ OrdersReadFails \/ PassBreaks => world' = world
  BY DEF Close, LoadPending, PassStep, ReadOrders, ReadPositions, SelectRow, Apply, Mark, EndPass,
         OrdersReadFails, PassBreaks
<1>4. RequestStep \/ RequestBreaks => world' = world
  BY DEF RequestStep, Refused, VenueCancels, Replace, ReplaceRejected, Modify, AmendInPlace,
         FindId, WriteAmend, Strike, RequestBreaks
<1>5. UNCHANGED vars => world' = world BY DEF vars
<1> QED BY <1>1, <1>2, <1>3, <1>4, <1>5 DEF Next

LEMMA BackedNext == Types /\ Backed /\ [Next]_vars => Backed'
<1> SUFFICES ASSUME Types, Backed, [Next]_vars, world.careful, world' = world PROVE Backed'
  BY WorldStays DEF Backed
<1>0. /\ held \in Nat /\ tracked \in Nat /\ pass \in PassSet /\ pass.live \in Nat
      /\ pass.spare \in Int /\ tracked <= held
      /\ pass.at \in {"scan", "apply", "mark"} => pass.live <= held
  BY DEF Types, Backed, PassSet
<1>1. CASE UNCHANGED <<held, tracked, pass>> BY <1>1 DEF Backed
<1>2. ASSUME NEW o \in Orders, NEW n \in 1..Size[o], Fill(o, n) PROVE Backed'
  <2>1. n \in Nat /\ held' = held + n /\ tracked' = tracked /\ pass' = pass
    BY <1>2, SizeAssumption DEF Fill
  <2> QED BY <1>0, <2>1 DEF Backed
<1>3. CASE Close
  <2>1. /\ pass.at = "idle" /\ pass' = pass /\ tracked' = 0 /\ held' = held - Least(held, tracked)
    BY <1>3 DEF Close, MayInterfere
  <2>2. Least(held, tracked) \in Int /\ Least(held, tracked) <= held BY <1>0 DEF Least
  <2> QED BY <1>0, <2>1, <2>2 DEF Backed
<1>4. CASE LoadPending BY <1>4, LoadDoes DEF LoadPending, Backed
<1>5. CASE ReadOrders BY <1>5, ReadDoes DEF ReadOrders, Backed
<1>6. CASE ReadPositions BY <1>0, <1>6, ReadDoes DEF ReadPositions, Backed
<1>7. CASE SelectRow
  <2>1. PICK t \in Loaded :
          /\ pass'.at = IF Spare(t) > 0 THEN "apply" ELSE "mark"
          /\ pass'.spare = Spare(t) /\ pass'.live = pass.live /\ pass.at = "scan"
    BY <1>7, SelectDoes
  <2>2. Spare(t) \in Int /\ Spare(t) <= pass.live - tracked BY SpareIs
  <2>3. held' = held /\ tracked' = tracked BY <1>7 DEF SelectRow
  <2> QED BY <1>0, <2>1, <2>2, <2>3 DEF Backed
<1>8. CASE Apply
  <2>1. /\ held' = held /\ tracked' = tracked + pass.spare /\ pass'.at = "mark"
        /\ pass'.live = pass.live /\ pass.at = "apply"
    BY <1>8, ReadDoes DEF Apply
  <2>2. tracked + pass.spare <= pass.live BY <2>1 DEF Backed
  <2> QED BY <1>0, <2>1, <2>2 DEF Backed
<1>9. CASE Mark
  <2>1. /\ held' = held /\ tracked' = tracked /\ pass'.at = "scan" /\ pass'.live = pass.live
        /\ pass.at = "mark"
    BY <1>9, ReadDoes DEF Mark
  <2> QED BY <1>0, <2>1 DEF Backed
<1>10. CASE EndPass BY <1>0, <1>10, NoPassIs DEF EndPass, Backed
<1>11. CASE PassBreaks BY <1>0, <1>11, NoPassIs DEF PassBreaks, Backed
<1>12. CASE OrdersReadFails
  <2>1. pass'.at \in {"idle", "positions"} BY <1>0, <1>12, NoPassIs DEF OrdersReadFails, PassSet
  <2> QED BY <1>0, <1>12, <2>1 DEF OrdersReadFails, Backed
<1>13. \A o \in Orders : Place(o) \/ Expire(o) => UNCHANGED <<held, tracked, pass>>
  BY DEF Place, Expire
<1>14. \A o, kind, n : Ask(o, kind, n) => UNCHANGED <<held, tracked, pass>> BY DEF Ask
<1>15. RequestStep \/ RequestBreaks => UNCHANGED <<held, tracked, pass>>
  BY DEF RequestStep, Refused, VenueCancels, Replace, ReplaceRejected, Modify, AmendInPlace,
         FindId, WriteAmend, Strike, RequestBreaks
<1> QED BY <1>1, <1>2, <1>3, <1>4, <1>5, <1>6, <1>7, <1>8, <1>9, <1>10, <1>11, <1>12, <1>13,
           <1>14, <1>15 DEF Next, PassStep, vars

-------------------------------------------------------------------------------
(* What the books say of an order is so on the exchange.                   *)

\* The exchange on its own: an order at most stops resting.
LEMMA FitsVenue ==
  ASSUME Types, Types', ReqFits, PassFits, \A o \in Orders : OrderFits(o),
         row' = row, pass' = pass, req' = req,
         \A o \in Orders : \/ venue'[o] = venue[o]
                           \/ /\ Rests(o) /\ venue'[o].id = venue[o].id
                              /\ venue'[o].size = venue[o].size
                              /\ venue'[o].filled <= venue[o].size
  PROVE  ReqFits' /\ PassFits' /\ \A o \in Orders : OrderFits(o)'
<1>1. \A o \in Orders : Rests(o)' => Rests(o) BY DEF Rests
<1>2. ASSUME NEW o \in Orders PROVE OrderFits(o)'
  <2>1. OrderFits(o) OBVIOUS
  <2>2. Rests(o) => row[o].status = "pending" BY <2>1 DEF OrderFits, Rests, Types, RowSet, Status
  <2> QED BY <1>1, <2>1, <2>2 DEF OrderFits, Amending, Rests
<1>3. ReqFits'
  <2>1. CASE req.at = "idle" BY <2>1 DEF ReqFits
  <2>2. CASE req.at # "idle"
    <3>1. req.order \in Orders BY <2>2 DEF Types
    <3> QED BY <1>1, <2>2, <3>1 DEF ReqFits, Named, Amending, Rests
  <2> QED BY <2>1, <2>2
<1>4. PassFits'
  <2>1. \A t \in pass.todo : t.order \in Orders BY DEF Types, PassSet, Loaded
  <2>2. pass.at \in {"apply", "mark"} => pass.order.order \in Orders BY DEF Types, Loaded
  <2> QED BY <1>1, <2>1, <2>2 DEF PassFits, LoadFits
<1> QED BY <1>2, <1>3, <1>4

\* A step of the pass that writes no row.
LEMMA FitsPass ==
  ASSUME Types, ReqFits, \A o \in Orders : OrderFits(o), row' = row, venue' = venue, req' = req,
         pass'.at # "idle" => req.at = "idle", PassFits'
  PROVE  ReqFits' /\ PassFits' /\ \A o \in Orders : OrderFits(o)'
<1>1. ReqFits' BY DEF ReqFits, Named, Amending, Rests
<1>2. ASSUME NEW o \in Orders PROVE OrderFits(o)'
  <2>1. OrderFits(o) OBVIOUS
  <2> QED BY <2>1 DEF OrderFits, Amending, Rests
<1> QED BY <1>1, <1>2

\* A step of a request, about one order.
LEMMA FitsReq ==
  ASSUME Types, PassFits, \A o \in Orders : OrderFits(o), pass' = pass, pass.at = "idle",
         NEW k \in Orders, \A o \in Orders : o # k => row'[o] = row[o] /\ venue'[o] = venue[o],
         \A o \in Orders : o # k => ~Amending(o) /\ ~Amending(o)',
         OrderFits(k)', ReqFits'
  PROVE  ReqFits' /\ PassFits' /\ \A o \in Orders : OrderFits(o)'
<1>1. PassFits' BY DEF PassFits
<1>2. ASSUME NEW o \in Orders, o # k PROVE OrderFits(o)'
  <2>1. OrderFits(o) OBVIOUS
  <2> QED BY <1>2, <2>1 DEF OrderFits, Rests
<1> QED BY <1>1, <1>2

LEMMA FitsPlace ==
  ASSUME Types, Types', ReqFits, PassFits, \A o \in Orders : OrderFits(o),
         NEW k \in Orders, Place(k)
  PROVE  ReqFits' /\ PassFits' /\ \A o \in Orders : OrderFits(o)'
<1>1. /\ row[k].status = "none" /\ pass' = pass /\ req' = req
      /\ row'[k] = [status |-> "pending", id |-> 1, size |-> Size[k]]
      /\ venue'[k] = [state |-> "resting", id |-> 1, size |-> Size[k], filled |-> 0]
      /\ \A o \in Orders : o # k => row'[o] = row[o] /\ venue'[o] = venue[o]
  BY DEF Place, Types
<1>2. Size[k] \in Nat BY SizeAssumption
<1>3. OrderFits(k)' BY <1>1, <1>2 DEF OrderFits, Rests
<1>4. ASSUME NEW o \in Orders, o # k PROVE OrderFits(o)'
  <2>1. OrderFits(o) OBVIOUS
  <2> QED BY <1>1, <1>4, <2>1 DEF OrderFits, Rests, Amending
<1>5. ReqFits'
  <2>1. CASE req.at = "idle" BY <1>1, <2>1 DEF ReqFits
  <2>2. CASE req.at # "idle"
    <3>1. req.order \in Orders /\ req.order # k BY <1>1, <2>2 DEF Types, ReqFits, Named
    <3> QED BY <1>1, <2>2, <3>1 DEF ReqFits, Named, Amending, Rests
  <2> QED BY <2>1, <2>2
<1>6. PassFits'
  <2>1. pass.at # "idle" => \A t \in pass.todo : t.order \in Orders /\ t.order # k
    BY <1>1 DEF Types, PassSet, Loaded, PassFits, LoadFits
  <2>2. pass.at \in {"apply", "mark"} => pass.order.order \in Orders /\ pass.order.order # k
    BY <1>1 DEF Types, Loaded, PassFits, LoadFits
  <2> QED BY <1>1, <2>1, <2>2 DEF PassFits, LoadFits, Rests
<1> QED BY <1>3, <1>4, <1>5, <1>6

\* The verdict on an order that is off the book.
LEMMA FitsMark ==
  ASSUME Types, Types', ReqFits, PassFits, \A o \in Orders : OrderFits(o), Mark
  PROVE  ReqFits' /\ PassFits' /\ \A o \in Orders : OrderFits(o)'
<1>k. PICK k \in Orders : k = pass.order.order BY DEF Mark, Types, Loaded
<1>1. /\ ~Rests(k) /\ LoadFits(pass.order) /\ req.at = "idle"
      /\ \A t \in pass.todo : t.order # k
  BY <1>k DEF Mark, PassFits, ReqFits
<1>2. /\ venue' = venue /\ req' = req /\ pass.at = "mark" /\ pass'.at = "scan"
      /\ pass'.todo = pass.todo /\ pass'.resting = pass.resting
  BY ReadDoes DEF Mark
<1>r. /\ row'[k].status \in {"filled", "cancelled"}
      /\ \A o \in Orders : o # k => row'[o] = row[o]
  BY <1>k DEF Mark, Types
<1>3. OrderFits(k)'
  <2>1. OrderFits(k) BY <1>1
  <2> QED BY <1>1, <1>2, <1>r, <2>1 DEF OrderFits, Rests
<1>4. ASSUME NEW o \in Orders, o # k PROVE OrderFits(o)'
  <2>1. OrderFits(o) OBVIOUS
  <2> QED BY <1>2, <1>r, <1>4, <2>1 DEF OrderFits, Rests, Amending
<1>5. ReqFits' BY <1>1, <1>2 DEF ReqFits
<1>6. PassFits'
  <2>1. \A t \in pass.todo : t.order \in Orders BY DEF Types, PassSet, Loaded
  <2>2. \A t \in pass.todo : LoadFits(t)' BY <1>1, <1>2, <1>r, <2>1 DEF PassFits, LoadFits
  <2>3. \A t \in pass.todo : <<t.order, t.id>> \notin pass.resting => ~Rests(t.order)'
    BY <1>2 DEF PassFits, Rests
  <2> QED BY <1>2, <2>2, <2>3 DEF PassFits
<1> QED BY <1>3, <1>4, <1>5, <1>6

LEMMA FitsPassStep ==
  ASSUME Types, Types', world.careful, Seeing, ReqFits, PassFits,
         \A o \in Orders : OrderFits(o), LoadPending \/ PassStep \/ OrdersReadFails \/ PassBreaks
  PROVE  ReqFits' /\ PassFits' /\ \A o \in Orders : OrderFits(o)'
<1>1. CASE Mark BY <1>1, FitsMark
<1>2. CASE EndPass \/ PassBreaks \/ OrdersReadFails
  <2>1. pass' = NoPass /\ row' = row /\ venue' = venue /\ req' = req
    BY <1>2 DEF EndPass, PassBreaks, OrdersReadFails, Seeing
  <2>2. PassFits' BY <2>1, NoPassIs DEF PassFits
  <2> QED BY <2>1, <2>2, NoPassIs, FitsPass
<1>3. CASE LoadPending
  <2>1. /\ row' = row /\ venue' = venue /\ req' = req /\ req.at = "idle"
    BY <1>3 DEF LoadPending
  <2>2. pass'.at = "orders" /\ \A t \in pass'.todo : LoadFits(t) BY <1>3, LoadDoes
  <2>3. PassFits' BY <2>1, <2>2 DEF PassFits, LoadFits
  <2> QED BY <2>1, <2>3, FitsPass
<1>4. CASE ReadOrders
  <2>1. /\ row' = row /\ venue' = venue /\ req' = req /\ req.at = "idle"
        /\ pass.at = "orders" /\ pass'.at = "positions" /\ pass'.todo = pass.todo
        /\ pass'.resting = OnTheBook
    BY <1>4, ReadDoes DEF ReadOrders, ReqFits
  <2>2. ASSUME NEW t \in pass.todo, Rests(t.order) PROVE <<t.order, t.id>> \in OnTheBook
    <3>1. t.order \in Orders /\ LoadFits(t) BY <2>1 DEF Types, PassSet, Loaded, PassFits
    <3>2. t.id = venue[t.order].id BY <2>1, <2>2, <3>1 DEF OrderFits, LoadFits, Amending
    <3> QED BY <2>2, <3>1, <3>2 DEF OnTheBook
  <2>3. PassFits' BY <2>1, <2>2 DEF PassFits, LoadFits, Rests
  <2> QED BY <2>1, <2>3, FitsPass
<1>5. CASE ReadPositions
  <2>1. /\ row' = row /\ venue' = venue /\ req' = req /\ req.at = "idle"
        /\ pass.at = "positions" /\ pass'.at = "scan" /\ pass'.todo = pass.todo
        /\ pass'.resting = pass.resting
    BY <1>5, ReadDoes DEF ReadPositions, ReqFits
  <2>2. PassFits' BY <2>1 DEF PassFits, LoadFits, Rests
  <2> QED BY <2>1, <2>2, FitsPass
<1>6. CASE Apply
  <2>1. /\ row' = row /\ venue' = venue /\ req' = req /\ req.at = "idle"
        /\ pass.at = "apply" /\ pass'.at = "mark" /\ pass'.todo = pass.todo
        /\ pass'.resting = pass.resting /\ pass'.order = pass.order
    BY <1>6, ReadDoes DEF Apply, ReqFits
  <2>2. PassFits' BY <2>1 DEF PassFits, LoadFits, Rests
  <2> QED BY <2>1, <2>2, FitsPass
<1>7. CASE SelectRow
  <2>1. PICK t \in OffBook :
          /\ t \in pass.todo /\ t \in Loaded /\ pass'.at \in {"apply", "mark"}
          /\ pass'.todo = pass.todo \ {t} /\ pass'.order = t
          /\ pass'.resting = pass.resting /\ pass.at = "scan"
    BY <1>7, SelectDoes
  <2>2. /\ row' = row /\ venue' = venue /\ req' = req /\ req.at = "idle"
    BY <1>7, <2>1 DEF SelectRow, ReqFits
  <2>3. <<t.order, t.id>> \notin pass.resting BY <2>1 DEF OffBook
  <2>4. LoadFits(t) /\ ~Rests(t.order) BY <2>1, <2>3 DEF PassFits
  <2>5. ASSUME NEW u \in pass.todo, u # t PROVE u.order # t.order
    <3>1. LoadFits(u) BY <2>1 DEF PassFits
    <3>2. u \in Loaded BY DEF Types, PassSet
    <3> QED BY <2>1, <2>4, <2>5, <3>1, <3>2 DEF LoadFits, Loaded
  <2>6. PassFits' BY <2>1, <2>2, <2>4, <2>5 DEF PassFits, LoadFits, Rests
  <2> QED BY <2>1, <2>2, <2>6, FitsPass
<1> QED BY <1>1, <1>2, <1>3, <1>4, <1>5, <1>6, <1>7 DEF PassStep

\* A request starts.
LEMMA FitsAsk ==
  ASSUME Types, world.careful, PassFits, \A o \in Orders : OrderFits(o), NEW k \in Orders,
         NEW kind \in {"cancel", "amend"}, NEW n \in Nat, Ask(k, kind, n)
  PROVE  ReqFits' /\ PassFits' /\ \A o \in Orders : OrderFits(o)'
<1>1. /\ row' = row /\ venue' = venue /\ pass' = pass /\ pass.at = "idle" /\ req.at = "idle"
      /\ req'.at = kind /\ req'.order = k /\ req'.id = row[k].id /\ row[k].status = "pending"
  BY AskDoes DEF Ask, MayInterfere
<1>2. \A o \in Orders : ~Amending(o) /\ ~Amending(o)' BY <1>1 DEF Amending
<1>3. OrderFits(k)'
  <2>1. OrderFits(k) OBVIOUS
  <2> QED BY <1>1, <1>2, <2>1 DEF OrderFits, Rests
<1>4. ReqFits' BY <1>1, <1>2 DEF ReqFits, Named
<1> QED BY <1>1, <1>2, <1>3, <1>4, FitsReq

\* What a request under way knows of its order, and what an order is left with once the
\* request is through with it.
LEMMA FitsAsked ==
  ASSUME Types, Types', ReqFits, PassFits, \A o \in Orders : OrderFits(o), pass' = pass,
         NEW k \in Orders, k = req.order, req.at # "idle", req'.at = "idle" \/ req'.order = k,
         \A o \in Orders : o # k => row'[o] = row[o] /\ venue'[o] = venue[o],
         OrderFits(k)', ReqFits'
  PROVE  ReqFits' /\ PassFits' /\ \A o \in Orders : OrderFits(o)'
<1>1. pass.at = "idle" BY DEF ReqFits
<1>2. \A o \in Orders : o # k => ~Amending(o) /\ ~Amending(o)' BY DEF Amending
<1> QED BY <1>1, <1>2, FitsReq

LEMMA FitsVenueCancels ==
  ASSUME Types, Types', world.careful, Seeing, ReqFits, PassFits,
         \A o \in Orders : OrderFits(o), VenueCancels
  PROVE  ReqFits' /\ PassFits' /\ \A o \in Orders : OrderFits(o)'
<1>1. PICK k \in Orders : k = req.order BY VenueCancelsDoes
<1>2. /\ row' = row /\ pass' = pass /\ req.at \in {"cancel", "amend"}
      /\ req'.at \in {"strike", "replace"} /\ req'.order = k /\ req'.id = req.id
      /\ \A o \in Orders : o # k => venue'[o] = venue[o]
  BY <1>1, VenueCancelsDoes DEF VenueCancels
<1>3. Found BY DEF VenueCancels, AlreadyGone, Seeing
<1>4. venue'[k] = [venue[k] EXCEPT !.state = "gone"] /\ venue[k].filled = 0 /\ venue[k] \in VenueSet
  BY <1>1, <1>3, VenueCancelsDoes DEF Found, Types
<1>5. /\ venue'[k].state = "gone" /\ venue'[k].id = venue[k].id
      /\ venue'[k].size = venue[k].size /\ venue'[k].filled = 0
  BY <1>4 DEF VenueSet
<1>6. row[k].id = req.id /\ row[k].status = "pending" /\ pass.at = "idle"
  BY <1>1, <1>2 DEF ReqFits, Named
<1>7. ~Amending(k) /\ ~Amending(k)' BY <1>2 DEF Amending
<1>8. OrderFits(k)'
  <2>1. OrderFits(k) OBVIOUS
  <2> QED BY <1>2, <1>4, <1>5, <1>6, <1>7, <2>1 DEF OrderFits, Rests
<1>9. ReqFits' BY <1>2, <1>5, <1>6, <1>7 DEF ReqFits, Named, Rests
<1> QED BY <1>1, <1>2, <1>8, <1>9, FitsAsked

LEMMA FitsReplace ==
  ASSUME Types, Types', ReqFits, PassFits, \A o \in Orders : OrderFits(o), Replace
  PROVE  ReqFits' /\ PassFits' /\ \A o \in Orders : OrderFits(o)'
<1>1. PICK k \in Orders : k = req.order BY ReplaceDoes
<1> DEFINE n == IF req.size = 0 THEN venue[k].size ELSE req.size
<1>2. /\ row' = row /\ pass' = pass /\ req.at = "replace" /\ req'.at = "write"
      /\ req'.order = k /\ req'.id = req.id /\ req'.size = req.size
      /\ req'.new = venue[k].id + 1
      /\ \A o \in Orders : o # k => venue'[o] = venue[o]
  BY <1>1, ReplaceDoes DEF Replace
<1>3. /\ n \in Nat /\ venue'[k].state = "resting" /\ venue'[k].id = venue[k].id + 1
      /\ venue'[k].size = venue[k].filled + n /\ venue'[k].filled = venue[k].filled
  BY <1>1, ReplaceDoes
<1>4. /\ row[k].id = req.id /\ row[k].status = "pending" /\ pass.at = "idle"
      /\ venue[k].filled = 0
  BY <1>1, <1>2 DEF ReqFits, Named
<1>5. ~Amending(k) /\ Amending(k)' BY <1>2 DEF Amending
<1>6. venue[k].size <= row[k].size BY <1>4, <1>5 DEF OrderFits
<1>7. venue'[k].size = n BY <1>3, <1>4
<1>8. OrderFits(k)' BY <1>2, <1>3, <1>4, <1>5, <1>7 DEF OrderFits, Rests
<1>9. ReqFits'
  <2>1. req'.size = 0 => venue'[k].size <= row'[k].size BY <1>2, <1>6, <1>7
  <2>2. req'.size # 0 => venue'[k].size <= req'.size BY <1>2, <1>3, <1>7
  <2> QED BY <1>2, <1>3, <1>4, <2>1, <2>2 DEF ReqFits, Named, Rests
<1> QED BY <1>1, <1>2, <1>8, <1>9, FitsAsked

LEMMA FitsModify ==
  ASSUME Types, Types', world.careful, ReqFits, PassFits, \A o \in Orders : OrderFits(o), Modify
  PROVE  ReqFits' /\ PassFits' /\ \A o \in Orders : OrderFits(o)'
<1>1. PICK k \in Orders : k = req.order BY ModifyDoes
<1> DEFINE n == IF req.size = 0 THEN venue[k].size ELSE req.size
<1>2. /\ row' = row /\ pass' = pass /\ req.at = "amend" /\ req'.at = "find"
      /\ req'.order = k /\ req'.id = req.id /\ req'.size = req.size
      /\ \A o \in Orders : o # k => venue'[o] = venue[o]
  BY <1>1, ModifyDoes DEF Modify
<1>3. /\ venue'[k].state = venue[k].state /\ venue'[k].size = n
      /\ venue'[k].filled = 0 /\ n \in Nat
  <2>1. venue'[k] = [venue[k] EXCEPT !.id = venue[k].id + 1, !.size = n] BY <1>1, ModifyDoes
  <2>2. venue[k] \in VenueSet /\ req \in ReqSet BY DEF Types
  <2>3. n \in Nat BY <2>2 DEF VenueSet, ReqSet
  <2>4. venue[k].filled = 0 BY <1>1 DEF Modify, Found
  <2> HIDE DEF n
  <2> QED BY <2>1, <2>2, <2>3, <2>4 DEF VenueSet
<1>4. /\ row[k].id = req.id /\ row[k].status = "pending" /\ pass.at = "idle"
  BY <1>1, <1>2 DEF ReqFits, Named
<1>5. ~Amending(k) /\ Amending(k)' BY <1>2 DEF Amending
<1>6. venue[k].size <= row[k].size BY <1>4, <1>5 DEF OrderFits
<1>7. OrderFits(k)' BY <1>2, <1>3, <1>4, <1>5 DEF OrderFits, Rests
<1>8. ReqFits'
  <2>1. req'.size = 0 => venue'[k].size <= row'[k].size BY <1>2, <1>3, <1>6
  <2>2. req'.size # 0 => venue'[k].size <= req'.size BY <1>2, <1>3
  <2> QED BY <1>2, <1>4, <2>1, <2>2 DEF ReqFits, Named, Rests
<1> QED BY <1>1, <1>2, <1>7, <1>8, FitsAsked

LEMMA FitsWrite ==
  ASSUME Types, Types', ReqFits, PassFits, \A o \in Orders : OrderFits(o), WriteAmend
  PROVE  ReqFits' /\ PassFits' /\ \A o \in Orders : OrderFits(o)'
<1>1. PICK k \in Orders : k = req.order BY WriteDoes
<1>2. /\ venue' = venue /\ pass' = pass /\ req.at = "write" /\ req' = NoReq
      /\ \A o \in Orders : o # k => row'[o] = row[o]
  BY <1>1, WriteDoes DEF WriteAmend
<1> DEFINE n == IF req.size = 0 THEN row[k].size ELSE req.size
<1>3. /\ Amending(k) /\ ~Amending(k)' /\ Named
      /\ venue[k].size <= n /\ (Rests(k) => req.new = venue[k].id)
  BY <1>1, <1>2, NoReqIs DEF ReqFits, Amending
<1>4. row'[k] = [row[k] EXCEPT !.id = req.new, !.size = n] BY <1>1, <1>3, WriteDoes
<1>5. row'[k].status = "pending" /\ row'[k].id = req.new /\ row'[k].size = n
  <2>1. row[k] \in RowSet /\ row[k].status = "pending" BY <1>1, <1>3 DEF Types, Named
  <2> HIDE DEF n
  <2> QED BY <1>4, <2>1 DEF RowSet
<1>6. OrderFits(k)'
  <2>1. OrderFits(k) OBVIOUS
  <2> QED BY <1>2, <1>3, <1>5, <2>1 DEF OrderFits, Rests
<1>7. ReqFits' BY <1>2, NoReqIs DEF ReqFits
<1> QED BY <1>1, <1>2, <1>6, <1>7, NoReqIs, FitsAsked

LEMMA FitsStrike ==
  ASSUME Types, Types', ReqFits, PassFits, \A o \in Orders : OrderFits(o), Strike
  PROVE  ReqFits' /\ PassFits' /\ \A o \in Orders : OrderFits(o)'
<1>1. PICK k \in Orders : k = req.order BY StrikeDoes
<1>2. /\ venue' = venue /\ pass' = pass /\ req.at = "strike" /\ req' = NoReq
      /\ \A o \in Orders : o # k => row'[o] = row[o]
  BY <1>1, StrikeDoes DEF Strike
<1>3. ~Rests(k) /\ Named BY <1>1, <1>2 DEF ReqFits
<1>4. row'[k].status = "cancelled"
  <2>1. row[k] \in RowSet BY DEF Types
  <2> QED BY <1>1, <1>3, <2>1, StrikeDoes DEF RowSet
<1>5. OrderFits(k)'
  <2>1. OrderFits(k) OBVIOUS
  <2> QED BY <1>2, <1>3, <1>4, <2>1 DEF OrderFits, Rests
<1>6. ReqFits' BY <1>2, NoReqIs DEF ReqFits
<1> QED BY <1>1, <1>2, <1>5, <1>6, NoReqIs, FitsAsked

\* A step of a request that changes neither the row nor the exchange.
LEMMA FitsOther ==
  ASSUME Types, Types', ReqFits, PassFits, \A o \in Orders : OrderFits(o),
         Refused \/ ReplaceRejected \/ FindId
  PROVE  ReqFits' /\ PassFits' /\ \A o \in Orders : OrderFits(o)'
<1>1. PICK k \in Orders : k = req.order BY DEF Types, Refused, ReplaceRejected, FindId
<1>2. row' = row /\ venue' = venue /\ pass' = pass BY DEF Refused, ReplaceRejected, FindId
<1>3. OrderFits(k) OBVIOUS
<1>4. CASE Refused
  <2>1. req.at \in {"cancel", "amend"} /\ req' = NoReq BY <1>4 DEF Refused
  <2>2. ~Amending(k) BY <2>1 DEF Amending
  <2>3. OrderFits(k)' BY <1>2, <1>3, <2>2 DEF OrderFits, Rests
  <2>4. ReqFits' BY <2>1, NoReqIs DEF ReqFits
  <2> QED BY <1>1, <1>2, <2>1, <2>3, <2>4, NoReqIs, FitsAsked
<1>5. CASE ReplaceRejected
  <2>1. /\ req.at = "replace" /\ req'.at = "strike" /\ req'.order = k /\ req'.id = req.id
        /\ req'.size = req.size
    <3>1. req \in ReqSet BY DEF Types
    <3> QED BY <1>1, <1>5, <3>1 DEF ReplaceRejected, ReqSet
  <2>2. ~Amending(k) BY <2>1 DEF Amending
  <2>3. OrderFits(k)' BY <1>2, <1>3, <2>2 DEF OrderFits, Rests
  <2>4. ReqFits' BY <1>1, <1>2, <2>1 DEF ReqFits, Named, Rests, Amending
  <2> QED BY <1>1, <1>2, <2>1, <2>3, <2>4, FitsAsked
<1>6. CASE FindId
  <2>1. /\ req.at = "find" /\ req'.at = "write" /\ req'.order = k /\ req'.id = req.id
        /\ req'.size = req.size /\ (Rests(k) => req'.new = venue[k].id)
    BY <1>1, <1>6, FindDoes
  <2>2. Amending(k) /\ Amending(k)' BY <1>1, <2>1 DEF Amending
  <2>3. OrderFits(k)' BY <1>2, <1>3, <2>2 DEF OrderFits, Rests
  <2>4. ReqFits' BY <1>1, <1>2, <2>1, <2>2 DEF ReqFits, Named, Rests
  <2> QED BY <1>1, <1>2, <2>1, <2>3, <2>4, FitsAsked
<1> QED BY <1>4, <1>5, <1>6

LEMMA FitsInit == Init => Fits
<1> SUFFICES ASSUME Init PROVE ReqFits /\ PassFits /\ \A o \in Orders : OrderFits(o)
  BY DEF Fits
<1>1. req.at = "idle" /\ pass.at = "idle" BY NoReqIs, NoPassIs DEF Init
<1>2. ReqFits /\ PassFits BY <1>1 DEF ReqFits, PassFits
<1>3. ASSUME NEW o \in Orders PROVE OrderFits(o)
  <2>1. /\ row[o].status = "none" /\ venue[o].state = "none" /\ venue[o].filled = 0
        /\ venue[o].size = 0
    BY DEF Init
  <2> QED BY <2>1 DEF OrderFits, Rests
<1> QED BY <1>2, <1>3

LEMMA FitsNext == Types /\ Fits /\ [Next]_vars => Fits'
<1> SUFFICES ASSUME Types, Fits, [Next]_vars, world' = world, world.careful, Seeing
             PROVE  ReqFits' /\ PassFits' /\ \A o \in Orders : OrderFits(o)'
  BY WorldStays DEF Fits, Seeing
<1>0. Types' BY TypesNext
<1>1. ReqFits /\ PassFits /\ \A o \in Orders : OrderFits(o) BY DEF Fits
<1>2. CASE UNCHANGED vars \/ Close
  <2>1. row' = row /\ pass' = pass /\ req' = req /\ venue' = venue BY <1>2 DEF vars, Close
  <2> QED BY <1>0, <1>1, <2>1, FitsVenue
<1>3. ASSUME NEW o \in Orders, Place(o) PROVE ReqFits' /\ PassFits' /\ \A q \in Orders : OrderFits(q)'
  BY <1>0, <1>1, <1>3, FitsPlace
<1>4. ASSUME NEW o \in Orders, Expire(o)
      PROVE  ReqFits' /\ PassFits' /\ \A q \in Orders : OrderFits(q)'
  <2>1. /\ row' = row /\ pass' = pass /\ req' = req /\ Rests(o) /\ venue \in [Orders -> VenueSet]
        /\ venue' = [venue EXCEPT ![o].state = "gone"] /\ OrderFits(o)
    BY <1>1, <1>4 DEF Expire, Types
  <2>2. /\ venue'[o].id = venue[o].id /\ venue'[o].size = venue[o].size
        /\ venue'[o].filled <= venue[o].size
    BY <2>1 DEF VenueSet, OrderFits
  <2>3. \A q \in Orders : q # o => venue'[q] = venue[q] BY <2>1
  <2> QED BY <1>0, <1>1, <2>1, <2>2, <2>3, FitsVenue
<1>5. ASSUME NEW o \in Orders, NEW n \in 1..Size[o], Fill(o, n)
      PROVE  ReqFits' /\ PassFits' /\ \A q \in Orders : OrderFits(q)'
  <2>1. /\ row' = row /\ pass' = pass /\ req' = req /\ Rests(o) /\ venue \in [Orders -> VenueSet]
        /\ n \in 1..(venue[o].size - venue[o].filled)
        /\ \A q \in Orders : q # o => venue'[q] = venue[q]
        /\ venue'[o].id = venue[o].id /\ venue'[o].size = venue[o].size
        /\ venue'[o].filled = venue[o].filled + n
    BY <1>5 DEF Fill, Types, VenueSet
  <2>2. venue'[o].filled <= venue[o].size
    <3>1. venue[o].size \in Nat /\ venue[o].filled \in Nat BY <2>1 DEF VenueSet
    <3> QED BY <2>1, <3>1
  <2> QED BY <1>0, <1>1, <2>1, <2>2, FitsVenue
<1>6. CASE LoadPending \/ PassStep \/ OrdersReadFails \/ PassBreaks
  BY <1>0, <1>1, <1>6, FitsPassStep
<1>7. ASSUME NEW o \in Orders, NEW kind \in {"cancel", "amend"}, NEW n \in Nat, Ask(o, kind, n)
      PROVE  ReqFits' /\ PassFits' /\ \A q \in Orders : OrderFits(q)'
  BY <1>1, <1>7, FitsAsk
<1>8. CASE RequestStep
  <2>1. ~AmendInPlace BY DEF AmendInPlace, Seeing
  <2> QED BY <1>0, <1>1, <1>8, <2>1, FitsVenueCancels, FitsReplace, FitsModify, FitsWrite,
             FitsStrike, FitsOther DEF RequestStep
<1>9. ~RequestBreaks BY DEF RequestBreaks
<1>10. ASSUME NEW o \in Orders, NEW n \in 0..Size[o] PROVE n \in Nat BY SizeAssumption
<1> QED BY <1>2, <1>3, <1>4, <1>5, <1>6, <1>7, <1>8, <1>9, <1>10 DEF Next

\* An order the books call cancelled does not rest on the exchange: neither a pass nor a
\* request strikes an order off that the venue still has.
THEOREM KnownCancelledHolds == Spec => []KnownCancelled
<1>1. Types /\ Fits => KnownCancelled
  <2> SUFFICES ASSUME Fits, world.careful, Seeing, NEW o \in Orders, row[o].status = "cancelled"
               PROVE  ~Rests(o)
    BY DEF KnownCancelled
  <2> QED BY DEF Fits, OrderFits
<1> QED BY <1>1, TypesInit, TypesNext, FitsInit, FitsNext, PTL DEF Spec

-------------------------------------------------------------------------------
(* What is held is tracked, or filled on an order that is still pending.   *)

\* The same status and the same fill are the same sum.
LEMMA OpenStays ==
  ASSUME \A o \in Orders : venue'[o].filled = venue[o].filled /\ row'[o].status = row[o].status
  PROVE  Open' = Open
BY DEF Open

LEMMA OpenType == Types => Open \in [Orders -> Nat]
BY DEF Types, Open, VenueSet

\* A part of a sum, and a sum without an order.
LEMMA OpenSums ==
  ASSUME IsFiniteSet(Orders), NEW f \in [Orders -> Nat]
  PROVE  /\ \A Os \in SUBSET Orders : Total(f, Os) \in Nat
         /\ \A Os, T \in SUBSET Orders : T \subseteq Os => Total(f, T) <= Total(f, Os)
         /\ \A o \in Orders : Total(f, Orders) = f[o] + Total(f, Orders \ {o})
<1>1. \A Os \in SUBSET Orders : IsFiniteSet(Os) BY FS_Subset
<1>2. ASSUME NEW Os \in SUBSET Orders PROVE Total(f, Os) \in Nat BY <1>1, TotalIsNat
<1>3. ASSUME NEW Os \in SUBSET Orders, NEW T \in SUBSET Os PROVE Total(f, T) <= Total(f, Os)
  BY <1>1, TotalPart
<1>4. ASSUME NEW o \in Orders PROVE Total(f, Orders) = f[o] + Total(f, Orders \ {o})
  <2>1. \A q \in Orders : f[q] \in Int OBVIOUS
  <2> QED BY <2>1, TotalByAny
<1> QED BY <1>2, <1>3, <1>4

\* One order's fill changes; the sums without it do not.
LEMMA OpenChange ==
  ASSUME IsFiniteSet(Orders), NEW f \in [Orders -> Nat], NEW g \in [Orders -> Nat], NEW k \in Orders,
         \A o \in Orders : o # k => g[o] = f[o]
  PROVE  /\ \A Os \in SUBSET Orders : k \notin Os => Total(g, Os) = Total(f, Os)
         /\ \A Os \in SUBSET Orders : k \in Os => Total(g, Os) = Total(f, Os) + (g[k] - f[k])
<1>1. \A Os \in SUBSET Orders : IsFiniteSet(Os) BY FS_Subset
<1>2. ASSUME NEW Os \in SUBSET Orders, k \notin Os PROVE Total(g, Os) = Total(f, Os)
  <2>1. \A o \in Os : f[o] = g[o] BY <1>2
  <2>2. Total(f, Os) = Total(g, Os) BY <1>1, <2>1, TotalSame
  <2> QED BY <2>2
<1>3. ASSUME NEW Os \in SUBSET Orders, k \in Os
      PROVE  Total(g, Os) = Total(f, Os) + (g[k] - f[k])
  <2>1. ASSUME NEW o \in Orders PROVE f[o] \in Int /\ g[o] \in Int
    <3>1. f[o] \in Nat /\ g[o] \in Nat OBVIOUS
    <3> QED BY <3>1
  <2>2. \A o \in Os : f[o] \in Int /\ g[o] \in Int BY <2>1
  <2>3. \A o \in Os : o # k => g[o] = f[o] OBVIOUS
  <2> QED BY <1>1, <1>3, <2>2, <2>3, TotalChange
<1> QED BY <1>2, <1>3

\* Nothing of this moves while the pass and the two positions stay.
LEMMA AccountsStay ==
  ASSUME Accounts, Open' = Open, pass' = pass, tracked' = tracked, held' = held
  PROVE  Accounts'
<1>1. Off' = Off BY DEF Off, OffBook
<1>2. Spare(pass.order)' = Spare(pass.order) BY DEF Spare, Least
<1> QED BY <1>1, <1>2 DEF Accounts

LEMMA AccountsFill ==
  ASSUME IsFiniteSet(Orders), Types, Types', Accounts, PassFits, \A o \in Orders : OrderFits(o),
         NEW k \in Orders, NEW n \in Nat, Fill(k, n)
  PROVE  Accounts'
<1>1. /\ row' = row /\ pass' = pass /\ tracked' = tracked /\ held' = held + n /\ Rests(k)
      /\ \A o \in Orders : o # k => venue'[o] = venue[o]
      /\ venue'[k].filled = venue[k].filled + n
  BY DEF Fill, Types, VenueSet
<1>2. row[k].status = "pending"
  <2>1. OrderFits(k) /\ row[k].status \in Status BY DEF Types, RowSet
  <2> QED BY <1>1, <2>1 DEF OrderFits, Rests, Status
<1>3. Off' = Off BY <1>1 DEF Off, OffBook
<1>4. Spare(pass.order)' = Spare(pass.order) BY <1>1 DEF Spare, Least
<1>5. pass.at \in {"scan", "apply", "mark"} => k \notin Off
  BY <1>1 DEF Off, OffBook, PassFits
<1>6. /\ Open \in [Orders -> Nat] /\ Open' \in [Orders -> Nat]
      /\ \A o \in Orders : o # k => Open'[o] = Open[o]
      /\ Open'[k] = Open[k] + n
  BY <1>1, <1>2, OpenType DEF Open, Types, VenueSet
<1>7. \A Os \in SUBSET Orders : k \in Os => Total(Open', Os) = Total(Open, Os) + n
  <2>1. Open[k] \in Nat BY <1>6
  <2>2. Open'[k] - Open[k] = n BY <1>6, <2>1
  <2> QED BY <1>6, <2>2, OpenChange
<1>8. held \in Nat /\ tracked \in Nat /\ pass.live \in Nat BY DEF Types, PassSet
<1>9. \A Os \in SUBSET Orders : Total(Open, Os) \in Nat BY <1>6, OpenSums
<1>a. held' - tracked' <= Total(Open', Orders)
  BY <1>1, <1>7, <1>8, <1>9 DEF Accounts
<1>b. ASSUME pass.at \in {"scan", "apply", "mark"}
      PROVE  held' - pass'.live <= Total(Open', Orders \ Off')
  <2>1. held - pass.live <= Total(Open, Orders \ Off) BY <1>b DEF Accounts
  <2>2. Total(Open', Orders \ Off) = Total(Open, Orders \ Off) + n BY <1>5, <1>7, <1>b
  <2>3. Total(Open, Orders \ Off) \in Nat BY <1>9
  <2> QED BY <1>1, <1>3, <1>8, <2>1, <2>2, <2>3
<1>c. ASSUME pass.at = "mark"
      PROVE  held' - tracked' <= Total(Open', Orders \ {pass'.order.order})
  <2> DEFINE R == Orders \ {pass.order.order}
  <2>1. pass.order.order # k BY <1>1, <1>c DEF PassFits
  <2>2. held - tracked <= Total(Open, R) BY <1>c DEF Accounts
  <2>3. Total(Open', R) = Total(Open, R) + n BY <1>7, <2>1
  <2>4. Total(Open, R) \in Nat BY <1>9
  <2>5. held' - tracked' <= Total(Open', R)
    <3> HIDE DEF R
    <3> QED BY <1>1, <1>8, <2>2, <2>3, <2>4
  <2> QED BY <1>1, <2>5
<1> QED BY <1>1, <1>3, <1>4, <1>a, <1>b, <1>c DEF Accounts

LEMMA AccountsClose ==
  ASSUME Types, Types', world.careful, Backed, Accounts, Close
  PROVE  Accounts'
<1>1. /\ row' = row /\ venue' = venue /\ pass' = pass /\ pass.at = "idle"
      /\ held' = held - Least(held, tracked) /\ tracked' = 0
  BY DEF Close, MayInterfere
<1>2. held \in Nat /\ tracked \in Nat /\ tracked <= held BY DEF Types, Backed
<1>3. held' - tracked' = held - tracked BY <1>1, <1>2 DEF Least
<1>4. Open' = Open BY <1>1 DEF Open
<1> QED BY <1>1, <1>3, <1>4 DEF Accounts

\* A request changes no fill, and strikes off only an order without any.
LEMMA OpenRequest ==
  ASSUME Types, Types', ReqFits, world.careful, Seeing, RequestStep
  PROVE  Open' = Open
<1>1. CASE Refused \/ ReplaceRejected \/ FindId
  BY <1>1, OpenStays DEF Refused, ReplaceRejected, FindId
<1>2. CASE VenueCancels
  <2>1. PICK k \in Orders : k = req.order BY <1>2, VenueCancelsDoes
  <2>2. Found BY <1>2 DEF VenueCancels, AlreadyGone, Seeing
  <2>3. venue'[k] = [venue[k] EXCEPT !.state = "gone"] /\ venue[k] \in VenueSet
    BY <1>2, <2>1, <2>2, VenueCancelsDoes DEF Types
  <2>4. venue'[k].filled = venue[k].filled BY <2>3 DEF VenueSet
  <2>5. \A o \in Orders : o # k => venue'[o] = venue[o] BY <1>2, <2>1, VenueCancelsDoes
  <2> QED BY <1>2, <2>4, <2>5, OpenStays DEF VenueCancels
<1>3. CASE Replace
  <2>1. PICK k \in Orders : k = req.order BY <1>3, ReplaceDoes
  <2>2. /\ venue'[k].filled = venue[k].filled
        /\ \A o \in Orders : o # k => venue'[o] = venue[o]
    BY <1>3, <2>1, ReplaceDoes
  <2> QED BY <1>3, <2>2, OpenStays DEF Replace
<1>4. CASE Modify
  <2>1. PICK k \in Orders : k = req.order BY <1>4, ModifyDoes
  <2> DEFINE n == IF req.size = 0 THEN venue[k].size ELSE req.size
  <2>2. /\ venue'[k] = [venue[k] EXCEPT !.id = venue[k].id + 1, !.size = n]
        /\ \A o \in Orders : o # k => venue'[o] = venue[o]
    BY <1>4, <2>1, ModifyDoes
  <2>3. venue[k] \in VenueSet BY DEF Types
  <2>4. venue'[k].filled = venue[k].filled
    <3> HIDE DEF n
    <3> QED BY <2>2, <2>3 DEF VenueSet
  <2> QED BY <1>4, <2>2, <2>4, OpenStays DEF Modify
<1>5. CASE WriteAmend
  <2>1. PICK k \in Orders : k = req.order BY <1>5, WriteDoes
  <2> DEFINE n == IF req.size = 0 THEN row[k].size ELSE req.size
  <2>2. /\ row'[k] = (IF Named THEN [row[k] EXCEPT !.id = req.new, !.size = n] ELSE row[k])
        /\ \A o \in Orders : o # k => row'[o] = row[o]
    BY <1>5, <2>1, WriteDoes
  <2>3. row[k] \in RowSet BY DEF Types
  <2>4. row'[k].status = row[k].status
    <3> HIDE DEF n
    <3> QED BY <2>2, <2>3 DEF RowSet
  <2> QED BY <1>5, <2>2, <2>4, OpenStays DEF WriteAmend
<1>6. CASE Strike
  <2>1. PICK k \in Orders : k = req.order BY <1>6, StrikeDoes
  <2>2. req.at = "strike" /\ venue' = venue BY <1>6 DEF Strike
  <2>3. venue[k].filled = 0 BY <2>1, <2>2 DEF ReqFits
  <2>4. \A o \in Orders : o # k => row'[o] = row[o] BY <1>6, <2>1, StrikeDoes
  <2>5. Open'[k] = 0 /\ Open[k] = 0 BY <2>2, <2>3 DEF Open
  <2>6. \A o \in Orders : Open'[o] = Open[o]
    <3>1. ASSUME NEW o \in Orders, o # k PROVE Open'[o] = Open[o]
      BY <2>2, <2>4, <3>1 DEF Open
    <3> QED BY <2>5, <3>1
  <2> QED BY <2>6 DEF Open
<1>7. ~AmendInPlace BY DEF AmendInPlace, Seeing
<1> QED BY <1>1, <1>2, <1>3, <1>4, <1>5, <1>6, <1>7 DEF RequestStep

LEMMA AccountsSelect ==
  ASSUME IsFiniteSet(Orders), Types, Types', Accounts, ReqFits, PassFits,
         \A o \in Orders : OrderFits(o), SelectRow
  PROVE  Accounts'
<1>1. PICK t \in OffBook :
        /\ t \in pass.todo /\ t \in Loaded /\ pass.at = "scan"
        /\ pass'.at = IF Spare(t) > 0 THEN "apply" ELSE "mark"
        /\ pass'.todo = pass.todo \ {t} /\ pass'.order = t
        /\ pass'.spare = Spare(t) /\ pass'.live = pass.live /\ pass'.resting = pass.resting
  BY SelectDoes
<1>2. row' = row /\ venue' = venue /\ held' = held /\ tracked' = tracked BY DEF SelectRow
<1>3. Open' = Open BY <1>2 DEF Open
<1>4. Off' = Off
  <2>1. Off = {u.order : u \in OffBook} BY <1>1 DEF Off
  <2>2. OffBook' = OffBook \ {t} BY <1>1 DEF OffBook
  <2>3. Off' = {u.order : u \in OffBook'} \cup {t.order} BY <1>1 DEF Off
  <2> QED BY <1>1, <2>1, <2>2, <2>3
<1>5. Spare(pass.order)' = Spare(t) BY <1>1, <1>2 DEF Spare, Least
<1>6. held - pass.live <= Total(Open, Orders \ Off) /\ held - tracked <= Total(Open, Orders)
  BY <1>1 DEF Accounts
<1>7. ASSUME ~(Spare(t) > 0) PROVE held - tracked <= Total(Open, Orders \ {t.order})
  <2> DEFINE R == Orders \ {t.order}
  <2>1. t.order \in Orders /\ t.size \in Nat BY <1>1 DEF Loaded
  <2>2. held \in Nat /\ tracked \in Nat /\ pass.live \in Nat BY DEF Types, PassSet
  <2>3. Open \in [Orders -> Nat] BY OpenType
  <2>4. /\ Total(Open, R) \in Nat /\ Total(Open, Orders \ Off) \in Nat
        /\ Total(Open, Orders) = Open[t.order] + Total(Open, R)
    BY <2>1, <2>3, OpenSums
  <2>5. CASE pass.live <= tracked
    <3>1. t.order \in Off BY <1>1 DEF Off
    <3>2. Total(Open, Orders \ Off) <= Total(Open, R) BY <2>3, <3>1, OpenSums
    <3> QED BY <1>6, <2>2, <2>4, <2>5, <3>2
  <2>6. CASE ~(pass.live <= tracked)
    <3>1. t.size = 0 BY <1>7, <2>1, <2>2, <2>6 DEF Spare, Least
    <3>2. LoadFits(t) /\ req.at = "idle" BY <1>1 DEF PassFits, ReqFits
    <3>3. venue[t.order].size <= 0 /\ venue[t.order].filled <= venue[t.order].size
      BY <2>1, <3>1, <3>2 DEF OrderFits, LoadFits, Amending
    <3>4. venue[t.order].size \in Nat /\ venue[t.order].filled \in Nat
      BY <2>1 DEF Types, VenueSet
    <3>5. venue[t.order].filled = 0 BY <3>3, <3>4
    <3>6. Open[t.order] = 0 BY <2>1, <3>5 DEF Open
    <3> QED BY <1>6, <2>4, <3>6
  <2> QED BY <2>5, <2>6
<1>8. /\ held' - tracked' <= Total(Open', Orders)
      /\ held' - pass'.live <= Total(Open', Orders \ Off')
  BY <1>1, <1>2, <1>3, <1>4, <1>6
<1>9. pass'.at = "mark" => held' - tracked' <= Total(Open', Orders \ {pass'.order.order})
  BY <1>1, <1>2, <1>3, <1>7
<1> QED BY <1>1, <1>5, <1>8, <1>9 DEF Accounts

LEMMA AccountsApply ==
  ASSUME IsFiniteSet(Orders), Types, Types', Accounts, ReqFits, PassFits,
         \A o \in Orders : OrderFits(o), Apply
  PROVE  Accounts'
<1>1. /\ pass.at = "apply" /\ pass'.at = "mark" /\ pass'.todo = pass.todo
      /\ pass'.resting = pass.resting /\ pass'.live = pass.live /\ pass'.order = pass.order
      /\ row' = row /\ venue' = venue /\ held' = held /\ tracked' = tracked + pass.spare
  BY ReadDoes DEF Apply
<1>2. PICK k \in Orders : k = pass.order.order /\ pass.order \in Loaded
  BY <1>1 DEF Types, Loaded
<1>3. Open' = Open BY <1>1 DEF Open
<1>4. Off' = Off BY <1>1 DEF Off, OffBook
<1>5. /\ held - tracked <= Total(Open, Orders) /\ held - pass.live <= Total(Open, Orders \ Off)
      /\ pass.spare = Spare(pass.order)
  BY <1>1 DEF Accounts
<1>6. held \in Nat /\ tracked \in Nat /\ pass.live \in Nat /\ pass.spare \in Int /\ pass.spare > 0
  BY <1>1 DEF Types, PassSet
<1> DEFINE R == Orders \ {k}
<1>7. Open \in [Orders -> Nat] BY OpenType
<1>8. /\ Total(Open, R) \in Nat /\ Total(Open, Orders \ Off) \in Nat /\ Total(Open, Orders) \in Nat
      /\ Total(Open, Orders) = Open[k] + Total(Open, R)
  BY <1>7, OpenSums
<1>9. held - (tracked + pass.spare) <= Total(Open, R)
  <2>1. CASE pass.spare = pass.order.size
    <3>1. LoadFits(pass.order) /\ req.at = "idle" BY <1>1 DEF PassFits, ReqFits
    <3>2. /\ row[k].size = pass.order.size /\ venue[k].filled <= venue[k].size
          /\ venue[k].size <= row[k].size
      BY <1>2, <3>1 DEF OrderFits, LoadFits, Amending
    <3>3. venue[k].size \in Nat /\ venue[k].filled \in Nat /\ row[k].size \in Nat
      BY DEF Types, VenueSet, RowSet
    <3>4. Open[k] = venue[k].filled BY <1>2, <3>1 DEF Open, LoadFits
    <3>5. Open[k] <= pass.spare BY <2>1, <3>2, <3>3, <3>4
    <3>6. Open[k] \in Nat BY <1>7
    <3> HIDE DEF R
    <3> QED BY <1>5, <1>6, <1>8, <3>5, <3>6
  <2>2. CASE pass.spare = pass.live - tracked
    <3>1. k \in Off BY <1>1, <1>2 DEF Off
    <3>2. Total(Open, Orders \ Off) <= Total(Open, R) BY <1>7, <3>1, OpenSums
    <3> HIDE DEF R
    <3> QED BY <1>5, <1>6, <1>8, <2>2, <3>2
  <2> QED BY <1>5, <2>1, <2>2 DEF Spare, Least
<1>10. held' - tracked' <= Total(Open', Orders)
  <2>1. held - (tracked + pass.spare) <= held - tracked BY <1>6
  <2> QED BY <1>1, <1>3, <1>5, <1>6, <1>8, <2>1
<1>11. held' - pass'.live <= Total(Open', Orders \ Off') BY <1>1, <1>3, <1>4, <1>5
<1>12. held' - tracked' <= Total(Open', Orders \ {pass'.order.order})
  BY <1>1, <1>2, <1>3, <1>9
<1> QED BY <1>1, <1>10, <1>11, <1>12 DEF Accounts

LEMMA AccountsMark ==
  ASSUME IsFiniteSet(Orders), Types, Types', Accounts, Mark
  PROVE  Accounts'
<1>1. /\ pass.at = "mark" /\ pass'.at = "scan" /\ pass'.todo = pass.todo
      /\ pass'.resting = pass.resting /\ pass'.live = pass.live
      /\ venue' = venue /\ held' = held /\ tracked' = tracked
  BY ReadDoes DEF Mark
<1>2. PICK k \in Orders : k = pass.order.order BY <1>1 DEF Types, Loaded
<1>3. /\ row'[k].status \in {"filled", "cancelled"}
      /\ \A o \in Orders : o # k => row'[o] = row[o]
  BY <1>2 DEF Mark, Types
<1>4. /\ Open \in [Orders -> Nat] /\ Open' \in [Orders -> Nat] /\ Open'[k] = 0
      /\ \A o \in Orders : o # k => Open'[o] = Open[o]
  <2>1. Open \in [Orders -> Nat] /\ Open' \in [Orders -> Nat] BY OpenType DEF Open, Types, VenueSet
  <2>2. Open'[k] = 0 BY <1>3 DEF Open
  <2>3. \A o \in Orders : o # k => Open'[o] = Open[o] BY <1>1, <1>3 DEF Open
  <2> QED BY <2>1, <2>2, <2>3
<1>5. /\ held - tracked <= Total(Open, Orders \ {k})
      /\ held - pass.live <= Total(Open, Orders \ Off)
  BY <1>1, <1>2 DEF Accounts
<1>6. held - tracked <= Total(Open', Orders)
  <2>1. Total(Open', Orders \ {k}) = Total(Open, Orders \ {k}) BY <1>4, OpenChange
  <2>2. /\ Total(Open', Orders) = 0 + Total(Open', Orders \ {k})
        /\ Total(Open', Orders \ {k}) \in Nat
    BY <1>4, OpenSums
  <2> QED BY <1>5, <2>1, <2>2
<1>7. held - pass.live <= Total(Open', Orders \ Off')
  <2>1. k \in Off BY <1>1, <1>2 DEF Off
  <2>2. Off' \subseteq Off BY <1>1 DEF Off, OffBook
  <2>3. Total(Open', Orders \ Off) = Total(Open, Orders \ Off) BY <1>4, <2>1, OpenChange
  <2>4. /\ Total(Open', Orders \ Off) <= Total(Open', Orders \ Off')
        /\ Total(Open', Orders \ Off) \in Nat /\ Total(Open', Orders \ Off') \in Nat
    BY <1>4, <2>2, OpenSums
  <2>5. held \in Nat /\ pass.live \in Nat BY DEF Types, PassSet
  <2> QED BY <1>5, <2>3, <2>4, <2>5
<1> QED BY <1>1, <1>6, <1>7 DEF Accounts

LEMMA AccountsPass ==
  ASSUME IsFiniteSet(Orders), Types, Types', world.careful, Accounts, ReqFits, PassFits,
         \A o \in Orders : OrderFits(o), LoadPending \/ PassStep \/ OrdersReadFails \/ PassBreaks
  PROVE  Accounts'
<1>1. CASE LoadPending \/ ReadOrders \/ EndPass \/ OrdersReadFails \/ PassBreaks
  <2>1. pass'.at \in {"idle", "orders", "positions"}
    <3>1. CASE LoadPending BY <3>1, LoadDoes
    <3>2. CASE ReadOrders BY <3>2, ReadDoes
    <3>3. CASE EndPass \/ PassBreaks BY <3>3, NoPassIs DEF EndPass, PassBreaks
    <3>4. CASE OrdersReadFails
      <4>1. pass \in PassSet BY DEF Types
      <4> QED BY <3>4, <4>1, NoPassIs DEF OrdersReadFails, PassSet
    <3> QED BY <1>1, <3>1, <3>2, <3>3, <3>4
  <2>2. row' = row /\ venue' = venue /\ held' = held /\ tracked' = tracked
    BY <1>1 DEF LoadPending, ReadOrders, EndPass, OrdersReadFails, PassBreaks
  <2>3. Open' = Open BY <2>2 DEF Open
  <2> QED BY <2>1, <2>2, <2>3 DEF Accounts
<1>2. CASE ReadPositions
  <2>1. /\ pass'.at = "scan" /\ pass'.live = held /\ row' = row /\ venue' = venue
        /\ held' = held /\ tracked' = tracked
    BY <1>2, ReadDoes DEF ReadPositions
  <2>2. Open' = Open /\ Open' \in [Orders -> Nat] BY <2>1, OpenType DEF Open
  <2>3. Total(Open', Orders \ Off') \in Nat BY <2>2, OpenSums
  <2>4. held' - pass'.live = 0
    <3>1. held \in Nat BY DEF Types
    <3> QED BY <2>1, <3>1
  <2> QED BY <2>1, <2>2, <2>3, <2>4 DEF Accounts
<1> QED BY <1>1, <1>2, AccountsSelect, AccountsApply, AccountsMark DEF PassStep

LEMMA AccountedInit == IsFiniteSet(Orders) /\ Init => Accounted
<1> SUFFICES ASSUME IsFiniteSet(Orders), Init PROVE Accounts BY DEF Accounted
<1>1. pass.at = "idle" /\ held = 0 /\ tracked = 0 BY NoPassIs DEF Init
<1>2. Total(Open, Orders) \in Nat BY TypesInit, OpenType, OpenSums
<1> QED BY <1>1, <1>2 DEF Accounts

LEMMA AccountedNext ==
  IsFiniteSet(Orders) /\ Types /\ Backed /\ Fits /\ Accounted /\ [Next]_vars => Accounted'
<1> SUFFICES ASSUME IsFiniteSet(Orders), Types, Backed, Fits, Accounted, [Next]_vars,
                    world' = world, world.careful, Seeing
             PROVE  Accounts'
  BY WorldStays DEF Accounted, Seeing
<1>0. Types' /\ Accounts BY TypesNext DEF Accounted
<1>1. ReqFits /\ PassFits /\ \A o \in Orders : OrderFits(o) BY DEF Fits
<1>2. CASE UNCHANGED vars
  <2>1. /\ row' = row /\ venue' = venue /\ pass' = pass /\ tracked' = tracked /\ held' = held
    BY <1>2 DEF vars
  <2> QED BY <1>0, <2>1, OpenStays, AccountsStay
<1>3. ASSUME NEW o \in Orders, Place(o) PROVE Accounts'
  <2>1. /\ row[o].status = "none" /\ venue'[o].filled = 0 /\ pass' = pass
        /\ tracked' = tracked /\ held' = held
        /\ \A q \in Orders : q # o => row'[q] = row[q] /\ venue'[q] = venue[q]
    BY <1>3 DEF Place, Types
  <2>2. Open'[o] = 0 /\ Open[o] = 0 BY <2>1 DEF Open
  <2>3. ASSUME NEW q \in Orders, q # o PROVE Open'[q] = Open[q] BY <2>1, <2>3 DEF Open
  <2>4. Open' = Open
    <3>1. \A q \in Orders : Open'[q] = Open[q] BY <2>2, <2>3
    <3> QED BY <3>1 DEF Open
  <2> QED BY <1>0, <2>1, <2>4, AccountsStay
<1>4. ASSUME NEW o \in Orders, Expire(o) PROVE Accounts'
  <2>1. /\ row' = row /\ pass' = pass /\ tracked' = tracked /\ held' = held
        /\ \A q \in Orders : venue'[q].filled = venue[q].filled
    BY <1>4 DEF Expire, Types, VenueSet
  <2> QED BY <1>0, <2>1, OpenStays, AccountsStay
<1>5. ASSUME NEW o \in Orders, NEW n \in 1..Size[o], Fill(o, n) PROVE Accounts'
  <2>1. n \in Nat BY SizeAssumption
  <2> QED BY <1>0, <1>1, <1>5, <2>1, AccountsFill
<1>6. CASE Close BY <1>0, <1>6, AccountsClose
<1>7. CASE LoadPending \/ PassStep \/ OrdersReadFails \/ PassBreaks
  BY <1>0, <1>1, <1>7, AccountsPass
<1>8. \A o, kind, n : Ask(o, kind, n) => Accounts'
  <2> SUFFICES ASSUME NEW o, NEW kind, NEW n, Ask(o, kind, n) PROVE Accounts' OBVIOUS
  <2>1. row' = row /\ venue' = venue /\ pass' = pass /\ tracked' = tracked /\ held' = held
    BY DEF Ask
  <2> QED BY <1>0, <2>1, OpenStays, AccountsStay
<1>9. CASE RequestStep
  <2>1. Open' = Open BY <1>0, <1>1, <1>9, OpenRequest
  <2>2. pass' = pass /\ tracked' = tracked /\ held' = held
    BY <1>9 DEF RequestStep, Refused, VenueCancels, Replace, ReplaceRejected, Modify,
                AmendInPlace, FindId, WriteAmend, Strike
  <2> QED BY <1>0, <2>1, <2>2, AccountsStay
<1>10. ~RequestBreaks BY DEF RequestBreaks
<1> QED BY <1>2, <1>3, <1>4, <1>5, <1>6, <1>7, <1>8, <1>9, <1>10 DEF Next

LEMMA BackedInit == Init => Backed
BY NoPassIs DEF Init, Backed

\* Every fill reaches the position row and none reaches it twice, whatever the fills, the
\* expiries, the amendments and the interrupted passes do between a pass's three reads.
THEOREM FillsCountOnceHolds ==
  ASSUME IsFiniteSet(Orders)
  PROVE  Spec => []FillsCountOnce
<1>1. Types /\ Backed => NoDoubleClaim BY DEF Backed, NoDoubleClaim
<1>2. Types /\ Backed /\ Accounted => NoFillLost
  <2> SUFFICES ASSUME Types, Backed, Accounted, world.careful, Seeing, Settled
               PROVE  tracked = held
    BY DEF NoFillLost
  <2>1. \A o \in Orders : Open[o] = 0 BY DEF Settled, Open
  <2>2. Total(Open, Orders) = 0 BY <2>1, TotalIsZero
  <2>3. held - tracked <= 0 BY <2>2 DEF Accounted, Accounts
  <2>4. held \in Nat /\ tracked \in Nat /\ tracked <= held BY DEF Types, Backed
  <2> QED BY <2>3, <2>4
<1>3. Types /\ Backed /\ Accounted => FillsCountOnce BY <1>1, <1>2 DEF FillsCountOnce
<1>4. Init => Types /\ Backed /\ Fits /\ Accounted
  BY TypesInit, BackedInit, FitsInit, AccountedInit
<1>5. Types /\ Backed /\ Fits /\ Accounted /\ [Next]_vars
        => Types' /\ Backed' /\ Fits' /\ Accounted'
  BY TypesNext, BackedNext, FitsNext, AccountedNext
<1> QED BY <1>3, <1>4, <1>5, PTL DEF Spec

-------------------------------------------------------------------------------
(* The triggers.                                                            *)


Wants    == {w \in [S!Legs -> Nat \cup {NULL}] :
               \A leg \in S!Legs : w[leg] = NULL \/ w[leg] \in S!Levels[leg]}
States   == [S!Legs -> {NULL, "pending", "awaiting", "confirmed"}]
Verdicts == [success : BOOLEAN, ok : [S!Legs -> BOOLEAN \cup {NULL}], eff : Wants]
Triggers == {t \in [leg : S!Legs, px : Nat, size : 0..Lots, n : Nat] : t.px \in S!Levels[t.leg]}
Kinds    == {"postfill", "reanchor", "adjust", "resize", "blind", "guard", NULL}
Heard    == {"postfill", "reanchor", "adjust", "resize", "guard"}
Calls    == [at : {"idle", "wait", "closing", "answered"}, kind : Kinds, want : Wants,
             verdict : Verdicts \cup {NULL}]
Jobs     == [at : {"none", "start", "list", "cancel", "verify"}, want : Wants, size : 0..Lots,
             seen : SUBSET Triggers, state : States, tries : 0..Attempts]
Openings == [tp : S!Levels.tp, sl : S!Levels.sl, unconfirmed : BOOLEAN, tightened : BOOLEAN]

\* What a caller waits for and what it is answered.
Shaped(c) ==
  /\ call[c].at \in {"wait", "answered"} => call[c].kind \in Heard
  /\ call[c].at = "closing" => call[c].kind \in {"resize", "blind"}
  /\ call[c].at = "answered" => call[c].verdict \in Verdicts

Agents ==
  /\ call \in [Callers -> Calls] /\ job \in [Callers -> Jobs]
  /\ \A c \in Callers : IsFiniteSet(job[c].seen) /\ Shaped(c)

StopTypes ==
  /\ stopWorld \in StopAccounts /\ position \in 0..Lots /\ opening \in Openings
  /\ rest \subseteq Triggers /\ IsFiniteSet(rest)
  /\ Agents
  /\ had \in [Callers -> SUBSET S!Legs]
  /\ faults \in 0..stopWorld.faults /\ slips \in 0..faults /\ told \in {"none", "log", "caller"}


Working(c) == job[c].at \in {"cancel", "verify"}

\* Who is not of the account does nothing.
Only ==
  \A c \in Callers : c \notin stopWorld.callers => call[c].at = "idle" /\ job[c].at = "none"

\* A job is what its caller asked for; one that is given up is answered with a refusal.
JobFits(c) ==
  /\ Working(c) =>
       \A leg \in S!Legs : /\ job[c].want[leg] = NULL <=> job[c].state[leg] = NULL
                           /\ leg \in had[c] => job[c].want[leg] # NULL
  /\ call[c].at = "wait" =>
       /\ job[c].at # "none"
       /\ \A leg \in S!Legs : call[c].want[leg] # NULL => job[c].want[leg] = call[c].want[leg]
  /\ call[c].at = "closing" => job[c].at = "none"
  /\ call[c].at = "answered" /\ job[c].at # "none" => call[c].verdict = S!Refused
  /\ job[c].at = "verify" => job[c].seen = {}

Solo(c) == stopWorld.callers = {c}

\* What is confirmed rests until the position ends.
Landing(c) ==
  position > 0 /\ Working(c) =>
    \A leg \in S!Legs : job[c].state[leg] = "confirmed" =>
      job[c].seen = {} /\ S!Landed(leg, job[c].want[leg])

Truth(c) ==
  S!Answer(c) /\ position > 0 =>
    \A leg \in S!Legs :
      /\ call[c].verdict.ok[leg] = TRUE =>
           IF call[c].want[leg] = NULL THEN S!At(leg) # {}
           ELSE S!Landed(leg, call[c].want[leg])
      /\ call[c].verdict.success /\ leg \in had[c] => S!At(leg) # {}

\* Before a job places, it has seen all that rests; afterwards all that rests is its own.
Single(c) ==
  slips = 0 =>
    /\ \A t, u \in rest : t.leg = u.leg => t = u
    /\ job[c].at = "cancel" /\ job[c].tries = 0 => rest \subseteq job[c].seen
    /\ job[c].at \in {"start", "list"} => job[c].tries = 0
    /\ job[c].at = "verify" => job[c].tries > 0
    /\ Working(c) /\ job[c].tries > 0 =>
         /\ job[c].seen = {}
         /\ \A t \in rest : t.px = job[c].want[t.leg] /\ job[c].state[t.leg] # "pending"

\* The answer that makes its caller speak up.
WillTell(c) ==
  \/ call[c].kind \in {"adjust", "reanchor"} /\ ~call[c].verdict.success
  \/ call[c].kind \in {"postfill", "resize"} /\ S!StopUnsure(c)
  \/ call[c].kind = "guard"

Known == S!Flagged \/ told # "none"

\* As long as nobody knows, a stop is missing only while a job is at it or its answer is
\* still to be heard.
Watch(c) ==
  "sl" \in stopWorld.legs /\ ~Known =>
    /\ call[c].at # "idle" /\ call[c].kind \in {"postfill", "resize", "blind"} =>
         call[c].want["sl"] # NULL
    /\ call[c].at = "idle" => job[c].at = "none"
    /\ call[c].at = "answered" /\ job[c].at # "none" => WillTell(c)
    /\ position > 0 /\ call[c].at = "wait" /\ Working(c) => "sl" \in had[c]
    /\ position > 0 /\ S!At("sl") = {} =>
         \/ call[c].at = "wait" /\ Working(c)
         \/ call[c].at = "answered" /\ WillTell(c)

StopsInv ==
  /\ StopTypes /\ Only /\ \A c \in Callers : JobFits(c)
  /\ \A c \in Callers : Solo(c) => Landing(c) /\ Truth(c) /\ Single(c) /\ Watch(c)

-------------------------------------------------------------------------------
(* What the operators return.                                              *)

LEMMA LevelsAre ==
  /\ S!Legs = {"tp", "sl"} /\ S!Levels.tp = {5} /\ S!Levels.sl = {0, 1}
  /\ S!Levels["tp"] = {5} /\ S!Levels["sl"] = {0, 1}
  /\ \A leg \in S!Legs : S!Levels[leg] \subseteq Nat
BY DEF S!Legs, S!Levels

LEMMA NothingIs ==
  /\ S!Nothing \in Wants /\ S!Nothing \in States
  /\ \A leg \in S!Legs : S!Nothing[leg] = NULL
BY DEF S!Nothing, Wants, States

LEMMA NoCallIs == S!NoCall \in Calls /\ S!NoCall.at = "idle"
BY NothingIs DEF S!NoCall, Calls, Kinds

LEMMA NoJobIs ==
  /\ S!NoJob \in Jobs /\ S!NoJob.at = "none" /\ IsFiniteSet(S!NoJob.seen)
BY NothingIs, LimitsAssumption, FS_EmptySet DEF S!NoJob, Jobs

LEMMA RefusedIs ==
  /\ S!Refused \in Verdicts /\ S!Refused.success = FALSE
  /\ \A leg \in S!Legs : S!Refused.ok[leg] # TRUE
<1>1. S!Nothing \in [S!Legs -> BOOLEAN \cup {NULL}] BY DEF S!Nothing
<1>2. NULL # TRUE BY StopNullAssumption
<1> QED BY <1>1, <1>2, NothingIs DEF S!Refused, Verdicts

\* A leg's level is where one of its triggers rests, and NULL if none does.
LEMMA LevelIs ==
  ASSUME StopTypes, NEW leg \in S!Legs
  PROVE  /\ S!Level(leg) = NULL \/ S!Level(leg) \in S!Levels[leg]
         /\ S!Level(leg) = NULL <=> S!At(leg) = {}
<1>1. CASE S!At(leg) = {} BY <1>1 DEF S!Level
<1>2. CASE S!At(leg) # {}
  <2> DEFINE t == CHOOSE t \in S!At(leg) : TRUE
  <2>1. t \in S!At(leg) BY <1>2
  <2>2. S!Level(leg) = t.px BY <1>2 DEF S!Level
  <2>3. t \in Triggers /\ t.leg = leg BY <2>1 DEF S!At, StopTypes, Agents
  <2> HIDE DEF t
  <2>4. t.px \in S!Levels[leg] /\ t.px # NULL BY <2>3, StopNullAssumption DEF Triggers
  <2> QED BY <1>2, <2>2, <2>4
<1> QED BY <1>1, <1>2

\* What a job is to place: the legs its caller priced, and the others where they rest.
LEMMA EffectiveIs ==
  ASSUME StopTypes, NEW want \in Wants
  PROVE  /\ S!Effective(want) \in Wants
         /\ \A leg \in S!Legs :
              /\ want[leg] # NULL => S!Effective(want)[leg] = want[leg]
              /\ S!Effective(want)[leg] = NULL => S!At(leg) = {}
<1>1. \A leg \in S!Legs : want[leg] = NULL \/ want[leg] \in S!Levels[leg] BY DEF Wants
<1>2. \A leg \in S!Legs :
        S!Effective(want)[leg] = IF want[leg] = NULL THEN S!Level(leg) ELSE want[leg]
  BY DEF S!Effective
<1>3. \A leg \in S!Legs : S!Effective(want)[leg] = NULL \/ S!Effective(want)[leg] \in S!Levels[leg]
  BY <1>1, <1>2, LevelIs
<1>4. S!Effective(want) \in [S!Legs -> Nat \cup {NULL}]
  <2>1. \A leg \in S!Legs : S!Effective(want)[leg] \in Nat \cup {NULL} BY <1>3, LevelsAre
  <2> QED BY <2>1 DEF S!Effective
<1> QED BY <1>2, <1>3, <1>4, LevelIs DEF Wants

LEMMA RecordedIs == StopTypes => S!Recorded \in Wants
<1> SUFFICES ASSUME StopTypes PROVE S!Recorded \in Wants OBVIOUS
<1>1. opening.tp \in Nat /\ opening.sl \in Nat /\ opening["tp"] \in S!Levels["tp"]
      /\ opening["sl"] \in S!Levels["sl"]
  BY LevelsAre DEF StopTypes, Agents, Openings
<1> QED BY <1>1, LevelsAre DEF S!Recorded, Wants

LEMMA RevalidatedIs ==
  ASSUME StopTypes, NEW want \in S!Revalidated(S!Recorded)
  PROVE  want \in Wants /\ ("sl" \in stopWorld.legs => want["sl"] # NULL)
<1>1. S!Recorded \in Wants BY RecordedIs
<1>2. "sl" \in stopWorld.legs => S!Recorded["sl"] # NULL
  BY LevelsAre, StopNullAssumption DEF S!Recorded, StopTypes, Agents, Openings
<1>3. CASE want = S!Recorded BY <1>1, <1>2, <1>3
<1>4. ASSUME NEW px \in {0, 1}, want = [S!Recorded EXCEPT !.sl = px]
      PROVE  want \in Wants /\ want["sl"] # NULL
  BY <1>1, <1>4, LevelsAre, StopNullAssumption DEF Wants
<1> QED BY <1>2, <1>3, <1>4 DEF S!Revalidated

LEMMA CoalesceIs ==
  ASSUME StopTypes, NEW want \in Wants
  PROVE  /\ S!Coalesce(want) \in Openings
         /\ S!Coalesce(want).unconfirmed = opening.unconfirmed
         /\ S!Coalesce(want).tightened = opening.tightened
<1>1. /\ want.tp = NULL \/ want.tp \in S!Levels.tp
      /\ want.sl = NULL \/ want.sl \in S!Levels.sl
  BY LevelsAre DEF Wants
<1>2. opening \in Openings BY DEF StopTypes, Agents
<1> QED BY <1>1, <1>2 DEF S!Coalesce, Openings

LEMMA RangeIsFinite ==
  ASSUME NEW D, IsFiniteSet(D), NEW f, DOMAIN f = D, f = [x \in D |-> f[x]]
  PROVE  IsFiniteSet({f[x] : x \in D})
<1> DEFINE T == {f[x] : x \in D}
<1>1. f \in Surjection(D, T) BY DEF Surjection
<1> QED BY <1>1, FS_Surjection

\* Stops counts with the same Cardinality.
LEMMA CardinalityIs == \A T : S!Cardinality(T) = Cardinality(T)
BY DEF S!Cardinality, Cardinality

\* A placed trigger is none of those that rest or that a job remembers.
LEMMA NewIs ==
  ASSUME StopTypes, NEW leg \in S!Legs, NEW px \in S!Levels[leg], NEW size \in 0..Lots
  PROVE  /\ S!New(leg, px, size) \in Triggers
         /\ S!New(leg, px, size).leg = leg /\ S!New(leg, px, size).px = px
         /\ S!New(leg, px, size) \notin rest \cup UNION {job[c].seen : c \in Callers}
<1> DEFINE all  == rest \cup UNION {job[c].seen : c \in Callers}
           same == {u \in all : u.leg = leg /\ u.px = px /\ u.size = size}
           used == {t.n : t \in same}
           free == 1..(Cardinality(used) + 1)
           n    == CHOOSE k \in free : k \notin used
<1>1. IsFiniteSet(all)
  <2> DEFINE f == [c \in Callers |-> job[c].seen]
  <2>1. IsFiniteSet({f[c] : c \in Callers}) BY CallersAssumption, RangeIsFinite
  <2>2. {f[c] : c \in Callers} = {job[c].seen : c \in Callers} OBVIOUS
  <2>3. \A T \in {job[c].seen : c \in Callers} : IsFiniteSet(T) BY DEF StopTypes, Agents
  <2>4. IsFiniteSet(UNION {job[c].seen : c \in Callers}) BY <2>1, <2>2, <2>3, FS_UNION
  <2>5. IsFiniteSet(rest) BY DEF StopTypes, Agents
  <2> QED BY <2>4, <2>5, FS_Union
<1>2. IsFiniteSet(used)
  <2> DEFINE g == [t \in same |-> t.n]
  <2>1. IsFiniteSet(same) BY <1>1, FS_Subset
  <2> HIDE DEF same
  <2>2. IsFiniteSet({g[t] : t \in same}) BY <2>1, RangeIsFinite
  <2>3. {g[t] : t \in same} = used OBVIOUS
  <2> QED BY <2>2, <2>3
<1>3. ~(free \subseteq used)
  <2> DEFINE k == Cardinality(used)
  <2>1. k \in Nat BY <1>2, FS_CardinalityType
  <2>2. Cardinality(1..(k + 1)) = k + 1 BY <2>1, FS_Interval
  <2>3. free \subseteq used => Cardinality(free) <= k BY <1>2, FS_Subset
  <2>4. free = 1..(k + 1) OBVIOUS
  <2> HIDE DEF k, free
  <2> QED BY <2>1, <2>2, <2>3, <2>4
<1>4. n \in free /\ n \notin used
  <2> HIDE DEF free, used
  <2> QED BY <1>3
<1>5. n \in Nat
  <2>1. Cardinality(used) \in Nat BY <1>2, FS_CardinalityType
  <2> HIDE DEF used, n
  <2> QED BY <1>4, <2>1
<1>6. S!New(leg, px, size) = [leg |-> leg, px |-> px, size |-> size, n |-> n]
  BY CardinalityIs DEF S!New
<1>7. S!New(leg, px, size) \notin all
  <2> DEFINE t == [leg |-> leg, px |-> px, size |-> size, n |-> n]
  <2>1. t.leg = leg /\ t.px = px /\ t.size = size /\ t.n = n OBVIOUS
  <2> HIDE DEF t, all, n
  <2>2. t \in all => t \in same BY <2>1
  <2>3. t \in same => t.n \in used OBVIOUS
  <2> HIDE DEF same, used
  <2> QED BY <1>4, <1>6, <2>1, <2>2, <2>3 DEF t
<1>8. px \in Nat BY LevelsAre
<1> HIDE DEF n, all
<1> QED BY <1>5, <1>6, <1>7, <1>8 DEF Triggers, all

-------------------------------------------------------------------------------
(* Types.                                                                  *)

LEMMA AskIs ==
  ASSUME StopTypes, NEW c \in Callers, NEW kind \in Heard, NEW want \in Wants,
         S!Ask(c, kind, want)
  PROVE  Agents'
<1> DEFINE k == [at |-> "wait", kind |-> kind, want |-> want, verdict |-> NULL]
           j == [S!NoJob EXCEPT !.at = "start", !.want = want]
<1>1. k \in Calls BY DEF Calls, Kinds, Heard
<1>2. j \in Jobs /\ IsFiniteSet(j.seen) BY NoJobIs DEF Jobs
<1>3. k.at = "wait" /\ k.kind \in Heard OBVIOUS
<1>4. call' = [call EXCEPT ![c] = k] /\ job' = [job EXCEPT ![c] = j] BY DEF S!Ask
<1> HIDE DEF k, j
<1> QED BY <1>1, <1>2, <1>3, <1>4 DEF StopTypes, Agents, Shaped

LEMMA AnsweredIs ==
  ASSUME StopTypes, NEW c \in Callers, NEW success \in BOOLEAN,
         NEW ok \in [S!Legs -> BOOLEAN \cup {NULL}], S!Answered(c, success, ok)
  PROVE  Agents'
<1> DEFINE v == [success |-> success, ok |-> ok,
                 eff |-> IF success THEN job[c].want ELSE S!Nothing]
<1>1. job[c].want \in Wants BY DEF StopTypes, Agents, Jobs
<1>2. v \in Verdicts BY <1>1, NothingIs DEF Verdicts
<1>3. job' = [job EXCEPT ![c] = S!NoJob] BY DEF S!Answered
<1>4. \A d \in Callers : job'[d] \in Jobs /\ IsFiniteSet(job'[d].seen)
  BY <1>3, NoJobIs DEF StopTypes, Agents
<1>5. CASE call[c].at = "wait"
  <2> DEFINE k == [call[c] EXCEPT !.at = "answered", !.verdict = v]
  <2>1. call' = [call EXCEPT ![c] = k] BY <1>5 DEF S!Answered, StopTypes, Agents
  <2>2. k \in Calls /\ k.at = "answered" /\ k.verdict = v /\ k.kind = call[c].kind
    BY <1>2 DEF StopTypes, Agents, Calls
  <2>3. call[c].kind \in Heard BY <1>5 DEF StopTypes, Agents, Shaped
  <2> HIDE DEF k, v
  <2> QED BY <1>2, <1>3, <1>4, <2>1, <2>2, <2>3 DEF StopTypes, Agents, Shaped
<1>6. CASE call[c].at # "wait"
  BY <1>3, <1>4, <1>6 DEF S!Answered, StopTypes, Agents, Shaped
<1> QED BY <1>5, <1>6

LEMMA PlacesPut ==
  ASSUME StopTypes, NEW legs \in SUBSET S!Legs, NEW o \in S!Places(legs)
  PROVE  /\ o.put \subseteq legs /\ DOMAIN o.said \subseteq legs
         /\ \A leg \in DOMAIN o.said : /\ o.said[leg] \in {"placed", "error"}
                                       /\ o.said[leg] = "placed" => leg \in o.put
<1>1. stopWorld.venue \in {"blofin", "hyperliquid", "binance"}
  BY StopAccountsAssumption DEF StopTypes
<1>2. o \in S!BlofinPlaces(legs) \cup S!HyperliquidPlaces(legs) \cup S!BinancePlaces(legs)
      /\ \A leg \in DOMAIN o.said : o.said[leg] = "placed" => leg \in o.put
  BY <1>1 DEF S!Places
<1>3. ASSUME NEW refused \in SUBSET legs
      PROVE  /\ DOMAIN S!Said(legs, refused) = legs
             /\ \A leg \in legs : S!Said(legs, refused)[leg] \in {"placed", "error"}
  BY DEF S!Said
<1>4. DOMAIN <<>> = {} OBVIOUS
<1>5. CASE o \in S!Honest(legs)
  <2>1. PICK refused \in SUBSET legs : o = [put |-> legs \ refused, said |-> S!Said(legs, refused)]
    BY <1>5 DEF S!Honest
  <2> QED BY <1>2, <1>3, <2>1
<1>6. CASE \E put \in SUBSET legs : o = [put |-> put, said |-> <<>>] BY <1>4, <1>6
<1>7. CASE o \in S!BinancePlaces(legs)
  <2>1. PICK put \in SUBSET legs, refused \in SUBSET legs :
          o = [put |-> put, said |-> S!Said(legs, refused)]
    BY <1>7 DEF S!BinancePlaces
  <2> QED BY <1>2, <1>3, <2>1
<1>8. \A put \in {{}, legs \ {"sl"}, legs} : put \in SUBSET legs OBVIOUS
<1> QED BY <1>2, <1>5, <1>6, <1>7, <1>8 DEF S!BlofinPlaces, S!HyperliquidPlaces

LEMMA NotedIs ==
  ASSUME NEW state \in States, NEW said,
         \A leg \in DOMAIN said : said[leg] \in {"placed", "error"}
  PROVE  S!Noted(state, said) \in States
BY DEF S!Noted, States

\* What a step of c's job leaves of the others, and the fields it keeps of its own.
LEMMA FieldsAre ==
  ASSUME StopTypes, NEW c \in Callers
  PROVE  /\ call[c] \in Calls /\ job[c] \in Jobs
         /\ job[c].want \in Wants /\ job[c].state \in States /\ job[c].size \in 0..Lots
         /\ job[c].seen \subseteq Triggers /\ job[c].tries \in 0..Attempts
         /\ call[c].want \in Wants /\ call[c].kind \in Kinds
BY DEF StopTypes, Agents, Calls, Jobs

\* Only c's job changes, and stays a job.
LEMMA JobStep ==
  ASSUME StopTypes, NEW c \in Callers, NEW j \in Jobs, IsFiniteSet(j.seen),
         job' = [job EXCEPT ![c] = j], call' = call
  PROVE  Agents'
BY DEF StopTypes, Agents, Shaped

\* Only c's call changes, and ends.
LEMMA CallEnds ==
  ASSUME StopTypes, NEW c \in Callers, call' = [call EXCEPT ![c] = S!NoCall], job' = job
  PROVE  Agents'
BY NoCallIs DEF StopTypes, Agents, Shaped

LEMMA TypesBegin ==
  ASSUME StopTypes, NEW c \in Callers, S!Begin(c) \/ S!GuardPass(c)
  PROVE  StopTypes'
<1>1. CASE S!PostFill(c)
  <2>1. PICK want \in S!Revalidated(S!Recorded) :
          opening' = S!Coalesce(want) /\ S!Ask(c, "postfill", want)
    BY <1>1 DEF S!PostFill
  <2>2. want \in Wants BY RevalidatedIs
  <2>3. Agents' BY <2>1, <2>2, AskIs DEF Heard
  <2>4. opening' \in Openings BY <2>1, <2>2, CoalesceIs
  <2> QED BY <1>1, <2>3, <2>4 DEF StopTypes, S!PostFill, S!exchange, S!counts, S!history
<1>2. CASE S!Reanchor(c)
  <2>1. PICK want \in S!Revalidated(S!Recorded) : S!Ask(c, "reanchor", want)
    BY <1>2 DEF S!Reanchor
  <2>2. Agents' BY <2>1, AskIs, RevalidatedIs DEF Heard
  <2> QED BY <1>2, <2>2 DEF StopTypes, S!Reanchor, S!exchange, S!counts, S!history
<1>3. CASE S!Adjust(c)
  <2>1. PICK tp \in S!Maybe(IF "tp" \in stopWorld.legs THEN S!Levels.tp ELSE {}),
             sl \in S!Maybe(S!Levels.sl) : S!Ask(c, "adjust", [tp |-> tp, sl |-> sl])
    BY <1>3 DEF S!Adjust
  <2>2. [tp |-> tp, sl |-> sl] \in Wants BY LevelsAre DEF S!Maybe, Wants
  <2>3. Agents' BY <2>1, <2>2, AskIs DEF Heard
  <2> QED BY <1>3, <2>3 DEF StopTypes, S!Adjust, S!exchange, S!history
<1>4. ASSUME NEW kind \in {"resize", "blind"}, NEW want \in Wants,
             call' = [call EXCEPT ![c] = [at |-> "closing", kind |-> kind, verdict |-> NULL,
                                          want |-> want]], job' = job
      PROVE  Agents'
  <2> DEFINE k == [at |-> "closing", kind |-> kind, verdict |-> NULL, want |-> want]
  <2>1. k \in Calls /\ k.at = "closing" /\ k.kind \in {"resize", "blind"} BY DEF Calls, Kinds
  <2> HIDE DEF k
  <2> QED BY <1>4, <2>1 DEF StopTypes, Agents, Shaped, k
<1>5. CASE S!PartialClose(c)
  <2>1. [leg \in S!Legs |-> S!Level(leg)] \in Wants BY LevelIs, LevelsAre DEF Wants
  <2>2. Agents' BY <1>4, <1>5, <2>1 DEF S!PartialClose
  <2> QED BY <1>5, <2>2 DEF StopTypes, S!PartialClose, S!exchange, S!history
<1>6. CASE S!PartialCloseBlind(c)
  <2>1. Agents' BY <1>4, <1>6, RecordedIs DEF S!PartialCloseBlind
  <2>2. faults' \in 0..stopWorld.faults
    BY <1>6, StopAccountsAssumption DEF S!PartialCloseBlind, S!Fault, StopTypes
  <2> QED BY <1>6, <2>1, <2>2 DEF StopTypes, S!PartialCloseBlind, S!exchange, S!history, S!Fault
<1>7. CASE S!GuardPass(c)
  <2>1. [tp |-> S!Level("tp"), sl |-> S!Safe] \in Wants BY LevelIs, LevelsAre DEF Wants, S!Safe
  <2>2. Agents' BY <1>7, <2>1, AskIs DEF Heard, S!GuardPass
  <2> QED BY <1>7, <2>2 DEF StopTypes, S!GuardPass, S!exchange, S!counts, S!history
<1> QED BY <1>1, <1>2, <1>3, <1>5, <1>6, <1>7 DEF S!Begin


\* Faults are counted up to their number, and slips are faults.
LEMMA FaultIs ==
  ASSUME StopTypes, stopWorld' = stopWorld,
         (S!Fault /\ slips' = slips) \/ S!Slip \/ UNCHANGED <<faults, slips>>
  PROVE  faults' \in 0..stopWorld.faults /\ slips' \in 0..faults'
<1>1. stopWorld.faults \in Nat /\ faults \in 0..stopWorld.faults /\ slips \in 0..faults
  BY StopAccountsAssumption DEF StopTypes
<1> QED BY <1>1 DEF S!Fault, S!Slip

LEMMA TypesClose ==
  ASSUME StopTypes, NEW c \in Callers, S!Close(c)
  PROVE  StopTypes'
<1>1. CASE S!CloseLands(c)
  <2>1. Agents'
    <3>1. CASE call[c].want = S!Nothing BY <1>1, <3>1, CallEnds DEF S!CloseLands
    <3>2. CASE call[c].want # S!Nothing
      BY <1>1, <3>2, AskIs, FieldsAre DEF S!CloseLands, Heard
    <3> QED BY <3>1, <3>2
  <2>2. opening' \in Openings BY <1>1 DEF S!CloseLands, StopTypes, Openings
  <2>3. position' \in 0..Lots BY <1>1, LimitsAssumption DEF S!CloseLands, StopTypes
  <2> QED BY <1>1, <2>1, <2>2, <2>3 DEF StopTypes, S!CloseLands, S!counts, S!history
<1>2. CASE S!CloseRefused(c)
  <2>1. Agents' BY <1>2, CallEnds DEF S!CloseRefused
  <2>2. faults' \in 0..stopWorld.faults /\ slips' \in 0..faults'
    BY <1>2, FaultIs DEF S!CloseRefused, S!history
  <2> QED BY <1>2, <2>1, <2>2 DEF StopTypes, S!CloseRefused, S!exchange, S!history
<1> QED BY <1>1, <1>2 DEF S!Close

LEMMA TypesJob ==
  ASSUME StopTypes, NEW c \in Callers,
         \/ S!Unavailable(c) \/ S!FindPosition(c) \/ S!ListTriggers(c) \/ S!Conclude(c)
  PROVE  StopTypes'
<1>1. S!Nothing \in [S!Legs -> BOOLEAN \cup {NULL}] BY DEF S!Nothing
<1>2. CASE S!Unavailable(c)
  <2>1. Agents' BY <1>1, <1>2, AnsweredIs DEF S!Unavailable
  <2>2. faults' \in 0..stopWorld.faults /\ slips' \in 0..faults'
    BY <1>2, FaultIs DEF S!Unavailable, S!history
  <2> QED BY <1>2, <2>1, <2>2 DEF StopTypes, S!Unavailable, S!exchange, S!history
<1>3. CASE S!FindPosition(c)
  <2>1. Agents'
    <3>1. CASE position = 0 BY <1>1, <1>3, <3>1, AnsweredIs DEF S!FindPosition
    <3>2. CASE position # 0
      <4> DEFINE j == [job[c] EXCEPT !.at = "list", !.size = position]
      <4>1. j \in Jobs /\ IsFiniteSet(j.seen) BY FieldsAre DEF Jobs, StopTypes, Agents
      <4>2. job' = [job EXCEPT ![c] = j] /\ call' = call
        BY <1>3, <3>2 DEF S!FindPosition, StopTypes, Agents
      <4> HIDE DEF j
      <4> QED BY <4>1, <4>2, JobStep
    <3> QED BY <3>1, <3>2
  <2> QED BY <1>3, <2>1 DEF StopTypes, S!FindPosition, S!exchange, S!counts, S!history
<1>4. CASE S!ListTriggers(c)
  <2> DEFINE want  == S!Effective(job[c].want)
             state == [leg \in S!Legs |-> IF want[leg] = NULL THEN NULL ELSE "pending"]
             j == [job[c] EXCEPT !.at = "cancel", !.seen = rest, !.want = want, !.state = state]
  <2>1. want \in Wants /\ state \in States BY EffectiveIs, FieldsAre DEF States
  <2>2. rest \subseteq Triggers /\ IsFiniteSet(rest) BY DEF StopTypes
  <2>3. job' = [job EXCEPT ![c] = j] /\ call' = call BY <1>4 DEF S!ListTriggers, StopTypes, Agents
  <2> HIDE DEF want, state
  <2>4. j \in Jobs /\ IsFiniteSet(j.seen) BY <2>1, <2>2, FieldsAre DEF Jobs
  <2> HIDE DEF j
  <2>5. Agents' BY <2>3, <2>4, JobStep
  <2>6. had' \in [Callers -> SUBSET S!Legs] BY <1>4 DEF S!ListTriggers, StopTypes, Triggers
  <2> QED BY <1>4, <2>5, <2>6 DEF StopTypes, S!ListTriggers, S!exchange, S!counts
<1>5. CASE S!Conclude(c)
  <2>1. S!Ok(c) \in [S!Legs -> BOOLEAN \cup {NULL}] BY DEF S!Ok
  <2>2. Agents'
    <3> DEFINE s == \A leg \in S!Legs : S!Ok(c)[leg] # FALSE
    <3>1. s \in BOOLEAN OBVIOUS
    <3>2. S!Answered(c, s, S!Ok(c)) BY <1>5 DEF S!Conclude
    <3> HIDE DEF s
    <3> QED BY <2>1, <3>1, <3>2, AnsweredIs
  <2> QED BY <1>5, <2>2 DEF StopTypes, S!Conclude, S!exchange, S!counts, S!history
<1> QED BY <1>2, <1>3, <1>4, <1>5

LEMMA TypesCancel ==
  ASSUME StopTypes, NEW c \in Callers, S!Cancel(c) \/ S!CancelRefused(c)
  PROVE  StopTypes'
<1> DEFINE t == CHOOSE u \in job[c].seen : TRUE
           j == [job[c] EXCEPT !.seen = @ \ {t}]
<1>1. j \in Jobs /\ IsFiniteSet(j.seen)
  <2>1. IsFiniteSet(job[c].seen) BY DEF StopTypes, Agents
  <2>2. IsFiniteSet(job[c].seen \ {t}) BY <2>1, FS_RemoveElement
  <2> HIDE DEF t
  <2> QED BY <2>2, FieldsAre DEF Jobs
<1>2. job' = [job EXCEPT ![c] = j] /\ call' = call
  BY DEF S!Cancel, S!CancelRefused, StopTypes, Agents
<1>3. rest' \subseteq Triggers /\ IsFiniteSet(rest')
  <2>1. rest \subseteq Triggers /\ IsFiniteSet(rest) BY DEF StopTypes
  <2>2. rest' = rest \/ rest' = rest \ {t} BY DEF S!Cancel, S!CancelRefused, S!exchange
  <2> HIDE DEF t
  <2> QED BY <2>1, <2>2, FS_RemoveElement
<1> HIDE DEF j, t
<1>4. Agents' BY <1>1, <1>2, JobStep
<1>5. faults' \in 0..stopWorld.faults /\ slips' \in 0..faults'
  BY FaultIs DEF S!Cancel, S!CancelRefused, S!counts, S!history
<1> QED BY <1>3, <1>4, <1>5 DEF StopTypes, S!Cancel, S!CancelRefused, S!exchange, S!history,
                                 S!counts

\* What a placement does: the triggers it leaves are new and at the wanted levels.
LEMMA PlaceDoes ==
  ASSUME StopTypes, NEW c \in Callers, JobFits(c), S!Place(c)
  PROVE  \E o \in S!Places(S!Pending(c)) :
           LET put == {S!New(leg, job[c].want[leg], S!SizeOf(c)) : leg \in o.put} IN
           /\ rest' = rest \cup put /\ put \subseteq Triggers /\ IsFiniteSet(put)
           /\ \A leg \in o.put : S!New(leg, job[c].want[leg], S!SizeOf(c)).leg = leg
                           /\ S!New(leg, job[c].want[leg], S!SizeOf(c)).px = job[c].want[leg]
           /\ job' = [job EXCEPT ![c] = [job[c] EXCEPT !.at = "verify", !.tries = @ + 1,
                                                   !.state = S!Noted(job[c].state, o.said)]]
           /\ slips' = slips =>
                \A leg \in o.put : S!Noted(job[c].state, o.said)[leg] = "awaiting"
           /\ (S!Fault /\ slips' = slips) \/ S!Slip \/ UNCHANGED <<faults, slips>>
<1> DEFINE legs == S!Pending(c)
<1>1. PICK o \in S!Places(legs) :
        /\ CASE o.put = legs /\ o.said = S!Said(legs, {}) -> UNCHANGED <<faults, slips>>
             [] \E leg \in o.put : leg \notin DOMAIN o.said \/ o.said[leg] = "error" -> S!Slip
             [] OTHER -> S!Fault /\ UNCHANGED slips
        /\ rest' = rest \cup {S!New(leg, job[c].want[leg], S!SizeOf(c)) : leg \in o.put}
        /\ job' = [job EXCEPT ![c].at = "verify", ![c].tries = @ + 1,
                              ![c].state = S!Noted(job[c].state, o.said)]
  BY DEF S!Place
<1> DEFINE put == {S!New(leg, job[c].want[leg], S!SizeOf(c)) : leg \in o.put}
<1>2. legs \subseteq S!Legs BY DEF S!Pending
<1>3. /\ o.put \subseteq legs /\ DOMAIN o.said \subseteq legs
      /\ \A leg \in DOMAIN o.said : o.said[leg] \in {"placed", "error"}
  BY <1>2, PlacesPut
<1>4. \A leg \in legs : job[c].want[leg] \in S!Levels[leg]
  <2>1. \A leg \in legs : job[c].want[leg] # NULL
    BY StopNullAssumption DEF S!Pending, JobFits, Working, S!Place
  <2> QED BY <1>2, <2>1, FieldsAre DEF Wants
<1>5. S!SizeOf(c) \in 0..Lots BY FieldsAre, LimitsAssumption DEF S!SizeOf
<1>6. \A leg \in o.put : LET t == S!New(leg, job[c].want[leg], S!SizeOf(c)) IN
        t \in Triggers /\ t.leg = leg /\ t.px = job[c].want[leg]
  BY <1>2, <1>3, <1>4, <1>5, NewIs
<1>7. IsFiniteSet(put)
  <2> DEFINE f == [leg \in o.put |-> S!New(leg, job[c].want[leg], S!SizeOf(c))]
  <2>1. IsFiniteSet(S!Legs)
    <3>1. IsFiniteSet({"tp"}) /\ IsFiniteSet({"sl"}) BY FS_Singleton
    <3>2. S!Legs = {"tp"} \cup {"sl"} BY LevelsAre
    <3> QED BY <3>1, <3>2, FS_Union
  <2>2. IsFiniteSet(o.put) BY <1>2, <1>3, <2>1, FS_Subset
  <2>3. IsFiniteSet({f[leg] : leg \in o.put}) BY <2>2, RangeIsFinite
  <2>4. {f[leg] : leg \in o.put} = put OBVIOUS
  <2> QED BY <2>3, <2>4
<1>8. job' = [job EXCEPT ![c] = [job[c] EXCEPT !.at = "verify", !.tries = @ + 1,
                                           !.state = S!Noted(job[c].state, o.said)]]
  BY <1>1 DEF StopTypes, Agents
<1>9. (S!Fault /\ slips' = slips) \/ S!Slip \/ UNCHANGED <<faults, slips>>
  BY <1>1
<1>10. slips' = slips => \A leg \in o.put : S!Noted(job[c].state, o.said)[leg] = "awaiting"
  <2> SUFFICES ASSUME slips' = slips, NEW leg \in o.put
               PROVE  S!Noted(job[c].state, o.said)[leg] = "awaiting"
    OBVIOUS
  <2>1. ~S!Slip BY DEF S!Slip, StopTypes
  <2>2. leg \in DOMAIN o.said /\ o.said[leg] = "placed"
    <3>1. CASE o.put = legs /\ o.said = S!Said(legs, {}) BY <3>1 DEF S!Said
    <3>2. CASE ~(o.put = legs /\ o.said = S!Said(legs, {})) BY <1>1, <1>3, <2>1, <3>2
    <3> QED BY <3>1, <3>2
  <2> QED BY <1>2, <1>3, <2>2 DEF S!Noted
<1>11. put \subseteq Triggers BY <1>6
<1> HIDE DEF legs
<1> QED BY <1>1, <1>6, <1>7, <1>8, <1>9, <1>10, <1>11 DEF legs

LEMMA TypesPlace ==
  ASSUME StopTypes, NEW c \in Callers, JobFits(c), S!Place(c) \/ S!PlaceRejected(c)
  PROVE  StopTypes'
<1>0. job[c].tries + 1 \in 0..Attempts
  BY FieldsAre, LimitsAssumption DEF S!Place, S!PlaceRejected, S!More
<1>1. CASE S!Place(c)
  <2>1. PICK o \in S!Places(S!Pending(c)) :
           LET put == {S!New(leg, job[c].want[leg], S!SizeOf(c)) : leg \in o.put} IN
           /\ rest' = rest \cup put /\ put \subseteq Triggers /\ IsFiniteSet(put)
           /\ job' = [job EXCEPT ![c] = [job[c] EXCEPT !.at = "verify", !.tries = @ + 1,
                                                   !.state = S!Noted(job[c].state, o.said)]]
           /\ (S!Fault /\ slips' = slips) \/ S!Slip \/ UNCHANGED <<faults, slips>>
    BY <1>1, PlaceDoes
  <2> DEFINE j == [job[c] EXCEPT !.at = "verify", !.tries = @ + 1,
                             !.state = S!Noted(job[c].state, o.said)]
  <2>2. S!Pending(c) \subseteq S!Legs BY DEF S!Pending
  <2>3. S!Noted(job[c].state, o.said) \in States BY <2>2, PlacesPut, NotedIs, FieldsAre
  <2>4. IsFiniteSet(job[c].seen) BY DEF StopTypes, Agents
  <2>5. j \in Jobs /\ IsFiniteSet(j.seen) BY <1>0, <2>3, <2>4, FieldsAre DEF Jobs
  <2>6. call' = call BY <1>1 DEF S!Place
  <2>7. Agents'
    <3>1. job' = [job EXCEPT ![c] = j] BY <2>1
    <3> HIDE DEF j
    <3> QED BY <2>5, <2>6, <3>1, JobStep
  <2>8. faults' \in 0..stopWorld.faults /\ slips' \in 0..faults'
    BY <1>1, <2>1, FaultIs DEF S!Place
  <2>9. rest' \subseteq Triggers /\ IsFiniteSet(rest')
    <3>1. rest \subseteq Triggers /\ IsFiniteSet(rest) BY DEF StopTypes
    <3> QED BY <2>1, <3>1, FS_Union
  <2> QED BY <1>1, <2>7, <2>8, <2>9 DEF StopTypes, S!Place
<1>2. CASE S!PlaceRejected(c)
  <2> DEFINE j == [job[c] EXCEPT !.at = "verify", !.tries = @ + 1]
  <2>1. job' = [job EXCEPT ![c] = j] /\ call' = call
    BY <1>2 DEF S!PlaceRejected, StopTypes, Agents
  <2>2. j \in Jobs /\ IsFiniteSet(j.seen) BY <1>0, FieldsAre DEF Jobs, StopTypes, Agents
  <2> HIDE DEF j
  <2>3. Agents' BY <2>1, <2>2, JobStep
  <2> QED BY <1>2, <2>3 DEF StopTypes, S!PlaceRejected, S!exchange, S!counts, S!history
<1> QED BY <1>1, <1>2


LEMMA TypesVerify ==
  ASSUME StopTypes, NEW c \in Callers, S!Verify(c) \/ S!VerifyUnknown(c)
  PROVE  StopTypes'
<1>1. CASE S!Verify(c)
  <2> DEFINE j == [job[c] EXCEPT !.at = "cancel", !.state = S!Confirmed(c)]
  <2>1. job' = [job EXCEPT ![c] = j] /\ call' = call BY <1>1 DEF S!Verify, StopTypes, Agents
  <2>2. S!Confirmed(c) \in States BY DEF S!Confirmed, States
  <2>3. j \in Jobs /\ IsFiniteSet(j.seen) BY <2>2, FieldsAre DEF Jobs, StopTypes, Agents
  <2> HIDE DEF j
  <2>4. Agents' BY <2>1, <2>3, JobStep
  <2> QED BY <1>1, <2>4 DEF StopTypes, S!Verify, S!exchange, S!counts, S!history
<1>2. CASE S!VerifyUnknown(c)
  <2> DEFINE j == [job[c] EXCEPT !.at = "cancel"]
  <2>1. job' = [job EXCEPT ![c] = j] /\ call' = call BY <1>2 DEF S!VerifyUnknown, StopTypes, Agents
  <2>2. j \in Jobs /\ IsFiniteSet(j.seen) BY FieldsAre DEF Jobs, StopTypes, Agents
  <2> HIDE DEF j
  <2>3. Agents' BY <2>1, <2>2, JobStep
  <2>4. faults' \in 0..stopWorld.faults /\ slips' \in 0..faults'
    BY <1>2, FaultIs DEF S!VerifyUnknown, S!history
  <2> QED BY <1>2, <2>3, <2>4 DEF StopTypes, S!VerifyUnknown, S!exchange, S!history
<1> QED BY <1>1, <1>2

\* What an answer writes down, by the kind of its caller.
LEMMA HearIs ==
  ASSUME StopTypes, NEW c \in Callers, S!Hear(c)
  PROVE  /\ opening' \in Openings /\ told' \in {"none", "log", "caller"}
         /\ Known => Known'
         /\ WillTell(c) => Known'
<1>1. /\ call[c].verdict \in Verdicts /\ call[c].verdict.eff \in Wants
      /\ call[c].verdict.success \in BOOLEAN /\ call[c].want \in Wants
      /\ call[c].kind \in Heard
  BY FieldsAre DEF S!Hear, StopTypes, Agents, Shaped, Verdicts
<1>2. opening \in Openings /\ told \in {"none", "log", "caller"} BY DEF StopTypes
<1>3. CASE call[c].kind = "adjust"
  BY <1>1, <1>2, <1>3, CoalesceIs DEF S!Hear, Known, S!Flagged, WillTell
<1>4. CASE call[c].kind = "reanchor"
  BY <1>1, <1>2, <1>4, CoalesceIs DEF S!Hear, Known, S!Flagged, WillTell
<1>5. CASE call[c].kind \in {"postfill", "resize"}
  <2>1. S!StopUnsure(c) \in BOOLEAN BY DEF S!StopUnsure
  <2>2. /\ opening' = [opening EXCEPT !.unconfirmed = @ \/ S!StopUnsure(c)]
        /\ told' = told
    BY <1>5 DEF S!Hear
  <2>3. opening' \in Openings /\ opening'.tightened = opening.tightened
    BY <1>2, <2>1, <2>2 DEF Openings
  <2>4. opening'.unconfirmed = (opening.unconfirmed \/ S!StopUnsure(c))
    BY <1>2, <2>2 DEF Openings
  <2> QED BY <1>2, <1>5, <2>2, <2>3, <2>4 DEF Known, S!Flagged, WillTell
<1>6. CASE call[c].kind = "guard"
  <2>1. CASE call[c].verdict.ok.sl = TRUE
    <3>1. opening' = [opening EXCEPT !.tightened = TRUE, !.unconfirmed = FALSE] /\ told' = told
      BY <1>6, <2>1 DEF S!Hear
    <3> QED BY <1>2, <3>1 DEF Openings, Known, S!Flagged
  <2>2. CASE call[c].verdict.ok.sl # TRUE
    <3>1. opening' = opening /\ told' = IF told = "caller" THEN told ELSE "log"
      BY <1>6, <2>2 DEF S!Hear
    <3> QED BY <1>2, <3>1 DEF Known, S!Flagged
  <2> QED BY <2>1, <2>2
<1> QED BY <1>1, <1>3, <1>4, <1>5, <1>6 DEF Heard

LEMMA TypesReturn ==
  ASSUME StopTypes, NEW c \in Callers, S!Return(c)
  PROVE  StopTypes'
<1>1. CASE S!Expire(c)
  <2> DEFINE k == [call[c] EXCEPT !.at = "answered", !.verdict = S!Refused]
  <2>1. call' = [call EXCEPT ![c] = k] /\ job' = job BY <1>1 DEF S!Expire, StopTypes, Agents
  <2>2. /\ k \in Calls /\ k.at = "answered" /\ k.verdict \in Verdicts
        /\ k.kind = call[c].kind
    BY RefusedIs, FieldsAre DEF Calls
  <2>3. call[c].kind \in Heard BY <1>1 DEF S!Expire, StopTypes, Agents, Shaped
  <2> HIDE DEF k
  <2>4. Agents' BY <2>1, <2>2, <2>3 DEF StopTypes, Agents, Shaped
  <2>5. faults' \in 0..stopWorld.faults /\ slips' \in 0..faults'
    BY <1>1, FaultIs DEF S!Expire, S!history
  <2> QED BY <1>1, <2>4, <2>5 DEF StopTypes, S!Expire, S!exchange, S!history
<1>2. CASE S!Hear(c)
  <2>1. Agents' BY <1>2, CallEnds DEF S!Hear
  <2>2. opening' \in Openings /\ told' \in {"none", "log", "caller"} BY <1>2, HearIs
  <2>3. had' \in [Callers -> SUBSET S!Legs] BY <1>2 DEF S!Hear, StopTypes
  <2> QED BY <1>2, <2>1, <2>2, <2>3 DEF StopTypes, S!Hear, S!exchange, S!counts
<1>3. CASE S!NotPersisted(c)
  <2>1. Agents' BY <1>3, CallEnds DEF S!NotPersisted
  <2>2. faults' \in 0..stopWorld.faults /\ slips' \in 0..faults'
    BY <1>3, FaultIs DEF S!NotPersisted, S!history
  <2> QED BY <1>3, <2>1, <2>2 DEF StopTypes, S!NotPersisted, S!exchange, S!history
<1> QED BY <1>1, <1>2, <1>3 DEF S!Return

LEMMA TypesEnd == StopTypes /\ S!PositionEnds => StopTypes'
<1> SUFFICES ASSUME StopTypes, S!PositionEnds PROVE StopTypes' OBVIOUS
<1>1. IsFiniteSet({}) BY FS_EmptySet
<1>2. Agents' BY DEF S!PositionEnds, S!agents, StopTypes, Agents, Shaped
<1> QED BY <1>1, <1>2, LimitsAssumption DEF StopTypes, S!PositionEnds, S!counts, S!history

LEMMA StopTypesInit == S!Init => StopTypes
<1> SUFFICES ASSUME S!Init PROVE StopTypes OBVIOUS
<1>1. /\ stopWorld \in StopAccounts /\ stopWorld.legs \subseteq S!Legs /\ stopWorld.faults \in Nat
  BY StopAccountsAssumption, LevelsAre DEF S!Init
<1>2. opening \in Openings BY DEF S!Init, Openings
<1>3. \A leg \in S!Legs : opening[leg] \in S!Levels[leg] BY <1>2, LevelsAre DEF Openings
<1>4. rest \subseteq Triggers
  <2>1. rest = {[leg |-> leg, px |-> opening[leg], size |-> Lots, n |-> 1] : leg \in stopWorld.legs}
    BY DEF S!Init
  <2>2. Lots \in 0..Lots /\ 1 \in Nat BY LimitsAssumption
  <2>3. \A leg \in stopWorld.legs : opening[leg] \in Nat /\ opening[leg] \in S!Levels[leg]
    BY <1>1, <1>3, LevelsAre
  <2> QED BY <1>1, <2>1, <2>2, <2>3 DEF Triggers
<1>5. IsFiniteSet(rest)
  <2> DEFINE f == [leg \in stopWorld.legs |->
                     [leg |-> leg, px |-> opening[leg], size |-> Lots, n |-> 1]]
  <2>1. IsFiniteSet({"tp"}) /\ IsFiniteSet({"sl"}) BY FS_Singleton
  <2>2. IsFiniteSet(S!Legs)
    <3>1. S!Legs = {"tp"} \cup {"sl"} BY LevelsAre
    <3> QED BY <2>1, <3>1, FS_Union
  <2>3. IsFiniteSet(stopWorld.legs) BY <1>1, <2>2, FS_Subset
  <2>4. IsFiniteSet({f[leg] : leg \in stopWorld.legs}) BY <2>3, RangeIsFinite
  <2>5. {f[leg] : leg \in stopWorld.legs} = rest BY DEF S!Init
  <2> QED BY <2>4, <2>5
<1>6. Agents BY NoCallIs, NoJobIs DEF S!Init, Agents, Shaped
<1>7. position \in 0..Lots BY LimitsAssumption DEF S!Init
<1> QED BY <1>1, <1>2, <1>4, <1>5, <1>6, <1>7 DEF StopTypes, S!Init

LEMMA StopTypesNext ==
  ASSUME StopTypes, \A c \in Callers : JobFits(c), S!Next
  PROVE  StopTypes'
<1>1. ASSUME NEW c \in Callers, S!Begin(c) \/ S!GuardPass(c) PROVE StopTypes' BY <1>1, TypesBegin
<1>2. ASSUME NEW c \in Callers, S!Close(c) PROVE StopTypes' BY <1>2, TypesClose
<1>3. ASSUME NEW c \in Callers, S!Modify(c) PROVE StopTypes'
  BY <1>3, TypesJob, TypesCancel, TypesPlace, TypesVerify DEF S!Modify
<1>4. ASSUME NEW c \in Callers, S!Return(c) PROVE StopTypes' BY <1>4, TypesReturn
<1> QED BY <1>1, <1>2, <1>3, <1>4, TypesEnd DEF S!Next, S!Runs


-------------------------------------------------------------------------------
(* Who acts, and what a job has to do with its caller.                     *)

\* A step of one caller is nobody else's.
LEMMA OthersStay ==
  ASSUME StopTypes, NEW c \in Callers, S!Begin(c) \/ S!GuardPass(c) \/ S!Runs(c)
  PROVE  /\ stopWorld' = stopWorld
         /\ \A d \in Callers \ {c} :
              call'[d] = call[d] /\ job'[d] = job[d] /\ had'[d] = had[d]
<1> USE DEF StopTypes, Agents
<1>1. CASE S!Begin(c)
  BY <1>1 DEF S!Begin, S!PostFill, S!Reanchor, S!Adjust, S!PartialClose, S!PartialCloseBlind,
              S!Ask, S!history
<1>2. CASE S!GuardPass(c) BY <1>2 DEF S!GuardPass, S!Ask, S!history
<1>3. CASE S!Close(c) BY <1>3 DEF S!Close, S!CloseLands, S!CloseRefused, S!Ask, S!history
<1>4. CASE S!Unavailable(c) \/ S!FindPosition(c) \/ S!ListTriggers(c) \/ S!Conclude(c)
  BY <1>4 DEF S!Unavailable, S!FindPosition, S!ListTriggers, S!Conclude, S!Answered, S!history
<1>5. CASE S!Cancel(c) \/ S!CancelRefused(c)
  BY <1>5 DEF S!Cancel, S!CancelRefused, S!history
<1>6. CASE S!Place(c)
  <2>1. /\ stopWorld' = stopWorld /\ call' = call /\ had' = had
        /\ \E o \in S!Places(S!Pending(c)) :
             job' = [job EXCEPT ![c].at = "verify", ![c].tries = @ + 1,
                                ![c].state = S!Noted(job[c].state, o.said)]
    BY <1>6 DEF S!Place
  <2> QED BY <2>1
<1>7. CASE S!PlaceRejected(c) \/ S!Verify(c) \/ S!VerifyUnknown(c)
  BY <1>7 DEF S!PlaceRejected, S!Verify, S!VerifyUnknown, S!history
<1>8. CASE S!Return(c) BY <1>8 DEF S!Return, S!Expire, S!Hear, S!NotPersisted, S!history
<1> QED BY <1>1, <1>2, <1>3, <1>4, <1>5, <1>6, <1>7, <1>8 DEF S!Runs, S!Modify

\* A step of a caller is one of an active caller.
LEMMA WhoActs ==
  ASSUME Only, NEW c \in Callers, S!Begin(c) \/ S!GuardPass(c) \/ S!Runs(c)
  PROVE  c \in stopWorld.callers
<1>1. CASE S!Begin(c) \/ S!GuardPass(c)
  BY <1>1 DEF S!Begin, S!GuardPass, S!PostFill, S!Reanchor, S!Adjust, S!PartialClose,
              S!PartialCloseBlind, S!Free
<1>2. CASE S!Close(c) \/ S!Return(c)
  <2>1. call[c].at # "idle"
    BY <1>2 DEF S!Close, S!CloseLands, S!CloseRefused, S!Return, S!Expire, S!Hear, S!NotPersisted
  <2> QED BY <2>1 DEF Only
<1>3. CASE S!Modify(c)
  <2>1. job[c].at # "none"
    BY <1>3 DEF S!Modify, S!Unavailable, S!FindPosition, S!ListTriggers, S!Cancel,
                S!CancelRefused, S!Place, S!PlaceRejected, S!Verify, S!VerifyUnknown, S!Conclude
  <2> QED BY <2>1 DEF Only
<1> QED BY <1>1, <1>2, <1>3 DEF S!Runs

LEMMA OnlyNext ==
  ASSUME StopTypes, Only, S!Next
  PROVE  Only'
<1>1. ASSUME NEW c \in Callers, S!Begin(c) \/ S!GuardPass(c) \/ S!Runs(c) PROVE Only'
  BY <1>1, OthersStay, WhoActs DEF Only
<1>2. CASE S!PositionEnds BY <1>2 DEF S!PositionEnds, S!agents, Only
<1> QED BY <1>1, <1>2 DEF S!Next

LEMMA JobFitsAsked ==
  ASSUME StopTypes, NEW c \in Callers, NEW kind, NEW want \in Wants, S!Ask(c, kind, want)
  PROVE  /\ JobFits(c)'
         /\ call'[c].at = "wait" /\ call'[c].kind = kind /\ call'[c].want = want
         /\ job'[c].at = "start"
<1>1. /\ call'[c] = [at |-> "wait", kind |-> kind, want |-> want, verdict |-> NULL]
      /\ job'[c] = [S!NoJob EXCEPT !.at = "start", !.want = want]
  BY DEF S!Ask, StopTypes, Agents
<1>2. job'[c].at = "start" /\ job'[c].want = want BY <1>1 DEF S!NoJob
<1> QED BY <1>1, <1>2 DEF JobFits, Working

LEMMA JobFitsBegin ==
  ASSUME StopTypes, NEW c \in Callers, S!Begin(c) \/ S!GuardPass(c)
  PROVE  JobFits(c)'
<1>1. CASE S!PostFill(c) BY <1>1, RevalidatedIs, JobFitsAsked DEF S!PostFill
<1>2. CASE S!Reanchor(c) BY <1>2, RevalidatedIs, JobFitsAsked DEF S!Reanchor
<1>3. CASE S!Adjust(c)
  <2>1. PICK tp \in S!Maybe(IF "tp" \in stopWorld.legs THEN S!Levels.tp ELSE {}),
             sl \in S!Maybe(S!Levels.sl) : S!Ask(c, "adjust", [tp |-> tp, sl |-> sl])
    BY <1>3 DEF S!Adjust
  <2>2. [tp |-> tp, sl |-> sl] \in Wants BY LevelsAre DEF S!Maybe, Wants
  <2> QED BY <2>1, <2>2, JobFitsAsked
<1>4. CASE S!PartialClose(c) \/ S!PartialCloseBlind(c)
  BY <1>4 DEF S!PartialClose, S!PartialCloseBlind, S!Free, StopTypes, Agents, JobFits, Working
<1>5. CASE S!GuardPass(c)
  <2>1. [tp |-> S!Level("tp"), sl |-> S!Safe] \in Wants BY LevelIs, LevelsAre DEF Wants, S!Safe
  <2> QED BY <1>5, <2>1, JobFitsAsked DEF S!GuardPass
<1> QED BY <1>1, <1>2, <1>3, <1>4, <1>5 DEF S!Begin

LEMMA JobFitsClose ==
  ASSUME StopTypes, NEW c \in Callers, JobFits(c), S!Close(c)
  PROVE  JobFits(c)'
<1>1. job[c].at = "none" BY DEF S!Close, S!CloseLands, S!CloseRefused, JobFits
<1>2. CASE call' = [call EXCEPT ![c] = S!NoCall] /\ job' = job
  BY <1>1, <1>2, NoCallIs DEF StopTypes, Agents, JobFits, Working
<1>3. CASE S!Ask(c, "resize", call[c].want) BY <1>3, JobFitsAsked, FieldsAre
<1> QED BY <1>2, <1>3 DEF S!Close, S!CloseLands, S!CloseRefused

\* Once a job is over, only its answer is left.
LEMMA JobFitsAnswered ==
  ASSUME StopTypes, NEW c \in Callers, JobFits(c), NEW success, NEW ok,
         S!Answered(c, success, ok)
  PROVE  /\ JobFits(c)' /\ job'[c].at = "none"
         /\ call[c].at # "wait" => call'[c] = call[c]
         /\ call[c].at = "wait" =>
              /\ call'[c].at = "answered" /\ call'[c].kind = call[c].kind
              /\ call'[c].want = call[c].want
              /\ call'[c].verdict.success = success /\ call'[c].verdict.ok = ok
<1>1. job'[c] = S!NoJob /\ job'[c].at = "none" BY NoJobIs DEF S!Answered, StopTypes, Agents
<1>2. CASE call[c].at = "wait"
  BY <1>1, <1>2, FieldsAre DEF S!Answered, StopTypes, Agents, Calls, JobFits, Working
<1>3. CASE call[c].at # "wait"
  BY <1>1, <1>3 DEF S!Answered, StopTypes, Agents, JobFits, Working
<1> QED BY <1>2, <1>3

LEMMA ConfirmedIs ==
  ASSUME StopTypes, NEW c \in Callers, NEW leg \in S!Legs
  PROVE  /\ job[c].state[leg] \in {NULL, "confirmed"} =>
              S!Confirmed(c)[leg] = job[c].state[leg]
         /\ job[c].state[leg] \notin {NULL, "confirmed"} =>
              S!Confirmed(c)[leg] =
                IF S!Landed(leg, job[c].want[leg]) THEN "confirmed" ELSE "pending"
BY DEF S!Confirmed

LEMMA JobFitsModify ==
  ASSUME StopTypes, NEW c \in Callers, JobFits(c), S!Modify(c)
  PROVE  JobFits(c)'
<1>1. CASE S!Unavailable(c) BY <1>1, JobFitsAnswered DEF S!Unavailable
<1>2. CASE S!Conclude(c) BY <1>2, JobFitsAnswered DEF S!Conclude
<1>3. CASE S!FindPosition(c)
  <2>1. CASE position = 0 BY <1>3, <2>1, JobFitsAnswered DEF S!FindPosition
  <2>2. CASE position # 0
    <3>1. call' = call /\ job'[c] = [job[c] EXCEPT !.at = "list", !.size = position]
      BY <1>3, <2>2 DEF S!FindPosition, StopTypes, Agents
    <3>2. job'[c].at = "list" /\ job'[c].want = job[c].want BY <3>1, FieldsAre DEF Jobs
    <3> QED BY <1>3, <3>1, <3>2 DEF S!FindPosition, JobFits, Working
  <2> QED BY <2>1, <2>2
<1>4. CASE S!ListTriggers(c)
  <2> DEFINE want  == S!Effective(job[c].want)
             state == [leg \in S!Legs |-> IF want[leg] = NULL THEN NULL ELSE "pending"]
  <2>1. /\ job'[c] = [job[c] EXCEPT !.at = "cancel", !.seen = rest, !.want = want, !.state = state]
        /\ call' = call /\ had'[c] = {t.leg : t \in rest}
    BY <1>4 DEF S!ListTriggers, StopTypes, Agents
  <2>2. job'[c].at = "cancel" /\ job'[c].want = want /\ job'[c].state = state
    BY <2>1, FieldsAre DEF Jobs
  <2>3. \A leg \in S!Legs : /\ job[c].want[leg] # NULL => want[leg] = job[c].want[leg]
                            /\ want[leg] = NULL => S!At(leg) = {}
    BY FieldsAre, EffectiveIs
  <2>4. \A leg \in S!Legs : leg \in had'[c] => S!At(leg) # {} BY <2>1 DEF S!At
  <2>5. \A leg \in S!Legs : want[leg] = NULL <=> state[leg] = NULL BY StopNullAssumption
  <2>6. job[c].at = "list" BY <1>4 DEF S!ListTriggers
  <2> HIDE DEF want, state
  <2> QED BY <2>1, <2>2, <2>3, <2>4, <2>5, <2>6 DEF JobFits, Working
<1>5. CASE S!Cancel(c) \/ S!CancelRefused(c)
  <2>1. /\ job'[c].at = job[c].at /\ job[c].at = "cancel" /\ job'[c].want = job[c].want
        /\ job'[c].state = job[c].state /\ call' = call /\ had' = had
    BY <1>5, FieldsAre DEF S!Cancel, S!CancelRefused, S!history, StopTypes, Agents, Jobs
  <2> QED BY <2>1 DEF JobFits, Working
<1>6. ASSUME NEW state \in States, job'[c].state = state, job'[c].want = job[c].want,
             job'[c].seen = job[c].seen, job'[c].at \in {"cancel", "verify"},
             job'[c].at = "verify" => job[c].seen = {}, Working(c), call' = call, had' = had,
             \A leg \in S!Legs : job[c].state[leg] = NULL <=> state[leg] = NULL
      PROVE  JobFits(c)'
  BY <1>6 DEF JobFits, Working
<1>7. CASE S!Place(c)
  <2>1. PICK o \in S!Places(S!Pending(c)) :
           job' = [job EXCEPT ![c] = [job[c] EXCEPT !.at = "verify", !.tries = @ + 1,
                                                !.state = S!Noted(job[c].state, o.said)]]
    BY ZenonT(60), <1>7, PlaceDoes
  <2> DEFINE state == S!Noted(job[c].state, o.said)
  <2>2. job'[c] = [job[c] EXCEPT !.at = "verify", !.tries = @ + 1, !.state = state]
    BY <2>1 DEF StopTypes, Agents
  <2>3. S!Pending(c) \subseteq S!Legs /\ \A leg \in S!Pending(c) : job[c].state[leg] = "pending"
    BY DEF S!Pending
  <2>4. DOMAIN o.said \subseteq S!Pending(c) BY <2>3, PlacesPut
  <2>5. state \in States BY <2>3, PlacesPut, NotedIs, FieldsAre
  <2>6. \A leg \in S!Legs : job[c].state[leg] = NULL <=> state[leg] = NULL
    BY <2>3, <2>4, StopNullAssumption DEF S!Noted
  <2> HIDE DEF state
  <2> QED BY <1>6, <1>7, <2>2, <2>5, <2>6, FieldsAre DEF S!Place, Jobs, Working
<1>8. CASE S!PlaceRejected(c) \/ S!VerifyUnknown(c)
  BY <1>6, <1>8, FieldsAre DEF S!PlaceRejected, S!VerifyUnknown, S!history, StopTypes, Agents,
                               Jobs, JobFits, Working
<1>9. CASE S!Verify(c)
  <2>1. job'[c] = [job[c] EXCEPT !.at = "cancel", !.state = S!Confirmed(c)]
    BY <1>9 DEF S!Verify, StopTypes, Agents
  <2> DEFINE state == S!Confirmed(c)
  <2>2. state \in States BY DEF S!Confirmed, States
  <2>3. \A leg \in S!Legs : state[leg] = NULL <=> job[c].state[leg] = NULL
    BY ConfirmedIs, StopNullAssumption
  <2>4. /\ job[c].at = "verify" /\ call' = call /\ had' = had
    BY <1>9 DEF S!Verify, S!history
  <2> HIDE DEF state
  <2>5. job'[c].state = state /\ job'[c].want = job[c].want /\ job'[c].seen = job[c].seen
        /\ job'[c].at = "cancel"
    BY <2>1, FieldsAre DEF Jobs, state
  <2> QED BY <1>6, <2>2, <2>3, <2>4, <2>5 DEF Working
<1> QED BY <1>1, <1>2, <1>3, <1>4, <1>5, <1>7, <1>8, <1>9 DEF S!Modify

LEMMA JobFitsReturn ==
  ASSUME StopTypes, NEW c \in Callers, JobFits(c), S!Return(c)
  PROVE  JobFits(c)'
<1>1. CASE S!Expire(c)
  <2>1. /\ call'[c] = [call[c] EXCEPT !.at = "answered", !.verdict = S!Refused]
        /\ job' = job /\ had' = had
    BY <1>1 DEF S!Expire, S!history, StopTypes, Agents
  <2>2. call'[c].at = "answered" /\ call'[c].verdict = S!Refused BY <2>1, FieldsAre DEF Calls
  <2> QED BY <2>1, <2>2 DEF JobFits, Working
<1>2. CASE S!Hear(c) \/ S!NotPersisted(c)
  <2>1. call'[c].at = "idle" /\ job' = job /\ (had'[c] = {} \/ had' = had)
    BY <1>2, NoCallIs DEF S!Hear, S!NotPersisted, S!history, StopTypes, Agents
  <2> QED BY <2>1 DEF JobFits, Working
<1> QED BY <1>1, <1>2 DEF S!Return

LEMMA JobFitsNext ==
  ASSUME StopTypes, \A c \in Callers : JobFits(c), S!Next
  PROVE  \A c \in Callers : JobFits(c)'
<1>1. ASSUME NEW c \in Callers, S!Begin(c) \/ S!GuardPass(c) \/ S!Runs(c)
      PROVE  \A d \in Callers : JobFits(d)'
  <2>1. JobFits(c)' BY <1>1, JobFitsBegin, JobFitsClose, JobFitsModify, JobFitsReturn DEF S!Runs
  <2>2. ASSUME NEW d \in Callers \ {c} PROVE JobFits(d)'
    BY <1>1, <2>2, OthersStay DEF JobFits, Working
  <2> QED BY <2>1, <2>2
<1>2. CASE S!PositionEnds BY <1>2 DEF S!PositionEnds, S!agents, S!history, JobFits, Working
<1> QED BY <1>1, <1>2 DEF S!Next


-------------------------------------------------------------------------------
(* One caller at a time.                                                   *)

LEMMA SoloSteps ==
  ASSUME StopTypes, Only, NEW c \in Callers, Solo(c), S!Next
  PROVE  S!Begin(c) \/ S!GuardPass(c) \/ S!Close(c) \/ S!Modify(c) \/ S!Return(c)
           \/ S!PositionEnds
<1>1. ASSUME NEW d \in Callers, S!Begin(d) \/ S!GuardPass(d) \/ S!Runs(d) PROVE d = c
  BY <1>1, WhoActs DEF Solo
<1> QED BY <1>1 DEF S!Next, S!Runs

LEMMA WorldIsFixed == StopTypes /\ S!Next => stopWorld' = stopWorld
BY OthersStay DEF S!Next, S!PositionEnds

\* Outside modify-stops nothing is placed or cancelled, and a job only begins.
LEMMA OutsideIs ==
  ASSUME StopTypes, NEW c \in Callers,
         S!Begin(c) \/ S!GuardPass(c) \/ S!Close(c) \/ S!Return(c)
  PROVE  /\ rest' = rest /\ slips' = slips /\ position' \in 0..position
         /\ job' = job \/ (job'[c].at = "start" /\ job'[c].tries = 0)
<1>0. position \in 0..Lots BY DEF StopTypes
<1>1. \A kind, want : S!Ask(c, kind, want) => job'[c].at = "start" /\ job'[c].tries = 0
  BY DEF S!Ask, StopTypes, Agents, S!NoJob
<1>2. CASE S!Begin(c)
  <2>1. CASE S!PostFill(c) \/ S!Reanchor(c) \/ S!Adjust(c)
    <3>1. rest' = rest /\ slips' = slips /\ position' = position
      BY <2>1 DEF S!PostFill, S!Reanchor, S!Adjust, S!exchange, S!history
    <3>2. \E kind, want : S!Ask(c, kind, want) BY <2>1 DEF S!PostFill, S!Reanchor, S!Adjust
    <3> QED BY <1>0, <1>1, <3>1, <3>2
  <2>2. CASE S!PartialClose(c) \/ S!PartialCloseBlind(c)
    BY <1>0, <2>2 DEF S!PartialClose, S!PartialCloseBlind, S!exchange, S!history
  <2> QED BY <1>2, <2>1, <2>2 DEF S!Begin
<1>3. CASE S!GuardPass(c) BY <1>0, <1>1, <1>3 DEF S!GuardPass, S!exchange, S!history
<1>4. CASE S!Close(c)
  <2>1. CASE S!CloseLands(c)
    <3>1. rest' = rest /\ slips' = slips /\ position' = position - 1 /\ position > 1
      BY <2>1 DEF S!CloseLands, S!history
    <3>2. job' = job \/ S!Ask(c, "resize", call[c].want) BY <2>1 DEF S!CloseLands
    <3> QED BY <1>0, <1>1, <3>1, <3>2
  <2>2. CASE S!CloseRefused(c) BY <1>0, <2>2 DEF S!CloseRefused, S!exchange, S!history
  <2> QED BY <1>4, <2>1, <2>2 DEF S!Close
<1>5. CASE S!Return(c)
  <2>1. rest' = rest /\ slips' = slips /\ position' = position /\ job' = job
    <3>1. CASE S!Expire(c) BY <3>1 DEF S!Expire, S!exchange, S!history
    <3>2. CASE S!Hear(c) BY <3>2 DEF S!Hear, S!exchange
    <3>3. CASE S!NotPersisted(c) BY <3>3 DEF S!NotPersisted, S!exchange, S!history
    <3> QED BY <1>5, <3>1, <3>2, <3>3 DEF S!Return
  <2> QED BY <1>0, <2>1
<1> QED BY <1>2, <1>3, <1>4, <1>5

\* A job that ends or finds its position touches no trigger.
LEMMA QuietIs ==
  ASSUME StopTypes, NEW c \in Callers, JobFits(c),
         S!Unavailable(c) \/ S!FindPosition(c) \/ S!Conclude(c)
  PROVE  /\ rest' = rest /\ slips' = slips /\ position' = position
         /\ \/ job'[c].at = "none"
            \/ job'[c].at = "list" /\ job[c].at = "start" /\ job'[c].tries = job[c].tries
               /\ call' = call
<1>1. CASE S!Unavailable(c)
  BY <1>1, JobFitsAnswered DEF S!Unavailable, S!exchange, S!history
<1>2. CASE S!Conclude(c)
  BY <1>2, JobFitsAnswered DEF S!Conclude, S!exchange, S!history
<1>3. CASE S!FindPosition(c)
  <2>1. CASE position = 0
    BY <1>3, <2>1, JobFitsAnswered DEF S!FindPosition, S!exchange, S!history
  <2>2. CASE position # 0
    <3>1. call' = call /\ job'[c] = [job[c] EXCEPT !.at = "list", !.size = position]
      BY <1>3, <2>2 DEF S!FindPosition, StopTypes, Agents
    <3>2. job'[c].at = "list" /\ job'[c].tries = job[c].tries BY <3>1, FieldsAre DEF Jobs
    <3> QED BY <1>3, <3>1, <3>2 DEF S!FindPosition, S!exchange, S!history
  <2> QED BY <2>1, <2>2
<1> QED BY <1>1, <1>2, <1>3

\* What the other steps of a job make of it.
LEMMA ListIs ==
  ASSUME StopTypes, NEW c \in Callers, S!ListTriggers(c)
  PROVE  /\ rest' = rest /\ slips' = slips /\ position' = position /\ call' = call
         /\ job[c].at = "list" /\ job'[c].at = "cancel" /\ job'[c].seen = rest
         /\ job'[c].tries = job[c].tries
         /\ \A leg \in S!Legs : job'[c].state[leg] \in {NULL, "pending"}
         /\ had'[c] = {t.leg : t \in rest}
<1> DEFINE want  == S!Effective(job[c].want)
           state == [leg \in S!Legs |-> IF want[leg] = NULL THEN NULL ELSE "pending"]
<1>1. job'[c] = [job[c] EXCEPT !.at = "cancel", !.seen = rest, !.want = want, !.state = state]
  BY DEF S!ListTriggers, StopTypes, Agents
<1>2. \A leg \in S!Legs : state[leg] \in {NULL, "pending"} OBVIOUS
<1>3. had'[c] = {t.leg : t \in rest} BY DEF S!ListTriggers, StopTypes
<1>4. /\ rest' = rest /\ slips' = slips /\ position' = position /\ call' = call
      /\ job[c].at = "list"
  BY DEF S!ListTriggers, S!exchange
<1> HIDE DEF want, state
<1>5. /\ job'[c].at = "cancel" /\ job'[c].seen = rest /\ job'[c].tries = job[c].tries
      /\ job'[c].state = state
  BY <1>1, FieldsAre DEF Jobs
<1> QED BY <1>2, <1>3, <1>4, <1>5

LEMMA CancelIs ==
  ASSUME StopTypes, NEW c \in Callers, S!Cancel(c) \/ S!CancelRefused(c)
  PROVE  /\ job[c].at = "cancel" /\ job[c].seen # {} /\ position' = position /\ call' = call
         /\ had' = had
         /\ job'[c].at = "cancel" /\ job'[c].state = job[c].state
         /\ job'[c].want = job[c].want /\ job'[c].tries = job[c].tries
         /\ \E t \in job[c].seen : job'[c].seen = job[c].seen \ {t} /\
              \/ rest' = rest \ {t} /\ slips' = slips
              \/ rest' = rest /\ slips' = slips + 1
<1> DEFINE t == CHOOSE u \in job[c].seen : TRUE
<1>1. job[c].seen # {} /\ job[c].at = "cancel" BY DEF S!Cancel, S!CancelRefused
<1>2. t \in job[c].seen BY <1>1
<1>3. job'[c] = [job[c] EXCEPT !.seen = @ \ {t}]
  BY DEF S!Cancel, S!CancelRefused, StopTypes, Agents
<1>4. \/ rest' = rest \ {t} /\ slips' = slips
      \/ rest' = rest /\ slips' = slips + 1
  <2>1. CASE S!Cancel(c) BY <2>1 DEF S!Cancel, S!history
  <2>2. CASE S!CancelRefused(c) BY <2>2 DEF S!CancelRefused, S!exchange, S!Slip
  <2> QED BY <2>1, <2>2
<1>5. position' = position /\ call' = call /\ had' = had
  BY DEF S!Cancel, S!CancelRefused, S!exchange, S!history
<1> HIDE DEF t
<1>6. /\ job'[c].at = "cancel" /\ job'[c].state = job[c].state
      /\ job'[c].want = job[c].want /\ job'[c].tries = job[c].tries
      /\ job'[c].seen = job[c].seen \ {t}
  BY <1>1, <1>3, FieldsAre DEF Jobs
<1> QED BY <1>1, <1>2, <1>4, <1>5, <1>6

LEMMA PlaceIs ==
  ASSUME StopTypes, NEW c \in Callers, JobFits(c), S!Place(c)
  PROVE  /\ job[c].at = "cancel" /\ job[c].seen = {} /\ position' = position /\ call' = call
         /\ had' = had
         /\ job'[c].at = "verify" /\ job'[c].seen = {}
         /\ job'[c].want = job[c].want /\ job'[c].tries = job[c].tries + 1
         /\ rest \subseteq rest'
         /\ \A leg \in S!Legs :
              /\ job[c].state[leg] # "pending" => job'[c].state[leg] = job[c].state[leg]
              /\ job'[c].state[leg] = "confirmed" => job[c].state[leg] = "confirmed"
         /\ \A t \in rest' \ rest :
              /\ t.leg \in S!Legs /\ job[c].state[t.leg] = "pending"
              /\ t.px = job[c].want[t.leg]
              /\ slips' = slips => job'[c].state[t.leg] = "awaiting"
              /\ \A u \in rest' \ rest : u.leg = t.leg => u = t
<1>1. PICK o \in S!Places(S!Pending(c)) :
           LET put == {S!New(leg, job[c].want[leg], S!SizeOf(c)) : leg \in o.put} IN
           /\ rest' = rest \cup put
           /\ \A leg \in o.put : S!New(leg, job[c].want[leg], S!SizeOf(c)).leg = leg
                           /\ S!New(leg, job[c].want[leg], S!SizeOf(c)).px = job[c].want[leg]
           /\ job' = [job EXCEPT ![c] = [job[c] EXCEPT !.at = "verify", !.tries = @ + 1,
                                                   !.state = S!Noted(job[c].state, o.said)]]
           /\ slips' = slips =>
                \A leg \in o.put : S!Noted(job[c].state, o.said)[leg] = "awaiting"
  BY PlaceDoes
<1> DEFINE state == S!Noted(job[c].state, o.said)
<1>2. job'[c] = [job[c] EXCEPT !.at = "verify", !.tries = @ + 1, !.state = state]
  BY <1>1 DEF StopTypes, Agents
<1>3. S!Pending(c) \subseteq S!Legs /\ \A leg \in S!Pending(c) : job[c].state[leg] = "pending"
  BY DEF S!Pending
<1>4. DOMAIN o.said \subseteq S!Pending(c) /\ o.put \subseteq S!Pending(c) BY <1>3, PlacesPut
<1>5. \A leg \in S!Legs :
        /\ job[c].state[leg] # "pending" => state[leg] = job[c].state[leg]
        /\ state[leg] = "confirmed" => job[c].state[leg] = "confirmed"
  BY <1>3, <1>4 DEF S!Noted
<1>6. /\ job[c].at = "cancel" /\ job[c].seen = {} /\ position' = position /\ call' = call
      /\ had' = had
  BY DEF S!Place
<1>7. slips' = slips => \A leg \in o.put : state[leg] = "awaiting" BY <1>1
<1> HIDE DEF state
<1>8. /\ job'[c].at = "verify" /\ job'[c].seen = {} /\ job'[c].state = state
      /\ job'[c].want = job[c].want /\ job'[c].tries = job[c].tries + 1
  BY <1>2, <1>6, FieldsAre DEF Jobs
<1>9. \A t \in rest' \ rest : \E leg \in o.put :
        t = S!New(leg, job[c].want[leg], S!SizeOf(c)) /\ t.leg = leg /\ t.px = job[c].want[leg]
  BY <1>1
<1>10. \A t \in rest' \ rest :
              /\ t.leg \in S!Legs /\ job[c].state[t.leg] = "pending"
              /\ t.px = job[c].want[t.leg]
              /\ slips' = slips => state[t.leg] = "awaiting"
              /\ \A u \in rest' \ rest : u.leg = t.leg => u = t
  BY <1>3, <1>4, <1>7, <1>9
<1> QED BY <1>1, <1>5, <1>6, <1>8, <1>10

LEMMA CheckIs ==
  ASSUME StopTypes, NEW c \in Callers, JobFits(c),
         S!PlaceRejected(c) \/ S!Verify(c) \/ S!VerifyUnknown(c)
  PROVE  /\ Working(c) /\ job[c].seen = {} /\ rest' = rest /\ slips' = slips
         /\ position' = position /\ call' = call /\ had' = had
         /\ job'[c].seen = {} /\ job'[c].want = job[c].want
         /\ \/ job[c].at = "cancel" /\ job'[c].at = "verify" /\ job'[c].tries = job[c].tries + 1
               /\ job'[c].state = job[c].state
            \/ job[c].at = "verify" /\ job'[c].at = "cancel" /\ job'[c].tries = job[c].tries
               /\ job'[c].state = job[c].state
            \/ job[c].at = "verify" /\ job'[c].at = "cancel" /\ job'[c].tries = job[c].tries
               /\ job'[c].state = S!Confirmed(c)
<1>1. /\ Working(c) /\ job[c].seen = {} /\ rest' = rest /\ slips' = slips
      /\ position' = position /\ call' = call /\ had' = had
  BY DEF S!PlaceRejected, S!Verify, S!VerifyUnknown, S!exchange, S!history, S!counts, JobFits,
         Working
<1>2. CASE S!PlaceRejected(c)
  <2>1. job'[c] = [job[c] EXCEPT !.at = "verify", !.tries = @ + 1] /\ job[c].at = "cancel"
    BY <1>2 DEF S!PlaceRejected, StopTypes, Agents
  <2> QED BY <1>1, <2>1, FieldsAre DEF Jobs
<1>3. CASE S!VerifyUnknown(c)
  <2>1. job'[c] = [job[c] EXCEPT !.at = "cancel"] /\ job[c].at = "verify"
    BY <1>3 DEF S!VerifyUnknown, StopTypes, Agents
  <2> QED BY <1>1, <2>1, FieldsAre DEF Jobs
<1>4. CASE S!Verify(c)
  <2> DEFINE state == S!Confirmed(c)
  <2>1. job'[c] = [job[c] EXCEPT !.at = "cancel", !.state = state] /\ job[c].at = "verify"
    BY <1>4 DEF S!Verify, StopTypes, Agents
  <2> HIDE DEF state
  <2>2. job'[c].at = "cancel" /\ job'[c].state = state /\ job'[c].tries = job[c].tries
        /\ job'[c].seen = job[c].seen /\ job'[c].want = job[c].want
    BY <2>1, FieldsAre DEF Jobs
  <2> QED BY <1>1, <2>1, <2>2 DEF state
<1> QED BY <1>2, <1>3, <1>4


-------------------------------------------------------------------------------
(* Verdicts are true.                                                      *)

LEMMA LandingNext ==
  ASSUME StopTypes, NEW c \in Callers, JobFits(c), Landing(c),
         \/ S!Begin(c) \/ S!GuardPass(c) \/ S!Close(c) \/ S!Modify(c) \/ S!Return(c)
         \/ S!PositionEnds
  PROVE  Landing(c)'
<1>0. position \in Nat BY DEF StopTypes
<1>1. CASE S!Begin(c) \/ S!GuardPass(c) \/ S!Close(c) \/ S!Return(c)
  BY <1>0, <1>1, OutsideIs DEF Landing, Working, S!Landed
<1>2. CASE S!Unavailable(c) \/ S!FindPosition(c) \/ S!Conclude(c)
  BY <1>2, QuietIs DEF Landing, Working
<1>3. CASE S!ListTriggers(c)
  BY <1>3, ListIs, StopNullAssumption DEF Landing, Working
<1>4. CASE S!Cancel(c) \/ S!CancelRefused(c) BY <1>4, CancelIs DEF Landing, Working
<1>5. CASE S!Place(c)
  <2>1. Working(c) BY <1>5, PlaceIs DEF Working
  <2>2. ASSUME position' > 0, NEW leg \in S!Legs, job'[c].state[leg] = "confirmed"
        PROVE  job'[c].seen = {} /\ S!Landed(leg, job[c].want[leg])'
    BY <1>5, <2>1, <2>2, PlaceIs DEF Landing, S!Landed
  <2>3. job'[c].want = job[c].want BY <1>5, PlaceIs
  <2> QED BY <2>2, <2>3 DEF Landing, S!Landed
<1>6. CASE S!PlaceRejected(c) \/ S!Verify(c) \/ S!VerifyUnknown(c)
  <2>1. /\ Working(c) /\ position' = position /\ rest' = rest /\ job'[c].seen = {}
        /\ job'[c].want = job[c].want
        /\ job'[c].state = job[c].state \/ job'[c].state = S!Confirmed(c)
    BY <1>6, CheckIs
  <2>2. ASSUME position' > 0, NEW leg \in S!Legs, job'[c].state[leg] = "confirmed"
        PROVE  S!Landed(leg, job[c].want[leg])
    <3>1. job[c].state[leg] = "confirmed" \/ S!Landed(leg, job[c].want[leg])
      BY <2>1, <2>2, ConfirmedIs
    <3> QED BY <2>1, <2>2, <3>1 DEF Landing
  <2> QED BY <2>1, <2>2 DEF Landing, S!Landed
<1>7. CASE S!PositionEnds BY <1>7 DEF S!PositionEnds, Landing
<1> QED BY <1>1, <1>2, <1>3, <1>4, <1>5, <1>6, <1>7 DEF S!Modify

\* Only the end of a job produces an answer that is not a refusal.
LEMMA OutsideAnswers ==
  ASSUME StopTypes, NEW c \in Callers, JobFits(c),
         S!Begin(c) \/ S!GuardPass(c) \/ S!Close(c) \/ S!Return(c)
  PROVE  ~S!Answer(c)'
<1>1. \A kind, want : S!Ask(c, kind, want) => call'[c].at = "wait"
  BY DEF S!Ask, StopTypes, Agents
<1>2. CASE S!Begin(c)
  <2>1. CASE S!PostFill(c) \/ S!Reanchor(c) \/ S!Adjust(c)
    <3>1. \E kind, want : S!Ask(c, kind, want) BY <2>1 DEF S!PostFill, S!Reanchor, S!Adjust
    <3> QED BY <1>1, <3>1 DEF S!Answer
  <2>2. CASE S!PartialClose(c) \/ S!PartialCloseBlind(c)
    <3>1. call'[c].at = "closing"
      BY <2>2 DEF S!PartialClose, S!PartialCloseBlind, StopTypes, Agents
    <3> QED BY <3>1 DEF S!Answer
  <2> QED BY <1>2, <2>1, <2>2 DEF S!Begin
<1>3. CASE S!GuardPass(c) BY <1>1, <1>3 DEF S!GuardPass, S!Answer
<1>4. call' = [call EXCEPT ![c] = S!NoCall] => ~S!Answer(c)'
  BY NoCallIs DEF StopTypes, Agents, S!Answer
<1>5. CASE S!Close(c) BY <1>1, <1>4, <1>5 DEF S!Close, S!CloseLands, S!CloseRefused, S!Answer
<1>6. CASE S!Expire(c)
  <2>1. job'[c].at # "none" BY <1>6 DEF S!Expire, JobFits
  <2> QED BY <2>1 DEF S!Answer
<1>7. CASE S!Hear(c) \/ S!NotPersisted(c) BY <1>4, <1>7 DEF S!Hear, S!NotPersisted
<1> QED BY <1>2, <1>3, <1>5, <1>6, <1>7 DEF S!Return

\* What a finished job tells a caller that still waits: a refusal, or its verdict.
LEMMA EndsWith ==
  ASSUME StopTypes, NEW c \in Callers, JobFits(c), S!Answer(c)',
         S!Unavailable(c) \/ S!FindPosition(c) \/ S!Conclude(c)
  PROVE  \/ call'[c].verdict.success = FALSE
            /\ \A leg \in S!Legs : call'[c].verdict.ok[leg] # TRUE
         \/ /\ call[c].at = "wait" /\ S!Conclude(c)
            /\ call'[c].want = call[c].want /\ call'[c].kind = call[c].kind
            /\ call'[c].verdict.success = (\A leg \in S!Legs : S!Ok(c)[leg] # FALSE)
            /\ call'[c].verdict.ok = S!Ok(c)
<1>1. \A leg \in S!Legs : S!Nothing[leg] # TRUE BY NothingIs, StopNullAssumption
<1>2. ASSUME NEW success, NEW ok, S!Answered(c, success, ok), call[c].at # "wait"
      PROVE  /\ call'[c].verdict.success = FALSE
             /\ \A leg \in S!Legs : call'[c].verdict.ok[leg] # TRUE
  <2>1. call'[c] = call[c] BY <1>2, JobFitsAnswered
  <2>2. call[c].at = "answered" BY <2>1 DEF S!Answer
  <2>3. job[c].at # "none"
    BY DEF S!Unavailable, S!FindPosition, S!Conclude
  <2> QED BY <2>1, <2>2, <2>3, RefusedIs DEF JobFits
<1>3. ASSUME NEW success, NEW ok, S!Answered(c, success, ok), call[c].at = "wait"
      PROVE  /\ call'[c].want = call[c].want /\ call'[c].kind = call[c].kind
             /\ call'[c].verdict.success = success /\ call'[c].verdict.ok = ok
  BY <1>3, JobFitsAnswered
<1>4. S!Answered(c, FALSE, S!Nothing) =>
        /\ call'[c].verdict.success = FALSE
        /\ \A leg \in S!Legs : call'[c].verdict.ok[leg] # TRUE
  <2> SUFFICES ASSUME S!Answered(c, FALSE, S!Nothing)
               PROVE  /\ call'[c].verdict.success = FALSE
                      /\ \A leg \in S!Legs : call'[c].verdict.ok[leg] # TRUE
    OBVIOUS
  <2>1. CASE call[c].at = "wait"
    <3>1. call'[c].verdict.success = FALSE /\ call'[c].verdict.ok = S!Nothing BY <1>3, <2>1
    <3> QED BY <1>1, <3>1
  <2>2. CASE call[c].at # "wait" BY <1>2, <2>2
  <2> QED BY <2>1, <2>2
<1>5. CASE S!Unavailable(c)
  <2>1. S!Answered(c, FALSE, S!Nothing) BY <1>5 DEF S!Unavailable
  <2> QED BY <1>4, <2>1
<1>6. CASE S!FindPosition(c)
  <2>1. CASE position = 0
    <3>1. S!Answered(c, FALSE, S!Nothing) BY <1>6, <2>1 DEF S!FindPosition
    <3> QED BY <1>4, <3>1
  <2>2. CASE position # 0
    <3>1. call' = call /\ job'[c].at = "list"
      BY <1>6, <2>2, FieldsAre DEF S!FindPosition, StopTypes, Agents, Jobs
    <3> QED BY <3>1 DEF S!Answer
  <2> QED BY <2>1, <2>2
<1>7. CASE S!Conclude(c)
  <2> DEFINE s == \A leg \in S!Legs : S!Ok(c)[leg] # FALSE
  <2>1. S!Answered(c, s, S!Ok(c)) BY <1>7 DEF S!Conclude
  <2> HIDE DEF s
  <2>2. CASE call[c].at = "wait"
    <3>1. /\ call'[c].want = call[c].want /\ call'[c].kind = call[c].kind
          /\ call'[c].verdict.success = s /\ call'[c].verdict.ok = S!Ok(c)
      BY <1>3, <2>1, <2>2
    <3> QED BY <1>7, <2>2, <3>1 DEF s
  <2>3. CASE call[c].at # "wait" BY <1>2, <2>1, <2>3
  <2> QED BY <2>2, <2>3
<1> QED BY <1>5, <1>6, <1>7

\* At its end a job that says a leg is confirmed has it resting.
LEMMA OkIs ==
  ASSUME StopTypes, NEW c \in Callers, JobFits(c), Landing(c), position > 0, Working(c),
         NEW leg \in S!Legs
  PROVE  /\ S!Ok(c)[leg] = TRUE => S!Landed(leg, job[c].want[leg]) /\ job[c].want[leg] # NULL
         /\ S!Ok(c)[leg] # TRUE /\ job[c].want[leg] # NULL => S!Ok(c)[leg] = FALSE
<1>1. S!Ok(c)[leg] = IF job[c].want[leg] = NULL THEN NULL ELSE job[c].state[leg] = "confirmed"
  BY DEF S!Ok
<1>2. NULL # TRUE BY StopNullAssumption
<1>3. CASE job[c].want[leg] = NULL BY <1>1, <1>2, <1>3
<1>4. CASE job[c].want[leg] # NULL
  <2>1. S!Ok(c)[leg] = (job[c].state[leg] = "confirmed") BY <1>1, <1>4
  <2>2. job[c].state[leg] = "confirmed" => S!Landed(leg, job[c].want[leg]) BY DEF Landing
  <2> QED BY <1>4, <2>1, <2>2
<1> QED BY <1>3, <1>4

LEMMA TruthNext ==
  ASSUME StopTypes, NEW c \in Callers, JobFits(c), Landing(c), Truth(c),
         \/ S!Begin(c) \/ S!GuardPass(c) \/ S!Close(c) \/ S!Modify(c) \/ S!Return(c)
         \/ S!PositionEnds
  PROVE  Truth(c)'
<1>1. CASE S!Begin(c) \/ S!GuardPass(c) \/ S!Close(c) \/ S!Return(c)
  BY <1>1, OutsideAnswers DEF Truth
<1>2. CASE S!Unavailable(c) \/ S!FindPosition(c) \/ S!Conclude(c)
  <2> SUFFICES ASSUME S!Answer(c)', position' > 0, NEW leg \in S!Legs
               PROVE  /\ call'[c].verdict.ok[leg] = TRUE =>
                           IF call'[c].want[leg] = NULL THEN \E t \in rest' : t.leg = leg
                           ELSE \E t \in rest' : t.leg = leg /\ t.px = call'[c].want[leg]
                      /\ call'[c].verdict.success /\ leg \in had'[c] =>
                           \E t \in rest' : t.leg = leg
    BY DEF Truth, S!Landed, S!At
  <2>1. CASE /\ call'[c].verdict.success = FALSE
             /\ \A l \in S!Legs : call'[c].verdict.ok[l] # TRUE
    BY <2>1
  <2>2. CASE /\ call[c].at = "wait" /\ S!Conclude(c) /\ call'[c].want = call[c].want
             /\ call'[c].verdict.success = (\A l \in S!Legs : S!Ok(c)[l] # FALSE)
             /\ call'[c].verdict.ok = S!Ok(c)
    <3>1. rest' = rest /\ position' = position /\ had' = had /\ Working(c)
      BY <2>2 DEF S!Conclude, S!exchange, S!history, Working
    <3>3. S!Ok(c)[leg] = TRUE => S!Landed(leg, job[c].want[leg]) /\ job[c].want[leg] # NULL
      BY <3>1, OkIs
    <3>4. call'[c].verdict.success /\ leg \in had[c] => S!Landed(leg, job[c].want[leg])
      <4> SUFFICES ASSUME call'[c].verdict.success, leg \in had[c]
                   PROVE  S!Landed(leg, job[c].want[leg])
        OBVIOUS
      <4>1. S!Ok(c)[leg] # FALSE BY <2>2
      <4>2. job[c].want[leg] # NULL BY <3>1 DEF JobFits
      <4> QED BY <3>1, <4>1, <4>2, OkIs
    <3>5. call[c].want[leg] # NULL => job[c].want[leg] = call[c].want[leg]
      BY <2>2 DEF JobFits
    <3> QED BY <2>2, <3>1, <3>3, <3>4, <3>5 DEF S!Landed
  <2> QED BY <1>2, <2>1, <2>2, EndsWith
<1>3. CASE S!ListTriggers(c) \/ S!Cancel(c) \/ S!CancelRefused(c) \/ S!Place(c)
           \/ S!PlaceRejected(c) \/ S!Verify(c) \/ S!VerifyUnknown(c)
  <2>1. job'[c].at # "none" BY <1>3, ListIs, CancelIs, PlaceIs, CheckIs
  <2> QED BY <2>1 DEF Truth, S!Answer
<1>4. CASE S!PositionEnds BY <1>4 DEF S!PositionEnds, Truth
<1> QED BY <1>1, <1>2, <1>3, <1>4 DEF S!Modify

-------------------------------------------------------------------------------
(* One trigger per leg.                                                    *)

LEMMA SingleNext ==
  ASSUME StopTypes, NEW c \in Callers, JobFits(c), Single(c),
         \/ S!Begin(c) \/ S!GuardPass(c) \/ S!Close(c) \/ S!Modify(c) \/ S!Return(c)
         \/ S!PositionEnds
  PROVE  Single(c)'
<1>0. slips \in Nat /\ job[c].tries \in Nat
  BY FieldsAre, LimitsAssumption, StopAccountsAssumption DEF StopTypes
<1>1. CASE S!Begin(c) \/ S!GuardPass(c) \/ S!Close(c) \/ S!Return(c)
  BY <1>1, OutsideIs DEF Single, Working
<1>2. CASE S!Unavailable(c) \/ S!FindPosition(c) \/ S!Conclude(c)
  BY <1>2, QuietIs DEF Single, Working
<1>3. CASE S!ListTriggers(c) BY <1>3, ListIs DEF Single, Working
<1>4. CASE S!Cancel(c) \/ S!CancelRefused(c)
  <2> SUFFICES ASSUME slips' = 0
               PROVE  /\ \A t, u \in rest' : t.leg = u.leg => t = u
                      /\ job'[c].tries = 0 => rest' \subseteq job'[c].seen
                      /\ job'[c].at = "cancel" /\ job'[c].tries = 0
    BY <1>4, CancelIs DEF Single, Working
  <2>1. PICK t \in job[c].seen : /\ job'[c].seen = job[c].seen \ {t}
                                 /\ rest' = rest \ {t} /\ slips' = slips
    BY <1>0, <1>4, CancelIs
  <2>2. /\ job[c].at = "cancel" /\ job[c].seen # {} /\ job'[c].at = "cancel"
        /\ job'[c].tries = job[c].tries
    BY <1>4, CancelIs
  <2>3. job[c].tries = 0 BY <1>0, <2>1, <2>2 DEF Single, Working
  <2> QED BY <2>1, <2>2, <2>3 DEF Single
<1>5. CASE S!Place(c)
  <2> SUFFICES ASSUME slips' = 0
               PROVE  /\ \A t, u \in rest' : t.leg = u.leg => t = u
                      /\ \A t \in rest' : t.px = job'[c].want[t.leg]
                                       /\ job'[c].state[t.leg] # "pending"
    BY <1>0, <1>5, PlaceIs DEF Single, Working
  <2>1. slips' = slips
    <3>1. (S!Fault /\ slips' = slips) \/ S!Slip \/ UNCHANGED <<faults, slips>>
      BY <1>5, PlaceDoes
    <3> QED BY <1>0, <3>1 DEF S!Slip
  <2>2. \A t \in rest : t.px = job[c].want[t.leg] /\ job[c].state[t.leg] # "pending"
    <3>1. CASE job[c].tries = 0 BY <1>5, <2>1, <3>1, PlaceIs DEF Single
    <3>2. CASE job[c].tries > 0 BY <1>5, <2>1, <3>2, PlaceIs DEF Single, Working
    <3> QED BY <1>0, <3>1, <3>2
  <2>3. \A t \in rest : t.leg \in S!Legs BY DEF StopTypes, Triggers
  <2>4. \A t, u \in rest : t.leg = u.leg => t = u BY <2>1 DEF Single
  <2>5. \A t \in rest' \ rest :
              /\ t.leg \in S!Legs /\ job[c].state[t.leg] = "pending"
              /\ t.px = job[c].want[t.leg] /\ job'[c].state[t.leg] = "awaiting"
              /\ \A u \in rest' \ rest : u.leg = t.leg => u = t
    BY <1>5, <2>1, PlaceIs
  <2>6. /\ job'[c].want = job[c].want
        /\ \A leg \in S!Legs :
             job[c].state[leg] # "pending" => job'[c].state[leg] = job[c].state[leg]
    BY <1>5, PlaceIs
  <2> QED BY <2>2, <2>3, <2>4, <2>5, <2>6
<1>6. CASE S!PlaceRejected(c) \/ S!Verify(c) \/ S!VerifyUnknown(c)
  <2> SUFFICES ASSUME slips' = 0 PROVE Single(c)' BY DEF Single
  <2>1. /\ Working(c) /\ job[c].seen = {} /\ rest' = rest /\ slips' = slips
        /\ job'[c].seen = {} /\ job'[c].want = job[c].want
    BY <1>6, CheckIs
  <2>2. /\ \A t \in rest : t.px = job[c].want[t.leg] /\ job[c].state[t.leg] # "pending"
        /\ job'[c].at = "cancel" => job[c].at = "verify" /\ job'[c].tries > 0
        /\ job'[c].at = "verify" => job'[c].tries > 0
    <3>1. CASE job[c].tries = 0 BY <1>6, <2>1, <3>1, CheckIs DEF Single, Working
    <3>2. CASE job[c].tries > 0 BY <1>0, <1>6, <2>1, <3>2, CheckIs DEF Single, Working
    <3> QED BY <1>0, <3>1, <3>2
  <2>3. \A t \in rest : job'[c].state[t.leg] # "pending"
    <3> SUFFICES ASSUME NEW t \in rest PROVE job'[c].state[t.leg] # "pending" OBVIOUS
    <3>1. t.leg \in S!Legs BY DEF StopTypes, Triggers
    <3>2. S!Landed(t.leg, job[c].want[t.leg]) BY <2>2 DEF S!Landed
    <3>3. S!Confirmed(c)[t.leg] # "pending" BY <2>2, <3>1, <3>2, ConfirmedIs
    <3> QED BY <1>6, <2>2, <3>3, CheckIs
  <2>4. job'[c].at \in {"cancel", "verify"} BY <1>6, CheckIs
  <2> QED BY <2>1, <2>2, <2>3, <2>4 DEF Single, Working
<1>7. CASE S!PositionEnds
  BY <1>7 DEF S!PositionEnds, S!agents, S!history, Single, Working
<1> QED BY <1>1, <1>2, <1>3, <1>4, <1>5, <1>6, <1>7 DEF S!Modify


-------------------------------------------------------------------------------
(* A missing stop is known.                                                *)

\* What has been flagged or told stays so.
LEMMA KnownStays ==
  ASSUME StopTypes, NEW c \in Callers, Known,
         \/ S!Begin(c) \/ S!GuardPass(c) \/ S!Close(c) \/ S!Modify(c) \/ S!Return(c)
         \/ S!PositionEnds
  PROVE  Known'
<1>0. opening \in Openings BY DEF StopTypes
<1>1. CASE S!PostFill(c)
  <2>1. PICK want \in S!Revalidated(S!Recorded) : opening' = S!Coalesce(want)
    BY <1>1 DEF S!PostFill
  <2>2. told' = told BY <1>1 DEF S!PostFill, S!history
  <2> QED BY <2>1, <2>2, RevalidatedIs, CoalesceIs DEF Known, S!Flagged
<1>2. CASE S!Reanchor(c) \/ S!Adjust(c) \/ S!PartialClose(c) \/ S!PartialCloseBlind(c)
           \/ S!GuardPass(c) \/ S!CloseRefused(c)
  BY <1>2 DEF S!Reanchor, S!Adjust, S!PartialClose, S!PartialCloseBlind, S!GuardPass,
              S!CloseRefused, S!history, Known, S!Flagged
<1>3. CASE S!CloseLands(c)
  <2>1. told' = told /\ (opening' = opening
          \/ opening' = [opening EXCEPT !.unconfirmed = @ \/ call[c].kind = "blind"])
    BY <1>3 DEF S!CloseLands, S!history
  <2> QED BY <1>0, <2>1 DEF Known, S!Flagged, Openings
<1>4. CASE S!Modify(c)
  <2>1. opening' = opening /\ told' = told
    BY <1>4 DEF S!Modify, S!Unavailable, S!FindPosition, S!ListTriggers, S!Cancel,
                S!CancelRefused, S!Place, S!PlaceRejected, S!Verify, S!VerifyUnknown,
                S!Conclude, S!history
  <2> QED BY <2>1 DEF Known, S!Flagged
<1>5. CASE S!Hear(c) BY <1>5, HearIs
<1>6. CASE S!Expire(c) \/ S!NotPersisted(c) \/ S!PositionEnds
  BY <1>6 DEF S!Expire, S!NotPersisted, S!PositionEnds, S!history, Known, S!Flagged
<1> QED BY <1>1, <1>2, <1>3, <1>4, <1>5, <1>6 DEF S!Begin, S!Close, S!Return

\* The stop is there as long as nobody works at it or is about to hear of it.
LEMMA StopIsThere ==
  ASSUME StopTypes, NEW c \in Callers, Watch(c), "sl" \in stopWorld.legs, ~Known,
         position > 0, call[c].at \in {"idle", "closing"} \/ (call[c].at = "wait" /\ ~Working(c))
  PROVE  S!At("sl") # {} /\ S!Level("sl") # NULL
<1>1. S!At("sl") # {} BY DEF Watch
<1> QED BY <1>1, LevelIs, LevelsAre

LEMMA WatchBegin ==
  ASSUME StopTypes, NEW c \in Callers, Watch(c), "sl" \in stopWorld.legs, ~Known,
         S!Begin(c) \/ S!GuardPass(c)
  PROVE  Watch(c)'
<1>0. /\ rest' = rest /\ position' = position /\ call[c].at = "idle" /\ job[c].at = "none"
  <2>1. CASE S!PostFill(c) \/ S!Reanchor(c) \/ S!Adjust(c)
    BY <2>1 DEF S!PostFill, S!Reanchor, S!Adjust, S!exchange, S!Free
  <2>2. CASE S!PartialClose(c) \/ S!PartialCloseBlind(c)
    BY <2>2 DEF S!PartialClose, S!PartialCloseBlind, S!exchange, S!Free
  <2>3. CASE S!GuardPass(c) BY <2>3 DEF S!GuardPass, S!exchange, S!Free
  <2> QED BY <2>1, <2>2, <2>3 DEF S!Begin
<1>1. position > 0 => S!At("sl") # {} /\ S!Level("sl") # NULL BY <1>0, StopIsThere
<1>2. position' > 0 => S!At("sl")' # {} BY <1>0, <1>1 DEF S!At
<1>3. ASSUME NEW kind, NEW want \in Wants, S!Ask(c, kind, want),
             kind \in {"postfill", "resize", "blind"} => want["sl"] # NULL
      PROVE  Watch(c)'
  <2>1. /\ call'[c].at = "wait" /\ call'[c].kind = kind /\ call'[c].want = want
        /\ job'[c].at = "start"
    BY <1>3, JobFitsAsked
  <2> QED BY <1>2, <1>3, <2>1 DEF Watch, Working
<1>4. CASE S!PostFill(c)
  <2>1. PICK want \in S!Revalidated(S!Recorded) : S!Ask(c, "postfill", want)
    BY <1>4 DEF S!PostFill
  <2> QED BY <1>3, <2>1, RevalidatedIs
<1>5. CASE S!Reanchor(c)
  <2>1. PICK want \in S!Revalidated(S!Recorded) : S!Ask(c, "reanchor", want)
    BY <1>5 DEF S!Reanchor
  <2> QED BY <1>3, <2>1, RevalidatedIs
<1>6. CASE S!Adjust(c)
  <2>1. PICK tp \in S!Maybe(IF "tp" \in stopWorld.legs THEN S!Levels.tp ELSE {}),
             sl \in S!Maybe(S!Levels.sl) : S!Ask(c, "adjust", [tp |-> tp, sl |-> sl])
    BY <1>6 DEF S!Adjust
  <2>2. [tp |-> tp, sl |-> sl] \in Wants BY LevelsAre DEF S!Maybe, Wants
  <2> QED BY <1>3, <2>1, <2>2
<1>7. ASSUME NEW kind, NEW want, want["sl"] # NULL, job' = job,
             call' = [call EXCEPT ![c] = [at |-> "closing", kind |-> kind, verdict |-> NULL,
                                          want |-> want]]
      PROVE  Watch(c)'
  <2>1. call'[c].at = "closing" /\ call'[c].want = want BY <1>7 DEF StopTypes, Agents
  <2> QED BY <1>2, <1>7, <2>1 DEF Watch
<1>8. CASE S!PartialClose(c)
  <2>1. S!Level("sl") # NULL BY <1>1, <1>8 DEF S!PartialClose, StopTypes
  <2>2. [leg \in S!Legs |-> S!Level(leg)]["sl"] # NULL BY <2>1, LevelsAre
  <2> QED BY <1>7, <1>8, <2>2 DEF S!PartialClose
<1>9. CASE S!PartialCloseBlind(c)
  <2>1. S!Recorded["sl"] # NULL
    BY LevelsAre, StopNullAssumption DEF S!Recorded, StopTypes, Openings
  <2> QED BY <1>7, <1>9, <2>1 DEF S!PartialCloseBlind
<1>10. CASE S!GuardPass(c)
  <2>1. [tp |-> S!Level("tp"), sl |-> S!Safe] \in Wants BY LevelIs, LevelsAre DEF Wants, S!Safe
  <2> QED BY <1>3, <1>10, <2>1 DEF S!GuardPass
<1> QED BY <1>4, <1>5, <1>6, <1>8, <1>9, <1>10 DEF S!Begin

LEMMA WatchClose ==
  ASSUME StopTypes, NEW c \in Callers, JobFits(c), Watch(c), "sl" \in stopWorld.legs, ~Known,
         S!Close(c)
  PROVE  Watch(c)'
<1>1. call[c].at = "closing" /\ job[c].at = "none"
  BY DEF S!Close, S!CloseLands, S!CloseRefused, JobFits
<1>2. call[c].want["sl"] # NULL BY <1>1 DEF Watch, StopTypes, Agents, Shaped
<1>3. rest' = rest /\ position' \in 0..position BY OutsideIs
<1>4. position' > 0 => S!At("sl")' # {}
  <2>1. position' > 0 => position > 0 BY <1>3 DEF StopTypes
  <2> QED BY <1>1, <1>3, <2>1, StopIsThere DEF S!At
<1>5. CASE S!CloseLands(c)
  <2>1. call[c].want # S!Nothing BY <1>2, LevelsAre DEF S!Nothing
  <2>2. S!Ask(c, "resize", call[c].want) BY <1>5, <2>1 DEF S!CloseLands
  <2>3. /\ call'[c].at = "wait" /\ call'[c].want = call[c].want /\ job'[c].at = "start"
    BY <2>2, JobFitsAsked, FieldsAre
  <2> QED BY <1>2, <1>4, <2>3 DEF Watch, Working
<1>6. CASE S!CloseRefused(c)
  <2>1. call'[c].at = "idle" /\ job'[c].at = "none"
    BY <1>1, <1>6, NoCallIs DEF S!CloseRefused, StopTypes, Agents
  <2> QED BY <1>4, <2>1 DEF Watch
<1> QED BY <1>5, <1>6 DEF S!Close

\* Whoever is refused says so, or leaves a flag.
LEMMA RefusalTells ==
  ASSUME NEW c \in Callers, call'[c].kind \in Heard,
         call'[c].kind \in {"postfill", "resize"} => call'[c].want["sl"] # NULL,
         call'[c].verdict.success = FALSE, call'[c].verdict.ok["sl"] # TRUE
  PROVE  WillTell(c)'
BY DEF WillTell, S!StopUnsure, Heard

\* A job that goes on leaves the watch as it is, whatever it does to the triggers.
LEMMA WatchGoesOn ==
  ASSUME StopTypes, NEW c \in Callers, JobFits(c), Watch(c), "sl" \in stopWorld.legs, ~Known,
         call' = call, job[c].at # "none", job'[c].at # "none",
         \/ rest' = rest /\ position' = position /\ ~Working(c) /\ ~Working(c)'
         \/ Working(c)' /\ (position' > 0 /\ call[c].at = "wait" => "sl" \in had'[c])
  PROVE  Watch(c)'
<1>1. call[c].at \in {"wait", "answered"}
  BY FieldsAre DEF Watch, JobFits, Calls
<1>2. call[c].at = "answered" => WillTell(c) BY DEF Watch
<1>3. call[c].at = "answered" => WillTell(c)' BY <1>2 DEF WillTell, S!StopUnsure
<1> QED BY <1>1, <1>3 DEF Watch, S!At

LEMMA WatchEnds ==
  ASSUME StopTypes, NEW c \in Callers, JobFits(c), Landing(c), Watch(c),
         "sl" \in stopWorld.legs, ~Known, S!Answer(c)' \/ call'[c].at # "answered",
         S!Unavailable(c) \/ S!FindPosition(c) \/ S!Conclude(c), job'[c].at = "none"
  PROVE  Watch(c)'
<1>1. job[c].at # "none" BY DEF S!Unavailable, S!FindPosition, S!Conclude
<1>2. call[c].at \in {"wait", "answered"}
  BY <1>1, FieldsAre DEF Watch, JobFits, Calls
<1>3. rest' = rest /\ position' = position BY QuietIs
<1>4. /\ call'[c].at = "answered" /\ call'[c].kind = call[c].kind
      /\ call'[c].want = call[c].want
  <2>1. \E success, ok : S!Answered(c, success, ok)
    BY ZenonT(60), FieldsAre DEF S!Unavailable, S!FindPosition, S!Conclude, StopTypes, Agents, Jobs
  <2> QED BY <1>2, <2>1, JobFitsAnswered
<1>5. /\ call[c].kind \in Heard
      /\ call[c].kind \in {"postfill", "resize"} => call[c].want["sl"] # NULL
  BY <1>2 DEF Watch, StopTypes, Agents, Shaped
<1>6. CASE /\ call'[c].verdict.success = FALSE
           /\ \A leg \in S!Legs : call'[c].verdict.ok[leg] # TRUE
  <2>1. WillTell(c)' BY <1>4, <1>5, <1>6, LevelsAre, RefusalTells
  <2> QED BY <1>4, <1>5, <2>1 DEF Watch, Heard
<1>7. CASE /\ call[c].at = "wait" /\ S!Conclude(c)
           /\ call'[c].verdict.success = (\A leg \in S!Legs : S!Ok(c)[leg] # FALSE)
           /\ call'[c].verdict.ok = S!Ok(c)
  <2>1. Working(c) BY <1>7 DEF S!Conclude, Working
  <2>2. ASSUME position > 0, S!At("sl") = {} PROVE WillTell(c)'
    <3>1. "sl" \in S!Legs BY LevelsAre
    <3>2. job[c].want["sl"] # NULL BY <1>7, <2>1, <2>2, <3>1 DEF Watch, JobFits
    <3>3. S!Ok(c)["sl"] # TRUE BY <2>1, <2>2, <3>1, OkIs DEF S!Landed, S!At
    <3>4. S!Ok(c)["sl"] = FALSE BY <2>1, <2>2, <3>1, <3>2, <3>3, OkIs
    <3>5. call'[c].verdict.success = FALSE BY <1>7, <3>1, <3>4
    <3>6. call'[c].verdict.ok["sl"] # TRUE BY <1>7, <3>3
    <3> QED BY <1>4, <1>5, <3>5, <3>6, RefusalTells
  <2> QED BY <1>3, <1>4, <1>5, <2>2 DEF Watch, S!At, Heard
<1> QED BY <1>4, <1>6, <1>7, EndsWith

LEMMA WatchModify ==
  ASSUME StopTypes, NEW c \in Callers, JobFits(c), Landing(c), Watch(c),
         "sl" \in stopWorld.legs, ~Known, S!Modify(c)
  PROVE  Watch(c)'
<1>1. CASE S!Unavailable(c) \/ S!FindPosition(c) \/ S!Conclude(c)
  <2>1. CASE job'[c].at = "none" BY <1>1, <2>1, WatchEnds DEF S!Answer
  <2>2. CASE job'[c].at # "none"
    BY <1>1, <2>2, QuietIs, WatchGoesOn DEF Working
  <2> QED BY <2>1, <2>2
<1>2. CASE S!ListTriggers(c)
  <2>1. /\ call' = call /\ job[c].at = "list" /\ job'[c].at = "cancel" /\ position' = position
        /\ had'[c] = {t.leg : t \in rest}
    BY <1>2, ListIs
  <2>2. position' > 0 /\ call[c].at = "wait" => "sl" \in had'[c]
    <3>1. position > 0 /\ call[c].at = "wait" => S!At("sl") # {}
      BY <2>1, StopIsThere DEF Working
    <3> QED BY <2>1, <3>1 DEF S!At
  <2> QED BY <2>1, <2>2, WatchGoesOn DEF Working
<1>3. CASE S!Cancel(c) \/ S!CancelRefused(c) \/ S!Place(c) \/ S!PlaceRejected(c)
           \/ S!Verify(c) \/ S!VerifyUnknown(c)
  <2>1. /\ call' = call /\ position' = position /\ had' = had
        /\ Working(c) /\ job'[c].at \in {"cancel", "verify"}
    BY <1>3, CancelIs, PlaceIs, CheckIs DEF Working
  <2>2. position' > 0 /\ call[c].at = "wait" => "sl" \in had'[c] BY <2>1 DEF Watch
  <2> QED BY <2>1, <2>2, WatchGoesOn DEF Working
<1> QED BY <1>1, <1>2, <1>3 DEF S!Modify

LEMMA WatchReturn ==
  ASSUME StopTypes, NEW c \in Callers, JobFits(c), Watch(c),
         "sl" \in stopWorld.legs, ~Known, ~Known', S!Return(c)
  PROVE  Watch(c)'
<1>1. rest' = rest /\ position' \in 0..position /\ job' = job
  BY OutsideIs DEF S!Return, S!Expire, S!Hear, S!NotPersisted
<1>2. CASE S!Expire(c)
  <2>1. call'[c] = [call[c] EXCEPT !.at = "answered", !.verdict = S!Refused]
    BY <1>2 DEF S!Expire, StopTypes, Agents
  <2>2. /\ call'[c].at = "answered" /\ call'[c].verdict = S!Refused
        /\ call'[c].kind = call[c].kind /\ call'[c].want = call[c].want
    BY <2>1, FieldsAre DEF Calls
  <2>3. /\ call[c].kind \in Heard
        /\ call[c].kind \in {"postfill", "resize"} => call[c].want["sl"] # NULL
    BY <1>2 DEF S!Expire, Watch, StopTypes, Agents, Shaped
  <2>4. WillTell(c)'
    BY <2>2, <2>3, RefusedIs, LevelsAre, RefusalTells
  <2> QED BY <2>2, <2>3, <2>4 DEF Watch, Heard
<1>3. CASE S!Hear(c) \/ S!NotPersisted(c)
  <2>1. call'[c].at = "idle" /\ call[c].at = "answered"
    BY <1>3, NoCallIs DEF S!Hear, S!NotPersisted, StopTypes, Agents
  <2>2. ~WillTell(c)
    <3>1. CASE S!Hear(c) BY <3>1, HearIs
    <3>2. CASE S!NotPersisted(c) BY <3>2 DEF S!NotPersisted, WillTell
    <3> QED BY <1>3, <3>1, <3>2
  <2>3. job[c].at = "none" BY <2>1, <2>2 DEF Watch
  <2>4. position' > 0 => S!At("sl") # {}
    <3>1. position' > 0 => position > 0 BY <1>1 DEF StopTypes
    <3> QED BY <2>1, <2>2, <3>1 DEF Watch
  <2> QED BY <1>1, <2>1, <2>3, <2>4 DEF Watch, S!At
<1> QED BY <1>2, <1>3 DEF S!Return

LEMMA WatchNext ==
  ASSUME StopTypes, NEW c \in Callers, JobFits(c), Landing(c), Watch(c), stopWorld' = stopWorld,
         \/ S!Begin(c) \/ S!GuardPass(c) \/ S!Close(c) \/ S!Modify(c) \/ S!Return(c)
         \/ S!PositionEnds
  PROVE  Watch(c)'
<1> SUFFICES ASSUME "sl" \in stopWorld.legs, ~Known' PROVE Watch(c)' BY DEF Watch
<1>1. ~Known BY KnownStays
<1>2. CASE S!PositionEnds
  <2>1. call' = call /\ job' = job /\ position' = 0 BY <1>2 DEF S!PositionEnds, S!agents
  <2>2. WillTell(c) => WillTell(c)' BY <2>1 DEF WillTell, S!StopUnsure
  <2> QED BY <1>1, <2>1, <2>2 DEF Watch
<1> QED BY <1>1, <1>2, WatchBegin, WatchClose, WatchModify, WatchReturn


-------------------------------------------------------------------------------
(* The invariant of both halves, and what it says.                         *)

LEMMA StopsInvInit == InitBoth => StopsInv
<1> SUFFICES ASSUME InitBoth PROVE StopsInv OBVIOUS
<1>1. S!Init BY DEF InitBoth
<1>2. StopTypes BY <1>1, StopTypesInit
<1>3. \A c \in Callers : call[c] = S!NoCall /\ job[c] = S!NoJob /\ had[c] = {}
  BY <1>1 DEF S!Init
<1>4. \A c \in Callers : call[c].at = "idle" /\ job[c].at = "none" BY <1>3, NoCallIs, NoJobIs
<1>5. Only /\ \A c \in Callers : JobFits(c) BY <1>4 DEF Only, JobFits, Working
<1>6. \A t, u \in rest : t.leg = u.leg => t = u BY <1>1 DEF S!Init
<1>7. "sl" \in stopWorld.legs => S!At("sl") # {}
  <2> SUFFICES ASSUME "sl" \in stopWorld.legs PROVE S!At("sl") # {} OBVIOUS
  <2>1. [leg |-> "sl", px |-> opening["sl"], size |-> Lots, n |-> 1] \in rest BY <1>1 DEF S!Init
  <2> QED BY <2>1 DEF S!At
<1>8. \A c \in Callers : Landing(c) /\ Truth(c) /\ Single(c) /\ Watch(c)
  BY <1>4, <1>6, <1>7 DEF Landing, Truth, Single, Watch, Working, S!Answer
<1> QED BY <1>2, <1>5, <1>8 DEF StopsInv

LEMMA StopsInvNext == StopsInv /\ [NextBoth]_bothVars => StopsInv'
<1> SUFFICES ASSUME StopsInv, [NextBoth]_bothVars PROVE StopsInv' OBVIOUS
<1>1. CASE S!Next
  <2>1. StopTypes /\ Only /\ \A c \in Callers : JobFits(c) BY DEF StopsInv
  <2>2. StopTypes' /\ Only' BY <1>1, <2>1, StopTypesNext, OnlyNext
  <2>3. \A c \in Callers : JobFits(c)' BY <1>1, <2>1, JobFitsNext
  <2>4. stopWorld' = stopWorld BY <1>1, <2>1, WorldIsFixed
  <2>5. ASSUME NEW c \in Callers, Solo(c)'
        PROVE  Landing(c)' /\ Truth(c)' /\ Single(c)' /\ Watch(c)'
    <3>1. Solo(c) BY <2>4, <2>5 DEF Solo
    <3>2. JobFits(c) /\ Landing(c) /\ Truth(c) /\ Single(c) /\ Watch(c)
      BY <3>1 DEF StopsInv
    <3>3. \/ S!Begin(c) \/ S!GuardPass(c) \/ S!Close(c) \/ S!Modify(c) \/ S!Return(c)
          \/ S!PositionEnds
      BY <1>1, <2>1, <3>1, SoloSteps
    <3> QED BY <2>1, <2>4, <3>2, <3>3, LandingNext, TruthNext, SingleNext, WatchNext
  <2> QED BY <2>2, <2>3, <2>5 DEF StopsInv
<1>2. CASE UNCHANGED stopVars
  <2>1. StopTypes' BY <1>2 DEF StopsInv, stopVars, StopTypes, Agents, Shaped
  <2>2. Only' BY <1>2 DEF StopsInv, stopVars, Only
  <2>3. \A c \in Callers : JobFits(c)' BY <1>2 DEF StopsInv, stopVars, JobFits, Working
  <2>4. ASSUME NEW c \in Callers, Solo(c)'
        PROVE  Landing(c)' /\ Truth(c)' /\ Single(c)' /\ Watch(c)'
    <3>1. Landing(c) /\ Truth(c) /\ Single(c) /\ Watch(c)
      BY <1>2, <2>4 DEF StopsInv, stopVars, Solo
    <3>2. Landing(c)' BY <1>2, <3>1 DEF stopVars, Landing, Working, S!Landed
    <3>3. Truth(c)' BY <1>2, <3>1 DEF stopVars, Truth, S!Answer, S!Landed, S!At
    <3>4. Single(c)' BY <1>2, <3>1 DEF stopVars, Single, Working
    <3>5. Watch(c)'
      BY <1>2, <3>1 DEF stopVars, Watch, Working, Known, S!Flagged, WillTell, S!StopUnsure, S!At
    <3> QED BY <3>2, <3>3, <3>4, <3>5
  <2> QED BY <2>1, <2>2, <2>3, <2>4 DEF StopsInv
<1> QED BY <1>1, <1>2 DEF NextBoth, bothVars

LEMMA StopsInvariant == SpecBoth => []StopsInv
BY StopsInvInit, StopsInvNext, PTL DEF SpecBoth

\* The account of a caller that is alone is that caller's.
LEMMA AloneIs ==
  ASSUME StopTypes, S!Alone
  PROVE  \E c \in Callers : Solo(c)
<1>1. stopWorld.callers \subseteq Callers BY StopAccountsAssumption DEF StopTypes
<1>2. IsFiniteSet(stopWorld.callers) BY <1>1, CallersAssumption, FS_Subset
<1>3. Cardinality(stopWorld.callers) = 1 BY CardinalityIs DEF S!Alone
<1>4. \E c : stopWorld.callers = {c} BY <1>2, <1>3, FS_Singleton
<1> QED BY <1>1, <1>4 DEF Solo

\* Both modules' variables keep their types, whichever half moves.
THEOREM TypedHolds == SpecBoth => []Typed
<1>1. InitBoth => Types BY TypesInit DEF InitBoth
<1>2. Types /\ [NextBoth]_bothVars => Types'
  <2>1. [NextBoth]_bothVars => [Next]_vars BY DEF NextBoth, bothVars
  <2> QED BY <2>1, TypesNext
<1>3. StopTypes => S!TypeOK
  <2> SUFFICES ASSUME StopTypes PROVE S!TypeOK OBVIOUS
  <2>1. \A t \in rest : t.leg \in S!Legs /\ t.px \in S!Levels[t.leg] /\ t.size \in 0..Lots
    BY DEF StopTypes, Triggers
  <2>2. opening \in Openings BY DEF StopTypes
  <2> QED BY <2>1, <2>2, FieldsAre DEF StopTypes, Openings, S!TypeOK
<1>4. StopsInv => S!TypeOK BY <1>3 DEF StopsInv
<1>5. Types => TypeOK
  BY RestingNullAssumption DEF Types, TypeOK, PassSet, ReqSet, RowSet, VenueSet, Loaded
<1> QED BY <1>1, <1>2, <1>4, <1>5, StopsInvariant, PTL DEF SpecBoth, Typed

\* When calls do not overlap, a leg that modify-stops calls ok rests at the level it was to
\* have, and after a success no leg that rested before is gone.
THEOREM VerdictIsTrueHolds == SpecBoth => []VerdictIsTrue
<1>1. StopsInv => VerdictIsTrue
  <2> SUFFICES ASSUME StopsInv, NEW c \in Callers, S!Alone, S!Answer(c), position > 0,
                      NEW leg \in S!Legs
               PROVE  /\ call[c].verdict.ok[leg] = TRUE =>
                           IF call[c].want[leg] = NULL THEN S!At(leg) # {}
                           ELSE S!Landed(leg, call[c].want[leg])
                      /\ call[c].verdict.success /\ leg \in had[c] => S!At(leg) # {}
    BY DEF VerdictIsTrue, S!VerdictIsTrue
  <2>1. PICK d \in Callers : Solo(d) BY AloneIs DEF StopsInv
  <2>2. c = d BY <2>1 DEF StopsInv, Only, Solo, S!Answer
  <2>3. Truth(c) BY <2>1, <2>2 DEF StopsInv
  <2> QED BY <2>3 DEF Truth
<1> QED BY <1>1, StopsInvariant, PTL

\* When calls do not overlap and no cancel or answer is lost, a leg has one trigger.
THEOREM OneOfEachHolds == SpecBoth => []OneOfEach
<1>1. StopsInv => OneOfEach
  <2> SUFFICES ASSUME StopsInv, S!Alone, slips = 0, NEW leg \in S!Legs
               PROVE  S!Cardinality(S!At(leg)) <= 1
    BY DEF OneOfEach, S!OneOfEach
  <2>1. PICK c \in Callers : Solo(c) BY AloneIs DEF StopsInv
  <2>2. \A t, u \in S!At(leg) : t = u BY <2>1 DEF StopsInv, Single, S!At
  <2>3. S!At(leg) = {} \/ \E t : S!At(leg) = {t} BY <2>2
  <2>4. S!Cardinality(S!At(leg)) = Cardinality(S!At(leg)) BY CardinalityIs
  <2>5. Cardinality(S!At(leg)) \in {0, 1} BY <2>3, FS_EmptySet, FS_Singleton
  <2> QED BY <2>4, <2>5
<1> QED BY <1>1, StopsInvariant, PTL

\* When calls do not overlap, a position that has lost its stop is flagged for the guard,
\* or its loss was answered or logged.
THEOREM ProtectedOrToldHolds == SpecBoth => [](S!Alone => ProtectedOrTold)
<1>1. StopsInv => (S!Alone => ProtectedOrTold)
  <2> SUFFICES ASSUME StopsInv, S!Alone, S!Quiet, position > 0, S!At("sl") = {},
                      "sl" \in stopWorld.legs
               PROVE  S!Flagged \/ told # "none"
    BY DEF ProtectedOrTold, S!ProtectedOrTold
  <2>1. PICK c \in Callers : Solo(c) BY AloneIs DEF StopsInv
  <2> QED BY <2>1 DEF StopsInv, Watch, Known, S!Quiet
<1> QED BY <1>1, StopsInvariant, PTL

================================================================================
