------------------------------ MODULE TwoLegTrade ------------------------------
(***************************************************************************)
(* What a spread trade promises: two legs on two venues that change        *)
(* together in one step, or an alarm for the step that left them apart.    *)
(***************************************************************************)
EXTENDS Integers

CONSTANT Size   \* lots of one leg

VARIABLES
  legs,     \* lots on the exchanges, per leg
  open,     \* a position is recorded as open
  alarms    \* calls for the operator so far

vars == <<legs, open, alarms>>

Legs == {"short", "long"}

Init == legs = [l \in Legs |-> 0] /\ open = FALSE /\ alarms = 0

\* Both legs are filled and recorded.
Enter ==
  /\ ~open /\ open' = TRUE
  /\ legs' = [l \in Legs |-> legs[l] + Size]
  /\ UNCHANGED alarms

\* The long leg was refused: the short leg is flattened, or stands, and an alarm says so.
EnterFails ==
  /\ ~open /\ UNCHANGED open
  /\ \E n \in {0, legs["short"] + Size} : legs' = [legs EXCEPT !["short"] = n]
  /\ alarms' = alarms + 1

\* Both legs are flattened and recorded.
Leave ==
  /\ open /\ open' = FALSE
  /\ legs' = [l \in Legs |-> 0]
  /\ UNCHANGED alarms

\* Some leg may stand: the position is off the books, and an alarm says so.
LeaveFails ==
  /\ open /\ open' = FALSE
  /\ legs' \in [Legs -> {0, legs["short"], legs["long"]}]
  /\ \A l \in Legs : legs'[l] \in {0, legs[l]}
  /\ alarms' = alarms + 1

Next == Enter \/ EnterFails \/ Leave \/ LeaveFails

Spec == Init /\ [][Next]_vars

================================================================================
