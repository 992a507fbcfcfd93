---------------------------- MODULE MCRestingStops -----------------------------
(***************************************************************************)
(* What rests on an exchange: entries (RestingOrders) and the triggers of  *)
(* open positions (Stops), on small instances.  The two share no state, so *)
(* Init picks which of them moves and the other one stays at its start.    *)
(***************************************************************************)
EXTENDS RestingOrders, FiniteSets

CONSTANTS
  c1, c2,
  \* Stops' constants; StopAccounts are its Worlds.
  Callers, StopAccounts, Lots, Attempts

ASSUME CallersAssumption == IsFiniteSet(Callers)
ASSUME StopAccountsAssumption ==
  \A a \in StopAccounts :
    /\ a.venue \in {"blofin", "hyperliquid", "binance"}
    /\ a.entry \in {"none", "limit", "market"} /\ a.legs \subseteq {"tp", "sl"}
    /\ a.callers \subseteq Callers /\ a.asks \in Nat /\ a.faults \in Nat
ASSUME LimitsAssumption == Lots \in Nat \ {0} /\ Attempts \in Nat
\* NULL is no level, no verdict and no state.
ASSUME StopNullAssumption ==
  NULL \notin Nat /\ NULL \notin BOOLEAN /\ NULL \notin {"pending", "awaiting", "confirmed"}

VARIABLES turn, stopWorld, position, rest, opening, fresh, call, job, asks, faults, told,
          slips, had

\* Two orders of different sizes, so that a part of one can be taken for the other.
OrderSize == <<2, 1>>

\* Careful callers on every venue, and hasty ones where a failed read looks empty.
AllWorlds ==
  [style : {"replace", "modify", "native"}, blind : {FALSE}, careful : {TRUE}]
    \cup {[style |-> "modify", blind |-> TRUE, careful |-> FALSE]}

\* One call at a time with two faults, a position without stops, two calls at once without
\* a fault, and one on the venue whose triggers follow the position.
Account(venue_, entry, legs, callers, limit) ==
  [venue |-> venue_, entry |-> entry, legs |-> legs, callers |-> callers, asks |-> 1,
   faults |-> limit]

StopWorlds ==
  {Account("blofin", "market", {"tp", "sl"}, {c1}, 2),
   Account("hyperliquid", "limit", {"tp", "sl"}, {c1}, 2),
   Account("blofin", "none", {}, {c1}, 1),
   Account("binance", "none", {"sl"}, {c1}, 1),
   Account("binance", "none", {"sl"}, {c1, c2}, 0)}

S == INSTANCE Stops WITH Worlds <- StopAccounts, world <- stopWorld, held <- position

stopVars == <<stopWorld, position, rest, opening, fresh, call, job, asks, faults, told,
              slips, had>>
bothVars == <<turn, vars, stopVars>>

InitBoth ==
  \/ /\ turn = "entries" /\ Init
     /\ S!Init /\ stopWorld = Account("blofin", "none", {}, {c1}, 1) /\ opening.sl = 0
  \/ /\ turn = "stops" /\ S!Init
     /\ Init /\ world = [style |-> "replace", blind |-> FALSE, careful |-> TRUE]

NextBoth ==
  \/ turn = "entries" /\ Next /\ UNCHANGED <<turn, stopVars>>
  \/ turn = "stops" /\ S!Next /\ UNCHANGED <<turn, vars>>

Restarts    == turn = "entries" /\ LoadPending /\ UNCHANGED <<turn, stopVars>>
PassGoesOn  == turn = "entries" /\ PassStep /\ UNCHANGED <<turn, stopVars>>
Answers     == turn = "entries" /\ RequestStep /\ UNCHANGED <<turn, stopVars>>
CallRuns(c) == turn = "stops" /\ S!Runs(c) /\ UNCHANGED <<turn, vars>>
Guards(c)   == turn = "stops" /\ S!GuardPass(c) /\ UNCHANGED <<turn, vars>>

\* The fairness of the two modules' FairSpecs, each for the half that moves.
SpecBoth ==
  /\ InitBoth /\ [][NextBoth]_bothVars
  /\ WF_bothVars(Restarts) /\ WF_bothVars(PassGoesOn) /\ WF_bothVars(Answers)
  /\ \A c \in Callers : WF_bothVars(CallRuns(c)) /\ SF_bothVars(Guards(c))

\* The types of both modules.
Typed == TypeOK /\ S!TypeOK

\* Stops' properties, under their own names: modify-stops' verdicts can be relied on, a
\* lost stop is known to somebody, one trigger per leg, and flagged positions heal.
VerdictIsTrue   == S!VerdictIsTrue
ProtectedOrTold == S!ProtectedOrTold
OneOfEach       == S!OneOfEach
Heals           == S!Heals
===============================================================================
