---------------------------- MODULE ServicesProofs -----------------------------
(***************************************************************************)
(* The services of MCServices, for any bounds: the executor's cached       *)
(* adapter is as new as its account's row, the candle stream has no hole   *)
(* that nobody knows of, a good LLM key serves the call that began with    *)
(* it, a monitor remembers what it told, an event is noticed once, and the *)
(* AI cycles keep to their cooldown.  Each rests on an inductive invariant *)
(* that its module states under `Why it holds'.  All six keep their types. *)
(***************************************************************************)
EXTENDS MCServices, DataLemmas

-------------------------------------------------------------------------------
(* The adapter cache: v1 row, v2 exchange, v3 adapters, v4 cached, v5      *)
(* call, v6 rotation, v7 switch, v12 behind.                               *)

LEMMA CacheInit == R!Init => R!CacheInv
BY DEF R!Init, R!CacheInv, R!CacheTypes, R!CredsAreCurrent, R!ModeIsCurrent, R!SwitchFits, R!Rows,
       R!Modes, R!NoCall, R!Loading

LEMMA OtherMode == ASSUME NEW m \in R!Modes PROVE R!Other(m) \in R!Modes
BY DEF R!Other, R!Modes

Requests == [step : {"idle", "loading", "using"}, record : R!Rows \cup {NULL},
            adapter : Nat \cup {NULL}]

\* A request takes its next step: it holds no record the cache could be behind of, or the row.
LEMMA CallMoves ==
  ASSUME NEW c \in Callers, v5 \in [Callers -> Requests], NEW next \in Requests,
         v5' = [v5 EXCEPT ![c] = next],
         \A d \in R!Loading : v5[d].record \in R!Rows, next.step = "loading" => next.record \in R!Rows
  PROVE  /\ v5' \in [Callers -> Requests]
         /\ \A d \in R!Loading' : v5'[d].record \in R!Rows
         /\ \A d \in R!Loading' : (d \in R!Loading /\ v5'[d] = v5[d]) \/ (d = c /\ v5'[d] = next)
<1>1. v5'[c] = next /\ \A d \in Callers \ {c} : v5'[d] = v5[d] OBVIOUS
<1> QED BY <1>1 DEF R!Loading

LEMMA GetKept == ASSUME R!CacheInv, NEW c \in Callers, R!Get(c) PROVE R!CacheInv'
<1> DEFINE next == IF v4 # NULL THEN [R!NoCall EXCEPT !.step = "using", !.adapter = v4]
                   ELSE [R!NoCall EXCEPT !.step = "loading", !.record = v1]
<1>1. next \in Requests /\ (next.step = "loading" => next.record = v1 /\ v1 \in R!Rows)
  <2>1. v1 \in R!Rows /\ (v4 # NULL => v4 \in Nat) BY DEF R!CacheInv, R!CacheTypes
  <2>2. CASE v4 # NULL BY <2>1, <2>2 DEF Requests, R!NoCall
  <2>3. CASE v4 = NULL BY <2>1, <2>3 DEF Requests, R!NoCall
  <2> QED BY <2>2, <2>3
<1>2. v5' = [v5 EXCEPT ![c] = next] BY DEF R!Get
<1> HIDE DEF next
<1>3. /\ v5' \in [Callers -> Requests]
      /\ \A d \in R!Loading' : v5'[d].record \in R!Rows
      /\ \A d \in R!Loading' : (d \in R!Loading /\ v5'[d] = v5[d]) \/ (d = c /\ v5'[d].record = v1)
  BY <1>1, <1>2, CallMoves DEF R!CacheInv, R!CacheTypes, Requests, R!Loading
<1>4. UNCHANGED <<v1, v2, v3, v4, v6, v7, v12>> BY DEF R!Get
<1>5. R!CacheTypes' BY <1>3, <1>4 DEF R!CacheInv, R!CacheTypes, Requests
<1>6. R!CredsAreCurrent' BY <1>3, <1>4 DEF R!CacheInv, R!CredsAreCurrent
<1>7. R!ModeIsCurrent' BY <1>3, <1>4 DEF R!CacheInv, R!ModeIsCurrent
<1> QED BY <1>4, <1>5, <1>6, <1>7 DEF R!CacheInv, R!SwitchFits

LEMMA FinishKept == ASSUME R!CacheInv, NEW c \in Callers, R!Finish(c) PROVE R!CacheInv'
<1>1. R!NoCall \in Requests /\ R!NoCall.step # "loading" BY DEF Requests, R!NoCall
<1>2. v5' = [v5 EXCEPT ![c] = R!NoCall] BY DEF R!Finish
<1>3. /\ v5' \in [Callers -> Requests]
      /\ \A d \in R!Loading' : v5'[d].record \in R!Rows
      /\ \A d \in R!Loading' : d \in R!Loading /\ v5'[d] = v5[d]
  BY <1>1, <1>2, CallMoves DEF R!CacheInv, R!CacheTypes, Requests, R!Loading
<1>4. UNCHANGED <<v1, v2, v3, v4, v6, v7, v12>> BY DEF R!Finish
<1>5. R!CacheTypes' BY <1>3, <1>4 DEF R!CacheInv, R!CacheTypes, Requests
<1>6. R!CredsAreCurrent' BY <1>3, <1>4 DEF R!CacheInv, R!CredsAreCurrent
<1>7. R!ModeIsCurrent' BY <1>3, <1>4 DEF R!CacheInv, R!ModeIsCurrent
<1> QED BY <1>4, <1>5, <1>6, <1>7 DEF R!CacheInv, R!SwitchFits

LEMMA LoadKept == ASSUME R!CacheInv, NEW c \in Callers, R!Load(c) PROVE R!CacheInv'
<1> DEFINE made == R!Adapter(v5[c].record)
           next == [R!NoCall EXCEPT !.step = "using", !.adapter = Len(v3')]
<1>1. c \in R!Loading /\ v5[c].record \in R!Rows
  BY DEF R!Load, R!CacheInv, R!CacheTypes, R!Loading
<1>2. /\ made \in [cred : Nat, mode : R!Modes, open : BOOLEAN] /\ made.open
      /\ made.cred = v5[c].record.cred /\ made.mode = v5[c].record.mode
  BY <1>1 DEF R!Adapter, R!Rows
<1>3. v3' = Append(v3, made) /\ v4' = Len(v3') /\ v5' = [v5 EXCEPT ![c] = next] BY DEF R!Load
<1>4. UNCHANGED <<v1, v2, v6, v7, v12>> BY DEF R!Load
<1> HIDE DEF made
<1>5. /\ v3' \in Seq([cred : Nat, mode : R!Modes, open : BOOLEAN])
      /\ Len(v3') = Len(v3) + 1 /\ v3'[Len(v3')] = made
      /\ \A i \in DOMAIN v3 : i \in DOMAIN v3' /\ v3'[i] = v3[i]
      /\ v4' \in DOMAIN v3' /\ v4' \in Nat
  BY <1>2, <1>3 DEF R!CacheInv, R!CacheTypes
<1>6. next \in Requests /\ next.step # "loading" BY <1>3, <1>5 DEF Requests, R!NoCall
<1> HIDE DEF next
<1>7. /\ v5' \in [Callers -> Requests]
      /\ \A d \in R!Loading' : v5'[d].record \in R!Rows
      /\ \A d \in R!Loading' : d \in R!Loading /\ v5'[d] = v5[d]
  BY <1>3, <1>6, CallMoves DEF R!CacheInv, R!CacheTypes, Requests, R!Loading
<1>8. R!CacheTypes' BY <1>4, <1>5, <1>7 DEF R!CacheInv, R!CacheTypes, Requests
<1>9. R!CredsAreCurrent'
  BY <1>1, <1>2, <1>3, <1>4, <1>5, <1>7 DEF R!CacheInv, R!CredsAreCurrent
<1>10. R!ModeIsCurrent'
  BY <1>1, <1>2, <1>3, <1>4, <1>5, <1>7 DEF R!CacheInv, R!ModeIsCurrent
<1>11. R!SwitchFits' BY <1>4, <1>5 DEF R!CacheInv, R!CacheTypes, R!SwitchFits
<1> QED BY <1>2, <1>3, <1>5, <1>8, <1>9, <1>10, <1>11 DEF R!CacheInv

\* Eviction leaves no adapter, and every adapter but its open flag.
LEMMA Evicted ==
  ASSUME R!CacheTypes, R!Evict
  PROVE  /\ v4' = NULL /\ v3' \in Seq([cred : Nat, mode : R!Modes, open : BOOLEAN])
         /\ DOMAIN v3' = DOMAIN v3
         /\ \A i \in DOMAIN v3 : v3'[i].mode = v3[i].mode
<1> DEFINE Made == [cred : Nat, mode : R!Modes, open : BOOLEAN]
<1>1. CASE v4 = NULL BY <1>1 DEF R!CacheTypes, R!Evict
<1>2. CASE v4 # NULL
  <2>1. v3 \in Seq(Made) /\ v4 \in 1..Len(v3) BY <1>2 DEF R!CacheTypes
  <2>1a. v3[v4] \in Made BY <2>1, ElementOfSeq
  <2>2. [v3[v4] EXCEPT !.open = FALSE] \in Made /\ [v3[v4] EXCEPT !.open = FALSE].mode = v3[v4].mode
    BY <2>1a
  <2>3. v3' = [v3 EXCEPT ![v4] = [v3[v4] EXCEPT !.open = FALSE]] BY <1>2 DEF R!Evict
  <2> HIDE DEF Made
  <2>4. v3' \in Seq(Made) /\ DOMAIN v3' = DOMAIN v3 BY <2>1, <2>2, <2>3, ExceptSeq
  <2>5. \A i \in DOMAIN v3 : v3'[i].mode = v3[i].mode BY <2>2, <2>3
  <2> QED BY <2>4, <2>5 DEF R!Evict, Made
<1> QED BY <1>1, <1>2

LEMMA NotRaced ==
  ASSUME NEW r, R!Raced(r) = {}
  PROVE  \A c \in R!Loading : v5[c].record.cred = r.cred /\ v5[c].record.mode = r.mode
BY DEF R!Raced

LEMMA RotationKept ==
  ASSUME R!CacheInv, R!Store \/ R!Invalidate \/ R!InvalidateLost \/ R!Deactivate
  PROVE  R!CacheInv'
<1>1. ASSUME R!Store PROVE R!CacheInv'
  <2>1. v1' \in R!Rows /\ v1'.mode = v1.mode BY <1>1 DEF R!Store, R!CacheInv, R!CacheTypes, R!Rows
  <2>2. UNCHANGED <<v2, v3, v4, v5, v7, v12>> /\ v6' = "stored" BY <1>1 DEF R!Store
  <2> QED
    BY <2>1, <2>2 DEF R!CacheInv, R!CacheTypes, R!CredsAreCurrent, R!ModeIsCurrent, R!SwitchFits,
                      R!Loading
<1>2. ASSUME R!Invalidate PROVE R!CacheInv'
  <2>1. /\ v4' = NULL /\ v3' \in Seq([cred : Nat, mode : R!Modes, open : BOOLEAN])
        /\ DOMAIN v3' = DOMAIN v3 /\ \A i \in DOMAIN v3 : v3'[i].mode = v3[i].mode
    BY <1>2, Evicted DEF R!Invalidate, R!CacheInv
  <2>2. /\ UNCHANGED <<v1, v2, v5, v7>> /\ v6' = "idle"
        /\ v12' = (v12 \ {"raced", "unevicted"}) \cup R!Raced(v1)
    BY <1>2 DEF R!Invalidate
  <2>3. R!Raced(v1) \in {{}, {"raced"}} BY DEF R!Raced
  <2>4. R!CacheTypes' BY <2>1, <2>2 DEF R!CacheInv, R!CacheTypes, R!Loading
  <2>5. R!CredsAreCurrent'
    BY <2>1, <2>2, <2>3, NotRaced DEF R!CredsAreCurrent, R!Loading
  <2>6. R!ModeIsCurrent'
    BY <2>1, <2>2, <2>3, NotRaced DEF R!CacheInv, R!ModeIsCurrent, R!Loading
  <2>7. R!SwitchFits' BY <2>1, <2>2 DEF R!CacheInv, R!CacheTypes, R!SwitchFits
  <2> QED BY <2>1, <2>4, <2>5, <2>6, <2>7 DEF R!CacheInv
<1>3. ASSUME R!InvalidateLost PROVE R!CacheInv'
  BY <1>3 DEF R!InvalidateLost, R!CacheInv, R!CacheTypes, R!CredsAreCurrent, R!ModeIsCurrent,
              R!SwitchFits, R!Loading
<1>4. ASSUME R!Deactivate PROVE R!CacheInv'
  <2>1. v1' \in R!Rows /\ v1'.mode = v1.mode /\ v1'.cred = v1.cred
    BY <1>4 DEF R!Deactivate, R!CacheInv, R!CacheTypes, R!Rows
  <2>2. UNCHANGED <<v2, v3, v4, v5, v6, v7, v12>> BY <1>4 DEF R!Deactivate
  <2> QED
    BY <2>1, <2>2 DEF R!CacheInv, R!CacheTypes, R!CredsAreCurrent, R!ModeIsCurrent, R!SwitchFits,
                      R!Loading
<1> QED BY <1>1, <1>2, <1>3, <1>4

LEMMA SwitchKept ==
  ASSUME R!CacheInv,
         \/ R!SwitchBegin \/ R!SwitchRefused \/ R!SwitchAccepted \/ R!Confirm \/ R!ConfirmUnread
         \/ R!WriteMode \/ R!WriteModeFails
  PROVE  R!CacheInv'
<1> DEFINE Switches == [step : {"idle", "ask", "readback", "write"}, to : R!Modes,
                        adapter : Nat \cup {NULL}]
<1>1. ASSUME R!SwitchBegin PROVE R!CacheInv'
  <2>1. R!Other(v1.mode) \in R!Modes BY OtherMode DEF R!CacheInv, R!CacheTypes, R!Rows
  <2>2. v7' \in Switches /\ v7'.step = "ask" /\ v7'.adapter \in DOMAIN v3 /\ v7.step = "idle"
    BY <1>1, <2>1 DEF R!SwitchBegin, R!CacheInv, R!CacheTypes
  <2>3. UNCHANGED <<v1, v2, v3, v4, v5, v6, v12>> BY <1>1 DEF R!SwitchBegin
  <2> QED
    BY <2>2, <2>3 DEF R!CacheInv, R!CacheTypes, R!CredsAreCurrent, R!ModeIsCurrent, R!SwitchFits,
                      R!Loading
<1>2. ASSUME R!SwitchEnds PROVE v7' \in Switches /\ v7'.step = "idle"
  BY <1>2 DEF R!SwitchEnds, R!CacheInv, R!CacheTypes
<1>3. ASSUME R!SwitchRefused PROVE R!CacheInv'
  <2>1. UNCHANGED <<v1, v2, v3, v4, v5, v6, v12>> /\ v7.step = "ask" /\ R!SwitchEnds
    BY <1>3 DEF R!SwitchRefused
  <2> QED
    BY <1>2, <2>1 DEF R!CacheInv, R!CacheTypes, R!CredsAreCurrent, R!ModeIsCurrent, R!SwitchFits,
                      R!Loading
<1>4. ASSUME R!SwitchAccepted PROVE R!CacheInv'
  <2>1. /\ v7' \in Switches /\ v7'.step = "readback" /\ v7'.adapter = v7.adapter
        /\ v7'.to = v7.to /\ v2' = v7.to /\ v7.step = "ask" /\ v7.to \in R!Modes
    BY <1>4 DEF R!SwitchAccepted, R!CacheInv, R!CacheTypes
  <2>2. UNCHANGED <<v1, v3, v4, v5, v6, v12>> BY <1>4 DEF R!SwitchAccepted
  <2> QED
    BY <2>1, <2>2 DEF R!CacheInv, R!CacheTypes, R!CredsAreCurrent, R!ModeIsCurrent, R!SwitchFits,
                      R!Loading
<1>5. ASSUME R!Confirm PROVE R!CacheInv'
  <2>1. /\ v7' \in Switches /\ v7'.step = "write" /\ v7'.adapter = v7.adapter
        /\ v7'.to = v7.to /\ v7.step = "readback" /\ v7.adapter \in DOMAIN v3 /\ v7.to \in R!Modes
    BY <1>5 DEF R!Confirm, R!CacheInv, R!CacheTypes
  <2>2. UNCHANGED <<v1, v2, v4, v5, v6, v12>> /\ v3' = [v3 EXCEPT ![v7.adapter].mode = v7.to]
    BY <1>5 DEF R!Confirm
  <2>3. /\ v3' \in Seq([cred : Nat, mode : R!Modes, open : BOOLEAN]) /\ DOMAIN v3' = DOMAIN v3
        /\ v3'[v7.adapter].mode = v7.to
        /\ \A i \in DOMAIN v3 : v3'[i].cred = v3[i].cred /\ v3'[i].open = v3[i].open
    <3> DEFINE Made == [cred : Nat, mode : R!Modes, open : BOOLEAN]
               heard == [v3[v7.adapter] EXCEPT !.mode = v7.to]
    <3>1. v3 \in Seq(Made) /\ v7.adapter \in 1..Len(v3) BY <2>1 DEF R!CacheInv, R!CacheTypes
    <3>1a. v3[v7.adapter] \in Made BY <3>1, ElementOfSeq
    <3>2. /\ heard \in Made /\ heard.mode = v7.to
          /\ heard.cred = v3[v7.adapter].cred /\ heard.open = v3[v7.adapter].open
      BY <2>1, <3>1a
    <3>3. v3' = [v3 EXCEPT ![v7.adapter] = heard] BY <2>2
    <3> HIDE DEF Made, heard
    <3>4. v3' \in Seq(Made) /\ DOMAIN v3' = DOMAIN v3 BY <3>1, <3>2, <3>3, ExceptSeq
    <3>5. \A i \in DOMAIN v3 : v3'[i].cred = v3[i].cred /\ v3'[i].open = v3[i].open
      BY <3>2, <3>3
    <3>6. v3'[v7.adapter].mode = v7.to BY <3>1, <3>2, <3>3
    <3> QED BY <3>4, <3>5, <3>6 DEF Made
  <2> QED
    BY <2>1, <2>2, <2>3 DEF R!CacheInv, R!CacheTypes, R!CredsAreCurrent, R!ModeIsCurrent,
                            R!SwitchFits, R!Loading
<1>6. ASSUME R!ConfirmUnread PROVE R!CacheInv'
  <2>1. UNCHANGED <<v1, v2, v3, v4, v5, v6>> /\ R!SwitchEnds /\ v12' = v12 \cup {"unread"}
    BY <1>6 DEF R!ConfirmUnread
  <2> QED
    BY <1>2, <2>1 DEF R!CacheInv, R!CacheTypes, R!CredsAreCurrent, R!ModeIsCurrent, R!SwitchFits,
                      R!Loading
<1>7. ASSUME R!WriteMode PROVE R!CacheInv'
  <2>1. /\ UNCHANGED <<v2, v3, v4, v5, v6>> /\ R!SwitchEnds /\ v7.step = "write"
        /\ v12' = (v12 \ {"unread", "unwritten"}) \cup R!Raced(v1')
                    \cup (IF v4 \in {v7.adapter, NULL} THEN {} ELSE {"raced"})
    BY <1>7 DEF R!WriteMode
  <2>2. /\ v1' \in R!Rows /\ v1'.cred = v1.cred /\ v1'.mode = v7.to /\ v7.to = v2
        /\ v3[v7.adapter].mode = v2
    BY <1>7 DEF R!WriteMode, R!CacheInv, R!CacheTypes, R!SwitchFits, R!Rows
  <2>3. R!Raced(v1') \in {{}, {"raced"}} BY DEF R!Raced
  <2>4. R!CacheTypes' BY <1>2, <2>1, <2>2 DEF R!CacheInv, R!CacheTypes, R!Loading
  <2>5. R!CredsAreCurrent' BY <2>1, <2>2, <2>3 DEF R!CacheInv, R!CredsAreCurrent, R!Loading
  <2>6. "raced" \notin v12' => R!Raced(v1') = {} /\ v4 \in {v7.adapter, NULL} BY <2>1, <2>3
  <2>7. R!ModeIsCurrent' BY <2>1, <2>2, <2>6, NotRaced DEF R!ModeIsCurrent, R!Loading
  <2> QED BY <1>2, <2>1, <2>4, <2>5, <2>7 DEF R!CacheInv, R!SwitchFits
<1>8. ASSUME R!WriteModeFails PROVE R!CacheInv'
  <2>1. UNCHANGED <<v1, v2, v3, v4, v5, v6>> /\ R!SwitchEnds /\ v12' = v12 \cup {"unwritten"}
    BY <1>8 DEF R!WriteModeFails
  <2> QED
    BY <1>2, <2>1 DEF R!CacheInv, R!CacheTypes, R!CredsAreCurrent, R!ModeIsCurrent, R!SwitchFits,
                      R!Loading
<1> QED BY <1>1, <1>3, <1>4, <1>5, <1>6, <1>7, <1>8

LEMMA CacheRestartKept == ASSUME R!CacheInv, R!Restart PROVE R!CacheInv'
<1>1. /\ v3' = <<>> /\ v4' = NULL /\ v5' = [c \in Callers |-> R!NoCall] /\ UNCHANGED <<v1, v2, v6>>
      /\ v7' = [v7 EXCEPT !.step = "idle"]
      /\ v12' = (v12 \ {"raced", "unevicted"})
                  \cup (IF v7.step \in {"readback", "write"} THEN {"unwritten"} ELSE {})
  BY DEF R!Restart
<1>2. R!Loading' = {} /\ v5' \in [Callers -> Requests] BY <1>1 DEF R!Loading, R!NoCall, Requests
<1>3. R!CacheTypes'
  <2>1. v3' \in Seq([cred : Nat, mode : R!Modes, open : BOOLEAN]) BY <1>1
  <2>2. v7' \in [step : {"idle", "ask", "readback", "write"}, to : R!Modes,
                 adapter : Nat \cup {NULL}] /\ v7'.step = "idle"
    BY <1>1 DEF R!CacheInv, R!CacheTypes
  <2> QED BY <1>1, <1>2, <2>1, <2>2 DEF R!CacheInv, R!CacheTypes, Requests
<1>4. R!CredsAreCurrent' BY <1>1, <1>2 DEF R!CredsAreCurrent
<1>5. v7'.step = "idle" BY <1>1 DEF R!CacheInv, R!CacheTypes
<1>6. R!ModeIsCurrent' BY <1>1, <1>2 DEF R!CacheInv, R!CacheTypes, R!ModeIsCurrent
<1> QED BY <1>1, <1>3, <1>4, <1>5, <1>6 DEF R!CacheInv, R!SwitchFits

LEMMA CacheNext == R!CacheInv /\ [R!Next]_(R!vars) => R!CacheInv'
<1> SUFFICES ASSUME R!CacheInv, [R!Next]_(R!vars) PROVE R!CacheInv' OBVIOUS
<1>1. ASSUME UNCHANGED <<v1, v2, v3, v4, v5, v6, v7, v12>> PROVE R!CacheInv'
  BY <1>1 DEF R!CacheInv, R!CacheTypes, R!CredsAreCurrent, R!ModeIsCurrent, R!SwitchFits, R!Loading
<1>2. R!GetRefused => UNCHANGED <<v1, v2, v3, v4, v5, v6, v7, v12>> BY DEF R!GetRefused
<1>3. UNCHANGED R!vars => UNCHANGED <<v1, v2, v3, v4, v5, v6, v7, v12>> BY DEF R!vars
<1> QED
  BY <1>1, <1>2, <1>3, GetKept, LoadKept, FinishKept, RotationKept, SwitchKept, CacheRestartKept
     DEF R!Next

\* A step of the composition is a step of the service that moves.
LEMMA CacheMoves ==
  turn = "adapters" /\ [NextServices]_all => turn' = "adapters" /\ [R!Next]_(R!vars)
BY DEF NextServices, all, cells, R!vars

\* Between rotations and switches the cached adapter has the row's credentials, an open client
\* and the exchange's mode, for any numbers of requests, rotations, switches, faults and
\* restarts: unless a load raced a change or a write, an eviction or a read-back was lost.
THEOREM AdapterIsCurrentHolds == SpecServices => []AdapterIsCurrent
<1> DEFINE Inv == turn = "adapters" => R!CacheInv
<1>1. InitServices => Inv BY CacheInit DEF InitServices
<1>2. Inv /\ [NextServices]_all => Inv'
  <2> SUFFICES ASSUME Inv, [NextServices]_all PROVE Inv' OBVIOUS
  <2>1. turn' = turn \/ turn = "adapters" BY DEF NextServices, all
  <2> QED BY <2>1, CacheNext, CacheMoves
<1>3. Inv => AdapterIsCurrent
  BY DEF R!CacheInv, R!CacheTypes, R!CredsAreCurrent, R!ModeIsCurrent, AdapterIsCurrent,
         R!AdapterIsCurrent
<1> QED BY <1>1, <1>2, <1>3, PTL DEF SpecServices

-------------------------------------------------------------------------------
(* Candle ingestion: v1 bar, v2 settled, v3 stream, v5 proc, v7 missing,   *)
(* v8 again, v9 wedged.                                                    *)

LEMMA FeedInit == F!Init => F!FeedInv
<1> SUFFICES ASSUME F!Init PROVE F!FeedInv OBVIOUS
<1>1. v3 = <<>> /\ v5 = F!Fresh("down") /\ v9 = FALSE BY DEF F!Init
<1>2. F!Fresh("down") \in F!Procs BY DEF F!Fresh, F!Procs, F!Steps
<1>3. F!FeedTypes
  <2>1. v3 \in Seq(F!Bars) BY <1>1, EmptySeq
  <2>2. v1 \in Nat BY DEF F!Init
  <2>3. v2 \in BOOLEAN /\ v9 \in BOOLEAN BY Zenon DEF F!Init
  <2> QED BY <1>1, <1>2, <2>1, <2>2, <2>3 DEF F!FeedTypes
<1>4. F!HandFits BY <1>1 DEF F!HandFits, F!Fresh
<1> QED BY <1>1, <1>3, <1>4 DEF F!FeedInv, F!FeedIsWhole

\* The bars a REST answer brings are consecutive.
LEMMA RestIs ==
  ASSUME NEW a \in Nat, NEW b \in Int
  PROVE  /\ F!Rest(a, b) \in Seq(F!Bars)
         /\ Len(F!Rest(a, b)) = IF a > b THEN 0 ELSE b - a + 1
         /\ \A i \in DOMAIN F!Rest(a, b) : F!Rest(a, b)[i].t = a + i - 1 /\ a + i - 1 <= b
<1>1. CASE a > b BY <1>1 DEF F!Rest
<1>2. CASE ~(a > b)
  <2>1. F!Rest(a, b) = [i \in 1..(b - a + 1) |-> F!Candle(a + i - 1, TRUE)]
    BY <1>2 DEF F!Rest, F!BarsBetween
  <2>2. b - a + 1 \in Nat BY <1>2
  <2>3. \A i \in 1..(b - a + 1) : F!Candle(a + i - 1, TRUE) \in F!Bars BY DEF F!Candle, F!Bars
  <2>4. F!Rest(a, b) \in Seq(F!Bars)
    <3> DEFINE n == b - a + 1
               e(i) == F!Candle(a + i - 1, TRUE)
    <3>1. \A i \in 1..n : e(i) \in F!Bars BY <2>3
    <3> HIDE DEF n, e
    <3>2. n \in Nat => [i \in 1..n |-> e(i)] \in Seq(F!Bars) BY <3>1
    <3> QED BY <2>1, <2>2, <3>2 DEF n, e
  <2>5. Len(F!Rest(a, b)) = b - a + 1 BY <2>1, <2>2
  <2>6. \A i \in DOMAIN F!Rest(a, b) : F!Rest(a, b)[i].t = a + i - 1 /\ a + i - 1 <= b
    BY <2>1, <2>2 DEF F!Candle
  <2> QED BY <1>2, <2>4, <2>5, <2>6
<1> QED BY <1>1, <1>2

LEMMA LastIs ==
  ASSUME v3 # <<>>, v3 \in Seq(F!Bars)
  PROVE  /\ Len(v3) \in Nat \ {0} /\ v3[Len(v3)] \in F!Bars
         /\ F!LastClosed = v3[Len(v3)].t /\ F!LastClosed \in Nat
<1>1. Len(v3) \in Nat \ {0} BY EmptySeq
<1>2. v3[Len(v3)] \in F!Bars BY <1>1, ElementOfSeq
<1> QED BY <1>1, <1>2 DEF F!LastClosed, F!Last, F!Bars

\* What only grows leaves a whole stream whole.
LEMMA StaysWhole ==
  ASSUME F!FeedTypes, F!FeedIsWhole, v3' = v3, v1' \in Nat, v1 <= v1', v7 \subseteq v7',
         v8 \subseteq v8'
  PROVE  F!FeedIsWhole'
<1>1. \A i \in DOMAIN v3 : v3[i] \in F!Bars BY ElementOfSeq DEF F!FeedTypes
<1>2. \A i \in DOMAIN v3' : v3'[i].t < v1' BY <1>1 DEF F!FeedTypes, F!FeedIsWhole, F!Bars
<1> QED BY <1>2 DEF F!FeedIsWhole

\* A closed bar that follows the last one, or repeats it knowingly.
LEMMA Extends ==
  ASSUME F!FeedTypes, F!FeedIsWhole, NEW c \in F!Bars, c.t < v1,
         F!Follows(c.t) \/ F!Repeats(c.t),
         v3' = Append(v3, c), v1' = v1, v7 \subseteq v7', v8 \subseteq v8'
  PROVE  /\ v3' \in Seq(F!Bars) /\ v3' # <<>> /\ F!FeedIsWhole'
         /\ v3'[Len(v3')] = c /\ F!LastClosed' = c.t
<1>1. /\ v3 \in Seq(F!Bars) /\ v3' \in Seq(F!Bars) /\ v3' # <<>> /\ Len(v3') = Len(v3) + 1
      /\ v3'[Len(v3')] = c /\ \A i \in 1..Len(v3) : v3'[i] = v3[i]
  BY DEF F!FeedTypes
<1>2. \A i \in DOMAIN v3' : v3'[i].t < v1' BY <1>1 DEF F!FeedIsWhole
<1>3. ASSUME NEW i \in 1..(Len(v3') - 1)
      PROVE  \/ /\ v3'[i + 1].t > v3'[i].t
                /\ (v3'[i].t + 1)..(v3'[i + 1].t - 1) \subseteq v7'
             \/ v3'[i + 1].t = v3'[i].t /\ v3'[i].t \in v8'
  <2>1. CASE i = Len(v3)
    <3>1. v3 # <<>> /\ v3'[i] = v3[Len(v3)] /\ v3'[i + 1] = c BY <1>1, <2>1
    <3>2. F!LastClosed = v3'[i].t /\ v3'[i].t \in Nat BY <1>1, <3>1, LastIs
    <3> QED BY <3>1, <3>2 DEF F!Follows, F!Repeats, F!Passed, F!Bars
  <2>2. CASE i # Len(v3)
    <3>1. i \in 1..(Len(v3) - 1) /\ v3'[i] = v3[i] /\ v3'[i + 1] = v3[i + 1] BY <1>1, <2>2
    <3> QED BY <3>1 DEF F!FeedIsWhole
  <2> QED BY <2>1, <2>2
<1>4. F!LastClosed' = c.t BY <1>1 DEF F!LastClosed, F!Last
<1> QED BY <1>1, <1>2, <1>3, <1>4 DEF F!FeedIsWhole
LEMMA FeedQuiet ==
  ASSUME F!FeedInv, v3' = v3, v5' = v5, v9' = v9, v1' \in Nat, v1 <= v1', v2' \in BOOLEAN,
         v7 \subseteq v7', v8 \subseteq v8'
  PROVE  F!FeedInv'
<1>1. F!FeedTypes' /\ v1 \in Nat BY DEF F!FeedInv, F!FeedTypes
<1>2. F!FeedIsWhole' BY StaysWhole DEF F!FeedInv
<1>3. F!HandFits'
  <2>1. \A t : (F!Follows(t) => F!Follows(t)') /\ (F!Repeats(t) => F!Repeats(t)')
    BY DEF F!Follows, F!Repeats, F!Passed, F!LastClosed
  <2>2. \A t : F!InSeries(t)' <=> F!InSeries(t) BY DEF F!InSeries
  <2>3. \A a, b : F!Passed(a, b) => F!Passed(a, b)' BY DEF F!Passed
  <2>4. F!LastClosed' = F!LastClosed BY DEF F!LastClosed
  <2>5. /\ \A i \in DOMAIN v5.todo : v5.todo[i].t \in Nat
        /\ \A b \in F!Bars : b.t \in Nat /\ (b.t < v1 => b.t < v1') /\ (b.t <= v1 => b.t <= v1')
    <3>1. v5.todo \in Seq(F!Bars) BY DEF F!FeedInv, F!FeedTypes, F!Procs
    <3>2. \A i \in DOMAIN v5.todo : v5.todo[i] \in F!Bars BY <3>1, ElementOfSeq
    <3>3. \A b \in F!Bars : b.t \in Nat BY DEF F!Bars
    <3>4. \A n \in Nat : (n < v1 => n < v1') /\ (n <= v1 => n <= v1') BY <1>1
    <3> QED BY <3>2, <3>3, <3>4
  <2>6. F!HandFits BY DEF F!FeedInv
  <2>7. /\ v5.step \in {"watch", "close"} /\ ~v5.first /\ ~v9 =>
             v5.prev \in F!Bars /\ v5.prev.t <= v1'
               /\ (F!Follows(v5.prev.t)' \/ F!Repeats(v5.prev.t)')
        /\ v5.step \in {"first", "close", "check", "stitch", "insert"} =>
             v5.event \in F!Bars /\ v5.event.t <= v1'
    BY <2>1, <2>5, <2>6 DEF F!HandFits
  <2>8. v5.step = "write" /\ v5.todo # <<>> =>
          /\ F!InSeries(v5.todo[1].t)' /\ F!Follows(v5.todo[1].t)'
          /\ \A i \in DOMAIN v5.todo : v5.todo[i].t < v1'
    BY <1>1, <2>1, <2>2, <2>5, <2>6 DEF F!HandFits
  <2>9. v5.step = "insert" =>
          /\ v3 # <<>> /\ F!InSeries(F!LastClosed + 1)'
          /\ F!LastClosed + Len(v5.todo) < v5.event.t
          /\ F!Passed(F!LastClosed + Len(v5.todo), v5.event.t)'
    BY <2>2, <2>3, <2>4, <2>6 DEF F!HandFits
  <2> QED BY <2>4, <2>6, <2>7, <2>8, <2>9 DEF F!HandFits
<1> QED BY <1>1, <1>2, <1>3 DEF F!FeedInv
\* What the process does without a write: the stream stays, bars may be given up.
LEMMA HandMoves ==
  ASSUME F!FeedInv, v1' = v1, v2' = v2, v3' = v3, v7 \subseteq v7', v8' = v8,
         v9' \in BOOLEAN, v5' \in F!Procs, F!HandFits'
  PROVE  F!FeedInv'
BY StaysWhole DEF F!FeedInv, F!FeedTypes

\* And with a write: the bar continues the stream.
LEMMA HandWrites ==
  ASSUME F!FeedInv, NEW c \in F!Bars, c.t < v1, F!Follows(c.t) \/ F!Repeats(c.t),
         v3' = Append(v3, c), v1' = v1, v2' = v2, v7 \subseteq v7', v8 \subseteq v8', v9' = v9,
         v5' \in F!Procs, v3' # <<>> /\ F!LastClosed' = c.t => F!HandFits'
  PROVE  F!FeedInv'
BY Extends DEF F!FeedInv, F!FeedTypes

LEMMA FeedFields ==
  ASSUME F!FeedInv
  PROVE  /\ v5 \in F!Procs /\ v5.todo \in Seq(F!Bars) /\ v5.from \in Nat /\ v5.first \in BOOLEAN
         /\ v1 \in Nat /\ v2 \in BOOLEAN /\ v9 \in BOOLEAN /\ v3 \in Seq(F!Bars)
         /\ F!Now \in F!Bars /\ F!Now.t = v1
         /\ v3 # <<>> => F!LastClosed \in Nat /\ F!LastClosed < v1
<1>1. v5 \in F!Procs /\ v5.todo \in Seq(F!Bars) /\ v5.from \in Nat /\ v5.first \in BOOLEAN
  BY DEF F!FeedInv, F!FeedTypes, F!Procs
<1>2. v1 \in Nat /\ v2 \in BOOLEAN /\ v9 \in BOOLEAN /\ v3 \in Seq(F!Bars)
  BY DEF F!FeedInv, F!FeedTypes
<1>3. F!Now \in F!Bars /\ F!Now.t = v1 BY <1>2 DEF F!Now, F!Candle, F!Bars
<1>4. v3 # <<>> => F!LastClosed \in Nat /\ F!LastClosed < v1
  <2>1. v3 # <<>> => Len(v3) \in DOMAIN v3 BY <1>2, EmptySeq
  <2> QED BY <1>2, <2>1, LastIs DEF F!FeedInv, F!FeedIsWhole
<1> QED BY <1>1, <1>2, <1>3, <1>4

LEMMA ExchangeKept ==
  ASSUME F!FeedInv, F!Update \/ F!BarOpens \/ F!Stall \/ F!StallEnds \/ F!HearFails
  PROVE  F!FeedInv'
<1>1. v1' \in Nat /\ v1 <= v1' /\ v2' \in BOOLEAN
  <2>1. v1' = v1 \/ v1' = v1 + 1
    BY DEF F!Update, F!BarOpens, F!Stall, F!StallEnds, F!HearFails
  <2>2. v2' = TRUE \/ v2' = FALSE \/ v2' = v2
    BY DEF F!Update, F!BarOpens, F!Stall, F!StallEnds, F!HearFails
  <2>3. v1' \in Nat /\ v1 <= v1' BY <2>1, FeedFields
  <2> QED BY <2>2, <2>3, FeedFields
<1>2. UNCHANGED <<v3, v5, v7, v8, v9>>
  BY DEF F!Update, F!BarOpens, F!Stall, F!StallEnds, F!HearFails
<1> QED BY <1>1, <1>2, FeedQuiet

LEMMA FreshIs ==
  ASSUME NEW s \in F!Steps
  PROVE  F!Fresh(s) \in F!Procs /\ F!Fresh(s).step = s /\ F!Fresh(s).first = TRUE
BY DEF F!Fresh, F!Procs

LEMMA RestartKept ==
  ASSUME F!FeedInv, F!Start \/ F!WarmupFails \/ F!WarmupDone \/ F!Crash
  PROVE  F!FeedInv'
<1>1. UNCHANGED <<v1, v2, v3, v7, v8>>
  BY DEF F!Start, F!WarmupFails, F!WarmupDone, F!Crash
<1>2. v9' = FALSE
  <2>1. v5.step # "watch" => v9 = FALSE BY FeedFields DEF F!FeedInv, F!HandFits
  <2> QED BY <2>1 DEF F!Start, F!WarmupFails, F!WarmupDone, F!Crash
<1>3. v5' \in F!Procs /\ v5'.step \in {"down", "warmup", "watch"} /\ v5'.first
  <2>1. CASE F!WarmupDone \/ F!Crash BY <2>1, FreshIs DEF F!WarmupDone, F!Crash, F!Steps
  <2>2. CASE F!Start \/ F!WarmupFails
    <3>1. v5.first BY <2>2 DEF F!Start, F!WarmupFails, F!FeedInv, F!HandFits
    <3> QED BY <2>2, <3>1, FeedFields DEF F!Start, F!WarmupFails, F!ToStep, F!Procs, F!Steps
  <2> QED BY <2>1, <2>2
<1>4. F!HandFits' BY <1>2, <1>3 DEF F!HandFits
<1> QED BY <1>1, <1>2, <1>3, <1>4, HandMoves

LEMMA WarmupFetchKept == ASSUME F!FeedInv, F!WarmupFetch PROVE F!FeedInv'
<1>1. PICK a \in Nat : a = F!Newer(F!Unseen, v1 - Window) /\ (v3 # <<>> => F!LastClosed < a)
  <2>1. F!Unseen \in Nat /\ (v3 # <<>> => F!Unseen = F!LastClosed + 1 /\ F!LastClosed \in Nat)
    BY FeedFields DEF F!Unseen
  <2> QED BY <2>1, FeedFields, FeedAssumption DEF F!Newer
<1>2. PICK new \in Seq(F!Bars) :
        /\ new = F!Rest(a, v1 - 1)
        /\ \A i \in DOMAIN new : new[i].t = a + i - 1 /\ new[i].t < v1
  <2>1. v1 \in Nat BY FeedFields
  <2>2. PICK b \in Int : b = v1 - 1 BY <2>1
  <2>3. PICK new : new = F!Rest(a, b) OBVIOUS
  <2>4. new \in Seq(F!Bars) /\ \A i \in DOMAIN new : new[i].t = a + i - 1 /\ a + i - 1 <= b
    BY <2>3, RestIs
  <2>5. \A i \in DOMAIN new : new[i].t = a + i - 1 /\ new[i].t < v1
    <3>1. ASSUME NEW i \in DOMAIN new PROVE new[i].t = a + i - 1 /\ new[i].t < v1
      <4>1. i \in Nat /\ a + i - 1 \in Int BY <2>4, ElementOfSeq
      <4>2. new[i].t = a + i - 1 /\ a + i - 1 <= b BY <2>4, <3>1
      <4> QED BY <2>1, <2>2, <4>1, <4>2
    <3> QED BY <3>1
  <2> QED BY <2>2, <2>3, <2>4, <2>5
<1>3. /\ v5' = [v5 EXCEPT !.step = "write", !.todo = new, !.event = F!Now]
      /\ v7' = IF v3 # <<>> /\ new # <<>> THEN v7 \cup (F!LastClosed + 1)..(Head(new).t - 1) ELSE v7
      /\ UNCHANGED <<v1, v2, v3, v8, v9>> /\ v5.step = "warmup"
  BY <1>1, <1>2 DEF F!WarmupFetch
<1>4. v5' \in F!Procs /\ v5'.step = "write" /\ v5'.todo = new
  BY <1>3, FeedFields DEF F!Procs, F!Steps
<1>5. new # <<>> => new[1].t = a /\ Head(new) = new[1] BY <1>2, EmptySeq
<1>6. new # <<>> => F!Follows(new[1].t)'
  <2>1. F!LastClosed' = F!LastClosed BY <1>3 DEF F!LastClosed
  <2>2. new # <<>> /\ v3 # <<>> => F!LastClosed < a /\ (F!LastClosed + 1)..(a - 1) \subseteq v7'
    BY <1>1, <1>3, <1>5
  <2> QED BY <1>3, <1>5, <2>1, <2>2 DEF F!Follows, F!Passed
<1>7. v9 = FALSE BY <1>3, FeedFields DEF F!FeedInv, F!HandFits
<1>8. F!HandFits'
  <2>1. new # <<>> => F!InSeries(new[1].t)' BY <1>2, <1>4, <1>5 DEF F!InSeries
  <2>2. new # <<>> => /\ F!InSeries(v5.todo[1].t)' /\ F!Follows(v5.todo[1].t)'
                      /\ \A i \in DOMAIN v5'.todo : v5'.todo[i].t < v1'
    BY <1>2, <1>3, <1>4, <1>6, <2>1 
  <2> QED BY <1>3, <1>4, <1>7, <2>2 DEF F!HandFits
<1>9. v7 \subseteq v7' BY <1>3
<1> QED BY <1>3, <1>4, <1>7, <1>8, <1>9, HandMoves

LEMMA WarmupWriteKept == ASSUME F!FeedInv, F!WarmupWrite PROVE F!FeedInv'
<1>1. /\ v5.step = "write" /\ v5.todo # <<>> /\ UNCHANGED <<v1, v2, v7, v8, v9>>
      /\ v3' = Append(v3, Head(v5.todo)) /\ v5' = [v5 EXCEPT !.todo = Tail(@)]
  BY DEF F!WarmupWrite
<1>2. PICK todo \in Seq(F!Bars) : todo = v5.todo BY FeedFields
<1>3. /\ Head(todo) = todo[1] /\ todo[1] \in F!Bars /\ Tail(todo) \in Seq(F!Bars) /\ 1 \in DOMAIN todo
      /\ \A i \in DOMAIN Tail(todo) : i + 1 \in DOMAIN todo /\ Tail(todo)[i] = todo[i + 1]
  BY <1>1, <1>2, TailIs
<1>4. v5' \in F!Procs /\ v5'.step = "write" /\ v5'.todo = Tail(todo)
  BY <1>1, <1>2, <1>3, FeedFields DEF F!Procs
<1>5. /\ \A i \in DOMAIN todo : todo[i].t = todo[1].t + i - 1 /\ todo[i].t < v1
      /\ F!Follows(todo[1].t) /\ ~v9
  BY <1>1, <1>2, FeedFields DEF F!FeedInv, F!HandFits, F!InSeries
<1>6. PICK c \in F!Bars : c = todo[1] BY <1>3
<1>7. c.t \in Nat BY <1>6 DEF F!Bars
<1>8. ASSUME F!LastClosed' = c.t PROVE F!HandFits'
  <2>1. ASSUME Tail(todo) # <<>>
        PROVE  /\ Tail(todo)[1].t = c.t + 1
               /\ \A i \in DOMAIN Tail(todo) : Tail(todo)[i].t = Tail(todo)[1].t + i - 1
                                               /\ Tail(todo)[i].t < v1
    <3>1. 1 \in DOMAIN Tail(todo) BY <1>3, <2>1, TailIs
    <3>2. \A i \in DOMAIN Tail(todo) : i \in Nat /\ Tail(todo)[i].t = c.t + i /\ Tail(todo)[i].t < v1
      BY <1>3, <1>5, <1>6, <1>7
    <3> QED BY SMTT(60), <1>7, <3>1, <3>2
  <2>2. Tail(todo) # <<>> => F!InSeries(v5.todo[1].t)' BY <1>4, <2>1 DEF F!InSeries
  <2>3. Tail(todo) # <<>> => F!Follows(v5.todo[1].t)'
    BY <1>4, <1>7, <1>8, <2>1 DEF F!Follows, F!Passed
  <2> QED BY <1>1, <1>4, <1>5, <2>1, <2>2, <2>3 DEF F!HandFits
<1> QED BY <1>1, <1>2, <1>3, <1>4, <1>5, <1>6, <1>8, HandWrites

LEMMA HearKept == ASSUME F!FeedInv, F!Hear PROVE F!FeedInv'
<1>1. v5.step = "watch" /\ UNCHANGED <<v1, v2, v3, v7, v8, v9>> BY DEF F!Hear
<1>2. CASE v9 BY <1>1, <1>2, FeedQuiet, FeedFields DEF F!Hear
<1>3. CASE ~v9
  <2>1. v5' = [v5 EXCEPT !.event = F!Now,
                         !.step = IF v5.first THEN "first"
                                  ELSE IF v1 > v5.prev.t THEN "close" ELSE "watch",
                         !.prev = IF ~v5.first /\ v1 = v5.prev.t THEN F!Now ELSE @]
    BY <1>3 DEF F!Hear
  <2>2. v5' \in F!Procs /\ v5'.event = F!Now /\ v5'.first = v5.first
    BY <2>1, FeedFields DEF F!Procs, F!Steps
  <2>3. CASE v5.first
    <3>1. v5'.step = "first" BY <2>1, <2>3, FeedFields DEF F!Procs
    <3>2. F!LastClosed' = F!LastClosed BY <1>1 DEF F!LastClosed
    <3>3. F!HandFits' BY <1>1, <1>3, <2>2, <2>3, <3>1, <3>2, FeedFields DEF F!HandFits
    <3> QED BY <1>1, <2>2, <3>3, FeedFields, HandMoves
  <2>4. CASE ~v5.first
    <3>1. /\ v5.prev \in F!Bars /\ v5.prev.t \in Nat /\ v5.prev.t <= v1
          /\ F!Follows(v5.prev.t) \/ F!Repeats(v5.prev.t)
      BY <1>1, <1>3, <2>4 DEF F!FeedInv, F!HandFits, F!Bars
    <3>2. PICK p \in Nat : p = v5.prev.t BY <3>1
    <3>3. /\ v5'.step = (IF v1 > p THEN "close" ELSE "watch")
          /\ v5'.prev = (IF v1 = p THEN F!Now ELSE v5.prev)
      BY <2>1, <2>4, <3>2, FeedFields DEF F!Procs
    <3>4. v5'.prev \in F!Bars /\ v5'.prev.t = p BY <3>1, <3>2, <3>3, FeedFields
    <3>5. F!Follows(p)' \/ F!Repeats(p)'
      BY <1>1, <3>1, <3>2 DEF F!Follows, F!Repeats, F!Passed, F!LastClosed
    <3>6. F!Follows(v5.prev.t)' \/ F!Repeats(v5.prev.t)'
      BY <3>4, <3>5 DEF F!Follows, F!Repeats, F!Passed
    <3>7. v1 \in Nat /\ (v5'.step = "close" => p < v1) /\ p <= v1 BY <3>1, <3>2, <3>3, FeedFields
    <3>8. F!HandFits'
      BY <1>1, <1>3, <2>2, <2>4, <3>3, <3>4, <3>6, <3>7, FeedFields DEF F!HandFits
    <3> QED BY <1>1, <2>2, <3>8, FeedFields, HandMoves
  <2> QED BY <2>3, <2>4
<1> QED BY <1>2, <1>3
\* The loop goes on with the bar it heard last, which continues the stream.
LEMMA Resumes ==
  ASSUME v5' \in F!Procs, v5'.step = "watch", NEW p \in F!Bars, v5'.prev = p, p.t <= v1',
         F!Follows(p.t)' \/ F!Repeats(p.t)', v9' = FALSE
  PROVE  F!HandFits'
<1>1. v5'.prev.t = p.t OBVIOUS
<1>2. F!Follows(v5.prev.t)' \/ F!Repeats(v5.prev.t)' BY <1>1 DEF F!Follows, F!Repeats, F!Passed
<1> QED BY <1>2 DEF F!HandFits

LEMMA FirstEventKept == ASSUME F!FeedInv, F!FirstEvent \/ F!FirstEventFails PROVE F!FeedInv'
<1>1. /\ v5.step = "first" /\ UNCHANGED <<v1, v2, v3, v7, v8>> /\ v9 = FALSE
      /\ F!LastClosed' = F!LastClosed
  BY FeedFields DEF F!FirstEvent, F!FirstEventFails, F!FeedInv, F!HandFits, F!LastClosed
<1>2. PICK e \in F!Bars : /\ e = v5.event /\ e.t \in Nat /\ e.t <= v1
                          /\ v3 # <<>> => F!LastClosed \in Nat /\ F!LastClosed < e.t
  BY <1>1, FeedFields DEF F!FeedInv, F!HandFits, F!Bars
<1>3. CASE F!FirstEventFails
  <2>1. v5' = [v5 EXCEPT !.first = FALSE, !.step = "watch"] /\ v9' = TRUE
    BY <1>3 DEF F!FirstEventFails
  <2>2. v5' \in F!Procs /\ v5'.step = "watch" /\ v5'.first = FALSE
    BY <2>1, FeedFields DEF F!Procs, F!Steps
  <2>3. F!HandFits' BY <2>1, <2>2 DEF F!HandFits
  <2> QED BY <1>1, <2>1, <2>2, <2>3, HandMoves
<1>4. CASE F!FirstEvent
  <2> DEFINE gap == v3 # <<>> /\ e.t > F!LastClosed + 1
  <2>1. /\ v9' = FALSE
        /\ v5' = [v5 EXCEPT !.first = FALSE,
                            !.from = IF v3 = <<>> THEN 0 ELSE F!LastClosed,
                            !.step = IF gap THEN "stitch" ELSE "watch",
                            !.prev = IF gap THEN @ ELSE e]
    BY <1>1, <1>2, <1>4 DEF F!FirstEvent
  <2>2. CASE gap
    <3>1. v5' = [v5 EXCEPT !.first = FALSE, !.from = F!LastClosed, !.step = "stitch"]
      BY <2>1, <2>2, FeedFields DEF F!Procs
    <3>2. /\ v5' \in F!Procs /\ v5'.step = "stitch" /\ v5'.from = F!LastClosed /\ v5'.event = e
          /\ v5'.from + 1 < e.t
      BY <1>2, <2>2, <3>1, FeedFields DEF F!Procs, F!Steps
    <3>3. F!HandFits' BY <1>1, <1>2, <2>1, <2>2, <3>2 DEF F!HandFits
    <3> QED BY <1>1, <2>1, <3>2, <3>3, HandMoves
  <2>3. CASE ~gap
    <3>1. v5'.step = "watch" /\ v5'.prev = e /\ v5' \in F!Procs
      BY <1>2, <2>1, <2>3, FeedFields DEF F!Procs, F!Steps
    <3>2. F!Follows(e.t)' BY <1>1, <1>2, <2>3 DEF F!Follows, F!Passed
    <3>3. F!HandFits' BY <1>1, <1>2, <2>1, <3>1, <3>2, Resumes
    <3> QED BY <1>1, <2>1, <3>1, <3>3, HandMoves
  <2> QED BY <2>2, <2>3
<1> QED BY <1>3, <1>4

LEMMA CloseKept == ASSUME F!FeedInv, F!CloseBar \/ F!CloseFails PROVE F!FeedInv'
<1>1. v5.step = "close" /\ UNCHANGED <<v1, v2, v7, v9>> BY DEF F!CloseBar, F!CloseFails
<1>2. PICK p \in F!Bars, e \in F!Bars :
        /\ p = v5.prev /\ e = v5.event /\ p.t \in Nat /\ e.t \in Nat /\ p.t < e.t /\ e.t <= v1
        /\ F!Follows(p.t) \/ F!Repeats(p.t)
  BY <1>1, FeedFields DEF F!FeedInv, F!HandFits, F!Bars
<1>3. v9 = FALSE /\ v5.first = FALSE BY <1>1, FeedFields DEF F!FeedInv, F!HandFits
<1>4. p.t < v1 BY <1>2, FeedFields
<1>5. CASE F!CloseBar
  <2>1. v3' = Append(v3, p) /\ v5' = [v5 EXCEPT !.step = "check"] /\ v8' = v8
    BY <1>2, <1>5 DEF F!CloseBar, F!ToStep
  <2>2. v5' \in F!Procs /\ v5'.step = "check" /\ v5'.prev = p /\ v5'.event = e
    BY <1>2, <2>1, FeedFields DEF F!Procs, F!Steps
  <2>3. v3' # <<>> /\ F!LastClosed' = p.t => F!HandFits'
    BY <1>1, <1>2, <1>3, <2>2 DEF F!HandFits
  <2> QED BY <1>1, <1>2, <1>4, <2>1, <2>2, <2>3, HandWrites
<1>6. CASE F!CloseFails
  <2>1. /\ v5' = [v5 EXCEPT !.step = "watch"]
        /\ \/ v3' = v3 /\ v8' = v8
           \/ v3' = Append(v3, p) /\ v8' = v8 \cup {p.t}
    BY <1>2, <1>6 DEF F!CloseFails, F!ToStep
  <2>2. v5' \in F!Procs /\ v5'.step = "watch" /\ v5'.prev = p
    BY <1>2, <2>1, FeedFields DEF F!Procs, F!Steps
  <2>3. CASE v3' = v3 /\ v8' = v8
    <3>1. F!Follows(p.t)' \/ F!Repeats(p.t)'
      BY <1>1, <1>2, <2>3 DEF F!Follows, F!Repeats, F!Passed, F!LastClosed
    <3>2. p.t <= v1' /\ v9' = FALSE BY <1>1, <1>2, <1>3, <1>4, FeedFields
    <3>3. F!HandFits' BY <2>2, <3>1, <3>2, Resumes
    <3> QED BY <1>1, <1>3, <2>2, <2>3, <3>3, HandMoves
  <2>4. CASE v3' = Append(v3, p) /\ v8' = v8 \cup {p.t}
    <3>1. ASSUME v3' # <<>>, F!LastClosed' = p.t PROVE F!HandFits'
      <4>1. F!Repeats(p.t)' BY <2>4, <3>1 DEF F!Repeats
      <4>2. p.t <= v1' /\ v9' = FALSE BY <1>1, <1>2, <1>3, <1>4, FeedFields
      <4> QED BY <2>2, <4>1, <4>2, Resumes
    <3> QED BY <1>1, <1>2, <1>4, <2>2, <2>4, <3>1, HandWrites
  <2> QED BY <2>1, <2>3, <2>4
<1> QED BY <1>5, <1>6

LEMMA CheckGapKept == ASSUME F!FeedInv, F!CheckGap PROVE F!FeedInv'
<1>1. v5.step = "check" /\ UNCHANGED <<v1, v2, v3, v7, v8, v9>> BY DEF F!CheckGap
<1>2. PICK p \in F!Bars, e \in F!Bars :
        /\ p = v5.prev /\ e = v5.event /\ p.t \in Nat /\ e.t \in Nat /\ p.t < e.t /\ e.t <= v1
        /\ v3 # <<>> /\ F!LastClosed = p.t
  BY <1>1, FeedFields DEF F!FeedInv, F!HandFits, F!Bars
<1>3. v9 = FALSE BY <1>1, FeedFields DEF F!FeedInv, F!HandFits
<1>4. F!LastClosed' = p.t BY <1>1, <1>2 DEF F!LastClosed
<1>5. CASE e.t > p.t + 1
  <2>1. v5' = [v5 EXCEPT !.step = "stitch", !.from = p.t] BY <1>2, <1>5 DEF F!CheckGap
  <2>2. v5' \in F!Procs /\ v5'.step = "stitch" /\ v5'.from = p.t /\ v5'.event = e
    BY <1>2, <2>1, FeedFields DEF F!Procs, F!Steps
  <2>3. F!HandFits' BY <1>1, <1>2, <1>3, <1>4, <1>5, <2>2 DEF F!HandFits
  <2> QED BY <1>1, <1>3, <2>2, <2>3, HandMoves
<1>6. CASE ~(e.t > p.t + 1)
  <2>1. v5' = [v5 EXCEPT !.step = "watch", !.prev = e] BY <1>2, <1>6 DEF F!CheckGap
  <2>2. v5' \in F!Procs /\ v5'.step = "watch" /\ v5'.prev = e
    BY <1>2, <2>1, FeedFields DEF F!Procs, F!Steps
  <2>3. F!Follows(e.t)' BY <1>2, <1>4, <1>6 DEF F!Follows, F!Passed
  <2>4. F!HandFits' BY <1>1, <1>2, <1>3, <2>2, <2>3, Resumes
  <2> QED BY <1>1, <1>3, <2>2, <2>4, HandMoves
<1> QED BY <1>5, <1>6
LEMMA StitchKept == ASSUME F!FeedInv, F!Stitch \/ F!StitchFails PROVE F!FeedInv'
<1>1. v5.step = "stitch" /\ UNCHANGED <<v1, v2, v3, v8, v9>> BY DEF F!Stitch, F!StitchFails
<1>2. PICK e \in F!Bars, l \in Nat :
        /\ e = v5.event /\ e.t \in Nat /\ e.t <= v1
        /\ v3 # <<>> /\ F!LastClosed = l /\ v5.from = l /\ l + 1 < e.t
  BY <1>1, FeedFields DEF F!FeedInv, F!HandFits, F!Bars
<1>3. v9 = FALSE BY <1>1, FeedFields DEF F!FeedInv, F!HandFits
<1>4. F!LastClosed' = l BY <1>1, <1>2 DEF F!LastClosed
<1>5. CASE F!Stitch
  <2>1. PICK to \in Int : /\ to = F!Older(e.t - 1, l + 1 + FetchLimit - 1)
                          /\ to < e.t /\ l <= to
    BY <1>2, FeedAssumption DEF F!Older
  <2>2. PICK todo \in Seq(F!Bars) :
          /\ todo = F!Rest(l + 1, to) /\ Len(todo) = to - l
          /\ \A i \in DOMAIN todo : todo[i].t = l + 1 + i - 1
    <3>1. l + 1 \in Nat /\ (l + 1 > to => to = l) BY <1>2, <2>1
    <3>2. /\ F!Rest(l + 1, to) \in Seq(F!Bars)
          /\ Len(F!Rest(l + 1, to)) = IF l + 1 > to THEN 0 ELSE to - (l + 1) + 1
          /\ \A i \in DOMAIN F!Rest(l + 1, to) : F!Rest(l + 1, to)[i].t = l + 1 + i - 1
      BY <3>1, RestIs
    <3>3. Len(F!Rest(l + 1, to)) = to - l BY <2>1, <3>1, <3>2
    <3> QED BY <3>2, <3>3
  <2>3. /\ v5' = [v5 EXCEPT !.step = "insert", !.todo = todo]
        /\ v7' = v7 \cup (to + 1)..(e.t - 1)
    BY <1>2, <1>5, <2>1, <2>2 DEF F!Stitch, F!Since
  <2>4. v5' \in F!Procs /\ v5'.step = "insert" /\ v5'.event = e /\ v5'.todo = todo
    BY <1>2, <2>3, FeedFields DEF F!Procs, F!Steps
  <2>5. F!InSeries(F!LastClosed + 1)' BY <1>4, <2>2, <2>4 DEF F!InSeries
  <2>6. l + Len(todo) = to
    <3>1. Len(todo) = to - l BY <2>2
    <3> QED BY ONLY <3>1, l \in Nat, to \in Int
  <2>7. F!Passed(F!LastClosed + Len(v5.todo), v5.event.t)'
    BY <1>4, <2>3, <2>4, <2>6 DEF F!Passed
  <2>8. F!HandFits' BY <1>1, <1>2, <1>3, <1>4, <2>1, <2>4, <2>5, <2>6, <2>7 DEF F!HandFits
  <2>9. v7 \subseteq v7' BY <2>3
  <2> QED BY <1>1, <1>3, <2>4, <2>8, <2>9, HandMoves
<1>6. CASE F!StitchFails
  <2>1. /\ v5' = F!Resume(v5) /\ v7' = v7 \cup (l + 1)..(e.t - 1)
    BY <1>2, <1>6 DEF F!StitchFails
  <2>2. v5' \in F!Procs /\ v5'.step = "watch" /\ v5'.prev = e
    BY <1>2, <2>1, FeedFields, EmptySeq DEF F!Procs, F!Steps, F!Resume
  <2>3. F!Follows(e.t)' BY <1>2, <1>4, <2>1 DEF F!Follows, F!Passed
  <2>4. F!HandFits' BY <1>1, <1>2, <1>3, <2>2, <2>3, Resumes
  <2>5. v7 \subseteq v7' BY <2>1
  <2> QED BY <1>1, <1>3, <2>2, <2>4, <2>5, HandMoves
<1> QED BY <1>5, <1>6

LEMMA InsertKept ==
  ASSUME F!FeedInv, F!StitchInsert \/ F!StitchInsertFails \/ F!StitchDone
  PROVE  F!FeedInv'
<1>1. v5.step = "insert" /\ UNCHANGED <<v1, v2, v8, v9>>
  BY DEF F!StitchInsert, F!StitchInsertFails, F!StitchDone
<1>2. PICK e \in F!Bars, l \in Nat, todo \in Seq(F!Bars) :
        /\ e = v5.event /\ e.t \in Nat /\ e.t <= v1
        /\ v3 # <<>> /\ F!LastClosed = l /\ v5.todo = todo
        /\ l + Len(todo) < e.t /\ (l + Len(todo) + 1)..(e.t - 1) \subseteq v7
        /\ \A i \in DOMAIN todo : todo[i].t = l + i
  <2>1. /\ v5.event \in F!Bars /\ v5.event.t <= v1 /\ v3 # <<>> /\ F!InSeries(F!LastClosed + 1)
        /\ F!LastClosed + Len(v5.todo) < v5.event.t
        /\ F!Passed(F!LastClosed + Len(v5.todo), v5.event.t)
    BY <1>1 DEF F!FeedInv, F!HandFits
  <2>2. F!LastClosed \in Nat /\ v5.todo \in Seq(F!Bars) /\ v5.event.t \in Nat
    BY <2>1, FeedFields DEF F!Bars
  <2>3. \A i \in DOMAIN v5.todo : v5.todo[i].t = F!LastClosed + i BY <2>1, <2>2 DEF F!InSeries
  <2> QED BY <2>1, <2>2, <2>3 DEF F!Passed
<1>3. v9 = FALSE BY <1>1, FeedFields DEF F!FeedInv, F!HandFits
<1>4. CASE F!StitchDone
  <2>1. v5' = F!Resume(v5) /\ UNCHANGED <<v3, v7>> /\ todo = <<>> BY <1>2, <1>4 DEF F!StitchDone
  <2>2. v5' \in F!Procs /\ v5'.step = "watch" /\ v5'.prev = e
    BY <1>2, <2>1, FeedFields, EmptySeq DEF F!Procs, F!Steps, F!Resume
  <2>3. F!LastClosed' = l BY <1>2, <2>1 DEF F!LastClosed
  <2>4. F!Follows(e.t)' BY <1>2, <2>1, <2>3 DEF F!Follows, F!Passed
  <2>5. F!HandFits' BY <1>1, <1>2, <1>3, <2>2, <2>4, Resumes
  <2> QED BY <1>1, <1>3, <2>1, <2>2, <2>5, HandMoves
<1>5. ASSUME todo # <<>>
      PROVE  /\ Head(todo) = todo[1] /\ todo[1] \in F!Bars /\ Tail(todo) \in Seq(F!Bars)
             /\ Len(todo) \in Nat \ {0} /\ Len(Tail(todo)) = Len(todo) - 1 /\ 1 \in DOMAIN todo
             /\ todo[1].t = l + 1 /\ l + 1 < e.t
             /\ \A i \in DOMAIN Tail(todo) : Tail(todo)[i].t = l + 1 + i
  <2>1. /\ Head(todo) = todo[1] /\ todo[1] \in F!Bars /\ Tail(todo) \in Seq(F!Bars)
        /\ 1 \in DOMAIN todo
        /\ Len(todo) \in Nat \ {0} /\ Len(Tail(todo)) = Len(todo) - 1
        /\ \A i \in DOMAIN Tail(todo) : i + 1 \in DOMAIN todo /\ Tail(todo)[i] = todo[i + 1]
    BY <1>5, TailIs
  <2>2. \A i \in DOMAIN Tail(todo) : Tail(todo)[i].t = l + 1 + i BY <1>2, <2>1
  <2> QED BY <1>2, <2>1, <2>2
<1>6. ASSUME todo # <<>>
      PROVE  \E c \in F!Bars : c = Head(todo) /\ c.t = l + 1 /\ c.t < v1 /\ F!Follows(c.t)
  <2>1. F!Follows(l + 1) BY <1>2 DEF F!Follows, F!Passed
  <2> QED BY <1>2, <1>5, <1>6, <2>1, FeedFields
<1>7. CASE F!StitchInsert
  <2>1. /\ todo # <<>> /\ v3' = Append(v3, Head(todo)) /\ v7' = v7
        /\ v5' = [v5 EXCEPT !.todo = Tail(todo)]
    BY <1>2, <1>7 DEF F!StitchInsert
  <2>2. PICK c \in F!Bars : c = Head(todo) /\ c.t = l + 1 /\ c.t < v1 /\ F!Follows(c.t)
    BY <1>6, <2>1
  <2>3. v5' \in F!Procs /\ v5'.step = "insert" /\ v5'.event = e /\ v5'.todo = Tail(todo)
    BY <1>1, <1>2, <1>5, <2>1, FeedFields DEF F!Procs
  <2>4. ASSUME v3' # <<>>, F!LastClosed' = c.t PROVE F!HandFits'
    <3>1. F!InSeries(F!LastClosed + 1)'
      BY <1>2, <1>5, <2>1, <2>2, <2>3, <2>4 DEF F!InSeries
    <3>2. F!LastClosed' + Len(Tail(todo)) = l + Len(todo) BY <1>2, <1>5, <2>1, <2>2, <2>4
    <3>3. F!Passed(F!LastClosed + Len(v5.todo), v5.event.t)'
      BY <1>2, <2>1, <2>3, <3>2 DEF F!Passed
    <3> QED BY <1>1, <1>2, <1>3, <2>3, <2>4, <3>1, <3>2, <3>3 DEF F!HandFits
  <2> QED BY <1>1, <2>1, <2>2, <2>3, <2>4, HandWrites
<1>8. CASE F!StitchInsertFails
  <2>1. /\ todo # <<>> /\ v3' \in {v3, Append(v3, Head(todo))} /\ v5' = F!Resume(v5)
        /\ v7' = v7 \cup {c.t : c \in F!ToSet(todo)}
    BY <1>2, <1>8 DEF F!StitchInsertFails
  <2>2. v5' \in F!Procs /\ v5'.step = "watch" /\ v5'.prev = e
    BY <1>2, <2>1, FeedFields, EmptySeq DEF F!Procs, F!Steps, F!Resume
  <2>3. (l + 1)..(e.t - 1) \subseteq v7'
    <3>1. ASSUME NEW n \in (l + 1)..(l + Len(todo)) PROVE n \in v7'
      <4>1. n - l \in DOMAIN todo /\ todo[n - l].t = n BY <1>2, <1>5, <2>1
      <4>2. todo[n - l] \in F!ToSet(todo) BY <4>1 DEF F!ToSet
      <4> QED BY <2>1, <4>1, <4>2
    <3>2. ASSUME NEW n \in (l + 1)..(e.t - 1), n \notin (l + 1)..(l + Len(todo)) PROVE n \in v7'
      <4>1. n \in (l + Len(todo) + 1)..(e.t - 1) BY <1>2, <1>5, <2>1, <3>2
      <4> QED BY <1>2, <2>1, <4>1
    <3> QED BY <3>1, <3>2
  <2>4. v7 \subseteq v7' BY <2>1
  <2>5. CASE v3' = v3
    <3>1. F!LastClosed' = l BY <1>2, <2>5 DEF F!LastClosed
    <3>2. F!Follows(e.t)' BY <1>2, <1>5, <2>1, <2>3, <3>1 DEF F!Follows, F!Passed
    <3>3. F!HandFits' BY <1>1, <1>2, <1>3, <2>2, <3>2, Resumes
    <3> QED BY <1>1, <1>3, <2>2, <2>4, <2>5, <3>3, HandMoves
  <2>6. CASE v3' = Append(v3, Head(todo))
    <3>1. PICK c \in F!Bars : c = Head(todo) /\ c.t = l + 1 /\ c.t < v1 /\ F!Follows(c.t)
      BY <1>6, <2>1
    <3>2. ASSUME v3' # <<>>, F!LastClosed' = c.t PROVE F!HandFits'
      <4>1. (l + 2)..(e.t - 1) \subseteq v7' BY <1>2, <2>3
      <4>2. F!Follows(e.t)' BY <1>2, <1>5, <2>1, <3>1, <3>2, <4>1 DEF F!Follows, F!Passed
      <4> QED BY <1>1, <1>2, <1>3, <2>2, <4>2, Resumes
    <3> QED BY <1>1, <2>2, <2>4, <2>6, <3>1, <3>2, HandWrites
  <2> QED BY <2>1, <2>5, <2>6
<1> QED BY <1>4, <1>7, <1>8

LEMMA FeedNext == F!FeedInv /\ [F!Next]_(F!vars) => F!FeedInv'
<1> SUFFICES ASSUME F!FeedInv, [F!Next]_(F!vars) PROVE F!FeedInv' OBVIOUS
<1>1. CASE F!Next
  BY <1>1, ExchangeKept, RestartKept, WarmupFetchKept, WarmupWriteKept, HearKept, FirstEventKept,
     CloseKept, CheckGapKept, StitchKept, InsertKept DEF F!Next, F!Ingest, F!Environment
<1>2. CASE UNCHANGED F!vars
  <2>1. UNCHANGED <<v1, v2, v3, v5, v7, v8, v9>> BY <1>2 DEF F!vars
  <2> QED BY <2>1, FeedFields, FeedQuiet
<1> QED BY <1>1, <1>2

LEMMA FeedMoves ==
  turn = "candles" /\ [NextServices]_all => turn' = "candles" /\ [F!Next]_(F!vars)
BY DEF NextServices, all, cells, F!vars

\* The candle stream is an unbroken series of closed bars, for any window and fetch limit, any
\* outages, failures and crashes: a bar comes twice only when its insert raised and went
\* through, and is left out only when a stitch failed or the outage was longer than a fetch.
THEOREM FeedIsWholeHolds == SpecServices => []FeedIsWhole
<1> DEFINE Inv == turn = "candles" => F!FeedInv
<1>1. InitServices => Inv BY FeedInit DEF InitServices
<1>2. Inv /\ [NextServices]_all => Inv'
  <2> SUFFICES ASSUME Inv, [NextServices]_all PROVE Inv' OBVIOUS
  <2>1. turn' = turn \/ turn = "candles" BY DEF NextServices, all
  <2> QED BY <2>1, FeedNext, FeedMoves
<1>3. Inv => FeedIsWhole BY DEF F!FeedInv, FeedIsWhole
<1> QED BY <1>1, <1>2, <1>3, PTL DEF SpecServices

-------------------------------------------------------------------------------
(* The key pool: v1 kind, v2 table, v3 pool, v4 calls, v5 now,             *)
(* v9 misjudged.                                                           *)

Keys == 1..KeyCount

LEMMA CardinalityIs == ASSUME NEW S PROVE K!Cardinality(S) = Cardinality(S)
BY DEF K!Cardinality, Cardinality

LEMMA FirstIs ==
  ASSUME NEW S, S \subseteq Keys
  PROVE  IF S = {} THEN K!First(S) = 0 ELSE K!First(S) \in S
<1>1. CASE S = {} BY <1>1 DEF K!First
<1>2. CASE S # {}
  <2>1. S \subseteq {1, 2, 3} BY KeysAssumption DEF Keys
  <2>2. \E k \in S : \A j \in S : k <= j
    <3>1. CASE 1 \in S BY <2>1, <3>1
    <3>2. CASE 1 \notin S /\ 2 \in S BY <2>1, <3>2
    <3>3. CASE 1 \notin S /\ 2 \notin S
      <4>1. S = {3} BY <1>2, <2>1, <3>3
      <4> QED BY <4>1
    <3> QED BY <3>1, <3>2, <3>3
  <2> QED BY <1>2, <2>2 DEF K!First
<1> QED BY <1>1, <1>2

\* A usable key is asked first, and one that has not been tried next.
LEMMA AcquireIs ==
  ASSUME NEW p
  PROVE  K!Acquire(p) \in Keys \cup {0} /\ (K!Usable(p) # {} => K!Acquire(p) \in Keys)
<1>1. K!Usable(p) \subseteq Keys BY DEF K!Usable, Keys
<1>2. {k \in K!Alive(p) : \A j \in K!Alive(p) : p[k].until <= p[j].until} \subseteq Keys
  BY DEF K!Alive, Keys
<1>3. K!LeastCooled(p) \in Keys \cup {0} BY <1>2, FirstIs DEF K!LeastCooled
<1>4. K!Usable(p) # {} => K!First(K!Usable(p)) \in Keys BY <1>1, FirstIs
<1> QED BY <1>3, <1>4 DEF K!Acquire

LEMMA AcquireAfterIs ==
  ASSUME NEW p, NEW tried
  PROVE  IF K!Usable(p) \subseteq tried THEN K!AcquireAfter(p, tried) = 0
         ELSE K!AcquireAfter(p, tried) \in Keys \ tried
<1>1. K!Usable(p) \ tried \subseteq Keys BY DEF K!Usable, Keys
<1>2. K!Usable(p) \ tried = {} <=> K!Usable(p) \subseteq tried OBVIOUS
<1>3. IF K!Usable(p) \ tried = {} THEN K!First(K!Usable(p) \ tried) = 0
      ELSE K!First(K!Usable(p) \ tried) \in K!Usable(p) \ tried
  BY <1>1, FirstIs
<1> QED BY <1>1, <1>2, <1>3 DEF K!AcquireAfter

LEMMA TriedIsFinite ==
  /\ IsFiniteSet(Keys) /\ Cardinality(Keys) <= 3
  /\ \A tried \in SUBSET Keys : IsFiniteSet(tried)
<1>1. KeyCount \in Nat /\ KeyCount <= 3 BY KeysAssumption
<1>2. IsFiniteSet(Keys) /\ Cardinality(Keys) = KeyCount
  BY <1>1, FS_Interval DEF Keys
<1> QED BY <1>1, <1>2, FS_Subset

LEMMA NoKey == 0 \notin Keys BY KeysAssumption DEF Keys

\* The sets of a call's fields, for the provers not to look into.
KeyOrNone == Keys \cup {0}
VersionOrNone == K!Versions \cup {0}
Lefts == 0..2
Stages == {"idle", "asking", "exhausted"}

LEMMA CallSetIs ==
  K!CallSet = [at : Stages, candidate : Nat, key : KeyOrNone, version : VersionOrNone,
               tried : SUBSET Keys, left : Lefts, broken : Nat, hopes : SUBSET Keys]
BY DEF K!CallSet, KeyOrNone, VersionOrNone, Lefts, Stages, K!MaxKeys, Keys

LEMMA IdleIs == K!Idle \in K!CallSet
BY CallSetIs DEF K!Idle, Stages, KeyOrNone, VersionOrNone, Lefts

LEMMA CandidateIs ==
  ASSUME NEW c \in K!CallSet, NEW p \in [Keys -> K!Entries], NEW n \in Nat
  PROVE  /\ K!Candidate(c, p, n) \in K!CallSet /\ K!Candidate(c, p, n).at = "asking"
         /\ K!Candidate(c, p, n).candidate = n /\ K!Candidate(c, p, n).key = K!Acquire(p)
         /\ K!Candidate(c, p, n).tried = {} /\ K!Candidate(c, p, n).left = 2
         /\ K!Candidate(c, p, n).broken = c.broken /\ K!Candidate(c, p, n).hopes = c.hopes
<1>1. PICK k : k = K!Acquire(p) OBVIOUS
<1>2. PICK v : v = (IF k = 0 THEN 0 ELSE p[k].version) OBVIOUS
<1>3. k \in KeyOrNone /\ v \in VersionOrNone
  <2>1. k \in Keys \cup {0} BY <1>1, AcquireIs
  <2> QED BY <1>2, <2>1 DEF K!Entries, KeyOrNone, VersionOrNone
<1>4. PICK d : d = [c EXCEPT !.candidate = n, !.tried = {}, !.left = 3] OBVIOUS
<1>5. /\ d = [at |-> c.at, candidate |-> n, key |-> c.key, version |-> c.version, tried |-> {},
              left |-> 3, broken |-> c.broken, hopes |-> c.hopes]
      /\ c.broken \in Nat /\ c.hopes \in SUBSET Keys
  BY <1>4, CallSetIs
<1>5a. d.left - 1 = 2 BY <1>5
<1>6. K!Candidate(c, p, n) = [d EXCEPT !.at = "asking", !.key = k, !.version = v, !.left = 2]
  BY <1>1, <1>2, <1>4, <1>5a DEF K!Candidate, K!Asks, K!MaxKeys
<1>7. K!Candidate(c, p, n) =
        [at |-> "asking", candidate |-> n, key |-> k, version |-> v, tried |-> {}, left |-> 2,
         broken |-> c.broken, hopes |-> c.hopes]
  BY <1>5, <1>6
<1>8. "asking" \in Stages /\ {} \in SUBSET Keys /\ 2 \in Lefts BY DEF Stages, Lefts
<1>9. K!Candidate(c, p, n) \in K!CallSet BY <1>3, <1>5, <1>7, <1>8, CallSetIs
<1> QED BY <1>1, <1>7, <1>9

LEMMA MovesOnIs ==
  ASSUME NEW c \in K!CallSet, NEW p \in [Keys -> K!Entries]
  PROVE  /\ K!MovesOn(c, p) \in K!CallSet
         /\ K!MovesOn(c, p).broken = c.broken /\ K!MovesOn(c, p).hopes = c.hopes
         /\ \/ /\ K!MovesOn(c, p).at = "asking" /\ K!MovesOn(c, p).candidate = c.candidate + 1
               /\ K!MovesOn(c, p).key = K!Acquire(p)
               /\ K!MovesOn(c, p).tried = {} /\ K!MovesOn(c, p).left = 2
            \/ K!MovesOn(c, p).at = "exhausted" /\ ~(c.candidate < Models)
<1>1. c.candidate \in Nat /\ c.candidate + 1 \in Nat BY CallSetIs
<1>2. CASE c.candidate < Models
  <2>1. PICK n \in Nat : n = c.candidate + 1 BY <1>1
  <2>2. K!MovesOn(c, p) = K!Candidate(c, p, n) BY <1>2, <2>1 DEF K!MovesOn
  <2>3. /\ K!MovesOn(c, p) \in K!CallSet /\ K!MovesOn(c, p).at = "asking"
        /\ K!MovesOn(c, p).candidate = n /\ K!MovesOn(c, p).key = K!Acquire(p)
        /\ K!MovesOn(c, p).tried = {} /\ K!MovesOn(c, p).left = 2
        /\ K!MovesOn(c, p).broken = c.broken /\ K!MovesOn(c, p).hopes = c.hopes
    BY <2>2, CandidateIs
  <2> QED BY <2>1, <2>3
<1>3. CASE ~(c.candidate < Models)
  <2>1. K!MovesOn(c, p) = [K!Idle EXCEPT !.at = "exhausted", !.broken = c.broken, !.hopes = c.hopes]
    BY <1>3 DEF K!MovesOn
  <2>2. K!MovesOn(c, p) =
          [at |-> "exhausted", candidate |-> 0, key |-> 0, version |-> 0, tried |-> {}, left |-> 0,
           broken |-> c.broken, hopes |-> c.hopes]
    BY <2>1 DEF K!Idle
  <2>3. /\ "exhausted" \in Stages /\ 0 \in KeyOrNone /\ 0 \in VersionOrNone /\ {} \in SUBSET Keys
        /\ 0 \in Lefts
    BY DEF Stages, KeyOrNone, VersionOrNone, Lefts
  <2>4. c.broken \in Nat /\ c.hopes \in SUBSET Keys BY CallSetIs
  <2>5. K!MovesOn(c, p) \in K!CallSet BY <2>2, <2>3, <2>4, CallSetIs
  <2> QED BY <1>3, <2>2, <2>5
<1> QED BY <1>2, <1>3

LEMMA RotatesIs ==
  ASSUME NEW c \in K!CallSet, NEW p \in [Keys -> K!Entries], c.key \in Keys,
         NEW k, k = K!AcquireAfter(p, c.tried \cup {c.key})
  PROVE  /\ K!Rotates(c, p) \in K!CallSet
         /\ K!Rotates(c, p).broken = c.broken /\ K!Rotates(c, p).hopes = c.hopes
         /\ c.left # 0 /\ k # 0 =>
              /\ K!Rotates(c, p).at = "asking" /\ K!Rotates(c, p).candidate = c.candidate
              /\ K!Rotates(c, p).key = k /\ K!Rotates(c, p).left = c.left - 1
              /\ K!Rotates(c, p).tried = c.tried \cup {c.key}
<1>1. CASE c.left = 0 \/ k = 0 BY <1>1, MovesOnIs DEF K!Rotates
<1>2. CASE ~(c.left = 0 \/ k = 0)
  <2>1. k \in Keys BY <1>2, AcquireAfterIs
  <2>2. PICK v : v = p[k].version OBVIOUS
  <2>3. k \in KeyOrNone /\ v \in VersionOrNone
    BY <2>1, <2>2 DEF K!Entries, KeyOrNone, VersionOrNone
  <2>4. c.left - 1 \in Lefts /\ "asking" \in Stages BY <1>2, CallSetIs DEF Lefts, Stages
  <2>5. c.tried \cup {c.key} \in SUBSET Keys BY CallSetIs
  <2>6. c.candidate \in Nat /\ c.broken \in Nat /\ c.hopes \in SUBSET Keys BY CallSetIs
  <2>7. PICK tried : tried = c.tried \cup {c.key} OBVIOUS
  <2>8. K!Rotates(c, p) =
          [[c EXCEPT !.tried = tried] EXCEPT !.at = "asking", !.key = k, !.version = v,
                                            !.left = @ - 1]
    BY <1>2, <2>2, <2>7, NoKey, <2>1 DEF K!Rotates, K!Asks
  <2>9. K!Rotates(c, p) =
          [at |-> "asking", candidate |-> c.candidate, key |-> k, version |-> v, tried |-> tried,
           left |-> c.left - 1, broken |-> c.broken, hopes |-> c.hopes]
    BY <2>8, CallSetIs
  <2>10. K!Rotates(c, p) \in K!CallSet
    BY <2>3, <2>4, <2>5, <2>6, <2>7, <2>9, CallSetIs
  <2> QED BY <2>7, <2>9, <2>10
<1> QED BY <1>1, <1>2

LEMMA PoolInit == K!Init => K!PoolInv
<1> SUFFICES ASSUME K!Init PROVE K!PoolInv OBVIOUS
<1>1. v1 \in [Keys -> {"good", "limited", "revoked"}] BY KeyWorldsAssumption DEF K!Init, Keys
<1>2. v2 \in [Keys -> K!Versions] /\ v3 \in [Keys -> K!Entries] /\ v5 \in Nat
  BY DEF K!Init, K!Entry, K!Entries, K!Versions, Keys
<1>4. v4 \in [Askers -> K!CallSet] BY IdleIs DEF K!Init
<1>5. \A k \in Keys : v3[k].version = 1 BY DEF K!Init, K!Entry, Keys
<1>6. K!GoodIsUsable BY DEF K!Init, K!GoodIsUsable, K!Usable, K!Entry, Keys
<1>7. \A u \in Askers : K!CallFits(u) BY DEF K!Init, K!CallFits, K!Idle
<1> QED BY <1>1, <1>2, <1>4, <1>5, <1>6, <1>7 DEF K!PoolInv, K!PoolTypes, Keys

LEMMA PoolFields ==
  ASSUME K!PoolInv
  PROVE  /\ v1 \in [Keys -> {"good", "limited", "revoked"}]
         /\ v2 \in [Keys -> K!Versions] /\ v3 \in [Keys -> K!Entries]
         /\ v4 \in [Askers -> K!CallSet] /\ v5 \in Nat
         /\ \A k \in Keys : v3[k].version = 2 => v2[k] = 2
         /\ \A k \in Keys \ v9 : K!Good(k) => k \in K!Usable(v3)
BY DEF K!PoolInv, K!PoolTypes, K!GoodIsUsable, Keys

\* One call moves to d while the others wait: theirs fit as before if no good key turns bad.
LEMMA CallsFit ==
  ASSUME K!PoolInv, NEW u \in Askers, NEW d \in K!CallSet, v4' = [v4 EXCEPT ![u] = d],
         v9 \subseteq v9', \A h \in Keys \ v9' : K!Good(h) => K!Good(h)',
         \A h \in d.hopes \ v9' :
           /\ d.at = "asking" => K!MayReach(d, h)'
           /\ d.at = "exhausted" => d.broken >= Models
  PROVE  v4' \in [Askers -> K!CallSet] /\ \A w \in Askers : K!CallFits(w)'
<1>1. v4' \in [Askers -> K!CallSet] /\ v4'[u] = d /\ \A w \in Askers \ {u} : v4'[w] = v4[w]
  BY PoolFields
<1>2. K!CallFits(u)' BY <1>1 DEF K!CallFits, K!MayReach
<1>3. ASSUME NEW w \in Askers, w # u PROVE K!CallFits(w)'
  <2>1. v4'[w] = v4[w] /\ v4[w] \in K!CallSet /\ K!CallFits(w)
    BY <1>1, <1>3, PoolFields DEF K!PoolInv
  <2>2. v4[w].hopes \subseteq Keys BY <2>1, CallSetIs
  <2>3. ASSUME NEW h \in v4'[w].hopes \ v9'
        PROVE  /\ v4'[w].at = "asking" => K!MayReach(v4[w], h)'
               /\ v4'[w].at = "exhausted" => v4'[w].broken >= Models
    <3>1. h \in v4[w].hopes \ v9 /\ h \in Keys \ v9' BY <2>1, <2>2, <2>3
    <3>2. v4[w].at = "exhausted" => v4[w].broken >= Models BY <2>1, <3>1 DEF K!CallFits
    <3>3. ASSUME v4[w].at = "asking" PROVE K!MayReach(v4[w], h)'
      <4>1. K!MayReach(v4[w], h) BY <2>1, <3>1, <3>3 DEF K!CallFits
      <4>2. K!Good(h)' BY <3>1, <4>1 DEF K!MayReach
      <4> QED BY <2>1, <4>1, <4>2 DEF K!MayReach
    <3> QED BY <2>1, <3>2, <3>3
  <2> QED BY <2>3 DEF K!CallFits, K!MayReach
<1> QED BY <1>1, <1>2, <1>3

\* A candidate's first key, when a good one is left.
LEMMA FreshReaches ==
  ASSUME NEW d \in K!CallSet, NEW p \in [Keys -> K!Entries], NEW h \in Keys, h \in K!Usable(p),
         K!Good(h)', d.at = "asking", d.key = K!Acquire(p), d.tried = {}, d.left = 2,
         d.broken + 1 >= d.candidate
  PROVE  K!MayReach(d, h)'
<1>1. d.key \in Keys BY AcquireIs
<1>2. K!Cardinality(d.tried) = 0 BY CardinalityIs, FS_EmptySet
<1>3. d.left + K!Cardinality(d.tried) + 1 = 3 BY <1>2
<1> QED BY <1>1, <1>3, NoKey DEF K!MayReach, K!MaxKeys

\* The call gives its candidate up: nobody can hope for more, or the candidate broke down.
LEMMA MovedOnFits ==
  ASSUME NEW c \in K!CallSet, NEW p \in [Keys -> K!Entries], NEW h \in Keys, h \in K!Usable(p),
         K!Good(h)', c.broken >= c.candidate, NEW d, d = K!MovesOn(c, p)
  PROVE  /\ d.at = "asking" => K!MayReach(d, h)'
         /\ d.at = "exhausted" => d.broken >= Models
<1>1. c.candidate \in Nat /\ c.broken \in Nat /\ Models \in Nat BY CallSetIs, KeysAssumption
<1>2. d \in K!CallSet /\ d.broken = c.broken BY MovesOnIs
<1>3. ASSUME d.at = "asking" PROVE K!MayReach(d, h)'
  <2>1. d.candidate = c.candidate + 1 /\ d.key = K!Acquire(p) /\ d.tried = {} /\ d.left = 2
    BY <1>3, MovesOnIs
  <2>2. d.broken + 1 >= d.candidate BY <1>1, <1>2, <2>1
  <2> QED BY <1>2, <1>3, <2>1, <2>2, FreshReaches
<1>4. d.at = "exhausted" => ~(c.candidate < Models) BY MovesOnIs
<1> QED BY <1>1, <1>2, <1>3, <1>4

LEMMA BeginKept == ASSUME K!PoolInv, NEW u \in Askers, K!Begin(u) PROVE K!PoolInv'
<1>1. PICK c : c = [K!Idle EXCEPT !.hopes = {k \in Keys : K!Good(k)}] OBVIOUS
<1>2. c = [at |-> "idle", candidate |-> 0, key |-> 0, version |-> 0, tried |-> {}, left |-> 0,
           broken |-> 0, hopes |-> {k \in Keys : K!Good(k)}]
  BY <1>1 DEF K!Idle
<1>3. c \in K!CallSet /\ c.broken = 0 /\ c.hopes \subseteq Keys
  BY <1>2, CallSetIs DEF Stages, KeyOrNone, VersionOrNone, Lefts
<1>4. PICK d : d = K!Candidate(c, v3, 1) OBVIOUS
<1>5. /\ d \in K!CallSet /\ d.at = "asking" /\ d.candidate = 1 /\ d.key = K!Acquire(v3)
      /\ d.tried = {} /\ d.left = 2 /\ d.broken = 0 /\ d.hopes = c.hopes
  <2>1. PICK n \in Nat : n = 1 OBVIOUS
  <2>2. PICK p \in [Keys -> K!Entries] : p = v3 BY PoolFields
  <2>3. d = K!Candidate(c, p, n) BY <1>4, <2>1, <2>2
  <2>4. /\ d \in K!CallSet /\ d.at = "asking" /\ d.candidate = n /\ d.key = K!Acquire(p)
        /\ d.tried = {} /\ d.left = 2 /\ d.broken = c.broken /\ d.hopes = c.hopes
    BY <1>3, <2>3, CandidateIs
  <2> QED BY <1>3, <2>1, <2>2, <2>4
<1>6. v4' = [v4 EXCEPT ![u] = d] BY <1>1, <1>4 DEF K!Begin, Keys
<1>7. UNCHANGED <<v1, v2, v3, v5, v9>> BY DEF K!Begin
<1>8. \A h \in Keys : K!Good(h)' = K!Good(h) BY <1>7 DEF K!Good, K!KindOf
<1>9. ASSUME NEW h \in d.hopes \ v9' PROVE K!MayReach(d, h)'
  <2>1. h \in Keys \ v9 /\ K!Good(h) BY <1>2, <1>3, <1>5, <1>7, <1>9
  <2>2. h \in K!Usable(v3) /\ K!Good(h)' BY <1>8, <2>1, PoolFields
  <2> QED BY <1>5, <2>1, <2>2, FreshReaches, PoolFields
<1>10. v4' \in [Askers -> K!CallSet] /\ \A w \in Askers : K!CallFits(w)'
  BY <1>5, <1>6, <1>7, <1>8, <1>9, CallsFit
<1>11. K!GoodIsUsable' BY <1>7, <1>8 DEF K!PoolInv, K!GoodIsUsable, K!Usable, Keys
<1> QED BY <1>7, <1>10, <1>11, PoolFields DEF K!PoolInv, K!PoolTypes, Keys

\* The report of a call on the key it asked: what the call then does, when that key did not
\* serve it and keeps its version.
LEMMA ReportKept ==
  ASSUME K!PoolInv, NEW u \in Askers, NEW key, key = v4[u].key, key # 0, NEW e \in K!Entries,
         v4[u].at = "asking", e.version = v3[key].version, K!Report(u, e),
         K!KindOf(key, v4[u].version) # "good"
  PROVE  K!PoolInv'
<1>1. PICK c \in K!CallSet : c = v4[u] BY PoolFields
<1>2. key \in Keys /\ c.key \in Keys BY <1>1, CallSetIs DEF KeyOrNone
<1>3. PICK p \in [Keys -> K!Entries] : p = [v3 EXCEPT ![key] = e] BY <1>2, PoolFields
<1>4. /\ p[key] = e /\ v3 \in [Keys -> K!Entries]
      /\ \A k \in Keys \ {key} : p[k] = v3[k]
  BY <1>2, <1>3, PoolFields
<1>5. PICK d : d = K!Rotates(c, p) OBVIOUS
<1>6. v3' = p /\ v4' = [v4 EXCEPT ![u] = d] /\ UNCHANGED <<v1, v2, v5>>
  BY <1>1, <1>3, <1>5 DEF K!Report
<1>7. v9 \subseteq v9' /\ (c.version # e.version => key \in v9')
  BY <1>1 DEF K!Report
<1>8. \A k \in Keys : p[k].version = v3[k].version BY <1>4
<1>9. \A k \in Keys : K!Good(k)' = K!Good(k) BY <1>6, <1>8 DEF K!Good, K!KindOf
<1>10. ~K!Good(key) \/ key \in v9' BY <1>1, <1>7 DEF K!Good, K!KindOf
<1>11. ASSUME NEW k \in Keys \ v9', K!Good(k) PROVE k # key /\ k \in K!Usable(p)
  <2>1. k # key BY <1>10, <1>11
  <2>2. k \in K!Usable(v3) BY <1>7, <1>11, PoolFields
  <2> QED BY <1>4, <2>1, <2>2 DEF K!Usable
<1>12. K!GoodIsUsable'
  BY <1>6, <1>9, <1>11 DEF K!GoodIsUsable, K!Usable, Keys
<1>13. d \in K!CallSet /\ d.hopes = c.hopes /\ c.hopes \subseteq Keys
  BY <1>2, <1>5, RotatesIs, CallSetIs
<1>14. ASSUME NEW h \in d.hopes \ v9'
       PROVE  /\ d.at = "asking" => K!MayReach(d, h)'
              /\ d.at = "exhausted" => d.broken >= Models
  <2>1. h \in Keys \ v9' /\ h \in v4[u].hopes \ v9 BY <1>1, <1>7, <1>13, <1>14
  <2>2. K!MayReach(c, h) BY <1>1, <2>1 DEF K!PoolInv, K!CallFits
  <2>3. h # key /\ h \in K!Usable(p) /\ K!Good(h)' BY <1>9, <1>11, <2>1, <2>2 DEF K!MayReach
  <2>4. h \notin c.tried /\ key \notin c.tried /\ c.tried \subseteq Keys
    BY <1>1, <2>2, CallSetIs DEF K!MayReach
  <2>5. PICK tried \in SUBSET Keys : tried = c.tried \cup {key} BY <1>2, <2>4
  <2>6. IsFiniteSet(c.tried) /\ Cardinality(tried) = Cardinality(c.tried) + 1
        /\ Cardinality(c.tried) \in Nat
    BY <2>4, <2>5, TriedIsFinite, FS_AddElement, FS_CardinalityType
  <2>7. Cardinality(tried) + 1 <= 3
    <3>1. IsFiniteSet(tried) /\ IsFiniteSet(Keys) /\ Cardinality(Keys) <= 3 BY TriedIsFinite
    <3>2. Cardinality(tried \cup {h}) = Cardinality(tried) + 1
      BY <2>3, <2>4, <2>5, <3>1, FS_AddElement
    <3>3. Cardinality(tried \cup {h}) <= Cardinality(Keys)
      BY <2>1, <3>1, FS_Subset
    <3>4. Cardinality(tried) \in Nat /\ Cardinality(Keys) \in Nat BY <3>1, FS_CardinalityType
    <3> QED BY <3>1, <3>2, <3>3, <3>4
  <2>8. c.left + Cardinality(c.tried) + 1 = 3 /\ c.left \in 0..2
    BY <2>2, CardinalityIs, CallSetIs DEF K!MayReach, K!MaxKeys, Lefts
  <2>9. c.left # 0 BY <2>6, <2>7, <2>8
  <2>10. PICK k : k = K!AcquireAfter(p, tried) OBVIOUS
  <2>11. k \in Keys \ tried /\ k # 0
    <3>1. ~(K!Usable(p) \subseteq tried) BY <2>3, <2>4, <2>5
    <3> QED BY <2>10, <3>1, AcquireAfterIs, NoKey
  <2>12. k = K!AcquireAfter(p, c.tried \cup {c.key}) BY <1>1, <2>5, <2>10
  <2>13. /\ d.at = "asking" /\ d.candidate = c.candidate /\ d.key = k /\ d.left = c.left - 1
         /\ d.tried = tried /\ d.broken = c.broken
    <3>1. /\ K!Rotates(c, p).broken = c.broken
          /\ c.left # 0 /\ k # 0 =>
               /\ K!Rotates(c, p).at = "asking" /\ K!Rotates(c, p).candidate = c.candidate
               /\ K!Rotates(c, p).key = k /\ K!Rotates(c, p).left = c.left - 1
               /\ K!Rotates(c, p).tried = c.tried \cup {c.key}
      BY ONLY <1>2, <2>12, RotatesIs
    <3>2. c.tried \cup {c.key} = tried BY <1>1, <2>5
    <3> QED BY <1>5, <2>9, <2>11, <3>1, <3>2
  <2>14. d.left + K!Cardinality(d.tried) + 1 = 3
    BY <2>6, <2>8, <2>13, CardinalityIs
  <2>15. d.broken + 1 >= d.candidate BY <2>2, <2>13 DEF K!MayReach
  <2>16. h \notin d.tried BY <2>3, <2>4, <2>5, <2>13
  <2> QED BY <2>3, <2>11, <2>13, <2>14, <2>15, <2>16 DEF K!MayReach, K!MaxKeys
<1>15. v4' \in [Askers -> K!CallSet] /\ \A w \in Askers : K!CallFits(w)'
  BY <1>6, <1>7, <1>9, <1>13, <1>14, CallsFit
<1>16. \A k \in Keys : p[k].version = 2 => v2[k] = 2 BY <1>8, PoolFields
<1> QED BY <1>6, <1>12, <1>15, <1>16, PoolFields DEF K!PoolInv, K!PoolTypes, Keys

LEMMA AnswerFields ==
  ASSUME K!PoolInv, NEW u \in Askers, v4[u].at = "asking", v4[u].key # 0
  PROVE  v4[u].key \in Keys /\ v3[v4[u].key] \in K!Entries
BY PoolFields, CallSetIs DEF KeyOrNone

LEMMA AnswerLimitedKept ==
  ASSUME K!PoolInv, NEW u \in Askers, K!AnswerLimited(u) PROVE K!PoolInv'
<1>1. PICK key : key = v4[u].key OBVIOUS
<1>2. /\ v4[u].at = "asking" /\ key # 0 /\ K!KindOf(key, v4[u].version) # "good"
      /\ K!Report(u, K!Strike(v3[key]))
  BY <1>1 DEF K!AnswerLimited, K!Answer
<1>3. PICK old \in K!Entries : old = v3[key] BY <1>1, <1>2, AnswerFields
<1>4. K!Strike(old) \in K!Entries /\ K!Strike(old).version = old.version
  <2>1. old.strikes \in Nat BY DEF K!Entries
  <2>2. PICK n \in Nat : n = (IF old.strikes < 2 THEN old.strikes + 1 ELSE 2) BY <2>1
  <2>3. PICK t \in Nat : t = v5 + n BY PoolFields
  <2>4. K!Strike(old) = [old EXCEPT !.strikes = n, !.until = t]
    BY <2>2, <2>3 DEF K!Strike, K!MaxCooldown
  <2> QED BY <2>4 DEF K!Entries
<1>5. PICK e \in K!Entries : e = K!Strike(old) BY <1>4
<1>6. K!Report(u, e) /\ e.version = v3[key].version BY <1>2, <1>3, <1>4, <1>5
<1> QED BY <1>1, <1>2, <1>6, ReportKept

LEMMA AnswerRefusedKept ==
  ASSUME K!PoolInv, NEW u \in Askers, K!AnswerRefused(u) PROVE K!PoolInv'
<1>1. PICK key : key = v4[u].key OBVIOUS
<1>2. /\ v4[u].at = "asking" /\ key # 0 /\ K!KindOf(key, v4[u].version) # "good"
      /\ K!Report(u, [v3[key] EXCEPT !.dead = TRUE])
  BY <1>1 DEF K!AnswerRefused, K!Answer
<1>3. PICK old \in K!Entries : old = v3[key] BY <1>1, <1>2, AnswerFields
<1>4. PICK e \in K!Entries : e = [old EXCEPT !.dead = TRUE] /\ e.version = old.version
  <2>1. TRUE \in BOOLEAN OBVIOUS
  <2>2. \A b \in BOOLEAN : /\ [old EXCEPT !.dead = b] \in K!Entries
                           /\ [old EXCEPT !.dead = b].version = old.version
    BY DEF K!Entries
  <2> QED BY <2>1, <2>2
<1>5. K!Report(u, e) /\ e.version = v3[key].version BY <1>2, <1>3, <1>4
<1> QED BY <1>1, <1>2, <1>5, ReportKept

\* The strikes of one entry are forgotten: nothing else is.
LEMMA StrikesForgotten ==
  ASSUME K!PoolInv, NEW key \in Keys, v3' = [v3 EXCEPT ![key].strikes = 0] \/ v3' = v3
  PROVE  /\ v3' \in [Keys -> K!Entries]
         /\ \A k \in Keys : /\ v3'[k].version = v3[k].version /\ v3'[k].until = v3[k].until
                            /\ v3'[k].dead = v3[k].dead
<1>1. CASE v3' = v3 BY <1>1, PoolFields
<1>2. CASE v3' = [v3 EXCEPT ![key].strikes = 0]
  <2>1. PICK e : e = [v3[key] EXCEPT !.strikes = 0] OBVIOUS
  <2>2. e \in K!Entries /\ e.version = v3[key].version /\ e.until = v3[key].until
        /\ e.dead = v3[key].dead
    BY <2>1, PoolFields DEF K!Entries
  <2>3. v3' = [v3 EXCEPT ![key] = e] BY <1>2, <2>1
  <2>4. v3'[key] = e /\ \A k \in Keys \ {key} : v3'[k] = v3[k] BY <2>3, PoolFields
  <2>5. v3' \in [Keys -> K!Entries] BY <2>2, <2>3, PoolFields
  <2> QED BY <2>2, <2>4, <2>5
<1> QED BY <1>1, <1>2

\* A step of one call that leaves the keys as they were.
LEMMA KeysKept ==
  ASSUME K!PoolInv, UNCHANGED <<v1, v2, v5, v9>>, v3' \in [Keys -> K!Entries],
         \A k \in Keys : /\ v3'[k].version = v3[k].version /\ v3'[k].until = v3[k].until
                         /\ v3'[k].dead = v3[k].dead,
         NEW u \in Askers, NEW d \in K!CallSet, v4' = [v4 EXCEPT ![u] = d],
         \A h \in d.hopes \ v9 :
           K!Good(h)' =>
             /\ d.at = "asking" => K!MayReach(d, h)'
             /\ d.at = "exhausted" => d.broken >= Models,
         d.hopes \ v9 \subseteq {k \in Keys : K!Good(k)}
  PROVE  K!PoolInv'
<1>1. \A k \in Keys : K!Good(k)' = K!Good(k) BY DEF K!Good, K!KindOf
<1>2. K!GoodIsUsable'
  BY <1>1, PoolFields DEF K!GoodIsUsable, K!Usable, Keys
<1>3. \A h \in d.hopes \ v9' : K!Good(h)' BY <1>1
<1>4. v4' \in [Askers -> K!CallSet] /\ \A w \in Askers : K!CallFits(w)'
  BY <1>1, <1>3, CallsFit
<1>5. \A k \in Keys : v3'[k].version = 2 => v2'[k] = 2 BY PoolFields
<1> QED BY <1>2, <1>4, <1>5, PoolFields DEF K!PoolInv, K!PoolTypes, Keys

LEMMA AnswerServedKept ==
  ASSUME K!PoolInv, NEW u \in Askers, K!AnswerServed(u) PROVE K!PoolInv'
<1>1. PICK key \in Keys : key = v4[u].key BY AnswerFields DEF K!AnswerServed, K!Answer
<1>2. /\ v3' = [v3 EXCEPT ![key].strikes = 0] /\ v4' = [v4 EXCEPT ![u] = K!Idle]
      /\ UNCHANGED <<v1, v2, v5, v9>>
  BY <1>1 DEF K!AnswerServed
<1>3. PICK d \in K!CallSet : d = K!Idle BY IdleIs
<1>4. d.hopes = {} BY <1>3 DEF K!Idle
<1>5. /\ v3' \in [Keys -> K!Entries]
      /\ \A k \in Keys : /\ v3'[k].version = v3[k].version /\ v3'[k].until = v3[k].until
                         /\ v3'[k].dead = v3[k].dead
  BY <1>2, StrikesForgotten
<1> QED BY <1>2, <1>3, <1>4, <1>5, KeysKept

LEMMA AnswerBrokenKept ==
  ASSUME K!PoolInv, NEW u \in Askers, K!AnswerBroken(u) PROVE K!PoolInv'
<1>1. PICK key \in Keys : key = v4[u].key BY AnswerFields DEF K!AnswerBroken
<1>2. PICK c \in K!CallSet : c = v4[u] BY PoolFields
<1>3. PICK b \in K!CallSet : b = [c EXCEPT !.broken = @ + 1]
  <2>1. c.broken + 1 \in Nat BY CallSetIs
  <2> QED BY <2>1, CallSetIs
<1>4. b.broken = c.broken + 1 /\ b.candidate = c.candidate /\ b.hopes = c.hopes BY <1>3, CallSetIs
<1>5. PICK p \in [Keys -> K!Entries] : p = v3 BY PoolFields
<1>6. PICK d : d = K!MovesOn(b, p) OBVIOUS
<1>7. /\ v4' = [v4 EXCEPT ![u] = d] /\ UNCHANGED <<v1, v2, v5, v9>> /\ c.at = "asking"
      /\ v3' = [v3 EXCEPT ![key].strikes = 0] \/ v3' = v3
  <2>1. v4' = [v4 EXCEPT ![u] = K!MovesOn([v4[u] EXCEPT !.broken = v4[u].broken + 1], v3)]
    BY DEF K!AnswerBroken
  <2>2. b = [v4[u] EXCEPT !.broken = v4[u].broken + 1] BY <1>2, <1>3
  <2>3. UNCHANGED <<v1, v2, v5, v9>> /\ c.at = "asking" BY <1>2 DEF K!AnswerBroken
  <2>4. v3' = [v3 EXCEPT ![key].strikes = 0] \/ v3' = v3 BY <1>1 DEF K!AnswerBroken
  <2> QED BY <1>5, <1>6, <2>1, <2>2, <2>3, <2>4
<1>8. /\ v3' \in [Keys -> K!Entries]
      /\ \A k \in Keys : /\ v3'[k].version = v3[k].version /\ v3'[k].until = v3[k].until
                         /\ v3'[k].dead = v3[k].dead
  BY <1>7, StrikesForgotten
<1>9. d \in K!CallSet /\ d.hopes = c.hopes /\ d.hopes \subseteq Keys
  BY <1>4, <1>6, MovesOnIs, CallSetIs
<1>10. ASSUME NEW h \in d.hopes \ v9
       PROVE  h \in Keys /\ K!Good(h) /\ c.broken + 1 >= c.candidate
  <2>1. h \in c.hopes \ v9 /\ h \in Keys BY <1>9, <1>10
  <2>2. K!MayReach(c, h) BY <1>2, <1>7, <2>1 DEF K!PoolInv, K!CallFits
  <2> QED BY <2>1, <2>2 DEF K!MayReach
<1>11. ASSUME NEW h \in d.hopes \ v9, K!Good(h)'
       PROVE  /\ d.at = "asking" => K!MayReach(d, h)'
              /\ d.at = "exhausted" => d.broken >= Models
  <2>1. h \in Keys /\ h \in K!Usable(p) BY <1>5, <1>10, <1>11, PoolFields
  <2>2. b.broken >= b.candidate BY <1>4, <1>10, <1>11
  <2> QED BY <1>6, <1>11, <2>1, <2>2, MovedOnFits
<1> QED BY <1>7, <1>8, <1>9, <1>10, <1>11, KeysKept

LEMMA AnswerKeylessKept ==
  ASSUME K!PoolInv, NEW u \in Askers, K!AnswerKeyless(u) PROVE K!PoolInv'
<1>1. PICK c \in K!CallSet : c = v4[u] BY PoolFields
<1>2. PICK p \in [Keys -> K!Entries] : p = v3 BY PoolFields
<1>3. PICK d : d = K!MovesOn(c, p) OBVIOUS
<1>4. /\ v4' = [v4 EXCEPT ![u] = d] /\ UNCHANGED <<v1, v2, v3, v5, v9>> /\ c.at = "asking"
      /\ c.key = 0
  BY <1>1, <1>2, <1>3 DEF K!AnswerKeyless
<1>5. d \in K!CallSet /\ d.hopes = c.hopes BY <1>3, MovesOnIs
<1>6. c.hopes \ v9 = {} BY <1>1, <1>4 DEF K!PoolInv, K!CallFits, K!MayReach
<1> QED BY <1>4, <1>5, <1>6, PoolFields, KeysKept

\* No call moves, and no good key nobody misjudged turns bad or leaves the usable ones.
LEMMA CallsRest ==
  ASSUME K!PoolInv, UNCHANGED <<v1, v4, v9>>, v2' \in [Keys -> K!Versions],
         v3' \in [Keys -> K!Entries], v5' \in Nat, \A k \in Keys : v3'[k].version = 2 => v2'[k] = 2,
         \A k \in Keys : K!Good(k) => K!Good(k)',
         \A k \in Keys \ v9 : K!Good(k)' => k \in K!Usable(v3)'
  PROVE  K!PoolInv'
<1>1. ASSUME NEW u \in Askers PROVE K!CallFits(u)'
  <2>1. K!CallFits(u) BY DEF K!PoolInv
  <2>2. v4[u] \in K!CallSet BY PoolFields
  <2>3. v4[u].hopes \subseteq Keys BY <2>2, CallSetIs
  <2>4. \A h \in Keys : K!MayReach(v4[u], h) => K!MayReach(v4[u], h)' BY DEF K!MayReach
  <2> QED BY <2>1, <2>3, <2>4 DEF K!CallFits
<1>2. K!GoodIsUsable' BY DEF K!GoodIsUsable, Keys
<1> QED BY <1>1, <1>2, PoolFields DEF K!PoolInv, K!PoolTypes, Keys

LEMMA EditKept == ASSUME K!PoolInv, NEW k \in Keys, K!Edit(k) PROVE K!PoolInv'
<1>1. v2' = [v2 EXCEPT ![k] = 2] /\ UNCHANGED <<v1, v3, v4, v5, v9>> BY DEF K!Edit
<1>2. v2' \in [Keys -> K!Versions] BY <1>1, PoolFields DEF K!Versions
<1>3. \A j \in Keys : v3'[j].version = 2 => v2'[j] = 2 BY <1>1, PoolFields
<1>4. \A j \in Keys : K!Good(j)' = K!Good(j) /\ (j \in K!Usable(v3)' <=> j \in K!Usable(v3))
  BY <1>1 DEF K!Good, K!KindOf, K!Usable, Keys
<1> QED BY <1>1, <1>2, <1>3, <1>4, PoolFields, CallsRest

LEMMA TickKept == ASSUME K!PoolInv, K!Tick PROVE K!PoolInv'
<1>1. v5' = v5 + 1 /\ UNCHANGED <<v1, v2, v3, v4, v9>> BY DEF K!Tick
<1>2. \A k \in Keys : v3[k].until \in Nat BY PoolFields DEF K!Entries
<1>3. \A k \in Keys : K!Good(k)' = K!Good(k) BY <1>1 DEF K!Good, K!KindOf
<1>4. \A k \in Keys : k \in K!Usable(v3) => k \in K!Usable(v3)'
  BY <1>1, <1>2, PoolFields DEF K!Usable, Keys
<1> QED BY <1>1, <1>3, <1>4, PoolFields, CallsRest

\* An entry loaded again is of the table's version and alive, and no cooler than it was.
LEMMA LoadedIs ==
  ASSUME K!PoolInv, NEW k \in Keys
  PROVE  /\ K!Loaded(k) \in K!Entries /\ K!Loaded(k).version = v2[k] /\ ~K!Loaded(k).dead
         /\ K!Loaded(k).until = 0 \/ (v3[k].version = v2[k] /\ K!Loaded(k).until = v3[k].until)
<1>1. v3[k] \in K!Entries /\ v2[k] \in K!Versions BY PoolFields
<1>2. PICK old \in K!Entries : old = v3[k] BY <1>1
<1>3. CASE old.version = v2[k]
  <2>1. K!Loaded(k) = [old EXCEPT !.dead = FALSE] BY <1>2, <1>3 DEF K!Loaded
  <2>2. FALSE \in BOOLEAN OBVIOUS
  <2>3. \A b \in BOOLEAN : /\ [old EXCEPT !.dead = b] \in K!Entries
                           /\ [old EXCEPT !.dead = b].version = old.version
                           /\ [old EXCEPT !.dead = b].until = old.until
                           /\ [old EXCEPT !.dead = b].dead = b
    BY DEF K!Entries
  <2>4. /\ [old EXCEPT !.dead = FALSE] \in K!Entries
        /\ [old EXCEPT !.dead = FALSE].version = old.version
        /\ [old EXCEPT !.dead = FALSE].until = old.until
        /\ [old EXCEPT !.dead = FALSE].dead = FALSE
    BY <2>2, <2>3, Zenon
  <2>5. K!Loaded(k) \in K!Entries /\ K!Loaded(k).version = old.version BY <2>1, <2>4
  <2>6. K!Loaded(k).until = old.until BY <2>1, <2>4
  <2>7. ~K!Loaded(k).dead BY <2>1, <2>4
  <2> QED BY <1>2, <1>3, <2>5, <2>6, <2>7
<1>4. CASE old.version # v2[k]
  <2>1. K!Loaded(k) = [version |-> v2[k], until |-> 0, strikes |-> 0, dead |-> FALSE]
    BY <1>2, <1>4 DEF K!Loaded, K!Entry
  <2>2. K!Loaded(k) \in K!Entries BY <1>1, <2>1 DEF K!Entries
  <2>3. K!Loaded(k).version = v2[k] /\ K!Loaded(k).until = 0 BY <2>1
  <2>4. ~K!Loaded(k).dead BY <2>1
  <2> QED BY <2>2, <2>3, <2>4
<1> QED BY <1>3, <1>4

LEMMA ReloadKept == ASSUME K!PoolInv, K!Reload PROVE K!PoolInv'
<1>1. v3' = [k \in Keys |-> K!Loaded(k)] /\ UNCHANGED <<v1, v2, v4, v5, v9>> BY DEF K!Reload, Keys
<1>2. \A k \in Keys : v3'[k] = K!Loaded(k) BY <1>1
<1>3. v3' \in [Keys -> K!Entries]
  <2>1. \A k \in Keys : K!Loaded(k) \in K!Entries BY LoadedIs
  <2> QED BY <1>1, <2>1
<1>4. \A k \in Keys : v3'[k].version = v2[k] BY <1>2, LoadedIs
<1>5. \A k \in Keys : v3'[k].version = 2 => v2'[k] = 2 BY <1>1, <1>4
<1>6. \A k \in Keys : v3[k].version \in {1, 2} /\ v2[k] \in {1, 2}
  BY PoolFields DEF K!Entries, K!Versions
<1>7. ASSUME NEW k \in Keys, K!Good(k) PROVE K!Good(k)'
  <2>1. v3'[k].version = v3[k].version \/ v3'[k].version = 2
    BY <1>4, <1>6, PoolFields
  <2> QED BY <1>1, <1>7, <2>1 DEF K!Good, K!KindOf
<1>8. ASSUME NEW k \in Keys \ v9, K!Good(k)' PROVE k \in K!Usable(v3)'
  <2>1. v5 \in Nat /\ v5' = v5 BY <1>1, PoolFields
  <2>2. ~v3'[k].dead BY <1>2, LoadedIs
  <2>3. v5 >= v3'[k].until
    <3>1. CASE v3'[k].until = 0 BY <2>1, <3>1
    <3>2. CASE v3[k].version = v2[k] /\ v3'[k].until = v3[k].until
      <4>1. K!Good(k) BY <1>1, <1>4, <1>8, <3>2 DEF K!Good, K!KindOf
      <4>2. k \in K!Usable(v3) BY <4>1, PoolFields
      <4> QED BY <3>2, <4>2 DEF K!Usable
    <3> QED BY <1>2, <3>1, <3>2, LoadedIs
  <2> QED BY <2>1, <2>2, <2>3 DEF K!Usable, Keys
<1> QED BY <1>1, <1>3, <1>5, <1>7, <1>8, PoolFields, CallsRest

LEMMA PoolNext == K!PoolInv /\ [K!Next]_(K!vars) => K!PoolInv'
<1> SUFFICES ASSUME K!PoolInv, [K!Next]_(K!vars) PROVE K!PoolInv' OBVIOUS
<1>1. CASE K!Next
  BY <1>1, BeginKept, AnswerServedKept, AnswerLimitedKept, AnswerRefusedKept, AnswerBrokenKept,
     AnswerKeylessKept, EditKept, ReloadKept, TickKept DEF K!Next, Keys
<1>2. CASE UNCHANGED K!vars
  <2>1. UNCHANGED <<v1, v2, v3, v4, v5, v9>> BY <1>2 DEF K!vars
  <2>2. \A k \in Keys : K!Good(k)' = K!Good(k) /\ (k \in K!Usable(v3)' <=> k \in K!Usable(v3))
    BY <2>1 DEF K!Good, K!KindOf, K!Usable, Keys
  <2> QED BY <2>1, <2>2, PoolFields, CallsRest
<1> QED BY <1>1, <1>2

LEMMA PoolMoves ==
  turn = "keys" /\ [NextServices]_all => turn' = "keys" /\ [K!Next]_(K!vars)
BY DEF NextServices, all, cells, K!vars

\* A call to the models is answered whenever one of its keys was good as it began, for up to
\* three keys and any callers, candidates, edits and reloads: it gives up only when every
\* candidate failed by itself, or a report filed under a replaced key's id misjudged the good one.
THEOREM GoodKeyServesHolds == SpecServices => []GoodKeyServes
<1> DEFINE Inv == turn = "keys" => K!PoolInv
<1>1. InitServices => Inv BY PoolInit DEF InitServices
<1>2. Inv /\ [NextServices]_all => Inv'
  <2> SUFFICES ASSUME Inv, [NextServices]_all PROVE Inv' OBVIOUS
  <2>1. turn' = turn \/ turn = "keys" BY DEF NextServices, all
  <2> QED BY <2>1, PoolNext, PoolMoves
<1>3. Inv => GoodKeyServes
  <2> SUFFICES ASSUME K!PoolInv, NEW u \in Askers, v4[u].at = "exhausted", v4[u].broken < Models
               PROVE  v4[u].hopes \subseteq v9
    BY DEF GoodKeyServes, K!GoodKeyServes
  <2>1. v4[u].broken \in Nat /\ Models \in Nat BY PoolFields, CallSetIs, KeysAssumption
  <2> QED BY <2>1 DEF K!PoolInv, K!CallFits
<1> QED BY <1>1, <1>2, <1>3, PTL DEF SpecServices

-------------------------------------------------------------------------------
(* The monitors: v1 world, v2 level, v3 told, v4 fails, v5 stream, v6      *)
(* plan, v7 pass, v8 run, v9 torn, v10 stale.                              *)

PassSteps == {"idle", "probe", "plan", "emit", "store"}
PlanStates == {"none", "armed", "expired"}
Edges == [target : M!Targets, bad : BOOLEAN, run : Nat]

LEMMA WorldIs ==
  ASSUME M!EdgeTypes
  PROVE  /\ Len(v1.targets) \in Nat /\ M!Targets = 1..Len(v1.targets)
         /\ \A t \in M!Targets : v1.monitor = "health" => M!Kind(t) # "coin"
<1>1. v1 \in Watched BY DEF M!EdgeTypes
<1>2. v1.targets \in Seq({"exchange", "service", "account", "coin", "strategy"})
  BY <1>1, WatchedAssumption
<1>3. \A t \in DOMAIN v1.targets : v1.monitor = "health" => v1.targets[t] # "coin"
  BY <1>1, WatchedAssumption
<1>4. Len(v1.targets) \in Nat /\ DOMAIN v1.targets = 1..Len(v1.targets) BY <1>2
<1> QED BY <1>3, <1>4 DEF M!Targets, M!Kind

LEMMA EdgeFields ==
  ASSUME M!EdgeTypes
  PROVE  /\ v1 \in Watched
         /\ v2 \in [M!Targets -> 0..2] /\ v3 \in [M!Targets -> BOOLEAN]
         /\ v4 \in [M!Targets -> Nat] /\ v8 \in [M!Targets -> Nat]
         /\ v6 \in [M!Targets -> PlanStates] /\ v5 \in Seq(Edges)
         /\ v7 \in [at : 0..Len(v1.targets), step : PassSteps, bad : BOOLEAN]
         /\ v7.step \in {"probe", "plan", "emit", "store"} => v7.at \in M!Targets
BY DEF M!EdgeTypes, Edges, PassSteps, PlanStates, M!Current

LEMMA EdgeTypesAre ==
  ASSUME v1' = v1, v1 \in Watched,
         v2' \in [M!Targets -> 0..2], v3' \in [M!Targets -> BOOLEAN],
         v4' \in [M!Targets -> Nat], v8' \in [M!Targets -> Nat],
         v6' \in [M!Targets -> PlanStates], v5' \in Seq(Edges),
         v7' \in [at : 0..Len(v1.targets), step : PassSteps, bad : BOOLEAN],
         v7'.step \in {"probe", "plan", "emit", "store"} => v7'.at \in M!Targets
  PROVE  M!EdgeTypes'
<1>1. M!Targets' = M!Targets BY DEF M!Targets
<1>2. Edges' = Edges BY <1>1 DEF Edges
<1> QED BY <1>1, <1>2 DEF M!EdgeTypes, Edges, PassSteps, PlanStates, M!Current

LEMMA AfterIs ==
  ASSUME M!EdgeTypes, NEW t \in 0..Len(v1.targets)
  PROVE  /\ M!After(t) \in [at : 0..Len(v1.targets), step : PassSteps, bad : BOOLEAN]
         /\ M!After(t).step \in {"idle", "probe"}
         /\ M!After(t).step = "probe" => M!After(t).at \in M!Targets
<1>1. Len(v1.targets) \in Nat /\ M!Targets = 1..Len(v1.targets) BY WorldIs
<1>2. CASE t = Len(v1.targets)
  <2>1. M!After(t) = [at |-> 0, step |-> "idle", bad |-> FALSE] BY <1>2 DEF M!After, M!Resting
  <2> QED BY <1>1, <2>1 DEF PassSteps
<1>3. CASE t # Len(v1.targets)
  <2>1. PICK n \in 0..Len(v1.targets) : n = t + 1 /\ n \in M!Targets BY <1>1, <1>3
  <2>2. M!After(t) = [at |-> n, step |-> "probe", bad |-> FALSE] BY <1>3, <2>1 DEF M!After
  <2> QED BY <2>1, <2>2 DEF PassSteps
<1> QED BY <1>2, <1>3

LEMMA EdgesInit == M!Init => M!EdgeInv
<1> SUFFICES ASSUME M!Init PROVE M!EdgeInv OBVIOUS
<1>1. /\ v1 \in Watched /\ v2 = [t \in M!Targets |-> 0] /\ v3 = [t \in M!Targets |-> FALSE]
      /\ v4 = [t \in M!Targets |-> 0] /\ v8 = [t \in M!Targets |-> 0] /\ v5 = <<>>
      /\ v6 = [t \in M!Targets |-> "none"] /\ v7 = [at |-> 0, step |-> "idle", bad |-> FALSE]
  BY DEF M!Init, M!Resting
<1>2. Len(v1.targets) \in Nat BY <1>1, WatchedAssumption
<1>3. v7 \in [at : 0..Len(v1.targets), step : PassSteps, bad : BOOLEAN] BY <1>1, <1>2 DEF PassSteps
<1>4. v5 \in Seq(Edges) BY <1>1
<1>5. v6 \in [M!Targets -> PlanStates] BY <1>1 DEF PlanStates
<1>6. /\ v2 \in [M!Targets -> 0..2] /\ v4 \in [M!Targets -> Nat] /\ v8 \in [M!Targets -> Nat]
  BY <1>1
<1>7. v3 \in [M!Targets -> BOOLEAN] BY <1>1
<1>8. M!EdgeTypes
  BY <1>1, <1>3, <1>4, <1>5, <1>6, <1>7 DEF M!EdgeTypes, Edges, PassSteps, PlanStates
<1>9. M!Judged /\ M!Counted /\ M!Posted /\ M!Plans
  BY <1>1 DEF M!Judged, M!Counted, M!Posted, M!Plans
<1>10. \A t \in M!Targets : ~v3[t] /\ ~M!LastEdge(t) /\ v6[t] = "none"
  BY <1>1 DEF M!LastEdge
<1>11. M!EdgesAreTold BY <1>1, <1>10 DEF M!EdgesAreTold
<1> QED BY <1>8, <1>9, <1>11 DEF M!EdgeInv

\* A step that neither emits nor remembers, and counts no misses: the pass moves between its
\* targets, or stays where it is while a condition changes.
LEMMA EdgesQuiet ==
  ASSUME M!EdgeInv, UNCHANGED <<v1, v3, v4, v5, v6, v8, v9, v10>>, v2' \in [M!Targets -> 0..2],
         \/ v7' = v7
         \/ /\ v7' \in [at : 0..Len(v1.targets), step : PassSteps, bad : BOOLEAN]
            /\ v7'.step \in {"idle", "probe"} /\ (v7'.step = "probe" => v7'.at \in M!Targets)
            /\ v7.step # "store" /\ (v7.step = "emit" => v1.monitor = "health")
  PROVE  M!EdgeInv'
<1>0. M!EdgeTypes BY DEF M!EdgeInv
<1>1. M!EdgeTypes' BY <1>0, EdgeFields, EdgeTypesAre
<1>2. M!Targets' = M!Targets /\ \A t \in M!Targets : M!Kind(t)' = M!Kind(t) /\ (M!LastEdge(t)' <=> M!LastEdge(t))
  BY DEF M!Targets, M!Kind, M!LastEdge
<1>3. CASE v7' = v7
  <2>1. M!Judged' BY <1>3 DEF M!EdgeInv, M!Judged, M!Current, M!Kind
  <2>2. M!Counted' BY <1>2 DEF M!EdgeInv, M!Counted
  <2>3. M!Posted' BY <1>3 DEF M!EdgeInv, M!Posted, M!Current, M!LastEdge
  <2>4. M!Plans' BY <1>2, <1>3 DEF M!EdgeInv, M!Plans, M!Current, M!Kind
  <2>5. M!EdgesAreTold' BY <1>2, <1>3 DEF M!EdgeInv, M!EdgesAreTold, M!Current, M!Kind
  <2> QED BY <1>1, <2>1, <2>2, <2>3, <2>4, <2>5 DEF M!EdgeInv
<1>4. CASE /\ v7'.step \in {"idle", "probe"} /\ v7.step # "store"
           /\ v7.step = "emit" => v1.monitor = "health"
  <2>1. M!Judged' /\ M!Posted' BY <1>4 DEF M!Judged, M!Posted
  <2>2. M!Counted' BY <1>2 DEF M!EdgeInv, M!Counted
  <2>3. M!Plans' BY <1>2, <1>4 DEF M!EdgeInv, M!Plans
  <2>4. ASSUME NEW t \in M!Targets, t \notin v9 PROVE v3'[t] <=> M!LastEdge(t)'
    BY <1>2, <1>4, <2>4 DEF M!EdgeInv, M!EdgesAreTold
  <2>5. ASSUME NEW t \in M!Targets, t \notin v9 \cup v10, v6'[t] = "armed" PROVE v3'[t]
    <3>1. M!Kind(t) = "coin" BY <2>5 DEF M!EdgeInv, M!Plans
    <3>2. v1.monitor # "health" BY <1>0, <3>1, WorldIs
    <3> QED BY <1>4, <2>5, <3>2 DEF M!EdgeInv, M!EdgesAreTold
  <2>6. M!EdgesAreTold'
    BY <1>2, <2>4, <2>5 DEF M!EdgeInv, M!EdgesAreTold, M!Kind
  <2> QED BY <1>1, <2>1, <2>2, <2>3, <2>6 DEF M!EdgeInv
<1> QED BY <1>3, <1>4

\* What was observed of the current target: its counters, and whether it crossed.
LEMMA ObserveKept ==
  ASSUME M!EdgeInv, NEW t, t = v7.at, v7.step = "probe", UNCHANGED <<v1, v2, v3, v5, v6, v9, v10>>,
         NEW n \in Nat, v8' = [v8 EXCEPT ![t] = n], v4' \in [M!Targets -> Nat],
         \A u \in M!Targets \ {t} : v4'[u] = v4[u], M!Kind(t) = "account" => v4'[t] = n,
         \/ /\ v7' = [v7 EXCEPT !.step = M!Crossing, !.bad = ~v3[t]]
            /\ M!Kind(t) = "account" /\ ~v3[t] => n >= Misses
         \/ v7' = M!After(t)
  PROVE  M!EdgeInv'
<1>0. M!EdgeTypes BY DEF M!EdgeInv
<1>1. t \in M!Targets /\ t \in 0..Len(v1.targets) BY <1>0, EdgeFields, WorldIs
<1>2. M!Targets' = M!Targets
      /\ \A u \in M!Targets : M!Kind(u)' = M!Kind(u) /\ (M!LastEdge(u)' <=> M!LastEdge(u))
  BY DEF M!Targets, M!Kind, M!LastEdge
<1>3. v8' \in [M!Targets -> Nat] /\ v8'[t] = n /\ \A u \in M!Targets \ {t} : v8'[u] = v8[u]
  BY <1>0, <1>1, EdgeFields
<1>4. M!Counted' BY <1>2, <1>3 DEF M!EdgeInv, M!Counted
<1>5. CASE /\ v7' = [v7 EXCEPT !.step = M!Crossing, !.bad = ~v3[t]]
           /\ M!Kind(t) = "account" /\ ~v3[t] => n >= Misses
  <2>1. PICK b \in BOOLEAN : b <=> ~v3[t] OBVIOUS
  <2>2. PICK s \in {"plan", "emit"} : s = M!Crossing /\ (s = "plan" <=> M!Kind(t) = "coin")
    BY DEF M!Crossing, M!Current
  <2>3. v7' = [v7 EXCEPT !.step = s, !.bad = b]
    <3>1. b = ~v3[t] BY <2>1
    <3>2. v7' = [v7 EXCEPT !.step = s, !.bad = ~v3[t]] BY <1>5, <2>2, Zenon
    <3> QED BY <3>1, <3>2, Zenon
  <2>4. /\ v7' \in [at : 0..Len(v1.targets), step : PassSteps, bad : BOOLEAN]
        /\ v7'.at = t /\ v7'.step = s
    BY <1>0, <2>2, <2>3, EdgeFields DEF PassSteps
  <2>5. v7'.bad <=> ~v3[t] BY <1>0, <2>1, <2>3, EdgeFields
  <2>6. M!EdgeTypes' BY <1>0, <1>1, <1>3, <2>4, EdgeFields, EdgeTypesAre
  <2>7. M!Judged' BY <1>1, <1>2, <1>3, <1>5, <2>4, <2>5 DEF M!Judged, M!Current
  <2>8. M!Posted' BY <2>2, <2>4 DEF M!Posted
  <2>9. M!Plans'
    BY <1>1, <1>2, <2>2, <2>4 DEF M!EdgeInv, M!Plans, M!Current
  <2>10. M!EdgesAreTold'
    BY <1>2, <2>2, <2>4 DEF M!EdgeInv, M!EdgesAreTold, M!Current, M!Kind
  <2> QED BY <1>4, <2>6, <2>7, <2>8, <2>9, <2>10 DEF M!EdgeInv
<1>6. CASE v7' = M!After(t)
  <2>1. /\ v7' \in [at : 0..Len(v1.targets), step : PassSteps, bad : BOOLEAN]
        /\ v7'.step \in {"idle", "probe"} /\ (v7'.step = "probe" => v7'.at \in M!Targets)
    BY <1>0, <1>1, <1>6, AfterIs
  <2>2. M!EdgeTypes' BY <1>0, <1>3, <2>1, EdgeFields, EdgeTypesAre
  <2>3. M!Judged' /\ M!Posted' BY <2>1 DEF M!Judged, M!Posted
  <2>4. M!Plans' BY <1>2, <2>1 DEF M!EdgeInv, M!Plans
  <2>5. M!EdgesAreTold'
    BY <1>2, <2>1 DEF M!EdgeInv, M!EdgesAreTold, M!Kind
  <2> QED BY <1>4, <2>2, <2>3, <2>4, <2>5 DEF M!EdgeInv
<1> QED BY <1>5, <1>6

LEMMA OneMoreIs ==
  ASSUME NEW n \in Nat PROVE M!OneMore(n) \in Nat /\ (n >= Misses => M!OneMore(n) >= Misses)
BY WatchedAssumption DEF M!OneMore

\* The run of misses after a look at the target.
LEMMA RunIs ==
  ASSUME M!EdgeInv, v7.step = "probe", NEW l, NEW crossed, M!Observe(l, crossed)
  PROVE  \E n \in Nat : /\ v8' = [v8 EXCEPT ![v7.at] = n]
                        /\ n = IF l = 2 THEN M!OneMore(v8[v7.at]) ELSE 0
<1>1. v8[v7.at] \in Nat BY EdgeFields DEF M!EdgeInv
<1> QED BY <1>1, OneMoreIs DEF M!Observe, M!Current

LEMMA ProbeKept ==
  ASSUME M!EdgeInv,
         M!ProbeExchange \/ M!ProbeService \/ M!ProbeCoin \/ M!ProbeStrategy
  PROVE  M!EdgeInv'
<1>1. \A k \in {"exchange", "service", "coin", "strategy"} : M!Probing(k) => v7.step = "probe" /\ M!Kind(v7.at) # "account"
  BY DEF M!Probing, M!Current
<1>2. v7.step = "probe" /\ M!Kind(v7.at) # "account" /\ v4' = v4
  BY <1>1 DEF M!ProbeExchange, M!ProbeService, M!ProbeCoin, M!ProbeStrategy
<1>3. \E l, crossed : M!Observe(l, crossed)
  BY DEF M!ProbeExchange, M!ProbeService, M!ProbeCoin, M!ProbeStrategy
<1>4. PICK l, crossed : M!Observe(l, crossed) BY <1>3
<1>5. PICK n \in Nat : v8' = [v8 EXCEPT ![v7.at] = n] BY <1>2, <1>4, RunIs
<1>6. UNCHANGED <<v1, v2, v3, v5, v6, v9, v10>>
      /\ (v7' = [v7 EXCEPT !.step = M!Crossing, !.bad = ~v3[v7.at]] \/ v7' = M!After(v7.at))
  BY <1>4 DEF M!Observe, M!Current
<1>7. PICK t : t = v7.at OBVIOUS
<1>8. v4' \in [M!Targets -> Nat] BY <1>2, EdgeFields DEF M!EdgeInv
<1> QED BY <1>2, <1>5, <1>6, <1>7, <1>8, ObserveKept

LEMMA ProbeAccountKept == ASSUME M!EdgeInv, M!ProbeAccount PROVE M!EdgeInv'
<1>0. v4 \in [M!Targets -> Nat] /\ v8 \in [M!Targets -> Nat] BY EdgeFields DEF M!EdgeInv
<1>1. v7.step = "probe" /\ M!Kind(v7.at) = "account" /\ v7.at \in M!Targets
  BY EdgeFields DEF M!EdgeInv, M!ProbeAccount, M!Probing, M!Current
<1>2. PICK l \in {0, 2} : /\ v4' = [v4 EXCEPT ![v7.at] = M!Missed(v7.at, l)]
                          /\ M!Observe(l, M!AccountEdge(v7.at, l))
  BY DEF M!ProbeAccount, M!Current
<1>3. PICK t \in M!Targets : t = v7.at BY <1>1
<1>4. v4[t] = v8[t] /\ v4[t] \in Nat BY <1>0, <1>1, <1>3 DEF M!EdgeInv, M!Counted
<1>5. PICK n \in Nat : /\ v8' = [v8 EXCEPT ![t] = n]
                       /\ n = IF l = 2 THEN M!OneMore(v8[t]) ELSE 0
  BY <1>1, <1>2, <1>3, RunIs
<1>6. n = M!Missed(t, l) BY <1>4, <1>5 DEF M!Missed
<1>7. v4' \in [M!Targets -> Nat] /\ v4'[t] = n /\ \A u \in M!Targets \ {t} : v4'[u] = v4[u]
  BY <1>0, <1>2, <1>3, <1>6
<1>8. /\ UNCHANGED <<v1, v2, v3, v5, v6, v9, v10>>
      /\ v7' = IF M!AccountEdge(t, l)
               THEN [v7 EXCEPT !.step = M!Crossing, !.bad = ~v3[t]] ELSE M!After(t)
  BY <1>2, <1>3 DEF M!Observe, M!Current
<1>9. M!AccountEdge(t, l) /\ ~v3[t] => n >= Misses BY <1>6 DEF M!AccountEdge
<1> QED BY <1>1, <1>3, <1>5, <1>7, <1>8, <1>9, ObserveKept

LEMMA PlanKept == ASSUME M!EdgeInv, M!Plan PROVE M!EdgeInv'
<1>0. M!EdgeTypes BY DEF M!EdgeInv
<1>1. PICK t \in M!Targets : t = v7.at BY <1>0, EdgeFields DEF M!Plan
<1>2. v7.step = "plan" /\ v7' = [v7 EXCEPT !.step = "emit"] /\ UNCHANGED <<v1, v2, v3, v4, v5, v8, v9>>
  BY DEF M!Plan
<1>3. /\ v7' \in [at : 0..Len(v1.targets), step : PassSteps, bad : BOOLEAN]
      /\ v7'.at = t /\ v7'.step = "emit" /\ v7'.bad = v7.bad
  BY <1>0, <1>1, <1>2, EdgeFields DEF PassSteps
<1>4. /\ v6' \in [M!Targets -> PlanStates]
      /\ \A u \in M!Targets \ {t} : v6'[u] = v6[u] /\ (u \in v10' <=> u \in v10)
      /\ ~v7.bad /\ v6'[t] = "armed" => t \in v10'
  <2>1. v6 \in [M!Targets -> PlanStates] BY <1>0, EdgeFields
  <2>2. CASE v7.bad /\ M!BuildPlan(t)
    BY <2>1, <2>2 DEF M!BuildPlan, PlanStates
  <2>3. CASE M!ExpirePlans(t)
    BY <2>1, <2>3 DEF M!ExpirePlans, PlanStates
  <2> QED BY <1>1, <2>2, <2>3 DEF M!Plan, M!Current
<1>5. M!Targets' = M!Targets
      /\ \A u \in M!Targets : M!Kind(u)' = M!Kind(u) /\ (M!LastEdge(u)' <=> M!LastEdge(u))
  BY <1>2 DEF M!Targets, M!Kind, M!LastEdge
<1>6. M!Kind(t) = "coin" BY <1>1, <1>2 DEF M!EdgeInv, M!Plans, M!Current
<1>7. M!EdgeTypes' BY <1>0, <1>2, <1>3, <1>4, EdgeFields, EdgeTypesAre
<1>8. M!Judged'
  <2>1. v7.bad <=> ~v3[t] BY <1>1, <1>2 DEF M!EdgeInv, M!Judged, M!Current
  <2> QED BY <1>2, <1>3, <1>5, <1>6, <2>1 DEF M!Judged, M!Current
<1>9. M!Counted' /\ M!Posted' BY <1>2, <1>3, <1>5 DEF M!EdgeInv, M!Counted, M!Posted
<1>10. M!Plans' BY <1>3, <1>4, <1>5, <1>6 DEF M!EdgeInv, M!Plans, M!Current
<1>11. M!EdgesAreTold'
  <2>1. ASSUME NEW u \in M!Targets, u \notin v9 PROVE v3'[u] <=> M!LastEdge(u)'
    BY <1>2, <1>5, <2>1 DEF M!EdgeInv, M!EdgesAreTold
  <2>2. ASSUME NEW u \in M!Targets, u \notin v9' \cup v10', v6'[u] = "armed", u # t PROVE v3'[u]
    BY <1>2, <1>4, <2>2 DEF M!EdgeInv, M!EdgesAreTold
  <2> QED BY <1>2, <1>3, <1>5, <2>1, <2>2 DEF M!EdgeInv, M!EdgesAreTold, M!Current, M!Kind
<1> QED BY <1>7, <1>8, <1>9, <1>10, <1>11 DEF M!EdgeInv

\* An event appended to the stream is the last that it says of its target.
LEMMA LastIsAppended ==
  ASSUME M!EdgeTypes, NEW e \in Edges, v5' = Append(v5, e), NEW u
  PROVE  M!LastEdge(u)' <=> IF e.target = u THEN e.bad ELSE M!LastEdge(u)
<1>1. /\ v5 \in Seq(Edges) /\ Len(v5) \in Nat /\ DOMAIN v5 = 1..Len(v5)
      /\ v5' \in Seq(Edges) /\ Len(v5') = Len(v5) + 1 /\ DOMAIN v5' = 1..(Len(v5) + 1)
  BY EdgeFields
<1>2. v5'[Len(v5) + 1] = e /\ \A i \in DOMAIN v5 : v5'[i] = v5[i] BY <1>1
<1>3. CASE e.target = u
  <2>1. ASSUME M!LastEdge(u)' PROVE e.bad
    <3>1. PICK i \in DOMAIN v5' : /\ v5'[i].target = u /\ v5'[i].bad
                                  /\ \A j \in DOMAIN v5' : v5'[j].target = u => j <= i
      BY <2>1 DEF M!LastEdge
    <3>2. i = Len(v5) + 1 BY <1>1, <1>2, <1>3, <3>1
    <3> QED BY <1>2, <3>1, <3>2
  <2>2. ASSUME e.bad PROVE M!LastEdge(u)'
    BY <1>1, <1>2, <1>3, <2>2 DEF M!LastEdge
  <2> QED BY <1>3, <2>1, <2>2
<1>4. CASE e.target # u
  <2>1. ASSUME M!LastEdge(u)' PROVE M!LastEdge(u)
    <3>1. PICK i \in DOMAIN v5' : /\ v5'[i].target = u /\ v5'[i].bad
                                  /\ \A j \in DOMAIN v5' : v5'[j].target = u => j <= i
      BY <2>1 DEF M!LastEdge
    <3>2. i \in DOMAIN v5 BY <1>1, <1>2, <1>4, <3>1
    <3> QED BY <1>1, <1>2, <3>1, <3>2 DEF M!LastEdge
  <2>2. ASSUME M!LastEdge(u) PROVE M!LastEdge(u)'
    <3>1. PICK i \in DOMAIN v5 : /\ v5[i].target = u /\ v5[i].bad
                                 /\ \A j \in DOMAIN v5 : v5[j].target = u => j <= i
      BY <2>2 DEF M!LastEdge
    <3>2. i \in DOMAIN v5' /\ v5'[i] = v5[i] BY <1>1, <1>2, <3>1
    <3>3. \A j \in DOMAIN v5' : v5'[j].target = u => j <= i BY <1>1, <1>2, <1>4, <3>1
    <3> QED BY <3>1, <3>2, <3>3 DEF M!LastEdge
  <2> QED BY <1>4, <2>1, <2>2
<1> QED BY <1>3, <1>4

LEMMA EmitKept == ASSUME M!EdgeInv, M!Emit PROVE M!EdgeInv'
<1>0. M!EdgeTypes BY DEF M!EdgeInv
<1>1. PICK t \in M!Targets : t = v7.at BY <1>0, EdgeFields DEF M!Emit
<1>2. /\ v7.step = "emit" /\ v7' = [v7 EXCEPT !.step = "store"]
      /\ UNCHANGED <<v1, v2, v3, v4, v6, v8, v9, v10>> /\ v5' = Append(v5, M!Edge(t))
  BY <1>1 DEF M!Emit, M!Current
<1>3. /\ v7' \in [at : 0..Len(v1.targets), step : PassSteps, bad : BOOLEAN]
      /\ v7'.at = t /\ v7'.step = "store" /\ v7'.bad = v7.bad
  BY <1>0, <1>1, <1>2, EdgeFields DEF PassSteps
<1>4. PICK e \in Edges : /\ e = M!Edge(t) /\ e.target = t /\ e.run = v8[t]
                         /\ (e.bad <=> ~v3[t])
  <2>1. PICK b \in BOOLEAN : b <=> ~v3[t] OBVIOUS
  <2>2. b = ~v3[t] BY <2>1
  <2>3. M!Edge(t) = [target |-> t, bad |-> ~v3[t], run |-> v8[t]] BY DEF M!Edge
  <2>4. M!Edge(t) = [target |-> t, bad |-> b, run |-> v8[t]] BY <2>2, <2>3, Zenon
  <2>5. v8[t] \in Nat BY <1>0, EdgeFields
  <2>6. [target |-> t, bad |-> b, run |-> v8[t]] \in Edges BY <2>5 DEF Edges
  <2> QED BY <2>1, <2>4, <2>6
<1>5. M!Targets' = M!Targets /\ \A u \in M!Targets : M!Kind(u)' = M!Kind(u)
  BY <1>2 DEF M!Targets, M!Kind
<1>6. v7.bad <=> ~v3[t] BY <1>1, <1>2 DEF M!EdgeInv, M!Judged, M!Current
<1>7. M!Kind(t) = "account" /\ v7.bad => v8[t] >= Misses
  BY <1>1, <1>2 DEF M!EdgeInv, M!Judged, M!Current
<1>8. \A u \in M!Targets : M!LastEdge(u)' <=> IF t = u THEN ~v3[t] ELSE M!LastEdge(u)
  BY <1>0, <1>2, <1>4, LastIsAppended
<1>9. v5 \in Seq(Edges) /\ v5' \in Seq(Edges) BY <1>0, <1>2, <1>4, EdgeFields
<1>10. M!EdgeTypes' BY <1>0, <1>2, <1>3, <1>9, EdgeFields, EdgeTypesAre
<1>11. M!Judged' BY <1>2, <1>3, <1>5, <1>6, <1>7 DEF M!Judged, M!Current
<1>12. M!Counted' BY <1>2, <1>5 DEF M!EdgeInv, M!Counted
<1>13. M!Posted' BY <1>3, <1>6, <1>8 DEF M!Posted, M!Current
<1>14. M!Plans' BY <1>1, <1>2, <1>3, <1>5 DEF M!EdgeInv, M!Plans, M!Current
<1>15. M!EdgesAreTold'
  <2>1. ASSUME NEW u \in M!Targets, u \notin v9, u # t PROVE v3'[u] <=> M!LastEdge(u)'
    BY <1>1, <1>2, <1>8, <2>1 DEF M!EdgeInv, M!EdgesAreTold
  <2>2. ASSUME NEW i \in DOMAIN v5', M!Kind(v5'[i].target) = "account", v5'[i].bad
        PROVE  v5'[i].run >= Misses
    <3>1. CASE i \in DOMAIN v5 BY <1>2, <1>4, <1>9, <2>2, <3>1 DEF M!EdgeInv, M!EdgesAreTold
    <3>2. CASE i = Len(v5) + 1 BY <1>2, <1>4, <1>6, <1>7, <1>9, <2>2, <3>2
    <3> QED BY <1>2, <1>4, <1>9, <3>1, <3>2
  <2>3. ASSUME NEW u \in M!Targets, u \notin v9 \cup v10, v6[u] = "armed" PROVE v3[u] \/ u = t
    BY <1>1, <1>2, <2>3 DEF M!EdgeInv, M!EdgesAreTold, M!Current
  <2> QED BY <1>2, <1>3, <1>5, <2>1, <2>2, <2>3 DEF M!EdgesAreTold, M!Current, M!Kind
<1> QED BY <1>10, <1>11, <1>12, <1>13, <1>14, <1>15 DEF M!EdgeInv

\* A step after which the pass is between its targets: what it left behind is settled.
LEMMA EdgesRest ==
  ASSUME M!EdgeInv, UNCHANGED <<v1, v5, v6>>, M!EdgeTypes', v7'.step \in {"idle", "probe"},
         UNCHANGED <<v4, v8>> \/ (\A u \in M!Targets : v4'[u] = v8'[u]),
         \A u \in M!Targets \ v9' : v3'[u] <=> M!LastEdge(u),
         \A u \in M!Targets \ (v9' \cup v10') : v6[u] = "armed" => v3'[u]
  PROVE  M!EdgeInv'
<1>1. M!Targets' = M!Targets
      /\ \A u \in M!Targets : M!Kind(u)' = M!Kind(u) /\ (M!LastEdge(u)' <=> M!LastEdge(u))
  BY DEF M!Targets, M!Kind, M!LastEdge
<1>2. M!Judged' /\ M!Posted' BY DEF M!Judged, M!Posted
<1>3. M!Counted' BY <1>1 DEF M!EdgeInv, M!Counted
<1>4. M!Plans' BY <1>1 DEF M!EdgeInv, M!Plans
<1>5. M!EdgesAreTold'
  <2>1. \A i \in DOMAIN v5 : M!Kind(v5[i].target) = "account" /\ v5[i].bad => v5[i].run >= Misses
    BY DEF M!EdgeInv, M!EdgesAreTold
  <2> QED BY <1>1, <2>1 DEF M!EdgesAreTold, M!Kind
<1> QED BY <1>2, <1>3, <1>4, <1>5 DEF M!EdgeInv

LEMMA StoreKept == ASSUME M!EdgeInv, M!Store PROVE M!EdgeInv'
<1>0. M!EdgeTypes BY DEF M!EdgeInv
<1>1. PICK t \in M!Targets : t = v7.at BY <1>0, EdgeFields DEF M!Store
<1>2. PICK b \in BOOLEAN : b = v7.bad BY <1>0, EdgeFields
<1>3. /\ v7.step = "store" /\ v7' = M!After(t) /\ v3' = [v3 EXCEPT ![t] = b] /\ v9' = v9 \ {t}
      /\ UNCHANGED <<v1, v2, v4, v5, v6, v8, v10>>
  BY <1>1, <1>2 DEF M!Store, M!Remember, M!Current
<1>4. t \in 0..Len(v1.targets) BY <1>0, <1>1, WorldIs
<1>5. /\ v7' \in [at : 0..Len(v1.targets), step : PassSteps, bad : BOOLEAN]
      /\ v7'.step \in {"idle", "probe"} /\ (v7'.step = "probe" => v7'.at \in M!Targets)
  BY <1>0, <1>3, <1>4, AfterIs
<1>6. v3' \in [M!Targets -> BOOLEAN] /\ (v3'[t] <=> b) /\ \A u \in M!Targets \ {t} : v3'[u] <=> v3[u]
  BY <1>0, <1>3, EdgeFields
<1>7. M!EdgeTypes' BY <1>0, <1>3, <1>5, <1>6, EdgeFields, EdgeTypesAre
<1>8. M!LastEdge(t) <=> b BY <1>1, <1>2, <1>3 DEF M!EdgeInv, M!Posted, M!Current
<1>9. ASSUME NEW u \in M!Targets \ v9' PROVE v3'[u] <=> M!LastEdge(u)
  <2>1. CASE u = t BY <1>6, <1>8, <2>1
  <2>2. CASE u # t
    BY <1>1, <1>3, <1>6, <1>9, <2>2 DEF M!EdgeInv, M!EdgesAreTold, M!Current
  <2> QED BY <2>1, <2>2
<1>10. ASSUME NEW u \in M!Targets \ (v9' \cup v10'), v6[u] = "armed" PROVE v3'[u]
  <2>1. CASE u = t
    <3>1. ~v7.bad => t \in v10
      BY <1>1, <1>3, <1>10, <2>1 DEF M!EdgeInv, M!Plans, M!Current
    <3> QED BY <1>2, <1>3, <1>6, <1>10, <2>1, <3>1
  <2>2. CASE u # t
    BY <1>1, <1>3, <1>6, <1>10, <2>2 DEF M!EdgeInv, M!EdgesAreTold, M!Current
  <2> QED BY <2>1, <2>2
<1> QED BY <1>3, <1>5, <1>7, <1>9, <1>10, EdgesRest

\* A failing emit: the watcher remembers nothing and tries again, the others remember an edge
\* that nobody was told of.
LEMMA EmitFailsKept == ASSUME M!EdgeInv, M!EmitFails PROVE M!EdgeInv'
<1>0. M!EdgeTypes BY DEF M!EdgeInv
<1>1. PICK t \in M!Targets : t = v7.at BY <1>0, EdgeFields DEF M!EmitFails
<1>2. CASE M!InMemory
  <2>1. /\ v7.step = "emit" /\ v1.monitor = "health" /\ v7' = M!Resting
        /\ UNCHANGED <<v1, v2, v3, v4, v5, v6, v8, v9, v10>>
    BY <1>2 DEF M!EmitFails, M!InMemory
  <2>2. /\ v7' \in [at : 0..Len(v1.targets), step : PassSteps, bad : BOOLEAN]
        /\ v7'.step = "idle"
    BY <1>0, <2>1, WorldIs DEF M!Resting, PassSteps
  <2>3. v2' \in [M!Targets -> 0..2] BY <1>0, <2>1, EdgeFields
  <2> QED BY <2>1, <2>2, <2>3, EdgesQuiet
<1>3. CASE ~M!InMemory
  <2>1. PICK b \in BOOLEAN : b = v7.bad BY <1>0, EdgeFields
  <2>2. /\ v7.step = "emit" /\ v7' = M!After(t) /\ v3' = [v3 EXCEPT ![t] = b]
        /\ v9' = v9 \cup {t} /\ UNCHANGED <<v1, v2, v4, v5, v6, v8, v10>>
    BY <1>1, <1>3, <2>1 DEF M!EmitFails, M!EmitSwallowed, M!Remember, M!Current
  <2>3. t \in 0..Len(v1.targets) BY <1>0, <1>1, WorldIs
  <2>4. /\ v7' \in [at : 0..Len(v1.targets), step : PassSteps, bad : BOOLEAN]
        /\ v7'.step \in {"idle", "probe"} /\ (v7'.step = "probe" => v7'.at \in M!Targets)
    BY <1>0, <2>2, <2>3, AfterIs
  <2>5. v3' \in [M!Targets -> BOOLEAN] /\ \A u \in M!Targets \ {t} : v3'[u] <=> v3[u]
    BY <1>0, <2>2, EdgeFields
  <2>6. M!EdgeTypes' BY <1>0, <2>2, <2>4, <2>5, EdgeFields, EdgeTypesAre
  <2>7. ASSUME NEW u \in M!Targets \ v9' PROVE v3'[u] <=> M!LastEdge(u)
    BY <1>1, <2>2, <2>5, <2>7 DEF M!EdgeInv, M!EdgesAreTold, M!Current
  <2>8. ASSUME NEW u \in M!Targets \ (v9' \cup v10'), v6[u] = "armed" PROVE v3'[u]
    BY <1>1, <2>2, <2>5, <2>8 DEF M!EdgeInv, M!EdgesAreTold, M!Current
  <2> QED BY <2>2, <2>4, <2>6, <2>7, <2>8, EdgesRest
<1> QED BY <1>2, <1>3

LEMMA EmitBlurredKept == ASSUME M!EdgeInv, M!EmitBlurred PROVE M!EdgeInv'
<1>0. M!EdgeTypes BY DEF M!EdgeInv
<1>1. PICK t \in M!Targets : t = v7.at BY <1>0, EdgeFields DEF M!EmitBlurred
<1>2. /\ v7.step = "store" /\ v7' = [at |-> 0, step |-> "idle", bad |-> FALSE] /\ v9' = v9 \cup {t}
      /\ UNCHANGED <<v1, v2, v3, v4, v5, v6, v8, v10>>
  BY <1>1 DEF M!EmitBlurred, M!Current, M!Resting
<1>3. v7' \in [at : 0..Len(v1.targets), step : PassSteps, bad : BOOLEAN] /\ v7'.step = "idle"
  BY <1>0, <1>2, WorldIs DEF PassSteps
<1>4. M!EdgeTypes' BY <1>0, <1>2, <1>3, EdgeFields, EdgeTypesAre
<1>5. ASSUME NEW u \in M!Targets \ v9' PROVE v3'[u] <=> M!LastEdge(u)
  BY <1>1, <1>2, <1>5 DEF M!EdgeInv, M!EdgesAreTold, M!Current
<1>6. ASSUME NEW u \in M!Targets \ (v9' \cup v10'), v6[u] = "armed" PROVE v3'[u]
  BY <1>1, <1>2, <1>6 DEF M!EdgeInv, M!EdgesAreTold, M!Current
<1> QED BY <1>2, <1>3, <1>4, <1>5, <1>6, EdgesRest

LEMMA MonitorCrashKept == ASSUME M!EdgeInv, M!Crash PROVE M!EdgeInv'
<1>0. M!EdgeTypes BY DEF M!EdgeInv
<1>1. /\ v7' = [at |-> 0, step |-> "idle", bad |-> FALSE] /\ UNCHANGED <<v1, v2, v5, v6>>
      /\ v8' = [u \in M!Targets |-> 0] /\ v4' = [u \in M!Targets |-> 0]
      /\ v3' = IF M!InMemory THEN [u \in M!Targets |-> FALSE] ELSE v3
  BY DEF M!Crash, M!Resting
<1>2. v7' \in [at : 0..Len(v1.targets), step : PassSteps, bad : BOOLEAN] /\ v7'.step = "idle"
  BY <1>0, <1>1, WorldIs DEF PassSteps
<1>3. v3' \in [M!Targets -> BOOLEAN] BY <1>0, <1>1, EdgeFields
<1>4. v4' \in [M!Targets -> Nat] /\ v8' \in [M!Targets -> Nat] /\ \A u \in M!Targets : v4'[u] = v8'[u]
  BY <1>1
<1>5. M!EdgeTypes' BY <1>0, <1>1, <1>2, <1>3, <1>4, EdgeFields, EdgeTypesAre
<1>6. \A u \in M!Targets : u \notin v9' =>
        u \notin v9 /\ (M!InMemory => ~v3[u]) /\ (v7.step = "store" => v7.at # u)
  BY DEF M!Crash, M!Current
<1>7. \A u \in M!Targets : u \notin v10' =>
        u \notin v10 /\ (v7.step = "emit" /\ v6[u] = "armed" => v7.at # u)
  BY DEF M!Crash, M!Current
<1>8. \A u \in M!Targets : v3'[u] <=> IF M!InMemory THEN FALSE ELSE v3[u] BY <1>1
<1>9. ASSUME NEW u \in M!Targets \ v9' PROVE v3'[u] <=> M!LastEdge(u)
  <2>1. v3[u] <=> M!LastEdge(u) BY <1>6, <1>9 DEF M!EdgeInv, M!EdgesAreTold, M!Current
  <2> QED BY <1>6, <1>8, <1>9, <2>1
<1>10. ASSUME NEW u \in M!Targets \ (v9' \cup v10'), v6[u] = "armed" PROVE v3'[u]
  <2>1. M!Kind(u) = "coin" BY <1>10 DEF M!EdgeInv, M!Plans
  <2>2. ~M!InMemory BY <1>0, <2>1, WorldIs DEF M!InMemory
  <2>3. v3[u] BY <1>6, <1>7, <1>10 DEF M!EdgeInv, M!EdgesAreTold, M!Current
  <2> QED BY <1>8, <2>2, <2>3
<1> QED BY <1>1, <1>2, <1>4, <1>5, <1>9, <1>10, EdgesRest

LEMMA BeginPassKept == ASSUME M!EdgeInv, M!Begin PROVE M!EdgeInv'
<1>0. M!EdgeTypes BY DEF M!EdgeInv
<1>1. /\ v7 = [at |-> 0, step |-> "idle", bad |-> FALSE] /\ v7' = M!After(0)
      /\ UNCHANGED <<v1, v2, v3, v4, v5, v6, v8, v9, v10>>
  BY DEF M!Begin, M!Resting
<1>2. 0 \in 0..Len(v1.targets) BY <1>0, WorldIs
<1>3. /\ v7' \in [at : 0..Len(v1.targets), step : PassSteps, bad : BOOLEAN]
      /\ v7'.step \in {"idle", "probe"} /\ (v7'.step = "probe" => v7'.at \in M!Targets)
  BY <1>0, <1>1, <1>2, AfterIs
<1>4. v7.step = "idle" /\ v2' \in [M!Targets -> 0..2] BY <1>0, <1>1, EdgeFields
<1> QED BY <1>1, <1>3, <1>4, EdgesQuiet

\* Targets that are passed over, and passes that end early.
LEMMA SkipKept ==
  ASSUME M!EdgeInv, M!AccountsNotDue \/ M!CoinSkipped \/ M!StrategySkipped \/ M!ReadFails
  PROVE  M!EdgeInv'
<1>0. M!EdgeTypes BY DEF M!EdgeInv
<1>1. /\ v7.step = "probe" /\ UNCHANGED <<v1, v2, v3, v4, v5, v6, v8, v9, v10>>
      /\ v7' = [at |-> 0, step |-> "idle", bad |-> FALSE] \/ v7' = M!After(v7.at)
  BY DEF M!AccountsNotDue, M!CoinSkipped, M!StrategySkipped, M!ReadFails, M!Probing, M!Unread,
         M!Resting, M!Current
<1>2. PICK t \in 0..Len(v1.targets) : t = v7.at BY <1>0, EdgeFields
<1>3. /\ v7' \in [at : 0..Len(v1.targets), step : PassSteps, bad : BOOLEAN]
      /\ v7'.step \in {"idle", "probe"} /\ (v7'.step = "probe" => v7'.at \in M!Targets)
  <2>1. CASE v7' = [at |-> 0, step |-> "idle", bad |-> FALSE]
    BY <1>0, <2>1, WorldIs DEF PassSteps
  <2>2. CASE v7' = M!After(t) BY <1>0, <2>2, AfterIs
  <2> QED BY <1>1, <1>2, <2>1, <2>2
<1>4. v2' \in [M!Targets -> 0..2] BY <1>0, <1>1, EdgeFields
<1> QED BY <1>1, <1>3, <1>4, EdgesQuiet

LEMMA MoveKept == ASSUME M!EdgeInv, NEW t \in M!Targets, M!Move(t) PROVE M!EdgeInv'
<1>0. PICK L : /\ L = (IF M!InMemory THEN {0, 2} ELSE 0..2) \ {v2[t]}
               /\ \E l \in L : v2' = [v2 EXCEPT ![t] = l]
  BY DEF M!Move
<1>1. PICK l \in 0..2 : v2' = [v2 EXCEPT ![t] = l]
  <2>1. L \subseteq 0..2 BY <1>0
  <2> QED BY <1>0, <2>1
<1>2. UNCHANGED <<v1, v3, v4, v5, v6, v7, v8, v9, v10>> BY DEF M!Move
<1>3. v2' \in [M!Targets -> 0..2] BY <1>1, EdgeFields DEF M!EdgeInv
<1> QED BY <1>2, <1>3, EdgesQuiet

LEMMA EdgesNext == M!EdgeInv /\ [M!Next]_(M!vars) => M!EdgeInv'
<1> SUFFICES ASSUME M!EdgeInv, [M!Next]_(M!vars) PROVE M!EdgeInv' OBVIOUS
<1>1. CASE M!Next
  BY <1>1, BeginPassKept, ProbeKept, ProbeAccountKept, SkipKept, PlanKept, EmitKept, EmitFailsKept,
     EmitBlurredKept, StoreKept, MonitorCrashKept, MoveKept DEF M!Next
<1>2. CASE UNCHANGED M!vars
  <2>1. UNCHANGED <<v1, v2, v3, v4, v5, v6, v7, v8, v9, v10>> BY <1>2 DEF M!vars
  <2>2. v2' \in [M!Targets -> 0..2] BY <2>1, EdgeFields DEF M!EdgeInv
  <2> QED BY <2>1, <2>2, EdgesQuiet
<1> QED BY <1>1, <1>2

LEMMA MonitorsMove ==
  turn = "monitors" /\ [NextServices]_all => turn' = "monitors" /\ [M!Next]_(M!vars)
BY DEF NextServices, all, cells, M!vars

\* What a monitor remembers is what the stream last said of its target, for any number of
\* targets, threshold, condition changes, failing calls and restarts, except between an event and
\* its memory and where a fault or a restart parted the two; an account goes down only after
\* Threshold misses in a row, and a cooled coin keeps no armed plan but where that is known.
THEOREM EdgesAreToldHolds == SpecServices => []EdgesAreTold
<1> DEFINE Inv == turn = "monitors" => M!EdgeInv
<1>1. InitServices => Inv BY EdgesInit DEF InitServices
<1>2. Inv /\ [NextServices]_all => Inv'
  <2> SUFFICES ASSUME Inv, [NextServices]_all PROVE Inv' OBVIOUS
  <2>1. turn' = turn \/ turn = "monitors" BY DEF NextServices, all
  <2> QED BY <2>1, EdgesNext, MonitorsMove
<1>3. Inv => EdgesAreTold BY DEF EdgesAreTold, M!EdgeInv
<1> QED BY <1>1, <1>2, <1>3, PTL DEF SpecServices

-------------------------------------------------------------------------------
(* Notifications: v1 feed, v2 stream, v3 given, v4 pending, v5 log, v6     *)
(* device, v7 consumer, v8 day, v9 pushed, v10 unlogged, v11 raised.       *)

Tasks == [phase : {"down", "drain", "live", "dead"}, batch : SUBSET Nat, last : SUBSET Nat,
          step : {"next", "push", "log", "ack"}, todo : SUBSET Devices, reached : SUBSET Devices,
          status : {"sent", "failed", "skipped"}]
Subscriptions == [enabled : BOOLEAN, answer : N!Answers]

LEMMA NoticeFields ==
  ASSUME N!NoticeTypes
  PROVE  /\ v1 \in Seq(N!Events) /\ v2 \in Seq(N!Events) /\ v3 \in 0..Len(v2) /\ Len(v2) \in Nat
         /\ v4 \subseteq 1..v3 /\ v5 \in Seq(N!Rows) /\ v6 \in [Devices -> Subscriptions]
         /\ v7 \in Tasks /\ v7.batch \subseteq v4
         /\ v8 \in Nat /\ v9 \in Seq(N!Pushes) /\ v10 \in Seq(N!Keys)
BY DEF N!NoticeTypes, Tasks, Subscriptions

LEMMA NoticeTypesAre ==
  ASSUME v1' \in Seq(N!Events), v2' \in Seq(N!Events), v3' \in 0..Len(v2'), v4' \subseteq 1..v3',
         v5' \in Seq(N!Rows), v6' \in [Devices -> Subscriptions], v7' \in Tasks,
         v7'.batch \subseteq v4', v8' \in Nat, v9' \in Seq(N!Pushes), v10' \in Seq(N!Keys)
  PROVE  N!NoticeTypes'
BY DEF N!NoticeTypes, Tasks, Subscriptions

\* The entry in hand is of the batch, delivered and not acknowledged.
LEMMA CurrentIs ==
  ASSUME N!NoticeTypes, v7.batch # {}
  PROVE  /\ N!Current \in v7.batch /\ N!Current \in v4 /\ N!Current \in 1..v3
         /\ N!Current \in Nat /\ v2[N!Current] \in N!Events /\ N!Key \in N!Keys
<1>1. v7.batch \in SUBSET Nat BY NoticeFields DEF Tasks
<1>2. \E id \in v7.batch : \A other \in v7.batch : id <= other BY <1>1, LeastNumber
<1>3. N!Current \in v7.batch BY <1>2 DEF N!Current
<1>4. N!Current \in v4 /\ N!Current \in 1..v3 /\ v3 \in 0..Len(v2) BY <1>3, NoticeFields
<1>5. v2[N!Current] \in N!Events BY <1>4, NoticeFields
<1>6. N!Key \in N!Keys BY <1>5 DEF N!Key, N!Events
<1> QED BY <1>1, <1>3, <1>4, <1>5, <1>6

\* The module's cardinality is that of the library.
LEMMA CopiesCardinality == ASSUME NEW S PROVE N!Cardinality(S) = Cardinality(S)
BY DEF N!Cardinality, Cardinality

LEMMA FirstsFinite == ASSUME NEW n \in Nat PROVE IsFiniteSet(1..n)
BY FS_Interval

LEMMA CopiesCounted ==
  ASSUME NEW S, NEW s \in Seq(S), NEW x PROVE N!Copies(s, x) \in Nat
<1>0. Len(s) \in Nat /\ DOMAIN s = 1..Len(s) OBVIOUS
<1>1. IsFiniteSet(1..Len(s)) /\ DOMAIN s = 1..Len(s) BY <1>0, FirstsFinite
<1>2. IsFiniteSet({i \in DOMAIN s : s[i] = x})
  <2>1. {i \in DOMAIN s : s[i] = x} \subseteq 1..Len(s) BY <1>1
  <2> QED BY <1>1, <2>1, FS_Subset
<1> QED BY <1>2, FS_CardinalityType, CopiesCardinality DEF N!Copies

LEMMA NoCopies ==
  ASSUME NEW S, NEW s \in Seq(S), NEW x, \A i \in DOMAIN s : s[i] # x PROVE N!Copies(s, x) = 0
<1>1. {i \in DOMAIN s : s[i] = x} = {} OBVIOUS
<1> QED BY <1>1, FS_EmptySet, CopiesCardinality DEF N!Copies

LEMMA CopiesAppended ==
  ASSUME NEW S, NEW s \in Seq(S), NEW e \in S, NEW x
  PROVE  N!Copies(Append(s, e), x) = N!Copies(s, x) + (IF e = x THEN 1 ELSE 0)
<1> DEFINE Old == {i \in DOMAIN s : s[i] = x}
           New == {i \in DOMAIN Append(s, e) : Append(s, e)[i] = x}
<1>1. /\ DOMAIN s = 1..Len(s) /\ Len(s) \in Nat
      /\ DOMAIN Append(s, e) = 1..(Len(s) + 1) /\ Append(s, e)[Len(s) + 1] = e
      /\ \A i \in 1..Len(s) : Append(s, e)[i] = s[i]
  OBVIOUS
<1>2. IsFiniteSet(Old)
  <2>1. IsFiniteSet(1..Len(s)) BY <1>1, FirstsFinite
  <2>2. Old \subseteq 1..Len(s) BY <1>1
  <2> QED BY <2>1, <2>2, FS_Subset
<1>3. CASE e = x
  <2>1. New = Old \cup {Len(s) + 1} BY <1>1, <1>3
  <2>2. Len(s) + 1 \notin Old BY <1>1
  <2>3. Cardinality(New) = Cardinality(Old) + 1 BY <1>2, <2>1, <2>2, FS_AddElement
  <2> QED BY <1>3, <2>3, CopiesCardinality DEF N!Copies
<1>4. CASE e # x
  <2>1. New = Old BY <1>1, <1>4
  <2>2. Cardinality(Old) \in Nat BY <1>2, FS_CardinalityType
  <2>3. N!Copies(Append(s, e), x) = Cardinality(New) /\ N!Copies(s, x) = Cardinality(Old)
    BY CopiesCardinality DEF N!Copies
  <2> HIDE DEF Old, New
  <2> QED BY <1>4, <2>1, <2>2, <2>3
<1> QED BY <1>3, <1>4

LEMMA NoticeInit == N!Init => N!NoticeInv
<1> SUFFICES ASSUME N!Init PROVE N!NoticeInv OBVIOUS
<1>1. /\ v1 \in Feeds /\ v2 = <<>> /\ v3 = 0 /\ v4 = {} /\ v5 = <<>> /\ v8 = 0 /\ v9 = <<>>
      /\ v10 = <<>>
      /\ v7 = [phase |-> "down", batch |-> {}, last |-> {}, step |-> "next", todo |-> {},
               reached |-> {}, status |-> "skipped"]
  BY DEF N!Init, N!Idle
<1>2. v6 \in [Devices -> Subscriptions]
  <2>1. PICK reply \in Replies : v6 = [d \in Devices |-> [enabled |-> TRUE, answer |-> reply[d]]]
    BY DEF N!Init
  <2>2. \A d \in Devices : reply[d] \in {"delivered", "refused", "gone"} BY RepliesAssumption
  <2> QED BY <2>1, <2>2 DEF Subscriptions, N!Answers
<1>3. v1 \in Seq(N!Events) BY <1>1, FeedsAssumption DEF N!Events, N!Kinds, N!Keys
<1>4. v7 \in Tasks BY <1>1 DEF Tasks
<1>5. v3 \in 0..Len(v2) /\ v4 \subseteq 1..v3 BY <1>1
<1>6. v2 \in Seq(N!Events) /\ v5 \in Seq(N!Rows) /\ v9 \in Seq(N!Pushes) /\ v10 \in Seq(N!Keys)
  BY <1>1
<1>7. N!NoticeTypes BY <1>1, <1>2, <1>3, <1>4, <1>5, <1>6 DEF N!NoticeTypes, Tasks, Subscriptions
<1>8. N!InHand /\ N!Acked /\ N!Fresh BY <1>1 DEF N!InHand, N!Acked, N!Fresh
<1>9. N!Once
  <2>1. ASSUME NEW p \in N!Pushes PROVE N!Copies(v9, p) = 0 /\ N!Copies(v10, p.key) \in Nat
    <3>1. \A i \in DOMAIN v9 : v9[i] # p BY <1>1
    <3>2. N!Copies(v9, p) = 0 BY <1>6, <3>1, NoCopies
    <3> QED BY <1>6, <3>2, CopiesCounted
  <2> QED BY <2>1 DEF N!Once
<1> QED BY <1>7, <1>8, <1>9 DEF N!NoticeInv

\* The pushes stand, and every one that was covered is, or a run that was cut off is on record.
LEMMA OnceKept ==
  ASSUME N!NoticeInv, v9' = v9, v10' = v10 \/ (N!Key \in N!Keys /\ v10' = Append(v10, N!Key)),
         \A p \in N!Pushes : p.key # NULL /\ N!Covered(p) =>
           N!Covered(p)' \/ (v10' = Append(v10, N!Key) /\ p.key = N!Key)
  PROVE  N!Once'
<1>1. v9 \in Seq(N!Pushes) /\ v10 \in Seq(N!Keys) BY NoticeFields DEF N!NoticeInv
<1> SUFFICES ASSUME NEW p \in N!Pushes, p.key # NULL
             PROVE  N!Copies(v9', p) <= N!Copies(v10', p.key) + (IF N!Covered(p)' THEN 1 ELSE 0)
  BY DEF N!Once
<1>2. N!Copies(v9, p) \in Nat /\ N!Copies(v10, p.key) \in Nat BY <1>1, CopiesCounted
<1>3. N!Copies(v9, p) <= N!Copies(v10, p.key) + (IF N!Covered(p) THEN 1 ELSE 0)
  BY DEF N!NoticeInv, N!Once
<1>4. CASE v10' = v10
  <2>1. N!Covered(p) => N!Covered(p)' \/ v10' = Append(v10, N!Key) OBVIOUS
  <2>2. v10' # Append(v10, N!Key) BY <1>1, <1>4
  <2> QED BY <1>2, <1>3, <1>4, <2>1, <2>2
<1>5. CASE N!Key \in N!Keys /\ v10' = Append(v10, N!Key)
  <2>1. PICK k \in N!Keys : k = N!Key BY <1>5
  <2>2. N!Copies(v10', p.key) = N!Copies(v10, p.key) + (IF k = p.key THEN 1 ELSE 0)
    BY <1>1, <1>5, <2>1, CopiesAppended
  <2>3. N!Covered(p) => N!Covered(p)' \/ p.key = k BY <2>1
  <2> QED BY <1>2, <1>3, <2>2, <2>3
<1> QED BY <1>4, <1>5

\* The consumer lets go of what it had in hand, if anything: a run that reached a device and has
\* no row to show for it is on record.
LEMMA EntryLeft ==
  ASSUME N!NoticeInv, UNCHANGED <<v1, v2, v3, v4, v5, v6, v8, v9>>,
         v7' \in Tasks, v7'.step = "next", v7'.reached = {}, v7'.batch \subseteq v4,
         v7'.phase \in {"down", "dead"} => v7'.batch = {},
         v10' = IF v7.step # "ack" /\ v7.reached # {} THEN Append(v10, N!Key) ELSE v10
  PROVE  N!NoticeInv'
<1>0. N!NoticeTypes BY DEF N!NoticeInv
<1>1. v10' = v10 \/ (N!Key \in N!Keys /\ v10' = Append(v10, N!Key))
  <2>1. v7.reached # {} => v7.batch # {} BY DEF N!NoticeInv, N!InHand
  <2>2. v7.reached # {} => N!Key \in N!Keys BY <1>0, <2>1, CurrentIs
  <2> QED BY <2>2
<1>2. v10 \in Seq(N!Keys) BY <1>0, NoticeFields
<1>3. v10' \in Seq(N!Keys)
  <2>1. CASE v10' = v10 BY <1>2, <2>1
  <2>2. CASE N!Key \in N!Keys /\ v10' = Append(v10, N!Key)
    <3>1. PICK k \in N!Keys : k = N!Key BY <2>2
    <3> QED BY <1>2, <2>2, <3>1
  <2> QED BY <1>1, <2>1, <2>2
<1>4. N!NoticeTypes' BY <1>0, <1>3, NoticeFields, NoticeTypesAre
<1>5. N!InHand' BY DEF N!InHand
<1>6. N!Acked' BY DEF N!NoticeInv, N!Acked, N!Logged
<1>7. N!Fresh' BY DEF N!NoticeInv, N!Fresh
<1>8. ASSUME NEW p \in N!Pushes, p.key # NULL, N!Covered(p)
      PROVE  N!Covered(p)' \/ (v10' = Append(v10, N!Key) /\ p.key = N!Key)
  BY <1>8 DEF N!Covered
<1>9. N!Once' BY <1>1, <1>8, OnceKept
<1> QED BY <1>4, <1>5, <1>6, <1>7, <1>9 DEF N!NoticeInv

LEMMA IdleTaskIs ==
  ASSUME NEW phase \in {"down", "drain", "live", "dead"}
  PROVE  /\ N!Idle(phase) \in Tasks /\ N!Idle(phase).phase = phase /\ N!Idle(phase).batch = {}
         /\ N!Idle(phase).step = "next" /\ N!Idle(phase).reached = {} /\ N!Idle(phase).todo = {}
<1>1. N!Idle(phase) = [phase |-> phase, batch |-> {}, last |-> {}, step |-> "next", todo |-> {},
                      reached |-> {}, status |-> "skipped"]
  BY DEF N!Idle
<1> QED BY <1>1 DEF Tasks

\* The next entry of the batch is taken with a clean slate.
LEMMA NextEntryIs ==
  ASSUME N!NoticeTypes, N!NextEntry
  PROVE  /\ v7' \in Tasks /\ v7'.phase = v7.phase /\ v7'.batch = v7.batch \ {N!Current}
         /\ v7'.step = "next" /\ v7'.reached = {} /\ v7'.todo = {}
<1>1. v7 \in Tasks BY NoticeFields
<1>2. PICK B : B = v7.batch \ {N!Current} OBVIOUS
<1>3. v7' = [phase |-> v7.phase, batch |-> B, last |-> v7.last, step |-> "next", todo |-> {},
            reached |-> {}, status |-> "skipped"]
  BY <1>2 DEF N!NextEntry, N!Idle
<1> QED BY <1>1, <1>2, <1>3 DEF Tasks

LEMMA RaiseKept ==
  ASSUME N!NoticeInv, N!Raise, v7.batch # {}, v7.phase \notin {"down", "dead"},
         UNCHANGED <<v1, v2, v3, v4, v5, v6, v8, v9>>
  PROVE  N!NoticeInv'
<1>0. N!NoticeTypes BY DEF N!NoticeInv
<1>1. /\ v7' \in Tasks /\ v7'.phase = v7.phase /\ v7'.batch = v7.batch \ {N!Current}
      /\ v7'.step = "next" /\ v7'.reached = {}
  BY <1>0, NextEntryIs DEF N!Raise
<1>2. v7'.batch \subseteq v4 BY <1>0, <1>1, NoticeFields
<1>3. v10' = IF v7.step # "ack" /\ v7.reached # {} THEN Append(v10, N!Key) ELSE v10
  BY DEF N!Raise, N!Unlogged
<1> QED BY <1>1, <1>2, <1>3, EntryLeft

LEMMA FailureKept == ASSUME N!NoticeInv, N!Malformed \/ N!CallFails PROVE N!NoticeInv'
<1>1. N!Raise /\ UNCHANGED <<v1, v2, v3, v4, v5, v6, v8, v9>> BY DEF N!Malformed, N!CallFails
<1>2. v7.batch # {} /\ v7.phase \in {"drain", "live"} BY DEF N!Malformed, N!CallFails, N!At
<1> QED BY <1>1, <1>2, RaiseKept

LEMMA ConsumerCrashKept == ASSUME N!NoticeInv, N!Crash PROVE N!NoticeInv'
<1>1. UNCHANGED <<v1, v2, v3, v4, v5, v6, v8, v9>> /\ v7' = N!Idle("down") BY DEF N!Crash
<1>2. v10' = IF v7.step # "ack" /\ v7.reached # {} THEN Append(v10, N!Key) ELSE v10
  BY DEF N!Crash, N!Unlogged, N!NoticeInv, N!InHand
<1>3. /\ v7' \in Tasks /\ v7'.step = "next" /\ v7'.reached = {} /\ v7'.batch = {}
  BY <1>1, IdleTaskIs
<1> QED BY <1>1, <1>2, <1>3, EntryLeft

\* Starting, draining and giving up have nothing in hand.
LEMMA StartKept == ASSUME N!NoticeInv, N!Start \/ N!ReadPending \/ N!DrainDies PROVE N!NoticeInv'
<1>0. N!NoticeTypes BY DEF N!NoticeInv
<1>1. /\ UNCHANGED <<v1, v2, v3, v4, v5, v6, v8, v9, v10>>
      /\ v7.batch = {} /\ v7.step = "next" /\ v7.reached = {}
  BY DEF N!Start, N!ReadPending, N!DrainDies, N!NoticeInv, N!InHand
<1>2. /\ v7' \in Tasks /\ v7'.step = "next" /\ v7'.reached = {} /\ v7'.batch \subseteq v4
      /\ v7'.phase \in {"down", "dead"} => v7'.batch = {}
  <2>1. CASE \E phase \in {"drain", "live", "dead"} : v7' = N!Idle(phase) BY <2>1, IdleTaskIs
  <2>2. CASE v7.phase = "drain" /\ v7' = [v7 EXCEPT !.batch = N!FirstOf(v4), !.last = N!FirstOf(v4)]
    <3>1. PICK firsts : firsts = N!FirstOf(v4) OBVIOUS
    <3>2. firsts \subseteq v4 /\ firsts \subseteq Nat BY <1>0, <3>1, NoticeFields DEF N!FirstOf
    <3> QED BY <1>0, <1>1, <2>2, <3>1, <3>2, NoticeFields DEF Tasks
  <2> QED BY <2>1, <2>2 DEF N!Start, N!ReadPending, N!DrainDies
<1> QED BY <1>1, <1>2, EntryLeft

LEMMA DaysAre ==
  ASSUME N!NoticeTypes
  PROVE  /\ \A i \in DOMAIN v5 : v5[i] \in N!Rows /\ v5[i].day \in Nat
         /\ \A i \in DOMAIN v9 : v9[i] \in N!Pushes /\ v9[i].day \in Nat
<1>1. \A i \in DOMAIN v5 : v5[i] \in N!Rows BY NoticeFields
<1>2. \A i \in DOMAIN v9 : v9[i] \in N!Pushes BY NoticeFields
<1>3. \A r \in N!Rows : r.day \in Nat BY DEF N!Rows
<1>4. \A p \in N!Pushes : p.day \in Nat BY DEF N!Pushes
<1> QED BY <1>1, <1>2, <1>3, <1>4

\* A step of somebody else: the stream grows, time passes, a device subscribes.
LEMMA ElsewhereKept ==
  ASSUME N!NoticeInv, UNCHANGED <<v3, v4, v5, v7, v9, v10>>, N!NoticeTypes',
         \A id \in 1..v3 : v2'[id] = v2[id], v8 <= v8'
  PROVE  N!NoticeInv'
<1>0. N!NoticeTypes BY DEF N!NoticeInv
<1>1. N!Current' = N!Current BY DEF N!Current
<1>2. v7.step # "next" => v7.batch # {} BY DEF N!NoticeInv, N!InHand
<1>3. v7.step # "next" => N!Key' = N!Key /\ N!Current \in 1..v3
  <2>1. v7.step # "next" => N!Current \in 1..v3 BY <1>0, <1>2, CurrentIs
  <2>2. PICK c : c = N!Current OBVIOUS
  <2> QED BY <1>1, <2>1, <2>2 DEF N!Key
<1>4. \A id \in 1..v3 : N!Logged(id) => N!Logged(id)' BY DEF N!Logged
<1>5. v8 \in Nat /\ v8' \in Nat /\ v5 \in Seq(N!Rows) /\ v9 \in Seq(N!Pushes)
  BY <1>0, NoticeFields DEF N!NoticeTypes
<1>6. N!InHand' BY DEF N!NoticeInv, N!InHand
<1>7. N!Acked'
  <2>1. ASSUME v7.step = "ack" PROVE N!Logged(N!Current)'
    <3>1. PICK c \in 1..v3 : c = N!Current /\ c = N!Current' BY <1>1, <1>3, <2>1
    <3>2. N!Logged(c)' BY <1>4, <2>1, <3>1 DEF N!NoticeInv, N!Acked
    <3> QED BY <3>1, <3>2 DEF N!Logged
  <2> QED BY <1>4, <2>1 DEF N!NoticeInv, N!Acked
<1>8. N!Fresh'
  <2>1. \A i \in DOMAIN v5 : v5[i].day \in Nat BY <1>0, DaysAre
  <2>2. \A i \in DOMAIN v9 : v9[i].day \in Nat BY <1>0, DaysAre
  <2>3. (\A i \in DOMAIN v5 : v5[i].day <= v8') /\ (\A i \in DOMAIN v9 : v9[i].day <= v8')
    BY <1>5, <2>1, <2>2 DEF N!NoticeInv, N!Fresh
  <2>4. v7.step = "push" /\ N!Key' # NULL => \A i \in DOMAIN v5 : v5[i].key = N!Key' => v5[i].day < v8'
    BY <1>3, <1>5, <2>1 DEF N!NoticeInv, N!Fresh
  <2> QED BY <2>3, <2>4 DEF N!Fresh
<1>9. \A p \in N!Pushes : N!Covered(p) => N!Covered(p)' BY <1>3 DEF N!Covered
<1>10. N!Once' BY <1>9, OnceKept
<1> QED BY <1>6, <1>7, <1>8, <1>10 DEF N!NoticeInv

LEMMA PublishKept == ASSUME N!NoticeInv, N!Publish PROVE N!NoticeInv'
<1>0. N!NoticeTypes BY DEF N!NoticeInv
<1>1. /\ v1 # <<>> /\ v2' = Append(v2, Head(v1)) /\ v1' = Tail(v1)
      /\ UNCHANGED <<v3, v4, v5, v6, v7, v8, v9, v10>>
  BY DEF N!Publish
<1>2. Head(v1) \in N!Events /\ Tail(v1) \in Seq(N!Events) BY <1>0, <1>1, NoticeFields
<1>3. /\ v2' \in Seq(N!Events) /\ Len(v2') = Len(v2) + 1 /\ v3' \in 0..Len(v2')
      /\ \A id \in 1..v3 : v2'[id] = v2[id]
  BY <1>0, <1>1, <1>2, NoticeFields
<1>4. N!NoticeTypes' BY <1>0, <1>1, <1>2, <1>3, NoticeFields, NoticeTypesAre
<1>5. v8 <= v8' BY <1>0, <1>1, NoticeFields
<1> QED BY <1>1, <1>3, <1>4, <1>5, ElsewhereKept

LEMMA DayKept == ASSUME N!NoticeInv, N!DayPasses PROVE N!NoticeInv'
<1>0. N!NoticeTypes BY DEF N!NoticeInv
<1>1. v8' = v8 + 1 /\ UNCHANGED <<v1, v2, v3, v4, v5, v6, v7, v9, v10>> BY DEF N!DayPasses
<1>2. v8' \in Nat /\ v8 <= v8' BY <1>0, <1>1, NoticeFields
<1>3. N!NoticeTypes' BY <1>0, <1>1, <1>2, NoticeFields, NoticeTypesAre
<1> QED BY <1>1, <1>2, <1>3, ElsewhereKept

LEMMA SubscriptionKept ==
  ASSUME N!NoticeInv, NEW d \in Devices, N!Subscribe(d) \/ N!Unsubscribe(d) PROVE N!NoticeInv'
<1>0. N!NoticeTypes BY DEF N!NoticeInv
<1>1. UNCHANGED <<v1, v2, v3, v4, v5, v7, v8, v9, v10>> BY DEF N!Subscribe, N!Unsubscribe
<1>2. v6' \in [Devices -> Subscriptions]
  <2>1. v6 \in [Devices -> Subscriptions] BY <1>0, NoticeFields
  <2>2. CASE v6' = [v6 EXCEPT ![d] = [enabled |-> TRUE, answer |-> "delivered"]]
    BY <2>1, <2>2 DEF Subscriptions, N!Answers
  <2>3. CASE v6' = [v6 EXCEPT ![d].enabled = FALSE] BY <2>1, <2>3 DEF Subscriptions
  <2> QED BY <2>2, <2>3 DEF N!Subscribe, N!Unsubscribe
<1>3. N!NoticeTypes' BY <1>0, <1>1, <1>2, NoticeFields, NoticeTypesAre
<1>4. v8 <= v8' BY <1>0, <1>1, NoticeFields
<1> QED BY <1>1, <1>3, <1>4, ElsewhereKept

\* A batch of new entries is delivered, and pending, whether or not the consumer hears of it.
LEMMA ReadKept == ASSUME N!NoticeInv, N!ReadGroup \/ N!ReadLost PROVE N!NoticeInv'
<1>0. N!NoticeTypes BY DEF N!NoticeInv
<1>1. /\ v7.phase = "live" /\ v7.batch = {} /\ v7.step = "next"
      /\ v3' = N!Upto /\ v4' = v4 \cup ((v3 + 1)..N!Upto)
      /\ UNCHANGED <<v1, v2, v5, v6, v8, v9, v10>>
      /\ v7' = v7 \/ v7' = [v7 EXCEPT !.batch = (v3 + 1)..N!Upto]
  BY DEF N!ReadGroup, N!ReadLost, N!Deliver, N!NextBatch, N!NoticeInv, N!InHand
<1>2. v3 \in Nat /\ v3' \in 0..Len(v2) /\ v3 <= v3' /\ v3' = N!Upto /\ Len(v2) \in Nat
  BY <1>0, <1>1, NoticeFields, DaysAssumption DEF N!Upto
<1>3. v4' \subseteq 1..v3' /\ (1..v3') \ v4' \subseteq (1..v3) \ v4
  BY <1>0, <1>1, <1>2, NoticeFields
<1>4. /\ v7' \in Tasks /\ v7'.batch \subseteq v4' /\ v7'.step = "next" /\ v7'.phase = "live"
      /\ v7'.reached = {}
  <2>1. v7 \in Tasks /\ v7.batch \subseteq v4 /\ v7.reached = {}
    BY <1>0, <1>1, NoticeFields DEF N!NoticeInv, N!InHand
  <2>2. PICK B \in SUBSET Nat : B = (v3 + 1)..N!Upto BY <1>2
  <2>3. CASE v7' = v7 BY <1>1, <2>1, <2>3
  <2>4. CASE v7' = [v7 EXCEPT !.batch = B] BY <1>1, <2>1, <2>2, <2>4 DEF Tasks
  <2> QED BY <1>1, <2>2, <2>3, <2>4
<1>5. N!NoticeTypes' BY <1>0, <1>1, <1>2, <1>3, <1>4, NoticeFields, NoticeTypesAre
<1>6. N!InHand' BY <1>4 DEF N!InHand
<1>7. N!Acked'
  <2>1. \A id \in (1..v3') \ v4' : N!Logged(id)' BY <1>1, <1>3 DEF N!NoticeInv, N!Acked, N!Logged
  <2> QED BY <1>4, <2>1 DEF N!Acked
<1>8. N!Fresh' BY <1>1, <1>4 DEF N!NoticeInv, N!Fresh
<1>9. \A p \in N!Pushes : N!Covered(p) => N!Covered(p)' BY <1>1 DEF N!Covered
<1>10. N!Once' BY <1>1, <1>9, OnceKept
<1> QED BY <1>5, <1>6, <1>7, <1>8, <1>10 DEF N!NoticeInv

\* A step within one entry: it stays in hand, and nobody it reached is forgotten.
LEMMA InHandKept ==
  ASSUME N!NoticeInv, UNCHANGED <<v1, v2, v3, v4, v5, v6, v8, v9, v10>>,
         v7' \in Tasks, v7'.batch = v7.batch, v7'.phase = v7.phase, v7.batch # {},
         v7'.step # "next", v7'.reached = v7.reached, v7'.todo \cap v7'.reached = {},
         v7'.step = "ack" => N!Logged(N!Current),
         v7'.step = "push" /\ N!Key # NULL => \A i \in DOMAIN v5 : v5[i].key = N!Key => v5[i].day < v8,
         v7.step \in {"push", "log"} => v7'.step \in {"push", "log"}
  PROVE  N!NoticeInv'
<1>0. N!NoticeTypes BY DEF N!NoticeInv
<1>1. N!Current' = N!Current /\ N!Key' = N!Key BY DEF N!Current, N!Key
<1>2. N!NoticeTypes' BY <1>0, NoticeFields, NoticeTypesAre
<1>3. N!InHand' BY DEF N!NoticeInv, N!InHand
<1>4. N!Acked'
  <2>1. v7'.step = "ack" => N!Logged(N!Current)'
    <3>1. PICK c : c = N!Current /\ c = N!Current' BY <1>1
    <3> QED BY <3>1 DEF N!Logged
  <2>2. \A id \in (1..v3) \ v4 : N!Logged(id)' BY DEF N!NoticeInv, N!Acked, N!Logged
  <2> QED BY <2>1, <2>2 DEF N!Acked
<1>5. N!Fresh' BY <1>1 DEF N!NoticeInv, N!Fresh
<1>6. \A p \in N!Pushes : N!Covered(p) => N!Covered(p)' BY <1>1 DEF N!Covered
<1>7. N!Once' BY <1>6, OnceKept
<1> QED BY <1>2, <1>3, <1>4, <1>5, <1>7 DEF N!NoticeInv

LEMMA JudgeKept == ASSUME N!NoticeInv, N!Judge PROVE N!NoticeInv'
<1>0. N!NoticeTypes BY DEF N!NoticeInv
<1>1. /\ v7.batch # {} /\ v7.step = "next" /\ v7.reached = {} /\ v7 \in Tasks
      /\ UNCHANGED <<v1, v2, v3, v4, v5, v6, v8, v9, v10>>
  BY <1>0, NoticeFields DEF N!Judge, N!At, N!NoticeInv, N!InHand
<1>2. CASE v2[N!Current].kind = "bare" /\ v7' = [v7 EXCEPT !.step = "ack"]
  <2>1. /\ v7' \in Tasks /\ v7'.batch = v7.batch /\ v7'.phase = v7.phase /\ v7'.step = "ack"
        /\ v7'.reached = v7.reached
    BY <1>1, <1>2 DEF Tasks
  <2>2. N!Logged(N!Current) BY <1>2 DEF N!Logged
  <2> QED BY <1>1, <2>1, <2>2, InHandKept
<1>3. CASE v7' = [v7 EXCEPT !.step = "log"]
  <2>1. /\ v7' \in Tasks /\ v7'.batch = v7.batch /\ v7'.phase = v7.phase /\ v7'.step = "log"
        /\ v7'.reached = v7.reached
    BY <1>1, <1>3 DEF Tasks
  <2> QED BY <1>1, <2>1, InHandKept
<1>4. CASE /\ ~N!AlreadySent(N!Key)
           /\ v7' = [v7 EXCEPT !.step = "push", !.status = "failed",
                               !.todo = {d \in Devices : v6[d].enabled}]
  <2>1. PICK D \in SUBSET Devices : D = {d \in Devices : v6[d].enabled} OBVIOUS
  <2>2. v7' = [v7 EXCEPT !.step = "push", !.status = "failed", !.todo = D] BY <1>4, <2>1
  <2>3. /\ v7' \in Tasks /\ v7'.batch = v7.batch /\ v7'.phase = v7.phase /\ v7'.step = "push"
        /\ v7'.reached = v7.reached
    BY <1>1, <2>2 DEF Tasks
  <2>4. N!Key # NULL => \A i \in DOMAIN v5 : v5[i].key = N!Key => v5[i].day < v8
    <3>1. N!Key # NULL => \A i \in DOMAIN v5 : v5[i].key = N!Key => v5[i].day # v8
      BY <1>4 DEF N!AlreadySent
    <3>2. \A i \in DOMAIN v5 : v5[i].day <= v8 /\ v5[i].day \in Nat /\ v8 \in Nat
      BY <1>0, DaysAre, NoticeFields DEF N!NoticeInv, N!Fresh
    <3> QED BY <3>1, <3>2
  <2> QED BY <1>1, <2>3, <2>4, InHandKept
<1> QED BY <1>2, <1>3, <1>4 DEF N!Judge

LEMMA PushedKept == ASSUME N!NoticeInv, N!Pushed PROVE N!NoticeInv'
<1>0. N!NoticeTypes BY DEF N!NoticeInv
<1>1. /\ v7.batch # {} /\ v7.step = "push" /\ v7.todo = {} /\ v7 \in Tasks
      /\ v7' = [v7 EXCEPT !.step = "log"] /\ UNCHANGED <<v1, v2, v3, v4, v5, v6, v8, v9, v10>>
  BY <1>0, NoticeFields DEF N!Pushed, N!At, N!Go
<1>2. /\ v7' \in Tasks /\ v7'.batch = v7.batch /\ v7'.phase = v7.phase /\ v7'.step = "log"
      /\ v7'.reached = v7.reached /\ v7'.todo = {}
  BY <1>1 DEF Tasks
<1> QED BY <1>1, <1>2, InHandKept

LEMMA PushKept == ASSUME N!NoticeInv, NEW d \in Devices, N!Push(d) PROVE N!NoticeInv'
<1>0. N!NoticeTypes BY DEF N!NoticeInv
<1>1. /\ v7.batch # {} /\ v7.step = "push" /\ d \in v7.todo /\ v7 \in Tasks
      /\ UNCHANGED <<v1, v2, v3, v4, v5, v8, v10>>
  BY <1>0, NoticeFields DEF N!Push, N!At
<1>2. N!Current' = N!Current /\ N!Key' = N!Key
  <2>1. v7'.batch = v7.batch BY <1>1 DEF N!Push, Tasks
  <2> QED BY <1>1, <2>1 DEF N!Current, N!Key
<1>3. PICK r \in BOOLEAN : r <=> v6[d].answer = "delivered" OBVIOUS
<1>4. PICK reach, s : /\ reach = IF r THEN v7.reached \cup {d} ELSE v7.reached
                  /\ s = IF r THEN "sent" ELSE v7.status
  OBVIOUS
<1>5. v7' = [v7 EXCEPT !.todo = v7.todo \ {d}, !.reached = reach, !.status = s]
  <2>1. reach = (IF v6[d].answer = "delivered" THEN v7.reached \cup {d} ELSE v7.reached)
        /\ s = (IF v6[d].answer = "delivered" THEN "sent" ELSE v7.status)
    BY <1>3, <1>4
  <2> QED BY <2>1 DEF N!Push
<1>6. /\ v7' \in Tasks /\ v7'.batch = v7.batch /\ v7'.phase = v7.phase /\ v7'.step = "push"
      /\ v7'.todo = v7.todo \ {d} /\ v7'.reached = reach
  <2>1. reach \in SUBSET Devices /\ s \in {"sent", "failed", "skipped"} BY <1>1, <1>4 DEF Tasks
  <2> QED BY <1>1, <1>5, <2>1 DEF Tasks
<1>7. N!Key \in N!Keys /\ N!Current \in Nat BY <1>0, <1>1, CurrentIs
<1>8. PICK e \in N!Pushes : e = [key |-> N!Key, day |-> v8, device |-> d]
  BY <1>0, <1>7, NoticeFields DEF N!Pushes
<1>9. v9' = IF r THEN Append(v9, e) ELSE v9 BY <1>3, <1>8 DEF N!Push
<1>10. v9 \in Seq(N!Pushes) /\ v9' \in Seq(N!Pushes) BY <1>0, <1>9, NoticeFields
<1>11. v6' \in [Devices -> Subscriptions]
  <2>1. PICK b \in BOOLEAN : b <=> (v6[d].enabled /\ v6[d].answer # "gone") OBVIOUS
  <2>2. b = (v6[d].enabled /\ v6[d].answer # "gone") BY <2>1
  <2>3. v6' = [v6 EXCEPT ![d].enabled = (v6[d].enabled /\ v6[d].answer # "gone")] BY DEF N!Push
  <2>4. v6' = [v6 EXCEPT ![d].enabled = b] BY <2>2, <2>3, Zenon
  <2>5. v6 \in [Devices -> Subscriptions] BY <1>0, NoticeFields
  <2> QED BY <2>4, <2>5 DEF Subscriptions
<1>12. N!NoticeTypes' BY <1>0, <1>1, <1>6, <1>10, <1>11, NoticeFields, NoticeTypesAre
<1>13. N!InHand'
  <2>1. v7.todo \cap v7.reached = {} BY DEF N!NoticeInv, N!InHand
  <2>2. v7.phase \notin {"down", "dead"} BY <1>1 DEF N!NoticeInv, N!InHand
  <2> QED BY <1>1, <1>4, <1>6, <2>1, <2>2 DEF N!InHand
<1>14. N!Acked' BY <1>1, <1>6 DEF N!NoticeInv, N!Acked, N!Logged
<1>15. N!Fresh'
  <2>1. \A i \in DOMAIN v9' : v9'[i].day <= v8
    <3>1. v8 \in Nat /\ e.day = v8 BY <1>0, <1>8, NoticeFields
    <3>2. \A i \in DOMAIN v9 : v9[i].day <= v8 BY DEF N!NoticeInv, N!Fresh
    <3>3. \A i \in DOMAIN v9' : (i \in DOMAIN v9 /\ v9'[i] = v9[i]) \/ v9'[i] = e
      BY <1>9, <1>10
    <3> QED BY <3>1, <3>2, <3>3
  <2> QED BY <1>1, <1>2, <1>6, <2>1 DEF N!NoticeInv, N!Fresh
<1>16. N!Once'
  <2> SUFFICES ASSUME NEW p \in N!Pushes, p.key # NULL
               PROVE  N!Copies(v9', p) <= N!Copies(v10, p.key) + (IF N!Covered(p)' THEN 1 ELSE 0)
    BY <1>1 DEF N!Once
  <2>1. N!Copies(v9, p) \in Nat /\ N!Copies(v10, p.key) \in Nat
    BY <1>0, <1>10, NoticeFields, CopiesCounted
  <2>2. N!Copies(v9, p) <= N!Copies(v10, p.key) + (IF N!Covered(p) THEN 1 ELSE 0)
    BY DEF N!NoticeInv, N!Once
  <2>3. N!Covered(p) => N!Covered(p)' BY <1>1, <1>2, <1>4, <1>6 DEF N!Covered
  <2>4. CASE ~r \/ e # p
    <3>1. N!Copies(v9', p) = N!Copies(v9, p)
      <4>1. N!Copies(Append(v9, e), p) = N!Copies(v9, p) + (IF e = p THEN 1 ELSE 0)
        BY <1>10, CopiesAppended
      <4> QED BY <1>9, <2>1, <2>4, <4>1
    <3> QED BY <2>1, <2>2, <2>3, <3>1
  <2>5. CASE r /\ e = p
    <3>1. p.key = N!Key /\ p.day = v8 /\ p.device = d BY <1>8, <2>5
    <3>2. N!Copies(v9', p) = N!Copies(v9, p) + 1
      <4>1. N!Copies(Append(v9, e), p) = N!Copies(v9, p) + (IF e = p THEN 1 ELSE 0)
        BY <1>10, CopiesAppended
      <4> QED BY <1>9, <2>5, <4>1
    <3>3. ~N!Covered(p)
      <4>1. d \notin v7.reached BY <1>1 DEF N!NoticeInv, N!InHand
      <4>2. \A i \in DOMAIN v5 : v5[i].key = p.key => v5[i].day < v8 /\ v5[i].day \in Nat
        BY <1>0, <1>1, <3>1, DaysAre DEF N!NoticeInv, N!Fresh
      <4>3. v8 \in Nat BY <1>0, NoticeFields
      <4> QED BY <3>1, <4>1, <4>2, <4>3 DEF N!Covered
    <3>4. N!Covered(p)' BY <1>2, <1>4, <1>6, <2>5, <3>1 DEF N!Covered
    <3> QED BY <2>1, <2>2, <3>2, <3>3, <3>4
  <2> QED BY <2>4, <2>5
<1> QED BY <1>12, <1>13, <1>14, <1>15, <1>16 DEF N!NoticeInv

\* The row is written: whoever the run reached is covered by it, whatever becomes of the entry.
LEMMA RowKept ==
  ASSUME N!NoticeInv, v7.batch # {}, v7.step = "log", v5' = Append(v5, N!Row(v7.status)),
         UNCHANGED <<v1, v2, v3, v4, v6, v8, v9, v10>>, v7' \in Tasks, v7'.phase = v7.phase,
         \/ v7'.step = "ack" /\ v7'.batch = v7.batch /\ v7'.todo = v7.todo /\ v7'.reached = v7.reached
         \/ v7'.step = "next" /\ v7'.batch \subseteq v7.batch /\ v7'.reached = {}
  PROVE  N!NoticeInv'
<1>0. N!NoticeTypes BY DEF N!NoticeInv
<1>1. PICK row \in N!Rows : /\ row = N!Row(v7.status) /\ row.id = N!Current /\ row.key = N!Key
                            /\ row.day = v8
  <2>1. N!Current \in Nat /\ N!Key \in N!Keys BY <1>0, CurrentIs
  <2>2. v8 \in Nat /\ v7.status \in {"sent", "failed", "skipped"} BY <1>0, NoticeFields DEF Tasks
  <2>3. N!Row(v7.status) = [id |-> N!Current, key |-> N!Key, status |-> v7.status, day |-> v8]
    BY DEF N!Row
  <2> QED BY <2>1, <2>2, <2>3 DEF N!Rows
<1>2. /\ v5 \in Seq(N!Rows) /\ v5' \in Seq(N!Rows) /\ v5' = Append(v5, row)
      /\ DOMAIN v5' = 1..(Len(v5) + 1) /\ DOMAIN v5 = 1..Len(v5) /\ Len(v5) \in Nat
      /\ v5'[Len(v5) + 1] = row /\ \A i \in DOMAIN v5 : i \in DOMAIN v5' /\ v5'[i] = v5[i]
  BY <1>0, <1>1, NoticeFields
<1>3. Len(v5) + 1 \in DOMAIN v5'
      /\ \A i \in DOMAIN v5' : (i \in DOMAIN v5 /\ v5'[i] = v5[i]) \/ v5'[i] = row
  BY <1>2
<1>4. v7'.batch \subseteq v4 BY <1>0, NoticeFields
<1>5. N!NoticeTypes' BY <1>0, <1>2, <1>4, NoticeFields, NoticeTypesAre
<1>6. N!InHand' BY DEF N!NoticeInv, N!InHand
<1>7. N!Acked'
  <2>1. ASSUME NEW id, N!Logged(id) PROVE N!Logged(id)' BY <1>2, <2>1 DEF N!Logged
  <2>2. ASSUME v7'.step = "ack" PROVE N!Logged(N!Current)'
    <3>1. N!Current' = N!Current BY <2>2 DEF N!Current
    <3>2. PICK c : c = N!Current /\ c = N!Current' BY <3>1
    <3>3. N!Logged(c)' BY <1>1, <1>2, <1>3, <3>2 DEF N!Logged
    <3> QED BY <3>2, <3>3 DEF N!Logged
  <2> QED BY <2>1, <2>2 DEF N!NoticeInv, N!Acked
<1>8. N!Fresh'
  <2>1. v8 \in Nat /\ \A i \in DOMAIN v5 : v5[i].day <= v8
    BY <1>0, NoticeFields DEF N!NoticeInv, N!Fresh
  <2>2. \A i \in DOMAIN v5' : v5'[i].day <= v8 BY <1>1, <1>3, <2>1
  <2> QED BY <2>2 DEF N!NoticeInv, N!Fresh
<1>9. N!Once'
  <2> SUFFICES ASSUME NEW p \in N!Pushes, p.key # NULL
               PROVE  N!Copies(v9, p) <= N!Copies(v10, p.key) + (IF N!Covered(p)' THEN 1 ELSE 0)
    BY DEF N!Once
  <2>1. v9 \in Seq(N!Pushes) /\ v10 \in Seq(N!Keys) /\ v8 \in Nat BY <1>0, NoticeFields
  <2>2. N!Copies(v9, p) \in Nat /\ N!Copies(v10, p.key) \in Nat BY <2>1, CopiesCounted
  <2>3. p.day \in Nat BY DEF N!Pushes
  <2>4. CASE p.day > v8
    <3>1. \A i \in DOMAIN v9 : v9[i].day <= v8 BY DEF N!NoticeInv, N!Fresh
    <3>2. \A i \in DOMAIN v9 : v9[i] # p BY <2>1, <2>3, <2>4, <3>1
    <3>3. N!Copies(v9, p) = 0 BY <2>1, <3>2, NoCopies
    <3> QED BY <2>2, <3>3
  <2>5. CASE p.day <= v8
    <3>1. N!Covered(p) => N!Covered(p)'
      <4>1. ASSUME NEW i \in DOMAIN v5, v5[i].key = p.key, p.day <= v5[i].day PROVE N!Covered(p)'
        BY <1>2, <4>1 DEF N!Covered
      <4>2. ASSUME N!Key = p.key PROVE N!Covered(p)'
        BY <1>1, <1>2, <1>3, <2>5, <4>2 DEF N!Covered
      <4> QED BY <4>1, <4>2 DEF N!Covered
    <3>2. N!Copies(v9, p) <= N!Copies(v10, p.key) + (IF N!Covered(p) THEN 1 ELSE 0)
      BY DEF N!NoticeInv, N!Once
    <3> QED BY <2>2, <3>1, <3>2
  <2> QED BY <2>1, <2>3, <2>4, <2>5
<1> QED BY <1>5, <1>6, <1>7, <1>8, <1>9 DEF N!NoticeInv

LEMMA RecordKept == ASSUME N!NoticeInv, N!Record PROVE N!NoticeInv'
<1>1. /\ v7.batch # {} /\ v7.step = "log" /\ v7 \in Tasks /\ v7' = [v7 EXCEPT !.step = "ack"]
      /\ v5' = Append(v5, N!Row(v7.status)) /\ UNCHANGED <<v1, v2, v3, v4, v6, v8, v9, v10>>
  BY NoticeFields DEF N!Record, N!At, N!Go, N!NoticeInv
<1>2. /\ v7' \in Tasks /\ v7'.phase = v7.phase /\ v7'.step = "ack" /\ v7'.batch = v7.batch
      /\ v7'.todo = v7.todo /\ v7'.reached = v7.reached
  BY <1>1 DEF Tasks
<1> QED BY <1>1, <1>2, RowKept

LEMMA RecordLostKept == ASSUME N!NoticeInv, N!RecordLost PROVE N!NoticeInv'
<1>0. N!NoticeTypes BY DEF N!NoticeInv
<1>1. /\ v7.batch # {} /\ v7.step = "log" /\ N!NextEntry
      /\ v5' = Append(v5, N!Row(v7.status)) /\ UNCHANGED <<v1, v2, v3, v4, v6, v8, v9, v10>>
  BY DEF N!RecordLost, N!At
<1>2. /\ v7' \in Tasks /\ v7'.phase = v7.phase /\ v7'.step = "next" /\ v7'.reached = {}
      /\ v7'.batch = v7.batch \ {N!Current}
  BY <1>0, <1>1, NextEntryIs
<1> QED BY <1>1, <1>2, RowKept

LEMMA AckKept == ASSUME N!NoticeInv, N!Ack PROVE N!NoticeInv'
<1>0. N!NoticeTypes BY DEF N!NoticeInv
<1>1. /\ v7.batch # {} /\ v7.step = "ack" /\ v7.phase \in {"drain", "live"} /\ N!NextEntry
      /\ v4' = v4 \ {N!Current} /\ UNCHANGED <<v1, v2, v3, v5, v6, v8, v9, v10>>
  BY DEF N!Ack, N!At
<1>2. /\ v7' \in Tasks /\ v7'.phase = v7.phase /\ v7'.step = "next" /\ v7'.reached = {}
      /\ v7'.batch = v7.batch \ {N!Current} /\ v7'.todo = {}
  BY <1>0, <1>1, NextEntryIs
<1>3. v4' \subseteq 1..v3 /\ v7'.batch \subseteq v4' BY <1>0, <1>1, <1>2, NoticeFields
<1>4. N!NoticeTypes' BY <1>0, <1>1, <1>2, <1>3, NoticeFields, NoticeTypesAre
<1>5. N!InHand' BY <1>1, <1>2 DEF N!InHand
<1>6. N!Acked'
  <2>1. ASSUME NEW id \in (1..v3) \ v4' PROVE N!Logged(id)
    BY <1>1, <2>1 DEF N!NoticeInv, N!Acked
  <2> QED BY <1>1, <1>2, <2>1 DEF N!Acked, N!Logged
<1>7. N!Fresh' BY <1>1, <1>2 DEF N!NoticeInv, N!Fresh
<1>8. \A p \in N!Pushes : N!Covered(p) => N!Covered(p)' BY <1>1 DEF N!Covered
<1>9. N!Once' BY <1>1, <1>8, OnceKept
<1> QED BY <1>4, <1>5, <1>6, <1>7, <1>9 DEF N!NoticeInv

LEMMA NoticesNext == N!NoticeInv /\ [N!Next]_(N!vars) => N!NoticeInv'
<1> SUFFICES ASSUME N!NoticeInv, [N!Next]_(N!vars) PROVE N!NoticeInv' OBVIOUS
<1>1. CASE N!Serve
  BY <1>1, StartKept, ReadKept, JudgeKept, FailureKept, PushedKept, RecordKept, AckKept, PushKept
  DEF N!Serve
<1>2. CASE N!Environment
  BY <1>2, PublishKept, DayKept, StartKept, ReadKept, FailureKept, RecordLostKept,
     ConsumerCrashKept, SubscriptionKept DEF N!Environment
<1>3. CASE UNCHANGED N!vars
  <2>1. UNCHANGED <<v1, v2, v3, v4, v5, v6, v7, v8, v9, v10>> BY <1>3 DEF N!vars
  <2>2. N!NoticeTypes' BY <2>1, NoticeFields, NoticeTypesAre DEF N!NoticeInv
  <2>3. v8 <= v8' BY <2>1, NoticeFields DEF N!NoticeInv
  <2> QED BY <2>1, <2>2, <2>3, ElsewhereKept
<1> QED BY <1>1, <1>2, <1>3 DEF N!Next

LEMMA NoticesMove ==
  turn = "notices" /\ [NextServices]_all => turn' = "notices" /\ [N!Next]_(N!vars)
BY DEF NextServices, all, cells, N!vars

\* An acknowledged event has its row in notification_log, and a device gets a keyed event once
\* per dedup window and once more for each run that was cut off between a push and its row: for
\* any event sequences, devices, batch size, crashes and failing calls.
THEOREM NoticedOnceHolds == SpecServices => []NoticedOnce
<1> DEFINE Inv == turn = "notices" => N!NoticeInv
<1>1. InitServices => Inv BY NoticeInit DEF InitServices
<1>2. Inv /\ [NextServices]_all => Inv'
  <2> SUFFICES ASSUME Inv, [NextServices]_all PROVE Inv' OBVIOUS
  <2>1. turn' = turn \/ turn = "notices" BY DEF NextServices, all
  <2> QED BY <2>1, NoticesNext, NoticesMove
<1>3. Inv => NoticedOnce
  <2> SUFFICES ASSUME N!NoticeInv PROVE N!NoticedOnce BY DEF NoticedOnce
  <2>1. v9 \in Seq(N!Pushes) /\ v10 \in Seq(N!Keys) BY NoticeFields DEF N!NoticeInv
  <2>2. ASSUME NEW i \in DOMAIN v9, v9[i].key # NULL
        PROVE  N!Copies(v9, v9[i]) <= 1 + N!Copies(v10, v9[i].key)
    <3>1. PICK p \in N!Pushes : p = v9[i] BY <2>1
    <3>2. N!Copies(v9, p) \in Nat /\ N!Copies(v10, p.key) \in Nat BY <2>1, CopiesCounted
    <3>3. N!Copies(v9, p) <= N!Copies(v10, p.key) + (IF N!Covered(p) THEN 1 ELSE 0)
      BY <2>2, <3>1 DEF N!NoticeInv, N!Once
    <3> QED BY <3>1, <3>2, <3>3
  <2>3. \A id \in (1..v3) \ v4 : v2[id].kind # "bare" => \E i \in DOMAIN v5 : v5[i].id = id
    BY DEF N!NoticeInv, N!Acked, N!Logged
  <2> QED BY <2>2, <2>3 DEF N!NoticedOnce
<1> QED BY <1>1, <1>2, <1>3, PTL DEF SpecServices

-------------------------------------------------------------------------------
(* The AI cycles: v1 plan, v2 now, v3 slot, v4 cycles, v9 log, v11 rows,   *)
(* v12 resting, v13 fired.                                                 *)

Cycles == [at : A!Stages, row : Nat, resting : SUBSET A!Sides, started : Nat, signal : A!Actions,
           passed : BOOLEAN, blind : BOOLEAN, logged : BOOLEAN, decided : Nat,
           reason : A!Alarms \cup {NULL}]
LogRows   == [at : Nat, action : A!Actions]
Positions == [side : A!Sides, open : BOOLEAN, live : BOOLEAN, by : {NULL, "listener", "recovery"},
              synthetic : Nat]
Orders    == [action : A!Actions, started : Nat, decided : Nat, blind : BOOLEAN, logged : BOOLEAN]

LEMMA CycleFields ==
  ASSUME A!CycleTypes
  PROVE  /\ v1 \in Outlooks /\ v2 \in Nat /\ v4 \in [A!Tasks -> Cycles] /\ v9 \in SUBSET LogRows
         /\ v11 \in Seq(Positions) /\ Len(v11) \in Nat /\ v12 \in SUBSET A!Sides
         /\ v13 \in Seq(Orders) /\ Len(v13) \in Nat
BY DEF A!CycleTypes, Cycles, LogRows, Positions, Orders

LEMMA CycleTypesAre ==
  ASSUME v1' \in Outlooks, v2' \in Nat, v4' \in [A!Tasks -> Cycles], v9' \in SUBSET LogRows,
         v11' \in Seq(Positions), v12' \in SUBSET A!Sides, v13' \in Seq(Orders)
  PROVE  A!CycleTypes'
BY DEF A!CycleTypes, Cycles, LogRows, Positions, Orders

LEMMA IdleCycle == A!Idle \in Cycles /\ A!Idle.at = "idle"
BY DEF A!Idle, Cycles, A!Stages, A!Actions

LEMMA AllIdle ==
  ASSUME A!OneInHand, v3 = NULL PROVE \A t \in A!Tasks : v4[t].at = "idle"
BY OutlooksAssumption DEF A!OneInHand, A!Tasks

\* While one cycle is under way the others are idle.
LEMMA OthersIdle ==
  ASSUME A!OneInHand, NEW t \in A!Tasks, v4[t].at # "idle"
  PROVE  v3 = t /\ \A u \in A!Tasks \ {t} : v4[u].at = "idle"
BY DEF A!OneInHand

\* A cycle stays in order while no webhook goes out, rows keep their synthetic orders and the
\* log keeps what it has.
LEMMA FitsKept ==
  ASSUME A!CycleTypes, NEW c, A!CycleFits(c), UNCHANGED v13, v9 \subseteq v9',
         Len(v11') \in Nat, Len(v11) <= Len(v11'),
         \A i \in 1..Len(v11) : v11'[i].synthetic = v11[i].synthetic
  PROVE  A!CycleFits(c)'
BY CycleFields DEF A!CycleFits, A!InLog, A!Counts

\* What a step keeps that sends no webhook and writes no synthetic order.
LEMMA CycleKept ==
  ASSUME A!CycleInv, A!CycleTypes', A!OneInHand', UNCHANGED v13, v9 \subseteq v9',
         Len(v11) <= Len(v11'),
         \A i \in 1..Len(v11) : /\ v11'[i].synthetic = v11[i].synthetic
                                /\ v11'[i].open => v11[i].open,
         \A i \in 1..Len(v11') : i <= Len(v11) \/ v11'[i].synthetic = 0,
         \A t \in A!Tasks : \/ v4'[t] = v4[t]
                            \/ v4'[t].at = "idle"
                            \/ \E c \in Cycles : v4'[t] = c /\ A!CycleFits(c)'
  PROVE  A!CycleInv'
<1>0. A!CycleTypes /\ Len(v11) \in Nat /\ Len(v11') \in Nat /\ Len(v13) \in Nat
  BY CycleFields DEF A!CycleInv, A!CycleTypes
<1>1. A!FiredIsLogged' BY DEF A!CycleInv, A!FiredIsLogged, A!Counts
<1>2. A!Unwritten' /\ A!RecoveredOnce'
  BY <1>0 DEF A!CycleInv, A!Unwritten, A!RecoveredOnce
<1>3. A!OneEntryPerWindow' BY DEF A!CycleInv, A!OneEntryPerWindow
<1>4. ASSUME NEW t \in A!Tasks PROVE A!CycleFits(v4[t])'
  <2>1. CASE v4'[t] = v4[t]
    <3>1. PICK c : c = v4[t] OBVIOUS
    <3>2. A!CycleFits(c) BY <3>1 DEF A!CycleInv
    <3>3. A!CycleFits(c)' BY <1>0, <3>2, FitsKept
    <3> QED BY <2>1, <3>1, <3>3 DEF A!CycleFits
  <2>2. CASE v4'[t].at = "idle" BY <2>2 DEF A!CycleFits
  <2>3. CASE \E c \in Cycles : v4'[t] = c /\ A!CycleFits(c)' BY <2>3 DEF A!CycleFits
  <2> QED BY <2>1, <2>2, <2>3
<1> QED BY <1>1, <1>2, <1>3, <1>4 DEF A!CycleInv

\* A cycle takes its next step.
LEMMA StepKept ==
  ASSUME A!CycleInv, NEW t \in A!Tasks, v4[t].at # "idle",
         NEW c \in Cycles, v4' = [v4 EXCEPT ![t] = c], A!CycleFits(c)',
         UNCHANGED <<v1, v2, v3, v11, v12, v13>>, v9 \subseteq v9', v9' \in SUBSET LogRows
  PROVE  A!CycleInv'
<1>1. A!CycleTypes BY DEF A!CycleInv
<1>2. /\ v4' \in [A!Tasks -> Cycles] /\ v4'[t] = c
      /\ \A u \in A!Tasks \ {t} : v4'[u] = v4[u]
  BY <1>1, CycleFields
<1>3. A!CycleTypes' BY <1>1, <1>2, CycleFields, CycleTypesAre
<1>4. A!OneInHand' BY <1>2, OthersIdle DEF A!CycleInv, A!OneInHand
<1>5. \A u \in A!Tasks : \/ v4'[u] = v4[u]
                         \/ \E d \in Cycles : v4'[u] = d /\ A!CycleFits(d)'
  BY <1>2
<1>6. Len(v11) <= Len(v11') BY <1>1, CycleFields
<1>7. \A i \in 1..Len(v11') : i <= Len(v11) BY <1>1, CycleFields
<1> QED BY <1>3, <1>4, <1>5, <1>6, <1>7, CycleKept

\* A cycle that ends leaves every cycle idle.
LEMMA Released ==
  ASSUME A!CycleInv, NEW t \in A!Tasks, v4[t].at # "idle", A!Release(t)
  PROVE  /\ v4' \in [A!Tasks -> Cycles] /\ v3' = NULL
         /\ \A u \in A!Tasks : v4'[u].at = "idle"
         /\ A!OneInHand'
<1>1. A!CycleTypes /\ v3 = t /\ \A u \in A!Tasks \ {t} : v4[u].at = "idle"
  BY OthersIdle DEF A!CycleInv
<1>2. v4' = [v4 EXCEPT ![t] = A!Idle] /\ v3' = NULL BY <1>1 DEF A!Release
<1>3. /\ v4' \in [A!Tasks -> Cycles] /\ v4'[t].at = "idle"
      /\ \A u \in A!Tasks \ {t} : v4'[u] = v4[u]
  BY <1>1, <1>2, CycleFields, IdleCycle
<1>4. \A u \in A!Tasks : v4'[u].at = "idle" BY <1>1, <1>3
<1> QED BY <1>2, <1>3, <1>4 DEF A!OneInHand

LEMMA ReleaseKept ==
  ASSUME A!CycleInv, NEW t \in A!Tasks, v4[t].at # "idle", A!Release(t),
         UNCHANGED <<v1, v2, v11, v12, v13>>, v9 \subseteq v9', v9' \in SUBSET LogRows
  PROVE  A!CycleInv'
<1>1. A!CycleTypes BY DEF A!CycleInv
<1>2. A!CycleTypes' BY <1>1, Released, CycleFields, CycleTypesAre
<1>3. Len(v11) <= Len(v11') /\ \A i \in 1..Len(v11') : i <= Len(v11) BY <1>1, CycleFields
<1> QED BY <1>2, <1>3, Released, CycleKept

LEMMA LatestIs ==
  ASSUME A!CycleTypes, A!Latest # 0
  PROVE  A!Latest \in 1..Len(v11) /\ v11[A!Latest].open
<1> DEFINE back == {n \in 0..Len(v11) : Len(v11) - n \in A!OpenRows}
<1>0. Len(v11) \in Nat BY CycleFields
<1>1. A!OpenRows # {} /\ A!OpenRows \subseteq 1..Len(v11) BY DEF A!Latest, A!OpenRows
<1>2. back \in SUBSET Nat OBVIOUS
<1>3. back # {}
  <2>1. PICK i \in A!OpenRows : TRUE BY <1>1
  <2>2. i \in Nat /\ Len(v11) - i \in 0..Len(v11) /\ Len(v11) - (Len(v11) - i) = i BY <1>0, <1>1
  <2> QED BY <2>2
<1>4. PICK n \in back : \A m \in back : n <= m
  <2> HIDE DEF back
  <2> QED BY <1>2, <1>3, LeastNumber
<1>5. \E i \in A!OpenRows : \A j \in A!OpenRows : j <= i
  <2>1. Len(v11) - n \in A!OpenRows BY <1>4
  <2>2. ASSUME NEW j \in A!OpenRows PROVE j <= Len(v11) - n
    <3>1. j \in Nat /\ Len(v11) - j \in 0..Len(v11) /\ Len(v11) - (Len(v11) - j) = j
      BY <1>0, <1>1
    <3>2. n <= Len(v11) - j BY <1>4, <3>1
    <3> QED BY <1>0, <1>4, <3>1, <3>2
  <2> QED BY <2>1, <2>2
<1>6. A!Latest \in A!OpenRows BY <1>1, <1>5 DEF A!Latest
<1> QED BY <1>6 DEF A!OpenRows

LEMMA ReadCycleKept ==
  ASSUME A!CycleInv, NEW t \in A!Tasks, A!Read(t) PROVE A!CycleInv'
<1>0. A!CycleTypes /\ v4[t].at # "idle" BY DEF A!CycleInv, A!Read, A!At
<1>1. CASE ~v7 /\ t # "manual"
  BY <1>0, <1>1, CycleFields, ReleaseKept DEF A!Read, A!stored
<1>2. CASE ~(~v7 /\ t # "manual")
  <2>1. PICK c : c = [v4[t] EXCEPT !.at = IF A!Latest # 0 /\ t # "manual" THEN "check" ELSE "gather",
                                   !.row = A!Latest, !.started = v2]
    OBVIOUS
  <2>2. /\ v4' = [v4 EXCEPT ![t] = c] /\ UNCHANGED <<v1, v2, v3, v9, v11, v12, v13>>
    BY <1>2, <2>1 DEF A!Read, A!stored
  <2>3. A!Latest \in Nat
    <3>1. Len(v11) \in Nat BY <1>0, CycleFields
    <3> QED BY <1>0, <3>1, LatestIs
  <2>4. c \in Cycles /\ c.at \in {"check", "gather"} /\ c.row = A!Latest
        /\ (c.at = "check" => A!Latest # 0)
    BY ZenonT(60), <1>0, <2>1, <2>3, CycleFields DEF Cycles, A!Stages
  <2>5. c.at = "check" => c.row \in 1..Len(v11) /\ v11[c.row].synthetic = 0
    BY <1>0, <2>4, LatestIs DEF A!CycleInv, A!Unwritten
  <2>6. A!CycleFits(c)' BY <2>2, <2>4, <2>5 DEF A!CycleFits
  <2> QED BY <1>0, <2>2, <2>4, <2>6, CycleFields, StepKept
<1> QED BY <1>1, <1>2

LEMMA CheckKept ==
  ASSUME A!CycleInv, NEW t \in A!Tasks, A!Check(t) \/ A!History(t) PROVE A!CycleInv'
<1>0. A!CycleTypes /\ v4[t].at \in {"check", "history"} BY DEF A!CycleInv, A!Check, A!History, A!At
<1>1. UNCHANGED <<v1, v2, v3, v9, v11, v12, v13>> BY DEF A!Check, A!History, A!stored
<1>2. PICK step \in {"gather", "history", "write"} : v4' = [v4 EXCEPT ![t] = [v4[t] EXCEPT !.at = step]]
  BY DEF A!Check, A!History, A!Step
<1>3. PICK c : c = [v4[t] EXCEPT !.at = step] OBVIOUS
<1>4. c \in Cycles /\ c.row = v4[t].row /\ c.at = step
  BY <1>0, <1>3, CycleFields DEF Cycles, A!Stages
<1>5. v4[t].row \in 1..Len(v11) /\ v11[v4[t].row].synthetic = 0
  BY <1>0 DEF A!CycleInv, A!CycleFits
<1>6. A!CycleFits(c)' BY <1>1, <1>4, <1>5 DEF A!CycleFits
<1> QED BY <1>0, <1>1, <1>2, <1>3, <1>4, <1>6, CycleFields, StepKept

LEMMA GatherKept ==
  ASSUME A!CycleInv, NEW t \in A!Tasks, A!Gather(t) PROVE A!CycleInv'
<1>0. A!CycleTypes /\ v4[t].at = "gather" BY DEF A!CycleInv, A!Gather, A!At
<1>1. UNCHANGED <<v1, v2, v3, v9, v11, v12, v13>> BY DEF A!Gather, A!stored
<1>2. PICK c \in {[v4[t] EXCEPT !.at = "think", !.resting = v12], [v4[t] EXCEPT !.at = "think"]} :
        v4' = [v4 EXCEPT ![t] = c]
  BY DEF A!Gather
<1>3. c \in Cycles /\ c.at = "think" BY <1>0, <1>2, CycleFields DEF Cycles, A!Stages
<1>4. A!CycleFits(c)' BY <1>3 DEF A!CycleFits
<1> QED BY <1>0, <1>1, <1>2, <1>3, <1>4, CycleFields, StepKept

\* An entry that passes comes after the window of every one that is in the log.
LEMMA CooledIs ==
  ASSUME A!CycleTypes, A!FiredIsLogged, NEW sig, sig.action \in A!Entries, A!Cooled(sig)
  PROVE  \A i \in 1..Len(v13) : A!Counts(v13[i]) => v2 > v13[i].started + Cooldown
<1> SUFFICES ASSUME NEW i \in 1..Len(v13), A!Counts(v13[i]) PROVE v2 > v13[i].started + Cooldown
  OBVIOUS
<1>1. v2 \in Nat /\ v13[i] \in Orders /\ Cooldown \in Nat BY CycleFields, OutlooksAssumption
<1>2. PICK r \in v9 : r.at = v13[i].started /\ r.action = v13[i].action
  BY DEF A!FiredIsLogged
<1>3. r.action \in A!Group(sig.action) BY <1>2 DEF A!Group, A!Counts
<1>4. ~(r.at >= v2 - Cooldown) BY <1>3 DEF A!Cooled
<1> QED BY <1>1, <1>2, <1>4 DEF Orders

LEMMA ThinkKept ==
  ASSUME A!CycleInv, NEW t \in A!Tasks, A!Think(t) PROVE A!CycleInv'
<1>0. A!CycleTypes /\ A!FiredIsLogged /\ v4[t].at = "think" BY DEF A!CycleInv, A!Think, A!At
<1>1. UNCHANGED <<v1, v2, v3, v9, v11, v12, v13>> BY DEF A!Think, A!stored
<1>2. PICK sig \in A!Offered, price \in v1.prices, unread \in BOOLEAN :
        v4' = [v4 EXCEPT ![t] = [v4[t] EXCEPT !.at = "log", !.signal = sig.action, !.blind = unread,
                                 !.decided = v2, !.passed = A!Passes(sig, v4[t], price, unread)]]
  BY DEF A!Think
<1>3. PICK p \in BOOLEAN : p <=> A!Passes(sig, v4[t], price, unread) OBVIOUS
<1>4. A!Passes(sig, v4[t], price, unread) \in BOOLEAN BY DEF A!Passes
<1>5. p = A!Passes(sig, v4[t], price, unread) BY <1>3, <1>4
<1>6. PICK c : c = [v4[t] EXCEPT !.at = "log", !.signal = sig.action, !.blind = unread,
                                 !.decided = v2, !.passed = p]
  OBVIOUS
<1>7. v4' = [v4 EXCEPT ![t] = c] BY <1>2, <1>5, <1>6, Zenon
<1>8. sig.action \in A!Actions
  <2>1. v1 \in Outlooks BY <1>0, CycleFields
  <2>2. \A s \in v1.signals : s.action \in A!Actions BY <2>1, OutlooksAssumption
  <2>3. sig \in v1.signals \/ sig = [action |-> "hold"] \/ sig = [action |-> "none"]
    BY DEF A!Offered
  <2>4. {"hold", "none"} \subseteq A!Actions BY DEF A!Actions
  <2> QED BY <2>2, <2>3, <2>4
<1>9. /\ c \in Cycles /\ c.at = "log" /\ c.signal = sig.action /\ c.blind = unread
      /\ c.decided = v2 /\ c.passed = p
  BY ZenonT(60), <1>0, <1>6, <1>8, CycleFields DEF Cycles, A!Stages
<1>10. p /\ ~unread => A!Cooled(sig) BY <1>3 DEF A!Passes
<1>11. c.passed /\ ~c.blind /\ c.signal \in A!Entries =>
         \A i \in 1..Len(v13) : A!Counts(v13[i]) => c.decided > v13[i].started + Cooldown
  BY <1>0, <1>9, <1>10, CooledIs
<1>12. A!CycleFits(c)' BY <1>1, <1>9, <1>11 DEF A!CycleFits, A!Counts
<1> QED BY <1>0, <1>1, <1>7, <1>9, <1>12, CycleFields, StepKept

LEMMA LogKept ==
  ASSUME A!CycleInv, NEW t \in A!Tasks, A!Log(t) PROVE A!CycleInv'
<1>0. A!CycleTypes /\ v4[t].at = "log" /\ v4[t] \in Cycles /\ A!CycleFits(v4[t])
  BY CycleFields DEF A!CycleInv, A!Log, A!At
<1>1. UNCHANGED <<v1, v2, v11, v12, v13>> BY DEF A!Log
<1>2. PICK done \in BOOLEAN :
        /\ v9' = IF done /\ v4[t].passed
                      /\ v4[t].signal \in A!Entries \cup {"partial_close", "adjust_stops"}
                 THEN v9 \cup {[at |-> v4[t].started, action |-> v4[t].signal]} ELSE v9
        /\ IF A!Dispatches(t)
           THEN /\ v4' = [v4 EXCEPT ![t] = [v4[t] EXCEPT !.at = "fire", !.logged = done]]
                /\ UNCHANGED <<v3, v5>>
           ELSE A!Release(t)
  BY DEF A!Log
<1>3. v9 \subseteq v9' /\ v9' \in SUBSET LogRows
  BY <1>0, <1>2, CycleFields DEF Cycles, LogRows
<1>4. CASE ~A!Dispatches(t) BY <1>0, <1>1, <1>2, <1>3, <1>4, ReleaseKept
<1>5. CASE A!Dispatches(t)
  <2>1. PICK c : c = [v4[t] EXCEPT !.at = "fire", !.logged = done] OBVIOUS
  <2>2. /\ c \in Cycles /\ c.at = "fire" /\ c.logged = done
        /\ c.signal = v4[t].signal /\ c.started = v4[t].started /\ c.decided = v4[t].decided
        /\ c.passed = v4[t].passed /\ c.blind = v4[t].blind
    BY <1>0, <2>1 DEF Cycles, A!Stages
  <2>3. c.passed BY <1>5, <2>2 DEF A!Dispatches
  <2>4. c.logged /\ c.signal \in A!Entries => [at |-> c.started, action |-> c.signal] \in v9'
    BY <1>2, <2>2, <2>3
  <2>5. c.passed /\ ~c.blind /\ c.signal \in A!Entries =>
          \A i \in 1..Len(v13) : A!Counts(v13[i]) => c.decided > v13[i].started + Cooldown
    BY <1>0, <2>2 DEF A!CycleFits
  <2>6. A!CycleFits(c)' BY <1>1, <2>2, <2>3, <2>4, <2>5 DEF A!CycleFits, A!Counts, A!InLog
  <2> QED BY <1>0, <1>1, <1>2, <1>3, <1>5, <2>1, <2>2, <2>6, StepKept
<1> QED BY <1>4, <1>5

\* A recovery writes the first synthetic order of its row and closes it.
LEMMA RecoverIs ==
  ASSUME A!CycleTypes, NEW i \in 1..Len(v11), A!Recover(i), v11[i].synthetic = 0
  PROVE  /\ v11' \in Seq(Positions) /\ Len(v11') = Len(v11)
         /\ v11'[i].synthetic = 1 /\ ~v11'[i].open
         /\ \A j \in 1..Len(v11) : j # i => v11'[j] = v11[j]
<1>1. v11 \in Seq(Positions) /\ v11[i] \in Positions BY CycleFields, ElementOfSeq
<1>2. PICK by : by = IF v11[i].open THEN "recovery" ELSE v11[i].by OBVIOUS
<1>3. by \in {NULL, "listener", "recovery"}
  <2>1. v11[i].by \in {NULL, "listener", "recovery"} BY <1>1 DEF Positions
  <2> QED BY <1>2, <2>1
<1>4. PICK row : row = [v11[i] EXCEPT !.synthetic = v11[i].synthetic + 1, !.open = FALSE, !.by = by]
  OBVIOUS
<1>5. row \in Positions /\ row.synthetic = 1 /\ row.open = FALSE
  <2>1. v11[i] \in Positions BY <1>1
  <2>2. row = [v11[i] EXCEPT !.synthetic = 1, !.open = FALSE, !.by = by] BY <1>4
  <2>3. row \in Positions BY <1>3, <2>1, <2>2 DEF Positions
  <2> QED BY <2>1, <2>2, <2>3 DEF Positions
<1>6. v11' = [v11 EXCEPT ![i] = row] BY <1>2, <1>4 DEF A!Recover
<1> QED BY <1>1, <1>5, <1>6, ExceptSeq

LEMMA WriteKept ==
  ASSUME A!CycleInv, NEW t \in A!Tasks, A!Write(t) PROVE A!CycleInv'
<1>0. A!CycleTypes /\ v4[t].at = "write" /\ v4[t] \in Cycles /\ A!CycleFits(v4[t])
  BY CycleFields DEF A!CycleInv, A!Write, A!At
<1>1. UNCHANGED <<v1, v2, v3, v9, v12, v13>> BY DEF A!Write
<1>2. PICK c : c = [v4[t] EXCEPT !.at = "gather", !.row = 0] OBVIOUS
<1>3. v4' = [v4 EXCEPT ![t] = c] BY <1>2 DEF A!Write
<1>4. c \in Cycles /\ c.at = "gather" BY <1>0, <1>2 DEF Cycles, A!Stages
<1>5. A!CycleFits(c)' BY <1>4 DEF A!CycleFits
<1>6. CASE UNCHANGED v11 BY <1>0, <1>1, <1>3, <1>4, <1>5, <1>6, CycleFields, StepKept
<1>7. CASE A!Recover(v4[t].row)
  <2>1. PICK i \in 1..Len(v11) : i = v4[t].row /\ v11[i].synthetic = 0 BY <1>0 DEF A!CycleFits
  <2>2. /\ v11' \in Seq(Positions) /\ Len(v11') = Len(v11)
        /\ v11'[i].synthetic = 1 /\ ~v11'[i].open
        /\ \A j \in 1..Len(v11) : j # i => v11'[j] = v11[j]
    BY <1>0, <1>7, <2>1, RecoverIs
  <2>3. /\ v4' \in [A!Tasks -> Cycles] /\ v4'[t] = c
        /\ \A u \in A!Tasks \ {t} : v4'[u] = v4[u] /\ v4[u].at = "idle"
    BY <1>0, <1>3, <1>4, CycleFields, OthersIdle DEF A!CycleInv
  <2>4. A!CycleTypes' BY <1>0, <1>1, <2>2, <2>3, CycleFields, CycleTypesAre
  <2>5. A!OneInHand' BY <1>0, <1>1, <2>3, OthersIdle DEF A!CycleInv, A!OneInHand
  <2>6. A!Unwritten' BY <2>1, <2>2 DEF A!CycleInv, A!Unwritten
  <2>7. A!RecoveredOnce'
    BY <2>1, <2>2 DEF A!CycleInv, A!RecoveredOnce
  <2>8. A!FiredIsLogged' /\ A!OneEntryPerWindow'
    BY <1>1 DEF A!CycleInv, A!FiredIsLogged, A!Counts, A!OneEntryPerWindow
  <2>9. \A u \in A!Tasks : A!CycleFits(v4[u])' BY <1>4, <2>3 DEF A!CycleFits
  <2> QED BY <2>4, <2>5, <2>6, <2>7, <2>8, <2>9 DEF A!CycleInv
<1> QED BY <1>6, <1>7 DEF A!Write

\* An order that goes out.
LEMMA SentIs ==
  ASSUME A!CycleInv, NEW c \in Cycles, c.at = "fire", A!CycleFits(c), UNCHANGED v9,
         v13' = Append(v13, [action |-> c.signal, started |-> c.started, decided |-> c.decided,
                             blind |-> c.blind, logged |-> c.logged])
  PROVE  v13' \in Seq(Orders) /\ A!FiredIsLogged' /\ A!OneEntryPerWindow'
<1>0. v13 \in Seq(Orders) /\ Len(v13) \in Nat BY CycleFields DEF A!CycleInv
<1>1. PICK f \in Orders : f = [action |-> c.signal, started |-> c.started, decided |-> c.decided,
                               blind |-> c.blind, logged |-> c.logged]
  BY DEF Cycles, Orders
<1>2. /\ f.action = c.signal /\ f.started = c.started /\ f.decided = c.decided
      /\ f.blind = c.blind /\ f.logged = c.logged
  BY <1>1
<1>3. v13' = Append(v13, f) BY <1>1
<1>4. /\ v13' \in Seq(Orders) /\ Len(v13') = Len(v13) + 1 /\ v13'[Len(v13) + 1] = f
      /\ \A i \in 1..Len(v13) : v13'[i] = v13[i]
  BY <1>0, <1>3
<1>5. A!FiredIsLogged'
  <2>1. A!Counts(f) => [at |-> f.started, action |-> f.action] \in v9
    BY <1>2 DEF A!CycleFits, A!Counts, A!InLog
  <2>2. \A i \in 1..Len(v13) :
          A!Counts(v13[i]) => [at |-> v13[i].started, action |-> v13[i].action] \in v9
    BY DEF A!CycleInv, A!FiredIsLogged
  <2>3. \A i \in 1..Len(v13') : i \in 1..Len(v13) \/ v13'[i] = f BY <1>0, <1>4
  <2> QED BY <1>4, <2>1, <2>2, <2>3 DEF A!FiredIsLogged, A!Counts
<1>6. A!OneEntryPerWindow'
  <2> SUFFICES ASSUME NEW j \in 1..Len(v13'), NEW i \in 1..Len(v13'), i < j,
                      v13'[i].action \in A!Entries, v13'[j].action \in A!Entries,
                      v13'[i].logged, ~v13'[j].blind
               PROVE  v13'[j].decided > v13'[i].started + Cooldown
    BY DEF A!OneEntryPerWindow
  <2>1. i \in 1..Len(v13) /\ v13'[i] = v13[i] BY <1>0, <1>4
  <2>2. CASE j \in 1..Len(v13)
    BY <1>4, <2>1, <2>2 DEF A!CycleInv, A!OneEntryPerWindow
  <2>3. CASE j = Len(v13) + 1
    <3>1. A!Counts(v13[i]) BY <2>1 DEF A!Counts
    <3>2. v13'[j] = f BY <1>4, <2>3
    <3> QED BY <1>2, <2>1, <3>1, <3>2 DEF A!CycleFits
  <2> QED BY SMTT(60), <1>0, <1>4, <2>2, <2>3
<1> QED BY <1>4, <1>5, <1>6

\* Rows that change only so: what is there keeps its synthetic orders and does not open again,
\* what is new has none.
RowsKept ==
  /\ v11' \in Seq(Positions) /\ Len(v11) <= Len(v11')
  /\ \A i \in 1..Len(v11) : /\ v11'[i].synthetic = v11[i].synthetic
                            /\ v11'[i].open => v11[i].open
  /\ \A i \in 1..Len(v11') : i <= Len(v11) \/ v11'[i].synthetic = 0

LEMMA RowsSame == ASSUME A!CycleTypes, UNCHANGED v11 PROVE RowsKept
<1>1. v11 \in Seq(Positions) /\ Len(v11) \in Nat BY CycleFields
<1> QED BY <1>1 DEF RowsKept

LEMMA RowOpens ==
  ASSUME A!CycleTypes, NEW s \in A!Sides, v11' = Append(v11, A!Opened(s)) PROVE RowsKept
<1>1. v11 \in Seq(Positions) /\ Len(v11) \in Nat BY CycleFields
<1>2. PICK o : o = A!Opened(s) OBVIOUS
<1>2a. o \in Positions /\ o.synthetic = 0 BY <1>2 DEF Positions, A!Opened
<1>3. v11' = Append(v11, o) BY <1>2
<1>4. /\ v11' \in Seq(Positions) /\ Len(v11') = Len(v11) + 1 /\ v11'[Len(v11) + 1] = o
      /\ \A i \in 1..Len(v11) : v11'[i] = v11[i]
  BY <1>1, <1>2a, <1>3
<1> QED BY <1>1, <1>2a, <1>4 DEF RowsKept

LEMMA RowChanges ==
  ASSUME A!CycleTypes, NEW i, NEW row, v11' = [v11 EXCEPT ![i] = row],
         i \in 1..Len(v11) => /\ row \in Positions /\ row.synthetic = v11[i].synthetic
                              /\ row.open => v11[i].open
  PROVE  RowsKept
<1>1. v11 \in Seq(Positions) /\ Len(v11) \in Nat /\ DOMAIN v11 = 1..Len(v11) BY CycleFields
<1>2. CASE i \notin 1..Len(v11)
  <2>1. v11' = v11 BY <1>1, <1>2
  <2> QED BY <2>1, RowsSame
<1>3. CASE i \in 1..Len(v11)
  <2>1. /\ v11' \in Seq(Positions) /\ Len(v11') = Len(v11) /\ v11'[i] = row
        /\ \A j \in 1..Len(v11) : j # i => v11'[j] = v11[j]
    BY <1>1, <1>3, ExceptSeq
  <2> QED BY <1>1, <1>3, <2>1 DEF RowsKept
<1> QED BY <1>2, <1>3

LEMMA FireKept ==
  ASSUME A!CycleInv, NEW t \in A!Tasks, A!Fire(t) PROVE A!CycleInv'
<1>0. A!CycleTypes /\ v4[t].at = "fire" /\ v4[t] \in Cycles /\ A!CycleFits(v4[t])
  BY CycleFields DEF A!CycleInv, A!Fire, A!At
<1>1. UNCHANGED <<v1, v2, v9>> /\ A!Release(t) BY DEF A!Fire
<1>2. PICK c \in Cycles : c = v4[t] BY <1>0
<1>3. v13' \in Seq(Orders) /\ A!FiredIsLogged' /\ A!OneEntryPerWindow'
  <2>1. CASE UNCHANGED v13
    BY <1>0, <1>1, <2>1, CycleFields
    DEF A!CycleInv, A!FiredIsLogged, A!Counts, A!OneEntryPerWindow
  <2>2. CASE v13' = Append(v13, [action |-> c.signal, started |-> c.started,
                                 decided |-> c.decided, blind |-> c.blind, logged |-> c.logged])
    BY <1>0, <1>1, <1>2, <2>2, SentIs
  <2> QED BY <1>2, <2>1, <2>2 DEF A!Fire
<1>4. v12' \in SUBSET A!Sides
  <2>1. v12 \in SUBSET A!Sides BY <1>0, CycleFields
  <2> QED BY <2>1 DEF A!Fire, A!SideOf, A!Sides
<1>5. RowsKept
  <2>1. CASE UNCHANGED v11 BY <1>0, <2>1, RowsSame
  <2>2. CASE v11' = Append(v11, A!Opened(A!SideOf(c.signal)))
    BY <1>0, <2>2, RowOpens DEF A!SideOf, A!Sides
  <2>3. CASE v11' = [v11 EXCEPT ![c.row] = [v11[c.row] EXCEPT !.open = FALSE, !.live = FALSE,
                                                             !.by = "listener"]]
    <3>1. PICK row : row = [v11[c.row] EXCEPT !.open = FALSE, !.live = FALSE, !.by = "listener"]
      OBVIOUS
    <3>2. ASSUME c.row \in 1..Len(v11)
          PROVE  row \in Positions /\ row.synthetic = v11[c.row].synthetic /\ row.open = FALSE
      <4>1. v11[c.row] \in Positions BY <1>0, <3>2, CycleFields, ElementOfSeq
      <4> QED BY <3>1, <4>1 DEF Positions
    <3> QED BY <1>0, <2>3, <3>1, <3>2, RowChanges
  <2> QED BY <1>2, <2>1, <2>2, <2>3 DEF A!Fire
<1>6. A!CycleTypes' BY <1>0, <1>1, <1>3, <1>4, <1>5, CycleFields, CycleTypesAre, Released DEF RowsKept
<1>7. \A u \in A!Tasks : v4'[u].at = "idle" BY <1>0, <1>1, Released
<1>8. A!OneInHand' BY <1>7 DEF A!OneInHand
<1>9. A!Unwritten' /\ A!RecoveredOnce'
  <2>1. Len(v11) \in Nat /\ Len(v11') \in Nat BY <1>0, <1>5, CycleFields DEF RowsKept
  <2> QED BY <1>5, <2>1 DEF RowsKept, A!CycleInv, A!Unwritten, A!RecoveredOnce
<1>10. \A u \in A!Tasks : A!CycleFits(v4[u])' BY <1>7 DEF A!CycleFits
<1> QED BY <1>3, <1>6, <1>8, <1>9, <1>10 DEF A!CycleInv

\* A trigger that finds no cycle under way begins one; else nothing happens.
LEMMA TriggerKept ==
  ASSUME A!CycleInv, NEW t \in A!Tasks, NEW why \in A!Alarms \cup {NULL}, A!Acquire(t, why),
         UNCHANGED <<v1, v2, v9, v11, v12, v13>>
  PROVE  A!CycleInv'
<1>0. A!CycleTypes BY DEF A!CycleInv
<1>1. Len(v11) <= Len(v11') /\ \A i \in 1..Len(v11') : i <= Len(v11) BY <1>0, CycleFields
<1>2. CASE v3 # NULL
  <2>1. UNCHANGED <<v3, v4>> BY <1>2 DEF A!Acquire
  <2>2. A!CycleTypes' BY <1>0, <2>1, CycleFields, CycleTypesAre
  <2>3. A!OneInHand' BY <2>1 DEF A!CycleInv, A!OneInHand
  <2> QED BY <1>1, <2>1, <2>2, <2>3, CycleKept
<1>3. CASE v3 = NULL
  <2>1. PICK c : c = A!Fresh(why) OBVIOUS
  <2>2. c \in Cycles /\ c.at = "read" BY <2>1, IdleCycle DEF A!Fresh, Cycles, A!Stages
  <2>3. v4' = [v4 EXCEPT ![t] = c] /\ v3' = t BY <1>3, <2>1 DEF A!Acquire
  <2>4. /\ v4' \in [A!Tasks -> Cycles] /\ v4'[t] = c
        /\ \A u \in A!Tasks \ {t} : v4'[u] = v4[u] /\ v4[u].at = "idle"
    BY <1>0, <1>3, <2>2, <2>3, CycleFields, AllIdle DEF A!CycleInv
  <2>5. A!CycleTypes' BY <1>0, <2>4, CycleFields, CycleTypesAre
  <2>6. A!OneInHand' BY <2>3, <2>4 DEF A!OneInHand
  <2>7. A!CycleFits(c)' BY <2>2 DEF A!CycleFits
  <2> QED BY <1>1, <2>2, <2>4, <2>5, <2>6, <2>7, CycleKept
<1> QED BY <1>2, <1>3

\* What leaves the cycles as they are.
LEMMA CyclesRest ==
  ASSUME A!CycleInv, UNCHANGED <<v1, v3, v4, v9, v11, v12, v13>>, v2' \in Nat
  PROVE  A!CycleInv'
<1>0. A!CycleTypes BY DEF A!CycleInv
<1>1. Len(v11) <= Len(v11') /\ \A i \in 1..Len(v11') : i <= Len(v11) BY <1>0, CycleFields
<1>2. A!CycleTypes' BY <1>0, CycleFields, CycleTypesAre
<1>3. A!OneInHand' BY DEF A!CycleInv, A!OneInHand
<1> QED BY <1>1, <1>2, <1>3, CycleKept

LEMMA CancelKept ==
  ASSUME A!CycleInv, A!ReloadStopped \/ A!Restart PROVE A!CycleInv'
<1>0. A!CycleTypes BY DEF A!CycleInv
<1>1. UNCHANGED <<v1, v2, v9, v11, v12, v13>> BY DEF A!ReloadStopped, A!Restart, A!stored
<1>2. v4' \in [A!Tasks -> Cycles]
      /\ \A t \in A!Tasks : v4'[t] = v4[t] \/ v4'[t].at = "idle"
  <2>1. CASE A!ReloadStopped
    BY <1>0, <2>1, CycleFields, IdleCycle DEF A!ReloadStopped
  <2>2. CASE A!Restart BY <2>2, IdleCycle DEF A!Restart
  <2> QED BY <2>1, <2>2
<1>3. A!OneInHand'
  <2>1. CASE A!ReloadStopped
    BY <2>1, IdleCycle DEF A!ReloadStopped, A!CycleInv, A!OneInHand
  <2>2. CASE A!Restart BY <2>2, IdleCycle DEF A!Restart, A!OneInHand
  <2> QED BY <2>1, <2>2
<1>4. A!CycleTypes' BY <1>0, <1>1, <1>2, CycleFields, CycleTypesAre
<1>5. Len(v11) <= Len(v11') /\ \A i \in 1..Len(v11') : i <= Len(v11) BY <1>0, <1>1, CycleFields
<1> QED BY <1>1, <1>2, <1>3, <1>4, <1>5, CycleKept

\* The exchange and the listener close positions, a limit order fills.
LEMMA MarketKept ==
  ASSUME A!CycleInv, RowsKept, UNCHANGED <<v1, v2, v3, v4, v9, v13>>, v12' \in SUBSET A!Sides
  PROVE  A!CycleInv'
<1>0. A!CycleTypes BY DEF A!CycleInv
<1>1. A!CycleTypes' BY <1>0, CycleFields, CycleTypesAre DEF RowsKept
<1>2. A!OneInHand' BY DEF A!CycleInv, A!OneInHand
<1> QED BY <1>1, <1>2, CycleKept DEF RowsKept

LEMMA ExchangeClosesKept ==
  ASSUME A!CycleInv, NEW s, A!ExchangeCloses(s) PROVE A!CycleInv'
<1>0. v11 \in Seq(Positions) /\ Len(v11) \in Nat /\ v12 \in SUBSET A!Sides
  BY CycleFields DEF A!CycleInv
<1>1. v11' = [i \in 1..Len(v11) |-> [v11[i] EXCEPT !.live = v11[i].live /\ v11[i].side # s]]
  BY DEF A!ExchangeCloses
<1>2. ASSUME NEW i \in 1..Len(v11)
      PROVE  v11'[i] \in Positions /\ v11'[i].synthetic = v11[i].synthetic
             /\ v11'[i].open = v11[i].open
  <2>1. v11[i] \in Positions BY <1>0, ElementOfSeq
  <2>2. PICK b \in BOOLEAN : b <=> (v11[i].live /\ v11[i].side # s) OBVIOUS
  <2>3. b = (v11[i].live /\ v11[i].side # s) BY <2>2
  <2>4. PICK row : row = [v11[i] EXCEPT !.live = b] OBVIOUS
  <2>5. v11'[i] = row BY <1>1, <2>3, <2>4, Zenon
  <2> QED BY <2>1, <2>4, <2>5 DEF Positions
<1>3. v11' \in Seq(Positions) /\ Len(v11') = Len(v11)
  <2>1. v11' \in [1..Len(v11) -> Positions] BY <1>1, <1>2
  <2> QED BY <1>0, <2>1
<1>4. RowsKept BY <1>0, <1>2, <1>3 DEF RowsKept
<1> QED BY <1>0, <1>4, MarketKept DEF A!ExchangeCloses, A!service

LEMMA ListenerClosesKept ==
  ASSUME A!CycleInv, NEW i \in 1..Len(v11), A!ListenerCloses(i) PROVE A!CycleInv'
<1>0. A!CycleTypes /\ v11[i] \in Positions /\ v12 \in SUBSET A!Sides
  BY CycleFields, ElementOfSeq DEF A!CycleInv
<1>1. PICK row : row = [v11[i] EXCEPT !.open = FALSE, !.by = "listener"] OBVIOUS
<1>2. row \in Positions /\ row.synthetic = v11[i].synthetic /\ row.open = FALSE
  BY <1>0, <1>1 DEF Positions
<1>3. RowsKept BY <1>0, <1>1, <1>2, RowChanges DEF A!ListenerCloses
<1> QED BY <1>0, <1>3, MarketKept DEF A!ListenerCloses, A!service

LEMMA LimitFillsKept ==
  ASSUME A!CycleInv, NEW s \in {"long", "short"}, A!LimitFills(s) PROVE A!CycleInv'
<1>0. A!CycleTypes /\ v12 \in SUBSET A!Sides BY CycleFields DEF A!CycleInv
<1>1. RowsKept BY <1>0, RowOpens DEF A!LimitFills, A!Sides
<1>2. v12' \in SUBSET A!Sides BY <1>0 DEF A!LimitFills
<1> QED BY <1>1, <1>2, MarketKept DEF A!LimitFills, A!service

LEMMA CycleInit == A!Init => A!CycleInv
<1> SUFFICES ASSUME NEW p \in Outlooks, A!InitFor(p) PROVE A!CycleInv BY DEF A!Init
<1>1. /\ v1 = p /\ v2 = 1 /\ v3 = NULL /\ v4 = [t \in A!Tasks |-> A!Idle]
      /\ v9 = {} /\ v11 = p.rows /\ v12 = p.resting /\ v13 = <<>>
  BY DEF A!InitFor
<1>2. /\ v11 \in Seq(Positions) /\ v12 \in SUBSET A!Sides
      /\ \A i \in 1..Len(v11) : /\ v11[i].synthetic <= 1
                                /\ v11[i].open => v11[i].synthetic = 0
  <2>1. PICK n \in Nat : n = Len(p.rows) /\ DOMAIN p.rows = 1..n BY OutlooksAssumption
  <2>2. ASSUME NEW i \in 1..n
        PROVE  p.rows[i] \in Positions /\ p.rows[i].synthetic <= 1
               /\ (p.rows[i].open => p.rows[i].synthetic = 0)
    <3> DEFINE Given == [side : {"long", "short"}, open : BOOLEAN, live : BOOLEAN,
                         by : {NULL, "listener", "recovery"}, synthetic : 0..1]
    <3>1. p.rows \in Seq(Given) BY OutlooksAssumption
    <3>2. p.rows[i] \in Given
      <4> HIDE DEF Given
      <4> QED BY <2>1, <3>1, ElementOfSeq
    <3>3. p.rows[i].open => p.rows[i].synthetic = 0 BY <2>1, OutlooksAssumption
    <3> QED BY <3>2, <3>3 DEF Positions, A!Sides
  <2>3. p.rows = [i \in 1..n |-> p.rows[i]] BY <2>1, OutlooksAssumption
  <2>4. p.rows \in [1..n -> Positions] BY <2>2, <2>3
  <2>5. p.rows \in Seq(Positions) BY <2>4
  <2>6. p.resting \in SUBSET A!Sides BY OutlooksAssumption DEF A!Sides
  <2> QED BY <1>1, <2>1, <2>2, <2>5, <2>6
<1>3. v4 \in [A!Tasks -> Cycles] /\ \A t \in A!Tasks : v4[t].at = "idle" BY <1>1, IdleCycle
<1>4. A!CycleTypes
  <2>1. v13 \in Seq(Orders) BY <1>1
  <2> QED BY <1>1, <1>2, <1>3, <2>1 DEF A!CycleTypes, Cycles, LogRows, Positions, Orders
<1>5. A!OneInHand /\ \A t \in A!Tasks : A!CycleFits(v4[t])
  BY <1>3 DEF A!OneInHand, A!CycleFits
<1>6. A!FiredIsLogged /\ A!OneEntryPerWindow
  BY <1>1 DEF A!FiredIsLogged, A!OneEntryPerWindow
<1>7. A!Unwritten /\ A!RecoveredOnce BY <1>2 DEF A!Unwritten, A!RecoveredOnce
<1> QED BY <1>4, <1>5, <1>6, <1>7 DEF A!CycleInv

LEMMA CycleNext == A!CycleInv /\ [A!Next]_(A!vars) => A!CycleInv'
<1> SUFFICES ASSUME A!CycleInv, [A!Next]_(A!vars) PROVE A!CycleInv' OBVIOUS
<1>0. v2 \in Nat BY CycleFields DEF A!CycleInv
<1>1. ASSUME NEW t \in A!Tasks, A!ReadFails(t) \/ A!ThinkFails(t) PROVE A!CycleInv'
  <2>1. v4[t].at # "idle" /\ A!Release(t) /\ UNCHANGED <<v1, v2, v9, v11, v12, v13>>
    BY <1>1 DEF A!ReadFails, A!ThinkFails, A!Fails, A!At, A!stored
  <2> QED BY <2>1, CycleFields, ReleaseKept DEF A!CycleInv
<1>2. CASE A!LoopPlans \/ A!LoopRetries \/ A!Toggle \/ A!Tick
  BY <1>0, <1>2, CyclesRest
  DEF A!LoopPlans, A!LoopRetries, A!Toggle, A!Tick, A!stored, A!service
<1>3. CASE A!LoopWakes
  <2>1. A!Acquire("loop", NULL) /\ UNCHANGED <<v1, v2, v9, v11, v12, v13>>
    BY <1>3 DEF A!LoopWakes, A!stored
  <2> QED BY <2>1, TriggerKept DEF A!Tasks
<1>4. CASE A!Watch \/ A!Kick \/ A!Manual
  <2>1. PICK t \in A!Tasks, why \in A!Alarms \cup {NULL} : A!Triggers(t, why)
    BY <1>4
    DEF A!Watch, A!Kick, A!Manual, A!Tasks, A!Alarms, A!NewsBreaks, A!VolumeSpikes, A!FundingSpikes
  <2>2. A!Acquire(t, why) /\ UNCHANGED <<v1, v2, v9, v11, v12, v13>>
    BY <2>1 DEF A!Triggers, A!stored
  <2> QED BY <2>2, TriggerKept
<1>5. ASSUME NEW r \in A!Reloads, A!ReloadReads(r) \/ A!ReloadStarts(r) \/ A!ReloadStops(r)
      PROVE  A!CycleInv'
  BY <1>0, <1>5, CyclesRest DEF A!ReloadReads, A!ReloadStarts, A!ReloadStops, A!stored
<1>6. CASE UNCHANGED A!vars BY <1>0, <1>6, CyclesRest DEF A!vars, A!stored, A!service
<1>7. CASE \E t \in A!Tasks :
             \/ A!Read(t) \/ A!ReadFails(t) \/ A!Check(t) \/ A!History(t) \/ A!Write(t)
             \/ A!Gather(t) \/ A!Think(t) \/ A!ThinkFails(t) \/ A!Log(t) \/ A!Fire(t)
  BY <1>1, <1>7, ReadCycleKept, CheckKept, WriteKept, GatherKept, ThinkKept, LogKept, FireKept
<1> QED
  BY <1>2, <1>3, <1>4, <1>5, <1>6, <1>7, CancelKept, ListenerClosesKept, ExchangeClosesKept,
     LimitFillsKept
  DEF A!Next

LEMMA CyclesMove ==
  turn = "ai" /\ [NextServices]_all => turn' = "ai" /\ [A!Next]_(A!vars)
BY DEF NextServices, all, cells, A!vars, A!service, A!stored

\* Two entries of a strategy never come within one cooldown, but for a log row that was lost or
\* could not be read, and a recovery writes at most one synthetic order for a position: for any
\* outlooks (prices, signals, positions and alarms, faults, reloads and market moves) and cooldown.
THEOREM CycleSafeHolds == SpecServices => []CycleSafe
<1> DEFINE Inv == turn = "ai" => A!CycleInv
<1>1. InitServices => Inv BY CycleInit DEF InitServices
<1>2. Inv /\ [NextServices]_all => Inv'
  <2> SUFFICES ASSUME Inv, [NextServices]_all PROVE Inv' OBVIOUS
  <2>1. turn' = turn \/ turn = "ai" BY DEF NextServices, all
  <2> QED BY <2>1, CycleNext, CyclesMove
<1>3. Inv => CycleSafe BY DEF CycleSafe, A!CycleInv
<1> QED BY <1>1, <1>2, <1>3, PTL DEF SpecServices

-------------------------------------------------------------------------------
(* Typed asks for a little more than the invariants above: bounds, and the *)
(* variables that only TypeOK names.                                       *)

\* No credentials are newer than the last rotation.
Creds == 0..MaxRotations
CacheBound ==
  /\ v9 \in Creds /\ v1.cred = v9
  /\ \A i \in DOMAIN v3 : v3[i].cred \in Creds
  /\ \A c \in R!Loading : v5[c].record.cred \in Creds
  /\ v12 \subseteq R!Reasons

LEMMA CacheBoundInit == R!Init => CacheBound
BY BoundsAssumption DEF R!Init, CacheBound, Creds, R!NoCall, R!Loading

\* Eviction and the read-back of a switch leave the credentials of every adapter.
LEMMA CredsKept ==
  ASSUME R!CacheInv, R!Evict \/ R!Confirm
  PROVE  DOMAIN v3' = DOMAIN v3 /\ \A i \in DOMAIN v3 : v3'[i].cred = v3[i].cred
<1> DEFINE Made == [cred : Nat, mode : R!Modes, open : BOOLEAN]
<1>1. v3 \in Seq(Made) /\ DOMAIN v3 = 1..Len(v3) BY DEF R!CacheInv, R!CacheTypes
<1>2. ASSUME NEW k \in DOMAIN v3, NEW a \in Made, a.cred = v3[k].cred, v3' = [v3 EXCEPT ![k] = a]
      PROVE  DOMAIN v3' = DOMAIN v3 /\ \A i \in DOMAIN v3 : v3'[i].cred = v3[i].cred
  <2> HIDE DEF Made
  <2>1. DOMAIN v3' = DOMAIN v3 BY <1>1, <1>2, ExceptSeq
  <2> QED BY <1>1, <1>2, <2>1
<1>3. CASE R!Evict
  <2>1. CASE v4 = NULL BY <1>3, <2>1 DEF R!Evict
  <2>2. CASE v4 # NULL
    <3>1. v4 \in DOMAIN v3 BY <2>2 DEF R!CacheInv, R!CacheTypes
    <3>2. v3[v4] \in Made BY <1>1, <3>1, ElementOfSeq
    <3>3. PICK a : a = [v3[v4] EXCEPT !.open = FALSE] OBVIOUS
    <3>4. a \in Made /\ a.cred = v3[v4].cred BY <3>2, <3>3
    <3>5. v3' = [v3 EXCEPT ![v4] = a] BY <1>3, <2>2, <3>3 DEF R!Evict
    <3> QED BY <1>2, <3>1, <3>4, <3>5
  <2> QED BY <2>1, <2>2
<1>4. CASE R!Confirm
  <2>1. v7.adapter \in DOMAIN v3 /\ v7.to \in R!Modes
    BY <1>4 DEF R!Confirm, R!CacheInv, R!CacheTypes
  <2>2. v3[v7.adapter] \in Made BY <1>1, <2>1, ElementOfSeq
  <2>3. PICK a : a = [v3[v7.adapter] EXCEPT !.mode = v7.to] OBVIOUS
  <2>4. a \in Made /\ a.cred = v3[v7.adapter].cred BY <2>1, <2>2, <2>3
  <2>5. v3' = [v3 EXCEPT ![v7.adapter] = a] BY <1>4, <2>3 DEF R!Confirm
  <2> QED BY <1>2, <2>1, <2>4, <2>5
<1> QED BY <1>3, <1>4

LEMMA CacheBoundNext == R!CacheInv /\ CacheBound /\ [R!Next]_(R!vars) => CacheBound'
<1> SUFFICES ASSUME R!CacheInv, CacheBound, [R!Next]_(R!vars) PROVE CacheBound' OBVIOUS
<1> USE DEF Creds
<1>1. /\ v9 \in 0..MaxRotations /\ v1.cred = v9 /\ v12 \subseteq R!Reasons
      /\ \A i \in DOMAIN v3 : v3[i].cred \in Creds
      /\ \A c \in R!Loading : v5[c].record.cred \in Creds
  BY DEF CacheBound
<1>2. ASSUME v1'.cred = v9', v9' \in Creds, UNCHANGED <<v3, v5>>, v12' \subseteq R!Reasons
      PROVE  CacheBound'
  BY <1>1, <1>2 DEF CacheBound, R!Loading
<1>3. \A r : R!Raced(r) \subseteq R!Reasons BY DEF R!Raced, R!Reasons
<1>4. v1 \in R!Rows /\ v3 \in Seq([cred : Nat, mode : R!Modes, open : BOOLEAN])
      /\ v5 \in [Callers -> Requests]
  BY DEF R!CacheInv, R!CacheTypes, Requests
<1>5. ASSUME NEW c \in Callers, R!Get(c) PROVE CacheBound'
  <2>1. PICK r : v5' = [v5 EXCEPT ![c] = r] /\ (r.step = "loading" => r.record = v1)
    <3>1. CASE v4 # NULL
      <4>1. PICK r : r = [R!NoCall EXCEPT !.step = "using", !.adapter = v4] OBVIOUS
      <4>2. r.step = "using" BY <4>1 DEF R!NoCall
      <4> QED BY <1>5, <3>1, <4>1, <4>2 DEF R!Get
    <3>2. CASE v4 = NULL
      <4>1. PICK r : r = [R!NoCall EXCEPT !.step = "loading", !.record = v1] OBVIOUS
      <4>2. r.record = v1 BY <4>1 DEF R!NoCall
      <4> QED BY <1>5, <3>2, <4>1, <4>2 DEF R!Get
    <3> QED BY <3>1, <3>2
  <2>2. \A d \in Callers : v5'[d] = IF d = c THEN r ELSE v5[d] BY <1>4, <2>1
  <2>3. \A d \in R!Loading' : (d \in R!Loading /\ v5'[d] = v5[d]) \/ v5'[d].record = v1
    BY <2>1, <2>2 DEF R!Loading
  <2>4. UNCHANGED <<v1, v3, v9, v12>> BY <1>5 DEF R!Get
  <2> QED BY <1>1, <2>3, <2>4 DEF CacheBound
<1>6. ASSUME NEW c \in Callers, R!Finish(c) PROVE CacheBound'
  <2>1. \A d \in R!Loading' : d \in R!Loading /\ v5'[d] = v5[d]
    BY <1>4, <1>6 DEF R!Finish, R!Loading, R!NoCall, Requests
  <2>2. UNCHANGED <<v1, v3, v9, v12>> BY <1>6 DEF R!Finish, R!counts
  <2> QED BY <1>1, <2>1, <2>2 DEF CacheBound
<1>7. ASSUME NEW c \in Callers, R!Load(c) PROVE CacheBound'
  <2>1. \A d \in R!Loading' : d \in R!Loading /\ v5'[d] = v5[d]
    BY <1>4, <1>7 DEF R!Load, R!Loading, R!NoCall, Requests
  <2>2. UNCHANGED <<v1, v9, v12>> /\ c \in R!Loading BY <1>7 DEF R!Load, R!counts, R!Loading
  <2>3. PICK made : made = R!Adapter(v5[c].record) OBVIOUS
  <2>4. made.cred \in Creds BY <1>1, <2>2, <2>3 DEF R!Adapter
  <2>5. v3' = Append(v3, made) BY <1>7, <2>3 DEF R!Load
  <2>6. \A i \in DOMAIN v3' : (i \in DOMAIN v3 /\ v3'[i] = v3[i]) \/ v3'[i] = made
    BY <1>4, <2>5
  <2> QED BY <1>1, <2>1, <2>2, <2>4, <2>6 DEF CacheBound
<1>8. ASSUME R!Store PROVE CacheBound'
  <2>1. v9' \in Creds BY <1>1, <1>8, BoundsAssumption DEF R!Store
  <2>2. v1'.cred = v9' BY <1>1, <1>4, <1>8 DEF R!Store, R!Rows
  <2> QED BY <1>1, <1>2, <1>8, <2>1, <2>2 DEF R!Store
<1>9. ASSUME R!Invalidate \/ R!Confirm PROVE CacheBound'
  <2>1. DOMAIN v3' = DOMAIN v3 /\ \A i \in DOMAIN v3 : v3'[i].cred = v3[i].cred
    BY <1>9, CredsKept DEF R!Invalidate
  <2>2. UNCHANGED <<v1, v5, v9>> BY <1>9 DEF R!Invalidate, R!Confirm, R!counts
  <2>3. v12' \subseteq R!Reasons BY <1>1, <1>3, <1>9 DEF R!Invalidate, R!Confirm
  <2> QED BY <1>1, <2>1, <2>2, <2>3 DEF CacheBound, R!Loading
<1>10. ASSUME R!InvalidateLost \/ R!SwitchBegin \/ R!SwitchRefused \/ R!SwitchAccepted
              \/ R!ConfirmUnread \/ R!WriteModeFails \/ R!GetRefused \/ UNCHANGED R!vars
       PROVE  CacheBound'
  <2>1. UNCHANGED <<v1, v3, v5, v9>>
    BY <1>10 DEF R!InvalidateLost, R!SwitchBegin, R!SwitchRefused, R!SwitchAccepted, R!ConfirmUnread,
                 R!WriteModeFails, R!GetRefused, R!vars, R!counts
  <2>2. v12' \in {v12} \cup {v12 \cup {r} : r \in R!Reasons}
    BY <1>10 DEF R!InvalidateLost, R!SwitchBegin, R!SwitchRefused, R!SwitchAccepted, R!ConfirmUnread,
                 R!WriteModeFails, R!GetRefused, R!vars, R!counts, R!Reasons
  <2>3. v12' \subseteq R!Reasons BY <1>1, <2>2
  <2> QED BY <1>1, <1>2, <2>1, <2>3
<1>11. ASSUME R!Deactivate PROVE CacheBound'
  <2>1. v1'.cred = v1.cred BY <1>4, <1>11 DEF R!Deactivate, R!Rows
  <2> QED BY <1>1, <1>2, <1>11, <2>1 DEF R!Deactivate
<1>12. ASSUME R!WriteMode PROVE CacheBound'
  <2>1. v1'.cred = v1.cred BY <1>4, <1>12 DEF R!WriteMode, R!Rows
  <2>2. UNCHANGED <<v3, v5, v9>> BY <1>12 DEF R!WriteMode, R!counts
  <2>3. R!Raced(v1') \subseteq R!Reasons /\ {"raced"} \subseteq R!Reasons BY <1>3 DEF R!Reasons
  <2>4. v12' \subseteq R!Reasons BY <1>1, <1>12, <2>3 DEF R!WriteMode
  <2> QED BY <1>1, <1>2, <2>1, <2>2, <2>4
<1>13. ASSUME R!Restart PROVE CacheBound'
  <2>1. v3' = <<>> /\ UNCHANGED <<v1, v9>> BY <1>13 DEF R!Restart
  <2>2. R!Loading' = {} BY <1>13 DEF R!Restart, R!Loading, R!NoCall
  <2>3. v12' \subseteq R!Reasons BY <1>1, <1>13 DEF R!Restart, R!Reasons
  <2> QED BY <1>1, <2>1, <2>2, <2>3 DEF CacheBound
<1> QED
  BY <1>5, <1>6, <1>7, <1>8, <1>9, <1>10, <1>11, <1>12, <1>13 DEF R!Next

LEMMA CacheTyped == R!CacheInv /\ CacheBound => R!TypeOK
<1> SUFFICES ASSUME R!CacheInv, CacheBound PROVE R!TypeOK OBVIOUS
<1>1. v3 \in Seq([cred : Nat, mode : R!Modes, open : BOOLEAN]) /\ DOMAIN v3 = 1..Len(v3)
  BY DEF R!CacheInv, R!CacheTypes
<1>2. \A i \in DOMAIN v3 : v3[i] \in [cred : Creds, mode : R!Modes, open : BOOLEAN]
  <2>1. \A i \in DOMAIN v3 : v3[i] \in [cred : Nat, mode : R!Modes, open : BOOLEAN]
    BY <1>1, ElementOfSeq
  <2> QED BY <2>1 DEF CacheBound
<1>3. R!ToSet(v3) \subseteq [cred : 0..MaxRotations, mode : R!Modes, open : BOOLEAN]
  BY <1>2 DEF R!ToSet, Creds
<1>4. v1 \in [cred : 0..MaxRotations, mode : R!Modes, active : BOOLEAN]
  BY DEF CacheBound, Creds, R!CacheInv, R!CacheTypes, R!Rows
<1>5. \A c \in Callers : v5[c].step \in {"idle", "loading", "using"} BY DEF R!CacheInv, R!CacheTypes
<1>6. v7.step \in {"idle", "ask", "readback", "write"} BY DEF R!CacheInv, R!CacheTypes
<1> QED BY <1>3, <1>4, <1>5, <1>6 DEF CacheBound, R!TypeOK, R!CacheInv, R!CacheTypes

-------------------------------------------------------------------------------
\* No bar is beyond the exchange's last.
Times == 1..LastBar
Candles == [t : Times, final : BOOLEAN]
FeedBound ==
  /\ v1 \in Times /\ v6 \in BOOLEAN
  /\ v3 \in Seq(Candles) /\ v5.todo \in Seq(Candles)
  /\ v4 \in Candles \cup {NULL} /\ v5.prev \in Candles \cup {NULL} /\ v5.event \in Candles \cup {NULL}
  /\ v7 \cup v8 \subseteq Times

LEMMA CandlesAre ==
  /\ Candles \subseteq F!Bars /\ Times \subseteq Nat /\ LastBar \in Nat
  /\ \A c \in Candles : c.t \in Times
  /\ \A x \in Candles \cup {NULL} : x \in F!Bars => x \in Candles
BY FeedAssumption DEF Candles, Times, F!Bars

LEMMA FeedBoundInit == F!Init => FeedBound
<1> SUFFICES ASSUME F!Init PROVE FeedBound OBVIOUS
<1>1. v1 \in Times BY FeedAssumption DEF F!Init, Times
<1>2. v5 = F!Fresh("down") /\ v3 = <<>> /\ v4 = NULL /\ v7 = {} /\ v8 = {} BY DEF F!Init
<1>3. v6 \in BOOLEAN BY Zenon DEF F!Init
<1>4. <<>> \in Seq(Candles) BY EmptySeq
<1> QED BY <1>1, <1>2, <1>3, <1>4 DEF FeedBound, F!Fresh

LEMMA FeedBoundFields ==
  ASSUME FeedBound, F!FeedInv
  PROVE  /\ v1 \in Times /\ v6 \in BOOLEAN /\ v3 \in Seq(Candles) /\ v5.todo \in Seq(Candles)
         /\ v4 \in Candles \cup {NULL} /\ v5.prev \in Candles \cup {NULL}
         /\ v5.event \in Candles \cup {NULL} /\ v7 \subseteq Times /\ v8 \subseteq Times
         /\ F!Now \in Candles /\ F!Now.t = v1
         /\ v3 # <<>> => F!LastClosed \in Times
         /\ v5 \in F!Procs /\ F!HandFits
<1>1. F!Now \in Candles /\ F!Now.t = v1 BY FeedFields DEF FeedBound, F!Now, F!Candle, Candles
<1>2. v3 # <<>> => F!LastClosed \in Times
  <2>1. v3 \in Seq(Candles) BY DEF FeedBound
  <2>2. v3 # <<>> => Len(v3) \in 1..Len(v3) BY <2>1, EmptySeq
  <2>3. v3 # <<>> => v3[Len(v3)] \in Candles BY <2>1, <2>2, ElementOfSeq
  <2> QED BY <2>3, CandlesAre DEF F!LastClosed, F!Last
<1> QED BY <1>1, <1>2, FeedFields DEF FeedBound, F!FeedInv

\* What a REST answer brings lies between the bars asked for.
LEMMA RestIsKnown ==
  ASSUME NEW a \in Nat, a > 0, NEW b \in Int, b <= LastBar
  PROVE  F!Rest(a, b) \in Seq(Candles)
<1>1. CASE a > b
  <2>1. F!Rest(a, b) = <<>> BY <1>1 DEF F!Rest
  <2> QED BY <2>1, EmptySeq
<1>2. CASE ~(a > b)
  <2>1. F!Rest(a, b) = [i \in 1..(b - a + 1) |-> F!Candle(a + i - 1, TRUE)]
    BY <1>2 DEF F!Rest, F!BarsBetween
  <2>2. \A i \in 1..(b - a + 1) : F!Candle(a + i - 1, TRUE) \in Candles
    <3>1. \A i \in 1..(b - a + 1) : a + i - 1 \in Times BY CandlesAre DEF Times
    <3> QED BY <3>1 DEF F!Candle, Candles
  <2> DEFINE n == b - a + 1
             e(i) == F!Candle(a + i - 1, TRUE)
  <2>3. n \in Nat BY <1>2
  <2>4. \A i \in 1..n : e(i) \in Candles BY <2>2
  <2> HIDE DEF n, e
  <2>5. [i \in 1..n |-> e(i)] \in Seq(Candles) BY <2>3, <2>4
  <2> QED BY <2>1, <2>5 DEF n, e
<1> QED BY <1>1, <1>2

LEMMA HeadIsKnown ==
  ASSUME NEW s \in Seq(Candles), s # <<>> PROVE Head(s) \in Candles /\ Tail(s) \in Seq(Candles)
BY TailIs

\* The feed's other half: what was heard, given up and repeated.
LEMMA FeedExchangeBound ==
  ASSUME F!FeedInv, FeedBound,
         F!Update \/ F!BarOpens \/ F!Stall \/ F!StallEnds \/ F!HearFails \/ F!Start \/ F!WarmupFails
  PROVE  FeedBound'
<1>1. v1' \in Times
  <2>1. v1' = v1 \/ (v1 < LastBar /\ v1' = v1 + 1)
    BY DEF F!Update, F!BarOpens, F!Stall, F!StallEnds, F!HearFails, F!Start, F!WarmupFails
  <2> QED BY <2>1, FeedBoundFields, CandlesAre DEF Times
<1>2. v6' \in BOOLEAN
  <2>1. v6' = TRUE \/ v6' = FALSE \/ v6' = v6
    BY DEF F!Update, F!BarOpens, F!Stall, F!StallEnds, F!HearFails, F!Start, F!WarmupFails
  <2> QED BY <2>1, FeedBoundFields
<1>3. UNCHANGED <<v3, v7, v8>> /\ (v4' = v4 \/ v4' = F!Now)
  BY DEF F!Update, F!BarOpens, F!Stall, F!StallEnds, F!HearFails, F!Start, F!WarmupFails
<1>4. v5'.todo = v5.todo /\ v5'.prev = v5.prev /\ v5'.event = v5.event
  BY FeedFields DEF F!Update, F!BarOpens, F!Stall, F!StallEnds, F!HearFails, F!Start, F!WarmupFails,
                    F!ToStep, F!Procs
<1> QED BY <1>1, <1>2, <1>3, <1>4, FeedBoundFields DEF FeedBound

LEMMA FeedMovesBound ==
  ASSUME F!FeedInv, FeedBound, v1' = v1, v6' = v6, v3' \in Seq(Candles), v4' \in Candles \cup {NULL},
         v5'.todo \in Seq(Candles), v5'.prev \in Candles \cup {NULL},
         v5'.event \in Candles \cup {NULL}, v7' \subseteq Times, v8' \subseteq Times
  PROVE  FeedBound'
BY FeedBoundFields DEF FeedBound

LEMMA FeedFreshBound ==
  ASSUME F!FeedInv, FeedBound, F!WarmupDone \/ F!Crash PROVE FeedBound'
<1>1. \A s : F!Fresh(s).todo = <<>> /\ F!Fresh(s).prev = NULL /\ F!Fresh(s).event = NULL
  BY DEF F!Fresh
<1>2. v5'.todo = <<>> /\ v5'.prev = NULL /\ v5'.event = NULL
  BY <1>1 DEF F!WarmupDone, F!Crash
<1>3. UNCHANGED <<v1, v3, v6, v7, v8>> /\ v4' \in {v4, v5.event}
  BY DEF F!WarmupDone, F!Crash
<1>4. <<>> \in Seq(Candles) BY EmptySeq
<1> QED BY <1>2, <1>3, <1>4, FeedBoundFields, FeedMovesBound

LEMMA WarmupBound == ASSUME F!FeedInv, FeedBound, F!WarmupFetch PROVE FeedBound'
<1>1. PICK a \in Nat : a = F!Newer(F!Unseen, v1 - Window) /\ a > 0
  <2>1. F!Unseen \in Nat /\ F!Unseen > 0 BY FeedFields DEF F!Unseen
  <2> QED BY <2>1, FeedFields, FeedAssumption DEF F!Newer
<1>2. PICK b \in Int : b = v1 - 1 /\ b <= LastBar BY FeedBoundFields, CandlesAre DEF Times
<1>3. PICK new : new = F!Rest(a, b) OBVIOUS
<1>4. new \in Seq(Candles) BY <1>1, <1>2, <1>3, RestIsKnown
<1>5. /\ v5' = [v5 EXCEPT !.step = "write", !.todo = new, !.event = F!Now]
      /\ v7' = IF v3 # <<>> /\ new # <<>> THEN v7 \cup (F!LastClosed + 1)..(Head(new).t - 1) ELSE v7
      /\ UNCHANGED <<v1, v3, v4, v6, v8>>
  BY <1>1, <1>2, <1>3 DEF F!WarmupFetch
<1>6. v7' \subseteq Times
  <2>1. CASE v3 # <<>> /\ new # <<>>
    <3>1. Head(new) \in Candles BY <1>4, <2>1, HeadIsKnown
    <3>2. PICK h \in Times : h = Head(new).t BY <3>1, CandlesAre
    <3>3. PICK l \in Times : l = F!LastClosed BY <2>1, FeedBoundFields
    <3>4. (l + 1)..(h - 1) \subseteq Times BY CandlesAre DEF Times
    <3> QED BY <1>5, <2>1, <3>2, <3>3, <3>4, FeedBoundFields
  <2>2. CASE ~(v3 # <<>> /\ new # <<>>) BY <1>5, <2>2, FeedBoundFields
  <2> QED BY <2>1, <2>2
<1>7. v5'.todo = new /\ v5'.event = F!Now /\ v5'.prev = v5.prev BY <1>5, FeedFields DEF F!Procs
<1> QED BY <1>4, <1>5, <1>6, <1>7, FeedBoundFields, FeedMovesBound

\* A bar of the answer is written.
LEMMA WriteBound == ASSUME F!FeedInv, FeedBound, F!WarmupWrite \/ F!StitchInsert PROVE FeedBound'
<1>1. PICK s \in Seq(Candles) : s = v5.todo /\ s # <<>>
  BY FeedBoundFields DEF F!WarmupWrite, F!StitchInsert
<1>2. Head(s) \in Candles /\ Tail(s) \in Seq(Candles) BY <1>1, HeadIsKnown
<1>3. /\ v3' = Append(v3, Head(s)) /\ v5' = [v5 EXCEPT !.todo = Tail(s)]
      /\ UNCHANGED <<v1, v4, v6, v7, v8>>
  BY <1>1 DEF F!WarmupWrite, F!StitchInsert
<1>4. v5'.todo = Tail(s) /\ v5'.prev = v5.prev /\ v5'.event = v5.event
  BY <1>3, FeedFields DEF F!Procs
<1>5. v3' \in Seq(Candles) BY <1>2, <1>3, FeedBoundFields
<1> QED BY <1>2, <1>3, <1>4, <1>5, FeedBoundFields, FeedMovesBound

LEMMA HearBound ==
  ASSUME F!FeedInv, FeedBound, F!Hear \/ F!FirstEvent \/ F!FirstEventFails \/ F!CheckGap
  PROVE  FeedBound'
<1>1. UNCHANGED <<v1, v3, v6, v7, v8>> /\ v4' \in {v4, F!Now}
  BY DEF F!Hear, F!FirstEvent, F!FirstEventFails, F!CheckGap
<1>2. /\ v5'.todo = v5.todo /\ v5'.event \in {v5.event, F!Now}
      /\ v5'.prev \in {v5.prev, F!Now, v5.event}
  <2>1. CASE F!Hear BY <2>1, FeedFields DEF F!Hear, F!Procs
  <2>2. CASE F!FirstEvent BY <2>2, FeedFields DEF F!FirstEvent, F!Procs
  <2>3. CASE F!FirstEventFails BY <2>3, FeedFields DEF F!FirstEventFails, F!Procs
  <2>4. CASE F!CheckGap BY <2>4, FeedFields DEF F!CheckGap, F!Procs
  <2> QED BY <2>1, <2>2, <2>3, <2>4
<1> QED BY <1>1, <1>2, FeedBoundFields, FeedMovesBound

LEMMA CloseBound == ASSUME F!FeedInv, FeedBound, F!CloseBar \/ F!CloseFails PROVE FeedBound'
<1>1. v5.step = "close" BY DEF F!CloseBar, F!CloseFails
<1>2. PICK c \in Candles : c = v5.prev
  BY <1>1, FeedBoundFields, CandlesAre DEF F!HandFits
<1>3. UNCHANGED <<v1, v4, v6, v7>> /\ (v3' = v3 \/ v3' = Append(v3, c)) /\ v8' \subseteq v8 \cup {c.t}
  BY <1>2 DEF F!CloseBar, F!CloseFails
<1>4. v5'.todo = v5.todo /\ v5'.prev = v5.prev /\ v5'.event = v5.event
  BY FeedFields DEF F!CloseBar, F!CloseFails, F!ToStep, F!Procs
<1>5. v3' \in Seq(Candles) BY <1>3, FeedBoundFields
<1>6. v8' \subseteq Times BY <1>3, FeedBoundFields, CandlesAre
<1> QED BY <1>3, <1>4, <1>5, <1>6, FeedBoundFields, FeedMovesBound

\* The loop goes on from the event it has in hand.
LEMMA ResumedIs ==
  ASSUME F!FeedInv PROVE LET p == F!Resume(v5) IN
    p.todo = <<>> /\ p.prev = v5.event /\ p.event = v5.event
BY FeedFields DEF F!Resume, F!Procs

LEMMA StitchBound ==
  ASSUME F!FeedInv, FeedBound, F!Stitch \/ F!StitchFails \/ F!StitchInsertFails \/ F!StitchDone
  PROVE  FeedBound'
<1>1. v5.step \in {"stitch", "insert"}
  BY DEF F!Stitch, F!StitchFails, F!StitchInsertFails, F!StitchDone
<1>2. PICK e \in Times : e = v5.event.t
  BY <1>1, FeedBoundFields, CandlesAre DEF F!HandFits
<1>3. v5.step = "stitch" => v5.from \in Times
  BY FeedBoundFields DEF F!HandFits
<1>4. UNCHANGED <<v1, v4, v6, v8>>
  BY DEF F!Stitch, F!StitchFails, F!StitchInsertFails, F!StitchDone
<1>5. <<>> \in Seq(Candles) BY EmptySeq
<1>6. CASE F!Stitch
  <2>1. PICK f \in Times : f = v5.from BY <1>3, <1>6 DEF F!Stitch
  <2>2. PICK to \in Int : to = F!Older(e - 1, f + 1 + FetchLimit - 1) /\ to <= LastBar /\ to + 1 > 0
    BY CandlesAre, FeedAssumption DEF F!Older, Times
  <2>3. /\ v5' = [v5 EXCEPT !.step = "insert", !.todo = F!Rest(f + 1, to)]
        /\ v7' = v7 \cup (to + 1)..(e - 1) /\ v3' = v3
    BY <1>2, <1>6, <2>1, <2>2 DEF F!Stitch, F!Since
  <2>4. F!Rest(f + 1, to) \in Seq(Candles)
    <3>1. f + 1 \in Nat /\ f + 1 > 0 BY CandlesAre
    <3> QED BY <2>2, <3>1, RestIsKnown
  <2>5. (to + 1)..(e - 1) \subseteq Times BY <2>2, CandlesAre DEF Times
  <2>6. v5'.todo = F!Rest(f + 1, to) /\ v5'.prev = v5.prev /\ v5'.event = v5.event
    BY <2>3, FeedFields DEF F!Procs
  <2> QED BY <1>4, <2>3, <2>4, <2>5, <2>6, FeedBoundFields, FeedMovesBound
<1>7. CASE F!StitchFails
  <2>1. PICK f \in Times : f = v5.from BY <1>3, <1>7 DEF F!StitchFails
  <2>2. v7' = v7 \cup (f + 1)..(e - 1) /\ v5' = F!Resume(v5) /\ v3' = v3
    BY <1>2, <1>7, <2>1 DEF F!StitchFails
  <2>3. (f + 1)..(e - 1) \subseteq Times BY CandlesAre DEF Times
  <2> QED BY <1>4, <1>5, <2>2, <2>3, ResumedIs, FeedBoundFields, FeedMovesBound
<1>8. CASE F!StitchInsertFails
  <2>1. PICK s \in Seq(Candles) : s = v5.todo /\ s # <<>> BY <1>8, FeedBoundFields DEF F!StitchInsertFails
  <2>2. /\ v3' \in {v3, Append(v3, Head(s))} /\ v7' = v7 \cup {c.t : c \in F!ToSet(s)}
        /\ v5' = F!Resume(v5)
    BY <1>8, <2>1 DEF F!StitchInsertFails
  <2>3. v3' \in Seq(Candles) BY <2>1, <2>2, HeadIsKnown, FeedBoundFields
  <2>4. \A c \in F!ToSet(s) : c \in Candles BY <2>1, ElementOfSeq DEF F!ToSet
  <2>5. v7' \subseteq Times BY <2>2, <2>4, CandlesAre, FeedBoundFields
  <2> QED BY <1>4, <1>5, <2>2, <2>3, <2>5, ResumedIs, FeedBoundFields, FeedMovesBound
<1>9. CASE F!StitchDone
  <2>1. UNCHANGED <<v3, v7>> /\ v5' = F!Resume(v5) BY <1>9 DEF F!StitchDone
  <2> QED BY <1>4, <1>5, <2>1, ResumedIs, FeedBoundFields, FeedMovesBound
<1> QED BY <1>6, <1>7, <1>8, <1>9

LEMMA FeedBoundNext == F!FeedInv /\ FeedBound /\ [F!Next]_(F!vars) => FeedBound'
<1> SUFFICES ASSUME F!FeedInv, FeedBound, [F!Next]_(F!vars) PROVE FeedBound' OBVIOUS
<1>1. CASE F!Next
  BY <1>1, FeedExchangeBound, FeedFreshBound, WarmupBound, WriteBound, HearBound, CloseBound,
     StitchBound DEF F!Next, F!Ingest, F!Environment
<1>2. CASE UNCHANGED F!vars BY <1>2 DEF F!vars, FeedBound
<1> QED BY <1>1, <1>2

LEMMA FeedTyped == F!FeedInv /\ FeedBound => F!TypeOK
<1> SUFFICES ASSUME F!FeedInv, FeedBound PROVE F!TypeOK OBVIOUS
<1>1. F!ToSet(v3) \subseteq Candles BY FeedBoundFields, ElementOfSeq DEF F!ToSet
<1>2. F!CandleOrNull = Candles \cup {NULL} BY DEF F!CandleOrNull, Candles, Times
<1>3. v2 \in BOOLEAN /\ v9 \in BOOLEAN /\ v5.step \in F!Steps /\ v5.first \in BOOLEAN
  BY FeedFields DEF F!Procs
<1> QED BY <1>1, <1>2, <1>3, FeedBoundFields DEF F!TypeOK, Candles, Times

-------------------------------------------------------------------------------
\* No key cools longer than the cap from now on.
Capped == [version : K!Versions, until : 0..(MaxClock + 2), strikes : 0..2, dead : BOOLEAN]
PoolBound == v5 <= MaxClock /\ \A k \in Keys : v3[k] \in Capped

\* An entry that is alive or dead again, or whose strikes are forgotten, is as capped as it was.
LEMMA CappedStays ==
  ASSUME NEW old \in Capped
  PROVE  /\ \A b \in BOOLEAN : [old EXCEPT !.dead = b] \in Capped
         /\ [old EXCEPT !.strikes = 0] \in Capped
BY DEF Capped

LEMMA StruckIsCapped ==
  ASSUME K!PoolInv, v5 <= MaxClock, NEW old \in Capped PROVE K!Strike(old) \in Capped
<1>1. old.strikes \in 0..2 /\ v5 \in Nat /\ MaxClock \in Nat
  BY BoundsAssumption, PoolFields DEF Capped
<1>2. PICK n \in 0..2 : n = (IF old.strikes < 2 THEN old.strikes + 1 ELSE 2) BY <1>1
<1>3. PICK t \in 0..(MaxClock + 2) : t = v5 + n BY <1>1, <1>2
<1>4. K!Strike(old) = [old EXCEPT !.strikes = n, !.until = t]
  BY <1>2, <1>3 DEF K!Strike, K!MaxCooldown
<1> QED BY <1>4 DEF Capped

LEMMA FreshIsCapped == \A v \in K!Versions : K!Entry(v) \in Capped
BY BoundsAssumption DEF K!Entry, Capped

LEMMA PoolBoundInit == K!Init => PoolBound
<1> SUFFICES ASSUME K!Init PROVE PoolBound OBVIOUS
<1>1. \A k \in Keys : v3[k] = K!Entry(1) BY DEF K!Init, Keys
<1>2. 1 \in K!Versions /\ v5 <= MaxClock BY BoundsAssumption DEF K!Init, K!Versions
<1> QED BY <1>1, <1>2, FreshIsCapped DEF PoolBound

\* One entry changes to another capped one.
LEMMA OneEntry ==
  ASSUME K!PoolInv, PoolBound, NEW key \in Keys, NEW e \in Capped, v3' = [v3 EXCEPT ![key] = e],
         v5' = v5
  PROVE  PoolBound'
<1>1. v3'[key] = e /\ \A k \in Keys \ {key} : v3'[k] = v3[k] BY PoolFields
<1> QED BY <1>1 DEF PoolBound, Capped

LEMMA AnswersAreCapped ==
  ASSUME K!PoolInv, PoolBound, NEW u \in Askers,
         K!AnswerServed(u) \/ K!AnswerLimited(u) \/ K!AnswerRefused(u) \/ K!AnswerBroken(u)
  PROVE  PoolBound'
<1>1. v4[u].at = "asking" /\ v4[u].key # 0
  BY DEF K!AnswerServed, K!AnswerLimited, K!AnswerRefused, K!AnswerBroken, K!Answer
<1>2. PICK key \in Keys : key = v4[u].key BY <1>1, AnswerFields
<1>3. PICK old \in Capped : old = v3[key] BY DEF PoolBound
<1>4. /\ [old EXCEPT !.dead = TRUE] \in Capped /\ [old EXCEPT !.strikes = 0] \in Capped
      /\ K!Strike(old) \in Capped
  <2>1. TRUE \in BOOLEAN OBVIOUS
  <2>2. \A b \in BOOLEAN : [old EXCEPT !.dead = b] \in Capped BY CappedStays
  <2>3. [old EXCEPT !.dead = TRUE] \in Capped BY <2>1, <2>2
  <2>4. [old EXCEPT !.strikes = 0] \in Capped BY CappedStays
  <2>5. K!Strike(old) \in Capped BY StruckIsCapped DEF PoolBound
  <2> QED BY <2>3, <2>4, <2>5
<1>5. CASE K!AnswerServed(u)
  <2>1. v3' = [v3 EXCEPT ![key] = [old EXCEPT !.strikes = 0]] /\ v5' = v5
    BY <1>2, <1>3, <1>5 DEF K!AnswerServed
  <2> QED BY <1>4, <2>1, OneEntry
<1>6. CASE K!AnswerLimited(u)
  <2>1. v3' = [v3 EXCEPT ![key] = K!Strike(old)] /\ v5' = v5
    BY <1>2, <1>3, <1>6 DEF K!AnswerLimited, K!Report
  <2> QED BY <1>4, <2>1, OneEntry
<1>7. CASE K!AnswerRefused(u)
  <2>1. v3' = [v3 EXCEPT ![key] = [old EXCEPT !.dead = TRUE]] /\ v5' = v5
    BY <1>2, <1>3, <1>7 DEF K!AnswerRefused, K!Report
  <2> QED BY <1>4, <2>1, OneEntry
<1>8. CASE K!AnswerBroken(u)
  <2>1. v3' = v3 \/ v3' = [v3 EXCEPT ![key] = [old EXCEPT !.strikes = 0]]
    BY <1>2, <1>3, <1>8 DEF K!AnswerBroken
  <2>2. v5' = v5 BY <1>8 DEF K!AnswerBroken
  <2>3. CASE v3' = v3 BY <2>2, <2>3 DEF PoolBound, Capped
  <2>4. CASE v3' = [v3 EXCEPT ![key] = [old EXCEPT !.strikes = 0]] BY <1>4, <2>2, <2>4, OneEntry
  <2> QED BY <2>1, <2>3, <2>4
<1> QED BY <1>5, <1>6, <1>7, <1>8

LEMMA PoolBoundNext == K!PoolInv /\ PoolBound /\ [K!Next]_(K!vars) => PoolBound'
<1> SUFFICES ASSUME K!PoolInv, PoolBound, [K!Next]_(K!vars) PROVE PoolBound' OBVIOUS
<1>1. ASSUME UNCHANGED <<v3, v5>> PROVE PoolBound' BY <1>1 DEF PoolBound, Capped
<1>2. ASSUME NEW u \in Askers, K!Begin(u) \/ K!AnswerKeyless(u) PROVE PoolBound'
  <2>1. UNCHANGED <<v3, v5>> BY <1>2 DEF K!Begin, K!AnswerKeyless
  <2> QED BY <1>1, <2>1
<1>3. ASSUME NEW u \in Askers,
             K!AnswerServed(u) \/ K!AnswerLimited(u) \/ K!AnswerRefused(u) \/ K!AnswerBroken(u)
      PROVE  PoolBound'
  BY <1>3, AnswersAreCapped
<1>4. ASSUME NEW k \in Keys, K!Edit(k) PROVE PoolBound'
  <2>1. UNCHANGED <<v3, v5>> BY <1>4 DEF K!Edit
  <2> QED BY <1>1, <2>1
<1>5. CASE K!Reload
  <2>1. v3' = [k \in Keys |-> K!Loaded(k)] /\ v5' = v5 BY <1>5 DEF K!Reload, Keys
  <2>2. ASSUME NEW k \in Keys PROVE v3'[k] \in Capped
    <3>1. v3[k] \in Capped /\ v2[k] \in K!Versions BY PoolFields DEF PoolBound
    <3>2. K!Loaded(k) = [v3[k] EXCEPT !.dead = FALSE] \/ K!Loaded(k) = K!Entry(v2[k])
      BY DEF K!Loaded
    <3>3. FALSE \in BOOLEAN OBVIOUS
    <3>4. \A b \in BOOLEAN : [v3[k] EXCEPT !.dead = b] \in Capped BY <3>1, CappedStays
    <3>5. [v3[k] EXCEPT !.dead = FALSE] \in Capped BY <3>3, <3>4
    <3>6. K!Loaded(k) \in Capped BY <3>1, <3>2, <3>5, FreshIsCapped
    <3> QED BY <2>1, <3>6
  <2> QED BY <2>1, <2>2 DEF PoolBound, Capped
<1>6. CASE K!Tick
  <2>1. v3' = v3 /\ v5 < MaxClock /\ v5' = v5 + 1 BY <1>6 DEF K!Tick
  <2>2. v5' <= MaxClock BY <2>1, BoundsAssumption, PoolFields
  <2> QED BY <2>1, <2>2 DEF PoolBound, Capped
<1>7. CASE UNCHANGED K!vars
  <2>1. UNCHANGED <<v3, v5>> BY <1>7 DEF K!vars
  <2> QED BY <1>1, <2>1
<1> QED BY <1>2, <1>3, <1>4, <1>5, <1>6, <1>7 DEF K!Next, Keys

LEMMA PoolTyped == K!PoolInv /\ PoolBound => K!TypeOK
<1> SUFFICES ASSUME K!PoolInv, PoolBound PROVE K!TypeOK OBVIOUS
<1>1. \A k \in Keys : v3[k].until <= MaxClock + 2 /\ v3[k].strikes <= 2
  BY BoundsAssumption DEF PoolBound, Capped
<1>2. ASSUME NEW u \in Askers PROVE v4[u].tried \subseteq Keys /\ v4[u].left < 3
  <2>1. PICK c \in K!CallSet : c = v4[u] BY PoolFields
  <2>2. c.tried \subseteq Keys /\ c.left \in 0..2 BY CallSetIs DEF Lefts
  <2> QED BY <2>1, <2>2
<1> QED BY <1>1, <1>2 DEF K!TypeOK, K!MaxKeys, K!MaxCooldown, Keys

-------------------------------------------------------------------------------
\* An entry left behind is still pending.
NoticeBound == v11 \subseteq v4

LEMMA NoticeBoundInit == N!Init => NoticeBound
BY DEF N!Init, NoticeBound

LEMMA NoticeBoundNext == N!NoticeInv /\ NoticeBound /\ [N!Next]_(N!vars) => NoticeBound'
<1> SUFFICES ASSUME N!NoticeInv, NoticeBound, [N!Next]_(N!vars) PROVE NoticeBound' OBVIOUS
<1>0. N!NoticeTypes BY DEF N!NoticeInv
<1>1. ASSUME UNCHANGED <<v4, v11>> PROVE NoticeBound' BY <1>1 DEF NoticeBound
<1>2. ASSUME v7.batch # {}, v4' = v4, v11' = v11 \cup {N!Current} PROVE NoticeBound'
  <2>1. N!Current \in v4 BY <1>0, <1>2, CurrentIs
  <2> QED BY <1>2, <2>1 DEF NoticeBound
<1>3. CASE N!Start \/ N!ReadPending \/ N!Judge \/ N!Pushed \/ N!Record \/ N!Publish
           \/ N!DayPasses \/ N!DrainDies
  <2>1. UNCHANGED <<v4, v11>>
    BY <1>3 DEF N!Start, N!ReadPending, N!Judge, N!Pushed, N!Record, N!Publish, N!DayPasses, N!DrainDies
  <2> QED BY <1>1, <2>1
<1>4. ASSUME NEW d \in Devices, N!Push(d) \/ N!Subscribe(d) \/ N!Unsubscribe(d) PROVE NoticeBound'
  <2>1. UNCHANGED <<v4, v11>> BY <1>4 DEF N!Push, N!Subscribe, N!Unsubscribe
  <2> QED BY <1>1, <2>1
<1>5. CASE N!ReadGroup \/ N!ReadLost
  <2>1. v4' = v4 \cup N!NextBatch /\ (v11' = v11 \/ v11' = v11 \cup N!NextBatch)
    BY <1>5 DEF N!ReadGroup, N!ReadLost, N!Deliver
  <2> QED BY <2>1 DEF NoticeBound
<1>6. CASE N!Malformed \/ N!CallFails \/ N!RecordLost
  <2>1. v7.batch # {} /\ v4' = v4 /\ v11' = v11 \cup {N!Current}
    BY <1>6 DEF N!Malformed, N!CallFails, N!RecordLost, N!Raise, N!At
  <2> QED BY <1>2, <2>1
<1>7. CASE N!Ack BY <1>7 DEF N!Ack, NoticeBound
<1>8. CASE N!Crash BY <1>8 DEF N!Crash, NoticeBound
<1>9. CASE UNCHANGED N!vars
  <2>1. UNCHANGED <<v4, v11>> BY <1>9 DEF N!vars
  <2> QED BY <1>1, <2>1
<1> QED BY <1>3, <1>4, <1>5, <1>6, <1>7, <1>8, <1>9 DEF N!Next, N!Serve, N!Environment

LEMMA NoticeTyped == N!NoticeInv /\ NoticeBound => N!TypeOK
<1> SUFFICES ASSUME N!NoticeInv, NoticeBound PROVE N!TypeOK OBVIOUS
<1>1. N!NoticeTypes BY DEF N!NoticeInv
<1> QED BY <1>1 DEF N!TypeOK, N!NoticeTypes, NoticeBound

-------------------------------------------------------------------------------
\* Whose edge a fault has parted, or whose plan is out of date, is a target.
EdgeBound == v9 \cup v10 \subseteq M!Targets

LEMMA EdgeBoundInit == M!Init => EdgeBound
BY DEF M!Init, EdgeBound

LEMMA EdgeBoundNext == M!EdgeInv /\ EdgeBound /\ [M!Next]_(M!vars) => EdgeBound'
<1> SUFFICES ASSUME M!EdgeInv, EdgeBound, [M!Next]_(M!vars) PROVE EdgeBound' OBVIOUS
<1>0. M!EdgeTypes BY DEF M!EdgeInv
<1>1. v7.step \in {"probe", "plan", "emit", "store"} => v7.at \in M!Targets BY <1>0, EdgeFields
<1>2. v1' = v1 BY DEF M!Next, M!vars, M!Begin, M!ProbeExchange, M!ProbeService, M!ProbeAccount,
  M!ProbeCoin, M!ProbeStrategy, M!Observe, M!AccountsNotDue, M!Unread, M!CoinSkipped,
  M!StrategySkipped, M!ReadFails, M!Plan, M!Emit, M!EmitFails, M!EmitSwallowed, M!EmitBlurred,
  M!Store, M!Crash, M!Move
<1>3. ASSUME UNCHANGED <<v9, v10>> PROVE EdgeBound' BY <1>2, <1>3 DEF EdgeBound, M!Targets
<1>4. ASSUME v7.at \in M!Targets, v9' \subseteq v9 \cup {v7.at}, v10' \subseteq v10 \cup {v7.at}
      PROVE  EdgeBound'
  BY <1>2, <1>4 DEF EdgeBound, M!Targets
<1>5. CASE M!Begin \/ M!ProbeExchange \/ M!ProbeService \/ M!ProbeAccount \/ M!ProbeCoin
           \/ M!ProbeStrategy \/ M!AccountsNotDue \/ M!CoinSkipped \/ M!StrategySkipped
           \/ M!ReadFails \/ M!Emit
  <2>1. UNCHANGED <<v9, v10>>
    BY <1>5 DEF M!Begin, M!ProbeExchange, M!ProbeService, M!ProbeAccount, M!ProbeCoin,
       M!ProbeStrategy, M!Observe, M!AccountsNotDue, M!Unread, M!CoinSkipped, M!StrategySkipped,
       M!ReadFails, M!Emit
  <2> QED BY <1>3, <2>1
<1>6. CASE M!Plan
  <2>1. v7.step = "plan" /\ v9' = v9 /\ v10' \subseteq v10 \cup {v7.at}
    BY <1>6 DEF M!Plan, M!BuildPlan, M!ExpirePlans, M!Current
  <2> QED BY <1>1, <1>4, <2>1
<1>7. CASE M!EmitFails \/ M!EmitBlurred \/ M!Store
  <2>1. v7.step \in {"emit", "store"} /\ v10' = v10 /\ v9' \subseteq v9 \cup {v7.at}
    BY <1>7 DEF M!EmitFails, M!EmitSwallowed, M!EmitBlurred, M!Store, M!Current
  <2> QED BY <1>1, <1>4, <2>1
<1>8. CASE M!Crash
  <2>1. v9' \subseteq v9 \cup M!Targets \cup (IF v7.step = "store" THEN {v7.at} ELSE {})
    BY <1>8 DEF M!Crash, M!Current
  <2>2. v10' \subseteq v10 \cup (IF v7.step = "emit" THEN {v7.at} ELSE {})
    BY <1>8 DEF M!Crash, M!Current
  <2> QED BY <1>1, <1>2, <2>1, <2>2 DEF EdgeBound, M!Targets
<1>9. ASSUME NEW t \in M!Targets, M!Move(t) PROVE EdgeBound'
  <2>1. UNCHANGED <<v9, v10>> BY <1>9 DEF M!Move
  <2> QED BY <1>3, <2>1
<1>10. CASE UNCHANGED M!vars
  <2>1. UNCHANGED <<v9, v10>> BY <1>10 DEF M!vars
  <2> QED BY <1>3, <2>1
<1> QED BY <1>5, <1>6, <1>7, <1>8, <1>9, <1>10 DEF M!Next

LEMMA EdgeTyped == M!EdgeInv /\ EdgeBound => M!TypeOK
<1> SUFFICES ASSUME M!EdgeInv, EdgeBound PROVE M!TypeOK OBVIOUS
<1>0. M!EdgeTypes BY DEF M!EdgeInv
<1>1. \A i \in DOMAIN v5 : v5[i] \in Edges BY <1>0, EdgeFields, ElementOfSeq
<1>2. M!ToSet(v5) \subseteq Edges BY <1>1 DEF M!ToSet
<1> QED BY <1>0, <1>2, EdgeFields DEF M!TypeOK, EdgeBound, Edges, PassSteps, PlanStates

-------------------------------------------------------------------------------
\* The scheduler's own state, and that a row is open as long as nobody has closed it.
LoopStates == {"off", "plan", "asleep", "cycle", "backoff"}
SchedulerBound ==
  /\ v3 \in A!Tasks \cup {NULL} /\ v5 \in LoopStates
  /\ v6 \in BOOLEAN /\ v7 \in BOOLEAN
Own(row) == row.open <=> row.by = NULL
RowsOwned == \A i \in 1..Len(v11) : Own(v11[i])
CycleBound == SchedulerBound /\ RowsOwned

LEMMA CycleBoundInit == A!Init => CycleBound
<1> SUFFICES ASSUME NEW p \in Outlooks, A!InitFor(p) PROVE CycleBound BY DEF A!Init
<1>1. SchedulerBound BY DEF A!InitFor, SchedulerBound, LoopStates
<1>2. RowsOwned
  <2>1. v11 = p.rows BY DEF A!InitFor
  <2>2. \A i \in DOMAIN p.rows : p.rows[i].open <=> p.rows[i].by = NULL
    BY OutlooksAssumption
  <2>3. DOMAIN p.rows = 1..Len(p.rows)
    <3> DEFINE Given == [side : {"long", "short"}, open : BOOLEAN, live : BOOLEAN,
                         by : {NULL, "listener", "recovery"}, synthetic : 0..1]
    <3>1. p.rows \in Seq(Given) BY OutlooksAssumption
    <3> HIDE DEF Given
    <3> QED BY <3>1, LenProperties
  <2> QED BY <2>1, <2>2, <2>3 DEF RowsOwned, Own
<1> QED BY <1>1, <1>2 DEF CycleBound

LEMMA SchedulerReleased ==
  ASSUME SchedulerBound, NEW t \in A!Tasks, A!Release(t), UNCHANGED <<v6, v7>>
  PROVE  SchedulerBound'
BY DEF A!Release, SchedulerBound, LoopStates

LEMMA SchedulerAcquired ==
  ASSUME SchedulerBound, NEW t \in A!Tasks, NEW why, A!Acquire(t, why), v5' \in LoopStates,
         UNCHANGED <<v6, v7>>
  PROVE  SchedulerBound'
BY DEF A!Acquire, SchedulerBound

LEMMA SchedulerNext ==
  SchedulerBound /\ [A!Next]_(A!vars) => SchedulerBound'
<1> SUFFICES ASSUME SchedulerBound, [A!Next]_(A!vars) PROVE SchedulerBound' OBVIOUS
<1>1. ASSUME UNCHANGED <<v3, v5, v6, v7>> PROVE SchedulerBound' BY <1>1 DEF SchedulerBound
<1>2. ASSUME NEW t \in A!Tasks,
             \/ A!Read(t) \/ A!ReadFails(t) \/ A!ThinkFails(t) \/ A!Log(t) \/ A!Fire(t)
      PROVE  SchedulerBound'
  <2>1. UNCHANGED <<v6, v7>> /\ (A!Release(t) \/ UNCHANGED <<v3, v5>>)
    BY <1>2 DEF A!Read, A!ReadFails, A!ThinkFails, A!Fails, A!Log, A!Fire, A!stored
  <2> QED BY <1>1, <2>1, SchedulerReleased
<1>3. ASSUME NEW t \in A!Tasks,
             \/ A!Check(t) \/ A!History(t) \/ A!Write(t) \/ A!Gather(t) \/ A!Think(t)
      PROVE  SchedulerBound'
  <2>1. UNCHANGED <<v3, v5, v6, v7>>
    BY <1>3 DEF A!Check, A!History, A!Write, A!Gather, A!Think, A!stored
  <2> QED BY <1>1, <2>1
<1>4. CASE A!LoopPlans \/ A!LoopRetries
  BY <1>4 DEF A!LoopPlans, A!LoopRetries, A!stored, SchedulerBound, LoopStates
<1>5. CASE A!LoopWakes
  <2>1. A!Acquire("loop", NULL) /\ v5' \in LoopStates /\ UNCHANGED <<v6, v7>>
    BY <1>5 DEF A!LoopWakes, A!stored, LoopStates
  <2>2. "loop" \in A!Tasks BY DEF A!Tasks
  <2> QED BY <2>1, <2>2, SchedulerAcquired
<1>6. CASE A!Watch \/ A!Kick \/ A!Manual
  <2>1. PICK t \in A!Tasks : \E why : A!Triggers(t, why)
    BY <1>6 DEF A!Watch, A!Kick, A!Manual, A!Tasks
  <2>2. PICK why : A!Triggers(t, why) BY <2>1
  <2>3. A!Acquire(t, why) /\ UNCHANGED <<v5, v6, v7>> BY <2>2 DEF A!Triggers, A!stored
  <2> QED BY <2>3, SchedulerAcquired DEF SchedulerBound
<1>7. CASE A!Toggle
  BY <1>7 DEF A!Toggle, A!service, SchedulerBound
<1>8. ASSUME NEW r \in A!Reloads, A!ReloadReads(r) \/ A!ReloadStarts(r) \/ A!ReloadStops(r)
      PROVE  SchedulerBound'
  BY <1>8 DEF A!ReloadReads, A!ReloadStarts, A!ReloadStops, A!stored, SchedulerBound, LoopStates
<1>9. CASE A!ReloadStopped \/ A!Restart
  BY <1>9 DEF A!ReloadStopped, A!Restart, A!stored, SchedulerBound, LoopStates
<1>10. CASE A!Tick \/ (\E i \in 1..Len(v11) : A!ListenerCloses(i))
            \/ (\E s \in {"long", "short"} : A!ExchangeCloses(s) \/ A!LimitFills(s))
  <2>1. UNCHANGED <<v3, v5, v6, v7>>
    BY <1>10 DEF A!Tick, A!ListenerCloses, A!ExchangeCloses, A!LimitFills, A!service, A!stored
  <2> QED BY <1>1, <2>1
<1>11. CASE UNCHANGED A!vars
  <2>1. UNCHANGED <<v3, v5, v6, v7>> BY <1>11 DEF A!vars, A!service, A!stored
  <2> QED BY <1>1, <2>1
<1> QED BY <1>2, <1>3, <1>4, <1>5, <1>6, <1>7, <1>8, <1>9, <1>10, <1>11 DEF A!Next

-------------------------------------------------------------------------------
LEMMA OwnedChange ==
  ASSUME A!CycleTypes, RowsOwned, NEW i, NEW row, v11' = [v11 EXCEPT ![i] = row],
         i \in 1..Len(v11) => Own(row)
  PROVE  RowsOwned'
<1>1. v11 \in Seq(Positions) /\ Len(v11) \in Nat /\ DOMAIN v11 = 1..Len(v11) BY CycleFields
<1>2. CASE i \notin 1..Len(v11)
  <2>1. v11' = v11 BY <1>1, <1>2
  <2> QED BY <2>1 DEF RowsOwned, Own
<1>3. CASE i \in 1..Len(v11)
  <2>1. /\ Len(v11') = Len(v11) /\ v11'[i] = row
        /\ \A j \in 1..Len(v11) : j # i => v11'[j] = v11[j]
    BY <1>1, <1>3
  <2> QED BY <1>3, <2>1 DEF RowsOwned, Own
<1> QED BY <1>2, <1>3

LEMMA OwnedOpens ==
  ASSUME A!CycleTypes, RowsOwned, NEW s, v11' = Append(v11, A!Opened(s)) PROVE RowsOwned'
<1>1. v11 \in Seq(Positions) /\ Len(v11) \in Nat BY CycleFields
<1>2. Own(A!Opened(s)) BY DEF A!Opened, Own
<1>3. /\ Len(v11') = Len(v11) + 1 /\ v11'[Len(v11) + 1] = A!Opened(s)
      /\ \A j \in 1..Len(v11) : v11'[j] = v11[j]
  BY <1>1
<1> QED BY <1>1, <1>2, <1>3 DEF RowsOwned, Own

LEMMA RowsOwnedNext ==
  A!CycleInv /\ RowsOwned /\ [A!Next]_(A!vars) => RowsOwned'
<1> SUFFICES ASSUME A!CycleInv, RowsOwned, [A!Next]_(A!vars) PROVE RowsOwned' OBVIOUS
<1>0. A!CycleTypes /\ v11 \in Seq(Positions) /\ Len(v11) \in Nat BY CycleFields DEF A!CycleInv
<1>1. ASSUME v11' = v11 PROVE RowsOwned' BY <1>1 DEF RowsOwned, Own
<1>2. ASSUME NEW t \in A!Tasks,
             \/ A!Read(t) \/ A!ReadFails(t) \/ A!Check(t) \/ A!History(t) \/ A!Gather(t)
             \/ A!Think(t) \/ A!ThinkFails(t) \/ A!Log(t)
      PROVE  RowsOwned'
  <2>1. v11' = v11
    BY <1>2 DEF A!Read, A!ReadFails, A!Check, A!History, A!Gather, A!Think, A!ThinkFails, A!Log,
       A!stored
  <2> QED BY <1>1, <2>1
<1>3. ASSUME NEW t \in A!Tasks, A!Write(t) PROVE RowsOwned'
  <2>1. PICK i : i = v4[t].row OBVIOUS
  <2>2. PICK row : row = [v11[i] EXCEPT !.synthetic = v11[i].synthetic + 1, !.open = FALSE,
                                        !.by = IF v11[i].open THEN "recovery" ELSE v11[i].by]
    OBVIOUS
  <2>3. v11' = v11 \/ v11' = [v11 EXCEPT ![i] = row]
    BY <1>3, <2>1, <2>2 DEF A!Write, A!Recover
  <2>4. ASSUME i \in 1..Len(v11) PROVE Own(row)
    <3>1. v11[i] \in Positions /\ Own(v11[i]) BY <1>0, <2>4, ElementOfSeq DEF RowsOwned
    <3>2. row.open = FALSE /\ row.by = (IF v11[i].open THEN "recovery" ELSE v11[i].by)
      BY <2>2, <3>1 DEF Positions
    <3>3. row.by # NULL BY <3>1, <3>2, OutlooksAssumption DEF Own
    <3> QED BY <3>2, <3>3 DEF Own
  <2> QED BY <1>0, <1>1, <2>3, <2>4, OwnedChange
<1>4. ASSUME NEW t \in A!Tasks, A!Fire(t) PROVE RowsOwned'
  <2>1. PICK i : i = v4[t].row OBVIOUS
  <2>2. PICK row : row = [v11[i] EXCEPT !.open = FALSE, !.live = FALSE, !.by = "listener"] OBVIOUS
  <2>3. \/ v11' = v11 \/ v11' = [v11 EXCEPT ![i] = row]
        \/ \E s : v11' = Append(v11, A!Opened(s))
    BY <1>4, <2>1, <2>2 DEF A!Fire
  <2>4. ASSUME i \in 1..Len(v11) PROVE Own(row)
    <3>1. v11[i] \in Positions BY <1>0, <2>4, ElementOfSeq
    <3>2. row.open = FALSE /\ row.by = "listener" BY <2>2, <3>1 DEF Positions
    <3> QED BY <3>2, OutlooksAssumption DEF Own
  <2> QED BY <1>0, <1>1, <2>3, <2>4, OwnedChange, OwnedOpens
<1>5. ASSUME NEW i \in 1..Len(v11), A!ListenerCloses(i) PROVE RowsOwned'
  <2>1. PICK row : row = [v11[i] EXCEPT !.open = FALSE, !.by = "listener"] OBVIOUS
  <2>2. v11' = [v11 EXCEPT ![i] = row] BY <1>5, <2>1 DEF A!ListenerCloses
  <2>3. v11[i] \in Positions BY <1>0, ElementOfSeq
  <2>4. row.open = FALSE /\ row.by = "listener" BY <2>1, <2>3 DEF Positions
  <2>5. Own(row) BY <2>4, OutlooksAssumption DEF Own
  <2> QED BY <1>0, <2>2, <2>5, OwnedChange
<1>6. ASSUME NEW s \in {"long", "short"}, A!ExchangeCloses(s) PROVE RowsOwned'
  <2>1. v11' = [i \in 1..Len(v11) |-> [v11[i] EXCEPT !.live = v11[i].live /\ v11[i].side # s]]
    BY <1>6 DEF A!ExchangeCloses
  <2>2. Len(v11') = Len(v11) BY <1>0, <2>1
  <2>3. ASSUME NEW i \in 1..Len(v11) PROVE Own(v11'[i])
    <3>1. v11[i] \in Positions /\ Own(v11[i]) BY <1>0, ElementOfSeq DEF RowsOwned
    <3>2. PICK b : b = (v11[i].live /\ v11[i].side # s) OBVIOUS
    <3>3. PICK row : row = [v11[i] EXCEPT !.live = b] OBVIOUS
    <3>4. v11'[i] = row BY <2>1, <3>2, <3>3, Zenon
    <3>5. row.open = v11[i].open /\ row.by = v11[i].by BY <3>1, <3>3 DEF Positions
    <3> QED BY <3>1, <3>4, <3>5 DEF Own
  <2> QED BY <2>2, <2>3 DEF RowsOwned, Own
<1>7. ASSUME NEW s \in {"long", "short"}, A!LimitFills(s) PROVE RowsOwned'
  <2>1. v11' = Append(v11, A!Opened(s)) BY <1>7 DEF A!LimitFills
  <2> QED BY <1>0, <2>1, OwnedOpens
<1>8. CASE A!LoopPlans \/ A!LoopRetries \/ A!LoopWakes \/ A!Watch \/ A!Kick \/ A!Manual
           \/ A!Toggle \/ A!ReloadStopped \/ A!Restart \/ A!Tick
  <2>1. v11' = v11
    BY <1>8 DEF A!LoopPlans, A!LoopRetries, A!LoopWakes, A!Watch, A!Kick, A!Manual, A!Triggers,
       A!Toggle, A!ReloadStopped, A!Restart, A!Tick, A!stored, A!service
  <2> QED BY <1>1, <2>1
<1>9. ASSUME NEW r \in A!Reloads, A!ReloadReads(r) \/ A!ReloadStarts(r) \/ A!ReloadStops(r)
      PROVE  RowsOwned'
  <2>1. v11' = v11 BY <1>9 DEF A!ReloadReads, A!ReloadStarts, A!ReloadStops, A!stored
  <2> QED BY <1>1, <2>1
<1>10. CASE UNCHANGED A!vars
  <2>1. v11' = v11 BY <1>10 DEF A!vars, A!stored
  <2> QED BY <1>1, <2>1
<1> QED BY <1>2, <1>3, <1>4, <1>5, <1>6, <1>7, <1>8, <1>9, <1>10 DEF A!Next

LEMMA CycleBoundNext == A!CycleInv /\ CycleBound /\ [A!Next]_(A!vars) => CycleBound'
BY SchedulerNext, RowsOwnedNext DEF CycleBound

LEMMA CycleTyped == A!CycleInv /\ CycleBound => A!TypeOK
<1> SUFFICES ASSUME A!CycleInv, CycleBound PROVE A!TypeOK OBVIOUS
<1>1. v11 \in Seq(Positions) /\ A!OneInHand BY CycleFields DEF A!CycleInv
<1>2. ASSUME NEW i \in 1..Len(v11) PROVE v11[i].open = (v11[i].by = NULL)
  <2>1. v11[i] \in Positions /\ Own(v11[i]) BY <1>1, ElementOfSeq DEF CycleBound, RowsOwned
  <2>2. v11[i].open \in BOOLEAN BY <2>1 DEF Positions
  <2> QED BY <2>1, <2>2 DEF Own
<1> QED BY <1>1, <1>2 DEF A!TypeOK, A!OneInHand, CycleBound, SchedulerBound, LoopStates

-------------------------------------------------------------------------------
(* The types of all of them.                                               *)

TypesInv ==
  /\ turn = "ai"       => A!CycleInv /\ CycleBound
  /\ turn = "keys"     => K!PoolInv /\ PoolBound
  /\ turn = "notices"  => N!NoticeInv /\ NoticeBound
  /\ turn = "monitors" => M!EdgeInv /\ EdgeBound
  /\ turn = "candles"  => F!FeedInv /\ FeedBound
  /\ turn = "adapters" => R!CacheInv /\ CacheBound

LEMMA TypesInit == InitServices => TypesInv
<1> SUFFICES ASSUME InitServices PROVE TypesInv OBVIOUS
<1>1. turn = "ai" => A!Init BY DEF InitServices
<1>2. turn = "keys" => K!Init BY DEF InitServices
<1>3. turn = "notices" => N!Init BY DEF InitServices
<1>4. turn = "monitors" => M!Init BY DEF InitServices
<1>5. turn = "candles" => F!Init BY DEF InitServices
<1>6. turn = "adapters" => R!Init BY DEF InitServices
<1> QED
  BY <1>1, <1>2, <1>3, <1>4, <1>5, <1>6, CycleInit, CycleBoundInit, PoolInit, PoolBoundInit,
     NoticeInit, NoticeBoundInit, EdgesInit, EdgeBoundInit, FeedInit, FeedBoundInit, CacheInit,
     CacheBoundInit
  DEF TypesInv

LEMMA TypesNext == TypesInv /\ [NextServices]_all => TypesInv'
<1> SUFFICES ASSUME TypesInv, [NextServices]_all PROVE TypesInv' OBVIOUS
<1>0. turn' = turn BY DEF NextServices, all, C!Next
<1>1. turn = "ai" => (A!CycleInv /\ CycleBound)'
  BY CycleNext, CycleBoundNext, CyclesMove DEF TypesInv
<1>2. turn = "keys" => (K!PoolInv /\ PoolBound)'
  BY PoolNext, PoolBoundNext, PoolMoves DEF TypesInv
<1>3. turn = "notices" => (N!NoticeInv /\ NoticeBound)'
  BY NoticesNext, NoticeBoundNext, NoticesMove DEF TypesInv
<1>4. turn = "monitors" => (M!EdgeInv /\ EdgeBound)'
  BY EdgesNext, EdgeBoundNext, MonitorsMove DEF TypesInv
<1>5. turn = "candles" => (F!FeedInv /\ FeedBound)'
  BY FeedNext, FeedBoundNext, FeedMoves DEF TypesInv
<1>6. turn = "adapters" => (R!CacheInv /\ CacheBound)'
  BY CacheNext, CacheBoundNext, CacheMoves DEF TypesInv
<1> QED BY <1>0, <1>1, <1>2, <1>3, <1>4, <1>5, <1>6 DEF TypesInv

\* The other six services keep to their types and bounds, for any outlooks, keys, feeds, monitors
\* and bounds: no counter passes its bound, nothing is newer than what it was made from, and each
\* state machine stays in the states it has (Typed of MCServices; TradesTyped of
\* ChannelEngineProofs is the same of the channel and the engine).
THEOREM ServicesTyped == SpecServices => [](turn \notin {"channel", "engine"} => Typed)
<1>1. TypesInv => (turn \notin {"channel", "engine"} => Typed)
  BY CycleTyped, PoolTyped, NoticeTyped, EdgeTyped, FeedTyped, CacheTyped DEF TypesInv, Typed
<1> QED BY <1>1, TypesInit, TypesNext, PTL DEF SpecServices

================================================================================
