--------------------------- MODULE ReconcilerProofs ---------------------------
(***************************************************************************)
(* Proofs about Reconciler, for every value of its constants: the types,   *)
(* with any number of passes; and, when passes do not overlap, that the    *)
(* miss counter is always earned and that a row is cut only after a whole  *)
(* streak.                                                                 *)
(***************************************************************************)
EXTENDS Reconciler, TLAPS

-------------------------------------------------------------------------------
(* What the updates of rows, passes and traders return.                    *)

\* An UPDATE of a counter touches the counter of that row only.
LEMMA SetMiss ==
  ASSUME NEW f \in [Rows -> Position], NEW r \in Rows, NEW m \in Nat
  PROVE  LET g == [f EXCEPT ![r].miss = m] IN
         /\ g \in [Rows -> Position]
         /\ \A q \in Rows : g[q].miss = (IF q = r THEN m ELSE f[q].miss)
         /\ \A q \in Rows : g[q].status = f[q].status
BY DEF Position

\* A top-up keeps counters and status.
LEMMA SetSize ==
  ASSUME NEW f \in [Rows -> Position], NEW r \in Rows, NEW n \in Int
  PROVE  LET g == [f EXCEPT ![r].size = n] IN
         /\ g \in [Rows -> Position]
         /\ \A q \in Rows : g[q].miss = f[q].miss /\ g[q].status = f[q].status
BY DEF Position

\* So does an UPDATE of counter and flag, for the other rows.
LEMMA SetMissAndFlag ==
  ASSUME NEW f \in [Rows -> Position], NEW r \in Rows, NEW m \in Nat, NEW d \in BOOLEAN
  PROVE  LET g == [f EXCEPT ![r].miss = m, ![r].divergent = d] IN
         /\ g \in [Rows -> Position]
         /\ \A q \in Rows : g[q].miss = (IF q = r THEN m ELSE f[q].miss)
         /\ \A q \in Rows : g[q].status = f[q].status
BY DEF Position

\* A closing UPDATE keeps the counter and never makes a row vanish.
LEMMA CutKeeps ==
  ASSUME NEW p \in Position, NEW full, NEW n \in Int
  PROVE  /\ Cut(p, full, n) \in Position /\ Cut(p, full, n).miss = p.miss
         /\ p.status # "none" => Cut(p, full, n).status # "none"
BY DEF Cut, Position

\* The idle records are records of passes and traders.
LEMMA RestingIsLooking ==
  Resting \in Looking /\ Resting.at = "idle" /\ Free \in Trading /\ Free.at = "idle"
BY DEF Resting, Looking, Free, Trading

\* What LoadRows makes of a pass.
LEMMA LoadedIsLooking ==
  ASSUME NEW r \in Rows, NEW p \in Position
  PROVE  /\ Loaded(r, p) \in Looking /\ Loaded(r, p).at = "loaded"
         /\ Loaded(r, p).row = r /\ Loaded(r, p).miss = p.miss
BY RestingIsLooking DEF Loaded, Looking, Position

\* What an answer makes of a pass.
LEMMA FetchedIsLooking ==
  ASSUME NEW p \in Looking, NEW n \in Int
  PROVE  /\ Fetched(p, n) \in Looking /\ Fetched(p, n).at = "fetched"
         /\ Fetched(p, n).seen = n
         /\ Fetched(p, n).row = p.row /\ Fetched(p, n).miss = p.miss
BY DEF Fetched, Looking

\* What a due row makes of a pass.
LEMMA ActingIsLooking ==
  ASSUME NEW p \in Looking, p.seen \in Int
  PROVE  /\ Acting(p) \in Looking /\ Acting(p).at = "select" /\ Acting(p).row = p.row
<1>1. (p.seen = 0) \in BOOLEAN OBVIOUS
<1> DEFINE full == p.seen = 0
<1>2. full \in BOOLEAN BY <1>1
<1>3. Acting(p) = [Resting EXCEPT !.at = "select", !.row = p.row, !.full = full,
                                  !.cut = p.size - p.seen]
  BY DEF Acting
<1>4. p.row \in Rows \cup {NULL} /\ p.size - p.seen \in Int BY DEF Looking
<1> HIDE DEF full
<1> QED BY <1>2, <1>3, <1>4, RestingIsLooking DEF Looking

\* What the SELECT of the row to cut makes of a pass.
LEMMA PickedIsLooking ==
  ASSUME NEW p \in Looking, NEW q \in Rows, NEW n \in Int
  PROVE  /\ Picked(p, q, n) \in Looking /\ Picked(p, q, n).at \in {"close", "reduce"}
         /\ Picked(p, q, n).seen = q /\ Picked(p, q, n).row = p.row
<1> DEFINE full == p.full \/ p.cut >= n
<1>1. full \in BOOLEAN OBVIOUS
<1>2. Least(p.cut, n) \in Int BY DEF Looking, Least
<1>3. Picked(p, q, n) = [p EXCEPT !.at = IF p.full THEN "close" ELSE "reduce", !.seen = q,
                                  !.full = full, !.cut = Least(p.cut, n)]
  BY DEF Picked
<1>4. q \in Int BY DEF Rows
<1> HIDE DEF full
<1> QED BY <1>1, <1>2, <1>3, <1>4 DEF Looking

\* The numbers a trader holds add up to numbers.
LEMMA TradingFields ==
  ASSUME NEW v \in Trading
  PROVE  v.size \in Int /\ v.base \in Int /\ v.base + v.size \in Int
<1>1. v.size \in Int /\ v.base \in Int BY DEF Trading
<1> QED BY <1>1

-------------------------------------------------------------------------------
(* The types, with any number of passes.                                   *)

\* What a pass holds at each of its stages.
PassLinked(i) ==
  /\ pass[i].at # "idle" => pass[i].row \in Rows
  /\ pass[i].at = "fetched" => pass[i].seen \in 0..MaxSize /\ real[i] = pass[i].seen
  /\ pass[i].at \in {"close", "reduce"} => pass[i].seen \in Rows

\* What a trader holds at each of its stages.
TradeLinked(t) ==
  trade[t].at \in {"top up", "closing", "commit"} => trade[t].row \in Rows

TypeInv ==
  /\ TypeOK
  /\ \A i \in Passes  : PassLinked(i)
  /\ \A t \in Traders : TradeLinked(t)

\* A trader's step moves that trader only.
LEMMA TraderMoves ==
  ASSUME TypeInv, NEW t \in Traders, NEW v \in Trading,
         v.at \in {"top up", "closing", "commit"} => v.row \in Rows,
         trade' = [trade EXCEPT ![t] = v]
  PROVE  trade' \in [Traders -> Trading] /\ \A u \in Traders : TradeLinked(u)'
BY DEF TypeInv, TypeOK, TradeLinked

\* A pass's step moves that pass only.
LEMMA PassMoves ==
  ASSUME TypeInv, NEW i \in Passes, NEW v \in Looking, NEW w \in 0..MaxSize \cup {NULL},
         v.at # "idle" => v.row \in Rows,
         v.at = "fetched" => v.seen \in 0..MaxSize /\ w = v.seen,
         v.at \in {"close", "reduce"} => v.seen \in Rows,
         pass' = [pass EXCEPT ![i] = v],
         real' = [real EXCEPT ![i] = w]
  PROVE  /\ pass' \in [Passes -> Looking] /\ real' \in [Passes -> 0..MaxSize \cup {NULL}]
         /\ \A j \in Passes : PassLinked(j)'
BY DEF TypeInv, TypeOK, PassLinked

\* The initial state has the types and the links.
THEOREM TypeInit == Init => TypeInv
<1> SUFFICES ASSUME Init PROVE TypeInv OBVIOUS
<1>1. row \in [Rows -> Position] BY DEF Init, Position
<1>2. /\ held \in 0..MaxSize /\ restarts \in 0..MaxRestarts
      /\ short \in [Rows -> 0..Threshold]
      /\ real \in [Passes -> 0..MaxSize \cup {NULL}]
  BY MaxSizeAssumption, ThresholdAssumption, RestartsAssumption DEF Init
<1>3. pass \in [Passes -> Looking] /\ trade \in [Traders -> Trading]
  BY RestingIsLooking DEF Init
<1>4. \A i \in Passes : PassLinked(i) BY RestingIsLooking DEF Init, PassLinked
<1>5. \A t \in Traders : TradeLinked(t) BY RestingIsLooking DEF Init, TradeLinked
<1> QED BY <1>1, <1>2, <1>3, <1>4, <1>5 DEF TypeInv, TypeOK

\* A trader's step and a trigger keep the types.
LEMMA TradeTypes ==
  ASSUME TypeInv, NEW t \in Traders, Begin(t) \/ TradeStep(t)
  PROVE  TypeInv'
<1> USE DEF TypeInv
<1>1. ASSUME NEW n \in 1..MaxSize, EntryFills(t, n) PROVE TypeInv'
  <2>1. held' \in 0..MaxSize BY <1>1, MaxSizeAssumption DEF EntryFills, TypeOK
  <2> DEFINE v == [Free EXCEPT !.at = "filled", !.size = n]
  <2>2. trade' = [trade EXCEPT ![t] = v] /\ v \in Trading /\ v.at = "filled"
    <3>0. n \in Int OBVIOUS
    <3>1. v \in Trading /\ v.at = "filled" BY <3>0, RestingIsLooking DEF Trading
    <3> QED BY <1>1, <3>1 DEF EntryFills
  <2> HIDE DEF v
  <2>3. trade' \in [Traders -> Trading] /\ \A u \in Traders : TradeLinked(u)'
    BY <2>2, TraderMoves
  <2> QED BY <1>1, <2>1, <2>3 DEF EntryFills, TypeOK, PassLinked, history
<1>2. ASSUME EntrySelect(t) PROVE TypeInv'
  <2>1. trade[t] \in Trading /\ \A q \in Rows : row[q].size \in Int
    BY DEF TypeOK, Position
  <2>2. ASSUME trade' = [trade EXCEPT ![t] = [trade[t] EXCEPT !.at = "create"]]
        PROVE  trade' \in [Traders -> Trading] /\ \A u \in Traders : TradeLinked(u)'
    <3> DEFINE v == [trade[t] EXCEPT !.at = "create"]
    <3>1. v \in Trading /\ v.at = "create" BY <2>1 DEF Trading
    <3> HIDE DEF v
    <3>2. trade' = [trade EXCEPT ![t] = v] BY <2>2 DEF v
    <3> QED BY <3>1, <3>2, TraderMoves
  <2>3. ASSUME NEW q \in Open, trade' = [trade EXCEPT ![t] =
                 [trade[t] EXCEPT !.at = "top up", !.row = q, !.base = row[q].size]]
        PROVE  trade' \in [Traders -> Trading] /\ \A u \in Traders : TradeLinked(u)'
    <3> DEFINE v == [trade[t] EXCEPT !.at = "top up", !.row = q, !.base = row[q].size]
    <3>1. q \in Rows /\ row[q].size \in Int BY <2>1 DEF Open
    <3>2. v \in Trading /\ v.row = q BY <2>1, <3>1 DEF Trading
    <3> HIDE DEF v
    <3>3. trade' = [trade EXCEPT ![t] = v] BY <2>3 DEF v
    <3> QED BY <3>1, <3>2, <3>3, TraderMoves
  <2>4. trade' \in [Traders -> Trading] /\ \A u \in Traders : TradeLinked(u)'
    BY <1>2, <2>2, <2>3 DEF EntrySelect
  <2> QED BY <1>2, <2>4 DEF EntrySelect, TypeOK, PassLinked, history
<1>3. ASSUME EntryTopUp(t) PROVE TypeInv'
  <2>0. trade[t] \in Trading /\ trade[t].row \in Rows
    BY <1>3 DEF EntryTopUp, TypeOK, TradeLinked
  <2>1. trade[t].base + trade[t].size \in Int
    BY <2>0, TradingFields
  <2>2. row' \in [Rows -> Position] BY <1>3, <2>0, <2>1, SetSize DEF EntryTopUp, TypeOK
  <2>3. trade' \in [Traders -> Trading] /\ \A u \in Traders : TradeLinked(u)'
    BY <1>3, TraderMoves, RestingIsLooking DEF EntryTopUp
  <2> QED BY <1>3, <2>2, <2>3 DEF EntryTopUp, TypeOK, PassLinked, history
<1>4. ASSUME NEW r \in Rows, EntryCreate(t, r) PROVE TypeInv'
  <2>1. [status |-> "open", size |-> trade[t].size, miss |-> 0, divergent |-> FALSE]
          \in Position
    BY DEF TypeOK, Trading, Position
  <2>2. row' \in [Rows -> Position] BY <1>4, <2>1 DEF EntryCreate, TypeOK
  <2>3. trade' \in [Traders -> Trading] /\ \A u \in Traders : TradeLinked(u)'
    BY <1>4, TraderMoves, RestingIsLooking DEF EntryCreate
  <2> QED BY <1>4, <2>2, <2>3 DEF EntryCreate, TypeOK, PassLinked, history
<1>5. ASSUME NEW want \in 1..MaxSize \cup {NULL}, CloseSelect(t, want) PROVE TypeInv'
  <2>1. PICK q \in Rows : trade' = [trade EXCEPT ![t] =
         [at |-> "closing", row |-> q, base |-> 0,
          full |-> want = NULL \/ want >= row[q].size,
          size |-> IF want = NULL THEN row[q].size ELSE Least(want, row[q].size)]]
    BY <1>5 DEF CloseSelect, Open
  <2> DEFINE full == want = NULL \/ want >= row[q].size
             size == IF want = NULL THEN row[q].size ELSE Least(want, row[q].size)
             v    == [at |-> "closing", row |-> q, base |-> 0, full |-> full, size |-> size]
  <2>2. full \in BOOLEAN OBVIOUS
  <2>3. row[q].size \in Int BY DEF TypeOK, Position
  <2>4. size \in Int BY <2>3 DEF Least
  <2>5. trade' = [trade EXCEPT ![t] = v] BY <2>1
  <2> HIDE DEF full, size
  <2>6. v \in Trading /\ v.row \in Rows BY <2>2, <2>4 DEF Trading
  <2> HIDE DEF v
  <2>7. trade' \in [Traders -> Trading] /\ \A u \in Traders : TradeLinked(u)'
    BY <2>5, <2>6, TraderMoves
  <2> QED BY <1>5, <2>7 DEF CloseSelect, TypeOK, PassLinked, history
<1>6. ASSUME NEW reported \in BOOLEAN, CloseFills(t, reported) PROVE TypeInv'
  <2> DEFINE n == Filled(trade[t])
             size == IF reported /\ ~trade[t].full THEN n ELSE trade[t].size
  <2>1. trade[t] \in Trading /\ trade[t].size \in Int /\ trade[t].row \in Rows
    BY <1>6 DEF TypeOK, Trading, TradeLinked, CloseFills
  <2>2. n \in Int /\ n <= held
    BY <2>1 DEF Filled, Least, TypeOK
  <2>3. size \in Int BY <2>1, <2>2
  <2>4. held' \in 0..MaxSize BY <1>6, <2>2, MaxSizeAssumption DEF CloseFills, TypeOK
  <2>5. trade' = [trade EXCEPT ![t] = [trade[t] EXCEPT !.at = "commit", !.size = size]]
    BY <1>6, <2>1 DEF CloseFills, TypeOK
  <2> HIDE DEF size
  <2> DEFINE v == [trade[t] EXCEPT !.at = "commit", !.size = size]
  <2>6. v \in Trading /\ v.row = trade[t].row BY <2>1, <2>3 DEF Trading
  <2>7. trade' = [trade EXCEPT ![t] = v] BY <2>5
  <2> HIDE DEF v
  <2>8. trade' \in [Traders -> Trading] /\ \A u \in Traders : TradeLinked(u)'
    BY <2>1, <2>6, <2>7, TraderMoves
  <2> QED BY <1>6, <2>4, <2>8 DEF CloseFills, TypeOK, PassLinked, history
<1>7. ASSUME CloseFails(t) PROVE TypeInv'
  <2>1. trade' \in [Traders -> Trading] /\ \A u \in Traders : TradeLinked(u)'
    BY <1>7, TraderMoves, RestingIsLooking DEF CloseFails
  <2> QED BY <1>7, <2>1 DEF CloseFails, TypeOK, PassLinked, history
<1>8. ASSUME CloseCommit(t) PROVE TypeInv'
  <2>1. trade[t].row \in Rows /\ trade[t].full \in BOOLEAN /\ trade[t].size \in Int
    BY <1>8 DEF CloseCommit, TypeOK, Trading, TradeLinked
  <2>2. Cut(row[trade[t].row], trade[t].full, trade[t].size) \in Position
    BY <2>1, CutKeeps DEF TypeOK
  <2>3. row' \in [Rows -> Position] BY <1>8, <2>2 DEF CloseCommit, TypeOK
  <2>4. trade' \in [Traders -> Trading] /\ \A u \in Traders : TradeLinked(u)'
    BY <1>8, TraderMoves, RestingIsLooking DEF CloseCommit
  <2> QED BY <1>8, <2>3, <2>4 DEF CloseCommit, TypeOK, PassLinked, history
<1> QED BY <1>1, <1>2, <1>3, <1>4, <1>5, <1>6, <1>7, <1>8 DEF Begin, TradeStep

\* What a pass has read off a row is of its type.
LEMMA LookingFields ==
  ASSUME NEW p \in Looking, p.seen \in Int
  PROVE  /\ p.size \in Int /\ p.miss \in Nat /\ p.size - p.seen \in Int
         /\ NextMiss(p) \in Nat
<1>1. p.size \in Int /\ p.miss \in Nat BY DEF Looking
<1> QED BY <1>1 DEF NextMiss

\* A pass's step keeps the types.
LEMMA PassTypes ==
  ASSUME TypeInv, NEW i \in Passes, PassStep(i)
  PROVE  TypeInv'
<1> USE DEF TypeInv
<1> USE RestingIsLooking
<1>0. real[i] \in 0..MaxSize \cup {NULL} /\ real = [real EXCEPT ![i] = real[i]]
      /\ pass[i] \in Looking /\ NULL \in 0..MaxSize \cup {NULL}
  BY DEF TypeOK
<1>1. ASSUME LoadRows(i) PROVE TypeInv'
  <2>1. PICK r \in Rows : pass' = [pass EXCEPT ![i] = Loaded(r, row[r])]
    BY <1>1 DEF LoadRows, Open
  <2>2. row[r] \in Position BY DEF TypeOK
  <2>3. /\ Loaded(r, row[r]) \in Looking /\ Loaded(r, row[r]).at = "loaded"
        /\ Loaded(r, row[r]).row = r
    BY <2>2, LoadedIsLooking
  <2>4. real' = [real EXCEPT ![i] = real[i]] BY <1>0, <1>1 DEF LoadRows, history
  <2>5. /\ pass' \in [Passes -> Looking] /\ real' \in [Passes -> 0..MaxSize \cup {NULL}]
        /\ \A j \in Passes : PassLinked(j)'
    BY <1>0, <2>1, <2>3, <2>4, PassMoves
  <2> QED BY <1>1, <2>5 DEF LoadRows, TypeOK, TradeLinked, history
<1>2. ASSUME NEW reachable \in BOOLEAN, FetchPositions(i, reachable) PROVE TypeInv'
  <2> DEFINE w == IF reachable THEN held ELSE NULL
             v == IF reachable THEN Fetched(pass[i], held) ELSE Resting
  <2>1. held \in 0..MaxSize /\ held \in Int /\ held # NULL
    BY NullAssumption DEF TypeOK
  <2>2. w \in 0..MaxSize \cup {NULL} BY <2>1
  <2>3. pass' = [pass EXCEPT ![i] = v] /\ real' = [real EXCEPT ![i] = w]
    BY <1>2, <2>1 DEF FetchPositions, Observed
  <2>4. pass[i].row \in Rows BY <1>2 DEF FetchPositions, PassLinked
  <2>5. CASE reachable
    <3>1. v = Fetched(pass[i], held) /\ w = held BY <2>5
    <3>2. /\ v \in Looking /\ v.at = "fetched" /\ v.seen = w /\ v.row \in Rows
      BY <1>0, <2>1, <2>4, <3>1, FetchedIsLooking
    <3> HIDE DEF v, w
    <3>3. /\ pass' \in [Passes -> Looking] /\ real' \in [Passes -> 0..MaxSize \cup {NULL}]
          /\ \A j \in Passes : PassLinked(j)'
      BY <2>1, <2>2, <2>3, <3>1, <3>2, PassMoves
    <3> QED BY <1>2, <3>3 DEF FetchPositions, TypeOK, TradeLinked
  <2>6. CASE ~reachable
    <3>1. v = Resting BY <2>6
    <3> HIDE DEF v, w
    <3>3. /\ pass' \in [Passes -> Looking] /\ real' \in [Passes -> 0..MaxSize \cup {NULL}]
          /\ \A j \in Passes : PassLinked(j)'
      BY <2>2, <2>3, <3>1, PassMoves
    <3> QED BY <1>2, <3>3 DEF FetchPositions, TypeOK, TradeLinked
  <2> QED BY <2>5, <2>6
<1>3. ASSUME Compare(i) PROVE TypeInv'
  <2>1. /\ pass[i].row \in Rows /\ pass[i].seen \in Int
        /\ real[i] = pass[i].seen /\ real[i] # NULL
    BY <1>3, NullAssumption DEF Compare, PassLinked
  <2>2. NextMiss(pass[i]) \in Nat /\ pass[i].size - real[i] \in Int
    BY <1>0, <2>1, LookingFields
  <2>3. row' \in [Rows -> Position]
    <3>1. CASE row' = row BY <3>1 DEF TypeOK
    <3>2. CASE row' = [row EXCEPT ![pass[i].row].miss = NextMiss(pass[i])]
      BY <2>1, <2>2, <3>2, SetMiss DEF TypeOK
    <3>3. CASE row' = [row EXCEPT ![pass[i].row].miss = NextMiss(pass[i]),
                                  ![pass[i].row].divergent = Flagged(pass[i])]
      <4>1. Flagged(pass[i]) \in BOOLEAN BY DEF Flagged, Larger
      <4>2. PICK d \in BOOLEAN : d = Flagged(pass[i]) BY <4>1
      <4>3. row' = [row EXCEPT ![pass[i].row].miss = NextMiss(pass[i]),
                               ![pass[i].row].divergent = d]
        BY <3>3, <4>2, Zenon
      <4>4. row \in [Rows -> Position] BY DEF TypeOK
      <4> DEFINE m == NextMiss(pass[i])
                 r == pass[i].row
      <4>5. m \in Nat /\ r \in Rows BY <2>1, <2>2
      <4>6. row' = [row EXCEPT ![r].miss = m, ![r].divergent = d] BY <4>3
      <4> HIDE DEF m, r
      <4> QED BY <4>4, <4>5, <4>6, SetMissAndFlag
    <3> QED BY <1>3, <3>1, <3>2, <3>3 DEF Compare
  <2>4. short' \in [Rows -> 0..Threshold]
    <3>1. 0 \in 0..Threshold BY ThresholdAssumption
    <3>2. short[pass[i].row] \in 0..Threshold BY <2>1 DEF TypeOK
    <3>3. Least(short[pass[i].row] + 1, Threshold) \in 0..Threshold
      BY <3>2, ThresholdAssumption DEF Least
    <3> QED BY <1>3, <3>1, <3>2, <3>3 DEF Compare, TypeOK
  <2>6. /\ pass' \in [Passes -> Looking] /\ real' \in [Passes -> 0..MaxSize \cup {NULL}]
        /\ \A j \in Passes : PassLinked(j)'
    <3>1. real' = [real EXCEPT ![i] = NULL] BY <1>3 DEF Compare
    <3>2. CASE pass' = [pass EXCEPT ![i] = Resting]
      BY <1>0, <3>1, <3>2, PassMoves
    <3>3. CASE pass' = [pass EXCEPT ![i] = Acting(pass[i])]
      BY <1>0, <2>1, <3>1, <3>3, PassMoves, ActingIsLooking
    <3> QED BY <1>3, <3>2, <3>3 DEF Compare
  <2> QED BY <1>3, <2>3, <2>4, <2>6 DEF Compare, TypeOK, TradeLinked
<1>4. ASSUME SelectRow(i) PROVE TypeInv'
  <2>1. real' = [real EXCEPT ![i] = real[i]] BY <1>0, <1>4 DEF SelectRow, history
  <2>2. pass[i].row \in Rows BY <1>4 DEF SelectRow, PassLinked
  <2>3. /\ pass' \in [Passes -> Looking] /\ real' \in [Passes -> 0..MaxSize \cup {NULL}]
        /\ \A j \in Passes : PassLinked(j)'
    <3>1. CASE pass' = [pass EXCEPT ![i] = Resting]
      BY <1>0, <2>1, <3>1, PassMoves
    <3>2. ASSUME NEW q \in Rows, pass' = [pass EXCEPT ![i] = Picked(pass[i], q, row[q].size)]
          PROVE  /\ pass' \in [Passes -> Looking]
                 /\ real' \in [Passes -> 0..MaxSize \cup {NULL}]
                 /\ \A j \in Passes : PassLinked(j)'
      <4>1. row[q].size \in Int BY DEF TypeOK, Position
      <4> DEFINE v == Picked(pass[i], q, row[q].size)
      <4>2. v \in Looking /\ v.at \in {"close", "reduce"} /\ v.seen = q
            /\ v.row = pass[i].row
        BY <1>0, <4>1, PickedIsLooking
      <4>3. pass' = [pass EXCEPT ![i] = v] BY <3>2
      <4> HIDE DEF v
      <4> QED BY <1>0, <2>1, <2>2, <4>2, <4>3, PassMoves
    <3> QED BY <1>4, <3>1, <3>2 DEF SelectRow, Open
  <2> QED BY <1>4, <2>3 DEF SelectRow, TypeOK, TradeLinked, history
<1>5. ASSUME CommitCut(i) PROVE TypeInv'
  <2>1. real' = [real EXCEPT ![i] = real[i]] BY <1>0, <1>5 DEF CommitCut, history
  <2>2. pass[i].row \in Rows /\ pass[i].seen \in Rows /\ pass[i].cut \in Int
    BY <1>0, <1>5 DEF CommitCut, PassLinked, Looking
  <2>3. Cut(row[pass[i].seen], pass[i].full, pass[i].cut) \in Position
    BY <2>2, CutKeeps DEF TypeOK
  <2>4. row' \in [Rows -> Position] BY <1>5, <2>2, <2>3 DEF CommitCut, TypeOK
  <2>5. /\ pass' \in [Passes -> Looking] /\ real' \in [Passes -> 0..MaxSize \cup {NULL}]
        /\ \A j \in Passes : PassLinked(j)'
    <3>1. CASE pass' = [pass EXCEPT ![i] = Resting]
      BY <1>0, <2>1, <3>1, PassMoves
    <3>2. CASE pass' = [pass EXCEPT ![i] = [pass[i] EXCEPT !.at = "clear"]]
      <4> DEFINE v == [pass[i] EXCEPT !.at = "clear"]
      <4>1. v \in Looking /\ v.at = "clear" /\ v.row = pass[i].row
        BY <1>0 DEF Looking
      <4>2. pass' = [pass EXCEPT ![i] = v] BY <3>2
      <4> HIDE DEF v
      <4> QED BY <1>0, <2>1, <2>2, <4>1, <4>2, PassMoves
    <3> QED BY <1>5, <3>1, <3>2 DEF CommitCut
  <2> QED BY <1>5, <2>4, <2>5 DEF CommitCut, TypeOK, TradeLinked, history
<1>6. ASSUME ClearMiss(i) PROVE TypeInv'
  <2>1. real' = [real EXCEPT ![i] = real[i]] BY <1>0, <1>6 DEF ClearMiss
  <2>2. pass[i].row \in Rows BY <1>6 DEF ClearMiss, PassLinked
  <2>3. row' \in [Rows -> Position] BY <1>6, <2>2, SetMiss DEF ClearMiss, TypeOK
  <2>4. short' \in [Rows -> 0..Threshold]
    <3>1. 0 \in 0..Threshold BY ThresholdAssumption
    <3> QED BY <1>6, <3>1 DEF ClearMiss, TypeOK
  <2>5. /\ pass' \in [Passes -> Looking] /\ real' \in [Passes -> 0..MaxSize \cup {NULL}]
        /\ \A j \in Passes : PassLinked(j)'
    BY <1>0, <1>6, <2>1, PassMoves DEF ClearMiss
  <2> QED BY <1>6, <2>3, <2>4, <2>5 DEF ClearMiss, TypeOK, TradeLinked
<1> QED BY <1>1, <1>2, <1>3, <1>4, <1>5, <1>6 DEF PassStep

\* Every step keeps the types and what passes and traders hold at each stage.
THEOREM TypeStep == TypeInv /\ [Next]_vars => TypeInv'
<1> SUFFICES ASSUME TypeInv, [Next]_vars PROVE TypeInv' OBVIOUS
<1>1. ASSUME NEW n \in 1..MaxSize, TriggerFires(n) PROVE TypeInv'
  <2>1. held' \in 0..MaxSize BY <1>1, MaxSizeAssumption DEF TriggerFires, TypeInv, TypeOK
  <2> QED BY <1>1, <2>1
          DEF TriggerFires, TypeInv, TypeOK, PassLinked, TradeLinked, history
<1>2. ASSUME Restart PROVE TypeInv'
  <2>1. restarts' \in 0..MaxRestarts
    BY <1>2, RestartsAssumption DEF Restart, TypeInv, TypeOK
  <2>2. /\ pass' \in [Passes -> Looking] /\ trade' \in [Traders -> Trading]
        /\ real' \in [Passes -> 0..MaxSize \cup {NULL}]
        /\ \A i \in Passes : PassLinked(i)'
        /\ \A t \in Traders : TradeLinked(t)'
    BY <1>2, RestingIsLooking DEF Restart, PassLinked, TradeLinked
  <2> QED BY <1>2, <2>1, <2>2 DEF Restart, TypeInv, TypeOK
<1>3. CASE UNCHANGED vars
  BY <1>3 DEF vars, TypeInv, TypeOK, PassLinked, TradeLinked
<1> QED BY <1>1, <1>2, <1>3, PassTypes, TradeTypes DEF Next

\* Every variable holds a value of its kind, whatever overlaps: reduce-only closes and
\* triggers never take more than the leg holds.
THEOREM TypeCorrect == Spec => []TypeOK
<1>1. TypeInv => TypeOK BY DEF TypeInv
<1> QED BY TypeInit, TypeStep, <1>1, PTL DEF Spec

-------------------------------------------------------------------------------
(* The streak, when passes do not overlap.                                 *)

OnePass == \A p, q \in Passes : p = q

\* A pass that is comparing has the counter as it is; one that acts has seen a streak.
Counting(i) ==
  /\ pass[i].at \in {"loaded", "fetched"} =>
       /\ row[pass[i].row].status # "none"
       /\ row[pass[i].row].miss = pass[i].miss
  /\ pass[i].at \in {"select", "close", "reduce"} => short[pass[i].row] = Threshold

StreakInv ==
  /\ TypeInv
  /\ MissIsEarned
  /\ \A i \in Passes : Counting(i)

\* Steps that move no pass and at most create a row.
LEMMA RowsKept ==
  ASSUME StreakInv, TypeInv', pass' = pass, short' = short,
         \A q \in Rows : \/ row'[q].miss = row[q].miss
                         \/ row[q].status = "none" /\ row'[q].miss = 0,
         \A q \in Rows : row[q].status # "none" => row'[q].status # "none"
  PROVE  StreakInv'
<1>1. ASSUME NEW q \in Rows PROVE Least(row'[q].miss, Threshold) <= short'[q]
  <2>1. Least(row[q].miss, Threshold) <= short[q] BY DEF StreakInv, MissIsEarned
  <2>2. short[q] \in 0..Threshold BY DEF StreakInv, TypeInv, TypeOK
  <2>3. Least(0, Threshold) <= short[q] BY <2>2, ThresholdAssumption DEF Least
  <2> QED BY <2>1, <2>3
<1>2. ASSUME NEW i \in Passes PROVE Counting(i)'
  <2>1. Counting(i) /\ PassLinked(i) BY DEF StreakInv, TypeInv
  <2> QED BY <2>1 DEF Counting, PassLinked
<1> QED BY <1>1, <1>2 DEF StreakInv, MissIsEarned

\* No entry or close raises a counter.
LEMMA TradeStreak ==
  ASSUME StreakInv, NEW t \in Traders, Begin(t) \/ TradeStep(t)
  PROVE  StreakInv'
<1>0. TypeInv /\ TypeInv' /\ row \in [Rows -> Position]
  BY TradeTypes DEF StreakInv, TypeInv, TypeOK
<1>1. pass' = pass /\ short' = short
  BY DEF Begin, TradeStep, EntryFills, EntrySelect, EntryTopUp, EntryCreate, CloseSelect,
         CloseFills, CloseFails, CloseCommit, history
<1>2. CASE row' = row BY <1>0, <1>1, <1>2, RowsKept
<1>3. CASE EntryTopUp(t)
  <2>1. trade[t] \in Trading /\ trade[t].row \in Rows
    BY <1>0, <1>3 DEF EntryTopUp, TypeInv, TypeOK, TradeLinked
  <2>2. trade[t].base + trade[t].size \in Int BY <2>1, TradingFields
  <2>3. \A q \in Rows : row'[q].miss = row[q].miss /\ row'[q].status = row[q].status
    <3> DEFINE r == trade[t].row
               n == trade[t].base + trade[t].size
    <3>1. r \in Rows /\ n \in Int /\ row' = [row EXCEPT ![r].size = n]
      BY <1>3, <2>1, <2>2 DEF EntryTopUp
    <3> HIDE DEF r, n
    <3> QED BY <1>0, <3>1, SetSize
  <2> QED BY <1>0, <1>1, <2>3, RowsKept
<1>4. ASSUME NEW r \in Rows, EntryCreate(t, r) PROVE StreakInv'
  <2>1. CASE row' = row BY <1>0, <1>1, <2>1, RowsKept
  <2>2. CASE row' = [row EXCEPT ![r] = [status |-> "open", size |-> trade[t].size,
                                        miss |-> 0, divergent |-> FALSE]]
    <3>1. row[r].status = "none" BY <1>4 DEF EntryCreate
    <3>2. \A q \in Rows : q # r => row'[q] = row[q] BY <1>0, <2>2
    <3>3. row'[r].miss = 0 /\ row'[r].status = "open" BY <1>0, <2>2
    <3> QED BY <1>0, <1>1, <3>1, <3>2, <3>3, RowsKept
  <2> QED BY <1>4, <2>1, <2>2 DEF EntryCreate
<1>5. CASE CloseCommit(t)
  <2>1. trade[t].row \in Rows /\ trade[t].size \in Int
    BY <1>0, <1>5 DEF CloseCommit, TypeInv, TypeOK, Trading, TradeLinked
  <2> DEFINE c == Cut(row[trade[t].row], trade[t].full, trade[t].size)
  <2>2. /\ c.miss = row[trade[t].row].miss
        /\ row[trade[t].row].status # "none" => c.status # "none"
    BY <1>0, <2>1, CutKeeps
  <2>3. row' = row \/ row' = [row EXCEPT ![trade[t].row] = c] BY <1>5 DEF CloseCommit
  <2> HIDE DEF c
  <2>4. \A q \in Rows : /\ row'[q].miss = row[q].miss
                        /\ row[q].status # "none" => row'[q].status # "none"
    BY <1>0, <2>1, <2>2, <2>3
  <2> QED BY <1>0, <1>1, <2>4, RowsKept
<1> QED BY <1>2, <1>3, <1>4, <1>5 DEF Begin, TradeStep, EntryFills, EntrySelect, CloseSelect,
                                      CloseFills, CloseFails

\* A pass raises the counter together with the streak.
LEMMA PassStreak ==
  ASSUME OnePass, StreakInv, NEW i \in Passes, PassStep(i)
  PROVE  StreakInv'
<1>0. /\ TypeInv /\ TypeInv' /\ row \in [Rows -> Position] /\ short \in [Rows -> 0..Threshold]
      /\ pass \in [Passes -> Looking] /\ pass[i] \in Looking
      /\ PassLinked(i) /\ Counting(i) /\ MissIsEarned
  BY PassTypes DEF StreakInv, TypeInv, TypeOK
<1>a. ASSUME Counting(i)', MissIsEarned' PROVE StreakInv'
  BY <1>0, <1>a DEF StreakInv, OnePass
<1>b. \A q \in Rows : short[q] \in 0..Threshold BY <1>0
<1>1. ASSUME LoadRows(i) PROVE StreakInv'
  <2>1. PICK r \in Rows : row[r].status = "open"
                          /\ pass' = [pass EXCEPT ![i] = Loaded(r, row[r])]
    BY <1>1 DEF LoadRows, Open, IsOpen
  <2>2. Loaded(r, row[r]).at = "loaded" /\ Loaded(r, row[r]).row = r
        /\ Loaded(r, row[r]).miss = row[r].miss
    BY <1>0, LoadedIsLooking
  <2>3. pass'[i].at = "loaded" /\ pass'[i].row = r /\ pass'[i].miss = row[r].miss
    BY <1>0, <2>1, <2>2
  <2>4. row' = row /\ short' = short BY <1>1 DEF LoadRows, history
  <2>5. Counting(i)' BY <2>1, <2>3, <2>4 DEF Counting
  <2>6. MissIsEarned' BY <1>0, <2>4 DEF MissIsEarned
  <2> QED BY <1>a, <2>5, <2>6
<1>2. ASSUME NEW reachable \in BOOLEAN, FetchPositions(i, reachable) PROVE StreakInv'
  <2>1. row' = row /\ short' = short /\ pass[i].at = "loaded"
    BY <1>2 DEF FetchPositions
  <2>2. MissIsEarned' BY <1>0, <2>1 DEF MissIsEarned
  <2>3. CASE pass' = [pass EXCEPT ![i] = Resting]
    <3>1. pass'[i].at = "idle" BY <1>0, <2>3, RestingIsLooking
    <3> QED BY <1>a, <2>2, <3>1 DEF Counting
  <2>4. CASE pass' = [pass EXCEPT ![i] = Fetched(pass[i], held)]
    <3>1. held \in Int BY <1>0 DEF TypeInv, TypeOK
    <3>2. pass'[i].at = "fetched" /\ pass'[i].row = pass[i].row
          /\ pass'[i].miss = pass[i].miss
      BY <1>0, <2>4, <3>1, FetchedIsLooking
    <3>3. Counting(i)' BY <1>0, <2>1, <3>2 DEF Counting
    <3> QED BY <1>a, <2>2, <3>3
  <2> QED BY <1>2, <2>3, <2>4 DEF FetchPositions, Observed
<1>3. ASSUME Compare(i) PROVE StreakInv'
  <2> DEFINE p == pass[i]
             r == pass[i].row
             missed == ~Matches(p) /\ ~Larger(p)
  <2>1. /\ r \in Rows /\ p.seen \in 0..MaxSize /\ real[i] = p.seen /\ p.seen # NULL
        /\ p.size \in Int /\ p.miss \in Nat /\ row[r].miss = p.miss
    BY <1>0, <1>3, NullAssumption DEF Compare, PassLinked, Counting, Looking
  <2>2. short[r] \in 0..Threshold /\ Least(p.miss, Threshold) <= short[r]
    BY <1>0, <2>1 DEF MissIsEarned
  <2>3. CASE missed
    <3>1. Lacking(real[i], p.size) BY <2>1, <2>3 DEF Lacking, Matches, Larger
    <3>2. short' = [short EXCEPT ![r] = Least(short[r] + 1, Threshold)]
      BY <1>3, <2>1, <3>1 DEF Compare
    <3>3. NextMiss(p) = p.miss + 1 BY <2>3 DEF NextMiss
    <3>4. \A q \in Rows : row'[q].miss = row[q].miss \/ (q = r /\ row'[q].miss = p.miss + 1)
      <4>1. row' = row \/ row' = [row EXCEPT ![r].miss = p.miss + 1]
        BY <1>3, <2>3, <3>3 DEF Compare
      <4> DEFINE m == p.miss + 1
      <4>2. m \in Nat BY <2>1
      <4>3. row' = row \/ row' = [row EXCEPT ![r].miss = m] BY <4>1
      <4> HIDE DEF m, p, r
      <4>4. CASE row' = [row EXCEPT ![r].miss = m]
        <5>1. \A q \in Rows : row'[q].miss = (IF q = r THEN m ELSE row[q].miss)
          BY <1>0, <2>1, <4>2, <4>4, SetMiss
        <5> QED BY <5>1 DEF m
      <4> QED BY <4>3, <4>4
    <3>5. Least(p.miss, Threshold) <= Least(short[r] + 1, Threshold)
          /\ Least(p.miss + 1, Threshold) <= Least(short[r] + 1, Threshold)
      BY <2>1, <2>2, ThresholdAssumption DEF Least
    <3>6. short'[r] = Least(short[r] + 1, Threshold)
          /\ \A q \in Rows : q # r => short'[q] = short[q]
      BY <1>0, <2>1, <3>2
    <3>7. MissIsEarned' BY <1>0, <2>1, <3>4, <3>5, <3>6 DEF MissIsEarned
    <3>8. CASE ~Due(p)
      <4>1. pass'[i].at = "idle" BY <1>0, <1>3, <2>3, <3>8, RestingIsLooking DEF Compare
      <4> QED BY <1>a, <3>7, <4>1 DEF Counting
    <3>9. CASE Due(p)
      <4>1. pass' = [pass EXCEPT ![i] = Acting(p)] BY <1>3, <2>3, <3>9 DEF Compare
      <4>2. p.seen \in Int BY <2>1
      <4>3. pass'[i].at = "select" /\ pass'[i].row = r
        BY <1>0, <4>1, <4>2, ActingIsLooking
      <4>4. short'[r] = Threshold
        BY <2>1, <2>2, <3>3, <3>6, <3>9, ThresholdAssumption DEF Due, Least
      <4>5. Counting(i)' BY <4>3, <4>4 DEF Counting
      <4> QED BY <1>a, <3>7, <4>5
    <3> QED BY <3>8, <3>9
  <2>4. CASE ~missed
    <3>1. NextMiss(p) = 0 BY <2>4 DEF NextMiss
    <3>2. pass'[i].at = "idle" BY <1>0, <1>3, <2>4, RestingIsLooking DEF Compare
    <3>3. \A q \in Rows : q # r => row'[q].miss = row[q].miss /\ short'[q] = short[q]
      <4>1. \A q \in Rows : q # r => row'[q] = row[q]
        BY <1>0, <1>3, <2>1, <2>4 DEF Compare
      <4>2. \A q \in Rows : q # r => short'[q] = short[q]
        BY <1>0, <1>3 DEF Compare
      <4> QED BY <4>1, <4>2
    <3>4. row'[r].miss = 0
      <4>1. CASE row' = row /\ p.miss = 0 BY <2>1, <4>1
      <4>2. CASE row' = [row EXCEPT ![r].miss = NextMiss(p), ![r].divergent = Flagged(p)]
        <5>1. PICK d \in BOOLEAN : d = Flagged(p) BY DEF Flagged, Larger
        <5>2. row' = [row EXCEPT ![r].miss = NextMiss(p), ![r].divergent = d]
          BY <4>2, <5>1, Zenon
        <5> HIDE DEF p, r
        <5>3. NextMiss(p) \in Nat BY <3>1
        <5> QED BY <1>0, <2>1, <3>1, <5>2, <5>3, SetMissAndFlag
      <4> QED BY <1>3, <2>4, <4>1, <4>2 DEF Compare
    <3>5. short'[r] \in 0..Threshold BY <1>0, <2>1 DEF TypeInv, TypeOK
    <3>6. MissIsEarned'
      BY <1>0, <3>3, <3>4, <3>5, ThresholdAssumption DEF MissIsEarned, Least
    <3> QED BY <1>a, <3>2, <3>6 DEF Counting
  <2> QED BY <2>3, <2>4
<1>4. ASSUME SelectRow(i) PROVE StreakInv'
  <2>1. row' = row /\ short' = short /\ pass[i].at = "select"
    BY <1>4 DEF SelectRow, history
  <2>2. MissIsEarned' BY <1>0, <2>1 DEF MissIsEarned
  <2>3. CASE pass' = [pass EXCEPT ![i] = Resting]
    <3>1. pass'[i].at = "idle" BY <1>0, <2>3, RestingIsLooking
    <3> QED BY <1>a, <2>2, <3>1 DEF Counting
  <2>4. ASSUME NEW q \in Rows, pass' = [pass EXCEPT ![i] = Picked(pass[i], q, row[q].size)]
        PROVE  StreakInv'
    <3>1. row[q].size \in Int BY <1>0 DEF Position
    <3>2. pass'[i].at \in {"close", "reduce"} /\ pass'[i].row = pass[i].row
      BY <1>0, <2>4, <3>1, PickedIsLooking
    <3>3. Counting(i)' BY <1>0, <2>1, <3>2 DEF Counting
    <3> QED BY <1>a, <2>2, <3>3
  <2> QED BY <1>4, <2>3, <2>4 DEF SelectRow, Open
<1>5. ASSUME CommitCut(i) PROVE StreakInv'
  <2>1. short' = short /\ pass[i].seen \in Rows /\ pass[i].cut \in Int
    BY <1>0, <1>5 DEF CommitCut, PassLinked, Looking, history
  <2> DEFINE c == Cut(row[pass[i].seen], pass[i].full, pass[i].cut)
  <2>2. c.miss = row[pass[i].seen].miss BY <1>0, <2>1, CutKeeps
  <2>3. row' = row \/ row' = [row EXCEPT ![pass[i].seen] = c] BY <1>5 DEF CommitCut
  <2> HIDE DEF c
  <2>4. \A q \in Rows : row'[q].miss = row[q].miss BY <1>0, <2>1, <2>2, <2>3
  <2>5. MissIsEarned' BY <1>0, <2>1, <2>4 DEF MissIsEarned
  <2>6. pass'[i].at \in {"idle", "clear"}
    <3>1. [pass[i] EXCEPT !.at = "clear"].at = "clear" BY <1>0 DEF Looking
    <3> QED BY <1>0, <1>5, <3>1, RestingIsLooking DEF CommitCut
  <2> QED BY <1>a, <2>5, <2>6 DEF Counting
<1>6. ASSUME ClearMiss(i) PROVE StreakInv'
  <2>1. pass[i].row \in Rows BY <1>0, <1>6 DEF ClearMiss, PassLinked
  <2>2. \A q \in Rows : row'[q].miss = (IF q = pass[i].row THEN 0 ELSE row[q].miss)
    BY <1>0, <1>6, <2>1, SetMiss DEF ClearMiss
  <2>3. \A q \in Rows : short'[q] = (IF q = pass[i].row THEN 0 ELSE short[q])
    BY <1>0, <1>6, <2>1 DEF ClearMiss
  <2>4. MissIsEarned'
    BY <1>0, <2>2, <2>3, ThresholdAssumption DEF MissIsEarned, Least
  <2>5. pass'[i].at = "idle" BY <1>0, <1>6, RestingIsLooking DEF ClearMiss
  <2> QED BY <1>a, <2>4, <2>5 DEF Counting
<1> QED BY <1>1, <1>2, <1>3, <1>4, <1>5, <1>6 DEF PassStep

\* Every step keeps the streak invariant while there is one pass at a time.
THEOREM StreakStep == OnePass /\ StreakInv /\ [Next]_vars => StreakInv'
<1> SUFFICES ASSUME OnePass, StreakInv, [Next]_vars PROVE StreakInv' OBVIOUS
<1>0. TypeInv' BY TypeStep DEF StreakInv
<1>1. ASSUME NEW n \in 1..MaxSize, TriggerFires(n) PROVE StreakInv'
  BY <1>0, <1>1, RowsKept DEF TriggerFires, history
<1>2. ASSUME Restart PROVE StreakInv'
  <2>1. \A i \in Passes : Counting(i)' BY <1>2, RestingIsLooking DEF Restart, Counting
  <2> QED BY <1>0, <1>2, <2>1 DEF Restart, StreakInv, MissIsEarned
<1>3. CASE UNCHANGED vars
  BY <1>0, <1>3, RowsKept DEF vars
<1> QED BY <1>1, <1>2, <1>3, TradeStreak, PassStreak DEF Next

\* Initially no row has a counter.
THEOREM StreakInit == Init => StreakInv
<1> SUFFICES ASSUME Init PROVE StreakInv OBVIOUS
<1>1. MissIsEarned BY ThresholdAssumption DEF Init, MissIsEarned, Least
<1>2. \A i \in Passes : Counting(i) BY RestingIsLooking DEF Init, Counting
<1> QED BY <1>1, <1>2, TypeInit DEF StreakInv

\* When passes do not overlap, the stored counter never runs ahead of the confirmed
\* consecutive reads that earned it, whatever traders, triggers, outages and restarts do.
THEOREM MissIsEarnedHolds == ASSUME OnePass PROVE Spec => []MissIsEarned
<1>1. StreakInv => MissIsEarned BY DEF StreakInv
<1>2. StreakInv /\ [Next]_vars => StreakInv' BY StreakStep
<1> QED BY StreakInit, <1>1, <1>2, PTL DEF Spec

\* Then, and while the leg has one row for good, a pass cuts a row only after a whole
\* streak of short reads of that row.
THEOREM ActsOnStreakHolds == ASSUME OnePass, LastRow = 1 PROVE Spec => ActsOnStreak
<1> DEFINE A == \A i \in Passes, r \in Rows : Cuts(i, r) => short[r] >= Threshold
<1>1. ASSUME StreakInv, [Next]_vars PROVE A
  <2> SUFFICES ASSUME NEW i \in Passes, NEW r \in Rows, Cuts(i, r)
               PROVE  short[r] >= Threshold
    OBVIOUS
  <2>1. /\ pass[i].at \in {"close", "reduce"} /\ pass[i].row \in Rows
        /\ short[pass[i].row] = Threshold
    BY <1>1 DEF Cuts, StreakInv, TypeInv, PassLinked, Counting
  <2>2. pass[i].row = r BY <2>1 DEF Rows
  <2> QED BY <2>1, <2>2, ThresholdAssumption
<1>2. StreakInv /\ [Next]_vars => StreakInv' BY StreakStep
<1>3. StreakInv /\ [Next]_vars => [A]_vars BY <1>1
<1> QED BY StreakInit, <1>2, <1>3, PTL DEF Spec, ActsOnStreak
===============================================================================
