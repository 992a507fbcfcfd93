------------------------- MODULE PositionLedgerProofs -------------------------
(***************************************************************************)
(* For every number of agents, rows and legs, every size, gain and fee,    *)
(* with failing writes and restarts at any point: the variables keep their *)
(* types, and a position is booked for exactly its pnl_realized.  Where    *)
(* one coroutine closes at a time, and where a position is one lot, a      *)
(* closed position shows its net outcome.                                  *)
(***************************************************************************)
EXTENDS PositionLedger, DataLemmas, TLAPS

\* The stage an agent is at determines what its job and its signal must hold.
AgentInv(a) ==
  /\ pc[a] \in {"exchange", "external", "commit"} =>
       job[a].row \in Rows /\ job[a].leg \in Legs /\ row[job[a].row].status # "none"
  /\ job[a].own => pc[a] \in {"exchange", "commit"} /\ after[a] = "signal"
  /\ pc[a] \in {"signal", "select", "recover", "insert"} => after[a] = pc[a]
  /\ pc[a] = "correct" => after[a] = "select"
  /\ after[a] = "insert" => sig[a].link \in Rows /\ sig[a].gross \in Int
  /\ sig[a].link \in Rows => row[sig[a].link].status # "none"

\* A row that was never created is untouched, and until it is closed only a sync pass
\* can have attributed PnL to it.
RowInv(r) ==
  /\ row[r].status # "none" => row[r].leg \in Legs
  /\ row[r].status = "none" => ~ord[r].priced
  /\ ~swept[r] /\ row[r].status # "closed" => row[r].pnl = NULL

\* The inductive invariant.
LedgerInv ==
  /\ TypeOK
  /\ \A a \in Agents : AgentInv(a)
  /\ \A r \in Rows : RowInv(r)
  /\ BookedOnce

USE NullAssumption, LastRowAssumption DEF Rows, Maybe

LEMMA InitInv == Init => LedgerInv
  <1> SUFFICES ASSUME Init PROVE LedgerInv
    OBVIOUS
  <1>1. TypeOK
    BY MoneyAssumption DEF Init, TypeOK, Position, Linkage, Holding, Ledger, Job, Signal, Stages, NoJob, NoSignal
  <1>2. \A a \in Agents : AgentInv(a)
    BY DEF Init, AgentInv, NoJob, NoSignal
  <1>3. \A r \in Rows : RowInv(r)
    BY DEF Init, RowInv
  <1>4. BookedOnce
    BY DEF Init, BookedOnce, Amount
  <1> QED
    BY <1>1, <1>2, <1>3, <1>4 DEF LedgerInv

LEMMA ClosingType ==
  ASSUME TypeOK, NEW r \in Rows, NEW want \in Maybe(Nat), NEW own \in BOOLEAN
  PROVE  /\ Closing(r, want, own) \in Job
         /\ Closing(r, want, own).row = r
         /\ Closing(r, want, own).leg = row[r].leg
         /\ Closing(r, want, own).own = own
  <1>1. row[r].leg \in Maybe(Legs) /\ row[r].size \in Int
    BY DEF TypeOK, Position
  <1> DEFINE full == want = NULL \/ want >= row[r].size
             size == IF want = NULL THEN row[r].size ELSE MinOf(want, row[r].size)
  <1>2. full \in BOOLEAN
    OBVIOUS
  <1>4. size \in Int
    BY <1>1 DEF MinOf
  <1> QED
    BY <1>1, <1>2, <1>4 DEF Closing, Job

LEMMA ManualCloseInv ==
  ASSUME LedgerInv, NEW a \in Agents, NEW r \in Rows, NEW want \in Maybe(Nat), ManualClose(a, r, want)
  PROVE  LedgerInv'
  <1> DEFINE j == Closing(r, want, FALSE)
  <1>0. j \in Job /\ j.row = r /\ j.leg = row[r].leg /\ j.own = FALSE
    BY ClosingType DEF LedgerInv
  <1> HIDE DEF j
  <1> USE DEF LedgerInv, ManualClose, rowVars, exchVars, history
  <1>1. TypeOK'
    BY <1>0 DEF TypeOK, Stages, j
  <1>2. ASSUME NEW b \in Agents PROVE AgentInv(b)'
    BY <1>0 DEF AgentInv, TypeOK, RowInv, IsOpen, j
  <1>3. ASSUME NEW q \in Rows PROVE RowInv(q)'
    BY DEF RowInv
  <1>4. BookedOnce'
    BY DEF BookedOnce
  <1> QED
    BY <1>1, <1>2, <1>3, <1>4

-------------------------------------------------------------------------------
(* What the helpers return.                                                *)

LEMMA BlankType ==
  NoJob \in Job /\ NoJob.own = FALSE /\ NoSignal \in Signal /\ NoSignal.link = NULL
  BY DEF NoJob, NoSignal, Job, Signal

LEMMA ResumeType ==
  ASSUME TypeOK, NEW a \in Agents, NEW unpaid \in BOOLEAN
  PROVE  Resume(a, unpaid) \in {"flatten", "book", after[a]}
  BY DEF Resume, TypeOK

LEMMA ReducedType ==
  ASSUME TypeOK, NEW l \in Legs, NEW n \in Int, n <= exch[l].size, NEW g \in Int,
         Reduced(l, n, g)
  PROVE  /\ exch' \in [Legs -> Holding]
         /\ truth' \in [Rows -> Ledger]
  <1> DEFINE e == exch[l].episode
             E(m) == [size |-> exch[m].size - n, episode |-> e,
                      last |-> IF n = exch[m].size THEN e ELSE exch[m].last]
             T(q) == [gross |-> truth[q].gross + n * g, fee |-> truth[q].fee + CloseFee]
  <1>1. E(l) \in Holding
    BY DEF TypeOK, Holding
  <1>2. n * g \in Int
    OBVIOUS
  <1>3. ASSUME NEW q \in Rows PROVE T(q) \in Ledger
    <2>1. truth[q].gross \in Int /\ truth[q].fee \in Int
      BY DEF TypeOK, Ledger
    <2> QED
      BY <1>2, <2>1, MoneyAssumption DEF Ledger
  <1>4. exch' = [exch EXCEPT ![l] = E(l)] /\ truth' = [truth EXCEPT ![e] = T(e)]
    BY DEF Reduced
  <1> HIDE DEF E, T, e
  <1> QED
    BY <1>1, <1>3, <1>4 DEF TypeOK

-------------------------------------------------------------------------------
(* Every action preserves LedgerInv.                                       *)

LEMMA CreatePositionInv ==
  ASSUME LedgerInv, NEW r \in Rows, NEW l \in Legs, NEW n \in Nat, CreatePosition(r, l, n)
  PROVE  LedgerInv'
  <1> USE DEF LedgerInv, CreatePosition, agentVars, history
  <1> DEFINE p == [status |-> "open", leg |-> l, size |-> n, pnl |-> NULL]
  <1>a. row' = [row EXCEPT ![r] = p]
    OBVIOUS
  <1>b. p \in Position
    BY DEF Position
  <1>c. exch[l] \in Holding
        /\ truth[r] \in Ledger
    BY DEF TypeOK
  <1>d. exch' \in [Legs -> Holding]
    <2>1. [exch[l] EXCEPT !.size = n, !.episode = r] \in Holding
      BY <1>c DEF Holding
    <2> QED
      BY <2>1 DEF TypeOK
  <1>e. truth' \in [Rows -> Ledger]
    <2>1. [truth[r] EXCEPT !.fee = OpenFee] \in Ledger
      BY <1>c, MoneyAssumption DEF Ledger
    <2> QED
      BY <2>1 DEF TypeOK
  <1>1. TypeOK'
    <2> HIDE DEF p
    <2> QED
      BY <1>a, <1>b, <1>d, <1>e DEF TypeOK
  <1>2. ASSUME NEW b \in Agents PROVE AgentInv(b)'
    BY DEF AgentInv, TypeOK
  <1>3. ASSUME NEW q \in Rows PROVE RowInv(q)'
    BY DEF RowInv, TypeOK, Position
  <1>4. BookedOnce'
    BY DEF BookedOnce, RowInv, TypeOK, Position, Amount
  <1> QED
    BY <1>1, <1>2, <1>3, <1>4

LEMMA TriggerFiresInv ==
  ASSUME LedgerInv, NEW l \in Legs, NEW n \in Nat, NEW g \in Gains, TriggerFires(l, n, g)
  PROVE  LedgerInv'
  <1> USE DEF LedgerInv, TriggerFires, rowVars, agentVars, history
  <1>0. n <= exch[l].size /\ g \in Int
    BY MoneyAssumption DEF TypeOK, Holding
  <1>1. TypeOK'
    <2>1. /\ exch' \in [Legs -> Holding]
          /\ truth' \in [Rows -> Ledger]
      BY <1>0, ReducedType
    <2> QED
      BY <2>1 DEF TypeOK
  <1>2. ASSUME NEW b \in Agents PROVE AgentInv(b)'
    BY DEF AgentInv
  <1>3. ASSUME NEW q \in Rows PROVE RowInv(q)'
    BY DEF RowInv
  <1>4. BookedOnce'
    BY DEF BookedOnce
  <1> QED
    BY <1>1, <1>2, <1>3, <1>4

LEMMA SignalCloseInv ==
  ASSUME LedgerInv, NEW a \in Agents, NEW legs \in SUBSET Legs, NEW want \in Maybe(Nat),
         SignalClose(a, legs, want)
  PROVE  LedgerInv'
  <1> DEFINE s == [NoSignal EXCEPT !.legs = legs, !.want = want]
  <1>0. s \in Signal /\ s.link = NULL
    <2> HIDE DEF NoSignal
    <2> QED
      BY BlankType DEF Signal
  <1> HIDE DEF s
  <1> USE DEF LedgerInv, SignalClose, rowVars, exchVars, history
  <1>1. TypeOK'
    BY <1>0 DEF TypeOK, Stages, s
  <1>2. ASSUME NEW b \in Agents PROVE AgentInv(b)'
    BY <1>0 DEF AgentInv, TypeOK, s
  <1>3. ASSUME NEW q \in Rows PROVE RowInv(q)'
    BY DEF RowInv
  <1>4. BookedOnce'
    BY DEF BookedOnce
  <1> QED
    BY <1>1, <1>2, <1>3, <1>4

LEMMA SignalLegInv ==
  ASSUME LedgerInv, NEW a \in Agents, NEW l \in Legs, SignalLeg(a, l)
  PROVE  LedgerInv'
  <1> USE DEF LedgerInv, SignalLeg, rowVars, exchVars, history
  <1>0. sig[a] \in Signal
    BY DEF TypeOK
  <1>1. CASE \E r \in OpenIn(l) :
               /\ pc' = [pc EXCEPT ![a] = "exchange"]
               /\ job' = [job EXCEPT ![a] = Closing(r, sig[a].want, TRUE)]
               /\ sig' = [sig EXCEPT ![a].legs = @ \ {l}]
    <2>1. PICK r \in OpenIn(l) :
            /\ pc' = [pc EXCEPT ![a] = "exchange"]
            /\ job' = [job EXCEPT ![a] = Closing(r, sig[a].want, TRUE)]
            /\ sig' = [sig EXCEPT ![a].legs = @ \ {l}]
      BY <1>1
    <2>2. r \in Rows /\ row[r].status = "open" /\ row[r].leg = l
      BY DEF OpenIn, IsOpen
    <2> DEFINE j == Closing(r, sig[a].want, TRUE)
    <2>3. j \in Job /\ j.row = r /\ j.leg = l /\ j.own = TRUE
      BY <1>0, <2>2, ClosingType DEF Signal
    <2> HIDE DEF j
    <2>4. TypeOK'
      <3>1. [sig[a] EXCEPT !.legs = @ \ {l}] \in Signal
        BY <1>0 DEF Signal
      <3>2. sig' \in [Agents -> Signal]
        BY <2>1, <3>1 DEF TypeOK
      <3>3. job' \in [Agents -> Job] /\ pc' \in [Agents -> Stages]
        BY <2>1, <2>3 DEF TypeOK, Stages, j
      <3> QED
        BY <3>2, <3>3 DEF TypeOK
    <2>5. ASSUME NEW b \in Agents PROVE AgentInv(b)'
      <3> DEFINE s == [sig[a] EXCEPT !.legs = @ \ {l}]
      <3>1. s.link = sig[a].link /\ s.gross = sig[a].gross
        BY <1>0 DEF Signal
      <3>2. sig' = [sig EXCEPT ![a] = s]
        BY <2>1 DEF TypeOK
      <3>3. after[a] = "signal" /\ UNCHANGED <<row, after>>
        BY DEF AgentInv
      <3> HIDE DEF s
      <3>4. CASE b = a
        <4>1. pc'[a] = "exchange" /\ job'[a] = j /\ sig'[a] = s
          BY <2>1, <3>2 DEF TypeOK, j
        <4>2. AgentInv(a)
          OBVIOUS
        <4> QED
          BY <2>2, <2>3, <3>1, <3>3, <3>4, <4>1, <4>2 DEF AgentInv
      <3>5. CASE b # a
        BY <2>1, <3>2, <3>5 DEF AgentInv, TypeOK
      <3> QED
        BY <3>4, <3>5
    <2>6. ASSUME NEW q \in Rows PROVE RowInv(q)'
      BY DEF RowInv
    <2>7. BookedOnce'
      BY DEF BookedOnce
    <2> QED
      BY <2>4, <2>5, <2>6, <2>7
  <1>2. CASE /\ sig' = [sig EXCEPT ![a].legs = @ \ {l}, ![a].failed = TRUE,
                                   ![a].first = FALSE]
             /\ UNCHANGED <<pc, job>>
    <2>1. TypeOK'
      BY ZenonT(60), <1>0, <1>2 DEF TypeOK, Signal
    <2>2. ASSUME NEW b \in Agents PROVE AgentInv(b)'
      BY <1>0, <1>2 DEF AgentInv, TypeOK, Signal
    <2>3. ASSUME NEW q \in Rows PROVE RowInv(q)'
      BY DEF RowInv
    <2>4. BookedOnce'
      BY DEF BookedOnce
    <2> QED
      BY <2>1, <2>2, <2>3, <2>4
  <1> QED
    BY <1>1, <1>2

\* An agent keeps AgentInv when nothing of its own changes and no row is un-created.
LEMMA OthersKeep ==
  ASSUME NEW b \in Agents, AgentInv(b), TypeOK,
         pc'[b] = pc[b], job'[b] = job[b], sig'[b] = sig[b], after'[b] = after[b],
         \A q \in Rows : row[q].status # "none" => row'[q].status # "none"
  PROVE  AgentInv(b)'
  BY DEF AgentInv

LEMMA OutcomeType ==
  ASSUME NEW s \in Signal, NEW ok \in BOOLEAN, NEW g \in Maybe(Int), NEW f \in Int
  PROVE  Outcome(s, ok, g, f) \in Signal /\ Outcome(s, ok, g, f).link = s.link
  BY DEF Outcome, Signal

LEMMA ExchangeCloseInv ==
  ASSUME LedgerInv, NEW a \in Agents, NEW resp \in Responses, NEW g \in Gains,
         ExchangeClose(a, resp, g)
  PROVE  LedgerInv'
  <1> DEFINE j == job[a]
             n == CloseQuantity(j)
             failed == resp \in {"lost", "refused"}
             k == IF failed THEN NoJob ELSE WithFill(j, resp, n, g)
             p == IF failed THEN Resume(a, Unpaid(debt[a])) ELSE "commit"
             s == IF failed /\ j.own THEN Outcome(sig[a], FALSE, NULL, 0) ELSE sig[a]
  <1>0. TypeOK /\ AgentInv(a) /\ BookedOnce /\ pc[a] = "exchange"
        /\ j \in Job /\ sig[a] \in Signal
    BY DEF LedgerInv, TypeOK, ExchangeClose
  <1>1. j.row \in Rows /\ j.leg \in Legs /\ row[j.row].status # "none"
        /\ (j.own => after[a] = "signal")
    BY <1>0 DEF AgentInv
  <1>2. n \in Int /\ n <= exch[j.leg].size
    <2>1. exch[j.leg].size \in Nat /\ j.size \in Int
      BY <1>0, <1>1 DEF TypeOK, Holding, Job
    <2> QED
      BY <2>1 DEF CloseQuantity, MinOf
  <1>3. g \in Int /\ n * g \in Int /\ CloseFee \in Int
    BY <1>2, MoneyAssumption
  <1>4. exch' \in [Legs -> Holding] /\ truth' \in [Rows -> Ledger]
    <2>1. CASE resp = "refused"
      BY <1>0, <2>1 DEF ExchangeClose, exchVars, TypeOK
    <2>2. CASE resp # "refused"
      <3>1. Reduced(j.leg, n, g)
        BY <2>2 DEF ExchangeClose
      <3> QED
        BY <1>0, <1>1, <1>2, <1>3, <3>1, ReducedType
    <2> QED
      BY <2>1, <2>2
  <1>5. k \in Job /\ (k.own => j.own /\ ~failed) /\ (~failed => k.row = j.row /\ k.leg = j.leg)
    <2>1. CASE failed
      <3>1. k = NoJob
        BY <2>1
      <3> QED
        BY <2>1, <3>1, BlankType
    <2>2. CASE resp = "reported"
      <3> DEFINE m == IF j.full THEN j.size ELSE n
      <3>1. m \in Int
        BY <1>0, <1>2 DEF Job
      <3>2. k = [j EXCEPT !.gross = n * g, !.fee = CloseFee, !.size = m]
        BY <1>0, <2>2 DEF Job, WithFill
      <3> HIDE DEF j, n, m, k
      <3>3. k \in Job /\ k.own = j.own /\ k.row = j.row /\ k.leg = j.leg
        BY <1>0, <1>3, <3>1, <3>2 DEF Job
      <3> QED
        BY <2>2, <3>3
    <2>3. CASE resp = "silent"
      <3>1. k = j
        BY <2>3 DEF WithFill
      <3> QED
        BY <1>0, <2>3, <3>1
    <2> QED
      BY <2>1, <2>2, <2>3, ResponsesAssumption
  <1>6. IF failed THEN p \in {"flatten", "book", after[a]} ELSE p = "commit"
    BY <1>0, ResumeType DEF Unpaid
  <1>7. s \in Signal /\ s.link = sig[a].link /\ (~j.own => s = sig[a])
    <2>1. NULL \in Maybe(Int) /\ 0 \in Int /\ FALSE \in BOOLEAN
      OBVIOUS
    <2> QED
      BY <1>0, <2>1, OutcomeType
  <1>8. /\ job' = [job EXCEPT ![a] = k] /\ pc' = [pc EXCEPT ![a] = p]
        /\ sig' = [sig EXCEPT ![a] = s]
        /\ UNCHANGED <<row, ord, strat, debt, after, halting, todo, found, swept, booked, owed>>
    BY <1>0 DEF ExchangeClose, rowVars, history, TypeOK
  <1> HIDE DEF j, k, p, s, failed, n
  <1>9. TypeOK'
    <2>1. p \in Stages
      BY <1>0, <1>6 DEF TypeOK, Stages
    <2> QED
      BY <1>0, <1>4, <1>5, <1>7, <1>8, <2>1 DEF TypeOK
  <1>10. ASSUME NEW b \in Agents PROVE AgentInv(b)'
    <2>1. CASE b = a
      <3>1. pc'[a] = p /\ job'[a] = k /\ sig'[a] = s /\ after'[a] = after[a]
        BY <1>0, <1>8 DEF TypeOK
      <3>2. after[a] \in {"idle", "signal", "select", "recover", "insert"}
        BY <1>0 DEF TypeOK
      <3>3. after[a] = "insert" => s = sig[a]
        BY <1>1, <1>7
      <3> QED
        BY <1>0, <1>1, <1>5, <1>6, <1>7, <1>8, <2>1, <3>1, <3>2, <3>3 DEF AgentInv
    <2>2. CASE b # a
      BY <1>0, <1>8, <2>2, OthersKeep DEF LedgerInv, TypeOK
    <2> QED
      BY <2>1, <2>2
  <1>11. ASSUME NEW q \in Rows PROVE RowInv(q)'
    BY <1>8 DEF LedgerInv, RowInv
  <1>12. BookedOnce'
    BY <1>0, <1>8 DEF BookedOnce
  <1> QED
    BY <1>9, <1>10, <1>11, <1>12 DEF LedgerInv

LEMMA UpdatedType ==
  ASSUME NEW j \in Job, NEW p \in Position
  PROVE  /\ NetPnl(j) \in Maybe(Int)
         /\ Updated(j, p) \in Position
         /\ Updated(j, p).leg = p.leg
         /\ Updated(j, p).status = IF j.full THEN "closed" ELSE p.status
         /\ Updated(j, p).pnl = IF j.full /\ NetPnl(j) # NULL THEN NetPnl(j) ELSE p.pnl
  <1>1. NetPnl(j) \in Maybe(Int)
    BY MoneyAssumption DEF NetPnl, Job
  <1> HIDE DEF NetPnl
  <1>2. CASE j.full
    <2> DEFINE m == IF NetPnl(j) = NULL THEN p.pnl ELSE NetPnl(j)
    <2>1. m \in Maybe(Int)
      BY <1>1 DEF Position
    <2>2. Updated(j, p) = [p EXCEPT !.status = "closed", !.pnl = m]
      BY <1>2 DEF Updated, Position
    <2> HIDE DEF m
    <2>3. /\ Updated(j, p) \in Position /\ Updated(j, p).leg = p.leg
          /\ Updated(j, p).status = "closed" /\ Updated(j, p).pnl = m
      BY <2>1, <2>2 DEF Position
    <2> QED
      BY <1>1, <1>2, <2>3 DEF m
  <1>3. CASE ~j.full
    BY <1>1, <1>3 DEF Updated, Position, Job
  <1> QED
    BY <1>2, <1>3

LEMMA LinkedType ==
  ASSUME TypeOK, NEW a \in Agents, NEW j \in Job, NEW r \in Rows, NEW inserted \in BOOLEAN
  PROVE  /\ Linked(a, j, r, inserted) \in [Rows -> Linkage]
         /\ \A q \in Rows : q # r =>
              Linked(a, j, r, inserted)[q].priced = ord[q].priced
  <1>1. ord \in [Rows -> Linkage]
    BY DEF TypeOK
  <1>2. CASE j.own
    <2> DEFINE L(q) == ord[q].links + (IF q = r THEN 1 ELSE 0)
                         - (IF q = sig[a].link THEN 1 ELSE 0)
    <2>1. ASSUME NEW q \in Rows
          PROVE  /\ [ord[q] EXCEPT !.links = L(q)] \in Linkage
                 /\ [ord[q] EXCEPT !.links = L(q)].priced = ord[q].priced
      <3>1. ord[q] \in Linkage
        BY <1>1
      <3>2. L(q) \in Int
        BY <3>1 DEF Linkage
      <3> HIDE DEF L
      <3> QED
        BY <3>1, <3>2 DEF Linkage
    <2>2. Linked(a, j, r, inserted) = [q \in Rows |-> [ord[q] EXCEPT !.links = L(q)]]
      BY <1>1, <1>2 DEF Linked, Linkage
    <2> HIDE DEF L
    <2> QED
      BY <2>1, <2>2
  <1>3. CASE ~j.own /\ ~inserted
    BY <1>1, <1>3 DEF Linked
  <1>4. CASE ~j.own /\ inserted
    <2> DEFINE o == [links |-> ord[r].links + 1,
                     priced |-> ord[r].priced \/ j.gross # NULL,
                     pnl |-> ord[r].pnl + Amount(j.gross),
                     fee |-> ord[r].fee + IF j.gross = NULL THEN 0 ELSE j.fee]
    <2>1. /\ ord[r].links \in Int /\ ord[r].pnl \in Int /\ ord[r].fee \in Int
          /\ ord[r].priced \in BOOLEAN
          /\ j.gross \in Maybe(Int) /\ j.fee \in Int
      BY <1>1 DEF Linkage, Job
    <2>2. o \in Linkage
      <3>1. (ord[r].priced \/ j.gross # NULL) \in BOOLEAN
        OBVIOUS
      <3>2. ord[r].links + 1 \in Int
        BY <2>1
      <3>3. ord[r].pnl + Amount(j.gross) \in Int
        BY <2>1 DEF Amount
      <3>4. (ord[r].fee + IF j.gross = NULL THEN 0 ELSE j.fee) \in Int
        BY <2>1
      <3> QED
        BY <3>1, <3>2, <3>3, <3>4 DEF Linkage
    <2>3. Linked(a, j, r, inserted) = [ord EXCEPT ![r] = o]
      BY <1>4 DEF Linked
    <2> HIDE DEF o
    <2> QED
      BY <1>1, <2>2, <2>3
  <1> QED
    BY <1>2, <1>3, <1>4

LEMMA CommitCloseInv ==
  ASSUME LedgerInv, NEW a \in Agents, NEW inserted \in BOOLEAN, CommitClose(a, inserted)
  PROVE  LedgerInv'
  <1> DEFINE j == job[a]
             r == j.row
             net == NetPnl(j)
             priced == j.full /\ net # NULL
             s == IF ~j.own THEN sig[a]
                  ELSE IF Lands(r) THEN [Outcome(sig[a], TRUE, j.gross, j.fee)
                                           EXCEPT !.link = r]
                  ELSE Outcome(sig[a], FALSE, NULL, 0)
  <1>0. TypeOK /\ AgentInv(a) /\ BookedOnce /\ pc[a] = "commit"
        /\ j \in Job /\ sig[a] \in Signal
    BY DEF LedgerInv, TypeOK, CommitClose
  <1>1. r \in Rows /\ j.leg \in Legs /\ row[r].status # "none"
        /\ (j.own => after[a] = "signal")
    BY <1>0 DEF AgentInv
  <1>2. row[r] \in Position /\ RowInv(r)
    BY <1>0, <1>1 DEF TypeOK, LedgerInv
  <1>3. pc'[a] \in {"book", "flatten", after[a]} /\ pc' = [pc EXCEPT ![a] = pc'[a]]
    BY <1>0, ResumeType DEF CommitClose, TypeOK, Unpaid
  <1>4. /\ sig' = [sig EXCEPT ![a] = s] /\ s \in Signal /\ (~j.own => s = sig[a])
        /\ s.link \in {r, sig[a].link}
    <2>1. j.gross \in Maybe(Int) /\ j.fee \in Int
      BY <1>0 DEF Job
    <2> DEFINE won == Outcome(sig[a], TRUE, j.gross, j.fee)
               lost == Outcome(sig[a], FALSE, NULL, 0)
    <2>2. won \in Signal /\ lost \in Signal /\ lost.link = sig[a].link
      <3>1. NULL \in Maybe(Int) /\ 0 \in Int /\ TRUE \in BOOLEAN /\ FALSE \in BOOLEAN
        OBVIOUS
      <3> HIDE DEF j
      <3>2. won \in Signal
        BY <1>0, <2>1, <3>1, OutcomeType
      <3>3. lost \in Signal /\ lost.link = sig[a].link
        BY <1>0, <3>1, OutcomeType
      <3> QED
        BY <3>2, <3>3
    <2>3. [won EXCEPT !.link = r] \in Signal /\ [won EXCEPT !.link = r].link = r
      <3> HIDE DEF won, r
      <3> QED
        BY <1>1, <2>2 DEF Signal
    <2>4. sig' = [sig EXCEPT ![a] = s]
      BY <1>0 DEF CommitClose, TypeOK
    <2> QED
      BY <1>0, <2>2, <2>3, <2>4
  <1>5. /\ job' = [job EXCEPT ![a] = NoJob]
        /\ UNCHANGED <<strat, exch, truth, after, halting, todo, found, swept, booked>>
    BY DEF CommitClose, exchVars
  <1>6. CASE Lands(r)
    <2> DEFINE u == Updated(j, row[r])
    <2>1. row' = [row EXCEPT ![r] = u] /\ ord' = Linked(a, j, r, inserted)
      BY <1>6 DEF CommitClose
    <2>2. /\ debt' = IF priced THEN [debt EXCEPT ![a][r] = @ + net] ELSE debt
          /\ owed' = IF priced THEN [owed EXCEPT ![r] = @ + net] ELSE owed
      BY <1>6 DEF CommitClose
    <2>3. row[r].status = "open"
      BY <1>6 DEF Lands, IsOpen
    <2>4. /\ u \in Position /\ u.leg = row[r].leg /\ net \in Maybe(Int)
          /\ u.status = IF j.full THEN "closed" ELSE "open"
          /\ u.pnl = IF priced THEN net ELSE row[r].pnl
      BY <1>0, <1>2, <2>3, UpdatedType
    <2>5. /\ ord' \in [Rows -> Linkage]
          /\ \A q \in Rows : q # r => ord'[q].priced = ord[q].priced
      BY <1>0, <1>1, <2>1, LinkedType
    <2>6. net # NULL => net \in Int
      BY <2>4
    <2> HIDE DEF j, r, net, u, s, priced
    <2>7. debt' \in [Agents -> [Rows -> Int]] /\ owed' \in [Rows -> Int]
      BY SMTT(30), <1>0, <1>1, <2>2, <2>6 DEF TypeOK, priced
    <2>8. TypeOK'
      <3>1. row' \in [Rows -> Position]
        BY <1>0, <1>1, <2>1, <2>4 DEF TypeOK
      <3>2. pc' \in [Agents -> Stages]
        BY <1>0, <1>3 DEF TypeOK, Stages
      <3>3. job' \in [Agents -> Job] /\ sig' \in [Agents -> Signal]
        BY <1>0, <1>4, <1>5, BlankType DEF TypeOK
      <3> QED
        BY <1>0, <1>5, <2>5, <2>7, <3>1, <3>2, <3>3 DEF TypeOK
    <2>9. \A q \in Rows : row[q].status # "none" => row'[q].status # "none"
      BY <1>0, <2>1, <2>4 DEF TypeOK
    <2>10. ASSUME NEW b \in Agents PROVE AgentInv(b)'
      <3>1. CASE b = a
        <4>1. job'[a] = NoJob /\ sig'[a] = s /\ after'[a] = after[a]
          BY <1>0, <1>4, <1>5 DEF TypeOK
        <4>2. after[a] \in {"idle", "signal", "select", "recover", "insert"}
          BY <1>0 DEF TypeOK
        <4>3. after[a] = "insert" => s = sig[a]
          BY <1>1, <1>4
        <4>4. s.link \in Rows => row'[s.link].status # "none"
          BY <1>0, <1>1, <1>4, <2>9 DEF AgentInv
        <4> QED
          BY <1>0, <1>3, <3>1, <4>1, <4>2, <4>3, <4>4, BlankType DEF AgentInv
      <3>2. CASE b # a
        BY <1>0, <1>3, <1>4, <1>5, <2>9, <3>2, OthersKeep DEF LedgerInv, TypeOK
      <3> QED
        BY <3>1, <3>2
    <2>11. ASSUME NEW q \in Rows PROVE RowInv(q)'
      <3>1. CASE q = r
        BY <1>0, <1>2, <1>5, <2>1, <2>3, <2>4, <3>1 DEF RowInv, TypeOK, priced
      <3>2. CASE q # r
        BY <1>0, <1>5, <2>1, <2>5, <3>2 DEF RowInv, TypeOK, LedgerInv
      <3> QED
        BY <3>1, <3>2
    <2>12. BookedOnce'
      <3> SUFFICES ASSUME NEW q \in Rows, ~swept[q]
                   PROVE  booked'[q] + owed'[q] = Amount(row'[q].pnl)
        BY <1>5 DEF BookedOnce
      <3>0. booked[q] + owed[q] = Amount(row[q].pnl) /\ booked[q] \in Int /\ owed[q] \in Int
        BY <1>0 DEF BookedOnce, TypeOK
      <3>1. CASE q = r /\ priced
        <4>1. row[r].pnl = NULL
          BY <1>2, <2>3, <3>1 DEF RowInv
        <4>2. row'[q].pnl = net /\ owed'[q] = owed[q] + net /\ net \in Int
          BY <1>0, <2>1, <2>2, <2>4, <2>6, <3>1 DEF TypeOK, priced
        <4> QED
          BY <1>5, <3>0, <3>1, <4>1, <4>2 DEF Amount
      <3>2. CASE q # r \/ ~priced
        <4>1. row'[q].pnl = row[q].pnl /\ owed'[q] = owed[q]
          BY <1>0, <2>1, <2>2, <2>4, <3>2 DEF TypeOK
        <4> QED
          BY <1>5, <3>0, <4>1
      <3> QED
        BY <3>1, <3>2
    <2> QED
      BY <2>8, <2>10, <2>11, <2>12 DEF LedgerInv
  <1>7. CASE ~Lands(r)
    <2>1. UNCHANGED <<row, ord, debt, owed>>
      BY <1>7 DEF CommitClose
    <2> HIDE DEF j, r, net, s, priced
    <2>2. TypeOK'
      <3>1. pc' \in [Agents -> Stages]
        BY <1>0, <1>3 DEF TypeOK, Stages
      <3>2. job' \in [Agents -> Job] /\ sig' \in [Agents -> Signal]
        BY <1>0, <1>4, <1>5, BlankType DEF TypeOK
      <3> QED
        BY <1>0, <1>5, <2>1, <3>1, <3>2 DEF TypeOK
    <2>3. ASSUME NEW b \in Agents PROVE AgentInv(b)'
      <3>1. CASE b = a
        <4>1. job'[a] = NoJob /\ sig'[a] = s /\ after'[a] = after[a]
          BY <1>0, <1>4, <1>5 DEF TypeOK
        <4>2. after[a] \in {"idle", "signal", "select", "recover", "insert"}
          BY <1>0 DEF TypeOK
        <4>3. after[a] = "insert" => s = sig[a]
          BY <1>1, <1>4
        <4>4. s.link \in Rows => row[s.link].status # "none"
          BY <1>0, <1>1, <1>4 DEF AgentInv
        <4> QED
          BY <1>0, <1>3, <2>1, <3>1, <4>1, <4>2, <4>3, <4>4, BlankType DEF AgentInv
      <3>2. CASE b # a
        BY <1>0, <1>3, <1>4, <1>5, <2>1, <3>2, OthersKeep DEF LedgerInv, TypeOK
      <3> QED
        BY <3>1, <3>2
    <2>4. ASSUME NEW q \in Rows PROVE RowInv(q)'
      BY <1>5, <2>1 DEF RowInv, LedgerInv
    <2>5. BookedOnce'
      BY <1>0, <1>5, <2>1 DEF BookedOnce
    <2> QED
      BY <2>2, <2>3, <2>4, <2>5 DEF LedgerInv
  <1> QED
    BY <1>6, <1>7

LEMMA CommitFailsInv ==
  ASSUME LedgerInv, NEW a \in Agents, CommitFails(a)
  PROVE  LedgerInv'
  <1>0. TypeOK /\ AgentInv(a) /\ BookedOnce /\ pc[a] = "commit"
    BY DEF LedgerInv, CommitFails
  <1>1. /\ job' = [job EXCEPT ![a] = NoJob]
        /\ UNCHANGED <<row, ord, strat, exch, truth, debt, found, swept, booked, owed>>
    BY DEF CommitFails, rowVars, exchVars, history
  <1>2. /\ pc'[a] \in {"flatten", "book", after'[a]} /\ pc' = [pc EXCEPT ![a] = pc'[a]]
        /\ \/ sig' = sig /\ after' = after
           \/ sig' = [sig EXCEPT ![a] = NoSignal] /\ after' = [after EXCEPT ![a] = "idle"]
    BY <1>0 DEF CommitFails, TypeOK
  <1>3. halting' \in [Agents -> BOOLEAN] /\ todo' \in [Agents -> SUBSET Legs]
    BY <1>0 DEF CommitFails, TypeOK
  <1>4. after' \in [Agents -> {"idle", "signal", "select", "recover", "insert"}]
        /\ sig' \in [Agents -> Signal]
    <2>1. CASE sig' = sig /\ after' = after
      BY <1>0, <2>1 DEF TypeOK
    <2>2. CASE sig' = [sig EXCEPT ![a] = NoSignal] /\ after' = [after EXCEPT ![a] = "idle"]
      BY <1>0, <2>2, BlankType DEF TypeOK
    <2> QED
      BY <1>2, <2>1, <2>2
  <1>5. TypeOK'
    <2>1. after'[a] \in Stages
      BY <1>4 DEF Stages
    <2>2. pc' \in [Agents -> Stages]
      BY <1>0, <1>2, <2>1 DEF TypeOK, Stages
    <2> QED
      BY <1>0, <1>1, <1>3, <1>4, <2>2, BlankType DEF TypeOK
  <1>6. ASSUME NEW b \in Agents PROVE AgentInv(b)'
    <2>1. CASE b = a
      <3>1. job'[a] = NoJob
        BY <1>0, <1>1 DEF TypeOK
      <3>2. CASE sig' = sig /\ after' = after
        BY <1>0, <1>1, <1>2, <1>4, <2>1, <3>1, <3>2, BlankType DEF AgentInv
      <3>3. CASE sig' = [sig EXCEPT ![a] = NoSignal] /\ after' = [after EXCEPT ![a] = "idle"]
        <4>1. sig'[a] = NoSignal /\ after'[a] = "idle"
          BY <1>0, <3>3 DEF TypeOK
        <4> QED
          BY <1>2, <2>1, <3>1, <4>1, BlankType DEF AgentInv
      <3> QED
        BY <1>2, <3>2, <3>3
    <2>2. CASE b # a
      BY <1>0, <1>1, <1>2, <2>2, OthersKeep DEF LedgerInv, TypeOK
    <2> QED
      BY <2>1, <2>2
  <1>7. ASSUME NEW q \in Rows PROVE RowInv(q)'
    BY <1>1 DEF RowInv, LedgerInv
  <1>8. BookedOnce'
    BY <1>0, <1>1 DEF BookedOnce
  <1> QED
    BY <1>5, <1>6, <1>7, <1>8 DEF LedgerInv

LEMMA PricedType ==
  ASSUME NEW k \in Linkage, NEW s \in Signal, s.gross \in Int, s.fee \in Int
  PROVE  Priced(k, s) \in Linkage
  <1>1. k.pnl \in Int /\ k.fee \in Int
    BY DEF Linkage
  <1> DEFINE x == k.pnl + s.gross
             y == k.fee + s.fee
  <1>2. x \in Int /\ y \in Int
    BY <1>1
  <1> HIDE DEF x, y
  <1>3. [k EXCEPT !.priced = TRUE, !.pnl = x, !.fee = y] \in Linkage
    BY <1>2 DEF Linkage
  <1> QED
    BY <1>3 DEF Priced, x, y

LEMMA PriceOrderInv ==
  ASSUME LedgerInv, NEW a \in Agents, PriceOrder(a)
  PROVE  LedgerInv'
  <1> DEFINE s == sig[a]
             silent == s.failed \/ s.gross = NULL \/ s.link = NULL
             o == Priced(ord[s.link], s)
  <1>0. TypeOK /\ AgentInv(a) /\ BookedOnce /\ pc[a] = "signal" /\ s \in Signal
    BY DEF LedgerInv, TypeOK, PriceOrder
  <1>1. ~silent => s.link \in Rows /\ s.gross \in Int /\ s.fee \in Int
    BY <1>0 DEF Signal
  <1>2. /\ pc' = [pc EXCEPT ![a] = "idle"] /\ sig' = [sig EXCEPT ![a] = NoSignal]
        /\ after' = [after EXCEPT ![a] = "idle"]
        /\ UNCHANGED <<row, strat, exch, truth, job, debt, halting, todo, found, swept, booked, owed>>
    BY DEF PriceOrder, exchVars, history
  <1>a. ord' = IF silent THEN ord ELSE [ord EXCEPT ![s.link] = o]
    BY DEF PriceOrder
  <1>3. ~silent => o \in Linkage
    <2>1. ~silent => ord[s.link] \in Linkage
      BY <1>0, <1>1 DEF TypeOK
    <2> HIDE DEF s, silent
    <2> QED
      BY <1>0, <1>1, <2>1, PricedType
  <1>4. ~silent => row[s.link].status # "none"
    BY <1>0, <1>1 DEF AgentInv
  <1> HIDE DEF s, silent, o
  <1>5. ord' \in [Rows -> Linkage]
    BY <1>0, <1>1, <1>a, <1>3 DEF TypeOK
  <1>6. TypeOK'
    BY <1>0, <1>2, <1>5, BlankType DEF TypeOK, Stages
  <1>7. ASSUME NEW b \in Agents PROVE AgentInv(b)'
    <2>1. CASE b = a
      <3>1. pc'[a] = "idle" /\ sig'[a] = NoSignal /\ after'[a] = "idle" /\ job'[a] = job[a]
        BY <1>0, <1>2 DEF TypeOK
      <3>2. ~job[a].own
        BY <1>0 DEF AgentInv
      <3> QED
        BY <2>1, <3>1, <3>2, BlankType DEF AgentInv
    <2>2. CASE b # a
      BY <1>0, <1>2, <2>2, OthersKeep DEF LedgerInv, TypeOK
    <2> QED
      BY <2>1, <2>2
  <1>8. ASSUME NEW q \in Rows PROVE RowInv(q)'
    <2>1. row[q].status = "none" => ord'[q] = ord[q]
      BY <1>0, <1>1, <1>a, <1>4 DEF TypeOK
    <2> QED
      BY <1>2, <2>1 DEF RowInv, LedgerInv
  <1>9. BookedOnce'
    BY <1>0, <1>2 DEF BookedOnce
  <1> QED
    BY <1>6, <1>7, <1>8, <1>9 DEF LedgerInv

LEMMA BookInv ==
  ASSUME LedgerInv, NEW a \in Agents, NEW r \in Rows, Book(a, r)
  PROVE  LedgerInv'
  <1> DEFINE d == debt[a][r]
             peak == MaxOf(strat.peak, Capital + d)
  <1>0. TypeOK /\ AgentInv(a) /\ BookedOnce /\ pc[a] = "book" /\ d \in Int
    BY DEF LedgerInv, TypeOK, Book
  <1>1. strat.total \in Int /\ strat.peak \in Int /\ strat.enabled \in BOOLEAN
    BY <1>0 DEF TypeOK
  <1>2. strat.total + d \in Int /\ peak \in Int
    BY <1>0, <1>1, MoneyAssumption DEF MaxOf, Capital
  <1>3. strat' = [total |-> strat.total + d, peak |-> peak, enabled |-> strat.enabled]
    BY <1>0 DEF Book, TypeOK
  <1>4. /\ debt' = [debt EXCEPT ![a][r] = 0] /\ pc' = [pc EXCEPT ![a] = "check"]
        /\ owed' = [owed EXCEPT ![r] = @ - d] /\ booked' = [booked EXCEPT ![r] = @ + d]
        /\ UNCHANGED <<row, ord, exch, truth, job, sig, after, halting, todo, found, swept>>
    BY DEF Book, exchVars
  <1> HIDE DEF peak, d
  <1>5. strat' \in [total: Int, peak: Int, enabled: BOOLEAN]
    BY <1>1, <1>2, <1>3
  <1>6. TypeOK'
    <2>1. pc' \in [Agents -> Stages]
      BY <1>0, <1>4 DEF TypeOK, Stages
    <2>2. /\ debt' \in [Agents -> [Rows -> Int]] /\ owed' \in [Rows -> Int]
          /\ booked' \in [Rows -> Int]
      BY SMTT(30), <1>0, <1>4 DEF TypeOK
    <2> QED
      BY <1>0, <1>4, <1>5, <2>1, <2>2 DEF TypeOK
  <1>7. ASSUME NEW b \in Agents PROVE AgentInv(b)'
    BY <1>0, <1>4 DEF AgentInv, LedgerInv, TypeOK
  <1>8. ASSUME NEW q \in Rows PROVE RowInv(q)'
    BY <1>4 DEF RowInv, LedgerInv
  <1>9. BookedOnce'
    BY <1>0, <1>4 DEF BookedOnce, TypeOK
  <1> QED
    BY <1>6, <1>7, <1>8, <1>9 DEF LedgerInv

LEMMA BookFailsInv ==
  ASSUME LedgerInv, NEW a \in Agents, NEW r \in Rows, BookFails(a, r)
  PROVE  LedgerInv'
  <1>0. TypeOK /\ AgentInv(a) /\ BookedOnce /\ pc[a] = "book"
    BY DEF LedgerInv, BookFails
  <1>1. debt' = [debt EXCEPT ![a][r] = 0]
        /\ UNCHANGED <<row, ord, strat, exch, truth, job, sig, after, halting, todo, found,
                       swept, booked, owed>>
    BY DEF BookFails, rowVars, exchVars, history
  <1>2. pc'[a] \in {"book", "flatten", after[a]} /\ pc' = [pc EXCEPT ![a] = pc'[a]]
    BY <1>0, ResumeType DEF BookFails, TypeOK, Unpaid
  <1>3. TypeOK'
    <2>1. pc' \in [Agents -> Stages]
      BY <1>0, <1>2 DEF TypeOK, Stages
    <2> QED
      BY SMTT(30), <1>0, <1>1, <1>2, <2>1 DEF TypeOK
  <1>4. ASSUME NEW b \in Agents PROVE AgentInv(b)'
    BY <1>0, <1>1, <1>2 DEF AgentInv, LedgerInv, TypeOK
  <1>5. ASSUME NEW q \in Rows PROVE RowInv(q)'
    BY <1>1 DEF RowInv, LedgerInv
  <1>6. BookedOnce'
    BY <1>0, <1>1 DEF BookedOnce
  <1> QED
    BY <1>3, <1>4, <1>5, <1>6 DEF LedgerInv

LEMMA CheckDrawdownInv ==
  ASSUME LedgerInv, NEW a \in Agents, CheckDrawdown(a)
  PROVE  LedgerInv'
  <1>0. TypeOK /\ AgentInv(a) /\ BookedOnce /\ pc[a] = "check"
    BY DEF LedgerInv, CheckDrawdown
  <1>1. UNCHANGED <<row, ord, strat, exch, truth, job, debt, sig, after, found,
                  swept, booked, owed>>
    BY DEF CheckDrawdown, rowVars, exchVars, history
  <1>2. pc'[a] \in {"book", "flatten", after[a]} /\ pc' = [pc EXCEPT ![a] = pc'[a]]
    BY <1>0, ResumeType DEF CheckDrawdown, TypeOK, Unpaid
  <1>3. halting' \in [Agents -> BOOLEAN] /\ todo' \in [Agents -> SUBSET Legs]
    <2>1. CASE strat.enabled /\ Breached
      <3> DEFINE more == {l \in Legs : OpenIn(l) # {}}
      <3>1. halting' = [halting EXCEPT ![a] = TRUE]
            /\ todo' = [todo EXCEPT ![a] = todo[a] \cup more]
        BY <2>1 DEF CheckDrawdown
      <3>2. more \in SUBSET Legs
        OBVIOUS
      <3> HIDE DEF more
      <3> QED
        BY <1>0, <3>1, <3>2 DEF TypeOK
    <2>2. CASE ~(strat.enabled /\ Breached)
      BY <1>0, <2>2 DEF CheckDrawdown, TypeOK
    <2> QED
      BY <2>1, <2>2
  <1>4. TypeOK'
    <2>1. pc' \in [Agents -> Stages]
      BY <1>0, <1>2 DEF TypeOK, Stages
    <2> QED
      BY <1>0, <1>1, <1>2, <1>3, <2>1 DEF TypeOK
  <1>5. ASSUME NEW b \in Agents PROVE AgentInv(b)'
    BY <1>0, <1>1, <1>2 DEF AgentInv, LedgerInv, TypeOK
  <1>6. ASSUME NEW q \in Rows PROVE RowInv(q)'
    BY <1>1 DEF RowInv, LedgerInv
  <1>7. BookedOnce'
    BY <1>0, <1>1 DEF BookedOnce
  <1> QED
    BY <1>4, <1>5, <1>6, <1>7 DEF LedgerInv

LEMMA FlattenLegInv ==
  ASSUME LedgerInv, NEW a \in Agents, NEW l \in Legs, FlattenLeg(a, l)
  PROVE  LedgerInv'
  <1>0. TypeOK /\ AgentInv(a) /\ BookedOnce /\ pc[a] = "flatten"
    BY DEF LedgerInv, FlattenLeg
  <1>1. todo' = [todo EXCEPT ![a] = @ \ {l}]
        /\ UNCHANGED <<row, ord, strat, exch, truth, debt, sig, after, halting, found,
                       swept, booked, owed>>
    BY DEF FlattenLeg, rowVars, exchVars, history
  <1>2. \/ pc' = pc /\ job' = job
        \/ \E r \in OpenIn(l) : /\ pc' = [pc EXCEPT ![a] = "exchange"]
                                /\ job' = [job EXCEPT ![a] = Closing(r, NULL, FALSE)]
    BY DEF FlattenLeg
  <1>3. \/ pc' = pc /\ job' = job
        \/ \E k \in Job : /\ pc' = [pc EXCEPT ![a] = "exchange"]
                          /\ job' = [job EXCEPT ![a] = k]
                          /\ k.row \in Rows /\ k.leg = l /\ ~k.own
                          /\ row[k.row].status = "open"
    <2>1. ASSUME NEW r \in OpenIn(l),
                 pc' = [pc EXCEPT ![a] = "exchange"],
                 job' = [job EXCEPT ![a] = Closing(r, NULL, FALSE)]
          PROVE  \E k \in Job : /\ pc' = [pc EXCEPT ![a] = "exchange"]
                               /\ job' = [job EXCEPT ![a] = k]
                               /\ k.row \in Rows /\ k.leg = l /\ ~k.own
                               /\ row[k.row].status = "open"
      <3> DEFINE k == Closing(r, NULL, FALSE)
      <3>1. r \in Rows /\ row[r].leg = l /\ row[r].status = "open"
        BY DEF OpenIn, IsOpen
      <3>2. k \in Job /\ k.row = r /\ k.leg = row[r].leg /\ k.own = FALSE
        BY <1>0, <3>1, ClosingType
      <3>3. pc' = [pc EXCEPT ![a] = "exchange"] /\ job' = [job EXCEPT ![a] = k]
        BY <2>1
      <3> HIDE DEF k
      <3> QED
        BY <3>1, <3>2, <3>3
    <2> QED
      BY <1>2, <2>1
  <1>4. TypeOK'
    <2>1. pc \in [Agents -> Stages] /\ job \in [Agents -> Job] /\ "exchange" \in Stages
      BY <1>0 DEF TypeOK, Stages
    <2>3. pc' \in [Agents -> Stages] /\ job' \in [Agents -> Job]
      <3>1. CASE pc' = pc /\ job' = job
        BY <2>1, <3>1
      <3>2. CASE pc' # pc \/ job' # job
        <4>1. PICK k \in Job : pc' = [pc EXCEPT ![a] = "exchange"] /\ job' = [job EXCEPT ![a] = k]
          BY <1>3, <3>2
        <4> QED
          BY <2>1, <4>1
      <3> QED
        BY <3>1, <3>2
    <2>2. todo' \in [Agents -> SUBSET Legs]
      BY <1>0, <1>1 DEF TypeOK
    <2> QED
      BY <1>0, <1>1, <2>3, <2>2 DEF TypeOK
  <1>5. ASSUME NEW b \in Agents PROVE AgentInv(b)'
    BY <1>0, <1>1, <1>3 DEF AgentInv, LedgerInv, TypeOK
  <1>6. ASSUME NEW q \in Rows PROVE RowInv(q)'
    BY <1>1 DEF RowInv, LedgerInv
  <1>7. BookedOnce'
    BY <1>0, <1>1 DEF BookedOnce
  <1> QED
    BY <1>4, <1>5, <1>6, <1>7 DEF LedgerInv

LEMMA DisableInv ==
  ASSUME LedgerInv, NEW a \in Agents, Disable(a)
  PROVE  LedgerInv'
  <1>0. TypeOK /\ AgentInv(a) /\ BookedOnce /\ pc[a] = "flatten"
    BY DEF LedgerInv, Disable
  <1>1. /\ halting' = [halting EXCEPT ![a] = FALSE]
        /\ UNCHANGED <<row, ord, exch, truth, job, debt, sig, after, todo, found,
                       swept, booked, owed>>
    BY DEF Disable, exchVars, history
  <1>2. pc'[a] \in {"book", after[a]} /\ pc' = [pc EXCEPT ![a] = pc'[a]]
    BY <1>0 DEF Disable, TypeOK
  <1>3. strat' \in [total: Int, peak: Int, enabled: BOOLEAN]
    <2>1. strat \in [total: Int, peak: Int, enabled: BOOLEAN]
          /\ strat' = [strat EXCEPT !.enabled = FALSE]
      BY <1>0 DEF TypeOK, Disable
    <2> QED
      BY <2>1
  <1>4. TypeOK'
    <2>1. pc' \in [Agents -> Stages]
      BY <1>0, <1>2 DEF TypeOK, Stages
    <2> QED
      BY <1>0, <1>1, <1>2, <1>3, <2>1 DEF TypeOK
  <1>5. ASSUME NEW b \in Agents PROVE AgentInv(b)'
    BY <1>0, <1>1, <1>2 DEF AgentInv, LedgerInv, TypeOK
  <1>6. ASSUME NEW q \in Rows PROVE RowInv(q)'
    BY <1>1 DEF RowInv, LedgerInv
  <1>7. BookedOnce'
    BY <1>0, <1>1 DEF BookedOnce
  <1> QED
    BY <1>4, <1>5, <1>6, <1>7 DEF LedgerInv

LEMMA HistoryType ==
  ASSUME TypeOK, NEW r \in Rows, row[r].leg \in Legs
  PROVE  /\ History(r) \in Maybe(Rows)
         /\ \A e \in Rows : /\ HistoryFee(e) \in Int /\ truth[e].gross \in Int
                            /\ RemainingPnl(e, r) \in Int /\ RemainingFee(e, r) \in Int
  <1>1. History(r) \in Maybe(Rows)
    <2>1. exch[row[r].leg].last \in Maybe(Rows)
      BY DEF TypeOK, Holding
    <2> QED
      BY <2>1 DEF History
  <1>2. ASSUME NEW e \in Rows
        PROVE  /\ HistoryFee(e) \in Int /\ truth[e].gross \in Int
               /\ RemainingPnl(e, r) \in Int /\ RemainingFee(e, r) \in Int
    <2>1. truth[e].gross \in Int /\ truth[e].fee \in Int
      BY DEF TypeOK, Ledger
    <2>2. ord[r].pnl \in Int /\ ord[r].fee \in Int
      BY DEF TypeOK, Linkage
    <2>3. HistoryFee(e) \in Int
      BY <2>1, MoneyAssumption DEF HistoryFee, WholeFee, ClosingFee
    <2>4. RemainingPnl(e, r) \in Int
      BY <2>1, <2>2 DEF RemainingPnl
    <2>5. RemainingFee(e, r) \in Int
      BY <2>2, <2>3, MoneyAssumption DEF RemainingFee, MaxOf
    <2> QED
      BY <2>1, <2>3, <2>4, <2>5
  <1> QED
    BY <1>1, <1>2

\* A coroutine that starts on a close of an open row, at any stage that holds a job.
LEMMA StartedJobInv ==
  ASSUME LedgerInv, NEW a \in Agents, NEW k \in Job, NEW stage \in {"external", "commit"},
         k.row \in Rows, k.leg \in Legs, ~k.own, row[k.row].status # "none",
         pc' = [pc EXCEPT ![a] = stage], job' = [job EXCEPT ![a] = k],
         after'[a] = "idle", after' = [after EXCEPT ![a] = "idle"],
         UNCHANGED <<row, ord, strat, exch, truth, debt, sig, halting, todo, found,
                     swept, booked, owed>>
  PROVE  LedgerInv'
  <1>0. TypeOK /\ AgentInv(a) /\ BookedOnce
    BY DEF LedgerInv
  <1>1. TypeOK'
    <2>1. pc' \in [Agents -> Stages]
      BY <1>0 DEF TypeOK, Stages
    <2> QED
      BY <1>0, <2>1 DEF TypeOK
  <1>2. ASSUME NEW b \in Agents PROVE AgentInv(b)'
    <2>1. CASE b = a
      BY <1>0, <2>1 DEF AgentInv, TypeOK
    <2>2. CASE b # a
      BY <1>0, <2>2, OthersKeep DEF LedgerInv, TypeOK
    <2> QED
      BY <2>1, <2>2
  <1>3. ASSUME NEW q \in Rows PROVE RowInv(q)'
    BY DEF RowInv, LedgerInv
  <1>4. BookedOnce'
    BY <1>0 DEF BookedOnce
  <1> QED
    BY <1>1, <1>2, <1>3, <1>4 DEF LedgerInv

LEMMA ExternalCloseInv ==
  ASSUME LedgerInv, NEW a \in Agents, NEW r \in Rows, ExternalClose(a, r)
  PROVE  LedgerInv'
  <1> DEFINE e == History(r)
             c == Closing(r, NULL, FALSE)
             k == [c EXCEPT !.gross = RemainingPnl(e, r), !.fee = RemainingFee(e, r)]
  <1>0. TypeOK /\ row[r].status = "open" /\ row[r].leg \in Legs
    BY DEF LedgerInv, RowInv, ExternalClose, IsOpen
  <1>1. c \in Job /\ c.row = r /\ c.leg = row[r].leg /\ c.own = FALSE
    BY <1>0, ClosingType
  <1>2. e \in Maybe(Rows)
        /\ (e # NULL => RemainingPnl(e, r) \in Int /\ RemainingFee(e, r) \in Int)
    BY <1>0, HistoryType
  <1>3. /\ pc' = [pc EXCEPT ![a] = "external"] /\ after' = [after EXCEPT ![a] = "idle"]
        /\ UNCHANGED <<row, ord, strat, exch, truth, debt, sig, halting, todo, found,
                       swept, booked, owed>>
    BY DEF ExternalClose, rowVars, exchVars, history
  <1>4. after'[a] = "idle"
    BY <1>0, <1>3 DEF TypeOK
  <1>5. CASE e # NULL /\ job' = [job EXCEPT ![a] = k]
    <2>1. k \in Job /\ k.row = r /\ k.leg = row[r].leg /\ k.own = FALSE
      <3> HIDE DEF c, e
      <3> QED
        BY <1>1, <1>2, <1>5 DEF Job
    <2> HIDE DEF k
    <2> QED
      BY <1>0, <1>3, <1>4, <1>5, <2>1, StartedJobInv
  <1>6. CASE job' = [job EXCEPT ![a] = c]
    <2> HIDE DEF c
    <2> QED
      BY <1>0, <1>1, <1>3, <1>4, <1>6, StartedJobInv
  <1> QED
    BY <1>5, <1>6 DEF ExternalClose

LEMMA ExternalReduceInv ==
  ASSUME LedgerInv, NEW a \in Agents, NEW r \in Rows, ExternalReduce(a, r)
  PROVE  LedgerInv'
  <1> DEFINE want == row[r].size - exch[row[r].leg].size
             c == Closing(r, want, FALSE)
  <1>0. TypeOK /\ row[r].status = "open" /\ row[r].leg \in Legs
    BY DEF LedgerInv, RowInv, ExternalReduce, IsOpen
  <1>1. want \in Maybe(Nat)
    <2>1. row[r].size \in Int /\ exch[row[r].leg].size \in Nat
      BY <1>0 DEF TypeOK, Position, Holding
    <2> QED
      BY <2>1 DEF ExternalReduce
  <1>2. c \in Job /\ c.row = r /\ c.leg = row[r].leg /\ c.own = FALSE
    BY <1>0, <1>1, ClosingType
  <1>3. /\ pc' = [pc EXCEPT ![a] = "commit"] /\ after' = [after EXCEPT ![a] = "idle"]
        /\ job' = [job EXCEPT ![a] = c]
        /\ UNCHANGED <<row, ord, strat, exch, truth, debt, sig, halting, todo, found,
                       swept, booked, owed>>
    BY DEF ExternalReduce, rowVars, exchVars, history
  <1>4. after'[a] = "idle"
    BY <1>0, <1>3 DEF TypeOK
  <1> HIDE DEF c
  <1> QED
    BY <1>0, <1>2, <1>3, <1>4, StartedJobInv

LEMMA ExternalSelectInv ==
  ASSUME LedgerInv, NEW a \in Agents, ExternalSelect(a)
  PROVE  LedgerInv'
  <1> DEFINE l == job[a].leg
  <1>0. TypeOK /\ AgentInv(a) /\ BookedOnce /\ pc[a] = "external" /\ job[a] \in Job
        /\ l \in Legs /\ ~job[a].own
    BY DEF LedgerInv, AgentInv, TypeOK, ExternalSelect
  <1>1. UNCHANGED <<row, ord, strat, exch, truth, debt, sig, after, halting, todo, found,
                    swept, booked, owed>>
    BY DEF ExternalSelect, rowVars, exchVars, history
  <1>2. \E k \in Job, stage \in {"commit", "idle"} :
          /\ pc' = [pc EXCEPT ![a] = stage] /\ job' = [job EXCEPT ![a] = k]
          /\ ~k.own
          /\ stage = "commit" =>
               k.row \in Rows /\ k.leg \in Legs /\ row[k.row].status # "none"
    <2>1. CASE \E q \in OpenIn(l) :
                 /\ pc' = [pc EXCEPT ![a] = "commit"]
                 /\ job' = [job EXCEPT ![a].row = q, ![a].size = row[q].size]
      <3>1. PICK q \in OpenIn(l) :
              /\ pc' = [pc EXCEPT ![a] = "commit"]
              /\ job' = [job EXCEPT ![a].row = q, ![a].size = row[q].size]
        BY <2>1
      <3>2. q \in Rows /\ row[q].status = "open"
        BY DEF OpenIn, IsOpen
      <3>3. row[q].size \in Int
        BY <1>0, <3>2 DEF TypeOK, Position
      <3> DEFINE k == [job[a] EXCEPT !.row = q, !.size = row[q].size]
      <3>4. k \in Job /\ k.row = q /\ k.leg = l /\ k.own = job[a].own
        BY <1>0, <3>2, <3>3 DEF Job
      <3>5. job' = [job EXCEPT ![a] = k]
        BY <1>0, <3>1 DEF TypeOK
      <3> HIDE DEF k, l
      <3> QED
        BY <1>0, <3>1, <3>2, <3>4, <3>5
    <2>2. CASE pc' = [pc EXCEPT ![a] = "idle"] /\ job' = [job EXCEPT ![a] = NoJob]
      BY <2>2, BlankType
    <2> QED
      BY <2>1, <2>2 DEF ExternalSelect
  <1>3. PICK k \in Job, stage \in {"commit", "idle"} :
          /\ pc' = [pc EXCEPT ![a] = stage] /\ job' = [job EXCEPT ![a] = k]
          /\ ~k.own
          /\ stage = "commit" =>
               k.row \in Rows /\ k.leg \in Legs /\ row[k.row].status # "none"
    BY <1>2
  <1> HIDE DEF l
  <1>4. TypeOK'
    <2>1. pc' \in [Agents -> Stages] /\ job' \in [Agents -> Job]
      BY <1>0, <1>3 DEF TypeOK, Stages
    <2> QED
      BY <1>0, <1>1, <2>1 DEF TypeOK
  <1>5. ASSUME NEW b \in Agents PROVE AgentInv(b)'
    <2>1. CASE b = a
      BY <1>0, <1>1, <1>3, <2>1 DEF AgentInv, TypeOK
    <2>2. CASE b # a
      BY <1>0, <1>1, <1>3, <2>2, OthersKeep DEF LedgerInv, TypeOK
    <2> QED
      BY <2>1, <2>2
  <1>6. ASSUME NEW q \in Rows PROVE RowInv(q)'
    BY <1>1 DEF RowInv, LedgerInv
  <1>7. BookedOnce'
    BY <1>0, <1>1 DEF BookedOnce
  <1> QED
    BY <1>4, <1>5, <1>6, <1>7 DEF LedgerInv

LEMMA OrderTotalType ==
  ASSUME TypeOK, NEW r \in Rows
  PROVE  OrderTotal(r) \in Int
  <1>1. ord[r].pnl \in Int /\ ord[r].fee \in Int
    BY DEF TypeOK, Linkage
  <1> QED
    BY <1>1, MoneyAssumption DEF OrderTotal

LEMMA SyncAttributeInv ==
  ASSUME LedgerInv, NEW a \in Agents, SyncAttribute(a)
  PROVE  LedgerInv'
  <1> DEFINE newly == {r \in Rows : ord[r].priced /\ row[r].pnl = NULL}
             gain(r) == IF r \in newly THEN OrderTotal(r) ELSE 0
             p(r) == [row[r] EXCEPT !.pnl = OrderTotal(r)]
  <1>0. TypeOK /\ AgentInv(a) /\ BookedOnce /\ pc[a] = "idle"
    BY DEF LedgerInv, SyncAttribute
  <1>1. /\ row' = [r \in Rows |-> IF r \in newly THEN p(r) ELSE row[r]]
        /\ debt' = [debt EXCEPT ![a] = [r \in Rows |-> debt[a][r] + gain(r)]]
        /\ owed' = [r \in Rows |-> owed[r] + gain(r)]
        /\ swept' = [r \in Rows |-> swept[r] \/ (r \in newly /\ IsOpen(r))]
        /\ pc' = [pc EXCEPT ![a] = "correct"] /\ after' = [after EXCEPT ![a] = "select"]
        /\ UNCHANGED <<ord, strat, exch, truth, job, sig, halting, todo, found, booked>>
    BY DEF SyncAttribute, exchVars
  <1>2. ASSUME NEW r \in Rows
        PROVE  /\ p(r) \in Position /\ p(r).status = row[r].status /\ p(r).leg = row[r].leg
               /\ p(r).pnl = OrderTotal(r) /\ OrderTotal(r) \in Int /\ gain(r) \in Int
    <2>1. OrderTotal(r) \in Int /\ row[r] \in Position
      BY <1>0, OrderTotalType DEF TypeOK
    <2> QED
      BY <2>1 DEF Position
  <1>3. ASSUME NEW r \in Rows PROVE (r \in newly) = (ord[r].priced /\ row[r].pnl = NULL)
    OBVIOUS
  <1>4. ASSUME NEW r \in Rows
        PROVE  /\ r \in newly => gain(r) = OrderTotal(r)
               /\ r \notin newly => gain(r) = 0
    OBVIOUS
  <1> HIDE DEF newly, gain, p
  <1>5. TypeOK'
    <2>1. row' \in [Rows -> Position]
      BY <1>0, <1>1, <1>2 DEF TypeOK
    <2>2. debt' \in [Agents -> [Rows -> Int]]
      <3>1. [r \in Rows |-> debt[a][r] + gain(r)] \in [Rows -> Int]
        BY <1>0, <1>2 DEF TypeOK
      <3> QED
        BY <1>0, <1>1, <3>1 DEF TypeOK
    <2>3. owed' \in [Rows -> Int]
      BY <1>0, <1>1, <1>2 DEF TypeOK
    <2>4. swept' \in [Rows -> BOOLEAN]
      <3>1. \A r \in Rows : (swept[r] \/ (r \in newly /\ IsOpen(r))) \in BOOLEAN
        OBVIOUS
      <3> QED
        BY <1>1, <3>1
    <2>5. pc' \in [Agents -> Stages]
      BY <1>0, <1>1 DEF TypeOK, Stages
    <2>6. after' \in [Agents -> {"idle", "signal", "select", "recover", "insert"}]
      BY <1>0, <1>1 DEF TypeOK
    <2> QED
      BY <1>0, <1>1, <2>1, <2>2, <2>3, <2>4, <2>5, <2>6 DEF TypeOK
  <1>6. \A q \in Rows : row'[q].status = row[q].status
    BY <1>1, <1>2
  <1>7. ASSUME NEW b \in Agents PROVE AgentInv(b)'
    <2>1. CASE b = a
      <3>1. pc'[a] = "correct" /\ after'[a] = "select"
        BY <1>0, <1>1 DEF TypeOK
      <3>2. UNCHANGED <<job, sig>>
        BY <1>1
      <3> QED
        BY <1>0, <1>6, <2>1, <3>1, <3>2 DEF AgentInv
    <2>2. CASE b # a
      BY <1>0, <1>1, <1>6, <2>2, OthersKeep DEF LedgerInv, TypeOK
    <2> QED
      BY <2>1, <2>2
  <1>8. ASSUME NEW q \in Rows PROVE RowInv(q)'
    <2>1. RowInv(q)
      BY DEF LedgerInv
    <2>2. CASE q \in newly
      <3>1. row'[q] = p(q) /\ ord' = ord /\ swept'[q] = (swept[q] \/ IsOpen(q))
        BY <1>1, <2>2
      <3>2. row[q].status \in {"none", "open", "closed"}
        BY <1>0 DEF TypeOK, Position
      <3> QED
        BY <1>2, <1>3, <2>1, <2>2, <3>1, <3>2 DEF RowInv, IsOpen
    <2>3. CASE q \notin newly
      <3>1. row'[q] = row[q] /\ ord' = ord /\ swept'[q] = swept[q]
        BY <1>0, <1>1, <2>3 DEF TypeOK
      <3> QED
        BY <2>1, <3>1 DEF RowInv
    <2> QED
      BY <2>2, <2>3
  <1>9. BookedOnce'
    <2> SUFFICES ASSUME NEW q \in Rows, ~swept'[q]
                 PROVE  booked'[q] + owed'[q] = Amount(row'[q].pnl)
      BY DEF BookedOnce
    <2>1. ~swept[q] /\ booked' = booked /\ owed'[q] = owed[q] + gain(q)
      BY <1>1
    <2>2. booked[q] + owed[q] = Amount(row[q].pnl) /\ booked[q] \in Int /\ owed[q] \in Int
      BY <1>0, <2>1 DEF BookedOnce, TypeOK
    <2>3. CASE q \in newly
      <3>1. row'[q] = p(q) /\ row[q].pnl = NULL /\ gain(q) = OrderTotal(q)
        BY <1>1, <1>3, <1>4, <2>3
      <3>2. booked[q] + owed[q] = 0
        BY <2>2, <3>1 DEF Amount
      <3>3. Amount(row'[q].pnl) = OrderTotal(q) /\ OrderTotal(q) \in Int
        BY <1>2, <3>1 DEF Amount
      <3> QED
        BY <2>1, <2>2, <3>1, <3>2, <3>3
    <2>4. CASE q \notin newly
      <3>1. row'[q] = row[q] /\ gain(q) = 0
        BY <1>1, <1>4, <2>4
      <3> QED
        BY <2>1, <2>2, <3>1
    <2> QED
      BY <2>3, <2>4
  <1> QED
    BY <1>5, <1>7, <1>8, <1>9 DEF LedgerInv

LEMMA SyncCorrectInv ==
  ASSUME LedgerInv, NEW a \in Agents, SyncCorrect(a)
  PROVE  LedgerInv'
  <1> DEFINE changed == {r \in Rows : ord[r].priced /\ row[r].pnl # NULL
                                        /\ row[r].pnl # OrderTotal(r)}
             delta(r) == IF r \in changed THEN Correction(r) ELSE 0
             p(r) == [row[r] EXCEPT !.pnl = OrderTotal(r)]
  <1>0. TypeOK /\ AgentInv(a) /\ BookedOnce /\ pc[a] = "correct"
    BY DEF LedgerInv, SyncCorrect
  <1>1. /\ row' = [r \in Rows |-> IF r \in changed THEN p(r) ELSE row[r]]
        /\ debt' = [debt EXCEPT ![a] = [r \in Rows |-> debt[a][r] + delta(r)]]
        /\ owed' = [r \in Rows |-> owed[r] + delta(r)]
        /\ UNCHANGED <<ord, strat, exch, truth, job, sig, after, halting, todo, found, swept, booked>>
    BY DEF SyncCorrect, exchVars
  <1>a. pc'[a] \in {"book", "select"} /\ pc' = [pc EXCEPT ![a] = pc'[a]]
    BY <1>0 DEF SyncCorrect, TypeOK
  <1>2. ASSUME NEW r \in Rows
        PROVE  /\ p(r) \in Position /\ p(r).status = row[r].status /\ p(r).leg = row[r].leg
               /\ p(r).pnl = OrderTotal(r) /\ OrderTotal(r) \in Int
    <2>1. OrderTotal(r) \in Int /\ row[r] \in Position
      BY <1>0, OrderTotalType DEF TypeOK
    <2> QED
      BY <2>1 DEF Position
  <1>3. ASSUME NEW r \in changed
        PROVE  /\ row[r].pnl # NULL /\ row[r].pnl \in Int /\ ord[r].priced
               /\ delta(r) = OrderTotal(r) - row[r].pnl
    <2>1. r \in Rows /\ row[r].pnl # NULL /\ row[r].pnl \in Maybe(Int) /\ ord[r].priced
      BY <1>0 DEF TypeOK, Position
    <2> QED
      BY <2>1 DEF Correction
  <1>4. ASSUME NEW r \in Rows PROVE delta(r) \in Int /\ (r \notin changed => delta(r) = 0)
    <2>1. CASE r \in changed
      <3>1. delta(r) = OrderTotal(r) - row[r].pnl /\ row[r].pnl \in Int
        BY <1>3, <2>1
      <3>2. OrderTotal(r) \in Int
        BY <1>2
      <3> HIDE DEF delta, changed
      <3> QED
        BY <2>1, <3>1, <3>2
    <2>2. CASE r \notin changed
      BY <2>2
    <2> QED
      BY <2>1, <2>2
  <1>5. changed \subseteq Rows
    OBVIOUS
  <1> HIDE DEF changed, delta, p
  <1>6. TypeOK'
    <2>1. row' \in [Rows -> Position]
      BY <1>0, <1>1, <1>2 DEF TypeOK
    <2>2. debt' \in [Agents -> [Rows -> Int]]
      <3>1. [r \in Rows |-> debt[a][r] + delta(r)] \in [Rows -> Int]
        BY <1>0, <1>4 DEF TypeOK
      <3> QED
        BY <1>0, <1>1, <3>1 DEF TypeOK
    <2>3. owed' \in [Rows -> Int]
      BY <1>0, <1>1, <1>4 DEF TypeOK
    <2>4. pc' \in [Agents -> Stages]
      BY <1>0, <1>a DEF TypeOK, Stages
    <2> QED
      BY <1>0, <1>1, <2>1, <2>2, <2>3, <2>4 DEF TypeOK
  <1>7. \A q \in Rows : row'[q].status = row[q].status
    BY <1>1, <1>2
  <1>8. ASSUME NEW b \in Agents PROVE AgentInv(b)'
    <2>1. CASE b = a
      BY <1>0, <1>1, <1>a, <1>7, <2>1 DEF AgentInv
    <2>2. CASE b # a
      BY <1>0, <1>1, <1>a, <1>7, <2>2, OthersKeep DEF LedgerInv, TypeOK
    <2> QED
      BY <2>1, <2>2
  <1>9. ASSUME NEW q \in Rows PROVE RowInv(q)'
    <2>1. RowInv(q) /\ ord' = ord /\ swept' = swept
      BY <1>1 DEF LedgerInv
    <2>2. CASE q \in changed
      <3>1. row'[q] = p(q)
        BY <1>1, <2>2
      <3> QED
        BY <1>2, <1>3, <2>1, <2>2, <3>1 DEF RowInv
    <2>3. CASE q \notin changed
      BY <1>1, <2>1, <2>3 DEF RowInv
    <2> QED
      BY <2>2, <2>3
  <1>10. BookedOnce'
    <2> SUFFICES ASSUME NEW q \in Rows, ~swept'[q]
                 PROVE  booked'[q] + owed'[q] = Amount(row'[q].pnl)
      BY DEF BookedOnce
    <2>1. ~swept[q] /\ booked' = booked /\ owed'[q] = owed[q] + delta(q)
      BY <1>1
    <2>2. booked[q] + owed[q] = Amount(row[q].pnl) /\ booked[q] \in Int /\ owed[q] \in Int
      BY <1>0, <2>1 DEF BookedOnce, TypeOK
    <2>3. CASE q \in changed
      <3>1. row'[q].pnl = OrderTotal(q) /\ OrderTotal(q) \in Int
        BY <1>1, <1>2, <2>3
      <3>2. Amount(row[q].pnl) = row[q].pnl /\ Amount(row'[q].pnl) = OrderTotal(q)
        BY <1>3, <2>3, <3>1 DEF Amount
      <3> QED
        BY <1>3, <2>1, <2>2, <2>3, <3>1, <3>2
    <2>4. CASE q \notin changed
      <3>1. row'[q] = row[q] /\ delta(q) = 0
        BY <1>1, <1>4, <2>4
      <3> QED
        BY <2>1, <2>2, <3>1
    <2> QED
      BY <2>3, <2>4
  <1> QED
    BY <1>6, <1>8, <1>9, <1>10 DEF LedgerInv

LEMMA RecoverPnlInv ==
  ASSUME LedgerInv, NEW a \in Agents, NEW r \in Rows, RecoverPnl(a, r)
  PROVE  LedgerInv'
  <1> DEFINE e == History(r)
             net == RecoveredNet(e)
             s == [NoSignal EXCEPT !.link = r, !.gross = truth[e].gross,
                                   !.fee = HistoryFee(e)]
  <1>0. TypeOK /\ AgentInv(a) /\ RowInv(r) /\ BookedOnce /\ pc[a] = "recover"
        /\ row[r].status = "closed" /\ row[r].pnl = NULL /\ row[r].leg \in Legs
    BY DEF LedgerInv, RowInv, RecoverPnl, Unattributed
  <1>1. e \in Rows
    <2>1. e \in Maybe(Rows)
      BY <1>0, HistoryType
    <2> QED
      BY <2>1 DEF RecoverPnl
  <1>2. truth[e].gross \in Int /\ HistoryFee(e) \in Int
    BY <1>0, <1>1, HistoryType
  <1>3. net \in Int
    BY <1>2, MoneyAssumption DEF RecoveredNet
  <1>4. s \in Signal /\ s.link = r /\ s.gross \in Int
    <2> HIDE DEF e
    <2> QED
      BY <1>2, BlankType DEF Signal
  <1>5. /\ row' = [row EXCEPT ![r].pnl = net]
        /\ debt' = [debt EXCEPT ![a][r] = @ + net] /\ owed' = [owed EXCEPT ![r] = @ + net]
        /\ sig' = [sig EXCEPT ![a] = s] /\ after' = [after EXCEPT ![a] = "insert"]
        /\ found' = [found EXCEPT ![a] = @ \ {r}]
        /\ UNCHANGED <<ord, strat, exch, truth, job, halting, todo, swept, booked>>
    BY DEF RecoverPnl, exchVars
  <1>6. pc'[a] \in {"book", "insert"} /\ pc' = [pc EXCEPT ![a] = pc'[a]]
    BY <1>0 DEF RecoverPnl, TypeOK
  <1> HIDE DEF e, net, s
  <1>7. [row[r] EXCEPT !.pnl = net] \in Position
    <2>1. row[r] \in Position
      BY <1>0 DEF TypeOK
    <2> QED
      BY <1>3, <2>1 DEF Position
  <1>8. row'[r] = [row[r] EXCEPT !.pnl = net] /\ (\A q \in Rows : q # r => row'[q] = row[q])
    BY <1>0, <1>5 DEF TypeOK
  <1>9. \A q \in Rows : row'[q].status = row[q].status /\ row'[q].leg = row[q].leg
    <2>1. row[r] \in Position
      BY <1>0 DEF TypeOK
    <2> QED
      BY <1>8, <2>1 DEF Position
  <1>10. TypeOK'
    <2>1. row' \in [Rows -> Position]
      BY <1>0, <1>5, <1>7 DEF TypeOK
    <2>2. debt' \in [Agents -> [Rows -> Int]] /\ owed' \in [Rows -> Int]
      BY <1>0, <1>3, <1>5 DEF TypeOK
    <2>3. pc' \in [Agents -> Stages]
      BY ZenonT(60), <1>0, <1>6 DEF TypeOK, Stages
    <2>4. sig' \in [Agents -> Signal]
          /\ after' \in [Agents -> {"idle", "signal", "select", "recover", "insert"}]
      BY <1>0, <1>4, <1>5 DEF TypeOK
    <2>5. found' \in [Agents -> SUBSET Rows]
      BY <1>0, <1>5 DEF TypeOK
    <2> QED
      BY <1>0, <1>5, <2>1, <2>2, <2>3, <2>4, <2>5 DEF TypeOK
  <1>11. ASSUME NEW b \in Agents PROVE AgentInv(b)'
    <2>1. CASE b = a
      <3>1. sig'[a] = s /\ after'[a] = "insert" /\ job' = job
        BY <1>0, <1>5 DEF TypeOK
      <3> QED
        BY <1>0, <1>4, <1>6, <1>9, <2>1, <3>1 DEF AgentInv
    <2>2. CASE b # a
      BY <1>0, <1>5, <1>6, <1>9, <2>2, OthersKeep DEF LedgerInv, TypeOK
    <2> QED
      BY <2>1, <2>2
  <1>12. ASSUME NEW q \in Rows PROVE RowInv(q)'
    <2>1. RowInv(q) /\ ord' = ord /\ swept' = swept
      BY <1>5 DEF LedgerInv
    <2> QED
      BY <1>0, <1>8, <1>9, <2>1 DEF RowInv
  <1>13. BookedOnce'
    <2> SUFFICES ASSUME NEW q \in Rows, ~swept'[q]
                 PROVE  booked'[q] + owed'[q] = Amount(row'[q].pnl)
      BY DEF BookedOnce
    <2>1. ~swept[q] /\ booked' = booked
      BY <1>5
    <2>2. booked[q] + owed[q] = Amount(row[q].pnl) /\ booked[q] \in Int /\ owed[q] \in Int
      BY <1>0, <2>1 DEF BookedOnce, TypeOK
    <2>3. CASE q = r
      <3>1. row'[q].pnl = net
        <4>1. row[r] \in Position
          BY <1>0 DEF TypeOK
        <4> QED
          BY <1>8, <2>3, <4>1 DEF Position
      <3>2. owed'[q] = owed[q] + net
        BY <1>0, <1>5, <2>3 DEF TypeOK
      <3> QED
        BY <1>0, <1>3, <2>1, <2>2, <2>3, <3>1, <3>2 DEF Amount
    <2>4. CASE q # r
      <3>1. row'[q] = row[q] /\ owed'[q] = owed[q]
        BY <1>0, <1>5, <1>8, <2>4 DEF TypeOK
      <3> QED
        BY <2>1, <2>2, <3>1
    <2> QED
      BY <2>3, <2>4
  <1> QED
    BY <1>10, <1>11, <1>12, <1>13 DEF LedgerInv

LEMMA InsertRecoveredInv ==
  ASSUME LedgerInv, NEW a \in Agents, NEW inserted \in BOOLEAN,
         InsertRecovered(a, inserted)
  PROVE  LedgerInv'
  <1> DEFINE r == sig[a].link
             o == [links |-> 1, priced |-> TRUE, pnl |-> sig[a].gross, fee |-> sig[a].fee]
  <1>0. TypeOK /\ AgentInv(a) /\ BookedOnce /\ pc[a] = "insert" /\ sig[a] \in Signal
    BY DEF LedgerInv, TypeOK, InsertRecovered
  <1>1. r \in Rows /\ sig[a].gross \in Int /\ row[r].status # "none"
    BY <1>0 DEF AgentInv
  <1>2. o \in Linkage
    <2>1. sig[a].fee \in Int
      BY <1>0 DEF Signal
    <2> QED
      BY <1>1, <2>1 DEF Linkage
  <1>3. /\ ord' = ord \/ ord' = [ord EXCEPT ![r] = o]
        /\ sig' = [sig EXCEPT ![a] = NoSignal] /\ after' = [after EXCEPT ![a] = "recover"]
        /\ pc' = [pc EXCEPT ![a] = "recover"]
        /\ UNCHANGED <<row, strat, exch, truth, job, debt, halting, todo, found, swept, booked, owed>>
    BY DEF InsertRecovered, exchVars, history
  <1> HIDE DEF r, o
  <1>4. TypeOK'
    <2>1. ord' \in [Rows -> Linkage]
      BY <1>0, <1>2, <1>3 DEF TypeOK
    <2>2. pc' \in [Agents -> Stages]
      BY <1>0, <1>3 DEF TypeOK, Stages
    <2> QED
      BY <1>0, <1>3, <2>1, <2>2, BlankType DEF TypeOK
  <1>5. ASSUME NEW b \in Agents PROVE AgentInv(b)'
    <2>1. CASE b = a
      <3>1. sig'[a] = NoSignal /\ after'[a] = "recover" /\ pc'[a] = "recover" /\ job' = job
        BY <1>0, <1>3 DEF TypeOK
      <3> QED
        BY <1>0, <2>1, <3>1, BlankType DEF AgentInv
    <2>2. CASE b # a
      BY <1>0, <1>3, <2>2, OthersKeep DEF LedgerInv, TypeOK
    <2> QED
      BY <2>1, <2>2
  <1>6. ASSUME NEW q \in Rows PROVE RowInv(q)'
    <2>1. row[q].status = "none" => ord'[q] = ord[q]
      BY <1>0, <1>1, <1>3 DEF TypeOK
    <2> QED
      BY <1>3, <2>1 DEF RowInv, LedgerInv
  <1>7. BookedOnce'
    BY <1>0, <1>3 DEF BookedOnce
  <1> QED
    BY <1>4, <1>5, <1>6, <1>7 DEF LedgerInv

LEMMA RecoverSelectInv ==
  ASSUME LedgerInv, NEW a \in Agents, RecoverSelect(a)
  PROVE  LedgerInv'
  <1> DEFINE rows == {r \in Rows : Unexplained(r)}
  <1>0. TypeOK /\ AgentInv(a) /\ BookedOnce /\ pc[a] = "select"
    BY DEF LedgerInv, RecoverSelect
  <1>1. /\ found' = [found EXCEPT ![a] = rows] /\ rows \in SUBSET Rows
        /\ pc' = [pc EXCEPT ![a] = "recover"] /\ after' = [after EXCEPT ![a] = "recover"]
        /\ UNCHANGED <<row, ord, strat, exch, truth, job, debt, sig, halting, todo,
                       swept, booked, owed>>
    BY DEF RecoverSelect, rowVars, exchVars, history
  <1> HIDE DEF rows
  <1>2. TypeOK'
    <2>1. pc' \in [Agents -> Stages] /\ found' \in [Agents -> SUBSET Rows]
      BY <1>0, <1>1 DEF TypeOK, Stages
    <2> QED
      BY <1>0, <1>1, <2>1 DEF TypeOK
  <1>3. ASSUME NEW b \in Agents PROVE AgentInv(b)'
    BY <1>0, <1>1 DEF AgentInv, LedgerInv, TypeOK
  <1>4. ASSUME NEW q \in Rows PROVE RowInv(q)'
    BY <1>1 DEF RowInv, LedgerInv
  <1>5. BookedOnce'
    BY <1>0, <1>1 DEF BookedOnce
  <1> QED
    BY <1>2, <1>3, <1>4, <1>5 DEF LedgerInv

LEMMA EndPassInv ==
  ASSUME LedgerInv, NEW a \in Agents, EndPass(a)
  PROVE  LedgerInv'
  <1> USE DEF LedgerInv, EndPass, rowVars, exchVars, history
  <1>1. TypeOK'
    <2>1. pc' \in [Agents -> Stages] /\ found' \in [Agents -> SUBSET Rows]
      BY DEF TypeOK, Stages
    <2> QED
      BY <2>1 DEF TypeOK
  <1>2. ASSUME NEW b \in Agents PROVE AgentInv(b)'
    BY DEF AgentInv, TypeOK
  <1>3. ASSUME NEW q \in Rows PROVE RowInv(q)'
    BY DEF RowInv
  <1>4. BookedOnce'
    BY DEF BookedOnce
  <1> QED
    BY <1>1, <1>2, <1>3, <1>4

LEMMA RestartInv ==
  ASSUME LedgerInv, Restart
  PROVE  LedgerInv'
  <1> USE DEF LedgerInv, Restart, rowVars, exchVars, history
  <1>1. TypeOK'
    <2>1. /\ pc' \in [Agents -> Stages] /\ job' \in [Agents -> Job]
          /\ debt' \in [Agents -> [Rows -> Int]] /\ sig' \in [Agents -> Signal]
          /\ after' \in [Agents -> {"idle", "signal", "select", "recover", "insert"}]
      BY BlankType DEF Stages
    <2>2. halting' \in [Agents -> BOOLEAN] /\ todo' \in [Agents -> SUBSET Legs]
          /\ found' \in [Agents -> SUBSET Rows]
      OBVIOUS
    <2> QED
      BY <2>1, <2>2 DEF TypeOK
  <1>2. ASSUME NEW b \in Agents PROVE AgentInv(b)'
    BY BlankType DEF AgentInv
  <1>3. ASSUME NEW q \in Rows PROVE RowInv(q)'
    BY DEF RowInv
  <1>4. BookedOnce'
    BY DEF BookedOnce
  <1> QED
    BY <1>1, <1>2, <1>3, <1>4

-------------------------------------------------------------------------------
(* The invariant and what it implies.                                      *)

LEMMA ContinueInv ==
  ASSUME LedgerInv, NEW a \in Agents, Continue(a)
  PROVE  LedgerInv'
  <1>1. ASSUME NEW l \in Legs, SignalLeg(a, l) \/ FlattenLeg(a, l) PROVE LedgerInv'
    BY <1>1, SignalLegInv, FlattenLegInv
  <1>2. ASSUME NEW resp \in Responses, NEW g \in Gains, ExchangeClose(a, resp, g)
        PROVE  LedgerInv'
    BY <1>2, ExchangeCloseInv
  <1>3. ASSUME NEW inserted \in {TRUE, ~DbMayFail},
               CommitClose(a, inserted) \/ InsertRecovered(a, inserted)
        PROVE  LedgerInv'
    BY <1>3, FlagAssumption, CommitCloseInv, InsertRecoveredInv
  <1>4. ASSUME NEW r \in Rows, Book(a, r) \/ BookFails(a, r) \/ RecoverPnl(a, r)
        PROVE  LedgerInv'
    BY <1>4, BookInv, BookFailsInv, RecoverPnlInv
  <1>5. ASSUME \/ PriceOrder(a) \/ CheckDrawdown(a) \/ Disable(a) \/ ExternalSelect(a)
               \/ SyncCorrect(a) \/ RecoverSelect(a) \/ CommitFails(a) \/ EndPass(a)
        PROVE  LedgerInv'
    BY <1>5, PriceOrderInv, CheckDrawdownInv, DisableInv, ExternalSelectInv,
       SyncCorrectInv, RecoverSelectInv, CommitFailsInv, EndPassInv
  <1> QED
    BY <1>1, <1>2, <1>3, <1>4, <1>5 DEF Continue

LEMMA BeginInv ==
  ASSUME LedgerInv, NEW a \in Agents, Begin(a)
  PROVE  LedgerInv'
  <1>a. ASSUME NEW r \in Rows, NEW want \in Maybe(1..MaxSize), ManualClose(a, r, want)
        PROVE  LedgerInv'
    <2>1. want \in Maybe(Nat)
      BY SizeAssumption
    <2> QED
      BY <1>a, <2>1, ManualCloseInv
  <1>1. ASSUME NEW r \in Rows, ExternalClose(a, r) \/ ExternalReduce(a, r)
        PROVE  LedgerInv'
    BY <1>1, ExternalCloseInv, ExternalReduceInv
  <1>2. ASSUME NEW l \in Legs, NEW want \in Maybe(1..MaxSize), SignalClose(a, {l}, want)
        PROVE  LedgerInv'
    <2>1. {l} \in SUBSET Legs /\ want \in Maybe(Nat)
      BY SizeAssumption
    <2> QED
      BY <1>2, <2>1, SignalCloseInv
  <1>3. ASSUME SignalClose(a, {l \in Legs : OpenIn(l) # {}}, NULL)
        PROVE  LedgerInv'
    <2> DEFINE open == {l \in Legs : OpenIn(l) # {}}
    <2>1. open \in SUBSET Legs /\ NULL \in Maybe(Nat)
      OBVIOUS
    <2>2. SignalClose(a, open, NULL)
      BY <1>3
    <2> HIDE DEF open
    <2> QED
      BY <2>1, <2>2, SignalCloseInv
  <1>4. ASSUME SyncAttribute(a) PROVE LedgerInv'
    BY <1>4, SyncAttributeInv
  <1> QED
    BY <1>a, <1>1, <1>2, <1>3, <1>4 DEF Begin

LEMMA NextInv ==
  ASSUME LedgerInv, [Next]_vars
  PROVE  LedgerInv'
  <1>1. ASSUME NEW r \in Rows, NEW l \in Legs, NEW n \in 1..MaxSize, CreatePosition(r, l, n)
        PROVE  LedgerInv'
    BY <1>1, SizeAssumption, CreatePositionInv
  <1>2. ASSUME NEW l \in Legs, NEW n \in 1..MaxSize, NEW g \in Gains, TriggerFires(l, n, g)
        PROVE  LedgerInv'
    BY <1>2, SizeAssumption, TriggerFiresInv
  <1>3. ASSUME NEW a \in Agents, Begin(a) \/ Continue(a) PROVE LedgerInv'
    BY <1>3, BeginInv, ContinueInv
  <1>4. CASE Restart
    BY <1>4, RestartInv
  <1>5. CASE UNCHANGED vars
    <2> USE <1>5 DEF vars, rowVars, exchVars, agentVars, history
    <2>1. TypeOK'
      BY DEF LedgerInv, TypeOK
    <2>2. ASSUME NEW b \in Agents PROVE AgentInv(b)'
      BY DEF LedgerInv, AgentInv
    <2>3. ASSUME NEW q \in Rows PROVE RowInv(q)'
      BY DEF LedgerInv, RowInv
    <2>4. BookedOnce'
      BY DEF LedgerInv, BookedOnce
    <2> QED
      BY <2>1, <2>2, <2>3, <2>4 DEF LedgerInv
  <1> QED
    BY <1>1, <1>2, <1>3, <1>4, <1>5 DEF Next, Market

\* LedgerInv holds in every state the ledger can reach.
THEOREM LedgerInvariant == Spec => []LedgerInv
  BY InitInv, NextInv, PTL DEF Spec

\* Every variable keeps its type; in particular no close ever takes a leg of the exchange
\* below zero, whichever coroutine's stale size it was computed from.
THEOREM TypeCorrect == Spec => []TypeOK
  <1>1. LedgerInv => TypeOK
    BY DEF LedgerInv
  <1> QED
    BY <1>1, LedgerInvariant, PTL

\* The strategy is owed or has been booked, for every position no sync pass attributed
\* PnL to while it was open, exactly that position's pnl_realized: at every await, with
\* any number of concurrent closers and passes, failing writes and restarts.
THEOREM BookedOnceHolds == Spec => []BookedOnce
  <1>1. LedgerInv => BookedOnce
    BY DEF LedgerInv
  <1> QED
    BY <1>1, LedgerInvariant, PTL

-------------------------------------------------------------------------------
(* What is owed is what the agents still mean to book.                     *)

\* owed is a history variable; debt is what _book_realized_pnl will be called with.
OwedIsDebt == \A r \in Rows : owed[r] = Total([b \in Agents |-> debt[b][r]], Agents)

\* What agent a's step does to its debts, it does to what is owed.
OwesAlike(a) ==
  /\ \A b \in Agents : b # a => debt'[b] = debt[b]
  /\ \A r \in Rows : owed'[r] - owed[r] = debt'[a][r] - debt[a][r]

LEMMA OwesAlikeKeeps ==
  ASSUME IsFiniteSet(Agents), TypeOK, TypeOK', OwedIsDebt, NEW a \in Agents, OwesAlike(a)
  PROVE  OwedIsDebt'
  <1> SUFFICES ASSUME NEW r \in Rows
               PROVE  owed'[r] = Total([b \in Agents |-> debt'[b][r]], Agents)
    BY DEF OwedIsDebt
  <1> DEFINE f == [b \in Agents |-> debt[b][r]]
             g == [b \in Agents |-> debt'[b][r]]
  <1>1. \A b \in Agents : f[b] = debt[b][r] /\ g[b] = debt'[b][r]
    OBVIOUS
  <1>2. \A b \in Agents : debt[b][r] \in Int /\ debt'[b][r] \in Int
    BY DEF TypeOK
  <1>3. owed[r] = Total(f, Agents) /\ owed[r] \in Int /\ owed'[r] \in Int
    BY DEF OwedIsDebt, TypeOK
  <1> HIDE DEF f, g
  <1>4. \A b \in Agents : f[b] \in Int /\ g[b] \in Int
    BY <1>1, <1>2
  <1>5. \A b \in Agents : b # a => g[b] = f[b]
    BY <1>1 DEF OwesAlike
  <1>6. Total(g, Agents) = Total(f, Agents) + (g[a] - f[a])
    BY <1>4, <1>5, TotalChange
  <1>7. owed'[r] - owed[r] = g[a] - f[a]
    BY <1>1 DEF OwesAlike
  <1>8. owed'[r] = Total(g, Agents)
    BY ONLY <1>3, <1>4, <1>6, <1>7
  <1> QED
    BY <1>8 DEF g

LEMMA SameDebtKeeps ==
  ASSUME OwedIsDebt, debt' = debt, owed' = owed
  PROVE  OwedIsDebt'
  BY DEF OwedIsDebt

\* The closing UPDATE sets the row's PnL and promises to book it.
LEMMA CommitCloseOwes ==
  ASSUME LedgerInv, NEW a \in Agents, NEW inserted \in BOOLEAN, CommitClose(a, inserted)
  PROVE  OwesAlike(a) \/ (debt' = debt /\ owed' = owed)
  <1> DEFINE j == job[a]  r == job[a].row  net == NetPnl(job[a])
  <1>0. TypeOK /\ AgentInv(a) /\ pc[a] = "commit"
    BY DEF LedgerInv, CommitClose
  <1>1. r \in Rows /\ j \in Job
    BY <1>0 DEF AgentInv, TypeOK
  <1>2. net # NULL => net \in Int
    BY <1>1, MoneyAssumption DEF NetPnl, Job, Maybe
  <1>3. \/ /\ net # NULL
           /\ debt' = [debt EXCEPT ![a][r] = @ + net]
           /\ owed' = [owed EXCEPT ![r] = @ + net]
        \/ debt' = debt /\ owed' = owed
    BY DEF CommitClose
  <1> HIDE DEF j, r, net
  <1>4. debt[a] \in [Rows -> Int] /\ debt \in [Agents -> [Rows -> Int]] /\ owed \in [Rows -> Int]
    BY <1>0 DEF TypeOK
  <1>5. ASSUME net # NULL, debt' = [debt EXCEPT ![a][r] = @ + net],
               owed' = [owed EXCEPT ![r] = @ + net]
        PROVE  OwesAlike(a)
    BY <1>1, <1>2, <1>4, <1>5 DEF OwesAlike
  <1> QED
    BY <1>3, <1>5

LEMMA BookOwes ==
  ASSUME TypeOK, NEW a \in Agents, NEW r \in Rows, Book(a, r)
  PROVE  OwesAlike(a)
  <1>1. debt \in [Agents -> [Rows -> Int]] /\ owed \in [Rows -> Int]
    BY DEF TypeOK
  <1>2. debt' = [debt EXCEPT ![a][r] = 0] /\ owed' = [owed EXCEPT ![r] = @ - debt[a][r]]
    BY DEF Book
  <1> QED
    BY <1>1, <1>2 DEF OwesAlike

LEMMA SyncAttributeOwes ==
  ASSUME TypeOK, NEW a \in Agents, SyncAttribute(a)
  PROVE  OwesAlike(a)
  <1> DEFINE newly == {r \in Rows : ord[r].priced /\ row[r].pnl = NULL}
             gain(r) == IF r \in newly THEN OrderTotal(r) ELSE 0
  <1>1. /\ debt' = [debt EXCEPT ![a] = [r \in Rows |-> debt[a][r] + gain(r)]]
        /\ owed' = [r \in Rows |-> owed[r] + gain(r)]
    BY DEF SyncAttribute
  <1>2. \A r \in Rows : gain(r) \in Int
    BY OrderTotalType
  <1>3. debt \in [Agents -> [Rows -> Int]] /\ owed \in [Rows -> Int]
    BY DEF TypeOK
  <1> HIDE DEF gain
  <1> QED
    BY <1>1, <1>2, <1>3 DEF OwesAlike

LEMMA SyncCorrectOwes ==
  ASSUME TypeOK, NEW a \in Agents, SyncCorrect(a)
  PROVE  OwesAlike(a)
  <1> DEFINE changed == {r \in Rows : ord[r].priced /\ row[r].pnl # NULL
                                        /\ row[r].pnl # OrderTotal(r)}
             delta(r) == IF r \in changed THEN Correction(r) ELSE 0
  <1>1. /\ debt' = [debt EXCEPT ![a] = [r \in Rows |-> debt[a][r] + delta(r)]]
        /\ owed' = [r \in Rows |-> owed[r] + delta(r)]
    BY DEF SyncCorrect
  <1>2. ASSUME NEW r \in Rows PROVE delta(r) \in Int
    <2>1. row[r].pnl # NULL => row[r].pnl \in Int
      BY DEF TypeOK, Position, Maybe
    <2> QED
      BY <2>1, OrderTotalType DEF Correction
  <1>3. debt \in [Agents -> [Rows -> Int]] /\ owed \in [Rows -> Int]
    BY DEF TypeOK
  <1> HIDE DEF delta
  <1> QED
    BY <1>1, <1>2, <1>3 DEF OwesAlike

LEMMA RecoverPnlOwes ==
  ASSUME LedgerInv, NEW a \in Agents, NEW r \in Rows, RecoverPnl(a, r)
  PROVE  OwesAlike(a)
  <1> DEFINE net == RecoveredNet(History(r))
  <1>0. TypeOK /\ RowInv(r) /\ row[r].status = "closed" /\ row[r].leg \in Legs
    BY DEF LedgerInv, RowInv, RecoverPnl, Unattributed
  <1>1. History(r) \in Rows
    <2>1. History(r) \in Maybe(Rows)
      BY <1>0, HistoryType
    <2> QED
      BY <2>1 DEF RecoverPnl, Maybe
  <1>2. truth[History(r)].gross \in Int /\ HistoryFee(History(r)) \in Int
    BY <1>0, <1>1, HistoryType
  <1>3. net \in Int
    BY <1>2, MoneyAssumption DEF RecoveredNet
  <1>4. /\ debt' = [debt EXCEPT ![a][r] = @ + net]
        /\ owed' = [owed EXCEPT ![r] = @ + net]
    BY DEF RecoverPnl
  <1>5. debt \in [Agents -> [Rows -> Int]] /\ owed \in [Rows -> Int]
    BY <1>0 DEF TypeOK
  <1> HIDE DEF net
  <1> QED
    BY <1>3, <1>4, <1>5 DEF OwesAlike

\* Without failing statements and restarts no promise to book is dropped.
LEMMA OwedStep ==
  ASSUME IsFiniteSet(Agents), ~DbMayFail, ~MayRestart, LedgerInv, LedgerInv', OwedIsDebt,
         [Next]_vars
  PROVE  OwedIsDebt'
  <1>0. TypeOK /\ TypeOK'
    BY DEF LedgerInv
  <1> USE DEF agentVars, history
  <1>1. CASE Market
    BY <1>1, SameDebtKeeps DEF Market, CreatePosition, TriggerFires
  <1>2. ASSUME NEW a \in Agents, Begin(a) PROVE OwedIsDebt'
    <2>1. CASE SyncAttribute(a)
      BY <1>0, <2>1, SyncAttributeOwes, OwesAlikeKeeps
    <2>2. CASE ~SyncAttribute(a)
      BY <1>2, <2>2, SameDebtKeeps
      DEF Begin, ManualClose, ExternalClose, ExternalReduce, SignalClose
    <2> QED
      BY <2>1, <2>2
  <1>3. ASSUME NEW a \in Agents, Continue(a) PROVE OwedIsDebt'
    <2>1. ASSUME NEW l \in Legs, SignalLeg(a, l) \/ FlattenLeg(a, l) PROVE OwedIsDebt'
      BY <2>1, SameDebtKeeps DEF SignalLeg, FlattenLeg
    <2>2. ASSUME NEW resp \in Responses, NEW g \in Gains, ExchangeClose(a, resp, g)
          PROVE  OwedIsDebt'
      BY <2>2, SameDebtKeeps DEF ExchangeClose
    <2>3. ASSUME NEW inserted \in {TRUE, ~DbMayFail}, CommitClose(a, inserted)
          PROVE  OwedIsDebt'
      BY <1>0, <2>3, FlagAssumption, CommitCloseOwes, OwesAlikeKeeps, SameDebtKeeps
    <2>4. ASSUME NEW inserted \in {TRUE, ~DbMayFail}, InsertRecovered(a, inserted)
          PROVE  OwedIsDebt'
      BY <2>4, SameDebtKeeps DEF InsertRecovered
    <2>5. ASSUME NEW r \in Rows, Book(a, r) PROVE OwedIsDebt'
      BY <1>0, <2>5, BookOwes, OwesAlikeKeeps
    <2>6. ASSUME NEW r \in Rows, RecoverPnl(a, r) PROVE OwedIsDebt'
      BY <1>0, <2>6, RecoverPnlOwes, OwesAlikeKeeps
    <2>7. CASE SyncCorrect(a)
      BY <1>0, <2>7, SyncCorrectOwes, OwesAlikeKeeps
    <2>8. ASSUME \/ PriceOrder(a) \/ CheckDrawdown(a) \/ Disable(a) \/ ExternalSelect(a)
                 \/ RecoverSelect(a) \/ EndPass(a)
          PROVE  OwedIsDebt'
      BY <2>8, SameDebtKeeps
      DEF PriceOrder, CheckDrawdown, Disable, ExternalSelect, RecoverSelect, EndPass
    <2>9. ~CommitFails(a) /\ \A r \in Rows : ~BookFails(a, r)
      BY DEF CommitFails, BookFails
    <2> QED
      BY <1>3, <2>1, <2>2, <2>3, <2>4, <2>5, <2>6, <2>7, <2>8, <2>9 DEF Continue
  <1>4. ~Restart
    BY DEF Restart
  <1>5. CASE UNCHANGED vars
    BY <1>5, SameDebtKeeps DEF vars
  <1> QED
    BY <1>1, <1>2, <1>3, <1>4, <1>5 DEF Next

\* Once no coroutine has anything left to book for a position no sync pass attributed PnL
\* to while it was open, the strategy has booked exactly what the position shows: for any
\* number of coroutines, rows and legs, when no statement fails and nothing restarts.
THEOREM SettledIsBookedHolds ==
  ASSUME IsFiniteSet(Agents), ~DbMayFail, ~MayRestart
  PROVE  Spec => []SettledIsBooked
  <1>1. Init => OwedIsDebt
    <2> SUFFICES ASSUME Init, NEW r \in Rows
                 PROVE  owed[r] = Total([b \in Agents |-> debt[b][r]], Agents)
      BY DEF OwedIsDebt
    <2> DEFINE f == [b \in Agents |-> debt[b][r]]
    <2>1. \A b \in Agents : f[b] = 0
      BY DEF Init
    <2>2. owed[r] = 0
      BY DEF Init
    <2> HIDE DEF f
    <2>3. Total(f, Agents) = 0
      BY <2>1, TotalIsZero
    <2> QED
      BY <2>2, <2>3 DEF f
  <1>2. LedgerInv /\ LedgerInv' /\ OwedIsDebt /\ [Next]_vars => OwedIsDebt'
    BY OwedStep
  <1>3. LedgerInv /\ OwedIsDebt => SettledIsBooked
    <2> SUFFICES ASSUME LedgerInv, OwedIsDebt, NEW r \in Rows, ~swept[r],
                        \A a \in Agents : debt[a][r] = 0
                 PROVE  booked[r] = Amount(row[r].pnl)
      BY DEF SettledIsBooked
    <2> DEFINE f == [b \in Agents |-> debt[b][r]]
    <2>1. \A b \in Agents : f[b] = 0
      OBVIOUS
    <2>2. owed[r] = Total(f, Agents)
      BY DEF OwedIsDebt
    <2> HIDE DEF f
    <2>3. owed[r] = 0
      BY <2>1, <2>2, TotalIsZero
    <2>4. booked[r] + owed[r] = Amount(row[r].pnl) /\ booked[r] \in Int
      BY DEF LedgerInv, BookedOnce, TypeOK
    <2> QED
      BY <2>3, <2>4
  <1> QED
    BY <1>1, <1>2, <1>3, LedgerInvariant, PTL DEF Spec

-------------------------------------------------------------------------------
(* Closed rows.                                                            *)

\* A step that leaves the rows alone closes nothing and reopens nothing.
LEMMA UnchangedStaysClosed == row' = row => \A r \in Rows : StaysClosed(r)
  BY DEF StaysClosed

LEMMA StepStaysClosed ==
  ASSUME LedgerInv, [Next]_vars, NEW q \in Rows
  PROVE  StaysClosed(q)
  <1>0. TypeOK /\ row[q] \in Position
    BY DEF LedgerInv, TypeOK
  <1>1. CASE row' = row
    BY <1>1, UnchangedStaysClosed
  <1>2. ASSUME NEW r \in Rows, NEW l \in Legs, NEW n \in 1..MaxSize, CreatePosition(r, l, n)
        PROVE  StaysClosed(q)
    <2>1. row[r].status = "none"
          /\ row' = [row EXCEPT ![r] = [status |-> "open", leg |-> l, size |-> n, pnl |-> NULL]]
      BY <1>2 DEF CreatePosition
    <2>2. row[q].status = "closed" => row'[q] = row[q]
      BY <1>0, <2>1 DEF TypeOK
    <2> QED
      BY <2>2 DEF StaysClosed
  <1>3. ASSUME NEW a \in Agents, NEW inserted \in BOOLEAN, CommitClose(a, inserted)
        PROVE  StaysClosed(q)
    <2>1. CASE Lands(job[a].row)
      <3>1. row' = [row EXCEPT ![job[a].row] = Updated(job[a], @)]
            /\ row[job[a].row].status = "open"
        BY <1>3, <2>1 DEF CommitClose, Lands, IsOpen
      <3>2. row[q].status = "closed" => row'[q] = row[q]
        BY <1>0, <3>1 DEF TypeOK
      <3> QED
        BY <3>2 DEF StaysClosed
    <2>2. CASE ~Lands(job[a].row)
      BY <1>3, <2>2, UnchangedStaysClosed DEF CommitClose
    <2> QED
      BY <2>1, <2>2
  <1>4. ASSUME row'[q] \in {row[q], [row[q] EXCEPT !.pnl = OrderTotal(q)]}
        PROVE  StaysClosed(q)
    <2>1. OrderTotal(q) \in Int
      BY <1>0, OrderTotalType
    <2> HIDE DEF OrderTotal
    <2> QED
      BY <1>0, <1>4, <2>1 DEF StaysClosed, Position
  <1>5. ASSUME NEW a \in Agents, SyncAttribute(a) \/ SyncCorrect(a)
        PROVE  StaysClosed(q)
    BY <1>4, <1>5 DEF SyncAttribute, SyncCorrect
  <1>6. ASSUME NEW a \in Agents, NEW r \in Rows, RecoverPnl(a, r)
        PROVE  StaysClosed(q)
    <2> DEFINE e == History(r)
               net == RecoveredNet(e)
    <2>1. row' = [row EXCEPT ![r].pnl = net] /\ row[r].pnl = NULL /\ row[r].status = "closed"
          /\ e # NULL
      BY <1>6 DEF RecoverPnl, Unattributed
    <2> HIDE DEF net
    <2>2. CASE q = r
      <3>1. row'[q] = [row[q] EXCEPT !.pnl = net]
        BY <1>0, <2>1, <2>2 DEF TypeOK
      <3> QED
        BY <1>0, <2>1, <2>2, <3>1 DEF StaysClosed, Position
    <2>3. CASE q # r
      <3>1. row'[q] = row[q]
        BY <1>0, <2>1, <2>3 DEF TypeOK
      <3> QED
        BY <3>1 DEF StaysClosed
    <2> QED
      BY <2>2, <2>3
  <1>7. ASSUME NEW a \in Agents, Begin(a) PROVE row' = row \/ SyncAttribute(a)
    BY <1>7 DEF Begin, ManualClose, ExternalClose, ExternalReduce, SignalClose, rowVars
  <1>8. ASSUME NEW a \in Agents, Continue(a)
        PROVE  \/ row' = row \/ SyncCorrect(a)
               \/ \E inserted \in {TRUE, ~DbMayFail} : CommitClose(a, inserted)
               \/ \E r \in Rows : RecoverPnl(a, r)
    BY <1>8 DEF Continue, SignalLeg, FlattenLeg, ExchangeClose, PriceOrder, Book, BookFails,
       CheckDrawdown, Disable, ExternalSelect, InsertRecovered, RecoverSelect, CommitFails,
       EndPass, rowVars
  <1>9. ASSUME Restart \/ UNCHANGED vars PROVE row' = row
    BY <1>9 DEF Restart, vars, rowVars
  <1>10. ASSUME NEW l \in Legs, NEW n \in 1..MaxSize, NEW g \in Gains, TriggerFires(l, n, g)
         PROVE  row' = row
    BY <1>10 DEF TriggerFires, rowVars
  <1>11. ASSUME Market PROVE StaysClosed(q)
    BY <1>1, <1>2, <1>10, <1>11 DEF Market
  <1>12. ASSUME NEW a \in Agents, Begin(a) \/ Continue(a) PROVE StaysClosed(q)
    BY <1>1, <1>3, <1>5, <1>6, <1>7, <1>8, <1>12, FlagAssumption
  <1> QED
    BY <1>1, <1>9, <1>11, <1>12 DEF Next

\* A closed position stays closed, keeps its size and never loses an attributed PnL: no
\* closer that SELECTed the row before another one closed it can undo that.
THEOREM ClosedIsFinalHolds == Spec => ClosedIsFinal
  <1>1. LedgerInv /\ [Next]_vars => [\A r \in Rows : StaysClosed(r)]_vars
    BY StepStaysClosed
  <1> QED
    BY <1>1, LedgerInvariant, PTL DEF Spec, ClosedIsFinal
-------------------------------------------------------------------------------
(* One coroutine and one leg: a closed position shows its net outcome.     *)

\* What a close under way and a webhook's order still carry of row r, on no order yet.
GrossOf(s, j, r) == (IF s.link = r THEN Amount(s.gross) ELSE 0)
                      + (IF j.row = r THEN Amount(j.gross) ELSE 0)
FeeOf(s, j, r)   == (IF s.link = r THEN s.fee ELSE 0) + (IF j.row = r THEN j.fee ELSE 0)

\* Row r's orders, with what agent a carries, tell all that the exchange did.
Told(a, r) ==
  /\ truth[r].gross = ord[r].pnl + GrossOf(sig[a], job[a], r)
  /\ truth[r].fee = OpenFee + ord[r].fee + FeeOf(sig[a], job[a], r)

\* The lots of row r that are closed on the exchange and not yet taken off the row.
Cut(j, r) == IF j.row = r /\ j.gross # NULL THEN j.size ELSE 0

Untouched(a, l, r) ==
  /\ ord[r].pnl = 0 /\ ord[r].fee = 0 /\ truth[r].gross = 0 /\ truth[r].fee = 0
  /\ exch[l].episode # r /\ sig[a].link # r

\* An open row is told, and has the exchange's size, until a trigger takes the leg.
Running(a, l, r) ==
  /\ row[r].leg = l /\ exch[l].episode = r
  /\ exch[l].size # 0 => Told(a, r) /\ exch[l].size = row[r].size - Cut(job[a], r)
  /\ exch[l].size = 0 => exch[l].last = r
  /\ truth[r].fee >= OpenFee + ord[r].fee + FeeOf(sig[a], job[a], r)

Finished(a, l, r) ==
  /\ Told(a, r) /\ row[r].pnl # NULL /\ (ord[r].priced \/ sig[a].link = r)
  /\ exch[l].episode = r => exch[l].size = 0

AloneRow(a, l, r) ==
  /\ row[r].status = "none" => Untouched(a, l, r)
  /\ row[r].status = "open" => Running(a, l, r)
  /\ row[r].status = "closed" => Finished(a, l, r)

Closes == {"exchange", "external", "commit"}

AloneJob(a, l) ==
  LET j == job[a] IN
  /\ pc[a] \notin Closes => j = NoJob
  /\ pc[a] \in Closes => j.row \in Rows /\ IsOpen(j.row) /\ j.leg = l
  /\ pc[a] = "exchange" =>
       j.gross = NULL /\ j.fee = 0 /\ (j.full \/ j.size < row[j.row].size)
  /\ pc[a] \in {"external", "commit"} => j.gross # NULL
  /\ pc[a] = "external" => j.full
  /\ pc[a] \in {"external", "commit"} /\ j.full => exch[l].size = 0 /\ Told(a, j.row)
  /\ j.own => sig[a].first /\ sig[a].legs = {}

AloneSig(a) ==
  LET s == sig[a] IN
  /\ s # NoSignal => after[a] = "signal"
  /\ s.link = NULL => s.gross = NULL /\ s.fee = 0
  /\ s.link # NULL => s.link \in Rows /\ s.gross # NULL
  /\ s.link # NULL \/ s.failed => ~s.first /\ s.legs = {}
  /\ s.link # NULL => ~s.failed
  /\ s.legs # {} => s.first
  /\ after[a] = "signal" /\ s.legs = {} /\ ~job[a].own => s.failed \/ s.link # NULL

AlonePass(a) ==
  /\ found[a] = {} /\ pc[a] # "insert" /\ after[a] # "insert"
  /\ pc[a] = "idle" => after[a] # "signal"

Alone(a, l) ==
  /\ \A r \in Rows : AloneRow(a, l, r)
  /\ exch[l].size # 0 => exch[l].episode \in Rows /\ IsOpen(exch[l].episode)
  /\ AloneJob(a, l) /\ AloneSig(a) /\ AlonePass(a)

\* One coroutine, one leg, a venue that answers every close or refuses it, and nothing
\* lost: what the theorem asks of the constants.
Alone1(a, l) ==
  /\ Agents = {a} /\ Legs = {l}
  /\ Responses \subseteq {"reported", "refused"}
  /\ ~PartialTriggers /\ ~HistoryMayLag /\ ~DbMayFail /\ ~MayRestart
-------------------------------------------------------------------------------
(* What a step needs of the state, and what it leaves alone.               *)

LEMMA SoloTypes ==
  ASSUME NEW a, NEW l, Alone1(a, l), LedgerInv
  PROVE  /\ a \in Agents /\ l \in Legs /\ TypeOK /\ AgentInv(a)
         /\ pc[a] \in Stages /\ job[a] \in Job /\ sig[a] \in Signal
         /\ found[a] \in SUBSET Rows /\ exch[l] \in Holding
         /\ job \in [Agents -> Job] /\ sig \in [Agents -> Signal] /\ pc \in [Agents -> Stages]
  BY DEF Alone1, LedgerInv, TypeOK

LEMMA PartTypes ==
  ASSUME NEW s \in Signal, NEW j \in Job, NEW r
  PROVE  GrossOf(s, j, r) \in Int /\ FeeOf(s, j, r) \in Int
  <1>1. s.gross \in Maybe(Int) /\ s.fee \in Int /\ j.gross \in Maybe(Int) /\ j.fee \in Int
    BY DEF Signal, Job
  <1> QED
    BY <1>1 DEF GrossOf, FeeOf, Amount

\* A close the exchange has not answered carries nothing.
Blank(j) == j.gross = NULL /\ j.fee = 0

LEMMA BlankParts ==
  ASSUME NEW s \in Signal, NEW t \in Signal, NEW j \in Job, NEW k \in Job, NEW r,
         Blank(j), Blank(k), t.link = s.link, t.gross = s.gross, t.fee = s.fee
  PROVE  /\ GrossOf(t, k, r) = GrossOf(s, j, r) /\ FeeOf(t, k, r) = FeeOf(s, j, r)
         /\ Cut(k, r) = 0 /\ Cut(j, r) = 0
  BY DEF Blank, GrossOf, FeeOf, Cut, Amount

\* The row's figures, up to a PnL that is set or corrected.
SameRow(r) ==
  /\ row'[r].status = row[r].status /\ row'[r].leg = row[r].leg
  /\ row'[r].size = row[r].size /\ (row[r].pnl # NULL => row'[r].pnl # NULL)

LEMMA RowFrame ==
  ASSUME NEW a, NEW l, NEW r, AloneRow(a, l, r), SameRow(r),
         ord'[r].pnl = ord[r].pnl, ord'[r].fee = ord[r].fee, ord'[r].priced = ord[r].priced,
         truth'[r] = truth[r], exch'[l] = exch[l], sig'[a].link = sig[a].link,
         GrossOf(sig'[a], job'[a], r) = GrossOf(sig[a], job[a], r),
         FeeOf(sig'[a], job'[a], r) = FeeOf(sig[a], job[a], r),
         Cut(job'[a], r) = Cut(job[a], r)
  PROVE  AloneRow(a, l, r)'
  BY DEF AloneRow, SameRow, Untouched, Running, Finished, Told

\* Steps that move the agent only, or fill in a row's PnL.
LEMMA QuietStep ==
  ASSUME NEW a, NEW l, Alone1(a, l), LedgerInv, LedgerInv', Alone(a, l),
         UNCHANGED <<ord, exch, truth>>, \A r \in Rows : SameRow(r),
         Blank(job[a]), Blank(job'[a]), sig'[a].link = sig[a].link,
         sig'[a].gross = sig[a].gross, sig'[a].fee = sig[a].fee,
         AloneJob(a, l)', AloneSig(a)', AlonePass(a)'
  PROVE  Alone(a, l)'
  <1>1. ASSUME NEW r \in Rows PROVE AloneRow(a, l, r)'
    <2>1. /\ sig[a] \in Signal /\ job[a] \in Job /\ sig'[a] \in Signal /\ job'[a] \in Job
      BY SoloTypes DEF Alone1, LedgerInv, TypeOK
    <2>2. AloneRow(a, l, r)
      BY DEF Alone
    <2>3. /\ GrossOf(sig'[a], job'[a], r) = GrossOf(sig[a], job[a], r)
          /\ FeeOf(sig'[a], job'[a], r) = FeeOf(sig[a], job[a], r)
          /\ Cut(job'[a], r) = 0 /\ Cut(job[a], r) = 0
      BY <2>1, BlankParts
    <2> QED
      BY <2>2, <2>3, RowFrame
  <1>2. exch'[l].size # 0 => exch'[l].episode \in Rows /\ row'[exch'[l].episode].status = "open"
    <2>1. exch[l].size # 0 => exch[l].episode \in Rows /\ IsOpen(exch[l].episode)
      BY DEF Alone
    <2> QED
      BY <2>1 DEF SameRow, IsOpen
  <1> QED
    BY <1>1, <1>2 DEF Alone, IsOpen

LEMMA NoJobBlank == Blank(NoJob) /\ NoJob.own = FALSE /\ NoJob.row = NULL
  BY DEF Blank, NoJob

LEMMA BlankBefore ==
  ASSUME NEW a, NEW l, Alone(a, l), pc[a] \notin {"external", "commit"}
  PROVE  Blank(job[a])
  BY NoJobBlank DEF Alone, AloneJob, Closes, Blank

LEMMA NoSignalFields ==
  /\ NoSignal.link = NULL /\ NoSignal.gross = NULL /\ NoSignal.fee = 0
  /\ NoSignal.legs = {} /\ NoSignal.first = TRUE /\ NoSignal.failed = FALSE
  BY DEF NoSignal

\* What a close of row r starts from.
LEMMA ClosingFields ==
  ASSUME NEW r \in Rows, NEW want \in Maybe(Nat), NEW own, row[r].size \in Int
  PROVE  /\ Blank(Closing(r, want, own)) /\ Closing(r, want, own).row = r
         /\ Closing(r, want, own).leg = row[r].leg /\ Closing(r, want, own).own = own
         /\ Closing(r, want, own).full \/ Closing(r, want, own).size < row[r].size
         /\ want = NULL => Closing(r, want, own).full
  <1>1. CASE want = NULL
    BY <1>1 DEF Closing, Blank
  <1>2. CASE want # NULL /\ want >= row[r].size
    BY <1>2 DEF Closing, Blank
  <1>3. CASE want # NULL /\ ~(want >= row[r].size)
    <2>1. want \in Int /\ want < row[r].size
      BY <1>3
    <2>2. Closing(r, want, own).size = want
      BY <1>3, <2>1 DEF Closing, MinOf
    <2> QED
      BY <1>3, <2>1, <2>2 DEF Closing, Blank
  <1> QED
    BY <1>1, <1>2, <1>3
-------------------------------------------------------------------------------
(* The steps that only move the agent.                                     *)

\* Between its closes the agent carries on: bookings, checks and the stages of a pass.
LEMMA WalkStep ==
  ASSUME NEW a, NEW l, Alone1(a, l), LedgerInv, LedgerInv', Alone(a, l),
         UNCHANGED <<ord, exch, truth, job, sig>>, \A r \in Rows : SameRow(r),
         pc[a] \notin Closes, pc'[a] \notin Closes \cup {"insert"}, found'[a] = {},
         after'[a] = after[a] \/ (after[a] # "signal" /\ after'[a] \in {"idle", "select", "recover"}),
         pc'[a] = "idle" => after'[a] # "signal"
  PROVE  Alone(a, l)'
  <1>1. job[a] = NoJob /\ job'[a] = NoJob /\ Blank(job[a]) /\ sig' = sig
    BY NoJobBlank DEF Alone, AloneJob
  <1>2. AloneJob(a, l)'
    BY <1>1, NoJobBlank DEF AloneJob, Closes
  <1>3. AloneSig(a)'
    BY <1>1 DEF Alone, AloneSig
  <1>4. AlonePass(a)'
    BY DEF Alone, AlonePass
  <1> QED
    BY <1>1, <1>2, <1>3, <1>4, QuietStep

LEMMA BookAlone ==
  ASSUME NEW a, NEW l, Alone1(a, l), LedgerInv, LedgerInv', Alone(a, l), NEW r \in Rows, Book(a, r)
  PROVE  Alone(a, l)'
  <1>1. pc[a] = "book" /\ pc'[a] = "check"
    BY SoloTypes DEF Book
  <1>2. UNCHANGED <<row, ord, exch, truth, job, sig, after, found>>
    BY DEF Book, exchVars
  <1>3. found[a] = {}
    BY DEF Alone, AlonePass
  <1> QED
    BY <1>1, <1>2, <1>3, WalkStep DEF SameRow, Closes

LEMMA CheckDrawdownAlone ==
  ASSUME NEW a, NEW l, Alone1(a, l), LedgerInv, LedgerInv', Alone(a, l), CheckDrawdown(a)
  PROVE  Alone(a, l)'
  <1>1. pc[a] = "check" /\ pc'[a] \in {"flatten", "book", after[a]}
    BY SoloTypes DEF CheckDrawdown, Resume
  <1>2. UNCHANGED <<row, ord, exch, truth, job, sig, after, found>>
    BY DEF CheckDrawdown, rowVars, exchVars
  <1>3. found[a] = {} /\ after[a] # "insert"
        /\ after[a] \in {"idle", "signal", "select", "recover", "insert"}
    BY SoloTypes DEF Alone, AlonePass, TypeOK
  <1> QED
    BY <1>1, <1>2, <1>3, WalkStep DEF SameRow, Closes

LEMMA DisableAlone ==
  ASSUME NEW a, NEW l, Alone1(a, l), LedgerInv, LedgerInv', Alone(a, l), Disable(a)
  PROVE  Alone(a, l)'
  <1>1. pc[a] = "flatten" /\ pc'[a] \in {"book", after[a]}
    BY SoloTypes DEF Disable
  <1>2. UNCHANGED <<row, ord, exch, truth, job, sig, after, found>>
    BY DEF Disable, exchVars
  <1>3. found[a] = {} /\ after[a] # "insert"
        /\ after[a] \in {"idle", "signal", "select", "recover", "insert"}
    BY SoloTypes DEF Alone, AlonePass, TypeOK
  <1> QED
    BY <1>1, <1>2, <1>3, WalkStep DEF SameRow, Closes

LEMMA RecoverSelectAlone ==
  ASSUME NEW a, NEW l, Alone1(a, l), LedgerInv, LedgerInv', Alone(a, l), RecoverSelect(a)
  PROVE  Alone(a, l)'
  <1>1. pc[a] = "select" /\ pc'[a] = "recover" /\ after[a] = "select" /\ after'[a] = "recover"
    BY SoloTypes DEF RecoverSelect, AgentInv, TypeOK
  <1>2. UNCHANGED <<row, ord, exch, truth, job, sig>>
    BY DEF RecoverSelect, rowVars, exchVars
  <1>3. found'[a] = {}
    <2>1. found'[a] = {r \in Rows : Unexplained(r)}
      BY SoloTypes DEF RecoverSelect, TypeOK
    <2>2. \A r \in Rows : ~Unexplained(r)
      BY DEF Alone, AloneRow, Finished, Unexplained
    <2> QED
      BY <2>1, <2>2
  <1> QED
    BY <1>1, <1>2, <1>3, WalkStep DEF SameRow, Closes

LEMMA EndPassAlone ==
  ASSUME NEW a, NEW l, Alone1(a, l), LedgerInv, LedgerInv', Alone(a, l), EndPass(a)
  PROVE  Alone(a, l)'
  <1>1. pc[a] = "recover" /\ pc'[a] = "idle" /\ after[a] = "recover" /\ after'[a] = "idle"
        /\ found'[a] = {}
    BY SoloTypes DEF EndPass, AgentInv, TypeOK
  <1>2. UNCHANGED <<row, ord, exch, truth, job, sig>>
    BY DEF EndPass, rowVars, exchVars
  <1> QED
    BY <1>1, <1>2, WalkStep DEF SameRow, Closes

LEMMA SyncAttributeAlone ==
  ASSUME NEW a, NEW l, Alone1(a, l), LedgerInv, LedgerInv', Alone(a, l), SyncAttribute(a)
  PROVE  Alone(a, l)'
  <1>1. pc[a] = "idle" /\ pc'[a] = "correct" /\ after'[a] = "select"
    BY SoloTypes DEF SyncAttribute, TypeOK
  <1>2. UNCHANGED <<ord, exch, truth, job, sig, found>>
    BY DEF SyncAttribute, exchVars
  <1>3. found[a] = {} /\ after[a] # "signal"
    BY <1>1 DEF Alone, AlonePass
  <1>4. ASSUME NEW r \in Rows PROVE SameRow(r)
    <2>1. OrderTotal(r) \in Int /\ row[r] \in Position
      BY SoloTypes, OrderTotalType DEF TypeOK
    <2>2. row'[r] = row[r] \/ row'[r] = [row[r] EXCEPT !.pnl = OrderTotal(r)]
      BY DEF SyncAttribute
    <2> HIDE DEF Rows
    <2> QED
      BY <2>1, <2>2 DEF SameRow, Position
  <1> QED
    BY <1>1, <1>2, <1>3, <1>4, WalkStep DEF Closes

LEMMA SyncCorrectAlone ==
  ASSUME NEW a, NEW l, Alone1(a, l), LedgerInv, LedgerInv', Alone(a, l), SyncCorrect(a)
  PROVE  Alone(a, l)'
  <1>1. pc[a] = "correct" /\ pc'[a] \in {"book", "select"} /\ after[a] = "select"
    BY SoloTypes DEF SyncCorrect, AgentInv
  <1>2. UNCHANGED <<ord, exch, truth, job, sig, after, found>>
    BY DEF SyncCorrect, exchVars
  <1>3. found[a] = {}
    BY DEF Alone, AlonePass
  <1>4. ASSUME NEW r \in Rows PROVE SameRow(r)
    <2>1. OrderTotal(r) \in Int /\ row[r] \in Position
      BY SoloTypes, OrderTotalType DEF TypeOK
    <2>2. row'[r] = row[r] \/ row'[r] = [row[r] EXCEPT !.pnl = OrderTotal(r)]
      BY DEF SyncCorrect
    <2> HIDE DEF Rows
    <2> QED
      BY <2>1, <2>2 DEF SameRow, Position
  <1> QED
    BY <1>1, <1>2, <1>3, <1>4, WalkStep DEF Closes
-------------------------------------------------------------------------------
(* The steps that start a close.                                           *)

\* The row open in the leg, and no other, is the one the exchange holds.
LEMMA OneOpen ==
  ASSUME NEW a, NEW l, Alone(a, l), NEW r \in Rows, IsOpen(r)
  PROVE  Running(a, l, r)
  BY DEF Alone, AloneRow, IsOpen

\* A close of an open row begins: the agent carries nothing of it yet.
LEMMA StartStep ==
  ASSUME NEW a, NEW l, Alone1(a, l), LedgerInv, LedgerInv', Alone(a, l),
         UNCHANGED <<row, ord, exch, truth, found>>, pc[a] \notin Closes, pc'[a] = "exchange",
         NEW r \in Rows, IsOpen(r), NEW want \in Maybe(Nat), NEW own \in BOOLEAN,
         job'[a] = Closing(r, want, own),
         sig'[a].link = sig[a].link, sig'[a].gross = sig[a].gross, sig'[a].fee = sig[a].fee,
         own => sig'[a].first /\ sig'[a].legs = {},
         AloneSig(a)', after'[a] # "insert"
  PROVE  Alone(a, l)'
  <1> DEFINE j == Closing(r, want, own)
  <1>1. row[r].size \in Int /\ row[r].leg = l
    BY SoloTypes, OneOpen DEF TypeOK, Position, Running
  <1>2. /\ Blank(j) /\ j.row = r /\ j.leg = l /\ j.own = own
        /\ j.full \/ j.size < row[r].size
    BY <1>1, ClosingFields
  <1>3. job'[a] = j
    OBVIOUS
  <1> HIDE DEF j
  <1>4. AloneJob(a, l)'
    BY <1>2, <1>3 DEF AloneJob, Closes, Blank, IsOpen
  <1>5. AlonePass(a)'
    BY DEF Alone, AlonePass
  <1>6. Blank(job[a]) /\ Blank(job'[a])
    BY <1>2, <1>3, BlankBefore DEF Closes
  <1> QED
    BY <1>4, <1>5, <1>6, QuietStep DEF SameRow

LEMMA ManualCloseAlone ==
  ASSUME NEW a, NEW l, Alone1(a, l), LedgerInv, LedgerInv', Alone(a, l),
         NEW r \in Rows, NEW want \in Maybe(Nat), ManualClose(a, r, want)
  PROVE  Alone(a, l)'
  <1>1. /\ pc[a] = "idle" /\ IsOpen(r) /\ pc'[a] = "exchange" /\ after'[a] = "idle"
        /\ job'[a] = Closing(r, want, FALSE)
    BY SoloTypes DEF ManualClose, TypeOK
  <1>2. UNCHANGED <<row, ord, exch, truth, sig, found>>
    BY DEF ManualClose, rowVars, exchVars
  <1>3. sig[a] = NoSignal
    BY <1>1 DEF Alone, AloneSig, AlonePass
  <1>4. AloneSig(a)'
    BY <1>1, <1>2, <1>3, NoSignalFields DEF AloneSig
  <1> QED
    BY <1>1, <1>2, <1>4, StartStep DEF Closes

LEMMA FlattenLegAlone ==
  ASSUME NEW a, NEW l, Alone1(a, l), LedgerInv, LedgerInv', Alone(a, l), FlattenLeg(a, l)
  PROVE  Alone(a, l)'
  <1>1. UNCHANGED <<row, ord, exch, truth, sig, after, found>> /\ pc[a] = "flatten"
    BY DEF FlattenLeg, rowVars, exchVars
  <1>2. CASE UNCHANGED <<pc, job>>
    <2>1. found[a] = {}
      BY DEF Alone, AlonePass
    <2> QED
      BY <1>1, <1>2, <2>1, WalkStep DEF SameRow, Closes
  <1>3. CASE \E r \in OpenIn(l) :
               /\ pc' = [pc EXCEPT ![a] = "exchange"]
               /\ job' = [job EXCEPT ![a] = Closing(r, NULL, FALSE)]
    <2>1. PICK r \in OpenIn(l) :
               /\ pc' = [pc EXCEPT ![a] = "exchange"]
               /\ job' = [job EXCEPT ![a] = Closing(r, NULL, FALSE)]
      BY <1>3
    <2>2. r \in Rows /\ IsOpen(r) /\ pc'[a] = "exchange" /\ job'[a] = Closing(r, NULL, FALSE)
      BY <2>1, SoloTypes DEF OpenIn
    <2>3. job[a] = NoJob
      BY <1>1 DEF Alone, AloneJob, Closes
    <2>4. AloneSig(a)'
      BY <1>1, <2>3, NoJobBlank DEF Alone, AloneSig
    <2>5. after'[a] # "insert"
      BY <1>1 DEF Alone, AlonePass
    <2> QED
      BY <1>1, <2>2, <2>4, <2>5, StartStep DEF Closes
  <1> QED
    BY <1>2, <1>3 DEF FlattenLeg

LEMMA SignalCloseAlone ==
  ASSUME NEW a, NEW l, Alone1(a, l), LedgerInv, LedgerInv', Alone(a, l),
         NEW legs \in SUBSET Legs, NEW want \in Maybe(Nat), SignalClose(a, legs, want)
  PROVE  Alone(a, l)'
  <1> DEFINE s == [NoSignal EXCEPT !.legs = legs, !.want = want]
  <1>1. /\ pc[a] = "idle" /\ pc'[a] = "signal" /\ after'[a] = "signal" /\ sig'[a] = s
        /\ legs # {}
    BY SoloTypes DEF SignalClose, TypeOK
  <1>2. UNCHANGED <<row, ord, exch, truth, job, found>>
    BY DEF SignalClose, rowVars, exchVars
  <1>3. sig[a] = NoSignal /\ job[a] = NoJob
    BY <1>1 DEF Alone, AloneSig, AlonePass, AloneJob, Closes
  <1>4. /\ s.link = NULL /\ s.gross = NULL /\ s.fee = 0 /\ s.legs = legs
        /\ s.first = TRUE /\ s.failed = FALSE
    BY DEF NoSignal
  <1> HIDE DEF s
  <1>5. AloneSig(a)'
    BY <1>1, <1>4 DEF AloneSig
  <1>6. AloneJob(a, l)'
    BY <1>1, <1>2, <1>3, NoJobBlank DEF AloneJob, Closes
  <1>7. AlonePass(a)'
    BY <1>1, <1>2 DEF Alone, AlonePass
  <1>8. Blank(job[a]) /\ Blank(job'[a])
    BY <1>2, <1>3, NoJobBlank
  <1> QED
    BY <1>1, <1>2, <1>3, <1>4, <1>5, <1>6, <1>7, <1>8, NoSignalFields, QuietStep DEF SameRow

LEMMA SignalLegAlone ==
  ASSUME NEW a, NEW l, Alone1(a, l), LedgerInv, LedgerInv', Alone(a, l), SignalLeg(a, l)
  PROVE  Alone(a, l)'
  <1> DEFINE s == [sig[a] EXCEPT !.legs = @ \ {l}]
             t == [sig[a] EXCEPT !.legs = @ \ {l}, !.failed = TRUE, !.first = FALSE]
  <1>1. UNCHANGED <<row, ord, exch, truth, after, found>> /\ pc[a] = "signal" /\ after[a] = "signal"
        /\ l \in sig[a].legs
    BY SoloTypes DEF SignalLeg, rowVars, exchVars, AgentInv
  <1>2. sig[a] \in Signal /\ sig[a].legs = {l} /\ job[a] = NoJob
    BY <1>1, SoloTypes DEF Signal, Alone1, Alone, AloneJob, Closes
  <1>3. sig[a].first /\ sig[a].link = NULL /\ ~sig[a].failed /\ sig[a].gross = NULL /\ sig[a].fee = 0
    BY <1>1 DEF Alone, AloneSig
  <1>4. /\ s.link = NULL /\ s.gross = NULL /\ s.fee = 0 /\ s.legs = {}
        /\ s.first = TRUE /\ s.failed = FALSE
    BY <1>2, <1>3 DEF Signal
  <1>5. /\ t.link = NULL /\ t.gross = NULL /\ t.fee = 0 /\ t.legs = {}
        /\ t.first = FALSE /\ t.failed = TRUE
    BY <1>2, <1>3 DEF Signal
  <1>6. CASE \E r \in OpenIn(l) :
               /\ pc' = [pc EXCEPT ![a] = "exchange"]
               /\ job' = [job EXCEPT ![a] = Closing(r, sig[a].want, TRUE)]
               /\ sig' = [sig EXCEPT ![a].legs = @ \ {l}]
    <2>1. PICK r \in OpenIn(l) :
               /\ pc' = [pc EXCEPT ![a] = "exchange"]
               /\ job' = [job EXCEPT ![a] = Closing(r, sig[a].want, TRUE)]
               /\ sig' = [sig EXCEPT ![a].legs = @ \ {l}]
      BY <1>6
    <2>2. r \in Rows /\ IsOpen(r) /\ pc'[a] = "exchange" /\ job'[a] = Closing(r, sig[a].want, TRUE)
          /\ sig'[a] = s
      BY <2>1, SoloTypes DEF OpenIn
    <2>3. sig[a].want \in Maybe(Nat)
      BY <1>2 DEF Signal
    <2>5. job'[a].own = TRUE
      BY <2>2 DEF Closing
    <2> HIDE DEF s
    <2>6. AloneSig(a)'
      BY <1>1, <1>4, <2>2, <2>5 DEF AloneSig
    <2>7. sig'[a].link = sig[a].link /\ sig'[a].gross = sig[a].gross /\ sig'[a].fee = sig[a].fee
          /\ sig'[a].first /\ sig'[a].legs = {}
      BY <1>3, <1>4, <2>2
    <2>8. after'[a] # "insert" /\ TRUE \in BOOLEAN /\ pc[a] \notin Closes
      BY <1>1 DEF Closes
    <2> HIDE DEF Rows, Maybe
    <2> QED
      BY <1>1, <2>2, <2>3, <2>6, <2>7, <2>8, StartStep
  <1>7. CASE /\ sig' = [sig EXCEPT ![a].legs = @ \ {l}, ![a].failed = TRUE, ![a].first = FALSE]
             /\ UNCHANGED <<pc, job>>
    <2>1. sig'[a] = t
      BY <1>2, <1>7, SoloTypes DEF Signal
    <2> HIDE DEF t
    <2>2. AloneSig(a)'
      BY <1>1, <1>5, <2>1 DEF AloneSig
    <2>3. AloneJob(a, l)' /\ AlonePass(a)'
      BY <1>1, <1>2, <1>7, NoJobBlank DEF Alone, AloneJob, AlonePass, Closes
    <2> QED
      BY <1>1, <1>2, <1>3, <1>5, <1>7, <2>1, <2>2, <2>3, NoJobBlank, QuietStep DEF SameRow
  <1> QED
    BY <1>6, <1>7 DEF SignalLeg
-------------------------------------------------------------------------------
(* The steps that move the exchange.                                       *)

\* Lots come off the leg of the open row the exchange holds.
LEMMA ReducedAlone ==
  ASSUME NEW a, NEW l, Alone1(a, l), LedgerInv, Alone(a, l),
         NEW n \in Int, n >= 1, n <= exch[l].size, NEW g \in Int, Reduced(l, n, g)
  PROVE  \E e \in Rows :
           /\ e = exch[l].episode /\ IsOpen(e)
           /\ exch'[l].size = exch[l].size - n /\ exch'[l].episode = e
           /\ n = exch[l].size => exch'[l].last = e
           /\ truth'[e].gross = truth[e].gross + n * g /\ truth'[e].fee = truth[e].fee + CloseFee
           /\ \A q \in Rows : q # e => truth'[q] = truth[q]
  <1> DEFINE e == exch[l].episode
             h == [size |-> exch[l].size - n, episode |-> e,
                   last |-> IF n = exch[l].size THEN e ELSE exch[l].last]
             t == [gross |-> truth[e].gross + n * g, fee |-> truth[e].fee + CloseFee]
  <1>1. exch[l] \in Holding /\ exch \in [Legs -> Holding] /\ l \in Legs /\ truth \in [Rows -> Ledger]
    BY SoloTypes DEF TypeOK
  <1>2. e \in Rows /\ IsOpen(e)
    <2>1. exch[l].size # 0
      BY <1>1 DEF Holding
    <2> QED
      BY <2>1 DEF Alone
  <1>3. exch' = [exch EXCEPT ![l] = h] /\ truth' = [truth EXCEPT ![e] = t]
    BY DEF Reduced
  <1>4. exch'[l] = h
    <2> HIDE DEF h
    <2> QED
      BY <1>1, <1>3
  <1>5. truth'[e] = t /\ \A q \in Rows : q # e => truth'[q] = truth[q]
    <2> HIDE DEF t, e, Rows
    <2> QED
      BY <1>1, <1>2, <1>3
  <1>6. e = exch[l].episode
    OBVIOUS
  <1>7. /\ h.size = exch[l].size - n /\ h.episode = e /\ (n = exch[l].size => h.last = e)
        /\ t.gross = truth[e].gross + n * g /\ t.fee = truth[e].fee + CloseFee
    OBVIOUS
  <1> HIDE DEF e, h, t, Rows
  <1> QED
    BY <1>2, <1>4, <1>5, <1>6, <1>7

LEMMA CreatePositionAlone ==
  ASSUME NEW a, NEW l, Alone1(a, l), LedgerInv, LedgerInv', Alone(a, l),
         NEW r \in Rows, NEW n \in Nat, n >= 1, CreatePosition(r, l, n)
  PROVE  Alone(a, l)'
  <1>1. /\ row[r].status = "none" /\ OpenIn(l) = {} /\ exch[l].size = 0
        /\ UNCHANGED <<ord, pc, job, sig, after, found>>
    BY DEF CreatePosition, agentVars
  <1>2. /\ row'[r].status = "open" /\ row'[r].leg = l /\ row'[r].size = n
        /\ \A q \in Rows : q # r => row'[q] = row[q]
    BY SoloTypes DEF CreatePosition, TypeOK
  <1>3. exch'[l].size = n /\ exch'[l].episode = r
    BY SoloTypes DEF CreatePosition, TypeOK, Holding
  <1>4. /\ truth'[r].gross = truth[r].gross /\ truth'[r].fee = OpenFee
        /\ \A q \in Rows : q # r => truth'[q] = truth[q]
    BY SoloTypes DEF CreatePosition, TypeOK, Ledger
  <1>5. \A q \in Rows : row[q].status # "open"
    <2>1. ASSUME NEW q \in Rows, row[q].status = "open" PROVE FALSE
      <3>1. row[q].leg = l
        BY <2>1, OneOpen DEF IsOpen, Running
      <3>2. q \in OpenIn(l)
        BY <2>1, <3>1 DEF OpenIn, IsOpen
      <3> QED
        BY <1>1, <3>2
    <2> QED
      BY <2>1
  <1>6. job[a] = NoJob /\ pc[a] \notin Closes
    BY <1>5 DEF Alone, AloneJob, IsOpen
  <1>7. AloneJob(a, l)' /\ AloneSig(a)' /\ AlonePass(a)'
    <2>1. AloneJob(a, l)'
      BY <1>1, <1>6, NoJobBlank DEF AloneJob, Closes
    <2> QED
      BY <1>1, <2>1 DEF Alone, AloneSig, AlonePass
  <1>8. ASSUME NEW q \in Rows PROVE AloneRow(a, l, q)'
    <2>1. CASE q = r
      <3>1. Untouched(a, l, r)
        BY <1>1 DEF Alone, AloneRow
      <3>2. GrossOf(sig[a], job[a], r) = 0 /\ FeeOf(sig[a], job[a], r) = 0 /\ Cut(job[a], r) = 0
        BY <1>6, <3>1, NoJobBlank DEF GrossOf, FeeOf, Cut, Untouched
      <3>3. Told(a, r)'
        BY <1>1, <1>4, <3>1, <3>2, MoneyAssumption DEF Told, Untouched
      <3>4. n - 0 = n /\ OpenFee >= OpenFee + 0 + 0
        BY MoneyAssumption
      <3> QED
        BY <1>1, <1>2, <1>3, <1>4, <2>1, <3>1, <3>2, <3>3, <3>4
           DEF AloneRow, Running, Untouched
    <2>2. CASE q # r
      <3>1. AloneRow(a, l, q) /\ row[q].status # "open"
        BY <1>5 DEF Alone
      <3> QED
        BY <1>1, <1>2, <1>3, <1>4, <2>2, <3>1 DEF AloneRow, Untouched, Finished, Told
    <2> QED
      BY <2>1, <2>2
  <1>9. exch'[l].size # 0 => exch'[l].episode \in Rows /\ row'[exch'[l].episode].status = "open"
    BY <1>2, <1>3
  <1> QED
    BY <1>7, <1>8, <1>9 DEF Alone, IsOpen

\* A trigger takes the whole leg.
LEMMA TriggerFiresAlone ==
  ASSUME NEW a, NEW l, Alone1(a, l), LedgerInv, LedgerInv', Alone(a, l),
         NEW n \in Nat, n >= 1, NEW g \in Gains, TriggerFires(l, n, g)
  PROVE  Alone(a, l)'
  <1>1. /\ n = exch[l].size /\ Reduced(l, n, g) /\ exch[l].size \in Nat
        /\ UNCHANGED <<row, ord, pc, job, sig, after, found>>
    <2>1. exch[l].size \in Nat
      BY SoloTypes DEF Holding
    <2> QED
      BY <2>1 DEF TriggerFires, rowVars, agentVars, MaxOf, Alone1
  <1>2. PICK e \in Rows :
           /\ e = exch[l].episode /\ IsOpen(e)
           /\ exch'[l].size = exch[l].size - n /\ exch'[l].episode = e
           /\ n = exch[l].size => exch'[l].last = e
           /\ truth'[e].gross = truth[e].gross + n * g /\ truth'[e].fee = truth[e].fee + CloseFee
           /\ \A q \in Rows : q # e => truth'[q] = truth[q]
    <2>1. n \in Int /\ n <= exch[l].size /\ g \in Int
      BY <1>1, MoneyAssumption
    <2> QED
      BY <1>1, <2>1, ReducedAlone
  <1>3. exch'[l].size = 0 /\ exch[l].size # 0 /\ exch'[l].last = e
    BY <1>1, <1>2
  <1>4. AloneJob(a, l)'
    <2>1. AloneJob(a, l)
      BY DEF Alone
    <2> QED
      BY <1>1, <1>3, <2>1 DEF AloneJob, IsOpen
  <1>5. AloneSig(a)' /\ AlonePass(a)'
    BY <1>1 DEF Alone, AloneSig, AlonePass
  <1>6. ASSUME NEW q \in Rows PROVE AloneRow(a, l, q)'
    <2>1. AloneRow(a, l, q)
      BY DEF Alone
    <2>2. CASE q = e
      <3>1. truth[e].fee \in Int /\ ord[e].fee \in Int /\ FeeOf(sig[a], job[a], e) \in Int
            /\ OpenFee \in Int /\ CloseFee \in Nat
        BY SoloTypes, PartTypes, MoneyAssumption DEF TypeOK, Linkage, Ledger
      <3>2. Running(a, l, e)
        BY <1>2, OneOpen
      <3>3. truth'[e].fee >= OpenFee + ord[e].fee + FeeOf(sig[a], job[a], e)
        BY <1>2, <3>1, <3>2 DEF Running
      <3>4. Running(a, l, e)'
        BY <1>1, <1>2, <1>3, <3>2, <3>3 DEF Running
      <3> QED
        BY <1>1, <1>2, <2>2, <3>4 DEF AloneRow, IsOpen
    <2>3. CASE q # e
      BY <1>1, <1>2, <1>3, <2>1, <2>3 DEF AloneRow, Untouched, Running, Finished, Told
    <2> QED
      BY <2>2, <2>3
  <1> QED
    BY <1>3, <1>4, <1>5, <1>6 DEF Alone
\* A refused close leaves everything as it was, but for the webhook's order that failed.
LEMMA RefusedAlone ==
  ASSUME NEW a, NEW l, Alone1(a, l), LedgerInv, LedgerInv', Alone(a, l),
         NEW g \in Gains, ExchangeClose(a, "refused", g)
  PROVE  Alone(a, l)'
  <1>1. /\ pc[a] = "exchange" /\ pc'[a] \in {"flatten", "book", after[a]} /\ job'[a] = NoJob
        /\ UNCHANGED <<row, ord, exch, truth, after, found>>
    BY SoloTypes DEF ExchangeClose, rowVars, exchVars, Resume
  <1>2. sig'[a] = IF job[a].own THEN Outcome(sig[a], FALSE, NULL, 0) ELSE sig[a]
    BY SoloTypes DEF ExchangeClose
  <1>3. /\ AloneSig(a) /\ (job[a].own => sig[a].first /\ sig[a].legs = {} /\ after[a] = "signal")
        /\ sig[a] \in Signal
    BY SoloTypes DEF Alone, AloneJob, AgentInv
  <1>4. /\ after[a] # "insert" /\ found[a] = {}
        /\ after[a] \in {"idle", "signal", "select", "recover", "insert"}
    BY SoloTypes DEF Alone, AlonePass, TypeOK
  <1>5. CASE job[a].own
    <2> DEFINE s == Outcome(sig[a], FALSE, NULL, 0)
    <2>1. /\ s.link = sig[a].link /\ s.gross = sig[a].gross /\ s.fee = sig[a].fee
          /\ s.legs = sig[a].legs /\ s.first = FALSE /\ s.failed = TRUE
      BY <1>3 DEF Outcome, Signal
    <2>2. sig'[a] = s
      BY <1>2, <1>5
    <2> HIDE DEF s
    <2>3. AloneSig(a)'
      BY <1>1, <1>3, <1>5, <2>1, <2>2 DEF AloneSig
    <2>4. AloneJob(a, l)' /\ AlonePass(a)'
      BY <1>1, <1>4, NoJobBlank DEF AloneJob, AlonePass, Closes
    <2> QED
      BY <1>1, <2>1, <2>2, <2>3, <2>4, NoJobBlank, BlankBefore, QuietStep DEF SameRow
  <1>6. CASE ~job[a].own
    <2>1. AloneSig(a)'
      BY <1>1, <1>2, <1>3, <1>6, NoJobBlank DEF AloneSig
    <2>2. AloneJob(a, l)' /\ AlonePass(a)'
      BY <1>1, <1>4, NoJobBlank DEF AloneJob, AlonePass, Closes
    <2> QED
      BY <1>1, <1>2, <1>6, <2>1, <2>2, NoJobBlank, BlankBefore, QuietStep DEF SameRow
  <1> QED
    BY <1>5, <1>6

\* A close the exchange answered: the agent carries its figures.
LEMMA ReportedAlone ==
  ASSUME NEW a, NEW l, Alone1(a, l), LedgerInv, LedgerInv', Alone(a, l),
         NEW g \in Gains, ExchangeClose(a, "reported", g)
  PROVE  Alone(a, l)'
  <1> DEFINE j == job[a]
             n == CloseQuantity(j)
             k == WithFill(j, "reported", n, g)
  <1>1. /\ pc[a] = "exchange" /\ pc'[a] = "commit" /\ job'[a] = k
        /\ UNCHANGED <<row, ord, sig, after, found>> /\ ~(n <= 0) /\ Reduced(j.leg, n, g)
    BY SoloTypes DEF ExchangeClose, rowVars
  <1>2. /\ j \in Job /\ j.row \in Rows /\ IsOpen(j.row) /\ j.leg = l /\ Blank(j)
        /\ (j.own => sig[a].first /\ sig[a].legs = {})
    BY <1>1, SoloTypes DEF Alone, AloneJob, Closes, Blank
  <1>3. /\ n \in Int /\ n <= exch[l].size /\ n >= 1 /\ exch[l].size \in Nat
        /\ (j.full => n = exch[l].size)
    <2>1. exch[l].size \in Nat /\ j.size \in Int
      BY <1>2, SoloTypes DEF Holding, Job
    <2>2. n \in Int /\ n <= exch[l].size /\ (j.full => n = exch[l].size)
      BY <1>2, <2>1 DEF CloseQuantity, MinOf
    <2> HIDE DEF n
    <2> QED
      BY <1>1, <2>1, <2>2
  <1>4. g \in Int /\ n * g \in Int /\ CloseFee \in Int /\ OpenFee \in Int
    BY <1>3, MoneyAssumption
  <1>5. /\ k.row = j.row /\ k.leg = j.leg /\ k.full = j.full /\ k.own = j.own
        /\ k.gross = n * g /\ k.fee = CloseFee /\ k.size = IF j.full THEN j.size ELSE n
        /\ k \in Job
    <2>1. k = [j EXCEPT !.gross = n * g, !.fee = CloseFee, !.size = IF j.full THEN @ ELSE n]
      BY DEF WithFill
    <2> HIDE DEF j, k, n
    <2> QED
      BY <1>2, <1>3, <1>4, <2>1 DEF Job
  <1> HIDE DEF n, k
  <1>6. PICK e \in Rows :
           /\ e = exch[l].episode /\ IsOpen(e)
           /\ exch'[l].size = exch[l].size - n /\ exch'[l].episode = e
           /\ n = exch[l].size => exch'[l].last = e
           /\ truth'[e].gross = truth[e].gross + n * g /\ truth'[e].fee = truth[e].fee + CloseFee
           /\ \A q \in Rows : q # e => truth'[q] = truth[q]
    BY <1>1, <1>2, <1>3, <1>4, ReducedAlone
  <1> HIDE DEF j
  <1>7. Running(a, l, e) /\ j.row = e
    <2>1. Running(a, l, e) /\ Running(a, l, j.row)
      BY <1>2, <1>6, OneOpen
    <2> QED
      BY <1>6, <2>1 DEF Running
  <1>8. Told(a, e) /\ exch[l].size = row[e].size /\ row[e].size \in Int
    <2>1. row[e].size \in Int
      BY SoloTypes DEF TypeOK, Position
    <2>2. Cut(job[a], e) = 0
      BY <1>2 DEF j, Cut, Blank
    <2> QED
      BY <1>3, <1>7, <2>1, <2>2 DEF Running
  <1>9. /\ GrossOf(sig[a], k, e) = GrossOf(sig[a], job[a], e) + n * g
        /\ FeeOf(sig[a], k, e) = FeeOf(sig[a], job[a], e) + CloseFee
        /\ \A q \in Rows : q # e => GrossOf(sig[a], k, q) = GrossOf(sig[a], job[a], q)
                                   /\ FeeOf(sig[a], k, q) = FeeOf(sig[a], job[a], q)
                                   /\ Cut(k, q) = 0 /\ Cut(job[a], q) = 0
    <2>1. sig[a].fee \in Int /\ (sig[a].gross = NULL \/ sig[a].gross \in Int)
      BY SoloTypes DEF Signal
    <2>2. job[a].row = e /\ job[a].gross = NULL /\ job[a].fee = 0 /\ k.row = e
          /\ k.gross = n * g /\ k.fee = CloseFee
      BY <1>2, <1>5, <1>7 DEF j, Blank
    <2>3. n * g # NULL
      BY <1>4
    <2> QED
      BY <1>4, <2>1, <2>2, <2>3 DEF GrossOf, FeeOf, Cut, Amount
  <1>10. Told(a, e)'
    <2>1. /\ GrossOf(sig[a], job[a], e) \in Int /\ FeeOf(sig[a], job[a], e) \in Int
          /\ ord[e].pnl \in Int /\ ord[e].fee \in Int
          /\ truth[e].gross \in Int /\ truth[e].fee \in Int
      BY SoloTypes, PartTypes DEF TypeOK, Linkage, Ledger
    <2>2. truth'[e].gross = ord[e].pnl + GrossOf(sig[a], k, e)
      BY <1>4, <1>6, <1>8, <1>9, <2>1 DEF Told
    <2>3. truth'[e].fee = OpenFee + ord[e].fee + FeeOf(sig[a], k, e)
      BY <1>4, <1>6, <1>8, <1>9, <2>1 DEF Told
    <2> QED
      BY <1>1, <2>2, <2>3 DEF Told
  <1>11. Running(a, l, e)'
    <2>1. exch'[l].size # 0 => exch'[l].size = row[e].size - Cut(k, e)
      <3>1. exch'[l].size # 0 => Cut(k, e) = n
        BY <1>3, <1>4, <1>5, <1>6, <1>7 DEF Cut
      <3> QED
        BY <1>6, <1>8, <3>1
    <2>2. exch'[l].size = 0 => exch'[l].last = e
      BY <1>3, <1>6
    <2>3. OpenFee + ord[e].fee + FeeOf(sig[a], k, e) \in Int
      BY <1>4, <1>5, SoloTypes, PartTypes DEF TypeOK, Linkage
    <2>4. truth'[e].fee >= OpenFee + ord[e].fee + FeeOf(sig[a], k, e)
      <3>1. truth'[e].fee = OpenFee + ord[e].fee + FeeOf(sig[a], k, e)
        BY <1>1, <1>10 DEF Told
      <3> QED
        BY <2>3, <3>1
    <2> QED
      BY <1>1, <1>6, <1>7, <1>10, <2>1, <2>2, <2>4 DEF Running
  <1>12. ASSUME NEW q \in Rows PROVE AloneRow(a, l, q)'
    <2>1. CASE q = e
      BY <1>1, <1>6, <1>11, <2>1 DEF AloneRow, IsOpen
    <2>2. CASE q # e
      <3>1. AloneRow(a, l, q) /\ truth'[q] = truth[q] /\ row[q].status # "open"
        <4>1. AloneRow(a, l, q)
          BY DEF Alone
        <4> QED
          BY <1>6, <2>2, <4>1 DEF AloneRow, Running
      <3>2. /\ GrossOf(sig[a], k, q) = GrossOf(sig[a], job[a], q)
            /\ FeeOf(sig[a], k, q) = FeeOf(sig[a], job[a], q)
        BY <1>9, <2>2
      <3> QED
        BY <1>1, <1>6, <2>2, <3>1, <3>2 DEF AloneRow, Untouched, Finished, Told
    <2> QED
      BY <2>1, <2>2
  <1>13. AloneJob(a, l)'
    <2>1. k.full => exch'[l].size = 0
      BY <1>3, <1>5, <1>6
    <2>2. k.row = e /\ k.leg = l /\ k.gross # NULL /\ row'[e].status = "open"
      BY <1>1, <1>2, <1>4, <1>5, <1>6, <1>7 DEF IsOpen
    <2>3. k.own => sig'[a].first /\ sig'[a].legs = {}
      BY <1>1, <1>2, <1>5 
    <2>4. job'[a] = k /\ pc'[a] = "commit"
      BY <1>1
    <2> QED
      BY <1>6, <1>10, <2>1, <2>2, <2>3, <2>4 DEF AloneJob, Closes, IsOpen
  <1>14. AloneSig(a)' /\ AlonePass(a)'
    <2>1. job'[a].own = job[a].own
      BY <1>1, <1>5 DEF j
    <2> QED
      BY <1>1, <2>1 DEF Alone, AloneSig, AlonePass
  <1>15. exch'[l].size # 0 => exch'[l].episode \in Rows /\ row'[exch'[l].episode].status = "open"
    BY <1>1, <1>6 DEF IsOpen
  <1> QED
    BY <1>12, <1>13, <1>14, <1>15 DEF Alone, IsOpen
\* The leg is gone from the exchange, and history's part no order tells is the agent's.
LEMMA ExternalCloseAlone ==
  ASSUME NEW a, NEW l, Alone1(a, l), LedgerInv, LedgerInv', Alone(a, l),
         NEW r \in Rows, ExternalClose(a, r)
  PROVE  Alone(a, l)'
  <1> DEFINE c == Closing(r, NULL, FALSE)
             K(e) == [c EXCEPT !.gross = RemainingPnl(e, r), !.fee = RemainingFee(e, r)]
             k == K(r)
  <1>1. /\ pc[a] = "idle" /\ pc'[a] = "external" /\ IsOpen(r) /\ after'[a] = "idle"
        /\ UNCHANGED <<row, ord, exch, truth, sig, found>>
    BY SoloTypes DEF ExternalClose, TypeOK, rowVars, exchVars
  <1>2. Running(a, l, r) /\ exch[l].size = 0 /\ exch[l].last = r
    <2>1. Running(a, l, r)
      BY <1>1, OneOpen
    <2> QED
      BY <2>1 DEF Running, ExternalClose
  <1>3. History(r) = r
    BY <1>2 DEF History, Running
  <1>4. job[a] = NoJob /\ sig[a] = NoSignal
    BY <1>1 DEF Alone, AloneJob, AloneSig, AlonePass, Closes
  <1>5. job'[a] = k
    <2>1. \/ job' = [job EXCEPT ![a] = K(History(r))]
          \/ HistoryMayLag \/ History(r) = NULL
      BY DEF ExternalClose
    <2> HIDE DEF K
    <2>2. ~HistoryMayLag /\ r # NULL
      BY DEF Alone1
    <2>3. job' = [job EXCEPT ![a] = K(r)]
      BY <1>3, <2>1, <2>2
    <2> QED
      BY <2>3, SoloTypes
  <1>6. /\ truth[r].gross \in Int /\ truth[r].fee \in Int /\ ord[r].pnl \in Int /\ ord[r].fee \in Int
        /\ OpenFee \in Int
    BY SoloTypes, MoneyAssumption DEF TypeOK, Linkage, Ledger
  <1>7. /\ k.row = r /\ k.leg = l /\ k.full = TRUE /\ k.own = FALSE
        /\ k.gross = truth[r].gross - ord[r].pnl /\ k.gross \in Int
        /\ k.fee = RemainingFee(r, r)
    <2>1. c \in Job /\ c.row = r /\ c.leg = row[r].leg /\ c.own = FALSE
      <3>1. NULL \in Maybe(Nat) /\ FALSE \in BOOLEAN
        OBVIOUS
      <3> HIDE DEF c
      <3> QED
        BY <3>1, SoloTypes, ClosingType DEF c
    <2>2. c.full = TRUE
      BY DEF Closing
    <2>3. row[r].leg = l /\ RemainingPnl(r, r) = truth[r].gross - ord[r].pnl
      BY <1>2 DEF Running, RemainingPnl
    <2> HIDE DEF c
    <2> QED
      BY <1>6, <2>1, <2>2, <2>3 DEF Job
  <1>8. k.fee = truth[r].fee - OpenFee - ord[r].fee
    <2>1. FeeOf(sig[a], job[a], r) = 0
      BY <1>4, NoSignalFields, NoJobBlank DEF FeeOf
    <2>2. truth[r].fee >= OpenFee + ord[r].fee
      BY <1>2, <1>6, <2>1 DEF Running
    <2>3. RemainingFee(r, r) = MaxOf(truth[r].fee - OpenFee - ord[r].fee, 0)
      <3>1. CASE FeeScope = "close_only"
        BY <1>6, <3>1 DEF RemainingFee, HistoryFee, ClosingFee
      <3>2. CASE FeeScope = "round_trip"
        BY <1>6, <3>2 DEF RemainingFee, HistoryFee, WholeFee
      <3> QED
        BY <3>1, <3>2, FeeScopeAssumption
    <2> HIDE DEF k
    <2> QED
      BY <1>6, <1>7, <2>2, <2>3 DEF MaxOf
  <1> HIDE DEF k, K, c
  <1>9. /\ GrossOf(sig[a], k, r) = truth[r].gross - ord[r].pnl
        /\ FeeOf(sig[a], k, r) = truth[r].fee - OpenFee - ord[r].fee
        /\ \A q \in Rows : q # r => GrossOf(sig[a], k, q) = GrossOf(sig[a], job[a], q)
                                   /\ FeeOf(sig[a], k, q) = FeeOf(sig[a], job[a], q)
    <2>1. sig[a].link = NULL /\ job[a].row = NULL /\ k.gross # NULL /\ NULL \notin Rows
      BY <1>4, <1>7, NoSignalFields, NoJobBlank
    <2> QED
      BY <1>6, <1>7, <1>8, <2>1 DEF GrossOf, FeeOf, Amount
  <1>10. Told(a, r)'
    <2>1. /\ truth[r].gross = ord[r].pnl + GrossOf(sig[a], k, r)
          /\ truth[r].fee = OpenFee + ord[r].fee + FeeOf(sig[a], k, r)
      BY <1>6, <1>9
    <2> QED
      BY <1>1, <1>5, <2>1 DEF Told
  <1>11. ASSUME NEW q \in Rows PROVE AloneRow(a, l, q)'
    <2>1. CASE q = r
      <3>1. truth[r].fee >= OpenFee + ord[r].fee + FeeOf(sig[a], k, r)
        BY <1>6, <1>9
      <3>2. Running(a, l, r)'
        BY <1>1, <1>2, <1>5, <3>1 DEF Running
      <3> QED
        BY <1>1, <2>1, <3>2 DEF AloneRow, IsOpen
    <2>2. CASE q # r
      <3>1. AloneRow(a, l, q) /\ row[q].status # "open"
        <4>1. AloneRow(a, l, q)
          BY DEF Alone
        <4> QED
          BY <1>2, <2>2, <4>1 DEF AloneRow, Running
      <3>2. /\ GrossOf(sig[a], k, q) = GrossOf(sig[a], job[a], q)
            /\ FeeOf(sig[a], k, q) = FeeOf(sig[a], job[a], q)
        BY <1>9, <2>2
      <3> QED
        BY <1>1, <1>5, <3>1, <3>2 DEF AloneRow, Untouched, Finished, Told
    <2> QED
      BY <2>1, <2>2
  <1>12. AloneJob(a, l)'
    <2>1. k.gross # NULL /\ row'[r].status = "open" /\ exch'[l].size = 0
      BY <1>1, <1>2, <1>7 DEF IsOpen
    <2> QED
      BY <1>1, <1>5, <1>7, <1>10, <2>1 DEF AloneJob, Closes, IsOpen
  <1>13. AloneSig(a)' /\ AlonePass(a)'
    BY <1>1, <1>4, NoSignalFields DEF Alone, AloneSig, AlonePass
  <1> QED
    BY <1>1, <1>2, <1>11, <1>12, <1>13 DEF Alone

\* The row it finds open by then is the one it has looked up.
LEMMA ExternalSelectAlone ==
  ASSUME NEW a, NEW l, Alone1(a, l), LedgerInv, LedgerInv', Alone(a, l), ExternalSelect(a)
  PROVE  Alone(a, l)'
  <1>1. /\ pc[a] = "external" /\ UNCHANGED <<row, ord, exch, truth, sig, after, found>>
    BY DEF ExternalSelect, rowVars, exchVars
  <1>2. /\ job[a] \in Job /\ job[a].row \in Rows /\ IsOpen(job[a].row) /\ job[a].leg = l
        /\ job[a].full /\ job[a].gross # NULL /\ exch[l].size = 0 /\ Told(a, job[a].row)
        /\ (job[a].own => sig[a].first /\ sig[a].legs = {})
    BY <1>1, SoloTypes DEF Alone, AloneJob, Closes
  <1>3. job[a].row \in OpenIn(l)
    <2>1. row[job[a].row].leg = l
      BY <1>2, OneOpen DEF Running
    <2> QED
      BY <1>2, <2>1 DEF OpenIn
  <1>4. PICK q \in OpenIn(l) :
          /\ pc' = [pc EXCEPT ![a] = "commit"]
          /\ job' = [job EXCEPT ![a].row = q, ![a].size = row[q].size]
    BY <1>2, <1>3 DEF ExternalSelect
  <1>5. q = job[a].row
    <2>1. q \in Rows /\ IsOpen(q)
      BY DEF OpenIn
    <2>2. Running(a, l, q) /\ Running(a, l, job[a].row)
      BY <1>2, <2>1, OneOpen
    <2> QED
      BY <2>2 DEF Running
  <1> DEFINE k == [job[a] EXCEPT !.row = q, !.size = row[q].size]
  <1>6. /\ k.row = job[a].row /\ k.leg = l /\ k.full = job[a].full /\ k.gross = job[a].gross
        /\ k.fee = job[a].fee /\ k.own = job[a].own
    BY <1>2, <1>5 DEF Job
  <1>7. job'[a] = k /\ pc'[a] = "commit"
    BY <1>4, SoloTypes
  <1> HIDE DEF k
  <1>8. \A s \in Rows : /\ GrossOf(sig[a], k, s) = GrossOf(sig[a], job[a], s)
                        /\ FeeOf(sig[a], k, s) = FeeOf(sig[a], job[a], s)
    BY <1>6 DEF GrossOf, FeeOf
  <1>9. ASSUME NEW s \in Rows PROVE AloneRow(a, l, s)'
    <2>1. AloneRow(a, l, s) /\ GrossOf(sig[a], k, s) = GrossOf(sig[a], job[a], s)
          /\ FeeOf(sig[a], k, s) = FeeOf(sig[a], job[a], s)
      BY <1>8 DEF Alone
    <2> QED
      BY <1>1, <1>2, <1>7, <2>1 DEF AloneRow, Untouched, Running, Finished, Told
  <1>10. Told(a, q)' /\ k.row = q /\ q \in Rows /\ IsOpen(q)
    <2>1. q \in Rows /\ Told(a, q) /\ IsOpen(q) /\ k.row = q
      BY <1>2, <1>5, <1>6
    <2>2. /\ GrossOf(sig[a], k, q) = GrossOf(sig[a], job[a], q)
          /\ FeeOf(sig[a], k, q) = FeeOf(sig[a], job[a], q)
      BY <1>8, <2>1
    <2> QED
      BY <1>1, <1>7, <2>1, <2>2 DEF Told
  <1>11. AloneJob(a, l)'
    <2>1. job'[a].row = q /\ row'[q].status = "open" /\ exch'[l].size = 0
      BY <1>1, <1>2, <1>7, <1>10 DEF IsOpen
    <2> QED
      BY <1>1, <1>2, <1>6, <1>7, <1>10, <2>1 DEF AloneJob, Closes, IsOpen, Told
  <1>12. AloneSig(a)' /\ AlonePass(a)'
    BY <1>1, <1>6, <1>7 DEF Alone, AloneSig, AlonePass
  <1> QED
    BY <1>1, <1>2, <1>9, <1>11, <1>12 DEF Alone
-------------------------------------------------------------------------------
(* The steps that write what was closed.                                   *)

\* What the closing transaction moves from the close to the orders or to the signal.
LEMMA CommitMoves ==
  ASSUME NEW a, NEW l, Alone1(a, l), LedgerInv, Alone(a, l), CommitClose(a, TRUE)
  PROVE  LET r == job[a].row IN
         /\ \A q \in Rows :
              /\ ord'[q].pnl + GrossOf(sig'[a], NoJob, q) = ord[q].pnl + GrossOf(sig[a], job[a], q)
              /\ ord'[q].fee + FeeOf(sig'[a], NoJob, q) = ord[q].fee + FeeOf(sig[a], job[a], q)
              /\ q # r => /\ ord'[q].pnl = ord[q].pnl /\ ord'[q].fee = ord[q].fee
                          /\ ord'[q].priced = ord[q].priced
                          /\ sig'[a].link = q <=> sig[a].link = q
         /\ ord'[r].priced \/ sig'[a].link = r
         /\ AloneSig(a)'
  <1> DEFINE j == job[a]  r == job[a].row
             t == [Outcome(sig[a], TRUE, j.gross, j.fee) EXCEPT !.link = r]
             o == [links |-> ord[r].links + 1, priced |-> ord[r].priced \/ j.gross # NULL,
                   pnl |-> ord[r].pnl + Amount(j.gross),
                   fee |-> ord[r].fee + IF j.gross = NULL THEN 0 ELSE j.fee]
  <1>1. /\ j \in Job /\ r \in Rows /\ Lands(r) /\ j.gross # NULL
        /\ (j.own => sig[a].first /\ sig[a].legs = {}) /\ AloneSig(a)
        /\ j.gross \in Int /\ j.fee \in Int
    BY SoloTypes DEF CommitClose, Alone, AloneJob, Closes, Lands, Job
  <1>2. /\ ord' = Linked(a, j, r, TRUE) /\ job'[a] = NoJob /\ after'[a] = after[a]
        /\ (j.own => sig'[a] = t /\ after[a] = "signal") /\ (~j.own => sig'[a] = sig[a])
    <2>1. ord' = Linked(a, j, r, TRUE) /\ job'[a] = NoJob /\ after'[a] = after[a]
      BY <1>1, SoloTypes DEF CommitClose
    <2>2. sig' = IF j.own THEN [sig EXCEPT ![a] = t] ELSE sig
      BY <1>1 DEF CommitClose
    <2> HIDE DEF t
    <2> QED
      BY <2>1, <2>2, SoloTypes DEF AgentInv
  <1>3. /\ sig[a] \in Signal /\ NoJob.row = NULL /\ NoJob.own = FALSE /\ NULL \notin Rows
        /\ sig[a].fee \in Int /\ (sig[a].gross # NULL => sig[a].gross \in Int)
        /\ \A q \in Rows : ord[q].pnl \in Int /\ ord[q].fee \in Int /\ ord[q] \in Linkage
    <2>1. sig[a] \in Signal /\ ord \in [Rows -> Linkage]
      BY SoloTypes DEF TypeOK
    <2>2. sig[a].fee \in Int /\ (sig[a].gross # NULL => sig[a].gross \in Int)
      BY <2>1 DEF Signal
    <2>3. \A q \in Rows : ord[q].pnl \in Int /\ ord[q].fee \in Int /\ ord[q] \in Linkage
      BY <2>1 DEF Linkage
    <2> QED
      BY <2>1, <2>2, <2>3, NoJobBlank
  <1>4. CASE j.own
    <2>1. /\ t.link = r /\ t.gross = j.gross /\ t.fee = j.fee /\ t.legs = {} /\ t.first = FALSE
          /\ t.failed = sig[a].failed
      BY <1>1, <1>3, <1>4 DEF Outcome, Signal
    <2>2. ASSUME NEW q \in Rows
          PROVE  ord'[q].pnl = ord[q].pnl /\ ord'[q].fee = ord[q].fee /\ ord'[q].priced = ord[q].priced
      <3> DEFINE L == ord[q].links + (IF q = r THEN 1 ELSE 0) - (IF q = sig[a].link THEN 1 ELSE 0)
      <3>1. ord'[q] = [ord[q] EXCEPT !.links = L]
        BY <1>2, <1>4 DEF Linked
      <3> HIDE DEF L
      <3> QED
        BY <1>3, <3>1 DEF Linkage
    <2> HIDE DEF t, j, r
    <2>3. sig[a].link = NULL /\ ~sig[a].failed
      BY <1>1, <1>4 DEF AloneSig
    <2>4. ASSUME NEW q \in Rows
          PROVE  /\ GrossOf(t, NoJob, q) = GrossOf(sig[a], j, q)
                 /\ FeeOf(t, NoJob, q) = FeeOf(sig[a], j, q)
      <3>1. j.row = r
        BY DEF j, r
      <3> QED
        BY <1>1, <1>3, <2>1, <2>3, <3>1 DEF GrossOf, FeeOf, Amount
    <2>5. AloneSig(a)'
      BY <1>1, <1>2, <1>3, <1>4, <2>1, <2>3 DEF AloneSig
    <2> QED
      BY <1>2, <1>3, <1>4, <2>1, <2>2, <2>3, <2>4, <2>5, ZenonT(60) DEF j, r
  <1>5. CASE ~j.own
    <2>1. ord' = [ord EXCEPT ![r] = o]
      BY <1>2, <1>5 DEF Linked
    <2>2. o.pnl = ord[r].pnl + j.gross /\ o.fee = ord[r].fee + j.fee /\ o.priced
      BY <1>1 DEF Amount
    <2> HIDE DEF o
    <2>3. ord'[r] = o /\ \A q \in Rows : q # r => ord'[q] = ord[q]
      BY <1>1, <2>1, SoloTypes DEF TypeOK
    <2> HIDE DEF j, r
    <2>4. /\ GrossOf(sig[a], j, r) = GrossOf(sig[a], NoJob, r) + j.gross
          /\ FeeOf(sig[a], j, r) = FeeOf(sig[a], NoJob, r) + j.fee
          /\ \A q \in Rows : q # r => GrossOf(sig[a], j, q) = GrossOf(sig[a], NoJob, q)
                                     /\ FeeOf(sig[a], j, q) = FeeOf(sig[a], NoJob, q)
      <3>1. j.row = r
        BY DEF j, r
      <3> QED
        BY <1>1, <1>3, <3>1 DEF GrossOf, FeeOf, Amount
    <2>5. \A q \in Rows : GrossOf(sig[a], NoJob, q) \in Int /\ FeeOf(sig[a], NoJob, q) \in Int
      BY <1>3, BlankType, PartTypes
    <2>6. ASSUME NEW q \in Rows
          PROVE  /\ ord'[q].pnl + GrossOf(sig[a], NoJob, q) = ord[q].pnl + GrossOf(sig[a], j, q)
                 /\ ord'[q].fee + FeeOf(sig[a], NoJob, q) = ord[q].fee + FeeOf(sig[a], j, q)
      <3>1. CASE q = r
        BY <1>1, <1>3, <2>2, <2>3, <2>4, <2>5, <3>1
      <3>2. CASE q # r
        BY <2>3, <2>4, <3>2
      <3> QED
        BY <3>1, <3>2
    <2>7. AloneSig(a)'
      <3>1. ~job[a].own
        BY <1>5 DEF j
      <3> QED
        BY <1>1, <1>2, <1>3, <1>5, <3>1 DEF AloneSig
    <2> QED
      BY <1>2, <1>5, <2>2, <2>3, <2>6, <2>7 DEF j, r
  <1> QED
    BY <1>4, <1>5
\* What the closing UPDATE makes of the row.
LEMMA CommitRow ==
  ASSUME NEW a, NEW l, Alone1(a, l), LedgerInv, Alone(a, l), NEW inserted, CommitClose(a, inserted)
  PROVE  LET j == job[a]  r == job[a].row IN
         /\ \A q \in Rows : q # r => row'[q] = row[q]
         /\ row'[r].leg = row[r].leg
         /\ IF j.full THEN row'[r].status = "closed" /\ row'[r].pnl # NULL
            ELSE row'[r].status = "open" /\ row'[r].size = row[r].size - j.size
         /\ pc'[a] \in {"book", "flatten", after[a]} /\ job'[a] = NoJob
         /\ UNCHANGED <<exch, truth, after, found>>
  <1> DEFINE j == job[a]  r == job[a].row
  <1>1. /\ j \in Job /\ r \in Rows /\ Lands(r) /\ j.gross \in Int /\ j.fee \in Int
        /\ row[r] \in Position /\ row \in [Rows -> Position] /\ row[r].status = "open"
    <2>1. /\ j \in Job /\ r \in Rows /\ IsOpen(r) /\ j.gross # NULL
      BY SoloTypes DEF CommitClose, Alone, AloneJob, Closes
    <2>2. j.gross \in Int /\ j.fee \in Int
      BY <2>1 DEF Job
    <2> QED
      BY <2>1, <2>2, SoloTypes DEF TypeOK, Lands, IsOpen
  <1>2. NetPnl(j) # NULL
    <2>1. NetPnl(j) \in Int
      BY <1>1, MoneyAssumption DEF NetPnl
    <2> QED
      BY <2>1
  <1> DEFINE u == Updated(j, row[r])
  <1>3. row' = [row EXCEPT ![r] = u]
    BY <1>1 DEF CommitClose
  <1>4. /\ u.leg = row[r].leg /\ u.status = (IF j.full THEN "closed" ELSE "open")
        /\ (j.full => u.pnl = NetPnl(j)) /\ (~j.full => u.size = row[r].size - j.size)
    <2> HIDE DEF j, r, NetPnl
    <2>1. ~j.full => u = [row[r] EXCEPT !.size = @ - j.size]
      BY DEF Updated
    <2>2. ~j.full => u.size = row[r].size - j.size
      <3> HIDE DEF u
      <3> QED
        BY <1>1, <2>1 DEF Position
    <2> QED
      BY <1>1, <1>2, <2>2, UpdatedType
  <1>5. pc'[a] \in {"book", "flatten", after[a]} /\ job'[a] = NoJob
        /\ UNCHANGED <<exch, truth, after, found>>
    <2>1. job'[a] = NoJob /\ UNCHANGED <<exch, truth, after, found>>
      BY SoloTypes DEF CommitClose, exchVars
    <2>2. pc'[a] = "book" \/ pc'[a] = Resume(a, Unpaid(debt[a]))
      BY <1>1, SoloTypes DEF CommitClose
    <2> QED
      BY <2>1, <2>2 DEF Resume
  <1> HIDE DEF u
  <1>6. row'[r] = u /\ \A q \in Rows : q # r => row'[q] = row[q]
    BY <1>1, <1>3
  <1> QED
    BY <1>2, <1>4, <1>5, <1>6

LEMMA CommitCloseAlone ==
  ASSUME NEW a, NEW l, Alone1(a, l), LedgerInv, LedgerInv', Alone(a, l), CommitClose(a, TRUE)
  PROVE  Alone(a, l)'
  <1>0. PICK r \in Rows : r = job[a].row
    BY DEF CommitClose, Alone, AloneJob, Closes
  <1>1. /\ IsOpen(r) /\ pc[a] = "commit" /\ job[a].gross # NULL
        /\ job[a].full => exch[l].size = 0 /\ Told(a, r)
    BY <1>0 DEF CommitClose, Alone, AloneJob, Closes
  <1>2. /\ \A q \in Rows : q # r => row'[q] = row[q]
        /\ row'[r].leg = row[r].leg
        /\ IF job[a].full THEN row'[r].status = "closed" /\ row'[r].pnl # NULL
           ELSE row'[r].status = "open" /\ row'[r].size = row[r].size - job[a].size
        /\ pc'[a] \in {"book", "flatten", after[a]} /\ job'[a] = NoJob
        /\ UNCHANGED <<exch, truth, after, found>>
    BY <1>0, CommitRow
  <1>3. /\ \A q \in Rows :
             /\ ord'[q].pnl + GrossOf(sig'[a], NoJob, q) = ord[q].pnl + GrossOf(sig[a], job[a], q)
             /\ ord'[q].fee + FeeOf(sig'[a], NoJob, q) = ord[q].fee + FeeOf(sig[a], job[a], q)
             /\ q # r => /\ ord'[q].pnl = ord[q].pnl /\ ord'[q].fee = ord[q].fee
                         /\ ord'[q].priced = ord[q].priced
                         /\ sig'[a].link = q <=> sig[a].link = q
        /\ ord'[r].priced \/ sig'[a].link = r
        /\ AloneSig(a)'
    BY <1>0, CommitMoves
  <1>4. ASSUME NEW q \in Rows
        PROVE  /\ ord'[q].fee \in Int /\ ord[q].fee \in Int /\ OpenFee \in Int
               /\ FeeOf(sig'[a], NoJob, q) \in Int /\ FeeOf(sig[a], job[a], q) \in Int
    <2>1. sig'[a] \in Signal /\ sig[a] \in Signal /\ ord'[q].fee \in Int /\ ord[q].fee \in Int
          /\ job[a] \in Job
      BY DEF Alone1, LedgerInv, TypeOK, Linkage
    <2> QED
      BY <2>1, BlankType, PartTypes, MoneyAssumption
  <1>5. ASSUME NEW q \in Rows, Told(a, q) PROVE Told(a, q)'
    <2>1. /\ OpenFee + ord'[q].fee + FeeOf(sig'[a], NoJob, q)
               = OpenFee + ord[q].fee + FeeOf(sig[a], job[a], q)
      BY <1>3, <1>4
    <2> QED
      BY <1>2, <1>3, <1>5, <2>1 DEF Told
  <1>6. Running(a, l, r)
    BY <1>1, OneOpen
  <1>7. AloneRow(a, l, r)'
    <2>1. CASE job[a].full
      BY <1>1, <1>2, <1>3, <1>5, <2>1 DEF AloneRow, Finished
    <2>2. CASE ~job[a].full
      <3>1. exch[l].size # 0 => Told(a, r)' /\ exch[l].size = row'[r].size - Cut(NoJob, r)
        <4>1. Cut(NoJob, r) = 0 /\ Cut(job[a], r) = job[a].size
          BY <1>0, <1>1, NoJobBlank DEF Cut
        <4>2. row[r].size \in Int /\ job[a].size \in Int
          BY SoloTypes DEF TypeOK, Position, Job
        <4> QED
          BY <1>2, <1>5, <1>6, <2>2, <4>1, <4>2 DEF Running
      <3>2. truth[r].fee >= OpenFee + ord'[r].fee + FeeOf(sig'[a], NoJob, r)
        <4>1. OpenFee + ord'[r].fee + FeeOf(sig'[a], NoJob, r)
                 = OpenFee + ord[r].fee + FeeOf(sig[a], job[a], r)
          BY <1>3, <1>4
        <4> QED
          BY <1>6, <4>1 DEF Running
      <3>3. Running(a, l, r)'
        BY <1>2, <1>6, <3>1, <3>2 DEF Running
      <3> QED
        BY <1>2, <2>2, <3>3 DEF AloneRow
    <2> QED
      BY <2>1, <2>2
  <1>8. ASSUME NEW q \in Rows, q # r PROVE AloneRow(a, l, q)'
    <2>1. AloneRow(a, l, q) /\ row[q].status # "open"
      <3>1. AloneRow(a, l, q)
        BY DEF Alone
      <3> QED
        BY <1>6, <1>8, <3>1 DEF AloneRow, Running
    <2>2. CASE row[q].status = "none"
      BY <1>2, <1>3, <1>8, <2>1, <2>2 DEF AloneRow, Untouched
    <2>3. CASE row[q].status = "closed"
      BY <1>2, <1>3, <1>5, <1>8, <2>1, <2>3 DEF AloneRow, Finished
    <2>4. row[q].status \in {"none", "closed"}
      BY <2>1, SoloTypes DEF TypeOK, Position
    <2> QED
      BY <2>2, <2>3, <2>4
  <1>9. exch'[l].size # 0 => exch'[l].episode \in Rows /\ row'[exch'[l].episode].status = "open"
    BY <1>1, <1>2, <1>6 DEF Running
  <1>10. AloneJob(a, l)' /\ AlonePass(a)'
    <2>1. after[a] # "insert" /\ found[a] = {}
          /\ after[a] \in {"idle", "signal", "select", "recover", "insert"}
      BY SoloTypes DEF Alone, AlonePass, TypeOK
    <2> QED
      BY <1>2, <2>1, NoJobBlank DEF AloneJob, AlonePass, Closes
  <1> QED
    BY <1>3, <1>7, <1>8, <1>9, <1>10 DEF Alone, IsOpen

\* The webhook's order takes the figures of what it closed.
LEMMA PriceOrderAlone ==
  ASSUME NEW a, NEW l, Alone1(a, l), LedgerInv, LedgerInv', Alone(a, l), PriceOrder(a)
  PROVE  Alone(a, l)'
  <1> DEFINE s == sig[a]
  <1>1. /\ pc[a] = "signal" /\ s.legs = {} /\ pc'[a] = "idle" /\ sig'[a] = NoSignal /\ after'[a] = "idle"
        /\ UNCHANGED <<row, exch, truth, job, found>> /\ after[a] = "signal"
    BY SoloTypes DEF PriceOrder, exchVars, TypeOK, AgentInv
  <1>2. job[a] = NoJob /\ AloneSig(a)
    BY <1>1 DEF Alone, AloneJob, Closes
  <1>3. AloneJob(a, l)' /\ AloneSig(a)' /\ AlonePass(a)'
    BY <1>1, <1>2, NoJobBlank, NoSignalFields DEF Alone, AloneJob, AloneSig, AlonePass, Closes
  <1>4. CASE s.failed
    <2>1. s.link = NULL /\ s.gross = NULL /\ s.fee = 0
      BY <1>2, <1>4 DEF AloneSig
    <2>2. UNCHANGED ord
      BY <1>4 DEF PriceOrder
    <2> QED
      BY <1>1, <1>2, <1>3, <2>1, <2>2, NoJobBlank, NoSignalFields, QuietStep DEF SameRow
  <1>5. CASE ~s.failed
    <2>1. s.link \in Rows /\ s.gross # NULL /\ s \in Signal /\ s.gross \in Int /\ s.fee \in Int
      <3>1. s.link \in Rows /\ s.gross # NULL /\ s \in Signal
        BY <1>1, <1>2, <1>5, NoJobBlank, SoloTypes DEF AloneSig
      <3> QED
        BY <3>1 DEF Signal
    <2>2. PICK r \in Rows : r = s.link
      BY <2>1
    <2> DEFINE o == Priced(ord[r], s)
    <2>3. ord' = [ord EXCEPT ![r] = o]
      BY <1>5, <2>1, <2>2 DEF PriceOrder
    <2>4. o.priced /\ o.pnl = ord[r].pnl + s.gross /\ o.fee = ord[r].fee + s.fee
      BY SoloTypes DEF TypeOK, Linkage, Priced
    <2> HIDE DEF o
    <2>5. ord'[r] = o /\ \A q \in Rows : q # r => ord'[q] = ord[q]
      BY <2>3, SoloTypes DEF TypeOK
    <2>6. /\ GrossOf(s, NoJob, r) = s.gross /\ FeeOf(s, NoJob, r) = s.fee
          /\ \A q \in Rows : q # r => GrossOf(s, NoJob, q) = 0 /\ FeeOf(s, NoJob, q) = 0
          /\ \A q \in Rows : /\ GrossOf(NoSignal, NoJob, q) = 0 /\ FeeOf(NoSignal, NoJob, q) = 0
                             /\ Cut(NoJob, q) = 0
      BY <2>1, <2>2, NoJobBlank, NoSignalFields DEF GrossOf, FeeOf, Amount, Cut
    <2>7. ord[r].pnl \in Int /\ ord[r].fee \in Int /\ OpenFee \in Int
      BY SoloTypes, MoneyAssumption DEF TypeOK, Linkage
    <2>8. ASSUME NEW q \in Rows
          PROVE  /\ Told(a, q) => Told(a, q)'
                 /\ OpenFee + ord'[q].fee + FeeOf(sig'[a], job'[a], q)
                      = OpenFee + ord[q].fee + FeeOf(sig[a], job[a], q)
      <3>1. CASE q = r
        <4>1. /\ ord'[r].pnl + 0 = ord[r].pnl + GrossOf(s, NoJob, r)
              /\ OpenFee + ord'[r].fee + 0 = OpenFee + ord[r].fee + FeeOf(s, NoJob, r)
          BY <2>1, <2>4, <2>5, <2>6, <2>7
        <4> QED
          BY <1>1, <1>2, <2>6, <3>1, <4>1 DEF Told
      <3>2. CASE q # r
        BY <1>1, <1>2, <2>5, <2>6, <3>2 DEF Told
      <3> QED
        BY <3>1, <3>2
    <2>9. ASSUME NEW q \in Rows PROVE AloneRow(a, l, q)'
      <3>1. AloneRow(a, l, q) /\ Cut(job'[a], q) = Cut(job[a], q)
        BY <1>1 DEF Alone
      <3>2. CASE row[q].status = "none"
        BY <1>1, <2>2, <2>5, <3>1, <3>2, NoSignalFields DEF AloneRow, Untouched
      <3>3. CASE row[q].status = "open"
        <4>1. Running(a, l, q)'
          BY <1>1, <2>8, <3>1, <3>3 DEF AloneRow, Running
        <4> QED
          BY <1>1, <3>3, <4>1 DEF AloneRow
      <3>4. CASE row[q].status = "closed"
        BY <1>1, <2>2, <2>4, <2>5, <2>8, <3>1, <3>4 DEF AloneRow, Finished
      <3>5. row[q].status \in {"none", "open", "closed"}
        BY SoloTypes DEF TypeOK, Position
      <3> QED
        BY <3>2, <3>3, <3>4, <3>5
    <2>10. exch'[l].size # 0 => exch'[l].episode \in Rows /\ row'[exch'[l].episode].status = "open"
      BY <1>1 DEF Alone, IsOpen
    <2> QED
      BY <1>3, <2>9, <2>10 DEF Alone, IsOpen
  <1> QED
    BY <1>4, <1>5
-------------------------------------------------------------------------------
(* Alone is inductive, and says that a closed position is net.             *)

LEMMA InitAlone ==
  ASSUME NEW a, NEW l, Alone1(a, l), Init
  PROVE  Alone(a, l)
  <1>1. /\ pc[a] = "idle" /\ job[a] = NoJob /\ sig[a] = NoSignal /\ after[a] = "idle" /\ found[a] = {}
        /\ exch[l].size = 0 /\ exch[l].episode = NULL
    BY DEF Init, Alone1
  <1>2. ASSUME NEW r \in Rows PROVE AloneRow(a, l, r)
    <2>1. row[r].status = "none" /\ ord[r].pnl = 0 /\ ord[r].fee = 0
          /\ truth[r].gross = 0 /\ truth[r].fee = 0
      BY DEF Init
    <2> QED
      BY <1>1, <2>1, NoSignalFields DEF AloneRow, Untouched
  <1> QED
    BY <1>1, <1>2, NoSignalFields, NoJobBlank
       DEF Alone, AloneJob, AloneSig, AlonePass, Closes

LEMMA ContinueAlone ==
  ASSUME NEW a, NEW l, Alone1(a, l), LedgerInv, LedgerInv', Alone(a, l), Continue(a)
  PROVE  Alone(a, l)'
  <1>1. /\ Legs = {l} /\ ~DbMayFail /\ {TRUE, ~DbMayFail} = {TRUE}
        /\ \A resp \in Responses : resp \in {"reported", "refused"}
    BY DEF Alone1
  <1>2. ASSUME NEW m \in Legs, SignalLeg(a, m) \/ FlattenLeg(a, m) PROVE Alone(a, l)'
    <2>1. m = l
      BY <1>1
    <2> QED
      BY <1>2, <2>1, SignalLegAlone, FlattenLegAlone
  <1>3. ASSUME NEW resp \in Responses, NEW g \in Gains, ExchangeClose(a, resp, g)
        PROVE  Alone(a, l)'
    BY <1>1, <1>3, RefusedAlone, ReportedAlone
  <1>4. ASSUME NEW inserted \in {TRUE, ~DbMayFail}, CommitClose(a, inserted)
        PROVE  Alone(a, l)'
    <2>1. inserted = TRUE
      BY <1>1
    <2> QED
      BY <1>4, <2>1, CommitCloseAlone
  <1>5. \A inserted : ~InsertRecovered(a, inserted)
    BY DEF InsertRecovered, Alone, AlonePass
  <1>6. ASSUME NEW r \in Rows, Book(a, r) \/ BookFails(a, r) \/ RecoverPnl(a, r)
        PROVE  Alone(a, l)'
    <2>1. ~BookFails(a, r) /\ ~RecoverPnl(a, r)
      BY <1>1 DEF BookFails, RecoverPnl, Alone, AlonePass
    <2> QED
      BY <1>6, <2>1, BookAlone
  <1>7. ~CommitFails(a)
    BY <1>1 DEF CommitFails
  <1>8. ASSUME \/ PriceOrder(a) \/ CheckDrawdown(a) \/ Disable(a) \/ ExternalSelect(a)
               \/ SyncCorrect(a) \/ RecoverSelect(a) \/ EndPass(a)
        PROVE  Alone(a, l)'
    BY <1>8, PriceOrderAlone, CheckDrawdownAlone, DisableAlone, ExternalSelectAlone,
       SyncCorrectAlone, RecoverSelectAlone, EndPassAlone
  <1> QED
    BY <1>2, <1>3, <1>4, <1>5, <1>6, <1>7, <1>8 DEF Continue

\* With nothing else under way, the exchange holds what the row says: no reduction.
LEMMA NoReduce ==
  ASSUME NEW a, NEW l, Alone1(a, l), LedgerInv, Alone(a, l), NEW r \in Rows
  PROVE  ~ExternalReduce(a, r)
  <1> SUFFICES ASSUME ExternalReduce(a, r) PROVE FALSE
    OBVIOUS
  <1>1. pc[a] = "idle" /\ IsOpen(r) /\ exch[row[r].leg].size > 0 /\ exch[row[r].leg].size < row[r].size
    BY DEF ExternalReduce
  <1>2. Running(a, l, r)
    BY <1>1, OneOpen
  <1>3. Cut(job[a], r) = 0
    BY <1>1, NoJobBlank DEF Cut, Alone, AloneJob, Closes
  <1>4. exch[l].size \in Nat /\ row[r].size \in Int
    BY SoloTypes DEF Holding, TypeOK, Position
  <1> QED
    BY <1>1, <1>2, <1>3, <1>4 DEF Running

LEMMA BeginAlone ==
  ASSUME NEW a, NEW l, Alone1(a, l), LedgerInv, LedgerInv', Alone(a, l), Begin(a)
  PROVE  Alone(a, l)'
  <1>1. ASSUME NEW r \in Rows, NEW want \in Maybe(1..MaxSize), ManualClose(a, r, want)
        PROVE  Alone(a, l)'
    <2>1. want \in Maybe(Nat)
      BY SizeAssumption
    <2> QED
      BY <1>1, <2>1, ManualCloseAlone
  <1>2. ASSUME NEW r \in Rows, ExternalClose(a, r) \/ ExternalReduce(a, r)
        PROVE  Alone(a, l)'
    BY <1>2, ExternalCloseAlone, NoReduce
  <1>3. ASSUME NEW m \in Legs, NEW want \in Maybe(1..MaxSize), SignalClose(a, {m}, want)
        PROVE  Alone(a, l)'
    <2>1. {m} \in SUBSET Legs /\ want \in Maybe(Nat)
      BY SizeAssumption
    <2> QED
      BY <1>3, <2>1, SignalCloseAlone
  <1>4. ASSUME SignalClose(a, {m \in Legs : OpenIn(m) # {}}, NULL)
        PROVE  Alone(a, l)'
    <2> DEFINE open == {m \in Legs : OpenIn(m) # {}}
    <2>1. open \in SUBSET Legs /\ NULL \in Maybe(Nat)
      OBVIOUS
    <2>2. SignalClose(a, open, NULL)
      BY <1>4
    <2> HIDE DEF open
    <2> QED
      BY <2>1, <2>2, SignalCloseAlone
  <1>5. ASSUME SyncAttribute(a) PROVE Alone(a, l)'
    BY <1>5, SyncAttributeAlone
  <1> QED
    BY <1>1, <1>2, <1>3, <1>4, <1>5 DEF Begin

LEMMA NextAlone ==
  ASSUME NEW a, NEW l, Alone1(a, l), LedgerInv, LedgerInv', Alone(a, l), [Next]_vars
  PROVE  Alone(a, l)'
  <1>1. Agents = {a} /\ Legs = {l} /\ ~MayRestart
    BY DEF Alone1
  <1>2. ASSUME NEW r \in Rows, NEW m \in Legs, NEW n \in 1..MaxSize, CreatePosition(r, m, n)
        PROVE  Alone(a, l)'
    <2>1. m = l /\ n \in Nat /\ n >= 1
      BY <1>1, SizeAssumption
    <2> QED
      BY <1>2, <2>1, CreatePositionAlone
  <1>3. ASSUME NEW m \in Legs, NEW n \in 1..MaxSize, NEW g \in Gains, TriggerFires(m, n, g)
        PROVE  Alone(a, l)'
    <2>1. m = l /\ n \in Nat /\ n >= 1
      BY <1>1, SizeAssumption
    <2> QED
      BY <1>3, <2>1, TriggerFiresAlone
  <1>4. ASSUME NEW b \in Agents, Begin(b) \/ Continue(b) PROVE Alone(a, l)'
    <2>1. b = a
      BY <1>1
    <2> QED
      BY <1>4, <2>1, BeginAlone, ContinueAlone
  <1>5. ~Restart
    BY <1>1 DEF Restart
  <1>6. CASE UNCHANGED vars
    BY <1>6 DEF vars, rowVars, exchVars, agentVars, Alone, AloneRow, AloneJob, AloneSig,
       AlonePass, Untouched, Running, Finished, Told, IsOpen
  <1> QED
    BY <1>2, <1>3, <1>4, <1>5, <1>6 DEF Next, Market

LEMMA AloneIsNet ==
  ASSUME NEW a, NEW l, Alone1(a, l), LedgerInv, Alone(a, l)
  PROVE  RealizedIsNet
  <1> SUFFICES ASSUME NEW r \in Rows, row[r].status = "closed", row[r].pnl # NULL,
                      ord[r].priced => row[r].pnl = OrderTotal(r),
                      \A b \in Agents : pc[b] = "idle"
               PROVE  row[r].pnl = truth[r].gross - truth[r].fee
    BY DEF RealizedIsNet
  <1>1. job[a] = NoJob /\ sig[a] = NoSignal
    BY DEF Alone, AloneJob, AloneSig, AlonePass, Closes, Alone1
  <1>2. Finished(a, l, r)
    BY DEF Alone, AloneRow
  <1>3. GrossOf(sig[a], job[a], r) = 0 /\ FeeOf(sig[a], job[a], r) = 0 /\ sig[a].link # r
    BY <1>1, NoJobBlank, NoSignalFields DEF GrossOf, FeeOf
  <1>4. ord[r].pnl \in Int /\ ord[r].fee \in Int /\ OpenFee \in Int
    BY SoloTypes, MoneyAssumption DEF TypeOK, Linkage
  <1>5. truth[r].gross = ord[r].pnl /\ truth[r].fee = OpenFee + ord[r].fee
    BY <1>2, <1>3, <1>4 DEF Finished, Told
  <1>6. row[r].pnl = OrderTotal(r)
    BY <1>2, <1>3 DEF Finished
  <1> QED
    BY <1>4, <1>5, <1>6 DEF OrderTotal

\* Whatever the sizes, the gains and losses, the fees, what a history fee covers and the
\* order of events: where one coroutine at a time closes, and every close is answered or
\* refused, a closed position shows the net outcome of its exchange episode.
THEOREM NetWhenAlone ==
  ASSUME NEW a, NEW l, Alone1(a, l)
  PROVE  Spec => []RealizedIsNet
  <1>1. Init => Alone(a, l)
    BY InitAlone
  <1>2. LedgerInv /\ LedgerInv' /\ Alone(a, l) /\ [Next]_vars => Alone(a, l)'
    BY NextAlone
  <1>3. LedgerInv /\ Alone(a, l) => RealizedIsNet
    BY AloneIsNet
  <1> QED
    BY <1>1, <1>2, <1>3, LedgerInvariant, PTL DEF Spec
-------------------------------------------------------------------------------
(* One position of one lot: its close is told once, whoever tells it.      *)

\* What the theorem asks of the constants; the coroutines, the legs, the answers, lagging
\* history, failing writes and restarts are as they may be.
OneLot == LastRow = 1 /\ MaxSize = 1 /\ FeeScope = "close_only"

\* The position is gone from the exchange.
Gone == exch[row[1].leg].size = 0

\* A figure someone carries is the exchange's.
Exact(f) ==
  f.gross # NULL => Gone /\ f.gross = truth[1].gross /\ f.fee = truth[1].fee - OpenFee

LotRow ==
  /\ row[1].status = "none" => truth[1].gross = 0 /\ \A l \in Legs : exch[l].size = 0
  /\ row[1].status # "none" =>
       /\ row[1].size = 1 /\ exch[row[1].leg].episode = 1
       /\ \A l \in Legs : l # row[1].leg => exch[l].size = 0
       /\ ~Gone => /\ exch[row[1].leg].size = 1 /\ row[1].status = "open"
                   /\ truth[1].gross = 0 /\ truth[1].fee = OpenFee
       /\ Gone => exch[row[1].leg].last = 1 /\ truth[1].fee >= OpenFee
  /\ row[1].pnl # NULL => row[1].status = "closed" /\ row[1].pnl = truth[1].gross - truth[1].fee
  /\ ord[1].priced => /\ row[1].pnl # NULL /\ ord[1].pnl = truth[1].gross
                      /\ ord[1].fee = truth[1].fee - OpenFee
  /\ ~ord[1].priced => ord[1].pnl = 0 /\ ord[1].fee = 0

LotJob(a) ==
  /\ pc[a] \notin {"external", "commit"} => job[a].gross = NULL
  /\ pc[a] \in Closes => job[a].full /\ job[a].row = 1 /\ job[a].leg = row[1].leg
  /\ pc[a] \in {"external", "commit"} => Gone
  /\ job[a].gross = NULL => job[a].fee = 0
  /\ Exact(job[a])

\* Agent a's order, or the one it will insert, is to take the position's figures.
Prices(a) == sig[a].gross # NULL

LotSig(a) ==
  /\ sig[a].want # NULL => sig[a].want >= 1
  /\ sig[a].link = NULL => sig[a].gross = NULL
  /\ sig[a].link # NULL => row[1].status = "closed"
  /\ Exact(sig[a])
  /\ Prices(a) => row[1].pnl # NULL /\ ~ord[1].priced

Lot ==
  /\ LotRow /\ \A a \in Agents : LotJob(a) /\ LotSig(a)
  /\ \A a, b \in Agents : Prices(a) /\ Prices(b) => a = b
-------------------------------------------------------------------------------
(* What a step needs of the state, and what it leaves alone.               *)

LEMMA LotTypes ==
  ASSUME OneLot, LedgerInv
  PROVE  /\ Rows = {1} /\ TypeOK /\ RowInv(1)
         /\ row[1] \in Position /\ ord[1] \in Linkage /\ truth[1] \in Ledger
         /\ \A l \in Legs : exch[l] \in Holding
         /\ \A b \in Agents : /\ AgentInv(b) /\ pc[b] \in Stages /\ job[b] \in Job
                              /\ sig[b] \in Signal
  <1>1. Rows = {1} /\ 1 \in Rows
    BY DEF OneLot
  <1> QED
    BY <1>1 DEF LedgerInv, TypeOK

\* What agent a's webhook carries and asks stays.
SameSignal(a) == /\ sig'[a].gross = sig[a].gross /\ sig'[a].fee = sig[a].fee
                 /\ sig'[a].link = sig[a].link /\ sig'[a].want = sig[a].want

\* Only agent a moves.
Mine(a) == \A b \in Agents : b # a => pc'[b] = pc[b] /\ job'[b] = job[b] /\ sig'[b] = sig[b]

LEMMA LotMove ==
  ASSUME Lot, NEW a \in Agents, Mine(a), UNCHANGED <<row, ord, exch, truth>>,
         LotJob(a)', LotSig(a)', Prices(a)' => Prices(a)
  PROVE  Lot'
  <1>1. LotRow'
    BY DEF Lot, LotRow, Gone
  <1>2. ASSUME NEW b \in Agents, b # a PROVE LotJob(b)' /\ LotSig(b)' /\ (Prices(b)' => Prices(b))
    BY <1>2 DEF Lot, LotJob, LotSig, Mine, Exact, Gone, Prices
  <1> QED
    BY <1>1, <1>2 DEF Lot

LEMMA BlankLot ==
  /\ NoJob.gross = NULL /\ NoJob.fee = 0 /\ NoJob.full = FALSE
  /\ NoSignal.gross = NULL /\ NoSignal.link = NULL
  BY DEF NoJob, NoSignal

\* A step that neither starts nor ends a close, nor touches the order's figures.
LEMMA LotWalk ==
  ASSUME Lot, NEW a \in Agents, Mine(a), UNCHANGED <<row, ord, exch, truth>>,
         pc'[a] \notin Closes, job'[a].gross = NULL, job'[a].fee = 0,
         SameSignal(a)
  PROVE  Lot'
  <1>1. LotJob(a)'
    BY DEF LotJob, Closes, Exact
  <1>2. LotSig(a)' /\ (Prices(a)' => Prices(a))
    BY DEF Lot, LotSig, Exact, Prices, Gone, SameSignal
  <1> QED
    BY <1>1, <1>2, LotMove

\* An agent that is not closing carries no close.
LEMMA LotFree ==
  ASSUME Lot, NEW a \in Agents, pc[a] \notin Closes
  PROVE  job[a].gross = NULL /\ job[a].fee = 0
  BY DEF Lot, LotJob, Closes

\* While the position stands nobody carries a figure of it.
LEMMA LotStands ==
  ASSUME Lot, ~Gone
  PROVE  \A b \in Agents : job[b].gross = NULL /\ sig[b].gross = NULL /\ ~Prices(b)
  BY DEF Lot, LotJob, LotSig, Exact, Prices

\* While the row is open no order of it is priced, and none is to be.
LEMMA LotOpen ==
  ASSUME Lot, row[1].status # "closed"
  PROVE  /\ row[1].pnl = NULL /\ ~ord[1].priced /\ ord[1].pnl = 0 /\ ord[1].fee = 0
         /\ \A b \in Agents : sig[b].link = NULL /\ sig[b].gross = NULL /\ ~Prices(b)
  BY DEF Lot, LotRow, LotSig, Prices

\* A close of the one lot is whole.
LEMMA LotClosing ==
  ASSUME OneLot, Lot, row[1].status # "none", NEW want \in Maybe(Nat), want # NULL => want >= 1, NEW own
  PROVE  LET j == Closing(1, want, own) IN
         j.full /\ j.row = 1 /\ j.leg = row[1].leg /\ j.gross = NULL /\ j.fee = 0
  <1>1. row[1].size = 1
    BY DEF Lot, LotRow
  <1>2. want = NULL \/ want >= row[1].size
    BY <1>1
  <1> QED
    BY <1>2 DEF Closing

-------------------------------------------------------------------------------
(* The steps that only move the agent.                                     *)

LEMMA StageLot ==
  ASSUME OneLot, LedgerInv, Lot, NEW a \in Agents,
         \/ \E r \in Rows : Book(a, r) \/ BookFails(a, r)
         \/ CheckDrawdown(a) \/ Disable(a) \/ RecoverSelect(a) \/ EndPass(a)
  PROVE  Lot'
  <1> USE LotTypes
  <1>1. UNCHANGED <<row, ord, exch, truth, job, sig>>
    BY DEF Book, BookFails, CheckDrawdown, Disable, RecoverSelect, EndPass, rowVars, exchVars
  <1>2. after[a] \in {"idle", "signal", "select", "recover", "insert"}
    BY DEF TypeOK
  <1>3. /\ pc[a] \in {"book", "check", "flatten", "select", "recover"}
        /\ pc'[a] \notin Closes
        /\ \A b \in Agents : b # a => pc'[b] = pc[b]
    <2>1. pc \in [Agents -> Stages]
      BY DEF TypeOK
    <2>2. CASE \E r \in Rows : Book(a, r)
      BY <2>1, <2>2 DEF Book, Closes
    <2>3. CASE \E r \in Rows : BookFails(a, r)
      BY <1>2, <2>1, <2>3 DEF BookFails, Resume, Closes
    <2>4. CASE CheckDrawdown(a)
      BY <1>2, <2>1, <2>4 DEF CheckDrawdown, Resume, Closes
    <2>5. CASE Disable(a)
      BY <1>2, <2>1, <2>5 DEF Disable, Closes
    <2>6. CASE RecoverSelect(a) \/ EndPass(a)
      BY <2>1, <2>6 DEF RecoverSelect, EndPass, Closes
    <2> QED
      BY <2>2, <2>3, <2>4, <2>5, <2>6
  <1>4. job[a].gross = NULL /\ job[a].fee = 0
    BY <1>3, LotFree DEF Closes
  <1> QED
    BY <1>1, <1>3, <1>4, LotWalk DEF Mine, SameSignal

LEMMA SignalCloseLot ==
  ASSUME OneLot, LedgerInv, Lot, NEW a \in Agents, NEW legs,
         NEW want, want # NULL => want >= 1, SignalClose(a, legs, want)
  PROVE  Lot'
  <1>1. UNCHANGED <<row, ord, exch, truth, job>> /\ pc[a] = "idle" /\ legs # {}
        /\ \A l \in legs : OpenIn(l) # {}
    BY DEF SignalClose, rowVars, exchVars
  <1>2. /\ pc'[a] = "signal" /\ sig'[a].gross = NULL /\ sig'[a].link = NULL
        /\ sig'[a].want = want
        /\ \A b \in Agents : b # a => pc'[b] = pc[b] /\ sig'[b] = sig[b]
    <2>1. pc \in [Agents -> Stages] /\ sig \in [Agents -> Signal]
      BY LotTypes DEF TypeOK
    <2>2. /\ pc' = [pc EXCEPT ![a] = "signal"]
          /\ sig' = [sig EXCEPT ![a] = [NoSignal EXCEPT !.legs = legs, !.want = want]]
      BY DEF SignalClose
    <2>3. /\ [NoSignal EXCEPT !.legs = legs, !.want = want].gross = NULL
          /\ [NoSignal EXCEPT !.legs = legs, !.want = want].link = NULL
          /\ [NoSignal EXCEPT !.legs = legs, !.want = want].want = want
      BY DEF NoSignal
    <2> QED
      BY <2>1, <2>2, <2>3
  <1>3. job'[a].gross = NULL /\ job'[a].fee = 0
    BY <1>1, LotFree DEF Closes
  <1>4. LotJob(a)' /\ LotSig(a)' /\ ~Prices(a)'
    BY <1>2, <1>3 DEF LotJob, LotSig, Closes, Exact, Prices
  <1> QED
    BY <1>1, <1>2, <1>4, LotMove DEF Mine

\* A close of the row begins.
LEMMA StartLot ==
  ASSUME OneLot, LedgerInv, Lot, NEW a \in Agents, UNCHANGED <<row, ord, exch, truth>>,
         row[1].status = "open", NEW want \in Maybe(Nat), want # NULL => want >= 1, NEW own,
         pc' = [pc EXCEPT ![a] = "exchange"], job' = [job EXCEPT ![a] = Closing(1, want, own)],
         \A b \in Agents : b # a => sig'[b] = sig[b],
         SameSignal(a)
  PROVE  Lot'
  <1> DEFINE j == Closing(1, want, own)
  <1>1. j.full /\ j.row = 1 /\ j.leg = row[1].leg /\ j.gross = NULL /\ j.fee = 0
    BY LotClosing
  <1>2. job'[a] = j /\ pc'[a] = "exchange"
        /\ \A b \in Agents : b # a => pc'[b] = pc[b] /\ job'[b] = job[b]
    BY LotTypes DEF TypeOK
  <1> HIDE DEF j
  <1>3. LotJob(a)'
    BY <1>1, <1>2 DEF LotJob, Closes, Exact
  <1>4. sig[a].gross = NULL /\ sig[a].link = NULL
    BY LotOpen
  <1>5. LotSig(a)' /\ ~Prices(a)'
    BY <1>4 DEF Lot, LotSig, Exact, Prices, SameSignal
  <1> QED
    BY <1>2, <1>3, <1>5, LotMove DEF Mine

LEMMA ManualCloseLot ==
  ASSUME OneLot, LedgerInv, Lot, NEW a \in Agents, NEW r \in Rows,
         NEW want \in Maybe(1..MaxSize), ManualClose(a, r, want)
  PROVE  Lot'
  <1> USE SizeAssumption
  <1>1. r = 1 /\ row[1].status = "open"
    BY LotTypes DEF ManualClose, IsOpen
  <1>2. /\ UNCHANGED <<row, ord, exch, truth, sig>>
        /\ pc' = [pc EXCEPT ![a] = "exchange"]
        /\ job' = [job EXCEPT ![a] = Closing(1, want, FALSE)]
    BY <1>1 DEF ManualClose, rowVars, exchVars
  <1>3. want \in Maybe(Nat) /\ (want # NULL => want >= 1)
    OBVIOUS
  <1> QED
    BY <1>1, <1>2, <1>3, StartLot DEF SameSignal

LEMMA FlattenLegLot ==
  ASSUME OneLot, LedgerInv, Lot, NEW a \in Agents, NEW l \in Legs, FlattenLeg(a, l)
  PROVE  Lot'
  <1>1. UNCHANGED <<row, ord, exch, truth, sig>> /\ pc[a] = "flatten"
    BY DEF FlattenLeg, rowVars, exchVars
  <1>2. CASE UNCHANGED <<pc, job>>
    BY <1>1, <1>2, LotFree, LotWalk DEF Closes, Mine, SameSignal
  <1>3. CASE \E r \in OpenIn(l) :
               /\ pc' = [pc EXCEPT ![a] = "exchange"]
               /\ job' = [job EXCEPT ![a] = Closing(r, NULL, FALSE)]
    <2>1. PICK r \in OpenIn(l) :
               /\ pc' = [pc EXCEPT ![a] = "exchange"]
               /\ job' = [job EXCEPT ![a] = Closing(r, NULL, FALSE)]
      BY <1>3
    <2>2. r = 1 /\ row[1].status = "open"
      BY LotTypes DEF OpenIn, IsOpen
    <2> QED
      BY <1>1, <2>1, <2>2, StartLot DEF SameSignal
  <1> QED
    BY <1>2, <1>3 DEF FlattenLeg

LEMMA SignalLegLot ==
  ASSUME OneLot, LedgerInv, Lot, NEW a \in Agents, NEW l \in Legs, SignalLeg(a, l)
  PROVE  Lot'
  <1>1. UNCHANGED <<row, ord, exch, truth>> /\ pc[a] = "signal"
    BY DEF SignalLeg, rowVars, exchVars
  <1>2. SameSignal(a) /\ \A b \in Agents : b # a => sig'[b] = sig[b]
    <2>1. sig \in [Agents -> Signal] /\ sig[a] \in Signal
      BY LotTypes DEF TypeOK
    <2>2. \/ sig' = [sig EXCEPT ![a].legs = @ \ {l}]
          \/ sig' = [sig EXCEPT ![a].legs = @ \ {l}, ![a].failed = TRUE, ![a].first = FALSE]
      BY DEF SignalLeg
    <2> QED
      BY <2>1, <2>2 DEF Signal, SameSignal
  <1>3. CASE UNCHANGED <<pc, job>>
    BY <1>1, <1>2, <1>3, LotFree, LotWalk DEF Closes, Mine
  <1>4. CASE \E r \in OpenIn(l) :
               /\ pc' = [pc EXCEPT ![a] = "exchange"]
               /\ job' = [job EXCEPT ![a] = Closing(r, sig[a].want, TRUE)]
    <2>1. PICK r \in OpenIn(l) :
               /\ pc' = [pc EXCEPT ![a] = "exchange"]
               /\ job' = [job EXCEPT ![a] = Closing(r, sig[a].want, TRUE)]
      BY <1>4
    <2>2. r = 1 /\ row[1].status = "open"
      BY LotTypes DEF OpenIn, IsOpen
    <2>3. sig[a].want \in Maybe(Nat) /\ (sig[a].want # NULL => sig[a].want >= 1)
      BY LotTypes DEF Signal, Lot, LotSig
    <2> QED
      BY <1>1, <1>2, <2>1, <2>2, <2>3, StartLot
  <1> QED
    BY <1>3, <1>4 DEF SignalLeg
-------------------------------------------------------------------------------
(* The steps of a close.                                                   *)

\* The exchange takes the lot: it is gone, at what the close realized and cost.
LEMMA LotReduced ==
  ASSUME OneLot, LedgerInv, Lot, NEW l \in Legs, NEW n \in Int, n > 0, n <= exch[l].size,
         NEW g \in Int, Reduced(l, n, g), UNCHANGED <<row, ord>>
  PROVE  /\ ~Gone /\ Gone' /\ LotRow' /\ n = 1 /\ truth'[1].gross = g
         /\ truth'[1].fee = OpenFee + CloseFee
  <1>1. Rows = {1} /\ exch \in [Legs -> Holding] /\ truth \in [Rows -> Ledger] /\ exch[l] \in Holding
    BY LotTypes DEF TypeOK
  <1>2. row[1].status # "none" /\ l = row[1].leg /\ ~Gone
    BY <1>1 DEF Lot, LotRow, Gone, Holding
  <1>3. /\ exch[l].episode = 1 /\ exch[l].size = 1 /\ row[1].status = "open" /\ n = 1
        /\ truth[1].gross = 0 /\ truth[1].fee = OpenFee /\ row[1].size = 1
    BY <1>2 DEF Lot, LotRow, Gone
  <1>4. /\ exch'[l].size = 0 /\ exch'[l].episode = 1 /\ exch'[l].last = 1
        /\ \A m \in Legs : m # l => exch'[m] = exch[m]
    BY <1>1, <1>3 DEF Reduced
  <1>5. truth'[1].gross = g /\ truth'[1].fee = OpenFee + CloseFee
    <2>1. truth' = [truth EXCEPT ![1] = [gross |-> @.gross + n * g, fee |-> @.fee + CloseFee]]
      BY <1>3 DEF Reduced
    <2>2. truth'[1].gross = truth[1].gross + n * g /\ truth'[1].fee = truth[1].fee + CloseFee
      BY <1>1, <2>1
    <2> QED
      BY <1>3, <2>2
  <1>6. ord[1].priced = FALSE /\ row[1].pnl = NULL /\ ord[1].pnl = 0 /\ ord[1].fee = 0
    BY <1>3, LotOpen, LotTypes DEF Linkage
  <1>7. \A m \in Legs : m # l => exch'[m].size = 0
    BY <1>2, <1>3, <1>4 DEF Lot, LotRow
  <1>8. OpenFee + CloseFee >= OpenFee
    BY MoneyAssumption
  <1>9. Gone'
    BY <1>2, <1>4 DEF Gone
  <1>10. LotRow'
    BY <1>2, <1>3, <1>4, <1>5, <1>6, <1>7, <1>8, <1>9 DEF LotRow, Gone
  <1> QED
    BY <1>2, <1>3, <1>5, <1>9, <1>10

LEMMA LotQuietAgent ==
  ASSUME NEW b \in Agents, ~Gone, LotJob(b), LotSig(b), Gone',
         row' = row, ord' = ord, pc'[b] = pc[b], job'[b] = job[b], sig'[b] = sig[b]
  PROVE  LotJob(b)' /\ LotSig(b)' /\ ~Prices(b)'
  BY DEF LotJob, LotSig, Exact, Prices

LEMMA TriggerFiresLot ==
  ASSUME OneLot, LedgerInv, Lot, NEW l \in Legs, NEW n \in 1..MaxSize, NEW g \in Gains,
         TriggerFires(l, n, g)
  PROVE  Lot'
  <1>1. n \in Int /\ n > 0 /\ n <= exch[l].size /\ g \in Int
    <2>1. exch[l].size \in Nat /\ n \in Int /\ n >= 1
      BY LotTypes, SizeAssumption DEF Holding
    <2> QED
      BY <2>1, MoneyAssumption DEF TriggerFires
  <1>2. UNCHANGED <<row, ord, pc, job, sig>> /\ Reduced(l, n, g)
    BY DEF TriggerFires, rowVars, agentVars
  <1>3. ~Gone /\ Gone' /\ LotRow'
    BY <1>1, <1>2, LotReduced
  <1>4. ASSUME NEW b \in Agents PROVE LotJob(b)' /\ LotSig(b)' /\ ~Prices(b)'
    BY <1>2, <1>3, LotQuietAgent DEF Lot
  <1> QED
    BY <1>3, <1>4 DEF Lot

LEMMA ExchangeCloseLot ==
  ASSUME OneLot, LedgerInv, Lot, NEW a \in Agents, NEW resp \in Responses, NEW g \in Gains,
         ExchangeClose(a, resp, g)
  PROVE  Lot'
  <1> DEFINE j == job[a]
             n == CloseQuantity(j)
             failed == resp \in {"lost", "refused"}
             p == IF failed THEN Resume(a, Unpaid(debt[a])) ELSE "commit"
             k == IF failed THEN NoJob ELSE WithFill(j, resp, n, g)
             s == Outcome(sig[a], FALSE, NULL, 0)
  <1>1. /\ pc[a] = "exchange"
        /\ n <= 0 => resp = "refused"
        /\ IF resp = "refused" THEN UNCHANGED exchVars ELSE Reduced(j.leg, n, g)
        /\ pc' = [pc EXCEPT ![a] = p] /\ job' = [job EXCEPT ![a] = k]
        /\ sig' = IF failed /\ j.own THEN [sig EXCEPT ![a] = s] ELSE sig
        /\ UNCHANGED <<row, ord>>
    BY DEF ExchangeClose, rowVars
  <1>2. /\ j.full /\ j.row = 1 /\ j.leg = row[1].leg /\ j.gross = NULL /\ j.fee = 0
        /\ j.leg \in Legs /\ n = exch[j.leg].size /\ j \in Job /\ n \in Nat
    <2>1. AgentInv(a) /\ j \in Job /\ \A l \in Legs : exch[l] \in Holding
      BY LotTypes
    <2>2. j.leg \in Legs
      BY <1>1, <2>1 DEF AgentInv
    <2>3. j.full /\ j.row = 1 /\ j.leg = row[1].leg
      BY <1>1 DEF Lot, LotJob, Closes
    <2>4. j.gross = NULL /\ j.fee = 0
      BY <1>1 DEF Lot, LotJob, Closes
    <2>5. n = exch[j.leg].size
      BY <2>3 DEF CloseQuantity
    <2> QED
      BY <2>1, <2>2, <2>3, <2>4, <2>5 DEF Holding
  <1>3. /\ pc'[a] = p /\ job'[a] = k /\ Mine(a)
        /\ SameSignal(a)
    <2>1. pc \in [Agents -> Stages] /\ job \in [Agents -> Job] /\ sig \in [Agents -> Signal]
          /\ sig[a] \in Signal
      BY LotTypes DEF TypeOK
    <2>2. /\ s.gross = sig[a].gross /\ s.fee = sig[a].fee /\ s.link = sig[a].link
          /\ s.want = sig[a].want
      BY <2>1 DEF Outcome, Signal
    <2> HIDE DEF p, k, s, failed
    <2> QED
      BY <1>1, <2>1, <2>2 DEF Mine, SameSignal
  <1>4. failed => p \notin Closes
    <2>1. after[a] \in {"idle", "signal", "select", "recover", "insert"}
      BY LotTypes DEF TypeOK
    <2> QED
      BY <2>1 DEF Resume, Closes
  <1>5. CASE resp = "refused"
    <2>1. job'[a] = NoJob /\ pc'[a] \notin Closes /\ UNCHANGED <<row, ord, exch, truth>>
      BY <1>1, <1>3, <1>4, <1>5 DEF exchVars
    <2> QED
      BY <1>3, <2>1, BlankLot, LotWalk
  <1>6. CASE resp # "refused"
    <2>1. Reduced(j.leg, n, g) /\ n > 0 /\ n \in Int /\ g \in Int
      BY <1>1, <1>2, <1>6, MoneyAssumption
    <2>2. /\ ~Gone /\ Gone' /\ LotRow' /\ n = 1 /\ truth'[1].gross = g
          /\ truth'[1].fee = OpenFee + CloseFee
      BY <1>1, <1>2, <2>1, LotReduced
    <2>3. sig[a].gross = NULL /\ LotSig(a)
      BY <2>2, LotStands DEF Lot
    <2>4. LotSig(a)' /\ ~Prices(a)'
      BY <1>1, <1>3, <2>3 DEF LotSig, Exact, Prices, SameSignal
    <2>5. LotJob(a)'
      <3>1. CASE failed
        BY <1>3, <1>4, <3>1, BlankLot DEF LotJob, Exact, Closes
      <3>2. CASE ~failed /\ resp = "reported"
        <4>1. /\ k.gross = g /\ k.fee = CloseFee /\ k.full = TRUE /\ k.row = 1
              /\ k.leg = row[1].leg
          BY <1>2, <2>1, <2>2, <3>2 DEF WithFill, Job
        <4>2. truth'[1].fee - OpenFee = CloseFee /\ g # NULL
          BY <2>1, <2>2, MoneyAssumption
        <4>3. job'[a] = k /\ pc'[a] = "commit" /\ row' = row
          BY <1>1, <1>3, <3>2
        <4> HIDE DEF k
        <4> QED
          BY <2>2, <4>1, <4>2, <4>3 DEF LotJob, Exact, Closes
      <3>3. CASE ~failed /\ resp # "reported"
        <4>1. k = j
          BY <3>3 DEF WithFill
        <4>2. job'[a] = j /\ pc'[a] = "commit" /\ row' = row
          BY <1>1, <1>3, <3>3, <4>1
        <4> QED
          BY <1>2, <2>2, <4>2 DEF LotJob, Exact, Closes
      <3> QED
        BY <3>1, <3>2, <3>3
    <2>6. ASSUME NEW b \in Agents, b # a PROVE LotJob(b)' /\ LotSig(b)' /\ ~Prices(b)'
      <3>1. pc'[b] = pc[b] /\ job'[b] = job[b] /\ sig'[b] = sig[b] /\ row' = row /\ ord' = ord
        BY <1>1, <1>3, <2>6 DEF Mine
      <3> QED
        BY <2>2, <3>1, LotQuietAgent DEF Lot
    <2> QED
      BY <2>2, <2>4, <2>5, <2>6 DEF Lot
  <1> QED
    BY <1>5, <1>6

\* A close whose leg is gone, not told yet, is on its way to its row.
LEMMA ExternalCloseLot ==
  ASSUME OneLot, LedgerInv, Lot, NEW a \in Agents, NEW r \in Rows, ExternalClose(a, r)
  PROVE  Lot'
  <1> DEFINE c == Closing(1, NULL, FALSE)
             k == [c EXCEPT !.gross = RemainingPnl(1, 1), !.fee = RemainingFee(1, 1)]
  <1>1. /\ r = 1 /\ row[1].status = "open" /\ Gone /\ pc[a] = "idle"
        /\ UNCHANGED <<row, ord, exch, truth, sig>>
    BY LotTypes DEF ExternalClose, IsOpen, Gone, rowVars, exchVars
  <1>2. History(1) = 1
    BY <1>1 DEF Lot, LotRow, History, Gone
  <1>3. /\ c.full /\ c.row = 1 /\ c.leg = row[1].leg /\ c.gross = NULL /\ c.fee = 0
    BY <1>1, LotClosing
  <1>4. job'[a] \in {c, k} /\ pc'[a] = "external" /\ Mine(a)
    <2>1. pc \in [Agents -> Stages] /\ job \in [Agents -> Job]
      BY LotTypes DEF TypeOK
    <2>2. pc' = [pc EXCEPT ![a] = "external"] /\ (job' = [job EXCEPT ![a] = c] \/ job' = [job EXCEPT ![a] = k])
      BY <1>1, <1>2 DEF ExternalClose
    <2> HIDE DEF c, k
    <2> QED
      BY <1>1, <2>1, <2>2 DEF Mine
  <1>5. /\ k.full = c.full /\ k.row = c.row /\ k.leg = c.leg
        /\ k.gross = RemainingPnl(1, 1) /\ k.fee = RemainingFee(1, 1)
    BY DEF Closing
  <1>6. /\ RemainingPnl(1, 1) = truth[1].gross /\ RemainingFee(1, 1) = truth[1].fee - OpenFee
        /\ RemainingPnl(1, 1) # NULL
    <2>1. truth[1].gross \in Int /\ truth[1].fee \in Int /\ OpenFee \in Int
      BY LotTypes, MoneyAssumption DEF Ledger
    <2>2. ord[1].pnl = 0 /\ ord[1].fee = 0
      BY <1>1, LotOpen
    <2>3. truth[1].fee >= OpenFee
      BY <1>1 DEF Lot, LotRow, Gone
    <2> QED
      BY <2>1, <2>2, <2>3 DEF RemainingPnl, RemainingFee, HistoryFee, ClosingFee, OneLot, MaxOf
  <1> HIDE DEF c, k
  <1>7. LotJob(a)'
    <2>1. Gone'
      BY <1>1 DEF Gone
    <2>2. CASE job'[a] = c
      BY <1>1, <1>3, <1>4, <2>1, <2>2 DEF LotJob, Exact, Closes
    <2>3. CASE job'[a] = k
      BY <1>1, <1>3, <1>4, <1>5, <1>6, <2>1, <2>3 DEF LotJob, Exact, Closes
    <2> QED
      BY <1>4, <2>2, <2>3
  <1>8. LotSig(a)' /\ (Prices(a)' => Prices(a))
    BY <1>1 DEF Lot, LotSig, Exact, Prices, Gone
  <1> QED
    BY <1>1, <1>4, <1>7, <1>8, LotMove

LEMMA ExternalReduceLot ==
  ASSUME OneLot, LedgerInv, Lot, NEW a \in Agents, NEW r \in Rows, ExternalReduce(a, r)
  PROVE  Lot'
  <1>1. r = 1 /\ row[1].status = "open" /\ exch[row[1].leg].size > 0
        /\ exch[row[1].leg].size < row[1].size
    BY LotTypes DEF ExternalReduce, IsOpen
  <1>2. row[1].size = 1 /\ (~Gone => exch[row[1].leg].size = 1)
    BY <1>1 DEF Lot, LotRow
  <1> QED
    BY <1>1, <1>2 DEF Gone

LEMMA ExternalSelectLot ==
  ASSUME OneLot, LedgerInv, Lot, NEW a \in Agents, ExternalSelect(a)
  PROVE  Lot'
  <1>1. UNCHANGED <<row, ord, exch, truth, sig>> /\ pc[a] = "external"
    BY DEF ExternalSelect, rowVars, exchVars
  <1>2. pc \in [Agents -> Stages] /\ job \in [Agents -> Job] /\ job[a] \in Job
    BY LotTypes DEF TypeOK
  <1>3. CASE \E q \in OpenIn(job[a].leg) :
               /\ pc' = [pc EXCEPT ![a] = "commit"]
               /\ job' = [job EXCEPT ![a].row = q, ![a].size = row[q].size]
    <2>1. PICK q \in OpenIn(job[a].leg) :
               /\ pc' = [pc EXCEPT ![a] = "commit"]
               /\ job' = [job EXCEPT ![a].row = q, ![a].size = row[q].size]
      BY <1>3
    <2>2. q = 1
      BY LotTypes DEF OpenIn
    <2>3. /\ pc'[a] = "commit" /\ Mine(a) /\ job'[a].row = 1 /\ job'[a].full = job[a].full
          /\ job'[a].leg = job[a].leg /\ job'[a].gross = job[a].gross /\ job'[a].fee = job[a].fee
      BY <1>1, <1>2, <2>1, <2>2 DEF Mine, Job
    <2>4. LotJob(a)'
      BY <1>1, <2>3 DEF Lot, LotJob, Closes, Exact, Gone
    <2>5. LotSig(a)' /\ (Prices(a)' => Prices(a))
      BY <1>1 DEF Lot, LotSig, Exact, Prices, Gone
    <2> QED
      BY <1>1, <2>3, <2>4, <2>5, LotMove
  <1>4. CASE pc' = [pc EXCEPT ![a] = "idle"] /\ job' = [job EXCEPT ![a] = NoJob]
    <2>1. pc'[a] \notin Closes /\ job'[a] = NoJob /\ Mine(a)
      BY <1>1, <1>2, <1>4 DEF Mine, Closes
    <2> QED
      BY <1>1, <2>1, BlankLot, LotWalk DEF SameSignal
  <1> QED
    BY <1>3, <1>4 DEF ExternalSelect

LEMMA CommitFailsLot ==
  ASSUME OneLot, LedgerInv, Lot, NEW a \in Agents, CommitFails(a)
  PROVE  Lot'
  <1>1. UNCHANGED <<row, ord, exch, truth>> /\ job' = [job EXCEPT ![a] = NoJob]
    BY DEF CommitFails, rowVars, exchVars
  <1>2. pc \in [Agents -> Stages] /\ job \in [Agents -> Job] /\ sig \in [Agents -> Signal]
        /\ after[a] \in {"idle", "signal", "select", "recover", "insert"}
    BY LotTypes DEF TypeOK
  <1>3. pc'[a] \notin Closes /\ job'[a] = NoJob /\ Mine(a)
        /\ (sig'[a] = sig[a] \/ sig'[a] = NoSignal)
    BY <1>1, <1>2 DEF CommitFails, Mine, Closes
  <1>4. LotJob(a)'
    BY <1>3, BlankLot DEF LotJob, Exact, Closes
  <1>5. LotSig(a)' /\ (Prices(a)' => Prices(a))
    <2>1. CASE sig'[a] = sig[a]
      BY <1>1, <2>1 DEF Lot, LotSig, Exact, Prices, Gone
    <2>2. CASE sig'[a] = NoSignal
      BY <2>2 DEF LotSig, Exact, Prices, NoSignal
    <2> QED
      BY <1>3, <2>1, <2>2
  <1> QED
    BY <1>1, <1>3, <1>4, <1>5, LotMove
-------------------------------------------------------------------------------
(* The steps that write the books.                                         *)

\* A closed row takes its PnL, and the orders and the other agents are as they were.
LEMMA CommitCloseLot ==
  ASSUME OneLot, LedgerInv, Lot, NEW a \in Agents, NEW inserted \in BOOLEAN,
         CommitClose(a, inserted)
  PROVE  Lot'
  <1> DEFINE j == job[a]
             net == NetPnl(j)
             out == Outcome(sig[a], TRUE, j.gross, j.fee)
             missed == Outcome(sig[a], FALSE, NULL, 0)
  <1>1. /\ pc[a] = "commit" /\ job' = [job EXCEPT ![a] = NoJob] /\ UNCHANGED <<exch, truth>>
    BY DEF CommitClose, exchVars
  <1>2. /\ pc \in [Agents -> Stages] /\ job \in [Agents -> Job] /\ sig \in [Agents -> Signal]
        /\ row \in [Rows -> Position] /\ ord \in [Rows -> Linkage]
        /\ j \in Job /\ sig[a] \in Signal /\ row[1] \in Position /\ ord[1] \in Linkage
        /\ after[a] \in {"idle", "signal", "select", "recover", "insert"} /\ 1 \in Rows
    BY LotTypes DEF TypeOK
  <1>3. j.full /\ j.row = 1 /\ j.leg = row[1].leg /\ Gone /\ Exact(j)
        /\ (j.gross = NULL => j.fee = 0)
    BY <1>1 DEF Lot, LotJob, Closes
  <1>4. pc'[a] \notin Closes /\ \A b \in Agents : b # a => pc'[b] = pc[b]
    <2>1. \/ pc' = [pc EXCEPT ![a] = "book"]
          \/ pc' = [pc EXCEPT ![a] = Resume(a, Unpaid(debt[a]))]
      BY <1>1 DEF CommitClose
    <2> QED
      BY <1>2, <2>1 DEF Resume, Closes
  <1>5. job'[a] = NoJob /\ \A b \in Agents : b # a => job'[b] = job[b]
    BY <1>1, <1>2
  <1>6. LotJob(a)'
    BY <1>4, <1>5, BlankLot DEF LotJob, Exact, Closes
  <1>7. CASE ~Lands(1)
    <2>1. UNCHANGED <<row, ord>> /\ (sig' = [sig EXCEPT ![a] = missed] \/ sig' = sig)
      BY <1>3, <1>7 DEF CommitClose
    <2>2. /\ missed.gross = sig[a].gross /\ missed.fee = sig[a].fee
          /\ missed.link = sig[a].link /\ missed.want = sig[a].want
      BY <1>2 DEF Outcome, Signal
    <2> HIDE DEF missed
    <2>3. SameSignal(a) /\ Mine(a)
      BY <1>2, <1>4, <1>5, <2>1, <2>2 DEF SameSignal, Mine
    <2> QED
      BY <1>1, <1>4, <1>5, <2>1, <2>3, BlankLot, LotWalk
  <1>8. CASE Lands(1)
    <2>1. row[1].status = "open" /\ row[1].pnl = NULL /\ ord[1].priced = FALSE
          /\ ord[1].pnl = 0 /\ ord[1].fee = 0
          /\ \A b \in Agents : sig[b].link = NULL /\ sig[b].gross = NULL /\ ~Prices(b)
      BY <1>2, <1>8, LotOpen DEF Lands, IsOpen, Linkage
    <2>2. /\ row' = [row EXCEPT ![1] = Updated(j, @)]
          /\ ord' = Linked(a, j, 1, inserted)
          /\ sig' = IF j.own THEN [sig EXCEPT ![a] = [out EXCEPT !.link = 1]] ELSE sig
      BY <1>3, <1>8 DEF CommitClose
    <2>3. /\ row'[1].status = "closed" /\ row'[1].leg = row[1].leg /\ row'[1].size = row[1].size
          /\ row'[1].pnl = net
      <3>1. row'[1] = Updated(j, row[1])
        BY <1>2, <2>2
      <3> QED
        BY <1>2, <1>3, <2>1, <3>1 DEF Updated, Position
    <2>4. /\ j.gross = NULL => net = NULL
          /\ j.gross # NULL => /\ net = truth[1].gross - truth[1].fee /\ net # NULL
                               /\ j.gross = truth[1].gross /\ j.fee = truth[1].fee - OpenFee
      <3>1. j.gross # NULL => j.gross = truth[1].gross /\ j.fee = truth[1].fee - OpenFee
        BY <1>3 DEF Exact
      <3>2. truth[1].gross \in Int /\ truth[1].fee \in Int /\ OpenFee \in Int
        BY LotTypes, MoneyAssumption DEF Ledger
      <3> QED
        BY <3>1, <3>2 DEF NetPnl
    <2>5. Gone' /\ exch' = exch /\ truth' = truth
      BY <1>1, <1>3, <2>3 DEF Gone
    <2>6. /\ ord'[1].priced <=> (~j.own /\ inserted /\ j.gross # NULL)
          /\ ord'[1].priced => ord'[1].pnl = j.gross /\ ord'[1].fee = j.fee
          /\ ~ord'[1].priced => ord'[1].pnl = 0 /\ ord'[1].fee = 0
      <3>1. CASE j.own
        <4>1. ord'[1].priced = ord[1].priced /\ ord'[1].pnl = ord[1].pnl /\ ord'[1].fee = ord[1].fee
          BY <1>2, <2>2, <3>1 DEF Linked, Linkage
        <4> QED
          BY <2>1, <3>1, <4>1
      <3>2. CASE ~j.own /\ ~inserted
        BY <2>1, <2>2, <3>2 DEF Linked
      <3>3. CASE ~j.own /\ inserted
        <4> DEFINE o == [links |-> ord[1].links + 1,
                         priced |-> ord[1].priced \/ j.gross # NULL,
                         pnl |-> ord[1].pnl + Amount(j.gross),
                         fee |-> ord[1].fee + IF j.gross = NULL THEN 0 ELSE j.fee]
        <4>0. ord' = [ord EXCEPT ![1] = o]
          BY <2>2, <3>3 DEF Linked
        <4>1. /\ ord'[1].priced <=> (ord[1].priced \/ j.gross # NULL)
              /\ ord'[1].pnl = ord[1].pnl + Amount(j.gross)
              /\ ord'[1].fee = ord[1].fee + IF j.gross = NULL THEN 0 ELSE j.fee
          <5>1. ord'[1] = o
            BY <1>2, <4>0
          <5>2. o.priced <=> (ord[1].priced \/ j.gross # NULL)
            OBVIOUS
          <5>3. /\ o.pnl = ord[1].pnl + Amount(j.gross)
                /\ o.fee = ord[1].fee + IF j.gross = NULL THEN 0 ELSE j.fee
            OBVIOUS
          <5> HIDE DEF o
          <5> QED
            BY <5>1, <5>2, <5>3
        <4>2. j.gross # NULL => j.gross \in Int /\ j.fee \in Int
          BY <1>2 DEF Job
        <4> HIDE DEF o
        <4>3. CASE j.gross = NULL
          <5>1. ~ord'[1].priced /\ ord'[1].pnl = 0 /\ ord'[1].fee = 0
            BY <2>1, <4>1, <4>3 DEF Amount
          <5> QED
            BY <4>3, <5>1
        <4>4. CASE j.gross # NULL
          <5>1. ord'[1].priced /\ ord'[1].pnl = j.gross /\ ord'[1].fee = j.fee
            BY <2>1, <4>1, <4>2, <4>4 DEF Amount
          <5> QED
            BY <3>3, <4>4, <5>1
        <4> QED
          BY <4>3, <4>4
      <3> QED
        BY <3>1, <3>2, <3>3
    <2>7. LotRow'
      <3>1. row[1].size = 1 /\ exch[row[1].leg].episode = 1 /\ exch[row[1].leg].last = 1
            /\ truth[1].fee >= OpenFee /\ \A l \in Legs : l # row[1].leg => exch[l].size = 0
        BY <1>3, <2>1 DEF Lot, LotRow
      <3>2. /\ row'[1].size = 1 /\ exch'[row'[1].leg].episode = 1 /\ exch'[row'[1].leg].last = 1
            /\ truth'[1].fee >= OpenFee /\ \A l \in Legs : l # row'[1].leg => exch'[l].size = 0
        BY <2>3, <2>5, <3>1
      <3>3. row'[1].pnl # NULL => row'[1].pnl = truth'[1].gross - truth'[1].fee
        BY <2>3, <2>4, <2>5
      <3>4. ord'[1].priced => /\ row'[1].pnl # NULL /\ ord'[1].pnl = truth'[1].gross
                              /\ ord'[1].fee = truth'[1].fee - OpenFee
        BY <2>3, <2>4, <2>5, <2>6
      <3> QED
        BY <2>3, <2>5, <2>6, <3>2, <3>3, <3>4 DEF LotRow
    <2>8. ASSUME NEW b \in Agents, b # a PROVE LotJob(b)' /\ LotSig(b)' /\ ~Prices(b)'
      <3>1. pc'[b] = pc[b] /\ job'[b] = job[b] /\ sig'[b] = sig[b]
        BY <1>2, <1>4, <1>5, <2>2, <2>8
      <3> QED
        BY <2>1, <2>3, <2>5, <3>1 DEF Lot, LotJob, LotSig, Exact, Prices
    <2>9. LotSig(a)'
      <3>1. CASE ~j.own
        BY <2>1, <2>2, <2>3, <3>1 DEF Lot, LotSig, Exact, Prices
      <3>2. CASE j.own
        <4>1. /\ out.want = sig[a].want
              /\ (out.gross = sig[a].gross /\ out.fee = sig[a].fee)
                   \/ (out.gross = j.gross /\ out.fee = j.fee)
          BY <1>2 DEF Outcome, Signal
        <4>2. out \in Signal
          BY <1>2, OutcomeType DEF Job
        <4> HIDE DEF out
        <4>3. sig'[a] = [out EXCEPT !.link = 1]
          BY <1>2, <2>2, <3>2
        <4>4. /\ sig'[a].link = 1 /\ sig'[a].want = out.want
              /\ sig'[a].gross = out.gross /\ sig'[a].fee = out.fee
          BY <4>2, <4>3 DEF Signal
        <4>5. sig[a].gross = NULL /\ (sig[a].want # NULL => sig[a].want >= 1)
          BY <2>1 DEF Lot, LotSig
        <4>6. Exact(sig[a])' 
          BY <2>4, <2>5, <4>1, <4>4, <4>5 DEF Exact
        <4>7. sig'[a].gross # NULL => row'[1].pnl # NULL /\ ~ord'[1].priced
          BY <2>3, <2>4, <2>6, <3>2, <4>1, <4>4, <4>5
        <4>8. sig'[a].link # NULL /\ (sig'[a].want # NULL => sig'[a].want >= 1)
          BY <4>1, <4>4, <4>5
        <4> QED
          BY <2>3, <4>6, <4>7, <4>8 DEF LotSig, Prices
      <3> QED
        BY <3>1, <3>2
    <2> QED
      BY <1>6, <2>7, <2>8, <2>9 DEF Lot
  <1> QED
    BY <1>7, <1>8

\* The order the row's figures are to go to takes them.
LEMMA TellLot ==
  ASSUME OneLot, LedgerInv, Lot, NEW a \in Agents, Prices(a), UNCHANGED <<row, exch, truth>>,
         ord'[1].priced, ord'[1].pnl = sig[a].gross, ord'[1].fee = sig[a].fee,
         Mine(a), sig'[a] = NoSignal, job' = job, pc[a] \notin Closes, pc'[a] \notin Closes
  PROVE  Lot'
  <1>1. /\ row[1].pnl # NULL /\ Gone /\ sig[a].gross = truth[1].gross
        /\ sig[a].fee = truth[1].fee - OpenFee
    BY DEF Lot, LotSig, Exact, Prices
  <1>2. LotRow'
    BY <1>1 DEF Lot, LotRow, Gone
  <1>3. ASSUME NEW b \in Agents, b # a PROVE LotJob(b)' /\ LotSig(b)' /\ ~Prices(b)'
    <2>1. ~Prices(b)
      BY <1>3 DEF Lot
    <2> QED
      BY <1>3, <2>1 DEF Lot, LotJob, LotSig, Exact, Gone, Mine, Prices
  <1>4. LotJob(a)' /\ LotSig(a)' /\ ~Prices(a)'
    <2>1. job'[a].gross = NULL /\ job'[a].fee = 0
      BY LotFree
    <2> QED
      BY <2>1 DEF LotJob, LotSig, Exact, Prices, Closes, NoSignal
  <1> QED
    BY <1>2, <1>3, <1>4 DEF Lot

LEMMA PriceOrderLot ==
  ASSUME OneLot, LedgerInv, Lot, NEW a \in Agents, PriceOrder(a)
  PROVE  Lot'
  <1>1. /\ UNCHANGED <<row, exch, truth, job>> /\ pc[a] = "signal"
        /\ pc' = [pc EXCEPT ![a] = "idle"] /\ sig' = [sig EXCEPT ![a] = NoSignal]
    BY DEF PriceOrder, exchVars
  <1>2. pc \in [Agents -> Stages] /\ sig \in [Agents -> Signal] /\ ord \in [Rows -> Linkage]
        /\ sig[a] \in Signal /\ Rows = {1}
    BY LotTypes DEF TypeOK
  <1>3. Mine(a) /\ pc'[a] = "idle" /\ sig'[a] = NoSignal /\ pc'[a] \notin Closes /\ pc[a] \notin Closes
    BY <1>1, <1>2 DEF Mine, Closes
  <1>4. CASE UNCHANGED ord
    <2>1. LotJob(a)'
      BY <1>1, <1>3, LotFree DEF LotJob, Closes, Exact
    <2>2. LotSig(a)' /\ ~Prices(a)'
      BY <1>3 DEF LotSig, Exact, Prices, NoSignal
    <2> QED
      BY <1>1, <1>3, <1>4, <2>1, <2>2, LotMove
  <1>5. CASE sig[a].gross # NULL /\ sig[a].link # NULL
             /\ ord' = [ord EXCEPT ![sig[a].link] = Priced(@, sig[a])]
    <2>1. sig[a].link = 1 /\ Prices(a) /\ sig[a].gross \in Int /\ sig[a].fee \in Int
      BY <1>2, <1>5 DEF Signal, Prices
    <2>2. ord[1].pnl = 0 /\ ord[1].fee = 0
      BY <2>1 DEF Lot, LotRow, LotSig, Prices
    <2>3. ord'[1] = Priced(ord[1], sig[a]) /\ ord[1] \in Linkage
      BY <1>2, <1>5, <2>1
    <2>4. /\ Priced(ord[1], sig[a]).priced = TRUE
          /\ Priced(ord[1], sig[a]).pnl = ord[1].pnl + sig[a].gross
          /\ Priced(ord[1], sig[a]).fee = ord[1].fee + sig[a].fee
      BY <2>3 DEF Priced, Linkage
    <2>5. ord'[1].priced /\ ord'[1].pnl = sig[a].gross /\ ord'[1].fee = sig[a].fee
      BY <2>1, <2>2, <2>3, <2>4
    <2> QED
      BY <1>1, <1>3, <2>1, <2>5, TellLot
  <1> QED
    BY <1>4, <1>5 DEF PriceOrder

LEMMA InsertRecoveredLot ==
  ASSUME OneLot, LedgerInv, Lot, NEW a \in Agents, NEW inserted \in BOOLEAN,
         InsertRecovered(a, inserted)
  PROVE  Lot'
  <1> DEFINE r == sig[a].link
             o == [links |-> 1, priced |-> TRUE, pnl |-> sig[a].gross, fee |-> sig[a].fee]
  <1>1. /\ UNCHANGED <<row, exch, truth, job>> /\ pc[a] = "insert"
        /\ pc' = [pc EXCEPT ![a] = "recover"] /\ sig' = [sig EXCEPT ![a] = NoSignal]
    BY DEF InsertRecovered, exchVars
  <1>2. pc \in [Agents -> Stages] /\ sig \in [Agents -> Signal] /\ ord \in [Rows -> Linkage]
        /\ sig[a] \in Signal /\ Rows = {1} /\ r \in Rows /\ sig[a].gross \in Int
    BY <1>1, LotTypes DEF TypeOK, AgentInv
  <1>3. Mine(a) /\ pc'[a] = "recover" /\ sig'[a] = NoSignal /\ pc'[a] \notin Closes
        /\ pc[a] \notin Closes
    BY <1>1, <1>2 DEF Mine, Closes
  <1>4. CASE ord' = ord
    <2>1. LotJob(a)'
      BY <1>1, <1>3, LotFree DEF LotJob, Closes, Exact
    <2>2. LotSig(a)' /\ ~Prices(a)'
      BY <1>3 DEF LotSig, Exact, Prices, NoSignal
    <2> QED
      BY <1>1, <1>3, <1>4, <2>1, <2>2, LotMove
  <1>5. CASE ord' = [ord EXCEPT ![r] = o]
    <2>1. ord'[1] = o /\ Prices(a)
      BY <1>2, <1>5 DEF Prices
    <2>2. o.priced = TRUE /\ o.pnl = sig[a].gross /\ o.fee = sig[a].fee
      OBVIOUS
    <2> HIDE DEF o
    <2> QED
      BY <1>1, <1>3, <2>1, <2>2, TellLot
  <1> QED
    BY <1>4, <1>5 DEF InsertRecovered

\* Nothing is left to attribute to the row, and nothing to correct.
LEMMA SyncLot ==
  ASSUME OneLot, LedgerInv, Lot, NEW a \in Agents, SyncAttribute(a) \/ SyncCorrect(a)
  PROVE  Lot'
  <1>1. UNCHANGED <<ord, exch, truth, job, sig>> /\ pc[a] \in {"idle", "correct"}
    BY DEF SyncAttribute, SyncCorrect, exchVars
  <1>2. Rows = {1} /\ row \in [Rows -> Position] /\ pc \in [Agents -> Stages]
    BY LotTypes DEF TypeOK
  <1>3. pc'[a] \notin Closes /\ Mine(a)
    BY <1>1, <1>2 DEF SyncAttribute, SyncCorrect, Mine, Closes
  <1>4. ord[1].priced => row[1].pnl # NULL /\ row[1].pnl = OrderTotal(1)
    <2>1. truth[1].gross \in Int /\ truth[1].fee \in Int /\ OpenFee \in Int
      BY LotTypes, MoneyAssumption DEF Ledger
    <2> QED
      BY <2>1 DEF Lot, LotRow, OrderTotal
  <1>5. row'[1] = row[1] /\ row' \in [Rows -> Position]
    <2>1. CASE SyncAttribute(a)
      <3>1. row' = [r \in Rows |-> IF r \in {q \in Rows : ord[q].priced /\ row[q].pnl = NULL}
                                   THEN [row[r] EXCEPT !.pnl = OrderTotal(r)] ELSE row[r]]
        BY <2>1 DEF SyncAttribute
      <3>2. row' = [r \in Rows |-> row[r]]
        BY <1>2, <1>4, <3>1
      <3> QED
        BY <1>2, <3>2
    <2>2. CASE SyncCorrect(a)
      <3>1. row' = [r \in Rows |-> IF r \in {q \in Rows : ord[q].priced /\ row[q].pnl # NULL
                                                  /\ row[q].pnl # OrderTotal(q)}
                                   THEN [row[r] EXCEPT !.pnl = OrderTotal(r)] ELSE row[r]]
        BY <2>2 DEF SyncCorrect
      <3>2. row' = [r \in Rows |-> row[r]]
        BY <1>2, <1>4, <3>1
      <3> QED
        BY <1>2, <3>2
    <2> QED
      BY <2>1, <2>2
  <1>6. row' = row
    BY <1>2, <1>5
  <1>7. job[a].gross = NULL /\ job[a].fee = 0
    BY <1>1, LotFree DEF Closes
  <1> QED
    BY <1>1, <1>3, <1>6, <1>7, LotWalk DEF SameSignal

\* The pass takes the whole figure, and no order has told any of it.
LEMMA RecoverPnlLot ==
  ASSUME OneLot, LedgerInv, Lot, NEW a \in Agents, NEW r \in Rows, RecoverPnl(a, r)
  PROVE  Lot'
  <1> DEFINE s == [NoSignal EXCEPT !.link = 1, !.gross = truth[1].gross, !.fee = HistoryFee(1)]
  <1>1. /\ UNCHANGED <<ord, exch, truth, job>> /\ pc[a] = "recover" /\ r = 1
        /\ row[1].status = "closed" /\ row[1].pnl = NULL /\ History(1) # NULL
    BY LotTypes DEF RecoverPnl, Unattributed, exchVars
  <1>2. /\ pc \in [Agents -> Stages] /\ sig \in [Agents -> Signal] /\ row \in [Rows -> Position]
        /\ Rows = {1} /\ row[1] \in Position
    BY LotTypes DEF TypeOK
  <1>3. Gone /\ History(1) = 1
    BY <1>1 DEF Lot, LotRow, History
  <1>4. /\ truth[1].gross \in Int /\ truth[1].fee \in Int /\ OpenFee \in Int
    BY LotTypes, MoneyAssumption DEF Ledger
  <1>5. HistoryFee(1) = truth[1].fee - OpenFee /\ RecoveredNet(1) = truth[1].gross - truth[1].fee
    BY <1>4 DEF HistoryFee, ClosingFee, RecoveredNet, OneLot
  <1>6. row' = [row EXCEPT ![1].pnl = RecoveredNet(1)] /\ sig' = [sig EXCEPT ![a] = s]
        /\ pc' \in {[pc EXCEPT ![a] = "book"], [pc EXCEPT ![a] = "insert"]}
    BY <1>1, <1>3 DEF RecoverPnl
  <1>7. /\ row'[1].status = "closed" /\ row'[1].leg = row[1].leg /\ row'[1].size = row[1].size
        /\ row'[1].pnl = truth[1].gross - truth[1].fee /\ row'[1].pnl # NULL
    BY <1>1, <1>2, <1>4, <1>5, <1>6 DEF Position
  <1>8. /\ s.link = 1 /\ s.gross = truth[1].gross /\ s.fee = truth[1].fee - OpenFee
        /\ s.want = NULL
    BY <1>5 DEF NoSignal
  <1> HIDE DEF s
  <1>9. Mine(a) /\ sig'[a] = s /\ pc'[a] \notin Closes
    BY <1>1, <1>2, <1>6 DEF Mine, Closes
  <1>10. /\ ~ord[1].priced /\ ord[1].pnl = 0 /\ ord[1].fee = 0 /\ \A b \in Agents : ~Prices(b)
    BY <1>1 DEF Lot, LotRow, LotSig
  <1>11. LotRow'
    BY <1>1, <1>3, <1>7, <1>10 DEF Lot, LotRow, Gone
  <1>12. Gone'
    BY <1>1, <1>3, <1>7 DEF Gone
  <1>13. ASSUME NEW b \in Agents, b # a PROVE LotJob(b)' /\ LotSig(b)' /\ ~Prices(b)'
    <2>1. pc'[b] = pc[b] /\ job'[b] = job[b] /\ sig'[b] = sig[b] /\ ~Prices(b)
      BY <1>9, <1>10, <1>13 DEF Mine
    <2> QED
      BY <1>1, <1>7, <1>12, <2>1 DEF Lot, LotJob, LotSig, Exact, Prices
  <1>14. LotJob(a)'
    BY <1>1, <1>9, LotFree DEF LotJob, Closes, Exact
  <1>15. LotSig(a)'
    BY <1>1, <1>7, <1>8, <1>9, <1>10, <1>12 DEF LotSig, Exact, Prices
  <1> QED
    BY <1>11, <1>13, <1>14, <1>15 DEF Lot

LEMMA CreatePositionLot ==
  ASSUME OneLot, LedgerInv, Lot, NEW r \in Rows, NEW l \in Legs, NEW n \in 1..MaxSize,
         CreatePosition(r, l, n)
  PROVE  Lot'
  <1>1. /\ r = 1 /\ n = 1 /\ row[1].status = "none" /\ UNCHANGED <<ord, pc, job, sig>>
        /\ row' = [row EXCEPT ![1] = [status |-> "open", leg |-> l, size |-> 1, pnl |-> NULL]]
        /\ exch' = [exch EXCEPT ![l].size = 1, ![l].episode = 1]
        /\ truth' = [truth EXCEPT ![1].fee = OpenFee]
    BY LotTypes DEF CreatePosition, agentVars, OneLot
  <1>2. /\ row \in [Rows -> Position] /\ exch \in [Legs -> Holding] /\ truth \in [Rows -> Ledger]
        /\ Rows = {1} /\ truth[1] \in Ledger
    BY LotTypes DEF TypeOK
  <1>3. /\ row'[1].status = "open" /\ row'[1].leg = l /\ row'[1].size = 1 /\ row'[1].pnl = NULL
    BY <1>1, <1>2
  <1>4. /\ exch'[l].size = 1 /\ exch'[l].episode = 1 /\ \A m \in Legs : m # l => exch'[m] = exch[m]
    BY <1>1, <1>2 DEF Holding
  <1>5. truth'[1].fee = OpenFee /\ truth'[1].gross = 0
    <2>1. truth[1].gross = 0
      BY <1>1 DEF Lot, LotRow
    <2> QED
      BY <1>1, <1>2, <2>1 DEF Ledger
  <1>6. /\ ~ord[1].priced /\ ord[1].pnl = 0 /\ ord[1].fee = 0
        /\ \A b \in Agents : sig[b].link = NULL /\ sig[b].gross = NULL /\ ~Prices(b)
    BY <1>1, LotOpen
  <1>7. LotRow'
    <2>1. \A m \in Legs : m # l => exch'[m].size = 0
      BY <1>1, <1>4 DEF Lot, LotRow
    <2>2. ~Gone'
      BY <1>3, <1>4 DEF Gone
    <2> QED
      BY <1>1, <1>3, <1>4, <1>5, <1>6, <2>1, <2>2 DEF LotRow
  <1>8. ASSUME NEW b \in Agents PROVE LotJob(b)' /\ LotSig(b)' /\ ~Prices(b)'
    <2>1. pc[b] \notin Closes
      BY <1>1, LotTypes DEF AgentInv, Closes
    <2>2. job[b].gross = NULL /\ job[b].fee = 0
      BY <2>1, LotFree
    <2>3. LotJob(b)'
      BY <1>1, <2>1, <2>2 DEF LotJob, Closes, Exact
    <2>4. LotSig(b)' /\ ~Prices(b)'
      BY <1>1, <1>6 DEF Lot, LotSig, Exact, Prices
    <2> QED
      BY <2>3, <2>4
  <1> QED
    BY <1>7, <1>8 DEF Lot

LEMMA RestartLot ==
  ASSUME Lot, Restart
  PROVE  Lot'
  <1>1. UNCHANGED <<row, ord, exch, truth>>
    BY DEF Restart, rowVars, exchVars
  <1>2. LotRow'
    BY <1>1 DEF Lot, LotRow, Gone
  <1>3. ASSUME NEW b \in Agents PROVE LotJob(b)' /\ LotSig(b)' /\ ~Prices(b)'
    <2>1. pc'[b] = "idle" /\ job'[b] = NoJob /\ sig'[b] = NoSignal
      BY DEF Restart
    <2> QED
      BY <2>1 DEF LotJob, LotSig, Exact, Prices, Closes, NoJob, NoSignal
  <1> QED
    BY <1>2, <1>3 DEF Lot
-------------------------------------------------------------------------------
LEMMA InitLot == ASSUME OneLot, Init PROVE Lot
  <1>1. Rows = {1} /\ 1 \in Rows
    BY DEF OneLot
  <1>2. LotRow
    BY <1>1 DEF Init, LotRow
  <1>3. ASSUME NEW b \in Agents PROVE LotJob(b) /\ LotSig(b) /\ ~Prices(b)
    BY DEF Init, LotJob, LotSig, Exact, Prices, Closes, NoJob, NoSignal
  <1> QED
    BY <1>2, <1>3 DEF Lot

LEMMA ContinueLot ==
  ASSUME OneLot, LedgerInv, Lot, NEW a \in Agents, Continue(a)
  PROVE  Lot'
  <1>1. ASSUME NEW l \in Legs, SignalLeg(a, l) \/ FlattenLeg(a, l) PROVE Lot'
    BY <1>1, SignalLegLot, FlattenLegLot
  <1>2. ASSUME NEW resp \in Responses, NEW g \in Gains, ExchangeClose(a, resp, g)
        PROVE  Lot'
    BY <1>2, ExchangeCloseLot
  <1>3. ASSUME NEW inserted \in {TRUE, ~DbMayFail},
               CommitClose(a, inserted) \/ InsertRecovered(a, inserted)
        PROVE  Lot'
    BY <1>3, CommitCloseLot, InsertRecoveredLot
  <1>4. CASE PriceOrder(a) \/ CommitFails(a)
    BY <1>4, PriceOrderLot, CommitFailsLot
  <1>5. ASSUME NEW r \in Rows, Book(a, r) \/ BookFails(a, r) PROVE Lot'
    BY <1>5, StageLot
  <1>6. ASSUME NEW r \in Rows, RecoverPnl(a, r) PROVE Lot'
    BY <1>6, RecoverPnlLot
  <1>7. CASE CheckDrawdown(a) \/ Disable(a) \/ RecoverSelect(a) \/ EndPass(a)
    BY <1>7, StageLot
  <1>8. CASE ExternalSelect(a) \/ SyncCorrect(a)
    BY <1>8, ExternalSelectLot, SyncLot
  <1> QED
    BY <1>1, <1>2, <1>3, <1>4, <1>5, <1>6, <1>7, <1>8 DEF Continue

LEMMA BeginLot ==
  ASSUME OneLot, LedgerInv, Lot, NEW a \in Agents, Begin(a)
  PROVE  Lot'
  <1>1. ASSUME NEW r \in Rows, NEW want \in Maybe(1..MaxSize), ManualClose(a, r, want)
        PROVE  Lot'
    BY <1>1, ManualCloseLot
  <1>2. ASSUME NEW r \in Rows, ExternalClose(a, r) \/ ExternalReduce(a, r) PROVE Lot'
    BY <1>2, ExternalCloseLot, ExternalReduceLot
  <1>3. ASSUME NEW l \in Legs, NEW want \in Maybe(1..MaxSize), SignalClose(a, {l}, want)
        PROVE  Lot'
    <2>1. want # NULL => want >= 1
      BY SizeAssumption
    <2> QED
      BY <1>3, <2>1, SignalCloseLot
  <1>4. CASE SignalClose(a, {l \in Legs : OpenIn(l) # {}}, NULL)
    BY <1>4, SignalCloseLot
  <1>5. CASE SyncAttribute(a)
    BY <1>5, SyncLot
  <1> QED
    BY <1>1, <1>2, <1>3, <1>4, <1>5 DEF Begin

LEMMA NextLot ==
  ASSUME OneLot, LedgerInv, Lot, [Next]_vars
  PROVE  Lot'
  <1>1. ASSUME NEW r \in Rows, NEW l \in Legs, NEW n \in 1..MaxSize, CreatePosition(r, l, n)
        PROVE  Lot'
    BY <1>1, CreatePositionLot
  <1>2. ASSUME NEW l \in Legs, NEW n \in 1..MaxSize, NEW g \in Gains, TriggerFires(l, n, g)
        PROVE  Lot'
    BY <1>2, TriggerFiresLot
  <1>3. ASSUME NEW a \in Agents, Begin(a) \/ Continue(a) PROVE Lot'
    BY <1>3, BeginLot, ContinueLot
  <1>4. CASE Restart
    BY <1>4, RestartLot
  <1>5. CASE UNCHANGED vars
    <2>1. UNCHANGED <<row, ord, exch, truth, pc, job, sig>>
      BY <1>5 DEF vars, rowVars, exchVars, agentVars
    <2> QED
      BY <2>1 DEF Lot, LotRow, LotJob, LotSig, Exact, Prices, Gone
  <1> QED
    BY <1>1, <1>2, <1>3, <1>4, <1>5 DEF Next, Market

\* With one position of one lot a closed position shows its net outcome, whatever the
\* exchange does and whoever tells it: any number of coroutines on either leg, answers
\* that are lost or carry no fill, lagging history, failing writes and restarts.
THEOREM NetOfOneLot == ASSUME OneLot PROVE Spec => []RealizedIsNet
  <1>1. Init => Lot
    BY InitLot
  <1>2. LedgerInv /\ Lot /\ [Next]_vars => Lot'
    BY NextLot
  <1>3. Lot => RealizedIsNet
    <2>1. Rows = {1}
      BY DEF OneLot
    <2> QED
      BY <2>1 DEF Lot, LotRow, RealizedIsNet
  <1>4. Spec => []LedgerInv
    BY LedgerInvariant
  <1> QED
    BY <1>1, <1>2, <1>3, <1>4, PTL DEF Spec
===============================================================================
