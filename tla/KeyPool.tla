-------------------------------- MODULE KeyPool --------------------------------
(***************************************************************************)
(* The LLM key pool of ai-signal-generator, and the chain of candidates    *)
(* that calls through it.                                                  *)
(*                                                                         *)
(* Calls of several cycles share one provider's keys.  A call asks one     *)
(* candidate at a time and rotates the keys within it; what it learns of a *)
(* key is reported to the pool under the key's row id, when the answer     *)
(* comes.  Meanwhile an operator edits a key and the pool is reloaded.     *)
(***************************************************************************)
EXTENDS Integers, FiniteSets

CONSTANTS
  Keys,        \* row ids in priority order: 1..N
  Kinds,       \* what the provider makes of each key at first: "good", "revoked", "limited"
  Callers,
  Candidates,  \* models in the chain, the primary first
  MaxClock, MaxCalls, MaxFaults, MaxEdits

MaxKeys == 3   \* _MAX_KEYS_PER_CANDIDATE
MaxCooldown == 2

VARIABLES
  kind,
  table,   \* llm_keys: the version of every key; the second one is good
  pool,    \* the entries
  calls,
  now, begun, faults, edits,
  misjudged \* history: keys reported on by a call that had used their older version

vars == <<kind, table, pool, calls, now, begun, faults, edits, misjudged>>

KindOf(k, v) == IF v = 1 THEN kind[k] ELSE "good"
Good(k) == KindOf(k, pool[k].version) = "good"

Entry(v) == [version |-> v, until |-> 0, strikes |-> 0, dead |-> FALSE]
Usable(p) == {k \in Keys : ~p[k].dead /\ now >= p[k].until}
Alive(p)  == {k \in Keys : ~p[k].dead}

-------------------------------------------------------------------------------
(* Selection, 0 for no key.                                                *)

First(set) == IF set = {} THEN 0 ELSE CHOOSE k \in set : \A j \in set : k <= j
LeastCooled(p) == First({k \in Alive(p) : \A j \in Alive(p) : p[k].until <= p[j].until})

\* The first usable one, else the one that cools down first.
Acquire(p) == IF Usable(p) # {} THEN First(Usable(p)) ELSE LeastCooled(p)

\* The keys already tried are not left out.
AcquireAgain(p, tried) == First(Usable(p))

AcquireAfter(p, tried) == First(Usable(p) \ tried)

-------------------------------------------------------------------------------
(* A call.  Between two answers nothing awaits: the report, the next key   *)
(* and the next candidate are one step.                                    *)

Idle == [at |-> "idle", candidate |-> 0, key |-> 0, version |-> 0, tried |-> {}, left |-> 0, broken |-> 0,
         hopes |-> {}]
Asks(c, p, k) ==
  [c EXCEPT !.at = "asking", !.key = k, !.version = IF k = 0 THEN 0 ELSE p[k].version, !.left = @ - 1]

\* A candidate starts with the best key and a rotation of its own.
Candidate(c, p, n) == Asks([c EXCEPT !.candidate = n, !.tried = {}, !.left = MaxKeys], p, Acquire(p))

MovesOn(c, p) ==
  IF c.candidate < Candidates THEN Candidate(c, p, c.candidate + 1)
  ELSE [Idle EXCEPT !.at = "exhausted", !.broken = c.broken, !.hopes = c.hopes]

\* The next key of the same candidate, three in all.
Rotates(c, p) ==
  LET tried == c.tried \cup {c.key}
      k     == AcquireAfter(p, tried) IN
  IF c.left = 0 \/ k = 0 THEN MovesOn(c, p) ELSE Asks([c EXCEPT !.tried = tried], p, k)

\* Callers are interchangeable: the first that is free.
Begin(u) ==
  /\ calls[u].at # "asking" /\ begun < MaxCalls
  /\ \A w \in Callers : w < u => calls[w].at = "asking"
  /\ begun' = begun + 1
  /\ calls' = [calls EXCEPT ![u] = Candidate([Idle EXCEPT !.hopes = {k \in Keys : Good(k)}], pool, 1)]
  /\ UNCHANGED <<kind, table, pool, now, faults, edits, misjudged>>

\* The pool finds the entry by its id, whichever version the call had used.
Report(u, e) ==
  LET c == calls[u]
      p == [pool EXCEPT ![c.key] = e] IN
  /\ pool' = p
  /\ misjudged' = IF c.version # e.version THEN misjudged \cup {c.key} ELSE misjudged
  /\ calls' = [calls EXCEPT ![u] = Rotates(c, p)]
  /\ UNCHANGED <<kind, table, now, begun, faults, edits>>

Answer(u, what) ==
  calls[u].at = "asking" /\ calls[u].key # 0 /\ KindOf(calls[u].key, calls[u].version) = what

\* 60 seconds, doubled with every strike up to the cap.
Strike(e) ==
  LET n == IF e.strikes < MaxCooldown THEN e.strikes + 1 ELSE MaxCooldown IN
  [e EXCEPT !.strikes = n, !.until = now + n]

AnswerServed(u) ==
  /\ Answer(u, "good")
  /\ pool' = [pool EXCEPT ![calls[u].key].strikes = 0]
  /\ calls' = [calls EXCEPT ![u] = Idle]
  /\ UNCHANGED <<kind, table, now, begun, faults, edits, misjudged>>

AnswerLimited(u) == Answer(u, "limited") /\ Report(u, Strike(pool[calls[u].key]))
AnswerRefused(u) == Answer(u, "revoked") /\ Report(u, [pool[calls[u].key] EXCEPT !.dead = TRUE])

\* The model or the server fails, or its answer does not parse: no matter of keys.
AnswerBroken(u) ==
  /\ calls[u].at = "asking" /\ calls[u].key # 0 /\ faults < MaxFaults
  /\ faults' = faults + 1
  /\ \/ UNCHANGED pool
     \/ KindOf(calls[u].key, calls[u].version) = "good" /\ pool' = [pool EXCEPT ![calls[u].key].strikes = 0]
  /\ calls' = [calls EXCEPT ![u] = MovesOn([calls[u] EXCEPT !.broken = @ + 1], pool)]
  /\ UNCHANGED <<kind, table, now, begun, edits, misjudged>>

\* Without any key the request fails by itself.
AnswerKeyless(u) ==
  /\ calls[u].at = "asking" /\ calls[u].key = 0
  /\ calls' = [calls EXCEPT ![u] = MovesOn(@, pool)]
  /\ UNCHANGED <<kind, table, pool, now, begun, faults, edits, misjudged>>

-------------------------------------------------------------------------------
(* Edits and reloads.                                                      *)

\* An operator replaces a revoked key.
Edit(k) ==
  /\ KindOf(k, table[k]) = "revoked" /\ edits < MaxEdits
  /\ edits' = edits + 1
  /\ table' = [table EXCEPT ![k] = 2]
  /\ UNCHANGED <<kind, pool, calls, now, begun, faults, misjudged>>

\* The cooldown of an unchanged key survives; a dead key gets another chance.
Loaded(k) ==
  IF pool[k].version = table[k] THEN [pool[k] EXCEPT !.dead = FALSE] ELSE Entry(table[k])

Reload ==
  /\ \E k \in Keys : pool[k] # Loaded(k)
  /\ pool' = [k \in Keys |-> Loaded(k)]
  /\ UNCHANGED <<kind, table, calls, now, begun, faults, edits, misjudged>>

Tick ==
  /\ now < MaxClock /\ now' = now + 1
  /\ UNCHANGED <<kind, table, pool, calls, begun, faults, edits, misjudged>>

-------------------------------------------------------------------------------
Init ==
  /\ kind \in Kinds
  /\ table = [k \in Keys |-> 1] /\ pool = [k \in Keys |-> Entry(1)]
  /\ calls = [u \in Callers |-> Idle]
  /\ now = 0 /\ begun = 0 /\ faults = 0 /\ edits = 0 /\ misjudged = {}

Next ==
  \/ \E u \in Callers :
       \/ Begin(u)
       \/ AnswerServed(u) \/ AnswerLimited(u) \/ AnswerRefused(u) \/ AnswerBroken(u) \/ AnswerKeyless(u)
  \/ \E k \in Keys : Edit(k)
  \/ Reload \/ Tick

Spec == Init /\ [][Next]_vars

-------------------------------------------------------------------------------
(* Properties.                                                             *)

TypeOK ==
  /\ \A k \in Keys : pool[k].until <= MaxClock + MaxCooldown /\ pool[k].strikes <= MaxCooldown
  /\ \A u \in Callers : calls[u].at # "idle" => calls[u].tried \subseteq Keys /\ calls[u].left < MaxKeys

\* A call is answered whenever one key of three was good as it began, whatever
\* other calls and reloads do to the others: it gives up only when every candidate
\* failed by itself, or when the report of an older call was filed under the id of
\* a key replaced since.
GoodKeyServes ==
  \A u \in Callers :
    (calls[u].at = "exhausted" /\ calls[u].broken < Candidates)
      => calls[u].hopes \subseteq misjudged

-------------------------------------------------------------------------------
(* Why it holds: a good key nobody misjudged is usable, so a call that     *)
(* still hopes for it has a key to ask and room to come to it; its         *)
(* candidates can only have failed by themselves.                          *)

Versions == {1, 2}
Entries  == [version : Versions, until : Nat, strikes : Nat, dead : BOOLEAN]
CallSet  ==
  [at : {"idle", "asking", "exhausted"}, candidate : Nat, key : Keys \cup {0},
   version : Versions \cup {0}, tried : SUBSET Keys, left : 0..(MaxKeys - 1), broken : Nat,
   hopes : SUBSET Keys]
PoolTypes ==
  /\ kind \in [Keys -> {"good", "limited", "revoked"}]
  /\ table \in [Keys -> Versions] /\ pool \in [Keys -> Entries]
  /\ calls \in [Callers -> CallSet] /\ now \in Nat
  /\ \A k \in Keys : pool[k].version = 2 => table[k] = 2

GoodIsUsable == \A k \in Keys \ misjudged : Good(k) => k \in Usable(pool)

\* A call that asks for h, or may come to.
MayReach(c, h) ==
  /\ Good(h) /\ h \notin c.tried
  /\ c.key # 0 /\ c.key \notin c.tried
  /\ c.left + Cardinality(c.tried) + 1 = MaxKeys
  /\ c.broken + 1 >= c.candidate

CallFits(u) ==
  \A h \in calls[u].hopes \ misjudged :
    /\ calls[u].at = "asking" => MayReach(calls[u], h)
    /\ calls[u].at = "exhausted" => calls[u].broken >= Candidates

PoolInv == PoolTypes /\ GoodIsUsable /\ \A u \in Callers : CallFits(u)
===============================================================================
