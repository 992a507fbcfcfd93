--------------------------- MODULE ChannelEngineProofs ---------------------------
(***************************************************************************)
(* The two services of MCServices that trade on their own judgement: a     *)
(* post of the channel is acted on once, and the exits of the engine's     *)
(* brackets add up.  Each rests on an inductive invariant that its module  *)
(* states under `Why it holds'.  Both keep their types.                    *)
(***************************************************************************)
EXTENDS MCServices, DataLemmas

-------------------------------------------------------------------------------
(* The channel: v1 world, v3 posted, v4 buffer, v5 logged, v6 judged,      *)
(* v8 trims, v9 judge, v10 watch, v16 slips, v17 sent, v18 twice.          *)

Sayings == [act : {"OPEN", "CLOSE", "FLIP", "ADD", "TRIM", "STOP", "RECAP"},
            dir : {"LONG", "SHORT", NULL}, level : 1..3 \cup {NULL}, be : BOOLEAN]
TrimsOrNull == C!Trims \cup {NULL}

LEMMA ChannelFields ==
  ASSUME C!ChannelTypes
  PROVE  /\ v1 \in Stories /\ v1.posts \in Seq(Sayings) /\ Len(v1.posts) \in Nat
         /\ v3 \in 0..Len(v1.posts) /\ v3 \in Nat /\ 1..v3 \subseteq C!Posts /\ C!Posts \subseteq Nat
         /\ v4 \subseteq 1..v3 /\ v5 \subseteq 1..v3 /\ v6 \subseteq v5
         /\ v8 \in [C!Posts -> TrimsOrNull]
         /\ DOMAIN v9 = C!Judges /\ DOMAIN v10 = DOMAIN C!Rest
         /\ v17 \subseteq v5 \X C!Steps
         /\ \A t \in C!Judges : C!CallFits(t, v9[t])
         /\ C!Senders \subseteq C!Judges /\ "backfill" \notin C!Senders
<1>1. v1 \in Stories /\ v1.posts \in Seq(Sayings)
  BY StoriesAssumption DEF C!ChannelTypes, Sayings
<1> QED BY <1>1 DEF C!ChannelTypes, C!Posts, TrimsOrNull, C!Senders, C!Judges

LEMMA NullIs == NULL \notin C!Sides /\ NULL # 0 /\ NULL \notin C!Trims /\ NULL # 1
BY StoriesAssumption DEF C!Sides

LEMMA MineIs ==
  ASSUME C!ChannelTypes, NEW t \in C!Judges, v9[t].at # "idle" PROVE C!Mine(t) \in Sayings
BY ChannelFields, ElementOfSeq DEF C!Mine, C!Post, C!CallFits, C!Posts

-------------------------------------------------------------------------------
(* The plans of the state machine never name one step twice.               *)

LEMMA PlanIs ==
  ASSUME NEW s \in C!Sides \cup {NULL}, NEW steps \in Seq(C!Steps), C!Distinct(steps), NEW advance
  PROVE  C!PlanFits(C!Plan(s, steps, advance))
BY DEF C!PlanFits, C!Plan, C!Nothing

LEMMA NothingFits == C!PlanFits(C!Nothing) /\ C!Nothing.steps = <<>>
<1>1. <<>> \in Seq(C!Steps) /\ C!Distinct(<<>>) BY DEF C!Distinct
<1> QED BY <1>1, PlanIs DEF C!Nothing, C!Plan

LEMMA OneStep ==
  ASSUME NEW step \in C!Steps PROVE <<step>> \in Seq(C!Steps) /\ C!Distinct(<<step>>)
BY DEF C!Distinct

LEMMA StepIs ==
  ASSUME NEW kind \in {"open", "close", "add", "trim"}, NEW s \in C!Sides
  PROVE  C!Step(kind, s) \in C!Steps /\ C!Step(kind, s).kind = kind /\ C!Step(kind, s).side = s
BY DEF C!Step, C!Steps

LEMMA TwoSteps ==
  ASSUME NEW a \in C!Steps, NEW b \in C!Steps, a # b, a.kind # "trim", b.kind # "trim"
  PROVE  <<a, b>> \in Seq(C!Steps) /\ C!Distinct(<<a, b>>)
BY DEF C!Distinct

LEMMA OtherSide == ASSUME NEW s \in C!Sides PROVE C!Opposite(s) \in C!Sides
BY DEF C!Opposite, C!Sides

\* How many of the two sides there are.
LEMMA SidesCount ==
  ASSUME NEW S \in SUBSET C!Sides
  PROVE  /\ S = {} => C!Cardinality(S) = 0
         /\ S = {"LONG", "SHORT"} => C!Cardinality(S) = 2
         /\ \A s : S = {s} => C!Cardinality(S) = 1
         /\ S = {} \/ S = {"LONG"} \/ S = {"SHORT"} \/ S = {"LONG", "SHORT"}
<1>1. C!Cardinality(S) = Cardinality(S) BY DEF C!Cardinality, Cardinality
<1>2. Cardinality({}) = 0 BY FS_EmptySet
<1>3. \A s : Cardinality({s}) = 1 /\ IsFiniteSet({s}) BY FS_Singleton
<1>4. Cardinality({"LONG", "SHORT"}) = 2
  <2>1. {"LONG", "SHORT"} = {"LONG"} \cup {"SHORT"} OBVIOUS
  <2>2. IsFiniteSet({"LONG"}) /\ Cardinality({"LONG"}) = 1 BY <1>3
  <2>3. "SHORT" \notin {"LONG"} OBVIOUS
  <2>4. Cardinality({"LONG"} \cup {"SHORT"}) = Cardinality({"LONG"}) + 1
    BY <2>2, <2>3, FS_AddElement
  <2> QED BY <2>1, <2>2, <2>4
<1>5. S = {} \/ S = {"LONG"} \/ S = {"SHORT"} \/ S = {"LONG", "SHORT"}
  <2>1. \A s \in S : s = "LONG" \/ s = "SHORT" BY DEF C!Sides
  <2> QED BY <2>1
<1> QED BY <1>1, <1>2, <1>3, <1>4, <1>5

LEMMA LegIs == ASSUME NEW x \in Sayings PROVE C!ResolveLeg(x) \in C!Sides \cup {NULL}
<1>1. CASE x.dir # NULL BY <1>1 DEF Sayings, C!ResolveLeg, C!Sides
<1>2. CASE x.dir = NULL /\ C!Cardinality(C!OpenLegs) = 1
  <2>1. C!OpenLegs \in SUBSET C!Sides BY DEF C!OpenLegs
  <2>2. C!OpenLegs # {} BY <1>2, <2>1, SidesCount
  <2>3. (CHOOSE s \in C!OpenLegs : TRUE) \in C!Sides BY <2>1, <2>2
  <2> QED BY <1>2, <2>3 DEF C!ResolveLeg
<1>3. CASE x.dir = NULL /\ C!Cardinality(C!OpenLegs) # 1 BY <1>3 DEF C!ResolveLeg
<1> QED BY <1>1, <1>2, <1>3

LEMMA PlanCloseFits == ASSUME NEW x \in Sayings PROVE C!PlanFits(C!PlanClose(x))
<1>1. PICK out \in SUBSET C!Sides : out = IF x.dir # NULL THEN C!OpenLegs \cap {x.dir} ELSE C!OpenLegs
  BY DEF C!OpenLegs
<1>2. CASE out = {} BY <1>1, <1>2, NothingFits DEF C!PlanClose
<1>3. CASE out # {}
  <2> DEFINE steps == [i \in 1..C!Cardinality(out) |->
                        C!Step("close", IF C!Cardinality(out) = 1 THEN CHOOSE s \in out : TRUE
                                        ELSE <<"LONG", "SHORT">>[i])]
  <2>1. C!PlanClose(x) = C!Plan(x.dir, steps, [s \in out |-> FALSE])
    BY <1>1, <1>3 DEF C!PlanClose
  <2>2. x.dir \in C!Sides \cup {NULL} BY DEF Sayings, C!Sides
  <2>3. steps \in Seq(C!Steps) /\ C!Distinct(steps)
    <3>1. CASE C!Cardinality(out) = 1
      <4>1. (CHOOSE s \in out : TRUE) \in C!Sides BY <1>3
      <4>2. PICK a \in C!Steps : a = C!Step("close", CHOOSE s \in out : TRUE) BY <4>1, StepIs
      <4>3. steps = [i \in 1..1 |-> a] BY <3>1, <4>2
      <4>4. steps = <<a>> BY <4>3
      <4> QED BY <4>4, OneStep
    <3>2. CASE C!Cardinality(out) = 2
      <4>1. PICK a \in C!Steps, b \in C!Steps : a = C!Step("close", "LONG") /\ b = C!Step("close", "SHORT")
        BY StepIs DEF C!Sides
      <4>2. a # b /\ a.kind = "close" /\ b.kind = "close" BY <4>1 DEF C!Step
      <4>3. DOMAIN steps = 1..2 /\ steps[1] = a /\ steps[2] = b BY <3>2, <4>1
      <4>4. steps = <<a, b>>
        <5>1. steps = [i \in 1..2 |-> steps[i]] BY <4>3
        <5> QED BY <4>3, <5>1
      <4> QED BY <4>2, <4>4, TwoSteps
    <3> QED BY <1>3, <3>1, <3>2, SidesCount
  <2> HIDE DEF steps
  <2> QED BY <2>1, <2>2, <2>3, PlanIs
<1> QED BY <1>2, <1>3

LEMMA PlanOpenFits == ASSUME NEW x \in Sayings, NEW flip PROVE C!PlanFits(C!PlanOpen(x, flip))
<1>1. CASE x.dir = NULL BY <1>1, NothingFits DEF C!PlanOpen
<1>2. CASE x.dir # NULL
  <2>1. PICK want \in C!Sides, other \in C!Sides : want = x.dir /\ other = C!Opposite(x.dir)
    BY <1>2, OtherSide DEF Sayings, C!Sides
  <2>2. PICK a \in C!Steps, b \in C!Steps : a = C!Step("close", other) /\ b = C!Step("open", want)
    BY StepIs
  <2>3. a.kind = "close" /\ b.kind = "open" BY <2>2 DEF C!Step
  <2>4. /\ \A adv : C!PlanFits(C!Plan(want, <<a>>, adv))
        /\ \A adv : C!PlanFits(C!Plan(want, <<b>>, adv))
        /\ \A adv : C!PlanFits(C!Plan(want, <<a, b>>, adv))
    BY <2>3, OneStep, TwoSteps, PlanIs
  <2>5. \/ C!PlanOpen(x, flip) = C!Nothing
        \/ C!PlanOpen(x, flip) = C!Plan(want, <<a>>, [s \in {other} |-> FALSE])
        \/ C!PlanOpen(x, flip) = C!Plan(want, <<b>>, [s \in {want} |-> TRUE])
        \/ C!PlanOpen(x, flip) = C!Plan(want, <<a, b>>, [s \in C!Sides |-> s = want])
    BY <1>2, <2>1, <2>2 DEF C!PlanOpen
  <2> QED BY <2>4, <2>5, NothingFits
<1> QED BY <1>1, <1>2

LEMMA PlanAddFits == ASSUME NEW x \in Sayings PROVE C!PlanFits(C!PlanAdd(x))
<1>1. CASE C!ResolveLeg(x) \in C!Sides
  <2>1. PICK a \in C!Steps : a = C!Step("add", C!ResolveLeg(x)) BY <1>1, StepIs
  <2>2. C!PlanFits(C!Plan(C!ResolveLeg(x), <<a>>, <<>>)) BY <1>1, OneStep, PlanIs
  <2> QED BY <2>1, <2>2, NothingFits, PlanOpenFits DEF C!PlanAdd
<1>2. CASE C!ResolveLeg(x) = NULL BY <1>2, NothingFits, PlanOpenFits DEF C!PlanAdd
<1> QED BY <1>1, <1>2, LegIs

LEMMA PlanTrimFits == ASSUME NEW x \in Sayings PROVE C!PlanFits(C!PlanTrim(x))
<1>1. CASE C!ResolveLeg(x) \in C!Sides
  <2>1. PICK a \in C!Steps : a = C!Step("trim", C!ResolveLeg(x)) BY <1>1, StepIs
  <2>2. C!PlanFits(C!Plan(C!ResolveLeg(x), <<a>>, <<>>)) BY <1>1, OneStep, PlanIs
  <2>3. C!PlanFits(C!Plan(C!ResolveLeg(x), <<>>, <<>>))
    BY <1>1, NothingFits, PlanIs DEF C!PlanFits, C!Nothing, C!Plan
  <2> QED BY <2>1, <2>2, <2>3, NothingFits DEF C!PlanTrim
<1>2. CASE C!ResolveLeg(x) = NULL BY <1>2, NothingFits DEF C!PlanTrim
<1> QED BY <1>1, <1>2, LegIs

LEMMA EvaluateFits == ASSUME NEW x \in Sayings, NEW phase PROVE C!PlanFits(C!Evaluate(x, phase))
<1>1. x.act \in {"OPEN", "CLOSE", "FLIP", "ADD", "TRIM", "STOP", "RECAP"} BY DEF Sayings
<1>2. C!Evaluate(x, phase) \in {C!Nothing, C!PlanTrim(x), C!PlanAdd(x), C!PlanClose(x),
                                C!PlanOpen(x, FALSE), C!PlanOpen(x, TRUE)}
  BY <1>1 DEF C!Evaluate
<1> QED BY <1>2, NothingFits, PlanTrimFits, PlanAddFits, PlanCloseFits, PlanOpenFits

-------------------------------------------------------------------------------
(* What a step of a judge keeps.                                           *)

TrimsStay ==
  /\ v8' \in [C!Posts -> TrimsOrNull]
  /\ \A p \in C!Posts :
       \/ v8'[p] = v8[p]
       \/ v8[p] # NULL /\ \E s \in {"fired", "cancelled", "expired"} : v8'[p] = [v8[p] EXCEPT !.status = s]

LEMMA TrimsStayIs ==
  ASSUME C!ChannelTypes, TrimsStay, UNCHANGED v1
  PROVE  \A p \in C!Posts :
           /\ v8'[p] # NULL <=> v8[p] # NULL
           /\ C!Parked(p)' <=> C!Parked(p)
           /\ v8'[p] # NULL /\ v8'[p].status = "pending" => v8'[p] = v8[p]
<1> SUFFICES ASSUME NEW p \in C!Posts
             PROVE  /\ v8'[p] # NULL <=> v8[p] # NULL
                    /\ C!Parked(p)' <=> C!Parked(p)
                    /\ v8'[p] # NULL /\ v8'[p].status = "pending" => v8'[p] = v8[p]
  OBVIOUS
<1>1. CASE v8'[p] = v8[p] BY <1>1 DEF C!Parked
<1>2. CASE v8[p] # NULL /\ \E s \in {"fired", "cancelled", "expired"} : v8'[p] = [v8[p] EXCEPT !.status = s]
  <2>1. PICK s \in {"fired", "cancelled", "expired"} : v8'[p] = [v8[p] EXCEPT !.status = s] BY <1>2
  <2>2. v8[p] \in C!Trims BY <1>2, ChannelFields DEF TrimsOrNull
  <2>3. v8'[p] \in C!Trims /\ v8'[p].level = v8[p].level /\ v8'[p].status = s
    BY <2>1, <2>2 DEF C!Trims
  <2>4. v8'[p] # NULL BY <2>3, NullIs
  <2> QED BY <1>2, <2>3, <2>4 DEF C!Parked
<1> QED BY <1>1, <1>2 DEF TrimsStay

LEMMA TrimsSame == ASSUME C!ChannelTypes, UNCHANGED v8 PROVE TrimsStay
BY ChannelFields DEF TrimsStay

LEMMA ExcusedStays ==
  ASSUME UNCHANGED v1, v16 \subseteq v16', \A p \in C!Posts : C!Parked(p) => C!Parked(p)', C!Excused
  PROVE  C!Excused'
BY DEF C!Excused, C!Posts

\* Its judge stays alone with its post.
LEMMA FlightKept ==
  ASSUME C!ChannelTypes, C!OnePerPost, C!Unjudged,
         NEW t \in C!Judges, NEW c, v9' = [v9 EXCEPT ![t] = c], C!CallFits(t, c),
         UNCHANGED <<v1, v3>>, DOMAIN v10' = DOMAIN C!Rest, v4' \subseteq 1..v3,
         v5 \subseteq v5', v5' \subseteq 1..v3, v6 \subseteq v6', v6' \subseteq v5',
         v8' \in [C!Posts -> TrimsOrNull], v17' \subseteq v5' \X C!Steps,
         \A p \in v6' \ v6 : v9[t].at # "idle" /\ p = v9[t].post,
         \A u \in C!Judges \ {t} : c.at # "idle" /\ v9[u].at # "idle" => v9[u].post # c.post,
         c.at \in C!Working => c.post \in v5' \ v6', c.at = "advance" => c.post \in v6'
  PROVE  C!ChannelTypes' /\ C!OnePerPost' /\ C!Unjudged'
<1>1. /\ DOMAIN v9' = C!Judges /\ v9'[t] = c
      /\ \A u \in C!Judges \ {t} : v9'[u] = v9[u]
  BY ChannelFields
<1>2. \A u \in C!Judges : C!CallFits(u, v9[u])'
  BY <1>1, ChannelFields DEF C!CallFits
<1>3. C!ChannelTypes' BY <1>1, <1>2 DEF C!ChannelTypes, C!Posts, TrimsOrNull
<1>4. C!OnePerPost' BY <1>1 DEF C!OnePerPost
<1>5. C!Unjudged'
  <2> SUFFICES ASSUME NEW u \in C!Judges
               PROVE  /\ v9'[u].at \in C!Working => v9'[u].post \in v5' \ v6'
                      /\ v9'[u].at = "advance" => v9'[u].post \in v6'
    BY DEF C!Unjudged
  <2>1. CASE u = t BY <1>1, <2>1
  <2>2. CASE u # t
    <3>1. v9'[u] = v9[u] BY <1>1, <2>2
    <3>2. v9[u].at = "advance" => v9[u].post \in v6 BY DEF C!Unjudged
    <3>3. ASSUME v9[u].at \in C!Working PROVE v9[u].post \in v5' \ v6'
      <4>1. v9[u].post \in v5 \ v6 BY <3>3 DEF C!Unjudged
      <4>2. v9[u].at # "idle" BY <3>3 DEF C!Working
      <4>3. ~(v9[t].at # "idle" /\ v9[u].post = v9[t].post) BY <2>2, <4>2 DEF C!OnePerPost
      <4> QED BY <4>1, <4>3
    <3> QED BY <3>1, <3>2, <3>3
  <2> QED BY <2>1, <2>2
<1> QED BY <1>3, <1>4, <1>5

LEMMA ParkedKept ==
  ASSUME C!ChannelTypes, C!ParkedFits, TrimsStay, UNCHANGED <<v1, v10>>, v6 \subseteq v6'
  PROVE  C!ParkedFits'
<1>1. C!Posts' = C!Posts BY DEF C!Posts
<1>2. \A p \in C!Posts : C!Parked(p)' <=> C!Parked(p) BY TrimsStayIs
<1>3. \A p \in C!Posts : v8'[p] # NULL /\ v8'[p].status = "pending" => v8'[p] = v8[p] BY TrimsStayIs
<1> QED BY <1>1, <1>2, <1>3 DEF C!ParkedFits

LEMMA FiredOnceKept ==
  ASSUME C!ChannelTypes, C!FiredOnce, TrimsStay, UNCHANGED <<v1, v10, v17>>, v16 \subseteq v16'
  PROVE  C!FiredOnce'
<1>1. C!Posts' = C!Posts BY DEF C!Posts
<1>2. \A p \in C!Posts : (C!Parked(p)' <=> C!Parked(p)) /\ (v8'[p] # NULL <=> v8[p] # NULL)
  BY TrimsStayIs
<1>3. \A p \in C!Posts : v8'[p] # NULL /\ v8'[p].status = "pending" => v8'[p] = v8[p] BY TrimsStayIs
<1>4. v16' = {} => v16 = {} OBVIOUS
<1> QED BY <1>1, <1>2, <1>3, <1>4 DEF C!FiredOnce

\* A step of a judge that sends nothing, whatever it does to the trims.
LEMMA MovedKept ==
  ASSUME C!ChannelInv, NEW t \in C!Judges, NEW c, v9' = [v9 EXCEPT ![t] = c], C!CallFits(t, c),
         UNCHANGED <<v1, v3, v10, v17, v18>>, v4' \subseteq v4, c.todo \subseteq v9[t].todo,
         v5 \subseteq v5', v5' \subseteq 1..v3, v6 \subseteq v6', v6' \subseteq v5',
         v8' \in [C!Posts -> TrimsOrNull], C!ParkedFits', C!Excused => C!Excused',
         C!Excused \/ C!FiredOnce',
         \A p \in v6' \ v6 : v9[t].at # "idle" /\ p = v9[t].post,
         \A u \in C!Judges \ {t} : c.at # "idle" /\ v9[u].at # "idle" => v9[u].post # c.post,
         c.at \in C!Working => c.post \in v5' \ v6', c.at = "advance" => c.post \in v6',
         C!Excused \/ (t \in C!Senders /\ c.at \in C!Early /\ C!Acted(c.post) => c.post \in v6'),
         C!Excused \/ (c.at = "send" => \A i \in DOMAIN c.plan.steps :
                                          <<c.post, c.plan.steps[i]>> \notin v17),
         t \in C!Senders /\ v9[t].at \in {"send", "record"} =>
           (c.at \in {"send", "record"} /\ c.post = v9[t].post) \/ v9[t].post \in v6'
  PROVE  C!ChannelInv'
<1>0. C!ChannelTypes /\ C!OnePerPost /\ C!Unjudged /\ C!ParkedFits BY DEF C!ChannelInv
<1>1. /\ v9'[t] = c /\ \A u \in C!Judges \ {t} : v9'[u] = v9[u]
  BY <1>0, ChannelFields
<1>2. C!ChannelTypes' /\ C!OnePerPost' /\ C!Unjudged'
  <2>1. v4' \subseteq 1..v3 /\ v17' \subseteq v5' \X C!Steps /\ DOMAIN v10' = DOMAIN C!Rest
    BY <1>0, ChannelFields
  <2> QED BY <1>0, <2>1, FlightKept
<1>4. CASE C!Excused BY <1>2, <1>4 DEF C!ChannelInv
<1>5. CASE ~C!Excused
  <2>0. C!Untouched /\ C!Ahead /\ C!Waiting /\ C!FiredOnce /\ ~v18 BY <1>5 DEF C!ChannelInv
  <2>1. \A p : C!Acted(p)' <=> C!Acted(p) BY DEF C!Acted
  <2>2. C!Untouched'
    <3> SUFFICES ASSUME NEW u \in C!Senders, v9'[u].at \in C!Early, C!Acted(v9'[u].post)
                 PROVE  v9'[u].post \in v6'
      BY <2>1 DEF C!Untouched
    <3>1. u \in C!Judges BY <1>0, ChannelFields
    <3>2. CASE u = t BY <1>1, <1>5, <3>2
    <3>3. CASE u # t BY <1>1, <2>0, <3>1, <3>3 DEF C!Untouched
    <3> QED BY <3>2, <3>3
  <2>3. C!Ahead' BY <1>1, <1>5, <2>0 DEF C!Ahead
  <2>4. C!Waiting'
    <3> SUFFICES ASSUME NEW p \in v4' \cup v9'["catchup"].todo, C!Acted(p), p \notin v6'
                 PROVE  C!Held(p)'
      BY <2>1 DEF C!Waiting
    <3>1. p \in v4 \cup v9["catchup"].todo
      <4>1. "catchup" \in C!Judges BY DEF C!Judges
      <4> QED BY <1>1, <4>1
    <3>2. C!Held(p) BY <2>0, <3>1 DEF C!Waiting
    <3>3. PICK u \in C!Senders : v9[u].at \in {"send", "record"} /\ v9[u].post = p
      BY <3>2 DEF C!Held
    <3>4. u \in C!Judges BY <1>0, ChannelFields
    <3>5. v9'[u].at \in {"send", "record"} /\ v9'[u].post = p BY <1>1, <3>3, <3>4
    <3> QED BY <3>5 DEF C!Held
  <2>5. C!FiredOnce' BY <1>5
  <2> QED BY <1>2, <2>0, <2>2, <2>3, <2>4, <2>5 DEF C!ChannelInv
<1> QED BY <1>4, <1>5

\* A step of a judge that sends nothing and at most resolves a trim.
LEMMA QuietKept ==
  ASSUME C!ChannelInv, NEW t \in C!Judges, NEW c, v9' = [v9 EXCEPT ![t] = c], C!CallFits(t, c),
         UNCHANGED <<v1, v3, v10, v17, v18>>, v4' \subseteq v4, c.todo \subseteq v9[t].todo,
         v5 \subseteq v5', v5' \subseteq 1..v3, v6 \subseteq v6', v6' \subseteq v5',
         v16 \subseteq v16', TrimsStay,
         \A p \in v6' \ v6 : v9[t].at # "idle" /\ p = v9[t].post,
         \A u \in C!Judges \ {t} : c.at # "idle" /\ v9[u].at # "idle" => v9[u].post # c.post,
         c.at \in C!Working => c.post \in v5' \ v6', c.at = "advance" => c.post \in v6',
         C!Excused \/ (t \in C!Senders /\ c.at \in C!Early /\ C!Acted(c.post) => c.post \in v6'),
         C!Excused \/ (c.at = "send" => \A i \in DOMAIN c.plan.steps :
                                          <<c.post, c.plan.steps[i]>> \notin v17),
         t \in C!Senders /\ v9[t].at \in {"send", "record"} =>
           (c.at \in {"send", "record"} /\ c.post = v9[t].post) \/ v9[t].post \in v6'
  PROVE  C!ChannelInv'
<1>1. C!ChannelTypes /\ C!ParkedFits BY DEF C!ChannelInv
<1>2. v8' \in [C!Posts -> TrimsOrNull] /\ C!ParkedFits' BY <1>1, ParkedKept DEF TrimsStay
<1>3. C!Excused => C!Excused' BY <1>1, TrimsStayIs, ExcusedStays
<1>4. C!Excused \/ C!FiredOnce' BY <1>1, FiredOnceKept DEF C!ChannelInv
<1> QED BY <1>2, <1>3, <1>4, MovedKept

\* A judge goes on to another stage with the post it has.
LEMMA StageKept ==
  ASSUME C!ChannelInv, NEW t \in C!Judges, NEW c, v9' = [v9 EXCEPT ![t] = c], C!CallFits(t, c),
         c.post = v9[t].post, c.todo = v9[t].todo,
         c.at \in C!Working, v9[t].at \in C!Early \cup {"adjust", "send"},
         UNCHANGED <<v1, v3, v4, v6, v8, v10, v17, v18>>,
         v5 \subseteq v5', v5' \subseteq 1..v3, v16 \subseteq v16', v9[t].post \in v5' \ v6,
         c.at \in C!Early => v9[t].at \in C!Early, v9[t].at = "send" => c.at = "record",
         c.at = "send" => v9[t].at = "size" /\ t \in C!Senders
  PROVE  C!ChannelInv'
<1>0. C!ChannelTypes BY DEF C!ChannelInv
<1>1. TrimsStay BY <1>0, TrimsSame
<1>2. \A u \in C!Judges \ {t} : c.at # "idle" /\ v9[u].at # "idle" => v9[u].post # c.post
  BY DEF C!ChannelInv, C!OnePerPost, C!Early
<1>3. C!Excused \/ (t \in C!Senders /\ c.at \in C!Early /\ C!Acted(c.post) => c.post \in v6')
  BY DEF C!ChannelInv, C!Untouched
<1>4. C!Excused \/ (c.at = "send" => \A i \in DOMAIN c.plan.steps :
                                       <<c.post, c.plan.steps[i]>> \notin v17)
  <2> SUFFICES ASSUME ~C!Excused, c.at = "send", NEW i \in DOMAIN c.plan.steps
               PROVE  <<c.post, c.plan.steps[i]>> \notin v17
    OBVIOUS
  <2>1. ~C!Acted(v9[t].post) BY DEF C!ChannelInv, C!Untouched, C!Early
  <2>2. c.plan.steps[i] \in C!Steps
    <3>1. c.plan.steps \in Seq(C!Steps) BY DEF C!CallFits, C!PlanFits, C!Working
    <3> QED BY <3>1
  <2> QED BY <2>1, <2>2 DEF C!Acted
<1>5. v4' \subseteq v4 /\ c.todo \subseteq v9[t].todo /\ v6 \subseteq v6' /\ v6' \subseteq v5'
  BY <1>0, ChannelFields
<1>6. c.at \in C!Working => c.post \in v5' \ v6' OBVIOUS
<1>7. c.at # "advance" /\ (v9[t].at \in {"send", "record"} => c.at \in {"send", "record"})
  BY DEF C!Working, C!Early
<1> QED BY <1>1, <1>2, <1>3, <1>4, <1>5, <1>6, <1>7, QuietKept

LEMMA CallIs ==
  ASSUME C!ChannelTypes, NEW t \in C!Judges
  PROVE  /\ DOMAIN v9[t] = {"at", "post", "todo", "plan", "size", "stop"}
         /\ v9[t].todo \subseteq 1..v3
         /\ v9[t].at # "idle" => v9[t].post \in 1..v3
         /\ v9[t].at \in (C!Working \ {"judge"}) \cup {"advance"} => C!PlanFits(v9[t].plan)
         /\ v9[t].at = "send" => t \in C!Senders /\ v9[t].plan.steps # <<>>
         /\ v9[t].at = "advance" => v9[t].plan.advance # <<>> \/ v9[t].plan.leg \in C!Sides
BY ChannelFields DEF C!CallFits, C!Idle

LEMMA DropIs ==
  ASSUME C!ChannelTypes, NEW t \in C!Judges, C!Drop(t)
  PROVE  \E c : /\ v9' = [v9 EXCEPT ![t] = c] /\ C!CallFits(t, c)
                /\ c.at = "idle" /\ c.todo = v9[t].todo
<1>1. PICK c : c = [C!Idle EXCEPT !.todo = v9[t].todo] OBVIOUS
<1>2. v9' = [v9 EXCEPT ![t] = c] BY <1>1 DEF C!Drop, C!Set
<1>3. DOMAIN c = DOMAIN C!Idle /\ c.at = "idle" /\ c.todo = v9[t].todo BY <1>1 DEF C!Idle
<1>4. C!CallFits(t, c) BY <1>3, CallIs DEF C!CallFits, C!Working
<1> QED BY <1>2, <1>3, <1>4

\* A judge is done with its post without having changed anything.
LEMMA DropKept ==
  ASSUME C!ChannelInv, NEW t \in C!Judges, C!Drop(t), v9[t].at \in C!Early,
         UNCHANGED <<v1, v3, v4, v5, v6, v8, v10, v17, v18>>, v16 \subseteq v16'
  PROVE  C!ChannelInv'
<1>0. C!ChannelTypes BY DEF C!ChannelInv
<1>1. PICK c : /\ v9' = [v9 EXCEPT ![t] = c] /\ C!CallFits(t, c)
               /\ c.at = "idle" /\ c.todo = v9[t].todo
  BY <1>0, DropIs
<1>2. c.at \notin C!Working \cup C!Early \cup {"advance", "send"} BY <1>1 DEF C!Working, C!Early
<1>3. v9[t].at \notin {"send", "record"} BY DEF C!Early
<1>4. v5 \subseteq 1..v3 /\ v6 \subseteq v5 /\ TrimsStay BY <1>0, ChannelFields, TrimsSame
<1> QED BY <1>0, <1>1, <1>2, <1>3, <1>4, QuietKept

LEMMA StageFits ==
  ASSUME C!ChannelTypes, NEW t \in C!Judges, v9[t].at # "idle",
         NEW c, DOMAIN c = {"at", "post", "todo", "plan", "size", "stop"},
         c.post = v9[t].post, c.todo = v9[t].todo, c.at \in C!Working \ {"judge"},
         C!PlanFits(c.plan), c.at = "send" => t \in C!Senders /\ c.plan.steps # <<>>
  PROVE  C!CallFits(t, c)
BY CallIs DEF C!CallFits, C!Idle, C!Working

-------------------------------------------------------------------------------
(* A judge, up to the orders.                                              *)

LEMMA LookKept == ASSUME C!ChannelInv, NEW t \in C!Judges, C!Look(t) PROVE C!ChannelInv'
<1>0. C!ChannelTypes /\ v9[t].at = "look" BY DEF C!ChannelInv, C!Look
<1>1. CASE v9[t].post \in v6
  BY <1>0, <1>1, DropKept DEF C!Look, C!market, C!counts, C!history, C!Early
<1>2. CASE v9[t].post \notin v6
  <2>1. PICK c : c = [v9[t] EXCEPT !.at = "judge"] OBVIOUS
  <2>2. /\ DOMAIN c = {"at", "post", "todo", "plan", "size", "stop"}
        /\ c.at = "judge" /\ c.post = v9[t].post /\ c.todo = v9[t].todo /\ c.post \in 1..v3
    BY <1>0, <2>1, CallIs
  <2>3. C!CallFits(t, c) BY <1>0, <2>2, CallIs DEF C!CallFits, C!Idle, C!Working
  <2>4. /\ v9' = [v9 EXCEPT ![t] = c] /\ v5' = v5 \cup {v9[t].post}
        /\ UNCHANGED <<v1, v3, v4, v6, v8, v10, v16, v17, v18>>
    BY <1>2, <2>1 DEF C!Look, C!Go, C!Set, C!market, C!counts, C!history
  <2>5. v5 \subseteq 1..v3 /\ v5' \subseteq 1..v3 BY <1>0, <2>2, <2>4, ChannelFields
  <2>6. c.at \in C!Working /\ c.at \in C!Early /\ v9[t].at \in C!Early BY <1>0, <2>2 DEF C!Working, C!Early
  <2> QED BY <1>0, <1>2, <2>2, <2>3, <2>4, <2>5, <2>6, StageKept
<1> QED BY <1>1, <1>2

LEMMA ExtractionFailsKept ==
  ASSUME C!ChannelInv, NEW t \in C!Judges, C!ExtractionFails(t) PROVE C!ChannelInv'
BY DropKept DEF C!ExtractionFails, C!stored, C!market, C!counts, C!history, C!Early

\* The post in hand has not been judged.
LEMMA InHandIs ==
  ASSUME C!ChannelInv, NEW t \in C!Judges, v9[t].at \in C!Working
  PROVE  /\ C!ChannelTypes /\ v9[t].at # "idle" /\ v9[t].post \in 1..v3
         /\ v9[t].post \in v5 \ v6 /\ v5 \subseteq 1..v3
<1>1. C!ChannelTypes /\ v9[t].post \in v5 \ v6 /\ v9[t].at # "idle"
  BY DEF C!ChannelInv, C!Unjudged, C!Working
<1> QED BY <1>1, ChannelFields

\* A stage that decides something, changes at most the levels and goes on.
LEMMA DecideKept ==
  ASSUME C!ChannelInv, NEW t \in C!Judges, v9[t].at \in C!Working \ {"record"}, NEW c,
         v9' = [v9 EXCEPT ![t] = c], DOMAIN c = {"at", "post", "todo", "plan", "size", "stop"},
         c.post = v9[t].post, c.todo = v9[t].todo, c.at \in C!Working \ {"judge"},
         C!PlanFits(c.plan), c.at = "send" => t \in C!Senders /\ c.plan.steps # <<>>,
         c.at \in C!Early => v9[t].at \in C!Early, v9[t].at = "send" => c.at = "record",
         c.at = "send" => v9[t].at = "size",
         UNCHANGED <<v1, v3, v4, v5, v6, v8, v10, v17, v18>>, v16 \subseteq v16'
  PROVE  C!ChannelInv'
<1>1. /\ C!ChannelTypes /\ v9[t].at # "idle" /\ v9[t].post \in v5 \ v6 /\ v5 \subseteq 1..v3
  BY InHandIs
<1>2. C!CallFits(t, c) BY <1>1, StageFits
<1>3. v5' \subseteq 1..v3 /\ v5 \subseteq v5' /\ v9[t].post \in v5' \ v6 BY <1>1
<1>4. c.at \in C!Working /\ v9[t].at \in C!Early \cup {"adjust", "send"} BY DEF C!Working, C!Early
<1> QED BY <1>2, <1>3, <1>4, StageKept

LEMMA JudgesKept == ASSUME C!ChannelInv, NEW t \in C!Judges, C!Judge(t) PROVE C!ChannelInv'
<1>0. /\ v9[t].at = "judge" /\ C!ChannelTypes /\ v9[t].at \in C!Working \ {"record"}
  BY DEF C!Judge, C!ChannelInv, C!Working
<1>1. C!PlanFits(C!Evaluate(C!Mine(t), t)) BY <1>0, MineIs, EvaluateFits
<1>2. \/ C!Drop(t)
      \/ \E at \in {"levels", "size"} :
           v9' = [v9 EXCEPT ![t] = [v9[t] EXCEPT !.plan = C!Evaluate(C!Mine(t), t), !.at = at]]
  BY DEF C!Judge, C!Set
<1>3. UNCHANGED <<v1, v3, v4, v5, v6, v8, v10, v16, v17, v18>>
  BY DEF C!Judge, C!stored, C!market, C!counts, C!history
<1>4. CASE C!Drop(t) BY <1>0, <1>3, <1>4, DropKept DEF C!Early
<1>5. ASSUME NEW at \in {"levels", "size"},
             v9' = [v9 EXCEPT ![t] = [v9[t] EXCEPT !.plan = C!Evaluate(C!Mine(t), t), !.at = at]]
      PROVE  C!ChannelInv'
  <2>1. PICK c : c = [v9[t] EXCEPT !.plan = C!Evaluate(C!Mine(t), t), !.at = at] OBVIOUS
  <2>2. /\ DOMAIN c = {"at", "post", "todo", "plan", "size", "stop"}
        /\ c.at = at /\ c.post = v9[t].post /\ c.todo = v9[t].todo
        /\ c.plan = C!Evaluate(C!Mine(t), t)
    BY <1>0, <2>1, CallIs
  <2>3. v9' = [v9 EXCEPT ![t] = c] BY <1>5, <2>1
  <2>4. /\ c.at \in C!Working \ {"judge"} /\ c.at # "send" /\ v9[t].at # "send"
        /\ v9[t].at \in C!Early /\ C!PlanFits(c.plan)
    BY <1>0, <1>1, <2>2 DEF C!Working, C!Early
  <2> QED BY <1>0, <1>3, <2>2, <2>3, <2>4, DecideKept
<1> QED BY <1>2, <1>4, <1>5

LEMMA JudgesStaleKept == ASSUME C!ChannelInv, NEW t \in C!Judges, C!JudgeStale(t) PROVE C!ChannelInv'
<1>0. v9[t].at = "judge" /\ C!ChannelTypes /\ v9[t].at \in C!Working \ {"record"}
  BY DEF C!JudgeStale, C!ChannelInv, C!Working
<1>1. PICK c : c = [v9[t] EXCEPT !.plan = C!Nothing, !.at = "size"] OBVIOUS
<1>2. /\ DOMAIN c = {"at", "post", "todo", "plan", "size", "stop"}
      /\ c.at = "size" /\ c.post = v9[t].post /\ c.todo = v9[t].todo /\ c.plan = C!Nothing
  BY <1>0, <1>1, CallIs
<1>3. /\ v9' = [v9 EXCEPT ![t] = c]
      /\ UNCHANGED <<v1, v3, v4, v5, v6, v8, v10, v16, v17, v18>>
  BY <1>1 DEF C!JudgeStale, C!Set, C!stored, C!market, C!history
<1>4. /\ c.at \in C!Working \ {"judge"} /\ c.at # "send" /\ v9[t].at # "send"
      /\ v9[t].at \in C!Early /\ C!PlanFits(c.plan)
  BY <1>0, <1>2, NothingFits DEF C!Working, C!Early
<1> QED BY <1>0, <1>2, <1>3, <1>4, DecideKept

\* A judge with a plan goes on, with that plan, with its leg filled in, or with none.
LEMMA PlannedKept ==
  ASSUME C!ChannelInv, NEW t \in C!Judges, v9[t].at \in C!Working \ {"judge", "record"}, NEW c,
         v9' = [v9 EXCEPT ![t] = c], DOMAIN c = {"at", "post", "todo", "plan", "size", "stop"},
         c.post = v9[t].post, c.todo = v9[t].todo, c.at \in C!Working \ {"judge"},
         \/ c.plan = v9[t].plan \/ c.plan = C!Nothing
         \/ \E s \in C!Sides : c.plan = [v9[t].plan EXCEPT !.leg = s],
         c.at = "send" => t \in C!Senders /\ c.plan.steps # <<>>,
         c.at \in C!Early => v9[t].at \in C!Early, v9[t].at = "send" => c.at = "record",
         c.at = "send" => v9[t].at = "size",
         UNCHANGED <<v1, v3, v4, v5, v6, v8, v10, v17, v18>>, v16 \subseteq v16'
  PROVE  C!ChannelInv'
<1>1. C!PlanFits(v9[t].plan) BY CallIs DEF C!ChannelInv
<1>2. ASSUME NEW s \in C!Sides, c.plan = [v9[t].plan EXCEPT !.leg = s] PROVE C!PlanFits(c.plan)
  BY <1>1, <1>2 DEF C!PlanFits, C!Nothing, C!Plan
<1>3. C!PlanFits(c.plan) BY <1>1, <1>2, NothingFits
<1> QED BY <1>3, DecideKept

LEMMA LevelsKept == ASSUME C!ChannelInv, NEW t \in C!Judges, C!Levels(t) PROVE C!ChannelInv'
<1>0. v9[t].at = "levels" /\ C!ChannelTypes BY DEF C!Levels, C!ChannelInv
<1>1. PICK s : s = C!ResolveLeg(C!Mine(t)) OBVIOUS
<1>2. PICK want : want = IF s = NULL THEN 0 ELSE C!EvaluateStop(s, v12[s].entry, v7[s].stop)
  OBVIOUS
<1>3. s \in C!Sides \cup {NULL} BY <1>0, <1>1, MineIs, LegIs
<1>4. \/ v9' = [v9 EXCEPT ![t] = [v9[t] EXCEPT !.at = "size"]]
      \/ /\ s \in C!Sides
         /\ v9' = [v9 EXCEPT ![t] = [v9[t] EXCEPT !.at = "adjust", !.stop = want, !.plan.leg = s]]
  BY <1>1, <1>2, <1>3 DEF C!Levels, C!Go, C!Set
<1>5. UNCHANGED <<v1, v3, v4, v5, v6, v8, v10, v16, v17, v18>>
  BY DEF C!Levels, C!stored, C!market, C!counts, C!history
<1>6. v9[t].at \in C!Working \ {"judge", "record"} /\ v9[t].at \in C!Early
  BY <1>0 DEF C!Working, C!Early
<1>7. CASE v9' = [v9 EXCEPT ![t] = [v9[t] EXCEPT !.at = "size"]]
  <2>1. PICK c : c = [v9[t] EXCEPT !.at = "size"] OBVIOUS
  <2>2. /\ DOMAIN c = {"at", "post", "todo", "plan", "size", "stop"} /\ c.at = "size"
        /\ c.post = v9[t].post /\ c.todo = v9[t].todo /\ c.plan = v9[t].plan
    BY <1>0, <2>1, CallIs
  <2>3. c.at \in C!Working \ {"judge"} BY <2>2 DEF C!Working
  <2> QED BY <1>0, <1>5, <1>6, <1>7, <2>1, <2>2, <2>3, PlannedKept
<1>8. CASE /\ s \in C!Sides
           /\ v9' = [v9 EXCEPT ![t] = [v9[t] EXCEPT !.at = "adjust", !.stop = want, !.plan.leg = s]]
  <2>1. PICK c : c = [v9[t] EXCEPT !.at = "adjust", !.stop = want, !.plan.leg = s] OBVIOUS
  <2>2. /\ DOMAIN c = {"at", "post", "todo", "plan", "size", "stop"} /\ c.at = "adjust"
        /\ c.post = v9[t].post /\ c.todo = v9[t].todo /\ c.plan = [v9[t].plan EXCEPT !.leg = s]
    BY <1>0, <2>1, CallIs
  <2>3. c.at \in C!Working \ {"judge"} BY <2>2 DEF C!Working
  <2>4. v9' = [v9 EXCEPT ![t] = c] BY <1>8, <2>1
  <2>5. \E leg \in C!Sides : c.plan = [v9[t].plan EXCEPT !.leg = leg] BY <1>8, <2>2
  <2>6. c.at # "send" /\ v9[t].at # "send" BY <1>0, <2>2
  <2>7. UNCHANGED <<v1, v3, v4, v5, v6, v8, v10, v17, v18>> /\ v16 \subseteq v16' BY <1>5
  <2> QED BY <1>6, <2>2, <2>3, <2>4, <2>5, <2>6, <2>7, PlannedKept
<1> QED BY <1>4, <1>7, <1>8

LEMMA AdjustKept ==
  ASSUME C!ChannelInv, NEW t \in C!Judges, C!Adjust(t) \/ C!AdjustFails(t) PROVE C!ChannelInv'
<1>0. v9[t].at = "adjust" /\ C!ChannelTypes BY DEF C!Adjust, C!AdjustFails, C!ChannelInv
<1>1. PICK c : c = [v9[t] EXCEPT !.at = "size"] OBVIOUS
<1>2. /\ DOMAIN c = {"at", "post", "todo", "plan", "size", "stop"} /\ c.at = "size"
      /\ c.post = v9[t].post /\ c.todo = v9[t].todo /\ c.plan = v9[t].plan
  BY <1>0, <1>1, CallIs
<1>3. /\ v9' = [v9 EXCEPT ![t] = c]
      /\ UNCHANGED <<v1, v3, v4, v5, v6, v8, v10, v16, v17, v18>>
  BY <1>1 DEF C!Adjust, C!AdjustFails, C!Go, C!Set, C!stored, C!market, C!counts, C!history
<1>4. /\ c.at \in C!Working \ {"judge"} /\ v9[t].at \in C!Working \ {"judge", "record"}
      /\ v9[t].at \in C!Early
  BY <1>0, <1>2 DEF C!Working, C!Early
<1> QED BY <1>0, <1>2, <1>3, <1>4, PlannedKept

\* What cannot be sent is dropped.
LEMMA AbandonKept ==
  ASSUME C!ChannelInv, NEW t \in C!Judges, v9[t].at \in {"size", "send"}, C!Abandon(t),
         UNCHANGED <<v1, v3, v4, v5, v6, v8, v10, v16, v17, v18>>
  PROVE  C!ChannelInv'
<1>0. C!ChannelTypes BY DEF C!ChannelInv
<1>1. PICK c : c = [v9[t] EXCEPT !.at = "record", !.plan = C!Nothing] OBVIOUS
<1>2. /\ DOMAIN c = {"at", "post", "todo", "plan", "size", "stop"} /\ c.at = "record"
      /\ c.post = v9[t].post /\ c.todo = v9[t].todo /\ c.plan = C!Nothing
  BY <1>0, <1>1, CallIs
<1>3. v9' = [v9 EXCEPT ![t] = c] BY <1>1 DEF C!Abandon, C!Set
<1>4. /\ c.at \in C!Working \ {"judge"} /\ v9[t].at \in C!Working \ {"judge", "record"}
      /\ c.at \notin C!Early
  BY <1>2 DEF C!Working, C!Early
<1> QED BY <1>2, <1>3, <1>4, PlannedKept

LEMMA SizeKept == ASSUME C!ChannelInv, NEW t \in C!Judges, C!Size(t) PROVE C!ChannelInv'
<1>0. v9[t].at = "size" /\ C!ChannelTypes BY DEF C!Size, C!ChannelInv
<1>1. PICK size : size = C!SizeFor(v9[t].plan.steps[1]) OBVIOUS
<1>2. \/ v9' = [v9 EXCEPT ![t] = [v9[t] EXCEPT !.at = "record"]]
      \/ C!Abandon(t)
      \/ /\ t # "backfill" /\ v9[t].plan.steps # <<>>
         /\ v9' = [v9 EXCEPT ![t] = [v9[t] EXCEPT !.at = "send", !.size = size]]
  BY <1>1 DEF C!Size, C!Go, C!Set
<1>3. UNCHANGED <<v1, v3, v4, v5, v6, v8, v10, v16, v17, v18>>
  BY DEF C!Size, C!stored, C!market, C!counts, C!history
<1>4. v9[t].at \in C!Working \ {"judge", "record"} /\ v9[t].at \in C!Early
  BY <1>0 DEF C!Working, C!Early
<1>5. CASE v9' = [v9 EXCEPT ![t] = [v9[t] EXCEPT !.at = "record"]]
  <2>1. PICK c : c = [v9[t] EXCEPT !.at = "record"] OBVIOUS
  <2>2. /\ DOMAIN c = {"at", "post", "todo", "plan", "size", "stop"} /\ c.at = "record"
        /\ c.post = v9[t].post /\ c.todo = v9[t].todo /\ c.plan = v9[t].plan
    BY <1>0, <2>1, CallIs
  <2>3. c.at \in C!Working \ {"judge"} BY <2>2 DEF C!Working
  <2> QED BY <1>0, <1>3, <1>4, <1>5, <2>1, <2>2, <2>3, PlannedKept
<1>6. CASE C!Abandon(t) BY <1>0, <1>3, <1>6, AbandonKept
<1>7. CASE /\ t # "backfill" /\ v9[t].plan.steps # <<>>
           /\ v9' = [v9 EXCEPT ![t] = [v9[t] EXCEPT !.at = "send", !.size = size]]
  <2>1. PICK c : c = [v9[t] EXCEPT !.at = "send", !.size = size] OBVIOUS
  <2>2. /\ DOMAIN c = {"at", "post", "todo", "plan", "size", "stop"} /\ c.at = "send"
        /\ c.post = v9[t].post /\ c.todo = v9[t].todo /\ c.plan = v9[t].plan
    BY <1>0, <2>1, CallIs
  <2>3. c.at \in C!Working \ {"judge"} /\ t \in C!Senders
    BY <1>7, <2>2 DEF C!Working, C!Senders, C!Judges
  <2>4. v9' = [v9 EXCEPT ![t] = c] /\ c.plan.steps # <<>> BY <1>7, <2>1, <2>2
  <2> QED BY <1>0, <1>3, <1>4, <2>2, <2>3, <2>4, PlannedKept
<1> QED BY <1>2, <1>5, <1>6, <1>7

LEMMA SendFailsKept == ASSUME C!ChannelInv, NEW t \in C!Judges, C!SendFails(t) PROVE C!ChannelInv'
BY AbandonKept DEF C!SendFails, C!stored, C!market, C!history

-------------------------------------------------------------------------------
(* A judge, from the orders on.                                            *)

LEMMA CancelTrimsIs ==
  ASSUME C!ChannelTypes, NEW S, v8' = C!CancelTrims(S) PROVE TrimsStay
<1>1. ASSUME NEW p \in C!Posts
      PROVE  /\ v8'[p] \in TrimsOrNull
             /\ \/ v8'[p] = v8[p]
                \/ v8[p] # NULL /\ v8'[p] = [v8[p] EXCEPT !.status = "cancelled"]
  <2>1. v8[p] \in TrimsOrNull BY ChannelFields
  <2>2. v8'[p] = IF v8[p] # NULL /\ v8[p].status = "pending" /\ v8[p].side \in S
                 THEN [v8[p] EXCEPT !.status = "cancelled"] ELSE v8[p]
    BY DEF C!CancelTrims
  <2>3. v8[p] # NULL => [v8[p] EXCEPT !.status = "cancelled"] \in TrimsOrNull
    BY <2>1 DEF TrimsOrNull, C!Trims
  <2> QED BY <2>1, <2>2, <2>3
<1>2. v8' \in [C!Posts -> TrimsOrNull] BY <1>1 DEF C!CancelTrims
<1> QED BY <1>1, <1>2 DEF TrimsStay

LEMMA RecordedKept == ASSUME C!ChannelInv, NEW t \in C!Judges, C!Record(t) PROVE C!ChannelInv'
<1>0. v9[t].at = "record" /\ v9[t].at \in C!Working BY DEF C!Record, C!Working
<1>1. /\ C!ChannelTypes /\ v9[t].at # "idle" /\ v9[t].post \in 1..v3
      /\ v9[t].post \in v5 \ v6 /\ v5 \subseteq 1..v3 /\ v6 \subseteq v5
  BY <1>0, InHandIs, ChannelFields
<1>2. /\ v6' = v6 \cup {v9[t].post}
      /\ UNCHANGED <<v1, v3, v4, v5, v8, v10, v16, v17, v18>>
  BY DEF C!Record, C!market, C!counts, C!history
<1>3. TrimsStay BY <1>1, <1>2, TrimsSame
<1>4. \E c : /\ v9' = [v9 EXCEPT ![t] = c] /\ C!CallFits(t, c) /\ c.todo = v9[t].todo
             /\ c.at \in {"idle", "advance"} /\ (c.at = "advance" => c.post = v9[t].post)
  <2>1. CASE C!Drop(t) BY <1>1, <2>1, DropIs
  <2>2. CASE ~C!Drop(t)
    <3>1. /\ C!Go(t, "advance")
          /\ v9[t].plan.advance # <<>> \/ v9[t].plan.leg # NULL
      BY <2>2 DEF C!Record
    <3>2. PICK c : c = [v9[t] EXCEPT !.at = "advance"] OBVIOUS
    <3>3. /\ DOMAIN c = {"at", "post", "todo", "plan", "size", "stop"}
          /\ c.at = "advance" /\ c.post = v9[t].post /\ c.todo = v9[t].todo
          /\ c.plan = v9[t].plan
      BY <1>1, <3>2, CallIs
    <3>4. C!PlanFits(c.plan) BY <1>0, <1>1, <3>3, CallIs
    <3>5. c.plan.leg \in C!Sides \cup {NULL} BY <3>4 DEF C!PlanFits
    <3>6. C!CallFits(t, c) BY <1>1, <3>1, <3>3, <3>4, <3>5, CallIs DEF C!CallFits, C!Idle
    <3> QED BY <3>1, <3>2, <3>3, <3>6 DEF C!Go, C!Set
  <2> QED BY <2>1, <2>2
<1>5. PICK c : /\ v9' = [v9 EXCEPT ![t] = c] /\ C!CallFits(t, c) /\ c.todo = v9[t].todo
               /\ c.at \in {"idle", "advance"} /\ (c.at = "advance" => c.post = v9[t].post)
  BY <1>4
<1>6. c.at \notin C!Working \cup C!Early /\ c.at # "send" BY <1>5 DEF C!Working, C!Early
<1>7. \A u \in C!Judges \ {t} : c.at # "idle" /\ v9[u].at # "idle" => v9[u].post # c.post
  BY <1>1, <1>5 DEF C!ChannelInv, C!OnePerPost
<1>8. v6 \subseteq v6' /\ v6' \subseteq v5' /\ v5' \subseteq 1..v3 /\ v9[t].post \in v6'
  BY <1>1, <1>2
<1> QED BY <1>1, <1>2, <1>3, <1>5, <1>6, <1>7, <1>8, QuietKept

LEMMA AdvanceKept == ASSUME C!ChannelInv, NEW t \in C!Judges, C!Advance(t) PROVE C!ChannelInv'
<1>0. /\ v9[t].at = "advance" /\ C!ChannelTypes /\ C!ParkedFits
      /\ v9[t].post \in v6 /\ v9[t].post \in 1..v3 /\ v5 \subseteq 1..v3 /\ v6 \subseteq v5
      /\ v9[t].post \in C!Posts
  BY ChannelFields, CallIs DEF C!Advance, C!ChannelInv, C!Unjudged
<1>1. PICK c : /\ v9' = [v9 EXCEPT ![t] = c] /\ C!CallFits(t, c)
               /\ c.at = "idle" /\ c.todo = v9[t].todo
  BY <1>0, DropIs DEF C!Advance
<1>2. UNCHANGED <<v1, v3, v4, v5, v6, v10, v16, v17, v18>>
  BY DEF C!Advance, C!market, C!counts, C!history
<1>3. PICK p \in C!Posts : p = v9[t].post BY <1>0
<1>4. PICK trim : trim = [status |-> "pending", side |-> v9[t].plan.leg, level |-> C!Post(p).level]
  OBVIOUS
<1>5. TrimsStay \/ (/\ v9[t].plan.leg \in C!Sides /\ v8[p] = NULL
                   /\ v8' = [v8 EXCEPT ![p] = trim])
  <2>1. CASE v9[t].plan.advance # <<>>
    <3>1. \E S : v8' = C!CancelTrims(S) BY <2>1 DEF C!Advance
    <3> QED BY <1>0, <3>1, CancelTrimsIs
  <2>2. CASE v9[t].plan.advance = <<>> /\ v8[p] # NULL
    BY <1>0, <1>3, <2>2, TrimsSame DEF C!Advance
  <2>3. CASE v9[t].plan.advance = <<>> /\ v8[p] = NULL
    BY <1>0, <1>3, <1>4, <2>3, CallIs DEF C!Advance
  <2> QED BY <2>1, <2>2, <2>3
<1>6. c.at \notin C!Working \cup C!Early \cup {"advance", "send"} BY <1>1 DEF C!Working, C!Early
<1>7. CASE TrimsStay
  <2>1. t \in C!Senders /\ v9[t].at \in {"send", "record"} => v9[t].post \in v6' BY <1>0
  <2> QED BY <1>0, <1>1, <1>2, <1>6, <1>7, <2>1, QuietKept
<1>8. CASE v9[t].plan.leg \in C!Sides /\ v8[p] = NULL /\ v8' = [v8 EXCEPT ![p] = trim]
  <2>1. trim \in C!Trims /\ trim # NULL /\ trim.level # 0
    <3>1. C!Post(p) \in Sayings BY <1>0, <1>3, ChannelFields, ElementOfSeq DEF C!Post, C!Posts
    <3>2. C!Post(p).level \in 1..3 \cup {NULL} BY <3>1 DEF Sayings
    <3>3. trim \in C!Trims BY <1>4, <1>8, <3>2 DEF C!Trims
    <3> QED BY <1>4, <3>2, <3>3, NullIs
  <2>2. v8' \in [C!Posts -> TrimsOrNull] BY <1>8, <2>1, ChannelFields, <1>0 DEF TrimsOrNull
  <2>3. /\ v8'[p] = trim /\ \A q \in C!Posts \ {p} : v8'[q] = v8[q]
        /\ C!Posts' = C!Posts
    BY <1>0, <1>2, <1>8, ChannelFields DEF C!Posts
  <2>4. \A q \in C!Posts \ {p} : C!Parked(q)' <=> C!Parked(q) BY <2>3 DEF C!Parked
  <2>5. C!Parked(p)' /\ ~C!Parked(p) BY <1>8, <2>1, <2>3 DEF C!Parked
  <2>6. \A q \in C!Posts : C!Parked(q) => C!Parked(q)' BY <2>4, <2>5
  <2>7. C!ParkedFits' BY <1>0, <1>2, <1>3, <2>3, <2>4, <2>5, <2>6 DEF C!ParkedFits
  <2>8. C!Excused => C!Excused' BY <1>2, <2>6, ExcusedStays
  <2>9. ASSUME C!FiredOnce PROVE C!FiredOnce'
    <3>1. v16 = {} => \A s \in C!Sides : <<p, C!Step("trim", s)>> \notin v17
      BY <1>8, <2>9 DEF C!FiredOnce
    <3>2. \A q \in C!Posts \ {p} : v8'[q] = v8[q] /\ (C!Parked(q)' <=> C!Parked(q)) BY <2>3, <2>4
    <3> QED BY <1>2, <2>3, <2>9, <3>1, <3>2 DEF C!FiredOnce
  <2>10. C!Excused \/ C!FiredOnce' BY <2>9 DEF C!ChannelInv
  <2>11. t \in C!Senders /\ v9[t].at \in {"send", "record"} => v9[t].post \in v6' BY <1>0
  <2>12. v5' \subseteq 1..v3 /\ v6' \subseteq v5' BY <1>0, <1>2
  <2> QED BY <1>1, <1>2, <1>6, <2>2, <2>7, <2>8, <2>10, <2>11, <2>12, MovedKept
<1> QED BY <1>5, <1>7, <1>8

\* The first step of a plan goes out; what is left of the plan does not repeat it.
LEMMA ActKept ==
  ASSUME C!ChannelInv, NEW t \in C!Judges, v9[t].at = "send", NEW c, v9' = [v9 EXCEPT ![t] = c],
         C!CallFits(t, c), c.post = v9[t].post, c.todo = v9[t].todo, c.at \in {"send", "record"},
         UNCHANGED <<v1, v3, v4, v5, v6, v10>>, v16 \subseteq v16',
         NEW step, step = v9[t].plan.steps[1], v17' = v17 \cup {<<v9[t].post, step>>},
         v18' => v18 \/ <<v9[t].post, step>> \in v17,
         c.at = "send" => c.plan.steps = Tail(v9[t].plan.steps),
         v8' \in [C!Posts -> TrimsOrNull], C!ParkedFits', C!Excused => C!Excused',
         C!Excused' \/ C!FiredOnce'
  PROVE  C!ChannelInv'
<1>0. /\ C!ChannelTypes /\ C!OnePerPost /\ C!Unjudged /\ v9[t].at \in C!Working
      /\ v9[t].at \notin C!Early /\ c.at \in C!Working /\ c.at \notin C!Early
  BY DEF C!ChannelInv, C!Working, C!Early
<1>1. /\ v9[t].post \in v5 \ v6 /\ v5 \subseteq 1..v3 /\ v6 \subseteq v5 /\ t \in C!Senders
      /\ v9[t].plan.steps \in Seq(C!Steps) /\ C!Distinct(v9[t].plan.steps)
      /\ v9[t].plan.steps # <<>> /\ v4 \subseteq 1..v3 /\ DOMAIN v10 = DOMAIN C!Rest
      /\ v17 \subseteq v5 \X C!Steps
  <2>1. C!PlanFits(v9[t].plan) BY <1>0, CallIs DEF C!Working
  <2>2. v9[t].post \in v5 \ v6 /\ v5 \subseteq 1..v3 BY <1>0, InHandIs
  <2>3. t \in C!Senders /\ v9[t].plan.steps # <<>> BY <1>0, CallIs
  <2>4. v6 \subseteq v5 /\ v4 \subseteq 1..v3 /\ DOMAIN v10 = DOMAIN C!Rest /\ v17 \subseteq v5 \X C!Steps
    BY <1>0, ChannelFields
  <2> QED BY <2>1, <2>2, <2>3, <2>4 DEF C!PlanFits
<1>2. step \in C!Steps
  <2>1. 1 \in DOMAIN v9[t].plan.steps BY <1>1
  <2> QED BY <1>1, <2>1
<1>3. /\ v9'[t] = c /\ \A u \in C!Judges \ {t} : v9'[u] = v9[u]
  BY <1>0, ChannelFields
<1>4. C!ChannelTypes' /\ C!OnePerPost' /\ C!Unjudged'
  <2>1. v17' \subseteq v5' \X C!Steps BY <1>1, <1>2
  <2>2. \A u \in C!Judges \ {t} : c.at # "idle" /\ v9[u].at # "idle" => v9[u].post # c.post
    BY <1>0 DEF C!OnePerPost
  <2>3. c.at # "advance" /\ c.post \in v5' \ v6' /\ DOMAIN v10' = DOMAIN C!Rest /\ v4' \subseteq 1..v3
        /\ v5 \subseteq v5' /\ v5' \subseteq 1..v3 /\ v6 \subseteq v6' /\ v6' \subseteq v5'
    BY <1>1
  <2>4. \A p \in v6' \ v6 : v9[t].at # "idle" /\ p = v9[t].post OBVIOUS
  <2> QED BY <1>0, <2>1, <2>2, <2>3, <2>4, FlightKept
<1>5. CASE C!Excused' BY <1>4, <1>5 DEF C!ChannelInv
<1>6. CASE ~C!Excused'
  <2>0. C!Untouched /\ C!Ahead /\ C!Waiting /\ ~v18 /\ C!FiredOnce'
    BY <1>6 DEF C!ChannelInv
  <2>1. \A u \in C!Judges \ {t} : v9[u].at # "idle" => v9[u].post # v9[t].post
    BY <1>0 DEF C!OnePerPost
  <2>2. \A p, a : <<p, a>> \in v17' => <<p, a>> \in v17 \/ p = v9[t].post OBVIOUS
  <2>3. C!Untouched'
    <3> SUFFICES ASSUME NEW u \in C!Senders, v9'[u].at \in C!Early,
                        NEW a \in C!Steps, <<v9'[u].post, a>> \in v17'
                 PROVE  v9'[u].post \in v6'
      BY DEF C!Untouched, C!Acted
    <3>1. u \in C!Judges /\ u # t BY <1>0, <1>3, ChannelFields
    <3>2. v9'[u] = v9[u] /\ v9[u].at # "idle" BY <1>3, <3>1 DEF C!Early
    <3>3. C!Acted(v9[u].post) BY <2>1, <2>2, <3>1, <3>2 DEF C!Acted
    <3> QED BY <2>0, <3>2, <3>3 DEF C!Untouched
  <2>4. C!Ahead'
    <3> SUFFICES ASSUME NEW u \in C!Judges, v9'[u].at = "send",
                        NEW i \in DOMAIN v9'[u].plan.steps
                 PROVE  <<v9'[u].post, v9'[u].plan.steps[i]>> \notin v17'
      BY DEF C!Ahead
    <3>1. CASE u = t
      <4>1. v9'[u] = c /\ c.plan.steps = Tail(v9[t].plan.steps) BY <1>3, <3>1
      <4>2. /\ i + 1 \in DOMAIN v9[t].plan.steps /\ i + 1 # 1 /\ 1 \in DOMAIN v9[t].plan.steps
            /\ c.plan.steps[i] = v9[t].plan.steps[i + 1]
        <5>1. PICK n \in Nat : n = Len(v9[t].plan.steps) /\ n # 0 BY <1>1
        <5>2. DOMAIN Tail(v9[t].plan.steps) = 1..(n - 1) /\ DOMAIN v9[t].plan.steps = 1..n
          BY <1>1, <5>1
        <5>3. i \in 1..(n - 1) BY <4>1, <5>2
        <5>4. Tail(v9[t].plan.steps)[i] = v9[t].plan.steps[i + 1] BY <1>1, <5>1, <5>3
        <5> QED BY <4>1, <5>1, <5>2, <5>3, <5>4
      <4>3. v9[t].plan.steps[i + 1] # step BY <1>1, <4>2 DEF C!Distinct
      <4>4. <<v9[t].post, v9[t].plan.steps[i + 1]>> \notin v17 BY <2>0, <4>2 DEF C!Ahead
      <4>5. PICK rest : rest = c.plan.steps[i] OBVIOUS
      <4>6. rest # step /\ <<v9[t].post, rest>> \notin v17 BY <4>2, <4>3, <4>4, <4>5
      <4>7. <<v9[t].post, rest>> \notin v17' BY <4>6
      <4> QED BY <4>1, <4>5, <4>7
    <3>2. CASE u # t
      <4>1. v9'[u] = v9[u] BY <1>3, <3>2
      <4>2. v9[u].post # v9[t].post BY <2>1, <3>2, <4>1
      <4>3. <<v9[u].post, v9[u].plan.steps[i]>> \notin v17 BY <2>0, <4>1 DEF C!Ahead
      <4> QED BY <4>1, <4>2, <4>3
    <3> QED BY <3>1, <3>2
  <2>5. C!Waiting'
    <3> SUFFICES ASSUME NEW p \in v4' \cup v9'["catchup"].todo,
                        NEW a \in C!Steps, <<p, a>> \in v17', p \notin v6'
                 PROVE  C!Held(p)'
      BY DEF C!Waiting, C!Acted
    <3>1. CASE p = v9[t].post BY <1>1, <1>3, <3>1 DEF C!Held
    <3>2. CASE p # v9[t].post
      <4>1. C!Acted(p) BY <2>2, <3>2 DEF C!Acted
      <4>2. p \in v4 \cup v9["catchup"].todo
        <5>1. "catchup" \in C!Judges BY DEF C!Judges
        <5> QED BY <1>3, <5>1
      <4>3. C!Held(p) BY <2>0, <4>1, <4>2 DEF C!Waiting
      <4>4. PICK u \in C!Senders : v9[u].at \in {"send", "record"} /\ v9[u].post = p
        BY <4>3 DEF C!Held
      <4>5. u \in C!Judges /\ u # t BY <1>0, <3>2, <4>4, ChannelFields
      <4>6. v9'[u].at \in {"send", "record"} /\ v9'[u].post = p BY <1>3, <4>4, <4>5
      <4> QED BY <4>6 DEF C!Held
    <3> QED BY <3>1, <3>2
  <2>6. ~v18'
    <3>1. 1 \in DOMAIN v9[t].plan.steps BY <1>1
    <3>2. <<v9[t].post, step>> \notin v17 BY <2>0, <3>1 DEF C!Ahead
    <3> QED BY <2>0, <3>2
  <2> QED BY <1>4, <2>0, <2>3, <2>4, <2>5, <2>6 DEF C!ChannelInv
<1> QED BY <1>5, <1>6

\* What an order leaves behind.
LEMMA AdmitIs ==
  ASSUME NEW p, NEW step, NEW size, C!Admit(p, step, size)
  PROVE  v17' = v17 \cup {<<p, step>>} /\ (v18' => v18 \/ <<p, step>> \in v17)
<1>1. v17' = v17 \cup {<<p, step>>} BY DEF C!Admit
<1>2. v18' = (v18 \/ <<p, step>> \in v17) BY Zenon DEF C!Admit
<1>3. v18' => v18 \/ <<p, step>> \in v17 BY <1>2, Zenon
<1> QED BY <1>1, <1>3

\* A trim that went out at once is on record as fired, and is not a parked one.
LEMMA SentKept ==
  ASSUME C!ChannelInv, NEW t \in C!Judges, v9[t].at = "send", NEW step \in C!Steps,
         UNCHANGED <<v1, v6, v10>>, v16 = v16', v17' = v17 \cup {<<v9[t].post, step>>},
         NEW p \in C!Posts, p = v9[t].post,
         \/ step.kind # "trim" /\ v8' = v8
         \/ v8[p] # NULL /\ v8' = v8
         \/ v8[p] = NULL /\ v8' = [v8 EXCEPT ![p] = [status |-> "fired", side |-> step.side, level |-> 0]]
  PROVE  /\ v8' \in [C!Posts -> TrimsOrNull] /\ C!ParkedFits' /\ (C!Excused => C!Excused')
         /\ C!Excused \/ C!FiredOnce'
<1>0. /\ C!ChannelTypes /\ C!ParkedFits /\ v8 \in [C!Posts -> TrimsOrNull] /\ p \notin v6
      /\ C!Posts' = C!Posts
  BY InHandIs, ChannelFields DEF C!ChannelInv, C!Working, C!Posts
<1>1. PICK trim : trim = [status |-> "fired", side |-> step.side, level |-> 0] OBVIOUS
<1>2. trim \in C!Trims /\ trim # NULL /\ trim.level = 0 /\ trim.status # "pending"
  BY <1>1, NullIs DEF C!Steps, C!Trims
<1>3. ~C!Parked(p) BY <1>0 DEF C!ParkedFits
<1>4. /\ v8' \in [C!Posts -> TrimsOrNull] /\ \A q \in C!Posts \ {p} : v8'[q] = v8[q]
      /\ v8'[p] = v8[p] \/ v8'[p] = trim
      /\ step.kind = "trim" => v8'[p] # NULL
  BY <1>0, <1>1, <1>2 DEF TrimsOrNull
<1>5. \A q \in C!Posts : C!Parked(q)' <=> C!Parked(q)
  BY <1>2, <1>3, <1>4 DEF C!Parked
<1>6. \A q \in C!Posts : v8'[q] # NULL /\ v8'[q].status = "pending" => v8'[q] = v8[q]
  BY <1>2, <1>4
<1>7. C!ParkedFits' BY <1>0, <1>5, <1>6 DEF C!ParkedFits
<1>8. C!Excused => C!Excused' BY <1>5, ExcusedStays
<1>9. ASSUME C!FiredOnce PROVE C!FiredOnce'
  <2> SUFFICES ASSUME v16 = {}, NEW q \in C!Posts, NEW s \in C!Sides,
                      <<q, C!Step("trim", s)>> \in v17'
               PROVE  /\ v8'[q] # NULL
                      /\ C!Parked(q)' =>
                           /\ v10.at \in {"trims", "fire", "resolve"} => q \notin v10.todo
                           /\ ~(v10.at = "fire" /\ v10.post = q)
                           /\ v8'[q].status = "pending" => v10.at = "resolve" /\ v10.post = q
    BY <1>0 DEF C!FiredOnce
  <2>1. CASE <<q, C!Step("trim", s)>> \in v17
    <3>1. v8[q] # NULL BY <1>9, <2>1 DEF C!FiredOnce
    <3>2. v8'[q] # NULL BY <1>2, <1>4, <3>1
    <3>3. ASSUME C!Parked(q)'
          PROVE  /\ v10.at \in {"trims", "fire", "resolve"} => q \notin v10.todo
                 /\ ~(v10.at = "fire" /\ v10.post = q)
                 /\ v8'[q].status = "pending" => v10.at = "resolve" /\ v10.post = q
      <4>1. C!Parked(q) /\ v8'[q] = v8[q] BY <1>3, <1>4, <1>5, <3>3
      <4> QED BY <1>9, <2>1, <4>1 DEF C!FiredOnce
    <3> QED BY <3>2, <3>3
  <2>2. CASE <<q, C!Step("trim", s)>> \notin v17
    <3>1. q = p /\ step = C!Step("trim", s) BY <2>2
    <3>2. v8'[q] # NULL BY <1>4, <3>1 DEF C!Step
    <3> QED BY <1>3, <1>5, <3>1, <3>2
  <2> QED BY <2>1, <2>2
<1>10. C!Excused \/ C!FiredOnce' BY <1>9 DEF C!ChannelInv
<1> QED BY <1>4, <1>7, <1>8, <1>10

LEMMA PostIs ==
  ASSUME C!ChannelInv, NEW t \in C!Judges, v9[t].at = "send"
  PROVE  /\ C!ChannelTypes /\ v9[t].post \in C!Posts /\ t \in C!Senders
         /\ v9[t].plan.steps \in Seq(C!Steps) /\ v9[t].plan.steps # <<>>
         /\ v9[t].plan.steps[1] \in C!Steps /\ C!PlanFits(v9[t].plan)
<1>1. C!ChannelTypes /\ C!PlanFits(v9[t].plan) BY CallIs DEF C!ChannelInv, C!Working
<1>2. v9[t].post \in C!Posts /\ t \in C!Senders /\ v9[t].plan.steps # <<>>
  BY <1>1, CallIs, ChannelFields
<1>3. v9[t].plan.steps \in Seq(C!Steps) BY <1>1 DEF C!PlanFits
<1>4. 1 \in DOMAIN v9[t].plan.steps BY <1>2, <1>3
<1> QED BY <1>1, <1>2, <1>3, <1>4

LEMMA SendKept == ASSUME C!ChannelInv, NEW t \in C!Judges, C!Send(t) PROVE C!ChannelInv'
<1>0. /\ v9[t].at = "send" /\ UNCHANGED <<v1, v3, v4, v5, v6, v10, v16>>
      /\ C!Admit(v9[t].post, v9[t].plan.steps[1], v9[t].size)
  BY DEF C!Send, C!counts
<1>1. /\ C!ChannelTypes /\ t \in C!Senders
      /\ v9[t].plan.steps \in Seq(C!Steps) /\ v9[t].plan.steps # <<>> /\ C!PlanFits(v9[t].plan)
  BY <1>0, PostIs
<1>2. PICK p \in C!Posts, step \in C!Steps : p = v9[t].post /\ step = v9[t].plan.steps[1]
  BY <1>0, PostIs
<1>3. v17' = v17 \cup {<<v9[t].post, step>>} /\ (v18' => v18 \/ <<v9[t].post, step>> \in v17)
  BY <1>0, <1>2, AdmitIs
<1>4. CASE Len(v9[t].plan.steps) = 1
  <2>1. PICK c : c = [v9[t] EXCEPT !.at = "record"] OBVIOUS
  <2>2. /\ DOMAIN c = {"at", "post", "todo", "plan", "size", "stop"} /\ c.at = "record"
        /\ c.post = v9[t].post /\ c.todo = v9[t].todo /\ c.plan = v9[t].plan
    BY <1>1, <2>1, CallIs
  <2>3. v9' = [v9 EXCEPT ![t] = c] BY <1>4, <2>1 DEF C!Send, C!Go, C!Set
  <2>4. C!CallFits(t, c)
    <3>1. c.at \in C!Working \ {"judge"} /\ c.at # "send" /\ v9[t].at # "idle"
      BY <1>0, <2>2 DEF C!Working
    <3>2. C!PlanFits(c.plan) BY <1>1, <2>2
    <3> QED BY <1>1, <2>2, <3>1, <3>2, StageFits
  <2>5. \/ step.kind # "trim" /\ v8' = v8
        \/ v8[p] # NULL /\ v8' = v8
        \/ v8[p] = NULL /\ v8' = [v8 EXCEPT ![p] = [status |-> "fired", side |-> step.side, level |-> 0]]
    BY <1>2, <1>4 DEF C!Send, C!Sent
  <2>6. /\ v8' \in [C!Posts -> TrimsOrNull] /\ C!ParkedFits' /\ (C!Excused => C!Excused')
        /\ C!Excused \/ C!FiredOnce'
    BY <1>0, <1>2, <1>3, <2>5, SentKept
  <2>7. c.at # "send" /\ c.at \in {"send", "record"} BY <2>2
  <2> QED BY <1>0, <1>2, <1>3, <2>2, <2>3, <2>4, <2>6, <2>7, ActKept
<1>5. CASE Len(v9[t].plan.steps) # 1
  <2>0. Len(v9[t].plan.steps) > 1 /\ Len(v9[t].plan.steps) \in Nat
    <3>1. PICK n \in Nat \ {0} : n = Len(v9[t].plan.steps) BY <1>1, TailIs
    <3>2. \A m \in Nat \ {0} : m # 1 => m > 1 OBVIOUS
    <3>3. n # 1 BY <1>5, <3>1
    <3>4. n > 1 BY <3>2, <3>3
    <3> QED BY <3>1, <3>4
  <2>1. PICK c : c = [v9[t] EXCEPT !.plan.steps = Tail(v9[t].plan.steps)] OBVIOUS
  <2>2. /\ DOMAIN c = {"at", "post", "todo", "plan", "size", "stop"} /\ c.at = "send"
        /\ c.post = v9[t].post /\ c.todo = v9[t].todo
        /\ c.plan = [v9[t].plan EXCEPT !.steps = Tail(v9[t].plan.steps)]
    BY <1>0, <1>1, <2>1, CallIs
  <2>3. v9' = [v9 EXCEPT ![t] = c] /\ v8' = v8 BY <1>5, <2>1 DEF C!Send, C!Set
  <2>4. /\ Tail(v9[t].plan.steps) \in Seq(C!Steps) /\ Tail(v9[t].plan.steps) # <<>>
        /\ DOMAIN Tail(v9[t].plan.steps) = 1..(Len(v9[t].plan.steps) - 1)
        /\ DOMAIN v9[t].plan.steps = 1..Len(v9[t].plan.steps)
        /\ \A i \in DOMAIN Tail(v9[t].plan.steps) :
             Tail(v9[t].plan.steps)[i] = v9[t].plan.steps[i + 1]
    <3>1. PICK s \in Seq(C!Steps) : s = v9[t].plan.steps BY <1>1
    <3>2. s # <<>> /\ Len(s) > 1 BY <1>1, <2>0, <3>1
    <3>3. /\ Tail(s) \in Seq(C!Steps) /\ Len(Tail(s)) = Len(s) - 1 /\ Len(s) \in Nat
          /\ \A i \in DOMAIN Tail(s) : i + 1 \in DOMAIN s /\ Tail(s)[i] = s[i + 1]
      BY <3>2, TailIs
    <3>4. DOMAIN Tail(s) = 1..(Len(s) - 1) /\ DOMAIN s = 1..Len(s)
      <4>1. DOMAIN s = 1..Len(s) OBVIOUS
      <4>2. DOMAIN Tail(s) = 1..Len(Tail(s)) BY <3>3
      <4> QED BY <3>3, <4>1, <4>2
    <3>5. Tail(s) # <<>>
      <4>1. 1 \in DOMAIN Tail(s) BY <3>2, <3>3, <3>4
      <4> QED BY <4>1
    <3> QED BY <3>1, <3>3, <3>4, <3>5
  <2>5. C!Distinct(v9[t].plan.steps) BY <1>1 DEF C!PlanFits
  <2>6. step.kind # "trim"
    <3>1. 1 \in DOMAIN v9[t].plan.steps /\ 2 \in DOMAIN v9[t].plan.steps BY <2>0, <2>4
    <3> QED BY <1>2, <2>5, <3>1 DEF C!Distinct
  <2>7. C!Distinct(Tail(v9[t].plan.steps))
    <3> SUFFICES ASSUME NEW i \in DOMAIN Tail(v9[t].plan.steps),
                        NEW j \in DOMAIN Tail(v9[t].plan.steps), i # j
                 PROVE  /\ Tail(v9[t].plan.steps)[i] # Tail(v9[t].plan.steps)[j]
                        /\ Tail(v9[t].plan.steps)[i].kind # "trim"
      BY DEF C!Distinct
    <3>1. /\ i + 1 \in DOMAIN v9[t].plan.steps /\ j + 1 \in DOMAIN v9[t].plan.steps
          /\ i + 1 # j + 1
      BY <2>0, <2>4
    <3> QED BY <2>4, <2>5, <3>1 DEF C!Distinct
  <2>8. C!PlanFits(c.plan) /\ c.plan.steps = Tail(v9[t].plan.steps)
    BY <1>1, <2>2, <2>4, <2>7 DEF C!PlanFits, C!Nothing, C!Plan
  <2>9. C!CallFits(t, c) BY <1>0, <1>1, <2>2, <2>4, <2>8, StageFits DEF C!Working
  <2>10. /\ v8' \in [C!Posts -> TrimsOrNull] /\ C!ParkedFits' /\ (C!Excused => C!Excused')
         /\ C!Excused \/ C!FiredOnce'
    BY <1>0, <1>2, <1>3, <2>3, <2>6, SentKept
  <2> QED BY <1>0, <1>2, <1>3, <2>2, <2>3, <2>8, <2>9, <2>10, ActKept
<1> QED BY <1>4, <1>5

LEMMA AnswerLostKept == ASSUME C!ChannelInv, NEW t \in C!Judges, C!AnswerLost(t) PROVE C!ChannelInv'
<1>0. /\ v9[t].at = "send" /\ UNCHANGED <<v1, v3, v4, v5, v6, v8, v10>>
      /\ C!Admit(v9[t].post, v9[t].plan.steps[1], v9[t].size)
      /\ v16' = v16 \cup {"lost"} /\ C!Abandon(t)
  BY DEF C!AnswerLost, C!Slip, C!stored
<1>1. C!ChannelTypes /\ C!ParkedFits BY DEF C!ChannelInv
<1>2. PICK step \in C!Steps : step = v9[t].plan.steps[1] BY <1>0, PostIs
<1>3. v17' = v17 \cup {<<v9[t].post, step>>} /\ (v18' => v18 \/ <<v9[t].post, step>> \in v17)
  BY <1>0, <1>2, AdmitIs
<1>4. PICK c : c = [v9[t] EXCEPT !.at = "record", !.plan = C!Nothing] OBVIOUS
<1>5. /\ DOMAIN c = {"at", "post", "todo", "plan", "size", "stop"} /\ c.at = "record"
      /\ c.post = v9[t].post /\ c.todo = v9[t].todo /\ c.plan = C!Nothing
  BY <1>1, <1>4, CallIs
<1>6. v9' = [v9 EXCEPT ![t] = c] BY <1>0, <1>4 DEF C!Abandon, C!Set
<1>7. C!CallFits(t, c) BY <1>0, <1>1, <1>5, NothingFits, StageFits DEF C!Working
<1>8. TrimsStay BY <1>0, <1>1, TrimsSame
<1>9. v8' \in [C!Posts -> TrimsOrNull] /\ C!ParkedFits' BY <1>0, <1>1, <1>8, ParkedKept DEF TrimsStay
<1>10. C!Excused => C!Excused' BY <1>0, <1>1, <1>8, TrimsStayIs, ExcusedStays
<1>11. C!FiredOnce' BY <1>0 DEF C!FiredOnce
<1>12. c.at # "send" /\ c.at \in {"send", "record"} /\ v16 \subseteq v16' BY <1>0, <1>5
<1> QED BY <1>0, <1>2, <1>3, <1>5, <1>6, <1>7, <1>9, <1>10, <1>11, <1>12, ActKept

-------------------------------------------------------------------------------
(* Who calls a judge.                                                      *)

\* A post somebody has in hand is dropped by the next one who comes to it.
LEMMA ClaimKept ==
  ASSUME C!ChannelInv, NEW t \in C!Judges, v9[t].at = "idle", NEW p \in 1..v3, C!Claim(t, p),
         p \in v4 \/ p \in v9[t].todo, v4' \subseteq v4,
         t = "live" => p \in v4,
         UNCHANGED <<v1, v3, v5, v6, v8, v10, v16, v17, v18>>
  PROVE  C!ChannelInv'
<1>0. C!ChannelTypes /\ v5 \subseteq 1..v3 /\ v6 \subseteq v5 BY ChannelFields DEF C!ChannelInv
<1>1. PICK taken \in BOOLEAN : taken <=> \E u \in C!Judges : v9[u].at # "idle" /\ v9[u].post = p
  OBVIOUS
<1>2. PICK c : c = [C!Idle EXCEPT !.at = IF taken THEN "idle" ELSE "look",
                                  !.post = IF taken THEN 0 ELSE p, !.todo = v9[t].todo \ {p}]
  OBVIOUS
<1>3. v9' = [v9 EXCEPT ![t] = c] BY <1>1, <1>2 DEF C!Claim, C!Set
<1>4. /\ DOMAIN c = DOMAIN C!Idle /\ c.todo = v9[t].todo \ {p}
      /\ taken => c.at = "idle"
      /\ ~taken => c.at = "look" /\ c.post = p
  BY <1>1, <1>2 DEF C!Idle
<1>5. c.at \notin C!Working /\ c.at # "advance" /\ c.at # "send"
  BY <1>1, <1>4 DEF C!Working
<1>6. C!CallFits(t, c) BY <1>0, <1>1, <1>4, <1>5, CallIs DEF C!CallFits
<1>7. \A u \in C!Judges \ {t} : c.at # "idle" /\ v9[u].at # "idle" => v9[u].post # c.post
  BY <1>1, <1>4
<1>8. C!Excused \/ (t \in C!Senders /\ c.at \in C!Early /\ C!Acted(c.post) => c.post \in v6')
  <2> SUFFICES ASSUME ~C!Excused, t \in C!Senders, c.at \in C!Early, C!Acted(c.post)
               PROVE  c.post \in v6
    OBVIOUS
  <2>1. ~taken /\ c.post = p BY <1>1, <1>4 DEF C!Early
  <2>2. p \in v4 \cup v9["catchup"].todo
    <3>1. t = "live" \/ t = "catchup" BY DEF C!Senders
    <3> QED BY <3>1
  <2>3. p \in v6 \/ C!Held(p) BY <2>1, <2>2 DEF C!ChannelInv, C!Waiting
  <2>4. ~C!Held(p) BY <1>0, <1>1, <2>1, ChannelFields DEF C!Held
  <2> QED BY <2>1, <2>3, <2>4
<1>9. TrimsStay BY <1>0, TrimsSame
<1>10. v5' \subseteq 1..v3 /\ v6' \subseteq v5' /\ c.todo \subseteq v9[t].todo BY <1>0, <1>4
<1> QED BY <1>3, <1>5, <1>6, <1>7, <1>8, <1>9, <1>10, QuietKept

LEMMA FlushKept == ASSUME C!ChannelInv, C!Flush PROVE C!ChannelInv'
<1>1. PICK p \in v4 : v4' = v4 \ {p} /\ C!Claim("live", p) BY DEF C!Flush
<1>2. p \in 1..v3 /\ "live" \in C!Judges BY ChannelFields DEF C!ChannelInv, C!Judges
<1>3. /\ v9["live"].at = "idle" /\ v4' \subseteq v4
      /\ UNCHANGED <<v1, v3, v5, v6, v8, v10, v16, v17, v18>>
  BY <1>1 DEF C!Flush, C!stored, C!market, C!counts, C!history
<1> QED BY <1>1, <1>2, <1>3, ClaimKept

LEMMA NextOfKept ==
  ASSUME C!ChannelInv, NEW t \in {"catchup", "backfill"}, C!NextOf(t) PROVE C!ChannelInv'
<1>0. C!ChannelTypes /\ t \in C!Judges /\ t # "live" BY DEF C!ChannelInv, C!Judges
<1>1. v9[t].todo \subseteq 1..v3 /\ v9[t].todo \in SUBSET Nat /\ v9[t].todo # {}
  BY <1>0, CallIs, ChannelFields DEF C!NextOf
<1>2. PICK p : p = CHOOSE r \in v9[t].todo : \A q \in v9[t].todo : r <= q OBVIOUS
<1>3. p \in v9[t].todo BY <1>1, <1>2, LeastNumber
<1>4. /\ C!Claim(t, p) /\ v9[t].at = "idle"
      /\ UNCHANGED <<v1, v3, v4, v5, v6, v8, v10, v16, v17, v18>>
  BY <1>2 DEF C!NextOf, C!stored, C!market, C!counts, C!history
<1> QED BY <1>0, <1>1, <1>3, <1>4, ClaimKept

LEMMA NewestIs ==
  ASSUME NEW n \in Nat, v5 \subseteq 1..n, v5 # {}
  PROVE  C!Newest \in v5 /\ \A q \in v5 : q <= C!Newest
<1> DEFINE Left == {k \in 0..n : n - k \in v5}
<1>1. Left \in SUBSET Nat OBVIOUS
<1>2. Left # {}
  <2>1. PICK q \in v5 : q \in 1..n OBVIOUS
  <2>2. n - q \in 0..n /\ n - (n - q) = q BY <2>1
  <2> QED BY <2>1, <2>2
<1>3. PICK k \in Left : \A j \in Left : k <= j
  <2> HIDE DEF Left
  <2> QED BY <1>1, <1>2, LeastNumber
<1>4. n - k \in v5 /\ k \in 0..n BY <1>3
<1>5. ASSUME NEW q \in v5 PROVE q <= n - k
  <2>1. q \in 1..n /\ n - q \in 0..n /\ n - (n - q) = q OBVIOUS
  <2>2. n - q \in Left BY <2>1
  <2>3. k <= n - q BY <1>3, <2>2
  <2> QED BY <1>4, <2>1, <2>3
<1>6. \E p \in v5 : \A q \in v5 : q <= p BY <1>4, <1>5
<1> QED BY <1>6 DEF C!Newest

LEMMA CatchupKept == ASSUME C!ChannelInv, C!Catchup PROVE C!ChannelInv'
<1>0. /\ C!ChannelTypes /\ C!OnePerPost /\ C!Unjudged /\ C!ParkedFits /\ "catchup" \in C!Judges
      /\ "catchup" \in C!Senders /\ v3 \in Nat /\ v5 \subseteq 1..v3 /\ v6 \subseteq v5
      /\ v4 \subseteq 1..v3 /\ v17 \subseteq v5 \X C!Steps /\ DOMAIN v10 = DOMAIN C!Rest
      /\ v8 \in [C!Posts -> TrimsOrNull]
  BY ChannelFields DEF C!ChannelInv, C!Judges, C!Senders
<1>1. /\ v9["catchup"].at = "idle" /\ v5 # {}
      /\ UNCHANGED <<v1, v3, v4, v5, v6, v8, v10, v16, v17, v18>>
  BY DEF C!Catchup, C!stored, C!market, C!counts, C!history
<1>2. C!Newest \in v5 /\ \A q \in v5 : q <= C!Newest BY <1>0, <1>1, NewestIs
<1>3. PICK c : c = [C!Idle EXCEPT !.todo = (C!Newest + 1)..v3] OBVIOUS
<1>4. /\ v9' = [v9 EXCEPT !["catchup"] = c] /\ DOMAIN c = DOMAIN C!Idle
      /\ c.at = "idle" /\ c.todo = (C!Newest + 1)..v3
  BY <1>3 DEF C!Catchup, C!Set, C!Idle
<1>5. \A q \in c.todo : q \in 1..v3 /\ q \notin v5
  <2>1. C!Newest \in 1..v3 BY <1>0, <1>2
  <2> SUFFICES ASSUME NEW q \in (C!Newest + 1)..v3 PROVE q \in 1..v3 /\ q \notin v5 BY <1>4
  <2>2. q > C!Newest /\ q \in 1..v3 BY <1>0, <2>1
  <2>3. ~(q <= C!Newest) BY <2>1, <2>2
  <2> QED BY <1>2, <2>2, <2>3
<1>6. c.at \notin C!Working \cup {"look", "advance", "send"} BY <1>4 DEF C!Working
<1>7. C!CallFits("catchup", c) BY <1>4, <1>5, <1>6 DEF C!CallFits
<1>8. /\ v9'["catchup"] = c /\ \A u \in C!Judges \ {"catchup"} : v9'[u] = v9[u]
  BY <1>0, <1>4, ChannelFields
<1>9. C!ChannelTypes' /\ C!OnePerPost' /\ C!Unjudged'
  <2>1. \A u \in C!Judges \ {"catchup"} : c.at # "idle" /\ v9[u].at # "idle" => v9[u].post # c.post
    BY <1>4
  <2>2. /\ v5 \subseteq v5' /\ v5' \subseteq 1..v3 /\ v6 \subseteq v6' /\ v6' \subseteq v5' /\ v4' \subseteq 1..v3
        /\ v17' \subseteq v5' \X C!Steps /\ DOMAIN v10' = DOMAIN C!Rest
        /\ v8' \in [C!Posts -> TrimsOrNull] /\ v6' \ v6 = {}
    BY <1>0, <1>1
  <2>3. UNCHANGED <<v1, v3>> BY <1>1
  <2>4. c.at \notin C!Working /\ c.at # "advance" BY <1>6
  <2> QED BY <1>0, <1>4, <1>7, <2>1, <2>2, <2>3, <2>4, FlightKept
<1>10. TrimsStay BY <1>0, <1>1, TrimsSame
<1>11. C!ParkedFits' BY <1>0, <1>1, <1>10, ParkedKept
<1>12. CASE C!Excused
  <2>1. C!Excused' BY <1>0, <1>1, <1>10, <1>12, TrimsStayIs, ExcusedStays
  <2> QED BY <1>9, <1>11, <2>1 DEF C!ChannelInv
<1>13. CASE ~C!Excused
  <2>0. C!Untouched /\ C!Ahead /\ C!Waiting /\ C!FiredOnce /\ ~v18 BY <1>13 DEF C!ChannelInv
  <2>1. \A p : C!Acted(p)' <=> C!Acted(p) BY <1>1 DEF C!Acted
  <2>2. C!Untouched'
    <3>1. c.at \notin C!Early BY <1>4 DEF C!Early
    <3> SUFFICES ASSUME NEW u \in C!Senders, v9'[u].at \in C!Early, C!Acted(v9'[u].post)
                 PROVE  v9'[u].post \in v6
      BY <1>1, <2>1 DEF C!Untouched
    <3>2. u \in C!Judges BY <1>0, ChannelFields
    <3>3. v9'[u] = v9[u] BY <1>8, <3>1, <3>2
    <3> QED BY <2>0, <3>3 DEF C!Untouched
  <2>3. C!Ahead' BY <1>1, <1>6, <1>8, <2>0 DEF C!Ahead
  <2>4. C!Waiting'
    <3> SUFFICES ASSUME NEW p \in v4 \cup c.todo, C!Acted(p), p \notin v6 PROVE C!Held(p)'
      BY <1>1, <1>8, <2>1 DEF C!Waiting
    <3>1. p \in v5 BY <1>0 DEF C!Acted
    <3>2. p \in v4 BY <1>5, <3>1
    <3>3. C!Held(p) BY <2>0, <3>2 DEF C!Waiting
    <3>4. PICK u \in C!Senders : v9[u].at \in {"send", "record"} /\ v9[u].post = p
      BY <3>3 DEF C!Held
    <3>5. u \in C!Judges /\ u # "catchup" BY <1>0, <1>1, <3>4, ChannelFields
    <3>6. v9'[u] = v9[u] BY <1>8, <3>5
    <3> QED BY <3>4, <3>6 DEF C!Held
  <2>5. C!FiredOnce' BY <1>0, <1>1, <1>10, <2>0, FiredOnceKept
  <2> QED BY <1>1, <1>9, <1>11, <2>0, <2>2, <2>3, <2>4, <2>5 DEF C!ChannelInv
<1> QED BY <1>12, <1>13

\* One more post, which nobody can have acted on yet.
LEMMA PostedKept ==
  ASSUME C!ChannelInv, v3' = v3 + 1, v3' \in 0..Len(v1.posts), v4' \subseteq v4 \cup {v3 + 1},
         v9' = v9 \/ v9' = [v9 EXCEPT !["live"] = C!Idle], v9' = v9 \/ "cut" \in v16',
         UNCHANGED <<v1, v5, v6, v8, v10, v17, v18>>, v16 \subseteq v16'
  PROVE  C!ChannelInv'
<1>0. /\ C!ChannelTypes /\ C!OnePerPost /\ C!Unjudged /\ C!ParkedFits
      /\ v3 \in Nat /\ v5 \subseteq 1..v3 /\ v6 \subseteq v5
      /\ v4 \subseteq 1..v3 /\ v17 \subseteq v5 \X C!Steps /\ DOMAIN v10 = DOMAIN C!Rest
      /\ v8 \in [C!Posts -> TrimsOrNull] /\ DOMAIN v9 = C!Judges
  BY ChannelFields DEF C!ChannelInv
<1>1. 1..v3 \subseteq 1..v3' /\ v3 + 1 \in 1..v3' /\ v3 + 1 \notin 1..v3 BY <1>0
<1>2. \A u \in C!Judges : v9'[u] = v9[u] \/ (u = "live" /\ v9'[u] = C!Idle)
  BY <1>0
<1>3. /\ DOMAIN C!Idle = DOMAIN C!Idle /\ C!Idle.at = "idle" /\ C!Idle.todo = {}
  BY DEF C!Idle
<1>4. \A u \in C!Judges : C!CallFits(u, v9[u])'
  <2> SUFFICES ASSUME NEW u \in C!Judges PROVE C!CallFits(u, v9[u])' OBVIOUS
  <2>1. C!CallFits(u, v9[u]) BY <1>0, ChannelFields
  <2>2. CASE v9'[u] = v9[u] BY <1>1, <2>1, <2>2 DEF C!CallFits
  <2>3. CASE v9'[u] = C!Idle BY <1>3, <2>3 DEF C!CallFits, C!Working
  <2> QED BY <1>2, <2>2, <2>3
<1>5. C!ChannelTypes'
  <2>1. v4' \subseteq 1..v3' /\ v5' \subseteq 1..v3' /\ v6' \subseteq v5' BY <1>0, <1>1
  <2>2. v9' = v9 \/ DOMAIN v9' = C!Judges BY <1>0
  <2>3. C!Posts' = C!Posts /\ v1 \in Stories BY <1>0, ChannelFields DEF C!Posts
  <2> QED BY <1>0, <1>4, <2>1, <2>2, <2>3 DEF C!ChannelTypes, TrimsOrNull
<1>6. C!OnePerPost' BY <1>0, <1>2, <1>3 DEF C!OnePerPost
<1>7. C!Unjudged' BY <1>0, <1>2, <1>3 DEF C!Unjudged, C!Working
<1>8. TrimsStay BY <1>0, TrimsSame
<1>9. C!ParkedFits' BY <1>0, <1>8, ParkedKept
<1>10. CASE C!Excused
  <2>1. C!Excused' BY <1>0, <1>8, <1>10, TrimsStayIs, ExcusedStays
  <2> QED BY <1>5, <1>6, <1>7, <1>9, <2>1 DEF C!ChannelInv
<1>11. CASE "cut" \in v16' BY <1>5, <1>6, <1>7, <1>9, <1>11 DEF C!ChannelInv, C!Excused
<1>12. CASE ~C!Excused /\ v9' = v9
  <2>0. C!Untouched /\ C!Ahead /\ C!Waiting /\ C!FiredOnce /\ ~v18 BY <1>12 DEF C!ChannelInv
  <2>1. \A p : C!Acted(p)' <=> C!Acted(p) BY DEF C!Acted
  <2>2. C!Untouched' BY <1>12, <2>0, <2>1 DEF C!Untouched
  <2>3. C!Ahead' BY <1>12, <2>0 DEF C!Ahead
  <2>4. C!Waiting'
    <3> SUFFICES ASSUME NEW p \in v4' \cup v9["catchup"].todo, C!Acted(p), p \notin v6
                 PROVE C!Held(p)'
      BY <1>12, <2>1 DEF C!Waiting
    <3>1. p # v3 + 1 BY <1>0, <1>1 DEF C!Acted
    <3>2. C!Held(p) BY <2>0, <3>1 DEF C!Waiting
    <3> QED BY <1>12, <3>2 DEF C!Held
  <2>5. C!FiredOnce' BY <1>0, <1>8, <2>0, FiredOnceKept
  <2> QED BY <1>5, <1>6, <1>7, <1>9, <2>0, <2>2, <2>3, <2>4, <2>5 DEF C!ChannelInv
<1> QED BY <1>10, <1>11, <1>12

LEMMA ArriveKept == ASSUME C!ChannelInv, C!Arrive \/ C!Missed PROVE C!ChannelInv'
<1>0. v3 \in Nat /\ Len(v1.posts) \in Nat BY ChannelFields DEF C!ChannelInv
<1>1. /\ v3' = v3 + 1 /\ v3 < Len(v1.posts)
      /\ UNCHANGED <<v1, v5, v6, v8, v10, v17, v18>>
  BY DEF C!Arrive, C!Missed, C!stored, C!tasks, C!market, C!history
<1>2. v3' \in 0..Len(v1.posts) BY <1>0, <1>1
<1>3. CASE C!Arrive
  <2>1. v4' = v4 \cup {v3 + 1} BY <1>3 DEF C!Arrive
  <2>2. \/ v9' = v9 /\ v16' = v16
        \/ v9' = [v9 EXCEPT !["live"] = C!Idle] /\ v16' = v16 \cup {"cut"}
    BY <1>3 DEF C!Arrive, C!Slip
  <2> QED BY <1>1, <1>2, <2>1, <2>2, PostedKept
<1>4. CASE C!Missed
  <2>1. v4' = v4 /\ v9' = v9 /\ v16' = v16 BY <1>4 DEF C!Missed, C!tasks
  <2> QED BY <1>1, <1>2, <2>1, PostedKept
<1> QED BY <1>3, <1>4

\* The process starts again: nobody holds a post, and the backfill sends nothing.
LEMMA RestartsKept == ASSUME C!ChannelInv, C!Restart PROVE C!ChannelInv'
<1>0. /\ C!ChannelTypes /\ C!ParkedFits /\ v1 \in Stories /\ v3 \in 0..Len(v1.posts)
      /\ v5 \subseteq 1..v3 /\ v6 \subseteq v5 /\ v17 \subseteq v5 \X C!Steps
  BY ChannelFields DEF C!ChannelInv
<1>1. /\ v4' = {} /\ v10' = C!Rest /\ v16' = v16 \cup {"died"}
      /\ v9' = [t \in C!Judges |-> IF t = "backfill" THEN [C!Idle EXCEPT !.todo = 1..v3] ELSE C!Idle]
      /\ UNCHANGED <<v1, v3, v5, v6, v17, v18>> /\ \E S : v8' = C!CancelTrims(S)
  BY DEF C!Restart, C!Slip, C!market, C!history
<1>2. TrimsStay BY <1>0, <1>1, CancelTrimsIs
<1>3. \A t \in C!Judges : /\ v9'[t].at = "idle" /\ DOMAIN v9'[t] = DOMAIN C!Idle
                          /\ v9'[t].todo \subseteq 1..v3 /\ (t # "backfill" => v9'[t].todo = {})
  BY <1>1 DEF C!Idle
<1>4. C!ChannelTypes'
  <2>1. \A t \in C!Judges : C!CallFits(t, v9[t])' BY <1>1, <1>3 DEF C!CallFits, C!Working
  <2>2. DOMAIN v9' = C!Judges /\ DOMAIN v10' = DOMAIN C!Rest /\ C!Posts' = C!Posts
    BY <1>1 DEF C!Posts
  <2> QED BY <1>0, <1>1, <1>2, <2>1, <2>2 DEF C!ChannelTypes, TrimsStay, TrimsOrNull
<1>5. C!OnePerPost' /\ C!Unjudged' BY <1>3 DEF C!OnePerPost, C!Unjudged, C!Working
<1>6. C!ParkedFits'
  <2>1. C!Posts' = C!Posts BY <1>1 DEF C!Posts
  <2>2. \A p \in C!Posts : C!Parked(p)' <=> C!Parked(p) BY <1>0, <1>1, <1>2, TrimsStayIs
  <2>3. \A p \in C!Posts : v8'[p] # NULL /\ v8'[p].status = "pending" => v8'[p] = v8[p]
    BY <1>0, <1>1, <1>2, TrimsStayIs
  <2>4. v10'.at = "legs" BY <1>1 DEF C!Rest
  <2> QED BY <1>0, <1>1, <2>1, <2>2, <2>3, <2>4 DEF C!ParkedFits
<1>7. CASE C!Excused
  <2>1. C!Excused' BY <1>0, <1>1, <1>2, <1>7, TrimsStayIs, ExcusedStays
  <2> QED BY <1>4, <1>5, <1>6, <2>1 DEF C!ChannelInv
<1>8. CASE ~C!Excused
  <2>1. ~v18' BY <1>1, <1>8 DEF C!ChannelInv
  <2>2. C!Untouched'
    <3>1. C!Senders \subseteq C!Judges BY DEF C!Senders, C!Judges
    <3> QED BY <1>3, <3>1 DEF C!Untouched, C!Early
  <2>3. C!Ahead' BY <1>3 DEF C!Ahead
  <2>4. C!Waiting'
    <3>1. "catchup" \in C!Judges /\ "catchup" # "backfill" BY DEF C!Judges
    <3> QED BY <1>1, <1>3, <3>1 DEF C!Waiting
  <2>5. C!FiredOnce' BY <1>1 DEF C!FiredOnce
  <2> QED BY <1>4, <1>5, <1>6, <2>1, <2>2, <2>3, <2>4, <2>5 DEF C!ChannelInv
<1> QED BY <1>7, <1>8

-------------------------------------------------------------------------------
(* The watcher.                                                            *)

LEMMA WatchKept ==
  ASSUME C!ChannelInv, UNCHANGED <<v1, v3, v4, v5, v6, v9>>, v16 \subseteq v16',
         DOMAIN v10' = DOMAIN C!Rest, TrimsStay, C!ParkedFits',
         \/ UNCHANGED <<v17, v18>>
         \/ \E p \in v6, a \in C!Steps :
              v17' = v17 \cup {<<p, a>>} /\ (C!Excused' \/ ~v18'),
         C!Excused' \/ C!FiredOnce'
  PROVE  C!ChannelInv'
<1>0. /\ C!ChannelTypes /\ C!OnePerPost /\ C!Unjudged /\ v6 \subseteq v5
      /\ v17 \subseteq v5 \X C!Steps /\ C!Posts' = C!Posts
  BY ChannelFields DEF C!ChannelInv, C!Posts
<1>1. v17' \subseteq v5 \X C!Steps /\ \A p, a : <<p, a>> \in v17' => <<p, a>> \in v17 \/ p \in v6
  BY <1>0
<1>2. C!ChannelTypes'
  <2>1. \A t \in C!Judges : C!CallFits(t, v9[t])' BY <1>0, ChannelFields DEF C!CallFits
  <2> QED BY <1>0, <1>1, <2>1 DEF C!ChannelTypes, TrimsStay, TrimsOrNull
<1>3. C!OnePerPost' /\ C!Unjudged' BY <1>0 DEF C!OnePerPost, C!Unjudged
<1>4. CASE C!Excused' BY <1>2, <1>3, <1>4 DEF C!ChannelInv
<1>5. CASE ~C!Excused'
  <2>1. ~C!Excused BY <1>0, <1>5, TrimsStayIs, ExcusedStays
  <2>2. C!Untouched /\ C!Ahead /\ C!Waiting /\ C!FiredOnce' /\ ~v18 BY <1>5, <2>1 DEF C!ChannelInv
  <2>3. \A p : p \notin v6 /\ C!Acted(p)' => C!Acted(p) BY <1>1 DEF C!Acted
  <2>4. C!Untouched'
    <3> SUFFICES ASSUME NEW u \in C!Senders, v9[u].at \in C!Early,
                        NEW a \in C!Steps, <<v9[u].post, a>> \in v17'
                 PROVE  v9[u].post \in v6
      BY DEF C!Untouched, C!Acted
    <3>1. <<v9[u].post, a>> \in v17 \/ v9[u].post \in v6 BY <1>1
    <3> QED BY <2>2, <3>1 DEF C!Untouched, C!Acted
  <2>5. C!Ahead'
    <3> SUFFICES ASSUME NEW u \in C!Judges, v9[u].at = "send", NEW i \in DOMAIN v9[u].plan.steps
                 PROVE  <<v9[u].post, v9[u].plan.steps[i]>> \notin v17'
      BY DEF C!Ahead
    <3>1. v9[u].post \notin v6 BY <1>0 DEF C!Unjudged, C!Working
    <3>2. <<v9[u].post, v9[u].plan.steps[i]>> \notin v17 BY <2>2 DEF C!Ahead
    <3> QED BY <1>1, <3>1, <3>2
  <2>6. C!Waiting' BY <2>2, <2>3 DEF C!Waiting, C!Held
  <2>7. ~v18' BY <1>5, <2>2
  <2> QED BY <1>2, <1>3, <2>2, <2>4, <2>5, <2>6, <2>7 DEF C!ChannelInv
<1> QED BY <1>4, <1>5

Trimming == {"trims", "fire", "resolve"}

\* Away from the parked trims there is nothing to fire.
LEMMA AwayFromTrims ==
  ASSUME C!ChannelInv, UNCHANGED <<v1, v6, v17>>, v16 \subseteq v16', TrimsStay,
         v10'.at \notin Trimming, v10.at # "resolve"
  PROVE  C!ParkedFits' /\ (C!Excused' \/ C!FiredOnce')
<1>0. C!ChannelTypes /\ C!ParkedFits /\ C!Posts' = C!Posts BY DEF C!ChannelInv, C!Posts
<1>1. \A p \in C!Posts : /\ C!Parked(p)' <=> C!Parked(p)
                         /\ v8'[p] # NULL <=> v8[p] # NULL
                         /\ v8'[p] # NULL /\ v8'[p].status = "pending" => v8'[p] = v8[p]
  BY <1>0, TrimsStayIs
<1>2. C!ParkedFits' BY <1>0, <1>1 DEF C!ParkedFits, Trimming
<1>3. C!Excused => C!Excused' BY <1>1, ExcusedStays
<1>4. ASSUME C!FiredOnce PROVE C!FiredOnce'
  <2> SUFFICES ASSUME v16 = {}, NEW q \in C!Posts, NEW s \in C!Sides,
                      <<q, C!Step("trim", s)>> \in v17, C!Parked(q)' \/ ~C!Parked(q)'
               PROVE  v8'[q] # NULL /\ (C!Parked(q)' => v8'[q].status # "pending")
    BY <1>0 DEF C!FiredOnce, Trimming
  <2> QED BY <1>1, <1>4 DEF C!FiredOnce
<1> QED BY <1>2, <1>3, <1>4 DEF C!ChannelInv

\* On with the trims that were parked at the beginning of the pass.
LEMMA OnWithTrims ==
  ASSUME C!ChannelInv, UNCHANGED <<v1, v6>>, v17' = v17 \/ C!Excused', v16 \subseteq v16', TrimsStay,
         v10.at \in Trimming, v10'.todo \subseteq v10.todo,
         \/ v10'.at = "trims"
         \/ v10.at = "trims" /\ v10'.at = "fire" /\ v10'.post \in v10.todo \ v10'.todo,
         v10.at = "resolve" => v8'[v10.post].status # "pending"
  PROVE  C!ParkedFits' /\ (C!Excused' \/ C!FiredOnce')
<1>0. C!ChannelTypes /\ C!ParkedFits /\ C!Posts' = C!Posts BY DEF C!ChannelInv, C!Posts
<1>1. \A p \in C!Posts : /\ C!Parked(p)' <=> C!Parked(p)
                         /\ v8'[p] # NULL <=> v8[p] # NULL
                         /\ v8'[p] # NULL /\ v8'[p].status = "pending" => v8'[p] = v8[p]
  BY <1>0, TrimsStayIs
<1>2. \A p \in v10.todo : p \in C!Posts /\ C!Parked(p) BY <1>0 DEF C!ParkedFits, Trimming
<1>3. C!ParkedFits' BY <1>0, <1>1, <1>2 DEF C!ParkedFits, Trimming
<1>4. C!Excused => C!Excused' BY <1>1, ExcusedStays
<1>5. ASSUME C!FiredOnce, v17' = v17 PROVE C!FiredOnce'
  <2> SUFFICES ASSUME v16 = {}, NEW q \in C!Posts, NEW s \in C!Sides,
                      <<q, C!Step("trim", s)>> \in v17
               PROVE  /\ v8'[q] # NULL
                      /\ C!Parked(q)' =>
                           /\ v10'.at \in Trimming => q \notin v10'.todo
                           /\ ~(v10'.at = "fire" /\ v10'.post = q)
                           /\ v8'[q].status = "pending" => v10'.at = "resolve" /\ v10'.post = q
    BY <1>0, <1>5 DEF C!FiredOnce, Trimming
  <2>1. v8[q] # NULL /\ v8'[q] # NULL BY <1>1, <1>5 DEF C!FiredOnce
  <2>2. ASSUME C!Parked(q)
        PROVE  /\ q \notin v10.todo
               /\ v8[q].status = "pending" => v10.at = "resolve" /\ v10.post = q
    BY <1>5, <2>2 DEF C!FiredOnce, Trimming
  <2>3. ASSUME C!Parked(q), v8'[q].status = "pending" PROVE FALSE
    BY <1>1, <2>1, <2>2, <2>3
  <2> QED BY <1>1, <2>1, <2>2, <2>3
<1> QED BY <1>3, <1>4, <1>5 DEF C!ChannelInv

LEMMA ResolveIs ==
  ASSUME C!ChannelTypes, NEW p \in C!Posts, v8[p] # NULL,
         NEW s \in {"fired", "cancelled", "expired"},
         \/ v8[p].status # "pending" /\ v8' = v8
         \/ v8' = [v8 EXCEPT ![p].status = s]
  PROVE  TrimsStay /\ v8'[p].status # "pending"
<1>1. v8 \in [C!Posts -> TrimsOrNull] BY ChannelFields
<1>2. CASE v8' = v8 /\ v8[p].status # "pending" BY <1>2, TrimsSame
<1>3. CASE v8' = [v8 EXCEPT ![p].status = s]
  <2>1. PICK trim : trim = [v8[p] EXCEPT !.status = s] OBVIOUS
  <2>2. v8[p] \in C!Trims BY <1>1 DEF TrimsOrNull
  <2>3. trim \in C!Trims /\ trim.status = s BY <2>1, <2>2 DEF C!Trims
  <2>4. v8' = [v8 EXCEPT ![p] = trim] BY <1>3, <2>1
  <2>5. v8' \in [C!Posts -> TrimsOrNull] BY <1>1, <2>3, <2>4 DEF TrimsOrNull
  <2>6. v8'[p] = trim /\ \A q \in C!Posts \ {p} : v8'[q] = v8[q] BY <1>1, <2>4
  <2> QED BY <2>1, <2>3, <2>5, <2>6 DEF TrimsStay
<1> QED BY <1>2, <1>3

LEMMA WatchFields ==
  ASSUME C!ChannelInv
  PROVE  /\ C!ChannelTypes /\ C!ParkedFits
         /\ DOMAIN v10 = {"at", "todo", "side", "post", "size", "stop"} /\ DOMAIN C!Rest = DOMAIN v10
         /\ v8 \in [C!Posts -> TrimsOrNull]
BY ChannelFields DEF C!ChannelInv, C!Rest

LEMMA SweepLegsKept == ASSUME C!ChannelInv, C!SweepLegs PROVE C!ChannelInv'
<1>0. /\ v10.at = "legs" /\ UNCHANGED <<v1, v3, v4, v5, v6, v8, v9, v16, v17, v18>>
  BY DEF C!SweepLegs, C!stored, C!market, C!counts, C!history
<1>1. C!ChannelTypes /\ C!ParkedFits /\ DOMAIN C!Rest = DOMAIN v10
      /\ DOMAIN v10 = {"at", "todo", "side", "post", "size", "stop"}
  BY WatchFields
<1>2. TrimsStay BY <1>0, <1>1, TrimsSame
<1>3. \/ \E s : v10' = [v10 EXCEPT !.at = "clear", !.side = s]
      \/ v10' = [C!Rest EXCEPT !.at = "trims",
                   !.todo = {p \in C!Posts : v8[p] # NULL /\ v8[p].status = "pending"}]
  BY DEF C!SweepLegs
<1>4. CASE \E s : v10' = [v10 EXCEPT !.at = "clear", !.side = s]
  <2>1. DOMAIN v10' = DOMAIN C!Rest /\ v10'.at = "clear" BY <1>1, <1>4
  <2>2. C!ParkedFits' /\ (C!Excused' \/ C!FiredOnce')
    BY <1>0, <1>2, <2>1, AwayFromTrims DEF Trimming
  <2> QED BY <1>0, <1>2, <2>1, <2>2, WatchKept
<1>5. CASE v10' = [C!Rest EXCEPT !.at = "trims",
                    !.todo = {p \in C!Posts : v8[p] # NULL /\ v8[p].status = "pending"}]
  <2>1. /\ DOMAIN v10' = DOMAIN C!Rest /\ v10'.at = "trims"
        /\ v10'.todo = {p \in C!Posts : v8[p] # NULL /\ v8[p].status = "pending"}
    BY <1>5 DEF C!Rest
  <2>2. C!Posts' = C!Posts /\ \A p \in C!Posts : C!Parked(p)' <=> C!Parked(p)
    BY <1>0 DEF C!Posts, C!Parked
  <2>3. C!ParkedFits' BY <1>0, <1>1, <2>1, <2>2 DEF C!ParkedFits
  <2>4. ASSUME C!FiredOnce PROVE C!FiredOnce'
    <3> SUFFICES ASSUME v16 = {}, NEW q \in C!Posts, NEW s \in C!Sides,
                        <<q, C!Step("trim", s)>> \in v17
                 PROVE  v8[q] # NULL /\ (C!Parked(q) => v8[q].status # "pending")
      BY <1>0, <2>1, <2>2 DEF C!FiredOnce
    <3> QED BY <1>0, <2>4 DEF C!FiredOnce
  <2>5. C!Excused => C!Excused' BY <1>0, <1>1, <1>2, TrimsStayIs, ExcusedStays
  <2>6. C!Excused' \/ C!FiredOnce' BY <2>4, <2>5 DEF C!ChannelInv
  <2> QED BY <1>0, <1>2, <2>1, <2>3, <2>6, WatchKept
<1> QED BY <1>3, <1>4, <1>5

LEMMA ClearLegKept == ASSUME C!ChannelInv, C!ClearLeg PROVE C!ChannelInv'
<1>0. /\ v10.at = "clear" /\ v10' = C!Rest /\ v8' = C!CancelTrims({v10.side})
      /\ UNCHANGED <<v1, v3, v4, v5, v6, v9, v16, v17, v18>>
  BY DEF C!ClearLeg, C!market, C!counts, C!history
<1>1. C!ChannelTypes BY WatchFields
<1>2. TrimsStay BY <1>0, <1>1, CancelTrimsIs
<1>3. DOMAIN v10' = DOMAIN C!Rest /\ v10'.at = "legs" BY <1>0 DEF C!Rest
<1>4. C!ParkedFits' /\ (C!Excused' \/ C!FiredOnce')
  BY <1>0, <1>2, <1>3, AwayFromTrims DEF Trimming
<1> QED BY <1>0, <1>2, <1>3, <1>4, WatchKept

LEMMA SweepTrimsKept == ASSUME C!ChannelInv, C!SweepTrims PROVE C!ChannelInv'
<1>0. /\ v10.at = "trims" /\ UNCHANGED <<v1, v3, v4, v5, v6, v9, v16, v17, v18>>
  BY DEF C!SweepTrims, C!market, C!counts, C!history
<1>1. C!ChannelTypes /\ C!ParkedFits /\ DOMAIN C!Rest = DOMAIN v10
      /\ DOMAIN v10 = {"at", "todo", "side", "post", "size", "stop"}
  BY WatchFields
<1>2. CASE v10.todo = {}
  <2>1. DOMAIN v10' = DOMAIN C!Rest /\ v10'.at = "stops" /\ v8' = v8
    BY <1>2 DEF C!SweepTrims, C!Rest
  <2>2. TrimsStay BY <1>1, <2>1, TrimsSame
  <2>3. C!ParkedFits' /\ (C!Excused' \/ C!FiredOnce')
    BY <1>0, <2>1, <2>2, AwayFromTrims DEF Trimming
  <2> QED BY <1>0, <2>1, <2>2, <2>3, WatchKept
<1>3. CASE v10.todo # {}
  <2>1. PICK p : p = CHOOSE q \in v10.todo : TRUE OBVIOUS
  <2>2. p \in v10.todo /\ p \in C!Posts /\ v8[p] # NULL
    BY <1>0, <1>1, <1>3, <2>1 DEF C!ParkedFits, C!Parked
  <2>3. \/ v10' = [v10 EXCEPT !.todo = v10.todo \ {p}] /\ C!Resolve(p, "cancelled")
        \/ v10' = [v10 EXCEPT !.todo = v10.todo \ {p}] /\ v8' = v8
        \/ \E size : v10' = [v10 EXCEPT !.todo = v10.todo \ {p}, !.at = "fire", !.post = p,
                                       !.size = size] /\ v8' = v8
    BY <1>3, <2>1 DEF C!SweepTrims
  <2>4. TrimsStay
    <3>1. v8' = v8 \/ v8' = [v8 EXCEPT ![p].status = "cancelled"] BY <2>3 DEF C!Resolve
    <3> QED BY <1>1, <2>2, <3>1, TrimsSame, ResolveIs
  <2>5. /\ DOMAIN v10' = DOMAIN C!Rest /\ v10'.todo = v10.todo \ {p}
        /\ v10'.at = "trims" \/ (v10'.at = "fire" /\ v10'.post = p)
    BY <1>0, <1>1, <2>3
  <2>6. C!ParkedFits' /\ (C!Excused' \/ C!FiredOnce')
    BY <1>0, <2>2, <2>4, <2>5, OnWithTrims DEF Trimming
  <2> QED BY <1>0, <2>4, <2>5, <2>6, WatchKept
<1> QED BY <1>2, <1>3

LEMMA ExpireKept == ASSUME C!ChannelInv, NEW p \in C!Posts, C!Expire(p) PROVE C!ChannelInv'
<1>0. /\ v10.at = "trims" /\ v8[p] # NULL /\ UNCHANGED <<v1, v3, v4, v5, v6, v9, v16, v17, v18>>
      /\ v8' = [v8 EXCEPT ![p].status = "expired"] /\ v10' = [v10 EXCEPT !.todo = v10.todo \ {p}]
  BY DEF C!Expire, C!market, C!history
<1>1. C!ChannelTypes /\ DOMAIN C!Rest = DOMAIN v10
      /\ DOMAIN v10 = {"at", "todo", "side", "post", "size", "stop"}
  BY WatchFields
<1>2. TrimsStay BY <1>0, <1>1, ResolveIs
<1>3. DOMAIN v10' = DOMAIN C!Rest /\ v10'.at = "trims" /\ v10'.todo \subseteq v10.todo
  BY <1>0, <1>1
<1>4. C!ParkedFits' /\ (C!Excused' \/ C!FiredOnce')
  BY <1>0, <1>2, <1>3, OnWithTrims DEF Trimming
<1> QED BY <1>0, <1>2, <1>3, <1>4, WatchKept

LEMMA FireFailsKept == ASSUME C!ChannelInv, C!FireFails PROVE C!ChannelInv'
<1>0. /\ v10.at = "fire" /\ UNCHANGED <<v1, v3, v4, v5, v6, v8, v9, v16, v17, v18>>
      /\ v10' = [v10 EXCEPT !.at = "trims"]
  BY DEF C!FireFails, C!stored, C!market, C!history
<1>1. C!ChannelTypes /\ DOMAIN C!Rest = DOMAIN v10
      /\ DOMAIN v10 = {"at", "todo", "side", "post", "size", "stop"}
  BY WatchFields
<1>2. TrimsStay BY <1>0, <1>1, TrimsSame
<1>3. DOMAIN v10' = DOMAIN C!Rest /\ v10'.at = "trims" /\ v10'.todo \subseteq v10.todo
  BY <1>0, <1>1
<1>4. C!ParkedFits' /\ (C!Excused' \/ C!FiredOnce')
  BY <1>0, <1>2, <1>3, OnWithTrims DEF Trimming
<1> QED BY <1>0, <1>2, <1>3, <1>4, WatchKept

LEMMA FiredKept == ASSUME C!ChannelInv, C!Fired PROVE C!ChannelInv'
<1>0. /\ v10.at = "resolve" /\ UNCHANGED <<v1, v3, v4, v5, v6, v9, v16, v17, v18>>
      /\ v10' = [v10 EXCEPT !.at = "trims"] /\ C!Resolve(v10.post, "fired")
  BY DEF C!Fired, C!market, C!counts, C!history
<1>1. /\ C!ChannelTypes /\ C!ParkedFits /\ DOMAIN C!Rest = DOMAIN v10
      /\ DOMAIN v10 = {"at", "todo", "side", "post", "size", "stop"}
  BY WatchFields
<1>2. PICK p \in C!Posts : p = v10.post /\ v8[p] # NULL BY <1>0, <1>1 DEF C!ParkedFits, C!Parked
<1>3. (v8[p].status # "pending" /\ v8' = v8) \/ v8' = [v8 EXCEPT ![p].status = "fired"]
  BY <1>0, <1>2 DEF C!Resolve
<1>4. TrimsStay /\ v8'[v10.post].status # "pending" BY <1>1, <1>2, <1>3, ResolveIs
<1>5. DOMAIN v10' = DOMAIN C!Rest /\ v10'.at = "trims" /\ v10'.todo \subseteq v10.todo
  BY <1>0, <1>1
<1>6. C!ParkedFits' /\ (C!Excused' \/ C!FiredOnce')
  BY <1>0, <1>4, <1>5, OnWithTrims DEF Trimming
<1> QED BY <1>0, <1>4, <1>5, <1>6, WatchKept

\* The trim in hand, and the order it becomes.
LEMMA FiringIs ==
  ASSUME C!ChannelInv, v10.at = "fire"
  PROVE  \E p \in C!Posts, s \in C!Sides :
           /\ p = v10.post /\ s = v8[p].side /\ C!Parked(p) /\ p \in v6 /\ p \notin v10.todo
           /\ C!Step("trim", v8[v10.post].side) = C!Step("trim", s) /\ C!Step("trim", s) \in C!Steps
           /\ C!Excused \/ <<p, C!Step("trim", s)>> \notin v17
<1>0. C!ChannelTypes /\ C!ParkedFits /\ v8 \in [C!Posts -> TrimsOrNull] BY WatchFields
<1>1. PICK p \in C!Posts : p = v10.post /\ C!Parked(p) /\ p \in v6 /\ p \notin v10.todo
  BY <1>0 DEF C!ParkedFits
<1>2. v8[p] \in C!Trims BY <1>0, <1>1 DEF C!Parked, TrimsOrNull
<1>3. PICK s \in C!Sides : s = v8[p].side BY <1>2 DEF C!Trims
<1>4. C!Step("trim", s) \in C!Steps BY StepIs
<1>5. C!Excused \/ <<p, C!Step("trim", s)>> \notin v17
  BY <1>1 DEF C!ChannelInv, C!Excused, C!FiredOnce
<1> QED BY <1>1, <1>3, <1>4, <1>5

LEMMA FireTrimKept == ASSUME C!ChannelInv, C!Fire PROVE C!ChannelInv'
<1>0. /\ v10.at = "fire" /\ UNCHANGED <<v1, v3, v4, v5, v6, v8, v9, v16>>
      /\ v10' = [v10 EXCEPT !.at = "resolve"]
      /\ C!Admit(v10.post, C!Step("trim", v8[v10.post].side), v10.size)
  BY DEF C!Fire, C!stored, C!counts
<1>1. /\ C!ChannelTypes /\ C!ParkedFits /\ DOMAIN C!Rest = DOMAIN v10
      /\ DOMAIN v10 = {"at", "todo", "side", "post", "size", "stop"}
  BY WatchFields
<1>2. PICK p \in C!Posts, s \in C!Sides :
        /\ p = v10.post /\ s = v8[p].side /\ C!Parked(p) /\ p \in v6 /\ p \notin v10.todo
        /\ C!Step("trim", v8[v10.post].side) = C!Step("trim", s) /\ C!Step("trim", s) \in C!Steps
        /\ C!Excused \/ <<p, C!Step("trim", s)>> \notin v17
  BY <1>0, FiringIs
<1>3. /\ v17' = v17 \cup {<<p, C!Step("trim", s)>>}
      /\ v18' => v18 \/ <<p, C!Step("trim", s)>> \in v17
  BY <1>0, <1>2, AdmitIs
<1>4. TrimsStay BY <1>0, <1>1, TrimsSame
<1>5. /\ DOMAIN v10' = DOMAIN C!Rest /\ v10'.at = "resolve" /\ v10'.todo = v10.todo
      /\ v10'.post = p
  BY <1>0, <1>1, <1>2
<1>6. C!Posts' = C!Posts /\ \A q \in C!Posts : C!Parked(q)' <=> C!Parked(q)
  BY <1>0 DEF C!Posts, C!Parked
<1>7. C!ParkedFits' BY <1>0, <1>1, <1>2, <1>5, <1>6 DEF C!ParkedFits
<1>8. C!Excused => C!Excused' BY <1>0, <1>6, ExcusedStays
<1>9. C!Excused' \/ ~v18'
  BY <1>2, <1>3, <1>8 DEF C!ChannelInv
<1>10. ASSUME C!FiredOnce PROVE C!FiredOnce'
  <2> SUFFICES ASSUME v16 = {}, NEW q \in C!Posts, NEW z \in C!Sides,
                      <<q, C!Step("trim", z)>> \in v17'
               PROVE  /\ v8[q] # NULL
                      /\ C!Parked(q) => /\ q \notin v10.todo
                                        /\ v8[q].status = "pending" => q = p
    BY <1>0, <1>5, <1>6 DEF C!FiredOnce
  <2>1. CASE q = p BY <1>2, <2>1 DEF C!Parked
  <2>2. CASE q # p
    <3>1. <<q, C!Step("trim", z)>> \in v17 BY <1>3, <2>2
    <3> QED BY <1>0, <1>10, <3>1 DEF C!FiredOnce
  <2> QED BY <2>1, <2>2
<1>11. C!Excused' \/ C!FiredOnce' BY <1>8, <1>10 DEF C!ChannelInv
<1>12. \E q \in v6, a \in C!Steps : v17' = v17 \cup {<<q, a>>} /\ (C!Excused' \/ ~v18')
  BY <1>2, <1>3, <1>9
<1> QED BY <1>0, <1>4, <1>5, <1>7, <1>11, <1>12, WatchKept

LEMMA FireAnswerLostKept == ASSUME C!ChannelInv, C!FireAnswerLost PROVE C!ChannelInv'
<1>0. /\ v10.at = "fire" /\ UNCHANGED <<v1, v3, v4, v5, v6, v8, v9>> /\ v16' = v16 \cup {"lost"}
      /\ v10' = [v10 EXCEPT !.at = "trims"]
      /\ C!Admit(v10.post, C!Step("trim", v8[v10.post].side), v10.size)
  BY DEF C!FireAnswerLost, C!Slip, C!stored
<1>1. /\ C!ChannelTypes /\ DOMAIN C!Rest = DOMAIN v10
      /\ DOMAIN v10 = {"at", "todo", "side", "post", "size", "stop"}
  BY WatchFields
<1>2. PICK p \in C!Posts, s \in C!Sides :
        /\ p = v10.post /\ C!Parked(p) /\ p \in v6
        /\ C!Step("trim", v8[v10.post].side) = C!Step("trim", s) /\ C!Step("trim", s) \in C!Steps
  BY <1>0, FiringIs
<1>3. v17' = v17 \cup {<<p, C!Step("trim", s)>>} BY <1>0, <1>2, AdmitIs
<1>4. TrimsStay BY <1>0, <1>1, TrimsSame
<1>5. C!Excused' BY <1>0, <1>2 DEF C!Excused, C!Posts, C!Parked
<1>6. DOMAIN v10' = DOMAIN C!Rest /\ v10'.at = "trims" /\ v10'.todo \subseteq v10.todo
  BY <1>0, <1>1
<1>7. C!ParkedFits' /\ (C!Excused' \/ C!FiredOnce')
  BY <1>0, <1>4, <1>5, <1>6, OnWithTrims DEF Trimming
<1>8. \E q \in v6, a \in C!Steps : v17' = v17 \cup {<<q, a>>} /\ (C!Excused' \/ ~v18')
  BY <1>2, <1>3, <1>5
<1> QED BY <1>0, <1>4, <1>6, <1>7, <1>8, WatchKept

LEMMA StopsKept ==
  ASSUME C!ChannelInv, C!SweepStops \/ C!Assert \/ C!AssertFails PROVE C!ChannelInv'
<1>0. /\ v10.at \in {"stops", "assert"} /\ UNCHANGED <<v1, v3, v4, v5, v6, v8, v9, v16, v17, v18>>
  BY DEF C!SweepStops, C!Assert, C!AssertFails, C!stored, C!market, C!counts, C!history
<1>1. /\ C!ChannelTypes /\ DOMAIN C!Rest = DOMAIN v10
      /\ DOMAIN v10 = {"at", "todo", "side", "post", "size", "stop"}
  BY WatchFields
<1>2. DOMAIN v10' = DOMAIN C!Rest /\ v10'.at \in {"legs", "stops", "assert"}
  <2>1. CASE C!Assert \/ C!AssertFails
    <3>1. v10' = [v10 EXCEPT !.at = "stops"] BY <2>1 DEF C!Assert, C!AssertFails
    <3> QED BY <1>1, <3>1
  <2>2. CASE C!SweepStops
    <3>1. v10.at = "stops" BY <2>2 DEF C!SweepStops
    <3>2. \/ v10' = C!Rest
          \/ \E S : v10' = [v10 EXCEPT !.todo = S]
          \/ \E S, s, w : v10' = [v10 EXCEPT !.todo = S, !.at = "assert", !.side = s, !.stop = w]
      BY <2>2 DEF C!SweepStops
    <3>3. C!Rest.at = "legs" BY DEF C!Rest
    <3> QED BY <1>1, <3>1, <3>2, <3>3
  <2> QED BY <2>1, <2>2
<1>3. TrimsStay BY <1>0, <1>1, TrimsSame
<1>4. C!ParkedFits' /\ (C!Excused' \/ C!FiredOnce')
  BY <1>0, <1>2, <1>3, AwayFromTrims DEF Trimming
<1> QED BY <1>0, <1>2, <1>3, <1>4, WatchKept

-------------------------------------------------------------------------------
(* The channel as a whole.                                                 *)

\* The market, the clock and the end of the backfill touch nothing of this.
LEMMA ChannelRests ==
  ASSUME C!ChannelInv, UNCHANGED <<v1, v3, v4, v5, v6, v8, v9, v10, v16, v17, v18>>
  PROVE  C!ChannelInv'
<1>0. C!ChannelTypes /\ C!ParkedFits /\ DOMAIN v10' = DOMAIN C!Rest BY WatchFields
<1>1. TrimsStay BY <1>0, TrimsSame
<1>2. C!ParkedFits' BY <1>0, <1>1, ParkedKept
<1>3. C!Excused => C!Excused' BY <1>0, <1>1, TrimsStayIs, ExcusedStays
<1>4. C!FiredOnce => C!FiredOnce' BY <1>0, <1>1, FiredOnceKept
<1>5. C!Excused' \/ C!FiredOnce' BY <1>3, <1>4 DEF C!ChannelInv
<1> QED BY <1>0, <1>1, <1>2, <1>5, WatchKept

LEMMA ChannelInit == C!Init => C!ChannelInv
<1> SUFFICES ASSUME C!Init PROVE C!ChannelInv OBVIOUS
<1>1. /\ v1 \in Stories /\ v3 = 0 /\ v4 = {} /\ v5 = {} /\ v6 = {}
      /\ v8 = [p \in C!Posts |-> NULL] /\ v9 = [t \in C!Judges |-> C!Idle] /\ v10 = C!Rest
      /\ v16 = {} /\ v17 = {} /\ v18 = FALSE
  BY Zenon DEF C!Init
<1>2. Len(v1.posts) \in Nat
  <2>1. v1.posts \in Seq(Sayings) BY <1>1, StoriesAssumption DEF Sayings
  <2> QED BY <2>1
<1>3. C!Idle.at = "idle" /\ C!Idle.todo = {} /\ C!Rest.at = "legs" BY DEF C!Idle, C!Rest
<1>4. \A t \in C!Judges : C!CallFits(t, v9[t])
  BY <1>1, <1>3 DEF C!CallFits, C!Working
<1>5. C!ChannelTypes BY <1>1, <1>2, <1>4 DEF C!ChannelTypes
<1>6. C!OnePerPost /\ C!Unjudged /\ C!ParkedFits
  BY <1>1, <1>3 DEF C!OnePerPost, C!Unjudged, C!Working, C!ParkedFits, C!Parked
<1>7. C!Untouched /\ C!Ahead /\ C!Waiting /\ C!FiredOnce
  <2>1. C!Senders \subseteq C!Judges /\ "catchup" \in C!Judges BY DEF C!Senders, C!Judges
  <2>2. C!Untouched BY <1>1, <1>3, <2>1 DEF C!Untouched, C!Early
  <2>3. C!Ahead BY <1>1, <1>3 DEF C!Ahead
  <2>4. C!Waiting BY <1>1, <1>3, <2>1 DEF C!Waiting
  <2>5. C!FiredOnce BY <1>1 DEF C!FiredOnce
  <2> QED BY <2>2, <2>3, <2>4, <2>5
<1>8. ~v18 BY <1>1
<1> QED BY <1>5, <1>6, <1>7, <1>8 DEF C!ChannelInv

LEMMA ChannelNext == C!ChannelInv /\ [C!Next]_(C!vars) => C!ChannelInv'
<1> SUFFICES ASSUME C!ChannelInv, [C!Next]_(C!vars) PROVE C!ChannelInv' OBVIOUS
<1>1. CASE C!Arrive \/ C!Missed BY <1>1, ArriveKept
<1>2. CASE C!Calls
  <2>1. CASE C!BackfillEnds
    BY <2>1, ChannelRests DEF C!BackfillEnds, C!stored, C!market, C!counts, C!history
  <2> QED BY <1>2, <2>1, FlushKept, CatchupKept, NextOfKept DEF C!Calls
<1>3. ASSUME NEW t \in C!Judges, C!JudgeStep(t) PROVE C!ChannelInv'
  BY <1>3, LookKept, JudgesKept, LevelsKept, AdjustKept, SizeKept, SendKept, RecordedKept,
     AdvanceKept
  DEF C!JudgeStep
<1>4. ASSUME NEW t \in C!Judges, C!JudgeFault(t) PROVE C!ChannelInv'
  BY <1>4, ExtractionFailsKept, JudgesStaleKept, AdjustKept, SendFailsKept, AnswerLostKept
  DEF C!JudgeFault
<1>5. CASE C!WatchStep
  BY <1>5, SweepLegsKept, ClearLegKept, SweepTrimsKept, FireTrimKept, FiredKept, StopsKept
  DEF C!WatchStep
<1>6. CASE C!WatchFault
  BY <1>6, FireFailsKept, FireAnswerLostKept, StopsKept, ExpireKept DEF C!WatchFault
<1>7. ASSUME NEW o \in v11, C!CarryOut(o) \/ C!OrderFails(o) PROVE C!ChannelInv'
  BY <1>7, ChannelRests DEF C!CarryOut, C!OrderFails, C!stored, C!tasks, C!counts, C!history
<1>8. ASSUME NEW s \in C!Sides, C!StopOut(s) \/ C!Time(s) PROVE C!ChannelInv'
  BY <1>8, ChannelRests DEF C!StopOut, C!Time, C!stored, C!tasks, C!market, C!counts, C!history
<1>9. CASE C!MarkMoves
  BY <1>9, ChannelRests DEF C!MarkMoves, C!stored, C!tasks, C!history
<1>10. CASE UNCHANGED C!vars
  BY <1>10, ChannelRests DEF C!vars, C!stored, C!tasks, C!market, C!counts, C!history
<1> QED
  BY <1>1, <1>2, <1>3, <1>4, <1>5, <1>6, <1>7, <1>8, <1>9, <1>10, RestartsKept DEF C!Next

LEMMA ChannelMoves ==
  turn = "channel" /\ [NextServices]_all => turn' = "channel" /\ [C!Next]_(C!vars)
BY DEF NextServices, all, cells, C!vars, C!stored, C!tasks, C!market, C!counts, C!history

\* A post is acted on once, whoever judges it and however often the process dies, but for a flush
\* that was cut off between an order and its record, and for a parked trim whose answer was lost
\* or on which the process died: for any posts, accounts, faults and moves of the mark.
THEOREM ActsOnceHolds == SpecServices => [](turn = "channel" => C!ActsOnce)
<1> DEFINE Inv == turn = "channel" => C!ChannelInv
<1>1. InitServices => Inv BY ChannelInit DEF InitServices
<1>2. Inv /\ [NextServices]_all => Inv'
  <2> SUFFICES ASSUME Inv, [NextServices]_all PROVE Inv' OBVIOUS
  <2>1. turn' = turn \/ turn = "channel" BY DEF NextServices, all
  <2> QED BY <2>1, ChannelNext, ChannelMoves
<1>3. Inv => (turn = "channel" => C!ActsOnce) BY DEF C!ChannelInv, C!ActsOnce
<1> QED BY <1>1, <1>2, <1>3, PTL DEF SpecServices

-------------------------------------------------------------------------------
(* The engine: v1 script, v2 minute, v3 side, v4 bracket, v5 since, v6     *)
(* brackets, v7 loops, v8 seen, v9 rows, v10 faults, v11 raced.            *)

Outs(legs) == {legs[i] : i \in DOMAIN legs}

\* One after the other.
LEMMA TwoInARow ==
  ASSUME NEW S, NEW x \in S, NEW y \in S
  PROVE  /\ <<x>> \o <<y>> = <<x, y>> /\ <<x, y>> \in Seq(S) /\ Len(<<x, y>>) = 2
         /\ <<x, y>> # <<>> /\ Outs(<<x, y>>) = {x, y}
<1>1. <<x>> \in Seq(S) /\ <<y>> \in Seq(S) /\ <<x, y>> \in Seq(S) OBVIOUS
<1>2. Len(<<x>>) = 1 /\ Len(<<y>>) = 1 /\ Len(<<x, y>>) = 2 /\ DOMAIN <<x, y>> = 1..2 OBVIOUS
<1>3. <<x>>[1] = x /\ <<y>>[1] = y /\ <<x, y>>[1] = x /\ <<x, y>>[2] = y OBVIOUS
<1> DEFINE f == <<x>>  g == <<y>>  two == <<x, y>>  c == f \o g
<1>4. Outs(two) = {x, y} BY <1>2, <1>3 DEF Outs
<1>5. two # <<>> BY <1>2, EmptySeq
<1> HIDE DEF f, g, two, c
<1>6. /\ c \in Seq(S) /\ Len(c) = 2
      /\ \A i \in 1..2 : c[i] = IF i <= 1 THEN f[i] ELSE g[i - 1]
  BY <1>1, <1>2, ConcatProperties DEF f, g, c
<1>7. c[1] = two[1] /\ c[2] = two[2] BY <1>3, <1>6 DEF f, g, two
<1>8. \A i \in 1..2 : c[i] = two[i] BY <1>7
<1>9. c = two BY <1>1, <1>2, <1>6, <1>8, SeqEqual DEF two
<1> QED BY <1>1, <1>2, <1>4, <1>5, <1>9 DEF c, f, g, two

LEMMA FewerGiven ==
  ASSUME NEW b, NEW S, NEW T, E!GivesOnce(b, T), S \subseteq T
  PROVE  E!GivesOnce(b, S)
BY DEF E!GivesOnce

\* A bracket that has given what it has taken out gives once more, fed with whatever comes.
LEMMA UpdateIs ==
  ASSUME NEW b \in E!Brackets, NEW best \in Int, NEW worst \in Int, NEW extreme, NEW outs,
         E!GivesOnce(b, outs)
  PROVE  LET fed == E!Update(b, best, worst, extreme) IN
         /\ fed.now \in E!Brackets /\ fed.now.side = b.side /\ fed.legs \in Seq(E!LegSet)
         /\ fed.legs = <<>> => fed.now.closed = b.closed
         /\ E!GivesOnce(fed.now, outs \cup Outs(fed.legs))
<1> DEFINE peak   == E!Greater(b.peak, best)
           tight  == E!Tightens(b, extreme)
           stop   == IF tight THEN -E!Tight ELSE b.stop
           armed  == b.armed \/ best >= E!Arm
           limit  == IF armed THEN E!Greater(stop, peak - E!Trail) ELSE stop
           first  == ~b.hit /\ best >= E!Target1
           left   == IF first THEN b.left - E!Part ELSE b.left
           second == (b.hit \/ first) /\ best >= E!Target2
           marked == [b EXCEPT !.peak = peak, !.stop = stop, !.tight = @ \/ tight, !.armed = armed]
           reason == IF worst > stop THEN "trail" ELSE IF b.hit THEN "be_stop" ELSE "stop"
           shut   == [marked EXCEPT !.closed = TRUE]
           moved  == [marked EXCEPT !.hit = @ \/ first, !.left = left, !.closed = second,
                                    !.stop = IF first THEN E!BreakEven ELSE @]
           legs   == (IF first THEN <<E!Leg("tp1", E!Part)>> ELSE <<>>)
                       \o (IF second THEN <<E!Leg("tp2", left)>> ELSE <<>>)
           fed    == E!Update(b, best, worst, extreme)
<1>1. fed = IF b.closed THEN [now |-> b, legs |-> <<>>]
            ELSE IF worst <= limit THEN [now |-> shut, legs |-> <<E!Leg(reason, b.left)>>]
            ELSE [now |-> moved, legs |-> legs]
  BY DEF E!Update
<1>2. /\ peak \in Int /\ tight \in BOOLEAN /\ armed \in BOOLEAN /\ first \in BOOLEAN
      /\ second \in BOOLEAN /\ stop \in {-E!Stop, -E!Tight, E!BreakEven}
      /\ left \in {E!Part, 100} /\ (first => left = E!Part) /\ (~first => left = b.left)
      /\ (second => b.hit \/ first) /\ (first => ~b.hit)
      /\ reason \in E!Final /\ b.left = IF b.hit THEN E!Part ELSE 100
  BY DEF E!Brackets, E!Greater, E!Tightens, E!GivesOnce, E!Part, E!Stop, E!Tight, E!Final, E!BreakEven
<1> HIDE DEF peak, tight, stop, armed, limit, first, left, second, reason, fed
<1>3. CASE b.closed
  <2>1. fed.now = b /\ fed.legs = <<>> BY <1>1, <1>3
  <2>2. <<>> \in Seq(E!LegSet) /\ Outs(<<>>) = {} BY EmptySeq DEF Outs
  <2> QED BY <2>1, <2>2 DEF fed
<1>4. CASE ~b.closed /\ worst <= limit
  <2> DEFINE leg == E!Leg(reason, b.left)
  <2>1. fed.now = shut /\ fed.legs = <<leg>> BY <1>1, <1>4
  <2>2. leg \in E!LegSet /\ leg.reason = reason /\ leg.size = b.left
    BY <1>2 DEF E!Leg, E!LegSet, E!Brackets
  <2>3. /\ shut \in E!Brackets /\ shut.side = b.side /\ shut.left = b.left /\ shut.hit = b.hit
        /\ shut.closed
    BY <1>2, ZenonT(60) DEF E!Brackets
  <2> HIDE DEF leg, shut
  <2>4. <<leg>> \in Seq(E!LegSet) /\ Outs(<<leg>>) = {leg} /\ <<leg>> # <<>>
    BY <2>2 DEF Outs
  <2>5. E!GivesOnce(shut, outs \cup {leg})
    <3>1. \A x \in outs : x.reason = "tp1" /\ x.size = E!Part /\ b.hit
      BY <1>4 DEF E!GivesOnce
    <3>2. reason # "tp1" BY <1>2 DEF E!Final
    <3> QED BY <1>2, <2>2, <2>3, <3>1, <3>2 DEF E!GivesOnce
  <2> QED BY <2>1, <2>3, <2>4, <2>5 DEF fed
<1>5. CASE ~b.closed /\ ~(worst <= limit)
  <2>1. fed.now = moved /\ fed.legs = legs BY <1>1, <1>5
  <2>2. /\ moved \in E!Brackets /\ moved.side = b.side /\ moved.left = left
        /\ moved.hit = (b.hit \/ first) /\ moved.closed = second
    <3>1. marked \in E!Brackets /\ marked.side = b.side /\ marked.hit = b.hit
      BY <1>2, ZenonT(60) DEF E!Brackets
    <3> DEFINE hit == marked.hit \/ first  at == IF first THEN E!BreakEven ELSE marked.stop
    <3>2. moved = [marked EXCEPT !.hit = hit, !.left = left, !.closed = second, !.stop = at]
      OBVIOUS
    <3>3. hit \in BOOLEAN /\ hit = (b.hit \/ first) /\ at \in {-E!Stop, -E!Tight, E!BreakEven}
      BY <1>2, <3>1 DEF E!Brackets
    <3> HIDE DEF marked, moved, hit, at
    <3> QED BY <1>2, <3>1, <3>2, <3>3, ZenonT(60) DEF E!Brackets
  <2> DEFINE one == E!Leg("tp1", E!Part)  two == E!Leg("tp2", left)
  <2>3. /\ one \in E!LegSet /\ one.reason = "tp1" /\ one.size = E!Part
        /\ two \in E!LegSet /\ two.reason = "tp2" /\ two.size = left
    BY <1>2 DEF E!Leg, E!LegSet, E!Final
  <2>4. legs = (IF first THEN <<one>> ELSE <<>>) \o (IF second THEN <<two>> ELSE <<>>) OBVIOUS
  <2> HIDE DEF legs, moved, one, two
  <2>5. /\ legs \in Seq(E!LegSet) /\ (legs = <<>> => ~first /\ ~second)
        /\ Outs(legs) = (IF first THEN {one} ELSE {}) \cup (IF second THEN {two} ELSE {})
    <3>1. CASE first /\ second
      <4>1. legs = <<one>> \o <<two>> BY <2>4, <3>1
      <4>2. /\ legs = <<one, two>> /\ legs \in Seq(E!LegSet) /\ legs # <<>>
            /\ Outs(legs) = {one, two}
        <5>1. one \in E!LegSet /\ two \in E!LegSet BY <2>3
        <5>2. /\ <<one>> \o <<two>> = <<one, two>> /\ <<one, two>> \in Seq(E!LegSet)
              /\ <<one, two>> # <<>> /\ Outs(<<one, two>>) = {one, two}
          BY <5>1, TwoInARow
        <5> QED BY <4>1, <5>2, Zenon
      <4> QED BY <3>1, <4>2
    <3>2. CASE first /\ ~second
      <4>1. legs = <<one>> BY <2>4, <3>2
      <4> QED BY <2>3, <3>2, <4>1 DEF Outs
    <3>3. CASE ~first /\ second
      <4>1. legs = <<two>> BY <2>4, <3>3
      <4> QED BY <2>3, <3>3, <4>1 DEF Outs
    <3>4. CASE ~first /\ ~second
      <4>1. legs = <<>> BY <2>4, <3>4
      <4> QED BY <3>4, <4>1, EmptySeq DEF Outs
    <3> QED BY <1>2, <3>1, <3>2, <3>3, <3>4
  <2>6. E!GivesOnce(moved, outs \cup Outs(legs))
    <3>1. \A x \in outs : x.reason = "tp1" /\ x.size = E!Part /\ b.hit
      BY <1>5 DEF E!GivesOnce
    <3>2. \A x \in Outs(legs) : (x = one /\ first) \/ (x = two /\ second) BY <2>5
    <3>3. "tp2" \in E!Final BY DEF E!Final
    <3>4. moved.left = IF moved.hit THEN E!Part ELSE 100 BY <1>2, <2>2
    <3>5. \A x \in outs \cup Outs(legs) :
            \/ x.reason = "tp1" /\ x.size = E!Part /\ moved.hit
            \/ x = two /\ second
      BY <2>2, <2>3, <3>1, <3>2
    <3> QED BY <1>2, <2>2, <2>3, <3>3, <3>4, <3>5 DEF E!GivesOnce
  <2>7. legs = <<>> => moved.closed = b.closed
    BY <1>2, <1>5, <2>2, <2>5 DEF E!Brackets
  <2> QED BY <2>1, <2>2, <2>5, <2>6, <2>7 DEF fed
<1> QED BY <1>3, <1>4, <1>5

\* What a bracket b that has given outs is after it was fed a bar.
Fits(fed, b, outs) ==
  /\ fed.now \in E!Brackets /\ fed.now.side = b.side /\ fed.legs \in Seq(E!LegSet)
  /\ fed.legs = <<>> => fed.now.closed = b.closed
  /\ E!GivesOnce(fed.now, outs \cup Outs(fed.legs))

LEMMA FeedIs ==
  ASSUME NEW b \in E!Brackets, NEW high \in Int, NEW low \in Int, NEW extreme, NEW outs,
         E!GivesOnce(b, outs)
  PROVE  Fits(E!Feed(b, high, low, extreme), b, outs)
<1>1. E!Gain(b, high) \in Int /\ E!Gain(b, low) \in Int BY DEF E!Gain, E!Brackets
<1>2. Fits(E!Update(b, E!Gain(b, high), E!Gain(b, low), extreme), b, outs)
  BY <1>1, UpdateIs DEF Fits
<1>3. Fits(E!Update(b, E!Gain(b, low), E!Gain(b, high), extreme), b, outs)
  BY <1>1, UpdateIs DEF Fits
<1> QED BY <1>2, <1>3 DEF E!Feed

-------------------------------------------------------------------------------
(* Bars, signals and turns.                                                *)

LEMMA BarIs ==
  ASSUME E!EngineTypes, NEW m \in 1..Len(v1.minutes)
  PROVE  E!Bar(m).high \in Int /\ E!Bar(m).low \in Int /\ E!Bar(m).close \in Int
<1> DEFINE Bars == [high : Int, low : Int, close : Int]
<1>1. v1.minutes \in Seq(Bars) BY ScriptsAssumption DEF E!EngineTypes
<1> HIDE DEF Bars
<1>2. v1.minutes[m] \in Bars BY <1>1, ElementOfSeq
<1> QED BY <1>2 DEF E!Bar, Bars

LEMMA HourIs ==
  ASSUME E!EngineTypes
  PROVE  /\ v2 \in Nat /\ E!Hours \in Nat /\ E!Hours * 2 <= v2
         /\ \A h \in 0..E!Hours : E!HourTime(h) \in Int /\ h * E!PerHour \in 0..v2
         /\ \A h \in 1..E!Hours : E!CloseOf(h) \in Int
<1>1. v1.minutes \in Seq([high : Int, low : Int, close : Int])
  BY ScriptsAssumption DEF E!EngineTypes
<1>2. Len(v1.minutes) \in Nat BY <1>1, LenProperties
<1>3. v2 \in 0..Len(v1.minutes) BY DEF E!EngineTypes
<1>4. v2 \in Nat /\ E!Hours \in Nat /\ E!Hours * 2 <= v2 BY <1>2, <1>3 DEF E!Hours, E!PerHour
<1>5. \A h \in 0..E!Hours : E!HourTime(h) \in Int /\ h * E!PerHour \in 0..v2
  BY <1>4 DEF E!HourTime, E!PerHour
<1>6. ASSUME NEW h \in 1..E!Hours PROVE E!CloseOf(h) \in Int
  <2>1. h * E!PerHour \in 1..Len(v1.minutes) BY <1>2, <1>3, <1>4 DEF E!PerHour
  <2> QED BY <2>1, BarIs DEF E!CloseOf
<1> QED BY <1>4, <1>5, <1>6

\* A cross moves the strategy to its side: a flip closes what it leaves.
LEMMA SignalsAre ==
  ASSUME NEW from \in E!Sides \cup {NULL}, NEW cross
  PROVE  LET sigs == E!Signals(from, cross)  to == E!SideAfter(from, cross) IN
         /\ to \in E!Sides \cup {NULL} /\ (sigs = <<>> => to = from)
         /\ sigs # <<>> =>
              /\ to \in E!Sides /\ sigs \in Seq(E!SigSet) /\ Len(sigs) \in {1, 2}
              /\ sigs[Len(sigs)] = [signal |-> "open", side |-> to]
              /\ Len(sigs) = 1 => from = NULL
              /\ Len(sigs) = 2 => sigs[1].signal = "close"
         /\ \A i \in 1..Len(sigs) : sigs[i] \in E!SigSet
<1> DEFINE sigs == E!Signals(from, cross)  to == E!SideAfter(from, cross)
           opens == [signal |-> "open", side |-> E!Toward(cross)]
           shuts == [signal |-> "close", side |-> from]
<1>1. E!Toward(cross) \in E!Sides BY DEF E!Toward, E!Sides
<1>2. opens \in E!SigSet /\ opens.signal = "open" /\ opens.side = E!Toward(cross)
  BY <1>1 DEF E!SigSet
<1>3. CASE cross = "none" \/ from = E!Toward(cross)
  <2>1. sigs = <<>> /\ to = from BY <1>3 DEF E!Signals, E!SideAfter
  <2>2. Len(<<>>) = 0 BY EmptySeq
  <2> HIDE DEF sigs, to
  <2>3. Len(sigs) = 0 BY <2>1, <2>2
  <2> QED BY <2>1, <2>3 DEF sigs, to
<1>4. CASE cross # "none" /\ from = NULL
  <2>1. from # E!Toward(cross) BY <1>1, <1>4, ScriptsAssumption DEF E!Sides
  <2>2. sigs = <<>> \o <<opens>> /\ to = E!Toward(cross)
    BY <1>4, <2>1 DEF E!Signals, E!SideAfter
  <2> HIDE DEF sigs, to, opens
  <2>3. <<opens>> \in Seq(E!SigSet) BY <1>2
  <2>4. sigs = <<opens>> BY <2>2, <2>3, ConcatEmptySeq
  <2>5. Len(sigs) = 1 /\ sigs[1] = opens /\ sigs \in Seq(E!SigSet) BY <2>3, <2>4
  <2>6. opens = [signal |-> "open", side |-> to] BY <2>2 DEF opens
  <2> QED BY <1>1, <1>2, <1>4, <2>2, <2>5, <2>6 DEF sigs, to
<1>5. CASE cross # "none" /\ from # NULL /\ from # E!Toward(cross)
  <2>1. sigs = <<shuts>> \o <<opens>> /\ to = E!Toward(cross)
    BY <1>5 DEF E!Signals, E!SideAfter
  <2>2. shuts \in E!SigSet /\ shuts.signal = "close" BY <1>5 DEF E!SigSet
  <2>3. opens = [signal |-> "open", side |-> to] BY <2>1
  <2> HIDE DEF sigs, to, opens, shuts
  <2>4. /\ <<shuts>> \o <<opens>> = <<shuts, opens>> /\ <<shuts, opens>> \in Seq(E!SigSet)
        /\ Len(<<shuts, opens>>) = 2
    <3>1. shuts \in E!SigSet /\ opens \in E!SigSet BY <1>2, <2>2
    <3> HIDE DEF E!SigSet
    <3> QED BY <3>1, TwoInARow, Zenon
  <2>5. sigs = <<shuts, opens>> BY <2>1, <2>4
  <2>6. sigs \in Seq(E!SigSet) /\ Len(sigs) = 2 /\ sigs[1] = shuts /\ sigs[2] = opens
    <3>1. <<shuts, opens>>[1] = shuts /\ <<shuts, opens>>[2] = opens OBVIOUS
    <3> QED BY <2>4, <2>5, <3>1, Zenon
  <2> QED BY <1>1, <1>2, <1>5, <2>1, <2>2, <2>3, <2>6 DEF sigs, to
<1> QED BY <1>3, <1>4, <1>5

\* A loop's record changes, and whether another was in the middle of something is noted.
LEMMA SetIs ==
  ASSUME v7 \in [E!Loops -> E!LoopSet], v11 \in BOOLEAN, NEW l \in E!Loops, NEW r \in E!LoopSet,
         E!Set(l, r)
  PROVE  /\ v7' \in [E!Loops -> E!LoopSet] /\ v7'[l] = r
         /\ \A k \in E!Loops \ {l} : v7'[k] = v7[k]
         /\ v11' \in BOOLEAN /\ (~v11' => ~v11 /\ \A k \in E!Loops \ {l} : v7[k].at = "idle")
BY DEF E!Set

Stands(l) == IF v7[l].at = "idle" THEN E!Agree ELSE E!Turn(l)

\* A turn that leaves the position and its loop in step keeps them all in step.
LEMMA TurnTaken ==
  ASSUME E!EngineInv, NEW l \in E!Loops, NEW r \in E!LoopSet, E!Set(l, r),
         v10' = 0 => v10 = 0, Stands(l) /\ ~v11' => Stands(l)'
  PROVE  E!InTurn'
<1>1. SUFFICES ASSUME ~v11', v10' = 0
      PROVE  /\ \A k, j \in E!Loops : v7'[k].at # "idle" /\ v7'[j].at # "idle" => k = j
             /\ (\A k \in E!Loops : v7'[k].at = "idle") => E!Agree'
             /\ \A k \in E!Loops : E!Turn(k)'
  BY DEF E!InTurn
<1>2. v7 \in [E!Loops -> E!LoopSet] /\ v11 \in BOOLEAN BY DEF E!EngineInv, E!EngineTypes
<1>3. /\ v7'[l] = r /\ ~v11 /\ v10 = 0
      /\ \A k \in E!Loops \ {l} : v7'[k] = v7[k] /\ v7[k].at = "idle"
  BY <1>1, <1>2, SetIs
<1>4. Stands(l) BY <1>3 DEF E!EngineInv, E!InTurn, Stands
<1>5. Stands(l)' BY <1>1, <1>4
<1>6. \A k \in E!Loops \ {l} : v7'[k].at = "idle" BY <1>3
<1>7. \A k, j \in E!Loops : v7'[k].at # "idle" /\ v7'[j].at # "idle" => k = j BY <1>6
<1>8. (\A k \in E!Loops : v7'[k].at = "idle") => E!Agree' BY <1>5 DEF Stands
<1>9. ASSUME NEW k \in E!Loops PROVE E!Turn(k)'
  <2>1. CASE v7'[k].at = "idle" BY <2>1 DEF E!Turn
  <2>2. CASE v7'[k].at # "idle"
    <3>1. k = l BY <1>6, <2>2
    <3> QED BY <1>5, <2>2, <3>1 DEF Stands
  <2> QED BY <2>1, <2>2
<1> QED BY <1>7, <1>8, <1>9

\* So does what leaves the loops, the position and its bracket's side and end alone.
LEMMA TurnSame ==
  ASSUME E!EngineInv, v7' = v7, v11' = v11, v10' = v10, v3' = v3, v4' = v4,
         v4 # 0 => v6'[v4].side = v6[v4].side /\ v6'[v4].closed = v6[v4].closed
  PROVE  E!InTurn'
<1>1. E!Agree' <=> E!Agree BY DEF E!Agree
<1>2. \A l \in E!Loops : E!LoopFits(l) BY DEF E!EngineInv
<1>3. E!InTurn BY DEF E!EngineInv
<1>4. ASSUME NEW l \in E!Loops, E!Turn(l) PROVE E!Turn(l)'
  <2>1. v7[l].at = "legs" /\ v7[l].of = v4 => v4 # 0 BY <1>2 DEF E!LoopFits
  <2> QED BY <1>1, <1>4, <2>1 DEF E!Turn
<1> QED BY <1>1, <1>3, <1>4 DEF E!InTurn

LEMMA GivenGrows ==
  ASSUME NEW b, NEW new,
         \A r \in v9' : r.of = b => r \in v9 \/ E!Leg(r.reason, r.size) \in E!Given(b) \cup new,
         \A l \in E!Loops : E!Stores(l, b)' \subseteq E!Given(b) \cup new
  PROVE  E!Given(b)' \subseteq E!Given(b) \cup new
<1>1. E!Given(b)' = {E!Leg(r.reason, r.size) : r \in E!Exits(b)'}
                      \cup UNION {E!Stores(l, b)' : l \in E!Loops}
  BY DEF E!Given
<1>2. \A r \in E!Exits(b)' : E!Leg(r.reason, r.size) \in E!Given(b) \cup new
  BY DEF E!Exits, E!Given
<1> QED BY <1>1, <1>2

LEMMA StillStores ==
  ASSUME NEW b, NEW l \in E!Loops
  PROVE  /\ v7'[l] = v7[l] => E!Stores(l, b)' \subseteq E!Given(b)
         /\ v7'[l].at # "legs" => E!Stores(l, b)' = {}
<1>1. E!Stores(l, b) \subseteq E!Given(b) BY DEF E!Given
<1>2. v7'[l] = v7[l] => E!Stores(l, b)' = E!Stores(l, b) BY DEF E!Stores
<1> QED BY <1>1, <1>2 DEF E!Stores

-------------------------------------------------------------------------------
(* A start.                                                                *)

\* The hours on record leave a side and the last hour that changed it, and no exits.
LEMMA WarmUpIs ==
  ASSUME NEW h \in Nat
  PROVE  LET w == E!WarmUp(h) IN
         /\ w.at \in 0..h /\ w.side \in E!Sides \cup {NULL} /\ (w.at # 0 => w.side \in E!Sides)
         /\ w.rows \subseteq E!RowSet /\ \A r \in w.rows : r.of = 0
<1> DEFINE Row(k, sig) == E!Row(sig.signal, sig.side, E!HourTime(k), E!Leg("", 0), 0)
           First == [side |-> NULL, at |-> 0, rows |-> {}]
           Sigs(was, k) == E!Signals(was.side, E!Hour(k).cross)
           Step(was, k) ==
             [side |-> E!SideAfter(was.side, E!Hour(k).cross),
              at   |-> IF Sigs(was, k) = <<>> THEN was.at ELSE k,
              rows |-> was.rows \cup {Row(k, Sigs(was, k)[i]) : i \in 1..Len(Sigs(was, k))}]
           Warm(f, n) == f = [k \in 0..n |-> IF k = 0 THEN First ELSE Step(f[k - 1], k)]
           Good(w, n) ==
             /\ w.at \in 0..n /\ w.side \in E!Sides \cup {NULL} /\ (w.at # 0 => w.side \in E!Sides)
             /\ w.rows \subseteq E!RowSet /\ \A r \in w.rows : r.of = 0
<1>1. E!WarmUp(h) = (CHOOSE f : Warm(f, h))[h] BY DEF E!WarmUp
<1>2. Good(First, 0) BY DEF E!Sides
<1>3. ASSUME NEW w, NEW n \in Nat, Good(w, n) PROVE Good(Step(w, n + 1), n + 1)
  <2> DEFINE cross == E!Hour(n + 1).cross  sigs == E!Signals(w.side, cross)
             to == E!SideAfter(w.side, cross)  s == Step(w, n + 1)
  <2>1. /\ to \in E!Sides \cup {NULL} /\ (sigs = <<>> => to = w.side)
        /\ sigs # <<>> => to \in E!Sides
        /\ \A i \in 1..Len(sigs) : sigs[i] \in E!SigSet
    BY <1>3, SignalsAre
  <2>2. ASSUME NEW sig \in E!SigSet PROVE Row(n + 1, sig) \in E!RowSet /\ Row(n + 1, sig).of = 0
    <3>1. E!HourTime(n + 1) \in Int BY DEF E!HourTime, E!PerHour
    <3> QED BY <3>1 DEF E!Row, E!Leg, E!RowSet, E!SigSet
  <2>3. /\ s.side = to /\ s.at = (IF sigs = <<>> THEN w.at ELSE n + 1)
        /\ s.rows = w.rows \cup {Row(n + 1, sigs[i]) : i \in 1..Len(sigs)}
    OBVIOUS
  <2> HIDE DEF s, to, sigs, Row, Step
  <2>4. s.at \in 0..(n + 1) BY <1>3, <2>3
  <2>5. s.at # 0 => s.side \in E!Sides BY <1>3, <2>1, <2>3
  <2>6. s.rows \subseteq E!RowSet /\ \A r \in s.rows : r.of = 0 BY <1>3, <2>1, <2>2, <2>3
  <2> QED BY <2>1, <2>3, <2>4, <2>5, <2>6 DEF s
<1> HIDE DEF First, Step
<1>4. \E f : Warm(f, h)
  <2> DEFINE T == {n \in Nat : \E f : Warm(f, n)}
  <2>1. 0 \in T
    <3> DEFINE f == [k \in 0..0 |-> First]
    <3>1. Warm(f, 0) OBVIOUS
    <3> QED BY <3>1
  <2>2. ASSUME NEW n \in Nat, n \in T PROVE n + 1 \in T
    <3>1. PICK f : Warm(f, n) BY <2>2
    <3> DEFINE g == [k \in 0..(n + 1) |-> IF k = n + 1 THEN Step(f[n], n + 1) ELSE f[k]]
    <3>2. \A k \in 0..n : f[k] = IF k = 0 THEN First ELSE Step(f[k - 1], k) BY <3>1
    <3>3. \A k \in 0..n : g[k] = f[k] OBVIOUS
    <3>4. g[n + 1] = Step(f[n], n + 1) OBVIOUS
    <3>5. ASSUME NEW k \in 0..(n + 1) PROVE g[k] = IF k = 0 THEN First ELSE Step(g[k - 1], k)
      <4> HIDE DEF g
      <4>1. CASE k = n + 1
        <5>1. k # 0 /\ k - 1 = n /\ g[n] = f[n] BY <2>2, <3>3, <4>1
        <5> QED BY <3>4, <4>1, <5>1
      <4>2. CASE k # n + 1 /\ k # 0
        <5>1. k \in 0..n /\ k - 1 \in 0..n BY <2>2, <4>2
        <5> QED BY <3>2, <3>3, <4>2, <5>1
      <4>3. CASE k = 0
        <5>1. k \in 0..n BY <2>2, <4>3
        <5> QED BY <3>2, <3>3, <4>3, <5>1
      <4> QED BY <4>1, <4>2, <4>3
    <3>6. g = [k \in 0..(n + 1) |-> g[k]] OBVIOUS
    <3> HIDE DEF g
    <3>7. Warm(g, n + 1) BY <3>5, <3>6
    <3> QED BY <3>7
  <2> HIDE DEF Warm, T
  <2>3. Nat \subseteq T BY <2>1, <2>2, Induction
  <2> QED BY <2>3 DEF T
<1>5. PICK f : Warm(f, h) /\ E!WarmUp(h) = f[h]
  <2> HIDE DEF Warm
  <2> QED BY <1>1, <1>4
<1>6. \A k \in 0..h : f[k] = IF k = 0 THEN First ELSE Step(f[k - 1], k) BY <1>5
<1>7. Good(f[h], h)
  <2> DEFINE T == {n \in Nat : n <= h => Good(f[n], n)}
  <2> HIDE DEF Warm, Good
  <2>1. 0 \in T BY <1>2, <1>6
  <2>2. ASSUME NEW n \in Nat, n \in T PROVE n + 1 \in T
    <3>1. CASE ~(n + 1 <= h) BY <3>1
    <3>2. CASE n + 1 <= h
      <4>1. n + 1 \in 0..h /\ n + 1 # 0 /\ (n + 1) - 1 = n /\ n <= h BY <3>2
      <4>2. Good(f[n], n) BY <2>2, <4>1
      <4>3. f[n + 1] = Step(f[n], n + 1) BY <1>6, <4>1
      <4>4. Good(f[n + 1], n + 1) BY <1>3, <4>2, <4>3
      <4> QED BY <4>4
    <3> QED BY <3>1, <3>2
  <2> HIDE DEF T
  <2>3. Nat \subseteq T BY <2>1, <2>2, Induction
  <2>4. h \in T BY <2>3
  <2> QED BY <2>4 DEF T
<1> QED BY <1>5, <1>7

\* The minutes since the entry, run through a bracket: what it has given is in the rows.
LEMMA CatchUpIs ==
  ASSUME E!EngineTypes, NEW b \in E!Brackets, E!GivesOnce(b, {}), NEW from \in 0..v2, NEW of \in Nat
  PROVE  LET c == E!CatchUp(b, from, of) IN
         /\ c.now \in E!Brackets /\ c.now.side = b.side /\ c.rows \subseteq E!RowSet
         /\ \A r \in c.rows : r.of = of /\ r.side = b.side
         /\ E!GivesOnce(c.now, {E!Leg(r.reason, r.size) : r \in c.rows})
<1> DEFINE Row(m, leg) == E!Row("close", b.side, E!MinuteTime(m), leg, of)
           First == [now |-> b, rows |-> {}]
           Fed(was, m) == E!Feed(was.now, E!Bar(m).high, E!Bar(m).low, FALSE)
           Step(was, m) ==
             [now  |-> Fed(was, m).now,
              rows |-> was.rows \cup {Row(m, Fed(was, m).legs[i]) : i \in 1..Len(Fed(was, m).legs)}]
           Caught(f, n) == f = [m \in from..n |-> IF m = from THEN First ELSE Step(f[m - 1], m)]
           Good(c) ==
             /\ c.now \in E!Brackets /\ c.now.side = b.side /\ c.rows \subseteq E!RowSet
             /\ \A r \in c.rows : r.of = of /\ r.side = b.side
             /\ E!GivesOnce(c.now, {E!Leg(r.reason, r.size) : r \in c.rows})
<1>0. v2 \in Nat /\ from \in Nat /\ from <= v2 /\ v2 <= Len(v1.minutes) /\ Len(v1.minutes) \in Nat
  <2>1. v1.minutes \in Seq([high : Int, low : Int, close : Int])
    BY ScriptsAssumption DEF E!EngineTypes
  <2>2. Len(v1.minutes) \in Nat BY <2>1, LenProperties
  <2>3. v2 \in 0..Len(v1.minutes) BY DEF E!EngineTypes
  <2> QED BY <2>2, <2>3
<1>1. E!CatchUp(b, from, of) = (CHOOSE f : Caught(f, v2))[v2] BY DEF E!CatchUp
<1>2. Good(First)
  <2>1. {E!Leg(r.reason, r.size) : r \in {}} = {} OBVIOUS
  <2>2. First.now = b /\ First.rows = {} OBVIOUS
  <2> HIDE DEF First
  <2> QED BY <2>1, <2>2
<1>3. ASSUME NEW c, Good(c), NEW m \in 1..v2 PROVE Good(Step(c, m))
  <2> DEFINE fed == Fed(c, m)  s == Step(c, m)
             outs == {E!Leg(r.reason, r.size) : r \in c.rows}
  <2>1. /\ fed.now \in E!Brackets /\ fed.now.side = b.side /\ fed.legs \in Seq(E!LegSet)
        /\ E!GivesOnce(fed.now, outs \cup Outs(fed.legs))
    <3>1. m \in 1..Len(v1.minutes) BY <1>0
    <3> DEFINE high == E!Bar(m).high  low == E!Bar(m).low  was == c.now
    <3>2. high \in Int /\ low \in Int BY <3>1, BarIs
    <3>3. was \in E!Brackets /\ was.side = b.side /\ E!GivesOnce(was, outs) BY <1>3
    <3>5. fed = E!Feed(was, high, low, FALSE) OBVIOUS
    <3> HIDE DEF outs, fed, high, low, was
    <3>6. Fits(E!Feed(was, high, low, FALSE), was, outs) BY <3>2, <3>3, FeedIs
    <3>4. /\ fed.now \in E!Brackets /\ fed.now.side = was.side /\ fed.legs \in Seq(E!LegSet)
          /\ E!GivesOnce(fed.now, outs \cup Outs(fed.legs))
      BY <3>5, <3>6 DEF Fits
    <3> QED BY <3>3, <3>4
  <2> DEFINE legs == fed.legs
  <2>2. /\ \A i \in 1..Len(legs) : legs[i] \in E!LegSet
        /\ Outs(legs) = {legs[i] : i \in 1..Len(legs)}
    <3> HIDE DEF fed
    <3>1. legs \in Seq(E!LegSet) BY <2>1
    <3> HIDE DEF legs
    <3>2. DOMAIN legs = 1..Len(legs) /\ \A i \in 1..Len(legs) : legs[i] \in E!LegSet
      BY <3>1, ElementOfSeq, LenProperties
    <3> QED BY <3>2 DEF Outs
  <2>3. s.now = fed.now /\ s.rows = c.rows \cup {Row(m, legs[i]) : i \in 1..Len(legs)}
    OBVIOUS
  <2>4. ASSUME NEW leg \in E!LegSet
        PROVE  /\ Row(m, leg) \in E!RowSet /\ Row(m, leg).of = of /\ Row(m, leg).side = b.side
               /\ E!Leg(Row(m, leg).reason, Row(m, leg).size) = leg
    <3>1. E!MinuteTime(m) \in Int BY DEF E!MinuteTime
    <3> QED BY <3>1 DEF E!Row, E!Leg, E!RowSet, E!LegSet, E!Brackets
  <2> HIDE DEF fed, s, legs, Row, Step, Fed
  <2>5. s.rows \subseteq E!RowSet /\ \A r \in s.rows : r.of = of /\ r.side = b.side
    BY <1>3, <2>2, <2>3, <2>4
  <2>6. {E!Leg(r.reason, r.size) : r \in s.rows} \subseteq outs \cup Outs(legs)
    <3>1. ASSUME NEW r \in s.rows PROVE E!Leg(r.reason, r.size) \in outs \cup Outs(legs)
      <4>1. CASE r \in c.rows BY <4>1
      <4>2. ASSUME NEW i \in 1..Len(legs), r = Row(m, legs[i])
            PROVE  E!Leg(r.reason, r.size) \in outs \cup Outs(legs)
        <5>1. E!Leg(r.reason, r.size) = legs[i] BY <2>2, <2>4, <4>2
        <5> QED BY <2>2, <5>1
      <4> QED BY <2>3, <4>1, <4>2
    <3> QED BY <3>1
  <2>7. E!GivesOnce(s.now, {E!Leg(r.reason, r.size) : r \in s.rows})
    <3>1. E!GivesOnce(s.now, outs \cup Outs(legs)) BY <2>1, <2>3 DEF legs
    <3> HIDE DEF outs
    <3> QED BY <2>6, <3>1, FewerGiven
  <2> QED BY <2>1, <2>3, <2>5, <2>7 DEF s
<1> HIDE DEF First, Step
<1>4. \E f : Caught(f, v2)
  <2> DEFINE T == {j \in Nat : \E f : Caught(f, from + j)}
  <2>1. 0 \in T
    <3> DEFINE f == [m \in from..(from + 0) |-> First]
    <3>1. \A m \in from..(from + 0) : m = from BY <1>0
    <3>2. Caught(f, from + 0) BY <3>1
    <3> QED BY <3>2
  <2>2. ASSUME NEW j \in Nat, j \in T PROVE j + 1 \in T
    <3> DEFINE n == from + j
    <3>0. n \in Nat /\ n >= from /\ from + (j + 1) = n + 1 BY <1>0
    <3>1. PICK f : Caught(f, n) BY <2>2
    <3> HIDE DEF n
    <3> DEFINE g == [m \in from..(n + 1) |-> IF m = n + 1 THEN Step(f[n], n + 1) ELSE f[m]]
    <3>2. \A m \in from..n : f[m] = IF m = from THEN First ELSE Step(f[m - 1], m) BY <3>1
    <3>3. \A m \in from..n : g[m] = f[m] BY <1>0, <3>0
    <3>4. g[n + 1] = Step(f[n], n + 1) BY <1>0, <3>0
    <3>5. ASSUME NEW m \in from..(n + 1)
          PROVE  g[m] = IF m = from THEN First ELSE Step(g[m - 1], m)
      <4> HIDE DEF g
      <4>1. CASE m = n + 1
        <5>1. m # from /\ m - 1 = n /\ n \in from..n BY <1>0, <3>0, <4>1
        <5>2. g[n] = f[n] BY <3>3, <5>1
        <5> QED BY <3>4, <4>1, <5>1, <5>2
      <4>2. CASE m # n + 1 /\ m # from
        <5>1. m \in from..n /\ m - 1 \in from..n BY <1>0, <3>0, <4>2
        <5> QED BY <3>2, <3>3, <4>2, <5>1
      <4>3. CASE m = from
        <5>1. m \in from..n BY <1>0, <3>0, <4>3
        <5> QED BY <3>2, <3>3, <4>3, <5>1
      <4> QED BY <4>1, <4>2, <4>3
    <3>6. g = [m \in from..(n + 1) |-> g[m]] OBVIOUS
    <3> HIDE DEF g
    <3>7. Caught(g, n + 1) BY <3>5, <3>6
    <3> QED BY <3>0, <3>7
  <2> HIDE DEF Caught, T
  <2>3. Nat \subseteq T BY <2>1, <2>2, Induction
  <2>4. v2 - from \in Nat /\ from + (v2 - from) = v2 BY <1>0
  <2>5. v2 - from \in T BY <2>3, <2>4
  <2> QED BY <2>4, <2>5 DEF T
<1>5. PICK f : Caught(f, v2) /\ E!CatchUp(b, from, of) = f[v2]
  <2> HIDE DEF Caught
  <2> QED BY <1>1, <1>4
<1>6. \A m \in from..v2 : f[m] = IF m = from THEN First ELSE Step(f[m - 1], m) BY <1>5
<1>7. Good(f[v2])
  <2> DEFINE T == {j \in Nat : from + j <= v2 => Good(f[from + j])}
  <2> HIDE DEF Caught, Good
  <2>1. 0 \in T
    <3>1. from + 0 = from /\ from \in from..v2 BY <1>0
    <3> QED BY <1>2, <1>6, <3>1
  <2>2. ASSUME NEW j \in Nat, j \in T PROVE j + 1 \in T
    <3> DEFINE n == from + j
    <3>0. n \in Nat /\ n >= from /\ from + (j + 1) = n + 1 BY <1>0
    <3>a. n <= v2 => Good(f[n]) BY <2>2
    <3> HIDE DEF n
    <3>1. ASSUME n + 1 <= v2 PROVE Good(f[n + 1])
      <4>1. n + 1 \in from..v2 /\ n + 1 # from /\ (n + 1) - 1 = n /\ n <= v2 /\ n + 1 \in 1..v2
        BY <1>0, <3>0, <3>1
      <4>2. f[n + 1] = Step(f[n], n + 1) BY <1>6, <4>1
      <4> QED BY <1>3, <3>a, <4>1, <4>2
    <3> QED BY <3>0, <3>1
  <2> HIDE DEF T
  <2>3. Nat \subseteq T BY <2>1, <2>2, Induction
  <2>4. v2 - from \in Nat /\ from + (v2 - from) = v2 BY <1>0
  <2>5. v2 - from \in T BY <2>3, <2>4
  <2> QED BY <2>4, <2>5, <1>0 DEF T
<1> QED BY <1>5, <1>7

-------------------------------------------------------------------------------
(* What the steps share.                                                   *)

\* A loop takes a new record: what a bracket has given grows by what the loop holds.
LEMMA GivenKeeps ==
  ASSUME E!EngineInv, NEW l \in E!Loops, NEW r \in E!LoopSet, E!Set(l, r), NEW b, NEW new,
         r.at = "legs" /\ r.of = b => Outs(r.todo) \subseteq E!Given(b) \cup new,
         \A x \in v9' : x.of = b => x \in v9 \/ E!Leg(x.reason, x.size) \in E!Given(b) \cup new
  PROVE  E!Given(b)' \subseteq E!Given(b) \cup new
<1>1. v7 \in [E!Loops -> E!LoopSet] /\ v11 \in BOOLEAN BY DEF E!EngineInv, E!EngineTypes
<1>2. v7'[l] = r /\ \A k \in E!Loops \ {l} : v7'[k] = v7[k] BY <1>1, SetIs
<1>3. ASSUME NEW k \in E!Loops PROVE E!Stores(k, b)' \subseteq E!Given(b) \cup new
  <2>1. CASE k # l BY <1>2, <2>1, StillStores
  <2>2. CASE k = l
    <3>1. E!Stores(l, b)' = IF r.at = "legs" /\ r.of = b THEN Outs(r.todo) ELSE {}
      BY <1>2 DEF E!Stores, Outs
    <3> QED BY <2>2, <3>1
  <2> QED BY <2>1, <2>2
<1> QED BY <1>3, GivenGrows

\* What a loop holds on to stays there, and so does what it takes.
LEMMA FitsStill ==
  ASSUME E!EngineInv, NEW l \in E!Loops, NEW r \in E!LoopSet, E!Set(l, r),
         Len(v6') \in Nat, Len(v6) <= Len(v6'), r.of \in 0..Len(v6'),
         r.at = "read" => r.of # 0,
         r.at = "legs" => r.of # 0 /\ r.todo \in Seq(E!LegSet) \ {<<>>},
         r.at = "legs" /\ l = "entry" => v8'.hour # 0, v8.hour # 0 => v8'.hour # 0,
         r.at = "signals" => r.todo \in Seq(E!SigSet) \ {<<>>}
  PROVE  \A k \in E!Loops : E!LoopFits(k)'
<1>1. v7 \in [E!Loops -> E!LoopSet] /\ v11 \in BOOLEAN /\ v6 \in Seq(E!Brackets)
  BY DEF E!EngineInv, E!EngineTypes
<1>2. v7'[l] = r /\ \A k \in E!Loops \ {l} : v7'[k] = v7[k] BY <1>1, SetIs
<1>3. Len(v6) \in Nat BY <1>1, LenProperties
<1>4. ASSUME NEW k \in E!Loops PROVE E!LoopFits(k)'
  <2>1. CASE k = l BY <1>2, <2>1 DEF E!LoopFits
  <2>2. CASE k # l
    <3>1. v7'[k] = v7[k] /\ E!LoopFits(k) BY <1>2, <2>2 DEF E!EngineInv
    <3>2. \A n \in 0..Len(v6) : n \in 0..Len(v6') BY <1>3
    <3> QED BY <3>1, <3>2 DEF E!LoopFits
  <2> QED BY <2>1, <2>2
<1> QED BY <1>4

\* Records a loop may take.
LEMMA IdleIs == E!Idle \in E!LoopSet /\ E!Idle.at = "idle" /\ E!Idle.of = 0
<1> <<>> \in Seq(E!LegSet) BY EmptySeq
<1> HIDE DEF E!LegSet, E!SigSet
<1> QED BY DEF E!Idle, E!LoopSet

Looking(b) == [E!Idle EXCEPT !.at = "read", !.of = b]
Holding(b, legs, time) == [E!Idle EXCEPT !.at = "legs", !.of = b, !.todo = legs, !.time = time]
Storing(sigs, time, price) ==
  [E!Idle EXCEPT !.at = "signals", !.todo = sigs, !.time = time, !.price = price]

LEMMA LookingIs ==
  ASSUME NEW b \in Nat
  PROVE  Looking(b) \in E!LoopSet /\ Looking(b).at = "read" /\ Looking(b).of = b
<1> HIDE DEF E!LegSet, E!SigSet
<1> QED BY IdleIs DEF E!LoopSet, Looking

LEMMA HoldingIs ==
  ASSUME NEW b \in Nat, NEW legs \in Seq(E!LegSet), NEW time \in Int
  PROVE  LET r == Holding(b, legs, time) IN
         r \in E!LoopSet /\ r.at = "legs" /\ r.of = b /\ r.todo = legs
<1> HIDE DEF E!LegSet, E!SigSet
<1> QED BY IdleIs DEF E!LoopSet, Holding

LEMMA StoringIs ==
  ASSUME NEW sigs \in Seq(E!SigSet), NEW time \in Int, NEW price \in Int
  PROVE  LET r == Storing(sigs, time, price) IN
         r \in E!LoopSet /\ r.at = "signals" /\ r.of = 0 /\ r.todo = sigs
<1> HIDE DEF E!LegSet, E!SigSet
<1> QED BY IdleIs DEF E!LoopSet, Storing

\* evaluate() leaves its loop idle where nothing crossed, or with what crossed to store.
LEMMA EvaluateIs ==
  ASSUME NEW l \in E!Loops, NEW from \in E!Sides \cup {NULL}, NEW cross, NEW time \in Int,
         NEW price \in Int, E!Evaluate(l, from, cross, time, price)
  PROVE  /\ v3' \in E!Sides \cup {NULL}
         /\ \E r \in E!LoopSet :
              /\ E!Set(l, r) /\ r.of = 0
              /\ \/ r.at = "idle" /\ v3' = from
                 \/ /\ r.at = "signals" /\ r.todo \in Seq(E!SigSet) \ {<<>>}
                    /\ r.todo[Len(r.todo)] = [signal |-> "open", side |-> v3']
                    /\ v3' \in E!Sides /\ Len(r.todo) \in {1, 2}
                    /\ Len(r.todo) = 1 => from = NULL
                    /\ Len(r.todo) = 2 => r.todo[1].signal = "close"
<1> DEFINE sigs == E!Signals(from, cross)  r == Storing(sigs, time, price)
<1>1. /\ v3' = E!SideAfter(from, cross)
      /\ IF sigs = <<>> THEN E!Set(l, E!Idle) ELSE E!Set(l, r)
  BY DEF E!Evaluate, Storing
<1>2. /\ v3' \in E!Sides \cup {NULL} /\ (sigs = <<>> => v3' = from)
      /\ sigs # <<>> =>
           /\ v3' \in E!Sides /\ sigs \in Seq(E!SigSet) /\ Len(sigs) \in {1, 2}
           /\ sigs[Len(sigs)] = [signal |-> "open", side |-> v3']
           /\ Len(sigs) = 1 => from = NULL
           /\ Len(sigs) = 2 => sigs[1].signal = "close"
  BY <1>1, SignalsAre
<1>3. sigs \in Seq(E!SigSet) =>
        r \in E!LoopSet /\ r.at = "signals" /\ r.of = 0 /\ r.todo = sigs
  BY StoringIs
<1> HIDE DEF sigs, r
<1>4. CASE sigs = <<>> BY <1>1, <1>2, <1>4, IdleIs
<1>5. CASE sigs # <<>> BY <1>1, <1>2, <1>3, <1>5
<1> QED BY <1>4, <1>5

\* A row that is stored joins those that are there.
LEMMA StoredIs ==
  ASSUME NEW x \in E!RowSet, E!EngineTypes, v9' = E!Stored(v9, x)
  PROVE  v9' \subseteq E!RowSet /\ v9' \subseteq v9 \cup {x}
BY DEF E!Stored, E!EngineTypes

-------------------------------------------------------------------------------
(* The parts of the invariant that a step of the loops leaves to be shown. *)

\* The bars and the rows stay, or grow by a row of no bracket or of one that gave it.
Bars == /\ v1' = v1 /\ v2' = v2 /\ v8' \in [minute : 0..v2, hour : 0..E!Hours]
        /\ v8.hour # 0 => v8'.hour # 0
Kept(l, r) ==
  /\ E!Set(l, r) /\ Bars
  /\ v3' \in E!Sides \cup {NULL} /\ v4' \in 0..Len(v6') /\ v6' \in Seq(E!Brackets)
  /\ Len(v6) <= Len(v6') /\ Len(v6') <= MaxTrades
  /\ \A b \in DOMAIN v6 : v6'[b].side = v6[b].side
  /\ v9' \subseteq E!RowSet /\ v10' \in Nat /\ (v10' = 0 => v10 = 0)
  /\ \A x \in v9' : x \in v9 \/ (x.of = 0)
                     \/ (x.of \in DOMAIN v6 /\ x.side = v6[x.of].side
                           /\ E!Leg(x.reason, x.size) \in E!Given(x.of))
  /\ r.of \in 0..Len(v6') /\ (r.at = "read" => r.of # 0)
  /\ r.at = "legs" => r.of # 0 /\ r.todo \in Seq(E!LegSet) \ {<<>>}
  /\ r.at = "legs" /\ l = "entry" => v8'.hour # 0
  /\ r.at = "signals" => r.todo \in Seq(E!SigSet) \ {<<>>}

LEMMA KeptIs ==
  ASSUME E!EngineInv, NEW l \in E!Loops, NEW r \in E!LoopSet, Kept(l, r)
  PROVE  E!EngineTypes' /\ E!Sided' /\ \A k \in E!Loops : E!LoopFits(k)'
<1>1. /\ v7 \in [E!Loops -> E!LoopSet] /\ v11 \in BOOLEAN /\ v6 \in Seq(E!Brackets)
      /\ v1 \in Scripts /\ v2 \in 0..Len(v1.minutes)
  BY DEF E!EngineInv, E!EngineTypes
<1>2. v7' \in [E!Loops -> E!LoopSet] /\ v11' \in BOOLEAN BY <1>1, SetIs DEF Kept
<1>3. /\ Len(v6) \in Nat /\ Len(v6') \in Nat /\ DOMAIN v6 = 1..Len(v6)
      /\ DOMAIN v6' = 1..Len(v6')
  BY <1>1, LenProperties DEF Kept
<1>4. E!EngineTypes'
  <2>1. E!Hours' = E!Hours BY DEF Kept, Bars, E!Hours
  <2> QED BY <1>1, <1>2, <2>1 DEF E!EngineTypes, Kept, Bars
<1>5. E!Sided'
  <2>1. SUFFICES ASSUME NEW x \in v9'
        PROVE  x.of \in 0..Len(v6') /\ (x.of # 0 => x.side = v6'[x.of].side)
    BY DEF E!Sided
  <2>2. CASE x \in v9
    <3>1. x.of \in 0..Len(v6) /\ (x.of # 0 => x.side = v6[x.of].side)
      BY <2>2 DEF E!EngineInv, E!Sided
    <3> QED BY <1>3, <3>1 DEF Kept
  <2>3. CASE x.of = 0 BY <1>3, <2>3
  <2>4. CASE x.of \in DOMAIN v6 /\ x.side = v6[x.of].side
    BY <1>3, <2>4 DEF Kept
  <2> QED BY <2>2, <2>3, <2>4 DEF Kept
<1>6. \A k \in E!Loops : E!LoopFits(k)' BY <1>3, FitsStill DEF Kept, Bars
<1> QED BY <1>4, <1>5, <1>6

\* No bracket gives anything, and the loop holds no exits but what its bracket has given.
LEMMA GivesStill ==
  ASSUME E!EngineInv, NEW l \in E!Loops, NEW r \in E!LoopSet, Kept(l, r), v6' = v6,
         r.at = "legs" => Outs(r.todo) \subseteq E!Given(r.of)
  PROVE  \A b \in DOMAIN v6' : E!GivesOnce(v6'[b], E!Given(b)')
<1>1. ASSUME NEW b \in DOMAIN v6 PROVE E!GivesOnce(v6[b], E!Given(b)')
  <2>1. b # 0
    <3>1. v6 \in Seq(E!Brackets) BY DEF E!EngineInv, E!EngineTypes
    <3> QED BY <3>1, LenProperties
  <2>2. E!Given(b)' \subseteq E!Given(b) \cup {}
    <3>1. \A x \in v9' : x.of = b => x \in v9 \/ E!Leg(x.reason, x.size) \in E!Given(b) \cup {}
      BY <2>1 DEF Kept
    <3>2. r.at = "legs" /\ r.of = b => Outs(r.todo) \subseteq E!Given(b) \cup {} OBVIOUS
    <3>3. E!Set(l, r) BY DEF Kept
    <3> QED BY <3>1, <3>2, <3>3, GivenKeeps
  <2>3. E!GivesOnce(v6[b], E!Given(b)) BY DEF E!EngineInv
  <2> QED BY <2>2, <2>3, FewerGiven
<1> QED BY <1>1

\* Bracket f has been fed: what it gives now is with the loop.
LEMMA GivesMore ==
  ASSUME E!EngineInv, NEW l \in E!Loops, NEW r \in E!LoopSet, Kept(l, r), v9' = v9,
         NEW f \in DOMAIN v6, NEW now, NEW legs, v6' = [v6 EXCEPT ![f] = now],
         E!GivesOnce(now, E!Given(f) \cup Outs(legs)),
         r.at = "legs" => r.of = f /\ r.todo = legs
  PROVE  \A b \in DOMAIN v6' : E!GivesOnce(v6'[b], E!Given(b)')
<1>1. ASSUME NEW b \in DOMAIN v6 PROVE E!GivesOnce(v6'[b], E!Given(b)')
  <2>1. E!Set(l, r) BY DEF Kept
  <2>2. CASE b = f
    <3>1. E!Given(f)' \subseteq E!Given(f) \cup Outs(legs) BY <2>1, GivenKeeps
    <3>2. v6'[f] = now OBVIOUS
    <3> QED BY <2>2, <3>1, <3>2, FewerGiven
  <2>3. CASE b # f
    <3>1. E!Given(b)' \subseteq E!Given(b) \cup {} BY <2>1, <2>3, GivenKeeps
    <3>2. v6'[b] = v6[b] BY <2>3
    <3>3. E!GivesOnce(v6[b], E!Given(b)) BY DEF E!EngineInv
    <3> QED BY <3>1, <3>2, <3>3, FewerGiven
  <2> QED BY <2>2, <2>3
<1> QED BY <1>1

-------------------------------------------------------------------------------
(* The steps.                                                              *)

LEMMA EngineIs ==
  ASSUME E!EngineInv
  PROVE  /\ v1 \in Scripts /\ v2 \in 0..Len(v1.minutes) /\ v3 \in E!Sides \cup {NULL}
         /\ v4 \in 0..Len(v6) /\ v6 \in Seq(E!Brackets) /\ Len(v6) <= MaxTrades
         /\ v7 \in [E!Loops -> E!LoopSet] /\ v9 \subseteq E!RowSet
         /\ v8 \in [minute : 0..v2, hour : 0..E!Hours] /\ v10 \in Nat /\ v11 \in BOOLEAN
         /\ Len(v6) \in Nat /\ DOMAIN v6 = 1..Len(v6)
<1>1. v6 \in Seq(E!Brackets) BY DEF E!EngineInv, E!EngineTypes
<1> QED BY <1>1, LenProperties DEF E!EngineInv, E!EngineTypes

LEMMA FedIs ==
  ASSUME E!EngineInv, NEW f \in DOMAIN v6, NEW high \in Int, NEW low \in Int, NEW extreme
  PROVE  Fits(E!Feed(v6[f], high, low, extreme), v6[f], E!Given(f))
<1>1. v6[f] \in E!Brackets BY EngineIs, ElementOfSeq
<1>2. E!GivesOnce(v6[f], E!Given(f)) BY DEF E!EngineInv
<1> QED BY <1>1, <1>2, FeedIs

\* A bracket is written back: the others, and how many there are, stay.
LEMMA WrittenBack ==
  ASSUME E!EngineInv, NEW f \in DOMAIN v6, NEW now \in E!Brackets, now.side = v6[f].side,
         v6' = [v6 EXCEPT ![f] = now]
  PROVE  /\ v6' \in Seq(E!Brackets) /\ Len(v6') = Len(v6) /\ v6'[f] = now
         /\ \A b \in DOMAIN v6 : v6'[b].side = v6[b].side /\ (b # f => v6'[b] = v6[b])
<1>1. v6 \in Seq(E!Brackets) /\ Len(v6) \in Nat /\ DOMAIN v6 = 1..Len(v6) BY EngineIs
<1> QED BY <1>1

LEMMA ExitKeeps ==
  ASSUME E!EngineInv, NEW l \in E!Loops, NEW f \in DOMAIN v6, NEW high \in Int, NEW low \in Int,
         NEW extreme, NEW time \in Int, NEW fed, fed = E!Feed(v6[f], high, low, extreme),
         fed.legs # <<>>, E!Exit(l, f, fed, time), v3' = v3, v4' = v4, v9' = v9, v10' = v10, Bars,
         Stands(l) => E!Agree /\ f = v4, l = "entry" => v8'.hour # 0
  PROVE  E!EngineInv'
<1> DEFINE r == Holding(f, fed.legs, time)
<1>0. v6' = [v6 EXCEPT ![f] = fed.now] /\ E!Set(l, r) BY DEF E!Exit, Holding
<1>1. /\ fed.now \in E!Brackets /\ fed.now.side = v6[f].side /\ fed.legs \in Seq(E!LegSet)
      /\ E!GivesOnce(fed.now, E!Given(f) \cup Outs(fed.legs))
  <2>1. Fits(fed, v6[f], E!Given(f)) BY FedIs
  <2> QED BY <2>1 DEF Fits
<1>2. f \in Nat /\ f # 0 /\ f \in 0..Len(v6) BY EngineIs
<1>3. r \in E!LoopSet /\ r.at = "legs" /\ r.of = f /\ r.todo = fed.legs
  BY <1>1, <1>2, HoldingIs
<1> HIDE DEF r
<1>4. /\ v6' \in Seq(E!Brackets) /\ Len(v6') = Len(v6) /\ v6'[f] = fed.now
      /\ \A b \in DOMAIN v6 : v6'[b].side = v6[b].side
  BY <1>0, <1>1, WrittenBack
<1>5. Kept(l, r) BY <1>0, <1>1, <1>2, <1>3, <1>4, EngineIs DEF Kept
<1>6. \A b \in DOMAIN v6' : E!GivesOnce(v6'[b], E!Given(b)')
  BY <1>0, <1>1, <1>3, <1>5, GivesMore
<1>7. E!InTurn'
  <2>1. v7'[l] = r BY <1>0, <1>3, SetIs, EngineIs
  <2>2. Stands(l) => Stands(l)'
    BY <1>2, <1>3, <1>4, <2>1 DEF Stands, E!Turn, E!Agree
  <2> QED BY <1>0, <1>3, <2>2, TurnTaken
<1> QED BY <1>3, <1>5, <1>6, <1>7, KeptIs DEF E!EngineInv

\* A step that leaves loops, rows and position alone, and each bracket's side and end.
LEMMA GivenSame ==
  ASSUME v7' = v7, v9' = v9, NEW b
  PROVE  E!Given(b)' = E!Given(b)
BY DEF E!Given, E!Exits, E!Stores

LEMMA TickKeeps == E!EngineInv /\ E!Tick => E!EngineInv'
<1> SUFFICES ASSUME E!EngineInv, E!Tick PROVE E!EngineInv' OBVIOUS
<1>1. /\ v2' = v2 + 1 /\ v2 < Len(v1.minutes) /\ v1' = v1 /\ v3' = v3 /\ v4' = v4 /\ v6' = v6
      /\ v7' = v7 /\ v8' = v8 /\ v9' = v9 /\ v10' = v10 /\ v11' = v11
  BY DEF E!Tick, E!position
<1>2. v2 \in Nat /\ Len(v1.minutes) \in Nat /\ v2 <= Len(v1.minutes)
  <2>1. v1.minutes \in Seq([high : Int, low : Int, close : Int]) BY EngineIs, ScriptsAssumption
  <2> QED BY <2>1, EngineIs, LenProperties
<1>3. E!EngineTypes'
  <2>1. E!Hours \in Nat /\ E!Hours <= E!Hours' /\ E!Hours' \in Nat
    BY <1>1, <1>2 DEF E!Hours, E!PerHour
  <2>2. v8.minute \in 0..v2 /\ v8.hour \in 0..E!Hours /\ v8 = [minute |-> v8.minute, hour |-> v8.hour]
    BY EngineIs
  <2>3. v8' \in [minute : 0..v2', hour : 0..E!Hours'] BY <1>1, <1>2, <2>1, <2>2
  <2> QED BY <1>1, <1>2, <2>3, EngineIs DEF E!EngineTypes
<1>4. E!Sided' BY <1>1 DEF E!EngineInv, E!Sided
<1>5. E!InTurn' BY <1>1, TurnSame
<1>6. \A l \in E!Loops : E!LoopFits(l)' BY <1>1 DEF E!EngineInv, E!LoopFits
<1>7. \A b \in DOMAIN v6' : E!GivesOnce(v6'[b], E!Given(b)')
  <2>1. \A b : E!Given(b)' = E!Given(b) BY <1>1, GivenSame
  <2> QED BY <1>1, <2>1 DEF E!EngineInv
<1> QED BY <1>3, <1>4, <1>5, <1>6, <1>7 DEF E!EngineInv

\* A loop takes nothing or a bracket to look at, and the brackets and the rows stay.
LEMMA LooksKeeps ==
  ASSUME E!EngineInv, NEW l \in E!Loops, NEW r \in E!LoopSet, E!Set(l, r), Bars, v6' = v6,
         v9' = v9, v10' \in Nat, v10' = 0 => v10 = 0, v3' \in E!Sides \cup {NULL},
         v4' \in 0..Len(v6), r.at \in {"idle", "read", "signals"}, r.of \in 0..Len(v6),
         r.at = "read" => r.of # 0, r.at = "signals" => r.todo \in Seq(E!SigSet) \ {<<>>},
         v10' = 0 /\ Stands(l) => Stands(l)'
  PROVE  E!EngineInv'
<1>1. Kept(l, r) BY EngineIs DEF Kept
<1>2. \A b \in DOMAIN v6' : E!GivesOnce(v6'[b], E!Given(b)') BY <1>1, GivesStill
<1>3. E!InTurn'
  <2>1. CASE v10' = 0 BY <2>1, TurnTaken
  <2>2. CASE v10' # 0 BY <2>2 DEF E!InTurn
  <2> QED BY <2>1, <2>2
<1> QED BY <1>1, <1>2, <1>3, KeptIs DEF E!EngineInv

LEMMA NearPollKeeps == E!EngineInv /\ E!NearPoll => E!EngineInv'
<1> SUFFICES ASSUME E!EngineInv, E!NearPoll PROVE E!EngineInv' OBVIOUS
<1> DEFINE r == Looking(v4)
<1>1. /\ v7["near"].at = "idle" /\ v4 # 0 /\ E!Set("near", r) /\ v1' = v1 /\ v2' = v2 /\ v3' = v3
      /\ v4' = v4 /\ v6' = v6 /\ v8' = v8 /\ v9' = v9 /\ v10' = v10
  BY DEF E!NearPoll, E!Live, E!position, Looking
<1>2. v4 \in Nat /\ v4 \in 0..Len(v6) BY EngineIs
<1>3. r \in E!LoopSet /\ r.at = "read" /\ r.of = v4
  BY <1>2, LookingIs
<1> HIDE DEF r
<1>4. "near" \in E!Loops BY DEF E!Loops
<1>5. v7'["near"] = r BY <1>1, <1>3, <1>4, SetIs, EngineIs
<1>6. Stands("near") => Stands("near")'
  BY <1>1, <1>3, <1>5 DEF Stands, E!Turn, E!Agree
<1>7. Bars BY <1>1, EngineIs DEF Bars
<1> QED BY <1>1, <1>2, <1>3, <1>4, <1>6, <1>7, LooksKeeps, EngineIs

LEMMA NearReadsNothingKeeps == E!EngineInv /\ E!NearReadsNothing => E!EngineInv'
<1> SUFFICES ASSUME E!EngineInv, E!NearReadsNothing PROVE E!EngineInv' OBVIOUS
<1>1. /\ v7["near"].at = "read" /\ E!Set("near", E!Idle) /\ v1' = v1 /\ v2' = v2 /\ v3' = v3
      /\ v4' = v4 /\ v6' = v6 /\ v8' = v8 /\ v9' = v9 /\ v10' = v10
  BY DEF E!NearReadsNothing, E!position
<1>2. "near" \in E!Loops BY DEF E!Loops
<1>3. v7'["near"] = E!Idle BY <1>1, <1>2, IdleIs, SetIs, EngineIs, Zenon
<1>4. Stands("near") => Stands("near")'
  BY <1>1, <1>3, IdleIs DEF Stands, E!Turn, E!Agree
<1>5. Bars BY <1>1, EngineIs DEF Bars
<1>6. 0 \in 0..Len(v6) BY EngineIs
<1> QED BY <1>1, <1>2, <1>4, <1>5, <1>6, LooksKeeps, EngineIs, IdleIs

\* A bracket is fed and gives nothing: it goes on as it was, open or closed.
LEMMA FedKeeps ==
  ASSUME E!EngineInv, NEW l \in E!Loops, NEW r \in E!LoopSet, NEW f \in DOMAIN v6,
         NEW high \in Int, NEW low \in Int, NEW extreme, NEW fed,
         fed = E!Feed(v6[f], high, low, extreme), fed.legs = <<>>,
         v6' = [v6 EXCEPT ![f] = fed.now], E!Set(l, r), Bars, v9' = v9, v10' = v10,
         v3' \in E!Sides \cup {NULL}, v4' \in 0..Len(v6), r.at \in {"idle", "signals"}, r.of = 0,
         r.at = "signals" => r.todo \in Seq(E!SigSet) \ {<<>>},
         Stands(l) => Stands(l)'
  PROVE  E!EngineInv'
<1>1. /\ fed.now \in E!Brackets /\ fed.now.side = v6[f].side /\ fed.legs \in Seq(E!LegSet)
      /\ E!GivesOnce(fed.now, E!Given(f) \cup Outs(fed.legs))
  <2>1. Fits(fed, v6[f], E!Given(f)) BY FedIs
  <2> QED BY <2>1 DEF Fits
<1>2. /\ v6' \in Seq(E!Brackets) /\ Len(v6') = Len(v6)
      /\ \A b \in DOMAIN v6 : v6'[b].side = v6[b].side
  BY <1>1, WrittenBack
<1>3. Kept(l, r) BY <1>2, EngineIs DEF Kept
<1>4. \A b \in DOMAIN v6' : E!GivesOnce(v6'[b], E!Given(b)') BY <1>1, <1>3, GivesMore
<1>5. E!InTurn' BY TurnTaken
<1> QED BY <1>3, <1>4, <1>5, KeptIs DEF E!EngineInv

LEMMA MinuteIs ==
  ASSUME E!EngineInv, NEW m \in Int, 0 <= m, m < v2 \/ m < Len(v1.minutes)
  PROVE  /\ E!Bar(m + 1).high \in Int /\ E!Bar(m + 1).low \in Int /\ E!Bar(m + 1).close \in Int
         /\ E!MinuteTime(m + 1) \in Int
<1>1. v1.minutes \in Seq([high : Int, low : Int, close : Int]) BY EngineIs, ScriptsAssumption
<1>2. v2 \in 0..Len(v1.minutes) /\ Len(v1.minutes) \in Nat BY <1>1, EngineIs, LenProperties
<1>3. m + 1 \in 1..Len(v1.minutes) BY <1>2
<1>4. E!EngineTypes BY DEF E!EngineInv
<1> QED BY <1>3, <1>4, BarIs DEF E!MinuteTime

LEMMA NearReadKeeps == E!EngineInv /\ E!NearRead => E!EngineInv'
<1> SUFFICES ASSUME E!EngineInv, E!NearRead PROVE E!EngineInv' OBVIOUS
<1> DEFINE b == v7["near"].of
<1>1. PICK p \in {E!Bar(v2 + 1).low, E!Bar(v2 + 1).high, E!Bar(v2 + 1).close} :
        LET fed == E!Feed(v6[b], p, p, FALSE) IN
        IF fed.legs # <<>>
        THEN E!Exit("near", b, fed, E!MinuteTime(v2 + 1)) /\ v3' = v3 /\ v4' = v4
        ELSE /\ v6' = [v6 EXCEPT ![b] = fed.now] /\ E!Set("near", E!Idle)
             /\ IF fed.now.closed THEN E!MarkFlat ELSE v3' = v3 /\ v4' = v4
  BY DEF E!NearRead, E!position
<1>2. /\ v7["near"].at = "read" /\ v2 < Len(v1.minutes) /\ v1' = v1 /\ v2' = v2 /\ v8' = v8
      /\ v9' = v9 /\ v10' = v10
  BY DEF E!NearRead
<1>3. "near" \in E!Loops BY DEF E!Loops
<1>4. b \in DOMAIN v6
  <2>1. b \in 0..Len(v6) /\ b # 0 BY <1>2, <1>3 DEF E!EngineInv, E!LoopFits
  <2> QED BY <2>1, EngineIs
<1>5. p \in Int /\ E!MinuteTime(v2 + 1) \in Int
  <2>1. v2 \in Int /\ 0 <= v2 BY EngineIs, HourIs DEF E!EngineInv
  <2> QED BY <1>2, <2>1, MinuteIs
<1>6. Bars BY <1>2, EngineIs DEF Bars
<1>7. Stands("near") => E!Agree /\ b = v4 BY <1>2 DEF Stands, E!Turn
<1> DEFINE fed == E!Feed(v6[b], p, p, FALSE)
<1>a. /\ fed = E!Feed(v6[b], p, p, FALSE)
      /\ IF fed.legs # <<>>
         THEN E!Exit("near", b, fed, E!MinuteTime(v2 + 1)) /\ v3' = v3 /\ v4' = v4
         ELSE /\ v6' = [v6 EXCEPT ![b] = fed.now] /\ E!Set("near", E!Idle)
              /\ IF fed.now.closed THEN E!MarkFlat ELSE v3' = v3 /\ v4' = v4
  BY <1>1
<1>b. /\ E!Feed(v6[b], p, p, FALSE).now \in E!Brackets
      /\ E!Feed(v6[b], p, p, FALSE).now.side = v6[b].side
      /\ E!Feed(v6[b], p, p, FALSE).legs = <<>> =>
           E!Feed(v6[b], p, p, FALSE).now.closed = v6[b].closed
  <2> HIDE DEF b
  <2>1. Fits(E!Feed(v6[b], p, p, FALSE), v6[b], E!Given(b)) BY <1>4, <1>5, FedIs
  <2> QED BY <2>1 DEF Fits
<1>c. fed = E!Feed(v6[b], p, p, FALSE) OBVIOUS
<1> HIDE DEF b, fed
<1>8. CASE fed.legs # <<>>
  <2>1. E!Exit("near", b, fed, E!MinuteTime(v2 + 1)) /\ v3' = v3 /\ v4' = v4 BY <1>a, <1>8
  <2> QED BY <1>a, <1>2, <1>3, <1>4, <1>5, <1>6, <1>7, <1>8, <2>1, ExitKeeps, ZenonT(60)
<1>9. CASE fed.legs = <<>>
  <2>1. /\ v6' = [v6 EXCEPT ![b] = fed.now] /\ E!Set("near", E!Idle)
        /\ IF fed.now.closed THEN v3' = NULL /\ v4' = 0 ELSE v3' = v3 /\ v4' = v4
    BY <1>a, <1>9 DEF E!MarkFlat
  <2>2. fed.now \in E!Brackets /\ fed.now.side = v6[b].side /\ fed.now.closed = v6[b].closed
    BY <1>b, <1>c, <1>9, Zenon
  <2>3. v7'["near"] = E!Idle BY <1>3, <2>1, IdleIs, SetIs, EngineIs, Zenon
  <2>4. Stands("near") => Stands("near")'
    <3>1. v6'[b] = fed.now BY <1>4, <2>1
    <3> QED BY <1>7, <2>1, <2>2, <2>3, <3>1, IdleIs DEF Stands, E!Agree
  <2>5. v3' \in E!Sides \cup {NULL} /\ v4' \in 0..Len(v6) BY <2>1, EngineIs
  <2>7. E!Idle.at \in {"idle", "signals"} /\ ~(E!Idle.at = "signals") BY IdleIs
  <2>8. v6' = [v6 EXCEPT ![b] = fed.now] /\ E!Set("near", E!Idle) BY <2>1
  <2>9. E!Idle \in E!LoopSet /\ E!Idle.of = 0 BY IdleIs
  <2>10. v9' = v9 /\ v10' = v10 /\ p \in Int BY <1>2, <1>5
  <2> QED BY <1>3, <1>4, <1>6, <1>9, <1>c, <2>4, <2>5, <2>7, <2>8, <2>9, <2>10, FedKeeps
<1> QED BY <1>8, <1>9

LEMMA LiveIs ==
  ASSUME E!EngineInv, E!Live
  PROVE  v4 \in DOMAIN v6 /\ ~v6[v4].closed
BY EngineIs DEF E!Live

LEMMA NetBarKeeps == E!EngineInv /\ E!NetBar => E!EngineInv'
<1> SUFFICES ASSUME E!EngineInv, E!NetBar PROVE E!EngineInv' OBVIOUS
<1> DEFINE m == v8.minute + 1  fed == E!Feed(v6[v4], E!Bar(m).high, E!Bar(m).low, FALSE)
<1>1. /\ v7["net"].at = "idle" /\ v8.minute < v2 /\ v8' = [v8 EXCEPT !.minute = m]
      /\ v1' = v1 /\ v2' = v2 /\ v3' = v3 /\ v4' = v4 /\ v9' = v9 /\ v10' = v10
      /\ IF ~E!Live THEN v6' = v6 /\ v7' = v7 /\ v11' = v11
         ELSE IF fed.legs # <<>> THEN E!Exit("net", v4, fed, E!MinuteTime(m))
         ELSE v6' = [v6 EXCEPT ![v4] = fed.now] /\ v7' = v7 /\ v11' = v11
  BY DEF E!NetBar, E!position
<1>2. /\ v2 \in Nat /\ v8.minute \in 0..v2 /\ v8.hour \in 0..E!Hours
      /\ v8 = [minute |-> v8.minute, hour |-> v8.hour]
  BY EngineIs, HourIs DEF E!EngineInv
<1>3. E!Bar(m).high \in Int /\ E!Bar(m).low \in Int /\ E!MinuteTime(m) \in Int
  BY <1>1, <1>2, MinuteIs
<1>4. Bars
  <2>1. v8' = [minute |-> m, hour |-> v8.hour] /\ m \in 0..v2 BY <1>1, <1>2
  <2> QED BY <1>1, <1>2, <2>1 DEF Bars
<1>5. "net" \in E!Loops BY DEF E!Loops
<1>6. fed = E!Feed(v6[v4], E!Bar(m).high, E!Bar(m).low, FALSE) OBVIOUS
<1>7. Stands("net") => E!Agree BY <1>1 DEF Stands
<1> HIDE DEF fed, m
<1>8. CASE E!Live /\ fed.legs # <<>>
  <2>1. E!Exit("net", v4, fed, E!MinuteTime(m)) BY <1>1, <1>8
  <2>2. v4 \in DOMAIN v6 BY <1>8, LiveIs
  <2> QED BY <1>1, <1>3, <1>4, <1>5, <1>6, <1>7, <1>8, <2>1, <2>2, ExitKeeps
<1>9. CASE ~(E!Live /\ fed.legs # <<>>)
  <2>1. /\ v7' = v7 /\ v11' = v11
        /\ v6' = v6 \/ (E!Live /\ fed.legs = <<>> /\ v6' = [v6 EXCEPT ![v4] = fed.now])
    BY <1>1, <1>9
  <2>2. /\ v6' \in Seq(E!Brackets) /\ Len(v6') = Len(v6)
        /\ \A b \in DOMAIN v6 : v6'[b].side = v6[b].side /\ v6'[b].closed = v6[b].closed
                                /\ E!GivesOnce(v6'[b], E!Given(b))
    <3>1. \A b \in DOMAIN v6 : E!GivesOnce(v6[b], E!Given(b)) BY DEF E!EngineInv
    <3>2. CASE v6' = v6 BY <3>1, <3>2, EngineIs
    <3>3. CASE E!Live /\ fed.legs = <<>> /\ v6' = [v6 EXCEPT ![v4] = fed.now]
      <4>1. v4 \in DOMAIN v6 BY <3>3, LiveIs
      <4>2. /\ fed.now \in E!Brackets /\ fed.now.side = v6[v4].side
            /\ fed.now.closed = v6[v4].closed
            /\ E!GivesOnce(fed.now, E!Given(v4) \cup Outs(fed.legs))
        <5>1. Fits(fed, v6[v4], E!Given(v4)) BY <1>3, <1>6, <4>1, FedIs
        <5> QED BY <3>3, <5>1 DEF Fits
      <4>3. E!GivesOnce(fed.now, E!Given(v4)) BY <4>2, FewerGiven
      <4>4. /\ v6' \in Seq(E!Brackets) /\ Len(v6') = Len(v6) /\ v6'[v4] = fed.now
            /\ \A b \in DOMAIN v6 : b # v4 => v6'[b] = v6[b]
        BY <3>3, <4>1, <4>2, WrittenBack
      <4> QED BY <3>1, <4>2, <4>3, <4>4
    <3> QED BY <2>1, <3>2, <3>3
  <2>3. E!InTurn'
    <3>1. v4 # 0 => v4 \in DOMAIN v6 BY EngineIs
    <3> QED BY <1>1, <2>1, <2>2, <3>1, TurnSame
  <2>4. DOMAIN v6' = DOMAIN v6 BY <2>2, EngineIs, LenProperties
  <2>5. \A b \in DOMAIN v6' : E!GivesOnce(v6'[b], E!Given(b)')
    <3>1. \A b : E!Given(b)' = E!Given(b) BY <1>1, <2>1, GivenSame
    <3> QED BY <2>2, <2>4, <3>1
  <2>6. E!EngineTypes'
    <3>1. E!Hours' = E!Hours BY <1>1 DEF E!Hours
    <3> QED BY <1>1, <1>4, <2>1, <2>2, <3>1, EngineIs DEF E!EngineTypes, Bars
  <2>7. E!Sided'
    <3>1. \A x \in v9 : x.of \in 0..Len(v6) /\ (x.of # 0 => x.side = v6[x.of].side)
      BY DEF E!EngineInv, E!Sided
    <3>2. \A x \in v9 : x.of # 0 => x.of \in DOMAIN v6 BY <3>1, EngineIs
    <3> QED BY <1>1, <2>2, <3>1, <3>2 DEF E!Sided
  <2>8. \A l \in E!Loops : E!LoopFits(l)'
    <3>1. v8'.hour = v8.hour BY <1>1, <1>2
    <3> QED BY <2>1, <2>2, <3>1 DEF E!EngineInv, E!LoopFits
  <2> QED BY <2>3, <2>5, <2>6, <2>7, <2>8 DEF E!EngineInv
<1> QED BY <1>8, <1>9

\* evaluate(), with the bracket as it is or with the one fed that gave nothing.
LEMMA EvaluatedStands ==
  ASSUME E!EngineInv, NEW l \in E!Loops, NEW from \in E!Sides \cup {NULL}, NEW r \in E!LoopSet,
         E!Set(l, r), v4' \in Nat,
         \/ r.at = "idle" /\ v3' = from
         \/ /\ r.at = "signals" /\ r.todo[Len(r.todo)] = [signal |-> "open", side |-> v3']
            /\ Len(r.todo) \in {1, 2}
            /\ Len(r.todo) = 1 => from = NULL
            /\ Len(r.todo) = 2 => r.todo[1].signal = "close",
         IF v4' = 0 THEN from = NULL
         ELSE from \in E!Sides /\ from = v6'[v4'].side /\ ~v6'[v4'].closed
  PROVE  Stands(l)'
<1>1. v7'[l] = r BY SetIs, EngineIs
<1>2. NULL \notin E!Sides BY ScriptsAssumption DEF E!Sides
<1> QED BY <1>1, <1>2 DEF Stands, E!Turn, E!Agree

LEMMA IntraPollKeeps == E!EngineInv /\ E!IntraPoll => E!EngineInv'
<1> SUFFICES ASSUME E!EngineInv, E!IntraPoll PROVE E!EngineInv' OBVIOUS
<1> DEFINE h == E!Hours + 1
<1>1. /\ v7["intra"].at = "idle" /\ v2 < Len(v1.minutes)
      /\ E!Evaluate("intra", v3, E!Hour(h).cross, E!HourTime(h), E!Bar(v2 + 1).close)
      /\ v1' = v1 /\ v2' = v2 /\ v4' = v4 /\ v6' = v6 /\ v8' = v8 /\ v9' = v9 /\ v10' = v10
  BY DEF E!IntraPoll
<1>2. v2 \in Nat /\ E!Hours \in Nat BY HourIs DEF E!EngineInv
<1>3. E!HourTime(h) \in Int /\ E!Bar(v2 + 1).close \in Int
  BY <1>1, <1>2, MinuteIs DEF E!HourTime, E!PerHour
<1>4. "intra" \in E!Loops /\ v3 \in E!Sides \cup {NULL} BY EngineIs DEF E!Loops
<1> HIDE DEF h
<1>5. PICK r \in E!LoopSet :
        /\ v3' \in E!Sides \cup {NULL} /\ E!Set("intra", r) /\ r.of = 0
        /\ \/ r.at = "idle" /\ v3' = v3
           \/ /\ r.at = "signals" /\ r.todo \in Seq(E!SigSet) \ {<<>>}
              /\ r.todo[Len(r.todo)] = [signal |-> "open", side |-> v3']
              /\ v3' \in E!Sides /\ Len(r.todo) \in {1, 2}
              /\ Len(r.todo) = 1 => v3 = NULL
              /\ Len(r.todo) = 2 => r.todo[1].signal = "close"
  BY <1>1, <1>3, <1>4, EvaluateIs
<1>6. Stands("intra") => Stands("intra")'
  <2> SUFFICES ASSUME Stands("intra") PROVE Stands("intra")' OBVIOUS
  <2>1. E!Agree BY <1>1 DEF Stands
  <2>2. IF v4' = 0 THEN v3 = NULL
        ELSE v3 \in E!Sides /\ v3 = v6'[v4'].side /\ ~v6'[v4'].closed
    <3>1. v4 # 0 => v6[v4].side \in E!Sides
      <4>1. v4 # 0 => v6[v4] \in E!Brackets BY EngineIs, ElementOfSeq
      <4> QED BY <4>1 DEF E!Brackets
    <3> QED BY <1>1, <2>1, <3>1 DEF E!Agree
  <2>3. v4' \in Nat BY <1>1, EngineIs
  <2> QED BY <1>4, <1>5, <2>2, <2>3, EvaluatedStands
<1>7. Bars BY <1>1, EngineIs DEF Bars
<1>8. /\ r.at \in {"idle", "read", "signals"} /\ r.of \in 0..Len(v6) /\ (r.at = "read" => r.of # 0)
      /\ r.at = "signals" => r.todo \in Seq(E!SigSet) \ {<<>>}
  BY <1>5, EngineIs
<1> QED BY <1>1, <1>4, <1>5, <1>6, <1>7, <1>8, LooksKeeps, EngineIs

\* What a new bracket has.
LEMMA NewBracketIs ==
  ASSUME NEW s \in E!Sides, NEW entry \in Int
  PROVE  /\ E!NewBracket(s, entry) \in E!Brackets /\ E!NewBracket(s, entry).side = s
         /\ ~E!NewBracket(s, entry).closed /\ E!GivesOnce(E!NewBracket(s, entry), {})
BY DEF E!NewBracket, E!Brackets, E!GivesOnce, E!Part, E!Stop

\* Another bracket is made: no row and no loop knows it yet, and the others stay as they are.
LEMMA AnotherIs ==
  ASSUME E!EngineInv, NEW new \in E!Brackets, v6' = Append(v6, new)
  PROVE  /\ v6' \in Seq(E!Brackets) /\ Len(v6') = Len(v6) + 1 /\ v6'[Len(v6) + 1] = new
         /\ DOMAIN v6' = DOMAIN v6 \cup {Len(v6) + 1} /\ \A b \in DOMAIN v6 : v6'[b] = v6[b]
         /\ E!Given(Len(v6) + 1) = {}
<1>1. v6 \in Seq(E!Brackets) /\ Len(v6) \in Nat /\ DOMAIN v6 = 1..Len(v6) BY EngineIs
<1>2. /\ v6' \in Seq(E!Brackets) /\ Len(v6') = Len(v6) + 1 /\ v6'[Len(v6) + 1] = new
      /\ \A b \in DOMAIN v6 : v6'[b] = v6[b]
  BY <1>1, AppendProperties
<1>3. DOMAIN v6' = DOMAIN v6 \cup {Len(v6) + 1} BY <1>1, <1>2, LenProperties
<1>4. \A x \in v9 : x.of # Len(v6) + 1 BY <1>1 DEF E!EngineInv, E!Sided
<1>5. \A l \in E!Loops : v7[l].of # Len(v6) + 1 BY <1>1 DEF E!EngineInv, E!LoopFits
<1>6. E!Exits(Len(v6) + 1) = {} BY <1>4 DEF E!Exits
<1>7. \A l \in E!Loops : E!Stores(l, Len(v6) + 1) = {} BY <1>5 DEF E!Stores
<1> QED BY <1>2, <1>3, <1>6, <1>7 DEF E!Given

\* A loop goes on with what is left of its list.
LEMMA GoesOnIs ==
  ASSUME E!EngineInv, NEW l \in E!Loops, NEW S \in {E!LegSet, E!SigSet}, v7[l].todo \in Seq(S),
         v7[l].todo # <<>>, Len(v7[l].todo) # 1
  PROVE  LET r == [v7[l] EXCEPT !.todo = Tail(@)] IN
         /\ r \in E!LoopSet /\ r.at = v7[l].at /\ r.of = v7[l].of /\ r.time = v7[l].time
         /\ r.todo = Tail(v7[l].todo) /\ r.todo \in Seq(S) \ {<<>>}
<1> DEFINE t == Tail(v7[l].todo)
<1>1. t \in Seq(S) /\ Len(t) \in Nat \ {0} BY TailIs
<1>2. t # <<>> BY <1>1, EmptySeq
<1>3. v7[l] \in E!LoopSet BY EngineIs
<1>4. t \in Seq(E!LegSet) \cup Seq(E!SigSet) BY <1>1
<1> HIDE DEF t, E!LegSet, E!SigSet
<1>5. LET r == [v7[l] EXCEPT !.todo = t] IN
      /\ r \in E!LoopSet /\ r.at = v7[l].at /\ r.of = v7[l].of /\ r.time = v7[l].time /\ r.todo = t
  BY <1>3, <1>4 DEF E!LoopSet
<1> QED BY <1>1, <1>2, <1>5 DEF t

LEMMA StoreSignalKeeps == ASSUME NEW l \in E!Loops PROVE E!EngineInv /\ E!StoreSignal(l) => E!EngineInv'
<1> SUFFICES ASSUME E!EngineInv, E!StoreSignal(l) PROVE E!EngineInv' OBVIOUS
<1> DEFINE it == v7[l]  sig == Head(it.todo)  rest == [it EXCEPT !.todo = Tail(@)]
           r == IF Len(it.todo) = 1 THEN E!Idle ELSE rest
           x == E!Row(sig.signal, sig.side, it.time, E!Leg("", 0), 0)
           new == E!NewBracket(sig.side, it.price)
<1>1. /\ it.at = "signals" /\ v9' = E!Stored(v9, x) /\ E!Set(l, r)
      /\ IF sig.signal = "close" THEN v4' = 0 /\ v3' = v3 /\ v6' = v6
         ELSE /\ Len(v6) < MaxTrades /\ v6' = Append(v6, new) /\ v4' = Len(v6) + 1 /\ v3' = v3
      /\ v1' = v1 /\ v2' = v2 /\ v8' = v8 /\ v10' = v10
  BY DEF E!StoreSignal, E!ClearBracket
<1>2. it.todo \in Seq(E!SigSet) /\ it.todo # <<>> /\ it \in E!LoopSet
  BY <1>1, EngineIs DEF E!EngineInv, E!LoopFits
<1> HIDE DEF it
<1>3. /\ sig = it.todo[1] /\ sig \in E!SigSet /\ Len(it.todo) \in Nat \ {0}
      /\ Len(Tail(it.todo)) = Len(it.todo) - 1
      /\ \A i \in DOMAIN Tail(it.todo) : i + 1 \in DOMAIN it.todo /\ Tail(it.todo)[i] = it.todo[i + 1]
  <2> HIDE DEF E!SigSet
  <2> QED BY <1>2, TailIs
<1>4. it.time \in Int /\ it.price \in Int BY <1>2 DEF E!LoopSet
<1>5. sig.side \in E!Sides /\ sig.signal \in {"open", "close"} BY <1>3 DEF E!SigSet
<1>6. x \in E!RowSet /\ x.of = 0
  <2> HIDE DEF sig
  <2> QED BY <1>4, <1>5 DEF E!Row, E!Leg, E!RowSet
<1>7. new \in E!Brackets /\ new.side = sig.side /\ ~new.closed /\ E!GivesOnce(new, {})
  BY <1>4, <1>5, NewBracketIs
<1>8. /\ r \in E!LoopSet /\ r.of \in 0..Len(v6) /\ r.at \in {"idle", "signals"}
      /\ r.at = "idle" => Len(it.todo) = 1
      /\ r.at = "signals" =>
           r.todo \in Seq(E!SigSet) \ {<<>>} /\ r.todo = Tail(it.todo) /\ Len(it.todo) # 1
  <2>1. 0 \in 0..Len(v6) BY EngineIs
  <2>2. CASE Len(it.todo) = 1 BY <2>1, <2>2, IdleIs
  <2>3. CASE Len(it.todo) # 1
    <3>1. /\ rest \in E!LoopSet /\ rest.at = it.at /\ rest.of = it.of
          /\ rest.todo = Tail(it.todo) /\ rest.todo \in Seq(E!SigSet) \ {<<>>}
      BY <1>2, <2>3, GoesOnIs DEF it
    <3>2. it.of \in 0..Len(v6) BY DEF it, E!EngineInv, E!LoopFits
    <3> HIDE DEF rest
    <3> QED BY <1>1, <2>3, <3>1, <3>2
  <2> QED BY <2>2, <2>3
<1> HIDE DEF sig, rest, r, x, new
<1>9. v9' \subseteq E!RowSet /\ v9' \subseteq v9 \cup {x} BY <1>1, <1>6, StoredIs DEF E!EngineInv
<1>10. Bars BY <1>1, EngineIs DEF Bars
<1>11. /\ v3' \in E!Sides \cup {NULL} /\ v4' \in 0..Len(v6') /\ v6' \in Seq(E!Brackets)
       /\ Len(v6) <= Len(v6') /\ Len(v6') <= MaxTrades /\ Len(v6') \in Nat
       /\ \A b \in DOMAIN v6 : v6'[b].side = v6[b].side
  <2>1. CASE sig.signal = "close" BY <1>1, <2>1, EngineIs
  <2>2. CASE sig.signal # "close"
    <3>1. v6' = Append(v6, new) /\ v4' = Len(v6) + 1 /\ v3' = v3 /\ Len(v6) < MaxTrades
      BY <1>1, <2>2
    <3>2. /\ v6' \in Seq(E!Brackets) /\ Len(v6') = Len(v6) + 1
          /\ \A b \in DOMAIN v6 : v6'[b] = v6[b]
      BY <1>7, <3>1, AnotherIs
    <3>3. MaxTrades \in Nat /\ Len(v6) \in Nat BY EngineIs, ScriptsAssumption
    <3> QED BY <3>1, <3>2, <3>3, EngineIs
  <2> QED BY <2>1, <2>2
<1>12. Kept(l, r)
  <2>1. \A n \in 0..Len(v6) : n \in 0..Len(v6') BY <1>11, EngineIs
  <2> QED BY <1>1, <1>6, <1>8, <1>9, <1>10, <1>11, <2>1, EngineIs DEF Kept
<1>13. \A b \in DOMAIN v6' : E!GivesOnce(v6'[b], E!Given(b)')
  <2>1. CASE sig.signal = "close" BY <1>1, <1>8, <1>12, <2>1, GivesStill
  <2>2. CASE sig.signal # "close"
    <3>1. v6' = Append(v6, new) BY <1>1, <2>2
    <3>0. PICK n \in Nat : n = Len(v6) + 1 BY EngineIs
    <3>2. /\ v6'[n] = new /\ DOMAIN v6' = DOMAIN v6 \cup {n} /\ \A b \in DOMAIN v6 : v6'[b] = v6[b]
          /\ E!Given(n) = {}
      BY <1>7, <3>0, <3>1, AnotherIs
    <3>3. \A b \in DOMAIN v6 \cup {n} : b # 0 BY <3>0, EngineIs
    <3>4. ASSUME NEW b \in DOMAIN v6 \cup {n} PROVE E!Given(b)' \subseteq E!Given(b) \cup {}
      <4>1. \A y \in v9' : y.of = b => y \in v9 \/ E!Leg(y.reason, y.size) \in E!Given(b) \cup {}
        BY <1>6, <1>9, <3>3
      <4>2. ~(r.at = "legs") BY <1>8
      <4> QED BY <1>1, <1>8, <4>1, <4>2, GivenKeeps
    <3>5. ASSUME NEW b \in DOMAIN v6 PROVE E!GivesOnce(v6'[b], E!Given(b)')
      <4>1. E!GivesOnce(v6[b], E!Given(b)) BY DEF E!EngineInv
      <4> QED BY <3>2, <3>4, <4>1, FewerGiven
    <3>6. E!GivesOnce(v6'[n], E!Given(n)')
      <4>1. E!Given(n)' \subseteq {} BY <3>2, <3>4
      <4> QED BY <1>7, <3>2, <4>1, FewerGiven
    <3> QED BY <3>2, <3>5, <3>6
  <2> QED BY <2>1, <2>2
<1>14. E!InTurn'
  <2>1. v7'[l] = r BY <1>1, <1>8, SetIs, EngineIs
  <2>2. ASSUME Stands(l) PROVE Stands(l)'
    <3>1. /\ it.todo[Len(it.todo)] = [signal |-> "open", side |-> v3]
          /\ IF Len(it.todo) = 1 THEN v4 = 0
             ELSE Len(it.todo) = 2 /\ it.todo[1].signal = "close"
      BY <1>1, <2>2 DEF Stands, E!Turn, it
    <3>2. CASE Len(it.todo) = 1
      <4>1. sig.signal = "open" /\ sig.side = v3 BY <1>3, <3>1, <3>2
      <4>2. v6' = Append(v6, new) /\ v4' = Len(v6) + 1 /\ v3' = v3 BY <1>1, <4>1
      <4>3. v6'[v4'] = new /\ v4' # 0
        <5>1. v6' = Append(v6, new) /\ new \in E!Brackets BY <1>7, <4>2
        <5>2. v6'[Len(v6) + 1] = new BY <5>1, AnotherIs, Zenon
        <5>3. Len(v6) \in Nat /\ v4' = Len(v6) + 1 BY <4>2, EngineIs
        <5> QED BY <5>2, <5>3
      <4>4. r.at = "idle" BY <1>8, <3>2
      <4> QED BY <1>7, <2>1, <4>1, <4>2, <4>3, <4>4 DEF Stands, E!Agree
    <3>3. CASE Len(it.todo) # 1
      <4>1. sig.signal = "close" /\ Len(it.todo) = 2 BY <1>3, <3>1, <3>3
      <4>2. v4' = 0 /\ v3' = v3 BY <1>1, <4>1
      <4>3. r.at = "signals" /\ r.todo = Tail(it.todo) BY <1>8, <3>3
      <4>4. Len(r.todo) = 1 /\ r.todo[1] = it.todo[2]
        <5>1. Len(Tail(it.todo)) = 1 BY <1>3, <4>1
        <5>2. Tail(it.todo) \in Seq(E!SigSet) BY <1>8, <4>3
        <5>3. 1 \in DOMAIN Tail(it.todo) BY <5>1, <5>2, LenProperties
        <5> QED BY <1>3, <4>3, <5>1, <5>3
      <4>5. r.todo[Len(r.todo)] = [signal |-> "open", side |-> v3'] BY <3>1, <4>1, <4>2, <4>4
      <4> QED BY <2>1, <4>2, <4>3, <4>4, <4>5 DEF Stands, E!Turn
    <3> QED BY <3>2, <3>3
  <2> QED BY <1>1, <1>8, <2>2, TurnTaken
<1> QED BY <1>8, <1>12, <1>13, <1>14, KeptIs DEF E!EngineInv

\* A store that fails: the loop gives up its turn, and the turns no longer count.
LEMMA FailsKeeps ==
  ASSUME NEW l \in E!Loops
  PROVE  E!EngineInv /\ (E!StoreLegFails(l) \/ E!StoreSignalFails) => E!EngineInv'
<1> SUFFICES ASSUME E!EngineInv, E!StoreLegFails(l) \/ E!StoreSignalFails PROVE E!EngineInv' OBVIOUS
<1>1. /\ E!Set(l, E!Idle) \/ E!Set("intra", E!Idle)
      /\ v1' = v1 /\ v2' = v2 /\ v3' = v3 /\ v4' = v4 /\ v6' = v6 /\ v8' = v8 /\ v9' = v9
      /\ v10' = v10 + 1
  BY DEF E!StoreLegFails, E!StoreSignalFails, E!Fault, E!position
<1>2. v10' \in Nat /\ v10' # 0 BY <1>1, EngineIs
<1>3. Bars BY <1>1, EngineIs DEF Bars
<1>4. PICK k \in E!Loops : E!Set(k, E!Idle) BY <1>1 DEF E!Loops
<1>5. 0 \in 0..Len(v6) BY EngineIs
<1> QED BY <1>1, <1>2, <1>3, <1>4, <1>5, LooksKeeps, EngineIs, IdleIs

\* evaluate() at the end of an hour: whatever it leaves to store, the bars and brackets stay.
LEMMA EntriesIs ==
  ASSUME E!EngineInv, NEW from \in E!Sides \cup {NULL}, NEW h \in 1..E!Hours, E!EntriesAt(from, h)
  PROVE  /\ v3' \in E!Sides \cup {NULL}
         /\ \E r \in E!LoopSet :
              /\ E!Set("entry", r) /\ r.of = 0
              /\ \/ r.at = "idle" /\ v3' = from
                 \/ /\ r.at = "signals" /\ r.todo \in Seq(E!SigSet) \ {<<>>}
                    /\ r.todo[Len(r.todo)] = [signal |-> "open", side |-> v3']
                    /\ v3' \in E!Sides /\ Len(r.todo) \in {1, 2}
                    /\ Len(r.todo) = 1 => from = NULL
                    /\ Len(r.todo) = 2 => r.todo[1].signal = "close"
<1> DEFINE cross == IF v1.intrabar THEN "none" ELSE E!Hour(h).cross
<1>1. E!Evaluate("entry", from, cross, E!HourTime(h), E!CloseOf(h)) BY DEF E!EntriesAt
<1>2. E!HourTime(h) \in Int /\ E!CloseOf(h) \in Int
  <2>1. h \in 0..E!Hours BY HourIs DEF E!EngineInv
  <2> QED BY <2>1, HourIs DEF E!EngineInv
<1>3. "entry" \in E!Loops BY DEF E!Loops
<1> HIDE DEF cross
<1> QED BY <1>1, <1>2, <1>3, EvaluateIs

LEMMA StoreLegKeeps == ASSUME NEW l \in E!Loops PROVE E!EngineInv /\ E!StoreLeg(l) => E!EngineInv'
<1> SUFFICES ASSUME E!EngineInv, E!StoreLeg(l) PROVE E!EngineInv' OBVIOUS
<1> DEFINE it == v7[l]  closed == v6[it.of].closed  leg == Head(it.todo)
           rest == [it EXCEPT !.todo = Tail(@)]
           x == E!Row("close", v6[it.of].side, it.time, leg, it.of)
           from == IF closed THEN NULL ELSE v3
<1>1. /\ it.at = "legs" /\ v9' = E!Stored(v9, x)
      /\ IF Len(it.todo) > 1 THEN E!Set(l, rest) /\ v3' = v3 /\ v4' = v4
         ELSE IF l = "entry"
         THEN /\ E!EntriesAt(from, v8.hour)
              /\ IF closed THEN v4' = 0 ELSE v4' = v4
         ELSE E!Set(l, E!Idle) /\ IF closed THEN v3' = NULL /\ v4' = 0 ELSE v3' = v3 /\ v4' = v4
      /\ v1' = v1 /\ v2' = v2 /\ v6' = v6 /\ v8' = v8 /\ v10' = v10
  BY DEF E!StoreLeg, E!ExitRow, E!SideOf, E!MarkFlat, E!position
<1>2. /\ it.todo \in Seq(E!LegSet) /\ it.todo # <<>> /\ it \in E!LoopSet /\ it.of \in 0..Len(v6)
      /\ it.of # 0 /\ (l = "entry" => v8.hour # 0)
  BY <1>1, EngineIs DEF E!EngineInv, E!LoopFits
<1>3. leg = it.todo[1] /\ leg \in E!LegSet /\ Len(it.todo) \in Nat \ {0} /\ 1 \in DOMAIN it.todo
  <2> HIDE DEF E!LegSet, it
  <2> QED BY <1>2, TailIs
<1>4. it.of \in DOMAIN v6 /\ v6[it.of] \in E!Brackets
  <2>1. it.of \in DOMAIN v6 BY <1>2, EngineIs
  <2> QED BY <2>1, EngineIs, ElementOfSeq
<1>5. leg \in E!Given(it.of)
  <2>1. leg \in E!Stores(l, it.of) BY <1>1, <1>3 DEF E!Stores
  <2> QED BY <2>1 DEF E!Given
<1> HIDE DEF it, leg, rest
<1>6. /\ x \in E!RowSet /\ x.of = it.of /\ x.side = v6[it.of].side
      /\ E!Leg(x.reason, x.size) = leg
  <2>1. it.time \in Int /\ it.of \in Nat /\ v6[it.of].side \in E!Sides
    BY <1>2, <1>4 DEF E!LoopSet, E!Brackets
  <2> QED BY <1>3, <2>1 DEF E!Row, E!Leg, E!RowSet, E!LegSet
<1> HIDE DEF x
<1>7. v9' \subseteq E!RowSet /\ v9' \subseteq v9 \cup {x} BY <1>1, <1>6, StoredIs DEF E!EngineInv
<1>8. Bars BY <1>1, EngineIs DEF Bars
<1>9. \A y \in v9' : y \in v9 \/ (y.of \in DOMAIN v6 /\ y.side = v6[y.of].side
                                   /\ E!Leg(y.reason, y.size) \in E!Given(y.of))
  BY <1>4, <1>5, <1>6, <1>7
\* So a record that asks for nothing new leaves only the turns to be looked at.
<1>10. ASSUME NEW r \in E!LoopSet, E!Set(l, r), v3' \in E!Sides \cup {NULL}, v4' \in {0, v4},
              r.of \in 0..Len(v6), r.at # "read",
              r.at = "legs" => r.of # 0 /\ r.todo \in Seq(E!LegSet) \ {<<>>}
                               /\ Outs(r.todo) \subseteq E!Given(r.of) /\ (l = "entry" => v8.hour # 0),
              r.at = "signals" => r.todo \in Seq(E!SigSet) \ {<<>>},
              Stands(l) => Stands(l)'
       PROVE  E!EngineInv'
  <2>1. v4' \in 0..Len(v6) BY <1>10, EngineIs
  <2>2. Kept(l, r) BY <1>1, <1>7, <1>8, <1>9, <1>10, <2>1, EngineIs DEF Kept
  <2>3. \A b \in DOMAIN v6' : E!GivesOnce(v6'[b], E!Given(b)') BY <1>1, <1>10, <2>2, GivesStill
  <2>4. E!InTurn' BY <1>1, <1>10, TurnTaken
  <2> QED BY <1>10, <2>2, <2>3, <2>4, KeptIs DEF E!EngineInv
<1>11. Stands(l) => it.of = v4 /\ v3 = v6[v4].side
  BY <1>1 DEF Stands, E!Turn, it
<1>12. 0 \in 0..Len(v6) /\ v3 \in E!Sides \cup {NULL} /\ NULL \notin E!Sides
  BY EngineIs, ScriptsAssumption DEF E!Sides
<1>13. v6[it.of].side \in E!Sides BY <1>4 DEF E!Brackets
<1>14. CASE Len(it.todo) > 1
  <2>1. E!Set(l, rest) /\ v3' = v3 /\ v4' = v4 BY <1>1, <1>14
  <2>2. /\ rest \in E!LoopSet /\ rest.at = "legs" /\ rest.of = it.of
        /\ rest.todo = Tail(it.todo) /\ rest.todo \in Seq(E!LegSet) \ {<<>>}
    <3>a. Len(it.todo) # 1
      <4>1. ~(1 > 1) OBVIOUS
      <4> QED BY <1>14, <4>1, Zenon
    <3>1. it.todo \in Seq(E!LegSet) /\ it.todo # <<>> /\ Len(it.todo) # 1 BY <1>2, <3>a, Zenon
    <3>2. rest = [v7[l] EXCEPT !.todo = Tail(@)] /\ it = v7[l] BY DEF it, rest
    <3>3. /\ rest \in E!LoopSet /\ rest.at = it.at /\ rest.of = it.of
          /\ rest.todo = Tail(it.todo) /\ rest.todo \in Seq(E!LegSet) \ {<<>>}
      BY <3>1, <3>2, GoesOnIs, Zenon
    <3> QED BY <1>1, <3>3
  <2>3. Outs(rest.todo) \subseteq E!Given(it.of)
    <3>1. \A i \in DOMAIN Tail(it.todo) : i + 1 \in DOMAIN it.todo /\ Tail(it.todo)[i] = it.todo[i + 1]
      <4> HIDE DEF E!LegSet
      <4> QED BY <1>2, TailIs
    <3>2. Outs(rest.todo) \subseteq E!Stores(l, it.of) BY <1>1, <2>2, <3>1 DEF Outs, E!Stores, it
    <3> QED BY <3>2 DEF E!Given
  <2>4. Stands(l) => Stands(l)'
    <3>1. v7'[l] = rest BY <2>1, <2>2, SetIs, EngineIs
    <3> QED BY <1>1, <1>11, <2>1, <2>2, <3>1 DEF Stands, E!Turn
  <2> QED BY <1>2, <1>10, <1>12, <2>1, <2>2, <2>3, <2>4
<1>15. CASE ~(Len(it.todo) > 1) /\ l # "entry"
  <2>1. E!Set(l, E!Idle) /\ IF closed THEN v3' = NULL /\ v4' = 0 ELSE v3' = v3 /\ v4' = v4
    BY <1>1, <1>15
  <2>2. Stands(l) => Stands(l)'
    <3>1. v7'[l] = E!Idle BY <2>1, IdleIs, SetIs, EngineIs, Zenon
    <3> QED BY <1>1, <1>2, <1>11, <2>1, <3>1, IdleIs DEF Stands, E!Agree
  <2>3. v3' \in E!Sides \cup {NULL} /\ v4' \in {0, v4} BY <1>12, <2>1
  <2>4. E!Idle \in E!LoopSet /\ E!Idle.of \in 0..Len(v6) /\ E!Idle.at = "idle" BY <1>12, IdleIs
  <2> HIDE DEF closed
  <2> QED BY <1>10, <2>1, <2>2, <2>3, <2>4
<1>16. CASE ~(Len(it.todo) > 1) /\ l = "entry"
  <2>1. E!EntriesAt(from, v8.hour) /\ IF closed THEN v4' = 0 ELSE v4' = v4 BY <1>1, <1>16
  <2>2. from \in E!Sides \cup {NULL} BY <1>12
  <2>3. v8.hour \in 1..E!Hours BY <1>2, <1>16, EngineIs, HourIs DEF E!EngineInv
  <2>4. closed => from = NULL /\ v4' = 0 BY <2>1
  <2>5. ~closed => from = v3 /\ v4' = v4 BY <2>1
  <2> HIDE DEF from
  <2>6. v3' \in E!Sides \cup {NULL} BY <2>1, <2>2, <2>3, EntriesIs
  <2>7. PICK r \in E!LoopSet :
          /\ E!Set("entry", r) /\ r.of = 0
          /\ \/ r.at = "idle" /\ v3' = from
             \/ /\ r.at = "signals" /\ r.todo \in Seq(E!SigSet) \ {<<>>}
                /\ r.todo[Len(r.todo)] = [signal |-> "open", side |-> v3']
                /\ v3' \in E!Sides /\ Len(r.todo) \in {1, 2}
                /\ Len(r.todo) = 1 => from = NULL
                /\ Len(r.todo) = 2 => r.todo[1].signal = "close"
    BY <2>1, <2>2, <2>3, EntriesIs
  <2>8. Stands(l) => Stands(l)'
    <3> SUFFICES ASSUME Stands(l) PROVE Stands(l)' OBVIOUS
    <3>1. it.of = v4 /\ v3 = v6[v4].side BY <1>11
    <3>2. IF v4' = 0 THEN from = NULL
          ELSE from \in E!Sides /\ from = v6'[v4'].side /\ ~v6'[v4'].closed
      BY <1>1, <1>2, <1>13, <2>4, <2>5, <3>1
    <3>3. v4' \in Nat BY <2>4, <2>5, EngineIs
    <3> QED BY <1>16, <2>2, <2>7, <3>2, <3>3, EvaluatedStands
  <2>9. v4' \in {0, v4} BY <2>4, <2>5
  <2> HIDE DEF closed
  <2> QED BY <1>10, <1>12, <1>16, <2>6, <2>7, <2>8, <2>9
<1> QED BY <1>14, <1>15, <1>16

LEMMA EntryBarKeeps == E!EngineInv /\ E!EntryBar => E!EngineInv'
<1> SUFFICES ASSUME E!EngineInv, E!EntryBar PROVE E!EngineInv' OBVIOUS
<1> DEFINE h == v8.hour + 1  extreme == E!Extreme(v6[v4], h)
           fed == E!Feed(v6[v4], E!CloseOf(h), E!CloseOf(h), extreme)
<1>1. /\ v7["entry"].at = "idle" /\ v8.hour < E!Hours /\ v8' = [v8 EXCEPT !.hour = h]
      /\ IF E!Live /\ fed.legs # <<>>
         THEN E!Exit("entry", v4, fed, E!HourTime(h)) /\ v3' = v3 /\ v4' = v4
         ELSE /\ v6' = IF E!Live THEN [v6 EXCEPT ![v4] = fed.now] ELSE v6
              /\ E!EntriesAt(v3, h) /\ v4' = v4
      /\ v1' = v1 /\ v2' = v2 /\ v9' = v9 /\ v10' = v10
  BY DEF E!EntryBar, E!position
<1>2. /\ v2 \in Nat /\ E!Hours \in Nat /\ v8.minute \in 0..v2 /\ v8.hour \in 0..E!Hours
      /\ v8 = [minute |-> v8.minute, hour |-> v8.hour]
  BY EngineIs, HourIs DEF E!EngineInv
<1>3. h \in 1..E!Hours BY <1>1, <1>2
<1>4. E!CloseOf(h) \in Int /\ E!HourTime(h) \in Int
  <2> HIDE DEF h
  <2>1. h \in 0..E!Hours BY <1>2, <1>3
  <2> QED BY <1>3, <2>1, HourIs DEF E!EngineInv
<1>5. Bars /\ v8'.hour # 0
  <2>1. v8' = [minute |-> v8.minute, hour |-> h] BY <1>1, <1>2
  <2> QED BY <1>1, <1>2, <1>3, <2>1 DEF Bars
<1>6. "entry" \in E!Loops /\ v3 \in E!Sides \cup {NULL} BY EngineIs DEF E!Loops
<1>7. fed = E!Feed(v6[v4], E!CloseOf(h), E!CloseOf(h), extreme) OBVIOUS
<1>8. Stands("entry") => E!Agree BY <1>1 DEF Stands
<1> HIDE DEF fed, h, extreme
<1>9. CASE E!Live /\ fed.legs # <<>>
  <2>1. E!Exit("entry", v4, fed, E!HourTime(h)) /\ v3' = v3 /\ v4' = v4 BY <1>1, <1>9
  <2>2. v4 \in DOMAIN v6 BY <1>9, LiveIs
  <2> QED BY <1>1, <1>4, <1>5, <1>6, <1>7, <1>8, <1>9, <2>1, <2>2, ExitKeeps
<1>10. CASE ~(E!Live /\ fed.legs # <<>>)
  <2>1. /\ v6' = IF E!Live THEN [v6 EXCEPT ![v4] = fed.now] ELSE v6
        /\ E!EntriesAt(v3, h) /\ v4' = v4
    BY <1>1, <1>10
  <2>2. v3' \in E!Sides \cup {NULL} BY <1>3, <1>6, <2>1, EntriesIs
  <2>3. PICK r \in E!LoopSet :
          /\ E!Set("entry", r) /\ r.of = 0
          /\ \/ r.at = "idle" /\ v3' = v3
             \/ /\ r.at = "signals" /\ r.todo \in Seq(E!SigSet) \ {<<>>}
                /\ r.todo[Len(r.todo)] = [signal |-> "open", side |-> v3']
                /\ v3' \in E!Sides /\ Len(r.todo) \in {1, 2}
                /\ Len(r.todo) = 1 => v3 = NULL
                /\ Len(r.todo) = 2 => r.todo[1].signal = "close"
    BY <1>3, <1>6, <2>1, EntriesIs
  <2>4. /\ v6' = v6 => (v4 # 0 => v6'[v4] = v6[v4])
        /\ E!Live => /\ v4 \in DOMAIN v6 /\ v6'[v4] = fed.now /\ fed.legs = <<>>
                     /\ fed.now.side = v6[v4].side /\ fed.now.closed = v6[v4].closed
    <3>1. ASSUME E!Live
          PROVE  /\ v4 \in DOMAIN v6 /\ v6'[v4] = fed.now /\ fed.legs = <<>>
                 /\ fed.now.side = v6[v4].side /\ fed.now.closed = v6[v4].closed
      <4>1. v4 \in DOMAIN v6 /\ fed.legs = <<>> BY <1>10, <3>1, LiveIs
      <4>2. v6'[v4] = fed.now BY <2>1, <3>1, <4>1
      <4>3. fed.now.side = v6[v4].side /\ fed.now.closed = v6[v4].closed
        <5>1. Fits(fed, v6[v4], E!Given(v4)) BY <1>4, <1>7, <4>1, FedIs
        <5> QED BY <4>1, <5>1 DEF Fits
      <4> QED BY <4>1, <4>2, <4>3
    <3> QED BY <3>1
  <2>5. Stands("entry") => Stands("entry")'
    <3> SUFFICES ASSUME Stands("entry") PROVE Stands("entry")' OBVIOUS
    <3>1. v4 # 0 => v6[v4].side \in E!Sides
      <4>1. v4 # 0 => v6[v4] \in E!Brackets BY EngineIs, ElementOfSeq
      <4> QED BY <4>1 DEF E!Brackets
    <3>2. v4 # 0 => v6'[v4].side = v6[v4].side /\ v6'[v4].closed = v6[v4].closed
      BY <2>1, <2>4
    <3>3. IF v4' = 0 THEN v3 = NULL
          ELSE v3 \in E!Sides /\ v3 = v6'[v4'].side /\ ~v6'[v4'].closed
      BY <1>8, <2>1, <3>1, <3>2 DEF E!Agree
    <3>4. v4' \in Nat BY <2>1, EngineIs
    <3> QED BY <1>6, <2>3, <3>3, <3>4, EvaluatedStands
  <2>6. r.at \in {"idle", "signals"} /\ (r.at = "signals" => r.todo \in Seq(E!SigSet) \ {<<>>})
    BY <2>3
  <2>7. v4' \in 0..Len(v6) /\ 0 \in 0..Len(v6) BY <2>1, EngineIs
  <2>8. CASE E!Live
    <3>1. v6' = [v6 EXCEPT ![v4] = fed.now] /\ v4 \in DOMAIN v6 /\ fed.legs = <<>>
      BY <2>1, <2>4, <2>8
    <3>2. E!Set("entry", r) /\ r.of = 0 /\ v9' = v9 /\ v10' = v10 /\ Bars BY <1>1, <1>5, <2>3
    <3> QED BY <1>4, <1>6, <1>7, <2>2, <2>5, <2>6, <2>7, <3>1, <3>2, FedKeeps
  <2>9. CASE ~E!Live
    <3>1. v6' = v6 BY <2>1, <2>9
    <3>2. v10' \in Nat /\ v10' = v10 BY <1>1, EngineIs
    <3>3. r.at \in {"idle", "read", "signals"} /\ r.at # "read" /\ r.of \in 0..Len(v6)
      BY <2>3, <2>6, <2>7
    <3> QED BY <1>1, <1>5, <1>6, <2>2, <2>3, <2>5, <2>6, <2>7, <3>1, <3>2, <3>3, LooksKeeps
  <2> QED BY <2>8, <2>9
<1> QED BY <1>9, <1>10

LEMMA RestartKeeps == E!EngineInv /\ E!Restart => E!EngineInv'
<1> SUFFICES ASSUME E!EngineInv, E!Restart PROVE E!EngineInv' OBVIOUS
<1>1. PICK h \in {E!Hours, E!Hours - 1} \cap Nat :
        LET w == E!WarmUp(h)
            of == Len(v6) + 1
            c == E!CatchUp(E!NewBracket(w.side, E!CloseOf(w.at)), w.at * E!PerHour, of)
            found == w.rows \cup (IF w.at = 0 THEN {} ELSE c.rows) IN
        /\ E!Fault /\ Len(v6) < MaxTrades
        /\ v7' = [l \in E!Loops |-> E!Idle] /\ v8' = [minute |-> v2, hour |-> E!Hours]
        /\ v9' = v9 \cup {r \in found : \A q \in v9 : E!Key(q) # E!Key(r)}
        /\ v6' = IF w.at = 0 THEN v6 ELSE Append(v6, c.now)
        /\ IF w.at = 0 \/ c.now.closed THEN v3' = NULL /\ v4' = 0
           ELSE v3' = w.side /\ v4' = of
        /\ v1' = v1 /\ v2' = v2 /\ v11' = v11
  BY DEF E!Restart, E!MarkFlat
<1> DEFINE w == E!WarmUp(h)  of == Len(v6) + 1  b == E!NewBracket(w.side, E!CloseOf(w.at))
           c == E!CatchUp(b, w.at * E!PerHour, of)
<1>2. /\ v10' = v10 + 1 /\ Len(v6) < MaxTrades
      /\ v7' = [l \in E!Loops |-> E!Idle] /\ v8' = [minute |-> v2, hour |-> E!Hours]
      /\ v9' \subseteq v9 \cup w.rows \cup (IF w.at = 0 THEN {} ELSE c.rows)
      /\ v6' = IF w.at = 0 THEN v6 ELSE Append(v6, c.now)
      /\ IF w.at = 0 \/ c.now.closed THEN v3' = NULL /\ v4' = 0 ELSE v3' = w.side /\ v4' = of
      /\ v1' = v1 /\ v2' = v2 /\ v11' = v11
  BY <1>1 DEF E!Fault
<1>3. h \in Nat /\ h <= E!Hours /\ E!Hours \in Nat /\ v2 \in Nat BY <1>1, HourIs DEF E!EngineInv
<1>4. /\ w.at \in 0..h /\ w.side \in E!Sides \cup {NULL} /\ (w.at # 0 => w.side \in E!Sides)
      /\ w.rows \subseteq E!RowSet /\ \A r \in w.rows : r.of = 0
  BY <1>3, WarmUpIs
<1> HIDE DEF w
<1>5. v6 \in Seq(E!Brackets) /\ Len(v6) \in Nat /\ DOMAIN v6 = 1..Len(v6) /\ of \in Nat BY EngineIs
<1>6. ASSUME w.at # 0
      PROVE  /\ c.now \in E!Brackets /\ c.now.side = w.side /\ c.rows \subseteq E!RowSet
             /\ \A r \in c.rows : r.of = of /\ r.side = w.side
             /\ E!GivesOnce(c.now, {E!Leg(r.reason, r.size) : r \in c.rows})
  <2>1. w.at \in 1..E!Hours /\ w.at \in 0..E!Hours BY <1>3, <1>4, <1>6
  <2>2. E!CloseOf(w.at) \in Int /\ w.at * E!PerHour \in 0..v2 BY <2>1, HourIs DEF E!EngineInv
  <2>3. b \in E!Brackets /\ b.side = w.side /\ E!GivesOnce(b, {}) BY <1>4, <1>6, <2>2, NewBracketIs
  <2> HIDE DEF b, of
  <2>4. E!EngineTypes BY DEF E!EngineInv
  <2> DEFINE from == w.at * E!PerHour
  <2> HIDE DEF from
  <2>5. from \in 0..v2 BY <2>2 DEF from
  <2>6. LET d == E!CatchUp(b, from, of) IN
        /\ d.now \in E!Brackets /\ d.now.side = b.side /\ d.rows \subseteq E!RowSet
        /\ \A r \in d.rows : r.of = of /\ r.side = b.side
        /\ E!GivesOnce(d.now, {E!Leg(r.reason, r.size) : r \in d.rows})
    BY <1>5, <2>3, <2>4, <2>5, CatchUpIs, Zenon
  <2> QED BY <2>3, <2>6, Zenon DEF from
<1> HIDE DEF c
<1>7. PICK n \in Nat : n = Len(v6) + 1 /\ n = of BY <1>5
<1> HIDE DEF of
<1>8. /\ v6' \in Seq(E!Brackets) /\ Len(v6') \in Nat /\ Len(v6) <= Len(v6') /\ Len(v6') <= MaxTrades
      /\ \A k \in DOMAIN v6 : v6'[k] = v6[k]
      /\ w.at = 0 => DOMAIN v6' = DOMAIN v6
      /\ w.at # 0 => DOMAIN v6' = DOMAIN v6 \cup {n} /\ v6'[n] = c.now /\ n \in 0..Len(v6')
                     /\ E!Given(n) = {}
  <2>1. MaxTrades \in Nat BY ScriptsAssumption
  <2>2. CASE w.at = 0
    <3>1. v6' = v6 BY <1>2, <2>2
    <3> QED BY <1>2, <1>5, <2>1, <2>2, <3>1
  <2>3. CASE w.at # 0
    <3>1. v6' = Append(v6, c.now) /\ c.now \in E!Brackets BY <1>2, <1>6, <2>3
    <3>2. /\ v6' \in Seq(E!Brackets) /\ Len(v6') = Len(v6) + 1 /\ v6'[Len(v6) + 1] = c.now
          /\ DOMAIN v6' = DOMAIN v6 \cup {Len(v6) + 1} /\ \A k \in DOMAIN v6 : v6'[k] = v6[k]
          /\ E!Given(Len(v6) + 1) = {}
      BY <3>1, AnotherIs
    <3>3. v6'[n] = c.now /\ DOMAIN v6' = DOMAIN v6 \cup {n} /\ E!Given(n) = {} BY <1>7, <3>2
    <3>4. /\ Len(v6') \in Nat /\ Len(v6) <= Len(v6') /\ Len(v6') <= MaxTrades
          /\ n \in 0..Len(v6')
      BY <1>2, <1>5, <1>7, <2>1, <3>2
    <3> QED BY <2>3, <3>2, <3>3, <3>4
  <2> QED BY <2>2, <2>3
<1>9. \A l \in E!Loops : v7'[l] = E!Idle BY <1>2
<1>10. E!EngineTypes'
  <2>1. v3' \in E!Sides \cup {NULL} /\ v4' \in 0..Len(v6')
    <3>1. 0 \in 0..Len(v6') BY <1>8
    <3>2. w.at # 0 => w.side \in E!Sides /\ of \in 0..Len(v6') BY <1>4, <1>7, <1>8
    <3>3. \/ v3' = NULL /\ v4' = 0
          \/ w.at # 0 /\ v3' = w.side /\ v4' = of
      BY <1>2
    <3> QED BY <3>1, <3>2, <3>3
  <2>2. v9' \subseteq E!RowSet
    <3>1. v9 \subseteq E!RowSet BY EngineIs
    <3> QED BY <1>2, <1>4, <1>6, <3>1
  <2>3. v7' \in [E!Loops -> E!LoopSet] BY <1>2, IdleIs
  <2>4. v8' \in [minute : 0..v2', hour : 0..E!Hours']
    <3>1. E!Hours' = E!Hours BY <1>2 DEF E!Hours
    <3> QED BY <1>2, <1>3, <3>1
  <2>5. v10' \in Nat /\ v11' \in BOOLEAN BY <1>2, EngineIs
  <2>6. v1' \in Scripts /\ v2' \in 0..Len(v1'.minutes) BY <1>2, EngineIs
  <2> QED BY <1>8, <2>1, <2>2, <2>3, <2>4, <2>5, <2>6 DEF E!EngineTypes
<1>11. E!Sided'
  <2>1. SUFFICES ASSUME NEW x \in v9'
        PROVE  x.of \in 0..Len(v6') /\ (x.of # 0 => x.side = v6'[x.of].side)
    BY DEF E!Sided
  <2>2. CASE x \in v9
    <3>1. x.of \in 0..Len(v6) /\ (x.of # 0 => x.side = v6[x.of].side)
      BY <2>2 DEF E!EngineInv, E!Sided
    <3>2. x.of # 0 => x.of \in DOMAIN v6 BY <1>5, <3>1
    <3>3. x.of \in 0..Len(v6') BY <1>5, <1>8, <3>1
    <3> QED BY <1>8, <3>1, <3>2, <3>3
  <2>3. CASE x \in w.rows BY <1>4, <1>8, <2>3
  <2>4. CASE w.at # 0 /\ x \in c.rows
    <3>1. x.of = n /\ x.side = w.side /\ c.now.side = w.side BY <1>6, <1>7, <2>4
    <3> QED BY <1>8, <2>4, <3>1
  <2> QED BY <1>2, <2>2, <2>3, <2>4
<1>12. E!InTurn'
  <2>1. v10' # 0 BY <1>2, EngineIs
  <2> QED BY <2>1 DEF E!InTurn
<1>13. \A l \in E!Loops : E!LoopFits(l)' BY <1>8, <1>9, IdleIs DEF E!LoopFits
<1>14. ASSUME NEW k \in Nat \ {0}, NEW new,
              \A x \in v9' : x.of = k => x \in v9 \/ E!Leg(x.reason, x.size) \in new
       PROVE  E!Given(k)' \subseteq E!Given(k) \cup new
  <2>1. \A l \in E!Loops : E!Stores(l, k)' \subseteq E!Given(k) \cup new
    BY <1>9, IdleIs, StillStores
  <2> QED BY <1>14, <2>1, GivenGrows
<1>15. ASSUME NEW k \in DOMAIN v6 PROVE E!GivesOnce(v6'[k], E!Given(k)')
  <2>1. k \in Nat \ {0} /\ k # n BY <1>5, <1>7
  <2>2. \A x \in v9' : x.of = k => x \in v9 \/ E!Leg(x.reason, x.size) \in {}
    BY <1>2, <1>4, <1>6, <1>7, <2>1
  <2>3. E!Given(k)' \subseteq E!Given(k) \cup {} BY <1>14, <2>1, <2>2
  <2>4. E!GivesOnce(v6[k], E!Given(k)) BY DEF E!EngineInv
  <2> QED BY <1>8, <2>3, <2>4, FewerGiven
<1>16. ASSUME w.at # 0 PROVE E!GivesOnce(v6'[n], E!Given(n)')
  <2> DEFINE new == {E!Leg(r.reason, r.size) : r \in c.rows}
  <2>1. n \in Nat \ {0} BY <1>5, <1>7
  <2>2. ASSUME NEW x \in v9', x.of = n PROVE x \in v9 \/ E!Leg(x.reason, x.size) \in new
    <3>1. x \notin w.rows BY <1>4, <2>1, <2>2
    <3>2. x \in v9 \/ x \in c.rows BY <1>2, <3>1
    <3> QED BY <3>2
  <2>3. E!GivesOnce(c.now, new) BY <1>6, <1>16
  <2> HIDE DEF new
  <2>4. E!Given(n)' \subseteq E!Given(n) \cup new BY <1>14, <2>1, <2>2
  <2>5. E!Given(n)' \subseteq new BY <1>8, <1>16, <2>4
  <2> QED BY <1>8, <1>16, <2>3, <2>5, FewerGiven
<1>17. \A k \in DOMAIN v6' : E!GivesOnce(v6'[k], E!Given(k)') BY <1>8, <1>15, <1>16
<1> QED BY <1>10, <1>11, <1>12, <1>13, <1>17 DEF E!EngineInv

LEMMA EngineInit == E!Init => E!EngineInv
<1> SUFFICES ASSUME E!Init PROVE E!EngineInv OBVIOUS
<1>1. /\ v1 \in Scripts /\ v2 = 0 /\ v3 = NULL /\ v4 = 0 /\ v6 = <<>>
      /\ v7 = [l \in E!Loops |-> E!Idle] /\ v8 = [minute |-> 0, hour |-> 0] /\ v9 = {} /\ v10 = 0
      /\ v11 = FALSE
  BY DEF E!Init
<1>2. v2 \in 0..Len(v1.minutes)
  <2>1. v1.minutes \in Seq([high : Int, low : Int, close : Int]) BY <1>1, ScriptsAssumption
  <2> QED BY <1>1, <2>1, LenProperties
<1>3. E!Hours = 0 BY <1>1 DEF E!Hours, E!PerHour
<1>4. v6 \in Seq(E!Brackets) /\ Len(v6) = 0 /\ DOMAIN v6 = {} BY <1>1, EmptySeq
<1>5. E!EngineTypes
  <2>1. v7 \in [E!Loops -> E!LoopSet] BY <1>1, IdleIs
  <2>2. v8 \in [minute : 0..v2, hour : 0..E!Hours]
    <3>1. 0 \in 0..v2 /\ 0 \in 0..E!Hours BY <1>1, <1>3
    <3> QED BY <1>1, <3>1
  <2>3. v4 \in 0..Len(v6) /\ Len(v6) <= MaxTrades BY <1>1, <1>4, ScriptsAssumption
  <2>4. v3 \in E!Sides \cup {NULL} /\ v9 \subseteq E!RowSet /\ v10 \in Nat /\ v11 \in BOOLEAN
    BY <1>1
  <2> QED BY <1>1, <1>2, <1>4, <2>1, <2>2, <2>3, <2>4 DEF E!EngineTypes
<1>6. \A l \in E!Loops : v7[l] = E!Idle BY <1>1
<1>7. E!InTurn BY <1>1, <1>6, IdleIs DEF E!InTurn, E!Agree, E!Turn
<1>8. \A l \in E!Loops : E!LoopFits(l) BY <1>4, <1>6, IdleIs DEF E!LoopFits
<1> QED BY <1>1, <1>4, <1>5, <1>7, <1>8 DEF E!EngineInv, E!Sided

LEMMA EngineNext == E!EngineInv /\ E!Next => E!EngineInv'
<1> SUFFICES ASSUME E!EngineInv, E!Next PROVE E!EngineInv' OBVIOUS
<1>1. CASE E!Tick BY <1>1, TickKeeps
<1>2. CASE E!NearPoll BY <1>2, NearPollKeeps
<1>3. CASE E!NearRead BY <1>3, NearReadKeeps
<1>4. CASE E!NearReadsNothing BY <1>4, NearReadsNothingKeeps
<1>5. CASE E!NetBar BY <1>5, NetBarKeeps
<1>6. CASE E!EntryBar BY <1>6, EntryBarKeeps
<1>7. CASE E!IntraPoll BY <1>7, IntraPollKeeps
<1>8. ASSUME NEW l \in E!Loops, E!StoreSignal(l) PROVE E!EngineInv' BY <1>8, StoreSignalKeeps
<1>9. ASSUME NEW l \in E!Loops, E!StoreLeg(l) PROVE E!EngineInv' BY <1>9, StoreLegKeeps
<1>10. ASSUME NEW l \in E!Loops, E!StoreLegFails(l) PROVE E!EngineInv' BY <1>10, FailsKeeps
<1>11. CASE E!StoreSignalFails
  <2>1. "intra" \in E!Loops BY DEF E!Loops
  <2> QED BY <1>11, <2>1, FailsKeeps
<1>12. CASE E!Restart BY <1>12, RestartKeeps
<1> QED BY <1>1, <1>2, <1>3, <1>4, <1>5, <1>6, <1>7, <1>8, <1>9, <1>10, <1>11, <1>12 DEF E!Next

\* What a bracket gives once adds up to what was opened.
LEMMA AddsUp == E!EngineInv => E!ExitsAddUp
<1> SUFFICES ASSUME E!EngineInv, NEW b \in DOMAIN v6
    PROVE  E!Taken(b) <= 100 /\ \A r \in E!Exits(b) : r.side = v6[b].side
  BY DEF E!ExitsAddUp
<1>1. b # 0 /\ v6[b] \in E!Brackets BY EngineIs, ElementOfSeq
<1>2. \A r \in E!Exits(b) : r.side = v6[b].side BY <1>1 DEF E!EngineInv, E!Sided, E!Exits
<1> DEFINE Of(reason) == {r \in E!Exits(b) : r.reason = reason}
           Size(reason) == IF Of(reason) = {} THEN 0 ELSE (CHOOSE r \in Of(reason) : TRUE).size
           left == v6[b].left
<1>3. ASSUME NEW r \in E!Exits(b)
      PROVE  /\ r.reason = "tp1" => r.size = E!Part /\ v6[b].hit
             /\ r.reason # "tp1" => r.size = left
             /\ \A q \in E!Exits(b) : r.reason # "tp1" /\ q.reason # "tp1" => q.reason = r.reason
  <2>1. \A q \in E!Exits(b) : E!Leg(q.reason, q.size) \in E!Given(b) BY DEF E!Given
  <2>2. E!GivesOnce(v6[b], E!Given(b)) BY DEF E!EngineInv
  <2>3. \A q \in E!Exits(b) : /\ E!Leg(q.reason, q.size).reason = q.reason
                              /\ E!Leg(q.reason, q.size).size = q.size
    BY DEF E!Leg
  <2> QED BY <2>1, <2>2, <2>3 DEF E!GivesOnce
<1>4. ASSUME NEW reason
      PROVE  \/ Size(reason) = 0
             \/ \E r \in E!Exits(b) : r.reason = reason /\ Size(reason) = r.size
  <2>1. CASE Of(reason) = {} BY <2>1
  <2>2. CASE Of(reason) # {}
    <3> DEFINE r == CHOOSE r \in Of(reason) : TRUE
    <3>1. r \in Of(reason) BY <2>2
    <3>2. Size(reason) = r.size BY <2>2
    <3> HIDE DEF r, Size
    <3> QED BY <3>1, <3>2
  <2> QED BY <2>1, <2>2
<1>5. E!Taken(b) = Size("tp1") + Size("tp2") + Size("stop") + Size("be_stop") + Size("trail")
  BY DEF E!Taken
<1>6. left \in {50, 100} /\ (v6[b].hit => left = 50) /\ E!Part = 50
  <2>1. E!GivesOnce(v6[b], E!Given(b)) BY DEF E!EngineInv
  <2> QED BY <1>1, <2>1 DEF E!GivesOnce, E!Part, E!Brackets
<1> HIDE DEF Size, Of, left
<1>7. Size("tp1") \in {0, 50} /\ (Size("tp1") = 50 => left = 50) BY <1>3, <1>4, <1>6
<1>8. \A reason \in E!Final : Size(reason) \in {0, left} BY <1>3, <1>4 DEF E!Final
<1>9. \A s, t \in E!Final : Size(s) # 0 /\ Size(t) # 0 => s = t BY <1>3, <1>4 DEF E!Final
<1>10. E!Taken(b) <= 100
  <2>1. "tp2" \in E!Final /\ "stop" \in E!Final /\ "be_stop" \in E!Final /\ "trail" \in E!Final
    BY DEF E!Final
  <2> QED BY <1>5, <1>6, <1>7, <1>8, <1>9, <2>1
<1> QED BY <1>2, <1>10

\* Loops that are all idle and have never been in each other's way leave the position in step.
LEMMA StaysInStep == E!EngineInv => E!InStep
BY DEF E!EngineInv, E!InTurn, E!InStep, E!Agree

\* A step leaves the engine's brackets in order, whichever service moves.
LEMMA EngineKept ==
  ASSUME turn = "engine" => E!EngineInv, [NextServices]_all, turn' = "engine" PROVE E!EngineInv'
<1>1. turn' = turn BY DEF NextServices, all, cells, C!Next
<1>2. E!EngineInv BY <1>1
<1>3. CASE turn = "engine" /\ E!Next BY <1>2, <1>3, EngineNext
<1>4. CASE UNCHANGED all
  <2>1. /\ v1' = v1 /\ v2' = v2 /\ v3' = v3 /\ v4' = v4 /\ v6' = v6 /\ v7' = v7 /\ v8' = v8
        /\ v9' = v9 /\ v10' = v10 /\ v11' = v11
    BY <1>4 DEF all, cells
  <2>2. E!EngineTypes' BY <1>2, <2>1, EngineIs DEF E!EngineTypes, E!Hours
  <2>3. E!Sided' BY <1>2, <2>1 DEF E!EngineInv, E!Sided
  <2>4. E!InTurn' BY <1>2, <2>1, TurnSame
  <2>5. \A l \in E!Loops : E!LoopFits(l)' BY <1>2, <2>1 DEF E!EngineInv, E!LoopFits
  <2>6. \A b \in DOMAIN v6' : E!GivesOnce(v6'[b], E!Given(b)')
    <3>1. \A b : E!Given(b)' = E!Given(b) BY <2>1, GivenSame
    <3> QED BY <1>2, <2>1, <3>1 DEF E!EngineInv
  <2> QED BY <2>2, <2>3, <2>4, <2>5, <2>6 DEF E!EngineInv
<1> QED BY <1>1, <1>3, <1>4 DEF NextServices, all

\* Exits are stored on their bracket's side and take out at most what was opened, and loops
\* that never overlap leave side, bracket and bracket's side in agreement: from what each
\* bracket has given, stored or about to be (EngineSafe of MCServices).
THEOREM EngineSafeHolds == SpecServices => []EngineSafe
<1> DEFINE Inv == turn = "engine" => E!EngineInv
<1>1. InitServices => Inv BY EngineInit DEF InitServices
<1>2. Inv /\ [NextServices]_all => Inv' BY EngineKept
<1>3. Inv => EngineSafe BY AddsUp, StaysInStep DEF EngineSafe
<1> QED BY <1>1, <1>2, <1>3, PTL DEF SpecServices

-------------------------------------------------------------------------------
(* Sizes, stops and counts of the channel: v7 legs, v11 orders, v12 pos,   *)
(* v13 mark, v14 faults.                                                   *)

Leg(l)   == DOMAIN l = {"stop", "standing", "young"} /\ l.stop \in 0..3
Lot      == [size : Nat, entry : 0..3]
Ordering == {"open", "close", "add", "trim"}

Sized(c)      == c.size \in 0..2 /\ c.stop \in 0..3
LegsFit       == DOMAIN v7 = C!Sides /\ \A s \in C!Sides : v7[s] # NULL => Leg(v7[s])
JudgesSized   == \A t \in C!Judges : Sized(v9[t])
OverStops     == {"stops", "assert"}
WatchSized    == Sized(v10) /\ (v10.at \in OverStops => v10.todo \subseteq C!Sides)
OrdersSized   == \A o \in v11 : o.kind \in Ordering /\ o.size \in 0..2
LotsFit       == v12 \in [C!Sides -> Lot] /\ v13 \in C!Prices
FaultsCounted == v14 \in 0..v1.faults /\ (v16 # {} => v14 > 0)
ChannelBound  ==
  LegsFit /\ JudgesSized /\ WatchSized /\ OrdersSized /\ LotsFit /\ FaultsCounted

LEMMA RestSized == Sized(C!Rest) /\ Sized(C!Idle) BY DEF Sized, C!Rest, C!Idle

LEMMA ChannelBoundInit == C!Init => ChannelBound
<1> SUFFICES ASSUME C!Init PROVE ChannelBound OBVIOUS
<1>0. /\ v1 \in Stories /\ v11 = {} /\ v13 \in {1, 3} /\ v14 = 0 /\ v16 = {}
      /\ v9 = [t \in C!Judges |-> C!Idle] /\ v10 = C!Rest
  BY Zenon DEF C!Init
<1>1. LegsFit
  <2>1. v7 = [s \in C!Sides |-> IF s \in DOMAIN v1.start
                                THEN [C!Fresh EXCEPT !.standing = v1.start[s], !.young = FALSE]
                                ELSE NULL]
    BY Zenon DEF C!Init
  <2>2. ASSUME NEW b PROVE Leg([C!Fresh EXCEPT !.standing = b, !.young = FALSE])
    BY DEF C!Fresh, Leg
  <2> QED BY <2>1, <2>2 DEF LegsFit
<1>2. JudgesSized
  BY <1>0, RestSized DEF JudgesSized
<1>3. WatchSized BY <1>0, RestSized DEF WatchSized, OverStops, C!Rest
<1>4. OrdersSized BY <1>0 DEF OrdersSized
<1>5. LotsFit
  <2>1. v12 = [s \in C!Sides |-> IF s \in DOMAIN v1.start THEN [size |-> C!Unit, entry |-> 2]
                                 ELSE C!Flat]
    BY Zenon DEF C!Init
  <2>2. C!Flat \in Lot /\ [size |-> C!Unit, entry |-> 2] \in Lot BY DEF C!Flat, C!Unit, Lot
  <2>3. v13 \in C!Prices BY <1>0 DEF C!Prices
  <2> QED BY <2>1, <2>2, <2>3 DEF LotsFit
<1>6. FaultsCounted
  <2>1. v1.faults \in Nat BY <1>0, StoriesAssumption
  <2> QED BY <1>0, <2>1 DEF FaultsCounted
<1> QED BY <1>1, <1>2, <1>3, <1>4, <1>5, <1>6 DEF ChannelBound

-------------------------------------------------------------------------------
\* What a judge becomes keeps to its sizes.
LEMMA SizedMoves ==
  ASSUME C!ChannelTypes, JudgesSized, NEW t \in C!Judges, NEW c, v9' = [v9 EXCEPT ![t] = c], Sized(c)
  PROVE  JudgesSized'
<1>1. DOMAIN v9 = C!Judges BY ChannelFields
<1>2. \A u \in C!Judges : v9'[u] = IF u = t THEN c ELSE v9[u] BY <1>1
<1> QED BY <1>2 DEF JudgesSized, Sized

LEMMA GoSized ==
  ASSUME C!ChannelTypes, JudgesSized, NEW t \in C!Judges, NEW at, C!Go(t, at) PROVE JudgesSized'
<1>1. PICK c : c = [v9[t] EXCEPT !.at = at] OBVIOUS
<1>2. v9' = [v9 EXCEPT ![t] = c] BY <1>1 DEF C!Go, C!Set
<1>3. c.size = v9[t].size /\ c.stop = v9[t].stop BY <1>1, CallIs
<1>4. Sized(c) BY <1>3 DEF JudgesSized, Sized
<1> QED BY <1>2, <1>4, SizedMoves

LEMMA DropSized ==
  ASSUME C!ChannelTypes, JudgesSized, NEW t \in C!Judges, C!Drop(t) PROVE JudgesSized'
<1>1. PICK c : c = [C!Idle EXCEPT !.todo = v9[t].todo] OBVIOUS
<1>2. v9' = [v9 EXCEPT ![t] = c] BY <1>1 DEF C!Drop, C!Set
<1>3. Sized(c) BY <1>1 DEF C!Idle, Sized
<1> QED BY <1>2, <1>3, SizedMoves

LEMMA AbandonSized ==
  ASSUME C!ChannelTypes, JudgesSized, NEW t \in C!Judges, C!Abandon(t) PROVE JudgesSized'
<1>1. PICK c : c = [v9[t] EXCEPT !.at = "record", !.plan = C!Nothing] OBVIOUS
<1>2. v9' = [v9 EXCEPT ![t] = c] BY <1>1 DEF C!Abandon, C!Set
<1>3. c.size = v9[t].size /\ c.stop = v9[t].stop BY <1>1, CallIs
<1>4. Sized(c) BY <1>3 DEF JudgesSized, Sized
<1> QED BY <1>2, <1>4, SizedMoves

LEMMA ClaimSized ==
  ASSUME C!ChannelTypes, JudgesSized, NEW t \in C!Judges, NEW p, C!Claim(t, p) PROVE JudgesSized'
<1>1. PICK taken \in BOOLEAN : taken <=> \E u \in C!Judges : v9[u].at # "idle" /\ v9[u].post = p
  OBVIOUS
<1>2. PICK c : c = [C!Idle EXCEPT !.at = IF taken THEN "idle" ELSE "look",
                                  !.post = IF taken THEN 0 ELSE p, !.todo = v9[t].todo \ {p}]
  OBVIOUS
<1>3. v9' = [v9 EXCEPT ![t] = c] BY <1>1, <1>2 DEF C!Claim, C!Set
<1>4. Sized(c) BY <1>2 DEF C!Idle, Sized
<1> QED BY <1>3, <1>4, SizedMoves

LEMMA StopIs ==
  ASSUME LotsFit, NEW s \in C!Sides, NEW last PROVE C!EvaluateStop(s, v12[s].entry, last) \in 0..3
<1>1. v12[s].entry \in 0..3 BY DEF LotsFit, Lot
<1> QED BY <1>1 DEF C!EvaluateStop

LEMMA SizeIs == ASSUME NEW step PROVE C!SizeFor(step) \in 0..2 /\ C!TrimSize(step.side) \in 0..2
<1>1. C!TrimSize(step.side) \in 0..2 /\ C!AddSize(step.side) \in 0..2
  BY DEF C!TrimSize, C!AddSize
<1> QED BY <1>1 DEF C!SizeFor, C!Unit

-------------------------------------------------------------------------------
\* The stop a judge would set, and the size it would send.
LEMMA JudgesSizedNext == C!ChannelInv /\ JudgesSized /\ LotsFit /\ C!Next => JudgesSized'
<1> SUFFICES ASSUME C!ChannelInv, JudgesSized, LotsFit, C!Next PROVE JudgesSized' OBVIOUS
<1>0. C!ChannelTypes BY DEF C!ChannelInv
<1>1. UNCHANGED v9 => JudgesSized' BY DEF JudgesSized
<1>2. ASSUME NEW t \in C!Judges, C!JudgeStep(t) PROVE JudgesSized'
  <2>1. CASE C!Look(t) BY <1>0, <2>1, DropSized, GoSized DEF C!Look
  <2>2. CASE C!Judge(t)
    <3>1. PICK plan, at :
             C!Drop(t) \/ v9' = [v9 EXCEPT ![t] = [v9[t] EXCEPT !.plan = plan, !.at = at]]
      BY <2>2 DEF C!Judge, C!Set
    <3>2. PICK c : c = [v9[t] EXCEPT !.plan = plan, !.at = at] OBVIOUS
    <3>3. c.size = v9[t].size /\ c.stop = v9[t].stop BY <1>0, <3>2, CallIs
    <3>4. Sized(c) BY <3>3 DEF JudgesSized, Sized
    <3> QED BY <1>0, <3>1, <3>2, <3>4, DropSized, SizedMoves
  <2>3. CASE C!Levels(t)
    <3>1. v9[t].at = "levels" BY <2>3 DEF C!Levels
    <3>2. PICK s : s = C!ResolveLeg(C!Mine(t)) OBVIOUS
    <3>3. s \in C!Sides \cup {NULL} BY <1>0, <3>1, <3>2, MineIs, LegIs
    <3>4. PICK want : want = IF s = NULL THEN 0 ELSE C!EvaluateStop(s, v12[s].entry, v7[s].stop)
      OBVIOUS
    <3>5. want \in 0..3 BY <3>3, <3>4, StopIs
    <3>6. PICK c : c = [v9[t] EXCEPT !.at = "adjust", !.stop = want, !.plan.leg = s] OBVIOUS
    <3>7. C!Go(t, "size") \/ v9' = [v9 EXCEPT ![t] = c]
      BY <2>3, <3>2, <3>4, <3>6 DEF C!Levels, C!Set
    <3>8. c.size = v9[t].size /\ c.stop = want BY <1>0, <3>6, CallIs
    <3>9. Sized(c) BY <3>5, <3>8 DEF JudgesSized, Sized
    <3> QED BY <1>0, <3>7, <3>9, GoSized, SizedMoves
  <2>4. CASE C!Adjust(t) BY <1>0, <2>4, GoSized DEF C!Adjust
  <2>5. CASE C!Size(t)
    <3>1. PICK size : size = C!SizeFor(v9[t].plan.steps[1]) OBVIOUS
    <3>2. PICK c : c = [v9[t] EXCEPT !.at = "send", !.size = size] OBVIOUS
    <3>3. C!Go(t, "record") \/ C!Abandon(t) \/ v9' = [v9 EXCEPT ![t] = c]
      BY <2>5, <3>1, <3>2 DEF C!Size, C!Set
    <3>4. c.size = size /\ c.stop = v9[t].stop BY <1>0, <3>2, CallIs
    <3>5. Sized(c) BY <3>1, <3>4, SizeIs DEF JudgesSized, Sized
    <3> QED BY <1>0, <3>3, <3>5, GoSized, AbandonSized, SizedMoves
  <2>6. CASE C!Send(t)
    <3>1. PICK c : c = [v9[t] EXCEPT !.plan.steps = Tail(v9[t].plan.steps)] OBVIOUS
    <3>2. C!Go(t, "record") \/ v9' = [v9 EXCEPT ![t] = c] BY <2>6, <3>1 DEF C!Send, C!Set
    <3>3. c.size = v9[t].size /\ c.stop = v9[t].stop BY <1>0, <3>1, CallIs
    <3>4. Sized(c) BY <3>3 DEF JudgesSized, Sized
    <3> QED BY <1>0, <3>2, <3>4, GoSized, SizedMoves
  <2>7. CASE C!Record(t) BY <1>0, <2>7, GoSized, DropSized DEF C!Record
  <2>8. CASE C!Advance(t) BY <1>0, <2>8, DropSized DEF C!Advance
  <2> QED BY <1>2, <2>1, <2>2, <2>3, <2>4, <2>5, <2>6, <2>7, <2>8 DEF C!JudgeStep
<1>3. ASSUME NEW t \in C!Judges, C!JudgeFault(t) PROVE JudgesSized'
  <2>1. CASE C!ExtractionFails(t) BY <1>0, <2>1, DropSized DEF C!ExtractionFails
  <2>2. CASE C!JudgeStale(t)
    <3>1. PICK c : c = [v9[t] EXCEPT !.plan = C!Nothing, !.at = "size"] OBVIOUS
    <3>2. v9' = [v9 EXCEPT ![t] = c] BY <2>2, <3>1 DEF C!JudgeStale, C!Set
    <3>3. c.size = v9[t].size /\ c.stop = v9[t].stop BY <1>0, <3>1, CallIs
    <3>4. Sized(c) BY <3>3 DEF JudgesSized, Sized
    <3> QED BY <1>0, <3>2, <3>4, SizedMoves
  <2>3. CASE C!AdjustFails(t) BY <1>0, <2>3, GoSized DEF C!AdjustFails
  <2>4. CASE C!SendFails(t) BY <1>0, <2>4, AbandonSized DEF C!SendFails
  <2>5. CASE C!AnswerLost(t) BY <1>0, <2>5, AbandonSized DEF C!AnswerLost
  <2> QED BY <1>3, <2>1, <2>2, <2>3, <2>4, <2>5 DEF C!JudgeFault
<1>4. CASE C!Calls
  <2>1. CASE C!Flush
    <3>1. PICK p \in v4 : C!Claim("live", p) BY <2>1 DEF C!Flush
    <3> QED BY <1>0, <3>1, ClaimSized DEF C!Judges
  <2>2. CASE C!Catchup
    <3>1. PICK c : c = [C!Idle EXCEPT !.todo = (C!Newest + 1)..v3] OBVIOUS
    <3>2. v9' = [v9 EXCEPT !["catchup"] = c] BY <2>2, <3>1 DEF C!Catchup, C!Set
    <3>3. Sized(c) BY <3>1 DEF C!Idle, Sized
    <3>4. "catchup" \in C!Judges BY DEF C!Judges
    <3> QED BY <1>0, <3>2, <3>3, <3>4, SizedMoves
  <2>3. CASE C!BackfillEnds BY <1>1, <2>3 DEF C!BackfillEnds
  <2>4. ASSUME NEW t \in {"catchup", "backfill"}, C!NextOf(t) PROVE JudgesSized'
    <3>1. t \in C!Judges /\ \E p : C!Claim(t, p) BY <2>4 DEF C!NextOf, C!Judges
    <3> QED BY <1>0, <3>1, ClaimSized
  <2> QED BY <1>4, <2>1, <2>2, <2>3, <2>4 DEF C!Calls
<1>5. CASE C!Arrive
  <2>1. UNCHANGED v9 \/ v9' = [v9 EXCEPT !["live"] = C!Idle] BY <1>5 DEF C!Arrive
  <2>2. "live" \in C!Judges BY DEF C!Judges
  <2> QED BY <1>0, <1>1, <2>1, <2>2, RestSized, SizedMoves
<1>6. CASE C!Restart
  <2>1. v9' = [t \in C!Judges |-> IF t = "backfill" THEN [C!Idle EXCEPT !.todo = 1..v3] ELSE C!Idle]
    BY <1>6 DEF C!Restart
  <2>2. Sized([C!Idle EXCEPT !.todo = 1..v3]) BY DEF C!Idle, Sized
  <2> QED BY <2>1, <2>2, RestSized DEF JudgesSized, Sized
<1>7. CASE C!Missed \/ C!MarkMoves BY <1>1, <1>7 DEF C!Missed, C!MarkMoves, C!tasks
<1>8. CASE C!WatchStep
  BY <1>1, <1>8 DEF C!WatchStep, C!SweepLegs, C!ClearLeg, C!SweepTrims, C!Fire, C!Fired,
     C!SweepStops, C!Assert
<1>9. CASE C!WatchFault
  BY <1>1, <1>9 DEF C!WatchFault, C!FireFails, C!FireAnswerLost, C!AssertFails, C!Expire
<1>10. ASSUME NEW o \in v11, C!CarryOut(o) \/ C!OrderFails(o) PROVE JudgesSized'
  BY <1>1, <1>10 DEF C!CarryOut, C!OrderFails, C!tasks
<1>11. ASSUME NEW s \in C!Sides, C!StopOut(s) \/ C!Time(s) PROVE JudgesSized'
  BY <1>1, <1>11 DEF C!StopOut, C!Time, C!tasks
<1> QED BY <1>2, <1>3, <1>4, <1>5, <1>6, <1>7, <1>8, <1>9, <1>10, <1>11 DEF C!Next

\* One leg is written anew, or all of them.
LEMMA LegWritten ==
  ASSUME LegsFit, NEW s, NEW l, s \in C!Sides => l = NULL \/ Leg(l), v7' = [v7 EXCEPT ![s] = l]
  PROVE  LegsFit'
<1>1. DOMAIN v7' = C!Sides BY DEF LegsFit
<1>2. \A r \in C!Sides : v7'[r] = IF r = s THEN l ELSE v7[r] BY DEF LegsFit
<1> QED BY <1>1, <1>2 DEF LegsFit, Leg

LEMMA LevelsSet ==
  ASSUME LegsFit, NEW s, NEW stop \in 0..3, NEW wish, C!SetLevels(s, stop, wish) PROVE LegsFit'
<1>1. PICK l : l = [stop |-> stop, standing |-> v7[s].standing \/ wish, young |-> TRUE] OBVIOUS
<1>2. Leg(l) BY <1>1 DEF Leg
<1>3. UNCHANGED v7 \/ v7' = [v7 EXCEPT ![s] = l]
  <2>1. CASE s \in C!Sides BY <1>1, <2>1 DEF C!SetLevels, LegsFit
  <2>2. CASE s \notin C!Sides BY <2>2 DEF C!SetLevels, LegsFit
  <2> QED BY <2>1, <2>2
<1>4. UNCHANGED v7 => LegsFit' BY DEF LegsFit, Leg
<1> QED BY <1>2, <1>3, <1>4, LegWritten

LEMMA LegsFitNext == C!ChannelInv /\ LegsFit /\ JudgesSized /\ WatchSized /\ C!Next => LegsFit'
<1> SUFFICES ASSUME C!ChannelInv, LegsFit, JudgesSized, WatchSized, C!Next PROVE LegsFit' OBVIOUS
<1>0. C!ChannelTypes BY DEF C!ChannelInv
<1>1. UNCHANGED v7 => LegsFit' BY DEF LegsFit, Leg
<1>2. ASSUME NEW t \in C!Judges, C!JudgeStep(t) PROVE LegsFit'
  <2>1. CASE C!Look(t) \/ C!Judge(t) \/ C!Levels(t) \/ C!Size(t) \/ C!Record(t)
    BY <1>1, <2>1 DEF C!Look, C!Judge, C!Levels, C!Size, C!Record, C!stored
  <2>2. CASE C!Adjust(t)
    <3>1. v9[t].stop \in 0..3 BY DEF JudgesSized, Sized
    <3>2. UNCHANGED v7 \/ C!SetLevels(v9[t].plan.leg, v9[t].stop, TRUE) BY <2>2 DEF C!Adjust
    <3> QED BY <1>1, <3>1, <3>2, LevelsSet
  <2>3. CASE C!Send(t)
    <3>1. v9[t].at = "send" BY <2>3 DEF C!Send
    <3>2. PICK s \in C!Sides : s = v9[t].plan.steps[1].side
      <4>1. v9[t].plan.steps[1] \in C!Steps
        <5>1. C!PlanFits(v9[t].plan) /\ v9[t].plan.steps # <<>>
          BY <1>0, <3>1, CallIs DEF C!Working
        <5>2. v9[t].plan.steps \in Seq(C!Steps) BY <5>1 DEF C!PlanFits
        <5>3. 1 \in DOMAIN v9[t].plan.steps BY <5>1, <5>2
        <5> QED BY <5>2, <5>3
      <4> QED BY <4>1 DEF C!Steps
    <3>3. PICK l : l = [v7[s] EXCEPT !.stop = 0, !.young = TRUE] OBVIOUS
    <3>4. UNCHANGED v7 \/ (v7[s] # NULL /\ v7' = [v7 EXCEPT ![s] = l])
      BY <2>3, <3>2, <3>3 DEF C!Send, C!Sent, C!Open, LegsFit
    <3>5. v7[s] # NULL => Leg(l) BY <3>3 DEF LegsFit, Leg
    <3> QED BY <1>1, <3>4, <3>5, LegWritten
  <2>4. CASE C!Advance(t)
    <3>1. PICK opens : opens = v9[t].plan.advance OBVIOUS
    <3>2. v7' = [s \in C!Sides |-> IF s \notin DOMAIN opens THEN v7[s]
                                   ELSE IF opens[s] THEN C!Fresh ELSE NULL]
      BY <2>4, <3>1 DEF C!Advance
    <3>3. Leg(C!Fresh) BY DEF C!Fresh, Leg
    <3>4. DOMAIN v7' = C!Sides BY <3>2
    <3>5. \A s \in C!Sides : v7'[s] = v7[s] \/ v7'[s] = C!Fresh \/ v7'[s] = NULL BY <3>2, Zenon
    <3> QED BY <3>3, <3>4, <3>5 DEF LegsFit, Leg
  <2> QED BY <1>2, <2>1, <2>2, <2>3, <2>4 DEF C!JudgeStep
<1>3. ASSUME NEW t \in C!Judges, C!JudgeFault(t) PROVE LegsFit'
  BY <1>1, <1>3 DEF C!JudgeFault, C!ExtractionFails, C!JudgeStale, C!AdjustFails, C!SendFails,
     C!AnswerLost, C!stored
<1>4. CASE C!Calls
  BY <1>1, <1>4 DEF C!Calls, C!Flush, C!Catchup, C!BackfillEnds, C!NextOf, C!stored
<1>5. CASE C!Arrive \/ C!Missed \/ C!MarkMoves
  BY <1>1, <1>5 DEF C!Arrive, C!Missed, C!MarkMoves, C!stored
<1>6. CASE C!Restart
  <2>1. PICK gone : v7' = [s \in C!Sides |-> IF s \in gone THEN NULL ELSE v7[s]]
    BY <1>6 DEF C!Restart
  <2> QED BY <2>1 DEF LegsFit, Leg
<1>7. CASE C!WatchStep
  <2>1. CASE C!SweepLegs \/ C!SweepTrims \/ C!Fire \/ C!Fired \/ C!SweepStops
    BY <1>1, <2>1 DEF C!SweepLegs, C!SweepTrims, C!Fire, C!Fired, C!SweepStops, C!stored
  <2>2. CASE C!ClearLeg
    <3>1. v7' = [v7 EXCEPT ![v10.side] = NULL] BY <2>2 DEF C!ClearLeg
    <3> QED BY <3>1, LegWritten
  <2>3. CASE C!Assert
    <3>1. v10.stop \in 0..3 BY DEF WatchSized, Sized
    <3>2. UNCHANGED v7 \/ C!SetLevels(v10.side, v10.stop, FALSE) BY <2>3 DEF C!Assert
    <3> QED BY <1>1, <3>1, <3>2, LevelsSet
  <2> QED BY <1>7, <2>1, <2>2, <2>3 DEF C!WatchStep
<1>8. CASE C!WatchFault
  BY <1>1, <1>8 DEF C!WatchFault, C!FireFails, C!FireAnswerLost, C!AssertFails, C!Expire, C!stored
<1>9. ASSUME NEW o \in v11, C!CarryOut(o) \/ C!OrderFails(o) PROVE LegsFit'
  BY <1>1, <1>9 DEF C!CarryOut, C!OrderFails, C!stored
<1>10. ASSUME NEW s \in C!Sides, C!StopOut(s) PROVE LegsFit'
  BY <1>1, <1>10 DEF C!StopOut, C!stored
<1>11. ASSUME NEW s \in C!Sides, C!Time(s) PROVE LegsFit'
  <2>1. PICK l : l = [v7[s] EXCEPT !.young = FALSE] OBVIOUS
  <2>2. v7[s] # NULL /\ v7' = [v7 EXCEPT ![s] = l] BY <1>11, <2>1 DEF C!Time, C!Open, LegsFit
  <2>3. Leg(l) BY <2>1, <2>2 DEF LegsFit, Leg
  <2> QED BY <2>2, <2>3, LegWritten
<1> QED BY <1>2, <1>3, <1>4, <1>5, <1>6, <1>7, <1>8, <1>9, <1>10, <1>11 DEF C!Next

\* The watcher's stop and size are those of the position it looks at.
LEMMA WatchSizedNext == C!ChannelInv /\ WatchSized /\ LotsFit /\ C!Next => WatchSized'
<1> SUFFICES ASSUME C!ChannelInv, WatchSized, LotsFit, C!Next PROVE WatchSized' OBVIOUS
<1>0. DOMAIN v10 = {"at", "todo", "side", "post", "size", "stop"} BY WatchFields
<1>1. /\ v10'.size = v10.size /\ v10'.stop = v10.stop
      /\ v10'.at \notin OverStops \/ (v10.at \in OverStops /\ v10'.todo = v10.todo)
      => WatchSized'
  BY DEF WatchSized, Sized
<1>2. UNCHANGED v10 \/ v10' = C!Rest => WatchSized'
  BY RestSized DEF WatchSized, Sized, OverStops, C!Rest
<1>3. CASE C!WatchStep
  <2>1. CASE C!SweepLegs
    <3>1. CASE \E s \in C!Sides : v10' = [v10 EXCEPT !.at = "clear", !.side = s]
      BY <1>0, <1>1, <3>1 DEF OverStops
    <3>2. CASE \E S : v10' = [C!Rest EXCEPT !.at = "trims", !.todo = S]
      BY <3>2 DEF C!Rest, WatchSized, Sized, OverStops
    <3> QED BY <2>1, <3>1, <3>2 DEF C!SweepLegs
  <2>2. CASE C!ClearLeg BY <1>2, <2>2 DEF C!ClearLeg
  <2>3. CASE C!SweepTrims
    <3>1. CASE v10.todo = {}
      <4>1. \E S \in SUBSET C!Sides : v10' = [C!Rest EXCEPT !.at = "stops", !.todo = S]
        BY <2>3, <3>1 DEF C!SweepTrims
      <4> QED BY <4>1 DEF C!Rest, WatchSized, Sized
    <3>2. CASE v10.todo # {}
      <4>1. PICK p : p = CHOOSE q \in v10.todo : TRUE OBVIOUS
      <4>2. PICK s : s = v8[p].side OBVIOUS
      <4>3. PICK size : size = C!TrimSize(s) OBVIOUS
      <4>4. PICK rest : rest = [v10 EXCEPT !.todo = v10.todo \ {p}] OBVIOUS
      <4>5. v10' = rest \/ v10' = [rest EXCEPT !.at = "fire", !.post = p, !.size = size]
        BY <2>3, <3>2, <4>1, <4>2, <4>3, <4>4 DEF C!SweepTrims
      <4>6. size \in 0..2 BY <4>3 DEF C!TrimSize
      <4>7. /\ DOMAIN rest = {"at", "todo", "side", "post", "size", "stop"}
            /\ rest.size = v10.size /\ rest.stop = v10.stop /\ rest.at = "trims"
        BY <1>0, <2>3, <4>4 DEF C!SweepTrims
      <4> QED BY <4>5, <4>6, <4>7 DEF WatchSized, Sized, OverStops
    <3> QED BY <3>1, <3>2
  <2>4. CASE C!Fire BY <1>0, <1>1, <2>4 DEF C!Fire, OverStops
  <2>5. CASE C!Fired BY <1>0, <1>1, <2>5 DEF C!Fired, OverStops
  <2>6. CASE C!SweepStops
    <3>1. CASE v10.todo = {} BY <1>2, <2>6, <3>1 DEF C!SweepStops
    <3>2. CASE v10.todo # {}
      <4>1. PICK s : s = CHOOSE q \in v10.todo : TRUE OBVIOUS
      <4>2. PICK stop : stop = C!Wanted(s) OBVIOUS
      <4>3. PICK rest : rest = [v10 EXCEPT !.todo = v10.todo \ {s}] OBVIOUS
      <4>4. \/ v10' = rest
            \/ v7[s] # NULL /\ v10' = [rest EXCEPT !.at = "assert", !.side = s, !.stop = stop]
        BY <2>6, <3>2, <4>1, <4>2, <4>3 DEF C!SweepStops
      <4>5. s \in C!Sides => stop \in 0..3 BY <4>2, StopIs DEF C!Wanted
      <4>6. v10.at = "stops" /\ s \in C!Sides /\ v10.todo \ {s} \subseteq C!Sides
        BY <2>6, <3>2, <4>1 DEF C!SweepStops, WatchSized, OverStops
      <4>7. /\ DOMAIN rest = {"at", "todo", "side", "post", "size", "stop"}
            /\ rest.size = v10.size /\ rest.stop = v10.stop /\ rest.todo = v10.todo \ {s}
        BY <1>0, <4>3
      <4> QED BY <4>4, <4>5, <4>6, <4>7 DEF WatchSized, Sized, OverStops
    <3> QED BY <3>1, <3>2
  <2>7. CASE C!Assert BY <1>0, <1>1, <2>7 DEF C!Assert, OverStops
  <2> QED BY <1>3, <2>1, <2>2, <2>3, <2>4, <2>5, <2>6, <2>7 DEF C!WatchStep
<1>4. CASE C!WatchFault
  <2>1. CASE C!FireFails BY <1>0, <1>1, <2>1 DEF C!FireFails, OverStops
  <2>2. CASE C!FireAnswerLost BY <1>0, <1>1, <2>2 DEF C!FireAnswerLost, OverStops
  <2>3. CASE C!AssertFails BY <1>0, <1>1, <2>3 DEF C!AssertFails, OverStops
  <2>4. ASSUME NEW p \in C!Posts, C!Expire(p) PROVE WatchSized'
    BY <1>0, <1>1, <2>4 DEF C!Expire, OverStops
  <2> QED BY <1>4, <2>1, <2>2, <2>3, <2>4 DEF C!WatchFault
<1>5. ASSUME NEW t \in C!Judges, C!JudgeStep(t) PROVE WatchSized'
  BY <1>2, <1>5 DEF C!JudgeStep, C!Look, C!Judge, C!Levels, C!Adjust, C!Size, C!Send, C!Record,
     C!Advance
<1>6. ASSUME NEW t \in C!Judges, C!JudgeFault(t) PROVE WatchSized'
  BY <1>2, <1>6 DEF C!JudgeFault, C!ExtractionFails, C!JudgeStale, C!AdjustFails, C!SendFails,
     C!AnswerLost
<1>7. CASE C!Calls
  BY <1>2, <1>7 DEF C!Calls, C!Flush, C!Catchup, C!BackfillEnds, C!NextOf
<1>8. CASE C!Arrive \/ C!Missed \/ C!MarkMoves \/ C!Restart
  BY <1>2, <1>8 DEF C!Arrive, C!Missed, C!MarkMoves, C!Restart, C!tasks
<1>9. ASSUME NEW o \in v11, C!CarryOut(o) \/ C!OrderFails(o) PROVE WatchSized'
  BY <1>2, <1>9 DEF C!CarryOut, C!OrderFails, C!tasks
<1>10. ASSUME NEW s \in C!Sides, C!StopOut(s) \/ C!Time(s) PROVE WatchSized'
  BY <1>2, <1>10 DEF C!StopOut, C!Time, C!tasks
<1> QED BY <1>3, <1>4, <1>5, <1>6, <1>7, <1>8, <1>9, <1>10 DEF C!Next

\* What is ordered is of a size somebody has worked out.
LEMMA AdmitSized ==
  ASSUME OrdersSized, NEW p, NEW step, NEW size \in 0..2, step.kind \in Ordering, C!Admit(p, step, size)
  PROVE  OrdersSized'
<1>1. PICK o : o = [post |-> p, kind |-> step.kind, side |-> step.side, size |-> size] OBVIOUS
<1>2. v11' = v11 \cup {o} BY <1>1 DEF C!Admit
<1>3. o.kind \in Ordering /\ o.size \in 0..2 BY <1>1
<1> QED BY <1>2, <1>3 DEF OrdersSized

LEMMA OrdersSizedNext == C!ChannelInv /\ OrdersSized /\ JudgesSized /\ WatchSized /\ C!Next => OrdersSized'
<1> SUFFICES ASSUME C!ChannelInv, OrdersSized, JudgesSized, WatchSized, C!Next PROVE OrdersSized'
  OBVIOUS
<1>1. v11' \subseteq v11 => OrdersSized' BY DEF OrdersSized
<1>2. ASSUME NEW t \in C!Judges, v9[t].at = "send",
             C!Admit(v9[t].post, v9[t].plan.steps[1], v9[t].size)
      PROVE  OrdersSized'
  <2>1. v9[t].plan.steps[1].kind \in Ordering
    <3>1. v9[t].plan.steps[1] \in C!Steps BY <1>2, PostIs
    <3> QED BY <3>1 DEF C!Steps, Ordering
  <2>2. v9[t].size \in 0..2 BY DEF JudgesSized, Sized
  <2> QED BY <1>2, <2>1, <2>2, AdmitSized
<1>3. ASSUME NEW s, C!Admit(v10.post, C!Step("trim", s), v10.size) PROVE OrdersSized'
  <2>1. C!Step("trim", s).kind \in Ordering BY DEF C!Step, Ordering
  <2>2. v10.size \in 0..2 BY DEF WatchSized, Sized
  <2> QED BY <1>3, <2>1, <2>2, AdmitSized
<1>4. ASSUME NEW t \in C!Judges, C!JudgeStep(t) PROVE OrdersSized'
  <2>1. CASE C!Send(t) BY <1>2, <2>1 DEF C!Send
  <2>2. CASE ~C!Send(t)
    BY <1>1, <1>4, <2>2 DEF C!JudgeStep, C!Look, C!Judge, C!Levels, C!Adjust, C!Size, C!Record,
       C!Advance, C!market
  <2> QED BY <2>1, <2>2
<1>5. ASSUME NEW t \in C!Judges, C!JudgeFault(t) PROVE OrdersSized'
  <2>1. CASE C!AnswerLost(t) BY <1>2, <2>1 DEF C!AnswerLost
  <2>2. CASE ~C!AnswerLost(t)
    BY <1>1, <1>5, <2>2 DEF C!JudgeFault, C!ExtractionFails, C!JudgeStale, C!AdjustFails,
       C!SendFails, C!market
  <2> QED BY <2>1, <2>2
<1>6. CASE C!WatchStep
  <2>1. CASE C!Fire BY <1>3, <2>1 DEF C!Fire
  <2>2. CASE ~C!Fire
    BY <1>1, <1>6, <2>2 DEF C!WatchStep, C!SweepLegs, C!ClearLeg, C!SweepTrims, C!Fired,
       C!SweepStops, C!Assert, C!market
  <2> QED BY <2>1, <2>2
<1>7. CASE C!WatchFault
  <2>1. CASE C!FireAnswerLost BY <1>3, <2>1 DEF C!FireAnswerLost
  <2>2. CASE ~C!FireAnswerLost
    BY <1>1, <1>7, <2>2 DEF C!WatchFault, C!FireFails, C!AssertFails, C!Expire, C!market
  <2> QED BY <2>1, <2>2
<1>8. CASE C!Calls
  BY <1>1, <1>8 DEF C!Calls, C!Flush, C!Catchup, C!BackfillEnds, C!NextOf, C!market
<1>9. CASE C!Arrive \/ C!Missed \/ C!MarkMoves \/ C!Restart
  BY <1>1, <1>9 DEF C!Arrive, C!Missed, C!MarkMoves, C!Restart, C!market
<1>10. ASSUME NEW o \in v11, C!CarryOut(o) \/ C!OrderFails(o) PROVE OrdersSized'
  BY <1>1, <1>10 DEF C!CarryOut, C!OrderFails
<1>11. ASSUME NEW s \in C!Sides, C!StopOut(s) \/ C!Time(s) PROVE OrdersSized'
  BY <1>1, <1>11 DEF C!StopOut, C!Time, C!market
<1> QED BY <1>4, <1>5, <1>6, <1>7, <1>8, <1>9, <1>10, <1>11 DEF C!Next

\* A position is made of the orders that were carried out, its entry of marks.
LEMMA LotWritten ==
  ASSUME LotsFit, NEW s, NEW l, l \in Lot, v12' = [v12 EXCEPT ![s] = l], UNCHANGED v13 PROVE LotsFit'
BY DEF LotsFit

LEMMA CarryOutFits == ASSUME LotsFit, OrdersSized, NEW o \in v11, C!CarryOut(o) PROVE LotsFit'
<1>0. UNCHANGED v13 /\ o.kind \in Ordering /\ o.size \in Nat BY DEF C!CarryOut, OrdersSized
<1>1. C!Flat \in Lot BY DEF C!Flat, Lot
<1>2. CASE o.kind = "close"
  <2>1. v12' = [v12 EXCEPT ![o.side] = C!Flat] BY <1>2 DEF C!CarryOut
  <2> QED BY <1>0, <1>1, <2>1, LotWritten
<1>3. CASE o.kind = "trim"
  <2>1. ASSUME NEW p \in Lot PROVE C!Trimmed(p, o.size) \in Lot
    <3>1. PICK n \in Nat, m \in Nat : n = p.size /\ m = o.size BY <1>0 DEF Lot
    <3>2. ~(n <= m) => n - m \in Nat OBVIOUS
    <3> QED BY <1>1, <3>1, <3>2 DEF C!Trimmed, Lot
  <2>2. v12' = [v12 EXCEPT ![o.side] = C!Trimmed(v12[o.side], o.size)]
    BY <1>3 DEF C!CarryOut
  <2>3. o.side \in C!Sides => v12[o.side] \in Lot BY DEF LotsFit
  <2> QED BY <1>0, <2>1, <2>2, <2>3 DEF LotsFit
<1>4. CASE o.kind \in {"open", "add"}
  <2>1. v12' = [s \in C!Sides |-> IF s = o.side THEN C!Blend(v12[s], o.size)
                                  ELSE IF v1.multi THEN v12[s] ELSE C!Flat]
    BY <1>4 DEF C!CarryOut
  <2>2. ASSUME NEW p \in Lot PROVE C!Blend(p, o.size) \in Lot
    <3>1. PICK n \in Nat, m \in 0..3, k \in 1..3 : n = p.size /\ m = p.entry /\ k = v13
      BY DEF Lot, LotsFit, C!Prices
    <3>2. (m + k) \div 2 \in 0..3 /\ n + o.size \in Nat /\ k \in 0..3 BY <1>0
    <3> QED BY <3>1, <3>2 DEF C!Blend, Lot
  <2> QED BY <1>0, <1>1, <2>1, <2>2 DEF LotsFit
<1> QED BY <1>0, <1>2, <1>3, <1>4 DEF Ordering

LEMMA LotsFitNext == C!ChannelInv /\ LotsFit /\ OrdersSized /\ C!Next => LotsFit'
<1> SUFFICES ASSUME C!ChannelInv, LotsFit, OrdersSized, C!Next PROVE LotsFit' OBVIOUS
<1>1. UNCHANGED <<v12, v13>> => LotsFit' BY DEF LotsFit
<1>2. ASSUME NEW t \in C!Judges, C!JudgeStep(t) PROVE LotsFit'
  BY <1>1, <1>2 DEF C!JudgeStep, C!Look, C!Judge, C!Levels, C!Adjust, C!Size, C!Send, C!Record,
     C!Advance, C!market
<1>3. ASSUME NEW t \in C!Judges, C!JudgeFault(t) PROVE LotsFit'
  BY <1>1, <1>3 DEF C!JudgeFault, C!ExtractionFails, C!JudgeStale, C!AdjustFails, C!SendFails,
     C!AnswerLost, C!market
<1>4. CASE C!WatchStep
  BY <1>1, <1>4 DEF C!WatchStep, C!SweepLegs, C!ClearLeg, C!SweepTrims, C!Fire, C!Fired,
     C!SweepStops, C!Assert, C!market
<1>5. CASE C!WatchFault
  BY <1>1, <1>5 DEF C!WatchFault, C!FireFails, C!FireAnswerLost, C!AssertFails, C!Expire, C!market
<1>6. CASE C!Calls
  BY <1>1, <1>6 DEF C!Calls, C!Flush, C!Catchup, C!BackfillEnds, C!NextOf, C!market
<1>7. CASE C!Arrive \/ C!Missed \/ C!Restart
  BY <1>1, <1>7 DEF C!Arrive, C!Missed, C!Restart, C!market
<1>8. CASE C!MarkMoves
  <2>1. v12' = v12 /\ v13' = 4 - v13 BY <1>8 DEF C!MarkMoves
  <2>2. 4 - v13 \in C!Prices BY DEF LotsFit, C!Prices
  <2> QED BY <2>1, <2>2 DEF LotsFit
<1>9. ASSUME NEW o \in v11, C!CarryOut(o) \/ C!OrderFails(o) PROVE LotsFit'
  BY <1>1, <1>9, CarryOutFits DEF C!OrderFails
<1>10. ASSUME NEW s \in C!Sides, C!StopOut(s) \/ C!Time(s) PROVE LotsFit'
  <2>1. CASE C!StopOut(s)
    <3>1. v12' = [v12 EXCEPT ![s] = C!Flat] /\ v13' = v13 BY <2>1 DEF C!StopOut
    <3>2. C!Flat \in Lot BY DEF C!Flat, Lot
    <3> QED BY <3>1, <3>2, LotWritten
  <2>2. CASE C!Time(s) BY <1>1, <2>2 DEF C!Time, C!market
  <2> QED BY <1>10, <2>1, <2>2
<1> QED BY <1>2, <1>3, <1>4, <1>5, <1>6, <1>7, <1>8, <1>9, <1>10 DEF C!Next

\* What has cut in is among what went wrong.
LEMMA FaultsCountedNext == C!ChannelInv /\ FaultsCounted /\ C!Next => FaultsCounted'
<1> SUFFICES ASSUME C!ChannelInv, FaultsCounted, C!Next PROVE FaultsCounted' OBVIOUS
<1>0. v1.faults \in Nat BY StoriesAssumption DEF C!ChannelInv, C!ChannelTypes
<1>1. UNCHANGED <<v1, v14, v16>> => FaultsCounted' BY DEF FaultsCounted
<1>2. UNCHANGED v1 /\ C!Fault => FaultsCounted' BY <1>0 DEF C!Fault, FaultsCounted
<1>3. ASSUME NEW kind, UNCHANGED v1, C!Slip(kind) PROVE FaultsCounted' BY <1>2, <1>3 DEF C!Slip
<1>4. ASSUME NEW t \in C!Judges, C!JudgeStep(t) PROVE FaultsCounted'
  BY <1>1, <1>4 DEF C!JudgeStep, C!Look, C!Judge, C!Levels, C!Adjust, C!Size, C!Send, C!Record,
     C!Advance, C!counts
<1>5. ASSUME NEW t \in C!Judges, C!JudgeFault(t) PROVE FaultsCounted'
  BY <1>2, <1>3, <1>5 DEF C!JudgeFault, C!ExtractionFails, C!JudgeStale, C!AdjustFails,
     C!SendFails, C!AnswerLost
<1>6. CASE C!WatchStep
  BY <1>1, <1>6 DEF C!WatchStep, C!SweepLegs, C!ClearLeg, C!SweepTrims, C!Fire, C!Fired,
     C!SweepStops, C!Assert, C!counts
<1>7. CASE C!WatchFault
  BY <1>2, <1>3, <1>7 DEF C!WatchFault, C!FireFails, C!FireAnswerLost, C!AssertFails, C!Expire
<1>8. CASE C!Calls
  BY <1>1, <1>8 DEF C!Calls, C!Flush, C!Catchup, C!BackfillEnds, C!NextOf, C!counts
<1>9. CASE C!Arrive \/ C!Missed \/ C!Restart
  BY <1>1, <1>2, <1>3, <1>9 DEF C!Arrive, C!Missed, C!Restart
<1>10. CASE C!MarkMoves BY <1>1, <1>10 DEF C!MarkMoves
<1>11. ASSUME NEW o \in v11, C!CarryOut(o) \/ C!OrderFails(o) PROVE FaultsCounted'
  BY <1>1, <1>2, <1>11 DEF C!CarryOut, C!OrderFails, C!counts
<1>12. ASSUME NEW s \in C!Sides, C!StopOut(s) \/ C!Time(s) PROVE FaultsCounted'
  BY <1>1, <1>2, <1>12 DEF C!StopOut, C!Time, C!counts
<1> QED BY <1>4, <1>5, <1>6, <1>7, <1>8, <1>9, <1>10, <1>11, <1>12 DEF C!Next

-------------------------------------------------------------------------------
LEMMA ChannelBoundNext == C!ChannelInv /\ ChannelBound /\ [C!Next]_(C!vars) => ChannelBound'
<1> SUFFICES ASSUME C!ChannelInv, ChannelBound, [C!Next]_(C!vars) PROVE ChannelBound' OBVIOUS
<1>1. CASE C!Next
  BY <1>1, LegsFitNext, JudgesSizedNext, WatchSizedNext, OrdersSizedNext, LotsFitNext,
     FaultsCountedNext
  DEF ChannelBound
<1>2. CASE UNCHANGED C!vars
  <2>1. UNCHANGED <<v1, v7, v9, v10, v11, v12, v13, v14, v16>>
    BY <1>2 DEF C!vars, C!stored, C!tasks, C!market, C!counts
  <2> QED BY <2>1 DEF ChannelBound, LegsFit, Leg, JudgesSized, WatchSized, Sized, OrdersSized,
       LotsFit, FaultsCounted
<1> QED BY <1>1, <1>2

LEMMA ChannelTyped == C!ChannelInv /\ ChannelBound => C!TypeOK
<1> SUFFICES ASSUME C!ChannelInv, ChannelBound PROVE C!TypeOK OBVIOUS
<1>1. \A s \in C!Sides : v12[s].size \in Nat /\ v12[s].entry \in 0..3
  BY DEF ChannelBound, LotsFit, Lot
<1>2. \A s \in C!Sides : C!Open(s) => v7[s].stop \in 0..3
  BY DEF ChannelBound, LegsFit, Leg, C!Open
<1>3. \A t \in C!Judges : v9[t].size \in 0..C!Unit
  BY DEF ChannelBound, JudgesSized, Sized, C!Unit
<1> QED BY <1>1, <1>2, <1>3
  DEF C!TypeOK, C!ChannelInv, C!ChannelTypes, ChannelBound, FaultsCounted, LotsFit

-------------------------------------------------------------------------------
LEMMA EngineTyped == E!EngineInv => E!TypeOK
<1> SUFFICES ASSUME E!EngineInv PROVE E!TypeOK OBVIOUS
<1>1. E!EngineTypes /\ \A l \in E!Loops : E!LoopFits(l) BY DEF E!EngineInv
<1>2. v2 \in Nat
  <2>1. v2 \in 0..Len(v1.minutes) BY <1>1 DEF E!EngineTypes
  <2> QED BY <2>1
<1>3. v8.minute <= v2 /\ v8.hour <= E!Hours
  BY <1>1, <1>2 DEF E!EngineTypes
<1>4. ASSUME NEW b \in DOMAIN v6
      PROVE  v6[b].left \in {E!Part, 100} /\ v6[b].stop <= E!BreakEven
  <2>1. v6 \in Seq(E!Brackets) BY <1>1 DEF E!EngineTypes
  <2>2. v6[b] \in E!Brackets BY <2>1, ElementOfSeq
  <2> QED BY <2>2 DEF E!Brackets, E!Stop, E!Tight, E!BreakEven
<1>5. ASSUME NEW l \in E!Loops
      PROVE  /\ v7[l].at \in {"idle", "read", "legs", "signals"} /\ v7[l].of \in 0..Len(v6)
  <2>1. v7[l] \in E!LoopSet BY <1>1 DEF E!EngineTypes
  <2>2. v7[l].at \in {"idle", "read", "legs", "signals"} BY <2>1 DEF E!LoopSet
  <2>3. v7[l].of \in 0..Len(v6) BY <1>1 DEF E!LoopFits
  <2> QED BY <2>2, <2>3
<1> QED BY <1>1, <1>3, <1>4, <1>5 DEF E!TypeOK, E!EngineTypes, E!Sides

-------------------------------------------------------------------------------
(* The types of both.                                                      *)

\* The channel and the engine keep to their types and bounds, for any posts, scripts and faults:
\* what is judged was read and what is read was posted, every stop is a price, the legs that are
\* out add up, and no loop has got ahead of the bars (Typed of MCServices; ServicesTyped of
\* ServicesProofs is the same of the other services).
THEOREM TradesTyped == SpecServices => [](turn \in {"channel", "engine"} => Typed)
<1> DEFINE Inv == /\ turn = "channel" => C!ChannelInv /\ ChannelBound
                  /\ turn = "engine"  => E!EngineInv
<1>1. InitServices => Inv
  <2> SUFFICES ASSUME InitServices PROVE Inv OBVIOUS
  <2>1. turn = "channel" => C!Init BY DEF InitServices
  <2>2. turn = "engine" => E!Init BY DEF InitServices
  <2> QED BY <2>1, <2>2, ChannelInit, ChannelBoundInit, EngineInit
<1>2. Inv /\ [NextServices]_all => Inv'
  <2> SUFFICES ASSUME Inv, [NextServices]_all PROVE Inv' OBVIOUS
  <2>1. turn' = "channel" => turn = "channel" BY DEF NextServices, all, C!Next
  <2>2. turn' = "channel" => (C!ChannelInv /\ ChannelBound)'
    BY <2>1, ChannelNext, ChannelBoundNext, ChannelMoves
  <2>3. turn' = "engine" => E!EngineInv' BY EngineKept
  <2> QED BY <2>2, <2>3
<1>3. Inv => (turn \in {"channel", "engine"} => Typed) BY ChannelTyped, EngineTyped DEF Typed
<1> QED BY <1>1, <1>2, <1>3, PTL DEF SpecServices

===============================================================================
