------------------------------- MODULE DataLemmas -------------------------------
(***************************************************************************)
(* Induction over data, without operators: the library's induction         *)
(* theorems take an operator as a parameter, which no prover here can      *)
(* instantiate.  Over the numbers it is done with a set that holds zero    *)
(* and every successor, over a finite set with a smallest counterexample.  *)
(*                                                                         *)
(* Sums of a function over a finite set, as the models take them with      *)
(* MapThenSumSet of the community modules: that the recursion behind it    *)
(* has a value, that the order of the elements does not matter, and what   *)
(* adding an element or changing one value does to the sum.                *)
(***************************************************************************)
EXTENDS FiniteSetsExt, FiniteSetTheorems, SequenceTheorems, WellFoundedInduction, TLAPS

\* Every set of numbers has a least one.
LEMMA LeastNumber ==
  ASSUME NEW T \in SUBSET Nat, T # {}
  PROVE  \E x \in T : \A y \in T : x <= y
<1> DEFINE Less == {ss \in Nat \X Nat : ss[1] < ss[2]}
<1>1. IsWellFoundedOn(Less, Nat) BY NatLessThanWellFounded DEF OpToRel
<1>2. PICK x \in T : \A y \in T : ~(<<y, x>> \in Less)
  <2> HIDE DEF Less
  <2> QED BY <1>1, WFMin
<1>3. \A y \in T : ~(y < x) BY <1>2
<1> QED BY <1>3

\* A set that holds zero and, with each number, the next one holds every number.
LEMMA Induction ==
  ASSUME NEW T, 0 \in T, \A n \in Nat : n \in T => n + 1 \in T
  PROVE  Nat \subseteq T
<1> DEFINE Bad == {n \in Nat : n \notin T}
<1>1. SUFFICES ASSUME Bad # {} PROVE FALSE OBVIOUS
<1>2. PICK n \in Bad : \A m \in Bad : n <= m
  <2>1. Bad \in SUBSET Nat OBVIOUS
  <2> HIDE DEF Bad
  <2> QED BY <1>1, <2>1, LeastNumber
<1>3. n \in Nat /\ n \notin T /\ n # 0 BY <1>2
<1>4. n - 1 \in Nat /\ n - 1 \in T BY <1>2, <1>3
<1>5. (n - 1) + 1 \in T BY <1>4
<1> QED BY <1>3, <1>5

\* The head and the tail of a sequence that is not empty.
LEMMA TailIs ==
  ASSUME NEW S, NEW s \in Seq(S), s # <<>>
  PROVE  /\ Head(s) = s[1] /\ s[1] \in S /\ Tail(s) \in Seq(S) /\ 1 \in DOMAIN s
         /\ Len(s) \in Nat \ {0} /\ Len(Tail(s)) = Len(s) - 1
         /\ \A i \in DOMAIN Tail(s) : i + 1 \in DOMAIN s /\ Tail(s)[i] = s[i + 1]
<1>1. Len(s) \in Nat \ {0} BY EmptySeq
<1>2. Head(s) = s[1] /\ 1 \in DOMAIN s /\ s[1] \in S BY <1>1, ElementOfSeq
<1>3. Tail(s) \in Seq(S) /\ Len(Tail(s)) = Len(s) - 1 BY <1>1, HeadTailProperties
<1>4. \A i \in DOMAIN Tail(s) : i + 1 \in DOMAIN s /\ Tail(s)[i] = s[i + 1]
  BY <1>1, <1>3, HeadTailProperties
<1> QED BY <1>1, <1>2, <1>3, <1>4

-------------------------------------------------------------------------------
(* Sums.                                                                   *)

Total(f, S) == MapThenSumSet(LAMBDA x : f[x], S)

\* Of every collection of subsets of a finite set, some member contains no other.
LEMMA SmallestSubset ==
  ASSUME NEW S, IsFiniteSet(S), NEW Bad, Bad \subseteq SUBSET S, Bad # {}
  PROVE  \E T \in Bad : \A U \in Bad : U \subseteq T => U = T
<1> DEFINE Less == StrictSubsetOrdering(S)
<1>1. IsWellFoundedOn(Less, SUBSET S)
  BY FS_StrictSubsetOrderingWellFounded, FS_FiniteSubsetsOfFinite
<1>2. PICK T \in Bad : \A U \in Bad : ~(<<U, T>> \in Less)
  <2> HIDE DEF Less
  <2> QED BY <1>1, WFMin
<1>3. ASSUME NEW U \in Bad, U \subseteq T PROVE U = T
  <2>1. <<U, T>> \in (SUBSET S) \X (SUBSET S) OBVIOUS
  <2>2. ~(<<U, T>> \in Less) BY <1>2
  <2> QED BY <1>3, <2>1, <2>2 DEF StrictSubsetOrdering
<1> QED BY <1>2, <1>3

-------------------------------------------------------------------------------
(* The recursion.                                                          *)

One(s) == CHOOSE x \in s : TRUE

\* h is the sum of f over each subset of S, an element at a time.
Sums(f, h, S) ==
  h = [s \in SUBSET S |-> IF s = {} THEN 0 ELSE f[One(s)] + h[s \ {One(s)}]]

LEMMA TotalIsRecursive ==
  ASSUME NEW f, NEW S
  PROVE  Total(f, S) = (CHOOSE h : Sums(f, h, S))[S]
BY DEF Total, MapThenSumSet, MapThenFoldSet, Sums, One

LEMMA OneOf == ASSUME NEW s, s # {} PROVE One(s) \in s
BY DEF One

\* Two such functions agree where both are defined.
LEMMA SumsAgree ==
  ASSUME NEW f, NEW S, IsFiniteSet(S), NEW R, NEW g, NEW h, Sums(f, g, S), Sums(f, h, R),
         NEW s \in SUBSET S, s \in SUBSET R
  PROVE  g[s] = h[s]
<1> DEFINE Bad == {t \in SUBSET S : t \subseteq R /\ g[t] # h[t]}
<1>1. SUFFICES ASSUME Bad # {} PROVE FALSE OBVIOUS
<1>2. PICK t \in Bad : \A u \in Bad : u \subseteq t => u = t
  <2> HIDE DEF Bad
  <2>1. Bad \subseteq SUBSET S BY DEF Bad
  <2> QED BY <1>1, <2>1, SmallestSubset
<1>3. t \in SUBSET S /\ t \in SUBSET R /\ g[t] # h[t] OBVIOUS
<1>4. t # {}
  <2>1. {} \in SUBSET S /\ {} \in SUBSET R OBVIOUS
  <2>2. g[{}] = 0 /\ h[{}] = 0 BY <2>1 DEF Sums
  <2> QED BY <1>3, <2>2
<1> DEFINE u == t \ {One(t)}
<1>5. One(t) \in t BY <1>4, OneOf
<1>6. u \subseteq t /\ u # t /\ u \in SUBSET S /\ u \in SUBSET R BY <1>3, <1>5
<1>7. g[u] = h[u] BY <1>2, <1>6
<1>8. g[t] = f[One(t)] + g[u] /\ h[t] = f[One(t)] + h[u] BY <1>3, <1>4 DEF Sums
<1> QED BY <1>3, <1>7, <1>8

\* There is such a function for every finite set.
LEMMA SumsExist ==
  ASSUME NEW f, NEW S, IsFiniteSet(S)
  PROVE  \E h : Sums(f, h, S)
<1> DEFINE Bad == {t \in SUBSET S : ~\E h : Sums(f, h, t)}
<1>1. SUFFICES ASSUME Bad # {} PROVE FALSE OBVIOUS
<1>2. PICK t \in Bad : \A u \in Bad : u \subseteq t => u = t
  <2> HIDE DEF Bad
  <2>1. Bad \subseteq SUBSET S BY DEF Bad
  <2> QED BY <1>1, <2>1, SmallestSubset
<1>3. t \in SUBSET S /\ ~\E h : Sums(f, h, t) OBVIOUS
<1> DEFINE Part(u) == CHOOSE h : Sums(f, h, u)
           Rest(u) == u \ {One(u)}
           h == [u \in SUBSET t |->
                   IF u = {} THEN 0 ELSE f[One(u)] + Part(Rest(u))[Rest(u)]]
<1>4. ASSUME NEW u \in SUBSET t, u # {}
      PROVE  Sums(f, Part(Rest(u)), Rest(u)) /\ Rest(u) \in SUBSET t
  <2>1. One(u) \in u BY <1>4, OneOf
  <2>2. Rest(u) \subseteq t /\ Rest(u) # t BY <2>1
  <2>3. Rest(u) \notin Bad BY <1>2, <2>2
  <2>4. Rest(u) \in SUBSET S BY <1>3, <2>2
  <2>5. \E g : Sums(f, g, Rest(u)) BY <2>3, <2>4
  <2> HIDE DEF Bad, h
  <2> QED BY <2>2, <2>5
<1>5. ASSUME NEW u \in SUBSET t, u # {}
      PROVE  Part(Rest(u))[Rest(u)] = h[Rest(u)]
  <2> DEFINE v == Rest(u)
  <2>1. v \in SUBSET t /\ Sums(f, Part(v), v) BY <1>4, <1>5
  <2>2. IsFiniteSet(v)
    <3>1. v \in SUBSET S BY <1>3, <2>1
    <3> HIDE DEF v
    <3> QED BY <3>1, FS_Subset
  <2>3. CASE v = {}
    <3>1. h[v] = 0 BY <2>1, <2>3
    <3>2. Part(v)[v] = 0
      <4> HIDE DEF v, Part
      <4> QED BY <2>1, <2>3 DEF Sums
    <3> QED BY <3>1, <3>2
  <2>4. CASE v # {}
    <3> DEFINE w == Rest(v)
    <3>1. h[v] = f[One(v)] + Part(w)[w] BY <2>1, <2>4
    <3>2. Sums(f, Part(w), w) BY <1>4, <2>1, <2>4
    <3>3. Part(v)[v] = f[One(v)] + Part(v)[w]
      <4> HIDE DEF Part
      <4>1. v \in SUBSET v OBVIOUS
      <4> HIDE DEF v
      <4> QED BY <2>1, <2>4, <4>1 DEF Sums
    <3>4. Part(v)[w] = Part(w)[w]
      <4>1. w \in SUBSET v /\ w \in SUBSET w OBVIOUS
      <4> HIDE DEF Part, v, w
      <4> QED BY <2>1, <2>2, <3>2, <4>1, SumsAgree
    <3> HIDE DEF h
    <3> QED BY <3>1, <3>3, <3>4
  <2> QED BY <2>3, <2>4
<1>6. \A u \in SUBSET t : h[u] = IF u = {} THEN 0 ELSE f[One(u)] + h[u \ {One(u)}]
  <2> SUFFICES ASSUME NEW u \in SUBSET t
               PROVE  h[u] = IF u = {} THEN 0 ELSE f[One(u)] + h[Rest(u)]
    OBVIOUS
  <2>1. h[u] = IF u = {} THEN 0 ELSE f[One(u)] + Part(Rest(u))[Rest(u)] OBVIOUS
  <2>2. u # {} => Part(Rest(u))[Rest(u)] = h[Rest(u)] BY <1>5
  <2> HIDE DEF h, Part, Rest
  <2> QED BY <2>1, <2>2
<1>7. h = [u \in SUBSET t |-> h[u]] OBVIOUS
<1>8. Sums(f, h, t)
  <2> HIDE DEF h
  <2> QED BY <1>6, <1>7 DEF Sums
<1> QED BY <1>3, <1>8

LEMMA TotalIsSum ==
  ASSUME NEW f, NEW S, IsFiniteSet(S)
  PROVE  \E h : Sums(f, h, S) /\ Total(f, S) = h[S]
BY SumsExist, TotalIsRecursive

\* The sum over a part is the value at the part.
LEMMA TotalOfPart ==
  ASSUME NEW f, NEW S, IsFiniteSet(S), NEW h, Sums(f, h, S), NEW T \in SUBSET S
  PROVE  Total(f, T) = h[T]
<1>1. IsFiniteSet(T) BY FS_Subset
<1>2. PICK g : Sums(f, g, T) /\ Total(f, T) = g[T] BY <1>1, TotalIsSum
<1>3. T \in SUBSET T OBVIOUS
<1>4. Sums(f, g, T) /\ Sums(f, h, S) BY <1>2
<1>5. h[T] = g[T] BY ONLY <1>3, <1>4, IsFiniteSet(S), T \in SUBSET S, SumsAgree
<1> QED BY <1>2, <1>5

-------------------------------------------------------------------------------
(* What the models' proofs use.                                            *)

LEMMA TotalOfNone == ASSUME NEW f PROVE Total(f, {}) = 0
<1>1. IsFiniteSet({}) BY FS_EmptySet
<1>2. PICK h : Sums(f, h, {}) /\ Total(f, {}) = h[{}] BY <1>1, TotalIsSum
<1>3. {} \in SUBSET {} OBVIOUS
<1> QED BY <1>2, <1>3 DEF Sums

\* The element the recursion picks.
LEMMA TotalByOne ==
  ASSUME NEW f, NEW S, IsFiniteSet(S), S # {}
  PROVE  One(S) \in S /\ Total(f, S) = f[One(S)] + Total(f, S \ {One(S)})
<1>1. PICK h : Sums(f, h, S) /\ Total(f, S) = h[S] BY TotalIsSum
<1>2. S \in SUBSET S /\ S \ {One(S)} \in SUBSET S OBVIOUS
<1>3. h[S] = f[One(S)] + h[S \ {One(S)}] BY <1>1, <1>2 DEF Sums
<1>4. Total(f, S \ {One(S)}) = h[S \ {One(S)}] BY <1>1, <1>2, TotalOfPart
<1> QED BY <1>1, <1>3, <1>4, OneOf

LEMMA TotalIsInt ==
  ASSUME NEW f, NEW S, IsFiniteSet(S), \A x \in S : f[x] \in Int
  PROVE  Total(f, S) \in Int
<1> DEFINE Bad == {t \in SUBSET S : Total(f, t) \notin Int}
<1>1. SUFFICES ASSUME Bad # {} PROVE FALSE OBVIOUS
<1>2. PICK t \in Bad : \A u \in Bad : u \subseteq t => u = t
  <2> HIDE DEF Bad
  <2>1. Bad \subseteq SUBSET S BY DEF Bad
  <2> QED BY <1>1, <2>1, SmallestSubset
<1>3. t \in SUBSET S /\ Total(f, t) \notin Int OBVIOUS
<1>4. t # {} BY <1>3, TotalOfNone
<1> DEFINE u == t \ {One(t)}
<1>5. One(t) \in t /\ Total(f, t) = f[One(t)] + Total(f, u)
  BY <1>3, <1>4, FS_Subset, TotalByOne
<1>6. u \in SUBSET S /\ u \subseteq t /\ u # t BY <1>3, <1>5
<1>7. Total(f, u) \in Int BY <1>2, <1>6
<1>8. f[One(t)] \in Int BY <1>3, <1>5
<1> QED BY <1>3, <1>5, <1>7, <1>8

\* Any element may be taken first.
LEMMA TotalByAny ==
  ASSUME NEW f, NEW S, IsFiniteSet(S), \A x \in S : f[x] \in Int, NEW x \in S
  PROVE  Total(f, S) = f[x] + Total(f, S \ {x})
<1> DEFINE Splits(t) == \A y \in t : Total(f, t) = f[y] + Total(f, t \ {y})
           Bad == {t \in SUBSET S : ~Splits(t)}
<1>1. SUFFICES ASSUME Bad # {} PROVE FALSE
  <2>1. S \in SUBSET S OBVIOUS
  <2> QED BY <2>1
<1>2. PICK t \in Bad : \A u \in Bad : u \subseteq t => u = t
  <2> HIDE DEF Bad
  <2>1. Bad \subseteq SUBSET S BY DEF Bad
  <2> QED BY <1>1, <2>1, SmallestSubset
<1>3. PICK y \in t : Total(f, t) # f[y] + Total(f, t \ {y}) OBVIOUS
<1>4. t \in SUBSET S /\ IsFiniteSet(t) /\ t # {} BY <1>3, FS_Subset
<1> DEFINE c == One(t)
<1>5. c \in t /\ Total(f, t) = f[c] + Total(f, t \ {c}) BY <1>4, TotalByOne
<1> HIDE DEF c
<1>6. y # c BY <1>3, <1>5
<1>7. Splits(t \ {c}) /\ Splits(t \ {y})
  <2>1. /\ t \ {c} \in SUBSET S /\ t \ {c} \subseteq t /\ t \ {c} # t
        /\ t \ {y} \in SUBSET S /\ t \ {y} \subseteq t /\ t \ {y} # t
    BY <1>3, <1>4, <1>5
  <2> HIDE DEF Splits
  <2> QED BY <1>2, <2>1
<1> DEFINE w == t \ {c, y}
<1>8. (t \ {c}) \ {y} = w /\ (t \ {y}) \ {c} = w OBVIOUS
<1>9. Total(f, t \ {c}) = f[y] + Total(f, w) /\ Total(f, t \ {y}) = f[c] + Total(f, w)
  BY <1>5, <1>6, <1>7, <1>8
<1>10. Total(f, w) \in Int
  <2>1. w \in SUBSET S /\ \A z \in w : f[z] \in Int BY <1>4
  <2> HIDE DEF w
  <2> QED BY <2>1, FS_Subset, TotalIsInt
<1>11. f[c] \in Int /\ f[y] \in Int BY <1>3, <1>4, <1>5
<1> QED BY <1>3, <1>5, <1>9, <1>10, <1>11

\* Only the values on the set count.
LEMMA TotalSame ==
  ASSUME NEW f, NEW g, NEW S, IsFiniteSet(S), \A x \in S : f[x] = g[x]
  PROVE  Total(f, S) = Total(g, S)
<1> DEFINE Bad == {t \in SUBSET S : Total(f, t) # Total(g, t)}
<1>1. SUFFICES ASSUME Bad # {} PROVE FALSE OBVIOUS
<1>2. PICK t \in Bad : \A u \in Bad : u \subseteq t => u = t
  <2> HIDE DEF Bad
  <2>1. Bad \subseteq SUBSET S BY DEF Bad
  <2> QED BY <1>1, <2>1, SmallestSubset
<1>3. t \in SUBSET S /\ Total(f, t) # Total(g, t) OBVIOUS
<1>4. t # {} BY <1>3, TotalOfNone
<1> DEFINE c == One(t)  u == t \ {c}
<1>5. c \in t /\ Total(f, t) = f[c] + Total(f, u) /\ Total(g, t) = g[c] + Total(g, u)
  BY <1>3, <1>4, FS_Subset, TotalByOne
<1>6. u \in SUBSET S /\ u \subseteq t /\ u # t BY <1>3, <1>5
<1>7. Total(f, u) = Total(g, u) BY <1>2, <1>6
<1>8. f[c] = g[c] BY <1>3, <1>5
<1> QED BY <1>3, <1>5, <1>7, <1>8

\* An element more.
LEMMA TotalAdd ==
  ASSUME NEW f, NEW S, IsFiniteSet(S), NEW x, x \notin S, \A y \in S \cup {x} : f[y] \in Int
  PROVE  Total(f, S \cup {x}) = Total(f, S) + f[x]
<1>1. IsFiniteSet(S \cup {x}) BY FS_AddElement
<1>2. (S \cup {x}) \ {x} = S OBVIOUS
<1>3. Total(f, S \cup {x}) = f[x] + Total(f, S) BY <1>1, <1>2, TotalByAny
<1>4. Total(f, S) \in Int /\ f[x] \in Int BY TotalIsInt
<1> QED BY <1>3, <1>4

\* One value changes.
LEMMA TotalChange ==
  ASSUME NEW f, NEW g, NEW S, IsFiniteSet(S), NEW x \in S,
         \A y \in S : f[y] \in Int /\ g[y] \in Int, \A y \in S : y # x => g[y] = f[y]
  PROVE  Total(g, S) = Total(f, S) + (g[x] - f[x])
<1>1. IsFiniteSet(S \ {x}) BY FS_RemoveElement
<1>2. Total(f, S \ {x}) = Total(g, S \ {x}) BY <1>1, TotalSame
<1>3. Total(f, S) = f[x] + Total(f, S \ {x}) /\ Total(g, S) = g[x] + Total(g, S \ {x})
  BY TotalByAny
<1>4. f[x] \in Int /\ g[x] \in Int /\ Total(f, S \ {x}) \in Int BY <1>1, TotalIsInt
<1> QED BY <1>2, <1>3, <1>4

\* Values that are nowhere negative bound each other and the sum.
LEMMA TotalIsNat ==
  ASSUME NEW f, NEW S, IsFiniteSet(S), \A x \in S : f[x] \in Nat
  PROVE  Total(f, S) \in Nat
<1> DEFINE Bad == {t \in SUBSET S : Total(f, t) \notin Nat}
<1>1. SUFFICES ASSUME Bad # {} PROVE FALSE OBVIOUS
<1>2. PICK t \in Bad : \A u \in Bad : u \subseteq t => u = t
  <2> HIDE DEF Bad
  <2>1. Bad \subseteq SUBSET S BY DEF Bad
  <2> QED BY <1>1, <2>1, SmallestSubset
<1>3. t \in SUBSET S /\ Total(f, t) \notin Nat OBVIOUS
<1>4. t # {} BY <1>3, TotalOfNone
<1> DEFINE u == t \ {One(t)}
<1>5. One(t) \in t /\ Total(f, t) = f[One(t)] + Total(f, u)
  BY <1>3, <1>4, FS_Subset, TotalByOne
<1>6. u \in SUBSET S /\ u \subseteq t /\ u # t BY <1>3, <1>5
<1>7. Total(f, u) \in Nat BY <1>2, <1>6
<1>8. f[One(t)] \in Nat BY <1>3, <1>5
<1> QED BY <1>3, <1>5, <1>7, <1>8

LEMMA TotalIsZero ==
  ASSUME NEW f, NEW S, IsFiniteSet(S), \A x \in S : f[x] = 0
  PROVE  Total(f, S) = 0
<1> DEFINE Bad == {t \in SUBSET S : Total(f, t) # 0}
<1>1. SUFFICES ASSUME Bad # {} PROVE FALSE OBVIOUS
<1>2. PICK t \in Bad : \A u \in Bad : u \subseteq t => u = t
  <2> HIDE DEF Bad
  <2>1. Bad \subseteq SUBSET S BY DEF Bad
  <2> QED BY <1>1, <2>1, SmallestSubset
<1>3. t \in SUBSET S /\ Total(f, t) # 0 OBVIOUS
<1>4. t # {} BY <1>3, TotalOfNone
<1> DEFINE u == t \ {One(t)}
<1>5. One(t) \in t /\ Total(f, t) = f[One(t)] + Total(f, u)
  BY <1>3, <1>4, FS_Subset, TotalByOne
<1>6. u \in SUBSET S /\ u \subseteq t /\ u # t BY <1>3, <1>5
<1>7. Total(f, u) = 0 BY <1>2, <1>6
<1>8. f[One(t)] = 0 BY <1>3, <1>5
<1> QED BY <1>3, <1>5, <1>7, <1>8

\* Sums grow with their terms.
LEMMA TotalLeq ==
  ASSUME NEW f, NEW g, NEW S, IsFiniteSet(S),
         \A x \in S : f[x] \in Int /\ g[x] \in Int /\ f[x] <= g[x]
  PROVE  Total(f, S) <= Total(g, S)
<1> DEFINE Bad == {t \in SUBSET S : ~(Total(f, t) <= Total(g, t))}
<1>1. SUFFICES ASSUME Bad # {} PROVE FALSE OBVIOUS
<1>2. PICK t \in Bad : \A u \in Bad : u \subseteq t => u = t
  <2> HIDE DEF Bad
  <2>1. Bad \subseteq SUBSET S BY DEF Bad
  <2> QED BY <1>1, <2>1, SmallestSubset
<1>3. t \in SUBSET S /\ ~(Total(f, t) <= Total(g, t)) OBVIOUS
<1>4. t # {}
  <2>1. Total(f, {}) = 0 /\ Total(g, {}) = 0 BY TotalOfNone
  <2> QED BY <1>3, <2>1
<1> DEFINE c == One(t)  u == t \ {c}
<1>5. c \in t /\ Total(f, t) = f[c] + Total(f, u) /\ Total(g, t) = g[c] + Total(g, u)
  BY <1>3, <1>4, FS_Subset, TotalByOne
<1>6. u \in SUBSET S /\ u \subseteq t /\ u # t BY <1>3, <1>5
<1>7. Total(f, u) <= Total(g, u) BY <1>2, <1>6
<1>8. f[c] \in Int /\ g[c] \in Int /\ f[c] <= g[c] BY <1>3, <1>5
<1>9. Total(f, u) \in Int /\ Total(g, u) \in Int
  <2>1. IsFiniteSet(u) /\ \A x \in u : f[x] \in Int /\ g[x] \in Int BY <1>6, FS_Subset
  <2> HIDE DEF u
  <2> QED BY <2>1, TotalIsInt
<1> HIDE DEF c, u
<1> QED BY <1>3, <1>5, <1>7, <1>8, <1>9

\* A part of a sum of such values is at most the sum.
LEMMA TotalPart ==
  ASSUME NEW f, NEW S, IsFiniteSet(S), \A x \in S : f[x] \in Nat, NEW T \in SUBSET S
  PROVE  Total(f, T) <= Total(f, S)
<1> DEFINE Bad == {t \in SUBSET S : T \subseteq t /\ ~(Total(f, T) <= Total(f, t))}
<1>1. SUFFICES ASSUME Bad # {} PROVE FALSE
  <2>1. S \in SUBSET S OBVIOUS
  <2> QED BY <2>1
<1>2. PICK t \in Bad : \A u \in Bad : u \subseteq t => u = t
  <2> HIDE DEF Bad
  <2>1. Bad \subseteq SUBSET S BY DEF Bad
  <2> QED BY <1>1, <2>1, SmallestSubset
<1>3. t \in SUBSET S /\ T \subseteq t /\ ~(Total(f, T) <= Total(f, t)) OBVIOUS
<1>4. IsFiniteSet(t) /\ IsFiniteSet(T) BY <1>3, FS_Subset
<1>5. Total(f, t) \in Nat /\ Total(f, T) \in Nat BY <1>3, <1>4, TotalIsNat
<1>6. PICK x \in t : x \notin T BY <1>3, <1>5
<1> DEFINE u == t \ {x}
<1>7. u \in SUBSET S /\ T \subseteq u /\ u \subseteq t /\ u # t BY <1>3, <1>6
<1>8. Total(f, T) <= Total(f, u) BY <1>2, <1>7
<1>9. Total(f, t) = f[x] + Total(f, u)
  <2>1. \A y \in t : f[y] \in Int BY <1>3
  <2> QED BY <1>4, <2>1, TotalByAny
<1>10. f[x] \in Nat BY <1>3
<1>11. Total(f, u) \in Nat
  <2>1. IsFiniteSet(u) /\ \A y \in u : f[y] \in Nat BY <1>7, FS_Subset
  <2> HIDE DEF u
  <2> QED BY <2>1, TotalIsNat
<1> HIDE DEF u
<1> QED BY <1>3, <1>5, <1>8, <1>9, <1>10, <1>11

================================================================================
