----------------------------- MODULE PhaseProofs -----------------------------
(***************************************************************************)
(* Proofs about PhaseStationarity.  Once the cell of a certified global is *)
(* set, no statement that writes the global is ever about to run, and the  *)
(* cell is set at most once unless main's address is given away, whatever  *)
(* the program, however its functions call each other and whenever         *)
(* callbacks run.  And what runs before the cell is set can be given the   *)
(* init local: a read then is at a listed site, the functions on the way   *)
(* to it are in the init subtree, and a read after is counted as late.     *)
(*                                                                         *)
(* The first part is about the results of the analysis (what is reached,   *)
(* what dominates what, the spine a descent splices), the second about the *)
(* stack of frames on that spine, the third about the payload and where    *)
(* the callbacks that run come from.                                       *)
(***************************************************************************)
EXTENDS PhaseStationarity, FiniteSetTheorems, TLAPS

(***************************************************************************)
(* Iterations                                                              *)
(***************************************************************************)

\* A set of naturals that holds zero and the successor of each of its members holds them all.
LEMMA NaturalsBySuccessor ==
  ASSUME NEW S, 0 \in S, \A n \in Nat : n \in S => n + 1 \in S
  PROVE  Nat \subseteq S
<1> DEFINE R == OpToRel(<, Nat)
<1> SUFFICES ASSUME Nat \ S # {} PROVE FALSE
  OBVIOUS
<1>1. IsWellFoundedOn(R, Nat)
  BY NatLessThanWellFounded, Zenon
<1>2. Nat \ S \subseteq Nat
  OBVIOUS
<1> HIDE DEF R
<1>3. PICK m \in Nat \ S : \A n \in Nat \ S : <<n, m>> \notin R
  BY <1>1, <1>2, WFMin, Zenon
<1>4. m # 0 /\ m - 1 \in Nat /\ m - 1 < m
  BY <1>3
<1>5. <<m - 1, m>> \in R
  BY <1>4 DEF R, OpToRel
<1>6. m - 1 \in S
  BY <1>3, <1>4, <1>5
<1>7. QED
  BY <1>4, <1>6

\* A set of naturals that is not empty has a least member.
LEMMA LeastNatural ==
  ASSUME NEW S \in SUBSET Nat, S # {}
  PROVE  \E m \in S : \A n \in S : m <= n
<1> DEFINE R == OpToRel(<, Nat)
<1>1. IsWellFoundedOn(R, Nat)
  BY NatLessThanWellFounded, Zenon
<1> HIDE DEF R
<1>2. PICK m \in S : \A n \in S : <<n, m>> \notin R
  BY <1>1, WFMin, Zenon
<1>3. ASSUME NEW n \in S PROVE m <= n
  <2>1. m \in Nat /\ n \in Nat
    OBVIOUS
  <2>2. n < m => <<n, m>> \in R
    BY <2>1 DEF R, OpToRel
  <2>3. QED
    BY <1>2, <2>1, <2>2
<1>4. QED
  BY <1>3

\* g applies step again and again, from seed.
Iterates(g, seed, step, n) ==
  g = [k \in 0 .. n |-> IF k = 0 THEN seed ELSE step[g[k - 1]]]

\* Whatever the step, it can be iterated.
LEMMA IterationExists ==
  ASSUME NEW seed, NEW step, NEW n \in Nat
  PROVE  \E g : Iterates(g, seed, step, n)
<1> DEFINE S == {k \in Nat : \E g : Iterates(g, seed, step, k)}
<1>1. 0 \in S
  <2> DEFINE g == [k \in 0 .. 0 |-> seed]
  <2>1. Iterates(g, seed, step, 0)
    BY DEF Iterates
  <2>2. QED
    BY <2>1, Zenon
<1>2. ASSUME NEW k \in Nat, k \in S
      PROVE  k + 1 \in S
  <2>1. PICK g : Iterates(g, seed, step, k)
    BY <1>2
  <2> DEFINE w == [i \in 0 .. (k + 1) |-> IF i = k + 1 THEN step[g[k]] ELSE g[i]]
  <2>2. ASSUME NEW i \in 0 .. (k + 1)
        PROVE  w[i] = IF i = 0 THEN seed ELSE step[w[i - 1]]
    <3>1. CASE i = k + 1
      <4>1. w[k + 1] = step[g[k]] /\ w[k] = g[k]
        OBVIOUS
      <4>2. QED
        BY <3>1, <4>1
    <3>2. CASE i # k + 1
      <4>1. i \in 0 .. k /\ w[i] = g[i]
        BY <3>2
      <4>2. g[i] = IF i = 0 THEN seed ELSE step[g[i - 1]]
        BY <2>1, <4>1 DEF Iterates
      <4>3. i # 0 => w[i - 1] = g[i - 1]
        BY <4>1
      <4>4. QED
        BY <4>1, <4>2, <4>3
    <3>3. QED
      BY <3>1, <3>2
  <2>3. w = [i \in 0 .. (k + 1) |-> w[i]]
    OBVIOUS
  <2> HIDE DEF w
  <2>4. Iterates(w, seed, step, k + 1)
    BY <2>2, <2>3, Zenon DEF Iterates
  <2>5. QED
    BY <2>4
<1> HIDE DEF S
<1>3. n \in S
  BY <1>1, <1>2, NaturalsBySuccessor
<1>4. QED
  BY <1>3 DEF S

\* Iterating a step on the parts of a set stays among them.
LEMMA IterationInside ==
  ASSUME NEW U, NEW seed \in SUBSET U, NEW step \in [SUBSET U -> SUBSET U], NEW n \in Nat,
         NEW g, Iterates(g, seed, step, n)
  PROVE  \A k \in 0 .. n : g[k] \in SUBSET U
<1> DEFINE S == {k \in Nat : k <= n => g[k] \in SUBSET U}
<1>1. 0 \in S
  BY DEF Iterates
<1>2. ASSUME NEW k \in Nat, k \in S PROVE k + 1 \in S
  <2> SUFFICES ASSUME k + 1 <= n PROVE g[k + 1] \in SUBSET U
    OBVIOUS
  <2>1. g[k] \in SUBSET U /\ k + 1 \in 0 .. n /\ k + 1 # 0 /\ (k + 1) - 1 = k
    BY <1>2
  <2>2. g[k + 1] = step[g[k]]
    BY <2>1 DEF Iterates
  <2>3. QED
    BY <2>1, <2>2
<1> HIDE DEF S
<1>3. Nat \subseteq S
  BY <1>1, <1>2, NaturalsBySuccessor
<1>4. QED
  BY <1>3 DEF S

\* Collecting the successors of what has been reached, as often as there are
\* things to reach, ends in a set that is closed.
LEMMA GrowthCloses ==
  ASSUME NEW U, IsFiniteSet(U), NEW to \in [U -> SUBSET U], NEW n \in Nat, Cardinality(U) <= n,
         NEW g, \A k \in 0 .. n : g[k] \in SUBSET U,
         \A k \in 1 .. n : g[k] = g[k - 1] \cup (UNION {to[x] : x \in g[k - 1]})
  PROVE  g[0] \subseteq g[n] /\ \A x \in g[n] : to[x] \subseteq g[n]
<1> DEFINE Closed(s) == \A x \in s : to[x] \subseteq s
           S == {k \in Nat : k <= n => g[0] \subseteq g[k] /\ (Closed(g[k]) \/ Cardinality(g[k]) >= k + 1)}
<1>1. \A s \in SUBSET U : IsFiniteSet(s) /\ Cardinality(s) \in Nat
  BY FS_Subset, FS_CardinalityType
<1>2. 0 \in S
  <2>1. g[0] \in SUBSET U
    OBVIOUS
  <2>2. CASE g[0] = {}
    BY <2>2
  <2>3. CASE g[0] # {}
    <3>1. Cardinality(g[0]) # 0
      BY <1>1, <2>1, <2>3, FS_EmptySet
    <3>2. QED
      BY <1>1, <2>1, <3>1
  <2>4. QED
    BY <2>2, <2>3
<1>3. ASSUME NEW k \in Nat, k \in S PROVE k + 1 \in S
  <2> SUFFICES ASSUME k + 1 <= n
               PROVE  g[0] \subseteq g[k + 1] /\ (Closed(g[k + 1]) \/ Cardinality(g[k + 1]) >= (k + 1) + 1)
    OBVIOUS
  <2>1. /\ k + 1 \in 1 .. n /\ k \in 0 .. n /\ k + 1 \in 0 .. n /\ (k + 1) - 1 = k
        /\ g[0] \subseteq g[k] /\ (Closed(g[k]) \/ Cardinality(g[k]) >= k + 1)
    BY <1>3
  <2>2. g[k + 1] = g[k] \cup (UNION {to[x] : x \in g[k]})
    BY <2>1
  <2>3. g[k] \in SUBSET U /\ g[k + 1] \in SUBSET U
    BY <2>1
  <2>4. CASE Closed(g[k])
    <3>1. g[k + 1] = g[k]
      BY <2>2, <2>4
    <3>2. QED
      BY <2>1, <2>4, <3>1
  <2>5. CASE ~ Closed(g[k])
    <3>1. g[k] \subseteq g[k + 1] /\ g[k] # g[k + 1]
      BY <2>2, <2>5
    <3>2. Cardinality(g[k]) <= Cardinality(g[k + 1]) /\ Cardinality(g[k]) # Cardinality(g[k + 1])
      BY <1>1, <2>3, <3>1, FS_Subset
    <3>3. Cardinality(g[k]) \in Nat /\ Cardinality(g[k + 1]) \in Nat /\ Cardinality(g[k]) >= k + 1
      BY <1>1, <2>1, <2>3, <2>5
    <3>4. Cardinality(g[k + 1]) >= (k + 1) + 1
      BY <3>2, <3>3
    <3>5. QED
      BY <2>1, <3>1, <3>4
  <2>6. QED
    BY <2>4, <2>5
<1> HIDE DEF S, Closed
<1>4. n \in S
  BY <1>2, <1>3, NaturalsBySuccessor
<1>5. g[n] \in SUBSET U
  OBVIOUS
<1>6. Cardinality(g[n]) <= Cardinality(U) /\ Cardinality(U) \in Nat /\ Cardinality(g[n]) \in Nat
  BY <1>1, <1>5, FS_Subset, FS_CardinalityType
<1>7. g[0] \subseteq g[n] /\ Closed(g[n])
  BY <1>4, <1>6 DEF S
<1>8. QED
  BY <1>7 DEF Closed

(***************************************************************************)
(* What a call may run                                                     *)
(***************************************************************************)

\* What is known of a program.
LEMMA ProgramFacts ==
  ASSUME NEW p \in Programs
  PROVE  /\ \A f \in Functions : /\ p.body[f] \in Seq({p.body[f][i] : i \in DOMAIN p.body[f]})
                                  /\ Len(p.body[f]) \in Nat /\ DOMAIN p.body[f] = 1 .. Len(p.body[f])
         /\ \A f \in Functions : \A i \in DOMAIN p.body[f] :
              p.body[f][i].succ \subseteq DOMAIN p.body[f] /\ p.body[f][i].to \subseteq Functions
<1>1. IsProgram(p)
  BY ProgramsAssumption
<1>2. \A f \in Functions : p.body[f] \in Seq({p.body[f][i] : i \in DOMAIN p.body[f]})
  BY <1>1, Zenon DEF IsProgram
<1>3. \A f \in Functions : \A i \in DOMAIN p.body[f] :
         p.body[f][i].succ \subseteq DOMAIN p.body[f] /\ p.body[f][i].to \subseteq Functions
  BY <1>1, Zenon DEF IsProgram
<1>4. ASSUME NEW s, NEW S, s \in Seq(S) PROVE Len(s) \in Nat /\ DOMAIN s = 1 .. Len(s)
  BY <1>4
<1>5. QED
  BY <1>2, <1>3, <1>4

\* Calls lead to functions of the program.
LEMMA CallsInside ==
  ASSUME NEW p \in Programs, NEW f \in Functions
  PROVE  Calls(p, f) \subseteq Functions
BY ProgramFacts DEF Calls, Statements

\* What is reached from some functions without entering the excluded ones: the
\* functions themselves, and the callees of all that is reached.
LEMMA ReachableFrom ==
  ASSUME NEW p \in Programs, NEW roots \in SUBSET Functions, NEW excluded
  PROVE  /\ roots \ excluded \subseteq Reachable(p, roots, excluded)
         /\ Reachable(p, roots, excluded) \subseteq Functions
         /\ \A x \in Reachable(p, roots, excluded) : Calls(p, x) \ excluded \subseteq Reachable(p, roots, excluded)
<1> DEFINE n == Cardinality(Functions)
           seed == roots \ excluded
           Step(s) == s \cup ((UNION {Calls(p, h) : h \in s}) \ excluded)
           step == [s \in SUBSET Functions |-> Step(s)]
           to == [h \in Functions |-> Calls(p, h) \ excluded]
           grow == CHOOSE g : g = [k \in 0 .. n |->
                     IF k = 0 THEN roots \ excluded
                     ELSE g[k - 1] \cup ((UNION {Calls(p, h) : h \in g[k - 1]}) \ excluded)]
<1>1. n \in Nat
  BY FunctionsAssumption, FS_CardinalityType
<1>2. \A h \in Functions : Calls(p, h) \subseteq Functions
  BY CallsInside
<1>3. step \in [SUBSET Functions -> SUBSET Functions]
  BY <1>2
<1>4. PICK g : Iterates(g, seed, step, n)
  <2> HIDE DEF n, step, seed
  <2> QED
    BY <1>1, IterationExists, Zenon
<1>5. seed \in SUBSET Functions
  OBVIOUS
<1>6. \A k \in 0 .. n : g[k] \in SUBSET Functions
  <2> HIDE DEF n, step, seed
  <2> QED
    BY <1>1, <1>3, <1>4, <1>5, IterationInside
<1> HIDE DEF seed
<1>7. g = [k \in 0 .. n |->
             IF k = 0 THEN seed ELSE g[k - 1] \cup ((UNION {Calls(p, h) : h \in g[k - 1]}) \ excluded)]
  <2>1. ASSUME NEW k \in 0 .. n, k # 0
        PROVE  step[g[k - 1]] = g[k - 1] \cup ((UNION {Calls(p, h) : h \in g[k - 1]}) \ excluded)
    <3>1. k - 1 \in 0 .. n
      BY <1>1, <2>1
    <3>2. g[k - 1] \in SUBSET Functions
      BY <1>6, <3>1
    <3>3. QED
      BY <3>2
  <2>2. g = [k \in 0 .. n |-> IF k = 0 THEN seed ELSE step[g[k - 1]]]
    BY <1>4 DEF Iterates
  <2> HIDE DEF step, n
  <2> QED
    BY <2>1, <2>2
<1>8. grow = [k \in 0 .. n |->
                IF k = 0 THEN seed ELSE grow[k - 1] \cup ((UNION {Calls(p, h) : h \in grow[k - 1]}) \ excluded)]
  <2> HIDE DEF n
  <2> QED
    BY <1>7, Zenon DEF seed
<1>9. Reachable(p, roots, excluded) = grow[n]
  BY Zenon DEF Reachable
<1> HIDE DEF grow
<1>10. \A k \in 0 .. n : grow[k] \in SUBSET Functions
  <2> DEFINE S == {k \in Nat : k <= n => grow[k] \in SUBSET Functions}
  <2>1. 0 \in S
    BY <1>1, <1>5, <1>8
  <2>2. ASSUME NEW k \in Nat, k \in S PROVE k + 1 \in S
    <3> SUFFICES ASSUME k + 1 <= n PROVE grow[k + 1] \in SUBSET Functions
      OBVIOUS
    <3>1. k + 1 \in 0 .. n /\ (k + 1) - 1 = k /\ k + 1 # 0 /\ grow[k] \in SUBSET Functions
      BY <1>1, <2>2
    <3> HIDE DEF n
    <3>2. grow[k + 1] = grow[k] \cup ((UNION {Calls(p, h) : h \in grow[k]}) \ excluded)
      BY <1>8, <3>1
    <3>3. QED
      BY <1>2, <3>1, <3>2
  <2> HIDE DEF S
  <2>3. Nat \subseteq S
    BY <2>1, <2>2, NaturalsBySuccessor
  <2>4. QED
    BY <1>1, <2>3 DEF S
<1>11. to \in [Functions -> SUBSET Functions]
  BY <1>2
<1>12. \A k \in 1 .. n : grow[k] = grow[k - 1] \cup (UNION {to[x] : x \in grow[k - 1]})
  <2> SUFFICES ASSUME NEW k \in 1 .. n
               PROVE  grow[k] = grow[k - 1] \cup (UNION {to[x] : x \in grow[k - 1]})
    OBVIOUS
  <2>1. k \in 0 .. n /\ k - 1 \in 0 .. n /\ k # 0
    BY <1>1
  <2>2. grow[k - 1] \in SUBSET Functions
    BY <1>10, <2>1
  <2>3. grow[k] = grow[k - 1] \cup ((UNION {Calls(p, h) : h \in grow[k - 1]}) \ excluded)
    <3> HIDE DEF n
    <3> QED
      BY <1>8, <2>1
  <2>4. \A x \in grow[k - 1] : to[x] = Calls(p, x) \ excluded
    BY <2>2
  <2> HIDE DEF to
  <2>5. (UNION {Calls(p, h) : h \in grow[k - 1]}) \ excluded = UNION {to[x] : x \in grow[k - 1]}
    BY <2>4
  <2>6. QED
    BY <2>3, <2>5
<1>13. grow[0] = seed
  <2>1. 0 \in 0 .. n
    BY <1>1
  <2> HIDE DEF n
  <2>2. QED
    BY <1>8, <2>1
<1>14. grow[0] \subseteq grow[n] /\ \A x \in grow[n] : to[x] \subseteq grow[n]
  <2>1. n <= n
    BY <1>1
  <2> HIDE DEF to, step
  <2>2. QED
    BY <1>1, <1>10, <1>11, <1>12, <2>1, FunctionsAssumption, GrowthCloses
<1>15. grow[n] \in SUBSET Functions
  BY <1>1, <1>10
<1>16. \A x \in grow[n] : Calls(p, x) \ excluded \subseteq grow[n]
  BY <1>14, <1>15
<1>17. QED
  BY <1>9, <1>13, <1>14, <1>15, <1>16 DEF seed

\* What a function reaches includes itself and the callees of what it reaches.
LEMMA ReachableCloses ==
  ASSUME NEW p \in Programs, NEW f \in Functions
  PROVE  /\ f \in Reachable(p, {f}, {}) /\ Reachable(p, {f}, {}) \subseteq Functions
         /\ \A x \in Reachable(p, {f}, {}) : Calls(p, x) \subseteq Reachable(p, {f}, {})
<1> DEFINE R == Reachable(p, {f}, {})
<1>1. {f} \in SUBSET Functions
  OBVIOUS
<1>2. {f} \ {} \subseteq R /\ R \subseteq Functions /\ \A x \in R : Calls(p, x) \ {} \subseteq R
  BY <1>1, ReachableFrom
<1> HIDE DEF R
<1>3. f \in R /\ R \subseteq Functions /\ \A x \in R : Calls(p, x) \subseteq R
  BY <1>2
<1>4. QED
  BY <1>3 DEF R

(***************************************************************************)
(* Spines                                                                  *)
(***************************************************************************)

\* The edges of a spine stay in it.
SpineEdges(sp) ==
  /\ Len(sp.bounds) \in Nat /\ DOMAIN sp.bounds = 1 .. Len(sp.bounds)
  /\ \A i \in Nodes(sp) : sp.bounds[i].succ \subseteq Nodes(sp)

\* What comes after a boundary is collected step by step.
Collects(sp, i, grow) ==
  grow = [m \in 0 .. Len(sp.bounds) |->
            IF m = 0 THEN {i} ELSE grow[m - 1] \cup UNION {sp.bounds[k].succ : k \in grow[m - 1]}]

\* The collection exists, ends in what comes after, and stays in the spine.
LEMMA AfterUnfolds ==
  ASSUME NEW sp, SpineEdges(sp), NEW i \in Nodes(sp)
  PROVE  \E grow : /\ Collects(sp, i, grow) /\ After(sp, i) = grow[Len(sp.bounds)]
                   /\ \A m \in 0 .. Len(sp.bounds) : grow[m] \in SUBSET Nodes(sp)
<1> DEFINE n == Len(sp.bounds)
           Grown(s) == s \cup UNION {sp.bounds[k].succ : k \in s}
           step == [s \in SUBSET Nodes(sp) |-> Grown(s)]
           grow == CHOOSE g : g = [m \in 0 .. n |->
                     IF m = 0 THEN {i} ELSE g[m - 1] \cup UNION {sp.bounds[k].succ : k \in g[m - 1]}]
<1>1. n \in Nat
  BY DEF SpineEdges
<1>2. \A k \in Nodes(sp) : sp.bounds[k].succ \subseteq Nodes(sp)
  BY DEF SpineEdges
<1>3. step \in [SUBSET Nodes(sp) -> SUBSET Nodes(sp)]
  BY <1>2
<1>4. PICK g : Iterates(g, {i}, step, n)
  BY <1>1, IterationExists, Zenon
<1>5. {i} \in SUBSET Nodes(sp)
  OBVIOUS
<1>6. \A m \in 0 .. n : g[m] \in SUBSET Nodes(sp)
  <2> HIDE DEF n, step
  <2> QED
    BY <1>1, <1>3, <1>4, <1>5, IterationInside
<1>7. g = [m \in 0 .. n |->
             IF m = 0 THEN {i} ELSE g[m - 1] \cup UNION {sp.bounds[k].succ : k \in g[m - 1]}]
  <2>1. ASSUME NEW m \in 0 .. n, m # 0
        PROVE  step[g[m - 1]] = g[m - 1] \cup UNION {sp.bounds[k].succ : k \in g[m - 1]}
    <3>1. m - 1 \in 0 .. n
      BY <1>1, <2>1
    <3>2. g[m - 1] \in SUBSET Nodes(sp)
      BY <1>6, <3>1
    <3>3. QED
      BY <3>2
  <2>2. g = [m \in 0 .. n |-> IF m = 0 THEN {i} ELSE step[g[m - 1]]]
    BY <1>4 DEF Iterates
  <2> HIDE DEF step, n
  <2> QED
    BY <2>1, <2>2
<1>8. grow = [m \in 0 .. n |->
                IF m = 0 THEN {i} ELSE grow[m - 1] \cup UNION {sp.bounds[k].succ : k \in grow[m - 1]}]
  <2> HIDE DEF n
  <2> QED
    BY <1>7, Zenon
<1>9. After(sp, i) = grow[n]
  BY Zenon DEF After
<1> HIDE DEF grow
<1>10. \A m \in 0 .. n : grow[m] \in SUBSET Nodes(sp)
  <2> DEFINE S == {m \in Nat : m <= n => grow[m] \in SUBSET Nodes(sp)}
  <2>1. 0 \in S
    BY <1>1, <1>8
  <2>2. ASSUME NEW m \in Nat, m \in S PROVE m + 1 \in S
    <3> SUFFICES ASSUME m + 1 <= n PROVE grow[m + 1] \in SUBSET Nodes(sp)
      OBVIOUS
    <3>1. m + 1 \in 0 .. n /\ (m + 1) - 1 = m /\ m + 1 # 0 /\ grow[m] \in SUBSET Nodes(sp)
      BY <1>1, <2>2
    <3> HIDE DEF n
    <3>2. grow[m + 1] = grow[m] \cup UNION {sp.bounds[k].succ : k \in grow[m]}
      BY <1>8, <3>1
    <3>3. QED
      BY <1>2, <3>1, <3>2
  <2> HIDE DEF S
  <2>3. Nat \subseteq S
    BY <2>1, <2>2, NaturalsBySuccessor
  <2>4. QED
    BY <1>1, <2>3 DEF S
<1>11. Collects(sp, i, grow)
  BY <1>8 DEF Collects
<1>12. QED
  BY <1>9, <1>10, <1>11, Zenon

\* What comes after a boundary includes itself and the successors of all in it.
LEMMA AfterCloses ==
  ASSUME NEW sp, SpineEdges(sp), NEW i \in Nodes(sp)
  PROVE  /\ i \in After(sp, i) /\ After(sp, i) \subseteq Nodes(sp)
         /\ \A x \in After(sp, i) : sp.bounds[x].succ \subseteq After(sp, i)
<1> DEFINE n == Len(sp.bounds)
           to == [k \in Nodes(sp) |-> sp.bounds[k].succ]
<1>1. n \in Nat
  BY DEF SpineEdges
<1>2. \A k \in Nodes(sp) : sp.bounds[k].succ \subseteq Nodes(sp)
  BY DEF SpineEdges
<1>3. PICK grow : /\ Collects(sp, i, grow) /\ After(sp, i) = grow[n]
                  /\ \A m \in 0 .. n : grow[m] \in SUBSET Nodes(sp)
  BY AfterUnfolds, Zenon
<1>8. grow = [m \in 0 .. n |->
                IF m = 0 THEN {i} ELSE grow[m - 1] \cup UNION {sp.bounds[k].succ : k \in grow[m - 1]}]
  BY <1>3, Zenon DEF Collects
<1>9. After(sp, i) = grow[n]
  BY <1>3
<1>10. \A m \in 0 .. n : grow[m] \in SUBSET Nodes(sp)
  BY <1>3
<1>11. to \in [Nodes(sp) -> SUBSET Nodes(sp)]
  BY <1>2
<1>12. \A m \in 1 .. n : grow[m] = grow[m - 1] \cup (UNION {to[x] : x \in grow[m - 1]})
  <2> SUFFICES ASSUME NEW m \in 1 .. n
               PROVE  grow[m] = grow[m - 1] \cup (UNION {to[x] : x \in grow[m - 1]})
    OBVIOUS
  <2>1. m \in 0 .. n /\ m - 1 \in 0 .. n /\ m # 0
    BY <1>1
  <2>2. grow[m - 1] \in SUBSET Nodes(sp)
    BY <1>10, <2>1
  <2>3. grow[m] = grow[m - 1] \cup UNION {sp.bounds[k].succ : k \in grow[m - 1]}
    <3> HIDE DEF n
    <3> QED
      BY <1>8, <2>1
  <2>4. QED
    BY <2>2, <2>3
<1>13. grow[0] = {i}
  <2>1. 0 \in 0 .. n
    BY <1>1
  <2> HIDE DEF n
  <2>2. QED
    BY <1>8, <2>1
<1>14. grow[0] \subseteq grow[n] /\ \A x \in grow[n] : to[x] \subseteq grow[n]
  <2>1. IsFiniteSet(Nodes(sp)) /\ Cardinality(Nodes(sp)) <= n
    BY FS_Interval DEF SpineEdges, Nodes
  <2> HIDE DEF to, n
  <2>2. QED
    BY <1>1, <1>10, <1>11, <1>12, <2>1, GrowthCloses
<1>15. grow[n] \in SUBSET Nodes(sp)
  BY <1>1, <1>10
<1>16. QED
  BY <1>9, <1>13, <1>14, <1>15

\* Nothing else comes after it: a set that is closed under successors holds it all.
LEMMA AfterLeast ==
  ASSUME NEW sp, SpineEdges(sp), NEW i \in Nodes(sp), NEW S, i \in S,
         \A k \in Nodes(sp) : k \in S => sp.bounds[k].succ \subseteq S
  PROVE  After(sp, i) \subseteq S
<1> DEFINE n == Len(sp.bounds)
<1>1. n \in Nat
  BY DEF SpineEdges
<1>2. PICK grow : /\ Collects(sp, i, grow) /\ After(sp, i) = grow[n]
                  /\ \A m \in 0 .. n : grow[m] \in SUBSET Nodes(sp)
  BY AfterUnfolds, Zenon
<1>3. grow = [m \in 0 .. n |->
                IF m = 0 THEN {i} ELSE grow[m - 1] \cup UNION {sp.bounds[k].succ : k \in grow[m - 1]}]
  BY <1>2, Zenon DEF Collects
<1> DEFINE G == {m \in Nat : m <= n => grow[m] \subseteq S}
<1>4. 0 \in G
  <2>1. 0 \in 0 .. n
    BY <1>1
  <2> HIDE DEF n
  <2>2. grow[0] = {i}
    BY <1>3, <2>1
  <2>3. QED
    BY <2>2
<1>5. ASSUME NEW m \in Nat, m \in G PROVE m + 1 \in G
  <2> SUFFICES ASSUME m + 1 <= n PROVE grow[m + 1] \subseteq S
    OBVIOUS
  <2>1. m + 1 \in 0 .. n /\ m \in 0 .. n /\ (m + 1) - 1 = m /\ m + 1 # 0 /\ grow[m] \subseteq S
    BY <1>1, <1>5
  <2>2. grow[m] \subseteq Nodes(sp)
    BY <1>2, <2>1
  <2> HIDE DEF n
  <2>3. grow[m + 1] = grow[m] \cup UNION {sp.bounds[k].succ : k \in grow[m]}
    BY <1>3, <2>1
  <2>4. \A k \in grow[m] : sp.bounds[k].succ \subseteq S
    BY <2>1, <2>2
  <2>5. QED
    BY <2>1, <2>3, <2>4
<1> HIDE DEF G
<1>6. Nat \subseteq G
  BY <1>4, <1>5, NaturalsBySuccessor
<1>7. n \in G
  BY <1>1, <1>6
<1>8. grow[n] \subseteq S
  BY <1>1, <1>7 DEF G
<1>9. QED
  BY <1>2, <1>8

\* Pairs of boundaries of the spine that can be reached, those kept of them by
\* one round, and the rounds.
Reached(sp) == After(sp, 1)
KeptPairs(sp, dom) ==
  {e \in dom : e[1] = e[2] \/ \A k \in {k \in Reached(sp) : e[2] \in sp.bounds[k].succ} : <<e[1], k>> \in dom}
Narrows(sp, narrow) ==
  narrow = [m \in 0 .. Len(sp.bounds) |->
              IF m = 0 THEN {e \in Reached(sp) \X Reached(sp) : e[2] = 1 => e[1] = 1} ELSE KeptPairs(sp, narrow[m - 1])]

\* The rounds exist, end in the dominators, and keep to boundaries that can be reached.
LEMMA DominatorsUnfold ==
  ASSUME NEW sp, SpineEdges(sp)
  PROVE  \E narrow : /\ Narrows(sp, narrow) /\ Dominators(sp) = narrow[Len(sp.bounds)]
                     /\ \A m \in 0 .. Len(sp.bounds) : narrow[m] \in SUBSET (Reached(sp) \X Reached(sp))
<1> DEFINE n == Len(sp.bounds)
           live == Reached(sp)
           pairs == {e \in live \X live : e[2] = 1 => e[1] = 1}
           Kept(dom) == KeptPairs(sp, dom)
           step == [dom \in SUBSET (live \X live) |-> Kept(dom)]
           narrow == CHOOSE g : g = [m \in 0 .. n |-> IF m = 0 THEN pairs ELSE Kept(g[m - 1])]
<1>1. n \in Nat
  BY DEF SpineEdges
<1>2. step \in [SUBSET (live \X live) -> SUBSET (live \X live)]
  <2> HIDE DEF live
  <2> QED
    BY DEF KeptPairs
<1>3. PICK g : Iterates(g, pairs, step, n)
  <2> HIDE DEF pairs, step, n
  <2> QED
    BY <1>1, IterationExists
<1>4. pairs \in SUBSET (live \X live)
  OBVIOUS
<1>5. \A m \in 0 .. n : g[m] \in SUBSET (live \X live)
  <2> DEFINE U == live \X live
  <2>1. step \in [SUBSET U -> SUBSET U] /\ pairs \in SUBSET U
    BY <1>2, <1>4
  <2> HIDE DEF n, step, pairs, U
  <2>2. \A m \in 0 .. n : g[m] \in SUBSET U
    BY <1>1, <1>3, <2>1, IterationInside
  <2>3. QED
    BY <2>2 DEF U
<1>6. g = [m \in 0 .. n |-> IF m = 0 THEN pairs ELSE Kept(g[m - 1])]
  <2>1. ASSUME NEW m \in 0 .. n, m # 0
        PROVE  step[g[m - 1]] = Kept(g[m - 1])
    <3>1. m - 1 \in 0 .. n
      BY <1>1, <2>1
    <3>2. g[m - 1] \in SUBSET (live \X live)
      BY <1>5, <3>1
    <3> HIDE DEF Kept
    <3>3. QED
      BY <3>2
  <2>2. g = [m \in 0 .. n |-> IF m = 0 THEN pairs ELSE step[g[m - 1]]]
    BY <1>3 DEF Iterates
  <2> HIDE DEF step, n, pairs, Kept
  <2> QED
    BY <2>1, <2>2
<1>7. narrow = [m \in 0 .. n |-> IF m = 0 THEN pairs ELSE Kept(narrow[m - 1])]
  <2> HIDE DEF n, pairs, Kept
  <2> QED
    BY <1>6, Zenon
<1>8. Dominators(sp) = narrow[n]
  BY Zenon DEF Dominators, KeptPairs, Reached
<1> HIDE DEF narrow, live
<1> DEFINE S == {m \in Nat : m <= n => narrow[m] \in SUBSET (live \X live)}
<1>9. 0 \in S
  BY <1>1, <1>4, <1>7
<1>10. ASSUME NEW m \in Nat, m \in S PROVE m + 1 \in S
  <2> SUFFICES ASSUME m + 1 <= n PROVE narrow[m + 1] \in SUBSET (live \X live)
    OBVIOUS
  <2>1. m + 1 \in 0 .. n /\ (m + 1) - 1 = m /\ m + 1 # 0 /\ narrow[m] \in SUBSET (live \X live)
    BY <1>1, <1>10
  <2>2. narrow[m + 1] = Kept(narrow[m])
    <3> HIDE DEF n, pairs, Kept
    <3> QED
      BY <1>7, <2>1
  <2>3. QED
    BY <2>1, <2>2 DEF KeptPairs
<1> HIDE DEF S
<1>11. Nat \subseteq S
  BY <1>9, <1>10, NaturalsBySuccessor
<1>12. \A m \in 0 .. n : narrow[m] \in SUBSET (live \X live)
  BY <1>1, <1>11 DEF S
<1> HIDE DEF n
<1>13. QED
  BY <1>7, <1>8, <1>12, Zenon DEF Narrows, n, live, pairs, Kept

\* A boundary dominates only boundaries that can be reached from the entry.
LEMMA DominatorsInside ==
  ASSUME NEW sp, SpineEdges(sp)
  PROVE  Dominators(sp) \subseteq Reached(sp) \X Reached(sp)
<1> DEFINE n == Len(sp.bounds)
<1>1. n \in Nat /\ n \in 0 .. n
  BY DEF SpineEdges
<1>2. PICK narrow : /\ Narrows(sp, narrow) /\ Dominators(sp) = narrow[n]
                    /\ \A m \in 0 .. n : narrow[m] \in SUBSET (Reached(sp) \X Reached(sp))
  BY DominatorsUnfold, Zenon
<1>3. QED
  BY <1>1, <1>2

\* Every boundary that can be reached dominates itself; one that dominates
\* another dominates all its predecessors, and only the entry dominates the entry.
LEMMA DominatorsClose ==
  ASSUME NEW sp, SpineEdges(sp), 1 \in Nodes(sp)
  PROVE  /\ \A i \in Reached(sp) : <<i, i>> \in Dominators(sp)
         /\ \A d, i : <<d, i>> \in Dominators(sp) /\ d # i =>
              i # 1 /\ \A k \in Reached(sp) : i \in sp.bounds[k].succ => <<d, k>> \in Dominators(sp)
<1> DEFINE n == Len(sp.bounds)
           live == Reached(sp)
           pairs == {e \in live \X live : e[2] = 1 => e[1] = 1}
<1>1. n \in Nat /\ Nodes(sp) = 1 .. n
  BY DEF SpineEdges, Nodes
<1>2. PICK narrow : /\ Narrows(sp, narrow) /\ Dominators(sp) = narrow[n]
                    /\ \A m \in 0 .. n : narrow[m] \in SUBSET (live \X live)
  BY DominatorsUnfold, Zenon
<1>3. live \subseteq Nodes(sp)
  BY AfterCloses DEF Reached
<1>4. IsFiniteSet(live) /\ Cardinality(live) <= n
  <2>1. IsFiniteSet(Nodes(sp)) /\ Cardinality(Nodes(sp)) = n
    BY <1>1, FS_Interval
  <2>2. IsFiniteSet(live) /\ Cardinality(live) <= Cardinality(Nodes(sp))
    BY <1>3, <2>1, FS_Subset
  <2>3. QED
    BY <2>1, <2>2
<1>5. narrow = [m \in 0 .. n |-> IF m = 0 THEN pairs ELSE KeptPairs(sp, narrow[m - 1])]
  BY <1>2, Zenon DEF Narrows
<1>6. narrow[0] = pairs
  <2>1. 0 \in 0 .. n
    BY <1>1
  <2> HIDE DEF n, pairs
  <2>2. QED
    BY <1>5, <2>1
<1>7. ASSUME NEW m \in 1 .. n
      PROVE  m \in 0 .. n /\ m - 1 \in 0 .. n /\ narrow[m] = KeptPairs(sp, narrow[m - 1])
  <2>1. m \in 0 .. n /\ m - 1 \in 0 .. n /\ m # 0
    BY <1>1
  <2> HIDE DEF n, pairs
  <2>2. QED
    BY <1>5, <2>1
<1> HIDE DEF live
<1>8. ASSUME NEW m \in 1 .. n, NEW d, NEW i \in live
      PROVE  <<d, i>> \in narrow[m] <=>
               /\ <<d, i>> \in narrow[m - 1]
               /\ d = i \/ \A k \in live : i \in sp.bounds[k].succ => <<d, k>> \in narrow[m - 1]
  <2>1. narrow[m] = KeptPairs(sp, narrow[m - 1])
    BY <1>7
  <2>2. <<d, i>>[1] = d /\ <<d, i>>[2] = i
    OBVIOUS
  <2>3. QED
    BY <2>1, <2>2 DEF KeptPairs, live
<1>9. ASSUME NEW i \in live PROVE <<i, i>> \in narrow[n]
  <2> DEFINE S == {m \in Nat : m <= n => <<i, i>> \in narrow[m]}
  <2>1. 0 \in S
    BY <1>6
  <2>2. ASSUME NEW m \in Nat, m \in S PROVE m + 1 \in S
    <3> SUFFICES ASSUME m + 1 <= n PROVE <<i, i>> \in narrow[m + 1]
      OBVIOUS
    <3>1. m + 1 \in 1 .. n /\ (m + 1) - 1 = m /\ <<i, i>> \in narrow[m]
      BY <1>1, <2>2
    <3>2. QED
      BY <1>8, <3>1
  <2> HIDE DEF S
  <2>3. Nat \subseteq S
    BY <2>1, <2>2, NaturalsBySuccessor
  <2>4. QED
    BY <1>1, <2>3 DEF S
<1>10. ASSUME NEW d \in live
       PROVE  \A i \in live : <<d, i>> \in narrow[n] /\ d # i =>
                i # 1 /\ \A k \in live : i \in sp.bounds[k].succ => <<d, k>> \in narrow[n]
  <2> DEFINE not == [m \in 0 .. n |-> {i \in live : <<d, i>> \notin narrow[m]}]
             to == [k \in live |-> (sp.bounds[k].succ \cap live) \ {d}]
  <2>1. \A m \in 0 .. n : not[m] = {i \in live : <<d, i>> \notin narrow[m]}
    OBVIOUS
  <2>2. to \in [live -> SUBSET live] /\ \A k \in live : to[k] = (sp.bounds[k].succ \cap live) \ {d}
    OBVIOUS
  <2> HIDE DEF not, to
  <2>3. \A m \in 0 .. n : not[m] \in SUBSET live
    BY <2>1
  <2>4. ASSUME NEW m \in 1 .. n
        PROVE  not[m] = not[m - 1] \cup (UNION {to[x] : x \in not[m - 1]})
    <3>1. m \in 0 .. n /\ m - 1 \in 0 .. n
      BY <1>7
    <3>2. \A i \in live : i \in not[m] <=> i \in not[m - 1] \/ (d # i /\ \E k \in live : i \in sp.bounds[k].succ /\ k \in not[m - 1])
      <4> SUFFICES ASSUME NEW i \in live
                   PROVE  i \in not[m] <=> i \in not[m - 1] \/ (d # i /\ \E k \in live : i \in sp.bounds[k].succ /\ k \in not[m - 1])
        OBVIOUS
      <4>1. i \in not[m] <=> <<d, i>> \notin narrow[m]
        BY <2>1, <3>1
      <4>2. \A k \in live : k \in not[m - 1] <=> <<d, k>> \notin narrow[m - 1]
        BY <2>1, <3>1
      <4>3. <<d, i>> \in narrow[m] <=>
              /\ <<d, i>> \in narrow[m - 1]
              /\ d = i \/ \A k \in live : i \in sp.bounds[k].succ => <<d, k>> \in narrow[m - 1]
        BY <1>8
      <4>4. QED
        BY <4>1, <4>2, <4>3, Zenon
    <3>3. \A i \in live : i \in UNION {to[x] : x \in not[m - 1]} <=> d # i /\ \E k \in live : i \in sp.bounds[k].succ /\ k \in not[m - 1]
      BY <2>2, <2>3, <3>1
    <3>4. not[m] \subseteq live /\ not[m - 1] \subseteq live /\ (UNION {to[x] : x \in not[m - 1]}) \subseteq live
      BY <2>2, <2>3, <3>1
    <3>5. QED
      BY <3>2, <3>3, <3>4
  <2>5. not[0] \subseteq not[n] /\ \A x \in not[n] : to[x] \subseteq not[n]
    <3> HIDE DEF n
    <3>1. QED
      BY <1>1, <1>4, <2>2, <2>3, <2>4, GrowthCloses
  <2>6. 0 \in 0 .. n /\ n \in 0 .. n
    BY <1>1
  <2>7. ASSUME NEW i \in live, <<d, i>> \in narrow[n], d # i
        PROVE  i # 1 /\ \A k \in live : i \in sp.bounds[k].succ => <<d, k>> \in narrow[n]
    <3>1. i \notin not[n]
      BY <2>1, <2>6, <2>7
    <3>2. i # 1
      <4>1. d # 1 /\ 1 \in live => <<d, 1>> \notin narrow[0]
        BY <1>6
      <4>2. QED
        BY <2>1, <2>5, <2>6, <2>7, <3>1, <4>1
    <3>3. ASSUME NEW k \in live, i \in sp.bounds[k].succ, <<d, k>> \notin narrow[n] PROVE FALSE
      <4>1. k \in not[n]
        BY <2>1, <2>6, <3>3
      <4>2. i \in to[k]
        BY <2>2, <2>7, <3>3
      <4>3. QED
        BY <2>5, <3>1, <4>1, <4>2
    <3>4. QED
      BY <3>2, <3>3
  <2>8. QED
    BY <2>7
<1>11. \A d, i : <<d, i>> \in narrow[n] => d \in live /\ i \in live
  <2>1. narrow[n] \subseteq live \X live
    BY <1>1, <1>2 DEF live
  <2>2. QED
    BY <2>1
<1>12. QED
  BY <1>2, <1>9, <1>10, <1>11 DEF live

\* What a boundary dominates comes after it.
LEMMA DominatedAfter ==
  ASSUME NEW sp, SpineEdges(sp), 1 \in Nodes(sp), NEW d, NEW x, <<d, x>> \in Dominators(sp)
  PROVE  d \in Reached(sp) /\ x \in Reached(sp) /\ x \in After(sp, d)
<1> DEFINE S == {i \in Nodes(sp) : i \in Reached(sp) /\ (<<d, i>> \in Dominators(sp) => i \in After(sp, d))}
<1>1. d \in Reached(sp) /\ x \in Reached(sp)
  BY DominatorsInside
<1>2. 1 \in Reached(sp) /\ Reached(sp) \subseteq Nodes(sp) /\ \A k \in Reached(sp) : sp.bounds[k].succ \subseteq Reached(sp)
  BY AfterCloses DEF Reached
<1>3. d \in After(sp, d) /\ \A k \in After(sp, d) : sp.bounds[k].succ \subseteq After(sp, d)
  BY <1>1, <1>2, AfterCloses
<1>4. \A i : <<d, i>> \in Dominators(sp) /\ d # i =>
         i # 1 /\ \A k \in Reached(sp) : i \in sp.bounds[k].succ => <<d, k>> \in Dominators(sp)
  BY DominatorsClose
<1>5. 1 \in S
  BY <1>2, <1>3, <1>4
<1>6. ASSUME NEW k \in Nodes(sp), k \in S PROVE sp.bounds[k].succ \subseteq S
  <2> SUFFICES ASSUME NEW i \in sp.bounds[k].succ PROVE i \in S
    OBVIOUS
  <2>1. k \in Reached(sp) /\ (<<d, k>> \in Dominators(sp) => k \in After(sp, d))
    BY <1>6
  <2>2. i \in Reached(sp) /\ i \in Nodes(sp)
    BY <1>2, <2>1
  <2>3. ASSUME <<d, i>> \in Dominators(sp), d # i PROVE i \in After(sp, d)
    <3>1. k \in After(sp, d)
      BY <1>4, <2>1, <2>3
    <3>2. QED
      BY <1>3, <3>1
  <2>4. QED
    BY <1>3, <2>2, <2>3
<1> HIDE DEF S
<1>7. After(sp, 1) \subseteq S
  BY <1>5, <1>6, AfterLeast
<1>8. QED
  BY <1>1, <1>7 DEF S, Reached

\* A sequence of whatever it holds.
IsSequence(s) == s \in Seq({s[i] : i \in DOMAIN s})

\* The statement at a boundary of a spine, or at the place of a frame.
StatementAt(p, b) == p.body[b.func][b.at]

\* i is the boundary that the spine descends through into h: the only place h
\* is called from.  It is left for the first boundary of h, no cell can be set
\* there, and where h ends the spine goes on as it would after i.
GateTo(p, sp, last, next, h, i) ==
  /\ i \in Nodes(sp)
  /\ StatementAt(p, sp.bounds[i]).op = "call" /\ StatementAt(p, sp.bounds[i]).to = {h}
  /\ Incoming(p, h) = {<<sp.bounds[i].func, sp.bounds[i].at>>}
  /\ sp.bounds[i].func # last /\ ~ sp.bounds[i].insertable
  /\ \A j \in Nodes(sp) : sp.bounds[j].func = h =>
       /\ sp.bounds[j].at = 1 => j \in sp.bounds[i].succ
       /\ StatementAt(p, sp.bounds[j]).succ = {} => next[i] \subseteq next[j]

\* A boundary that calls a function of the spine.
Gate(p, sp, i) ==
  /\ StatementAt(p, sp.bounds[i]).op = "call"
  /\ \E h \in SpineFunctions(sp) \ {Main} : h \in StatementAt(p, sp.bounds[i]).to

\* What a spine keeps of a boundary.
IsBoundary(b) == b = [succ |-> b.succ, insertable |-> b.insertable, func |-> b.func, at |-> b.at]

\* Each boundary of the spine stands for one of a function of the program.
SpinePlaces(p, sp) ==
  /\ IsSequence(sp.bounds)
  /\ SpineEdges(sp)
  /\ \A i \in Nodes(sp) : IsBoundary(sp.bounds[i])
  /\ \A i \in Nodes(sp) : sp.bounds[i].func \in Functions /\ sp.bounds[i].at \in DOMAIN p.body[sp.bounds[i].func]
  /\ \A i, j \in Nodes(sp) :
       sp.bounds[i].func = sp.bounds[j].func /\ sp.bounds[i].at = sp.bounds[j].at => i = j
  /\ \A i \in Nodes(sp) : \A a \in DOMAIN p.body[sp.bounds[i].func] :
       \E j \in Nodes(sp) : sp.bounds[j].func = sp.bounds[i].func /\ sp.bounds[j].at = a
  /\ 1 \in Nodes(sp) => sp.bounds[1].func = Main /\ sp.bounds[1].at = 1
  /\ sp.mapped => 1 \in Nodes(sp)

\* next says where the program goes on after a boundary and all it calls: the
\* spine has at least these edges, and knows every boundary that may write.
SpineFlow(p, sp, last, next) ==
  /\ \A h \in SpineFunctions(sp) \ {Main} : \E i : GateTo(p, sp, last, next, h, i)
  /\ \A i \in Nodes(sp) : ~ Gate(p, sp, i) =>
       /\ next[i] \subseteq sp.bounds[i].succ
       /\ Generates(p, StatementAt(p, sp.bounds[i])) => i \in sp.gen
  /\ \A i, j \in Nodes(sp) :
       sp.bounds[j].func = sp.bounds[i].func /\ sp.bounds[j].at \in StatementAt(p, sp.bounds[i]).succ =>
         j \in next[i]

\* The spine from main down to last.
IsSpine(p, sp, last, next) == SpinePlaces(p, sp) /\ SpineFlow(p, sp, last, next)

\* Main is called by no function: all else is said of such programs only, as
\* a certificate is refused to the others.
MainUncalled(p) == \A f \in Functions : Main \notin Calls(p, f)

\* x runs below a function that writes nothing.
Still(p, x) == \E f \in Functions : ~ TransMod(p, f) /\ x \in Reachable(p, {f}, {})

\* A place the certificate may set the cell at.
Point(sp, P) ==
  /\ P \in Nodes(sp) /\ sp.bounds[P].insertable
  /\ ~ Cyclic(sp, P) /\ ~ WritableAfter(sp, P)

\* Boundaries after P, by one edge at least.
Later(sp, P) == After(sp, P) \cap UNION {After(sp, k) : k \in sp.bounds[P].succ}

Frames == [func : Functions, at : Nat, done : BOOLEAN, outside : BOOLEAN]

\* A frame was called by the one below it, or is an escaped function.
Entering(p, caller, frame) ==
  \/ frame.func \in Escaped(p)
  \/ caller.done /\ StatementAt(p, caller).op = "call" /\ frame.func \in StatementAt(p, caller).to

StackOK(p, st) ==
  /\ st \in Seq(Frames)
  /\ \A j \in DOMAIN st : st[j].at \in DOMAIN p.body[st[j].func]
  /\ st # <<>> => st[1].func = Main
  /\ \A j \in DOMAIN st : j > 1 => Entering(p, st[j - 1], st[j])

\* The frame has got to P or past it, or goes on past it.
Passed(p, sp, next, P, frame) ==
  \E n \in Nodes(sp) :
    /\ sp.bounds[n].func = frame.func /\ sp.bounds[n].at = frame.at
    /\ IF Gate(p, sp, n) /\ frame.done THEN next[n] \subseteq Later(sp, P) ELSE n = P \/ n \in Later(sp, P)

\* The frames up to the m-th are on the spine, the others are not.  Once the
\* cell is set, the m-th has passed P and what runs above it does not write.
RunsTo(p, sp, next, P, st, k, m) ==
  /\ k \in {0, 1} /\ m \in Nat /\ m <= Len(st)
  /\ \A j \in DOMAIN st : st[j].func \in SpineFunctions(sp) <=> j <= m
  /\ k = 1 => /\ m > 0 => Passed(p, sp, next, P, st[m])
              /\ \A j \in DOMAIN st : j > m => Still(p, st[j].func)

\* What a certified program is known to be.
Admitted(p) == MainUncalled(p) /\ \A h \in Escaped(p) : ~ TransMod(p, h)

\* A certified program running: the certificate is for a point of the spine.
\* If the module gives main's address away nothing that runs may write;
\* otherwise the stack runs down the spine and the cell is set once at most.
RunState(p, sp, last, cert, st, k) ==
  /\ cert.ok /\ Admitted(p) /\ StackOK(p, st)
  /\ Main \in Escaped(p) => \A j \in DOMAIN st : Still(p, st[j].func)
  /\ \E next, P :
       /\ IsSpine(p, sp, last, next) /\ Point(sp, P)
       /\ cert.payload.at = <<sp.bounds[P].func, sp.bounds[P].at>>
       /\ Main \notin Escaped(p) => \E m : RunsTo(p, sp, next, P, st, k, m)

\* Before the slot is decided the spine is sound; once it certifies, the run is.
IInv ==
  /\ program \in Programs /\ phase \in {"descend", "failed", "run"}
  /\ armed \cup leaked \subseteq Escaped(program)
  /\ phase = "descend" /\ MainUncalled(program) => \E next : IsSpine(program, spine, leaf, next)
  /\ phase # "run" => stack = <<>> /\ sets = 0
  /\ phase = "run" => RunState(program, spine, leaf, certificate, stack, sets)

(***************************************************************************)
(* Functions that write nothing                                            *)
(***************************************************************************)

\* What a call may run is itself a function.
LEMMA CallsName ==
  ASSUME NEW p \in Programs, NEW f \in Functions, NEW i \in DOMAIN p.body[f],
         p.body[f][i].op = "call", NEW h \in p.body[f][i].to
  PROVE  h \in Calls(p, f) /\ h \in Functions
BY ProgramFacts DEF Calls, Statements

\* A function that writes nothing runs below itself, nothing it calls writes,
\* and it holds no write.
LEMMA StillCloses ==
  ASSUME NEW p \in Programs
  PROVE  /\ \A h \in Functions : ~ TransMod(p, h) => Still(p, h)
         /\ \A x : Still(p, x) =>
              /\ x \in Functions
              /\ \A i \in DOMAIN p.body[x] : p.body[x][i].op \notin {"write", "pwrite"}
              /\ \A i \in DOMAIN p.body[x] : p.body[x][i].op = "call" =>
                   \A h \in p.body[x][i].to : Still(p, h)
<1>1. ASSUME NEW h \in Functions, ~ TransMod(p, h) PROVE Still(p, h)
  BY <1>1, ReachableCloses DEF Still
<1>2. ASSUME NEW x, Still(p, x)
      PROVE  /\ x \in Functions
             /\ \A i \in DOMAIN p.body[x] : p.body[x][i].op \notin {"write", "pwrite"}
             /\ \A i \in DOMAIN p.body[x] : p.body[x][i].op = "call" =>
                  \A h \in p.body[x][i].to : Still(p, h)
  <2>1. PICK f \in Functions : ~ TransMod(p, f) /\ x \in Reachable(p, {f}, {})
    BY <1>2, Zenon DEF Still
  <2>2. x \in Functions
    BY <2>1, ReachableCloses
  <2>3. ASSUME NEW i \in DOMAIN p.body[x] PROVE p.body[x][i].op \notin {"write", "pwrite"}
    <3>1. p.body[x][i] \in Statements(p, x)
      BY DEF Statements
    <3>2. QED
      BY <2>1, <3>1, Zenon DEF TransMod, Transitive
  <2>4. ASSUME NEW i \in DOMAIN p.body[x], p.body[x][i].op = "call", NEW h \in p.body[x][i].to
        PROVE  Still(p, h)
    <3>1. h \in Calls(p, x)
      BY <2>2, <2>4, CallsName
    <3>2. h \in Reachable(p, {f}, {})
      BY <2>1, <3>1, ReachableCloses, Zenon
    <3>3. QED
      BY <2>1, <3>2, Zenon DEF Still
  <2>5. QED
    BY <2>2, <2>3, <2>4, Zenon
<1>3. QED
  BY <1>1, <1>2, Zenon

(***************************************************************************)
(* Who enters a function of the spine                                      *)
(***************************************************************************)

\* A function of the spine is called from its gate only, and nobody outside
\* knows its address.
LEMMA CallerIsGate ==
  ASSUME NEW p \in Programs, NEW sp, NEW last, NEW next, IsSpine(p, sp, last, next),
         NEW h \in SpineFunctions(sp) \ {Main}
  PROVE  /\ h \notin Escaped(p)
         /\ \A f \in Functions : \A a \in DOMAIN p.body[f] :
              p.body[f][a].op = "call" /\ h \in p.body[f][a].to =>
                \E i \in Nodes(sp) : /\ GateTo(p, sp, last, next, h, i)
                                     /\ sp.bounds[i].func = f /\ sp.bounds[i].at = a
<1>1. PICK i : GateTo(p, sp, last, next, h, i)
  BY Zenon DEF IsSpine, SpineFlow
<1>2. i \in Nodes(sp) /\ Incoming(p, h) = {<<sp.bounds[i].func, sp.bounds[i].at>>}
  BY <1>1, Zenon DEF GateTo
<1>3. ASSUME NEW f \in Functions, NEW a \in DOMAIN p.body[f], p.body[f][a].op = "call", h \in p.body[f][a].to
      PROVE  sp.bounds[i].func = f /\ sp.bounds[i].at = a
  <2>1. <<f, a>> \in Boundaries(p, {"call"})
    BY <1>3 DEF Boundaries
  <2>2. <<f, a>> \in Incoming(p, h)
    <3>1. <<f, a>>[1] = f /\ <<f, a>>[2] = a
      OBVIOUS
    <3>2. h \in p.body[<<f, a>>[1]][<<f, a>>[2]].to
      BY <1>3, <3>1
    <3>3. QED
      BY <2>1, <3>2, Zenon DEF Incoming
  <2>3. QED
    BY <1>2, <2>2
<1>4. h \notin Escaped(p)
  <2> SUFFICES ASSUME h \in Escaped(p) PROVE FALSE
    OBVIOUS
  <2>1. <<"outside", 0>> \in Incoming(p, h)
    BY Zenon DEF Incoming
  <2>2. sp.bounds[i].at = 0 /\ sp.bounds[i].func = "outside"
    BY <1>2, <2>1
  <2>3. sp.bounds[i].func \in Functions /\ sp.bounds[i].at \in DOMAIN p.body[sp.bounds[i].func]
    BY <1>2, Zenon DEF IsSpine, SpinePlaces
  <2>4. sp.bounds[i].at \in 1 .. Len(p.body[sp.bounds[i].func]) /\ Len(p.body[sp.bounds[i].func]) \in Nat
    BY <2>3, ProgramFacts
  <2>5. QED
    BY <2>2, <2>4
<1>5. QED
  BY <1>1, <1>2, <1>3, <1>4, Zenon

\* The boundary itself is the gate of the spine function it calls.
LEMMA GateLeads ==
  ASSUME NEW p \in Programs, NEW sp, NEW last, NEW next, IsSpine(p, sp, last, next),
         NEW i \in Nodes(sp), Gate(p, sp, i)
  PROVE  \E h \in SpineFunctions(sp) \ {Main} : GateTo(p, sp, last, next, h, i)
<1>1. PICK h \in SpineFunctions(sp) \ {Main} : StatementAt(p, sp.bounds[i]).op = "call" /\ h \in StatementAt(p, sp.bounds[i]).to
  BY Zenon DEF Gate
<1>2. sp.bounds[i].func \in Functions /\ sp.bounds[i].at \in DOMAIN p.body[sp.bounds[i].func]
  BY Zenon DEF IsSpine, SpinePlaces
<1>3. PICK j \in Nodes(sp) : /\ GateTo(p, sp, last, next, h, j)
                             /\ sp.bounds[j].func = sp.bounds[i].func /\ sp.bounds[j].at = sp.bounds[i].at
  <2>1. \A f \in Functions : \A a \in DOMAIN p.body[f] :
          p.body[f][a].op = "call" /\ h \in p.body[f][a].to =>
            \E k \in Nodes(sp) : /\ GateTo(p, sp, last, next, h, k)
                                 /\ sp.bounds[k].func = f /\ sp.bounds[k].at = a
    BY <1>1, CallerIsGate
  <2>2. QED
    BY <1>1, <1>2, <2>1 DEF StatementAt
<1>4. j = i
  BY <1>3, Zenon DEF IsSpine, SpinePlaces
<1>5. QED
  BY <1>3, <1>4, Zenon

(***************************************************************************)
(* What comes after the point of publication                               *)
(***************************************************************************)

\* The boundaries after P do not include P and lead only to others after P;
\* neither P nor any of them may write.
LEMMA LaterCloses ==
  ASSUME NEW sp, SpineEdges(sp), NEW P, Point(sp, P)
  PROVE  /\ P \notin Later(sp, P) /\ Later(sp, P) \subseteq Nodes(sp)
         /\ sp.bounds[P].succ \subseteq Later(sp, P)
         /\ \A n \in Later(sp, P) : sp.bounds[n].succ \subseteq Later(sp, P)
         /\ P \notin sp.gen /\ Later(sp, P) \cap sp.gen = {}
<1>1. P \in Nodes(sp) /\ ~ Cyclic(sp, P) /\ After(sp, P) \cap sp.gen = {}
  BY Zenon DEF Point, WritableAfter
<1>2. sp.bounds[P].succ \subseteq Nodes(sp)
  BY <1>1, Zenon DEF SpineEdges
<1>3. P \in After(sp, P) /\ After(sp, P) \subseteq Nodes(sp) /\ \A x \in After(sp, P) : sp.bounds[x].succ \subseteq After(sp, P)
  BY <1>1, AfterCloses
<1>4. \A k \in sp.bounds[P].succ : k \in After(sp, k) /\ \A x \in After(sp, k) : sp.bounds[x].succ \subseteq After(sp, k)
  BY <1>2, AfterCloses
<1>5. P \notin Later(sp, P)
  BY <1>1, Zenon DEF Later, Cyclic
<1>6. sp.bounds[P].succ \subseteq Later(sp, P)
  BY <1>3, <1>4 DEF Later
<1>7. ASSUME NEW n \in Later(sp, P) PROVE sp.bounds[n].succ \subseteq Later(sp, P)
  <2>1. PICK k \in sp.bounds[P].succ : n \in After(sp, k)
    BY DEF Later
  <2>2. sp.bounds[n].succ \subseteq After(sp, k)
    BY <1>4, <2>1
  <2>3. sp.bounds[n].succ \subseteq After(sp, P)
    BY <1>3 DEF Later
  <2>4. QED
    BY <2>2, <2>3 DEF Later
<1>8. QED
  BY <1>1, <1>3, <1>5, <1>6, <1>7 DEF Later

\* At P or after it the spine goes on only after P, holds nothing that may
\* write, and no cell is set at a gate.
LEMMA Onward ==
  ASSUME NEW p \in Programs, NEW sp, NEW last, NEW next, IsSpine(p, sp, last, next),
         NEW P, Point(sp, P)
  PROVE  /\ ~ Gate(p, sp, P)
         /\ \A n \in Nodes(sp) : (n = P \/ n \in Later(sp, P)) /\ ~ Gate(p, sp, n) =>
              next[n] \subseteq Later(sp, P) /\ ~ Generates(p, StatementAt(p, sp.bounds[n]))
<1>1. P \in Nodes(sp) /\ sp.bounds[P].insertable
  BY DEF Point
<1>2. ~ Gate(p, sp, P)
  BY <1>1, GateLeads, Zenon DEF GateTo
<1>3. SpineEdges(sp)
  BY Zenon DEF IsSpine, SpinePlaces
<1>4. ASSUME NEW n \in Nodes(sp), n = P \/ n \in Later(sp, P), ~ Gate(p, sp, n)
      PROVE  next[n] \subseteq Later(sp, P) /\ ~ Generates(p, StatementAt(p, sp.bounds[n]))
  <2>1. next[n] \subseteq sp.bounds[n].succ
    BY <1>4, Zenon DEF IsSpine, SpineFlow
  <2>2. sp.bounds[n].succ \subseteq Later(sp, P) /\ n \notin sp.gen
    BY <1>3, <1>4, LaterCloses
  <2>3. Generates(p, StatementAt(p, sp.bounds[n])) => n \in sp.gen
    BY <1>4, Zenon DEF IsSpine, SpineFlow
  <2>4. QED
    BY <2>1, <2>2, <2>3
<1>5. QED
  BY <1>2, <1>4

(***************************************************************************)
(* Building the spine                                                      *)
(***************************************************************************)

\* A function from an initial segment of the positive naturals is a sequence.
LEMMA SegmentIsSequence ==
  ASSUME NEW n \in Nat, NEW s, s = [i \in 1 .. n |-> s[i]]
  PROVE  IsSequence(s) /\ Len(s) = n /\ DOMAIN s = 1 .. n
<1> DEFINE S == {s[i] : i \in 1 .. n}
<1>1. s \in [1 .. n -> S]
  <2>1. \A i \in 1 .. n : s[i] \in S
    OBVIOUS
  <2> HIDE DEF S
  <2>2. QED
    BY <2>1
<1> HIDE DEF S
<1>2. s \in Seq(S)
  BY <1>1
<1>3. DOMAIN s = 1 .. n /\ Len(s) \in Nat /\ DOMAIN s = 1 .. Len(s)
  BY <1>1, <1>2
<1>4. Len(s) = n
  <2>1. Len(s) > n => n + 1 \in 1 .. Len(s) /\ n + 1 \notin 1 .. n
    BY <1>3
  <2>2. Len(s) < n => n \in 1 .. n /\ n \notin 1 .. Len(s)
    BY <1>3
  <2>3. QED
    BY <1>3, <2>1, <2>2
<1>5. QED
  BY <1>2, <1>3, <1>4 DEF S, IsSequence

\* The spine of one function has its boundaries, and knows those that may write.
LEMMA LocalFacts ==
  ASSUME NEW p \in Programs, NEW f \in Functions
  PROVE  /\ IsSequence(LocalSpine(p, f).bounds)
         /\ Len(LocalSpine(p, f).bounds) = Len(p.body[f])
         /\ DOMAIN LocalSpine(p, f).bounds = DOMAIN p.body[f]
         /\ \A i \in DOMAIN p.body[f] :
              /\ IsBoundary(LocalSpine(p, f).bounds[i])
              /\ LocalSpine(p, f).bounds[i].succ = p.body[f][i].succ
              /\ LocalSpine(p, f).bounds[i].func = f /\ LocalSpine(p, f).bounds[i].at = i
              /\ Generates(p, p.body[f][i]) => i \in LocalSpine(p, f).gen
         /\ LocalSpine(p, f).mapped => DOMAIN p.body[f] # {}
<1> DEFINE sp == LocalSpine(p, f)
<1>1. /\ sp.bounds = [i \in DOMAIN p.body[f] |->
                        [succ |-> p.body[f][i].succ, insertable |-> p.body[f][i].insertable, func |-> f, at |-> i]]
      /\ sp.mapped = (\E i \in DOMAIN p.body[f] : p.body[f][i].insertable)
      /\ sp.gen = GeneratedWrites(p, f)
  BY DEF LocalSpine
<1> HIDE DEF sp
<1>2. DOMAIN p.body[f] = 1 .. Len(p.body[f]) /\ Len(p.body[f]) \in Nat
  BY ProgramFacts
<1>3. \A i \in DOMAIN p.body[f] : sp.bounds[i] =
         [succ |-> p.body[f][i].succ, insertable |-> p.body[f][i].insertable, func |-> f, at |-> i]
  BY <1>1
<1>4. sp.bounds = [i \in 1 .. Len(p.body[f]) |-> sp.bounds[i]]
  BY <1>1, <1>2
<1>5. /\ IsSequence(sp.bounds) /\ Len(sp.bounds) = Len(p.body[f])
      /\ DOMAIN sp.bounds = 1 .. Len(p.body[f])
  BY <1>2, <1>4, SegmentIsSequence
<1>6. \A i \in DOMAIN p.body[f] :
        IsBoundary(sp.bounds[i]) /\ sp.bounds[i].succ = p.body[f][i].succ /\ sp.bounds[i].func = f /\ sp.bounds[i].at = i
  <2> SUFFICES ASSUME NEW i \in DOMAIN p.body[f]
               PROVE  IsBoundary(sp.bounds[i]) /\ sp.bounds[i].succ = p.body[f][i].succ /\ sp.bounds[i].func = f /\ sp.bounds[i].at = i
    OBVIOUS
  <2> DEFINE r == [succ |-> p.body[f][i].succ, insertable |-> p.body[f][i].insertable, func |-> f, at |-> i]
  <2>1. IsBoundary(r) /\ r.succ = p.body[f][i].succ /\ r.func = f /\ r.at = i
    BY DEF IsBoundary
  <2>2. sp.bounds[i] = r
    BY <1>3
  <2> HIDE DEF r
  <2>3. QED
    BY <2>1, <2>2
<1>7. \A i \in DOMAIN p.body[f] : Generates(p, p.body[f][i]) => i \in sp.gen
  BY <1>1, Zenon DEF GeneratedWrites
<1>8. sp.mapped => DOMAIN p.body[f] # {}
  BY <1>1
<1>9. QED
  BY <1>2, <1>5, <1>6, <1>7, <1>8 DEF sp

\* Before any descent the spine is main's.
LEMMA LocalIsSpine ==
  ASSUME NEW p \in Programs
  PROVE  \E next : IsSpine(p, LocalSpine(p, Main), Main, next)
<1> DEFINE sp == LocalSpine(p, Main)
           next == [i \in Nodes(sp) |-> sp.bounds[i].succ]
<1>0. Main \in Functions
  BY BoundsAssumption
<1>1. /\ IsSequence(sp.bounds)
      /\ Len(sp.bounds) = Len(p.body[Main]) /\ Nodes(sp) = DOMAIN p.body[Main]
      /\ sp.mapped => DOMAIN p.body[Main] # {}
  BY <1>0, LocalFacts DEF Nodes
<1>2. \A i \in Nodes(sp) :
        /\ IsBoundary(sp.bounds[i]) /\ sp.bounds[i].succ = p.body[Main][i].succ /\ sp.bounds[i].func = Main /\ sp.bounds[i].at = i
        /\ Generates(p, p.body[Main][i]) => i \in sp.gen
  BY <1>0, <1>1, LocalFacts
<1> HIDE DEF sp
<1>3. /\ DOMAIN p.body[Main] = 1 .. Len(p.body[Main]) /\ Len(p.body[Main]) \in Nat
      /\ \A i \in DOMAIN p.body[Main] : p.body[Main][i].succ \subseteq DOMAIN p.body[Main]
  BY <1>0, ProgramFacts
<1>4. SpineEdges(sp)
  BY <1>1, <1>2, <1>3 DEF SpineEdges, Nodes
<1>5. sp.mapped => 1 \in Nodes(sp)
  BY <1>1, <1>3
<1>6. SpinePlaces(p, sp)
  BY <1>0, <1>1, <1>2, <1>4, <1>5 DEF SpinePlaces
<1>7. SpineFunctions(sp) \ {Main} = {}
  BY <1>2 DEF SpineFunctions
<1>8. \A i, j \in Nodes(sp) :
        sp.bounds[j].func = sp.bounds[i].func /\ sp.bounds[j].at \in StatementAt(p, sp.bounds[i]).succ =>
          j \in next[i]
  BY <1>2 DEF StatementAt
<1>9. \A i \in Nodes(sp) :
       /\ next[i] \subseteq sp.bounds[i].succ
       /\ Generates(p, StatementAt(p, sp.bounds[i])) => i \in sp.gen
  BY <1>2 DEF StatementAt
<1> HIDE DEF next
<1>10. SpineFlow(p, sp, Main, next)
  BY <1>7, <1>8, <1>9 DEF SpineFlow
<1>11. QED
  BY <1>6, <1>10 DEF IsSpine, sp

\* A boundary with other edges, and one where no cell can be set.
Rerouting(b, s) == [b EXCEPT !.succ = s]
Gateway(b, s) == [b EXCEPT !.succ = s, !.insertable = FALSE]

\* Either stands for the same place as before.
LEMMA Rerouted ==
  ASSUME NEW b, IsBoundary(b), NEW s
  PROVE  /\ IsBoundary(Rerouting(b, s)) /\ Rerouting(b, s).succ = s
         /\ Rerouting(b, s).func = b.func /\ Rerouting(b, s).at = b.at
         /\ IsBoundary(Gateway(b, s)) /\ Gateway(b, s).succ = s /\ ~ Gateway(b, s).insertable
         /\ Gateway(b, s).func = b.func /\ Gateway(b, s).at = b.at
<1> DEFINE r == [succ |-> b.succ, insertable |-> b.insertable, func |-> b.func, at |-> b.at]
           x == [succ |-> s, insertable |-> b.insertable, func |-> b.func, at |-> b.at]
           y == [succ |-> s, insertable |-> FALSE, func |-> b.func, at |-> b.at]
<1>1. b = r
  BY DEF IsBoundary
<1>2. Rerouting(b, s) = x
  <2>1. [r EXCEPT !.succ = s] = x
    OBVIOUS
  <2> HIDE DEF r, x
  <2>2. QED
    BY <1>1, <2>1 DEF Rerouting
<1>3. Gateway(b, s) = y
  <2>1. [[b EXCEPT !.succ = s] EXCEPT !.insertable = FALSE] = y
    <3>1. [x EXCEPT !.insertable = FALSE] = y
      <4>1. ASSUME NEW v
            PROVE  [x EXCEPT !.insertable = v] = [succ |-> s, insertable |-> v, func |-> b.func, at |-> b.at]
        OBVIOUS
      <4> HIDE DEF x
      <4>2. QED
        BY <4>1, Zenon
    <3> HIDE DEF x, y
    <3>2. QED
      BY <1>2, <3>1 DEF Rerouting
  <2> HIDE DEF y
  <2>2. [b EXCEPT !.succ = s, !.insertable = FALSE] = [[b EXCEPT !.succ = s] EXCEPT !.insertable = FALSE]
    OBVIOUS
  <2>3. QED
    BY <2>1, <2>2 DEF Gateway
<1>4. IsBoundary(x) /\ x.succ = s /\ x.func = b.func /\ x.at = b.at
  BY DEF IsBoundary
<1>5. IsBoundary(y) /\ y.succ = s /\ ~ y.insertable /\ y.func = b.func /\ y.at = b.at
  BY DEF IsBoundary
<1> HIDE DEF x, y
<1>6. QED
  BY <1>2, <1>3, <1>4, <1>5

\* The members of two sequences put one after the other.
LEMMA Joined ==
  ASSUME NEW S, NEW T, NEW s \in Seq(S), NEW t \in Seq(T)
  PROVE  /\ Len(s) \in Nat /\ Len(t) \in Nat /\ Len(s \o t) = Len(s) + Len(t)
         /\ DOMAIN (s \o t) = 1 .. (Len(s) + Len(t))
         /\ \A i \in 1 .. Len(s) : (s \o t)[i] = s[i]
         /\ \A a \in 1 .. Len(t) : (s \o t)[Len(s) + a] = t[a]
         /\ IsSequence(s \o t)
<1>1. /\ Len(s) \in Nat /\ Len(t) \in Nat
      /\ Len(s \o t) = Len(s) + Len(t) /\ DOMAIN (s \o t) = 1 .. (Len(s) + Len(t))
  OBVIOUS
<1>2. ASSUME NEW i \in 1 .. Len(s) PROVE (s \o t)[i] = s[i]
  BY <1>1
<1>3. ASSUME NEW a \in 1 .. Len(t) PROVE (s \o t)[Len(s) + a] = t[a]
  BY <1>1
<1>4. Len(s) + Len(t) \in Nat
  BY <1>1
<1>5. s \o t = [i \in 1 .. (Len(s) + Len(t)) |-> (s \o t)[i]]
  <2>1. s \o t \in Seq(S \cup T)
    OBVIOUS
  <2> DEFINE u == s \o t
  <2>2. u = [i \in 1 .. Len(u) |-> u[i]]
    <3> HIDE DEF u
    <3>1. u \in Seq(S \cup T)
      BY <2>1 DEF u
    <3>2. QED
      BY <3>1
  <2>3. QED
    BY <1>1, <2>2
<1>6. QED
  BY <1>1, <1>2, <1>3, <1>4, <1>5, SegmentIsSequence

\* What splicing the body of h in place of the edges of boundary c makes of a spine.
LEMMA SpliceFacts ==
  ASSUME NEW p \in Programs, NEW sp, SpinePlaces(p, sp), NEW c \in Nodes(sp), NEW h \in Functions
  PROVE  LET ns == Splice(p, sp, c, h)
             N == Len(sp.bounds)
             M == Len(p.body[h])
         IN  /\ N \in Nat /\ M \in Nat /\ Nodes(sp) = 1 .. N /\ DOMAIN p.body[h] = 1 .. M
             /\ Len(ns.bounds) = N + M /\ Nodes(ns) = 1 .. (N + M)
             /\ IsSequence(ns.bounds)
             /\ \A i \in Nodes(ns) : IsBoundary(ns.bounds[i])
             /\ \A i \in Nodes(sp) : ns.bounds[i].func = sp.bounds[i].func /\ ns.bounds[i].at = sp.bounds[i].at
             /\ \A i \in Nodes(sp) \ {c} : ns.bounds[i] = sp.bounds[i]
             /\ ns.bounds[c].succ = {N + 1} /\ ~ ns.bounds[c].insertable
             /\ \A a \in DOMAIN p.body[h] :
                  /\ ns.bounds[N + a].func = h /\ ns.bounds[N + a].at = a
                  /\ ns.bounds[N + a].succ =
                       IF p.body[h][a].succ = {} THEN sp.bounds[c].succ ELSE {N + k : k \in p.body[h][a].succ}
                  /\ Generates(p, p.body[h][a]) => N + a \in ns.gen
             /\ \A i \in sp.gen : i = c \/ i \in ns.gen
             /\ ns.mapped => sp.mapped
<1> DEFINE ns == Splice(p, sp, c, h)
           N == Len(sp.bounds)
           M == Len(p.body[h])
           inner == LocalSpine(p, h)
           back == sp.bounds[c].succ
           gateway == Gateway(sp.bounds[c], {N + 1})
           Past(x) == IF x = {} THEN back ELSE {N + k : k \in x}
           lowered(i) == Rerouting(inner.bounds[i], Past(inner.bounds[i].succ))
           old == [sp.bounds EXCEPT ![c] = gateway]
           new == [i \in DOMAIN inner.bounds |-> lowered(i)]
<1>1. /\ ns.bounds = old \o new
      /\ ns.mapped = (sp.mapped /\ inner.mapped)
      /\ ns.gen = (sp.gen \ {c}) \cup {N + i : i \in inner.gen}
  BY DEF Splice, Gateway, Rerouting
<1>2. /\ N \in Nat /\ Nodes(sp) = 1 .. N /\ DOMAIN sp.bounds = 1 .. N
      /\ \A i \in Nodes(sp) : IsBoundary(sp.bounds[i])
  BY DEF SpinePlaces, SpineEdges, Nodes
<1>3. M \in Nat /\ DOMAIN p.body[h] = 1 .. M
  BY ProgramFacts
<1>4. /\ DOMAIN inner.bounds = 1 .. M
      /\ \A a \in 1 .. M : /\ IsBoundary(inner.bounds[a]) /\ inner.bounds[a].succ = p.body[h][a].succ
                           /\ inner.bounds[a].func = h /\ inner.bounds[a].at = a
                           /\ Generates(p, p.body[h][a]) => a \in inner.gen
  <2>1. DOMAIN inner.bounds = DOMAIN p.body[h]
    BY LocalFacts
  <2>2. ASSUME NEW a \in DOMAIN p.body[h]
        PROVE  /\ IsBoundary(inner.bounds[a]) /\ inner.bounds[a].succ = p.body[h][a].succ
               /\ inner.bounds[a].func = h /\ inner.bounds[a].at = a
               /\ Generates(p, p.body[h][a]) => a \in inner.gen
    BY LocalFacts
  <2> HIDE DEF inner, M
  <2>3. QED
    BY <1>3, <2>1, <2>2
<1>5. /\ IsBoundary(gateway) /\ gateway.succ = {N + 1} /\ ~ gateway.insertable
      /\ gateway.func = sp.bounds[c].func /\ gateway.at = sp.bounds[c].at
  BY <1>2, Rerouted
<1>6. ASSUME NEW a \in 1 .. M
      PROVE  /\ IsBoundary(lowered(a)) /\ lowered(a).func = h /\ lowered(a).at = a
             /\ lowered(a).succ = Past(p.body[h][a].succ)
  <2>1. IsBoundary(inner.bounds[a]) /\ inner.bounds[a].succ = p.body[h][a].succ /\ inner.bounds[a].func = h /\ inner.bounds[a].at = a
    BY <1>4
  <2> HIDE DEF inner, Past
  <2>2. QED
    BY <2>1, Rerouted
<1> HIDE DEF ns, inner, gateway, lowered, Past, N, M
<1>7. old = [i \in 1 .. N |-> old[i]] /\ \A i \in 1 .. N : old[i] = IF i = c THEN gateway ELSE sp.bounds[i]
  BY <1>2
<1>8. new = [a \in 1 .. M |-> new[a]] /\ \A a \in 1 .. M : new[a] = lowered(a)
  BY <1>4
<1> HIDE DEF old, new
<1>9. IsSequence(old) /\ Len(old) = N
  BY <1>2, <1>7, SegmentIsSequence
<1>10. IsSequence(new) /\ Len(new) = M
  BY <1>3, <1>8, SegmentIsSequence
<1>11. /\ Len(ns.bounds) = N + M /\ DOMAIN ns.bounds = 1 .. (N + M)
       /\ IsSequence(ns.bounds)
       /\ \A i \in 1 .. N : ns.bounds[i] = old[i]
       /\ \A a \in 1 .. M : ns.bounds[N + a] = new[a]
  <2> DEFINE S == {old[i] : i \in DOMAIN old}
             T == {new[a] : a \in DOMAIN new}
  <2>1. old \in Seq(S) /\ Len(old) = N /\ new \in Seq(T) /\ Len(new) = M
    BY <1>9, <1>10 DEF IsSequence
  <2> HIDE DEF S, T
  <2>2. IsSequence(old \o new)
    BY <2>1, Joined
  <2>3. DOMAIN (old \o new) = 1 .. Len(old \o new) /\ Len(old \o new) = Len(old) + Len(new)
    <3>1. Len(old \o new) = Len(old) + Len(new)
      BY <2>1
    <3>2. QED
      BY <2>2, <3>1 DEF IsSequence
  <2>5. \A i \in 1 .. Len(old) : (old \o new)[i] = old[i]
    BY <2>1, Joined
  <2>6. \A a \in 1 .. Len(new) : (old \o new)[Len(old) + a] = new[a]
    BY <2>1, Joined
  <2> DEFINE u == old \o new
  <2>4. ns.bounds = u
    BY <1>1
  <2> HIDE DEF u
  <2>7. QED
    BY <2>1, <2>2, <2>3, <2>4, <2>5, <2>6 DEF u
<1>12. \A i \in 1 .. N : ns.bounds[i] = IF i = c THEN gateway ELSE sp.bounds[i]
  BY <1>7, <1>11
<1>13. \A a \in 1 .. M : ns.bounds[N + a] = lowered(a)
  BY <1>8, <1>11
<1>14. \A i \in 1 .. (N + M) : i \in 1 .. N \/ \E a \in 1 .. M : i = N + a
  <2> SUFFICES ASSUME NEW i \in 1 .. (N + M), i \notin 1 .. N PROVE \E a \in 1 .. M : i = N + a
    OBVIOUS
  <2>1. i - N \in 1 .. M /\ i = N + (i - N)
    BY <1>2, <1>3
  <2>2. QED
    BY <2>1
<1>15. \A i \in 1 .. (N + M) : IsBoundary(ns.bounds[i])
  BY <1>2, <1>5, <1>6, <1>12, <1>13, <1>14
<1>16. \A i \in 1 .. N : ns.bounds[i].func = sp.bounds[i].func /\ ns.bounds[i].at = sp.bounds[i].at
  BY <1>5, <1>12
<1>17. \A a \in 1 .. M : Generates(p, p.body[h][a]) => N + a \in ns.gen
  BY <1>1, <1>4
<1>18. c \in 1 .. N
  BY <1>2
<1>19. Nodes(ns) = 1 .. (N + M)
  BY <1>11 DEF Nodes
<1>20. \A i \in sp.gen : i = c \/ i \in ns.gen
  BY <1>1
<1>21. ns.mapped => sp.mapped
  BY <1>1
<1>22. \A i \in Nodes(sp) \ {c} : ns.bounds[i] = sp.bounds[i]
  BY <1>2, <1>12
<1>23. ns.bounds[c].succ = {N + 1} /\ ~ ns.bounds[c].insertable
  BY <1>5, <1>12, <1>18
<1>24. \A a \in 1 .. M : /\ ns.bounds[N + a].func = h /\ ns.bounds[N + a].at = a
                         /\ ns.bounds[N + a].succ = IF p.body[h][a].succ = {} THEN back ELSE {N + k : k \in p.body[h][a].succ}
  BY <1>6, <1>13 DEF Past
<1>25. QED
  BY <1>2, <1>3, <1>11, <1>15, <1>16, <1>17, <1>19, <1>20, <1>21, <1>22, <1>23, <1>24 DEF ns, N, M

\* Descending into a function that only the end of the spine calls makes a spine again.
LEMMA SpliceIsSpine ==
  ASSUME NEW p \in Programs, MainUncalled(p), NEW sp, NEW last, NEW next, IsSpine(p, sp, last, next),
         NEW c \in Nodes(sp), sp.bounds[c].func = last, sp.bounds[c].at \in DescentCandidate(p, last),
         NEW h \in p.body[last][sp.bounds[c].at].to, p.body[h] # <<>>
  PROVE  \E nn : IsSpine(p, Splice(p, sp, c, h), h, nn)
<1> DEFINE ns == Splice(p, sp, c, h)
           N == Len(sp.bounds)
           M == Len(p.body[h])
           a == sp.bounds[c].at
           back == sp.bounds[c].succ
           nn == [i \in Nodes(ns) |-> IF i \in Nodes(sp) THEN next[i] ELSE ns.bounds[i].succ]
<1>1. SpinePlaces(p, sp) /\ SpineFlow(p, sp, last, next)
  BY DEF IsSpine
<1>2. last \in Functions /\ a \in DOMAIN p.body[last]
  BY <1>1 DEF SpinePlaces
<1>3. p.body[last][a].op = "call" /\ p.body[last][a].to = {h} /\ Incoming(p, h) = {<<last, a>>}
  <2>1. a \in CandidatesOf(p, last)
    BY Zenon DEF DescentCandidate
  <2>2. p.body[last][a].op = "call" /\ \E g \in p.body[last][a].to : p.body[last][a].to = {g} /\ Incoming(p, g) = {<<last, a>>}
    <3> DEFINE Fit(i) == /\ p.body[last][i].op = "call"
                         /\ \E g \in p.body[last][i].to : /\ p.body[last][i].to = {g}
                                                          /\ TransMod(p, g)
                                                          /\ Incoming(p, g) = {<<last, i>>}
    <3>1. CandidatesOf(p, last) = IF Transitive(p, last, {"pwrite"}) THEN {} ELSE {i \in DOMAIN p.body[last] : Fit(i)}
      BY DEF CandidatesOf
    <3> HIDE DEF Fit
    <3>2. Fit(a)
      BY <2>1, <3>1
    <3>3. QED
      BY <3>2, Zenon DEF Fit
  <2>3. PICK g \in p.body[last][a].to : p.body[last][a].to = {g} /\ Incoming(p, g) = {<<last, a>>}
    BY <2>2
  <2>4. h = g
    BY <2>3
  <2>5. QED
    BY <2>2, <2>3, <2>4
<1>4. h \in Functions /\ h # Main
  <2>1. h \in Calls(p, last) /\ h \in Functions
    BY <1>2, <1>3, CallsName
  <2>2. QED
    BY <1>2, <2>1 DEF MainUncalled
<1>5. h \notin SpineFunctions(sp)
  <2> SUFFICES ASSUME h \in SpineFunctions(sp) PROVE FALSE
    OBVIOUS
  <2>1. PICK i : GateTo(p, sp, last, next, h, i)
    BY <1>1, <1>4, Zenon DEF SpineFlow
  <2>2. Incoming(p, h) = {<<sp.bounds[i].func, sp.bounds[i].at>>} /\ sp.bounds[i].func # last
    BY <2>1, Zenon DEF GateTo
  <2>3. <<last, a>> \in {<<sp.bounds[i].func, sp.bounds[i].at>>}
    BY <1>3, <2>2
  <2> HIDE DEF a
  <2>4. QED
    BY <2>2, <2>3
<1>6. /\ N \in Nat /\ M \in Nat /\ Nodes(sp) = 1 .. N /\ DOMAIN p.body[h] = 1 .. M
      /\ Len(ns.bounds) = N + M /\ Nodes(ns) = 1 .. (N + M)
      /\ IsSequence(ns.bounds)
      /\ \A i \in Nodes(ns) : IsBoundary(ns.bounds[i])
      /\ \A i \in Nodes(sp) : ns.bounds[i].func = sp.bounds[i].func /\ ns.bounds[i].at = sp.bounds[i].at
      /\ \A i \in Nodes(sp) \ {c} : ns.bounds[i] = sp.bounds[i]
      /\ ns.bounds[c].succ = {N + 1} /\ ~ ns.bounds[c].insertable
      /\ \A x \in DOMAIN p.body[h] :
           /\ ns.bounds[N + x].func = h /\ ns.bounds[N + x].at = x
           /\ ns.bounds[N + x].succ =
                IF p.body[h][x].succ = {} THEN back ELSE {N + k : k \in p.body[h][x].succ}
           /\ Generates(p, p.body[h][x]) => N + x \in ns.gen
      /\ \A i \in sp.gen : i = c \/ i \in ns.gen
      /\ ns.mapped => sp.mapped
  <2> HIDE DEF nn
  <2>1. QED
    BY <1>1, <1>4, SpliceFacts, Zenon
<1> HIDE DEF ns, N, M
<1>7. p.body[h] \in Seq({p.body[h][i] : i \in DOMAIN p.body[h]}) /\ \A x \in DOMAIN p.body[h] : p.body[h][x].succ \subseteq DOMAIN p.body[h]
  BY <1>4, ProgramFacts
<1>8. 1 \in 1 .. M
  <2>1. M # 0
    BY <1>7 DEF M
  <2>2. QED
    BY <1>6, <2>1
<1>9. \A i \in Nodes(ns) : i \in Nodes(sp) \/ \E x \in 1 .. M : i = N + x
  <2> SUFFICES ASSUME NEW i \in 1 .. (N + M), i \notin 1 .. N PROVE \E x \in 1 .. M : i = N + x
    BY <1>6
  <2>1. i - N \in 1 .. M /\ i = N + (i - N)
    BY <1>6
  <2>2. QED
    BY <2>1
<1>10. Nodes(sp) \subseteq Nodes(ns) /\ \A x \in 1 .. M : N + x \in Nodes(ns) /\ N + x \notin Nodes(sp)
  BY <1>6
<1>old. \A i \in Nodes(sp) : ns.bounds[i].func = sp.bounds[i].func /\ ns.bounds[i].at = sp.bounds[i].at
  BY <1>6
<1>new. \A i \in Nodes(ns) : i \notin Nodes(sp) =>
           \E x \in DOMAIN p.body[h] : i = N + x /\ ns.bounds[i].func = h /\ ns.bounds[i].at = x
  <2> SUFFICES ASSUME NEW i \in Nodes(ns), i \notin Nodes(sp)
               PROVE  \E x \in DOMAIN p.body[h] : i = N + x /\ ns.bounds[i].func = h /\ ns.bounds[i].at = x
    OBVIOUS
  <2>1. PICK x \in 1 .. M : i = N + x
    BY <1>9
  <2>2. x \in DOMAIN p.body[h]
    BY <1>6
  <2>3. ns.bounds[N + x].func = h /\ ns.bounds[N + x].at = x
    BY <1>6, <2>2
  <2>4. QED
    BY <2>1, <2>2, <2>3
<1>11. \A i \in Nodes(sp) : /\ sp.bounds[i].succ \subseteq Nodes(sp) /\ sp.bounds[i].func \in Functions
                            /\ sp.bounds[i].at \in DOMAIN p.body[sp.bounds[i].func] /\ sp.bounds[i].func # h
  BY <1>1, <1>5 DEF SpinePlaces, SpineEdges, SpineFunctions
<1>12. SpineEdges(ns)
  <2>1. ASSUME NEW i \in Nodes(ns) PROVE ns.bounds[i].succ \subseteq Nodes(ns)
    <3>1. CASE i \in Nodes(sp) \ {c}
      BY <1>6, <1>10, <1>11, <3>1
    <3>2. CASE i = c
      BY <1>6, <1>8, <1>10, <3>2
    <3>3. CASE \E x \in 1 .. M : i = N + x
      <4>1. PICK x \in 1 .. M : i = N + x
        BY <3>3
      <4>2. ns.bounds[i].succ = IF p.body[h][x].succ = {} THEN back ELSE {N + k : k \in p.body[h][x].succ}
        BY <1>6, <4>1
      <4>3. back \subseteq Nodes(ns)
        BY <1>10, <1>11
      <4>4. \A k \in p.body[h][x].succ : N + k \in Nodes(ns)
        BY <1>6, <1>7, <1>10, <4>1
      <4> HIDE DEF back
      <4>5. QED
        BY <4>2, <4>3, <4>4
    <3>4. QED
      BY <1>9, <3>1, <3>2, <3>3
  <2>2. QED
    BY <1>6, <2>1 DEF SpineEdges, Nodes
<1>13. SpinePlaces(p, ns)
  <2>1. \A i \in Nodes(ns) : ns.bounds[i].func \in Functions /\ ns.bounds[i].at \in DOMAIN p.body[ns.bounds[i].func]
    BY <1>4, <1>old, <1>new, <1>11
  <2>2. ASSUME NEW i \in Nodes(ns), NEW j \in Nodes(ns),
               ns.bounds[i].func = ns.bounds[j].func, ns.bounds[i].at = ns.bounds[j].at
        PROVE  i = j
    <3>1. CASE i \in Nodes(sp) /\ j \in Nodes(sp)
      BY <1>1, <1>6, <2>2, <3>1 DEF SpinePlaces
    <3>2. CASE i \notin Nodes(sp) /\ j \notin Nodes(sp)
      BY <1>new, <2>2, <3>2
    <3>3. CASE (i \in Nodes(sp)) # (j \in Nodes(sp))
      <4>1. i \in Nodes(sp) => ns.bounds[i].func # h
        BY <1>6, <1>11
      <4>2. j \in Nodes(sp) => ns.bounds[j].func # h
        BY <1>6, <1>11
      <4>3. i \notin Nodes(sp) => ns.bounds[i].func = h
        BY <1>new
      <4>4. j \notin Nodes(sp) => ns.bounds[j].func = h
        BY <1>new
      <4>5. QED
        BY <2>2, <3>3, <4>1, <4>2, <4>3, <4>4
    <3>4. QED
      BY <3>1, <3>2, <3>3
  <2>3. ASSUME NEW i \in Nodes(ns), NEW b \in DOMAIN p.body[ns.bounds[i].func]
        PROVE  \E j \in Nodes(ns) : ns.bounds[j].func = ns.bounds[i].func /\ ns.bounds[j].at = b
    <3>1. CASE i \in Nodes(sp)
      <4>1. PICK j \in Nodes(sp) : sp.bounds[j].func = sp.bounds[i].func /\ sp.bounds[j].at = b
        <5>1. \A k \in Nodes(sp) : \A y \in DOMAIN p.body[sp.bounds[k].func] :
                 \E m \in Nodes(sp) : sp.bounds[m].func = sp.bounds[k].func /\ sp.bounds[m].at = y
          BY <1>1, Zenon DEF SpinePlaces
        <5>2. b \in DOMAIN p.body[sp.bounds[i].func]
          BY <1>old, <3>1
        <5>3. QED
          BY <3>1, <5>1, <5>2
      <4>2. QED
        BY <1>old, <1>10, <3>1, <4>1
    <3>2. CASE i \notin Nodes(sp)
      <4>1. b \in DOMAIN p.body[h] /\ ns.bounds[i].func = h
        BY <1>new, <3>2
      <4>2. ns.bounds[N + b].func = h /\ ns.bounds[N + b].at = b
        BY <1>6, <4>1
      <4>3. N + b \in Nodes(ns)
        BY <1>6, <1>10, <4>1
      <4>4. QED
        BY <4>1, <4>2, <4>3
    <3>3. QED
      BY <3>1, <3>2
  <2>4. 1 \in Nodes(sp)
    BY <1>6
  <2>5. ns.bounds[1].func = Main /\ ns.bounds[1].at = 1 /\ 1 \in Nodes(ns)
    BY <1>1, <1>6, <1>10, <2>4 DEF SpinePlaces
  <2>6. QED
    BY <1>6, <1>12, <2>1, <2>2, <2>3, <2>5 DEF SpinePlaces
<1>14. SpineFunctions(ns) = SpineFunctions(sp) \cup {h}
  <2>1. \A i \in Nodes(ns) : ns.bounds[i].func \in SpineFunctions(sp) \cup {h}
    BY <1>old, <1>new DEF SpineFunctions
  <2>2. \A i \in Nodes(sp) : sp.bounds[i].func \in SpineFunctions(ns)
    <3>1. \A i \in Nodes(sp) : i \in Nodes(ns) /\ ns.bounds[i].func = sp.bounds[i].func
      BY <1>old, <1>10
    <3>2. QED
      BY <3>1, Zenon DEF SpineFunctions
  <2>3. h \in SpineFunctions(ns)
    <3>1. N + 1 \in Nodes(ns) /\ ns.bounds[N + 1].func = h
      BY <1>6, <1>8, <1>10
    <3>2. QED
      BY <3>1, Zenon DEF SpineFunctions
  <2>4. \A g \in SpineFunctions(ns) : g \in SpineFunctions(sp) \cup {h}
    BY <2>1, Zenon DEF SpineFunctions
  <2>5. \A g \in SpineFunctions(sp) : g \in SpineFunctions(ns)
    BY <2>2, Zenon DEF SpineFunctions
  <2>6. QED
    BY <2>3, <2>4, <2>5
<1>15. /\ \A i \in Nodes(sp) : StatementAt(p, ns.bounds[i]) = StatementAt(p, sp.bounds[i])
       /\ \A x \in 1 .. M : StatementAt(p, ns.bounds[N + x]) = p.body[h][x]
       /\ StatementAt(p, ns.bounds[c]) = p.body[last][a]
  BY <1>6 DEF StatementAt
<1>16. /\ \A i \in Nodes(sp) : nn[i] = next[i]
       /\ \A x \in 1 .. M : nn[N + x] = ns.bounds[N + x].succ
  BY <1>10
<1> HIDE DEF nn, back, a
<1>17. Gate(p, ns, c)
  BY <1>3, <1>4, <1>14, <1>15, Zenon DEF Gate
<1>18. \A i \in Nodes(sp) : Gate(p, sp, i) => Gate(p, ns, i)
  BY <1>14, <1>15 DEF Gate
<1>19. ~ Gate(p, sp, c)
  BY <1>3, <1>5, <1>15 DEF Gate
<1>20. GateTo(p, ns, h, nn, h, c)
  <2>1. c \in Nodes(ns) /\ ns.bounds[c].func = last /\ ns.bounds[c].at = a
    BY <1>6, <1>10 DEF a
  <2>2. ns.bounds[c].func # h
    BY <1>11, <2>1
  <2>3. ASSUME NEW j \in Nodes(ns), ns.bounds[j].func = h
        PROVE  /\ ns.bounds[j].at = 1 => j \in ns.bounds[c].succ
               /\ StatementAt(p, ns.bounds[j]).succ = {} => nn[c] \subseteq nn[j]
    <3>1. j \notin Nodes(sp)
      BY <1>6, <1>11, <2>3
    <3>2. PICK x \in 1 .. M : j = N + x
      BY <1>9, <3>1
    <3>3. ns.bounds[j].at = 1 => j \in ns.bounds[c].succ
      BY <1>6, <3>2
    <3>4. p.body[h][x].succ = {} => nn[j] = back
      BY <1>6, <1>16, <3>2
    <3>5. nn[c] \subseteq back
      BY <1>1, <1>16, <1>19 DEF SpineFlow, back
    <3>6. QED
      BY <1>15, <3>2, <3>3, <3>4, <3>5
  <2>4. QED
    BY <1>3, <1>6, <1>15, <2>1, <2>2, <2>3 DEF GateTo
<1>21. ASSUME NEW g \in SpineFunctions(sp) \ {Main}
       PROVE  \E i : GateTo(p, ns, h, nn, g, i)
  <2>1. PICK i : GateTo(p, sp, last, next, g, i)
    BY <1>1, Zenon DEF SpineFlow
  <2>2. i \in Nodes(sp) /\ g # h
    BY <1>5, <2>1 DEF GateTo
  <2>3. i # c
    BY <1>3, <1>15, <2>1, <2>2 DEF GateTo
  <2>4. ns.bounds[i] = sp.bounds[i] /\ i \in Nodes(ns)
    BY <1>6, <1>10, <2>2, <2>3
  <2>5. ASSUME NEW j \in Nodes(ns), ns.bounds[j].func = g
        PROVE  /\ ns.bounds[j].at = 1 => j \in ns.bounds[i].succ
               /\ StatementAt(p, ns.bounds[j]).succ = {} => nn[i] \subseteq nn[j]
    <3>1. j \in Nodes(sp)
      BY <1>new, <2>2, <2>5
    <3>2. sp.bounds[j].func = g /\ sp.bounds[j].at = ns.bounds[j].at
      BY <1>6, <2>5, <3>1
    <3>3. /\ sp.bounds[j].at = 1 => j \in sp.bounds[i].succ
          /\ StatementAt(p, sp.bounds[j]).succ = {} => next[i] \subseteq next[j]
      BY <2>1, <3>1, <3>2, Zenon DEF GateTo
    <3>4. QED
      BY <1>15, <1>16, <2>2, <2>4, <3>1, <3>2, <3>3
  <2>6. ns.bounds[i].func # h
    BY <1>11, <2>2, <2>4
  <2>7. GateTo(p, ns, h, nn, g, i)
    BY <2>1, <2>4, <2>5, <2>6 DEF GateTo
  <2>8. QED
    BY <2>7
<1>22. ASSUME NEW i \in Nodes(ns), ~ Gate(p, ns, i)
       PROVE  /\ nn[i] \subseteq ns.bounds[i].succ
              /\ Generates(p, StatementAt(p, ns.bounds[i])) => i \in ns.gen
  <2>1. CASE i \in Nodes(sp)
    <3>1. ~ Gate(p, sp, i) /\ i # c
      BY <1>17, <1>18, <1>22, <2>1
    <3>2. next[i] \subseteq sp.bounds[i].succ /\ (Generates(p, StatementAt(p, sp.bounds[i])) => i \in sp.gen)
      BY <1>1, <2>1, <3>1, Zenon DEF SpineFlow
    <3>3. ns.bounds[i] = sp.bounds[i] /\ nn[i] = next[i]
      BY <1>6, <1>16, <2>1, <3>1
    <3>4. QED
      BY <1>6, <3>1, <3>2, <3>3
  <2>2. CASE i \notin Nodes(sp)
    <3>1. PICK x \in 1 .. M : i = N + x
      BY <1>9, <2>2
    <3>2. nn[i] = ns.bounds[i].succ /\ StatementAt(p, ns.bounds[i]) = p.body[h][x]
      BY <1>15, <1>16, <3>1
    <3>3. Generates(p, p.body[h][x]) => i \in ns.gen
      BY <1>6, <3>1
    <3>4. QED
      BY <3>2, <3>3
  <2>3. QED
    BY <2>1, <2>2
<1>23. ASSUME NEW i \in Nodes(ns), NEW j \in Nodes(ns), ns.bounds[j].func = ns.bounds[i].func,
              ns.bounds[j].at \in StatementAt(p, ns.bounds[i]).succ
       PROVE  j \in nn[i]
  <2>1. CASE i \in Nodes(sp)
    <3>1. sp.bounds[i].func = ns.bounds[i].func /\ ns.bounds[i].func # h
      BY <1>6, <1>11, <2>1
    <3>2. j \in Nodes(sp)
      BY <1>new, <1>23, <3>1
    <3>3. sp.bounds[j].func = sp.bounds[i].func /\ sp.bounds[j].at \in StatementAt(p, sp.bounds[i]).succ
      BY <1>6, <1>15, <1>23, <2>1, <3>1, <3>2
    <3>4. j \in next[i]
      BY <1>1, <2>1, <3>2, <3>3, Zenon DEF SpineFlow
    <3>5. QED
      BY <1>16, <2>1, <3>4
  <2>2. CASE i \notin Nodes(sp)
    <3>1. PICK x \in 1 .. M : i = N + x
      BY <1>9, <2>2
    <3>2. ns.bounds[j].func = h
      BY <1>6, <1>23, <3>1
    <3>3. j \notin Nodes(sp)
      BY <1>6, <1>11, <3>2
    <3>4. PICK y \in 1 .. M : j = N + y
      BY <1>9, <3>3
    <3>5. y \in p.body[h][x].succ
      BY <1>6, <1>15, <1>23, <3>1, <3>4
    <3>6. nn[i] = {N + k : k \in p.body[h][x].succ}
      BY <1>6, <1>16, <3>1, <3>5
    <3>7. QED
      BY <3>4, <3>5, <3>6
  <2>3. QED
    BY <2>1, <2>2
<1>24. SpineFlow(p, ns, h, nn)
  <2>1. \A g \in SpineFunctions(ns) \ {Main} : \E i : GateTo(p, ns, h, nn, g, i)
    BY <1>14, <1>20, <1>21
  <2>2. QED
    BY <2>1, <1>22, <1>23 DEF SpineFlow
<1>25. IsSpine(p, ns, h, nn)
  BY <1>13, <1>24 DEF IsSpine
<1>26. QED
  BY <1>25 DEF ns

(***************************************************************************)
(* The publication point and the certificate                               *)
(***************************************************************************)

\* Among naturals that have a rank there is a least one of the least rank.
LEMMA LeastOfLeastRank ==
  ASSUME NEW V \in SUBSET Nat, V # {}, NEW rank, \A i \in V : rank[i] \in Nat
  PROVE  \E m \in V : \A k \in V : rank[m] < rank[k] \/ (rank[m] = rank[k] /\ m <= k)
<1> DEFINE D == {rank[i] : i \in V}
<1>1. D \in SUBSET Nat /\ D # {}
  OBVIOUS
<1>2. PICK d \in D : \A n \in D : d <= n
  <2> HIDE DEF D
  <2>1. QED
    BY <1>1, LeastNatural
<1> DEFINE W == {i \in V : rank[i] = d}
<1>3. W \in SUBSET Nat /\ W # {}
  BY <1>2
<1>4. PICK m \in W : \A n \in W : m <= n
  <2> HIDE DEF W
  <2>1. QED
    BY <1>3, LeastNatural
<1>5. ASSUME NEW k \in V PROVE rank[m] < rank[k] \/ (rank[m] = rank[k] /\ m <= k)
  <2>1. rank[m] = d /\ d \in Nat /\ rank[k] \in Nat /\ d <= rank[k]
    BY <1>1, <1>2, <1>4
  <2>2. rank[k] = d => m <= k
    BY <1>4
  <2>3. QED
    BY <2>1, <2>2
<1>6. m \in V
  BY <1>4
<1>7. QED
  BY <1>5, <1>6

\* A selected point is a valid one, of a spine that is not empty.
LEMMA SelectionIsValid ==
  ASSUME NEW p \in Programs, NEW sp, SpinePlaces(p, sp), SelectPublication(sp).ok
  PROVE  1 \in Nodes(sp) /\ SelectPublication(sp).chosen \in ValidPoints(sp, Dominators(sp))
<1> DEFINE dom == Dominators(sp)
           valid == ValidPoints(sp, dom)
           depth(i) == Cardinality({e \in dom : e[2] = i})
           earliest == CHOOSE i \in valid : \A k \in valid :
                          depth(i) < depth(k) \/ (depth(i) = depth(k) /\ i <= k)
           pseudoFirst == \E o \in sp.obs : ~o.routable /\ \E i \in Quiescent(sp) : <<o.boundary, i>> \in dom
           split == \E i, k \in valid : <<i, k>> \notin dom /\ <<k, i>> \notin dom
<1>1. SpineEdges(sp) /\ (sp.mapped => 1 \in Nodes(sp)) /\ Nodes(sp) = 1 .. Len(sp.bounds) /\ Len(sp.bounds) \in Nat
  BY DEF SpinePlaces, SpineEdges, Nodes
<1>2. SelectPublication(sp) =
        CASE ~sp.mapped                    -> Fails("no-entry-spine")
          [] Quiescent(sp) = {}            -> Fails("never-quiescent")
          [] valid = {} /\ pseudoFirst     -> Fails("observation-before-quiescence")
          [] valid = {} /\ ~pseudoFirst    -> Fails("no-single-P")
          [] split                         -> Fails("no-single-P")
          [] OTHER -> [ok |-> TRUE, code |-> "", chosen |-> earliest]
  BY Zenon DEF SelectPublication
<1> HIDE DEF earliest, valid, pseudoFirst, split
<1>3. \A code : ~ Fails(code).ok
  BY DEF Fails
<1>4. sp.mapped /\ valid # {} /\ SelectPublication(sp).chosen = earliest
  <2> DEFINE q == Quiescent(sp) = {}
             none == valid = {}
             found == [ok |-> TRUE, code |-> "", chosen |-> earliest]
             r == SelectPublication(sp)
  <2>1. found.chosen = earliest
    OBVIOUS
  <2>2. r = CASE ~sp.mapped            -> Fails("no-entry-spine")
              [] q                     -> Fails("never-quiescent")
              [] none /\ pseudoFirst   -> Fails("observation-before-quiescence")
              [] none /\ ~pseudoFirst  -> Fails("no-single-P")
              [] split                 -> Fails("no-single-P")
              [] OTHER -> found
    BY <1>2
  <2>3. r.ok
    OBVIOUS
  <2> HIDE DEF q, none, found, r
  <2>4. sp.mapped /\ ~ none /\ r = found
    BY <1>3, <2>2, <2>3
  <2>5. QED
    BY <2>1, <2>4 DEF none, r
<1>5. After(sp, 1) \subseteq Nodes(sp)
  BY <1>1, <1>4, AfterCloses
<1>6. \A i \in valid : i \in After(sp, 1) /\ ~ WritableAfter(sp, i) /\ sp.bounds[i].insertable /\ ~ Cyclic(sp, i)
  BY DEF valid, ValidPoints, Quiescent
<1>7. ASSUME NEW i PROVE depth(i) \in Nat
  <2> DEFINE A == After(sp, 1)
  <2>1. IsFiniteSet(A)
    <3>1. IsFiniteSet(1 .. Len(sp.bounds))
      BY <1>1, FS_Interval
    <3>2. A \subseteq 1 .. Len(sp.bounds)
      BY <1>1, <1>5
    <3>3. QED
      BY <3>1, <3>2, FS_Subset
  <2>2. dom \subseteq A \X A
    BY <1>1, DominatorsInside DEF Reached
  <2> HIDE DEF A, dom
  <2>3. IsFiniteSet(A \X A)
    BY <2>1, FS_Product
  <2>4. {e \in dom : e[2] = i} \subseteq A \X A
    BY <2>2
  <2> DEFINE S == {e \in dom : e[2] = i}
  <2>5. IsFiniteSet(S)
    BY <2>3, <2>4, FS_Subset
  <2>6. QED
    BY <2>5, FS_CardinalityType
<1> HIDE DEF dom
<1>8. valid \in SUBSET Nat
  BY <1>1, <1>5, <1>6
<1> DEFINE rank == [i \in valid |-> depth(i)]
<1>9. \A i \in valid : rank[i] = depth(i)
  BY Zenon
<1>10. \A i \in valid : rank[i] \in Nat
  BY <1>7, <1>9
<1> HIDE DEF rank
<1>11. \E m \in valid : \A k \in valid : rank[m] < rank[k] \/ (rank[m] = rank[k] /\ m <= k)
  BY <1>4, <1>8, <1>10, LeastOfLeastRank
<1> HIDE DEF depth
<1>12. \E m \in valid : \A k \in valid : depth(m) < depth(k) \/ (depth(m) = depth(k) /\ m <= k)
  BY <1>9, <1>11
<1>13. earliest \in valid
  BY <1>12, Zenon DEF earliest
<1>14. QED
  BY <1>1, <1>4, <1>13 DEF dom, valid

\* A selected point is one the cell may be set at; it can be reached, and every
\* observation of the global is acceptable to it.
LEMMA SelectionIsPoint ==
  ASSUME NEW p \in Programs, NEW sp, SpinePlaces(p, sp), SelectPublication(sp).ok
  PROVE  LET P == SelectPublication(sp).chosen
         IN  /\ Point(sp, P) /\ P \in Reached(sp)
             /\ \A o \in sp.obs : Acceptable(Dominators(sp), P, o)
<1> DEFINE P == SelectPublication(sp).chosen
<1>1. SpineEdges(sp)
  BY Zenon DEF SpinePlaces
<1>2. 1 \in Nodes(sp) /\ P \in ValidPoints(sp, Dominators(sp))
  BY SelectionIsValid, Zenon
<1> HIDE DEF P
<1>3. After(sp, 1) \subseteq Nodes(sp)
  BY <1>1, <1>2, AfterCloses
<1>4. P \in After(sp, 1) /\ ~ WritableAfter(sp, P) /\ sp.bounds[P].insertable /\ ~ Cyclic(sp, P)
  BY <1>2 DEF ValidPoints, Quiescent
<1>5. \A o \in sp.obs : Acceptable(Dominators(sp), P, o)
  BY <1>2, Zenon DEF ValidPoints
<1>6. QED
  BY <1>3, <1>4, <1>5, Zenon DEF P, Point, Reached

\* An accepted slot holds the payload made for the selected point, and no rule
\* kills it.
LEMMA SlotPays ==
  ASSUME Slot.ok
  PROVE  /\ KillCodes(program) = {} /\ Selection.ok /\ Slot.payload.ok
         /\ Slot.payload = BuildPayload(program, spine, Selection.chosen)
<1> DEFINE payload == IF Selection.ok THEN BuildPayload(program, spine, Selection.chosen) ELSE Selection
           codes == KillCodes(program)
                    \cup (IF payload.ok THEN {}
                          ELSE IF Exhausted THEN {"spine-descent-exhausted"} ELSE {payload.code})
<1>1. Slot = IF codes = {} THEN [ok |-> TRUE, payload |-> payload] ELSE [ok |-> FALSE, codes |-> codes]
  BY DEF Slot
<1> HIDE DEF payload, codes
<1>2. codes = {} /\ Slot.payload = payload
  BY <1>1
<1>3. KillCodes(program) = {} /\ payload.ok
  BY <1>2 DEF codes
<1>4. Selection.ok
  BY <1>3 DEF payload
<1>5. payload = BuildPayload(program, spine, Selection.chosen)
  BY <1>4 DEF payload
<1>6. QED
  BY <1>2, <1>3, <1>4, <1>5

\* An accepted slot sets the cell at a point of the spine; the program calls
\* main nowhere, and no escaped function writes.
LEMMA SlotCertifies ==
  ASSUME program \in Programs, Slot.ok
  PROVE  /\ Admitted(program)
         /\ SpinePlaces(program, spine) => \E P : Point(spine, P) /\ Slot.payload.at = <<spine.bounds[P].func, spine.bounds[P].at>>
<1> DEFINE P == Selection.chosen
<1>1. KillCodes(program) = {} /\ Selection.ok /\ Slot.payload.ok /\ Slot.payload = BuildPayload(program, spine, P)
  BY SlotPays
<1>2. Admitted(program)
  BY <1>1 DEF KillCodes, Admitted, MainUncalled
<1>3. SpinePlaces(program, spine) => Point(spine, P)
  BY <1>1, SelectionIsPoint DEF Selection
<1>4. Slot.payload.at = <<spine.bounds[P].func, spine.bounds[P].at>>
  <2> DEFINE payload == Slot.payload
  <2>1. payload.ok /\ payload = BuildPayload(program, spine, P)
    BY <1>1
  <2> HIDE DEF payload, P
  <2>2. payload.at = <<spine.bounds[P].func, spine.bounds[P].at>>
    BY <2>1 DEF BuildPayload, Fails
  <2>3. QED
    BY <2>2 DEF payload
<1>5. QED
  BY <1>1, <1>2, <1>3, <1>4

(***************************************************************************)
(* The stack                                                               *)
(***************************************************************************)

\* The stack with another frame on top.
Retop(st, w) == [st EXCEPT ![Len(st)] = w]

\* A stack whose top frame is replaced.
LEMMA RetopFacts ==
  ASSUME NEW st \in Seq(Frames), st # <<>>, NEW w \in Frames
  PROVE  /\ Len(st) \in Nat \ {0} /\ DOMAIN st = 1 .. Len(st)
         /\ Retop(st, w) \in Seq(Frames) /\ Retop(st, w) # <<>>
         /\ Len(Retop(st, w)) = Len(st) /\ DOMAIN Retop(st, w) = 1 .. Len(st)
         /\ \A j \in 1 .. Len(st) : Retop(st, w)[j] = IF j = Len(st) THEN w ELSE st[j]
<1> DEFINE r == Retop(st, w)
<1>1. Len(st) \in Nat \ {0} /\ DOMAIN st = 1 .. Len(st)
  OBVIOUS
<1>2. r \in Seq(Frames) /\ Len(r) = Len(st) /\ DOMAIN r = 1 .. Len(st)
  BY <1>1 DEF Retop
<1>3. \A j \in 1 .. Len(st) : r[j] = IF j = Len(st) THEN w ELSE st[j]
  BY <1>1 DEF Retop
<1> HIDE DEF r
<1>4. r # <<>>
  BY <1>1, <1>2
<1>5. QED
  BY <1>1, <1>2, <1>3, <1>4 DEF r

\* A stack with one more frame.
LEMMA AppendFacts ==
  ASSUME NEW st \in Seq(Frames), NEW w \in Frames
  PROVE  /\ Len(st) \in Nat /\ DOMAIN st = 1 .. Len(st)
         /\ Append(st, w) \in Seq(Frames) /\ Append(st, w) # <<>>
         /\ Len(Append(st, w)) = Len(st) + 1 /\ DOMAIN Append(st, w) = 1 .. (Len(st) + 1)
         /\ \A j \in 1 .. Len(st) : Append(st, w)[j] = st[j]
         /\ Append(st, w)[Len(st) + 1] = w
<1> DEFINE r == Append(st, w)
<1>1. Len(st) \in Nat /\ DOMAIN st = 1 .. Len(st)
  OBVIOUS
<1>2. r \in Seq(Frames) /\ Len(r) = Len(st) + 1
  OBVIOUS
<1>3. \A j \in 1 .. Len(st) : r[j] = st[j]
  OBVIOUS
<1>4. r[Len(st) + 1] = w
  OBVIOUS
<1> HIDE DEF r
<1>5. r # <<>> /\ DOMAIN r = 1 .. (Len(st) + 1)
  BY <1>1, <1>2
<1>6. QED
  BY <1>1, <1>2, <1>3, <1>4, <1>5 DEF r

\* A stack without its top frame.
LEMMA PopFacts ==
  ASSUME NEW st \in Seq(Frames), st # <<>>
  PROVE  LET r == SubSeq(st, 1, Len(st) - 1)
         IN  /\ Len(st) \in Nat \ {0} /\ DOMAIN st = 1 .. Len(st)
             /\ r \in Seq(Frames) /\ Len(r) = Len(st) - 1 /\ DOMAIN r = 1 .. (Len(st) - 1)
             /\ \A j \in 1 .. (Len(st) - 1) : r[j] = st[j]
<1> DEFINE r == SubSeq(st, 1, Len(st) - 1)
<1>1. Len(st) \in Nat \ {0} /\ DOMAIN st = 1 .. Len(st) /\ Len(st) - 1 \in 0 .. Len(st)
  OBVIOUS
<1>2. r \in Seq(Frames) /\ Len(r) = Len(st) - 1
  BY <1>1
<1>3. \A j \in 1 .. (Len(st) - 1) : r[j] = st[j]
  BY <1>1
<1>4. DOMAIN r = 1 .. (Len(st) - 1)
  BY <1>2
<1>5. QED
  BY <1>1, <1>2, <1>3, <1>4

\* A function that can be entered is entered at its first boundary.
LEMMA EnteredFacts ==
  ASSUME NEW p \in Programs, NEW h \in Functions, p.body[h] # <<>>, NEW o \in BOOLEAN
  PROVE  /\ 1 \in DOMAIN p.body[h] /\ Entered(h, o) \in Frames
         /\ Entered(h, o).func = h /\ Entered(h, o).at = 1 /\ ~ Entered(h, o).done
<1>1. p.body[h] \in Seq({p.body[h][i] : i \in DOMAIN p.body[h]})
  BY ProgramFacts
<1>2. 1 \in DOMAIN p.body[h]
  BY <1>1
<1>3. QED
  BY <1>2 DEF Entered, Frames

\* Frames that stay in their function, called functions and callbacks, and
\* returns keep the stack well formed.
LEMMA RetopStack ==
  ASSUME NEW p, NEW st, StackOK(p, st), st # <<>>, NEW w \in Frames,
         w.func = st[Len(st)].func, w.at \in DOMAIN p.body[w.func]
  PROVE  StackOK(p, Retop(st, w))
<1> DEFINE r == Retop(st, w)
           L == Len(st)
<1>1. /\ L \in Nat \ {0} /\ DOMAIN st = 1 .. L /\ r \in Seq(Frames) /\ r # <<>> /\ DOMAIN r = 1 .. L
      /\ \A j \in 1 .. L : r[j] = IF j = L THEN w ELSE st[j]
  BY RetopFacts DEF StackOK
<1> HIDE DEF r
<1>2. /\ \A j \in 1 .. L : st[j].at \in DOMAIN p.body[st[j].func]
      /\ st[1].func = Main /\ \A j \in 1 .. L : j > 1 => Entering(p, st[j - 1], st[j])
  BY <1>1 DEF StackOK
<1> HIDE DEF L
<1>3. \A j \in 1 .. L : r[j].at \in DOMAIN p.body[r[j].func] /\ r[j].func = st[j].func
  BY <1>1, <1>2 DEF L
<1>4. ASSUME NEW j \in 1 .. L, j > 1 PROVE Entering(p, r[j - 1], r[j])
  <2>1. j - 1 \in 1 .. L /\ j - 1 # L
    BY <1>1, <1>4
  <2>2. r[j - 1] = st[j - 1] /\ r[j].func = st[j].func
    BY <1>1, <1>3, <2>1
  <2>3. Entering(p, st[j - 1], st[j])
    BY <1>2, <1>4
  <2>4. QED
    BY <2>2, <2>3 DEF Entering
<1>5. r[1].func = Main
  BY <1>1, <1>2, <1>3
<1>6. StackOK(p, r)
  BY <1>1, <1>3, <1>4, <1>5 DEF StackOK
<1>7. QED
  BY <1>6 DEF r

\* A frame that may be entered from the top one makes a proper stack.
LEMMA AppendStack ==
  ASSUME NEW p \in Programs, NEW st, StackOK(p, st), st # <<>>,
         NEW h \in Functions, p.body[h] # <<>>, NEW o \in BOOLEAN, Entering(p, st[Len(st)], Entered(h, o))
  PROVE  StackOK(p, Append(st, Entered(h, o)))
<1> DEFINE w == Entered(h, o)
           r == Append(st, w)
           L == Len(st)
<1>1. w \in Frames /\ w.at \in DOMAIN p.body[w.func]
  BY EnteredFacts
<1>2. st \in Seq(Frames)
  BY DEF StackOK
<1> HIDE DEF w
<1>3. /\ L \in Nat /\ DOMAIN st = 1 .. L /\ r \in Seq(Frames) /\ r # <<>> /\ DOMAIN r = 1 .. (L + 1)
      /\ \A j \in 1 .. L : r[j] = st[j]
      /\ r[L + 1] = w
  BY <1>1, <1>2, AppendFacts
<1>4. L # 0
  BY <1>2
<1> HIDE DEF r
<1>5. /\ \A j \in 1 .. L : st[j].at \in DOMAIN p.body[st[j].func]
      /\ st[1].func = Main /\ \A j \in 1 .. L : j > 1 => Entering(p, st[j - 1], st[j])
  BY <1>3 DEF StackOK
<1>6. Entering(p, st[L], w)
  BY DEF w
<1> HIDE DEF L
<1>7. ASSUME NEW j \in 1 .. (L + 1)
      PROVE  /\ r[j].at \in DOMAIN p.body[r[j].func]
             /\ j > 1 => Entering(p, r[j - 1], r[j])
  <2>1. CASE j = L + 1
    <3>1. j - 1 = L /\ L \in 1 .. L
      BY <1>3, <1>4, <2>1
    <3>2. r[j] = w /\ r[j - 1] = st[L]
      BY <1>3, <2>1, <3>1
    <3>3. QED
      BY <1>1, <1>6, <3>2
  <2>2. CASE j # L + 1
    <3>1. j \in 1 .. L /\ (j > 1 => j - 1 \in 1 .. L)
      BY <1>3, <2>2
    <3>2. r[j] = st[j] /\ (j > 1 => r[j - 1] = st[j - 1])
      BY <1>3, <3>1
    <3>3. QED
      BY <1>5, <3>1, <3>2
  <2>3. QED
    BY <2>1, <2>2
<1>8. r[1].func = Main
  <2>1. 1 \in 1 .. L
    BY <1>3, <1>4
  <2>2. QED
    BY <1>3, <1>5, <2>1
<1>9. StackOK(p, r)
  BY <1>3, <1>7, <1>8 DEF StackOK
<1>10. QED
  BY <1>9 DEF r, w

\* A proper stack is one without its top frame.
LEMMA PopStack ==
  ASSUME NEW p, NEW st, StackOK(p, st), st # <<>>
  PROVE  StackOK(p, SubSeq(st, 1, Len(st) - 1))
<1> DEFINE r == SubSeq(st, 1, Len(st) - 1)
           L == Len(st)
<1>1. st \in Seq(Frames)
  BY DEF StackOK
<1>2. /\ L \in Nat \ {0} /\ DOMAIN st = 1 .. L /\ r \in Seq(Frames) /\ Len(r) = L - 1 /\ DOMAIN r = 1 .. (L - 1)
      /\ \A j \in 1 .. (L - 1) : r[j] = st[j]
  BY <1>1, PopFacts
<1> HIDE DEF r
<1>3. /\ \A j \in 1 .. L : st[j].at \in DOMAIN p.body[st[j].func]
      /\ st[1].func = Main /\ \A j \in 1 .. L : j > 1 => Entering(p, st[j - 1], st[j])
  BY <1>2 DEF StackOK
<1> HIDE DEF L
<1>4. ASSUME NEW j \in 1 .. (L - 1)
      PROVE  r[j].at \in DOMAIN p.body[r[j].func] /\ (j > 1 => Entering(p, r[j - 1], r[j]))
  <2>1. j \in 1 .. L /\ (j > 1 => j - 1 \in 1 .. (L - 1))
    BY <1>2
  <2>2. QED
    BY <1>2, <1>3, <2>1
<1>5. r # <<>> => r[1].func = Main
  <2>1. r # <<>> => 1 \in 1 .. (L - 1)
    BY <1>2
  <2>2. QED
    BY <1>2, <1>3, <2>1
<1>6. StackOK(p, r)
  BY <1>2, <1>4, <1>5 DEF StackOK
<1>7. QED
  BY <1>6 DEF r

(***************************************************************************)
(* Steps of the program after which the invariant of the stack holds again *)
(***************************************************************************)

\* A frame that stays in its function.
LEMMA RetopRuns ==
  ASSUME NEW p, NEW sp, NEW next, NEW P, NEW st, NEW k, NEW m, StackOK(p, st), st # <<>>,
         RunsTo(p, sp, next, P, st, k, m), NEW w \in Frames, w.func = st[Len(st)].func,
         NEW n \in {0, 1}, n = 1 /\ m < Len(st) => k = 1,
         n = 1 /\ m = Len(st) => Passed(p, sp, next, P, w)
  PROVE  RunsTo(p, sp, next, P, Retop(st, w), n, m)
<1> DEFINE r == Retop(st, w)
           L == Len(st)
<1>1. /\ L \in Nat \ {0} /\ DOMAIN st = 1 .. L /\ Len(r) = L /\ DOMAIN r = 1 .. L
      /\ \A j \in 1 .. L : r[j] = IF j = L THEN w ELSE st[j]
  BY RetopFacts DEF StackOK
<1> HIDE DEF r
<1>2. /\ m \in Nat /\ m <= L /\ \A j \in 1 .. L : st[j].func \in SpineFunctions(sp) <=> j <= m
      /\ k = 1 => /\ m > 0 => Passed(p, sp, next, P, st[m])
                  /\ \A j \in 1 .. L : j > m => Still(p, st[j].func)
  BY <1>1 DEF RunsTo
<1>3. n = 1 /\ m < L => k = 1
  OBVIOUS
<1>4. n = 1 /\ m = L => Passed(p, sp, next, P, w)
  OBVIOUS
<1>5. w.func = st[L].func
  OBVIOUS
<1> HIDE DEF L
<1>6. \A j \in 1 .. L : r[j].func = st[j].func
  BY <1>1, <1>5
<1>7. ASSUME n = 1, m > 0 PROVE Passed(p, sp, next, P, r[m])
  <2>1. CASE m = L
    BY <1>1, <1>4, <1>7, <2>1
  <2>2. CASE m # L
    <3>1. m \in 1 .. L /\ m < L
      BY <1>1, <1>2, <1>7, <2>2
    <3>2. r[m] = st[m]
      BY <1>1, <3>1
    <3>3. QED
      BY <1>2, <1>3, <1>7, <3>1, <3>2
  <2>3. QED
    BY <2>1, <2>2
<1>8. ASSUME n = 1, NEW j \in 1 .. L, j > m PROVE Still(p, r[j].func)
  <2>1. m < L
    BY <1>1, <1>2, <1>8
  <2>2. QED
    BY <1>2, <1>3, <1>6, <1>8, <2>1
<1>9. RunsTo(p, sp, next, P, r, n, m)
  BY <1>1, <1>2, <1>6, <1>7, <1>8 DEF RunsTo
<1>10. QED
  BY <1>9 DEF r

\* A function off the spine is entered: once the cell is set, one that writes nothing.
LEMMA AppendOff ==
  ASSUME NEW p, NEW sp, NEW next, NEW P, NEW st, NEW k, NEW m, StackOK(p, st),
         RunsTo(p, sp, next, P, st, k, m), NEW w \in Frames,
         w.func \notin SpineFunctions(sp), k = 1 => Still(p, w.func)
  PROVE  RunsTo(p, sp, next, P, Append(st, w), k, m)
<1> DEFINE r == Append(st, w)
           L == Len(st)
<1>1. /\ L \in Nat /\ DOMAIN st = 1 .. L /\ Len(r) = L + 1 /\ DOMAIN r = 1 .. (L + 1)
      /\ \A j \in 1 .. L : r[j] = st[j]
      /\ r[L + 1] = w
  BY AppendFacts DEF StackOK
<1> HIDE DEF r
<1>2. /\ k \in {0, 1} /\ m \in Nat /\ m <= L /\ \A j \in 1 .. L : st[j].func \in SpineFunctions(sp) <=> j <= m
      /\ k = 1 => /\ m > 0 => Passed(p, sp, next, P, st[m])
                  /\ \A j \in 1 .. L : j > m => Still(p, st[j].func)
  BY <1>1 DEF RunsTo
<1> HIDE DEF L
<1>3. ASSUME NEW j \in 1 .. (L + 1)
      PROVE  /\ r[j].func \in SpineFunctions(sp) <=> j <= m
             /\ k = 1 /\ j > m => Still(p, r[j].func)
  <2>1. CASE j = L + 1
    <3>1. ~ (j <= m) /\ r[j] = w
      BY <1>1, <1>2, <2>1
    <3>2. QED
      BY <3>1
  <2>2. CASE j # L + 1
    <3>1. j \in 1 .. L /\ r[j] = st[j]
      BY <1>1, <2>2
    <3>2. QED
      BY <1>2, <3>1
  <2>3. QED
    BY <2>1, <2>2
<1>4. m > 0 => r[m] = st[m]
  BY <1>1, <1>2
<1>5. m <= Len(r)
  BY <1>1, <1>2
<1>6. RunsTo(p, sp, next, P, r, k, m)
  BY <1>1, <1>2, <1>3, <1>4, <1>5 DEF RunsTo
<1>7. QED
  BY <1>6 DEF r

\* A function of the spine is entered from one.
LEMMA AppendOn ==
  ASSUME NEW p, NEW sp, NEW next, NEW P, NEW st, StackOK(p, st),
         \A j \in DOMAIN st : st[j].func \in SpineFunctions(sp), NEW w \in Frames,
         w.func \in SpineFunctions(sp), NEW k \in {0, 1}, k = 1 => Passed(p, sp, next, P, w)
  PROVE  RunsTo(p, sp, next, P, Append(st, w), k, Len(st) + 1)
<1> DEFINE r == Append(st, w)
           L == Len(st)
<1>1. /\ L \in Nat /\ DOMAIN st = 1 .. L /\ Len(r) = L + 1 /\ DOMAIN r = 1 .. (L + 1)
      /\ \A j \in 1 .. L : r[j] = st[j]
      /\ r[L + 1] = w
  BY AppendFacts DEF StackOK
<1> HIDE DEF r, L
<1>2. \A j \in 1 .. (L + 1) : r[j].func \in SpineFunctions(sp) /\ j <= L + 1
  <2> SUFFICES ASSUME NEW j \in 1 .. (L + 1) PROVE r[j].func \in SpineFunctions(sp) /\ j <= L + 1
    OBVIOUS
  <2>1. j = L + 1 \/ j \in 1 .. L
    BY <1>1
  <2>2. QED
    BY <1>1, <2>1
<1>3. L + 1 \in Nat
  BY <1>1
<1>4. RunsTo(p, sp, next, P, r, k, L + 1)
  BY <1>1, <1>2, <1>3 DEF RunsTo
<1>5. QED
  BY <1>4 DEF r, L

\* The frame on top is left.
LEMMA PopRuns ==
  ASSUME NEW p, NEW sp, NEW next, NEW P, NEW st, NEW k, NEW m, StackOK(p, st), st # <<>>,
         RunsTo(p, sp, next, P, st, k, m),
         k = 1 /\ m = Len(st) /\ m > 1 => Passed(p, sp, next, P, st[m - 1])
  PROVE  \E n : RunsTo(p, sp, next, P, SubSeq(st, 1, Len(st) - 1), k, n)
<1> DEFINE r == SubSeq(st, 1, Len(st) - 1)
           L == Len(st)
           n == IF m = L THEN m - 1 ELSE m
<1>1. /\ L \in Nat \ {0} /\ DOMAIN st = 1 .. L /\ Len(r) = L - 1 /\ DOMAIN r = 1 .. (L - 1)
      /\ \A j \in 1 .. (L - 1) : r[j] = st[j]
  BY PopFacts DEF StackOK
<1> HIDE DEF r
<1>2. /\ k \in {0, 1} /\ m \in Nat /\ m <= L /\ \A j \in 1 .. L : st[j].func \in SpineFunctions(sp) <=> j <= m
      /\ k = 1 => /\ m > 0 => Passed(p, sp, next, P, st[m])
                  /\ \A j \in 1 .. L : j > m => Still(p, st[j].func)
  BY <1>1 DEF RunsTo
<1>3. k = 1 /\ m = L /\ m > 1 => Passed(p, sp, next, P, st[m - 1])
  OBVIOUS
<1> HIDE DEF L
<1>4. n \in Nat /\ n <= L - 1 /\ \A j \in 1 .. (L - 1) : j \in 1 .. L /\ (j <= n <=> j <= m)
  BY <1>1, <1>2
<1>5. k = 1 /\ n > 0 => Passed(p, sp, next, P, r[n])
  <2> SUFFICES ASSUME k = 1, n > 0 PROVE Passed(p, sp, next, P, r[n])
    OBVIOUS
  <2>1. n \in 1 .. (L - 1)
    BY <1>1, <1>4
  <2>2. Passed(p, sp, next, P, st[n])
    BY <1>2, <1>3, <2>1
  <2>3. QED
    BY <1>1, <2>1, <2>2
<1> HIDE DEF n
<1>6. \A j \in 1 .. (L - 1) : (r[j].func \in SpineFunctions(sp) <=> j <= n) /\ (k = 1 /\ j > n => Still(p, r[j].func))
  <2> SUFFICES ASSUME NEW j \in 1 .. (L - 1)
               PROVE  (r[j].func \in SpineFunctions(sp) <=> j <= n) /\ (k = 1 /\ j > n => Still(p, r[j].func))
    OBVIOUS
  <2>1. j \in 1 .. L /\ (j <= n <=> j <= m)
    BY <1>4
  <2>2. r[j] = st[j] /\ j \in Nat
    BY <1>1
  <2>3. j > n <=> j > m
    BY <1>2, <1>4, <2>1, <2>2
  <2>4. QED
    BY <1>2, <2>1, <2>2, <2>3
<1>7. RunsTo(p, sp, next, P, r, k, n)
  BY <1>1, <1>2, <1>4, <1>5, <1>6 DEF RunsTo
<1>8. QED
  BY <1>7 DEF r

\* How often the cell has been set once boundary i of f is arrived at.
ArrivesAt(sp, P, f, i, k) ==
  IF <<sp.bounds[P].func, sp.bounds[P].at>> = <<f, i>> /\ k < 2 THEN k + 1 ELSE k

\* The running program: main is called by nobody, in the program or outside it.
RunsOn(p, sp, last, next, P, st, k, m) ==
  /\ Admitted(p) /\ Main \notin Escaped(p)
  /\ IsSpine(p, sp, last, next) /\ Point(sp, P)
  /\ StackOK(p, st) /\ RunsTo(p, sp, next, P, st, k, m)

\* A boundary of a spine function has a place on the spine.
LEMMA PlaceOf ==
  ASSUME NEW p, NEW sp, NEW last, NEW next, IsSpine(p, sp, last, next),
         NEW f \in SpineFunctions(sp), NEW a \in DOMAIN p.body[f]
  PROVE  \E n \in Nodes(sp) : sp.bounds[n].func = f /\ sp.bounds[n].at = a
<1>1. PICK i \in Nodes(sp) : sp.bounds[i].func = f
  BY DEF SpineFunctions
<1>2. \A k \in Nodes(sp) : \A y \in DOMAIN p.body[sp.bounds[k].func] :
         \E j \in Nodes(sp) : sp.bounds[j].func = sp.bounds[k].func /\ sp.bounds[j].at = y
  BY Zenon DEF IsSpine, SpinePlaces
<1>3. QED
  BY <1>1, <1>2

\* The cell is set on arrival at P only: off the spine never, and on it the
\* frame that arrives, having set the cell or being past P, has passed P.
LEMMA ArrivalPasses ==
  ASSUME NEW p, NEW sp, NEW last, NEW next, IsSpine(p, sp, last, next), NEW P, Point(sp, P),
         NEW w, NEW k \in {0, 1}
  PROVE  /\ w.func \notin SpineFunctions(sp) => ArrivesAt(sp, P, w.func, w.at, k) = k
         /\ \A n \in Nodes(sp) :
              sp.bounds[n].func = w.func /\ sp.bounds[n].at = w.at /\ ~ w.done /\ (k = 1 => n \in Later(sp, P)) =>
                /\ ArrivesAt(sp, P, w.func, w.at, k) \in {0, 1}
                /\ ArrivesAt(sp, P, w.func, w.at, k) = 1 => Passed(p, sp, next, P, w)
<1>1. P \in Nodes(sp) /\ P \notin Later(sp, P)
  <2>1. SpineEdges(sp)
    BY Zenon DEF IsSpine, SpinePlaces
  <2>2. QED
    BY <2>1, LaterCloses DEF Point
<1>2. w.func \notin SpineFunctions(sp) => ArrivesAt(sp, P, w.func, w.at, k) = k
  BY <1>1 DEF SpineFunctions, ArrivesAt
<1>3. ASSUME NEW n \in Nodes(sp), sp.bounds[n].func = w.func, sp.bounds[n].at = w.at, ~ w.done, k = 1 => n \in Later(sp, P)
      PROVE  /\ ArrivesAt(sp, P, w.func, w.at, k) \in {0, 1}
             /\ ArrivesAt(sp, P, w.func, w.at, k) = 1 => Passed(p, sp, next, P, w)
  <2>1. CASE n = P
    <3>1. k = 0 /\ ArrivesAt(sp, P, w.func, w.at, k) = 1
      BY <1>1, <1>3, <2>1 DEF ArrivesAt
    <3>2. Passed(p, sp, next, P, w)
      BY <1>3, <2>1 DEF Passed
    <3>3. QED
      BY <3>1, <3>2
  <2>2. CASE n # P
    <3>1. ~ (sp.bounds[P].func = w.func /\ sp.bounds[P].at = w.at)
      <4>1. \A i1, j1 \in Nodes(sp) :
               sp.bounds[i1].func = sp.bounds[j1].func /\ sp.bounds[i1].at = sp.bounds[j1].at => i1 = j1
        BY Zenon DEF IsSpine, SpinePlaces
      <4>2. QED
        BY <1>1, <1>3, <2>2, <4>1
    <3>2. ArrivesAt(sp, P, w.func, w.at, k) = k
      BY <3>1 DEF ArrivesAt
    <3>3. k = 1 => Passed(p, sp, next, P, w)
      BY <1>3 DEF Passed
    <3>4. QED
      BY <3>2, <3>3
  <2>3. QED
    BY <2>1, <2>2
<1>4. QED
  BY <1>2, <1>3

\* The place of the top frame of the spine: once the cell is set it is at P or
\* after it, unless it waits at a gate, and then all that comes next is after P.
LEMMA PlacePassed ==
  ASSUME NEW p, NEW sp, NEW last, NEW next, IsSpine(p, sp, last, next), NEW P, NEW w,
         NEW n \in Nodes(sp), sp.bounds[n].func = w.func, sp.bounds[n].at = w.at, Passed(p, sp, next, P, w)
  PROVE  IF Gate(p, sp, n) /\ w.done THEN next[n] \subseteq Later(sp, P) ELSE n = P \/ n \in Later(sp, P)
<1>1. PICK i \in Nodes(sp) :
        /\ sp.bounds[i].func = w.func /\ sp.bounds[i].at = w.at
        /\ IF Gate(p, sp, i) /\ w.done THEN next[i] \subseteq Later(sp, P) ELSE i = P \/ i \in Later(sp, P)
  BY Zenon DEF Passed
<1>2. \A i1, j1 \in Nodes(sp) :
         sp.bounds[i1].func = sp.bounds[j1].func /\ sp.bounds[i1].at = sp.bounds[j1].at => i1 = j1
  BY Zenon DEF IsSpine, SpinePlaces
<1>3. i = n
  BY <1>1, <1>2
<1>4. QED
  BY <1>1, <1>3

\* What is known of the frame on top.
OnTop(p, sp, next, P, st, k, m) ==
  /\ Len(st) \in Nat \ {0} /\ DOMAIN st = 1 .. Len(st) /\ m \in Nat /\ m <= Len(st) /\ k \in {0, 1}
  /\ st[Len(st)] \in Frames /\ st[Len(st)].func \in Functions
  /\ st[Len(st)].at \in DOMAIN p.body[st[Len(st)].func]
  /\ st[Len(st)].func \in SpineFunctions(sp) <=> m = Len(st)
  /\ m = Len(st) => \A j \in DOMAIN st : st[j].func \in SpineFunctions(sp)
  /\ k = 1 /\ m = Len(st) => Passed(p, sp, next, P, st[Len(st)])
  /\ k = 1 /\ m < Len(st) => Still(p, st[Len(st)].func)

\* The frame on top is on the spine exactly when it is the last of the spine's.
LEMMA TopFrame ==
  ASSUME NEW p \in Programs, NEW sp, NEW last, NEW next, NEW P, NEW st, NEW k, NEW m,
         RunsOn(p, sp, last, next, P, st, k, m), st # <<>>
  PROVE  OnTop(p, sp, next, P, st, k, m)
<1> DEFINE L == Len(st)
           top == st[L]
<1>1. st \in Seq(Frames) /\ \A j \in DOMAIN st : st[j].at \in DOMAIN p.body[st[j].func]
  BY DEF RunsOn, StackOK
<1>2. L \in Nat \ {0} /\ DOMAIN st = 1 .. L
  BY <1>1
<1>3. top \in Frames
  BY <1>1, <1>2
<1>4. top.func \in Functions /\ top.at \in DOMAIN p.body[top.func]
  BY <1>1, <1>2, <1>3 DEF Frames
<1>5. /\ k \in {0, 1} /\ m \in Nat /\ m <= L /\ \A j \in 1 .. L : st[j].func \in SpineFunctions(sp) <=> j <= m
      /\ k = 1 => /\ m > 0 => Passed(p, sp, next, P, st[m])
                  /\ \A j \in 1 .. L : j > m => Still(p, st[j].func)
  BY <1>2 DEF RunsOn, RunsTo
<1> HIDE DEF L
<1>6. top.func \in SpineFunctions(sp) <=> m = L
  BY <1>2, <1>5
<1>7. m = L => \A j \in DOMAIN st : st[j].func \in SpineFunctions(sp)
  BY <1>2, <1>5
<1>8. k = 1 /\ m = L => Passed(p, sp, next, P, top)
  BY <1>2, <1>5
<1>9. k = 1 /\ m < L => Still(p, top.func)
  BY <1>2, <1>5
<1>10. QED
  BY <1>2, <1>3, <1>4, <1>5, <1>6, <1>7, <1>8, <1>9 DEF L, OnTop

\* A boundary that calls a function off the spine, or calls nothing, is no gate.
LEMMA NoGate ==
  ASSUME NEW p \in Programs, NEW sp, NEW last, NEW next, IsSpine(p, sp, last, next), NEW n \in Nodes(sp),
         StatementAt(p, sp.bounds[n]).op # "call"
           \/ \E h \in StatementAt(p, sp.bounds[n]).to : h \notin SpineFunctions(sp)
  PROVE  ~ Gate(p, sp, n)
<1> SUFFICES ASSUME Gate(p, sp, n) PROVE FALSE
  OBVIOUS
<1>1. PICK g \in SpineFunctions(sp) \ {Main} : GateTo(p, sp, last, next, g, n)
  BY GateLeads, Zenon
<1>2. StatementAt(p, sp.bounds[n]).op = "call" /\ StatementAt(p, sp.bounds[n]).to = {g}
  BY <1>1, Zenon DEF GateTo
<1>3. QED
  BY <1>1, <1>2

\* The statement on top finishes, having called nothing.
LEMMA FinishRuns ==
  ASSUME NEW p \in Programs, NEW sp, NEW last, NEW next, NEW P, NEW st, NEW k, NEW m,
         RunsOn(p, sp, last, next, P, st, k, m), st # <<>>,
         NEW w \in Frames, w.func = st[Len(st)].func, w.at = st[Len(st)].at, ~ st[Len(st)].done,
         StatementAt(p, w).op # "call" \/ \E h \in StatementAt(p, w).to : h \notin SpineFunctions(sp)
  PROVE  RunsTo(p, sp, next, P, Retop(st, w), k, m)
<1> DEFINE top == st[Len(st)]
<1>1. /\ IsSpine(p, sp, last, next) /\ Point(sp, P) /\ StackOK(p, st) /\ RunsTo(p, sp, next, P, st, k, m)
  BY Zenon DEF RunsOn
<1>2. /\ Len(st) \in Nat \ {0} /\ DOMAIN st = 1 .. Len(st) /\ m \in Nat /\ m <= Len(st) /\ k \in {0, 1}
      /\ top \in Frames /\ top.func \in Functions /\ top.at \in DOMAIN p.body[top.func]
      /\ top.func \in SpineFunctions(sp) <=> m = Len(st)
      /\ k = 1 /\ m = Len(st) => Passed(p, sp, next, P, top)
  <2>1. OnTop(p, sp, next, P, st, k, m)
    BY TopFrame
  <2>2. QED
    BY <2>1, Zenon DEF OnTop
<1>3. ASSUME k = 1, m = Len(st) PROVE Passed(p, sp, next, P, w)
  <2>1. PICK n \in Nodes(sp) : sp.bounds[n].func = top.func /\ sp.bounds[n].at = top.at
    BY <1>1, <1>2, <1>3, PlaceOf
  <2>2. StatementAt(p, sp.bounds[n]) = StatementAt(p, w)
    BY <2>1 DEF StatementAt
  <2>3. ~ Gate(p, sp, n)
    BY <1>1, <2>2, NoGate
  <2>4. IF Gate(p, sp, n) /\ top.done THEN next[n] \subseteq Later(sp, P) ELSE n = P \/ n \in Later(sp, P)
    BY <1>1, <1>2, <1>3, <2>1, PlacePassed, Zenon
  <2>5. n = P \/ n \in Later(sp, P)
    BY <2>3, <2>4
  <2>6. QED
    BY <2>1, <2>3, <2>5 DEF Passed
<1>4. k \in {0, 1} /\ w.func = top.func
  BY <1>2
<1>5. (k = 1 /\ m < Len(st) => k = 1) /\ (k = 1 /\ m = Len(st) => Passed(p, sp, next, P, w))
  BY <1>3
<1>6. QED
  BY <1>1, <1>4, <1>5, RetopRuns

\* A callback is entered.
LEMMA CallbackRuns ==
  ASSUME NEW p \in Programs, NEW sp, NEW last, NEW next, NEW P, NEW st, NEW k, NEW m,
         RunsOn(p, sp, last, next, P, st, k, m),
         NEW h \in Escaped(p), h \in Functions, p.body[h] # <<>>
  PROVE  RunsTo(p, sp, next, P, Append(st, Entered(h, TRUE)), ArrivesAt(sp, P, h, 1, k), m)
<1> DEFINE w == Entered(h, TRUE)
<1>1. w \in Frames /\ w.func = h /\ w.at = 1
  BY EnteredFacts
<1>2. /\ IsSpine(p, sp, last, next) /\ Point(sp, P) /\ StackOK(p, st) /\ RunsTo(p, sp, next, P, st, k, m)
      /\ Admitted(p) /\ Main \notin Escaped(p)
  BY Zenon DEF RunsOn
<1>3. h \notin SpineFunctions(sp)
  BY <1>2, CallerIsGate
<1>4. Still(p, h)
  BY <1>2, StillCloses DEF Admitted
<1>5. k \in {0, 1}
  BY <1>2 DEF RunsTo
<1> HIDE DEF w
<1>6. ArrivesAt(sp, P, h, 1, k) = k
  BY <1>1, <1>2, <1>3, <1>5, ArrivalPasses
<1>7. RunsTo(p, sp, next, P, Append(st, w), k, m)
  BY <1>1, <1>2, <1>3, <1>4, AppendOff
<1>8. QED
  BY <1>6, <1>7 DEF w

\* A known function is called: on the spine through its gate, off the spine,
\* once the cell is set, only one that writes nothing.
LEMMA CallRuns ==
  ASSUME NEW p \in Programs, NEW sp, NEW last, NEW next, NEW P, NEW st, NEW k, NEW m,
         RunsOn(p, sp, last, next, P, st, k, m), st # <<>>,
         NEW w \in Frames, w.func = st[Len(st)].func, w.at = st[Len(st)].at, ~ st[Len(st)].done,
         StatementAt(p, w).op = "call", NEW h \in StatementAt(p, w).to, h \in Functions, p.body[h] # <<>>
  PROVE  \E n : RunsTo(p, sp, next, P, Append(Retop(st, w), Entered(h, FALSE)), ArrivesAt(sp, P, h, 1, k), n)
<1> DEFINE top == st[Len(st)]
           e == Entered(h, FALSE)
           r == Retop(st, w)
<1>1. /\ IsSpine(p, sp, last, next) /\ Point(sp, P) /\ StackOK(p, st) /\ RunsTo(p, sp, next, P, st, k, m)
      /\ Admitted(p) /\ MainUncalled(p)
  BY Zenon DEF RunsOn, Admitted
<1>2. /\ Len(st) \in Nat \ {0} /\ DOMAIN st = 1 .. Len(st) /\ m \in Nat /\ m <= Len(st) /\ k \in {0, 1}
      /\ top \in Frames /\ top.func \in Functions /\ top.at \in DOMAIN p.body[top.func]
      /\ top.func \in SpineFunctions(sp) <=> m = Len(st)
      /\ m = Len(st) => \A j \in DOMAIN st : st[j].func \in SpineFunctions(sp)
      /\ k = 1 /\ m = Len(st) => Passed(p, sp, next, P, top)
      /\ k = 1 /\ m < Len(st) => Still(p, top.func)
  <2>1. OnTop(p, sp, next, P, st, k, m)
    BY TopFrame
  <2>2. QED
    BY <2>1, Zenon DEF OnTop
<1>3. e \in Frames /\ e.func = h /\ e.at = 1 /\ ~ e.done /\ 1 \in DOMAIN p.body[h]
  BY EnteredFacts
<1>4. StatementAt(p, w) = p.body[top.func][top.at]
  BY DEF StatementAt
<1> HIDE DEF e
<1>5. StackOK(p, r) /\ Len(r) = Len(st) /\ \A j \in 1 .. Len(st) : r[j].func = st[j].func
  <2>1. StackOK(p, r)
    BY <1>1, <1>2, RetopStack
  <2>2. st \in Seq(Frames)
    BY <1>1 DEF StackOK
  <2>3. Len(r) = Len(st) /\ \A j \in 1 .. Len(st) : r[j] = IF j = Len(st) THEN w ELSE st[j]
    BY <2>2, RetopFacts
  <2> HIDE DEF r
  <2>4. QED
    BY <2>1, <2>3
<1>6. h # Main
  <2>1. h \in Calls(p, top.func)
    BY <1>2, <1>4, CallsName
  <2>2. QED
    BY <1>1, <1>2, <2>1, Zenon DEF MainUncalled
<1>7. CASE h \in SpineFunctions(sp)
  <2>1. PICK g \in Nodes(sp) : GateTo(p, sp, last, next, h, g) /\ sp.bounds[g].func = top.func /\ sp.bounds[g].at = top.at
    <3>0. top.func \in Functions /\ top.at \in DOMAIN p.body[top.func]
          /\ p.body[top.func][top.at].op = "call" /\ h \in p.body[top.func][top.at].to
      BY <1>2, <1>4
    <3>1. \A f \in Functions : \A a \in DOMAIN p.body[f] :
              p.body[f][a].op = "call" /\ h \in p.body[f][a].to =>
                \E i \in Nodes(sp) : /\ GateTo(p, sp, last, next, h, i)
                                     /\ sp.bounds[i].func = f /\ sp.bounds[i].at = a
      BY <1>1, <1>6, <1>7, CallerIsGate
    <3> HIDE DEF top
    <3>2. QED
      BY <3>0, <3>1
  <2>2. m = Len(st)
    BY <1>2, <2>1 DEF SpineFunctions
  <2>3. PICK j \in Nodes(sp) : sp.bounds[j].func = h /\ sp.bounds[j].at = 1
    BY <1>1, <1>3, <1>7, PlaceOf
  <2>4. j \in sp.bounds[g].succ
    BY <2>1, <2>3, Zenon DEF GateTo
  <2>5. k = 1 => j \in Later(sp, P)
    <3> SUFFICES ASSUME k = 1 PROVE j \in Later(sp, P)
      OBVIOUS
    <3>1. Passed(p, sp, next, P, top) /\ ~ top.done
      BY <1>2, <2>2
    <3>2. IF Gate(p, sp, g) /\ top.done THEN next[g] \subseteq Later(sp, P) ELSE g = P \/ g \in Later(sp, P)
      BY <1>1, <2>1, <3>1, PlacePassed, Zenon
    <3>3. g = P \/ g \in Later(sp, P)
      BY <3>1, <3>2
    <3>4. SpineEdges(sp)
      BY <1>1, Zenon DEF IsSpine, SpinePlaces
    <3>5. sp.bounds[g].succ \subseteq Later(sp, P)
      BY <1>1, <3>3, <3>4, LaterCloses
    <3>6. QED
      BY <2>4, <3>5
  <2>6. /\ ArrivesAt(sp, P, h, 1, k) \in {0, 1}
        /\ ArrivesAt(sp, P, h, 1, k) = 1 => Passed(p, sp, next, P, e)
    <3>1. /\ ArrivesAt(sp, P, e.func, e.at, k) \in {0, 1}
          /\ ArrivesAt(sp, P, e.func, e.at, k) = 1 => Passed(p, sp, next, P, e)
      BY <1>1, <1>2, <1>3, <2>3, <2>5, ArrivalPasses
    <3>2. QED
      BY <1>3, <3>1
  <2>7. \A i \in DOMAIN r : r[i].func \in SpineFunctions(sp)
    <3>1. DOMAIN r = 1 .. Len(st)
      BY <1>5 DEF StackOK
    <3> HIDE DEF r
    <3>2. QED
      BY <1>2, <1>5, <2>2, <3>1
  <2> HIDE DEF r
  <2>8. RunsTo(p, sp, next, P, Append(r, e), ArrivesAt(sp, P, h, 1, k), Len(r) + 1)
    BY <1>3, <1>5, <1>7, <2>6, <2>7, AppendOn
  <2>9. QED
    BY <2>8 DEF e, r
<1>8. CASE h \notin SpineFunctions(sp)
  <2>1. RunsTo(p, sp, next, P, r, k, m)
    BY <1>8, FinishRuns
  <2>2. k = 1 => Still(p, h)
    <3> SUFFICES ASSUME k = 1 PROVE Still(p, h)
      OBVIOUS
    <3>3. k = 1
      OBVIOUS
    <3>1. CASE m = Len(st)
      <4>1. PICK n \in Nodes(sp) : sp.bounds[n].func = top.func /\ sp.bounds[n].at = top.at
        BY <1>1, <1>2, <3>1, PlaceOf
      <4>2. StatementAt(p, sp.bounds[n]) = StatementAt(p, w)
        BY <4>1 DEF StatementAt
      <4>3. ~ Gate(p, sp, n)
        BY <1>1, <1>8, <4>2, NoGate
      <4>4. IF Gate(p, sp, n) /\ top.done THEN next[n] \subseteq Later(sp, P) ELSE n = P \/ n \in Later(sp, P)
        BY <1>1, <1>2, <3>1, <4>1, PlacePassed, Zenon
      <4>5. ~ Generates(p, StatementAt(p, w))
        BY <1>1, <4>2, <4>3, <4>4, Onward
      <4>6. ~ TransMod(p, h)
        BY <4>5 DEF Generates
      <4>7. QED
        BY <4>6, StillCloses
    <3>2. CASE m # Len(st)
      <4>1. Still(p, top.func)
        <5>1. m < Len(st)
          <6>1. Len(st) \in Nat /\ m \in Nat /\ m <= Len(st)
            BY <1>2, Zenon
          <6>2. QED
            BY <3>2, <6>1
        <5>2. QED
          BY <1>2, <3>3, <5>1
      <4>2. \A i \in DOMAIN p.body[top.func] : p.body[top.func][i].op = "call" => \A x \in p.body[top.func][i].to : Still(p, x)
        BY <4>1, StillCloses, Zenon
      <4>3. QED
        BY <1>2, <1>4, <4>2
    <3>4. QED
      BY <3>1, <3>2
  <2>3. ArrivesAt(sp, P, h, 1, k) = k
    <3>1. ArrivesAt(sp, P, e.func, e.at, k) = k
      <4>1. e.func \notin SpineFunctions(sp) /\ k \in {0, 1}
        BY <1>2, <1>3, <1>8
      <4>2. QED
        BY <1>1, <4>1, ArrivalPasses
    <3>2. QED
      BY <1>3, <3>1
  <2> HIDE DEF r
  <2>4. RunsTo(p, sp, next, P, Append(r, e), k, m)
    BY <1>3, <1>5, <1>8, <2>1, <2>2, AppendOff
  <2>5. QED
    BY <2>3, <2>4 DEF e, r
<1>9. QED
  BY <1>7, <1>8

\* The frame on top goes on to a successor of its boundary.
LEMMA AdvanceRuns ==
  ASSUME NEW p \in Programs, NEW sp, NEW last, NEW next, NEW P, NEW st, NEW k, NEW m,
         RunsOn(p, sp, last, next, P, st, k, m), st # <<>>, st[Len(st)].done,
         NEW w \in Frames, w.func = st[Len(st)].func, ~ w.done,
         w.at \in StatementAt(p, st[Len(st)]).succ
  PROVE  RunsTo(p, sp, next, P, Retop(st, w), ArrivesAt(sp, P, w.func, w.at, k), m)
<1> DEFINE top == st[Len(st)]
           n == ArrivesAt(sp, P, w.func, w.at, k)
<1>1. /\ IsSpine(p, sp, last, next) /\ Point(sp, P) /\ StackOK(p, st) /\ RunsTo(p, sp, next, P, st, k, m)
  BY Zenon DEF RunsOn
<1>2. OnTop(p, sp, next, P, st, k, m)
  BY TopFrame
<1>3. Len(st) \in Nat /\ m \in Nat /\ m <= Len(st) /\ k \in {0, 1}
  BY <1>2, Zenon DEF OnTop
<1>4. top.func \in Functions /\ top.at \in DOMAIN p.body[top.func] /\ (top.func \in SpineFunctions(sp) <=> m = Len(st))
  BY <1>2, Zenon DEF OnTop
<1>5. k = 1 /\ m = Len(st) => Passed(p, sp, next, P, top)
  BY <1>2, Zenon DEF OnTop
<1>6. top.done /\ w.func = top.func /\ w.at \in p.body[top.func][top.at].succ
  BY DEF StatementAt
<1>7. w.at \in DOMAIN p.body[top.func]
  BY <1>4, <1>6, ProgramFacts
<1> HIDE DEF top
<1>8. CASE m = Len(st)
  <2>1. PICK i \in Nodes(sp) : sp.bounds[i].func = top.func /\ sp.bounds[i].at = top.at
    BY <1>1, <1>4, <1>8, PlaceOf
  <2>2. PICK j \in Nodes(sp) : sp.bounds[j].func = top.func /\ sp.bounds[j].at = w.at
    BY <1>1, <1>4, <1>7, <1>8, PlaceOf
  <2>3. j \in next[i]
    <3>1. sp.bounds[j].func = sp.bounds[i].func /\ sp.bounds[j].at \in StatementAt(p, sp.bounds[i]).succ
      BY <1>6, <2>1, <2>2 DEF StatementAt
    <3>2. QED
      BY <1>1, <3>1, Zenon DEF IsSpine, SpineFlow
  <2>4. k = 1 => j \in Later(sp, P)
    <3> SUFFICES ASSUME k = 1 PROVE j \in Later(sp, P)
      OBVIOUS
    <3>1. Passed(p, sp, next, P, top)
      BY <1>5, <1>8
    <3>2. IF Gate(p, sp, i) /\ top.done THEN next[i] \subseteq Later(sp, P) ELSE i = P \/ i \in Later(sp, P)
      BY <1>1, <2>1, <3>1, PlacePassed, Zenon
    <3>3. next[i] \subseteq Later(sp, P)
      BY <1>1, <1>6, <3>2, Onward
    <3>4. QED
      BY <2>3, <3>3
  <2>5. n \in {0, 1} /\ (n = 1 => Passed(p, sp, next, P, w))
    BY <1>1, <1>3, <1>6, <2>2, <2>4, ArrivalPasses
  <2> HIDE DEF n
  <2>6. n = 1 /\ m < Len(st) => k = 1
    BY <1>3, <1>8
  <2>7. RunsTo(p, sp, next, P, Retop(st, w), n, m)
    BY <1>1, <2>5, <2>6, RetopRuns
  <2>8. QED
    BY <2>7 DEF n
<1>9. CASE m # Len(st)
  <2>1. w.func \notin SpineFunctions(sp)
    BY <1>4, <1>6, <1>9
  <2>2. n = k
    BY <1>1, <1>3, <2>1, ArrivalPasses
  <2> HIDE DEF n
  <2>3. RunsTo(p, sp, next, P, Retop(st, w), k, m)
    BY <1>1, <1>3, <1>9, RetopRuns
  <2>4. QED
    BY <2>2, <2>3 DEF n
<1>10. QED
  BY <1>8, <1>9

\* The frame on top returns.
LEMMA ReturnRuns ==
  ASSUME NEW p \in Programs, NEW sp, NEW last, NEW next, NEW P, NEW st, NEW k, NEW m,
         RunsOn(p, sp, last, next, P, st, k, m), st # <<>>, st[Len(st)].done,
         StatementAt(p, st[Len(st)]).succ = {}
  PROVE  \E n : RunsTo(p, sp, next, P, SubSeq(st, 1, Len(st) - 1), k, n)
<1> DEFINE top == st[Len(st)]
<1>1. /\ IsSpine(p, sp, last, next) /\ Point(sp, P) /\ StackOK(p, st) /\ RunsTo(p, sp, next, P, st, k, m)
      /\ MainUncalled(p) /\ Main \notin Escaped(p)
  BY Zenon DEF RunsOn, Admitted
<1>2. OnTop(p, sp, next, P, st, k, m)
  BY TopFrame
<1>3. Len(st) \in Nat /\ DOMAIN st = 1 .. Len(st) /\ m \in Nat /\ m <= Len(st) /\ k \in {0, 1}
  BY <1>2, Zenon DEF OnTop
<1>4. top.func \in Functions /\ top.at \in DOMAIN p.body[top.func] /\ (top.func \in SpineFunctions(sp) <=> m = Len(st))
  BY <1>2, Zenon DEF OnTop
<1>5. k = 1 /\ m = Len(st) => Passed(p, sp, next, P, top)
  BY <1>2, Zenon DEF OnTop
<1>6. top.done /\ StatementAt(p, top).succ = {}
  OBVIOUS
<1>7. ASSUME k = 1, m = Len(st), m > 1 PROVE Passed(p, sp, next, P, st[m - 1])
  <2> DEFINE below == st[m - 1]
             h == top.func
  <2>1. m \in DOMAIN st /\ m - 1 \in DOMAIN st /\ st[m] = top
    BY <1>3, <1>7
  <2>2. Entering(p, below, top)
    BY <1>1, <1>7, <2>1 DEF StackOK
  <2>3. below \in Frames /\ below.func \in Functions /\ below.at \in DOMAIN p.body[below.func]
    <3>1. below \in Frames /\ below.at \in DOMAIN p.body[below.func]
      BY <1>1, <2>1 DEF StackOK
    <3> HIDE DEF below
    <3>2. QED
      BY <3>1 DEF Frames
  <2> HIDE DEF below, top
  <2>4. h \in SpineFunctions(sp)
    BY <1>4, <1>7
  <2>5. h # Main
    <3> SUFFICES ASSUME h = Main PROVE FALSE
      OBVIOUS
    <3>1. p.body[below.func][below.at].op = "call" /\ h \in p.body[below.func][below.at].to
      BY <1>1, <2>2 DEF Entering, StatementAt
    <3>2. Main \in Calls(p, below.func)
      BY <2>3, <3>1, CallsName
    <3>3. QED
      BY <1>1, <2>3, <3>2, Zenon DEF MainUncalled
  <2>6. h \notin Escaped(p)
    BY <1>1, <2>4, <2>5, CallerIsGate
  <2>7. below.done /\ p.body[below.func][below.at].op = "call" /\ h \in p.body[below.func][below.at].to
    BY <2>2, <2>6 DEF Entering, StatementAt
  <2>8. PICK g \in Nodes(sp) : GateTo(p, sp, last, next, h, g) /\ sp.bounds[g].func = below.func /\ sp.bounds[g].at = below.at
    <3>1. \A f \in Functions : \A a \in DOMAIN p.body[f] :
              p.body[f][a].op = "call" /\ h \in p.body[f][a].to =>
                \E i \in Nodes(sp) : /\ GateTo(p, sp, last, next, h, i)
                                     /\ sp.bounds[i].func = f /\ sp.bounds[i].at = a
      BY <1>1, <2>4, <2>5, CallerIsGate
    <3>2. QED
      BY <2>3, <2>7, <3>1
  <2>9. PICK i \in Nodes(sp) : sp.bounds[i].func = h /\ sp.bounds[i].at = top.at
    BY <1>1, <1>4, <2>4, PlaceOf
  <2>10. IF Gate(p, sp, i) /\ top.done THEN next[i] \subseteq Later(sp, P) ELSE i = P \/ i \in Later(sp, P)
    BY <1>1, <1>5, <1>7, <2>9, PlacePassed, Zenon
  <2>11. next[i] \subseteq Later(sp, P)
    BY <1>1, <1>6, <2>10, Onward
  <2>12. next[g] \subseteq next[i]
    <3>1. StatementAt(p, sp.bounds[i]).succ = {}
      BY <1>6, <2>9 DEF StatementAt
    <3>2. QED
      BY <2>8, <2>9, <3>1, Zenon DEF GateTo
  <2>13. Gate(p, sp, g)
    <3>1. StatementAt(p, sp.bounds[g]).op = "call" /\ StatementAt(p, sp.bounds[g]).to = {h}
      BY <2>8, Zenon DEF GateTo
    <3>2. h \in SpineFunctions(sp) \ {Main}
      BY <2>4, <2>5
    <3>3. QED
      BY <3>1, <3>2 DEF Gate
  <2>14. next[g] \subseteq Later(sp, P)
    BY <2>11, <2>12
  <2>15. Passed(p, sp, next, P, below)
    BY <2>7, <2>8, <2>13, <2>14 DEF Passed
  <2>16. QED
    BY <2>15 DEF below
<1>8. QED
  BY <1>1, <1>7, PopRuns

\* The certified program starts in main.
LEMMA StartState ==
  ASSUME NEW p \in Programs, NEW sp, NEW last, NEW next, IsSpine(p, sp, last, next), Admitted(p),
         NEW P, Point(sp, P), NEW cert, cert.ok, cert.payload.at = <<sp.bounds[P].func, sp.bounds[P].at>>
  PROVE  RunState(p, sp, last, cert, <<Entered(Main, FALSE)>>, IF cert.payload.at = <<Main, 1>> THEN 1 ELSE 0)
<1> DEFINE w == Entered(Main, FALSE)
           st == <<w>>
           k == IF cert.payload.at = <<Main, 1>> THEN 1 ELSE 0
<1>1. SpinePlaces(p, sp) /\ P \in Nodes(sp)
  BY DEF IsSpine, Point
<1>2. 1 \in Nodes(sp)
  BY <1>1 DEF SpinePlaces, SpineEdges, Nodes
<1>3. Main \in Functions /\ sp.bounds[1].func = Main /\ sp.bounds[1].at = 1 /\ 1 \in DOMAIN p.body[Main]
  BY <1>1, <1>2 DEF SpinePlaces
<1>4. Main \in SpineFunctions(sp)
  BY <1>2, <1>3 DEF SpineFunctions
<1>5. w \in Frames /\ w.func = Main /\ w.at = 1 /\ ~ w.done
  BY <1>3 DEF Entered, Frames
<1> HIDE DEF w
<1>6. st \in Seq(Frames) /\ DOMAIN st = {1} /\ st[1] = w /\ Len(st) = 1 /\ st # <<>>
  BY <1>5
<1> HIDE DEF st
<1>7. StackOK(p, st)
  BY <1>3, <1>5, <1>6 DEF StackOK
<1>8. ArrivesAt(sp, P, Main, 1, 0) = k
  BY DEF ArrivesAt
<1>9. k \in {0, 1} /\ (k = 1 => Passed(p, sp, next, P, w))
  <2>1. /\ ArrivesAt(sp, P, w.func, w.at, 0) \in {0, 1}
        /\ ArrivesAt(sp, P, w.func, w.at, 0) = 1 => Passed(p, sp, next, P, w)
    BY <1>2, <1>3, <1>5, ArrivalPasses
  <2>2. QED
    BY <1>5, <1>8, <2>1
<1> HIDE DEF k
<1>10. RunsTo(p, sp, next, P, st, k, 1)
  BY <1>4, <1>5, <1>6, <1>9 DEF RunsTo
<1>11. Main \in Escaped(p) => \A j \in DOMAIN st : Still(p, st[j].func)
  <2>1. Main \in Escaped(p) => ~ TransMod(p, Main)
    BY DEF Admitted
  <2>2. QED
    BY <1>3, <1>5, <1>6, <2>1, StillCloses
<1>12. RunState(p, sp, last, cert, st, k)
  BY <1>7, <1>10, <1>11, Zenon DEF RunState
<1>13. QED
  BY <1>12 DEF st, k, w

\* How often a certified cell has been set once boundary i of f is arrived at.
CellSets(cert, f, i, k) == IF cert.ok /\ cert.payload.at = <<f, i>> /\ k < 2 THEN k + 1 ELSE k

\* The frame on top is at a boundary of its function.
LEMMA TopPlace ==
  ASSUME NEW p, NEW st, StackOK(p, st), st # <<>>
  PROVE  /\ Len(st) \in Nat \ {0} /\ DOMAIN st = 1 .. Len(st) /\ st[Len(st)] \in Frames
         /\ st[Len(st)].func \in Functions /\ st[Len(st)].at \in DOMAIN p.body[st[Len(st)].func]
<1> DEFINE top == st[Len(st)]
<1>1. st \in Seq(Frames) /\ \A j \in DOMAIN st : st[j].at \in DOMAIN p.body[st[j].func]
  BY DEF StackOK
<1>2. Len(st) \in Nat \ {0} /\ DOMAIN st = 1 .. Len(st)
  BY <1>1
<1>3. top \in Frames /\ top.at \in DOMAIN p.body[top.func]
  BY <1>1, <1>2
<1> HIDE DEF top
<1>4. top.func \in Functions
  BY <1>3 DEF Frames
<1>5. QED
  BY <1>2, <1>3, <1>4 DEF top

\* What a step has to keep.
LEMMA StateKeeps ==
  ASSUME NEW p, NEW sp, NEW last, NEW cert, NEW st, NEW k, RunState(p, sp, last, cert, st, k),
         NEW r, NEW l, StackOK(p, r), Main \in Escaped(p) => \A j \in DOMAIN r : Still(p, r[j].func),
         \A next, P, m : RunsOn(p, sp, last, next, P, st, k, m)
                           /\ cert.payload.at = <<sp.bounds[P].func, sp.bounds[P].at>> =>
                         \E n : RunsTo(p, sp, next, P, r, l, n)
  PROVE  RunState(p, sp, last, cert, r, l)
<1>1. cert.ok /\ Admitted(p) /\ StackOK(p, st)
  BY Zenon DEF RunState
<1>2. PICK next, P :
       /\ IsSpine(p, sp, last, next) /\ Point(sp, P)
       /\ cert.payload.at = <<sp.bounds[P].func, sp.bounds[P].at>>
       /\ Main \notin Escaped(p) => \E m : RunsTo(p, sp, next, P, st, k, m)
  BY Zenon DEF RunState
<1>3. ASSUME Main \notin Escaped(p) PROVE \E n : RunsTo(p, sp, next, P, r, l, n)
  <2>1. PICK m : RunsTo(p, sp, next, P, st, k, m)
    BY <1>2, <1>3
  <2>2. RunsOn(p, sp, last, next, P, st, k, m)
    BY <1>1, <1>2, <1>3, <2>1, Zenon DEF RunsOn
  <2>3. QED
    BY <1>2, <2>2, Zenon
<1>4. QED
  BY <1>1, <1>2, <1>3, Zenon DEF RunState

\* The statement on top finishes, having called nothing.
LEMMA FinishState ==
  ASSUME NEW p \in Programs, NEW sp, NEW last, NEW cert, NEW st, NEW k,
         RunState(p, sp, last, cert, st, k), st # <<>>,
         NEW w \in Frames, w.func = st[Len(st)].func, w.at = st[Len(st)].at, ~ st[Len(st)].done,
         StatementAt(p, w).op # "call"
  PROVE  RunState(p, sp, last, cert, Retop(st, w), k)
<1>1. StackOK(p, st) /\ (Main \in Escaped(p) => \A j \in DOMAIN st : Still(p, st[j].func))
  BY Zenon DEF RunState
<1>2. /\ Len(st) \in Nat \ {0} /\ DOMAIN st = 1 .. Len(st) /\ DOMAIN Retop(st, w) = 1 .. Len(st)
      /\ \A j \in 1 .. Len(st) : Retop(st, w)[j] = IF j = Len(st) THEN w ELSE st[j]
  BY <1>1, RetopFacts DEF StackOK
<1>3. StackOK(p, Retop(st, w))
  <2>1. w.at \in DOMAIN p.body[w.func]
    BY <1>1, TopPlace
  <2>2. QED
    BY <1>1, <2>1, RetopStack
<1>4. Main \in Escaped(p) => \A j \in DOMAIN Retop(st, w) : Still(p, Retop(st, w)[j].func)
  BY <1>1, <1>2
<1>5. \A next, P, m : RunsOn(p, sp, last, next, P, st, k, m) => RunsTo(p, sp, next, P, Retop(st, w), k, m)
  BY FinishRuns
<1>6. QED
  BY <1>3, <1>4, <1>5, StateKeeps

\* A callback is entered.
LEMMA CallbackState ==
  ASSUME NEW p \in Programs, NEW sp, NEW last, NEW cert, NEW st, NEW k,
         RunState(p, sp, last, cert, st, k), st # <<>>,
         NEW h \in Escaped(p), p.body[h] # <<>>
  PROVE  RunState(p, sp, last, cert, Append(st, Entered(h, TRUE)), CellSets(cert, h, 1, k))
<1> DEFINE w == Entered(h, TRUE)
           r == Append(st, w)
           l == CellSets(cert, h, 1, k)
<1>1. /\ StackOK(p, st) /\ (Main \in Escaped(p) => \A j \in DOMAIN st : Still(p, st[j].func))
      /\ cert.ok /\ Admitted(p)
  BY Zenon DEF RunState
<1>2. h \in Functions
  BY ProgramFacts DEF Escaped, Names, Statements
<1>3. w \in Frames /\ w.func = h
  BY <1>2, EnteredFacts
<1>4. StackOK(p, r)
  <2>1. Entering(p, st[Len(st)], w)
    BY <1>3 DEF Entering
  <2>2. QED
    BY <1>1, <1>2, <2>1, AppendStack
<1> HIDE DEF w
<1>5. /\ Len(st) \in Nat /\ DOMAIN st = 1 .. Len(st) /\ DOMAIN r = 1 .. (Len(st) + 1)
      /\ \A j \in 1 .. Len(st) : r[j] = st[j]
      /\ r[Len(st) + 1] = w
  BY <1>1, <1>3, AppendFacts DEF StackOK
<1> HIDE DEF r
<1>6. Main \in Escaped(p) => \A j \in DOMAIN r : Still(p, r[j].func)
  <2>1. Still(p, h)
    BY <1>1, <1>2, StillCloses DEF Admitted
  <2>2. \A j \in DOMAIN r : j \in DOMAIN st \/ j = Len(st) + 1
    BY <1>5
  <2>3. QED
    BY <1>1, <1>3, <1>5, <2>1, <2>2
<1>7. ASSUME NEW next, NEW P, NEW m, RunsOn(p, sp, last, next, P, st, k, m),
             cert.payload.at = <<sp.bounds[P].func, sp.bounds[P].at>>
      PROVE  \E n : RunsTo(p, sp, next, P, r, l, n)
  <2>1. l = ArrivesAt(sp, P, h, 1, k)
    BY <1>1, <1>7 DEF CellSets, ArrivesAt
  <2>2. RunsTo(p, sp, next, P, r, ArrivesAt(sp, P, h, 1, k), m)
    BY <1>2, <1>7, CallbackRuns DEF r, w
  <2>3. QED
    BY <2>1, <2>2
<1> HIDE DEF l
<1>8. RunState(p, sp, last, cert, r, l)
  BY <1>4, <1>6, <1>7, StateKeeps
<1>9. QED
  BY <1>8 DEF r, w, l

\* A known function is called.
LEMMA CallState ==
  ASSUME NEW p \in Programs, NEW sp, NEW last, NEW cert, NEW st, NEW k,
         RunState(p, sp, last, cert, st, k), st # <<>>,
         NEW w \in Frames, w.func = st[Len(st)].func, w.at = st[Len(st)].at, w.done, ~ st[Len(st)].done,
         StatementAt(p, w).op = "call", NEW h \in StatementAt(p, w).to, p.body[h] # <<>>
  PROVE  RunState(p, sp, last, cert, Append(Retop(st, w), Entered(h, FALSE)), CellSets(cert, h, 1, k))
<1> DEFINE s == Retop(st, w)
           e == Entered(h, FALSE)
           r == Append(s, e)
           l == CellSets(cert, h, 1, k)
<1>1. /\ StackOK(p, st) /\ (Main \in Escaped(p) => \A j \in DOMAIN st : Still(p, st[j].func))
      /\ cert.ok
  BY Zenon DEF RunState
<1>2. /\ Len(st) \in Nat \ {0} /\ DOMAIN st = 1 .. Len(st) /\ Len(s) = Len(st) /\ s # <<>>
      /\ \A j \in 1 .. Len(st) : s[j] = IF j = Len(st) THEN w ELSE st[j]
  BY <1>1, RetopFacts DEF StackOK
<1>3. w.func \in Functions /\ w.at \in DOMAIN p.body[w.func]
  BY <1>1, TopPlace
<1>4. StackOK(p, s)
  BY <1>1, <1>3, RetopStack
<1> HIDE DEF s
<1>5. h \in Functions
  BY <1>3, CallsName DEF StatementAt
<1>6. e \in Frames /\ e.func = h
  BY <1>5, EnteredFacts
<1>7. s[Len(s)] = w
  <2>1. Len(st) \in Nat \ {0}
    BY <1>2, Zenon
  <2>2. Len(st) \in 1 .. Len(st)
    BY <2>1
  <2>3. QED
    BY <1>2, <2>2
<1>8. StackOK(p, r)
  <2>1. Entering(p, s[Len(s)], e)
    BY <1>6, <1>7 DEF Entering
  <2>2. QED
    BY <1>2, <1>4, <1>5, <2>1, AppendStack
<1> HIDE DEF e
<1>9. /\ DOMAIN r = 1 .. (Len(st) + 1)
      /\ \A j \in 1 .. Len(st) : r[j] = s[j]
      /\ r[Len(st) + 1] = e
  <2>1. s \in Seq(Frames)
    BY <1>4 DEF StackOK
  <2>2. /\ DOMAIN r = 1 .. (Len(s) + 1)
        /\ \A j \in 1 .. Len(s) : r[j] = s[j]
        /\ r[Len(s) + 1] = e
    BY <1>6, <2>1, AppendFacts
  <2> HIDE DEF r
  <2>3. QED
    BY <1>2, <2>2
<1> HIDE DEF r
<1>10. Main \in Escaped(p) => \A j \in DOMAIN r : Still(p, r[j].func)
  <2> SUFFICES ASSUME Main \in Escaped(p), NEW j \in DOMAIN r PROVE Still(p, r[j].func)
    OBVIOUS
  <2>1. \A i \in DOMAIN st : Still(p, st[i].func)
    BY <1>1
  <2>2. Still(p, w.func)
    <3>1. Len(st) \in DOMAIN st
      <4>1. Len(st) \in Nat \ {0} /\ DOMAIN st = 1 .. Len(st)
        BY <1>2, Zenon
      <4>2. QED
        BY <4>1
    <3>2. QED
      BY <2>1, <3>1
  <2>3. Still(p, h)
    BY <1>3, <2>2, StillCloses DEF StatementAt
  <2>4. CASE j = Len(st) + 1
    BY <1>6, <1>9, <2>3, <2>4
  <2>5. CASE j # Len(st) + 1
    <3>1. j \in 1 .. Len(st)
      <4>1. j \in 1 .. (Len(st) + 1) /\ Len(st) \in Nat
        BY <1>2, <1>9
      <4>2. QED
        BY <2>5, <4>1
    <3>2. r[j] = w \/ r[j] = st[j]
      BY <1>2, <1>9, <3>1
    <3>3. QED
      BY <1>2, <2>1, <2>2, <3>1, <3>2
  <2>6. QED
    BY <2>4, <2>5
<1>11. ASSUME NEW next, NEW P, NEW m, RunsOn(p, sp, last, next, P, st, k, m),
              cert.payload.at = <<sp.bounds[P].func, sp.bounds[P].at>>
       PROVE  \E n : RunsTo(p, sp, next, P, r, l, n)
  <2>1. l = ArrivesAt(sp, P, h, 1, k)
    BY <1>1, <1>11 DEF CellSets, ArrivesAt
  <2>2. \E n : RunsTo(p, sp, next, P, r, ArrivesAt(sp, P, h, 1, k), n)
    BY <1>5, <1>11, CallRuns DEF r, e, s
  <2>3. QED
    BY <2>1, <2>2
<1> HIDE DEF l
<1>12. RunState(p, sp, last, cert, r, l)
  BY <1>8, <1>10, <1>11, StateKeeps
<1>13. QED
  BY <1>12 DEF r, e, s, l

\* The frame on top goes on.
LEMMA AdvanceState ==
  ASSUME NEW p \in Programs, NEW sp, NEW last, NEW cert, NEW st, NEW k,
         RunState(p, sp, last, cert, st, k), st # <<>>, st[Len(st)].done,
         NEW w \in Frames, w.func = st[Len(st)].func, ~ w.done,
         w.at \in StatementAt(p, st[Len(st)]).succ
  PROVE  RunState(p, sp, last, cert, Retop(st, w), CellSets(cert, w.func, w.at, k))
<1> DEFINE l == CellSets(cert, w.func, w.at, k)
           r == Retop(st, w)
<1>1. /\ StackOK(p, st) /\ (Main \in Escaped(p) => \A j \in DOMAIN st : Still(p, st[j].func))
      /\ cert.ok
  BY Zenon DEF RunState
<1>2. /\ DOMAIN st = 1 .. Len(st) /\ DOMAIN r = 1 .. Len(st)
      /\ \A j \in 1 .. Len(st) : r[j] = IF j = Len(st) THEN w ELSE st[j]
  BY <1>1, RetopFacts DEF StackOK
<1>3. w.at \in DOMAIN p.body[w.func]
  BY <1>1, TopPlace, ProgramFacts DEF StatementAt
<1>4. StackOK(p, r)
  BY <1>1, <1>3, RetopStack
<1> HIDE DEF r
<1>5. Main \in Escaped(p) => \A j \in DOMAIN r : Still(p, r[j].func)
  BY <1>1, <1>2
<1>6. ASSUME NEW next, NEW P, NEW m, RunsOn(p, sp, last, next, P, st, k, m),
             cert.payload.at = <<sp.bounds[P].func, sp.bounds[P].at>>
      PROVE  \E n : RunsTo(p, sp, next, P, r, l, n)
  <2>1. l = ArrivesAt(sp, P, w.func, w.at, k)
    BY <1>1, <1>6 DEF CellSets, ArrivesAt
  <2>2. RunsTo(p, sp, next, P, r, ArrivesAt(sp, P, w.func, w.at, k), m)
    BY <1>6, AdvanceRuns DEF r
  <2>3. QED
    BY <2>1, <2>2
<1> HIDE DEF l
<1>7. RunState(p, sp, last, cert, r, l)
  BY <1>4, <1>5, <1>6, StateKeeps
<1>8. QED
  BY <1>7 DEF r, l

\* The frame on top returns.
LEMMA ReturnState ==
  ASSUME NEW p \in Programs, NEW sp, NEW last, NEW cert, NEW st, NEW k,
         RunState(p, sp, last, cert, st, k), st # <<>>, st[Len(st)].done,
         StatementAt(p, st[Len(st)]).succ = {}
  PROVE  RunState(p, sp, last, cert, SubSeq(st, 1, Len(st) - 1), k)
<1> DEFINE r == SubSeq(st, 1, Len(st) - 1)
<1>1. StackOK(p, st) /\ (Main \in Escaped(p) => \A j \in DOMAIN st : Still(p, st[j].func))
  BY Zenon DEF RunState
<1>2. /\ Len(st) \in Nat \ {0} /\ DOMAIN st = 1 .. Len(st) /\ DOMAIN r = 1 .. (Len(st) - 1)
      /\ \A j \in 1 .. (Len(st) - 1) : r[j] = st[j]
  BY <1>1, PopFacts DEF StackOK
<1>3. StackOK(p, r)
  BY <1>1, PopStack
<1>4. \A next, P, m : RunsOn(p, sp, last, next, P, st, k, m) => \E n : RunsTo(p, sp, next, P, r, k, n)
  BY ReturnRuns
<1> HIDE DEF r
<1>5. Main \in Escaped(p) => \A j \in DOMAIN r : Still(p, r[j].func)
  BY <1>1, <1>2
<1>6. RunState(p, sp, last, cert, r, k)
  BY <1>3, <1>4, <1>5, StateKeeps
<1>7. QED
  BY <1>6 DEF r

\* Once the cell of a certified program is set no write is about to run, and
\* it is set once at most unless the module gives main's address away.
LEMMA RunQuiet ==
  ASSUME NEW p \in Programs, NEW sp, NEW last, NEW cert, NEW st, NEW k, RunState(p, sp, last, cert, st, k)
  PROVE  /\ Main \notin Escaped(p) => k \in {0, 1}
         /\ k > 0 /\ st # <<>> /\ ~ st[Len(st)].done =>
              StatementAt(p, st[Len(st)]).op \notin {"write", "pwrite"}
<1> DEFINE top == st[Len(st)]
<1>1. /\ StackOK(p, st) /\ (Main \in Escaped(p) => \A j \in DOMAIN st : Still(p, st[j].func))
      /\ cert.ok /\ Admitted(p)
  BY Zenon DEF RunState
<1>2. PICK next, P :
       /\ IsSpine(p, sp, last, next) /\ Point(sp, P)
       /\ Main \notin Escaped(p) => \E m : RunsTo(p, sp, next, P, st, k, m)
  BY Zenon DEF RunState
<1>3. Main \notin Escaped(p) => k \in {0, 1}
  BY <1>2 DEF RunsTo
<1>4. ASSUME k > 0, st # <<>>, ~ top.done PROVE StatementAt(p, top).op \notin {"write", "pwrite"}
  <2>1. /\ Len(st) \in Nat \ {0} /\ DOMAIN st = 1 .. Len(st)
        /\ top.func \in Functions /\ top.at \in DOMAIN p.body[top.func]
    BY <1>1, <1>4, TopPlace
  <2>2. Len(st) \in DOMAIN st
    BY <2>1
  <2> HIDE DEF top
  <2>3. ASSUME Still(p, top.func) PROVE StatementAt(p, top).op \notin {"write", "pwrite"}
    <3>1. \A i \in DOMAIN p.body[top.func] : p.body[top.func][i].op \notin {"write", "pwrite"}
      BY <2>3, StillCloses, Zenon
    <3>2. QED
      BY <2>1, <3>1 DEF StatementAt
  <2>4. CASE Main \in Escaped(p)
    <3>1. Still(p, top.func)
      BY <1>1, <2>2, <2>4 DEF top
    <3>2. QED
      BY <2>3, <3>1
  <2>5. CASE Main \notin Escaped(p)
    <3>1. PICK m : RunsTo(p, sp, next, P, st, k, m)
      BY <1>2, <2>5
    <3>2. k = 1
      BY <1>3, <1>4, <2>5
    <3>3. RunsOn(p, sp, last, next, P, st, k, m)
      BY <1>1, <1>2, <2>5, <3>1, Zenon DEF RunsOn
    <3>4. OnTop(p, sp, next, P, st, k, m)
      BY <1>4, <3>3, TopFrame
    <3>5. /\ m <= Len(st) /\ m \in Nat /\ Len(st) \in Nat
          /\ top.func \in SpineFunctions(sp) <=> m = Len(st)
          /\ k = 1 /\ m = Len(st) => Passed(p, sp, next, P, top)
          /\ k = 1 /\ m < Len(st) => Still(p, top.func)
      BY <3>4, Zenon DEF OnTop, top
    <3>6. CASE m < Len(st)
      BY <2>3, <3>2, <3>5, <3>6
    <3>7. CASE m = Len(st)
      <4>1. PICK n \in Nodes(sp) : sp.bounds[n].func = top.func /\ sp.bounds[n].at = top.at
        BY <1>2, <2>1, <3>5, <3>7, PlaceOf
      <4>2. StatementAt(p, sp.bounds[n]) = StatementAt(p, top)
        BY <4>1 DEF StatementAt
      <4>3. IF Gate(p, sp, n) /\ top.done THEN next[n] \subseteq Later(sp, P) ELSE n = P \/ n \in Later(sp, P)
        BY <1>2, <3>2, <3>5, <3>7, <4>1, PlacePassed, Zenon
      <4>4. n = P \/ n \in Later(sp, P)
        BY <1>4, <4>3
      <4>5. Gate(p, sp, n) => StatementAt(p, top).op = "call"
        BY <4>2, Zenon DEF Gate
      <4>6. ~ Gate(p, sp, n) => ~ Generates(p, StatementAt(p, top))
        BY <1>2, <4>2, <4>4, Onward
      <4>7. StatementAt(p, top).op \in {"write", "pwrite"} => Generates(p, StatementAt(p, top))
        BY DEF Generates
      <4>8. QED
        BY <4>5, <4>6, <4>7
    <3>8. QED
      BY <3>5, <3>6, <3>7
  <2>6. QED
    BY <2>4, <2>5
<1>5. QED
  BY <1>3, <1>4

(***************************************************************************)
(* The invariant                                                           *)
(***************************************************************************)

\* The top frame with its statement done.
LEMMA FinishedFacts ==
  ASSUME NEW st \in Seq(Frames), st # <<>>
  PROVE  \E w \in Frames : /\ Finished(st) = Retop(st, w) /\ w.done
                           /\ w.func = st[Len(st)].func /\ w.at = st[Len(st)].at
                           /\ w.outside = st[Len(st)].outside
<1> DEFINE top == st[Len(st)]
           w == [top EXCEPT !.done = TRUE]
<1>1. Len(st) \in Nat \ {0} /\ Len(st) \in DOMAIN st
  OBVIOUS
<1>2. top \in Frames
  BY <1>1
<1>3. Finished(st) = Retop(st, w)
  BY DEF Finished, Retop
<1> HIDE DEF top
<1>4. w \in Frames /\ w.done /\ w.func = top.func /\ w.at = top.at /\ w.outside = top.outside
  BY <1>2 DEF Frames
<1> HIDE DEF w
<1>5. QED
  BY <1>3, <1>4 DEF top

\* The top frame at a new boundary, its statement still to run.
LEMMA AdvancedFacts ==
  ASSUME NEW st \in Seq(Frames), st # <<>>, NEW i \in Nat
  PROVE  \E w \in Frames : /\ [st EXCEPT ![Len(st)].at = i, ![Len(st)].done = FALSE] = Retop(st, w)
                           /\ ~ w.done /\ w.func = st[Len(st)].func /\ w.at = i
                           /\ w.outside = st[Len(st)].outside
<1> DEFINE top == st[Len(st)]
           v == [top EXCEPT !.at = i]
           w == [v EXCEPT !.done = FALSE]
           r == [st EXCEPT ![Len(st)].at = i]
<1>1. Len(st) \in Nat \ {0} /\ Len(st) \in DOMAIN st /\ DOMAIN st = 1 .. Len(st)
  OBVIOUS
<1>2. top \in Frames
  BY <1>1
<1>3. [st EXCEPT ![Len(st)].at = i, ![Len(st)].done = FALSE] = [r EXCEPT ![Len(st)].done = FALSE]
  OBVIOUS
<1>4. r = [st EXCEPT ![Len(st)] = v]
  OBVIOUS
<1>5. [r EXCEPT ![Len(st)].done = FALSE] = [r EXCEPT ![Len(st)] = [r[Len(st)] EXCEPT !.done = FALSE]]
  OBVIOUS
<1> HIDE DEF top, r
<1>6. v \in Frames /\ v.func = top.func /\ v.at = i /\ v.outside = top.outside
  BY <1>2 DEF Frames
<1> HIDE DEF v
<1>7. w \in Frames /\ ~ w.done /\ w.func = v.func /\ w.at = v.at /\ w.outside = v.outside
  BY <1>6 DEF Frames
<1>8. r[Len(st)] = v
  BY <1>1, <1>4
<1>9. [r EXCEPT ![Len(st)] = w] = [st EXCEPT ![Len(st)] = w]
  <2> HIDE DEF w
  <2>1. QED
    BY <1>1, <1>4
<1>10. [st EXCEPT ![Len(st)].at = i, ![Len(st)].done = FALSE] = Retop(st, w)
  BY <1>3, <1>5, <1>8, <1>9 DEF Retop
<1> HIDE DEF w
<1>11. QED
  BY <1>6, <1>7, <1>10 DEF top

\* The names a program hands out are escaped.
LEMMA EscapedNames ==
  ASSUME NEW p, NEW f \in Functions, NEW a \in DOMAIN p.body[f],
         p.body[f][a].op \in {"unknown", "register", "leak"}
  PROVE  p.body[f][a].to \subseteq Escaped(p)
<1>1. p.body[f][a].to \subseteq Names(p, f, {"unknown", "register", "leak"})
  BY DEF Names, Statements
<1>2. QED
  BY <1>1, Zenon DEF Escaped

\* Every program starts with main's own body as the spine, and nothing running.
LEMMA InitHolds == Init => IInv
<1> SUFFICES ASSUME Init PROVE IInv
  OBVIOUS
<1>1. /\ program \in Programs /\ phase = "descend" /\ spine = LocalSpine(program, Main) /\ leaf = Main
      /\ stack = <<>> /\ sets = 0 /\ armed = {} /\ leaked = {}
  BY DEF Init
<1>2. \E next : IsSpine(program, spine, leaf, next)
  BY <1>1, LocalIsSpine
<1>3. QED
  BY <1>1, <1>2 DEF IInv

\* A descent splices the one callee of a boundary of the last function into the spine.
LEMMA DescendKeeps ==
  ASSUME IInv, NEW c, Descend(c)
  PROVE  IInv'
<1>1. /\ phase = "descend" /\ program \in Programs /\ stack = <<>> /\ sets = 0
      /\ armed \cup leaked \subseteq Escaped(program)
      /\ MainUncalled(program) => \E next : IsSpine(program, spine, leaf, next)
  BY DEF Descend, IInv
<1>2. /\ program' = program /\ phase' = phase /\ stack' = stack /\ sets' = sets /\ armed' = armed /\ leaked' = leaked
  BY DEF Descend
<1>3. c \in DescentCandidate(program, leaf) /\ \A h \in program.body[leaf][c].to : program.body[h] # <<>>
  BY DEF Descend, CanDescend
<1>4. PICK h \in program.body[leaf][c].to, i \in Nodes(spine) :
        /\ spine.bounds[i].func = leaf /\ spine.bounds[i].at = c
        /\ spine' = Splice(program, spine, i, h) /\ leaf' = h
  BY Zenon DEF Descend
<1>5. ASSUME MainUncalled(program) PROVE \E next : IsSpine(program, spine', leaf', next)
  <2>1. PICK next : IsSpine(program, spine, leaf, next)
    BY <1>1, <1>5
  <2>2. \E nn : IsSpine(program, Splice(program, spine, i, h), h, nn)
    BY <1>1, <1>3, <1>4, <1>5, <2>1, SpliceIsSpine
  <2>3. QED
    BY <1>4, <2>2
<1>6. QED
  BY <1>1, <1>2, <1>5 DEF IInv

\* The slot is decided; if it certifies the global, the program starts in main.
LEMMA DecideKeeps ==
  ASSUME IInv, Decide
  PROVE  IInv'
<1>1. /\ phase = "descend" /\ program \in Programs
      /\ armed \cup leaked \subseteq Escaped(program)
      /\ MainUncalled(program) => \E next : IsSpine(program, spine, leaf, next)
  BY DEF Decide, IInv
<1>2. /\ certificate' = Slot
      /\ phase' = IF certificate'.ok THEN "run" ELSE "failed"
      /\ stack' = IF certificate'.ok THEN <<Entered(Main, FALSE)>> ELSE <<>>
      /\ sets' = IF certificate'.ok /\ certificate'.payload.at = <<Main, 1>> THEN 1 ELSE 0
      /\ program' = program /\ spine' = spine /\ leaf' = leaf /\ armed' = armed /\ leaked' = leaked
  BY Zenon DEF Decide
<1>3. CASE Slot.ok
  <2>1. Admitted(program)
    BY <1>1, <1>3, SlotCertifies
  <2>2. PICK next : IsSpine(program, spine, leaf, next)
    BY <1>1, <2>1 DEF Admitted
  <2>3. PICK P : Point(spine, P) /\ Slot.payload.at = <<spine.bounds[P].func, spine.bounds[P].at>>
    BY <1>1, <1>3, <2>2, SlotCertifies DEF IsSpine
  <2>4. RunState(program, spine, leaf, Slot, <<Entered(Main, FALSE)>>, IF Slot.payload.at = <<Main, 1>> THEN 1 ELSE 0)
    BY <1>1, <1>3, <2>1, <2>2, <2>3, StartState
  <2>5. RunState(program, spine, leaf, certificate, stack, sets)'
    BY <1>2, <1>3, <2>4
  <2>6. phase' = "run"
    BY <1>2, <1>3
  <2>7. QED
    BY <1>1, <1>2, <2>5, <2>6 DEF IInv
<1>4. CASE ~ Slot.ok
  <2>1. phase' = "failed" /\ stack' = <<>> /\ sets' = 0
    BY <1>2, <1>4
  <2>2. QED
    BY <1>1, <1>2, <2>1 DEF IInv
<1>5. QED
  BY <1>3, <1>4

\* A step of the running program.
LEMMA RunningKeeps ==
  ASSUME IInv, Running, UNCHANGED <<analysisVars, phase>>,
         armed' \cup leaked' \subseteq Escaped(program),
         RunState(program, spine, leaf, certificate, stack', sets')
  PROVE  IInv'
<1>1. program \in Programs /\ phase = "run"
  BY DEF IInv, Running
<1>2. /\ program' = program /\ spine' = spine /\ leaf' = leaf /\ certificate' = certificate /\ phase' = phase
  BY DEF analysisVars
<1>3. RunState(program, spine, leaf, certificate, stack, sets)'
  BY <1>2
<1>4. QED
  BY <1>1, <1>2, <1>3 DEF IInv

\* The program while it runs.
LEMMA RunningFacts ==
  ASSUME IInv, Running
  PROVE  /\ program \in Programs /\ armed \cup leaked \subseteq Escaped(program)
         /\ RunState(program, spine, leaf, certificate, stack, sets)
         /\ stack # <<>> /\ stack \in Seq(Frames) /\ StackOK(program, stack)
<1>1. /\ program \in Programs /\ armed \cup leaked \subseteq Escaped(program) /\ stack # <<>>
      /\ RunState(program, spine, leaf, certificate, stack, sets)
  BY Zenon DEF IInv, Running
<1>2. StackOK(program, stack)
  BY <1>1, Zenon DEF RunState
<1>3. QED
  BY <1>1, <1>2, Zenon DEF StackOK

\* The statement about to run, and the frame once it has.
LEMMA ExecutingFacts ==
  ASSUME IInv, NEW ops, Executing(ops)
  PROVE  \E w \in Frames :
           /\ Finished(stack) = Retop(stack, w) /\ w.done /\ ~ stack[Len(stack)].done
           /\ w.func = stack[Len(stack)].func /\ w.at = stack[Len(stack)].at
           /\ w.outside = stack[Len(stack)].outside
           /\ Statement(Top) = StatementAt(program, w) /\ StatementAt(program, w).op \in ops
           /\ w.func \in Functions /\ w.at \in DOMAIN program.body[w.func]
<1>1. Running /\ ~ Top.done /\ Statement(Top).op \in ops
  BY DEF Executing
<1>2. stack # <<>> /\ stack \in Seq(Frames) /\ StackOK(program, stack)
  BY <1>1, RunningFacts, Zenon
<1>3. PICK w \in Frames : /\ Finished(stack) = Retop(stack, w) /\ w.done
                          /\ w.func = stack[Len(stack)].func /\ w.at = stack[Len(stack)].at
                          /\ w.outside = stack[Len(stack)].outside
  BY <1>2, FinishedFacts, Zenon
<1>4. Top = stack[Len(stack)] /\ Statement(Top) = StatementAt(program, w)
  BY <1>3 DEF Top, Statement, StatementAt
<1>5. stack[Len(stack)].func \in Functions /\ stack[Len(stack)].at \in DOMAIN program.body[stack[Len(stack)].func]
  BY <1>2, TopPlace, Zenon
<1>6. w.func \in Functions /\ w.at \in DOMAIN program.body[w.func]
  BY <1>3, <1>5
<1>7. QED
  BY <1>1, <1>3, <1>4, <1>6, Zenon

\* An access, or a statement that does not concern the global.
LEMMA AccessKeeps ==
  ASSUME IInv, Access
  PROVE  IInv'
<1> DEFINE ops == {"skip", "read", "write", "pread", "pwrite"}
<1>1. /\ Executing(ops) /\ Running /\ stack' = Finished(stack)
      /\ UNCHANGED <<analysisVars, phase>> /\ sets' = sets /\ armed' = armed /\ leaked' = leaked
  BY DEF Access, Executing
<1>2. "call" \notin ops
  OBVIOUS
<1> HIDE DEF ops
<1>3. /\ program \in Programs /\ armed \cup leaked \subseteq Escaped(program)
      /\ RunState(program, spine, leaf, certificate, stack, sets) /\ stack # <<>>
  BY <1>1, RunningFacts, Zenon
<1>4. PICK w \in Frames :
        /\ Finished(stack) = Retop(stack, w) /\ ~ stack[Len(stack)].done
        /\ w.func = stack[Len(stack)].func /\ w.at = stack[Len(stack)].at
        /\ StatementAt(program, w).op \in ops
  BY <1>1, ExecutingFacts, Zenon
<1>5. StatementAt(program, w).op # "call"
  BY <1>2, <1>4
<1>6. RunState(program, spine, leaf, certificate, Retop(stack, w), sets)
  BY <1>3, <1>4, <1>5, FinishState, Zenon
<1>7. RunState(program, spine, leaf, certificate, stack', sets')
  BY <1>1, <1>4, <1>6, Zenon
<1>8. armed' \cup leaked' \subseteq Escaped(program)
  BY <1>1, <1>3
<1>9. QED
  BY <1>1, <1>7, <1>8, RunningKeeps, Zenon

\* An address is handed out; what is handed out is escaped.
LEMMA LeakKeeps ==
  ASSUME IInv, Leak
  PROVE  IInv'
<1>1. /\ Executing({"leak"}) /\ Running /\ stack' = Finished(stack)
      /\ leaked' = leaked \cup Statement(Top).to
      /\ UNCHANGED <<analysisVars, phase>> /\ sets' = sets /\ armed' = armed
  BY DEF Leak, Executing
<1>2. /\ program \in Programs /\ armed \cup leaked \subseteq Escaped(program)
      /\ RunState(program, spine, leaf, certificate, stack, sets) /\ stack # <<>>
  BY <1>1, RunningFacts, Zenon
<1>3. PICK w \in Frames :
        /\ Finished(stack) = Retop(stack, w) /\ ~ stack[Len(stack)].done
        /\ w.func = stack[Len(stack)].func /\ w.at = stack[Len(stack)].at
        /\ Statement(Top) = StatementAt(program, w) /\ StatementAt(program, w).op \in {"leak"}
        /\ w.func \in Functions /\ w.at \in DOMAIN program.body[w.func]
  BY <1>1, ExecutingFacts, Zenon
<1>4. RunState(program, spine, leaf, certificate, Retop(stack, w), sets)
  <2>1. StatementAt(program, w).op # "call"
    BY <1>3
  <2>2. QED
    BY <1>2, <1>3, <2>1, FinishState, Zenon
<1>5. RunState(program, spine, leaf, certificate, stack', sets')
  BY <1>1, <1>3, <1>4, Zenon
<1>6. armed' \cup leaked' \subseteq Escaped(program)
  <2>1. Statement(Top).to \subseteq Escaped(program)
    BY <1>3, EscapedNames DEF StatementAt
  <2>2. QED
    BY <1>1, <1>2, <2>1
<1>7. QED
  BY <1>1, <1>5, <1>6, RunningKeeps, Zenon

\* A known function is called.
LEMMA CallKeeps ==
  ASSUME IInv, Call
  PROVE  IInv'
<1>1. /\ Executing({"call"}) /\ Running
      /\ UNCHANGED <<analysisVars, phase>> /\ armed' = armed /\ leaked' = leaked
  BY DEF Call, Executing
<1>2. PICK h \in Statement(Top).to :
        /\ program.body[h] # <<>>
        /\ stack' = Append(Finished(stack), Entered(h, FALSE)) /\ sets' = SetsOnArrival(h, 1)
  BY Zenon DEF Call, Push
<1>3. /\ program \in Programs /\ armed \cup leaked \subseteq Escaped(program)
      /\ RunState(program, spine, leaf, certificate, stack, sets) /\ stack # <<>>
  BY <1>1, RunningFacts, Zenon
<1>4. PICK w \in Frames :
        /\ Finished(stack) = Retop(stack, w) /\ w.done /\ ~ stack[Len(stack)].done
        /\ w.func = stack[Len(stack)].func /\ w.at = stack[Len(stack)].at
        /\ Statement(Top) = StatementAt(program, w) /\ StatementAt(program, w).op \in {"call"}
  BY <1>1, ExecutingFacts, Zenon
<1>5. RunState(program, spine, leaf, certificate, Append(Retop(stack, w), Entered(h, FALSE)),
               CellSets(certificate, h, 1, sets))
  <2>1. StatementAt(program, w).op = "call" /\ h \in StatementAt(program, w).to
    BY <1>2, <1>4
  <2>2. QED
    BY <1>2, <1>3, <1>4, <2>1, CallState, Zenon
<1>6. SetsOnArrival(h, 1) = CellSets(certificate, h, 1, sets)
  BY DEF SetsOnArrival, CellSets
<1>7. RunState(program, spine, leaf, certificate, stack', sets')
  BY <1>2, <1>4, <1>5, <1>6, Zenon
<1>8. armed' \cup leaked' \subseteq Escaped(program)
  BY <1>1, <1>3
<1>9. QED
  BY <1>1, <1>7, <1>8, RunningKeeps, Zenon

\* External code takes what it is handed, and may call back.
LEMMA CallOutsideKeeps ==
  ASSUME IInv, CallOutside
  PROVE  IInv'
<1>1. /\ Executing({"unknown", "register"}) /\ Running
      /\ armed' = armed \cup Statement(Top).to
      /\ \/ stack' = Finished(stack) /\ sets' = sets
         \/ \E h \in armed' \cup leaked : Push(Finished(stack), h, TRUE)
      /\ UNCHANGED <<analysisVars, phase>> /\ leaked' = leaked
  BY DEF CallOutside, Executing
<1>2. /\ program \in Programs /\ armed \cup leaked \subseteq Escaped(program)
      /\ RunState(program, spine, leaf, certificate, stack, sets) /\ stack # <<>> /\ stack \in Seq(Frames)
  BY <1>1, RunningFacts, Zenon
<1>3. PICK w \in Frames :
        /\ Finished(stack) = Retop(stack, w) /\ ~ stack[Len(stack)].done
        /\ w.func = stack[Len(stack)].func /\ w.at = stack[Len(stack)].at
        /\ Statement(Top) = StatementAt(program, w) /\ StatementAt(program, w).op \in {"unknown", "register"}
        /\ w.func \in Functions /\ w.at \in DOMAIN program.body[w.func]
  BY <1>1, ExecutingFacts, Zenon
<1>4. RunState(program, spine, leaf, certificate, Retop(stack, w), sets)
  <2>1. StatementAt(program, w).op # "call"
    BY <1>3
  <2>2. QED
    BY <1>2, <1>3, <2>1, FinishState, Zenon
<1>5. armed' \cup leaked' \subseteq Escaped(program)
  <2>1. Statement(Top).to \subseteq Escaped(program)
    BY <1>3, EscapedNames DEF StatementAt
  <2>2. QED
    BY <1>1, <1>2, <2>1
<1>6. RunState(program, spine, leaf, certificate, stack', sets')
  <2>1. CASE stack' = Finished(stack) /\ sets' = sets
    BY <1>3, <1>4, <2>1, Zenon
  <2>2. CASE \E h \in armed' \cup leaked : Push(Finished(stack), h, TRUE)
    <3>1. PICK h \in armed' \cup leaked :
            /\ program.body[h] # <<>>
            /\ stack' = Append(Finished(stack), Entered(h, TRUE)) /\ sets' = SetsOnArrival(h, 1)
      BY <2>2, Zenon DEF Push
    <3>2. h \in Escaped(program)
      BY <1>1, <1>5, <3>1
    <3>3. Retop(stack, w) # <<>>
      BY <1>2, RetopFacts, Zenon
    <3>4. RunState(program, spine, leaf, certificate, Append(Retop(stack, w), Entered(h, TRUE)),
                   CellSets(certificate, h, 1, sets))
      BY <1>2, <1>4, <3>1, <3>2, <3>3, CallbackState, Zenon
    <3>5. SetsOnArrival(h, 1) = CellSets(certificate, h, 1, sets)
      BY DEF SetsOnArrival, CellSets
    <3>6. QED
      BY <1>3, <3>1, <3>4, <3>5, Zenon
  <2>3. QED
    BY <1>1, <2>1, <2>2, Zenon
<1>7. QED
  BY <1>1, <1>5, <1>6, RunningKeeps, Zenon

\* A signal handler or another thread runs.
LEMMA InterruptKeeps ==
  ASSUME IInv, Interrupt
  PROVE  IInv'
<1>1. /\ Running /\ UNCHANGED <<analysisVars, phase>> /\ armed' = armed /\ leaked' = leaked
  BY DEF Interrupt
<1>2. PICK h \in armed :
        /\ program.body[h] # <<>>
        /\ stack' = Append(stack, Entered(h, TRUE)) /\ sets' = SetsOnArrival(h, 1)
  BY Zenon DEF Interrupt, Push
<1>3. /\ program \in Programs /\ armed \cup leaked \subseteq Escaped(program)
      /\ RunState(program, spine, leaf, certificate, stack, sets) /\ stack # <<>>
  BY <1>1, RunningFacts, Zenon
<1>4. h \in Escaped(program)
  BY <1>2, <1>3
<1>5. RunState(program, spine, leaf, certificate, Append(stack, Entered(h, TRUE)),
               CellSets(certificate, h, 1, sets))
  BY <1>2, <1>3, <1>4, CallbackState, Zenon
<1>6. SetsOnArrival(h, 1) = CellSets(certificate, h, 1, sets)
  BY DEF SetsOnArrival, CellSets
<1>7. RunState(program, spine, leaf, certificate, stack', sets')
  BY <1>2, <1>5, <1>6, Zenon
<1>8. armed' \cup leaked' \subseteq Escaped(program)
  BY <1>1, <1>3
<1>9. QED
  BY <1>1, <1>7, <1>8, RunningKeeps, Zenon

\* The frame on top goes on to a successor of its statement.
LEMMA AdvanceKeeps ==
  ASSUME IInv, Advance
  PROVE  IInv'
<1>1. /\ Running /\ Top.done /\ UNCHANGED <<analysisVars, phase>> /\ armed' = armed /\ leaked' = leaked
  BY DEF Advance
<1>2. PICK i \in Statement(Top).succ :
        /\ stack' = [stack EXCEPT ![Len(stack)].at = i, ![Len(stack)].done = FALSE]
        /\ sets' = SetsOnArrival(Top.func, i)
  BY Zenon DEF Advance
<1>3. /\ program \in Programs /\ armed \cup leaked \subseteq Escaped(program)
      /\ RunState(program, spine, leaf, certificate, stack, sets)
      /\ stack # <<>> /\ stack \in Seq(Frames) /\ StackOK(program, stack)
  BY <1>1, RunningFacts, Zenon
<1>4. Top = stack[Len(stack)] /\ Statement(Top) = StatementAt(program, stack[Len(stack)])
  BY DEF Top, Statement, StatementAt
<1>5. Top.func \in Functions /\ Top.at \in DOMAIN program.body[Top.func]
  BY <1>3, <1>4, TopPlace
<1>6. i \in Nat
  <2>1. i \in DOMAIN program.body[Top.func]
    BY <1>2, <1>3, <1>4, <1>5, ProgramFacts DEF StatementAt
  <2>2. DOMAIN program.body[Top.func] = 1 .. Len(program.body[Top.func]) /\ Len(program.body[Top.func]) \in Nat
    BY <1>3, <1>5, ProgramFacts
  <2>3. QED
    BY <2>1, <2>2
<1>7. PICK w \in Frames :
        /\ [stack EXCEPT ![Len(stack)].at = i, ![Len(stack)].done = FALSE] = Retop(stack, w)
        /\ ~ w.done /\ w.func = stack[Len(stack)].func /\ w.at = i
        /\ w.outside = stack[Len(stack)].outside
  BY <1>3, <1>6, AdvancedFacts, Zenon
<1>8. RunState(program, spine, leaf, certificate, Retop(stack, w), CellSets(certificate, w.func, w.at, sets))
  <2>1. stack[Len(stack)].done /\ w.at \in StatementAt(program, stack[Len(stack)]).succ
    BY <1>1, <1>2, <1>4, <1>7, Zenon
  <2>2. QED
    BY <1>3, <1>7, <2>1, AdvanceState, Zenon
<1>9. SetsOnArrival(Top.func, i) = CellSets(certificate, w.func, w.at, sets)
  BY <1>4, <1>7 DEF SetsOnArrival, CellSets
<1>10. RunState(program, spine, leaf, certificate, stack', sets')
  BY <1>2, <1>7, <1>8, <1>9, Zenon
<1>11. armed' \cup leaked' \subseteq Escaped(program)
  BY <1>1, <1>3
<1>12. QED
  BY <1>1, <1>10, <1>11, RunningKeeps, Zenon

\* The frame on top returns.
LEMMA ReturnKeeps ==
  ASSUME IInv, Return
  PROVE  IInv'
<1>1. /\ Running /\ Top.done /\ Statement(Top).succ = {} /\ stack' = SubSeq(stack, 1, Len(stack) - 1)
      /\ UNCHANGED <<analysisVars, phase>> /\ sets' = sets /\ armed' = armed /\ leaked' = leaked
  BY DEF Return
<1>2. /\ program \in Programs /\ armed \cup leaked \subseteq Escaped(program)
      /\ RunState(program, spine, leaf, certificate, stack, sets) /\ stack # <<>>
  BY <1>1, RunningFacts, Zenon
<1>3. Top = stack[Len(stack)] /\ Statement(Top) = StatementAt(program, stack[Len(stack)])
  BY DEF Top, Statement, StatementAt
<1>4. RunState(program, spine, leaf, certificate, SubSeq(stack, 1, Len(stack) - 1), sets)
  BY <1>1, <1>2, <1>3, ReturnState, Zenon
<1>5. RunState(program, spine, leaf, certificate, stack', sets')
  BY <1>1, <1>4, Zenon
<1>6. armed' \cup leaked' \subseteq Escaped(program)
  BY <1>1, <1>2
<1>7. QED
  BY <1>1, <1>5, <1>6, RunningKeeps, Zenon

\* Every step keeps the invariant.
LEMMA NextKeeps == IInv /\ [Next]_vars => IInv'
<1> SUFFICES ASSUME IInv, [Next]_vars PROVE IInv'
  OBVIOUS
<1>1. CASE UNCHANGED vars
  <2>1. /\ program' = program /\ phase' = phase /\ spine' = spine /\ leaf' = leaf /\ certificate' = certificate
        /\ stack' = stack /\ sets' = sets /\ armed' = armed /\ leaked' = leaked
    BY <1>1 DEF vars, analysisVars
  <2>2. QED
    BY <2>1 DEF IInv
<1>2. ASSUME NEW c, Descend(c) PROVE IInv'
  BY <1>2, DescendKeeps
<1>3. CASE Decide
  BY <1>3, DecideKeeps
<1>4. CASE Access
  BY <1>4, AccessKeeps
<1>5. CASE Call
  BY <1>5, CallKeeps
<1>6. CASE CallOutside
  BY <1>6, CallOutsideKeeps
<1>7. CASE Leak
  BY <1>7, LeakKeeps
<1>8. CASE Interrupt
  BY <1>8, InterruptKeeps
<1>9. CASE Advance
  BY <1>9, AdvanceKeeps
<1>10. CASE Return
  BY <1>10, ReturnKeeps
<1>11. QED
  BY <1>1, <1>2, <1>3, <1>4, <1>5, <1>6, <1>7, <1>8, <1>9, <1>10, Zenon DEF Next

\* The invariant says that the certificate is right.
LEMMA InvariantQuiet == IInv => QuiescentOncePublished
<1> SUFFICES ASSUME IInv PROVE QuiescentOncePublished
  OBVIOUS
<1>1. CASE phase # "run"
  <2>1. stack = <<>> /\ sets = 0
    BY <1>1, Zenon DEF IInv
  <2>2. PublishedOnce /\ ~ Published
    BY <2>1 DEF PublishedOnce, Published
  <2>3. QED
    BY <2>2 DEF QuiescentOncePublished
<1>2. CASE phase = "run"
  <2>1. program \in Programs /\ RunState(program, spine, leaf, certificate, stack, sets)
    BY <1>2, Zenon DEF IInv
  <2>2. /\ Main \notin Escaped(program) => sets \in {0, 1}
        /\ sets > 0 /\ stack # <<>> /\ ~ stack[Len(stack)].done =>
             StatementAt(program, stack[Len(stack)]).op \notin {"write", "pwrite"}
    BY <2>1, RunQuiet, Zenon
  <2>3. PublishedOnce
    BY <2>2 DEF PublishedOnce
  <2>4. Published => ~ Executing({"write", "pwrite"})
    BY <2>2, Zenon DEF Published, Executing, Running, Top, Statement, StatementAt
  <2>5. QED
    BY <2>3, <2>4 DEF QuiescentOncePublished
<1>3. QED
  BY <1>1, <1>2

\* In every execution of every program that the slot certifies, no statement
\* that writes the global is about to run once the cell is set, and the cell is
\* set once at most unless the module gives main's address away: what
\* select_publication, the kill rules and the writer check of the payload
\* promise together, across descents, calls, callbacks and signals.
THEOREM PublishedQuiescent == Spec => []QuiescentOncePublished
<1>1. Init => IInv
  BY InitHolds
<1>2. IInv /\ [Next]_vars => IInv'
  BY NextKeeps
<1>3. IInv => QuiescentOncePublished
  BY InvariantQuiet
<1>4. QED
  BY <1>1, <1>2, <1>3, PTL DEF Spec

(***************************************************************************)
(* What the payload says of an access                                      *)
(***************************************************************************)

Reads == {"read", "pread"}
Writes == {"write", "pwrite"}

\* Where an access stands with respect to the publication point.
PlaceIn(p, sp, P, a) == Placement(p, sp, Dominators(sp), PhaseReach(p, sp, Dominators(sp), P), P, a)
PreReach(p, sp, P) == PhaseReach(p, sp, Dominators(sp), P).pre

\* What the payload says of the point, and of the accesses: none is incomparable
\* with the point; the early readers, the late ones and what leads to an early
\* access are listed.
Places(p, sp, P, c) ==
  /\ c.chosen = P /\ c.at = <<sp.bounds[P].func, sp.bounds[P].at>>
  /\ c.sites = PhaseReach(p, sp, Dominators(sp), P).sites

Lists(p, sp, P, c) ==
  /\ \A a \in Boundaries(p, Reads) \cup Boundaries(p, Writes) :
       /\ ~ PlaceIn(p, sp, P, a).incomparable
       /\ PlaceIn(p, sp, P, a).before =>
            \A f \in PreReach(p, sp, P) :
              a[1] \in Reachable(p, {f}, Functions \ PreReach(p, sp, P)) => f \in c.init
  /\ \A a \in Boundaries(p, Reads) :
       /\ PlaceIn(p, sp, P, a).before => <<a[1], p.body[a[1]][a[2]].loc>> \in c.preReaders
       /\ PlaceIn(p, sp, P, a).after => a[1] \in c.post

\* A payload that is made says so.
LEMMA PayloadLists ==
  ASSUME NEW p, NEW sp, NEW P, BuildPayload(p, sp, P).ok
  PROVE  Places(p, sp, P, BuildPayload(p, sp, P)) /\ Lists(p, sp, P, BuildPayload(p, sp, P))
<1> DEFINE dom == Dominators(sp)
           reach == PhaseReach(p, sp, dom, P)
           place(a) == Placement(p, sp, dom, reach, P, a)
           relevant(ops) == {a \in Boundaries(p, ops) : place(a).before \/ place(a).after \/ place(a).incomparable}
           writes == relevant({"write", "pwrite"})
           reads == relevant({"read", "pread"})
           early == {a \in writes \cup reads : place(a).before}
           site(a) == <<a[1], p.body[a[1]][a[2]].loc>>
           nowhere == \E a \in writes \cup reads : p.body[a[1]][a[2]].loc = NoLoc
           late == \E a \in writes : ~place(a).before \/ place(a).after \/ place(a).incomparable
           unclear == \E a \in reads : place(a).incomparable
           made == [ok |-> TRUE, code |-> "", chosen |-> P,
                    at |-> <<sp.bounds[P].func, sp.bounds[P].at>>,
                    writers |-> {site(a) : a \in writes},
                    preReaders |-> {site(a) : a \in {r \in reads : place(r).before}},
                    post |-> {a[1] : a \in {r \in reads : place(r).after}},
                    init |-> InitSubtree(p, sp, reach, {a[1] : a \in early}),
                    sites |-> reach.sites]
           c == BuildPayload(p, sp, P)
<1>1. c = CASE nowhere -> Fails("no-entry-spine")
            [] late -> Fails("never-quiescent")
            [] unclear -> Fails("no-single-P")
            [] OTHER -> made
  BY Zenon DEF BuildPayload
<1>2. \A code : ~ Fails(code).ok
  BY DEF Fails
<1>3. c.ok
  OBVIOUS
<1>4. /\ made.chosen = P /\ made.at = <<sp.bounds[P].func, sp.bounds[P].at>> /\ made.sites = reach.sites
      /\ made.preReaders = {site(a) : a \in {r \in reads : place(r).before}}
      /\ made.post = {a[1] : a \in {r \in reads : place(r).after}}
      /\ made.init = InitSubtree(p, sp, reach, {a[1] : a \in early})
  <2> HIDE DEF reads, writes, early, reach, place
  <2>1. QED
    OBVIOUS
<1>5. ~ late /\ ~ unclear /\ c = made
  <2> HIDE DEF nowhere, late, unclear, made, c
  <2>1. QED
    BY <1>1, <1>2, <1>3
<1> HIDE DEF made, c
<1>6. /\ \A a : a \in writes <=> a \in Boundaries(p, Writes) /\ (place(a).before \/ place(a).after \/ place(a).incomparable)
      /\ \A a : a \in reads <=> a \in Boundaries(p, Reads) /\ (place(a).before \/ place(a).after \/ place(a).incomparable)
  <2> HIDE DEF place
  <2>1. QED
    BY DEF Reads, Writes
<1> HIDE DEF reads, writes
<1>7. ASSUME NEW a \in Boundaries(p, Reads) \cup Boundaries(p, Writes) PROVE ~ place(a).incomparable
  BY <1>5, <1>6, <1>7
<1>8. ASSUME NEW a \in Boundaries(p, Reads)
      PROVE  /\ place(a).before => <<a[1], p.body[a[1]][a[2]].loc>> \in c.preReaders
             /\ place(a).after => a[1] \in c.post
  <2> HIDE DEF place
  <2>1. QED
    BY <1>4, <1>5, <1>6
<1>9. ASSUME NEW a \in Boundaries(p, Reads) \cup Boundaries(p, Writes), place(a).before, NEW f \in reach.pre,
             a[1] \in Reachable(p, {f}, Functions \ reach.pre)
      PROVE  f \in c.init
  <2> HIDE DEF place, reach
  <2>1. a \in early
    BY <1>6, <1>9
  <2> HIDE DEF early
  <2>2. a[1] \in {b[1] : b \in early}
    BY <2>1
  <2>3. f \in InitSubtree(p, sp, reach, {b[1] : b \in early})
    BY <1>9, <2>2 DEF InitSubtree
  <2>4. QED
    BY <1>4, <1>5, <2>3
<1>10. c.chosen = P /\ c.at = <<sp.bounds[P].func, sp.bounds[P].at>> /\ c.sites = reach.sites
  BY <1>4, <1>5
<1>11. \A a : place(a) = PlaceIn(p, sp, P, a)
  BY DEF PlaceIn
<1>12. reach.pre = PreReach(p, sp, P)
  BY DEF PreReach
<1> HIDE DEF place
<1>13. /\ \A a \in Boundaries(p, Reads) \cup Boundaries(p, Writes) :
                  /\ ~ PlaceIn(p, sp, P, a).incomparable
                  /\ PlaceIn(p, sp, P, a).before =>
                       \A f \in PreReach(p, sp, P) :
                         a[1] \in Reachable(p, {f}, Functions \ PreReach(p, sp, P)) => f \in c.init
  <2> HIDE DEF reach
  <2>1. QED
    BY <1>7, <1>9, <1>11, <1>12, Zenon
<1>14. \A a \in Boundaries(p, Reads) :
                  /\ PlaceIn(p, sp, P, a).before => <<a[1], p.body[a[1]][a[2]].loc>> \in c.preReaders
                  /\ PlaceIn(p, sp, P, a).after => a[1] \in c.post
  BY <1>8, <1>11, Zenon
<1>15. QED
  <2>1. Places(p, sp, P, c)
    BY <1>10 DEF Places, reach, dom
  <2>2. Lists(p, sp, P, c)
    BY <1>13, <1>14, Zenon DEF Lists
  <2>3. QED
    BY <2>1, <2>2 DEF c

\* Boundaries of one function that share a location are on the same side of P.
OneSided(p, sp, P) ==
  \A i, k \in Nodes(sp) :
    ( /\ sp.bounds[i].func = sp.bounds[k].func
      /\ StatementAt(p, sp.bounds[i]).loc = StatementAt(p, sp.bounds[k]).loc
      /\ StatementAt(p, sp.bounds[i]).loc # NoLoc ) =>
      /\ Before(Dominators(sp), P, i) <=> Before(Dominators(sp), P, k)
      /\ Following(Dominators(sp), P, i) <=> Following(Dominators(sp), P, k)

\* An access of a spine function is placed where its boundary stands, if no
\* location is divided.
LEMMA SpineAccess ==
  ASSUME NEW p, NEW sp, SpinePlaces(p, sp), NEW P, OneSided(p, sp, P), NEW n \in Nodes(sp),
         NEW a, a = <<sp.bounds[n].func, sp.bounds[n].at>>
  PROVE  /\ PlaceIn(p, sp, P, a).before <=> Before(Dominators(sp), P, n)
         /\ PlaceIn(p, sp, P, a).after <=> Following(Dominators(sp), P, n)
         /\ PlaceIn(p, sp, P, a).incomparable <=> ~ Before(Dominators(sp), P, n) /\ ~ Following(Dominators(sp), P, n)
<1> DEFINE dom == Dominators(sp)
           loc(i) == p.body[sp.bounds[i].func][sp.bounds[i].at].loc
           here == p.body[a[1]][a[2]].loc
           match == {i \in Nodes(sp) : /\ sp.bounds[i].func = a[1]
                                       /\ sp.bounds[i].at = a[2] \/ (here # NoLoc /\ loc(i) = here)}
           first == CHOOSE i \in match : \A k \in match : i <= k
<1>1. a[1] = sp.bounds[n].func /\ a[2] = sp.bounds[n].at
  OBVIOUS
<1>2. AccessBoundary(p, sp, a) = first
  BY Zenon DEF AccessBoundary
<1>3. n \in match
  BY <1>1
<1>4. match \in SUBSET Nat /\ match # {}
  <2>1. Nodes(sp) \subseteq Nat
    BY DEF SpinePlaces, SpineEdges, Nodes
  <2>2. QED
    BY <1>3, <2>1
<1>5. first \in match
  <2> HIDE DEF match
  <2>1. \E i \in match : \A k \in match : i <= k
    BY <1>4, LeastNatural
  <2>2. QED
    BY <2>1, Zenon
<1> HIDE DEF first
<1>6. first \in Nodes(sp) /\ sp.bounds[first].func = sp.bounds[n].func
      /\ (sp.bounds[first].at = sp.bounds[n].at \/ (here # NoLoc /\ loc(first) = here))
  BY <1>1, <1>5
<1>7. StatementAt(p, sp.bounds[first]).loc = loc(first) /\ StatementAt(p, sp.bounds[n]).loc = here
  BY <1>1 DEF StatementAt
<1>8. loc(first) = here
  BY <1>1, <1>6
<1>9. (Before(dom, P, first) <=> Before(dom, P, n)) /\ (Following(dom, P, first) <=> Following(dom, P, n))
  <2>1. CASE here # NoLoc
    BY <1>6, <1>7, <1>8, <2>1, Zenon DEF OneSided
  <2>2. CASE here = NoLoc
    <3>1. sp.bounds[first].at = sp.bounds[n].at
      BY <1>6, <2>2
    <3>2. \A i, j \in Nodes(sp) :
            sp.bounds[i].func = sp.bounds[j].func /\ sp.bounds[i].at = sp.bounds[j].at => i = j
      BY Zenon DEF SpinePlaces
    <3>3. first = n
      BY <1>6, <3>1, <3>2
    <3>4. QED
      BY <3>3
  <2>3. QED
    BY <2>1, <2>2
<1>10. a[1] \in SpineFunctions(sp)
  BY <1>1 DEF SpineFunctions
<1> HIDE DEF dom
<1> DEFINE r == [before |-> Before(dom, P, first), after |-> Following(dom, P, first),
                 incomparable |-> ~Before(dom, P, first) /\ ~Following(dom, P, first)]
<1>11. PlaceIn(p, sp, P, a) = r
  BY <1>2, <1>10, Zenon DEF PlaceIn, Placement, dom
<1>12. /\ r.before <=> Before(dom, P, first)
       /\ r.after <=> Following(dom, P, first)
       /\ r.incomparable <=> ~Before(dom, P, first) /\ ~Following(dom, P, first)
  OBVIOUS
<1> HIDE DEF r
<1>13. QED
  BY <1>9, <1>11, <1>12 DEF dom

\* An access of another function is placed where the spine calls it from.
LEMMA OffSpineAccess ==
  ASSUME NEW p, NEW sp, NEW P, NEW a, a[1] \notin SpineFunctions(sp)
  PROVE  LET reach == PhaseReach(p, sp, Dominators(sp), P)
         IN  /\ PlaceIn(p, sp, P, a).before <=> a[1] \in reach.pre
             /\ PlaceIn(p, sp, P, a).after <=> a[1] \in reach.post \/ a[1] \in Escaped(p)
             /\ PlaceIn(p, sp, P, a).incomparable <=> a[1] \in reach.incomparable
<1> DEFINE reach == PhaseReach(p, sp, Dominators(sp), P)
           r == [before |-> a[1] \in reach.pre,
                 after |-> a[1] \in reach.post \/ a[1] \in Escaped(p),
                 incomparable |-> a[1] \in reach.incomparable]
<1>1. PlaceIn(p, sp, P, a) = r
  BY Zenon DEF PlaceIn, Placement
<1> HIDE DEF reach
<1>2. /\ r.before <=> a[1] \in reach.pre
      /\ r.after <=> a[1] \in reach.post \/ a[1] \in Escaped(p)
      /\ r.incomparable <=> a[1] \in reach.incomparable
  OBVIOUS
<1> HIDE DEF r
<1>3. QED
  BY <1>1, <1>2 DEF reach

\* The functions entered from the boundaries on n's side of P.
SideReach(p, sp, P, n) ==
  LET reach == PhaseReach(p, sp, Dominators(sp), P)
  IN  IF Before(Dominators(sp), P, n) THEN reach.pre
      ELSE IF Following(Dominators(sp), P, n) THEN reach.post ELSE reach.incomparable

\* What a boundary calls off the spine is on its side, and so is all that is
\* called from there; before P the entry is listed.
LEMMA SideCloses ==
  ASSUME NEW p \in Programs, NEW sp, SpinePlaces(p, sp), NEW P, NEW n \in Nodes(sp),
         StatementAt(p, sp.bounds[n]).op = "call",
         NEW h \in StatementAt(p, sp.bounds[n]).to, h \notin SpineFunctions(sp)
  PROVE  /\ h \in SideReach(p, sp, P, n) /\ SideReach(p, sp, P, n) \subseteq Functions
         /\ \A x \in SideReach(p, sp, P, n) : Calls(p, x) \ SpineFunctions(sp) \subseteq SideReach(p, sp, P, n)
         /\ Before(Dominators(sp), P, n) =>
              <<h, sp.bounds[n].func, sp.bounds[n].at>> \in PhaseReach(p, sp, Dominators(sp), P).sites
<1> DEFINE dom == Dominators(sp)
           X == SpineFunctions(sp)
           pre == {i \in Nodes(sp) : Before(dom, P, i)}
           post == {i \in Nodes(sp) : Following(dom, P, i)} \ pre
           other == Nodes(sp) \ (pre \cup post)
           roots(bs) == UNION {SpineRoots(p, sp, i) : i \in bs}
           from(bs) == Reachable(p, roots(bs), X)
           sites == UNION {{<<g, sp.bounds[i].func, sp.bounds[i].at>> : g \in SpineRoots(p, sp, i)} : i \in pre}
           r == [pre |-> from(pre), post |-> from(post), incomparable |-> from(other), sites |-> sites]
           mine == IF n \in pre THEN pre ELSE IF n \in post THEN post ELSE other
<1>1. PhaseReach(p, sp, dom, P) = r
  BY Zenon DEF PhaseReach
<1>2. \A i \in Nodes(sp) : SpineRoots(p, sp, i) \subseteq Functions
  <2> SUFFICES ASSUME NEW i \in Nodes(sp) PROVE SpineRoots(p, sp, i) \subseteq Functions
    OBVIOUS
  <2>1. sp.bounds[i].func \in Functions /\ sp.bounds[i].at \in DOMAIN p.body[sp.bounds[i].func]
    BY Zenon DEF SpinePlaces
  <2>2. p.body[sp.bounds[i].func][sp.bounds[i].at].to \subseteq Functions
    BY <2>1, ProgramFacts
  <2>3. QED
    BY <2>2 DEF SpineRoots
<1>3. h \in SpineRoots(p, sp, n)
  BY DEF SpineRoots, StatementAt
<1> HIDE DEF dom, X
<1>4. n \in mine /\ mine \subseteq Nodes(sp)
  OBVIOUS
<1>5. SideReach(p, sp, P, n) = from(mine)
  <2>1. r.pre = from(pre) /\ r.post = from(post) /\ r.incomparable = from(other)
    <3> HIDE DEF pre, post, other, from, sites
    <3>1. QED
      OBVIOUS
  <2>2. (n \in pre <=> Before(dom, P, n)) /\ (n \notin pre => (n \in post <=> Following(dom, P, n)))
    OBVIOUS
  <2> HIDE DEF pre, post, other, from, sites, r
  <2>3. SideReach(p, sp, P, n) = IF Before(dom, P, n) THEN r.pre ELSE IF Following(dom, P, n) THEN r.post ELSE r.incomparable
    BY <1>1, Zenon DEF SideReach, dom
  <2>4. QED
    BY <2>1, <2>2, <2>3
<1>6. Before(dom, P, n) => <<h, sp.bounds[n].func, sp.bounds[n].at>> \in sites
  BY <1>3
<1>7. r.sites = sites
  <2> HIDE DEF pre, post, other, from, sites
  <2>1. QED
    OBVIOUS
<1> HIDE DEF r, sites, mine
<1>8. h \in roots(mine) /\ roots(mine) \in SUBSET Functions
  BY <1>2, <1>3, <1>4
<1> HIDE DEF roots
<1>9. /\ roots(mine) \ X \subseteq from(mine) /\ from(mine) \subseteq Functions
      /\ \A x \in from(mine) : Calls(p, x) \ X \subseteq from(mine)
  BY <1>8, ReachableFrom
<1>10. h \notin X
  BY DEF X
<1> HIDE DEF from
<1>11. h \in from(mine)
  BY <1>8, <1>9, <1>10
<1>12. QED
  BY <1>1, <1>5, <1>6, <1>7, <1>9, <1>11 DEF dom, X

(***************************************************************************)
(* Where readers are handed out                                            *)
(***************************************************************************)

\* A statement that hands out a function that reads the global.
HandsReader(p, s) == s.op \in {"unknown", "register"} /\ \E h \in s.to : TransRef(p, h)

\* An observation at boundary n that cannot be sent through the init local.
Observed(sp, n) == \E o \in sp.obs : o.boundary = n /\ ~ o.routable

\* The spine observes every boundary of its own that hands out a reader.
HandoutsObserved(p, sp) == \A n \in Nodes(sp) : HandsReader(p, StatementAt(p, sp.bounds[n])) => Observed(sp, n)

\* The boundaries of one function that hand out readers are pseudo reads.
LEMMA LocalHandouts ==
  ASSUME NEW p \in Programs, Main \notin Escaped(p), NEW f \in Functions, NEW i \in DOMAIN p.body[f],
         HandsReader(p, p.body[f][i])
  PROVE  [boundary |-> i, routable |-> FALSE] \in LocalSpine(p, f).obs
<1>1. p.body[f][i].op \in {"unknown", "register"}
  BY DEF HandsReader
<1>2. PICK h \in p.body[f][i].to : TransRef(p, h)
  BY Zenon DEF HandsReader
<1>3. h \in Escaped(p)
  BY <1>1, EscapedNames
<1>4. i \in EscapeBoundaries(p, f, h)
  <2> DEFINE named == {k \in DOMAIN p.body[f] : p.body[f][k].op \in {"unknown", "register"} /\ h \in p.body[f][k].to}
  <2>1. i \in named
    BY <1>1, <1>2
  <2>2. h # Main
    BY <1>3
  <2>3. EscapeBoundaries(p, f, h) = IF h = f /\ f = Main THEN {} ELSE IF named = {} /\ h = f THEN {1} ELSE named
    BY DEF EscapeBoundaries
  <2> HIDE DEF named
  <2>4. QED
    BY <2>1, <2>2, <2>3
<1>5. i \in PseudoReads(p, f)
  BY <1>2, <1>3, <1>4 DEF PseudoReads
<1>6. [boundary |-> i, routable |-> FALSE] \in Observations(p, f)
  BY <1>5 DEF Observations
<1>7. QED
  BY <1>6 DEF LocalSpine

\* Main's own spine observes them.
LEMMA LocalObserves ==
  ASSUME NEW p \in Programs, Main \notin Escaped(p)
  PROVE  HandoutsObserved(p, LocalSpine(p, Main))
<1> DEFINE sp == LocalSpine(p, Main)
<1>1. Main \in Functions
  BY BoundsAssumption
<1>2. Nodes(sp) = DOMAIN p.body[Main]
  BY <1>1, LocalFacts DEF Nodes
<1>3. ASSUME NEW n \in Nodes(sp), HandsReader(p, StatementAt(p, sp.bounds[n])) PROVE Observed(sp, n)
  <2>1. n \in DOMAIN p.body[Main] /\ sp.bounds[n].func = Main /\ sp.bounds[n].at = n
    BY <1>1, <1>2, <1>3, LocalFacts
  <2>2. HandsReader(p, p.body[Main][n])
    BY <1>3, <2>1 DEF StatementAt
  <2> DEFINE o == [boundary |-> n, routable |-> FALSE]
  <2>3. o \in sp.obs
    BY <1>1, <2>1, <2>2, LocalHandouts
  <2>4. o.boundary = n /\ ~ o.routable
    OBVIOUS
  <2> HIDE DEF o, sp
  <2>5. QED
    BY <2>3, <2>4 DEF Observed
<1>4. QED
  BY <1>3, Zenon DEF HandoutsObserved, sp

\* A descent keeps what the spine observes and adds what the child hands out.
LEMMA SpliceObserves ==
  ASSUME NEW p \in Programs, Main \notin Escaped(p), NEW sp, SpinePlaces(p, sp), HandoutsObserved(p, sp),
         NEW c \in Nodes(sp), NEW h \in Functions
  PROVE  HandoutsObserved(p, Splice(p, sp, c, h))
<1> DEFINE ns == Splice(p, sp, c, h)
           N == Len(sp.bounds)
           M == Len(p.body[h])
           inner == LocalSpine(p, h)
           Moved(o) == [o EXCEPT !.boundary = N + @]
<1>1. ns.obs = {o \in sp.obs : o.boundary # c \/ ~o.routable} \cup {Moved(o) : o \in inner.obs}
  BY DEF Splice
<1>2. /\ N \in Nat /\ M \in Nat /\ Nodes(sp) = 1 .. N /\ DOMAIN p.body[h] = 1 .. M /\ Nodes(ns) = 1 .. (N + M)
      /\ \A i \in Nodes(sp) : ns.bounds[i].func = sp.bounds[i].func /\ ns.bounds[i].at = sp.bounds[i].at
      /\ \A a \in DOMAIN p.body[h] : ns.bounds[N + a].func = h /\ ns.bounds[N + a].at = a
  <2>1. /\ N \in Nat /\ M \in Nat /\ Nodes(sp) = 1 .. N /\ DOMAIN p.body[h] = 1 .. M
        /\ Len(ns.bounds) = N + M /\ Nodes(ns) = 1 .. (N + M)
        /\ IsSequence(ns.bounds)
        /\ \A i \in Nodes(ns) : IsBoundary(ns.bounds[i])
        /\ \A i \in Nodes(sp) : ns.bounds[i].func = sp.bounds[i].func /\ ns.bounds[i].at = sp.bounds[i].at
        /\ \A i \in Nodes(sp) \ {c} : ns.bounds[i] = sp.bounds[i]
        /\ ns.bounds[c].succ = {N + 1} /\ ~ ns.bounds[c].insertable
        /\ \A a \in DOMAIN p.body[h] :
             /\ ns.bounds[N + a].func = h /\ ns.bounds[N + a].at = a
             /\ ns.bounds[N + a].succ =
                  IF p.body[h][a].succ = {} THEN sp.bounds[c].succ ELSE {N + k : k \in p.body[h][a].succ}
             /\ Generates(p, p.body[h][a]) => N + a \in ns.gen
        /\ \A i \in sp.gen : i = c \/ i \in ns.gen
        /\ ns.mapped => sp.mapped
    BY SpliceFacts, Zenon
  <2> HIDE DEF ns, N, M
  <2>2. \A a \in DOMAIN p.body[h] : ns.bounds[N + a].func = h /\ ns.bounds[N + a].at = a
    BY <2>1, Zenon
  <2>3. QED
    BY <2>1, <2>2, Zenon
<1> HIDE DEF ns, N, M
<1>3. ASSUME NEW n \in Nodes(ns), HandsReader(p, StatementAt(p, ns.bounds[n])) PROVE Observed(ns, n)
  <2>1. CASE n \in Nodes(sp)
    <3>1. StatementAt(p, ns.bounds[n]) = StatementAt(p, sp.bounds[n])
      BY <1>2, <2>1 DEF StatementAt
    <3>2. Observed(sp, n)
      BY <1>3, <2>1, <3>1 DEF HandoutsObserved
    <3> HIDE DEF inner, Moved
    <3>3. PICK o \in sp.obs : o.boundary = n /\ ~ o.routable
      BY <3>2 DEF Observed
    <3>4. o \in ns.obs
      BY <1>1, <3>3
    <3>5. QED
      BY <3>3, <3>4 DEF Observed
  <2>2. CASE n \notin Nodes(sp)
    <3>1. n - N \in DOMAIN p.body[h] /\ n = N + (n - N)
      BY <1>2, <2>2
    <3> DEFINE a == n - N
               o == [boundary |-> a, routable |-> FALSE]
    <3>2. HandsReader(p, p.body[h][a])
      BY <1>2, <1>3, <3>1 DEF StatementAt
    <3>3. o \in inner.obs
      BY <3>1, <3>2, LocalHandouts
    <3>4. Moved(o).boundary = N + a /\ ~ Moved(o).routable
      OBVIOUS
    <3> HIDE DEF inner, o, a
    <3>5. Moved(o) \in ns.obs
      BY <1>1, <3>3
    <3> DEFINE w == Moved(o)
    <3>6. w \in ns.obs /\ w.boundary = n /\ ~ w.routable
      BY <3>1, <3>4, <3>5 DEF a
    <3> HIDE DEF w
    <3>7. QED
      BY <3>6, Zenon DEF Observed
  <2>3. QED
    BY <2>1, <2>2
<1>4. QED
  BY <1>3, Zenon DEF HandoutsObserved, ns

(***************************************************************************)
(* Before the cell is set                                                  *)
(***************************************************************************)

\* Boundaries that can be got to without passing P.
Early(sp, P) == {i \in Reached(sp) : <<P, i>> \notin Dominators(sp)}

\* The frame has not got to P, nor does it go on past it.
Ahead(p, sp, next, P, frame) ==
  \E n \in Nodes(sp) :
    /\ sp.bounds[n].func = frame.func /\ sp.bounds[n].at = frame.at
    /\ IF Gate(p, sp, n) /\ frame.done THEN next[n] \subseteq Early(sp, P) \cup {P} ELSE n \in Early(sp, P)

\* The last frame of the spine is still ahead of P.
Unpassed(p, sp, next, P, st) ==
  \A j \in DOMAIN st :
    st[j].func \in SpineFunctions(sp) /\ (\A i \in DOMAIN st : i > j => st[i].func \notin SpineFunctions(sp)) =>
      Ahead(p, sp, next, P, st[j])

\* The running program, ahead of P until the cell is set.
OnTrack(p, sp, last, P, st, k) ==
  \E next, m : RunsOn(p, sp, last, next, P, st, k, m) /\ (k = 0 => Unpassed(p, sp, next, P, st))

\* From a boundary ahead of P an edge leads to another or to P, and the entry
\* is ahead of P or P itself.
LEMMA EarlyCloses ==
  ASSUME NEW sp, SpineEdges(sp), NEW P, 1 \in Nodes(sp)
  PROVE  /\ Early(sp, P) \subseteq Nodes(sp) /\ 1 \in Early(sp, P) \cup {P}
         /\ \A n \in Early(sp, P) : sp.bounds[n].succ \subseteq Early(sp, P) \cup {P}
<1>1. 1 \in Reached(sp) /\ Reached(sp) \subseteq Nodes(sp) /\ \A k \in Reached(sp) : sp.bounds[k].succ \subseteq Reached(sp)
  BY AfterCloses DEF Reached
<1>2. \A d, i : <<d, i>> \in Dominators(sp) /\ d # i =>
         i # 1 /\ \A k \in Reached(sp) : i \in sp.bounds[k].succ => <<d, k>> \in Dominators(sp)
  BY DominatorsClose
<1>3. 1 \in Early(sp, P) \cup {P}
  BY <1>1, <1>2 DEF Early
<1>4. ASSUME NEW n \in Early(sp, P), NEW j \in sp.bounds[n].succ PROVE j \in Early(sp, P) \cup {P}
  <2>1. n \in Reached(sp) /\ <<P, n>> \notin Dominators(sp)
    BY DEF Early
  <2>2. j \in Reached(sp)
    BY <1>1, <2>1
  <2>3. j = P \/ <<P, j>> \notin Dominators(sp)
    BY <1>2, <2>1
  <2>4. QED
    BY <2>2, <2>3 DEF Early
<1>5. QED
  BY <1>1, <1>3, <1>4 DEF Early

\* Ahead of P the program goes on ahead of P or to P.
LEMMA EarlyOnward ==
  ASSUME NEW p, NEW sp, NEW last, NEW next, IsSpine(p, sp, last, next), NEW P, 1 \in Nodes(sp),
         NEW n \in Early(sp, P), ~ Gate(p, sp, n)
  PROVE  next[n] \subseteq Early(sp, P) \cup {P}
<1>1. SpineEdges(sp)
  BY Zenon DEF IsSpine, SpinePlaces
<1>2. n \in Nodes(sp) /\ sp.bounds[n].succ \subseteq Early(sp, P) \cup {P}
  BY <1>1, EarlyCloses
<1>3. next[n] \subseteq sp.bounds[n].succ
  BY <1>2, Zenon DEF IsSpine, SpineFlow
<1>4. QED
  BY <1>2, <1>3

\* A frame that arrives without setting the cell is still ahead of P.
LEMMA ArrivalAhead ==
  ASSUME NEW p, NEW sp, NEW next, NEW P, NEW w, ~ w.done, NEW k \in {0, 1},
         NEW n \in Nodes(sp), sp.bounds[n].func = w.func, sp.bounds[n].at = w.at,
         k = 0 => n \in Early(sp, P) \cup {P}, ArrivesAt(sp, P, w.func, w.at, k) = 0
  PROVE  Ahead(p, sp, next, P, w)
<1>1. k = 0 /\ n # P
  BY DEF ArrivesAt
<1>2. n \in Early(sp, P)
  BY <1>1
<1>3. QED
  BY <1>2 DEF Ahead

\* The place of a frame ahead of P, unless it waits at a gate.
LEMMA PlaceAhead ==
  ASSUME NEW p, NEW sp, NEW last, NEW next, IsSpine(p, sp, last, next), NEW P, NEW w,
         NEW n \in Nodes(sp), sp.bounds[n].func = w.func, sp.bounds[n].at = w.at, Ahead(p, sp, next, P, w)
  PROVE  IF Gate(p, sp, n) /\ w.done THEN next[n] \subseteq Early(sp, P) \cup {P} ELSE n \in Early(sp, P)
<1>1. PICK i \in Nodes(sp) :
        /\ sp.bounds[i].func = w.func /\ sp.bounds[i].at = w.at
        /\ IF Gate(p, sp, i) /\ w.done THEN next[i] \subseteq Early(sp, P) \cup {P} ELSE i \in Early(sp, P)
  BY Zenon DEF Ahead
<1>2. \A i1, j1 \in Nodes(sp) :
         sp.bounds[i1].func = sp.bounds[j1].func /\ sp.bounds[i1].at = sp.bounds[j1].at => i1 = j1
  BY Zenon DEF IsSpine, SpinePlaces
<1>3. i = n
  BY <1>1, <1>2
<1>4. QED
  BY <1>1, <1>3

\* A frame that stays in its function.
LEMMA RetopUnpassed ==
  ASSUME NEW p, NEW sp, NEW next, NEW P, NEW st, StackOK(p, st), st # <<>>, Unpassed(p, sp, next, P, st),
         NEW w \in Frames, w.func = st[Len(st)].func, w.func \in SpineFunctions(sp) => Ahead(p, sp, next, P, w)
  PROVE  Unpassed(p, sp, next, P, Retop(st, w))
<1> DEFINE r == Retop(st, w)
           L == Len(st)
<1>1. /\ L \in Nat \ {0} /\ DOMAIN st = 1 .. L /\ DOMAIN r = 1 .. L
      /\ \A j \in 1 .. L : r[j] = IF j = L THEN w ELSE st[j]
  BY RetopFacts DEF StackOK
<1> HIDE DEF r
<1>2. \A j \in 1 .. L : r[j].func = st[j].func
  BY <1>1
<1>3. ASSUME NEW j \in DOMAIN r, r[j].func \in SpineFunctions(sp),
             \A i \in DOMAIN r : i > j => r[i].func \notin SpineFunctions(sp)
      PROVE  Ahead(p, sp, next, P, r[j])
  <2>1. CASE j = L
    BY <1>1, <1>3, <2>1
  <2>2. CASE j # L
    <3>1. Ahead(p, sp, next, P, st[j])
      BY <1>1, <1>2, <1>3 DEF Unpassed
    <3>2. r[j] = st[j]
      BY <1>1, <2>2
    <3>3. QED
      BY <3>1, <3>2
  <2>3. QED
    BY <2>1, <2>2
<1>4. QED
  BY <1>3 DEF Unpassed, r

\* A function is entered: off the spine, or on it ahead of P.
LEMMA AppendUnpassed ==
  ASSUME NEW p, NEW sp, NEW next, NEW P, NEW st, StackOK(p, st), NEW w \in Frames,
         w.func \notin SpineFunctions(sp) => Unpassed(p, sp, next, P, st),
         w.func \in SpineFunctions(sp) => Ahead(p, sp, next, P, w)
  PROVE  Unpassed(p, sp, next, P, Append(st, w))
<1> DEFINE r == Append(st, w)
           L == Len(st)
<1>1. /\ L \in Nat /\ DOMAIN st = 1 .. L /\ DOMAIN r = 1 .. (L + 1)
      /\ \A j \in 1 .. L : r[j] = st[j]
      /\ r[L + 1] = w
  BY AppendFacts DEF StackOK
<1> HIDE DEF r, L
<1>2. ASSUME NEW j \in DOMAIN r, r[j].func \in SpineFunctions(sp),
             \A i \in DOMAIN r : i > j => r[i].func \notin SpineFunctions(sp)
      PROVE  Ahead(p, sp, next, P, r[j])
  <2>1. CASE j = L + 1
    BY <1>1, <1>2, <2>1
  <2>2. CASE j # L + 1
    <3>1. j \in 1 .. L /\ L + 1 \in DOMAIN r /\ L + 1 > j
      BY <1>1, <2>2
    <3>2. w.func \notin SpineFunctions(sp)
      BY <1>1, <1>2, <3>1
    <3>3. Unpassed(p, sp, next, P, st)
      BY <3>2
    <3>4. \A i \in DOMAIN st : i \in DOMAIN r /\ r[i] = st[i]
      BY <1>1
    <3>5. Ahead(p, sp, next, P, st[j])
      BY <1>1, <1>2, <3>1, <3>3, <3>4 DEF Unpassed
    <3>6. QED
      BY <1>1, <3>1, <3>5
  <2>3. QED
    BY <2>1, <2>2
<1>3. QED
  BY <1>2 DEF Unpassed, r

\* The frame on top is left.
LEMMA PopUnpassed ==
  ASSUME NEW p, NEW sp, NEW next, NEW P, NEW st, StackOK(p, st), st # <<>>, Unpassed(p, sp, next, P, st),
         st[Len(st)].func \in SpineFunctions(sp) =>
           /\ \A j \in DOMAIN st : st[j].func \in SpineFunctions(sp)
           /\ Len(st) > 1 => Ahead(p, sp, next, P, st[Len(st) - 1])
  PROVE  Unpassed(p, sp, next, P, SubSeq(st, 1, Len(st) - 1))
<1> DEFINE r == SubSeq(st, 1, Len(st) - 1)
           L == Len(st)
<1>1. /\ L \in Nat \ {0} /\ DOMAIN st = 1 .. L /\ DOMAIN r = 1 .. (L - 1)
      /\ \A j \in 1 .. (L - 1) : r[j] = st[j]
  BY PopFacts DEF StackOK
<1> HIDE DEF r
<1>2. ASSUME NEW j \in DOMAIN r, r[j].func \in SpineFunctions(sp),
             \A i \in DOMAIN r : i > j => r[i].func \notin SpineFunctions(sp)
      PROVE  Ahead(p, sp, next, P, r[j])
  <2>0. j \in DOMAIN st /\ r[j] = st[j] /\ j < L
    BY <1>1
  <2>1. CASE st[L].func \in SpineFunctions(sp)
    <3>1. \A i \in DOMAIN r : r[i].func \in SpineFunctions(sp)
      BY <1>1, <2>1
    <3>2. j = L - 1
      BY <1>1, <1>2, <3>1
    <3>3. QED
      BY <1>1, <2>0, <2>1, <3>2
  <2>2. CASE st[L].func \notin SpineFunctions(sp)
    <3>1. \A i \in DOMAIN st : i > j => st[i].func \notin SpineFunctions(sp)
      <4> SUFFICES ASSUME NEW i \in DOMAIN st, i > j PROVE st[i].func \notin SpineFunctions(sp)
        OBVIOUS
      <4>1. CASE i = L
        BY <2>2, <4>1
      <4>2. CASE i # L
        BY <1>1, <1>2, <4>2
      <4>3. QED
        BY <4>1, <4>2
    <3>2. QED
      BY <1>2, <2>0, <3>1 DEF Unpassed
  <2>3. QED
    BY <2>1, <2>2
<1>3. QED
  BY <1>2 DEF Unpassed, r

\* A frame of the spine on top is the last of them.
LEMMA TopAhead ==
  ASSUME NEW p, NEW sp, NEW next, NEW P, NEW st, StackOK(p, st), st # <<>>, Unpassed(p, sp, next, P, st),
         st[Len(st)].func \in SpineFunctions(sp)
  PROVE  Ahead(p, sp, next, P, st[Len(st)])
<1> DEFINE L == Len(st)
<1>1. L \in Nat \ {0} /\ DOMAIN st = 1 .. L
  BY TopPlace
<1>2. L \in DOMAIN st /\ \A i \in DOMAIN st : ~ i > L
  BY <1>1
<1> HIDE DEF L
<1>3. st[L].func \in SpineFunctions(sp)
  BY DEF L
<1>4. Ahead(p, sp, next, P, st[L])
  BY <1>2, <1>3, Zenon DEF Unpassed
<1>5. QED
  BY <1>4 DEF L

\* What a step has to keep.
LEMMA TrackKeeps ==
  ASSUME NEW p, NEW sp, NEW last, NEW next, NEW P, NEW st, NEW k, NEW m, RunsOn(p, sp, last, next, P, st, k, m),
         NEW r, NEW l, StackOK(p, r), NEW n, RunsTo(p, sp, next, P, r, l, n), l = 0 => Unpassed(p, sp, next, P, r)
  PROVE  OnTrack(p, sp, last, P, r, l)
<1>1. RunsOn(p, sp, last, next, P, r, l, n)
  BY Zenon DEF RunsOn
<1>2. QED
  BY <1>1, Zenon DEF OnTrack

\* The cell is not set on an arrival unless it is set already or now.
LEMMA ArrivalCounts ==
  ASSUME NEW sp, NEW P, NEW f, NEW i, NEW k \in {0, 1}
  PROVE  ArrivesAt(sp, P, f, i, k) = 0 => k = 0
BY DEF ArrivesAt

\* The statement on top finishes, having called nothing.
LEMMA FinishAhead ==
  ASSUME NEW p \in Programs, NEW sp, NEW last, NEW next, NEW P, NEW st, NEW k, NEW m,
         RunsOn(p, sp, last, next, P, st, k, m), st # <<>>, Unpassed(p, sp, next, P, st),
         NEW w \in Frames, w.func = st[Len(st)].func, w.at = st[Len(st)].at, ~ st[Len(st)].done,
         StatementAt(p, w).op # "call" \/ \E h \in StatementAt(p, w).to : h \notin SpineFunctions(sp)
  PROVE  Unpassed(p, sp, next, P, Retop(st, w))
<1> DEFINE top == st[Len(st)]
<1>1. IsSpine(p, sp, last, next) /\ StackOK(p, st)
  BY Zenon DEF RunsOn
<1>2. top.func \in Functions /\ top.at \in DOMAIN p.body[top.func]
  BY <1>1, TopPlace
<1>3. ASSUME w.func \in SpineFunctions(sp) PROVE Ahead(p, sp, next, P, w)
  <2>1. PICK n \in Nodes(sp) : sp.bounds[n].func = top.func /\ sp.bounds[n].at = top.at
    BY <1>1, <1>2, <1>3, PlaceOf
  <2>2. StatementAt(p, sp.bounds[n]) = StatementAt(p, w)
    BY <2>1 DEF StatementAt
  <2>3. ~ Gate(p, sp, n)
    BY <1>1, <2>2, NoGate
  <2>4. Ahead(p, sp, next, P, top)
    BY <1>1, <1>3, TopAhead
  <2>5. IF Gate(p, sp, n) /\ top.done THEN next[n] \subseteq Early(sp, P) \cup {P} ELSE n \in Early(sp, P)
    BY <1>1, <2>1, <2>4, PlaceAhead, Zenon
  <2>6. n \in Early(sp, P)
    BY <2>3, <2>5
  <2>7. QED
    BY <2>1, <2>3, <2>6 DEF Ahead
<1>4. QED
  BY <1>1, <1>3, RetopUnpassed

\* A step inside a statement.
LEMMA FinishTrack ==
  ASSUME NEW p \in Programs, NEW sp, NEW last, NEW P, NEW st, NEW k, OnTrack(p, sp, last, P, st, k), st # <<>>,
         NEW w \in Frames, w.func = st[Len(st)].func, w.at = st[Len(st)].at, ~ st[Len(st)].done,
         StatementAt(p, w).op # "call" \/ \E h \in StatementAt(p, w).to : h \notin SpineFunctions(sp),
         StackOK(p, Retop(st, w))
  PROVE  OnTrack(p, sp, last, P, Retop(st, w), k)
<1>1. PICK next, m : RunsOn(p, sp, last, next, P, st, k, m) /\ (k = 0 => Unpassed(p, sp, next, P, st))
  BY Zenon DEF OnTrack
<1>2. RunsTo(p, sp, next, P, Retop(st, w), k, m)
  BY <1>1, FinishRuns
<1>3. k = 0 => Unpassed(p, sp, next, P, Retop(st, w))
  BY <1>1, FinishAhead
<1>4. QED
  BY <1>1, <1>2, <1>3, TrackKeeps

\* A callback is entered.
LEMMA CallbackTrack ==
  ASSUME NEW p \in Programs, NEW sp, NEW last, NEW P, NEW st, NEW k, OnTrack(p, sp, last, P, st, k),
         NEW h \in Escaped(p), h \in Functions, p.body[h] # <<>>, StackOK(p, Append(st, Entered(h, TRUE)))
  PROVE  OnTrack(p, sp, last, P, Append(st, Entered(h, TRUE)), ArrivesAt(sp, P, h, 1, k))
<1> DEFINE w == Entered(h, TRUE)
           l == ArrivesAt(sp, P, h, 1, k)
<1>1. PICK next, m : RunsOn(p, sp, last, next, P, st, k, m) /\ (k = 0 => Unpassed(p, sp, next, P, st))
  BY Zenon DEF OnTrack
<1>2. IsSpine(p, sp, last, next) /\ Main \notin Escaped(p) /\ StackOK(p, st) /\ k \in {0, 1}
  BY <1>1, Zenon DEF RunsOn, RunsTo
<1>3. w \in Frames /\ w.func = h
  BY EnteredFacts
<1>4. h \notin SpineFunctions(sp)
  BY <1>2, CallerIsGate
<1>5. l = 0 => k = 0
  BY <1>2, ArrivalCounts
<1> HIDE DEF w, l
<1>6. ASSUME l = 0 PROVE Unpassed(p, sp, next, P, Append(st, w))
  <2>1. Unpassed(p, sp, next, P, st)
    BY <1>1, <1>5, <1>6
  <2>2. QED
    BY <1>2, <1>3, <1>4, <2>1, AppendUnpassed
<1>7. RunsTo(p, sp, next, P, Append(st, w), l, m)
  BY <1>1, CallbackRuns DEF w, l
<1>8. StackOK(p, Append(st, w))
  BY DEF w
<1>9. OnTrack(p, sp, last, P, Append(st, w), l)
  BY <1>1, <1>6, <1>7, <1>8, TrackKeeps
<1>10. QED
  BY <1>9 DEF w, l

\* A function of the spine is called through its gate.
LEMMA GateAhead ==
  ASSUME NEW p \in Programs, NEW sp, NEW last, NEW next, NEW P, Point(sp, P), NEW st, NEW k, NEW m,
         RunsOn(p, sp, last, next, P, st, k, m), st # <<>>, Unpassed(p, sp, next, P, st), k = 0,
         ~ st[Len(st)].done, StatementAt(p, st[Len(st)]).op = "call", NEW h \in StatementAt(p, st[Len(st)]).to,
         h \in SpineFunctions(sp), p.body[h] # <<>>, ArrivesAt(sp, P, h, 1, k) = 0
  PROVE  Ahead(p, sp, next, P, Entered(h, FALSE))
<1> DEFINE top == st[Len(st)]
           e == Entered(h, FALSE)
<1>1. IsSpine(p, sp, last, next) /\ StackOK(p, st) /\ MainUncalled(p)
  BY Zenon DEF RunsOn, Admitted
<1>2. top.func \in Functions /\ top.at \in DOMAIN p.body[top.func]
  BY <1>1, TopPlace
<1>3. p.body[top.func][top.at].op = "call" /\ h \in p.body[top.func][top.at].to
  BY DEF StatementAt
<1>4. h \in Functions /\ h # Main
  <2>1. h \in Calls(p, top.func) /\ h \in Functions
    BY <1>2, <1>3, CallsName
  <2>2. QED
    BY <1>1, <1>2, <2>1, Zenon DEF MainUncalled
<1>5. e \in Frames /\ e.func = h /\ e.at = 1 /\ ~ e.done /\ 1 \in DOMAIN p.body[h]
  BY <1>4, EnteredFacts
<1> HIDE DEF e
<1>6. PICK g \in Nodes(sp) : GateTo(p, sp, last, next, h, g) /\ sp.bounds[g].func = top.func /\ sp.bounds[g].at = top.at
  <2>1. \A f \in Functions : \A a \in DOMAIN p.body[f] :
            p.body[f][a].op = "call" /\ h \in p.body[f][a].to =>
              \E i \in Nodes(sp) : /\ GateTo(p, sp, last, next, h, i)
                                   /\ sp.bounds[i].func = f /\ sp.bounds[i].at = a
    BY <1>1, <1>4, CallerIsGate
  <2> HIDE DEF top
  <2>2. QED
    BY <1>2, <1>3, <2>1
<1>7. PICK j \in Nodes(sp) : sp.bounds[j].func = h /\ sp.bounds[j].at = 1
  BY <1>1, <1>5, PlaceOf
<1>8. j \in sp.bounds[g].succ
  BY <1>6, <1>7, Zenon DEF GateTo
<1>9. top.func \in SpineFunctions(sp)
  BY <1>6 DEF SpineFunctions
<1>10. Ahead(p, sp, next, P, top) /\ ~ top.done
  BY <1>1, <1>9, TopAhead
<1>11. IF Gate(p, sp, g) /\ top.done THEN next[g] \subseteq Early(sp, P) \cup {P} ELSE g \in Early(sp, P)
  BY <1>1, <1>6, <1>10, PlaceAhead, Zenon
<1>12. g \in Early(sp, P)
  BY <1>10, <1>11
<1>13. SpineEdges(sp) /\ 1 \in Nodes(sp)
  BY <1>1, <1>6 DEF IsSpine, SpinePlaces, SpineEdges, Nodes
<1>14. j \in Early(sp, P) \cup {P}
  BY <1>8, <1>12, <1>13, EarlyCloses
<1>15. ArrivesAt(sp, P, e.func, e.at, k) = 0
  BY <1>5
<1>16. Ahead(p, sp, next, P, e)
  BY <1>5, <1>7, <1>14, <1>15, ArrivalAhead
<1>17. QED
  BY <1>16 DEF e

\* A known function is called.
LEMMA CallTrack ==
  ASSUME NEW p \in Programs, NEW sp, NEW last, NEW P, NEW st, NEW k, OnTrack(p, sp, last, P, st, k), st # <<>>,
         NEW w \in Frames, w.func = st[Len(st)].func, w.at = st[Len(st)].at, ~ st[Len(st)].done,
         StatementAt(p, w).op = "call", NEW h \in StatementAt(p, w).to, h \in Functions, p.body[h] # <<>>,
         StackOK(p, Retop(st, w)), StackOK(p, Append(Retop(st, w), Entered(h, FALSE)))
  PROVE  OnTrack(p, sp, last, P, Append(Retop(st, w), Entered(h, FALSE)), ArrivesAt(sp, P, h, 1, k))
<1> DEFINE e == Entered(h, FALSE)
           s == Retop(st, w)
           r == Append(s, e)
           l == ArrivesAt(sp, P, h, 1, k)
<1>1. PICK next, m : RunsOn(p, sp, last, next, P, st, k, m) /\ (k = 0 => Unpassed(p, sp, next, P, st))
  BY Zenon DEF OnTrack
<1>2. PICK n : RunsTo(p, sp, next, P, r, l, n)
  BY <1>1, CallRuns
<1>3. Point(sp, P) /\ k \in {0, 1} /\ StackOK(p, s)
  BY <1>1, Zenon DEF RunsOn, RunsTo
<1>4. e \in Frames /\ e.func = h
  BY EnteredFacts
<1>5. StatementAt(p, st[Len(st)]) = StatementAt(p, w)
  BY DEF StatementAt
<1>6. ASSUME l = 0 PROVE Unpassed(p, sp, next, P, r)
  <2>1. k = 0 /\ Unpassed(p, sp, next, P, st)
    BY <1>1, <1>3, <1>6, ArrivalCounts
  <2>2. CASE h \in SpineFunctions(sp)
    <3>1. Ahead(p, sp, next, P, e)
      BY <1>1, <1>3, <1>5, <1>6, <2>1, <2>2, GateAhead
    <3> HIDE DEF s, e
    <3>2. QED
      BY <1>3, <1>4, <2>2, <3>1, AppendUnpassed
  <2>3. CASE h \notin SpineFunctions(sp)
    <3>1. Unpassed(p, sp, next, P, s)
      BY <1>1, <2>1, <2>3, FinishAhead
    <3> HIDE DEF s, e
    <3>2. QED
      BY <1>3, <1>4, <2>3, <3>1, AppendUnpassed
  <2>4. QED
    BY <2>2, <2>3
<1>7. StackOK(p, r)
  OBVIOUS
<1> HIDE DEF r, l
<1>8. OnTrack(p, sp, last, P, r, l)
  BY <1>1, <1>2, <1>6, <1>7, TrackKeeps
<1>9. QED
  BY <1>8 DEF r, s, e, l

\* The frame on top goes on to a successor of its boundary.
LEMMA AdvanceTrack ==
  ASSUME NEW p \in Programs, NEW sp, NEW last, NEW P, NEW st, NEW k, OnTrack(p, sp, last, P, st, k),
         st # <<>>, st[Len(st)].done,
         NEW w \in Frames, w.func = st[Len(st)].func, ~ w.done,
         w.at \in StatementAt(p, st[Len(st)]).succ, StackOK(p, Retop(st, w))
  PROVE  OnTrack(p, sp, last, P, Retop(st, w), ArrivesAt(sp, P, w.func, w.at, k))
<1> DEFINE top == st[Len(st)]
           l == ArrivesAt(sp, P, w.func, w.at, k)
<1>1. PICK next, m : RunsOn(p, sp, last, next, P, st, k, m) /\ (k = 0 => Unpassed(p, sp, next, P, st))
  BY Zenon DEF OnTrack
<1>2. IsSpine(p, sp, last, next) /\ StackOK(p, st) /\ k \in {0, 1}
  BY <1>1, Zenon DEF RunsOn, RunsTo
<1>3. top.func \in Functions /\ top.at \in DOMAIN p.body[top.func]
  BY <1>2, TopPlace
<1>4. w.at \in p.body[top.func][top.at].succ /\ w.at \in DOMAIN p.body[top.func]
  BY <1>3, ProgramFacts DEF StatementAt
<1>5. RunsTo(p, sp, next, P, Retop(st, w), l, m)
  BY <1>1, AdvanceRuns
<1>6. ASSUME l = 0 PROVE Unpassed(p, sp, next, P, Retop(st, w))
  <2>1. k = 0 /\ Unpassed(p, sp, next, P, st)
    BY <1>1, <1>2, <1>6, ArrivalCounts
  <2>2. ASSUME w.func \in SpineFunctions(sp) PROVE Ahead(p, sp, next, P, w)
    <3>1. PICK i \in Nodes(sp) : sp.bounds[i].func = top.func /\ sp.bounds[i].at = top.at
      BY <1>2, <1>3, <2>2, PlaceOf
    <3>2. PICK j \in Nodes(sp) : sp.bounds[j].func = top.func /\ sp.bounds[j].at = w.at
      BY <1>2, <1>3, <1>4, <2>2, PlaceOf
    <3>3. j \in next[i]
      <4>1. sp.bounds[j].func = sp.bounds[i].func /\ sp.bounds[j].at \in StatementAt(p, sp.bounds[i]).succ
        BY <1>4, <3>1, <3>2 DEF StatementAt
      <4>2. QED
        BY <1>2, <4>1, Zenon DEF IsSpine, SpineFlow
    <3>4. Ahead(p, sp, next, P, top) /\ top.done
      BY <1>2, <2>1, <2>2, TopAhead
    <3>5. IF Gate(p, sp, i) /\ top.done THEN next[i] \subseteq Early(sp, P) \cup {P} ELSE i \in Early(sp, P)
      BY <1>2, <3>1, <3>4, PlaceAhead, Zenon
    <3>6. 1 \in Nodes(sp)
      BY <1>2, <3>1 DEF IsSpine, SpinePlaces, SpineEdges, Nodes
    <3>7. next[i] \subseteq Early(sp, P) \cup {P}
      BY <1>2, <3>4, <3>5, <3>6, EarlyOnward
    <3>8. j \in Early(sp, P) \cup {P} /\ sp.bounds[j].func = w.func
      BY <3>2, <3>3, <3>7
    <3>9. QED
      BY <1>2, <1>6, <3>2, <3>8, ArrivalAhead
  <2>3. QED
    BY <1>2, <2>1, <2>2, RetopUnpassed
<1> HIDE DEF l
<1>7. OnTrack(p, sp, last, P, Retop(st, w), l)
  BY <1>1, <1>5, <1>6, TrackKeeps
<1>8. QED
  BY <1>7 DEF l

\* Back at the gate that a spine function was called through, the program goes
\* on as it does after the boundary the function ends at.
LEMMA ReturnAhead ==
  ASSUME NEW p \in Programs, NEW sp, NEW last, NEW next, NEW P, NEW st, NEW k, NEW m,
         RunsOn(p, sp, last, next, P, st, k, m), st # <<>>, Unpassed(p, sp, next, P, st),
         st[Len(st)].done, StatementAt(p, st[Len(st)]).succ = {},
         st[Len(st)].func \in SpineFunctions(sp), Len(st) > 1
  PROVE  Ahead(p, sp, next, P, st[Len(st) - 1])
<1> DEFINE top == st[Len(st)]
           below == st[Len(st) - 1]
           h == top.func
<1>1. /\ IsSpine(p, sp, last, next) /\ StackOK(p, st) /\ MainUncalled(p) /\ Main \notin Escaped(p)
  BY Zenon DEF RunsOn, Admitted
<1>2. /\ Len(st) \in Nat \ {0} /\ DOMAIN st = 1 .. Len(st)
      /\ top.func \in Functions /\ top.at \in DOMAIN p.body[top.func]
  BY <1>1, TopPlace
<1>3. Ahead(p, sp, next, P, top)
  BY <1>1, TopAhead
<1>4. Len(st) \in DOMAIN st /\ Len(st) - 1 \in DOMAIN st
  BY <1>2
<1>5. Entering(p, below, top)
  BY <1>1, <1>4 DEF StackOK
<1>6. below.func \in Functions /\ below.at \in DOMAIN p.body[below.func]
  <2>1. below \in Frames /\ below.at \in DOMAIN p.body[below.func]
    BY <1>1, <1>4 DEF StackOK
  <2> HIDE DEF below
  <2>2. QED
    BY <2>1 DEF Frames
<1>7. h \in SpineFunctions(sp) /\ top.done /\ StatementAt(p, top).succ = {}
  OBVIOUS
<1> HIDE DEF below, top
<1>8. h # Main
  <2> SUFFICES ASSUME h = Main PROVE FALSE
    OBVIOUS
  <2>1. p.body[below.func][below.at].op = "call" /\ h \in p.body[below.func][below.at].to
    BY <1>1, <1>5 DEF Entering, StatementAt
  <2>2. Main \in Calls(p, below.func)
    BY <1>6, <2>1, CallsName
  <2>3. QED
    BY <1>1, <1>6, <2>2, Zenon DEF MainUncalled
<1>9. h \notin Escaped(p)
  BY <1>1, <1>7, <1>8, CallerIsGate
<1>10. below.done /\ p.body[below.func][below.at].op = "call" /\ h \in p.body[below.func][below.at].to
  BY <1>5, <1>9 DEF Entering, StatementAt
<1>11. PICK g \in Nodes(sp) : GateTo(p, sp, last, next, h, g) /\ sp.bounds[g].func = below.func /\ sp.bounds[g].at = below.at
  <2>1. \A f \in Functions : \A a \in DOMAIN p.body[f] :
            p.body[f][a].op = "call" /\ h \in p.body[f][a].to =>
              \E i \in Nodes(sp) : /\ GateTo(p, sp, last, next, h, i)
                                   /\ sp.bounds[i].func = f /\ sp.bounds[i].at = a
    BY <1>1, <1>7, <1>8, CallerIsGate
  <2>2. QED
    BY <1>6, <1>10, <2>1
<1>12. PICK i \in Nodes(sp) : sp.bounds[i].func = h /\ sp.bounds[i].at = top.at
  BY <1>1, <1>2, <1>7, PlaceOf
<1>13. IF Gate(p, sp, i) /\ top.done THEN next[i] \subseteq Early(sp, P) \cup {P} ELSE i \in Early(sp, P)
  BY <1>1, <1>3, <1>12, PlaceAhead, Zenon
<1>14. 1 \in Nodes(sp)
  BY <1>1, <1>12 DEF IsSpine, SpinePlaces, SpineEdges, Nodes
<1>15. next[i] \subseteq Early(sp, P) \cup {P}
  BY <1>1, <1>7, <1>13, <1>14, EarlyOnward
<1>16. next[g] \subseteq next[i]
  <2>1. StatementAt(p, sp.bounds[i]).succ = {}
    BY <1>7, <1>12 DEF StatementAt
  <2>2. QED
    BY <1>11, <1>12, <2>1, Zenon DEF GateTo
<1>17. Gate(p, sp, g)
  <2>1. StatementAt(p, sp.bounds[g]).op = "call" /\ StatementAt(p, sp.bounds[g]).to = {h}
    BY <1>11, Zenon DEF GateTo
  <2>2. h \in SpineFunctions(sp) \ {Main}
    BY <1>7, <1>8
  <2>3. QED
    BY <2>1, <2>2 DEF Gate
<1>18. next[g] \subseteq Early(sp, P) \cup {P}
  BY <1>15, <1>16
<1>19. Ahead(p, sp, next, P, below)
  BY <1>10, <1>11, <1>17, <1>18 DEF Ahead
<1>20. QED
  BY <1>19 DEF below

\* The frame on top returns.
LEMMA ReturnTrack ==
  ASSUME NEW p \in Programs, NEW sp, NEW last, NEW P, NEW st, NEW k, OnTrack(p, sp, last, P, st, k),
         st # <<>>, st[Len(st)].done, StatementAt(p, st[Len(st)]).succ = {},
         StackOK(p, SubSeq(st, 1, Len(st) - 1))
  PROVE  OnTrack(p, sp, last, P, SubSeq(st, 1, Len(st) - 1), k)
<1>1. PICK next, m : RunsOn(p, sp, last, next, P, st, k, m) /\ (k = 0 => Unpassed(p, sp, next, P, st))
  BY Zenon DEF OnTrack
<1>2. PICK n : RunsTo(p, sp, next, P, SubSeq(st, 1, Len(st) - 1), k, n)
  BY <1>1, ReturnRuns
<1>3. ASSUME k = 0 PROVE Unpassed(p, sp, next, P, SubSeq(st, 1, Len(st) - 1))
  <2>1. Unpassed(p, sp, next, P, st) /\ StackOK(p, st)
    BY <1>1, <1>3, Zenon DEF RunsOn
  <2>2. OnTop(p, sp, next, P, st, k, m)
    BY <1>1, TopFrame
  <2>3. st[Len(st)].func \in SpineFunctions(sp) => \A j \in DOMAIN st : st[j].func \in SpineFunctions(sp)
    BY <2>2, Zenon DEF OnTop
  <2>4. st[Len(st)].func \in SpineFunctions(sp) /\ Len(st) > 1 => Ahead(p, sp, next, P, st[Len(st) - 1])
    BY <1>1, <2>1, ReturnAhead
  <2>5. QED
    BY <2>1, <2>3, <2>4, PopUnpassed
<1>4. QED
  BY <1>1, <1>2, <1>3, TrackKeeps

\* The certified program starts ahead of P, or at it.
LEMMA StartTrack ==
  ASSUME NEW p \in Programs, NEW sp, NEW last, NEW next, IsSpine(p, sp, last, next), Admitted(p),
         NEW P, Point(sp, P), Main \notin Escaped(p)
  PROVE  OnTrack(p, sp, last, P, <<Entered(Main, FALSE)>>, ArrivesAt(sp, P, Main, 1, 0))
<1> DEFINE w == Entered(Main, FALSE)
           st == <<w>>
           k == ArrivesAt(sp, P, Main, 1, 0)
<1>1. SpinePlaces(p, sp) /\ P \in Nodes(sp)
  BY DEF IsSpine, Point
<1>2. 1 \in Nodes(sp) /\ SpineEdges(sp)
  BY <1>1 DEF SpinePlaces, SpineEdges, Nodes
<1>3. Main \in Functions /\ sp.bounds[1].func = Main /\ sp.bounds[1].at = 1 /\ 1 \in DOMAIN p.body[Main]
  BY <1>1, <1>2 DEF SpinePlaces
<1>4. Main \in SpineFunctions(sp)
  BY <1>2, <1>3 DEF SpineFunctions
<1>5. w \in Frames /\ w.func = Main /\ w.at = 1 /\ ~ w.done
  BY <1>3 DEF Entered, Frames
<1> HIDE DEF w
<1>6. st \in Seq(Frames) /\ DOMAIN st = {1} /\ st[1] = w /\ Len(st) = 1 /\ st # <<>>
  BY <1>5
<1> HIDE DEF st
<1>7. StackOK(p, st)
  BY <1>3, <1>5, <1>6 DEF StackOK
<1>8. k \in {0, 1} /\ (k = 1 => Passed(p, sp, next, P, w))
  <2>1. /\ ArrivesAt(sp, P, w.func, w.at, 0) \in {0, 1}
        /\ ArrivesAt(sp, P, w.func, w.at, 0) = 1 => Passed(p, sp, next, P, w)
    BY <1>2, <1>3, <1>5, ArrivalPasses
  <2>2. QED
    BY <1>5, <2>1
<1>9. ASSUME k = 0 PROVE Ahead(p, sp, next, P, w)
  <2>1. ArrivesAt(sp, P, w.func, w.at, 0) = 0
    BY <1>5, <1>9
  <2>2. 1 \in Early(sp, P) \cup {P}
    BY <1>2, EarlyCloses
  <2>3. QED
    BY <1>2, <1>3, <1>5, <2>1, <2>2, ArrivalAhead
<1> HIDE DEF k
<1>10. RunsTo(p, sp, next, P, st, k, 1)
  BY <1>4, <1>5, <1>6, <1>8 DEF RunsTo
<1>11. k = 0 => Unpassed(p, sp, next, P, st)
  BY <1>6, <1>9 DEF Unpassed
<1>12. RunsOn(p, sp, last, next, P, st, k, 1)
  BY <1>7, <1>10, Zenon DEF RunsOn
<1>13. OnTrack(p, sp, last, P, st, k)
  BY <1>11, <1>12, Zenon DEF OnTrack
<1>14. QED
  BY <1>13 DEF st, w, k

(***************************************************************************)
(* Callbacks                                                               *)
(***************************************************************************)

\* The callback h is handed out by a statement that is not on the spine.
HandedOff(p, sp, h) ==
  \/ \E f \in Functions : h \in Names(p, f, {"leak"})
  \/ \E f \in Functions \ SpineFunctions(sp) : h \in Names(p, f, {"unknown", "register"})

\* The frame runs what its caller, waiting at a call, calls.
CalledBy(p, caller, frame) ==
  caller.done /\ StatementAt(p, caller).op = "call" /\ frame.func \in StatementAt(p, caller).to

\* Every frame runs a live callback, or what the frame below it calls.
Origins(p, st, live) ==
  \A j \in DOMAIN st : IF st[j].outside THEN st[j].func \in live ELSE j > 1 => CalledBy(p, st[j - 1], st[j])

\* The payload is made for a selected point, and the spine observes where readers
\* are handed out.
Settled(p, sp, pay) ==
  /\ pay = BuildPayload(p, sp, pay.chosen) /\ pay.ok
  /\ pay.chosen \in Reached(sp)
  /\ \A o \in sp.obs : Acceptable(Dominators(sp), pay.chosen, o)
  /\ HandoutsObserved(p, sp)

\* A certified program running, and where its callbacks come from: until the
\* cell is set no reader is live that only statements of the spine hand out.
RouteState(p, sp, last, pay, st, k, live) ==
  /\ Settled(p, sp, pay) /\ OnTrack(p, sp, last, pay.chosen, st, k)
  /\ Origins(p, st, live)
  /\ k = 0 => \A h \in live : HandedOff(p, sp, h) \/ ~ TransRef(p, h)

\* A frame that stays in its function, one that is entered, one that is left.
LEMMA OriginsKept ==
  ASSUME NEW p, NEW st \in Seq(Frames), NEW live, Origins(p, st, live)
  PROVE  /\ \A w \in Frames : st # <<>> /\ w.func = st[Len(st)].func /\ w.outside = st[Len(st)].outside =>
              Origins(p, Retop(st, w), live)
         /\ \A w \in Frames :
              (IF w.outside THEN w.func \in live ELSE st # <<>> /\ CalledBy(p, st[Len(st)], w)) =>
                Origins(p, Append(st, w), live)
         /\ st # <<>> => Origins(p, SubSeq(st, 1, Len(st) - 1), live)
<1> DEFINE L == Len(st)
<1>1. ASSUME st # <<>>, NEW w \in Frames, w.func = st[L].func, w.outside = st[L].outside
      PROVE  Origins(p, Retop(st, w), live)
  <2> DEFINE r == Retop(st, w)
  <2>1. /\ L \in Nat \ {0} /\ DOMAIN st = 1 .. L /\ DOMAIN r = 1 .. L
        /\ \A j \in 1 .. L : r[j] = IF j = L THEN w ELSE st[j]
    BY <1>1, RetopFacts
  <2> HIDE DEF r, L
  <2>2. ASSUME NEW j \in DOMAIN r
        PROVE  IF r[j].outside THEN r[j].func \in live ELSE j > 1 => CalledBy(p, r[j - 1], r[j])
    <3>1. j \in DOMAIN st /\ (IF st[j].outside THEN st[j].func \in live ELSE j > 1 => CalledBy(p, st[j - 1], st[j]))
      BY <2>1 DEF Origins
    <3>2. r[j].outside = st[j].outside /\ r[j].func = st[j].func
      BY <1>1, <2>1
    <3>3. j > 1 => r[j - 1] = st[j - 1]
      BY <2>1
    <3>4. QED
      BY <3>1, <3>2, <3>3 DEF CalledBy
  <2>3. QED
    BY <2>2 DEF Origins, r
<1>2. ASSUME NEW w \in Frames, IF w.outside THEN w.func \in live ELSE st # <<>> /\ CalledBy(p, st[L], w)
      PROVE  Origins(p, Append(st, w), live)
  <2> DEFINE r == Append(st, w)
  <2>1. /\ L \in Nat /\ DOMAIN st = 1 .. L /\ DOMAIN r = 1 .. (L + 1)
        /\ \A j \in 1 .. L : r[j] = st[j]
        /\ r[L + 1] = w
    BY AppendFacts
  <2>2. st # <<>> => L > 0
    BY <2>1
  <2> HIDE DEF r, L
  <2>3. ASSUME NEW j \in DOMAIN r
        PROVE  IF r[j].outside THEN r[j].func \in live ELSE j > 1 => CalledBy(p, r[j - 1], r[j])
    <3>1. CASE j = L + 1
      <4>1. r[j] = w /\ (L > 0 => r[j - 1] = st[L])
        BY <2>1, <3>1
      <4>2. QED
        BY <1>2, <2>2, <4>1
    <3>2. CASE j # L + 1
      <4>1. j \in DOMAIN st /\ r[j] = st[j] /\ (j > 1 => r[j - 1] = st[j - 1])
        BY <2>1, <3>2
      <4>2. IF st[j].outside THEN st[j].func \in live ELSE j > 1 => CalledBy(p, st[j - 1], st[j])
        BY <4>1 DEF Origins
      <4>3. QED
        BY <4>1, <4>2
    <3>3. QED
      BY <3>1, <3>2
  <2>4. QED
    BY <2>3 DEF Origins, r
<1>3. ASSUME st # <<>> PROVE Origins(p, SubSeq(st, 1, L - 1), live)
  <2> DEFINE r == SubSeq(st, 1, L - 1)
  <2>1. /\ L \in Nat \ {0} /\ DOMAIN st = 1 .. L /\ DOMAIN r = 1 .. (L - 1)
        /\ \A j \in 1 .. (L - 1) : r[j] = st[j]
    BY <1>3, PopFacts
  <2> HIDE DEF r, L
  <2>2. ASSUME NEW j \in DOMAIN r
        PROVE  IF r[j].outside THEN r[j].func \in live ELSE j > 1 => CalledBy(p, r[j - 1], r[j])
    <3>1. j \in DOMAIN st /\ r[j] = st[j] /\ (j > 1 => r[j - 1] = st[j - 1])
      BY <2>1
    <3>2. IF st[j].outside THEN st[j].func \in live ELSE j > 1 => CalledBy(p, st[j - 1], st[j])
      BY <3>1 DEF Origins
    <3>3. QED
      BY <3>1, <3>2
  <2>3. QED
    BY <2>2 DEF Origins, r
<1>4. QED
  BY <1>1, <1>2, <1>3

\* A reader that a statement of the spine hands out becomes live only once the
\* cell is set: the statement is observed, so P dominates it.
LEMMA HandoutLate ==
  ASSUME NEW p \in Programs, NEW sp, NEW last, NEW P, NEW st, NEW k, OnTrack(p, sp, last, P, st, k),
         HandoutsObserved(p, sp), \A o \in sp.obs : Acceptable(Dominators(sp), P, o),
         st # <<>>, st[Len(st)].func \in SpineFunctions(sp), ~ st[Len(st)].done,
         HandsReader(p, StatementAt(p, st[Len(st)]))
  PROVE  k # 0
<1> DEFINE top == st[Len(st)]
<1> SUFFICES ASSUME k = 0 PROVE FALSE
  OBVIOUS
<1>1. PICK next, m : RunsOn(p, sp, last, next, P, st, k, m) /\ Unpassed(p, sp, next, P, st)
  BY Zenon DEF OnTrack
<1>2. IsSpine(p, sp, last, next) /\ StackOK(p, st)
  BY <1>1, Zenon DEF RunsOn
<1>3. top.func \in Functions /\ top.at \in DOMAIN p.body[top.func]
  BY <1>2, TopPlace
<1>4. PICK n \in Nodes(sp) : sp.bounds[n].func = top.func /\ sp.bounds[n].at = top.at
  BY <1>2, <1>3, PlaceOf
<1>5. Ahead(p, sp, next, P, top) /\ ~ top.done
  BY <1>1, <1>2, TopAhead
<1>6. IF Gate(p, sp, n) /\ top.done THEN next[n] \subseteq Early(sp, P) \cup {P} ELSE n \in Early(sp, P)
  BY <1>2, <1>4, <1>5, PlaceAhead, Zenon
<1>7. <<P, n>> \notin Dominators(sp)
  BY <1>5, <1>6 DEF Early
<1>8. HandsReader(p, StatementAt(p, sp.bounds[n]))
  BY <1>4 DEF StatementAt
<1>9. PICK o \in sp.obs : o.boundary = n /\ ~ o.routable
  BY <1>8 DEF HandoutsObserved, Observed
<1>10. <<P, n>> \in Dominators(sp)
  BY <1>9 DEF Acceptable
<1>11. QED
  BY <1>7, <1>10

\* What the statement on top hands out becomes live.
LEMMA HandoutRoute ==
  ASSUME NEW p \in Programs, NEW sp, NEW last, NEW pay, NEW st, NEW k, NEW live,
         RouteState(p, sp, last, pay, st, k, live), st # <<>>, ~ st[Len(st)].done,
         StatementAt(p, st[Len(st)]).op \in {"unknown", "register", "leak"}
  PROVE  RouteState(p, sp, last, pay, st, k, live \cup StatementAt(p, st[Len(st)]).to)
<1> DEFINE top == st[Len(st)]
           s == StatementAt(p, top)
<1>1. /\ Settled(p, sp, pay) /\ OnTrack(p, sp, last, pay.chosen, st, k) /\ Origins(p, st, live)
      /\ k = 0 => \A h \in live : HandedOff(p, sp, h) \/ ~ TransRef(p, h)
  BY Zenon DEF RouteState
<1>2. StackOK(p, st)
  BY <1>1, Zenon DEF OnTrack, RunsOn
<1>3. top.func \in Functions /\ top.at \in DOMAIN p.body[top.func] /\ s = p.body[top.func][top.at]
  BY <1>2, TopPlace DEF StatementAt
<1>4. Origins(p, st, live \cup s.to)
  BY <1>1 DEF Origins
<1>5. ASSUME k = 0, NEW h \in s.to PROVE HandedOff(p, sp, h) \/ ~ TransRef(p, h)
  <2>1. \A ops : s.op \in ops => h \in Names(p, top.func, ops)
    BY <1>3, <1>5 DEF Names, Statements
  <2> HIDE DEF top, s
  <2>2. CASE s.op = "leak"
    <3>1. h \in Names(p, top.func, {"leak"})
      BY <2>1, <2>2
    <3>2. QED
      BY <1>3, <3>1 DEF HandedOff
  <2>3. CASE s.op # "leak" /\ top.func \notin SpineFunctions(sp)
    <3>1. h \in Names(p, top.func, {"unknown", "register"})
      BY <2>1, <2>3 DEF s, top
    <3>2. QED
      BY <1>3, <2>3, <3>1 DEF HandedOff
  <2>4. CASE s.op # "leak" /\ top.func \in SpineFunctions(sp)
    <3>1. HandoutsObserved(p, sp) /\ \A o \in sp.obs : Acceptable(Dominators(sp), pay.chosen, o)
      BY <1>1, Zenon DEF Settled
    <3>2. s.op \in {"unknown", "register"}
      BY <2>4 DEF s, top
    <3>3. ~ HandsReader(p, s)
      BY <1>1, <1>5, <2>4, <3>1, HandoutLate DEF s, top
    <3>4. QED
      BY <1>5, <3>2, <3>3 DEF HandsReader
  <2>5. QED
    BY <2>2, <2>3, <2>4
<1>6. k = 0 => \A h \in live \cup s.to : HandedOff(p, sp, h) \/ ~ TransRef(p, h)
  BY <1>1, <1>5
<1>7. QED
  BY <1>1, <1>4, <1>6, Zenon DEF RouteState

\* The cell is set at the point of the payload.
LEMMA SettledPlaces ==
  ASSUME NEW p, NEW sp, NEW pay, Settled(p, sp, pay)
  PROVE  Places(p, sp, pay.chosen, pay) /\ Lists(p, sp, pay.chosen, pay)
<1> DEFINE P == pay.chosen
<1>1. pay = BuildPayload(p, sp, P) /\ BuildPayload(p, sp, P).ok
  BY Zenon DEF Settled
<1> HIDE DEF P
<1>2. Places(p, sp, P, BuildPayload(p, sp, P)) /\ Lists(p, sp, P, BuildPayload(p, sp, P))
  BY <1>1, PayloadLists, Zenon
<1>3. Places(p, sp, P, pay) /\ Lists(p, sp, P, pay)
  BY <1>1, <1>2
<1>4. QED
  BY <1>3 DEF P

\* What a step has to keep.
LEMMA RouteKeeps ==
  ASSUME NEW p, NEW sp, NEW last, NEW pay, NEW st, NEW k, NEW live, RouteState(p, sp, last, pay, st, k, live),
         NEW r, NEW l, OnTrack(p, sp, last, pay.chosen, r, l), Origins(p, r, live), l = 0 => k = 0
  PROVE  RouteState(p, sp, last, pay, r, l, live)
BY Zenon DEF RouteState

\* The stack of the running program.
LEMMA RouteFacts ==
  ASSUME NEW p, NEW sp, NEW last, NEW pay, NEW st, NEW k, NEW live, RouteState(p, sp, last, pay, st, k, live)
  PROVE  /\ Settled(p, sp, pay) /\ OnTrack(p, sp, last, pay.chosen, st, k) /\ Origins(p, st, live)
         /\ StackOK(p, st) /\ st \in Seq(Frames) /\ k \in {0, 1}
<1>1. Settled(p, sp, pay) /\ OnTrack(p, sp, last, pay.chosen, st, k) /\ Origins(p, st, live)
  BY Zenon DEF RouteState
<1>2. StackOK(p, st) /\ k \in {0, 1}
  BY <1>1, Zenon DEF OnTrack, RunsOn, RunsTo
<1>3. QED
  BY <1>1, <1>2 DEF StackOK

\* The statement on top finishes, having called nothing.
LEMMA FinishRoute ==
  ASSUME NEW p \in Programs, NEW sp, NEW last, NEW pay, NEW st, NEW k, NEW live,
         RouteState(p, sp, last, pay, st, k, live), st # <<>>,
         NEW w \in Frames, w.func = st[Len(st)].func, w.at = st[Len(st)].at, w.outside = st[Len(st)].outside,
         ~ st[Len(st)].done, StatementAt(p, w).op # "call"
  PROVE  RouteState(p, sp, last, pay, Retop(st, w), k, live)
<1>1. /\ OnTrack(p, sp, last, pay.chosen, st, k) /\ Origins(p, st, live)
      /\ StackOK(p, st) /\ st \in Seq(Frames)
  BY RouteFacts, Zenon
<1>2. StackOK(p, Retop(st, w))
  <2>1. w.at \in DOMAIN p.body[w.func]
    BY <1>1, TopPlace
  <2>2. QED
    BY <1>1, <2>1, RetopStack
<1>3. OnTrack(p, sp, last, pay.chosen, Retop(st, w), k)
  BY <1>1, <1>2, FinishTrack
<1>4. Origins(p, Retop(st, w), live)
  BY <1>1, OriginsKept
<1>5. QED
  BY <1>3, <1>4, RouteKeeps

\* A live callback is entered.
LEMMA CallbackRoute ==
  ASSUME NEW p \in Programs, NEW sp, NEW last, NEW cert, cert.ok, NEW st, NEW k, NEW live,
         RouteState(p, sp, last, cert.payload, st, k, live), st # <<>>,
         NEW h \in live, h \in Escaped(p), p.body[h] # <<>>
  PROVE  RouteState(p, sp, last, cert.payload, Append(st, Entered(h, TRUE)), CellSets(cert, h, 1, k), live)
<1> DEFINE w == Entered(h, TRUE)
           r == Append(st, w)
           l == CellSets(cert, h, 1, k)
           P == cert.payload.chosen
<1>1. /\ Settled(p, sp, cert.payload) /\ OnTrack(p, sp, last, P, st, k) /\ Origins(p, st, live)
      /\ StackOK(p, st) /\ st \in Seq(Frames) /\ k \in {0, 1}
  BY RouteFacts, Zenon
<1>2. h \in Functions
  BY ProgramFacts DEF Escaped, Names, Statements
<1>3. w \in Frames /\ w.func = h /\ w.outside
  BY <1>2, EnteredFacts DEF Entered
<1>4. StackOK(p, r)
  <2>1. Entering(p, st[Len(st)], w)
    BY <1>3 DEF Entering
  <2>2. QED
    BY <1>1, <1>2, <2>1, AppendStack
<1>5. l = ArrivesAt(sp, P, h, 1, k)
  <2>1. Places(p, sp, P, cert.payload)
    BY <1>1, SettledPlaces, Zenon
  <2>2. cert.ok /\ cert.payload.at = <<sp.bounds[P].func, sp.bounds[P].at>>
    BY <2>1 DEF Places
  <2>3. QED
    BY <2>2 DEF CellSets, ArrivesAt
<1>6. OnTrack(p, sp, last, P, r, ArrivesAt(sp, P, h, 1, k))
  BY <1>1, <1>2, <1>4, CallbackTrack
<1>7. l = 0 => k = 0
  BY <1>1, <1>5, ArrivalCounts
<1> HIDE DEF w
<1>8. Origins(p, r, live)
  BY <1>1, <1>3, OriginsKept
<1> HIDE DEF r, l
<1>9. RouteState(p, sp, last, cert.payload, r, l, live)
  BY <1>5, <1>6, <1>7, <1>8, RouteKeeps
<1>10. QED
  BY <1>9 DEF r, w, l

\* A known function is called.
LEMMA CallRoute ==
  ASSUME NEW p \in Programs, NEW sp, NEW last, NEW cert, cert.ok, NEW st, NEW k, NEW live,
         RouteState(p, sp, last, cert.payload, st, k, live), st # <<>>,
         NEW w \in Frames, w.func = st[Len(st)].func, w.at = st[Len(st)].at, w.outside = st[Len(st)].outside,
         w.done, ~ st[Len(st)].done,
         StatementAt(p, w).op = "call", NEW h \in StatementAt(p, w).to, p.body[h] # <<>>
  PROVE  RouteState(p, sp, last, cert.payload, Append(Retop(st, w), Entered(h, FALSE)), CellSets(cert, h, 1, k), live)
<1> DEFINE s == Retop(st, w)
           e == Entered(h, FALSE)
           r == Append(s, e)
           l == CellSets(cert, h, 1, k)
           P == cert.payload.chosen
<1>1. /\ Settled(p, sp, cert.payload) /\ OnTrack(p, sp, last, P, st, k) /\ Origins(p, st, live)
      /\ StackOK(p, st) /\ st \in Seq(Frames) /\ k \in {0, 1}
  BY RouteFacts, Zenon
<1>2. /\ Len(st) \in Nat \ {0} /\ DOMAIN st = 1 .. Len(st) /\ Len(s) = Len(st) /\ s # <<>>
      /\ \A j \in 1 .. Len(st) : s[j] = IF j = Len(st) THEN w ELSE st[j]
  BY <1>1, RetopFacts
<1>3. w.func \in Functions /\ w.at \in DOMAIN p.body[w.func]
  BY <1>1, TopPlace
<1>4. StackOK(p, s)
  BY <1>1, <1>3, RetopStack
<1>5. h \in Functions
  BY <1>3, CallsName DEF StatementAt
<1>6. e \in Frames /\ e.func = h /\ ~ e.outside
  BY <1>5, EnteredFacts DEF Entered
<1>7. s[Len(s)] = w
  <2> HIDE DEF s
  <2>1. Len(st) \in Nat \ {0}
    BY <1>2, Zenon
  <2>2. Len(st) \in 1 .. Len(st)
    BY <2>1
  <2>3. QED
    BY <1>2, <2>2
<1>8. StackOK(p, r)
  <2>1. Entering(p, s[Len(s)], e)
    BY <1>6, <1>7 DEF Entering
  <2>2. QED
    BY <1>2, <1>4, <1>5, <2>1, AppendStack
<1>9. l = ArrivesAt(sp, P, h, 1, k)
  <2>1. Places(p, sp, P, cert.payload)
    BY <1>1, SettledPlaces, Zenon
  <2>2. cert.ok /\ cert.payload.at = <<sp.bounds[P].func, sp.bounds[P].at>>
    BY <2>1 DEF Places
  <2>3. QED
    BY <2>2 DEF CellSets, ArrivesAt
<1>10. OnTrack(p, sp, last, P, r, ArrivesAt(sp, P, h, 1, k))
  BY <1>1, <1>4, <1>5, <1>8, CallTrack
<1>11. l = 0 => k = 0
  BY <1>1, <1>9, ArrivalCounts
<1>12. Origins(p, r, live)
  <2>1. Origins(p, s, live)
    BY <1>1, OriginsKept
  <2>2. s \in Seq(Frames)
    BY <1>4 DEF StackOK
  <2> HIDE DEF s, e
  <2>3. CalledBy(p, s[Len(s)], e)
    BY <1>6, <1>7 DEF CalledBy
  <2>4. QED
    BY <1>2, <1>6, <2>1, <2>2, <2>3, OriginsKept
<1> HIDE DEF r, l
<1>13. RouteState(p, sp, last, cert.payload, r, l, live)
  BY <1>9, <1>10, <1>11, <1>12, RouteKeeps
<1>14. QED
  BY <1>13 DEF r, s, e, l

\* The frame on top goes on.
LEMMA AdvanceRoute ==
  ASSUME NEW p \in Programs, NEW sp, NEW last, NEW cert, cert.ok, NEW st, NEW k, NEW live,
         RouteState(p, sp, last, cert.payload, st, k, live), st # <<>>, st[Len(st)].done,
         NEW w \in Frames, w.func = st[Len(st)].func, w.outside = st[Len(st)].outside, ~ w.done,
         w.at \in StatementAt(p, st[Len(st)]).succ
  PROVE  RouteState(p, sp, last, cert.payload, Retop(st, w), CellSets(cert, w.func, w.at, k), live)
<1> DEFINE l == CellSets(cert, w.func, w.at, k)
           P == cert.payload.chosen
<1>1. /\ Settled(p, sp, cert.payload) /\ OnTrack(p, sp, last, P, st, k) /\ Origins(p, st, live)
      /\ StackOK(p, st) /\ st \in Seq(Frames) /\ k \in {0, 1}
  BY RouteFacts, Zenon
<1>2. w.at \in DOMAIN p.body[w.func]
  BY <1>1, TopPlace, ProgramFacts DEF StatementAt
<1>3. StackOK(p, Retop(st, w))
  BY <1>1, <1>2, RetopStack
<1>4. l = ArrivesAt(sp, P, w.func, w.at, k)
  <2>1. Places(p, sp, P, cert.payload)
    BY <1>1, SettledPlaces, Zenon
  <2>2. cert.ok /\ cert.payload.at = <<sp.bounds[P].func, sp.bounds[P].at>>
    BY <2>1 DEF Places
  <2>3. QED
    BY <2>2 DEF CellSets, ArrivesAt
<1>5. OnTrack(p, sp, last, P, Retop(st, w), ArrivesAt(sp, P, w.func, w.at, k))
  BY <1>1, <1>3, AdvanceTrack
<1>6. l = 0 => k = 0
  BY <1>1, <1>4, ArrivalCounts
<1>7. Origins(p, Retop(st, w), live)
  BY <1>1, OriginsKept
<1> HIDE DEF l
<1>8. RouteState(p, sp, last, cert.payload, Retop(st, w), l, live)
  BY <1>4, <1>5, <1>6, <1>7, RouteKeeps
<1>9. QED
  BY <1>8 DEF l

\* The frame on top returns.
LEMMA ReturnRoute ==
  ASSUME NEW p \in Programs, NEW sp, NEW last, NEW pay, NEW st, NEW k, NEW live,
         RouteState(p, sp, last, pay, st, k, live), st # <<>>, st[Len(st)].done,
         StatementAt(p, st[Len(st)]).succ = {}
  PROVE  RouteState(p, sp, last, pay, SubSeq(st, 1, Len(st) - 1), k, live)
<1>1. /\ OnTrack(p, sp, last, pay.chosen, st, k) /\ Origins(p, st, live)
      /\ StackOK(p, st) /\ st \in Seq(Frames)
  BY RouteFacts, Zenon
<1>2. StackOK(p, SubSeq(st, 1, Len(st) - 1))
  BY <1>1, PopStack
<1>3. OnTrack(p, sp, last, pay.chosen, SubSeq(st, 1, Len(st) - 1), k)
  BY <1>1, <1>2, ReturnTrack
<1>4. Origins(p, SubSeq(st, 1, Len(st) - 1), live)
  BY <1>1, OriginsKept
<1>5. QED
  BY <1>3, <1>4, RouteKeeps

(***************************************************************************)
(* The invariant of routing                                                *)
(***************************************************************************)

\* Nothing is live before the slot is decided.  If the module keeps main's
\* address to itself, the spine observes where readers are handed out, and a
\* certified program runs ahead of the publication until the cell is set.
RouteInv ==
  /\ IInv
  /\ phase = "descend" => armed = {} /\ leaked = {}
  /\ Main \notin Escaped(program) =>
       /\ phase = "descend" /\ MainUncalled(program) => HandoutsObserved(program, spine)
       /\ phase = "run" =>
            RouteState(program, spine, leaf, certificate.payload, stack, sets, armed \cup leaked)

\* Main's own body is observed.
LEMMA RouteInit == Init => RouteInv
<1> SUFFICES ASSUME Init PROVE RouteInv
  OBVIOUS
<1>1. IInv
  BY InitHolds
<1>2. /\ program \in Programs /\ phase = "descend" /\ spine = LocalSpine(program, Main)
      /\ armed = {} /\ leaked = {}
  BY DEF Init
<1>3. Main \notin Escaped(program) => HandoutsObserved(program, spine)
  BY <1>2, LocalObserves
<1>4. QED
  BY <1>1, <1>2, <1>3 DEF RouteInv

\* A descent observes what the child hands out.
LEMMA RouteDescend ==
  ASSUME RouteInv, NEW c, Descend(c)
  PROVE  RouteInv'
<1>1. IInv'
  BY DescendKeeps DEF RouteInv
<1>2. /\ phase = "descend" /\ program \in Programs /\ armed = {} /\ leaked = {}
      /\ MainUncalled(program) => \E next : IsSpine(program, spine, leaf, next)
      /\ Main \notin Escaped(program) /\ MainUncalled(program) => HandoutsObserved(program, spine)
  BY DEF Descend, IInv, RouteInv
<1>3. /\ program' = program /\ phase' = phase /\ armed' = armed /\ leaked' = leaked
  BY DEF Descend
<1>4. PICK h \in program.body[leaf][c].to, i \in Nodes(spine) :
        /\ spine.bounds[i].func = leaf /\ spine.bounds[i].at = c
        /\ spine' = Splice(program, spine, i, h)
  BY Zenon DEF Descend
<1>5. ASSUME Main \notin Escaped(program), MainUncalled(program) PROVE HandoutsObserved(program, spine')
  <2>1. SpinePlaces(program, spine)
    BY <1>2, <1>5, Zenon DEF IsSpine
  <2>2. leaf \in Functions /\ c \in DOMAIN program.body[leaf]
    BY <1>4, <2>1, Zenon DEF SpinePlaces
  <2>3. h \in Functions
    BY <1>2, <1>4, <2>2, ProgramFacts
  <2>4. HandoutsObserved(program, Splice(program, spine, i, h))
    BY <1>2, <1>4, <1>5, <2>1, <2>3, SpliceObserves, Zenon
  <2>5. QED
    BY <1>4, <2>4, Zenon
<1>6. QED
  BY <1>1, <1>2, <1>3, <1>5, Zenon DEF RouteInv

\* A certified program starts ahead of the publication, with no callback live.
LEMMA RouteDecide ==
  ASSUME RouteInv, Decide
  PROVE  RouteInv'
<1>1. IInv'
  BY DecideKeeps DEF RouteInv
<1>2. /\ phase = "descend" /\ program \in Programs /\ armed = {} /\ leaked = {}
      /\ MainUncalled(program) => \E next : IsSpine(program, spine, leaf, next)
      /\ Main \notin Escaped(program) /\ MainUncalled(program) => HandoutsObserved(program, spine)
  BY DEF Decide, IInv, RouteInv
<1>3. /\ certificate' = Slot
      /\ phase' = IF certificate'.ok THEN "run" ELSE "failed"
      /\ stack' = IF certificate'.ok THEN <<Entered(Main, FALSE)>> ELSE <<>>
      /\ sets' = IF certificate'.ok /\ certificate'.payload.at = <<Main, 1>> THEN 1 ELSE 0
      /\ program' = program /\ spine' = spine /\ leaf' = leaf /\ armed' = armed /\ leaked' = leaked
  BY Zenon DEF Decide
<1>4. phase' # "descend"
  BY <1>3
<1>5. ASSUME Main \notin Escaped(program), phase' = "run"
      PROVE  RouteState(program, spine, leaf, Slot.payload, stack', sets', {})
  <2>1. Slot.ok
    BY <1>3, <1>5
  <2> DEFINE P == Slot.payload.chosen
             Q == Selection.chosen
  <2>2. Admitted(program)
    BY <1>2, <2>1, SlotCertifies
  <2>3. PICK next : IsSpine(program, spine, leaf, next)
    BY <1>2, <2>2 DEF Admitted
  <2>4. /\ Selection.ok /\ Slot.payload.ok
        /\ Slot.payload = BuildPayload(program, spine, Q)
    BY <2>1, SlotPays, Zenon
  <2>5. Places(program, spine, Q, Slot.payload)
    <3> HIDE DEF Q
    <3>1. BuildPayload(program, spine, Q).ok
      BY <2>4
    <3>2. Places(program, spine, Q, BuildPayload(program, spine, Q))
      BY <3>1, PayloadLists, Zenon
    <3>3. QED
      BY <2>4, <3>2
  <2>6. P = Q /\ Slot.payload.at = <<spine.bounds[Q].func, spine.bounds[Q].at>>
    BY <2>5 DEF Places
  <2>7. Point(spine, Q) /\ Q \in Reached(spine) /\ \A o \in spine.obs : Acceptable(Dominators(spine), Q, o)
    BY <1>2, <2>3, <2>4, SelectionIsPoint DEF Selection, IsSpine
  <2> HIDE DEF P, Q
  <2>8. Settled(program, spine, Slot.payload)
    <3>1. HandoutsObserved(program, spine)
      BY <1>2, <1>5, <2>2 DEF Admitted
    <3>2. Slot.payload = BuildPayload(program, spine, P) /\ P \in Reached(spine)
          /\ \A o \in spine.obs : Acceptable(Dominators(spine), P, o)
      BY <2>4, <2>6, <2>7
    <3>3. QED
      BY <2>4, <3>1, <3>2, Zenon DEF Settled, P
  <2>9. OnTrack(program, spine, leaf, P, <<Entered(Main, FALSE)>>, ArrivesAt(spine, P, Main, 1, 0))
    BY <1>2, <1>5, <2>2, <2>3, <2>6, <2>7, StartTrack
  <2>10. stack' = <<Entered(Main, FALSE)>> /\ sets' = ArrivesAt(spine, P, Main, 1, 0)
    <3>1. stack' = <<Entered(Main, FALSE)>> /\ sets' = IF Slot.payload.at = <<Main, 1>> THEN 1 ELSE 0
      BY <1>3, <2>1
    <3>2. Slot.payload.at = <<spine.bounds[P].func, spine.bounds[P].at>>
      BY <2>6
    <3>3. ArrivesAt(spine, P, Main, 1, 0) = IF <<spine.bounds[P].func, spine.bounds[P].at>> = <<Main, 1>> THEN 1 ELSE 0
      BY DEF ArrivesAt
    <3>4. QED
      BY <3>1, <3>2, <3>3
  <2>11. Origins(program, <<Entered(Main, FALSE)>>, {})
    BY DEF Origins, Entered
  <2>12. OnTrack(program, spine, leaf, P, stack', sets') /\ Origins(program, stack', {})
    BY <2>9, <2>10, <2>11
  <2>13. QED
    BY <2>8, <2>12, Zenon DEF RouteState, P
<1>6. Main \notin Escaped(program) /\ phase' = "run" =>
        RouteState(program, spine, leaf, certificate.payload, stack, sets, armed \cup leaked)'
  <2>1. armed' \cup leaked' = {}
    BY <1>2, <1>3
  <2>2. QED
    BY <1>3, <1>5, <2>1
<1>7. QED
  BY <1>1, <1>3, <1>4, <1>6, Zenon DEF RouteInv

\* The certified program while it runs.
LEMMA RouteRunning ==
  ASSUME RouteInv, Running
  PROVE  /\ IInv /\ program \in Programs /\ armed \cup leaked \subseteq Escaped(program)
         /\ certificate.ok /\ stack # <<>> /\ stack \in Seq(Frames)
         /\ Main \notin Escaped(program) =>
              RouteState(program, spine, leaf, certificate.payload, stack, sets, armed \cup leaked)
<1>1. IInv /\ phase = "run"
  BY Zenon DEF RouteInv, Running
<1>2. /\ program \in Programs /\ armed \cup leaked \subseteq Escaped(program)
      /\ RunState(program, spine, leaf, certificate, stack, sets)
      /\ stack # <<>> /\ stack \in Seq(Frames)
  BY <1>1, RunningFacts, Zenon
<1>3. certificate.ok
  BY <1>2, Zenon DEF RunState
<1>4. Main \notin Escaped(program) =>
        RouteState(program, spine, leaf, certificate.payload, stack, sets, armed \cup leaked)
  BY <1>1, Zenon DEF RouteInv
<1>5. QED
  BY <1>1, <1>2, <1>3, <1>4, Zenon

\* A step of the certified program.
LEMMA RouteStep ==
  ASSUME RouteInv, Running, IInv', UNCHANGED <<analysisVars, phase>>,
         Main \notin Escaped(program) =>
           RouteState(program, spine, leaf, certificate.payload, stack', sets', armed' \cup leaked')
  PROVE  RouteInv'
<1>1. phase = "run"
  BY DEF Running
<1>2. /\ program' = program /\ spine' = spine /\ leaf' = leaf /\ certificate' = certificate /\ phase' = phase
  BY DEF analysisVars
<1>3. Main \notin Escaped(program') =>
        RouteState(program, spine, leaf, certificate.payload, stack, sets, armed \cup leaked)'
  BY <1>2
<1>4. phase' # "descend"
  BY <1>1, <1>2
<1>5. QED
  BY <1>3, <1>4, Zenon DEF RouteInv

\* An access, or a statement that does not concern the global.
LEMMA RouteAccess ==
  ASSUME RouteInv, Access
  PROVE  RouteInv'
<1> DEFINE ops == {"skip", "read", "write", "pread", "pwrite"}
<1>1. /\ Executing(ops) /\ Running /\ stack' = Finished(stack)
      /\ UNCHANGED <<analysisVars, phase>> /\ sets' = sets /\ armed' = armed /\ leaked' = leaked
  BY DEF Access, Executing
<1>2. IInv /\ IInv'
  BY AccessKeeps DEF RouteInv
<1>3. "call" \notin ops
  OBVIOUS
<1> HIDE DEF ops
<1>4. /\ program \in Programs /\ stack # <<>>
      /\ Main \notin Escaped(program) =>
           RouteState(program, spine, leaf, certificate.payload, stack, sets, armed \cup leaked)
  BY <1>1, RouteRunning, Zenon
<1>5. PICK w \in Frames :
        /\ Finished(stack) = Retop(stack, w) /\ ~ stack[Len(stack)].done
        /\ w.func = stack[Len(stack)].func /\ w.at = stack[Len(stack)].at /\ w.outside = stack[Len(stack)].outside
        /\ StatementAt(program, w).op \in ops
  BY <1>1, <1>2, ExecutingFacts, Zenon
<1>6. StatementAt(program, w).op # "call"
  BY <1>3, <1>5
<1>7. ASSUME Main \notin Escaped(program)
      PROVE  RouteState(program, spine, leaf, certificate.payload, Retop(stack, w), sets, armed \cup leaked)
  BY <1>4, <1>5, <1>6, <1>7, FinishRoute, Zenon
<1>8. Main \notin Escaped(program) =>
        RouteState(program, spine, leaf, certificate.payload, stack', sets', armed' \cup leaked')
  BY <1>1, <1>5, <1>7, Zenon
<1>9. QED
  BY <1>1, <1>2, <1>8, RouteStep, Zenon

\* An address is handed out, and with it to any statement of the program.
LEMMA RouteLeak ==
  ASSUME RouteInv, Leak
  PROVE  RouteInv'
<1>1. /\ Executing({"leak"}) /\ Running /\ stack' = Finished(stack)
      /\ leaked' = leaked \cup Statement(Top).to
      /\ UNCHANGED <<analysisVars, phase>> /\ sets' = sets /\ armed' = armed
  BY DEF Leak, Executing
<1>2. IInv /\ IInv'
  BY LeakKeeps DEF RouteInv
<1>3. /\ program \in Programs /\ stack # <<>>
      /\ Main \notin Escaped(program) =>
           RouteState(program, spine, leaf, certificate.payload, stack, sets, armed \cup leaked)
  BY <1>1, RouteRunning, Zenon
<1>4. PICK w \in Frames :
        /\ Finished(stack) = Retop(stack, w) /\ ~ stack[Len(stack)].done
        /\ w.func = stack[Len(stack)].func /\ w.at = stack[Len(stack)].at /\ w.outside = stack[Len(stack)].outside
        /\ Statement(Top) = StatementAt(program, w) /\ StatementAt(program, w).op \in {"leak"}
  BY <1>1, <1>2, ExecutingFacts, Zenon
<1>5. StatementAt(program, stack[Len(stack)]) = StatementAt(program, w)
  BY <1>4 DEF StatementAt
<1>6. StatementAt(program, w).op = "leak"
  BY <1>4
<1>7. ASSUME Main \notin Escaped(program)
      PROVE  RouteState(program, spine, leaf, certificate.payload, Retop(stack, w), sets, armed' \cup leaked')
  <2> DEFINE live == (armed \cup leaked) \cup StatementAt(program, w).to
  <2>1. RouteState(program, spine, leaf, certificate.payload, stack, sets, live)
    BY <1>3, <1>4, <1>5, <1>6, <1>7, HandoutRoute
  <2>2. live = armed' \cup leaked'
    BY <1>1, <1>4
  <2>3. StatementAt(program, w).op # "call"
    BY <1>6
  <2> HIDE DEF live
  <2>4. RouteState(program, spine, leaf, certificate.payload, Retop(stack, w), sets, live)
    BY <1>3, <1>4, <2>1, <2>3, FinishRoute, Zenon
  <2>5. QED
    BY <2>2, <2>4, Zenon
<1>8. Main \notin Escaped(program) =>
        RouteState(program, spine, leaf, certificate.payload, stack', sets', armed' \cup leaked')
  BY <1>1, <1>4, <1>7, Zenon
<1>9. QED
  BY <1>1, <1>2, <1>8, RouteStep, Zenon

\* A known function is called.
LEMMA RouteCall ==
  ASSUME RouteInv, Call
  PROVE  RouteInv'
<1>1. /\ Executing({"call"}) /\ Running
      /\ UNCHANGED <<analysisVars, phase>> /\ armed' = armed /\ leaked' = leaked
  BY DEF Call, Executing
<1>2. PICK h \in Statement(Top).to :
        /\ program.body[h] # <<>>
        /\ stack' = Append(Finished(stack), Entered(h, FALSE)) /\ sets' = SetsOnArrival(h, 1)
  BY Zenon DEF Call, Push
<1>3. IInv /\ IInv'
  BY CallKeeps DEF RouteInv
<1>4. /\ program \in Programs /\ stack # <<>> /\ certificate.ok
      /\ Main \notin Escaped(program) =>
           RouteState(program, spine, leaf, certificate.payload, stack, sets, armed \cup leaked)
  BY <1>1, RouteRunning, Zenon
<1>5. PICK w \in Frames :
        /\ Finished(stack) = Retop(stack, w) /\ w.done /\ ~ stack[Len(stack)].done
        /\ w.func = stack[Len(stack)].func /\ w.at = stack[Len(stack)].at /\ w.outside = stack[Len(stack)].outside
        /\ Statement(Top) = StatementAt(program, w) /\ StatementAt(program, w).op \in {"call"}
  BY <1>1, <1>3, ExecutingFacts, Zenon
<1>6. StatementAt(program, w).op = "call" /\ h \in StatementAt(program, w).to
  BY <1>2, <1>5
<1>7. ASSUME Main \notin Escaped(program)
      PROVE  RouteState(program, spine, leaf, certificate.payload,
                        Append(Retop(stack, w), Entered(h, FALSE)), CellSets(certificate, h, 1, sets), armed \cup leaked)
  BY <1>2, <1>4, <1>5, <1>6, <1>7, CallRoute, Zenon
<1>8. SetsOnArrival(h, 1) = CellSets(certificate, h, 1, sets)
  BY DEF SetsOnArrival, CellSets
<1>9. Main \notin Escaped(program) =>
        RouteState(program, spine, leaf, certificate.payload, stack', sets', armed' \cup leaked')
  BY <1>1, <1>2, <1>5, <1>7, <1>8, Zenon
<1>10. QED
  BY <1>1, <1>3, <1>9, RouteStep, Zenon

\* External code takes what it is handed, and may call back.
LEMMA RouteCallOutside ==
  ASSUME RouteInv, CallOutside
  PROVE  RouteInv'
<1>1. /\ Executing({"unknown", "register"}) /\ Running
      /\ armed' = armed \cup Statement(Top).to
      /\ \/ stack' = Finished(stack) /\ sets' = sets
         \/ \E h \in armed' \cup leaked : Push(Finished(stack), h, TRUE)
      /\ UNCHANGED <<analysisVars, phase>> /\ leaked' = leaked
  BY DEF CallOutside, Executing
<1>2. IInv /\ IInv'
  BY CallOutsideKeeps DEF RouteInv
<1>3. /\ program \in Programs /\ stack # <<>> /\ certificate.ok /\ stack \in Seq(Frames)
      /\ Main \notin Escaped(program) =>
           RouteState(program, spine, leaf, certificate.payload, stack, sets, armed \cup leaked)
  BY <1>1, RouteRunning, Zenon
<1>4. PICK w \in Frames :
        /\ Finished(stack) = Retop(stack, w) /\ ~ stack[Len(stack)].done
        /\ w.func = stack[Len(stack)].func /\ w.at = stack[Len(stack)].at /\ w.outside = stack[Len(stack)].outside
        /\ Statement(Top) = StatementAt(program, w) /\ StatementAt(program, w).op \in {"unknown", "register"}
  BY <1>1, <1>2, ExecutingFacts, Zenon
<1>5. StatementAt(program, stack[Len(stack)]) = StatementAt(program, w)
  BY <1>4 DEF StatementAt
<1>6. StatementAt(program, w).op \in {"unknown", "register", "leak"} /\ StatementAt(program, w).op # "call"
  BY <1>4
<1> DEFINE live == (armed \cup leaked) \cup StatementAt(program, w).to
<1>7. live = armed' \cup leaked'
  BY <1>1, <1>4
<1>8. ASSUME Main \notin Escaped(program)
      PROVE  RouteState(program, spine, leaf, certificate.payload, Retop(stack, w), sets, live)
  <2>1. RouteState(program, spine, leaf, certificate.payload, stack, sets, live)
    BY <1>3, <1>4, <1>5, <1>6, <1>8, HandoutRoute
  <2> HIDE DEF live
  <2>2. QED
    BY <1>3, <1>4, <1>6, <2>1, FinishRoute, Zenon
<1> HIDE DEF live
<1>9. ASSUME Main \notin Escaped(program)
      PROVE  RouteState(program, spine, leaf, certificate.payload, stack', sets', armed' \cup leaked')
  <2>1. CASE stack' = Finished(stack) /\ sets' = sets
    BY <1>4, <1>7, <1>8, <1>9, <2>1, Zenon
  <2>2. CASE \E h \in armed' \cup leaked : Push(Finished(stack), h, TRUE)
    <3>1. PICK h \in armed' \cup leaked :
            /\ program.body[h] # <<>>
            /\ stack' = Append(Finished(stack), Entered(h, TRUE)) /\ sets' = SetsOnArrival(h, 1)
      BY <2>2, Zenon DEF Push
    <3>2. armed' \cup leaked' \subseteq Escaped(program)
      <4>1. armed' \cup leaked' \subseteq Escaped(program')
        BY <1>2, Zenon DEF IInv
      <4>2. program' = program
        BY <1>1 DEF analysisVars
      <4>3. QED
        BY <4>1, <4>2, Zenon
    <3>3. h \in live /\ h \in Escaped(program)
      BY <1>1, <1>7, <3>1, <3>2
    <3>4. Retop(stack, w) # <<>>
      BY <1>3, RetopFacts, Zenon
    <3>5. RouteState(program, spine, leaf, certificate.payload, Append(Retop(stack, w), Entered(h, TRUE)),
                     CellSets(certificate, h, 1, sets), live)
      BY <1>3, <1>8, <1>9, <3>1, <3>3, <3>4, CallbackRoute, Zenon
    <3>6. SetsOnArrival(h, 1) = CellSets(certificate, h, 1, sets)
      BY DEF SetsOnArrival, CellSets
    <3>7. QED
      BY <1>4, <1>7, <3>1, <3>5, <3>6, Zenon
  <2>3. QED
    BY <1>1, <2>1, <2>2, Zenon
<1>10. QED
  BY <1>1, <1>2, <1>9, RouteStep, Zenon

\* A signal handler or another thread runs.
LEMMA RouteInterrupt ==
  ASSUME RouteInv, Interrupt
  PROVE  RouteInv'
<1>1. /\ Running /\ UNCHANGED <<analysisVars, phase>> /\ armed' = armed /\ leaked' = leaked
  BY DEF Interrupt
<1>2. PICK h \in armed :
        /\ program.body[h] # <<>>
        /\ stack' = Append(stack, Entered(h, TRUE)) /\ sets' = SetsOnArrival(h, 1)
  BY Zenon DEF Interrupt, Push
<1>3. IInv /\ IInv'
  BY InterruptKeeps DEF RouteInv
<1>4. /\ program \in Programs /\ stack # <<>> /\ certificate.ok /\ armed \cup leaked \subseteq Escaped(program)
      /\ Main \notin Escaped(program) =>
           RouteState(program, spine, leaf, certificate.payload, stack, sets, armed \cup leaked)
  BY <1>1, RouteRunning, Zenon
<1>5. h \in armed \cup leaked /\ h \in Escaped(program)
  BY <1>2, <1>4
<1>6. ASSUME Main \notin Escaped(program)
      PROVE  RouteState(program, spine, leaf, certificate.payload, Append(stack, Entered(h, TRUE)),
                        CellSets(certificate, h, 1, sets), armed \cup leaked)
  BY <1>2, <1>4, <1>5, <1>6, CallbackRoute, Zenon
<1>7. SetsOnArrival(h, 1) = CellSets(certificate, h, 1, sets)
  BY DEF SetsOnArrival, CellSets
<1>8. Main \notin Escaped(program) =>
        RouteState(program, spine, leaf, certificate.payload, stack', sets', armed' \cup leaked')
  BY <1>1, <1>2, <1>6, <1>7, Zenon
<1>9. QED
  BY <1>1, <1>3, <1>8, RouteStep, Zenon

\* The frame on top goes on to a successor of its statement.
LEMMA RouteAdvance ==
  ASSUME RouteInv, Advance
  PROVE  RouteInv'
<1>1. /\ Running /\ Top.done /\ UNCHANGED <<analysisVars, phase>> /\ armed' = armed /\ leaked' = leaked
  BY DEF Advance
<1>2. PICK i \in Statement(Top).succ :
        /\ stack' = [stack EXCEPT ![Len(stack)].at = i, ![Len(stack)].done = FALSE]
        /\ sets' = SetsOnArrival(Top.func, i)
  BY Zenon DEF Advance
<1>3. IInv /\ IInv'
  BY AdvanceKeeps DEF RouteInv
<1>4. /\ program \in Programs /\ stack # <<>> /\ certificate.ok /\ stack \in Seq(Frames)
      /\ Main \notin Escaped(program) =>
           RouteState(program, spine, leaf, certificate.payload, stack, sets, armed \cup leaked)
  BY <1>1, RouteRunning, Zenon
<1>5. Top = stack[Len(stack)] /\ Statement(Top) = StatementAt(program, stack[Len(stack)])
  BY DEF Top, Statement, StatementAt
<1>6. Top.func \in Functions /\ Top.at \in DOMAIN program.body[Top.func]
  <2>1. StackOK(program, stack)
    BY <1>1, <1>3, RunningFacts, Zenon
  <2>2. QED
    BY <1>4, <1>5, <2>1, TopPlace
<1>7. i \in Nat
  <2>1. i \in DOMAIN program.body[Top.func]
    BY <1>2, <1>4, <1>5, <1>6, ProgramFacts DEF StatementAt
  <2>2. DOMAIN program.body[Top.func] = 1 .. Len(program.body[Top.func]) /\ Len(program.body[Top.func]) \in Nat
    BY <1>4, <1>6, ProgramFacts
  <2>3. QED
    BY <2>1, <2>2
<1>8. PICK w \in Frames :
        /\ [stack EXCEPT ![Len(stack)].at = i, ![Len(stack)].done = FALSE] = Retop(stack, w)
        /\ ~ w.done /\ w.func = stack[Len(stack)].func /\ w.at = i
        /\ w.outside = stack[Len(stack)].outside
  BY <1>4, <1>7, AdvancedFacts, Zenon
<1>9. stack[Len(stack)].done /\ w.at \in StatementAt(program, stack[Len(stack)]).succ
  BY <1>1, <1>2, <1>5, <1>8, Zenon
<1>10. ASSUME Main \notin Escaped(program)
       PROVE  RouteState(program, spine, leaf, certificate.payload, Retop(stack, w),
                         CellSets(certificate, w.func, w.at, sets), armed \cup leaked)
  BY <1>4, <1>8, <1>9, <1>10, AdvanceRoute, Zenon
<1>11. SetsOnArrival(Top.func, i) = CellSets(certificate, w.func, w.at, sets)
  BY <1>5, <1>8 DEF SetsOnArrival, CellSets
<1>12. Main \notin Escaped(program) =>
        RouteState(program, spine, leaf, certificate.payload, stack', sets', armed' \cup leaked')
  BY <1>1, <1>2, <1>8, <1>10, <1>11, Zenon
<1>13. QED
  BY <1>1, <1>3, <1>12, RouteStep, Zenon

\* The frame on top returns.
LEMMA RouteReturn ==
  ASSUME RouteInv, Return
  PROVE  RouteInv'
<1>1. /\ Running /\ Top.done /\ Statement(Top).succ = {} /\ stack' = SubSeq(stack, 1, Len(stack) - 1)
      /\ UNCHANGED <<analysisVars, phase>> /\ sets' = sets /\ armed' = armed /\ leaked' = leaked
  BY DEF Return
<1>2. IInv /\ IInv'
  BY ReturnKeeps DEF RouteInv
<1>3. /\ program \in Programs /\ stack # <<>>
      /\ Main \notin Escaped(program) =>
           RouteState(program, spine, leaf, certificate.payload, stack, sets, armed \cup leaked)
  BY <1>1, RouteRunning, Zenon
<1>4. Top = stack[Len(stack)] /\ Statement(Top) = StatementAt(program, stack[Len(stack)])
  BY DEF Top, Statement, StatementAt
<1>5. ASSUME Main \notin Escaped(program)
      PROVE  RouteState(program, spine, leaf, certificate.payload, SubSeq(stack, 1, Len(stack) - 1), sets, armed \cup leaked)
  BY <1>1, <1>3, <1>4, <1>5, ReturnRoute, Zenon
<1>6. Main \notin Escaped(program) =>
        RouteState(program, spine, leaf, certificate.payload, stack', sets', armed' \cup leaked')
  BY <1>1, <1>5, Zenon
<1>7. QED
  BY <1>1, <1>2, <1>6, RouteStep, Zenon

\* Every step keeps the invariant.
LEMMA RouteNext == RouteInv /\ [Next]_vars => RouteInv'
<1> SUFFICES ASSUME RouteInv, [Next]_vars PROVE RouteInv'
  OBVIOUS
<1>1. CASE UNCHANGED vars
  <2>1. /\ program' = program /\ phase' = phase /\ spine' = spine /\ leaf' = leaf /\ certificate' = certificate
        /\ stack' = stack /\ sets' = sets /\ armed' = armed /\ leaked' = leaked
    BY <1>1 DEF vars, analysisVars
  <2>2. IInv'
    BY <1>1, NextKeeps DEF RouteInv
  <2>3. QED
    BY <2>1, <2>2 DEF RouteInv
<1>2. ASSUME NEW c, Descend(c) PROVE RouteInv'
  BY <1>2, RouteDescend
<1>3. CASE Decide
  BY <1>3, RouteDecide
<1>4. CASE Access
  BY <1>4, RouteAccess
<1>5. CASE Call
  BY <1>5, RouteCall
<1>6. CASE CallOutside
  BY <1>6, RouteCallOutside
<1>7. CASE Leak
  BY <1>7, RouteLeak
<1>8. CASE Interrupt
  BY <1>8, RouteInterrupt
<1>9. CASE Advance
  BY <1>9, RouteAdvance
<1>10. CASE Return
  BY <1>10, RouteReturn
<1>11. QED
  BY <1>1, <1>2, <1>3, <1>4, <1>5, <1>6, <1>7, <1>8, <1>9, <1>10, Zenon DEF Next

(***************************************************************************)
(* Where an access runs                                                    *)
(***************************************************************************)

\* What has been passed does not come before P, and what is ahead does not
\* follow it.
LEMMA PassedSides ==
  ASSUME NEW sp, SpineEdges(sp), 1 \in Nodes(sp), NEW P, Point(sp, P), NEW n \in Nodes(sp)
  PROVE  /\ n = P \/ n \in Later(sp, P) => ~ Before(Dominators(sp), P, n)
         /\ n \in Early(sp, P) => ~ Following(Dominators(sp), P, n)
<1>1. ASSUME n \in Later(sp, P), <<n, P>> \in Dominators(sp) PROVE FALSE
  <2>1. PICK k \in sp.bounds[P].succ : n \in After(sp, k)
    BY <1>1 DEF Later
  <2>2. k \in Nodes(sp) /\ ~ Cyclic(sp, P)
    BY DEF Point, SpineEdges
  <2>3. \A x \in After(sp, k) : sp.bounds[x].succ \subseteq After(sp, k)
    BY <2>2, AfterCloses
  <2>4. After(sp, n) \subseteq After(sp, k)
    BY <2>1, <2>3, AfterLeast
  <2>5. P \in After(sp, n)
    BY <1>1, DominatedAfter
  <2>6. QED
    BY <2>1, <2>2, <2>4, <2>5 DEF Cyclic
<1>2. QED
  BY <1>1 DEF Before, Following, Early

\* Every frame is at a boundary of its function.
LEMMA StackPlaces ==
  ASSUME NEW p, NEW st, StackOK(p, st)
  PROVE  /\ Len(st) \in Nat /\ DOMAIN st = 1 .. Len(st)
         /\ \A i \in DOMAIN st : st[i].func \in Functions /\ st[i].at \in DOMAIN p.body[st[i].func]
<1>1. st \in Seq(Frames) /\ \A i \in DOMAIN st : st[i].at \in DOMAIN p.body[st[i].func]
  BY DEF StackOK
<1>2. Len(st) \in Nat /\ DOMAIN st = 1 .. Len(st) /\ \A i \in DOMAIN st : st[i] \in Frames
  BY <1>1
<1>3. \A w \in Frames : w.func \in Functions
  BY DEF Frames
<1>4. QED
  BY <1>1, <1>2, <1>3

\* Frames that call each other stay in a set that is closed under calls.
LEMMA Chain ==
  ASSUME NEW p \in Programs, NEW st, StackOK(p, st), NEW live, Origins(p, st, live), NEW j \in DOMAIN st,
         NEW R, NEW X, st[j].func \in R, \A x \in R : Calls(p, x) \ X \subseteq R,
         \A i \in DOMAIN st : i > j => ~ st[i].outside /\ st[i].func \notin X
  PROVE  \A i \in DOMAIN st : i >= j => st[i].func \in R
<1> DEFINE S == {d \in Nat : j + d \in DOMAIN st => st[j + d].func \in R}
<1>1. /\ Len(st) \in Nat /\ DOMAIN st = 1 .. Len(st)
      /\ \A i \in DOMAIN st : st[i].func \in Functions /\ st[i].at \in DOMAIN p.body[st[i].func]
  BY StackPlaces
<1>2. j \in Nat \ {0}
  BY <1>1
<1>3. 0 \in S
  BY <1>2
<1>4. ASSUME NEW d \in Nat, d \in S, j + (d + 1) \in DOMAIN st PROVE st[j + (d + 1)].func \in R
  <2> DEFINE i == j + (d + 1)
  <2>1. i \in DOMAIN st /\ i > 1 /\ i > j /\ i - 1 = j + d /\ i - 1 \in DOMAIN st
    BY <1>1, <1>2, <1>4
  <2>2. st[i - 1].func \in R
    BY <1>4, <2>1
  <2> HIDE DEF i
  <2>3. ~ st[i].outside /\ st[i].func \notin X
    BY <2>1
  <2>4. CalledBy(p, st[i - 1], st[i])
    BY <2>1, <2>3 DEF Origins
  <2>5. st[i].func \in Calls(p, st[i - 1].func)
    <3> DEFINE f == st[i - 1].func
               s == p.body[f][st[i - 1].at]
    <3>1. s \in Statements(p, f)
      BY <1>1, <2>1 DEF Statements
    <3>2. s.op = "call" /\ st[i].func \in s.to
      BY <2>4 DEF CalledBy, StatementAt
    <3> HIDE DEF f, s
    <3>3. st[i].func \in Calls(p, f)
      BY <3>1, <3>2 DEF Calls
    <3>4. QED
      BY <3>3 DEF f
  <2>6. QED
    BY <2>2, <2>3, <2>5 DEF i
<1>5. Nat \subseteq S
  <2>1. \A d \in Nat : d \in S => d + 1 \in S
    BY <1>4
  <2> HIDE DEF S
  <2>2. QED
    BY <1>3, <2>1, NaturalsBySuccessor
<1>6. ASSUME NEW i \in DOMAIN st, i >= j PROVE st[i].func \in R
  <2>1. i - j \in Nat /\ j + (i - j) = i
    BY <1>1, <1>2, <1>6
  <2>2. i - j \in S
    BY <1>5, <2>1
  <2>3. QED
    BY <2>1, <2>2
<1>7. QED
  BY <1>6

\* Before the cell is set no access runs below a callback that only statements
\* of the spine hand out.
LEMMA NoCallbackAccess ==
  ASSUME NEW p \in Programs, NEW sp, NEW last, NEW pay, NEW st, NEW live,
         RouteState(p, sp, last, pay, st, 0, live), live \subseteq Escaped(p), st # <<>>,
         StatementAt(p, st[Len(st)]).op \in Reads \cup Writes,
         \A i \in DOMAIN st : st[i].outside => ~ HandedOff(p, sp, st[i].func)
  PROVE  \A i \in DOMAIN st : ~ st[i].outside
<1> DEFINE L == Len(st)
           S == {d \in Nat : L - d \in DOMAIN st /\ st[L - d].outside}
<1>1. /\ OnTrack(p, sp, last, pay.chosen, st, 0) /\ Origins(p, st, live)
      /\ \A h \in live : HandedOff(p, sp, h) \/ ~ TransRef(p, h)
  BY Zenon DEF RouteState
<1>2. Admitted(p) /\ StackOK(p, st)
  BY <1>1, Zenon DEF OnTrack, RunsOn
<1>3. /\ L \in Nat \ {0} /\ DOMAIN st = 1 .. L
      /\ st[L].func \in Functions /\ st[L].at \in DOMAIN p.body[st[L].func]
  BY <1>2, TopPlace
<1> SUFFICES ASSUME NEW i0 \in DOMAIN st, st[i0].outside PROVE FALSE
  OBVIOUS
<1>4. L - i0 \in S
  BY <1>3
<1>5. PICK d \in S : \A e \in S : d <= e
  <2>1. S \in SUBSET Nat
    OBVIOUS
  <2> HIDE DEF S
  <2>2. QED
    BY <1>4, <2>1, LeastNatural
<1> DEFINE j == L - d
           h == st[j].func
           R == Reachable(p, {h}, {})
<1>6. j \in DOMAIN st /\ st[j].outside
  BY <1>5
<1>7. ASSUME NEW i \in DOMAIN st, i > j PROVE ~ st[i].outside
  <2>1. L - i \in Nat /\ L - (L - i) = i /\ L - i < d /\ d \in Nat
    BY <1>3, <1>5, <1>7
  <2>2. L - i \notin S
    BY <1>5, <2>1
  <2>3. QED
    BY <2>1, <2>2
<1> HIDE DEF S, j
<1>8. h \in live /\ h \in Functions /\ ~ HandedOff(p, sp, h)
  <2>1. h \in live
    BY <1>1, <1>6 DEF Origins
  <2>2. st[j] \in Frames
    BY <1>2, <1>6 DEF StackOK
  <2>3. QED
    BY <1>6, <2>1, <2>2 DEF Frames
<1>9. ~ TransRef(p, h) /\ ~ TransMod(p, h)
  <2>1. ~ TransRef(p, h)
    BY <1>1, <1>8
  <2>2. h \in Escaped(p)
    BY <1>8
  <2>3. ~ TransMod(p, h)
    BY <1>2, <2>2 DEF Admitted
  <2>4. QED
    BY <2>1, <2>3
<1> HIDE DEF h
<1>10. h \in R /\ \A x \in R : Calls(p, x) \subseteq R
  BY <1>8, ReachableCloses
<1> HIDE DEF R
<1> DEFINE X == {}
<1>11. /\ st[j].func \in R /\ \A x \in R : Calls(p, x) \ X \subseteq R
       /\ \A i \in DOMAIN st : i > j => ~ st[i].outside /\ st[i].func \notin X
  BY <1>7, <1>10 DEF h
<1> HIDE DEF X
<1>12. \A i \in DOMAIN st : i >= j => st[i].func \in R
  BY <1>1, <1>2, <1>6, <1>11, Chain
<1>13. st[L].func \in R
  BY <1>3, <1>6, <1>12
<1>14. p.body[st[L].func][st[L].at] \in Statements(p, st[L].func)
  BY <1>3 DEF Statements
<1>15. p.body[st[L].func][st[L].at].op \in Reads \cup Writes
  BY DEF StatementAt
<1>16. TransRef(p, h) \/ TransMod(p, h)
  <2> DEFINE s == p.body[st[L].func][st[L].at]
             f == st[L].func
  <2>1. f \in R /\ s \in Statements(p, f) /\ s.op \in Reads \cup Writes
    BY <1>13, <1>14, <1>15
  <2> HIDE DEF s, f
  <2>2. \A ops : s.op \in ops => Transitive(p, h, ops)
    BY <2>1 DEF Transitive, R
  <2>3. QED
    BY <2>1, <2>2 DEF TransRef, TransMod, Reads, Writes
<1>17. QED
  BY <1>9, <1>16

\* Frames above the spine run on the side of P that the spine calls them from,
\* which is ahead of P until the cell is set and not before P once it is.
BelowSpine(p, sp, P, st, k, m) ==
  \E n \in Nodes(sp) :
    /\ sp.bounds[n].func = st[m].func /\ sp.bounds[n].at = st[m].at
    /\ IF k = 0 THEN ~ Following(Dominators(sp), P, n) ELSE ~ Before(Dominators(sp), P, n)
    /\ \A j \in DOMAIN st : j > m => st[j].func \in SideReach(p, sp, P, n)
    /\ Before(Dominators(sp), P, n) =>
         <<st[m + 1].func, st[m].func, st[m].at>> \in PhaseReach(p, sp, Dominators(sp), P).sites

\* So it is of whatever runs above the spine and below no callback.
LEMMA SpineCalls ==
  ASSUME NEW p \in Programs, NEW sp, NEW last, NEW next, NEW P, NEW st, NEW k, NEW m, NEW live,
         RunsOn(p, sp, last, next, P, st, k, m), k = 0 => Unpassed(p, sp, next, P, st), Origins(p, st, live),
         m \in Nat \ {0}, m < Len(st), \A j \in DOMAIN st : j > m => ~ st[j].outside
  PROVE  BelowSpine(p, sp, P, st, k, m)
<1> DEFINE X == SpineFunctions(sp)
           caller == st[m]
           h == st[m + 1].func
<1>1. /\ IsSpine(p, sp, last, next) /\ Point(sp, P) /\ StackOK(p, st) /\ RunsTo(p, sp, next, P, st, k, m)
      /\ SpinePlaces(p, sp) /\ SpineEdges(sp)
  BY Zenon DEF RunsOn, IsSpine, SpinePlaces
<1>2. /\ Len(st) \in Nat /\ DOMAIN st = 1 .. Len(st)
      /\ \A i \in DOMAIN st : st[i].func \in Functions /\ st[i].at \in DOMAIN p.body[st[i].func]
  BY <1>1, StackPlaces
<1>3. /\ k \in {0, 1} /\ \A j \in DOMAIN st : st[j].func \in X <=> j <= m
      /\ k = 1 => Passed(p, sp, next, P, caller)
  BY <1>1 DEF RunsTo
<1>4. m \in DOMAIN st /\ m + 1 \in DOMAIN st
  BY <1>2
<1> HIDE DEF X
<1>5. caller.func \in X /\ h \notin X
  BY <1>3, <1>4
<1>6. caller.done /\ StatementAt(p, caller).op = "call" /\ h \in StatementAt(p, caller).to
  <2>1. ~ st[m + 1].outside /\ m + 1 > 1 /\ (m + 1) - 1 = m
    BY <1>4
  <2>2. CalledBy(p, st[(m + 1) - 1], st[m + 1])
    BY <1>4, <2>1 DEF Origins
  <2>3. QED
    BY <2>1, <2>2 DEF CalledBy
<1>7. PICK n \in Nodes(sp) : sp.bounds[n].func = caller.func /\ sp.bounds[n].at = caller.at
  BY <1>1, <1>2, <1>4, <1>5, PlaceOf DEF X
<1>8. StatementAt(p, sp.bounds[n]) = StatementAt(p, caller)
  BY <1>7 DEF StatementAt
<1> HIDE DEF caller, h
<1>9. ~ Gate(p, sp, n)
  BY <1>1, <1>5, <1>6, <1>8, NoGate DEF X
<1>10. 1 \in Nodes(sp)
  BY <1>1, <1>7 DEF SpineEdges, Nodes
<1>11. IF k = 0 THEN ~ Following(Dominators(sp), P, n) ELSE ~ Before(Dominators(sp), P, n)
  <2>1. CASE k = 0
    <3>1. \A i \in DOMAIN st : i > m => st[i].func \notin SpineFunctions(sp)
      BY <1>2, <1>3, <1>4 DEF X
    <3>2. st[m].func \in SpineFunctions(sp)
      BY <1>5 DEF X, caller
    <3>3. Ahead(p, sp, next, P, caller)
      BY <1>4, <2>1, <3>1, <3>2, Zenon DEF Unpassed, caller
    <3>4. IF Gate(p, sp, n) /\ caller.done THEN next[n] \subseteq Early(sp, P) \cup {P} ELSE n \in Early(sp, P)
      BY <1>1, <1>7, <3>3, PlaceAhead, Zenon
    <3>5. QED
      BY <1>1, <1>9, <1>10, <2>1, <3>4, PassedSides
  <2>2. CASE k = 1
    <3>1. IF Gate(p, sp, n) /\ caller.done THEN next[n] \subseteq Later(sp, P) ELSE n = P \/ n \in Later(sp, P)
      BY <1>1, <1>3, <1>7, <2>2, PlacePassed, Zenon
    <3>2. QED
      BY <1>1, <1>9, <1>10, <2>2, <3>1, PassedSides
  <2>3. QED
    BY <1>3, <2>1, <2>2
<1> DEFINE R == SideReach(p, sp, P, n)
<1>12. /\ h \in R
       /\ \A x \in R : Calls(p, x) \ X \subseteq R
       /\ Before(Dominators(sp), P, n) =>
            <<h, sp.bounds[n].func, sp.bounds[n].at>> \in PhaseReach(p, sp, Dominators(sp), P).sites
  BY <1>1, <1>5, <1>6, <1>8, SideCloses, Zenon DEF X
<1> HIDE DEF R
<1>13. \A i \in DOMAIN st : i > m + 1 => ~ st[i].outside /\ st[i].func \notin X
  BY <1>2, <1>3, <1>4
<1>14. \A i \in DOMAIN st : i >= m + 1 => st[i].func \in R
  BY <1>1, <1>4, <1>12, <1>13, Chain DEF h
<1>15. \A i \in DOMAIN st : i > m => st[i].func \in R
  BY <1>2, <1>14
<1>16. QED
  BY <1>7, <1>11, <1>12, <1>15 DEF BelowSpine, R, h, caller

\* The statement the program is at, as an access.
Accessing(st) == <<st[Len(st)].func, st[Len(st)].at>>

\* It is one of the boundaries that hold such an operation.
LEMMA AccessBounds ==
  ASSUME NEW p, NEW st, StackOK(p, st), st # <<>>, NEW ops, StatementAt(p, st[Len(st)]).op \in ops
  PROVE  Accessing(st) \in Boundaries(p, ops)
<1> DEFINE f == st[Len(st)].func
           i == st[Len(st)].at
<1>1. f \in Functions /\ i \in DOMAIN p.body[f]
  BY TopPlace
<1>2. p.body[f][i].op \in ops
  BY DEF StatementAt
<1> HIDE DEF f, i
<1>3. i \in {j \in DOMAIN p.body[f] : p.body[f][j].op \in ops}
  BY <1>1, <1>2
<1>4. <<f, i>> \in {<<f, x>> : x \in {j \in DOMAIN p.body[f] : p.body[f][j].op \in ops}}
  BY <1>3
<1>5. <<f, i>> \in Boundaries(p, ops)
  BY <1>1, <1>4, Zenon DEF Boundaries
<1>6. QED
  BY <1>5 DEF f, i, Accessing

\* On the spine an access runs on the side of P the payload counts it on.
LEMMA SpineSide ==
  ASSUME NEW p \in Programs, NEW sp, NEW last, NEW pay, NEW st, NEW k, NEW live,
         RouteState(p, sp, last, pay, st, k, live), st # <<>>, ~ st[Len(st)].done,
         StatementAt(p, st[Len(st)]).op \in Reads \cup Writes, OneSided(p, sp, pay.chosen),
         st[Len(st)].func \in SpineFunctions(sp)
  PROVE  IF k = 0 THEN PlaceIn(p, sp, pay.chosen, Accessing(st)).before
                  ELSE PlaceIn(p, sp, pay.chosen, Accessing(st)).after
<1> DEFINE P == pay.chosen
           top == st[Len(st)]
           a == Accessing(st)
<1>1. Settled(p, sp, pay) /\ OnTrack(p, sp, last, P, st, k)
  BY Zenon DEF RouteState
<1> HIDE DEF P
<1>2. PICK next, m : RunsOn(p, sp, last, next, P, st, k, m) /\ (k = 0 => Unpassed(p, sp, next, P, st))
  BY <1>1, Zenon DEF OnTrack
<1>3. /\ IsSpine(p, sp, last, next) /\ Point(sp, P) /\ StackOK(p, st)
      /\ SpinePlaces(p, sp) /\ SpineEdges(sp)
  BY <1>2, Zenon DEF RunsOn, IsSpine, SpinePlaces
<1>4. top.func \in Functions /\ top.at \in DOMAIN p.body[top.func]
  BY <1>3, TopPlace
<1>5. PICK n \in Nodes(sp) : sp.bounds[n].func = top.func /\ sp.bounds[n].at = top.at
  BY <1>3, <1>4, PlaceOf
<1>6. 1 \in Nodes(sp)
  BY <1>3, <1>5 DEF SpineEdges, Nodes
<1>7. IF k = 0 THEN ~ Following(Dominators(sp), P, n) ELSE ~ Before(Dominators(sp), P, n)
  <2>1. CASE k = 0
    <3>1. Ahead(p, sp, next, P, top)
      BY <1>2, <1>3, <2>1, TopAhead
    <3>2. IF Gate(p, sp, n) /\ top.done THEN next[n] \subseteq Early(sp, P) \cup {P} ELSE n \in Early(sp, P)
      BY <1>3, <1>5, <3>1, PlaceAhead, Zenon
    <3>3. n \in Early(sp, P)
      BY <3>2
    <3>4. QED
      BY <1>3, <1>6, <2>1, <3>3, PassedSides
  <2>2. CASE k # 0
    <3>1. OnTop(p, sp, next, P, st, k, m)
      BY <1>2, TopFrame
    <3>2. Passed(p, sp, next, P, top)
      BY <2>2, <3>1 DEF OnTop
    <3>3. IF Gate(p, sp, n) /\ top.done THEN next[n] \subseteq Later(sp, P) ELSE n = P \/ n \in Later(sp, P)
      BY <1>3, <1>5, <3>2, PlacePassed, Zenon
    <3>4. n = P \/ n \in Later(sp, P)
      BY <3>3
    <3>5. QED
      BY <1>3, <1>6, <2>2, <3>4, PassedSides
  <2>3. QED
    BY <2>1, <2>2
<1>8. a = <<sp.bounds[n].func, sp.bounds[n].at>>
  BY <1>5 DEF Accessing
<1>9. /\ PlaceIn(p, sp, P, a).before <=> Before(Dominators(sp), P, n)
      /\ PlaceIn(p, sp, P, a).after <=> Following(Dominators(sp), P, n)
      /\ PlaceIn(p, sp, P, a).incomparable <=> ~ Before(Dominators(sp), P, n) /\ ~ Following(Dominators(sp), P, n)
  BY <1>3, <1>8, SpineAccess, Zenon DEF P
<1>10. a \in Boundaries(p, Reads) \/ a \in Boundaries(p, Writes)
  BY <1>3, AccessBounds
<1> HIDE DEF a
<1>11. ~ PlaceIn(p, sp, P, a).incomparable
  BY <1>1, <1>10, SettledPlaces DEF Lists, P
<1>12. QED
  BY <1>7, <1>9, <1>11 DEF P, a

\* The frames above the spine are all of the early side, and their entry is listed.
Carried(p, sp, P, pay, st) ==
  \E m \in Nat \ {0} :
    /\ m < Len(st)
    /\ \A j \in DOMAIN st : st[j].func \in SpineFunctions(sp) <=> j <= m
    /\ \A j \in DOMAIN st : j > m => st[j].func \in PreReach(p, sp, P)
    /\ <<st[m + 1].func, st[m].func, st[m].at>> \in pay.sites

\* Off the spine too an access runs on the side it is counted on, below no
\* callback; before the cell is set what leads to it is carried.
LEMMA OffSpineSide ==
  ASSUME NEW p \in Programs, NEW sp, NEW last, NEW pay, NEW st, NEW k, NEW live,
         RouteState(p, sp, last, pay, st, k, live), st # <<>>,
         StatementAt(p, st[Len(st)]).op \in Reads \cup Writes,
         st[Len(st)].func \notin SpineFunctions(sp), \A i \in DOMAIN st : ~ st[i].outside
  PROVE  IF k = 0 THEN PlaceIn(p, sp, pay.chosen, Accessing(st)).before /\ Carried(p, sp, pay.chosen, pay, st)
                  ELSE PlaceIn(p, sp, pay.chosen, Accessing(st)).after
<1> DEFINE P == pay.chosen
           L == Len(st)
           a == Accessing(st)
           reach == PhaseReach(p, sp, Dominators(sp), P)
<1>1. Settled(p, sp, pay) /\ OnTrack(p, sp, last, P, st, k) /\ Origins(p, st, live)
  BY Zenon DEF RouteState
<1> HIDE DEF P
<1>2. PICK next, m : RunsOn(p, sp, last, next, P, st, k, m) /\ (k = 0 => Unpassed(p, sp, next, P, st))
  BY <1>1, Zenon DEF OnTrack
<1>3. /\ IsSpine(p, sp, last, next) /\ Point(sp, P) /\ StackOK(p, st) /\ RunsTo(p, sp, next, P, st, k, m)
      /\ SpinePlaces(p, sp) /\ SpineEdges(sp)
  BY <1>2, Zenon DEF RunsOn, IsSpine, SpinePlaces
<1>4. L \in Nat \ {0} /\ DOMAIN st = 1 .. L
  BY <1>3, TopPlace
<1>5. m \in Nat /\ m <= L /\ \A j \in DOMAIN st : st[j].func \in SpineFunctions(sp) <=> j <= m
  BY <1>3 DEF RunsTo
<1>6. m < L
  BY <1>4, <1>5
<1>7. m # 0
  <2>1. 1 \in Nodes(sp)
    BY <1>3 DEF Point, SpineEdges, Nodes
  <2>2. sp.bounds[1].func = Main
    BY <1>3, <2>1 DEF SpinePlaces
  <2>3. st[1].func = Main
    BY <1>3 DEF StackOK
  <2>4. st[1].func \in SpineFunctions(sp)
    BY <2>1, <2>2, <2>3 DEF SpineFunctions
  <2>5. QED
    BY <1>4, <1>5, <2>4
<1>8. BelowSpine(p, sp, P, st, k, m)
  BY <1>1, <1>2, <1>5, <1>6, <1>7, SpineCalls
<1>9. PICK n \in Nodes(sp) :
        /\ IF k = 0 THEN ~ Following(Dominators(sp), P, n) ELSE ~ Before(Dominators(sp), P, n)
        /\ \A j \in DOMAIN st : j > m => st[j].func \in SideReach(p, sp, P, n)
        /\ Before(Dominators(sp), P, n) => <<st[m + 1].func, st[m].func, st[m].at>> \in reach.sites
  BY <1>8, Zenon DEF BelowSpine
<1>10. a[1] \in SideReach(p, sp, P, n) /\ a[1] \notin SpineFunctions(sp)
  BY <1>4, <1>6, <1>9 DEF Accessing
<1>11. a \in Boundaries(p, Reads) \/ a \in Boundaries(p, Writes)
  BY <1>3, AccessBounds
<1> HIDE DEF a
<1>12. ~ PlaceIn(p, sp, P, a).incomparable
  BY <1>1, <1>11, SettledPlaces DEF Lists, P
<1> HIDE DEF reach
<1>13. /\ PlaceIn(p, sp, P, a).before <=> a[1] \in reach.pre
       /\ PlaceIn(p, sp, P, a).after <=> a[1] \in reach.post \/ a[1] \in Escaped(p)
       /\ PlaceIn(p, sp, P, a).incomparable <=> a[1] \in reach.incomparable
  BY <1>10, OffSpineAccess, Zenon DEF reach
<1>14. SideReach(p, sp, P, n) =
         IF Before(Dominators(sp), P, n) THEN reach.pre
         ELSE IF Following(Dominators(sp), P, n) THEN reach.post ELSE reach.incomparable
  BY Zenon DEF SideReach, reach
<1>15. CASE k = 0
  <2>1. Before(Dominators(sp), P, n) /\ SideReach(p, sp, P, n) = reach.pre
    BY <1>9, <1>10, <1>12, <1>13, <1>14, <1>15
  <2>2. pay.sites = reach.sites
    <3>1. Places(p, sp, P, pay)
      BY <1>1, SettledPlaces, Zenon DEF P
    <3>2. QED
      BY <3>1, Zenon DEF Places, reach
  <2>3. <<st[m + 1].func, st[m].func, st[m].at>> \in pay.sites
    BY <1>9, <2>1, <2>2
  <2>4. \A j \in DOMAIN st : j > m => st[j].func \in PreReach(p, sp, P)
    BY <1>9, <2>1 DEF PreReach, reach
  <2>5. Carried(p, sp, P, pay, st)
    BY <1>5, <1>6, <1>7, <2>3, <2>4, Zenon DEF Carried
  <2>6. QED
    BY <1>10, <1>13, <1>15, <2>1, <2>5 DEF P, a
<1>16. CASE k # 0
  BY <1>9, <1>10, <1>12, <1>13, <1>14, <1>16 DEF P, a
<1>17. QED
  BY <1>15, <1>16

(***************************************************************************)
(* What the invariant says of accesses                                     *)
(***************************************************************************)

\* The access about to run, in a program whose callbacks are foreseen.
LEMMA AccessRoute ==
  ASSUME RouteInv, NEW ops, Executing(ops), Foreseen
  PROVE  /\ program \in Programs /\ stack # <<>> /\ StackOK(program, stack)
         /\ ~ stack[Len(stack)].done /\ StatementAt(program, stack[Len(stack)]).op \in ops
         /\ sets \in {0, 1} /\ armed \cup leaked \subseteq Escaped(program)
         /\ \A i \in DOMAIN stack : stack[i].outside => ~ HandedOff(program, spine, stack[i].func)
         /\ RouteState(program, spine, leaf, certificate.payload, stack, sets, armed \cup leaked)
<1>1. Running /\ ~ Top.done /\ Statement(Top).op \in ops
  BY DEF Executing
<1>2. Main \notin Escaped(program) /\ \A i \in DOMAIN stack : stack[i].outside => ~ HandedOutOffSpine(stack[i].func)
  BY DEF Foreseen
<1>3. /\ program \in Programs /\ armed \cup leaked \subseteq Escaped(program) /\ stack # <<>>
      /\ RouteState(program, spine, leaf, certificate.payload, stack, sets, armed \cup leaked)
  BY <1>1, <1>2, RouteRunning, Zenon
<1>4. StackOK(program, stack) /\ sets \in {0, 1}
  BY <1>3, RouteFacts, Zenon
<1>5. ~ stack[Len(stack)].done /\ StatementAt(program, stack[Len(stack)]).op \in ops
  BY <1>1 DEF Top, Statement, StatementAt
<1>6. \A h : HandedOutOffSpine(h) <=> HandedOff(program, spine, h)
  BY Zenon DEF HandedOutOffSpine, HandedOff
<1>7. QED
  BY <1>2, <1>3, <1>4, <1>5, <1>6, Zenon

\* Reads are on their side of the publication.
LEMMA InvariantPhased == RouteInv => ReadsPhased
<1> SUFFICES ASSUME RouteInv, Executing({"read", "pread"}), Foreseen, Undivided
             PROVE  EarlyReadRouted /\ LateReadCounted
  BY Zenon DEF ReadsPhased
<1> DEFINE pay == certificate.payload
           P == pay.chosen
           live == armed \cup leaked
           a == Accessing(stack)
<1>1. Executing(Reads)
  BY DEF Reads
<1>2. /\ program \in Programs /\ stack # <<>> /\ StackOK(program, stack)
      /\ ~ stack[Len(stack)].done /\ StatementAt(program, stack[Len(stack)]).op \in Reads
      /\ sets \in {0, 1} /\ live \subseteq Escaped(program)
      /\ \A i \in DOMAIN stack : stack[i].outside => ~ HandedOff(program, spine, stack[i].func)
      /\ RouteState(program, spine, leaf, pay, stack, sets, live)
  BY <1>1, AccessRoute, Zenon
<1>3. Len(stack) \in Nat \ {0} /\ DOMAIN stack = 1 .. Len(stack)
  BY <1>2, TopPlace
<1>4. OneSided(program, spine, P)
  BY DEF Undivided, OneSided, StatementAt
<1> HIDE DEF live
<1>5. Settled(program, spine, pay) /\ Origins(program, stack, live)
  BY <1>2, Zenon DEF RouteState
<1>6. a \in Boundaries(program, Reads) /\ a = <<Top.func, Top.at>>
  BY <1>2, AccessBounds DEF Accessing, Top
<1>7. /\ PlaceIn(program, spine, P, a).before => Site(Top) \in pay.preReaders
      /\ PlaceIn(program, spine, P, a).after => Top.func \in pay.post
  <2>1. Lists(program, spine, P, pay)
    BY <1>5, SettledPlaces, Zenon
  <2>2. /\ PlaceIn(program, spine, P, a).before => <<a[1], program.body[a[1]][a[2]].loc>> \in pay.preReaders
        /\ PlaceIn(program, spine, P, a).after => a[1] \in pay.post
    BY <1>6, <2>1, Zenon DEF Lists
  <2>3. a[1] = Top.func /\ a[2] = Top.at
    BY <1>6
  <2>4. QED
    BY <2>2, <2>3 DEF Site, Statement
<1>8. StatementAt(program, stack[Len(stack)]).op \in Reads \cup Writes
  BY <1>2
<1> HIDE DEF pay, P, a
<1>9. CASE Top.func \in SpineFunctions(spine)
  <2>1. stack[Len(stack)].func \in SpineFunctions(spine)
    BY <1>9 DEF Top
  <2>2. IF sets = 0 THEN PlaceIn(program, spine, P, a).before ELSE PlaceIn(program, spine, P, a).after
    BY <1>2, <1>4, <1>8, <2>1, SpineSide, Zenon DEF P, a
  <2>3. QED
    BY <1>2, <1>7, <2>2 DEF EarlyReadRouted, LateReadCounted, Published, pay
<1>10. CASE Top.func \notin SpineFunctions(spine)
  <2>1. stack[Len(stack)].func \notin SpineFunctions(spine)
    BY <1>10 DEF Top
  <2>2. ASSUME \A i \in DOMAIN stack : ~ stack[i].outside
        PROVE  IF sets = 0 THEN PlaceIn(program, spine, P, a).before ELSE PlaceIn(program, spine, P, a).after
    BY <1>2, <1>8, <2>1, <2>2, OffSpineSide, Zenon DEF P, a
  <2>3. ASSUME sets = 0 PROVE PlaceIn(program, spine, P, a).before
    <3>1. RouteState(program, spine, leaf, pay, stack, 0, live)
      BY <1>2, <2>3
    <3>2. \A i \in DOMAIN stack : ~ stack[i].outside
      BY <1>2, <1>8, <3>1, NoCallbackAccess, Zenon
    <3>3. QED
      BY <2>2, <2>3, <3>2
  <2>4. ASSUME sets # 0, \A i \in DOMAIN stack : stack[i].outside => i = Len(stack)
        PROVE  PlaceIn(program, spine, P, a).after
    <3>1. CASE stack[Len(stack)].outside
      <4>1. Top.func \in Escaped(program)
        BY <1>2, <1>3, <1>5, <3>1 DEF Origins, Top
      <4>2. a[1] = Top.func
        BY <1>6
      <4>3. a[1] \notin SpineFunctions(spine) /\ a[1] \in Escaped(program)
        BY <1>10, <4>1, <4>2
      <4>4. PlaceIn(program, spine, P, a).after <=>
              a[1] \in PhaseReach(program, spine, Dominators(spine), P).post \/ a[1] \in Escaped(program)
        BY <4>3, OffSpineAccess, Zenon
      <4>5. QED
        BY <4>3, <4>4
    <3>2. CASE ~ stack[Len(stack)].outside
      <4>1. \A i \in DOMAIN stack : ~ stack[i].outside
        BY <2>4, <3>2
      <4>2. QED
        BY <2>2, <2>4, <4>1
    <3>3. QED
      BY <3>1, <3>2
  <2>5. QED
    BY <1>2, <1>7, <2>3, <2>4 DEF EarlyReadRouted, LateReadCounted, Published, pay
<1>11. QED
  BY <1>9, <1>10

\* Functions on the way to an early access are carried by the init subtree.
LEMMA InvariantCarries == RouteInv => InitSubtreeCarries
<1> DEFINE pay == certificate.payload
           P == pay.chosen
           live == armed \cup leaked
           a == Accessing(stack)
           L == Len(stack)
<1> SUFFICES ASSUME RouteInv, Executing({"read", "pread", "write", "pwrite"}), ~ Published, Foreseen,
                    NEW i \in OffSpine
             PROVE  /\ stack[i].func \in pay.init
                    /\ i - 1 \notin OffSpine =>
                         <<stack[i].func, stack[i - 1].func, stack[i - 1].at>> \in pay.sites
  BY Zenon DEF InitSubtreeCarries
<1>1. Executing(Reads \cup Writes)
  <2>1. Reads \cup Writes = {"read", "pread", "write", "pwrite"}
    BY DEF Reads, Writes
  <2>2. QED
    BY <2>1
<1>2. /\ program \in Programs /\ stack # <<>> /\ StackOK(program, stack)
      /\ ~ stack[L].done /\ StatementAt(program, stack[L]).op \in Reads \cup Writes
      /\ sets \in {0, 1} /\ live \subseteq Escaped(program)
      /\ \A j \in DOMAIN stack : stack[j].outside => ~ HandedOff(program, spine, stack[j].func)
      /\ RouteState(program, spine, leaf, pay, stack, sets, live)
  BY <1>1, AccessRoute, Zenon
<1>3. L \in Nat \ {0} /\ DOMAIN stack = 1 .. L /\ \A j \in DOMAIN stack : stack[j].func \in Functions
  BY <1>2, TopPlace, StackPlaces
<1> HIDE DEF live
<1>4. RouteState(program, spine, leaf, pay, stack, 0, live)
  BY <1>2 DEF Published
<1>5. /\ Settled(program, spine, pay) /\ Origins(program, stack, live)
      /\ OnTrack(program, spine, leaf, P, stack, 0)
  BY <1>4, Zenon DEF RouteState
<1>6. i \in DOMAIN stack /\ stack[i].func \notin SpineFunctions(spine)
  BY DEF OffSpine
<1>7. stack[L].func \notin SpineFunctions(spine)
  <2>1. PICK next, m : RunsOn(program, spine, leaf, next, P, stack, 0, m)
    BY <1>5, Zenon DEF OnTrack
  <2>2. m \in Nat /\ \A j \in DOMAIN stack : stack[j].func \in SpineFunctions(spine) <=> j <= m
    BY <2>1 DEF RunsOn, RunsTo
  <2>3. QED
    BY <1>3, <1>6, <2>2
<1>8. \A j \in DOMAIN stack : ~ stack[j].outside
  BY <1>2, <1>4, NoCallbackAccess, Zenon
<1>9. PlaceIn(program, spine, P, a).before /\ Carried(program, spine, P, pay, stack)
  <2>1. IF 0 = 0 THEN PlaceIn(program, spine, P, a).before /\ Carried(program, spine, P, pay, stack)
                 ELSE PlaceIn(program, spine, P, a).after
    BY <1>2, <1>4, <1>7, <1>8, OffSpineSide, Zenon
  <2>2. QED
    BY <2>1
<1>10. PICK m \in Nat \ {0} :
         /\ m < L
         /\ \A j \in DOMAIN stack : stack[j].func \in SpineFunctions(spine) <=> j <= m
         /\ \A j \in DOMAIN stack : j > m => stack[j].func \in PreReach(program, spine, P)
         /\ <<stack[m + 1].func, stack[m].func, stack[m].at>> \in pay.sites
  BY <1>9, Zenon DEF Carried
<1>11. i > m
  BY <1>3, <1>6, <1>10
<1> DEFINE f == stack[i].func
           X == Functions \ PreReach(program, spine, P)
           R == Reachable(program, {f}, X)
<1>12. f \in PreReach(program, spine, P) /\ f \in Functions
  BY <1>3, <1>6, <1>10, <1>11
<1> HIDE DEF f
<1>13. f \in R /\ \A x \in R : Calls(program, x) \ X \subseteq R
  <2>1. {f} \in SUBSET Functions /\ {f} \ X = {f}
    BY <1>12
  <2> HIDE DEF X, R
  <2>2. {f} \ X \subseteq R /\ \A x \in R : Calls(program, x) \ X \subseteq R
    BY <1>2, <2>1, ReachableFrom DEF R
  <2>3. QED
    BY <2>1, <2>2
<1>14. \A j \in DOMAIN stack : j > i => ~ stack[j].outside /\ stack[j].func \notin X
  BY <1>3, <1>6, <1>8, <1>10, <1>11
<1> HIDE DEF R, X
<1>15. \A j \in DOMAIN stack : j >= i => stack[j].func \in R
  BY <1>2, <1>5, <1>6, <1>13, <1>14, Chain DEF f
<1>16. stack[L].func \in R
  BY <1>3, <1>6, <1>15
<1>17. a \in Boundaries(program, Reads) \cup Boundaries(program, Writes) /\ a[1] = stack[L].func
  BY <1>2, AccessBounds DEF Accessing
<1> HIDE DEF a, L
<1>18. f \in pay.init
  <2>1. Lists(program, spine, P, pay)
    BY <1>5, SettledPlaces, Zenon
  <2>2. a[1] \in Reachable(program, {f}, Functions \ PreReach(program, spine, P))
    BY <1>16, <1>17 DEF R, X
  <2>3. QED
    BY <1>9, <1>12, <1>17, <2>1, <2>2, Zenon DEF Lists
<1>19. ASSUME i - 1 \notin OffSpine
       PROVE  <<stack[i].func, stack[i - 1].func, stack[i - 1].at>> \in pay.sites
  <2>1. i \in Nat /\ i - 1 \in DOMAIN stack
    BY <1>3, <1>6, <1>10, <1>11
  <2>2. stack[i - 1].func \in SpineFunctions(spine)
    BY <1>19, <2>1 DEF OffSpine
  <2>3. i = m + 1 /\ i - 1 = m
    BY <1>10, <1>11, <2>1, <2>2
  <2>4. QED
    BY <1>10, <2>3
<1>20. QED
  BY <1>18, <1>19 DEF f

\* A read that runs before the cell is set is at a site that build_slot lists
\* for the init local, and one that runs after it is in a function counted as a
\* reader of the published value, in every execution of every certified program
\* whose callbacks are foreseen and whose locations the publication point does
\* not divide: the dominators, the pseudo reads of the spine and the routing of
\* the payload together.
THEOREM ReadsOnTheirSide == Spec => []ReadsPhased
<1>1. Init => RouteInv
  BY RouteInit
<1>2. RouteInv /\ [Next]_vars => RouteInv'
  BY RouteNext
<1>3. RouteInv => ReadsPhased
  BY InvariantPhased
<1>4. QED
  BY <1>1, <1>2, <1>3, PTL DEF Spec

\* Before the cell is set every function between the spine and an access is in
\* the init subtree of the certificate, and the call that leaves the spine is
\* among its entry sites.
THEOREM SubtreeCarried == Spec => []InitSubtreeCarries
<1>1. Init => RouteInv
  BY RouteInit
<1>2. RouteInv /\ [Next]_vars => RouteInv'
  BY RouteNext
<1>3. RouteInv => InitSubtreeCarries
  BY InvariantCarries
<1>4. QED
  BY <1>1, <1>2, <1>3, PTL DEF Spec

=============================================================================
