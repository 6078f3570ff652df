-------------------------- MODULE AndersenStability --------------------------
(***************************************************************************)
(* What no step of the inclusion solver may undo or exceed: the lane cap   *)
(* of a root, the identity of a resolved field, a merge of cells and a     *)
(* fact, and every solution of the constraints.                            *)
(***************************************************************************)
EXTENDS AndersenSoundness, AndersenPrecision, WellFoundedInduction

WithinCap(fields) ==
  \A root \in Objects : Cardinality(LanesOf(fields, root)) <= LaneCap

\* Admission stops at the cap.
LEMMA AdmissibleWithinCap ==
  ASSUME NEW fields \in SUBSET FieldCells, NEW requested \in SUBSET FieldCells,
         \A cell \in requested : LocationOf(cell) \in LaneLocations,
         NEW lanes \in Admissible(requested, fields), WithinCap(fields)
  PROVE  WithinCap(fields \cup lanes)
  <1> SUFFICES ASSUME NEW root \in Objects
               PROVE  Cardinality(LanesOf(fields \cup lanes, root)) <= LaneCap
    BY DEF WithinCap
  <1>1. lanes \subseteq requested
    BY DEF Admissible
  <1>2. CASE \E cell \in lanes : Root(cell) = root
    <2>1. PICK cell \in lanes : Root(cell) = root
      BY <1>2
    <2> DEFINE l == LocationOf(cell)
               after == LanesOf(fields \cup lanes, root)
               before == LanesOf((fields \cup lanes) \ {cell}, root)
    <2>2. cell = <<root, l>> /\ l \in LaneLocations
      BY <1>1, <2>1, CellKinds
    <2>3. l \in after /\ before = after \ {l}
      BY <2>1, <2>2 DEF LanesOf
    <2>4. IsFiniteSet(after) /\ IsFiniteSet(before)
      BY FS_Subset, SolverAssumption DEF LanesOf
    <2>5. ~Full((fields \cup lanes) \ {cell}, root)
      BY <2>1 DEF Admissible
    <2> HIDE DEF l, after, before
    <2>6. Cardinality(before) = Cardinality(after) - 1
      BY <2>3, <2>4, FS_RemoveElement
    <2>7. Cardinality(before) \in Nat /\ Cardinality(after) \in Nat
      BY <2>4, FS_CardinalityType
    <2>8. ~(Cardinality(before) >= LaneCap)
      BY <2>5 DEF Full, before
    <2>9. Cardinality(after) <= LaneCap
      BY <2>6, <2>7, <2>8, SolverAssumption
    <2> QED
      BY <2>9 DEF after
  <1>3. CASE ~ \E cell \in lanes : Root(cell) = root
    <2>1. \A l : <<root, l>> \notin lanes
      BY <1>3 DEF Root
    <2>2. LanesOf(fields \cup lanes, root) = LanesOf(fields, root)
      BY <2>1 DEF LanesOf
    <2> QED
      BY <2>2 DEF WithinCap
  <1> QED
    BY <1>2, <1>3

\* Fields that are no lanes do not count.
LEMMA OtherFieldsWithinCap ==
  ASSUME NEW less \in SUBSET FieldCells, NEW more \in SUBSET FieldCells,
         \A f \in more : LocationOf(f) \in LaneLocations => f \in less,
         WithinCap(less)
  PROVE  WithinCap(more)
  <1> SUFFICES ASSUME NEW root \in Objects
               PROVE  Cardinality(LanesOf(more, root)) <= LaneCap
    BY DEF WithinCap
  <1>1. LanesOf(more, root) \subseteq LanesOf(less, root)
    BY DEF LanesOf, LocationOf
  <1>2. IsFiniteSet(LanesOf(less, root))
    BY FS_Subset, SolverAssumption DEF LanesOf
  <1>3. /\ Cardinality(LanesOf(more, root)) <= Cardinality(LanesOf(less, root))
        /\ Cardinality(LanesOf(less, root)) \in Nat
        /\ Cardinality(LanesOf(more, root)) \in Nat
    BY <1>1, <1>2, FS_Subset, FS_CardinalityType
  <1>4. Cardinality(LanesOf(less, root)) <= LaneCap
    BY DEF WithinCap
  <1> QED
    BY <1>3, <1>4, SolverAssumption

\* Absorbing adds the fields asked for and unknown summaries.
LEMMA AbsorbedLanes ==
  ASSUME NEW s, NEW t, NEW facts, NEW edges, NEW touched, NEW made,
         Absorbed(s, t, facts, edges, touched, made)
  PROVE  \A f \in t.fields : LocationOf(f) \in LaneLocations => f \in s.fields \cup made
  <1>1. \A f \in t.fields : f \in s.fields \cup made \/ \E o \in t.direct : f = UnknownField(o)
    BY DEF Absorbed
  <1>2. \A o : LocationOf(UnknownField(o)) = UnknownLocation
    BY DEF LocationOf, UnknownField
  <1> QED
    BY <1>1, <1>2, LocationAssumption

\* Processing a cell keeps every root within its lane cap.
LEMMA ProcessedWithinCap ==
  ASSUME NEW s \in Solves, NEW n \in Cells, NEW early, NEW late, Admitted(s, n, early, late),
         WithinCap(s.fields)
  PROVE  WithinCap(BulkCopy(Join(s, n, early, late), n).fields)
  <1> DEFINE u == Take(s, n)
             t == Join(s, n, early, late)
             b == BulkCopy(t, n)
             made == StepFields(s, n, early, late)
             all == s.fields \cup early \cup late
  <1>1. t \in Solves /\ b \in Solves
    BY PopType, JoinType
  <1>2. /\ s.fields \in SUBSET FieldCells /\ t.fields \in SUBSET FieldCells
        /\ b.fields \in SUBSET FieldCells
    BY <1>1 DEF Solves
  <1>3. /\ early \in SUBSET FieldCells /\ late \in SUBSET FieldCells
        /\ \A f \in early \cup late : f \notin s.fields /\ ~Full(s.fields, Root(f))
        /\ early \cup late \subseteq made
        /\ \A f \in made : LocationOf(f) \in LaneLocations => f \in all
        /\ \A p \in Stepped(s, n, early) : Settled(p[1], p[2][2], all)
    BY StepLanes
  <1>4. WithinCap(s.fields \cup early)
    <2>1. /\ EarlyLanes(s, n) \in SUBSET FieldCells
          /\ \A cell \in EarlyLanes(s, n) : LocationOf(cell) \in LaneLocations
      BY DEF EarlyLanes, RequestedLanes, IsNewLane
    <2> QED
      BY <1>2, <2>1, AdmissibleWithinCap DEF Admitted
  <1>5. WithinCap(all)
    <2>1. /\ LateLanes(s, n, early) \in SUBSET FieldCells
          /\ \A cell \in LateLanes(s, n, early) : LocationOf(cell) \in LaneLocations
      BY DEF LateLanes, RequestedLanes, IsNewLane
    <2>2. s.fields \cup early \in SUBSET FieldCells
      BY <1>2, <1>3
    <2> QED
      BY <1>4, <2>1, <2>2, AdmissibleWithinCap DEF Admitted
  <1>6. \A f \in t.fields : LocationOf(f) \in LaneLocations => f \in all
    <2>1. Absorbed(u, t, StepFacts(s, n, early, late), StepCopies(s, n), StepTouched(s, n), made)
      BY JoinAbsorbs
    <2>2. u.fields = s.fields
      BY TakeFields
    <2> HIDE DEF u, t, made, all
    <2>3. \A f \in t.fields : LocationOf(f) \in LaneLocations => f \in u.fields \cup made
      BY <2>1, AbsorbedLanes
    <2>4. s.fields \subseteq all
      BY DEF all
    <2> QED
      BY <1>3, <2>2, <2>3, <2>4
  <1>7. \A f \in b.fields : LocationOf(f) \in LaneLocations => f \in t.fields
    <2>1. Absorbed(Seen(t, n), b, {}, BulkCopies(t, n), BulkTouched(t, n), {})
      BY <1>1, BulkCopyAbsorbs
    <2>2. Seen(t, n).fields = t.fields
      BY <1>1, SeenFields
    <2> HIDE DEF t, b
    <2>3. \A f \in b.fields : LocationOf(f) \in LaneLocations => f \in Seen(t, n).fields \cup {}
      BY <2>1, AbsorbedLanes
    <2> QED
      BY <2>2, <2>3
  <1>8. all \in SUBSET FieldCells
    BY <1>2, <1>3
  <1> HIDE DEF t, b, all
  <1>9. WithinCap(b.fields)
    BY <1>2, <1>5, <1>6, <1>7, <1>8, OtherFieldsWithinCap
  <1> QED
    BY <1>9 DEF b, t

\* A collapse leaves the fields alone.
LEMMA CollapseFieldsKept ==
  ASSUME NEW s \in Solves
  PROVE  CollapseCopySccs(s).fields = s.fields
  <1>1. CollapseOnto(s, CycleLeader(s)).fields = s.fields
    BY CycleLeaderType, CollapseFields
  <1>2. [s EXCEPT !.fresh = 0].fields = s.fields
    BY DEF Solves
  <1> QED
    BY <1>1, <1>2, Zenon DEF CollapseCopySccs

\* No root ever holds more lanes than the cap, although several joins of one
\* step, nested GEPs among them, ask for lanes in any order.
THEOREM LaneCapCorrect == Spec => []LaneCapRespected
<1> DEFINE IInv == WithinCap(solve.fields)
<1>1. Init => IInv
  <2> SUFFICES ASSUME Init, NEW root \in Objects
               PROVE  Cardinality(LanesOf(solve.fields, root)) <= LaneCap
    BY DEF WithinCap
  <2>1. solve.fields = {}
    BY DEF Init, EmptySolve
  <2>2. LanesOf(solve.fields, root) = {}
    BY <2>1 DEF LanesOf
  <2> QED
    BY <2>2, FS_EmptySet, SolverAssumption
<1>2. IInv /\ TypeOK /\ TypeOK' /\ [Next]_vars => IInv'
  <2> SUFFICES ASSUME IInv, TypeOK, TypeOK', [Next]_vars PROVE WithinCap(solve'.fields)
    OBVIOUS
  <2>1. /\ solve \in Solves /\ solve' \in Solves /\ program \in Programs
        /\ solve.fields \in SUBSET FieldCells /\ solve'.fields \in SUBSET FieldCells
    BY DEF TypeOK, Solves
  <2>2. ASSUME NEW system \in {program.base} \cup program.calls, Add(system)
        PROVE  WithinCap(solve'.fields)
    <3>1. PICK chosen \in SUBSET system.memcpys :
            IsNewSelection(solve, system, chosen) /\ solve' = Install(solve, system, chosen)
      BY <2>2 DEF Add
    <3> DEFINE u == Registered(solve, system, chosen)
    <3>2. system \in Systems /\ u \in Solves
      BY <2>1, SystemType, RegisteredType
    <3>3. u.fields = solve.fields
      BY <2>1, RegisteredFields
    <3> HIDE DEF u
    <3>4. Absorbed(u, solve', SystemFacts(system), system.copies, {}, SystemFields(system))
      BY <3>1, <3>2, SystemTypes, AbsorbContract DEF Install, u
    <3>5. \A f \in SystemFields(system) : LocationOf(f) \notin LaneLocations
      BY <2>1, ProgramAssumption DEF SystemFields
    <3>6. \A f \in solve'.fields : LocationOf(f) \in LaneLocations => f \in solve.fields
      BY <3>3, <3>4, <3>5, AbsorbedLanes
    <3> QED
      BY <2>1, <3>6, OtherFieldsWithinCap
  <2>3. CASE Build
    BY <2>2, <2>3 DEF Build
  <2>4. ASSUME NEW system \in program.calls, Resume(system)
        PROVE  WithinCap(solve'.fields)
    BY <2>2, <2>4 DEF Resume
  <2>5. ASSUME NEW n \in solve.worklist, Pop(n)
        PROVE  WithinCap(solve'.fields)
    <3>1. n \in Cells
      BY <2>1 DEF Solves
    <3>2. PICK early, late :
            /\ Admitted(solve, n, early, late)
            /\ \/ solve' = BulkCopy(Join(solve, n, early, late), n)
               \/ solve' = CollapseCopySccs(BulkCopy(Join(solve, n, early, late), n))
      BY <2>5, PopCases
    <3> DEFINE processed == BulkCopy(Join(solve, n, early, late), n)
    <3>3. processed \in Solves /\ WithinCap(processed.fields)
      BY <2>1, <3>1, <3>2, PopType, ProcessedWithinCap
    <3>4. solve' = processed \/ solve' = CollapseCopySccs(processed)
      BY <3>2
    <3> HIDE DEF processed
    <3>5. solve'.fields = processed.fields
      BY <3>3, <3>4, CollapseFieldsKept
    <3> QED
      BY <3>3, <3>5
  <2>6. CASE UNCHANGED vars
    BY <2>6 DEF vars
  <2> QED
    BY <2>3, <2>4, <2>5, <2>6 DEF Next
<1>3. IInv => LaneCapRespected
  BY DEF WithinCap, LaneCapRespected
<1> QED
  BY <1>1, <1>2, <1>3, TypeCorrect, PTL DEF Spec

(***************************************************************************)
(* Identities.                                                             *)
(***************************************************************************)
\* t resolves what s had settled as s did, merges what s merged and holds
\* what s held.
Stable(s, t) ==
  /\ \A o \in Pointees, l \in Locations :
       Settled(o, l, s.fields) =>
         /\ FieldOf(o, l, t.fields) = FieldOf(o, l, s.fields)
         /\ Settled(o, l, t.fields)
  /\ \A c, d \in Cells : s.rep[c] = s.rep[d] => t.rep[c] = t.rep[d]
  /\ \A c \in Cells : s.pts[s.rep[c]] \subseteq t.pts[t.rep[c]]

\* A step that only adds keeps the identities of cells and fields.
LEMMA GrownStable ==
  ASSUME NEW s \in Solves, NEW t \in Solves, Grown(s, t)
  PROVE  Stable(s, t)
  <1>1. \A o \in Pointees, l \in Locations :
          Settled(o, l, s.fields) =>
            /\ FieldOf(o, l, t.fields) = FieldOf(o, l, s.fields)
            /\ Settled(o, l, t.fields)
    BY FieldKept
  <1>2. \A c \in Cells : s.rep[c] \in Cells
    BY DEF Solves
  <1>3. \A c \in Cells : s.pts[s.rep[c]] \subseteq t.pts[t.rep[c]]
    BY <1>2 DEF Grown
  <1>4. \A c, d \in Cells : s.rep[c] = s.rep[d] => t.rep[c] = t.rep[d]
    BY DEF Grown
  <1> QED
    BY <1>1, <1>3, <1>4 DEF Stable

\* Two steps that keep identities keep them together.
LEMMA StableTransitive ==
  ASSUME NEW s, NEW t, NEW u, Stable(s, t), Stable(t, u)
  PROVE  Stable(s, u)
  <1>1. \A o \in Pointees, l \in Locations :
          Settled(o, l, s.fields) =>
            /\ FieldOf(o, l, u.fields) = FieldOf(o, l, s.fields)
            /\ Settled(o, l, u.fields)
    BY DEF Stable
  <1>2. \A c, d \in Cells : s.rep[c] = s.rep[d] => u.rep[c] = u.rep[d]
    BY DEF Stable
  <1>3. \A c \in Cells : s.pts[s.rep[c]] \subseteq u.pts[u.rep[c]]
    BY DEF Stable
  <1> QED
    BY <1>1, <1>2, <1>3 DEF Stable

\* A collapse only merges.
LEMMA CollapseStable ==
  ASSUME NEW s \in Solves, SemiNaive(s)
  PROVE  Stable(s, CollapseCopySccs(s))
  <1> DEFINE leader == CycleLeader(s)
             collapsed == CollapseOnto(s, leader)
             recounted == [s EXCEPT !.fresh = 0]
             t == CollapseCopySccs(s)
  <1>1. t = recounted \/ t = collapsed
    BY Zenon DEF CollapseCopySccs
  <1>2. t.fields = s.fields
    BY CollapseFieldsKept
  <1>3. leader \in [Cells -> Cells] /\ Leads(s, leader)
    BY CycleLeaderType DEF Leads
  <1>4. recounted.rep = s.rep /\ recounted.pts = s.pts
    BY DEF Solves
  <1> HIDE DEF leader
  <1>5. \A c \in Cells : collapsed.rep[c] = leader[s.rep[c]]
    BY <1>3, CollapseTables
  <1>6. \A c \in Cells : s.pts[s.rep[c]] \subseteq collapsed.pts[collapsed.rep[c]]
    BY <1>3, CollapseCells DEF SemiNaive
  <1> HIDE DEF collapsed, recounted, t
  <1>7. \A c, d \in Cells : s.rep[c] = s.rep[d] => t.rep[c] = t.rep[d]
    BY <1>1, <1>4, <1>5
  <1>8. \A c \in Cells : s.pts[s.rep[c]] \subseteq t.pts[t.rep[c]]
    BY <1>1, <1>4, <1>6
  <1>9. Stable(s, t)
    BY <1>2, <1>7, <1>8 DEF Stable
  <1> QED
    BY <1>9 DEF t

\* Whatever a step does, a GEP once resolved for a pointee keeps its cell,
\* although lanes fill up under it, and cells are merged but never split or
\* emptied.
THEOREM IdentitiesKept == Spec => IdentitiesStable
<1>1. ASSUME TypeOK, TypeOK', SemiNaiveInvariant, [Next]_vars
      PROVE  Stable(solve, solve')
  <2>1. /\ solve \in Solves /\ solve' \in Solves /\ program \in Programs
        /\ SemiNaive(solve)
    BY <1>1 DEF TypeOK, SemiNaiveInvariant
  <2>2. ASSUME NEW system \in {program.base} \cup program.calls, Add(system)
        PROVE  Stable(solve, solve')
    <3>1. PICK chosen \in SUBSET system.memcpys :
            IsNewSelection(solve, system, chosen) /\ solve' = Install(solve, system, chosen)
      BY <2>2 DEF Add
    <3>2. Grown(solve, solve')
      BY <2>1, <3>1, InstallKeeps
    <3> QED
      BY <2>1, <3>2, GrownStable
  <2>3. CASE Build
    BY <2>2, <2>3 DEF Build
  <2>4. ASSUME NEW system \in program.calls, Resume(system)
        PROVE  Stable(solve, solve')
    BY <2>2, <2>4 DEF Resume
  <2>5. ASSUME NEW n \in solve.worklist, Pop(n)
        PROVE  Stable(solve, solve')
    <3>1. n \in Cells
      BY <2>1 DEF Solves
    <3>2. PICK early, late :
            /\ Admitted(solve, n, early, late)
            /\ \/ solve' = BulkCopy(Join(solve, n, early, late), n)
               \/ solve' = CollapseCopySccs(BulkCopy(Join(solve, n, early, late), n))
      BY <2>5, PopCases
    <3> DEFINE joined == Join(solve, n, early, late)
               processed == BulkCopy(joined, n)
    <3>3. joined \in Solves /\ processed \in Solves
      BY <2>1, <3>1, JoinType, PopType
    <3>4. Grown(solve, joined)
      BY <2>1, <3>1, <3>2, JoinGrows
    <3>5. SemiNaive(processed) /\ Grown(joined, processed)
      BY <2>1, <3>1, <3>2, ProcessedKeeps
    <3>6. solve' = processed \/ solve' = CollapseCopySccs(processed)
      BY <3>2
    <3> HIDE DEF joined, processed
    <3>7. Stable(solve, processed)
      BY <2>1, <3>3, <3>4, <3>5, GrownStable, StableTransitive
    <3>8. Stable(processed, CollapseCopySccs(processed))
      BY <3>3, <3>5, CollapseStable
    <3>9. Stable(solve, CollapseCopySccs(processed))
      BY <3>7, <3>8, StableTransitive
    <3> QED
      BY <3>6, <3>7, <3>9
  <2>6. CASE UNCHANGED vars
    BY <2>6 DEF vars, Stable
  <2> QED
    BY <1>1, <2>3, <2>4, <2>5, <2>6 DEF Next
<1> DEFINE Resolved1 ==
             \A c \in Cells : \A j \in Geps(solve.joins[c]) :
               \A o \in PointeesOf(solve.pts[c] \ solve.pend[c]) :
                 FieldOf(o, j[2], solve'.fields) = FieldOf(o, j[2], solve.fields)
           Merged1 == \A c, d \in Cells :
                        solve.rep[c] = solve.rep[d] => solve'.rep[c] = solve'.rep[d]
           Held1 == \A c \in Cells : Value(solve)[c] \subseteq Value(solve')[c]
<1>2. ASSUME TypeOK, SemiNaiveInvariant, Stable(solve, solve')
      PROVE  Resolved1 /\ Merged1 /\ Held1
  <2>1. ASSUME NEW c \in Cells, NEW j \in Geps(solve.joins[c]),
               NEW o \in PointeesOf(solve.pts[c] \ solve.pend[c])
        PROVE  FieldOf(o, j[2], solve'.fields) = FieldOf(o, j[2], solve.fields)
    <3>1. j \in solve.joins[c] /\ j \in Joins /\ j[1] = "gep" /\ o \in Pointees
      BY <1>2 DEF TypeOK, Solves, Tables, Geps, PointeesOf
    <3>2. JoinDone(solve, o, j)
      BY <1>2, <3>1 DEF SemiNaiveInvariant, SemiNaive, JoinsConsumed
    <3>3. j[2] \in Locations
      BY <3>1, JoinKinds
    <3>4. Settled(o, j[2], solve.fields)
      BY <3>1, <3>2 DEF JoinDone
    <3> QED
      BY <1>2, <3>1, <3>3, <3>4 DEF Stable
  <2>2. Merged1
    BY <1>2 DEF Stable
  <2>3. Held1
    BY <1>2 DEF Stable, Value
  <2> QED
    BY <2>1, <2>2, <2>3
<1>3. TypeOK /\ TypeOK' /\ SemiNaiveInvariant /\ [Next]_vars
        => Resolved1 /\ Merged1 /\ Held1
  BY <1>1, <1>2
<1> QED
  BY <1>3, TypeCorrect, SemiNaiveCorrect, PTL DEF Spec, IdentitiesStable

(***************************************************************************)
(* Precision.  A solution gives each cell a value; V, F and D are its      *)
(* values, fields and direct accesses.  The solver is Below it when all it *)
(* holds, and every edge, join and memcpy it will still run, is allowed.   *)
(***************************************************************************)
\* A join may run for everything the solution gives its owner.
Licensed(c, j, V, F, D) ==
  /\ JoinHolds(c, j, V, F, D)
  /\ j[1] = "gep" => \A o \in PointeesOf(V[c]) : RequestedField(o, j[2]) \in F \cup Regions

\* So may a memcpy, and its summary cell fits between its two ends.
BulkLicensed(m, V, D) ==
  /\ MemcpyHolds(m, V, D)
  /\ \A o \in PointeesOf(V[Source(m)]) : V[o] \subseteq V[SummaryCell(m)]
  /\ \A t \in PointeesOf(V[Destination(m)]) : V[SummaryCell(m)] \subseteq V[t]

Consistent(V, F, D) ==
  /\ V \in Tables(Facts) /\ F \in SUBSET FieldCells /\ D \in SUBSET Objects
  /\ StorageConsistent(V, F, D)
  /\ WithinCap(F)

Below(s, V, F, D) ==
  /\ s.fields \subseteq F /\ s.direct \subseteq D
  /\ \A c \in Cells : V[s.rep[c]] = V[c]
  /\ \A c \in Cells : s.pts[c] \subseteq V[c]
  /\ \A c \in Cells : \A d \in s.succ[c] \cup s.psucc[c] : V[c] \subseteq V[d]
  /\ \A c \in Cells : \A j \in s.joins[c] \cup s.pjoins[c] : Licensed(c, j, V, F, D)
  /\ \A m \in s.memcpys : BulkLicensed(m, V, D)

\* Facts, edges and pairs of a pointee and a join that the solution allows.
FactsAllowed(facts, V) == \A f \in facts : f[2] \in V[f[1]]
EdgesAllowed(edges, V) == \A e \in edges : V[e[1]] \subseteq V[e[2]]
PairsAllowed(pairs, n, V, F, D) ==
  \A p \in pairs : p[1] \in PointeesOf(V[n]) /\ p[2] \in Joins /\ Licensed(n, p[2], V, F, D)

\* What a join does to a pointee of its owner.
LEMMA LicensedPointee ==
  ASSUME NEW V, NEW F \in SUBSET FieldCells, NEW D, NEW c, NEW j \in Joins,
         Licensed(c, j, V, F, D), NEW o \in PointeesOf(V[c])
  PROVE  /\ j[1] = "load" => /\ {o} \cap Objects \subseteq D
                             /\ V[o] \subseteq V[j[2]]
         /\ j[1] = "store" /\ j[2] \in Regions =>
              /\ {o} \cap Objects \subseteq D
              /\ j[2] \in V[o]
              /\ j[3] # NoLabel => j[3] \in V[o] /\ j[3] \in V[j[2]]
         /\ j[1] = "store" /\ j[2] \notin Regions =>
              /\ {o} \cap Objects \subseteq D
              /\ V[j[2]] \subseteq V[o]
         /\ j[1] = "gep" =>
              /\ RequestedField(o, j[2]) \in V[j[3]]
              /\ RequestedField(o, j[2]) \in F \cup Regions
  <1> DEFINE pointees == V[c] \cap Pointees
  <1>1. JoinHolds(c, j, V, F, D) /\ o \in pointees
    BY DEF Licensed, PointeesOf
  <1>2. CASE j[1] = "load"
    <2>1. pointees \cap Objects \subseteq D /\ \A x \in pointees : V[x] \subseteq V[j[2]]
      BY <1>1, <1>2 DEF JoinHolds, DirectlyAccessed
    <2> QED
      BY <1>1, <1>2, <2>1
  <1>3. CASE j[1] = "store"
    <2>1. /\ pointees \cap Objects \subseteq D
          /\ IF j[2] \in Regions
               THEN \A x \in pointees :
                      /\ j[2] \in V[x]
                      /\ j[3] # NoLabel => j[3] \in V[x] \cap V[j[2]]
               ELSE \A x \in pointees : V[j[2]] \subseteq V[x]
      BY <1>1, <1>3 DEF JoinHolds, DirectlyAccessed
    <2> HIDE DEF pointees
    <2> QED
      BY <1>1, <1>3, <2>1
  <1>4. CASE j[1] = "gep"
    <2>1. FieldOf(o, j[2], F) \in V[j[3]]
      BY <1>1, <1>4 DEF JoinHolds
    <2>2. RequestedField(o, j[2]) \in F \cup Regions
      BY <1>4 DEF Licensed
    <2>3. ~IsNewLane(RequestedField(o, j[2]), F)
      BY <2>2, DisjointAssumption DEF IsNewLane
    <2> QED
      BY <1>4, <2>1, <2>2, <2>3 DEF FieldOf
  <1> QED
    BY <1>2, <1>3, <1>4, JoinKinds

\* Absorbing what the solution allows stays below it.
LEMMA CanonicalAllowed ==
  ASSUME NEW s \in Solves, NEW V, \A c \in Cells : V[s.rep[c]] = V[c],
         NEW facts \in SUBSET (Cells \X Facts), FactsAllowed(facts, V), NEW c \in Cells
  PROVE  At(Canonical(s, facts), c) \subseteq V[c]
  <1> SUFFICES ASSUME NEW x \in At(Canonical(s, facts), c)
               PROVE  x \in V[c]
    OBVIOUS
  <1>1. PICK f \in facts : c = s.rep[f[1]] /\ x = f[2]
    BY DEF At, Canonical
  <1> QED
    BY <1>1 DEF FactsAllowed

\* Absorbing facts and edges a solution allows keeps the solver below it.
LEMMA AbsorbBelow ==
  ASSUME NEW s \in Solves, NEW t \in Solves, NEW V, NEW F, NEW D, Consistent(V, F, D),
         Below(s, V, F, D),
         NEW facts \in SUBSET (Cells \X Facts), NEW edges \in SUBSET (Cells \X Cells),
         NEW touched, NEW made,
         Absorbed(s, t, facts, edges, touched, made),
         FactsAllowed(facts, V), EdgesAllowed(edges, V),
         touched \cap Objects \subseteq D, made \subseteq F
  PROVE  Below(t, V, F, D)
  <1>1. t.direct \subseteq D
    BY DEF Absorbed, Below
  <1>2. t.fields \subseteq F
    BY <1>1 DEF Absorbed, Below, Consistent, StorageConsistent
  <1>3. t.rep = s.rep
    BY DEF Absorbed
  <1>4. \A c \in Cells : V[t.rep[c]] = V[c]
    BY <1>3 DEF Below
  <1>5. ASSUME NEW c \in Cells
        PROVE  t.pts[c] \subseteq V[c]
    <2>1. At(Canonical(s, facts), c) \subseteq V[c]
      BY CanonicalAllowed DEF Below
    <2>2. t.pts[c] = s.pts[c] \cup At(Canonical(s, facts), c)
      BY DEF Absorbed
    <2> QED
      BY <2>1, <2>2 DEF Below
  <1>6. Overlapping(t.fields, t.direct) \subseteq Overlapping(F, D)
    BY <1>1, <1>2 DEF Overlapping
  <1>7. Overlapping(F, D) \subseteq Cells \X Cells
    BY OverlappingType, CellKinds DEF Consistent
  <1>8. ASSUME NEW c \in Cells, NEW d \in t.succ[c] \cup t.psucc[c]
        PROVE  V[c] \subseteq V[d]
    <2>1. CASE d \in s.succ[c] \cup s.psucc[c]
      BY <2>1 DEF Below
    <2>2. CASE d \notin s.succ[c] \cup s.psucc[c]
      <3>1. d \in t.psucc[c] \ s.psucc[c]
        BY <1>8, <2>2 DEF Absorbed
      <3>2. PICK e \in edges \cup (Overlapping(t.fields, t.direct) \ Overlapping(s.fields, s.direct)) :
              c = s.rep[e[1]] /\ d = s.rep[e[2]]
        BY <3>1 DEF Absorbed
      <3>3. e[1] \in Cells /\ e[2] \in Cells
        BY <1>6, <1>7, <3>2
      <3>4. V[e[1]] \subseteq V[e[2]]
        BY <1>6, <3>2 DEF EdgesAllowed, Consistent, StorageConsistent
      <3> QED
        BY <3>2, <3>3, <3>4 DEF Below
    <2> QED
      BY <2>1, <2>2
  <1>9. \A c \in Cells : \A j \in t.joins[c] \cup t.pjoins[c] : Licensed(c, j, V, F, D)
    BY DEF Absorbed, Below
  <1>10. \A m \in t.memcpys : BulkLicensed(m, V, D)
    BY DEF Absorbed, Below
  <1> QED
    BY <1>1, <1>2, <1>4, <1>5, <1>8, <1>9, <1>10 DEF Below

\* A loop over joins handles pairs the solution allows.
LEMMA PairedAllowed ==
  ASSUME NEW s \in Solves, NEW n \in Cells, NEW V, NEW F, NEW D,
         Below(s, V, F, D), PendingQueued(s),
         NEW old \in SUBSET s.joins[n], NEW new \in SUBSET s.pjoins[n],
         NEW gained, gained \subseteq V[n]
  PROVE  PairsAllowed(Paired(s, n, old, new, gained), n, V, F, D)
  <1> SUFFICES ASSUME NEW p \in Paired(s, n, old, new, gained)
               PROVE  p[1] \in PointeesOf(V[n]) /\ p[2] \in Joins /\ Licensed(n, p[2], V, F, D)
    BY DEF PairsAllowed
  <1>1. \/ p[1] \in PointeesOf(s.pend[n]) /\ p[2] \in old
        \/ p[1] \in PointeesOf(s.pts[n] \cup gained) /\ p[2] \in new
    BY DEF Paired
  <1>2. s.pend[n] \subseteq s.pts[n] /\ s.pts[n] \subseteq V[n]
    BY DEF PendingQueued, Below
  <1>3. p[1] \in PointeesOf(V[n])
    BY <1>1, <1>2 DEF PointeesOf
  <1>4. p[2] \in s.joins[n] \cup s.pjoins[n]
    BY <1>1
  <1>5. s.joins[n] \subseteq Joins /\ s.pjoins[n] \subseteq Joins
    BY DEF Solves, Tables
  <1> QED
    BY <1>3, <1>4, <1>5 DEF Below

\* What loads and stores do to allowed pairs is allowed.
LEMMA LoadsAllowed ==
  ASSUME NEW V, NEW F \in SUBSET FieldCells, NEW D, NEW n,
         NEW pairs \in SUBSET (Pointees \X Loads(Joins)), PairsAllowed(pairs, n, V, F, D)
  PROVE  /\ EdgesAllowed(LoadCopies(pairs), V)
         /\ \A p \in pairs : {p[1]} \cap Objects \subseteq D
  <1>1. ASSUME NEW p \in pairs
        PROVE  {p[1]} \cap Objects \subseteq D /\ V[p[1]] \subseteq V[p[2][2]]
    <2> DEFINE o == p[1]
               j == p[2]
    <2>1. o \in PointeesOf(V[n]) /\ j \in Joins /\ Licensed(n, j, V, F, D)
      BY DEF PairsAllowed
    <2>2. j[1] = "load"
      BY DEF Loads
    <2> HIDE DEF o, j
    <2>3. {o} \cap Objects \subseteq D /\ V[o] \subseteq V[j[2]]
      BY <2>1, <2>2, LicensedPointee
    <2> QED
      BY <2>3 DEF o, j
  <1>2. \A e \in LoadCopies(pairs) : \E p \in pairs : e[1] = p[1] /\ e[2] = p[2][2]
    BY DEF LoadCopies
  <1> QED
    BY <1>1, <1>2 DEF EdgesAllowed

\* The facts, edges and accesses a store derives are ones the solution has.
LEMMA StoresAllowed ==
  ASSUME NEW V, NEW F \in SUBSET FieldCells, NEW D, NEW n,
         NEW pairs \in SUBSET (Pointees \X Stores(Joins)), PairsAllowed(pairs, n, V, F, D)
  PROVE  /\ FactsAllowed(StoreFacts(pairs), V)
         /\ EdgesAllowed(StoreCopies(pairs), V)
         /\ \A p \in pairs : {p[1]} \cap Objects \subseteq D
  <1>1. ASSUME NEW p \in pairs
        PROVE  /\ {p[1]} \cap Objects \subseteq D
               /\ p[2][2] \in Regions =>
                    /\ p[2][2] \in V[p[1]]
                    /\ p[2][3] # NoLabel => p[2][3] \in V[p[1]] /\ p[2][3] \in V[p[2][2]]
               /\ p[2][2] \notin Regions => V[p[2][2]] \subseteq V[p[1]]
    <2> DEFINE o == p[1]
               j == p[2]
    <2>1. o \in PointeesOf(V[n]) /\ j \in Joins /\ Licensed(n, j, V, F, D)
      BY DEF PairsAllowed
    <2>2. j[1] = "store"
      BY DEF Stores
    <2> HIDE DEF o, j
    <2>3. /\ {o} \cap Objects \subseteq D
          /\ j[2] \in Regions =>
               /\ j[2] \in V[o]
               /\ j[3] # NoLabel => j[3] \in V[o] /\ j[3] \in V[j[2]]
          /\ j[2] \notin Regions => V[j[2]] \subseteq V[o]
      BY <2>1, <2>2, LicensedPointee
    <2> QED
      BY <2>3 DEF o, j
  <1>2. \A e \in StoreCopies(pairs) :
          \E p \in pairs : p[2][2] \notin Regions /\ e[1] = p[2][2] /\ e[2] = p[1]
    BY DEF StoreCopies
  <1>3. \A f \in StoreFacts(pairs) :
          \E p \in pairs :
            /\ p[2][2] \in Regions
            /\ \/ f = <<p[1], p[2][2]>>
               \/ p[2][3] # NoLabel /\ f = <<p[1], p[2][3]>>
               \/ p[2][3] # NoLabel /\ f = <<p[2][2], p[2][3]>>
    BY DEF StoreFacts
  <1>4. FactsAllowed(StoreFacts(pairs), V)
    BY <1>1, <1>3 DEF FactsAllowed
  <1>5. EdgesAllowed(StoreCopies(pairs), V)
    BY <1>1, <1>2 DEF EdgesAllowed
  <1> QED
    BY <1>1, <1>4, <1>5

\* A root of a solution that grants everything has room for what is asked.
LEMMA RoomLeft ==
  ASSUME NEW F \in SUBSET FieldCells, WithinCap(F), NEW fields \in SUBSET F,
         NEW cell \in F \ fields, LocationOf(cell) \in LaneLocations
  PROVE  ~Full(fields, Root(cell))
  <1> DEFINE l == LocationOf(cell)
             all == LanesOf(F, Root(cell))
             some == LanesOf(fields, Root(cell))
  <1>1. cell = <<Root(cell), l>> /\ Root(cell) \in Objects
    BY CellKinds
  <1>2. l \in all /\ l \notin some /\ some \subseteq all
    BY <1>1 DEF LanesOf
  <1>3. IsFiniteSet(all)
    BY FS_Subset, SolverAssumption DEF LanesOf
  <1>4. Cardinality(all) <= LaneCap
    BY <1>1 DEF WithinCap
  <1>5. ~Full(fields, Root(cell)) <=> ~(Cardinality(some) >= LaneCap)
    BY DEF Full
  <1> HIDE DEF l, all, some
  <1>6. IsFiniteSet(all \ {l}) /\ Cardinality(all \ {l}) = Cardinality(all) - 1
    BY <1>2, <1>3, FS_RemoveElement
  <1>7. some \subseteq all \ {l}
    BY <1>2
  <1>8. IsFiniteSet(some) /\ Cardinality(some) <= Cardinality(all \ {l})
    BY <1>6, <1>7, FS_Subset
  <1>9. Cardinality(some) \in Nat /\ Cardinality(all) \in Nat
    BY <1>3, <1>8, FS_CardinalityType
  <1> QED
    BY <1>4, <1>5, <1>6, <1>8, <1>9, SolverAssumption

\* So every lane asked for is admitted and every GEP gets the field it asks for.
LEMMA GepsAllowed ==
  ASSUME NEW V, NEW F \in SUBSET FieldCells, NEW D, NEW n, WithinCap(F),
         NEW pairs \in SUBSET (Pointees \X Geps(Joins)), PairsAllowed(pairs, n, V, F, D),
         NEW fields \in SUBSET F,
         NEW lanes \in Admissible(RequestedLanes(pairs, fields), fields)
  PROVE  /\ lanes \subseteq F
         /\ FactsAllowed(GepFacts(pairs, fields \cup lanes), V)
         /\ \A f \in GepFacts(pairs, fields \cup lanes) : f[2] \in F \cup Regions
  <1>1. /\ \A f \in lanes : f \in FieldCells /\ \E p \in pairs : f = RequestedField(p[1], p[2][2])
        /\ \A p \in pairs :
             IsNewLane(RequestedField(p[1], p[2][2]), fields \cup lanes)
               => Full(fields \cup lanes, Root(RequestedField(p[1], p[2][2])))
    <2>1. fields \in SUBSET FieldCells
      OBVIOUS
    <2>2. /\ lanes \in SUBSET FieldCells
          /\ \A f \in lanes :
               /\ f \notin fields /\ LocationOf(f) \in LaneLocations
               /\ ~Full(fields, Root(f))
               /\ \E p \in pairs : f = RequestedField(p[1], p[2][2])
          /\ \A p \in pairs :
               IsNewLane(RequestedField(p[1], p[2][2]), fields \cup lanes)
                 => Full(fields \cup lanes, Root(RequestedField(p[1], p[2][2])))
      BY <2>1, AdmissibleLanes, Zenon
    <2> QED
      BY <2>2
  <1>2. ASSUME NEW p \in pairs
        PROVE  /\ RequestedField(p[1], p[2][2]) \in V[p[2][3]]
               /\ RequestedField(p[1], p[2][2]) \in F \cup Regions
    <2> DEFINE o == p[1]
               j == p[2]
    <2>1. o \in PointeesOf(V[n]) /\ j \in Joins /\ Licensed(n, j, V, F, D)
      BY DEF PairsAllowed
    <2>2. j[1] = "gep"
      BY DEF Geps
    <2> HIDE DEF o, j
    <2>3. RequestedField(o, j[2]) \in V[j[3]] /\ RequestedField(o, j[2]) \in F \cup Regions
      BY <2>1, <2>2, LicensedPointee
    <2> QED
      BY <2>3 DEF o, j
  <1>3. lanes \subseteq F
    BY <1>1, <1>2, DisjointAssumption
  <1>4. ASSUME NEW p \in pairs
        PROVE  FieldOf(p[1], p[2][2], fields \cup lanes) = RequestedField(p[1], p[2][2])
    <2> DEFINE cell == RequestedField(p[1], p[2][2])
               held == fields \cup lanes
    <2>1. SUFFICES ASSUME IsNewLane(cell, held) PROVE FALSE
      BY DEF FieldOf
    <2>2. cell \in F \ held /\ LocationOf(cell) \in LaneLocations
      BY <1>2, <2>1, DisjointAssumption DEF IsNewLane
    <2>3. held \in SUBSET F
      BY <1>3
    <2>4. Full(held, Root(cell))
      BY <1>1, <2>1
    <2> HIDE DEF cell, held
    <2> QED
      BY <2>2, <2>3, <2>4, RoomLeft
  <1>5. \A f \in GepFacts(pairs, fields \cup lanes) :
          \E p \in pairs : f[1] = p[2][3] /\ f[2] = RequestedField(p[1], p[2][2])
    <2> TAKE f \in GepFacts(pairs, fields \cup lanes)
    <2>1. PICK p \in pairs : f = <<p[2][3], FieldOf(p[1], p[2][2], fields \cup lanes)>>
      BY Zenon DEF GepFacts
    <2>2. f = <<p[2][3], RequestedField(p[1], p[2][2])>>
      BY <1>4, <2>1
    <2> QED
      BY <2>2
  <1> QED
    BY <1>2, <1>3, <1>5 DEF FactsAllowed

\* Taking a cell keeps the solver below the solution.
LEMMA TakeBelow ==
  ASSUME NEW s \in Solves, NEW n \in Cells, NEW V, NEW F, NEW D, Below(s, V, F, D)
  PROVE  Below(Take(s, n), V, F, D)
  <1> DEFINE u == Take(s, n)
  <1>1. /\ u.rep = s.rep /\ u.pts = s.pts /\ u.direct = s.direct /\ u.fields = s.fields
        /\ u.memcpys = s.memcpys
    BY TakeFields
  <1>2. \A c \in Cells : /\ u.succ[c] \cup u.psucc[c] = s.succ[c] \cup s.psucc[c]
                         /\ u.joins[c] \cup u.pjoins[c] = s.joins[c] \cup s.pjoins[c]
    <2> TAKE c \in Cells
    <2>1. /\ u.succ[c] = IF c = n THEN s.succ[c] \cup s.psucc[c] ELSE s.succ[c]
          /\ u.psucc[c] = IF c = n THEN {} ELSE s.psucc[c]
          /\ u.joins[c] = IF c = n THEN s.joins[c] \cup s.pjoins[c] ELSE s.joins[c]
          /\ u.pjoins[c] = IF c = n THEN {} ELSE s.pjoins[c]
      BY TakeTables
    <2> HIDE DEF u
    <2> QED
      BY <2>1
  <1> HIDE DEF u
  <1>3. Below(u, V, F, D)
    BY <1>1, <1>2 DEF Below
  <1> QED
    BY <1>3 DEF u

\* A step adds nothing the solution does not hold, and asks for no lane it
\* would be refused.
LEMMA JoinBelow ==
  ASSUME NEW s \in Solves, NEW n \in Cells, NEW early, NEW late, Admitted(s, n, early, late),
         NEW V, NEW F, NEW D, Consistent(V, F, D), Below(s, V, F, D), SemiNaive(s)
  PROVE  Below(Join(s, n, early, late), V, F, D)
  <1>1. /\ PendingQueued(s)
        /\ F \in SUBSET FieldCells /\ WithinCap(F)
        /\ s.fields \subseteq F
        /\ \A c \in Cells : V[s.rep[c]] = V[c]
        /\ s.joins[n] \subseteq Joins /\ s.pjoins[n] \subseteq Joins
    BY DEF SemiNaive, Consistent, Below, Solves, Tables
  <1>2. /\ Loads(s.joins[n]) \subseteq s.joins[n] /\ Loads(s.pjoins[n]) \subseteq s.pjoins[n]
        /\ Stores(s.joins[n]) \subseteq s.joins[n] /\ Stores(s.pjoins[n]) \subseteq s.pjoins[n]
        /\ Geps(s.joins[n]) \subseteq s.joins[n] /\ Geps(s.pjoins[n]) \subseteq s.pjoins[n]
    BY DEF Loads, Stores, Geps
  <1>3. /\ Loaded(s, n) \in SUBSET (Pointees \X Loads(Joins))
        /\ OldStored(s, n) \in SUBSET (Pointees \X Stores(Joins))
        /\ Stored(s, n) \in SUBSET (Pointees \X Stores(Joins))
        /\ OldStepped(s, n) \in SUBSET (Pointees \X Geps(Joins))
        /\ Stepped(s, n, early) \in SUBSET (Pointees \X Geps(Joins))
    BY PairsType
  <1>4. /\ \A e \in LoadCopies(Loaded(s, n)) : V[e[1]] \subseteq V[e[2]]
        /\ \A p \in Loaded(s, n) : {p[1]} \cap Objects \subseteq D
    <2>1. PairsAllowed(Loaded(s, n), n, V, F, D)
      BY <1>1, <1>2, PairedAllowed DEF Loaded
    <2>2. /\ EdgesAllowed(LoadCopies(Loaded(s, n)), V)
          /\ \A p \in Loaded(s, n) : {p[1]} \cap Objects \subseteq D
      BY <1>1, <1>3, <2>1, LoadsAllowed
    <2> QED
      BY <2>2 DEF EdgesAllowed
  <1>5. FactsAllowed(StoreFacts(OldStored(s, n)), V)
    <2>1. OldStored(s, n) = Paired(s, n, Stores(s.joins[n]), {}, {})
      BY DEF OldStored, Paired
    <2>2. PairsAllowed(OldStored(s, n), n, V, F, D)
      BY <1>1, <1>2, <2>1, PairedAllowed
    <2> QED
      BY <1>1, <1>3, <2>2, StoresAllowed
  <1>6. At(Canonical(s, StoreFacts(OldStored(s, n))), n) \subseteq V[n]
    <2>1. StoreFacts(OldStored(s, n)) \in SUBSET (Cells \X Facts)
      BY <1>3, StoreFactsType
    <2> QED
      BY <1>1, <1>5, <2>1, CanonicalAllowed
  <1>7. /\ FactsAllowed(StoreFacts(Stored(s, n)), V)
        /\ EdgesAllowed(StoreCopies(Stored(s, n)), V)
        /\ \A p \in Stored(s, n) : {p[1]} \cap Objects \subseteq D
    <2>1. PairsAllowed(Stored(s, n), n, V, F, D)
      BY <1>1, <1>2, <1>6, PairedAllowed DEF Stored
    <2> QED
      BY <1>1, <1>3, <2>1, StoresAllowed
  <1>8. early \subseteq F /\ FactsAllowed(GepFacts(OldStepped(s, n), s.fields \cup early), V)
    <2>1. OldStepped(s, n) = Paired(s, n, Geps(s.joins[n]), {}, {})
      BY DEF OldStepped, Paired
    <2>2. PairsAllowed(OldStepped(s, n), n, V, F, D)
      BY <1>1, <1>2, <2>1, PairedAllowed
    <2> DEFINE pairs == OldStepped(s, n)
               fields == s.fields
    <2>3. early \in Admissible(RequestedLanes(pairs, fields), fields)
      BY DEF Admitted, EarlyLanes
    <2>4. /\ fields \in SUBSET F /\ pairs \in SUBSET (Pointees \X Geps(Joins))
          /\ PairsAllowed(pairs, n, V, F, D)
      BY <1>1, <1>3, <2>2
    <2> HIDE DEF pairs, fields
    <2>5. early \subseteq F /\ FactsAllowed(GepFacts(pairs, fields \cup early), V)
      BY <1>1, <2>3, <2>4, GepsAllowed
    <2> QED
      BY <2>5 DEF pairs, fields
  <1>9. /\ late \subseteq F
        /\ FactsAllowed(Resolved(s, n, early, late), V)
        /\ \A f \in Resolved(s, n, early, late) : f[2] \in F \cup Regions
    <2> DEFINE facts == StoreFacts(Stored(s, n)) \cup GepFacts(OldStepped(s, n), s.fields \cup early)
               pairs == Stepped(s, n, early)
               fields == s.fields \cup early
    <2>1. facts \in SUBSET (Cells \X Facts)
      <3>1. StoreFacts(Stored(s, n)) \subseteq Cells \X Facts
        BY <1>3, StoreFactsType
      <3>2. GepFacts(OldStepped(s, n), s.fields \cup early) \subseteq Cells \X Pointees
        BY <1>3, GepFactsType
      <3> QED
        BY <3>1, <3>2, CellKinds
    <2>2. FactsAllowed(facts, V)
      BY <1>7, <1>8 DEF FactsAllowed
    <2>3. Stepped(s, n, early) =
            Paired(s, n, Geps(s.joins[n]), Geps(s.pjoins[n]), At(Canonical(s, facts), n))
      BY DEF Stepped
    <2> HIDE DEF facts
    <2>4. At(Canonical(s, facts), n) \subseteq V[n]
      BY <1>1, <2>1, <2>2, CanonicalAllowed
    <2>5. PairsAllowed(pairs, n, V, F, D)
      BY <1>1, <1>2, <2>3, <2>4, PairedAllowed
    <2>6. late \in Admissible(RequestedLanes(pairs, fields), fields)
      BY DEF Admitted, LateLanes
    <2>7. fields \in SUBSET F /\ pairs \in SUBSET (Pointees \X Geps(Joins))
      BY <1>1, <1>3, <1>8
    <2>8. Resolved(s, n, early, late) = GepFacts(pairs, fields \cup late)
      BY DEF Resolved
    <2> HIDE DEF pairs, fields
    <2>9. /\ late \subseteq F
          /\ FactsAllowed(GepFacts(pairs, fields \cup late), V)
          /\ \A f \in GepFacts(pairs, fields \cup late) : f[2] \in F \cup Regions
      BY <1>1, <2>5, <2>6, <2>7, GepsAllowed
    <2> QED
      BY <2>8, <2>9, Zenon
  <1>10. FactsAllowed(Copied(s, n), V)
    <2> SUFFICES ASSUME NEW f \in Copied(s, n) PROVE f[2] \in V[f[1]]
      BY DEF FactsAllowed
    <2>1. f[1] \in s.succ[n] \cup s.psucc[n] /\ f[2] \in s.pend[n] \cup s.pts[n]
      BY DEF Copied
    <2>2. f[2] \in V[n]
      BY <1>1, <2>1 DEF PendingQueued, Below
    <2> QED
      BY <2>1, <2>2 DEF Below
  <1>11. FactsAllowed(StepFacts(s, n, early, late), V)
    BY <1>7, <1>9, <1>10 DEF FactsAllowed, StepFacts
  <1>12. EdgesAllowed(StepCopies(s, n), V)
    BY <1>4, <1>7 DEF EdgesAllowed, StepCopies
  <1>13. StepTouched(s, n) \cap Objects \subseteq D
    BY <1>4, <1>7 DEF StepTouched
  <1>14. StepFields(s, n, early, late) \subseteq F
    BY <1>9, DisjointAssumption DEF StepFields
  <1>15. /\ Take(s, n) \in Solves /\ Join(s, n, early, late) \in Solves
         /\ Below(Take(s, n), V, F, D)
    BY TakeType, JoinType, TakeBelow
  <1>16. /\ StepFacts(s, n, early, late) \in SUBSET (Cells \X Facts)
         /\ StepCopies(s, n) \in SUBSET (Cells \X Cells)
    BY StepFactsType
  <1> QED
    BY <1>11, <1>12, <1>13, <1>14, <1>15, <1>16, JoinAbsorbs, AbsorbBelow

\* A memcpy links its ends through a summary that fits between them, and
\* accesses its source only once it has a destination.
LEMMA BulkBelow ==
  ASSUME NEW s \in Solves, NEW n \in Cells, NEW V, NEW F, NEW D,
         Consistent(V, F, D), Below(s, V, F, D), MemcpyInventory(s)
  PROVE  Below(BulkCopy(s, n), V, F, D)
  <1>1. AtEndpoint(s, n) \subseteq s.memcpys /\ Activated(s, n) \subseteq AtEndpoint(s, n)
    BY DEF AtEndpoint, Activated
  <1>2. ASSUME NEW m \in s.memcpys
        PROVE  /\ m \in Memcpys
               /\ TargetsOf(s, m) \subseteq PointeesOf(V[Destination(m)])
               /\ OriginsOf(s, m) \subseteq PointeesOf(V[Source(m)])
               /\ s.seenTo[m] \subseteq TargetsOf(s, m)
               /\ s.seenFrom[m] \subseteq OriginsOf(s, m)
    <2>1. m \in Memcpys
      BY DEF Solves
    <2>2. Destination(m) \in Cells /\ Source(m) \in Cells
      BY <2>1, MemcpyCells
    <2>3. s.rep[Destination(m)] \in Cells /\ s.rep[Source(m)] \in Cells
      BY <2>2 DEF Solves
    <2>4. s.pts[s.rep[Destination(m)]] \subseteq V[Destination(m)]
          /\ s.pts[s.rep[Source(m)]] \subseteq V[Source(m)]
      BY <2>2, <2>3 DEF Below
    <2> QED
      BY <2>1, <2>4 DEF TargetsOf, OriginsOf, PointeesOf, MemcpyInventory
  <1>3. ASSUME NEW m \in s.memcpys
        PROVE  /\ PointeesOf(V[Destination(m)]) \cap Objects \subseteq D
               /\ PointeesOf(V[Destination(m)]) # {} =>
                    PointeesOf(V[Source(m)]) \cap Objects \subseteq D
               /\ \A o \in PointeesOf(V[Source(m)]) : V[o] \subseteq V[SummaryCell(m)]
               /\ \A t \in PointeesOf(V[Destination(m)]) : V[SummaryCell(m)] \subseteq V[t]
    <2>1. BulkLicensed(m, V, D)
      BY DEF Below
    <2> QED
      BY <2>1 DEF BulkLicensed, MemcpyHolds, DirectlyAccessed, PointeesOf
  <1>4. ASSUME NEW m \in Activated(s, n)
        PROVE  /\ m \in s.memcpys
               /\ NewTargets(s, m) \subseteq PointeesOf(V[Destination(m)])
               /\ NewOrigins(s, m) \subseteq PointeesOf(V[Source(m)])
               /\ PointeesOf(V[Destination(m)]) # {}
    <2>1. m \in s.memcpys
      BY <1>1
    <2>2. NewTargets(s, m) \subseteq TargetsOf(s, m) \cup s.seenTo[m]
          /\ NewOrigins(s, m) \subseteq OriginsOf(s, m) \cup s.seenFrom[m]
      BY DEF NewTargets, NewOrigins
    <2>3. s.seenTo[m] \cup TargetsOf(s, m) # {}
      BY DEF Activated
    <2> QED
      BY <1>2, <2>1, <2>2, <2>3
  <1>5. BulkTouched(s, n) \cap Objects \subseteq D
    <2> SUFFICES ASSUME NEW x \in BulkTouched(s, n), x \in Objects PROVE x \in D
      OBVIOUS
    <2>1. \/ \E m \in AtEndpoint(s, n) : x \in TargetsOf(s, m) \ s.seenTo[m]
          \/ \E m \in Activated(s, n) : x \in NewOrigins(s, m)
      BY BulkMembers
    <2>2. CASE \E m \in AtEndpoint(s, n) : x \in TargetsOf(s, m) \ s.seenTo[m]
      <3>1. PICK m \in AtEndpoint(s, n) : x \in TargetsOf(s, m)
        BY <2>2
      <3>2. x \in PointeesOf(V[Destination(m)]) /\ m \in s.memcpys
        BY <1>1, <1>2, <3>1
      <3> QED
        BY <1>3, <3>2
    <2>3. CASE \E m \in Activated(s, n) : x \in NewOrigins(s, m)
      <3>1. PICK m \in Activated(s, n) : x \in NewOrigins(s, m)
        BY <2>3
      <3>2. /\ x \in PointeesOf(V[Source(m)]) /\ m \in s.memcpys
            /\ PointeesOf(V[Destination(m)]) # {}
        BY <1>4, <3>1
      <3> QED
        BY <1>3, <3>2
    <2> QED
      BY <2>1, <2>2, <2>3
  <1>6. EdgesAllowed(BulkCopies(s, n), V)
    <2> SUFFICES ASSUME NEW e \in BulkCopies(s, n) PROVE V[e[1]] \subseteq V[e[2]]
      BY DEF EdgesAllowed
    <2>1. \/ \E m \in Activated(s, n) : e \in NewOrigins(s, m) \X {SummaryCell(m)}
          \/ \E m \in Activated(s, n) : e \in {SummaryCell(m)} \X NewTargets(s, m)
      BY BulkMembers
    <2>2. CASE \E m \in Activated(s, n) : e \in NewOrigins(s, m) \X {SummaryCell(m)}
      <3>1. PICK m \in Activated(s, n) : e[1] \in NewOrigins(s, m) /\ e[2] = SummaryCell(m)
        BY <2>2
      <3>2. m \in s.memcpys /\ e[1] \in PointeesOf(V[Source(m)])
        BY <1>4, <3>1
      <3>3. V[e[1]] \subseteq V[SummaryCell(m)]
        BY <1>3, <3>2
      <3> QED
        BY <3>1, <3>3
    <2>3. CASE \E m \in Activated(s, n) : e \in {SummaryCell(m)} \X NewTargets(s, m)
      <3>1. PICK m \in Activated(s, n) : e[1] = SummaryCell(m) /\ e[2] \in NewTargets(s, m)
        BY <2>3
      <3>2. m \in s.memcpys /\ e[2] \in PointeesOf(V[Destination(m)])
        BY <1>4, <3>1
      <3>3. V[SummaryCell(m)] \subseteq V[e[2]]
        BY <1>3, <3>2
      <3> QED
        BY <3>1, <3>3
    <2> QED
      BY <2>1, <2>2, <2>3
  <1>7. Below(Seen(s, n), V, F, D)
    <2> DEFINE u == Seen(s, n)
    <2>1. /\ u.rep = s.rep /\ u.pts = s.pts /\ u.succ = s.succ /\ u.psucc = s.psucc
          /\ u.joins = s.joins /\ u.pjoins = s.pjoins /\ u.memcpys = s.memcpys
          /\ u.fields = s.fields /\ u.direct = s.direct
      BY SeenFields
    <2> HIDE DEF u
    <2>2. Below(u, V, F, D)
      BY <2>1 DEF Below
    <2> QED
      BY <2>2 DEF u
  <1>8. /\ Seen(s, n) \in Solves /\ BulkCopy(s, n) \in Solves
        /\ BulkCopies(s, n) \in SUBSET (Cells \X Cells)
        /\ Absorbed(Seen(s, n), BulkCopy(s, n), {}, BulkCopies(s, n), BulkTouched(s, n), {})
    BY SeenType, BulkCopyAbsorbs, BulkTypes
  <1>9. {} \in SUBSET (Cells \X Facts) /\ FactsAllowed({}, V) /\ {} \subseteq F
    BY DEF FactsAllowed
  <1> QED
    BY <1>5, <1>6, <1>7, <1>8, <1>9, AbsorbBelow

(***************************************************************************)
(* Collapse.  Along copy edges values grow, so cells that reach the same   *)
(* cells have the same value, and one may stand for the other.             *)
(***************************************************************************)
\* The layers of Reach, up to n.
AreLayers(layer, edges, c, n) ==
  layer = [k \in 0 .. n |->
             IF k = 0 THEN {c}
             ELSE LET prev == layer[k - 1]
                  IN  prev \cup {e[2] : e \in {d \in edges : d[1] \in prev}}]
Layers(edges, c, n) == CHOOSE layer : AreLayers(layer, edges, c, n)

\* Counting from zero by one reaches every natural number.
LEMMA NaturalsFromZero ==
  ASSUME NEW S, 0 \in S, \A n \in Nat : n \in S => n + 1 \in S
  PROVE  Nat \subseteq S
  <1> DEFINE R == OpToRel(<, Nat)
  <1> SUFFICES ASSUME Nat \ S # {} PROVE FALSE
    OBVIOUS
  <1>1. IsWellFoundedOn(R, Nat)
    BY NatLessThanWellFounded, Zenon
  <1>2. Nat \ S \subseteq Nat
    OBVIOUS
  <1> HIDE DEF R
  <1>3. PICK m \in Nat \ S : \A n \in Nat \ S : <<n, m>> \notin R
    BY <1>1, <1>2, WFMin, Zenon
  <1>4. m # 0 /\ m - 1 \in Nat /\ m - 1 < m
    BY <1>3
  <1>5. <<m - 1, m>> \in R
    BY <1>4 DEF R, OpToRel
  <1>6. m - 1 \in S
    BY <1>3, <1>4, <1>5
  <1> QED
    BY <1>4, <1>6

\* There are such layers.
LEMMA LayersExist ==
  ASSUME NEW edges, NEW c
  PROVE  \A n \in Nat : \E layer : AreLayers(layer, edges, c, n)
  <1> DEFINE After(prev) == prev \cup {e[2] : e \in {d \in edges : d[1] \in prev}}
             Rec(f, n) == f = [k \in 0 .. n |-> IF k = 0 THEN {c} ELSE After(f[k - 1])]
             done == {n \in Nat : \E f : Rec(f, n)}
  <1>1. 0 \in done
    <2>1. Rec([k \in 0 .. 0 |-> {c}], 0)
      OBVIOUS
    <2> QED
      BY <2>1
  <1>2. ASSUME NEW n \in Nat, n \in done
        PROVE  n + 1 \in done
    <2>1. PICK f : Rec(f, n)
      BY <1>2
    <2> DEFINE g == [k \in 0 .. n + 1 |-> IF k = n + 1 THEN After(f[n]) ELSE f[k]]
    <2> HIDE DEF After
    <2>2. \A k \in 0 .. n + 1 : g[k] = IF k = 0 THEN {c} ELSE After(g[k - 1])
      <3> TAKE k \in 0 .. n + 1
      <3>1. CASE k = n + 1
        BY <3>1
      <3>2. CASE k # n + 1
        <4>1. k \in 0 .. n /\ (k # 0 => k - 1 \in 0 .. n /\ k - 1 # n + 1)
          BY <3>2
        <4>2. g[k] = f[k] /\ (k # 0 => g[k - 1] = f[k - 1])
          BY <4>1
        <4>3. f[k] = IF k = 0 THEN {c} ELSE After(f[k - 1])
          BY <2>1, <4>1
        <4> QED
          BY <4>2, <4>3
      <3> QED
        BY <3>1, <3>2
    <2>3. Rec(g, n + 1)
      BY <2>2
    <2> HIDE DEF g, Rec
    <2> QED
      BY <2>3
  <1>3. \A n \in Nat : n \in done
    BY <1>1, <1>2, NaturalsFromZero
  <1> QED
    BY <1>3 DEF AreLayers

\* A cell reaches itself, and whatever it reaches holds at least as much.
LEMMA ReachGrows ==
  ASSUME NEW edges, Cardinality(edges) \in Nat, NEW c, NEW V, EdgesAllowed(edges, V)
  PROVE  c \in Reach(edges, c) /\ \A x \in Reach(edges, c) : V[c] \subseteq V[x]
  <1> DEFINE N == Cardinality(edges)
             layer == Layers(edges, c, N)
             After(prev) == prev \cup {e[2] : e \in {d \in edges : d[1] \in prev}}
  <1>1. Reach(edges, c) = layer[N]
    BY Zenon DEF Reach, Layers, AreLayers
  <1>2. layer = [k \in 0 .. N |-> IF k = 0 THEN {c} ELSE After(layer[k - 1])]
    <2>1. \E l : AreLayers(l, edges, c, N)
      BY LayersExist
    <2>2. AreLayers(layer, edges, c, N)
      BY <2>1, Zenon DEF Layers
    <2> QED
      BY <2>2 DEF AreLayers
  <1> HIDE DEF layer
  <1> DEFINE good == {k \in Nat : k \in 0 .. N =>
                        c \in layer[k] /\ \A x \in layer[k] : V[c] \subseteq V[x]}
  <1>3. 0 \in good
    <2>1. 0 \in 0 .. N
      OBVIOUS
    <2>2. layer[0] = {c}
      BY <1>2, <2>1
    <2> QED
      BY <2>2
  <1>4. ASSUME NEW k \in Nat, k \in good
        PROVE  k + 1 \in good
    <2> SUFFICES ASSUME k + 1 \in 0 .. N
                 PROVE  c \in layer[k + 1] /\ \A x \in layer[k + 1] : V[c] \subseteq V[x]
      OBVIOUS
    <2>1. k \in 0 .. N /\ (k + 1) - 1 = k /\ k + 1 # 0
      OBVIOUS
    <2>2. layer[k + 1] = After(layer[k])
      <3> HIDE DEF After, N
      <3>1. layer[k + 1] = After(layer[(k + 1) - 1])
        BY <1>2, <2>1
      <3> QED
        BY <2>1, <3>1
    <2>3. c \in layer[k] /\ \A x \in layer[k] : V[c] \subseteq V[x]
      BY <1>4, <2>1
    <2>4. ASSUME NEW x \in layer[k + 1]
          PROVE  V[c] \subseteq V[x]
      <3>1. CASE x \in layer[k]
        BY <2>3, <3>1
      <3>2. CASE x \notin layer[k]
        <4>1. PICK e \in edges : e[1] \in layer[k] /\ x = e[2]
          BY <2>2, <3>2
        <4> QED
          BY <2>3, <4>1 DEF EdgesAllowed
      <3> QED
        BY <3>1, <3>2
    <2> QED
      BY <2>2, <2>3, <2>4
  <1>5. N \in good
    <2> HIDE DEF good
    <2>1. Nat \subseteq good
      BY <1>3, <1>4, NaturalsFromZero
    <2> QED
      BY <2>1
  <1>6. N \in 0 .. N
    OBVIOUS
  <1> QED
    BY <1>1, <1>5, <1>6

\* Whose allowance a join is depends only on what the owner may hold.
LEMMA LicensedOwner ==
  ASSUME NEW V, NEW F, NEW D, NEW c, NEW d, V[c] = V[d], NEW j, Licensed(c, j, V, F, D)
  PROVE  Licensed(d, j, V, F, D)
  BY Zenon DEF Licensed, JoinHolds

\* Merging the copy cycles keeps the solver below the solution: cells of a
\* cycle agree in it.
LEMMA CollapseBelow ==
  ASSUME NEW s \in Solves, NEW V, NEW F, NEW D, Below(s, V, F, D)
  PROVE  Below(CollapseCopySccs(s), V, F, D)
  <1> DEFINE edges == CopyEdges(s)
             leader == CycleLeader(s)
             t == CollapseOnto(s, leader)
             canonical == {c \in Cells : s.rep[c] = c}
             reach == [c \in canonical |-> Reach(edges, c)]
  <1>1. edges \subseteq Cells \X Cells
    BY DEF CopyEdges, Solves, Tables
  <1>2. Cardinality(edges) \in Nat
    <2>1. IsFiniteSet(Cells \X Cells)
      BY FS_Product, SolverAssumption
    <2> HIDE DEF edges
    <2> QED
      BY <1>1, <2>1, FS_Subset, FS_CardinalityType
  <1>3. EdgesAllowed(edges, V)
    <2> SUFFICES ASSUME NEW e \in edges PROVE V[e[1]] \subseteq V[e[2]]
      BY DEF EdgesAllowed
    <2>1. e[1] \in Cells /\ e[2] \in Cells /\ e = <<e[1], e[2]>>
      BY <1>1
    <2>2. <<e[1], e[2]>> \in CopyEdges(s)
      BY <2>1
    <2>3. e[2] \in s.succ[e[1]] \cup s.psucc[e[1]]
      BY <2>1, <2>2, CopyEdgesMembers
    <2> QED
      BY <2>1, <2>3 DEF Below
  <1>4. leader \in [Cells -> Cells] /\ \A c \in Cells : s.rep[c] # c => leader[c] = c
    BY CycleLeaderType
  <1>5. ASSUME NEW c \in canonical
        PROVE  leader[c] \in canonical /\ Reach(edges, leader[c]) = Reach(edges, c)
    <2>1. leader[c] = CHOOSE d \in canonical : reach[d] = reach[c]
      BY DEF CycleLeader
    <2> HIDE DEF leader, canonical
    <2>2. leader[c] \in canonical /\ reach[leader[c]] = reach[c]
      BY <2>1
    <2> QED
      BY <2>2
  <1> HIDE DEF edges, leader, canonical, reach, t
  <1>6. ASSUME NEW c \in Cells
        PROVE  V[leader[c]] = V[c]
    <2>1. CASE s.rep[c] = c
      <3>1. c \in canonical
        BY <2>1 DEF canonical
      <3>2. Reach(edges, leader[c]) = Reach(edges, c)
        BY <1>5, <3>1
      <3>3. c \in Reach(edges, c) /\ \A x \in Reach(edges, c) : V[c] \subseteq V[x]
        BY <1>2, <1>3, ReachGrows
      <3>4. /\ leader[c] \in Reach(edges, leader[c])
            /\ \A x \in Reach(edges, leader[c]) : V[leader[c]] \subseteq V[x]
        BY <1>2, <1>3, ReachGrows
      <3> QED
        BY <3>2, <3>3, <3>4
    <2>2. CASE s.rep[c] # c
      BY <1>4, <2>2
    <2> QED
      BY <2>1, <2>2
  <1>7. Below(t, V, F, D)
    <2>1. /\ t.memcpys = s.memcpys /\ t.fields = s.fields /\ t.direct = s.direct
          /\ t.psucc = Empty /\ t.joins = Empty
      BY <1>4, CollapseFields DEF t
    <2>2. ASSUME NEW c \in Cells
          PROVE  /\ t.rep[c] = leader[s.rep[c]]
                 /\ \A f : f \in t.pts[c] <=> \E d \in Cells : leader[d] = c /\ f \in s.pts[d]
                 /\ \A j : j \in t.pjoins[c] <=>
                      \E d \in Cells : leader[d] = c /\ j \in s.joins[d] \cup s.pjoins[d]
                 /\ \A b : b \in t.succ[c] <=>
                      /\ b # c
                      /\ \E d \in Cells : leader[d] = c /\
                           \E e \in s.succ[d] \cup s.psucc[d] : b = leader[e]
      BY <1>4, CollapseTables DEF t
    <2>3. \A c \in Cells : s.rep[c] \in Cells /\ s.succ[c] \cup s.psucc[c] \subseteq Cells
      BY DEF Solves, Tables
    <2>4. \A c \in Cells : V[t.rep[c]] = V[c]
      BY <1>6, <2>2, <2>3 DEF Below
    <2>5. ASSUME NEW c \in Cells, NEW f \in t.pts[c]
          PROVE  f \in V[c]
      <3>1. PICK d \in Cells : leader[d] = c /\ f \in s.pts[d]
        BY <2>2, <2>5
      <3>2. f \in V[d]
        BY <3>1 DEF Below
      <3> QED
        BY <1>6, <3>1, <3>2
    <2>6. ASSUME NEW c \in Cells, NEW b \in t.succ[c] \cup t.psucc[c]
          PROVE  V[c] \subseteq V[b]
      <3>1. b \in t.succ[c]
        BY <2>1, <2>6 DEF Empty
      <3>2. PICK d \in Cells : leader[d] = c /\ \E e \in s.succ[d] \cup s.psucc[d] : b = leader[e]
        BY <2>2, <3>1
      <3>3. PICK e \in s.succ[d] \cup s.psucc[d] : b = leader[e]
        BY <3>2
      <3>4. V[d] \subseteq V[e] /\ e \in Cells
        BY <2>3, <3>3 DEF Below
      <3> QED
        BY <1>6, <3>2, <3>3, <3>4
    <2>7. ASSUME NEW c \in Cells, NEW j \in t.joins[c] \cup t.pjoins[c]
          PROVE  Licensed(c, j, V, F, D)
      <3>1. j \in t.pjoins[c]
        BY <2>1, <2>7 DEF Empty
      <3>2. PICK d \in Cells : leader[d] = c /\ j \in s.joins[d] \cup s.pjoins[d]
        BY <2>2, <3>1
      <3>3. Licensed(d, j, V, F, D) /\ V[d] = V[c]
        BY <1>6, <3>2 DEF Below
      <3> QED
        BY <3>3, LicensedOwner
    <2> QED
      BY <2>1, <2>4, <2>5, <2>6, <2>7 DEF Below
  <1>8. Below([s EXCEPT !.fresh = 0], V, F, D)
    BY Zenon DEF Below, Solves
  <1>9. \/ CollapseCopySccs(s) = [s EXCEPT !.fresh = 0]
        \/ CollapseCopySccs(s) = t
    BY Zenon DEF CollapseCopySccs, leader, t
  <1> QED
    BY <1>7, <1>8, <1>9, Zenon

(***************************************************************************)
(* Installing a system the solution is of.                                 *)
(***************************************************************************)
Permits(system, V, F, D) ==
  /\ Satisfies(system, V, F, D)
  /\ GrantsFields(system, V, F)
  /\ \A m \in system.memcpys : BulkLicensed(m, V, D)

\* Installing a system the solution permits keeps the solver below it.
LEMMA InstallBelow ==
  ASSUME NEW s \in Solves, NEW system \in Systems, NEW chosen \in SUBSET system.memcpys,
         NEW V, NEW F, NEW D, Consistent(V, F, D), Below(s, V, F, D), Permits(system, V, F, D)
  PROVE  Below(Install(s, system, chosen), V, F, D)
  <1> DEFINE u == Registered(s, system, chosen)
  <1>1. u \in Solves
    BY RegisteredType
  <1>2. /\ u.rep = s.rep /\ u.pts = s.pts /\ u.succ = s.succ /\ u.psucc = s.psucc
        /\ u.joins = s.joins /\ u.fields = s.fields /\ u.direct = s.direct
        /\ u.memcpys = s.memcpys \cup chosen
        /\ \A c \in Cells : u.pjoins[c] = s.pjoins[c] \cup NewJoins(s, system, c)
    BY RegisteredFields
  <1> HIDE DEF u
  <1>3. ASSUME NEW c \in Cells, NEW j \in NewJoins(s, system, c)
        PROVE  Licensed(c, j, V, F, D)
    <2>1. PICK owned \in system.joins : c = s.rep[owned[1]] /\ j = owned[2]
      BY <1>3 DEF NewJoins, At, Canonical
    <2>2. owned[1] \in Cells
      BY SystemTypes
    <2>3. V[owned[1]] = V[c]
      BY <2>1, <2>2 DEF Below
    <2>4. /\ JoinHolds(owned[1], owned[2], V, F, D)
          /\ owned[2][1] = "gep" => \A o \in V[owned[1]] \cap Pointees :
                                       RequestedField(o, owned[2][2]) \in F \cup Regions
      BY DEF Permits, Satisfies, GrantsFields
    <2>5. Licensed(owned[1], j, V, F, D)
      BY <2>1, <2>4 DEF Licensed, PointeesOf
    <2> QED
      BY <2>3, <2>5, LicensedOwner
  <1>4. Below(u, V, F, D)
    <2>1. \A c \in Cells : \A j \in u.joins[c] \cup u.pjoins[c] : Licensed(c, j, V, F, D)
      BY <1>2, <1>3 DEF Below
    <2>2. \A m \in u.memcpys : BulkLicensed(m, V, D)
      BY <1>2 DEF Below, Permits
    <2> QED
      BY <1>2, <2>1, <2>2 DEF Below
  <1>5. FactsAllowed(SystemFacts(system), V)
    BY DEF Permits, Satisfies, FactsAllowed, SystemFacts
  <1>6. EdgesAllowed(system.copies, V)
    BY DEF Permits, Satisfies, EdgesAllowed
  <1>7. SystemFields(system) \subseteq F
    BY DEF Permits, GrantsFields, SystemFields
  <1>8. /\ SystemFacts(system) \in SUBSET (Cells \X Facts)
        /\ system.copies \in SUBSET (Cells \X Cells)
        /\ SystemFields(system) \in SUBSET FieldCells
        /\ {} \in SUBSET Pointees /\ {} \cap Objects \subseteq D
    BY SystemTypes
  <1>9. Install(s, system, chosen) =
          Absorb(u, SystemFacts(system), system.copies, {}, SystemFields(system))
    BY DEF Install, u
  <1>10. /\ Install(s, system, chosen) \in Solves
         /\ Absorbed(u, Install(s, system, chosen), SystemFacts(system), system.copies, {},
                     SystemFields(system))
    BY <1>1, <1>8, <1>9, AbsorbType, AbsorbContract
  <1> QED
    BY <1>1, <1>4, <1>5, <1>6, <1>7, <1>8, <1>10, AbsorbBelow

(***************************************************************************)
(* A known solution says nothing of the solver's summary cells.  Given the *)
(* contents of what their source points to, it permits every system.       *)
(***************************************************************************)
WithSummaries(value) ==
  [c \in Cells |-> IF c \in SummaryCells
                     THEN UNION {value[o] : o \in PointeesOf(value[c[3]])}
                     ELSE value[c]]

\* Constraints speak of the program's cells.
LEMMA JoinCells ==
  ASSUME NEW j \in Joins
  PROVE  /\ j[1] = "load" => j[2] \in ProgramCells
         /\ j[1] = "store" => j[2] \in ProgramCells
         /\ j[1] = "gep" => j[3] \in ProgramCells
  BY DEF Joins, LoadJoins, StoreJoins, GepJoins, Load, Store, Gep

\* The systems of a program name program cells only, never a summary cell.
LEMMA SystemCells ==
  ASSUME NEW p \in Programs, NEW system \in {p.base} \cup p.calls
  PROVE  /\ system.addrs \subseteq ProgramCells \X Facts
         /\ system.copies \subseteq ProgramCells \X ProgramCells
         /\ system.joins \subseteq ProgramCells \X Joins
         /\ system.memcpys \subseteq ProgramCells \X ProgramCells
         /\ system.memcpys \subseteq Memcpys
         /\ RegionsOf(system) \subseteq ProgramCells
  <1>1. system \in Systems
    BY SystemType
  <1>2. Copies(p) \subseteq ProgramCells \X ProgramCells
    BY ProgramAssumption
  <1>3. system.memcpys \subseteq Copies(p)
    BY DEF Copies
  <1> QED
    BY <1>1, <1>2, <1>3 DEF Systems, RegionsOf, ProgramCells, Pointees

\* A solution of a system, extended to the summary cells, permits the system.
LEMMA SummariesPermit ==
  ASSUME NEW p \in Programs, NEW system \in {p.base} \cup p.calls,
         NEW value, NEW F, NEW D, Satisfies(system, value, F, D), GrantsFields(system, value, F)
  PROVE  Permits(system, WithSummaries(value), F, D)
  <1> DEFINE V == WithSummaries(value)
  <1>2. /\ \A c \in ProgramCells : V[c] = value[c]
        /\ \A m \in Memcpys : V[SummaryCell(m)] = UNION {value[o] : o \in PointeesOf(value[Source(m)])}
    <2>1. ASSUME NEW c \in ProgramCells PROVE V[c] = value[c]
      BY DisjointAssumption DEF WithSummaries, Cells
    <2>2. ASSUME NEW m \in Memcpys
          PROVE  V[SummaryCell(m)] = UNION {value[o] : o \in PointeesOf(value[Source(m)])}
      <3>1. SummaryCell(m) \in SummaryCells /\ SummaryCell(m) \in Cells
        BY DEF SummaryCells, Cells
      <3>2. SummaryCell(m)[3] = Source(m)
        BY DEF SummaryCell
      <3>3. V[SummaryCell(m)] = UNION {value[o] : o \in PointeesOf(value[SummaryCell(m)[3]])}
        BY <3>1, Zenon DEF WithSummaries
      <3> QED
        BY <3>2, <3>3
    <2> QED
      BY <2>1, <2>2
  <1> HIDE DEF V
  <1>4. /\ system.addrs \subseteq ProgramCells \X Facts
        /\ system.copies \subseteq ProgramCells \X ProgramCells
        /\ system.joins \subseteq ProgramCells \X Joins
        /\ system.memcpys \subseteq ProgramCells \X ProgramCells
        /\ system.memcpys \subseteq Memcpys
        /\ RegionsOf(system) \subseteq ProgramCells
    BY SystemCells
  <1>5. Pointees \subseteq ProgramCells
    BY DEF ProgramCells
  <1>6. ASSUME NEW owned \in system.joins
        PROVE  JoinHolds(owned[1], owned[2], V, F, D)
    <2> DEFINE c == owned[1]
               j == owned[2]
               pointees == value[c] \cap Pointees
    <2> SUFFICES JoinHolds(c, j, V, F, D)
      OBVIOUS
    <2>1. c \in ProgramCells /\ j \in Joins
      BY <1>4
    <2>2. JoinHolds(c, j, value, F, D)
      BY DEF Satisfies
    <2>3. V[c] \cap Pointees = pointees
      BY <1>2, <2>1
    <2>4. \A o \in pointees : V[o] = value[o]
      BY <1>2, <1>5
    <2> HIDE DEF c, j
    <2>5. CASE j[1] = "load"
      <3>1. V[j[2]] = value[j[2]]
        BY <1>2, <2>1, <2>5, JoinCells
      <3>2. DirectlyAccessed(pointees, D) /\ \A o \in pointees : value[o] \subseteq value[j[2]]
        BY <2>2, <2>5 DEF JoinHolds
      <3> HIDE DEF pointees
      <3> QED
        BY <2>3, <2>4, <2>5, <3>1, <3>2 DEF JoinHolds
    <2>6. CASE j[1] = "store"
      <3>1. V[j[2]] = value[j[2]]
        BY <1>2, <2>1, <2>6, JoinCells
      <3>2. /\ DirectlyAccessed(pointees, D)
            /\ IF j[2] \in Regions
                 THEN \A o \in pointees :
                        /\ j[2] \in value[o]
                        /\ j[3] # NoLabel => j[3] \in value[o] \cap value[j[2]]
                 ELSE \A o \in pointees : value[j[2]] \subseteq value[o]
        BY <2>2, <2>6 DEF JoinHolds
      <3> HIDE DEF pointees
      <3> QED
        BY <2>3, <2>4, <2>6, <3>1, <3>2 DEF JoinHolds
    <2>7. CASE j[1] = "gep"
      <3>1. V[j[3]] = value[j[3]]
        BY <1>2, <2>1, <2>7, JoinCells
      <3>2. \A o \in pointees : FieldOf(o, j[2], F) \in value[j[3]] \cap (F \cup Regions)
        BY <2>2, <2>7 DEF JoinHolds
      <3> HIDE DEF pointees
      <3> QED
        BY <2>3, <2>7, <3>1, <3>2 DEF JoinHolds
    <2> QED
      BY <2>1, <2>5, <2>6, <2>7, JoinKinds
  <1>7. GrantsFields(system, V, F)
    <2>1. \A owned \in system.joins : V[owned[1]] = value[owned[1]]
      BY <1>2, <1>4
    <2> QED
      BY <2>1 DEF GrantsFields
  <1>8. ASSUME NEW m \in system.memcpys
        PROVE  MemcpyHolds(m, V, D) /\ BulkLicensed(m, V, D)
    <2>1. /\ m \in Memcpys
          /\ V[Destination(m)] = value[Destination(m)] /\ V[Source(m)] = value[Source(m)]
      BY <1>2, <1>4 DEF Destination, Source
    <2>2. MemcpyHolds(m, value, D)
      BY DEF Satisfies
    <2> DEFINE targets == value[Destination(m)] \cap Pointees
               origins == value[Source(m)] \cap Pointees
    <2>3. /\ DirectlyAccessed(targets, D)
          /\ targets # {} => DirectlyAccessed(origins, D)
          /\ \A t \in targets, o \in origins : value[o] \subseteq value[t]
      BY <2>2 DEF MemcpyHolds
    <2>4. \A o \in targets \cup origins : V[o] = value[o]
      BY <1>2, <1>5
    <2>5. MemcpyHolds(m, V, D)
      <3>1. V[Destination(m)] \cap Pointees = targets /\ V[Source(m)] \cap Pointees = origins
        BY <2>1
      <3> HIDE DEF targets, origins
      <3> QED
        BY <2>3, <2>4, <3>1 DEF MemcpyHolds
    <2>6. PointeesOf(V[Destination(m)]) = targets /\ PointeesOf(V[Source(m)]) = origins
      BY <2>1 DEF PointeesOf
    <2>7. V[SummaryCell(m)] = UNION {value[o] : o \in origins}
      BY <1>2, <2>1 DEF PointeesOf
    <2> HIDE DEF targets, origins
    <2>8. \A o \in origins : V[o] \subseteq V[SummaryCell(m)]
      BY <2>4, <2>7
    <2>9. \A t \in targets : V[SummaryCell(m)] \subseteq V[t]
      BY <2>3, <2>4, <2>7
    <2> QED
      BY <2>5, <2>6, <2>8, <2>9 DEF BulkLicensed
  <1>9. Satisfies(system, V, F, D)
    <2>1. \A region \in RegionsOf(system) : region \in V[region]
      BY <1>2, <1>4 DEF Satisfies
    <2>2. \A a \in system.addrs : a[2] \in V[a[1]]
      BY <1>2, <1>4 DEF Satisfies
    <2>3. \A e \in system.copies : V[e[1]] \subseteq V[e[2]]
      <3> TAKE e \in system.copies
      <3>1. V[e[1]] = value[e[1]] /\ V[e[2]] = value[e[2]]
        BY <1>2, <1>4
      <3> QED
        BY <3>1 DEF Satisfies
    <2> QED
      BY <1>6, <1>8, <2>1, <2>2, <2>3 DEF Satisfies
  <1>10. Permits(system, V, F, D)
    BY <1>7, <1>8, <1>9 DEF Permits
  <1> QED
    BY <1>10 DEF V

\* A solution, extended to the summary cells, is consistent.
LEMMA SummariesConsistent ==
  ASSUME NEW value \in Tables(Facts), NEW F \in SUBSET FieldCells, NEW D \in SUBSET Objects,
         StorageConsistent(value, F, D), WithinCap(F)
  PROVE  Consistent(WithSummaries(value), F, D)
  <1> DEFINE V == WithSummaries(value)
  <1>2. \A c \in ProgramCells : V[c] = value[c]
    BY DisjointAssumption DEF WithSummaries, Cells
  <1>3. V \in Tables(Facts)
    <2>1. \A c \in Cells : \A x \in PointeesOf(value[c[3]]) : x \in Cells
      BY CellKinds DEF PointeesOf
    <2>2. \A x \in Cells : value[x] \subseteq Facts
      BY DEF Tables
    <2> DEFINE contents(c) == UNION {value[o] : o \in PointeesOf(value[c[3]])}
    <2>3. ASSUME NEW c \in Cells PROVE contents(c) \subseteq Facts
      <3> DEFINE origins == PointeesOf(value[c[3]])
      <3>1. origins \subseteq Cells
        BY <2>1
      <3> HIDE DEF origins
      <3>2. UNION {value[o] : o \in origins} \subseteq Facts
        BY <2>2, <3>1
      <3> QED
        BY <3>2 DEF origins
    <2>4. V = [c \in Cells |-> IF c \in SummaryCells THEN contents(c) ELSE value[c]]
      BY DEF WithSummaries
    <2> HIDE DEF contents, V
    <2> QED
      BY <2>2, <2>3, <2>4 DEF Tables
  <1> HIDE DEF V
  <1>4. Overlapping(F, D) \subseteq ProgramCells \X ProgramCells
    BY OverlappingType DEF ProgramCells
  <1>5. \A e \in Overlapping(F, D) : V[e[1]] \subseteq V[e[2]]
    <2> TAKE e \in Overlapping(F, D)
    <2>1. V[e[1]] = value[e[1]] /\ V[e[2]] = value[e[2]]
      BY <1>2, <1>4
    <2> QED
      BY <2>1 DEF StorageConsistent
  <1>6. Consistent(V, F, D)
    BY <1>3, <1>5 DEF Consistent, StorageConsistent
  <1> QED
    BY <1>6 DEF V

\* The solver is below every known solution of its program.
BelowSolutions ==
  \A known \in Solutions :
    known.program = program =>
      Below(solve, WithSummaries(known.solution.value), known.solution.fields,
            known.solution.direct)

\* The empty solver is below everything.
LEMMA EmptyBelow ==
  ASSUME NEW V, NEW F, NEW D
  PROVE  Below(EmptySolve, V, F, D)
  BY DEF Below, EmptySolve, Empty

\* Installing a system that the solution permits.
LEMMA AddBelow ==
  ASSUME solve \in Solves, NEW system \in Systems, Add(system),
         NEW V, NEW F, NEW D, Consistent(V, F, D), Below(solve, V, F, D), Permits(system, V, F, D)
  PROVE  Below(solve', V, F, D)
  <1>1. PICK chosen \in SUBSET system.memcpys : solve' = Install(solve, system, chosen)
    BY DEF Add
  <1> QED
    BY <1>1, InstallBelow

\* A step of the worklist, with the collapse it may end in.
LEMMA PopBelow ==
  ASSUME solve \in Solves, SemiNaive(solve), NEW n \in solve.worklist, Pop(n),
         NEW V, NEW F, NEW D, Consistent(V, F, D), Below(solve, V, F, D)
  PROVE  Below(solve', V, F, D)
  <1>1. PICK early, late :
          /\ Admitted(solve, n, early, late)
          /\ \/ solve' = BulkCopy(Join(solve, n, early, late), n)
             \/ solve' = CollapseCopySccs(BulkCopy(Join(solve, n, early, late), n))
    BY PopCases
  <1> DEFINE joined == Join(solve, n, early, late)
             processed == BulkCopy(joined, n)
  <1>2. n \in Cells
    BY DEF Solves
  <1>3. joined \in Solves /\ processed \in Solves
    BY <1>2, JoinType, BulkCopyType
  <1>4. Below(joined, V, F, D)
    BY <1>1, <1>2, JoinBelow
  <1>5. MemcpyInventory(joined)
    BY <1>1, <1>2, JoinKeeps
  <1> HIDE DEF joined
  <1>6. Below(processed, V, F, D)
    BY <1>2, <1>3, <1>4, <1>5, BulkBelow
  <1>7. solve' = processed \/ solve' = CollapseCopySccs(processed)
    BY <1>1 DEF joined
  <1> HIDE DEF processed
  <1> QED
    BY <1>3, <1>6, <1>7, CollapseBelow

\* No step of the solver adds a fact, a field or a direct access that some
\* solution of the program does not have: neither a join run out of order,
\* nor a memcpy's summary, overlapping storage or a merged copy cycle.
THEOREM StaysBelow == Spec => []BelowSolutions
<1>1. Init => BelowSolutions
  BY EmptyBelow DEF Init, BelowSolutions
<1>2. TypeOK /\ SemiNaiveInvariant /\ BelowSolutions /\ [Next]_vars => BelowSolutions'
  <2> SUFFICES ASSUME TypeOK, SemiNaiveInvariant, BelowSolutions, [Next]_vars,
                      NEW known \in Solutions, known.program = program'
               PROVE  Below(solve', WithSummaries(known.solution.value),
                            known.solution.fields, known.solution.direct)
    BY Zenon DEF BelowSolutions
  <2> DEFINE value == known.solution.value
             V == WithSummaries(value)
             F == known.solution.fields
             D == known.solution.direct
  <2> SUFFICES Below(solve', V, F, D)
    OBVIOUS
  <2>1. program' = program
    BY DEF Next, Build, Resume, Add, Pop, vars
  <2>2. /\ value \in Tables(Facts) /\ F \in SUBSET FieldCells /\ D \in SUBSET Objects
        /\ StorageConsistent(value, F, D) /\ WithinCap(F)
        /\ \A system \in {program.base} \cup program.calls :
             Satisfies(system, value, F, D) /\ GrantsFields(system, value, F)
    BY <2>1, SolutionAssumption DEF IsSolution, WithinCap
  <2>3. Below(solve, V, F, D)
    BY <2>1 DEF BelowSolutions
  <2> HIDE DEF value, F, D
  <2>4. Consistent(V, F, D)
    BY <2>2, SummariesConsistent
  <2>5. solve \in Solves /\ SemiNaive(solve) /\ program \in Programs
    BY DEF TypeOK, SemiNaiveInvariant
  <2>6. \A system \in {program.base} \cup program.calls : Permits(system, V, F, D)
    BY <2>2, <2>5, SummariesPermit
  <2> HIDE DEF V
  <2>7. ASSUME NEW system \in {program.base} \cup program.calls, Add(system)
        PROVE  Below(solve', V, F, D)
    BY <2>3, <2>4, <2>5, <2>6, <2>7, SystemType, AddBelow
  <2>8. ASSUME NEW n \in solve.worklist, Pop(n)
        PROVE  Below(solve', V, F, D)
    BY <2>3, <2>4, <2>5, <2>8, PopBelow
  <2>9. CASE UNCHANGED vars
    BY <2>3, <2>9 DEF vars
  <2> QED
    BY <2>7, <2>8, <2>9 DEF Next, Build, Resume
<1> QED
  BY <1>1, <1>2, TypeCorrect, SemiNaiveCorrect, PTL DEF Spec

\* At every moment the contents the solver stores, its fields and its direct
\* accesses are within every known solution; with QuiescentSound, what it
\* returns is the least solution, in whatever order it worked.
THEOREM PreciseCorrect == Spec => []Precise
<1>1. TypeOK /\ BelowSolutions => Precise
  <2> SUFFICES ASSUME TypeOK, BelowSolutions, NEW known \in Solutions, known.program = program
               PROVE  /\ \A c \in Nodes \cup Pointees : Value(solve)[c] \subseteq known.solution.value[c]
                      /\ solve.fields \subseteq known.solution.fields
                      /\ solve.direct \subseteq known.solution.direct
    BY Zenon DEF Precise
  <2> DEFINE V == WithSummaries(known.solution.value)
  <2>1. Below(solve, V, known.solution.fields, known.solution.direct)
    BY DEF BelowSolutions
  <2>2. ASSUME NEW c \in Nodes \cup Pointees
        PROVE  Value(solve)[c] \subseteq known.solution.value[c]
    <3>1. c \in ProgramCells /\ c \in Cells
      BY DEF ProgramCells, Cells
    <3>2. V[c] = known.solution.value[c]
      BY <3>1, DisjointAssumption DEF WithSummaries
    <3> HIDE DEF V
    <3>3. Value(solve)[c] = solve.pts[solve.rep[c]] /\ solve.rep[c] \in Cells
      BY <3>1 DEF Value, TypeOK, Solves
    <3>4. solve.pts[solve.rep[c]] \subseteq V[solve.rep[c]] /\ V[solve.rep[c]] = V[c]
      BY <2>1, <3>1, <3>3 DEF Below
    <3> QED
      BY <3>2, <3>3, <3>4
  <2> QED
    BY <2>1, <2>2 DEF Below
<1> QED
  BY <1>1, TypeCorrect, StaysBelow, PTL
=============================================================================
