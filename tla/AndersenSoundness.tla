-------------------------- MODULE AndersenSoundness --------------------------
(***************************************************************************)
(* Type correctness and soundness of the inclusion solver, for every       *)
(* program, location algebra and bound: the semi-naive invariant is        *)
(* inductive, and at rest it gives a solution of every constraint          *)
(* installed.                                                              *)
(*                                                                         *)
(* The argument.  Every operation of the solver only ever adds (Grown), so *)
(* a join once done stays done; what a step takes from a cell's pending    *)
(* half it hands on through the established half (JoinKeeps), so no fact   *)
(* misses an edge or a join; a collapse makes everything pending           *)
(* again (CollapseKeeps).  That nothing more than the constraints force is *)
(* ever derived is proved in AndersenStability; termination, which rests   *)
(* on fairness, is left to the runs.                                       *)
(***************************************************************************)
EXTENDS AndersenSolve, TLAPS, FiniteSetTheorems

(***************************************************************************)
(* Shapes of the data.                                                     *)
(***************************************************************************)
\* A join is of one of three kinds, and its parts are what the kind says.
LEMMA JoinKinds ==
  ASSUME NEW j \in Joins
  PROVE  /\ j[1] = "load" => j[2] \in Cells
         /\ j[1] = "store" => j[2] \in Cells /\ j[3] \in Labels \cup {NoLabel}
         /\ j[1] = "gep" => j[2] \in Locations /\ j[3] \in Cells
         /\ j[1] \in {"load", "store", "gep"}
  BY DEF Joins, LoadJoins, StoreJoins, GepJoins, Load, Store, Gep, Cells

\* What a cell points to is a cell, and region objects are no fields.
LEMMA CellKinds ==
  /\ Pointees \subseteq Cells
  /\ Pointees \subseteq Facts
  /\ Objects \subseteq Pointees
  /\ Regions \subseteq Pointees
  /\ FieldCells \subseteq Pointees
  /\ \A f \in FieldCells :
       /\ Root(f) \in Objects /\ LocationOf(f) \in Locations
       /\ f = <<Root(f), LocationOf(f)>>
  /\ \A o \in Objects : UnknownField(o) \in FieldCells
  BY LocationAssumption DEF Cells, ProgramCells, Facts, Pointees, FieldCells, Root, LocationOf,
       UnknownField

\* The endpoints and the summary of a memcpy are cells.
LEMMA MemcpyCells ==
  ASSUME NEW m \in Memcpys
  PROVE  Destination(m) \in Cells /\ Source(m) \in Cells /\ SummaryCell(m) \in Cells
  <1>1. m \in Cells \X Cells
    BY ProgramAssumption DEF Memcpys, Cells
  <1>2. SummaryCell(m) \in SummaryCells
    BY DEF SummaryCells
  <1> QED
    BY <1>1, <1>2 DEF Cells, Destination, Source

\* A GEP resolves to a field cell or, in foreign memory, to the region.
LEMMA FieldOrRegion ==
  ASSUME NEW o \in Pointees, NEW l \in Locations, NEW fields
  PROVE  FieldOf(o, l, fields) \in FieldCells \cup Regions
  <1>1. RequestedField(o, l) \in FieldCells \cup Regions
    <2>1. CASE o \in Regions
      BY <2>1 DEF RequestedField
    <2>2. CASE o \notin Regions /\ o \in Objects
      <3>1. RequestedField(o, l) = <<o, l>>
        BY <2>2 DEF RequestedField
      <3> QED
        BY <3>1, <2>2 DEF FieldCells
    <2>3. CASE o \notin Regions /\ o \notin Objects
      <3>1. o \in FieldCells
        BY <2>3 DEF Pointees
      <3>2. NestedLocation(o, l) \in Locations
        BY <3>1, CellKinds, LocationAssumption DEF NestedLocation
      <3>3. <<Root(o), NestedLocation(o, l)>> \in FieldCells
        BY <3>1, <3>2, CellKinds DEF FieldCells
      <3> QED
        BY <2>3, <3>1, <3>3 DEF RequestedField
    <2> QED
      BY <2>1, <2>2, <2>3
  <1> QED
    BY <1>1, CellKinds DEF FieldOf, IsNewLane

\* The storage overlaps relate pointees.
LEMMA OverlappingType ==
  ASSUME NEW fields \in SUBSET FieldCells, NEW direct \in SUBSET Objects
  PROVE  Overlapping(fields, direct) \subseteq Pointees \X Pointees
  BY CellKinds DEF Overlapping

(***************************************************************************)
(* The solver's tables.                                                    *)
(***************************************************************************)
LEMMA AtType ==
  ASSUME NEW s \in Solves, NEW A, NEW B, NEW pairs \in SUBSET (A \X B), NEW c
  PROVE  /\ At(pairs, c) \subseteq B
         /\ At(Canonical(s, pairs), c) \subseteq B
  BY DEF At, Canonical

\* The edges that are new are edges, finitely many.
LEMMA NewCopiesType ==
  ASSUME NEW s \in Solves, NEW edges \in SUBSET (Cells \X Cells)
  PROVE  /\ NewCopies(s, edges) \subseteq Cells \X Cells
         /\ Cardinality(NewCopies(s, edges)) \in Nat
  <1>1. s.rep \in [Cells -> Cells]
    BY DEF Solves
  <1>2. NewCopies(s, edges) \subseteq Cells \X Cells
    BY <1>1 DEF NewCopies
  <1>3. IsFiniteSet(Cells \X Cells)
    BY FS_Product, SolverAssumption
  <1> QED
    BY <1>2, <1>3, FS_Subset, FS_CardinalityType


(***************************************************************************)
(* Each operation of the solver keeps the record's type.                   *)
(***************************************************************************)
LEMMA AbsorbType ==
  ASSUME NEW s \in Solves, NEW facts \in SUBSET (Cells \X Facts),
         NEW edges \in SUBSET (Cells \X Cells), NEW touched \in SUBSET Pointees,
         NEW made \in SUBSET FieldCells
  PROVE  Absorb(s, facts, edges, touched, made) \in Solves
  <1> DEFINE fields == FieldsAfter(s, touched, made)
             direct == DirectAfter(s, touched)
             copies == NewCopies(s, edges \cup StorageCopies(s, touched, made))
             pts == PtsAfter(s, facts)
             pend == [c \in Cells |-> s.pend[c] \cup (pts[c] \ s.pts[c])]
             psucc == [c \in Cells |-> s.psucc[c] \cup At(copies, c)]
             worklist == s.worklist \cup {c \in Cells : pts[c] # s.pts[c] \/ At(copies, c) # {}}
             fresh == s.fresh + Cardinality(copies)
  <1>1. direct \in SUBSET Objects
    BY DEF DirectAfter, Solves
  <1>2. fields \in SUBSET FieldCells
    BY <1>1, CellKinds DEF FieldsAfter, Solves
  <1>3. StorageCopies(s, touched, made) \subseteq Cells \X Cells
    BY <1>1, <1>2, OverlappingType, CellKinds DEF StorageCopies
  <1>4. /\ copies \subseteq Cells \X Cells
        /\ Cardinality(copies) \in Nat
    BY <1>3, NewCopiesType
  <1>5. pts \in Tables(Facts)
    BY AtType DEF PtsAfter, Tables, Solves
  <1>6. pend \in Tables(Facts)
    BY <1>5 DEF Tables, Solves
  <1>7. psucc \in Tables(Cells)
    <2>1. \A c \in Cells : At(copies, c) \subseteq Cells
      <3> HIDE DEF copies
      <3> QED
        BY <1>4, AtType
    <2> QED
      BY <2>1, Zenon DEF Tables, Solves
  <1>8. worklist \in SUBSET Cells
    BY DEF Solves
  <1>9. fresh \in Nat
    BY <1>4 DEF Solves
  <1>10. Absorb(s, facts, edges, touched, made) =
           [s EXCEPT !.pts = pts, !.pend = pend, !.psucc = psucc, !.fields = fields,
                     !.direct = direct, !.worklist = worklist, !.fresh = fresh]
    BY DEF Absorb
  <1> HIDE DEF fields, direct, copies, pts, pend, psucc, worklist, fresh
  <1>11. [s EXCEPT !.pts = pts, !.pend = pend, !.psucc = psucc, !.fields = fields,
                   !.direct = direct, !.worklist = worklist, !.fresh = fresh] \in Solves
    BY <1>1, <1>2, <1>5, <1>6, <1>7, <1>8, <1>9, Zenon DEF Solves
  <1> QED
    BY <1>10, <1>11, Zenon

\* Taking a cell gives a solver.
LEMMA TakeType ==
  ASSUME NEW s \in Solves, NEW n \in Cells
  PROVE  Take(s, n) \in Solves
  <1> DEFINE pend == [s.pend EXCEPT ![n] = {}]
             succ == [s.succ EXCEPT ![n] = @ \cup s.psucc[n]]
             psucc == [s.psucc EXCEPT ![n] = {}]
             joins == [s.joins EXCEPT ![n] = @ \cup s.pjoins[n]]
             pjoins == [s.pjoins EXCEPT ![n] = {}]
             worklist == s.worklist \ {n}
  <1>1. pend \in Tables(Facts)
    BY DEF Tables, Solves
  <1>2. succ \in Tables(Cells) /\ psucc \in Tables(Cells)
    BY DEF Tables, Solves
  <1>3. joins \in Tables(Joins) /\ pjoins \in Tables(Joins)
    BY DEF Tables, Solves
  <1>4. worklist \in SUBSET Cells
    BY DEF Solves
  <1>5. Take(s, n) = [s EXCEPT !.pend = pend, !.succ = succ, !.psucc = psucc,
                               !.joins = joins, !.pjoins = pjoins, !.worklist = worklist]
    BY DEF Take
  <1> HIDE DEF pend, succ, psucc, joins, pjoins, worklist
  <1>6. [s EXCEPT !.pend = pend, !.succ = succ, !.psucc = psucc, !.joins = joins,
                  !.pjoins = pjoins, !.worklist = worklist] \in Solves
    BY <1>1, <1>2, <1>3, <1>4, Zenon DEF Solves
  <1> QED
    BY <1>5, <1>6, Zenon

\* The parts of loads, stores and GEPs.
LEMMA JoinKindsOf ==
  ASSUME NEW joins \in SUBSET Joins
  PROVE  /\ \A j \in Loads(joins) : j[2] \in Cells
         /\ \A j \in Stores(joins) : j[2] \in Cells /\ j[3] \in Labels \cup {NoLabel}
         /\ \A j \in Geps(joins) : j[2] \in Locations /\ j[3] \in Cells
  BY JoinKinds DEF Loads, Stores, Geps

\* The pairs one step handles are pointees with joins of their kind.
LEMMA PairsType ==
  ASSUME NEW s \in Solves, NEW n \in Cells, NEW early
  PROVE  /\ Loaded(s, n) \subseteq Pointees \X Loads(Joins)
         /\ OldStored(s, n) \subseteq Pointees \X Stores(Joins)
         /\ Stored(s, n) \subseteq Pointees \X Stores(Joins)
         /\ OldStepped(s, n) \subseteq Pointees \X Geps(Joins)
         /\ Stepped(s, n, early) \subseteq Pointees \X Geps(Joins)
  <1>1. s.joins[n] \subseteq Joins /\ s.pjoins[n] \subseteq Joins
    BY DEF Solves, Tables
  <1> QED
    BY <1>1 DEF Loaded, OldStored, Stored, OldStepped, Stepped, Paired, PointeesOf,
                Loads, Stores, Geps

\* What stores derive are facts of cells.
LEMMA StoreFactsType ==
  ASSUME NEW pairs \in SUBSET (Pointees \X Stores(Joins))
  PROVE  StoreFacts(pairs) \subseteq Cells \X Facts
  <1>1. \A p \in pairs :
          /\ p[1] \in Cells /\ p[2][2] \in Cells
          /\ p[2][3] \in Labels \cup {NoLabel}
    BY JoinKindsOf, CellKinds
  <1> QED
    BY <1>1, CellKinds DEF StoreFacts, Facts

\* What GEPs derive are pointees of cells.
LEMMA GepFactsType ==
  ASSUME NEW pairs \in SUBSET (Pointees \X Geps(Joins)), NEW fields
  PROVE  GepFacts(pairs, fields) \subseteq Cells \X Pointees
  <1>1. \A p \in pairs :
          /\ p[1] \in Pointees /\ p[2][2] \in Locations /\ p[2][3] \in Cells
    BY JoinKindsOf
  <1> QED
    BY <1>1, FieldOrRegion, CellKinds DEF GepFacts

\* What a step derives is well typed.
LEMMA StepFactsType ==
  ASSUME NEW s \in Solves, NEW n \in Cells, NEW early, NEW late
  PROVE  /\ StepFacts(s, n, early, late) \subseteq Cells \X Facts
         /\ StepCopies(s, n) \subseteq Cells \X Cells
         /\ StepTouched(s, n) \subseteq Pointees
         /\ StepFields(s, n, early, late) \subseteq FieldCells
  <1>1. Copied(s, n) \subseteq Cells \X Facts
    BY DEF Copied, Solves, Tables
  <1>2. StoreFacts(Stored(s, n)) \subseteq Cells \X Facts
    BY PairsType, StoreFactsType
  <1>3. Resolved(s, n, early, late) \subseteq Cells \X Facts
    <2>1. Resolved(s, n, early, late) \subseteq Cells \X Pointees
      BY PairsType, GepFactsType DEF Resolved
    <2> QED
      BY <2>1, CellKinds
  <1>4. StepCopies(s, n) \subseteq Cells \X Cells
    <2>1. \A p \in Loaded(s, n) : p[1] \in Cells /\ p[2][2] \in Cells
      BY PairsType, JoinKindsOf, CellKinds
    <2>2. \A p \in Stored(s, n) : p[1] \in Cells /\ p[2][2] \in Cells
      BY PairsType, JoinKindsOf, CellKinds
    <2> QED
      BY <2>1, <2>2 DEF StepCopies, LoadCopies, StoreCopies
  <1>5. StepTouched(s, n) \subseteq Pointees
    BY PairsType DEF StepTouched
  <1> QED
    BY <1>1, <1>2, <1>3, <1>4, <1>5 DEF StepFacts, StepFields

\* The joins of a step give a solver.
LEMMA JoinType ==
  ASSUME NEW s \in Solves, NEW n \in Cells, NEW early, NEW late
  PROVE  Join(s, n, early, late) \in Solves
  BY TakeType, StepFactsType, AbsorbType DEF Join

\* The ends of a memcpy hold pointees.
LEMMA EndpointsType ==
  ASSUME NEW s \in Solves, NEW m \in Memcpys
  PROVE  TargetsOf(s, m) \subseteq Pointees /\ OriginsOf(s, m) \subseteq Pointees
  BY DEF TargetsOf, OriginsOf, PointeesOf

\* What a bulk copy touches and links, memcpy by memcpy.
LEMMA BulkMembers ==
  ASSUME NEW s, NEW n
  PROVE  /\ \A x : x \in BulkTouched(s, n) <=>
              \/ \E m \in AtEndpoint(s, n) : x \in TargetsOf(s, m) \ s.seenTo[m]
              \/ \E m \in Activated(s, n) : x \in NewOrigins(s, m)
         /\ \A e : e \in BulkCopies(s, n) <=>
              \/ \E m \in Activated(s, n) : e \in NewOrigins(s, m) \X {SummaryCell(m)}
              \/ \E m \in Activated(s, n) : e \in {SummaryCell(m)} \X NewTargets(s, m)
  <1> DEFINE targets == UNION {TargetsOf(s, m) \ s.seenTo[m] : m \in AtEndpoint(s, n)}
             origins == UNION {NewOrigins(s, m) : m \in Activated(s, n)}
             incoming == UNION {(NewOrigins(s, m) \X {SummaryCell(m)}) : m \in Activated(s, n)}
             outgoing == UNION {({SummaryCell(m)} \X NewTargets(s, m)) : m \in Activated(s, n)}
  <1>1. BulkTouched(s, n) = targets \cup origins
    BY DEF BulkTouched
  <1>6. BulkCopies(s, n) = incoming \cup outgoing
    BY DEF BulkCopies
  <1>2. \A x : x \in targets <=> \E m \in AtEndpoint(s, n) : x \in TargetsOf(s, m) \ s.seenTo[m]
    BY Zenon
  <1>3. \A x : x \in origins <=> \E m \in Activated(s, n) : x \in NewOrigins(s, m)
    BY Zenon
  <1>4. \A e : e \in incoming <=>
          \E m \in Activated(s, n) : e \in NewOrigins(s, m) \X {SummaryCell(m)}
    BY Zenon
  <1>5. \A e : e \in outgoing <=>
          \E m \in Activated(s, n) : e \in {SummaryCell(m)} \X NewTargets(s, m)
    BY Zenon
  <1> HIDE DEF targets, origins, incoming, outgoing
  <1> QED
    BY <1>1, <1>2, <1>3, <1>4, <1>5, <1>6

\* The bulk copies relate cells and touch pointees.
LEMMA BulkTypes ==
  ASSUME NEW s \in Solves, NEW n \in Cells
  PROVE  BulkCopies(s, n) \subseteq Cells \X Cells /\ BulkTouched(s, n) \subseteq Pointees
  <1>1. AtEndpoint(s, n) \subseteq Memcpys /\ Activated(s, n) \subseteq Memcpys
    BY DEF AtEndpoint, Activated, Solves
  <1>2. \A m \in Memcpys : s.seenTo[m] \subseteq Pointees /\ s.seenFrom[m] \subseteq Pointees
    BY DEF Solves
  <1>3. \A m \in Memcpys : NewTargets(s, m) \subseteq Pointees
    BY <1>2, EndpointsType DEF NewTargets
  <1>4. \A m \in Memcpys : NewOrigins(s, m) \subseteq Pointees
    BY <1>2, EndpointsType DEF NewOrigins
  <1>5. \A m \in AtEndpoint(s, n) : TargetsOf(s, m) \ s.seenTo[m] \subseteq Pointees
    BY <1>1, EndpointsType
  <1>6. BulkTouched(s, n) \subseteq Pointees
    <2> SUFFICES ASSUME NEW x \in BulkTouched(s, n) PROVE x \in Pointees
      OBVIOUS
    <2> QED
      BY BulkMembers, <1>1, <1>4, <1>5
  <1>7. BulkCopies(s, n) \subseteq Cells \X Cells
    <2> SUFFICES ASSUME NEW e \in BulkCopies(s, n) PROVE e \in Cells \X Cells
      OBVIOUS
    <2>1. PICK m \in Activated(s, n) :
            \/ e \in NewOrigins(s, m) \X {SummaryCell(m)}
            \/ e \in {SummaryCell(m)} \X NewTargets(s, m)
      BY BulkMembers
    <2>2. SummaryCell(m) \in Cells
      BY <1>1, MemcpyCells
    <2>3. NewOrigins(s, m) \subseteq Cells /\ NewTargets(s, m) \subseteq Cells
      BY <1>1, <1>3, <1>4, CellKinds
    <2> QED
      BY <2>1, <2>2, <2>3
  <1> QED
    BY <1>6, <1>7

\* Recording what memcpys have seen gives a solver.
LEMMA SeenType ==
  ASSUME NEW s \in Solves, NEW n \in Cells
  PROVE  Seen(s, n) \in Solves
  <1> DEFINE seenTo == [m \in Memcpys |->
               IF m \in AtEndpoint(s, n) THEN s.seenTo[m] \cup TargetsOf(s, m) ELSE s.seenTo[m]]
             seenFrom == [m \in Memcpys |->
               IF m \in AtEndpoint(s, n) THEN s.seenFrom[m] \cup OriginsOf(s, m) ELSE s.seenFrom[m]]
             active == s.active \cup Activated(s, n)
  <1>1. seenTo \in [Memcpys -> SUBSET Pointees] /\ seenFrom \in [Memcpys -> SUBSET Pointees]
    BY EndpointsType DEF Solves
  <1>2. active \in SUBSET Memcpys
    BY DEF Activated, AtEndpoint, Solves
  <1>3. Seen(s, n) = [s EXCEPT !.seenTo = seenTo, !.seenFrom = seenFrom, !.active = active]
    BY Zenon DEF Seen
  <1> HIDE DEF seenTo, seenFrom, active
  <1> QED
    BY <1>1, <1>2, <1>3, Zenon DEF Solves

\* The bulk copies give a solver.
LEMMA BulkCopyType ==
  ASSUME NEW s \in Solves, NEW n \in Cells
  PROVE  BulkCopy(s, n) \in Solves
  BY SeenType, BulkTypes, AbsorbType DEF BulkCopy

\* Every cell has a leader, a leader leads itself and leaders are
\* representatives.
LEMMA CycleLeaderType ==
  ASSUME NEW s \in Solves
  PROVE  /\ CycleLeader(s) \in [Cells -> Cells]
         /\ \A c \in Cells : CycleLeader(s)[CycleLeader(s)[c]] = CycleLeader(s)[c]
         /\ \A c \in Cells : s.rep[c] = c =>
              s.rep[CycleLeader(s)[c]] = CycleLeader(s)[c]
         /\ \A c \in Cells : s.rep[c] # c => CycleLeader(s)[c] = c
  <1> DEFINE canonical == {c \in Cells : s.rep[c] = c}
             reach == [c \in canonical |-> Reach(CopyEdges(s), c)]
             least(r) == CHOOSE d \in canonical : reach[d] = r
  <1>1. \A c \in Cells :
          CycleLeader(s)[c] = IF c \in canonical THEN least(reach[c]) ELSE c
    BY DEF CycleLeader
  <1>2. CycleLeader(s) = [c \in Cells |-> CycleLeader(s)[c]]
    BY DEF CycleLeader
  <1> HIDE DEF reach
  <1>3. \A c \in canonical : least(reach[c]) \in canonical /\ reach[least(reach[c])] = reach[c]
    OBVIOUS
  <1> HIDE DEF least
  <1> QED
    BY <1>1, <1>2, <1>3

\* Merging the rows of a table gives a table.
LEMMA MergeType ==
  ASSUME NEW S, NEW table \in Tables(S), NEW leader \in [Cells -> Cells]
  PROVE  Merge(table, leader) \in Tables(S)
  BY DEF Merge, Tables

\* Merging cells gives a solver.
LEMMA CollapseType ==
  ASSUME NEW s \in Solves, NEW leader \in [Cells -> Cells]
  PROVE  CollapseOnto(s, leader) \in Solves
  <1> DEFINE rep == [c \in Cells |-> leader[s.rep[c]]]
             pts == Merge(s.pts, leader)
             joins == Merge([c \in Cells |-> s.joins[c] \cup s.pjoins[c]], leader)
             merged == Merge([c \in Cells |-> s.succ[c] \cup s.psucc[c]], leader)
             succ == [c \in Cells |-> {leader[d] : d \in merged[c]} \ {c}]
             worklist == {c \in Cells : pts[c] # {} \/ joins[c] # {}}
  <1>1. rep \in [Cells -> Cells]
    BY DEF Solves
  <1>2. pts \in Tables(Facts)
    BY MergeType DEF Solves
  <1>3. joins \in Tables(Joins)
    <2>1. [c \in Cells |-> s.joins[c] \cup s.pjoins[c]] \in Tables(Joins)
      BY DEF Solves, Tables
    <2> QED
      BY <2>1, MergeType
  <1>4. succ \in Tables(Cells)
    <2>1. [c \in Cells |-> s.succ[c] \cup s.psucc[c]] \in Tables(Cells)
      BY DEF Solves, Tables
    <2>2. merged \in Tables(Cells)
      BY <2>1, MergeType
    <2> HIDE DEF merged
    <2> QED
      BY <2>2 DEF Tables
  <1>5. worklist \in SUBSET Cells
    OBVIOUS
  <1>6. Empty \in Tables(Cells) /\ Empty \in Tables(Joins) /\ 0 \in Nat
    BY DEF Empty, Tables
  <1>7. CollapseOnto(s, leader) =
          [s EXCEPT !.rep = rep, !.pts = pts, !.pend = pts, !.succ = succ, !.psucc = Empty,
                    !.joins = Empty, !.pjoins = joins, !.worklist = worklist, !.fresh = 0]
    BY Zenon DEF CollapseOnto
  <1> HIDE DEF rep, pts, joins, succ, worklist
  <1>8. [s EXCEPT !.rep = rep, !.pts = pts, !.pend = pts, !.succ = succ, !.psucc = Empty,
                  !.joins = Empty, !.pjoins = joins, !.worklist = worklist, !.fresh = 0]
          \in Solves
    BY <1>1, <1>2, <1>3, <1>4, <1>5, <1>6, Zenon DEF Solves
  <1> QED
    BY <1>7, <1>8, Zenon

\* A system that may be installed, of the program being solved.
LEMMA SystemType ==
  ASSUME NEW p \in Programs, NEW system \in {p.base} \cup p.calls
  PROVE  system \in Systems
  BY ProgramAssumption

\* The parts of a constraint system.
LEMMA SystemTypes ==
  ASSUME NEW system \in Systems
  PROVE  /\ system.addrs \subseteq Cells \X Facts /\ system.copies \subseteq Cells \X Cells
         /\ system.joins \subseteq Cells \X Joins /\ system.memcpys \subseteq Memcpys
         /\ SystemFacts(system) \subseteq Cells \X Facts
         /\ SystemFields(system) \subseteq FieldCells
         /\ RegionsOf(system) \subseteq Regions
  BY CellKinds DEF Systems, SystemFacts, SystemFields, RegionsOf, Cells

\* Registering the joins of a system gives a solver.
LEMMA RegisteredType ==
  ASSUME NEW s \in Solves, NEW system \in Systems, NEW chosen \in SUBSET system.memcpys
  PROVE  Registered(s, system, chosen) \in Solves
  <1> DEFINE ends == {s.rep[Destination(m)] : m \in chosen} \cup {s.rep[Source(m)] : m \in chosen}
             pjoins == [c \in Cells |-> s.pjoins[c] \cup NewJoins(s, system, c)]
             memcpys == s.memcpys \cup chosen
             worklist == s.worklist \cup ends
                           \cup {c \in Cells : NewJoins(s, system, c) \ s.pjoins[c] # {}}
  <1>1. pjoins \in Tables(Joins)
    <2>1. \A c \in Cells : NewJoins(s, system, c) \subseteq Joins
      BY SystemTypes, AtType DEF NewJoins
    <2> QED
      BY <2>1 DEF Solves, Tables
  <1>2. memcpys \in SUBSET Memcpys
    BY SystemTypes DEF Solves
  <1>3. worklist \in SUBSET Cells
    BY SystemTypes, MemcpyCells DEF Solves
  <1>4. Registered(s, system, chosen) =
          [s EXCEPT !.pjoins = pjoins, !.memcpys = memcpys, !.worklist = worklist]
    BY Zenon DEF Registered
  <1> HIDE DEF pjoins, memcpys, worklist
  <1> QED
    BY <1>1, <1>2, <1>3, <1>4, Zenon DEF Solves

\* Installing a system gives a solver.
LEMMA InstallType ==
  ASSUME NEW s \in Solves, NEW system \in Systems, NEW chosen \in SUBSET system.memcpys
  PROVE  Install(s, system, chosen) \in Solves
  BY RegisteredType, SystemTypes, AbsorbType DEF Install

\* The empty solver is a solver.
LEMMA EmptyType == EmptySolve \in Solves
  BY DEF EmptySolve, Empty, Solves, Tables

(***************************************************************************)
(* Type correctness of the specification.                                  *)
(***************************************************************************)
LEMMA PopType ==
  ASSUME NEW s \in Solves, NEW n \in Cells, NEW early, NEW late
  PROVE  /\ BulkCopy(Join(s, n, early, late), n) \in Solves
         /\ CollapseCopySccs(BulkCopy(Join(s, n, early, late), n)) \in Solves
  <1>1. BulkCopy(Join(s, n, early, late), n) \in Solves
    BY JoinType, BulkCopyType
  <1>2. \A t \in Solves : CollapseCopySccs(t) \in Solves
    <2> TAKE t \in Solves
    <2>1. CollapseOnto(t, CycleLeader(t)) \in Solves
      BY CycleLeaderType, CollapseType
    <2>2. [t EXCEPT !.fresh = 0] \in Solves
      <3>1. 0 \in Nat
        OBVIOUS
      <3> QED
        BY <3>1, Zenon DEF Solves
    <2> QED
      BY <2>1, <2>2, Zenon DEF CollapseCopySccs
  <1> QED
    BY <1>1, <1>2

\* Every value of the state has its type: pointees are what memcpys and joins
\* see, fields are field cells of allocations, and directly accessed roots
\* are allocations, whatever program is solved.
THEOREM TypeCorrect == Spec => []TypeOK
<1>1. Init => TypeOK
  BY EmptyType DEF Init, TypeOK
<1>2. TypeOK /\ [Next]_vars => TypeOK'
  <2> SUFFICES ASSUME TypeOK, [Next]_vars PROVE TypeOK'
    OBVIOUS
  <2> USE DEF TypeOK
  <2>1. ASSUME NEW system \in {program.base} \cup program.calls, Add(system)
        PROVE  TypeOK'
    <3>1. system \in Systems
      BY SystemType
    <3>2. solve' \in Solves
      BY <2>1, <3>1, InstallType DEF Add
    <3> QED
      BY <2>1, <3>2 DEF Add
  <2>2. CASE Build
    BY <2>1, <2>2 DEF Build
  <2>3. ASSUME NEW system \in program.calls, Resume(system)
        PROVE  TypeOK'
    BY <2>1, <2>3 DEF Resume
  <2>4. ASSUME NEW n \in solve.worklist, Pop(n)
        PROVE  TypeOK'
    <3>1. n \in Cells
      BY DEF Solves
    <3>2. solve' \in Solves
      BY <2>4, <3>1, PopType DEF Pop
    <3> QED
      BY <2>4, <3>2 DEF Pop
  <2>5. CASE UNCHANGED vars
    BY <2>5 DEF vars
  <2> QED
    BY <2>2, <2>3, <2>4, <2>5 DEF Next
<1> QED
  BY <1>1, <1>2, PTL DEF Spec

(***************************************************************************)
(* What adding facts, edges, touched pointees and fields does to a solver. *)
(***************************************************************************)
\* t differs from s by additions, and no full root gained a lane.
Grown(s, t) ==
  /\ t.rep = s.rep
  /\ \A c \in Cells : s.pts[c] \subseteq t.pts[c]
  /\ \A c \in Cells : s.succ[c] \cup s.psucc[c] \subseteq t.succ[c] \cup t.psucc[c]
  /\ s.direct \subseteq t.direct
  /\ s.fields \subseteq t.fields
  /\ \A f \in t.fields \ s.fields :
       LocationOf(f) \in LaneLocations => ~Full(s.fields, Root(f))

\* t is s with the additions absorbed and queued.
Absorbed(s, t, facts, edges, touched, made) ==
  /\ t.rep = s.rep /\ t.succ = s.succ
  /\ t.joins = s.joins /\ t.pjoins = s.pjoins
  /\ t.memcpys = s.memcpys /\ t.active = s.active
  /\ t.seenTo = s.seenTo /\ t.seenFrom = s.seenFrom
  /\ \A c \in Cells : t.pts[c] = s.pts[c] \cup At(Canonical(s, facts), c)
  /\ \A c \in Cells : t.pend[c] = s.pend[c] \cup (t.pts[c] \ s.pts[c])
  /\ \A c \in Cells : s.psucc[c] \subseteq t.psucc[c]
  /\ \A c \in Cells : \A d \in t.psucc[c] \ s.psucc[c] :
       \E e \in edges \cup (Overlapping(t.fields, t.direct) \ Overlapping(s.fields, s.direct)) :
         c = s.rep[e[1]] /\ d = s.rep[e[2]]
  /\ \A c \in Cells : \A d \in t.psucc[c] \ s.psucc[c] :
       \E a, b \in Cells : c = s.rep[a] /\ d = s.rep[b]
  /\ \A e \in edges : HasEdge(t, e[1], e[2])
  /\ \A e \in Overlapping(t.fields, t.direct) \ Overlapping(s.fields, s.direct) :
       HasEdge(t, e[1], e[2])
  /\ t.direct = s.direct \cup (touched \cap Objects)
  /\ t.fields = s.fields \cup made \cup {UnknownField(o) : o \in t.direct \ s.direct}
  /\ s.worklist \subseteq t.worklist
  /\ \A c \in Cells :
       t.pts[c] # s.pts[c] \/ t.psucc[c] # s.psucc[c] => c \in t.worklist

\* A copy edge leaves a cell when either half of its edge set has it.
LEMMA CopyEdgesMembers ==
  ASSUME NEW s \in Solves, NEW a \in Cells, NEW b
  PROVE  <<a, b>> \in CopyEdges(s) <=> b \in s.succ[a] \cup s.psucc[a]
  <1>1. <<a, b>> \in CopyEdges(s) <=>
          \E c \in Cells : <<a, b>> \in {c} \X (s.succ[c] \cup s.psucc[c])
    BY Zenon DEF CopyEdges
  <1> QED
    BY <1>1

\* A copy edge asked for is there, or joins cells already merged.
LEMMA AbsorbEdges ==
  ASSUME NEW s \in Solves, NEW edges \in SUBSET (Cells \X Cells),
         NEW e \in edges
  PROVE  \/ s.rep[e[1]] = s.rep[e[2]]
         \/ s.rep[e[2]] \in s.succ[s.rep[e[1]]] \cup s.psucc[s.rep[e[1]]]
         \/ s.rep[e[2]] \in At(NewCopies(s, edges), s.rep[e[1]])
  <1> DEFINE a == s.rep[e[1]]
             b == s.rep[e[2]]
  <1>1. a \in Cells /\ b \in Cells
    BY DEF Solves
  <1>2. CASE a = b
    BY <1>2
  <1>3. CASE <<a, b>> \in CopyEdges(s)
    BY <1>1, <1>3, CopyEdgesMembers
  <1>4. CASE a # b /\ <<a, b>> \notin CopyEdges(s)
    <2>1. <<a, b>> \in NewCopies(s, edges)
      BY <1>4 DEF NewCopies
    <2> HIDE DEF a, b
    <2>2. b \in At(NewCopies(s, edges), a)
      BY <2>1 DEF At
    <2> QED
      BY <2>2 DEF a, b
  <1> QED
    BY <1>2, <1>3, <1>4

\* Absorb does what Absorbed says: it only adds, and queues what it added.
LEMMA AbsorbContract ==
  ASSUME NEW s \in Solves, NEW facts \in SUBSET (Cells \X Facts),
         NEW edges \in SUBSET (Cells \X Cells), NEW touched \in SUBSET Pointees,
         NEW made \in SUBSET FieldCells
  PROVE  Absorbed(s, Absorb(s, facts, edges, touched, made), facts, edges, touched, made)
  <1> DEFINE t == Absorb(s, facts, edges, touched, made)
             storage == StorageCopies(s, touched, made)
             copies == NewCopies(s, edges \cup storage)
             pts == PtsAfter(s, facts)
  <1>1. /\ t.rep = s.rep /\ t.succ = s.succ
        /\ t.joins = s.joins /\ t.pjoins = s.pjoins
        /\ t.memcpys = s.memcpys /\ t.active = s.active
        /\ t.seenTo = s.seenTo /\ t.seenFrom = s.seenFrom
    BY DEF Absorb, Solves
  <1>2. /\ t.pts = pts
        /\ t.pend = [c \in Cells |-> s.pend[c] \cup (pts[c] \ s.pts[c])]
        /\ t.psucc = [c \in Cells |-> s.psucc[c] \cup At(copies, c)]
    BY DEF Absorb, Solves
  <1>3. /\ t.direct = DirectAfter(s, touched)
        /\ t.fields = FieldsAfter(s, touched, made)
        /\ t.worklist = s.worklist \cup {c \in Cells : pts[c] # s.pts[c] \/ At(copies, c) # {}}
    BY DEF Absorb, Solves
  <1>4. /\ t.direct \in SUBSET Objects /\ t.fields \in SUBSET FieldCells
        /\ s.direct \in SUBSET Objects /\ s.fields \in SUBSET FieldCells
    BY AbsorbType DEF Solves
  <1>5. storage = Overlapping(t.fields, t.direct) \ Overlapping(s.fields, s.direct)
    BY <1>3 DEF StorageCopies
  <1>6. storage \subseteq Cells \X Cells
    BY <1>4, <1>5, OverlappingType, CellKinds
  <1> HIDE DEF t, storage
  <1>7. \A e \in edges \cup storage : HasEdge(t, e[1], e[2])
    <2> TAKE e \in edges \cup storage
    <2>1. e[1] \in Cells /\ e[2] \in Cells
      BY <1>6
    <2>2. \/ s.rep[e[1]] = s.rep[e[2]]
          \/ s.rep[e[2]] \in s.succ[s.rep[e[1]]] \cup s.psucc[s.rep[e[1]]]
          \/ s.rep[e[2]] \in At(copies, s.rep[e[1]])
      BY <1>6, AbsorbEdges
    <2>3. s.rep[e[1]] \in Cells
      BY <2>1 DEF Solves
    <2> HIDE DEF copies
    <2> QED
      BY <2>2, <2>3, <1>1, <1>2 DEF HasEdge
  <1>13. \A c \in Cells : \A d \in At(copies, c) :
           \E e \in edges \cup storage : c = s.rep[e[1]] /\ d = s.rep[e[2]]
    BY DEF At, NewCopies
  <1>8. \A c \in Cells : \A d \in At(copies, c) :
          \E a, b \in Cells : c = s.rep[a] /\ d = s.rep[b]
    BY <1>6, <1>13
  <1> HIDE DEF copies
  <1>9. \A c \in Cells :
          /\ t.pts[c] = s.pts[c] \cup At(Canonical(s, facts), c)
          /\ t.pend[c] = s.pend[c] \cup (t.pts[c] \ s.pts[c])
          /\ s.psucc[c] \subseteq t.psucc[c]
          /\ \A d \in t.psucc[c] \ s.psucc[c] :
               /\ \E a, b \in Cells : c = s.rep[a] /\ d = s.rep[b]
               /\ \E e \in edges \cup storage : c = s.rep[e[1]] /\ d = s.rep[e[2]]
    <2> HIDE DEF pts
    <2>1. \A c \in Cells : pts[c] = s.pts[c] \cup At(Canonical(s, facts), c)
      BY DEF pts, PtsAfter
    <2> QED
      BY <1>2, <1>8, <1>13, <2>1
  <1>10. /\ s.worklist \subseteq t.worklist
         /\ \A c \in Cells :
              t.pts[c] # s.pts[c] \/ t.psucc[c] # s.psucc[c] => c \in t.worklist
    <2> HIDE DEF pts
    <2> QED
      BY <1>2, <1>3
  <1>11. /\ t.direct = s.direct \cup (touched \cap Objects)
         /\ t.fields = s.fields \cup made \cup {UnknownField(o) : o \in t.direct \ s.direct}
    BY <1>3 DEF DirectAfter, FieldsAfter
  <1>14. \A c \in Cells : \A d \in t.psucc[c] \ s.psucc[c] :
           \E e \in edges \cup (Overlapping(t.fields, t.direct) \ Overlapping(s.fields, s.direct)) :
             c = s.rep[e[1]] /\ d = s.rep[e[2]]
    BY <1>5, <1>9
  <1>12. Absorbed(s, t, facts, edges, touched, made)
    BY <1>1, <1>5, <1>7, <1>9, <1>10, <1>11, <1>14, Zenon DEF Absorbed
  <1> QED
    BY <1>12 DEF t

(***************************************************************************)
(* What is done stays done.                                                *)
(***************************************************************************)
LEMMA EdgeKept ==
  ASSUME NEW s \in Solves, NEW t \in Solves, Grown(s, t),
         NEW a \in Cells, NEW b \in Cells, HasEdge(s, a, b)
  PROVE  HasEdge(t, a, b)
  <1>1. s.rep[a] \in Cells
    BY DEF Solves
  <1> QED
    BY <1>1 DEF Grown, HasEdge

\* A root that is full stays full.
LEMMA FullKept ==
  ASSUME NEW less \in SUBSET FieldCells, NEW more \in SUBSET FieldCells,
         less \subseteq more, NEW root, Full(less, root)
  PROVE  Full(more, root)
  <1>1. LanesOf(less, root) \subseteq LanesOf(more, root)
    BY DEF LanesOf
  <1>2. IsFiniteSet(LanesOf(more, root))
    BY FS_Subset, SolverAssumption DEF LanesOf
  <1>3. Cardinality(LanesOf(less, root)) <= Cardinality(LanesOf(more, root))
    BY <1>1, <1>2, FS_Subset
  <1>4. /\ Cardinality(LanesOf(less, root)) \in Nat
        /\ Cardinality(LanesOf(more, root)) \in Nat
    BY <1>1, <1>2, FS_Subset, FS_CardinalityType
  <1> QED
    BY <1>3, <1>4, SolverAssumption DEF Full

\* A resolved GEP resolves the same when the solver has grown.
LEMMA FieldKept ==
  ASSUME NEW s \in Solves, NEW t \in Solves, Grown(s, t),
         NEW o \in Pointees, NEW l \in Locations, Settled(o, l, s.fields)
  PROVE  /\ FieldOf(o, l, t.fields) = FieldOf(o, l, s.fields)
         /\ Settled(o, l, t.fields)
  <1> DEFINE cell == RequestedField(o, l)
  <1>1. s.fields \in SUBSET FieldCells /\ t.fields \in SUBSET FieldCells
    BY DEF Solves
  <1>2. s.fields \subseteq t.fields
    BY DEF Grown
  <1>3. CASE IsNewLane(cell, s.fields)
    <2>1. Full(s.fields, Root(cell))
      BY <1>3 DEF Settled
    <2>2. cell \notin t.fields
      BY <1>3, <2>1 DEF IsNewLane, Grown
    <2>3. IsNewLane(cell, t.fields)
      BY <1>3, <2>2 DEF IsNewLane
    <2>4. Full(t.fields, Root(cell))
      BY <1>1, <1>2, <2>1, FullKept
    <2> HIDE DEF cell
    <2> QED
      BY <1>3, <2>3, <2>4 DEF FieldOf, Settled, cell
  <1>4. CASE ~IsNewLane(cell, s.fields)
    <2>1. ~IsNewLane(cell, t.fields)
      BY <1>2, <1>4 DEF IsNewLane
    <2> QED
      BY <1>4, <2>1 DEF FieldOf, Settled
  <1> QED
    BY <1>3, <1>4

\* A join that is done for a pointee stays done as the solver grows.
LEMMA JoinKept ==
  ASSUME NEW s \in Solves, NEW t \in Solves, Grown(s, t),
         NEW o \in Pointees, NEW j \in Joins, JoinDone(s, o, j)
  PROVE  JoinDone(t, o, j)
  <1>1. /\ o \in Cells
        /\ \A c \in Cells : s.rep[c] \in Cells /\ t.rep[c] = s.rep[c]
        /\ \A c \in Cells : s.pts[s.rep[c]] \subseteq t.pts[t.rep[c]]
    BY CellKinds DEF Solves, Grown
  <1>2. DirectlyAccessed({o}, s.direct) => DirectlyAccessed({o}, t.direct)
    BY DEF DirectlyAccessed, Grown
  <1>3. CASE j[1] = "load"
    <2>1. HasEdge(t, o, j[2])
      BY <1>1, <1>3, JoinKinds, EdgeKept DEF JoinDone
    <2> QED
      BY <1>2, <1>3, <2>1 DEF JoinDone
  <1>4. CASE j[1] = "store"
    <2>1. j[2] \in Cells
      BY <1>4, JoinKinds
    <2>2. CASE j[2] \in Regions
      BY <1>1, <1>2, <1>4, <2>1, <2>2 DEF JoinDone
    <2>3. CASE j[2] \notin Regions
      <3>1. HasEdge(t, j[2], o)
        BY <1>1, <1>4, <2>1, <2>3, EdgeKept DEF JoinDone
      <3> QED
        BY <1>2, <1>4, <2>3, <3>1 DEF JoinDone
    <2> QED
      BY <2>2, <2>3
  <1>5. CASE j[1] = "gep"
    <2>1. j[2] \in Locations /\ j[3] \in Cells
      BY <1>5, JoinKinds
    <2>2. /\ FieldOf(o, j[2], t.fields) = FieldOf(o, j[2], s.fields)
          /\ Settled(o, j[2], t.fields)
      BY <1>5, <2>1, FieldKept DEF JoinDone
    <2>3. s.fields \subseteq t.fields
      BY DEF Grown
    <2> QED
      BY <1>1, <1>5, <2>1, <2>2, <2>3 DEF JoinDone
  <1> QED
    BY <1>3, <1>4, <1>5, JoinKinds

(***************************************************************************)
(* Absorbing keeps what held.                                              *)
(***************************************************************************)
LEMMA AbsorbFacts ==
  ASSUME NEW s \in Solves, NEW t \in Solves, NEW facts \in SUBSET (Cells \X Facts),
         NEW edges, NEW touched, NEW made,
         Absorbed(s, t, facts, edges, touched, made), NEW f \in facts
  PROVE  f[2] \in t.pts[s.rep[f[1]]]
  <1>1. <<s.rep[f[1]], f[2]>> \in Canonical(s, facts)
    BY DEF Canonical
  <1>2. f[2] \in At(Canonical(s, facts), s.rep[f[1]])
    BY <1>1 DEF At
  <1>3. s.rep[f[1]] \in Cells
    BY DEF Solves
  <1> QED
    BY <1>2, <1>3 DEF Absorbed

\* Absorbing facts, edges and touched pointees is growth, if no full root
\* gains a lane.
LEMMA AbsorbGrows ==
  ASSUME NEW s \in Solves, NEW t \in Solves, NEW facts, NEW edges, NEW touched, NEW made,
         Absorbed(s, t, facts, edges, touched, made),
         \A f \in made \ s.fields : LocationOf(f) \in LaneLocations => ~Full(s.fields, Root(f))
  PROVE  Grown(s, t)
  <1>1. \A f \in t.fields \ s.fields :
          LocationOf(f) \in LaneLocations => ~Full(s.fields, Root(f))
    <2> TAKE f \in t.fields \ s.fields
    <2>1. f \in made \/ \E o \in t.direct \ s.direct : f = UnknownField(o)
      BY DEF Absorbed
    <2>2. \A o : LocationOf(UnknownField(o)) = UnknownLocation
      BY DEF LocationOf, UnknownField
    <2> QED
      BY <2>1, <2>2, LocationAssumption
  <1>2. /\ \A c \in Cells : s.pts[c] \subseteq t.pts[c]
        /\ \A c \in Cells : s.psucc[c] \subseteq t.psucc[c]
        /\ t.rep = s.rep /\ t.succ = s.succ
        /\ s.direct \subseteq t.direct /\ s.fields \subseteq t.fields
    BY DEF Absorbed
  <1> QED
    BY <1>1, <1>2 DEF Grown

\* Absorbing keeps the representatives canonical and the facts at them.
LEMMA AbsorbCanonical ==
  ASSUME NEW s \in Solves, NEW t \in Solves, NEW facts, NEW edges, NEW touched, NEW made,
         facts \subseteq Cells \X Facts,
         Absorbed(s, t, facts, edges, touched, made), RepsCanonical(s)
  PROVE  RepsCanonical(t)
  <1>1. /\ \A c \in Cells : t.rep[c] = s.rep[c] /\ t.succ[c] = s.succ[c]
        /\ \A c \in Cells : t.joins[c] = s.joins[c] /\ t.pjoins[c] = s.pjoins[c]
    BY DEF Absorbed
  <1>2. \A c \in Cells : s.rep[c] \in Cells /\ s.rep[s.rep[c]] = s.rep[c]
    BY DEF RepsCanonical, Solves
  <1>3. \A c \in Cells : t.rep[c] # c => t.pts[c] = {} /\ t.psucc[c] = {}
    <2> TAKE c \in Cells
    <2> HAVE t.rep[c] # c
    <2>1. \A a \in Cells : c # s.rep[a]
      BY <1>1, <1>2
    <2>2. s.pts[c] = {} /\ s.psucc[c] = {}
      BY <1>1 DEF RepsCanonical
    <2>3. t.pts[c] = {}
      <3>1. At(Canonical(s, facts), c) = {}
        BY <2>1 DEF At, Canonical
      <3> QED
        BY <2>2, <3>1 DEF Absorbed
    <2>4. t.psucc[c] = {}
      BY <2>1, <2>2 DEF Absorbed
    <2> QED
      BY <2>3, <2>4
  <1>4. \A c \in Cells : \A d \in t.psucc[c] : t.rep[d] = d
    BY <1>1, <1>2 DEF Absorbed, RepsCanonical
  <1>5. \A c \in Cells : t.rep[c] # c =>
          t.succ[c] = {} /\ t.joins[c] = {} /\ t.pjoins[c] = {}
    BY <1>1 DEF RepsCanonical
  <1>6. \A c \in Cells : \A d \in t.succ[c] : t.rep[d] = d
    BY <1>1 DEF RepsCanonical, Solves, Tables
  <1>7. \A c \in Cells : t.rep[t.rep[c]] = t.rep[c]
    BY <1>1, <1>2
  <1> QED
    BY <1>3, <1>4, <1>5, <1>6, <1>7 DEF RepsCanonical

\* Pending work stays queued.
LEMMA AbsorbQueued ==
  ASSUME NEW s \in Solves, NEW t \in Solves, NEW facts, NEW edges, NEW touched, NEW made,
         Absorbed(s, t, facts, edges, touched, made), PendingQueued(s)
  PROVE  PendingQueued(t)
  <1> SUFFICES ASSUME NEW c \in Cells
               PROVE  /\ t.pend[c] \subseteq t.pts[c]
                      /\ t.pend[c] \cup t.psucc[c] \cup t.pjoins[c] # {} => c \in t.worklist
    BY DEF PendingQueued
  <1>1. /\ s.pend[c] \subseteq s.pts[c]
        /\ s.pend[c] \cup s.psucc[c] \cup s.pjoins[c] # {} => c \in s.worklist
    BY DEF PendingQueued
  <1>2. /\ s.pts[c] \subseteq t.pts[c] /\ t.pjoins[c] = s.pjoins[c]
        /\ t.pend[c] = s.pend[c] \cup (t.pts[c] \ s.pts[c])
        /\ s.worklist \subseteq t.worklist
        /\ t.pts[c] # s.pts[c] \/ t.psucc[c] # s.psucc[c] => c \in t.worklist
    BY DEF Absorbed
  <1> QED
    BY <1>1, <1>2

\* Absorbing makes nothing count as consumed.
LEMMA AbsorbConsumed ==
  ASSUME NEW s \in Solves, NEW t \in Solves, NEW facts, NEW edges, NEW touched, NEW made,
         Absorbed(s, t, facts, edges, touched, made), PendingQueued(s), NEW c \in Cells
  PROVE  t.pts[c] \ t.pend[c] = s.pts[c] \ s.pend[c]
  <1>1. /\ s.pend[c] \subseteq s.pts[c] /\ s.pts[c] \subseteq t.pts[c]
        /\ t.pend[c] = s.pend[c] \cup (t.pts[c] \ s.pts[c])
    BY DEF PendingQueued, Absorbed
  <1> QED
    BY <1>1

\* Absorbing keeps overlapping storage joined by copies.
LEMMA AbsorbStorage ==
  ASSUME NEW s \in Solves, NEW t \in Solves, NEW facts, NEW edges, NEW touched, NEW made,
         Absorbed(s, t, facts, edges, touched, made), Grown(s, t), StorageJoined(s)
  PROVE  StorageJoined(t)
  <1>1. \A o \in t.direct : UnknownField(o) \in t.fields
    BY DEF Absorbed, StorageJoined
  <1>2. ASSUME NEW e \in Overlapping(t.fields, t.direct)
        PROVE  HasEdge(t, e[1], e[2])
    <2>1. CASE e \in Overlapping(s.fields, s.direct)
      <3>1. e[1] \in Cells /\ e[2] \in Cells
        BY <1>2, OverlappingType, CellKinds DEF Solves
      <3> QED
        BY <2>1, <3>1, EdgeKept DEF StorageJoined
    <2>2. CASE e \notin Overlapping(s.fields, s.direct)
      BY <2>2 DEF Absorbed
    <2> QED
      BY <2>1, <2>2
  <1> QED
    BY <1>1, <1>2 DEF StorageJoined

\* A memcpy whose ends are queued or being processed stays so, and what it
\* has linked stays linked.
LEMMA AbsorbMemcpy ==
  ASSUME NEW s \in Solves, NEW t \in Solves, NEW facts, NEW edges, NEW touched, NEW made,
         Absorbed(s, t, facts, edges, touched, made), Grown(s, t),
         NEW m \in Memcpys, NEW busy, MemcpyConsumed(s, m, s.worklist \cup busy)
  PROVE  MemcpyConsumed(t, m, t.worklist \cup busy)
  <1>1. /\ t.rep = s.rep /\ t.seenTo = s.seenTo /\ t.seenFrom = s.seenFrom
        /\ s.worklist \subseteq t.worklist /\ s.direct \subseteq t.direct
        /\ \A c \in Cells : t.pts[c] # s.pts[c] => c \in t.worklist
    BY DEF Absorbed
  <1>2. s.rep[Destination(m)] \in Cells /\ s.rep[Source(m)] \in Cells /\ SummaryCell(m) \in Cells
    BY MemcpyCells DEF Solves
  <1>3. s.seenTo[m] \subseteq Cells /\ s.seenFrom[m] \subseteq Cells
    BY CellKinds DEF Solves
  <1>4. t.rep[Destination(m)] \in t.worklist \cup busy \/ TargetsOf(t, m) \subseteq t.seenTo[m]
    BY <1>1, <1>2 DEF MemcpyConsumed, TargetsOf
  <1>5. t.rep[Source(m)] \in t.worklist \cup busy \/ OriginsOf(t, m) \subseteq t.seenFrom[m]
    BY <1>1, <1>2 DEF MemcpyConsumed, OriginsOf
  <1>6. DirectlyAccessed(t.seenTo[m], t.direct)
    BY <1>1 DEF MemcpyConsumed, DirectlyAccessed
  <1>7. ASSUME t.seenTo[m] # {} /\ t.seenFrom[m] # {}
        PROVE  /\ DirectlyAccessed(t.seenFrom[m], t.direct)
               /\ \A o \in t.seenFrom[m] : HasEdge(t, o, SummaryCell(m))
               /\ \A d \in t.seenTo[m] : HasEdge(t, SummaryCell(m), d)
    <2>1. DirectlyAccessed(t.seenFrom[m], t.direct)
      BY <1>1, <1>7 DEF MemcpyConsumed, DirectlyAccessed
    <2>2. \A o \in t.seenFrom[m] : HasEdge(t, o, SummaryCell(m))
      BY <1>1, <1>2, <1>3, <1>7, EdgeKept DEF MemcpyConsumed
    <2>3. \A d \in t.seenTo[m] : HasEdge(t, SummaryCell(m), d)
      BY <1>1, <1>2, <1>3, <1>7, EdgeKept DEF MemcpyConsumed
    <2> QED
      BY <2>1, <2>2, <2>3
  <1> QED
    BY <1>4, <1>5, <1>6, <1>7 DEF MemcpyConsumed

\* Absorbing keeps what memcpys have seen within the endpoints' contents.
LEMMA AbsorbInventory ==
  ASSUME NEW s \in Solves, NEW t \in Solves, NEW facts, NEW edges, NEW touched, NEW made,
         Absorbed(s, t, facts, edges, touched, made), MemcpyInventory(s)
  PROVE  MemcpyInventory(t)
  <1>1. /\ t.rep = s.rep /\ t.seenTo = s.seenTo /\ t.seenFrom = s.seenFrom
        /\ t.memcpys = s.memcpys /\ t.active = s.active
        /\ \A c \in Cells : s.pts[c] \subseteq t.pts[c]
    BY DEF Absorbed
  <1>2. \A m \in Memcpys :
          TargetsOf(s, m) \subseteq TargetsOf(t, m) /\ OriginsOf(s, m) \subseteq OriginsOf(t, m)
    BY <1>1, MemcpyCells DEF TargetsOf, OriginsOf, PointeesOf, Solves
  <1> QED
    BY <1>1, <1>2 DEF MemcpyInventory

\* What a system asked for stays represented.
LEMMA KeptRepresented ==
  ASSUME NEW s \in Solves, NEW t \in Solves, Grown(s, t),
         \A c \in Cells : s.joins[c] \cup s.pjoins[c] \subseteq t.joins[c] \cup t.pjoins[c],
         s.memcpys \subseteq t.memcpys,
         NEW system \in Systems, Represented(s, system)
  PROVE  Represented(t, system)
  <1>1. /\ system.addrs \subseteq Cells \X Facts /\ system.copies \subseteq Cells \X Cells
        /\ system.joins \subseteq Cells \X Joins /\ system.memcpys \subseteq Memcpys
        /\ RegionsOf(system) \subseteq Cells
    BY CellKinds DEF Systems, RegionsOf, Cells
  <1>2. \A c \in Cells : s.rep[c] \in Cells /\ t.rep[c] = s.rep[c]
    BY DEF Solves, Grown
  <1>3. \A c \in Cells : s.pts[s.rep[c]] \subseteq t.pts[t.rep[c]]
    BY <1>2 DEF Grown
  <1>4. \A r \in RegionsOf(system) : r \in t.pts[t.rep[r]]
    BY <1>1, <1>3 DEF Represented
  <1>5. \A a \in system.addrs : a[2] \in t.pts[t.rep[a[1]]]
    BY <1>1, <1>3 DEF Represented
  <1>6. \A e \in system.copies : HasEdge(t, e[1], e[2])
    BY <1>1, EdgeKept DEF Represented
  <1>7. \A j \in system.joins : j[2] \in t.joins[t.rep[j[1]]] \cup t.pjoins[t.rep[j[1]]]
    BY <1>1, <1>2 DEF Represented
  <1>8. \A m, k : SameEndpoints(s, m, k) <=> SameEndpoints(t, m, k)
    BY DEF SameEndpoints, Grown
  <1>9. \A m \in system.memcpys : \E k \in t.memcpys : SameEndpoints(t, m, k)
    BY <1>8 DEF Represented
  <1> QED
    BY <1>4, <1>5, <1>6, <1>7, <1>9 DEF Represented

(***************************************************************************)
(* Taking a cell off the worklist.                                         *)
(***************************************************************************)
LEMMA TakeFields ==
  ASSUME NEW s \in Solves, NEW n \in Cells
  PROVE  LET u == Take(s, n)
         IN  /\ u.rep = s.rep /\ u.pts = s.pts /\ u.direct = s.direct /\ u.fields = s.fields
             /\ u.memcpys = s.memcpys /\ u.active = s.active
             /\ u.seenTo = s.seenTo /\ u.seenFrom = s.seenFrom
             /\ u.worklist = s.worklist \ {n}
  BY DEF Take, Solves

\* Taking a cell empties its pending halves into the established ones.
LEMMA TakeTables ==
  ASSUME NEW s \in Solves, NEW n \in Cells, NEW c \in Cells
  PROVE  LET u == Take(s, n)
         IN  /\ u.pend[c] = IF c = n THEN {} ELSE s.pend[c]
             /\ u.succ[c] = IF c = n THEN s.succ[c] \cup s.psucc[c] ELSE s.succ[c]
             /\ u.psucc[c] = IF c = n THEN {} ELSE s.psucc[c]
             /\ u.joins[c] = IF c = n THEN s.joins[c] \cup s.pjoins[c] ELSE s.joins[c]
             /\ u.pjoins[c] = IF c = n THEN {} ELSE s.pjoins[c]
  <1> DEFINE u == Take(s, n)
  <1>1. /\ u.pend = [s.pend EXCEPT ![n] = {}]
        /\ u.succ = [s.succ EXCEPT ![n] = @ \cup s.psucc[n]]
        /\ u.psucc = [s.psucc EXCEPT ![n] = {}]
        /\ u.joins = [s.joins EXCEPT ![n] = @ \cup s.pjoins[n]]
        /\ u.pjoins = [s.pjoins EXCEPT ![n] = {}]
    BY DEF Take, Solves
  <1>2. /\ s.pend \in [Cells -> SUBSET Facts] /\ s.succ \in [Cells -> SUBSET Cells]
        /\ s.psucc \in [Cells -> SUBSET Cells] /\ s.joins \in [Cells -> SUBSET Joins]
        /\ s.pjoins \in [Cells -> SUBSET Joins]
    BY DEF Solves, Tables
  <1> HIDE DEF u
  <1>3. /\ u.pend[c] = IF c = n THEN {} ELSE s.pend[c]
        /\ u.succ[c] = IF c = n THEN s.succ[c] \cup s.psucc[c] ELSE s.succ[c]
        /\ u.psucc[c] = IF c = n THEN {} ELSE s.psucc[c]
        /\ u.joins[c] = IF c = n THEN s.joins[c] \cup s.pjoins[c] ELSE s.joins[c]
        /\ u.pjoins[c] = IF c = n THEN {} ELSE s.pjoins[c]
    BY <1>1, <1>2
  <1> QED
    BY <1>3 DEF u

\* The cell's pending half is established and nothing else changes.
LEMMA TakeKeeps ==
  ASSUME NEW s \in Solves, NEW n \in Cells, SemiNaive(s)
  PROVE  /\ Grown(s, Take(s, n))
         /\ RepsCanonical(Take(s, n))
         /\ PendingQueued(Take(s, n))
         /\ StorageJoined(Take(s, n))
         /\ MemcpyInventory(Take(s, n))
         /\ \A m \in s.memcpys :
              MemcpyConsumed(Take(s, n), m, Take(s, n).worklist \cup {n})
  <1> DEFINE u == Take(s, n)
  <1>1. u \in Solves
    BY TakeType
  <1>2. /\ u.rep = s.rep /\ u.pts = s.pts /\ u.direct = s.direct /\ u.fields = s.fields
        /\ u.memcpys = s.memcpys /\ u.active = s.active
        /\ u.seenTo = s.seenTo /\ u.seenFrom = s.seenFrom
        /\ u.worklist = s.worklist \ {n}
    BY TakeFields
  <1>3. \A c \in Cells :
          /\ u.pend[c] = IF c = n THEN {} ELSE s.pend[c]
          /\ u.succ[c] = IF c = n THEN s.succ[c] \cup s.psucc[c] ELSE s.succ[c]
          /\ u.psucc[c] = IF c = n THEN {} ELSE s.psucc[c]
          /\ u.joins[c] = IF c = n THEN s.joins[c] \cup s.pjoins[c] ELSE s.joins[c]
          /\ u.pjoins[c] = IF c = n THEN {} ELSE s.pjoins[c]
    BY TakeTables
  <1> HIDE DEF u
  <1>4. \A c \in Cells : u.succ[c] \cup u.psucc[c] = s.succ[c] \cup s.psucc[c]
    BY <1>3
  <1>5. Grown(s, u)
    BY <1>2, <1>4 DEF Grown
  <1>6. RepsCanonical(u)
    <2>1. /\ \A c \in Cells : s.rep[s.rep[c]] = s.rep[c]
          /\ \A c \in Cells : s.rep[c] # c =>
               /\ s.pts[c] = {} /\ s.succ[c] = {} /\ s.psucc[c] = {}
               /\ s.joins[c] = {} /\ s.pjoins[c] = {}
          /\ \A c \in Cells : \A d \in s.succ[c] \cup s.psucc[c] : s.rep[d] = d
      BY DEF SemiNaive, RepsCanonical
    <2>2. \A c \in Cells : u.rep[u.rep[c]] = u.rep[c]
      BY <1>2, <2>1
    <2>3. \A c \in Cells : u.rep[c] # c =>
            /\ u.pts[c] = {} /\ u.succ[c] = {} /\ u.psucc[c] = {}
            /\ u.joins[c] = {} /\ u.pjoins[c] = {}
      <3> TAKE c \in Cells
      <3>1. u.rep[c] = s.rep[c] /\ u.pts[c] = s.pts[c]
        BY <1>2
      <3>2. u.succ[c] \cup u.psucc[c] \subseteq s.succ[c] \cup s.psucc[c]
        BY <1>3
      <3>3. u.joins[c] \cup u.pjoins[c] \subseteq s.joins[c] \cup s.pjoins[c]
        BY <1>3
      <3> QED
        BY <2>1, <3>1, <3>2, <3>3
    <2>4. \A c \in Cells : \A d \in u.succ[c] \cup u.psucc[c] : u.rep[d] = d
      BY <1>2, <1>4, <2>1
    <2> QED
      BY <2>2, <2>3, <2>4 DEF RepsCanonical
  <1>7. PendingQueued(u)
    BY <1>2, <1>3 DEF SemiNaive, PendingQueued
  <1>8. StorageJoined(u)
    <2>1. ASSUME NEW e \in Overlapping(u.fields, u.direct)
          PROVE  HasEdge(u, e[1], e[2])
      <3>1. e[1] \in Cells /\ e[2] \in Cells
        BY <1>1, OverlappingType, CellKinds DEF Solves
      <3> QED
        BY <1>1, <1>2, <1>5, <3>1, EdgeKept DEF SemiNaive, StorageJoined
    <2> QED
      BY <1>2, <2>1 DEF SemiNaive, StorageJoined
  <1>9. \A m \in Memcpys : TargetsOf(u, m) = TargetsOf(s, m) /\ OriginsOf(u, m) = OriginsOf(s, m)
    BY <1>2 DEF TargetsOf, OriginsOf
  <1>10. MemcpyInventory(u)
    BY <1>2, <1>9 DEF SemiNaive, MemcpyInventory
  <1>11. ASSUME NEW m \in s.memcpys
         PROVE  MemcpyConsumed(u, m, u.worklist \cup {n})
    <2>1. m \in Memcpys /\ MemcpyConsumed(s, m, s.worklist)
      BY DEF SemiNaive, MemcpysConsumed, Solves
    <2>2. s.seenTo[m] \subseteq Cells /\ s.seenFrom[m] \subseteq Cells /\ SummaryCell(m) \in Cells
      BY <2>1, CellKinds, MemcpyCells DEF Solves
    <2>3. \A a, b \in Cells : HasEdge(s, a, b) => HasEdge(u, a, b)
      BY <1>1, <1>5, EdgeKept
    <2>4. s.worklist \subseteq u.worklist \cup {n}
      BY <1>2
    <2> QED
      BY <1>2, <1>9, <2>1, <2>2, <2>3, <2>4 DEF MemcpyConsumed
  <1> QED
    BY <1>5, <1>6, <1>7, <1>8, <1>10, <1>11 DEF u

(***************************************************************************)
(* Lanes.  What a step admits, it makes; what it refuses is full.          *)
(***************************************************************************)
Admitted(s, n, early, late) ==
  /\ early \in Admissible(EarlyLanes(s, n), s.fields)
  /\ late \in Admissible(LateLanes(s, n, early), s.fields \cup early)

\* The lanes a root admits are new, requested and within its cap; a request
\* refused meets a full root.
LEMMA AdmissibleLanes ==
  ASSUME NEW fields \in SUBSET FieldCells, NEW pairs,
         NEW lanes \in Admissible(RequestedLanes(pairs, fields), fields)
  PROVE  /\ lanes \in SUBSET FieldCells
         /\ \A f \in lanes :
              /\ f \notin fields /\ LocationOf(f) \in LaneLocations
              /\ ~Full(fields, Root(f))
              /\ \E p \in pairs : f = RequestedField(p[1], p[2][2])
         /\ \A p \in pairs :
              IsNewLane(RequestedField(p[1], p[2][2]), fields \cup lanes)
                => Full(fields \cup lanes, Root(RequestedField(p[1], p[2][2])))
  <1>1. lanes \subseteq RequestedLanes(pairs, fields)
    BY DEF Admissible
  <1>2. \A f \in lanes :
          /\ f \in FieldCells \ fields /\ LocationOf(f) \in LaneLocations
          /\ \E p \in pairs : f = RequestedField(p[1], p[2][2])
    BY <1>1 DEF RequestedLanes, IsNewLane
  <1>3. ASSUME NEW f \in lanes
        PROVE  ~Full(fields, Root(f))
    <2>1. ~Full((fields \cup lanes) \ {f}, Root(f))
      BY <1>3 DEF Admissible
    <2>2. (fields \cup lanes) \ {f} \in SUBSET FieldCells
      BY <1>2
    <2>3. fields \subseteq (fields \cup lanes) \ {f}
      BY <1>2, <1>3
    <2> QED
      BY <2>1, <2>2, <2>3, FullKept
  <1>4. ASSUME NEW p \in pairs, IsNewLane(RequestedField(p[1], p[2][2]), fields \cup lanes)
        PROVE  Full(fields \cup lanes, Root(RequestedField(p[1], p[2][2])))
    <2> DEFINE f == RequestedField(p[1], p[2][2])
    <2>1. IsNewLane(f, fields) /\ f \notin lanes
      BY <1>4 DEF IsNewLane
    <2>2. f \in RequestedLanes(pairs, fields)
      BY <2>1 DEF RequestedLanes
    <2> HIDE DEF f
    <2>3. Full(fields \cup lanes, Root(f))
      BY <2>1, <2>2 DEF Admissible
    <2> QED
      BY <2>3 DEF f
  <1> QED
    BY <1>2, <1>3, <1>4

\* The lanes a step admits before and after the joins settle every request
\* the step makes.
LEMMA StepLanes ==
  ASSUME NEW s \in Solves, NEW n \in Cells, NEW early, NEW late, Admitted(s, n, early, late)
  PROVE  /\ early \in SUBSET FieldCells /\ late \in SUBSET FieldCells
         /\ \A f \in early \cup late : f \notin s.fields /\ ~Full(s.fields, Root(f))
         /\ early \cup late \subseteq StepFields(s, n, early, late)
         /\ \A f \in StepFields(s, n, early, late) :
              LocationOf(f) \in LaneLocations => f \in s.fields \cup early \cup late
         /\ \A p \in Stepped(s, n, early) :
              Settled(p[1], p[2][2], s.fields \cup early \cup late)
  <1> DEFINE all == s.fields \cup early \cup late
  <1>1. s.fields \in SUBSET FieldCells
    BY DEF Solves
  <1>2. /\ early \in SUBSET FieldCells
        /\ \A f \in early :
             /\ f \notin s.fields /\ LocationOf(f) \in LaneLocations
             /\ ~Full(s.fields, Root(f))
             /\ \E p \in OldStepped(s, n) : f = RequestedField(p[1], p[2][2])
    <2> DEFINE pairs == OldStepped(s, n)
               less == s.fields
    <2>1. early \in Admissible(RequestedLanes(pairs, less), less)
      BY DEF Admitted, EarlyLanes
    <2> HIDE DEF pairs, less
    <2>2. /\ early \in SUBSET FieldCells
          /\ \A f \in early :
               /\ f \notin less /\ LocationOf(f) \in LaneLocations
               /\ ~Full(less, Root(f))
               /\ \E p \in pairs : f = RequestedField(p[1], p[2][2])
          /\ \A p \in pairs :
               IsNewLane(RequestedField(p[1], p[2][2]), less \cup early)
                 => Full(less \cup early, Root(RequestedField(p[1], p[2][2])))
      <3>1. less \in SUBSET FieldCells
        BY <1>1 DEF less
      <3> QED
        BY <2>1, <3>1, AdmissibleLanes
    <2> QED
      BY <2>2 DEF pairs, less
  <1>3. s.fields \cup early \in SUBSET FieldCells
    BY <1>1, <1>2
  <1>4. /\ late \in SUBSET FieldCells
        /\ \A f \in late :
             /\ f \notin s.fields \cup early /\ LocationOf(f) \in LaneLocations
             /\ ~Full(s.fields \cup early, Root(f))
             /\ \E p \in Stepped(s, n, early) : f = RequestedField(p[1], p[2][2])
        /\ \A p \in Stepped(s, n, early) :
             IsNewLane(RequestedField(p[1], p[2][2]), all)
               => Full(all, Root(RequestedField(p[1], p[2][2])))
    <2> DEFINE pairs == Stepped(s, n, early)
               more == s.fields \cup early
    <2>1. late \in Admissible(RequestedLanes(pairs, more), more)
      BY DEF Admitted, LateLanes
    <2>2. more \in SUBSET FieldCells
      BY <1>3
    <2> HIDE DEF pairs, more
    <2>3. /\ late \in SUBSET FieldCells
          /\ \A f \in late :
               /\ f \notin more /\ LocationOf(f) \in LaneLocations
               /\ ~Full(more, Root(f))
               /\ \E p \in pairs : f = RequestedField(p[1], p[2][2])
          /\ \A p \in pairs :
               IsNewLane(RequestedField(p[1], p[2][2]), more \cup late)
                 => Full(more \cup late, Root(RequestedField(p[1], p[2][2])))
      BY <2>1, <2>2, AdmissibleLanes
    <2> QED
      BY <2>3 DEF pairs, more
  <1>5. \A f \in late : ~Full(s.fields, Root(f))
    BY <1>1, <1>3, <1>4, FullKept
  <1>6. OldStepped(s, n) \subseteq Stepped(s, n, early)
    BY DEF OldStepped, Stepped, Paired
  <1>7. ASSUME NEW f \in early \cup late
        PROVE  f \in StepFields(s, n, early, late)
    <2>1. PICK p \in Stepped(s, n, early) : f = RequestedField(p[1], p[2][2])
      BY <1>2, <1>4, <1>6
    <2>2. FieldOf(p[1], p[2][2], all) = f
      BY <2>1 DEF FieldOf, IsNewLane
    <2> HIDE DEF all
    <2>3. <<p[2][3], f>> \in GepFacts(Stepped(s, n, early), all)
      BY <2>1, <2>2 DEF GepFacts
    <2>4. <<p[2][3], f>> \in Resolved(s, n, early, late)
      BY <2>3 DEF Resolved, all
    <2>5. f \in FieldCells
      BY <1>2, <1>4
    <2> QED
      BY <2>4, <2>5 DEF StepFields
  <1>8. ASSUME NEW f \in StepFields(s, n, early, late), LocationOf(f) \in LaneLocations
        PROVE  f \in all
    <2>1. f \in FieldCells /\ \E r \in Resolved(s, n, early, late) : f = r[2]
      BY DEF StepFields
    <2>2. PICK p \in Stepped(s, n, early) : f = FieldOf(p[1], p[2][2], all)
      <3> DEFINE pairs == Stepped(s, n, early)
      <3>1. \E r \in {<<p[2][3], FieldOf(p[1], p[2][2], all)>> : p \in pairs} : f = r[2]
        BY <2>1 DEF Resolved, GepFacts
      <3> HIDE DEF pairs, all
      <3>2. \E p \in pairs : f = FieldOf(p[1], p[2][2], all)
        BY <3>1
      <3> QED
        BY <3>2 DEF pairs
    <2>3. \A o : LocationOf(UnknownField(o)) = UnknownLocation
      BY DEF LocationOf, UnknownField
    <2>4. f = RequestedField(p[1], p[2][2]) /\ ~IsNewLane(f, all)
      BY <1>8, <2>2, <2>3, LocationAssumption DEF FieldOf
    <2> QED
      BY <1>8, <2>1, <2>4 DEF IsNewLane
  <1>9. \A p \in Stepped(s, n, early) : Settled(p[1], p[2][2], all)
    BY <1>4 DEF Settled
  <1> QED
    BY <1>2, <1>4, <1>5, <1>7, <1>8, <1>9

(***************************************************************************)
(* Processing a cell: copies, loads, stores and GEPs.                      *)
(***************************************************************************)
LEMMA JoinAbsorbs ==
  ASSUME NEW s \in Solves, NEW n \in Cells, NEW early, NEW late
  PROVE  Absorbed(Take(s, n), Join(s, n, early, late), StepFacts(s, n, early, late),
                  StepCopies(s, n), StepTouched(s, n), StepFields(s, n, early, late))
  BY TakeType, StepFactsType, AbsorbContract DEF Join

\* The joins of a step only grow the solver, and its later lanes change no
\* earlier request's answer.
LEMMA JoinGrows ==
  ASSUME NEW s \in Solves, NEW n \in Cells, NEW early, NEW late, Admitted(s, n, early, late)
  PROVE  /\ Grown(Take(s, n), Join(s, n, early, late))
         /\ Grown(s, Join(s, n, early, late))
         /\ \A p \in Stepped(s, n, early) :
              /\ FieldOf(p[1], p[2][2], Join(s, n, early, late).fields)
                   = FieldOf(p[1], p[2][2], s.fields \cup early \cup late)
              /\ Settled(p[1], p[2][2], Join(s, n, early, late).fields)
         /\ StepFields(s, n, early, late) \subseteq Join(s, n, early, late).fields
  <1> DEFINE u == Take(s, n)
             t == Join(s, n, early, late)
             made == StepFields(s, n, early, late)
             all == s.fields \cup early \cup late
  <1>1. u \in Solves /\ t \in Solves
    BY TakeType, JoinType
  <1>2. Absorbed(u, t, StepFacts(s, n, early, late), StepCopies(s, n), StepTouched(s, n), made)
    BY JoinAbsorbs
  <1>3. /\ u.rep = s.rep /\ u.pts = s.pts /\ u.direct = s.direct /\ u.fields = s.fields
        /\ u.memcpys = s.memcpys /\ u.active = s.active
        /\ u.seenTo = s.seenTo /\ u.seenFrom = s.seenFrom
        /\ u.worklist = s.worklist \ {n}
    BY TakeFields
  <1>4. \A c \in Cells : u.succ[c] \cup u.psucc[c] = s.succ[c] \cup s.psucc[c]
    <2> TAKE c \in Cells
    <2>1. /\ u.pend[c] = IF c = n THEN {} ELSE s.pend[c]
          /\ u.succ[c] = IF c = n THEN s.succ[c] \cup s.psucc[c] ELSE s.succ[c]
          /\ u.psucc[c] = IF c = n THEN {} ELSE s.psucc[c]
          /\ u.joins[c] = IF c = n THEN s.joins[c] \cup s.pjoins[c] ELSE s.joins[c]
          /\ u.pjoins[c] = IF c = n THEN {} ELSE s.pjoins[c]
      BY TakeTables
    <2> HIDE DEF u
    <2> QED
      BY <2>1
  <1>5. /\ early \in SUBSET FieldCells /\ late \in SUBSET FieldCells
        /\ \A f \in early \cup late : f \notin s.fields /\ ~Full(s.fields, Root(f))
        /\ early \cup late \subseteq made
        /\ \A f \in made : LocationOf(f) \in LaneLocations => f \in all
        /\ \A p \in Stepped(s, n, early) : Settled(p[1], p[2][2], all)
    BY StepLanes
  <1> HIDE DEF u, t, made
  <1>6. Grown(u, t)
    <2>1. \A f \in made \ u.fields : LocationOf(f) \in LaneLocations => ~Full(u.fields, Root(f))
      BY <1>3, <1>5
    <2> QED
      BY <1>1, <1>2, <2>1, AbsorbGrows
  <1>7. Grown(s, t)
    BY <1>3, <1>4, <1>6 DEF Grown
  <1>8. \A f \in t.fields : LocationOf(f) \in LaneLocations => f \in all
    <2>1. \A f \in t.fields : f \in s.fields \cup made \/ \E o \in t.direct : f = UnknownField(o)
      BY <1>2, <1>3 DEF Absorbed
    <2>2. \A o : LocationOf(UnknownField(o)) = UnknownLocation
      BY DEF LocationOf, UnknownField
    <2> QED
      BY <1>5, <2>1, <2>2, LocationAssumption
  <1>9. all \subseteq t.fields /\ made \subseteq t.fields
    BY <1>2, <1>3, <1>5 DEF Absorbed
  <1>10. all \in SUBSET FieldCells /\ t.fields \in SUBSET FieldCells
    BY <1>1, <1>5 DEF Solves
  <1> HIDE DEF all
  <1>11. ASSUME NEW p \in Stepped(s, n, early)
         PROVE  /\ FieldOf(p[1], p[2][2], t.fields) = FieldOf(p[1], p[2][2], all)
                /\ Settled(p[1], p[2][2], t.fields)
    <2> DEFINE cell == RequestedField(p[1], p[2][2])
    <2>1. IsNewLane(cell, t.fields) <=> IsNewLane(cell, all)
      BY <1>8, <1>9 DEF IsNewLane
    <2>2. IsNewLane(cell, t.fields) => Full(t.fields, Root(cell))
      BY <1>5, <1>9, <1>10, <2>1, FullKept DEF Settled
    <2> HIDE DEF cell
    <2> QED
      BY <2>1, <2>2 DEF FieldOf, Settled, cell
  <1>12. /\ Grown(u, t) /\ Grown(s, t) /\ made \subseteq t.fields
         /\ \A p \in Stepped(s, n, early) :
              /\ FieldOf(p[1], p[2][2], t.fields) = FieldOf(p[1], p[2][2], all)
              /\ Settled(p[1], p[2][2], t.fields)
    BY <1>6, <1>7, <1>9, <1>11
  <1> QED
    BY <1>12 DEF u, t, made, all

\* Every pair of a pointee and a join that the step handles is done.
LEMMA StepDone ==
  ASSUME NEW s \in Solves, NEW n \in Cells, NEW early, NEW late, Admitted(s, n, early, late)
  PROVE  \A p \in Loaded(s, n) \cup Stored(s, n) \cup Stepped(s, n, early) :
           JoinDone(Join(s, n, early, late), p[1], p[2])
  <1> DEFINE u == Take(s, n)
             t == Join(s, n, early, late)
             facts == StepFacts(s, n, early, late)
             touched == StepTouched(s, n)
             made == StepFields(s, n, early, late)
             all == s.fields \cup early \cup late
  <1>1. u \in Solves /\ t \in Solves /\ u.rep = s.rep
    BY TakeType, JoinType, TakeFields
  <1>2. Absorbed(u, t, facts, StepCopies(s, n), touched, made)
    BY JoinAbsorbs
  <1>3. facts \in SUBSET (Cells \X Facts)
    BY StepFactsType
  <1>4. /\ Loaded(s, n) \subseteq Pointees \X Loads(Joins)
        /\ Stored(s, n) \subseteq Pointees \X Stores(Joins)
        /\ Stepped(s, n, early) \subseteq Pointees \X Geps(Joins)
    BY PairsType
  <1>5. /\ \A p \in Stepped(s, n, early) :
             /\ FieldOf(p[1], p[2][2], t.fields) = FieldOf(p[1], p[2][2], all)
             /\ Settled(p[1], p[2][2], t.fields)
        /\ made \subseteq t.fields
    BY JoinGrows
  <1> HIDE DEF t, facts, made, u
  <1>6. \A f \in facts : f[2] \in t.pts[t.rep[f[1]]]
    <2>1. t.rep = u.rep
      BY <1>2 DEF Absorbed
    <2> QED
      BY <1>1, <1>2, <1>3, <2>1, AbsorbFacts
  <1>7. touched \cap Objects \subseteq t.direct
    BY <1>2 DEF Absorbed
  <1>8. \A e \in StepCopies(s, n) : HasEdge(t, e[1], e[2])
    BY <1>2 DEF Absorbed
  <1>9. ASSUME NEW p \in Loaded(s, n)
        PROVE  JoinDone(t, p[1], p[2])
    <2>1. p[2][1] = "load"
      BY <1>4 DEF Loads
    <2>2. DirectlyAccessed({p[1]}, t.direct)
      BY <1>7 DEF StepTouched, DirectlyAccessed
    <2>3. <<p[1], p[2][2]>> \in StepCopies(s, n)
      BY DEF StepCopies, LoadCopies
    <2>4. HasEdge(t, p[1], p[2][2])
      BY <1>8, <2>3
    <2> QED
      BY <2>1, <2>2, <2>4 DEF JoinDone
  <1>10. ASSUME NEW p \in Stored(s, n)
         PROVE  JoinDone(t, p[1], p[2])
    <2>1. p[2][1] = "store"
      BY <1>4 DEF Stores
    <2>2. DirectlyAccessed({p[1]}, t.direct)
      BY <1>7 DEF StepTouched, DirectlyAccessed
    <2>3. CASE p[2][2] \in Regions
      <3>1. /\ <<p[1], p[2][2]>> \in StoreFacts(Stored(s, n))
            /\ p[2][3] # NoLabel =>
                 /\ <<p[1], p[2][3]>> \in StoreFacts(Stored(s, n))
                 /\ <<p[2][2], p[2][3]>> \in StoreFacts(Stored(s, n))
        BY <2>3 DEF StoreFacts
      <3>2. StoreFacts(Stored(s, n)) \subseteq facts
        BY DEF facts, StepFacts
      <3>3. /\ p[2][2] \in t.pts[t.rep[p[1]]]
            /\ p[2][3] # NoLabel =>
                 p[2][3] \in t.pts[t.rep[p[1]]] \cap t.pts[t.rep[p[2][2]]]
        BY <1>6, <3>1, <3>2
      <3> QED
        BY <2>1, <2>2, <2>3, <3>3 DEF JoinDone
    <2>4. CASE p[2][2] \notin Regions
      <3>1. <<p[2][2], p[1]>> \in StepCopies(s, n)
        BY <2>4 DEF StepCopies, StoreCopies
      <3>2. HasEdge(t, p[2][2], p[1])
        BY <1>8, <3>1
      <3> QED
        BY <2>1, <2>2, <2>4, <3>2 DEF JoinDone
    <2> QED
      BY <2>3, <2>4
  <1>11. ASSUME NEW p \in Stepped(s, n, early)
         PROVE  JoinDone(t, p[1], p[2])
    <2>1. p[2][1] = "gep" /\ p[1] \in Pointees /\ p[2][2] \in Locations
      BY <1>4, JoinKinds DEF Geps
    <2>2. <<p[2][3], FieldOf(p[1], p[2][2], all)>> \in Resolved(s, n, early, late)
      BY DEF Resolved, GepFacts
    <2> HIDE DEF all
    <2>3. <<p[2][3], FieldOf(p[1], p[2][2], all)>> \in facts
      BY <2>2 DEF facts, StepFacts
    <2>4. FieldOf(p[1], p[2][2], all) \in t.pts[t.rep[p[2][3]]]
      BY <1>6, <2>3
    <2>5. FieldOf(p[1], p[2][2], all) \in t.fields \cup Regions
      <3>1. CASE FieldOf(p[1], p[2][2], all) \in FieldCells
        <4>1. FieldOf(p[1], p[2][2], all) \in made
          BY <2>2, <3>1 DEF made, StepFields
        <4> QED
          BY <1>5, <4>1
      <3>2. CASE FieldOf(p[1], p[2][2], all) \notin FieldCells
        BY <2>1, <3>2, CellKinds, FieldOrRegion
      <3> QED
        BY <3>1, <3>2
    <2>6. Settled(p[1], p[2][2], t.fields) /\ FieldOf(p[1], p[2][2], t.fields) = FieldOf(p[1], p[2][2], all)
      BY <1>5
    <2> QED
      BY <2>1, <2>4, <2>5, <2>6 DEF JoinDone
  <1>12. \A p \in Loaded(s, n) \cup Stored(s, n) \cup Stepped(s, n, early) :
           JoinDone(t, p[1], p[2])
    BY <1>9, <1>10, <1>11
  <1> QED
    BY <1>12 DEF t

\* A new pointee with an established join, and any pointee with a pending
\* one, is a pair of the step.
LEMMA PairedJoin ==
  ASSUME NEW s, NEW n, NEW early, NEW o, NEW j \in Joins,
         \/ j \in s.joins[n] /\ o \in PointeesOf(s.pend[n])
         \/ j \in s.pjoins[n] /\ o \in PointeesOf(s.pts[n])
  PROVE  <<o, j>> \in Loaded(s, n) \cup Stored(s, n) \cup Stepped(s, n, early)
  <1>1. \A old, new, gained :
          (j \in old /\ o \in PointeesOf(s.pend[n])) \/ (j \in new /\ o \in PointeesOf(s.pts[n]))
            => <<o, j>> \in Paired(s, n, old, new, gained)
    BY DEF Paired, PointeesOf
  <1>2. CASE j[1] = "load"
    BY <1>1, <1>2 DEF Loaded, Loads
  <1>3. CASE j[1] = "store"
    BY <1>1, <1>3 DEF Stored, Stores
  <1>4. CASE j[1] = "gep"
    BY <1>1, <1>4 DEF Stepped, Geps
  <1> QED
    BY <1>2, <1>3, <1>4, JoinKinds

\* The joins of a step keep the semi-naive invariant, but for the memcpys of
\* the cell taken.
LEMMA JoinKeeps ==
  ASSUME NEW s \in Solves, NEW n \in Cells, NEW early, NEW late, Admitted(s, n, early, late),
         SemiNaive(s)
  PROVE  LET t == Join(s, n, early, late)
         IN  /\ Grown(s, t)
             /\ t.memcpys = s.memcpys
             /\ \A c \in Cells : s.joins[c] \cup s.pjoins[c] \subseteq t.joins[c] \cup t.pjoins[c]
             /\ RepsCanonical(t) /\ PendingQueued(t) /\ StorageJoined(t) /\ MemcpyInventory(t)
             /\ CopiesConsumed(t)
             /\ JoinsConsumed(t)
             /\ \A m \in t.memcpys : MemcpyConsumed(t, m, t.worklist \cup {n})
  <1> DEFINE u == Take(s, n)
             t == Join(s, n, early, late)
             facts == StepFacts(s, n, early, late)
             edges == StepCopies(s, n)
             touched == StepTouched(s, n)
             made == StepFields(s, n, early, late)
  <1>1. u \in Solves /\ t \in Solves
    BY TakeType, JoinType
  <1>2. Absorbed(u, t, facts, edges, touched, made)
    BY JoinAbsorbs
  <1>3. /\ u.rep = s.rep /\ u.pts = s.pts /\ u.direct = s.direct /\ u.fields = s.fields
        /\ u.memcpys = s.memcpys /\ u.active = s.active
        /\ u.seenTo = s.seenTo /\ u.seenFrom = s.seenFrom
        /\ u.worklist = s.worklist \ {n}
    BY TakeFields
  <1>4. ASSUME NEW c \in Cells
        PROVE  /\ u.pend[c] = IF c = n THEN {} ELSE s.pend[c]
               /\ u.succ[c] = IF c = n THEN s.succ[c] \cup s.psucc[c] ELSE s.succ[c]
               /\ u.psucc[c] = IF c = n THEN {} ELSE s.psucc[c]
               /\ u.joins[c] = IF c = n THEN s.joins[c] \cup s.pjoins[c] ELSE s.joins[c]
               /\ u.pjoins[c] = IF c = n THEN {} ELSE s.pjoins[c]
    BY TakeTables
  <1>5. Grown(u, t) /\ Grown(s, t)
    BY JoinGrows
  <1>6. /\ RepsCanonical(u) /\ PendingQueued(u) /\ StorageJoined(u) /\ MemcpyInventory(u)
        /\ \A m \in s.memcpys : MemcpyConsumed(u, m, u.worklist \cup {n})
    BY TakeKeeps
  <1>7. facts \in SUBSET (Cells \X Facts)
    BY StepFactsType
  <1>8. \A p \in Loaded(s, n) \cup Stored(s, n) \cup Stepped(s, n, early) : JoinDone(t, p[1], p[2])
    BY StepDone
  <1>9. Copied(s, n) \subseteq facts
    BY DEF StepFacts
  <1> HIDE DEF u, t, facts, edges, touched, made
  <1>10. RepsCanonical(t)
    BY <1>1, <1>2, <1>6, <1>7, AbsorbCanonical
  <1>11. PendingQueued(t)
    BY <1>1, <1>2, <1>6, AbsorbQueued
  <1>12. StorageJoined(t)
    BY <1>1, <1>2, <1>5, <1>6, AbsorbStorage
  <1>13. MemcpyInventory(t)
    BY <1>1, <1>2, <1>6, AbsorbInventory
  <1>14. /\ t.memcpys = s.memcpys /\ t.rep = s.rep
         /\ t.succ = u.succ /\ t.joins = u.joins /\ t.pjoins = u.pjoins
    BY <1>2, <1>3 DEF Absorbed
  <1>15. \A m \in t.memcpys : MemcpyConsumed(t, m, t.worklist \cup {n})
    BY <1>1, <1>2, <1>5, <1>6, <1>14, AbsorbMemcpy DEF Solves
  <1>16. \A c \in Cells : s.joins[c] \cup s.pjoins[c] \subseteq t.joins[c] \cup t.pjoins[c]
    BY <1>4, <1>14
  <1>17. \A c \in Cells : t.pts[c] \ t.pend[c] = u.pts[c] \ u.pend[c]
    BY <1>1, <1>2, <1>6, AbsorbConsumed
  <1>18. \A c \in Cells : s.pts[c] \subseteq t.pts[c]
    BY <1>5 DEF Grown
  <1>19. ASSUME NEW c \in Cells, NEW d \in t.succ[c]
         PROVE  t.pts[c] \ t.pend[c] \subseteq t.pts[d]
    <2>1. d \in Cells
      BY <1>1 DEF Solves, Tables
    <2>2. CASE c # n
      <3>1. s.pts[c] \ s.pend[c] \subseteq s.pts[d]
        BY <1>4, <1>14, <2>2 DEF SemiNaive, CopiesConsumed
      <3>2. t.pts[c] \ t.pend[c] = s.pts[c] \ s.pend[c]
        BY <1>3, <1>4, <1>17, <2>2
      <3> QED
        BY <1>18, <2>1, <3>1, <3>2
    <2>3. CASE c = n
      <3>1. d \in s.succ[n] \cup s.psucc[n]
        BY <1>4, <1>14, <2>3
      <3>2. s.rep[d] = d
        BY <3>1 DEF SemiNaive, RepsCanonical
      <3>3. \A f \in facts : f[2] \in t.pts[s.rep[f[1]]]
        BY <1>1, <1>2, <1>3, <1>7, AbsorbFacts
      <3>4. d \in s.psucc[n] => s.pts[n] \subseteq t.pts[d]
        <4>1. ASSUME d \in s.psucc[n], NEW f \in s.pts[n]
              PROVE  f \in t.pts[d]
          <5>1. <<d, f>> \in facts
            BY <1>9, <4>1 DEF Copied
          <5> QED
            BY <3>2, <3>3, <5>1
        <4> QED
          BY <4>1
      <3>5. d \in s.succ[n] => s.pend[n] \subseteq t.pts[d]
        <4>1. ASSUME d \in s.succ[n], NEW f \in s.pend[n]
              PROVE  f \in t.pts[d]
          <5>1. <<d, f>> \in facts
            BY <1>9, <4>1 DEF Copied
          <5> QED
            BY <3>2, <3>3, <5>1
        <4> QED
          BY <4>1
      <3>6. d \in s.succ[n] => s.pts[n] \ s.pend[n] \subseteq t.pts[d]
        BY <1>18, <2>1 DEF SemiNaive, CopiesConsumed
      <3>7. t.pts[c] \ t.pend[c] \subseteq s.pts[n]
        BY <1>3, <1>17, <2>3
      <3> QED
        BY <3>1, <3>4, <3>5, <3>6, <3>7
    <2> QED
      BY <2>2, <2>3
  <1>20. ASSUME NEW c \in Cells, NEW j \in t.joins[c], NEW o \in PointeesOf(t.pts[c] \ t.pend[c])
         PROVE  JoinDone(t, o, j)
    <2>1. j \in Joins /\ o \in Pointees
      BY <1>1 DEF PointeesOf, Solves, Tables
    <2>2. ASSUME JoinDone(s, o, j)
          PROVE  JoinDone(t, o, j)
      BY <1>1, <1>5, <2>1, <2>2, JoinKept
    <2>3. CASE c # n
      <3>1. j \in s.joins[c] /\ o \in PointeesOf(s.pts[c] \ s.pend[c])
        BY <1>3, <1>4, <1>14, <1>17, <2>3
      <3> QED
        BY <2>2, <3>1 DEF SemiNaive, JoinsConsumed
    <2>4. CASE c = n
      <3>1. j \in s.joins[n] \cup s.pjoins[n] /\ o \in PointeesOf(s.pts[n])
        BY <1>3, <1>4, <1>14, <1>17, <2>4 DEF PointeesOf
      <3>2. CASE j \in s.joins[n] /\ o \notin s.pend[n]
        BY <2>2, <3>1, <3>2 DEF SemiNaive, JoinsConsumed, PointeesOf
      <3>3. CASE j \in s.pjoins[n] \/ o \in s.pend[n]
        <4>1. \/ j \in s.joins[n] /\ o \in PointeesOf(s.pend[n])
              \/ j \in s.pjoins[n] /\ o \in PointeesOf(s.pts[n])
          BY <3>1, <3>3 DEF PointeesOf
        <4>2. <<o, j>> \in Loaded(s, n) \cup Stored(s, n) \cup Stepped(s, n, early)
          BY <2>1, <4>1, PairedJoin
        <4> QED
          BY <1>8, <4>2
      <3> QED
        BY <3>1, <3>2, <3>3
    <2> QED
      BY <2>3, <2>4
  <1>21. CopiesConsumed(t) /\ JoinsConsumed(t)
    BY <1>19, <1>20 DEF CopiesConsumed, JoinsConsumed
  <1> QED
    BY <1>5, <1>10, <1>11, <1>12, <1>13, <1>14, <1>15, <1>16, <1>21 DEF t

(***************************************************************************)
(* Processing a cell: the memcpys it is an endpoint of.                    *)
(***************************************************************************)
\* Everything but the memcpys of n is consumed.
ButMemcpys(s, n) ==
  /\ RepsCanonical(s) /\ PendingQueued(s) /\ StorageJoined(s) /\ MemcpyInventory(s)
  /\ CopiesConsumed(s) /\ JoinsConsumed(s)
  /\ \A m \in s.memcpys : MemcpyConsumed(s, m, s.worklist \cup {n})

\* Recording what memcpys have seen changes nothing else.
LEMMA SeenFields ==
  ASSUME NEW s \in Solves, NEW n \in Cells
  PROVE  LET u == Seen(s, n)
         IN  /\ u.rep = s.rep /\ u.pts = s.pts /\ u.pend = s.pend
             /\ u.succ = s.succ /\ u.psucc = s.psucc
             /\ u.joins = s.joins /\ u.pjoins = s.pjoins
             /\ u.memcpys = s.memcpys /\ u.worklist = s.worklist
             /\ u.fields = s.fields /\ u.direct = s.direct
             /\ u.active = s.active \cup Activated(s, n)
  BY DEF Seen, Solves

\* A memcpy with an end at the cell taken has seen what its ends hold; the
\* others, what they had.
LEMMA SeenTables ==
  ASSUME NEW s \in Solves, NEW n \in Cells, NEW m \in Memcpys
  PROVE  /\ Seen(s, n).seenTo[m] =
              IF m \in AtEndpoint(s, n) THEN s.seenTo[m] \cup TargetsOf(s, m) ELSE s.seenTo[m]
         /\ Seen(s, n).seenFrom[m] =
              IF m \in AtEndpoint(s, n) THEN s.seenFrom[m] \cup OriginsOf(s, m) ELSE s.seenFrom[m]
  BY DEF Seen, Solves

\* The bulk copies of a step are absorbed like any other edges.
LEMMA BulkCopyAbsorbs ==
  ASSUME NEW s \in Solves, NEW n \in Cells
  PROVE  /\ BulkCopy(s, n) \in Solves
         /\ Absorbed(Seen(s, n), BulkCopy(s, n), {}, BulkCopies(s, n), BulkTouched(s, n), {})
  BY SeenType, BulkTypes, BulkCopyType, AbsorbContract DEF BulkCopy

\* Marking links and accesses nothing: all but the links of n's memcpys holds.
LEMMA SeenKeeps ==
  ASSUME NEW s \in Solves, NEW n \in Cells, ButMemcpys(s, n)
  PROVE  LET u == Seen(s, n)
         IN  /\ RepsCanonical(u) /\ PendingQueued(u) /\ StorageJoined(u) /\ MemcpyInventory(u)
             /\ CopiesConsumed(u) /\ JoinsConsumed(u)
             /\ \A m \in s.memcpys \ AtEndpoint(s, n) : MemcpyConsumed(u, m, u.worklist)
  <1> DEFINE u == Seen(s, n)
  <1>1. /\ u.rep = s.rep /\ u.pts = s.pts /\ u.pend = s.pend
        /\ u.succ = s.succ /\ u.psucc = s.psucc
        /\ u.joins = s.joins /\ u.pjoins = s.pjoins
        /\ u.memcpys = s.memcpys /\ u.worklist = s.worklist
        /\ u.fields = s.fields /\ u.direct = s.direct
        /\ u.active = s.active \cup Activated(s, n)
    BY SeenFields
  <1>2. ASSUME NEW m \in Memcpys
        PROVE  /\ u.seenTo[m] =
                    IF m \in AtEndpoint(s, n) THEN s.seenTo[m] \cup TargetsOf(s, m) ELSE s.seenTo[m]
               /\ u.seenFrom[m] =
                    IF m \in AtEndpoint(s, n) THEN s.seenFrom[m] \cup OriginsOf(s, m) ELSE s.seenFrom[m]
    BY SeenTables
  <1> HIDE DEF u
  <1>3. \A a, b : HasEdge(u, a, b) <=> HasEdge(s, a, b)
    BY <1>1 DEF HasEdge
  <1>4. RepsCanonical(u) /\ PendingQueued(u) /\ CopiesConsumed(u)
    BY <1>1 DEF ButMemcpys, RepsCanonical, PendingQueued, CopiesConsumed
  <1>5. StorageJoined(u)
    BY <1>1, <1>3 DEF ButMemcpys, StorageJoined
  <1>6. \A o, j : JoinDone(s, o, j) => JoinDone(u, o, j)
    BY <1>1, <1>3 DEF JoinDone
  <1>7. JoinsConsumed(u)
    BY <1>1, <1>6 DEF ButMemcpys, JoinsConsumed
  <1>8. \A m \in Memcpys : TargetsOf(u, m) = TargetsOf(s, m) /\ OriginsOf(u, m) = OriginsOf(s, m)
    BY <1>1 DEF TargetsOf, OriginsOf
  <1>9. AtEndpoint(s, n) \subseteq s.memcpys /\ Activated(s, n) \subseteq AtEndpoint(s, n)
    BY DEF AtEndpoint, Activated
  <1>10. ASSUME NEW m \in Memcpys
         PROVE  /\ u.seenTo[m] \subseteq TargetsOf(u, m) /\ u.seenFrom[m] \subseteq OriginsOf(u, m)
                /\ m \in u.active => u.seenTo[m] # {} /\ u.seenFrom[m] # {}
                /\ m \notin u.memcpys => u.seenTo[m] = {} /\ u.seenFrom[m] = {}
    <2>1. /\ s.seenTo[m] \subseteq TargetsOf(s, m) /\ s.seenFrom[m] \subseteq OriginsOf(s, m)
          /\ m \in s.active => s.seenTo[m] # {} /\ s.seenFrom[m] # {}
          /\ m \notin s.memcpys => s.seenTo[m] = {} /\ s.seenFrom[m] = {}
      BY DEF ButMemcpys, MemcpyInventory
    <2>2. m \in Activated(s, n) =>
            s.seenTo[m] \cup TargetsOf(s, m) # {} /\ s.seenFrom[m] \cup OriginsOf(s, m) # {}
      BY DEF Activated
    <2>3. u.seenTo[m] \subseteq TargetsOf(u, m) /\ u.seenFrom[m] \subseteq OriginsOf(u, m)
      BY <1>2, <1>8, <2>1
    <2>4. m \in u.active => u.seenTo[m] # {} /\ u.seenFrom[m] # {}
      BY <1>1, <1>2, <1>9, <2>1, <2>2
    <2>5. m \notin u.memcpys => u.seenTo[m] = {} /\ u.seenFrom[m] = {}
      BY <1>1, <1>2, <1>9, <2>1
    <2> QED
      BY <2>3, <2>4, <2>5
  <1>11. MemcpyInventory(u)
    BY <1>10 DEF MemcpyInventory
  <1>12. ASSUME NEW m \in s.memcpys \ AtEndpoint(s, n)
         PROVE  MemcpyConsumed(u, m, u.worklist)
    <2>1. m \in Memcpys /\ n # s.rep[Destination(m)] /\ n # s.rep[Source(m)]
      BY DEF AtEndpoint, Solves
    <2>2. MemcpyConsumed(s, m, s.worklist \cup {n})
      BY DEF ButMemcpys
    <2>3. u.seenTo[m] = s.seenTo[m] /\ u.seenFrom[m] = s.seenFrom[m]
      BY <1>2, <2>1
    <2> QED
      BY <1>1, <1>3, <1>8, <2>1, <2>2, <2>3 DEF MemcpyConsumed
  <1> QED
    BY <1>4, <1>5, <1>7, <1>11, <1>12 DEF u

\* The bulk copies restore the invariant for the memcpys of the cell taken.
LEMMA BulkCopyKeeps ==
  ASSUME NEW s \in Solves, NEW n \in Cells, ButMemcpys(s, n)
  PROVE  LET t == BulkCopy(s, n)
         IN  /\ Grown(s, t) /\ t.memcpys = s.memcpys
             /\ t.joins = s.joins /\ t.pjoins = s.pjoins
             /\ SemiNaive(t)
  <1> DEFINE u == Seen(s, n)
             t == BulkCopy(s, n)
             edges == BulkCopies(s, n)
             touched == BulkTouched(s, n)
  <1>1. /\ u.rep = s.rep /\ u.pts = s.pts /\ u.pend = s.pend
        /\ u.succ = s.succ /\ u.psucc = s.psucc
        /\ u.joins = s.joins /\ u.pjoins = s.pjoins
        /\ u.memcpys = s.memcpys /\ u.worklist = s.worklist
        /\ u.fields = s.fields /\ u.direct = s.direct
    BY SeenFields
  <1>2. ASSUME NEW m \in Memcpys
        PROVE  /\ u.seenTo[m] =
                    IF m \in AtEndpoint(s, n) THEN s.seenTo[m] \cup TargetsOf(s, m) ELSE s.seenTo[m]
               /\ u.seenFrom[m] =
                    IF m \in AtEndpoint(s, n) THEN s.seenFrom[m] \cup OriginsOf(s, m) ELSE s.seenFrom[m]
    BY SeenTables
  <1>3. /\ RepsCanonical(u) /\ PendingQueued(u) /\ StorageJoined(u) /\ MemcpyInventory(u)
        /\ CopiesConsumed(u) /\ JoinsConsumed(u)
        /\ \A m \in s.memcpys \ AtEndpoint(s, n) : MemcpyConsumed(u, m, u.worklist)
    BY SeenKeeps
  <1>4. u \in Solves /\ t \in Solves /\ Absorbed(u, t, {}, edges, touched, {})
    BY SeenType, BulkCopyAbsorbs
  <1> HIDE DEF u, t
  <1>5. Grown(u, t)
    BY <1>4, AbsorbGrows
  <1>6. Grown(s, t)
    BY <1>1, <1>5 DEF Grown
  <1>7. RepsCanonical(t) /\ PendingQueued(t)
    BY <1>3, <1>4, AbsorbCanonical, AbsorbQueued
  <1>8. StorageJoined(t) /\ MemcpyInventory(t)
    BY <1>3, <1>4, <1>5, AbsorbStorage, AbsorbInventory
  <1>9. /\ t.rep = s.rep /\ t.succ = s.succ /\ t.joins = s.joins /\ t.pjoins = s.pjoins
        /\ t.memcpys = s.memcpys /\ t.seenTo = u.seenTo /\ t.seenFrom = u.seenFrom
        /\ \A c \in Cells : s.pts[c] \subseteq t.pts[c]
    BY <1>1, <1>4 DEF Absorbed
  <1>10. \A c \in Cells : t.pts[c] \ t.pend[c] = s.pts[c] \ s.pend[c]
    BY <1>1, <1>3, <1>4, AbsorbConsumed
  <1>11. CopiesConsumed(t)
    BY <1>4, <1>9, <1>10 DEF ButMemcpys, CopiesConsumed, Solves, Tables
  <1>12. ASSUME NEW c \in Cells, NEW j \in t.joins[c], NEW o \in PointeesOf(t.pts[c] \ t.pend[c])
         PROVE  JoinDone(t, o, j)
    <2>1. j \in Joins /\ o \in Pointees
      BY <1>4 DEF PointeesOf, Solves, Tables
    <2>2. JoinDone(s, o, j)
      BY <1>9, <1>10 DEF ButMemcpys, JoinsConsumed
    <2> QED
      BY <1>4, <1>6, <2>1, <2>2, JoinKept
  <1>13. ASSUME NEW m \in t.memcpys
         PROVE  MemcpyConsumed(t, m, t.worklist)
    <2>1. m \in s.memcpys /\ m \in Memcpys
      BY <1>4, <1>9 DEF Solves
    <2>2. CASE m \notin AtEndpoint(s, n)
      <3>1. MemcpyConsumed(u, m, u.worklist \cup {})
        BY <1>3, <2>1, <2>2
      <3>2. MemcpyConsumed(t, m, t.worklist \cup {})
        BY <1>4, <1>5, <2>1, <3>1, AbsorbMemcpy
      <3> QED
        BY <3>2
    <2>3. CASE m \in AtEndpoint(s, n)
      <3>1. t.pts = s.pts
        <4>1. \A c \in Cells : At(Canonical(u, {}), c) = {}
          BY DEF At, Canonical
        <4>2. \A c \in Cells : t.pts[c] = u.pts[c] \cup At(Canonical(u, {}), c)
          BY <1>4 DEF Absorbed
        <4>3. \A c \in Cells : t.pts[c] = s.pts[c]
          BY <1>1, <4>1, <4>2
        <4> QED
          BY <1>4, <4>3 DEF Solves, Tables
      <3>2. TargetsOf(t, m) = TargetsOf(s, m) /\ OriginsOf(t, m) = OriginsOf(s, m)
        BY <1>9, <3>1 DEF TargetsOf, OriginsOf
      <3>3. /\ t.seenTo[m] = s.seenTo[m] \cup TargetsOf(s, m)
            /\ t.seenFrom[m] = s.seenFrom[m] \cup OriginsOf(s, m)
        BY <1>2, <1>9, <2>1, <2>3
      <3>4. /\ touched \cap Objects \subseteq t.direct /\ s.direct \subseteq t.direct
            /\ \A e \in edges : HasEdge(t, e[1], e[2])
        BY <1>1, <1>4 DEF Absorbed
      <3>5. MemcpyConsumed(s, m, s.worklist \cup {n})
        BY <2>1 DEF ButMemcpys
      <3>6. DirectlyAccessed(t.seenTo[m], t.direct)
        <4>1. TargetsOf(s, m) \ s.seenTo[m] \subseteq touched
          BY <2>3, BulkMembers
        <4> QED
          BY <3>3, <3>4, <3>5, <4>1 DEF MemcpyConsumed, DirectlyAccessed
      <3>7. ASSUME t.seenTo[m] # {} /\ t.seenFrom[m] # {}
            PROVE  /\ DirectlyAccessed(t.seenFrom[m], t.direct)
                   /\ \A o \in t.seenFrom[m] : HasEdge(t, o, SummaryCell(m))
                   /\ \A d \in t.seenTo[m] : HasEdge(t, SummaryCell(m), d)
        <4>1. m \in Activated(s, n)
          BY <2>3, <3>3, <3>7 DEF Activated
        <4>2. NewOrigins(s, m) \subseteq touched
          BY <4>1, BulkMembers
        <4>3. \A o \in NewOrigins(s, m) : <<o, SummaryCell(m)>> \in edges
          BY <4>1, BulkMembers
        <4>4. \A d \in NewTargets(s, m) : <<SummaryCell(m), d>> \in edges
          BY <4>1, BulkMembers
        <4>5. m \in s.active =>
                /\ DirectlyAccessed(s.seenFrom[m], s.direct)
                /\ \A o \in s.seenFrom[m] : HasEdge(s, o, SummaryCell(m))
                /\ \A d \in s.seenTo[m] : HasEdge(s, SummaryCell(m), d)
          BY <2>1, <3>5 DEF ButMemcpys, MemcpyInventory, MemcpyConsumed
        <4>6. /\ s.seenTo[m] \subseteq Cells /\ s.seenFrom[m] \subseteq Cells
              /\ SummaryCell(m) \in Cells
          BY <2>1, CellKinds, MemcpyCells DEF Solves
        <4>7. \A o \in t.seenFrom[m] : o \in NewOrigins(s, m) \/ (m \in s.active /\ o \in s.seenFrom[m])
          BY <3>3 DEF NewOrigins
        <4>8. \A d \in t.seenTo[m] : d \in NewTargets(s, m) \/ (m \in s.active /\ d \in s.seenTo[m])
          BY <3>3 DEF NewTargets
        <4>9. DirectlyAccessed(t.seenFrom[m], t.direct)
          BY <3>4, <4>2, <4>5, <4>7 DEF DirectlyAccessed
        <4> HIDE DEF edges
        <4>10. \A o \in t.seenFrom[m] : HasEdge(t, o, SummaryCell(m))
          <5> TAKE o \in t.seenFrom[m]
          <5>1. CASE o \in NewOrigins(s, m)
            BY <3>4, <4>3, <5>1
          <5>2. CASE m \in s.active /\ o \in s.seenFrom[m]
            <6>1. HasEdge(s, o, SummaryCell(m)) /\ o \in Cells
              BY <4>5, <4>6, <5>2
            <6> QED
              BY <1>4, <1>6, <4>6, <6>1, EdgeKept
          <5> QED
            BY <4>7, <5>1, <5>2
        <4>11. \A d \in t.seenTo[m] : HasEdge(t, SummaryCell(m), d)
          BY <1>4, <1>6, <3>4, <4>4, <4>5, <4>6, <4>8, EdgeKept
        <4> QED
          BY <4>9, <4>10, <4>11
      <3> QED
        BY <3>2, <3>3, <3>6, <3>7 DEF MemcpyConsumed
    <2> QED
      BY <2>2, <2>3
  <1>14. SemiNaive(t)
    BY <1>7, <1>8, <1>11, <1>12, <1>13 DEF SemiNaive, JoinsConsumed, MemcpysConsumed
  <1> QED
    BY <1>6, <1>9, <1>14 DEF t

(***************************************************************************)
(* Collapsing copy cycles.                                                 *)
(***************************************************************************)
LEMMA MergeMembers ==
  ASSUME NEW table, NEW leader, NEW c \in Cells, NEW x
  PROVE  x \in Merge(table, leader)[c] <=> \E d \in Cells : leader[d] = c /\ x \in table[d]
  <1>1. Merge(table, leader)[c] = UNION {table[d] : d \in {y \in Cells : leader[y] = c}}
    BY DEF Merge
  <1>2. x \in UNION {table[d] : d \in {y \in Cells : leader[y] = c}} <=>
          \E d \in {y \in Cells : leader[y] = c} : x \in table[d]
    BY Zenon
  <1> QED
    BY <1>1, <1>2

\* What the merged tables hold.
LEMMA CollapseFields ==
  ASSUME NEW s \in Solves, NEW leader \in [Cells -> Cells]
  PROVE  LET t == CollapseOnto(s, leader)
         IN  /\ t.memcpys = s.memcpys /\ t.active = s.active
             /\ t.seenTo = s.seenTo /\ t.seenFrom = s.seenFrom
             /\ t.fields = s.fields /\ t.direct = s.direct
             /\ t.pend = t.pts /\ t.psucc = Empty /\ t.joins = Empty
             /\ t.worklist = {c \in Cells : t.pts[c] # {} \/ t.pjoins[c] # {}}
  BY DEF CollapseOnto, Solves

\* What the tables hold after cells are merged onto their leaders.
LEMMA CollapseTables ==
  ASSUME NEW s \in Solves, NEW leader \in [Cells -> Cells], NEW c \in Cells
  PROVE  LET t == CollapseOnto(s, leader)
         IN  /\ t.rep[c] = leader[s.rep[c]]
             /\ \A f : f \in t.pts[c] <=> \E d \in Cells : leader[d] = c /\ f \in s.pts[d]
             /\ \A j : j \in t.pjoins[c] <=>
                  \E d \in Cells : leader[d] = c /\ j \in s.joins[d] \cup s.pjoins[d]
             /\ \A b : b \in t.succ[c] <=>
                  /\ b # c
                  /\ \E d \in Cells : leader[d] = c /\
                       \E e \in s.succ[d] \cup s.psucc[d] : b = leader[e]
  <1> DEFINE t == CollapseOnto(s, leader)
             joins == [d \in Cells |-> s.joins[d] \cup s.pjoins[d]]
             succ == [d \in Cells |-> s.succ[d] \cup s.psucc[d]]
             merged == Merge(succ, leader)
  <1>1. /\ t.rep = [d \in Cells |-> leader[s.rep[d]]]
        /\ t.pts = Merge(s.pts, leader)
        /\ t.pjoins = Merge(joins, leader)
        /\ t.succ = [d \in Cells |-> {leader[e] : e \in merged[d]} \ {d}]
    BY DEF CollapseOnto, Solves
  <1>2. \A d \in Cells : joins[d] = s.joins[d] \cup s.pjoins[d] /\ succ[d] = s.succ[d] \cup s.psucc[d]
    OBVIOUS
  <1> HIDE DEF t, joins, succ
  <1>3. t.rep[c] = leader[s.rep[c]]
    BY <1>1
  <1>4. \A f : f \in t.pts[c] <=> \E d \in Cells : leader[d] = c /\ f \in s.pts[d]
    BY <1>1, MergeMembers
  <1>5. \A j : j \in t.pjoins[c] <=> \E d \in Cells : leader[d] = c /\ j \in joins[d]
    BY <1>1, MergeMembers
  <1>6. \A e : e \in merged[c] <=> \E d \in Cells : leader[d] = c /\ e \in succ[d]
    BY MergeMembers
  <1> HIDE DEF merged
  <1>7. \A b : b \in t.succ[c] <=> b # c /\ \E e \in merged[c] : b = leader[e]
    BY <1>1
  <1>8. \A b : b \in t.succ[c] <=>
          /\ b # c
          /\ \E d \in Cells : leader[d] = c /\ \E e \in s.succ[d] \cup s.psucc[d] : b = leader[e]
    BY <1>2, <1>6, <1>7
  <1>9. \A j : j \in t.pjoins[c] <=>
          \E d \in Cells : leader[d] = c /\ j \in s.joins[d] \cup s.pjoins[d]
    BY <1>2, <1>5
  <1> QED
    BY <1>3, <1>4, <1>8, <1>9 DEF t

\* A choice of leaders: they lead themselves, and representatives follow
\* representatives.
Leads(s, leader) ==
  /\ \A c \in Cells : leader[leader[c]] = leader[c]
  /\ \A c \in Cells : s.rep[c] = c => s.rep[leader[c]] = leader[c]
  /\ \A c \in Cells : s.rep[c] # c => leader[c] = c

\* Merging cells keeps every fact and every copy edge.
LEMMA CollapseCells ==
  ASSUME NEW s \in Solves, NEW leader \in [Cells -> Cells], Leads(s, leader), RepsCanonical(s)
  PROVE  LET t == CollapseOnto(s, leader)
         IN  /\ RepsCanonical(t)
             /\ \A c \in Cells : s.pts[s.rep[c]] \subseteq t.pts[t.rep[c]]
             /\ \A a, b \in Cells : HasEdge(s, a, b) => HasEdge(t, a, b)
  <1> DEFINE t == CollapseOnto(s, leader)
  <1>1. t \in Solves
    BY CollapseType
  <1>2. ASSUME NEW c \in Cells
        PROVE  /\ t.rep[c] = leader[s.rep[c]]
               /\ \A f : f \in t.pts[c] <=> \E d \in Cells : leader[d] = c /\ f \in s.pts[d]
               /\ \A j : j \in t.pjoins[c] <=>
                    \E d \in Cells : leader[d] = c /\ j \in s.joins[d] \cup s.pjoins[d]
               /\ \A b : b \in t.succ[c] <=>
                    /\ b # c
                    /\ \E d \in Cells : leader[d] = c /\
                         \E e \in s.succ[d] \cup s.psucc[d] : b = leader[e]
    BY CollapseTables
  <1>3. \A c \in Cells : t.psucc[c] = {} /\ t.joins[c] = {}
    BY CollapseFields DEF Empty
  <1> HIDE DEF t
  <1>4. \A c \in Cells : s.rep[c] \in Cells /\ leader[c] \in Cells /\ s.rep[s.rep[c]] = s.rep[c]
    BY DEF RepsCanonical, Solves
  <1>5. \A c \in Cells : s.rep[c] = c => t.rep[leader[c]] = leader[c]
    BY <1>2, <1>4 DEF Leads
  <1>6. \A c \in Cells : t.rep[t.rep[c]] = t.rep[c]
    BY <1>2, <1>4, <1>5
  <1>7. ASSUME NEW c \in Cells, t.rep[c] # c
        PROVE  /\ t.pts[c] = {} /\ t.succ[c] = {} /\ t.pjoins[c] = {}
    <2>1. ASSUME NEW d \in Cells, leader[d] = c
          PROVE  /\ s.pts[d] = {} /\ s.succ[d] = {} /\ s.psucc[d] = {}
                 /\ s.joins[d] = {} /\ s.pjoins[d] = {}
      <3>1. s.rep[d] # d
        BY <1>5, <1>7, <2>1
      <3> QED
        BY <3>1 DEF RepsCanonical
    <2>2. t.pts[c] = {}
      BY <1>2, <2>1
    <2>3. t.pjoins[c] = {}
      BY <1>2, <2>1
    <2>4. t.succ[c] = {}
      BY <1>2, <2>1
    <2> QED
      BY <2>2, <2>3, <2>4
  <1>8. ASSUME NEW c \in Cells, NEW b \in t.succ[c]
        PROVE  t.rep[b] = b
    <2>1. PICK d \in Cells : leader[d] = c /\ \E e \in s.succ[d] \cup s.psucc[d] : b = leader[e]
      BY <1>2, <1>8
    <2>2. PICK e \in s.succ[d] \cup s.psucc[d] : b = leader[e]
      BY <2>1
    <2>3. e \in Cells /\ s.rep[e] = e
      BY <2>2 DEF RepsCanonical, Solves, Tables
    <2> QED
      BY <1>5, <2>2, <2>3
  <1>9. RepsCanonical(t)
    BY <1>3, <1>6, <1>7, <1>8 DEF RepsCanonical
  <1>10. \A c \in Cells : s.pts[s.rep[c]] \subseteq t.pts[t.rep[c]]
    BY <1>2, <1>4
  <1>11. ASSUME NEW a \in Cells, NEW b \in Cells, HasEdge(s, a, b)
         PROVE  HasEdge(t, a, b)
    <2>1. CASE s.rep[a] = s.rep[b]
      BY <1>2, <2>1 DEF HasEdge
    <2>2. CASE s.rep[b] \in s.succ[s.rep[a]] \cup s.psucc[s.rep[a]]
      <3>1. t.rep[a] = leader[s.rep[a]] /\ t.rep[b] = leader[s.rep[b]] /\ t.rep[a] \in Cells
        BY <1>2, <1>4
      <3>2. t.rep[b] # t.rep[a] => t.rep[b] \in t.succ[t.rep[a]]
        BY <1>2, <1>4, <2>2, <3>1
      <3> QED
        BY <3>2 DEF HasEdge
    <2> QED
      BY <1>11, <2>1, <2>2 DEF HasEdge
  <1> QED
    BY <1>9, <1>10, <1>11 DEF t

\* Merging along any leader map that respects the edges keeps the invariant
\* and every system installed.
LEMMA CollapseKeeps ==
  ASSUME NEW s \in Solves, NEW leader \in [Cells -> Cells], Leads(s, leader), SemiNaive(s)
  PROVE  LET t == CollapseOnto(s, leader)
         IN  /\ SemiNaive(t)
             /\ \A system \in Systems : Represented(s, system) => Represented(t, system)
  <1> DEFINE t == CollapseOnto(s, leader)
  <1>1. /\ t.memcpys = s.memcpys /\ t.active = s.active
        /\ t.seenTo = s.seenTo /\ t.seenFrom = s.seenFrom
        /\ t.fields = s.fields /\ t.direct = s.direct
        /\ t.pend = t.pts /\ t.psucc = Empty /\ t.joins = Empty
        /\ t.worklist = {c \in Cells : t.pts[c] # {} \/ t.pjoins[c] # {}}
    BY CollapseFields
  <1>2. ASSUME NEW c \in Cells
        PROVE  /\ t.rep[c] = leader[s.rep[c]]
               /\ \A f : f \in t.pts[c] <=> \E d \in Cells : leader[d] = c /\ f \in s.pts[d]
               /\ \A j : j \in t.pjoins[c] <=>
                    \E d \in Cells : leader[d] = c /\ j \in s.joins[d] \cup s.pjoins[d]
               /\ \A b : b \in t.succ[c] <=>
                    /\ b # c
                    /\ \E d \in Cells : leader[d] = c /\
                         \E e \in s.succ[d] \cup s.psucc[d] : b = leader[e]
    BY CollapseTables
  <1>3. /\ RepsCanonical(t)
        /\ \A c \in Cells : s.pts[s.rep[c]] \subseteq t.pts[t.rep[c]]
        /\ \A a, b \in Cells : HasEdge(s, a, b) => HasEdge(t, a, b)
    BY CollapseCells DEF SemiNaive
  <1>4. t \in Solves
    BY CollapseType
  <1> HIDE DEF t
  <1>5. \A c \in Cells : t.psucc[c] = {} /\ t.joins[c] = {}
    BY <1>1 DEF Empty
  <1>6. PendingQueued(t) /\ CopiesConsumed(t) /\ JoinsConsumed(t)
    BY <1>1, <1>5 DEF PendingQueued, CopiesConsumed, JoinsConsumed, PointeesOf
  <1>7. StorageJoined(t)
    <2>1. ASSUME NEW e \in Overlapping(t.fields, t.direct)
          PROVE  HasEdge(t, e[1], e[2])
      <3>1. e[1] \in Cells /\ e[2] \in Cells
        BY <1>4, OverlappingType, CellKinds DEF Solves
      <3> QED
        BY <1>1, <1>3, <3>1 DEF SemiNaive, StorageJoined
    <2> QED
      BY <1>1, <2>1 DEF SemiNaive, StorageJoined
  <1>8. ASSUME NEW m \in Memcpys
        PROVE  /\ TargetsOf(s, m) \subseteq TargetsOf(t, m)
               /\ OriginsOf(s, m) \subseteq OriginsOf(t, m)
               /\ t.rep[Destination(m)] \in t.worklist \/ TargetsOf(t, m) = {}
               /\ t.rep[Source(m)] \in t.worklist \/ OriginsOf(t, m) = {}
    <2>1. Destination(m) \in Cells /\ Source(m) \in Cells
      BY MemcpyCells
    <2>2. t.rep[Destination(m)] \in Cells /\ t.rep[Source(m)] \in Cells
      BY <1>4, <2>1 DEF Solves
    <2> QED
      BY <1>1, <1>3, <2>1, <2>2 DEF TargetsOf, OriginsOf, PointeesOf
  <1>9. MemcpyInventory(t)
    <2>1. ASSUME NEW m \in Memcpys
          PROVE  /\ t.seenTo[m] \subseteq TargetsOf(t, m) /\ t.seenFrom[m] \subseteq OriginsOf(t, m)
                 /\ m \in t.active => t.seenTo[m] # {} /\ t.seenFrom[m] # {}
                 /\ m \notin t.memcpys => t.seenTo[m] = {} /\ t.seenFrom[m] = {}
      <3>1. /\ s.seenTo[m] \subseteq TargetsOf(s, m) /\ s.seenFrom[m] \subseteq OriginsOf(s, m)
            /\ m \in s.active => s.seenTo[m] # {} /\ s.seenFrom[m] # {}
            /\ m \notin s.memcpys => s.seenTo[m] = {} /\ s.seenFrom[m] = {}
        BY DEF SemiNaive, MemcpyInventory
      <3>2. TargetsOf(s, m) \subseteq TargetsOf(t, m) /\ OriginsOf(s, m) \subseteq OriginsOf(t, m)
        BY <1>8
      <3> QED
        BY <1>1, <3>1, <3>2
    <2> QED
      BY <2>1 DEF MemcpyInventory
  <1>10. ASSUME NEW m \in t.memcpys
         PROVE  MemcpyConsumed(t, m, t.worklist)
    <2>1. m \in Memcpys /\ MemcpyConsumed(s, m, s.worklist)
      BY <1>1, <1>4 DEF SemiNaive, MemcpysConsumed, Solves
    <2>2. s.seenTo[m] \subseteq Cells /\ s.seenFrom[m] \subseteq Cells /\ SummaryCell(m) \in Cells
      BY <2>1, CellKinds, MemcpyCells DEF Solves
    <2>3. /\ t.rep[Destination(m)] \in t.worklist \/ TargetsOf(t, m) \subseteq t.seenTo[m]
          /\ t.rep[Source(m)] \in t.worklist \/ OriginsOf(t, m) \subseteq t.seenFrom[m]
      BY <1>8, <2>1
    <2>4. DirectlyAccessed(t.seenTo[m], t.direct)
      BY <1>1, <2>1 DEF MemcpyConsumed
    <2>5. t.seenTo[m] # {} /\ t.seenFrom[m] # {} =>
            /\ DirectlyAccessed(t.seenFrom[m], t.direct)
            /\ \A o \in t.seenFrom[m] : HasEdge(t, o, SummaryCell(m))
            /\ \A d \in t.seenTo[m] : HasEdge(t, SummaryCell(m), d)
      BY <1>1, <1>3, <2>1, <2>2 DEF MemcpyConsumed
    <2> QED
      BY <2>3, <2>4, <2>5 DEF MemcpyConsumed
  <1>11. SemiNaive(t)
    BY <1>3, <1>6, <1>7, <1>9, <1>10 DEF SemiNaive, MemcpysConsumed
  <1>12. ASSUME NEW system \in Systems, Represented(s, system)
         PROVE  Represented(t, system)
    <2>1. /\ system.addrs \subseteq Cells \X Facts /\ system.copies \subseteq Cells \X Cells
          /\ system.joins \subseteq Cells \X Joins /\ system.memcpys \subseteq Memcpys
          /\ RegionsOf(system) \subseteq Cells
      BY SystemTypes, CellKinds
    <2>2. /\ \A r \in RegionsOf(system) : r \in t.pts[t.rep[r]]
          /\ \A a \in system.addrs : a[2] \in t.pts[t.rep[a[1]]]
      BY <1>3, <1>12, <2>1 DEF Represented
    <2>3. \A e \in system.copies : HasEdge(t, e[1], e[2])
      BY <1>3, <1>12, <2>1 DEF Represented
    <2>4. ASSUME NEW j \in system.joins
          PROVE  j[2] \in t.joins[t.rep[j[1]]] \cup t.pjoins[t.rep[j[1]]]
      <3>1. j[2] \in s.joins[s.rep[j[1]]] \cup s.pjoins[s.rep[j[1]]]
        BY <1>12 DEF Represented
      <3>2. j[1] \in Cells /\ s.rep[j[1]] \in Cells /\ t.rep[j[1]] \in Cells
        BY <1>4, <2>1 DEF Solves
      <3>3. t.rep[j[1]] = leader[s.rep[j[1]]]
        BY <1>2, <3>2
      <3> QED
        BY <1>2, <3>1, <3>2, <3>3
    <2>5. \A m, k \in Memcpys : SameEndpoints(s, m, k) => SameEndpoints(t, m, k)
      BY <1>2, MemcpyCells DEF SameEndpoints
    <2>6. \A m \in system.memcpys : \E k \in t.memcpys : SameEndpoints(t, m, k)
      BY <1>1, <1>12, <2>1, <2>5 DEF Represented, Solves
    <2> QED
      BY <2>2, <2>3, <2>4, <2>6 DEF Represented
  <1> QED
    BY <1>11, <1>12 DEF t

\* The edge count is no part of what must hold.
LEMMA RecountKeeps ==
  ASSUME NEW s \in Solves
  PROVE  LET t == [s EXCEPT !.fresh = 0]
         IN  /\ t.rep = s.rep /\ t.pts = s.pts /\ t.fields = s.fields
             /\ SemiNaive(s) => SemiNaive(t)
             /\ \A system : Represented(s, system) => Represented(t, system)
  <1> DEFINE t == [s EXCEPT !.fresh = 0]
  <1>1. /\ t.rep = s.rep /\ t.pts = s.pts /\ t.pend = s.pend
        /\ t.succ = s.succ /\ t.psucc = s.psucc
        /\ t.joins = s.joins /\ t.pjoins = s.pjoins
        /\ t.memcpys = s.memcpys /\ t.worklist = s.worklist
        /\ t.seenTo = s.seenTo /\ t.seenFrom = s.seenFrom /\ t.active = s.active
        /\ t.fields = s.fields /\ t.direct = s.direct
    BY DEF Solves
  <1> HIDE DEF t
  <1>2. \A a, b : HasEdge(t, a, b) <=> HasEdge(s, a, b)
    BY <1>1 DEF HasEdge
  <1>3. ASSUME SemiNaive(s)
        PROVE  SemiNaive(t)
    <2>1. RepsCanonical(t) /\ PendingQueued(t) /\ CopiesConsumed(t)
      BY <1>1, <1>3 DEF SemiNaive, RepsCanonical, PendingQueued, CopiesConsumed
    <2>2. JoinsConsumed(t)
      <3>1. \A o, j : JoinDone(s, o, j) => JoinDone(t, o, j)
        BY <1>1, <1>2 DEF JoinDone
      <3> QED
        BY <1>1, <1>3, <3>1 DEF SemiNaive, JoinsConsumed
    <2>3. \A m : TargetsOf(t, m) = TargetsOf(s, m) /\ OriginsOf(t, m) = OriginsOf(s, m)
      BY <1>1 DEF TargetsOf, OriginsOf
    <2>4. MemcpysConsumed(t)
      BY <1>1, <1>2, <1>3, <2>3 DEF SemiNaive, MemcpysConsumed, MemcpyConsumed
    <2>5. MemcpyInventory(t)
      BY <1>1, <1>3, <2>3 DEF SemiNaive, MemcpyInventory
    <2>6. StorageJoined(t)
      BY <1>1, <1>2, <1>3 DEF SemiNaive, StorageJoined
    <2> QED
      BY <2>1, <2>2, <2>4, <2>5, <2>6 DEF SemiNaive
  <1>4. \A system : Represented(s, system) => Represented(t, system)
    BY <1>1, <1>2 DEF Represented, SameEndpoints
  <1> QED
    BY <1>1, <1>3, <1>4 DEF t

\* Collapsing the copy cycles keeps the invariant and every system installed.
LEMMA CollapseSccsKeeps ==
  ASSUME NEW s \in Solves, SemiNaive(s)
  PROVE  /\ SemiNaive(CollapseCopySccs(s))
         /\ \A system \in Systems : Represented(s, system) => Represented(CollapseCopySccs(s), system)
  <1> DEFINE leader == CycleLeader(s)
  <1>1. leader \in [Cells -> Cells] /\ Leads(s, leader)
    BY CycleLeaderType DEF Leads
  <1> HIDE DEF leader
  <1>2. /\ SemiNaive(CollapseOnto(s, leader))
        /\ \A system \in Systems : Represented(s, system) => Represented(CollapseOnto(s, leader), system)
    BY <1>1, CollapseKeeps
  <1>3. /\ SemiNaive([s EXCEPT !.fresh = 0])
        /\ \A system \in Systems : Represented(s, system) => Represented([s EXCEPT !.fresh = 0], system)
    BY RecountKeeps
  <1>4. \/ CollapseCopySccs(s) = [s EXCEPT !.fresh = 0]
        \/ CollapseCopySccs(s) = CollapseOnto(s, leader)
    BY Zenon DEF CollapseCopySccs, leader
  <1> QED
    BY <1>2, <1>3, <1>4, Zenon

(***************************************************************************)
(* Installing a constraint system.                                         *)
(***************************************************************************)
LEMMA RegisteredFields ==
  ASSUME NEW s \in Solves, NEW system, NEW chosen
  PROVE  LET u == Registered(s, system, chosen)
         IN  /\ u.rep = s.rep /\ u.pts = s.pts /\ u.pend = s.pend
             /\ u.succ = s.succ /\ u.psucc = s.psucc /\ u.joins = s.joins
             /\ u.fields = s.fields /\ u.direct = s.direct
             /\ u.seenTo = s.seenTo /\ u.seenFrom = s.seenFrom /\ u.active = s.active
             /\ u.memcpys = s.memcpys \cup chosen
             /\ s.worklist \subseteq u.worklist
             /\ \A m \in chosen : {s.rep[Destination(m)], s.rep[Source(m)]} \subseteq u.worklist
             /\ \A c \in Cells : NewJoins(s, system, c) \ s.pjoins[c] # {} => c \in u.worklist
             /\ \A c \in Cells : u.pjoins[c] = s.pjoins[c] \cup NewJoins(s, system, c)
  <1> DEFINE u == Registered(s, system, chosen)
             ends == {s.rep[Destination(m)] : m \in chosen} \cup {s.rep[Source(m)] : m \in chosen}
             asked == {c \in Cells : NewJoins(s, system, c) \ s.pjoins[c] # {}}
  <1>1. /\ u.rep = s.rep /\ u.pts = s.pts /\ u.pend = s.pend
        /\ u.succ = s.succ /\ u.psucc = s.psucc /\ u.joins = s.joins
        /\ u.fields = s.fields /\ u.direct = s.direct
        /\ u.seenTo = s.seenTo /\ u.seenFrom = s.seenFrom /\ u.active = s.active
        /\ u.memcpys = s.memcpys \cup chosen
    BY DEF Registered, Solves
  <1>2. /\ u.worklist = s.worklist \cup ends \cup asked
        /\ u.pjoins = [c \in Cells |-> s.pjoins[c] \cup NewJoins(s, system, c)]
    BY DEF Registered, Solves
  <1>3. \A m \in chosen : {s.rep[Destination(m)], s.rep[Source(m)]} \subseteq ends
    OBVIOUS
  <1>4. \A c \in Cells : NewJoins(s, system, c) \ s.pjoins[c] # {} => c \in asked
    OBVIOUS
  <1> HIDE DEF u, ends, asked
  <1>5. /\ s.worklist \subseteq u.worklist
        /\ \A m \in chosen : {s.rep[Destination(m)], s.rep[Source(m)]} \subseteq u.worklist
        /\ \A c \in Cells : NewJoins(s, system, c) \ s.pjoins[c] # {} => c \in u.worklist
        /\ \A c \in Cells : u.pjoins[c] = s.pjoins[c] \cup NewJoins(s, system, c)
    BY <1>2, <1>3, <1>4
  <1> QED
    BY <1>1, <1>5 DEF u

\* Registering joins and memcpys queues the cells that own them.
LEMMA RegisteredKeeps ==
  ASSUME NEW s \in Solves, NEW system \in Systems, NEW chosen \in SUBSET system.memcpys,
         SemiNaive(s)
  PROVE  SemiNaive(Registered(s, system, chosen))
  <1> DEFINE u == Registered(s, system, chosen)
  <1>1. /\ u.rep = s.rep /\ u.pts = s.pts /\ u.pend = s.pend
        /\ u.succ = s.succ /\ u.psucc = s.psucc /\ u.joins = s.joins
        /\ u.fields = s.fields /\ u.direct = s.direct
        /\ u.seenTo = s.seenTo /\ u.seenFrom = s.seenFrom /\ u.active = s.active
        /\ u.memcpys = s.memcpys \cup chosen
        /\ s.worklist \subseteq u.worklist
        /\ \A m \in chosen : {s.rep[Destination(m)], s.rep[Source(m)]} \subseteq u.worklist
        /\ \A c \in Cells : NewJoins(s, system, c) \ s.pjoins[c] # {} => c \in u.worklist
        /\ \A c \in Cells : u.pjoins[c] = s.pjoins[c] \cup NewJoins(s, system, c)
    BY RegisteredFields
  <1>2. u \in Solves
    BY RegisteredType
  <1>3. system.joins \subseteq Cells \X Joins /\ system.memcpys \subseteq Memcpys
    BY SystemTypes
  <1> HIDE DEF u
  <1>4. \A c \in Cells : NewJoins(s, system, c) # {} => s.rep[c] = c
    <2> TAKE c \in Cells
    <2> HAVE NewJoins(s, system, c) # {}
    <2>1. At(Canonical(s, system.joins), c) # {}
      BY DEF NewJoins
    <2>2. \E j \in system.joins : c = s.rep[j[1]]
      BY <2>1 DEF At, Canonical
    <2> QED
      BY <1>3, <2>2 DEF SemiNaive, RepsCanonical
  <1>5. RepsCanonical(u)
    <2>1. \A c \in Cells : u.rep[c] # c => u.pjoins[c] = {}
      BY <1>1, <1>4 DEF SemiNaive, RepsCanonical
    <2> QED
      BY <1>1, <2>1 DEF SemiNaive, RepsCanonical
  <1>6. PendingQueued(u)
    BY <1>1 DEF SemiNaive, PendingQueued
  <1>7. CopiesConsumed(u)
    BY <1>1 DEF SemiNaive, CopiesConsumed
  <1>8. \A a, b : HasEdge(u, a, b) <=> HasEdge(s, a, b)
    BY <1>1 DEF HasEdge
  <1>9. JoinsConsumed(u)
    <2>1. \A o, j : JoinDone(s, o, j) => JoinDone(u, o, j)
      BY <1>1, <1>8 DEF JoinDone
    <2> QED
      BY <1>1, <2>1 DEF SemiNaive, JoinsConsumed
  <1>10. StorageJoined(u)
    BY <1>1, <1>8 DEF SemiNaive, StorageJoined
  <1>11. \A m : TargetsOf(u, m) = TargetsOf(s, m) /\ OriginsOf(u, m) = OriginsOf(s, m)
    BY <1>1 DEF TargetsOf, OriginsOf
  <1>12. MemcpyInventory(u)
    BY <1>1, <1>11 DEF SemiNaive, MemcpyInventory
  <1>13. ASSUME NEW m \in u.memcpys
         PROVE  MemcpyConsumed(u, m, u.worklist)
    <2>1. CASE m \in s.memcpys
      <3>1. MemcpyConsumed(s, m, s.worklist)
        BY <2>1 DEF SemiNaive, MemcpysConsumed
      <3> QED
        BY <1>1, <1>8, <1>11, <3>1 DEF MemcpyConsumed
    <2>2. CASE m \notin s.memcpys
      <3>1. m \in chosen /\ m \in Memcpys
        BY <1>1, <1>3, <2>2
      <3>2. u.seenTo[m] = {} /\ u.seenFrom[m] = {}
        BY <1>1, <2>2, <3>1 DEF SemiNaive, MemcpyInventory
      <3>3. u.rep[Destination(m)] \in u.worklist /\ u.rep[Source(m)] \in u.worklist
        BY <1>1, <3>1
      <3> QED
        BY <3>2, <3>3 DEF MemcpyConsumed, DirectlyAccessed
    <2> QED
      BY <2>1, <2>2
  <1>14. SemiNaive(u)
    BY <1>5, <1>6, <1>7, <1>9, <1>10, <1>12, <1>13 DEF SemiNaive, MemcpysConsumed
  <1> QED
    BY <1>14 DEF u

\* Absorbing keeps the semi-naive invariant as a whole.
LEMMA AbsorbKeeps ==
  ASSUME NEW s \in Solves, NEW t \in Solves, NEW facts \in SUBSET (Cells \X Facts),
         NEW edges, NEW touched, NEW made,
         Absorbed(s, t, facts, edges, touched, made), Grown(s, t), SemiNaive(s)
  PROVE  SemiNaive(t)
  <1>1. RepsCanonical(t)
    BY AbsorbCanonical DEF SemiNaive
  <1>2. PendingQueued(t)
    BY AbsorbQueued DEF SemiNaive
  <1>3. StorageJoined(t)
    BY AbsorbStorage DEF SemiNaive
  <1>4. MemcpyInventory(t)
    BY AbsorbInventory DEF SemiNaive
  <1>5. /\ t.rep = s.rep /\ t.succ = s.succ /\ t.joins = s.joins /\ t.memcpys = s.memcpys
        /\ \A c \in Cells : s.pts[c] \subseteq t.pts[c]
    BY DEF Absorbed
  <1>6. \A c \in Cells : t.pts[c] \ t.pend[c] = s.pts[c] \ s.pend[c]
    BY AbsorbConsumed DEF SemiNaive
  <1>7. CopiesConsumed(t)
    BY <1>5, <1>6 DEF SemiNaive, CopiesConsumed, Solves, Tables
  <1>8. ASSUME NEW c \in Cells, NEW j \in t.joins[c], NEW o \in PointeesOf(t.pts[c] \ t.pend[c])
        PROVE  JoinDone(t, o, j)
    <2>1. j \in Joins /\ o \in Pointees
      BY DEF PointeesOf, Solves, Tables
    <2>2. JoinDone(s, o, j)
      BY <1>5, <1>6 DEF SemiNaive, JoinsConsumed
    <2> QED
      BY <2>1, <2>2, JoinKept
  <1>9. ASSUME NEW m \in t.memcpys
        PROVE  MemcpyConsumed(t, m, t.worklist)
    <2>1. m \in Memcpys
      BY DEF Solves
    <2>2. MemcpyConsumed(s, m, s.worklist \cup {})
      BY <1>5 DEF SemiNaive, MemcpysConsumed
    <2>3. MemcpyConsumed(t, m, t.worklist \cup {})
      BY <2>1, <2>2, AbsorbMemcpy
    <2> QED
      BY <2>3
  <1> QED
    BY <1>1, <1>2, <1>3, <1>4, <1>7, <1>8, <1>9 DEF SemiNaive, JoinsConsumed, MemcpysConsumed

\* Installing a system keeps the invariant and the systems installed before
\* it.
LEMMA InstallKeeps ==
  ASSUME NEW s \in Solves, NEW p \in Programs, NEW system \in {p.base} \cup p.calls,
         NEW chosen \in SUBSET system.memcpys, IsNewSelection(s, system, chosen), SemiNaive(s)
  PROVE  LET t == Install(s, system, chosen)
         IN  /\ SemiNaive(t)
             /\ Grown(s, t)
             /\ Represented(t, system)
             /\ \A other \in Systems : Represented(s, other) => Represented(t, other)
  <1> DEFINE u == Registered(s, system, chosen)
             t == Install(s, system, chosen)
             facts == SystemFacts(system)
             edges == system.copies
             made == SystemFields(system)
  <1>1. system \in Systems
    BY SystemType
  <1>2. /\ system.addrs \subseteq Cells \X Facts /\ edges \subseteq Cells \X Cells
        /\ system.joins \subseteq Cells \X Joins /\ system.memcpys \subseteq Memcpys
        /\ facts \in SUBSET (Cells \X Facts) /\ made \in SUBSET FieldCells
        /\ RegionsOf(system) \subseteq Cells
    BY <1>1, SystemTypes, CellKinds
  <1>3. /\ u.rep = s.rep /\ u.pts = s.pts /\ u.pend = s.pend
        /\ u.succ = s.succ /\ u.psucc = s.psucc /\ u.joins = s.joins
        /\ u.fields = s.fields /\ u.direct = s.direct
        /\ u.seenTo = s.seenTo /\ u.seenFrom = s.seenFrom /\ u.active = s.active
        /\ u.memcpys = s.memcpys \cup chosen
        /\ s.worklist \subseteq u.worklist
        /\ \A m \in chosen : {s.rep[Destination(m)], s.rep[Source(m)]} \subseteq u.worklist
        /\ \A c \in Cells : NewJoins(s, system, c) \ s.pjoins[c] # {} => c \in u.worklist
        /\ \A c \in Cells : u.pjoins[c] = s.pjoins[c] \cup NewJoins(s, system, c)
    BY RegisteredFields
  <1>4. u \in Solves /\ t \in Solves /\ SemiNaive(u)
    BY <1>1, RegisteredType, InstallType, RegisteredKeeps
  <1>5. Absorbed(u, t, facts, edges, {}, made)
    BY <1>2, <1>4, AbsorbContract DEF Install
  <1>6. \A f \in made : LocationOf(f) \notin LaneLocations
    BY ProgramAssumption DEF SystemFields
  <1>7. \A r \in RegionsOf(system) : <<r, r>> \in facts
    BY DEF SystemFacts
  <1>8. system.addrs \subseteq facts
    BY DEF SystemFacts
  <1> HIDE DEF u, t, facts, made
  <1>9. Grown(u, t)
    BY <1>4, <1>5, <1>6, AbsorbGrows
  <1>10. Grown(s, t)
    BY <1>3, <1>9 DEF Grown
  <1>11. SemiNaive(t)
    BY <1>2, <1>4, <1>5, <1>9, AbsorbKeeps
  <1>12. /\ t.rep = s.rep /\ t.joins = s.joins /\ t.pjoins = u.pjoins
         /\ t.memcpys = s.memcpys \cup chosen
    BY <1>3, <1>5 DEF Absorbed
  <1>13. \A f \in facts : f[2] \in t.pts[t.rep[f[1]]]
    <2>1. t.rep = u.rep
      BY <1>3, <1>12
    <2> QED
      BY <1>2, <1>4, <1>5, <2>1, AbsorbFacts
  <1>14. \A r \in RegionsOf(system) : r \in t.pts[t.rep[r]]
    BY <1>7, <1>13
  <1>15. \A a \in system.addrs : a[2] \in t.pts[t.rep[a[1]]]
    BY <1>8, <1>13
  <1>16. \A e \in system.copies : HasEdge(t, e[1], e[2])
    BY <1>5 DEF Absorbed
  <1>17. ASSUME NEW j \in system.joins
         PROVE  j[2] \in t.joins[t.rep[j[1]]] \cup t.pjoins[t.rep[j[1]]]
    <2> DEFINE c == s.rep[j[1]]
    <2>1. c \in Cells
      BY <1>2 DEF Solves
    <2>2. <<c, j[2]>> \in Canonical(s, system.joins)
      BY DEF Canonical
    <2> HIDE DEF c
    <2>3. j[2] \in At(Canonical(s, system.joins), c)
      BY <2>2 DEF At
    <2>4. j[2] \in t.joins[c] \cup t.pjoins[c]
      BY <1>3, <1>12, <2>1, <2>3 DEF NewJoins
    <2> QED
      BY <1>12, <2>4 DEF c
  <1>18. \A m \in system.memcpys : \E k \in t.memcpys : SameEndpoints(t, m, k)
    BY <1>12 DEF IsNewSelection, SameEndpoints
  <1>19. Represented(t, system)
    BY <1>14, <1>15, <1>16, <1>17, <1>18 DEF Represented
  <1>20. \A other \in Systems : Represented(s, other) => Represented(t, other)
    <2>1. \A c \in Cells : s.joins[c] \cup s.pjoins[c] \subseteq t.joins[c] \cup t.pjoins[c]
      BY <1>3, <1>12
    <2>2. s.memcpys \subseteq t.memcpys
      BY <1>12
    <2> QED
      BY <1>4, <1>10, <2>1, <2>2, KeptRepresented
  <1> QED
    BY <1>10, <1>11, <1>19, <1>20 DEF t

(***************************************************************************)
(* A whole step of the worklist.                                           *)
(***************************************************************************)
LEMMA ProcessedKeeps ==
  ASSUME NEW s \in Solves, NEW n \in Cells, NEW early, NEW late, Admitted(s, n, early, late),
         SemiNaive(s)
  PROVE  LET t == BulkCopy(Join(s, n, early, late), n)
         IN  /\ SemiNaive(t)
             /\ Grown(Join(s, n, early, late), t)
             /\ \A system \in Systems : Represented(s, system) => Represented(t, system)
  <1> DEFINE u == Join(s, n, early, late)
             t == BulkCopy(u, n)
  <1>1. /\ Grown(s, u)
        /\ u.memcpys = s.memcpys
        /\ \A c \in Cells : s.joins[c] \cup s.pjoins[c] \subseteq u.joins[c] \cup u.pjoins[c]
        /\ RepsCanonical(u) /\ PendingQueued(u) /\ StorageJoined(u) /\ MemcpyInventory(u)
        /\ CopiesConsumed(u)
        /\ JoinsConsumed(u)
        /\ \A m \in u.memcpys : MemcpyConsumed(u, m, u.worklist \cup {n})
    BY JoinKeeps
  <1>2. u \in Solves
    BY JoinType
  <1> HIDE DEF u
  <1>3. ButMemcpys(u, n)
    BY <1>1 DEF ButMemcpys
  <1>4. /\ Grown(u, t) /\ t.memcpys = u.memcpys
        /\ t.joins = u.joins /\ t.pjoins = u.pjoins
        /\ SemiNaive(t)
    BY <1>2, <1>3, BulkCopyKeeps
  <1>5. t \in Solves
    BY <1>2, BulkCopyType
  <1> HIDE DEF t
  <1>6. ASSUME NEW system \in Systems, Represented(s, system)
        PROVE  Represented(t, system)
    <2>1. Represented(u, system)
      BY <1>1, <1>2, <1>6, KeptRepresented
    <2> QED
      BY <1>2, <1>4, <1>5, <2>1, KeptRepresented
  <1> QED
    BY <1>4, <1>6 DEF t, u

\* A step is a processed cell, with or without a collapse after it.
LEMMA PopCases ==
  ASSUME NEW n, Pop(n)
  PROVE  \E early, late :
           /\ Admitted(solve, n, early, late)
           /\ \/ solve' = BulkCopy(Join(solve, n, early, late), n)
              \/ solve' = CollapseCopySccs(BulkCopy(Join(solve, n, early, late), n))
  <1>1. PICK early \in Admissible(EarlyLanes(solve, n), solve.fields) :
          \E late \in Admissible(LateLanes(solve, n, early), solve.fields \cup early) :
            LET processed == BulkCopy(Join(solve, n, early, late), n)
            IN  solve' = IF ShouldCollapse(processed)
                           THEN CollapseCopySccs(processed) ELSE processed
    BY DEF Pop
  <1>2. PICK late \in Admissible(LateLanes(solve, n, early), solve.fields \cup early) :
          LET processed == BulkCopy(Join(solve, n, early, late), n)
          IN  solve' = IF ShouldCollapse(processed)
                         THEN CollapseCopySccs(processed) ELSE processed
    BY <1>1
  <1>3. Admitted(solve, n, early, late)
    BY DEF Admitted
  <1> QED
    BY <1>2, <1>3

\* The empty solver satisfies the invariant.
LEMMA EmptyKeeps == SemiNaive(EmptySolve)
  <1> DEFINE s == EmptySolve
  <1>1. /\ \A c \in Cells :
             /\ s.rep[c] = c /\ s.pts[c] = {} /\ s.pend[c] = {} /\ s.succ[c] = {}
             /\ s.psucc[c] = {} /\ s.joins[c] = {} /\ s.pjoins[c] = {}
        /\ \A m \in Memcpys : s.seenTo[m] = {} /\ s.seenFrom[m] = {}
        /\ s.memcpys = {} /\ s.active = {} /\ s.fields = {} /\ s.direct = {} /\ s.worklist = {}
    BY DEF EmptySolve, Empty
  <1> HIDE DEF s
  <1>2. RepsCanonical(s) /\ PendingQueued(s) /\ CopiesConsumed(s) /\ JoinsConsumed(s)
    BY <1>1 DEF RepsCanonical, PendingQueued, CopiesConsumed, JoinsConsumed
  <1>3. MemcpysConsumed(s) /\ MemcpyInventory(s)
    BY <1>1 DEF MemcpysConsumed, MemcpyInventory
  <1>4. StorageJoined(s)
    BY <1>1 DEF StorageJoined, Overlapping
  <1> QED
    BY <1>2, <1>3, <1>4 DEF SemiNaive, s

\* The semi-naive invariant holds of every reachable state, whatever the
\* order of the worklist, the late call bindings and the lanes admitted:
\* established edges and joins have consumed all but the pending facts, and
\* whatever is pending is queued.
THEOREM SemiNaiveCorrect == Spec => []SemiNaiveInvariant
<1> DEFINE IInv == TypeOK /\ SemiNaiveInvariant
<1>1. Init => IInv
  BY EmptyType, EmptyKeeps DEF Init, TypeOK, SemiNaiveInvariant
<1>2. IInv /\ TypeOK' /\ [Next]_vars => IInv'
  <2> SUFFICES ASSUME IInv, TypeOK', [Next]_vars PROVE SemiNaiveInvariant'
    OBVIOUS
  <2>1. /\ solve \in Solves /\ solve' \in Solves /\ program \in Programs
        /\ installed \subseteq {program.base} \cup program.calls
        /\ installed \subseteq Systems
        /\ SemiNaive(solve) /\ \A system \in installed : Represented(solve, system)
    BY SystemType DEF TypeOK, SemiNaiveInvariant
  <2>2. ASSUME NEW system \in {program.base} \cup program.calls, Add(system)
        PROVE  SemiNaiveInvariant'
    <3>1. PICK chosen \in SUBSET system.memcpys :
            IsNewSelection(solve, system, chosen) /\ solve' = Install(solve, system, chosen)
      BY <2>2 DEF Add
    <3>2. /\ SemiNaive(solve')
          /\ Represented(solve', system)
          /\ \A other \in Systems : Represented(solve, other) => Represented(solve', other)
      BY <2>1, <3>1, InstallKeeps
    <3>3. installed' = installed \cup {system}
      BY <2>2 DEF Add
    <3> QED
      BY <2>1, <3>2, <3>3 DEF SemiNaiveInvariant
  <2>3. CASE Build
    BY <2>2, <2>3 DEF Build
  <2>4. ASSUME NEW system \in program.calls, Resume(system)
        PROVE  SemiNaiveInvariant'
    BY <2>2, <2>4 DEF Resume
  <2>5. ASSUME NEW n \in solve.worklist, Pop(n)
        PROVE  SemiNaiveInvariant'
    <3>1. n \in Cells
      BY <2>1 DEF Solves
    <3>2. PICK early, late :
            /\ Admitted(solve, n, early, late)
            /\ \/ solve' = BulkCopy(Join(solve, n, early, late), n)
               \/ solve' = CollapseCopySccs(BulkCopy(Join(solve, n, early, late), n))
      BY <2>5, PopCases
    <3> DEFINE processed == BulkCopy(Join(solve, n, early, late), n)
    <3>3. /\ SemiNaive(processed)
          /\ \A system \in Systems : Represented(solve, system) => Represented(processed, system)
      BY <2>1, <3>1, <3>2, ProcessedKeeps
    <3>4. processed \in Solves
      BY <2>1, <3>1, PopType
    <3>5. solve' = CollapseCopySccs(processed) \/ solve' = processed
      BY <3>2
    <3> HIDE DEF processed
    <3>6. /\ SemiNaive(solve')
          /\ \A system \in Systems : Represented(solve, system) => Represented(solve', system)
      BY <3>3, <3>4, <3>5, CollapseSccsKeeps
    <3>7. installed' = installed
      BY <2>5 DEF Pop
    <3> QED
      BY <2>1, <3>6, <3>7 DEF SemiNaiveInvariant
  <2>6. CASE UNCHANGED vars
    BY <2>6 DEF vars, SemiNaiveInvariant
  <2> QED
    BY <2>3, <2>4, <2>5, <2>6 DEF Next
<1>3. Spec => []TypeOK
  BY TypeCorrect
<1>4. IInv => SemiNaiveInvariant
  OBVIOUS
<1> QED
  BY <1>1, <1>2, <1>3, <1>4, PTL DEF Spec

(***************************************************************************)
(* At rest.                                                                *)
(***************************************************************************)
\* With nothing queued nothing is pending, so every edge has carried all.
LEMMA RestEdges ==
  ASSUME NEW s \in Solves, SemiNaive(s), s.worklist = {}
  PROVE  /\ \A c \in Cells : s.pend[c] = {} /\ s.psucc[c] = {} /\ s.pjoins[c] = {}
         /\ \A a, b \in Cells : HasEdge(s, a, b) => Value(s)[a] \subseteq Value(s)[b]
  <1>1. \A c \in Cells : s.pend[c] = {} /\ s.psucc[c] = {} /\ s.pjoins[c] = {}
    BY DEF SemiNaive, PendingQueued
  <1>2. \A c \in Cells : s.rep[c] \in Cells
    BY DEF Solves
  <1>3. \A c \in Cells : Value(s)[c] = s.pts[s.rep[c]]
    BY DEF Value
  <1>4. \A a, b \in Cells : HasEdge(s, a, b) => Value(s)[a] \subseteq Value(s)[b]
    BY <1>1, <1>2, <1>3 DEF HasEdge, SemiNaive, CopiesConsumed
  <1> QED
    BY <1>1, <1>4

\* At rest every load, store and GEP of an installed system holds.
LEMMA RestJoins ==
  ASSUME NEW s \in Solves, SemiNaive(s), s.worklist = {},
         NEW system \in Systems, Represented(s, system), NEW j \in system.joins
  PROVE  JoinHolds(j[1], j[2], Value(s), s.fields, s.direct)
  <1> DEFINE owner == j[1]
             join == j[2]
             pointees == Value(s)[owner] \cap Pointees
  <1>1. owner \in Cells /\ join \in Joins /\ s.rep[owner] \in Cells
    BY SystemTypes DEF Solves
  <1>2. /\ \A c \in Cells : s.pend[c] = {} /\ s.psucc[c] = {} /\ s.pjoins[c] = {}
        /\ \A a, b \in Cells : HasEdge(s, a, b) => Value(s)[a] \subseteq Value(s)[b]
    BY RestEdges
  <1>3. \A c \in Cells : Value(s)[c] = s.pts[s.rep[c]]
    BY DEF Value
  <1>4. join \in s.joins[s.rep[owner]]
    BY <1>1, <1>2 DEF Represented
  <1>5. pointees = PointeesOf(s.pts[s.rep[owner]] \ s.pend[s.rep[owner]])
    BY <1>1, <1>2, <1>3 DEF PointeesOf
  <1>6. \A o \in pointees : JoinDone(s, o, join)
    BY <1>1, <1>4, <1>5 DEF SemiNaive, JoinsConsumed
  <1>7. pointees \subseteq Pointees /\ pointees \subseteq Cells
    BY CellKinds
  <1> HIDE DEF pointees
  <1>8. join[1] \in {"load", "store"} => DirectlyAccessed(pointees, s.direct)
    BY <1>6 DEF JoinDone, DirectlyAccessed
  <1>9. CASE join[1] = "load"
    <2>1. \A o \in pointees : HasEdge(s, o, join[2])
      BY <1>6, <1>9 DEF JoinDone
    <2>2. join[2] \in Cells
      BY <1>1, <1>9, JoinKinds
    <2>3. \A o \in pointees : Value(s)[o] \subseteq Value(s)[join[2]]
      BY <1>2, <1>7, <2>1, <2>2
    <2> QED
      BY <1>8, <1>9, <2>3 DEF JoinHolds, pointees
  <1>10. CASE join[1] = "store"
    <2>1. join[2] \in Cells
      BY <1>1, <1>10, JoinKinds
    <2>2. CASE join[2] \in Regions
      <3>1. \A o \in pointees :
              /\ join[2] \in Value(s)[o]
              /\ join[3] # NoLabel => join[3] \in Value(s)[o] \cap Value(s)[join[2]]
        BY <1>3, <1>6, <1>7, <1>10, <2>1, <2>2 DEF JoinDone
      <3> QED
        BY <1>8, <1>10, <2>2, <3>1 DEF JoinHolds, pointees
    <2>3. CASE join[2] \notin Regions
      <3>1. \A o \in pointees : HasEdge(s, join[2], o)
        BY <1>6, <1>10, <2>3 DEF JoinDone
      <3>2. \A o \in pointees : Value(s)[join[2]] \subseteq Value(s)[o]
        BY <1>2, <1>7, <2>1, <3>1
      <3> QED
        BY <1>8, <1>10, <2>3, <3>2 DEF JoinHolds, pointees
    <2> QED
      BY <2>2, <2>3
  <1>11. CASE join[1] = "gep"
    <2>1. join[3] \in Cells
      BY <1>1, <1>11, JoinKinds
    <2>2. \A o \in pointees :
            /\ FieldOf(o, join[2], s.fields) \in Value(s)[join[3]]
            /\ FieldOf(o, join[2], s.fields) \in s.fields \cup Regions
      BY <1>3, <1>6, <1>11, <2>1 DEF JoinDone
    <2> QED
      BY <1>11, <2>2 DEF JoinHolds, pointees
  <1> QED
    BY <1>1, <1>9, <1>10, <1>11, JoinKinds

\* At rest every memcpy of an installed system holds.
LEMMA RestMemcpys ==
  ASSUME NEW s \in Solves, SemiNaive(s), s.worklist = {},
         NEW system \in Systems, Represented(s, system), NEW m \in system.memcpys
  PROVE  MemcpyHolds(m, Value(s), s.direct)
  <1>1. PICK k \in s.memcpys : SameEndpoints(s, m, k)
    BY DEF Represented
  <1>2. k \in Memcpys /\ m \in Memcpys
    BY SystemTypes DEF Solves
  <1>3. \A c \in Cells : Value(s)[c] = s.pts[s.rep[c]]
    BY DEF Value
  <1>4. /\ Value(s)[Destination(m)] \cap Pointees = TargetsOf(s, k)
        /\ Value(s)[Source(m)] \cap Pointees = OriginsOf(s, k)
    BY <1>1, <1>2, <1>3, MemcpyCells DEF SameEndpoints, TargetsOf, OriginsOf, PointeesOf
  <1>5. MemcpyConsumed(s, k, {})
    BY DEF SemiNaive, MemcpysConsumed
  <1>6. TargetsOf(s, k) \subseteq s.seenTo[k] /\ OriginsOf(s, k) \subseteq s.seenFrom[k]
    BY <1>5 DEF MemcpyConsumed
  <1>7. s.seenTo[k] \subseteq TargetsOf(s, k) /\ s.seenFrom[k] \subseteq OriginsOf(s, k)
    BY <1>2 DEF SemiNaive, MemcpyInventory
  <1>8. DirectlyAccessed(TargetsOf(s, k), s.direct)
    BY <1>5, <1>6 DEF MemcpyConsumed, DirectlyAccessed
  <1>9. TargetsOf(s, k) # {} => DirectlyAccessed(OriginsOf(s, k), s.direct)
    BY <1>5, <1>6, <1>7 DEF MemcpyConsumed, DirectlyAccessed
  <1>10. ASSUME NEW t \in TargetsOf(s, k), NEW o \in OriginsOf(s, k)
         PROVE  Value(s)[o] \subseteq Value(s)[t]
    <2>1. HasEdge(s, o, SummaryCell(k)) /\ HasEdge(s, SummaryCell(k), t)
      BY <1>5, <1>6 DEF MemcpyConsumed
    <2>2. o \in Cells /\ t \in Cells /\ SummaryCell(k) \in Cells
      BY <1>2, CellKinds, EndpointsType, MemcpyCells
    <2>3. /\ Value(s)[o] \subseteq Value(s)[SummaryCell(k)]
          /\ Value(s)[SummaryCell(k)] \subseteq Value(s)[t]
      BY <2>1, <2>2, RestEdges
    <2> QED
      BY <2>3
  <1> QED
    BY <1>4, <1>8, <1>9, <1>10 DEF MemcpyHolds

\* When the worklist is empty every installed constraint holds of what the
\* solver stores and overlapping storage agrees: no order of the steps, late
\* binding, collapse or new field loses a fact.
THEOREM Soundness == Spec => []QuiescentSound
<1>1. TypeOK /\ SemiNaiveInvariant => QuiescentSound
  <2> SUFFICES ASSUME TypeOK, SemiNaiveInvariant, solve.worklist = {}
               PROVE  IsSolution(installed, Value(solve), solve.fields, solve.direct)
    BY DEF QuiescentSound
  <2> DEFINE value == Value(solve)
  <2>1. /\ solve \in Solves /\ SemiNaive(solve)
        /\ installed \subseteq Systems
        /\ \A system \in installed : Represented(solve, system)
    BY SystemType DEF TypeOK, SemiNaiveInvariant
  <2>2. \A a, b \in Cells : HasEdge(solve, a, b) => value[a] \subseteq value[b]
    BY <2>1, RestEdges
  <2>3. \A c \in Cells : value[c] = solve.pts[solve.rep[c]]
    BY DEF Value
  <2>4. StorageConsistent(value, solve.fields, solve.direct)
    <3>1. ASSUME NEW e \in Overlapping(solve.fields, solve.direct)
          PROVE  value[e[1]] \subseteq value[e[2]]
      <4>1. e[1] \in Cells /\ e[2] \in Cells
        BY <2>1, OverlappingType, CellKinds DEF Solves
      <4>2. HasEdge(solve, e[1], e[2])
        BY <2>1 DEF SemiNaive, StorageJoined
      <4> QED
        BY <2>2, <4>1, <4>2
    <3> QED
      BY <2>1, <3>1 DEF StorageConsistent, SemiNaive, StorageJoined
  <2>5. ASSUME NEW system \in installed
        PROVE  Satisfies(system, value, solve.fields, solve.direct)
    <3>1. system \in Systems /\ Represented(solve, system)
      BY <2>1
    <3>2. /\ system.addrs \subseteq Cells \X Facts /\ system.copies \subseteq Cells \X Cells
          /\ RegionsOf(system) \subseteq Cells
      BY <3>1, SystemTypes, CellKinds
    <3>3. /\ \A r \in RegionsOf(system) : r \in value[r]
          /\ \A a \in system.addrs : a[2] \in value[a[1]]
      BY <2>3, <3>1, <3>2 DEF Represented
    <3>4. \A e \in system.copies : value[e[1]] \subseteq value[e[2]]
      BY <2>2, <3>1, <3>2 DEF Represented
    <3>5. \A j \in system.joins : JoinHolds(j[1], j[2], value, solve.fields, solve.direct)
      BY <2>1, <3>1, RestJoins
    <3>6. \A m \in system.memcpys : MemcpyHolds(m, value, solve.direct)
      BY <2>1, <3>1, RestMemcpys
    <3> QED
      BY <3>3, <3>4, <3>5, <3>6 DEF Satisfies
  <2> QED
    BY <2>4, <2>5 DEF IsSolution
<1> QED
  BY <1>1, TypeCorrect, SemiNaiveCorrect, PTL

\* At rest what a memcpy has seen at an end is exactly what the end points
\* to: the debug assertions of memcpy_logical_endpoints.
THEOREM InventoryExact == Spec => []QuiescentMemcpyInventory
<1>1. TypeOK /\ SemiNaiveInvariant => QuiescentMemcpyInventory
  <2> SUFFICES ASSUME TypeOK, SemiNaiveInvariant, solve.worklist = {}, NEW m \in solve.memcpys
               PROVE  /\ solve.seenTo[m] = TargetsOf(solve, m)
                      /\ solve.seenFrom[m] = OriginsOf(solve, m)
    BY DEF QuiescentMemcpyInventory
  <2>1. m \in Memcpys /\ SemiNaive(solve)
    BY DEF TypeOK, Solves, SemiNaiveInvariant
  <2>2. TargetsOf(solve, m) \subseteq solve.seenTo[m] /\ OriginsOf(solve, m) \subseteq solve.seenFrom[m]
    BY <2>1 DEF SemiNaive, MemcpysConsumed, MemcpyConsumed
  <2>3. solve.seenTo[m] \subseteq TargetsOf(solve, m) /\ solve.seenFrom[m] \subseteq OriginsOf(solve, m)
    BY <2>1 DEF SemiNaive, MemcpyInventory
  <2> QED
    BY <2>2, <2>3
<1> QED
  BY <1>1, TypeCorrect, SemiNaiveCorrect, PTL

=============================================================================
