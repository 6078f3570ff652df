---------------------------- MODULE AndersenSolve ----------------------------
(***************************************************************************)
(* The inclusion solver's worklist algorithm (struct Solve in              *)
(* pangs-solve/src/andersen.rs): semi-naive propagation over copy edges,   *)
(* joins with what a cell points to, factored memcpys, fields materialised *)
(* on demand, and copy-cycle collapse.                                     *)
(*                                                                         *)
(* The solver is one record, as in the code.  Copy edges, joins and facts  *)
(* each have an established and a pending half: an established edge or     *)
(* join consumes only the facts its owner gained since it last ran, a      *)
(* pending one is seeded from all the owner's facts and then established.  *)
(*                                                                         *)
(*   rep      representative of a cell: where its contents are stored      *)
(*   pts      contents, at representatives                                 *)
(*   pend     facts not yet pushed over established edges and joins        *)
(*   succ     established copy edges      psucc   copy edges to seed       *)
(*   joins    established joins           pjoins  joins to seed            *)
(*   memcpys  installed memcpys, with the pointees seen at either end      *)
(*            (seenTo, seenFrom) and whether the summary is active         *)
(*   fields   materialised field cells    direct  allocations accessed as  *)
(*            a whole                                                      *)
(*   worklist the queued cells            fresh   copy edges inserted      *)
(*            since the last collapse pass                                 *)
(*                                                                         *)
(* The code's worklist is a stack filled in hash order, so any queued cell *)
(* may be next.  External origin labels travel with the facts: the code    *)
(* keeps them in parallel tables with the same two halves.                 *)
(***************************************************************************)
EXTENDS InclusionConstraints

CONSTANTS
  LaneCap,      \* lane cells admitted per root
  SccEnabled,   \* whether copy cycles are collapsed
  SccMinEdges   \* copy edges before a collapse pass is considered

ASSUME SolverAssumption ==
  /\ LaneCap \in Nat
  /\ SccEnabled \in BOOLEAN
  /\ SccMinEdges \in Nat
  /\ IsFiniteSet(LaneLocations)
  /\ IsFiniteSet(Cells)

VARIABLES
  program,     \* the program being solved
  installed,   \* the constraint systems installed so far
  solve,       \* the solver
  tick         \* parity of the steps taken, so that no step goes unseen

vars == <<program, installed, solve, tick>>

(***************************************************************************)
(* Reading the solver.                                                     *)
(***************************************************************************)
Value(s) == [c \in Cells |-> s.pts[s.rep[c]]]
PointeesOf(facts) == facts \cap Pointees
CopyEdges(s) == UNION {{c} \X (s.succ[c] \cup s.psucc[c]) : c \in Cells}

Empty == [c \in Cells |-> {}]

EmptySolve ==
  [ rep |-> [c \in Cells |-> c], pts |-> Empty, pend |-> Empty,
    succ |-> Empty, psucc |-> Empty, joins |-> Empty, pjoins |-> Empty,
    memcpys |-> {}, seenTo |-> [m \in Memcpys |-> {}],
    seenFrom |-> [m \in Memcpys |-> {}], active |-> {},
    fields |-> {}, direct |-> {}, worklist |-> {}, fresh |-> 0 ]

(***************************************************************************)
(* Facts, copy edges, fields and direct accesses are added together.       *)
(* facts are cell and fact pairs, edges cell pairs, touched the pointees   *)
(* accessed as a whole, made the field cells asked for.  A new field is    *)
(* joined with every field of its root that may alias it; a root accessed  *)
(* as a whole for the first time is joined with its unknown summary.       *)
(***************************************************************************)
At(pairs, cell) == {pair[2] : pair \in {p \in pairs : p[1] = cell}}

Canonical(s, pairs) == {<<s.rep[p[1]], p[2]>> : p \in pairs}

NewCopies(s, edges) ==
  {e \in {<<s.rep[w[1]], s.rep[w[2]]>> : w \in edges} : e[1] # e[2]} \ CopyEdges(s)

DirectAfter(s, touched) == s.direct \cup (touched \cap Objects)
FieldsAfter(s, touched, made) ==
  s.fields \cup made \cup {UnknownField(o) : o \in DirectAfter(s, touched) \ s.direct}

\* New fields feed the old ones, but not the other way round.
StorageCopiesOneWay(s, touched, made) ==
  {e \in Overlapping(FieldsAfter(s, touched, made), DirectAfter(s, touched)) :
     e[1] \in FieldsAfter(s, touched, made) \ s.fields}

StorageCopies(s, touched, made) ==
  Overlapping(FieldsAfter(s, touched, made), DirectAfter(s, touched))
    \ Overlapping(s.fields, s.direct)

PtsAfter(s, facts) ==
  [c \in Cells |-> s.pts[c] \cup At(Canonical(s, facts), c)]

Absorb(s, facts, edges, touched, made) ==
  LET copies == NewCopies(s, edges \cup StorageCopies(s, touched, made))
      pts == PtsAfter(s, facts)
  IN  [s EXCEPT
        !.pts = pts,
        !.pend = [c \in Cells |-> s.pend[c] \cup (pts[c] \ s.pts[c])],
        !.psucc = [c \in Cells |-> s.psucc[c] \cup At(copies, c)],
        !.fields = FieldsAfter(s, touched, made),
        !.direct = DirectAfter(s, touched),
        !.worklist = s.worklist \cup {c \in Cells : pts[c] # s.pts[c] \/ At(copies, c) # {}},
        !.fresh = s.fresh + Cardinality(copies)]

(***************************************************************************)
(* Installing a constraint system: the base program before the first run,  *)
(* a call binding when the solver is at rest.  A join already present is   *)
(* not added again, nor is a memcpy between the same representatives.      *)
(***************************************************************************)
NewJoins(s, system, c) == At(Canonical(s, system.joins), c) \ s.joins[c]

SameEndpoints(s, m, k) ==
  /\ s.rep[Destination(m)] = s.rep[Destination(k)]
  /\ s.rep[Source(m)] = s.rep[Source(k)]

\* Of the memcpys between one pair of representatives the first one stays.
IsNewSelection(s, system, chosen) ==
  /\ \A m \in chosen : \A k \in s.memcpys \cup (chosen \ {m}) : ~SameEndpoints(s, m, k)
  /\ \A m \in system.memcpys : \E k \in s.memcpys \cup chosen : SameEndpoints(s, m, k)

Registered(s, system, chosen) ==
  LET ends == {s.rep[Destination(m)] : m \in chosen} \cup {s.rep[Source(m)] : m \in chosen}
  IN  [s EXCEPT
        !.pjoins = [c \in Cells |-> s.pjoins[c] \cup NewJoins(s, system, c)],
        !.memcpys = s.memcpys \cup chosen,
        !.worklist = s.worklist \cup ends
               \cup {c \in Cells : NewJoins(s, system, c) \ s.pjoins[c] # {}}]

SystemFacts(system) == system.addrs \cup {<<r, r>> : r \in RegionsOf(system)}
SystemFields(system) == {a[2] : a \in system.addrs} \cap FieldCells

Install(s, system, chosen) ==
  Absorb(Registered(s, system, chosen), SystemFacts(system), system.copies, {},
         SystemFields(system))

(***************************************************************************)
(* One step of the worklist: cell n is taken and processed.                *)
(***************************************************************************)
Take(s, n) ==
  [s EXCEPT !.pend = [s.pend EXCEPT ![n] = {}],
            !.succ = [s.succ EXCEPT ![n] = @ \cup s.psucc[n]],
            !.psucc = [s.psucc EXCEPT ![n] = {}],
            !.joins = [s.joins EXCEPT ![n] = @ \cup s.pjoins[n]],
            !.pjoins = [s.pjoins EXCEPT ![n] = {}],
            !.worklist = s.worklist \ {n}]

\* Established copies push the delta, pending ones everything.
Copied(s, n) == (s.succ[n] \X s.pend[n]) \cup (s.psucc[n] \X s.pts[n])

\* The pairs of a pointee and a join that a step handles: the delta with the
\* established joins, then everything known by then with the pending ones.
Paired(s, n, old, new, gained) ==
  (PointeesOf(s.pend[n]) \X old) \cup (PointeesOf(s.pts[n] \cup gained) \X new)

Loaded(s, n) == Paired(s, n, Loads(s.joins[n]), Loads(s.pjoins[n]), {})
LoadCopies(pairs) == {<<p[1], p[2][2]>> : p \in pairs}

\* A stored region is a fact itself; any other stored value is copied.
StoreCopies(pairs) ==
  {<<p[2][2], p[1]>> : p \in {q \in pairs : q[2][2] \notin Regions}}
StoreFacts(pairs) ==
  LET external == {p \in pairs : p[2][2] \in Regions}
      labelled == {p \in external : p[2][3] # NoLabel}
  IN  {<<p[1], p[2][2]>> : p \in external}
        \cup {<<p[1], p[2][3]>> : p \in labelled}
        \cup {<<p[2][2], p[2][3]>> : p \in labelled}

OldStored(s, n) == PointeesOf(s.pend[n]) \X Stores(s.joins[n])
Stored(s, n) ==
  Paired(s, n, Stores(s.joins[n]), Stores(s.pjoins[n]),
         At(Canonical(s, StoreFacts(OldStored(s, n))), n))

GepFacts(pairs, fields) ==
  {<<p[2][3], FieldOf(p[1], p[2][2], fields)>> : p \in pairs}

OldStepped(s, n) == PointeesOf(s.pend[n]) \X Geps(s.joins[n])
Stepped(s, n, early) ==
  Paired(s, n, Geps(s.joins[n]), Geps(s.pjoins[n]),
         At(Canonical(s, StoreFacts(Stored(s, n))
                           \cup GepFacts(OldStepped(s, n), s.fields \cup early)), n))

(***************************************************************************)
(* Lane admission.  A root admits new lane cells until LaneCap; the order  *)
(* of the requests within one loop is the hash order of the facts.         *)
(***************************************************************************)
LanesOf(fields, root) ==
  {l \in LaneLocations : <<root, l>> \in fields}
Full(fields, root) == Cardinality(LanesOf(fields, root)) >= LaneCap

RequestedLanes(pairs, fields) ==
  {cell \in {RequestedField(p[1], p[2][2]) : p \in pairs} : IsNewLane(cell, fields)}

\* Admission regardless of what is full: a request may be refused in one
\* step and granted in a later one.
RefusedAtWill(requested, fields) ==
  {lanes \in SUBSET requested :
     \A cell \in lanes : ~Full((fields \cup lanes) \ {cell}, Root(cell))}

\* Each admitted lane found room; a refused one found its root full.
Admissible(requested, fields) ==
  {lanes \in SUBSET requested :
     /\ \A cell \in lanes : ~Full((fields \cup lanes) \ {cell}, Root(cell))
     /\ \A cell \in requested \ lanes : Full(fields \cup lanes, Root(cell))}

EarlyLanes(s, n) == RequestedLanes(OldStepped(s, n), s.fields)
LateLanes(s, n, early) ==
  RequestedLanes(Stepped(s, n, early), s.fields \cup early)

(***************************************************************************)
(* Copies, loads, stores and GEPs of the step.                             *)
(***************************************************************************)
\* early and late are the lanes the established and the pending GEPs got.
Resolved(s, n, early, late) ==
  GepFacts(Stepped(s, n, early), s.fields \cup early \cup late)

StepFacts(s, n, early, late) ==
  Copied(s, n) \cup StoreFacts(Stored(s, n)) \cup Resolved(s, n, early, late)
StepCopies(s, n) == LoadCopies(Loaded(s, n)) \cup StoreCopies(Stored(s, n))
StepTouched(s, n) == {p[1] : p \in Loaded(s, n) \cup Stored(s, n)}

StepFields(s, n, early, late) ==
  {f[2] : f \in Resolved(s, n, early, late)} \cap FieldCells

Join(s, n, early, late) ==
  Absorb(Take(s, n), StepFacts(s, n, early, late), StepCopies(s, n),
         StepTouched(s, n), StepFields(s, n, early, late))

(***************************************************************************)
(* The memcpys n is an endpoint of.  The summary cell is linked to the     *)
(* pointees of both ends once both are known; until then destinations are  *)
(* only recorded and noted as accessed.                                    *)
(***************************************************************************)
AtEndpoint(s, n) ==
  {m \in s.memcpys : n \in {s.rep[Destination(m)], s.rep[Source(m)]}}
TargetsOf(s, m) == PointeesOf(s.pts[s.rep[Destination(m)]])
OriginsOf(s, m) == PointeesOf(s.pts[s.rep[Source(m)]])

Activated(s, n) ==
  {m \in AtEndpoint(s, n) :
     /\ s.seenTo[m] \cup TargetsOf(s, m) # {}
     /\ s.seenFrom[m] \cup OriginsOf(s, m) # {}}

\* Links of an active memcpy: all of them when it becomes active, the new
\* ones afterwards.
NewTargets(s, m) ==
  IF m \in s.active THEN TargetsOf(s, m) \ s.seenTo[m]
                    ELSE TargetsOf(s, m) \cup s.seenTo[m]
NewOrigins(s, m) ==
  IF m \in s.active THEN OriginsOf(s, m) \ s.seenFrom[m]
                    ELSE OriginsOf(s, m) \cup s.seenFrom[m]

BulkCopies(s, n) ==
  (UNION {NewOrigins(s, m) \X {SummaryCell(m)} : m \in Activated(s, n)})
  \cup (UNION {{SummaryCell(m)} \X NewTargets(s, m) : m \in Activated(s, n)})

BulkTouched(s, n) ==
  (UNION {TargetsOf(s, m) \ s.seenTo[m] : m \in AtEndpoint(s, n)})
  \cup (UNION {NewOrigins(s, m) : m \in Activated(s, n)})

Seen(s, n) ==
  [s EXCEPT
     !.seenTo = [m \in Memcpys |->
        IF m \in AtEndpoint(s, n) THEN s.seenTo[m] \cup TargetsOf(s, m) ELSE s.seenTo[m]],
     !.seenFrom = [m \in Memcpys |->
        IF m \in AtEndpoint(s, n) THEN s.seenFrom[m] \cup OriginsOf(s, m) ELSE s.seenFrom[m]],
     !.active = s.active \cup Activated(s, n)]

BulkCopy(s, n) == Absorb(Seen(s, n), {}, BulkCopies(s, n), BulkTouched(s, n), {})

(***************************************************************************)
(* Copy-cycle collapse.  Cells are on one cycle when they reach the same   *)
(* cells over the copy edges.  One member stands for all of them (the code *)
(* takes the least id).                                                    *)
(***************************************************************************)
\* Reachability that ignores the direction of the edges.
ReachEitherWay(edges, c) ==
  LET layer[k \in 0 .. Cardinality(edges)] ==
        IF k = 0 THEN {c}
        ELSE LET prev == layer[k - 1]
             IN  prev \cup {e[2] : e \in {d \in edges : d[1] \in prev}}
                      \cup {e[1] : e \in {d \in edges : d[2] \in prev}}
  IN  layer[Cardinality(edges)]

Reach(edges, c) ==
  LET layer[k \in 0 .. Cardinality(edges)] ==
        IF k = 0 THEN {c}
        ELSE LET prev == layer[k - 1]
             IN  prev \cup {e[2] : e \in {d \in edges : d[1] \in prev}}
  IN  layer[Cardinality(edges)]

CycleLeader(s) ==
  LET edges == CopyEdges(s)
      canonical == {c \in Cells : s.rep[c] = c}
      reach == [c \in canonical |-> Reach(edges, c)]
  IN  [c \in Cells |-> IF c \in canonical
                        THEN CHOOSE d \in canonical : reach[d] = reach[c] ELSE c]

Merge(table, leader) ==
  [c \in Cells |-> UNION {table[d] : d \in {x \in Cells : leader[x] = c}}]

CollapseOnto(s, leader) ==
  LET pts == Merge(s.pts, leader)
      joins == Merge([c \in Cells |-> s.joins[c] \cup s.pjoins[c]], leader)
      succ == Merge([c \in Cells |-> s.succ[c] \cup s.psucc[c]], leader)
  IN  [s EXCEPT
        !.rep = [c \in Cells |-> leader[s.rep[c]]],
        !.pts = pts, !.pend = pts,
        !.succ = [c \in Cells |-> {leader[d] : d \in succ[c]} \ {c}], !.psucc = Empty,
        !.joins = Empty, !.pjoins = joins,
        !.worklist = {c \in Cells : pts[c] # {} \/ joins[c] # {}},
        !.fresh = 0]

\* A pass that requeues everything, and keeps the edge count, without a merge.
CollapseUncounted(s) ==
  LET leader == CycleLeader(s)
  IN  IF leader = [c \in Cells |-> c]
        THEN [s EXCEPT !.worklist = {c \in Cells : s.pts[c] # {}}]
        ELSE CollapseOnto(s, leader)

CollapseCopySccs(s) ==
  LET leader == CycleLeader(s)
  IN  IF leader = [c \in Cells |-> c]
        THEN [s EXCEPT !.fresh = 0]
        ELSE CollapseOnto(s, leader)

ShouldCollapse(s) ==
  LET edges == Cardinality(CopyEdges(s))
  IN  /\ SccEnabled
      /\ edges >= SccMinEdges
      /\ s.fresh >= SccMinEdges /\ s.fresh >= edges \div 2

(***************************************************************************)
(* The specification.                                                      *)
(***************************************************************************)
Init ==
  /\ program \in Programs
  /\ installed = {}
  /\ solve = EmptySolve
  /\ tick = 0

Add(system) ==
  /\ \E chosen \in SUBSET system.memcpys :
       /\ IsNewSelection(solve, system, chosen)
       /\ solve' = Install(solve, system, chosen)
  /\ installed' = installed \cup {system}
  /\ UNCHANGED <<program, tick>>

\* The base system is installed on an empty solver.
Build == installed = {} /\ Add(program.base)

\* A call binding found when propagation has come to rest (activate_target).
\* Two sites may ask for the same constraints.
Resume(system) ==
  /\ installed # {}
  /\ solve.worklist = {}
  /\ Add(system)

\* run_with_limit: one cell is taken and processed to the end.
Pop(n) ==
  /\ \E early \in Admissible(EarlyLanes(solve, n), solve.fields) :
       \E late \in Admissible(LateLanes(solve, n, early), solve.fields \cup early) :
         LET processed == BulkCopy(Join(solve, n, early, late), n)
         IN  solve' = IF ShouldCollapse(processed)
                        THEN CollapseCopySccs(processed) ELSE processed
  /\ tick' = 1 - tick
  /\ UNCHANGED <<program, installed>>

Next ==
  \/ Build
  \/ \E system \in program.calls : Resume(system)
  \/ \E n \in solve.worklist : Pop(n)

Spec == Init /\ [][Next]_vars

AtRest == solve.worklist = {} /\ installed = {program.base} \cup program.calls

\* Weak fairness of Next with its enabling condition written out: the loop
\* runs while a cell is queued and the caller resumes it, so a step is
\* possible until the solver is at rest.  A step that changes nothing but the
\* tick counts as a step: it is how a livelock would look.
Fairness == []<>AtRest \/ []<><<vars' # vars>>_vars

FairSpec == Spec /\ Fairness
-----------------------------------------------------------------------------
(***************************************************************************)
(* Properties.                                                             *)
(***************************************************************************)
Tables(S) == [Cells -> SUBSET S]
Solves ==
  [ rep : [Cells -> Cells], pts : Tables(Facts), pend : Tables(Facts),
    succ : Tables(Cells), psucc : Tables(Cells),
    joins : Tables(Joins), pjoins : Tables(Joins),
    memcpys : SUBSET Memcpys, seenTo : [Memcpys -> SUBSET Pointees],
    seenFrom : [Memcpys -> SUBSET Pointees], active : SUBSET Memcpys,
    fields : SUBSET FieldCells, direct : SUBSET Objects,
    worklist : SUBSET Cells, fresh : Nat ]

TypeOK ==
  /\ program \in Programs
  /\ installed \subseteq {program.base} \cup program.calls
  /\ solve \in Solves
  /\ tick \in 0 .. 1

(***************************************************************************)
(* Soundness at rest.  When run_with_limit returns with an empty worklist, *)
(* every constraint installed so far holds of what the solver stores, for  *)
(* every order in which cells were taken: no fact was lost between an      *)
(* established edge that saw only deltas and a constraint that came late,  *)
(* by a collapse, or by a field that appeared after its neighbours.        *)
(***************************************************************************)
QuiescentSound ==
  solve.worklist = {} =>
    IsSolution(installed, Value(solve), solve.fields, solve.direct)

(***************************************************************************)
(* The invariant that makes the solver semi-naive.  Established copies and *)
(* joins have consumed every fact that is not pending, and whatever still  *)
(* has pending work is queued.                                             *)
(***************************************************************************)
HasEdge(s, a, b) ==
  \/ s.rep[a] = s.rep[b]
  \/ s.rep[b] \in s.succ[s.rep[a]] \cup s.psucc[s.rep[a]]

\* A refused lane stays refused: its root is full.
Settled(o, location, fields) ==
  IsNewLane(RequestedField(o, location), fields)
    => Full(fields, Root(RequestedField(o, location)))

JoinDone(s, o, join) ==
  \/ join[1] = "load" /\ DirectlyAccessed({o}, s.direct) /\ HasEdge(s, o, join[2])
  \/ /\ join[1] = "store" /\ DirectlyAccessed({o}, s.direct)
     /\ IF join[2] \in Regions
          THEN /\ join[2] \in s.pts[s.rep[o]]
               /\ join[3] # NoLabel =>
                    join[3] \in s.pts[s.rep[o]] \cap s.pts[s.rep[join[2]]]
          ELSE HasEdge(s, join[2], o)
  \/ /\ join[1] = "gep"
     /\ FieldOf(o, join[2], s.fields) \in s.pts[s.rep[join[3]]]
     /\ FieldOf(o, join[2], s.fields) \in s.fields \cup Regions
     /\ Settled(o, join[2], s.fields)

RepsCanonical(s) ==
  /\ \A c \in Cells : s.rep[s.rep[c]] = s.rep[c]
  /\ \A c \in Cells : s.rep[c] # c =>
       /\ s.pts[c] = {} /\ s.succ[c] = {} /\ s.psucc[c] = {}
       /\ s.joins[c] = {} /\ s.pjoins[c] = {}
  /\ \A c \in Cells : \A d \in s.succ[c] \cup s.psucc[c] : s.rep[d] = d

PendingQueued(s) ==
  \A c \in Cells :
    /\ s.pend[c] \subseteq s.pts[c]
    /\ s.pend[c] \cup s.psucc[c] \cup s.pjoins[c] # {} => c \in s.worklist

CopiesConsumed(s) ==
  \A c \in Cells : \A d \in s.succ[c] : s.pts[c] \ s.pend[c] \subseteq s.pts[d]

JoinsConsumed(s) ==
  \A c \in Cells : \A j \in s.joins[c] :
    \A o \in PointeesOf(s.pts[c] \ s.pend[c]) : JoinDone(s, o, j)

\* Pointees not seen yet are of a queued end; those seen are linked.
MemcpyConsumed(s, m, queued) ==
  /\ s.rep[Destination(m)] \in queued \/ TargetsOf(s, m) \subseteq s.seenTo[m]
  /\ s.rep[Source(m)] \in queued \/ OriginsOf(s, m) \subseteq s.seenFrom[m]
  /\ DirectlyAccessed(s.seenTo[m], s.direct)
  /\ s.seenTo[m] # {} /\ s.seenFrom[m] # {} =>
       /\ DirectlyAccessed(s.seenFrom[m], s.direct)
       /\ \A o \in s.seenFrom[m] : HasEdge(s, o, SummaryCell(m))
       /\ \A t \in s.seenTo[m] : HasEdge(s, SummaryCell(m), t)

MemcpysConsumed(s) == \A m \in s.memcpys : MemcpyConsumed(s, m, s.worklist)

\* What a memcpy has seen is there, and an active one has seen both ends.
MemcpyInventory(s) ==
  \A m \in Memcpys :
    /\ s.seenTo[m] \subseteq TargetsOf(s, m) /\ s.seenFrom[m] \subseteq OriginsOf(s, m)
    /\ m \in s.active => s.seenTo[m] # {} /\ s.seenFrom[m] # {}
    /\ m \notin s.memcpys => s.seenTo[m] = {} /\ s.seenFrom[m] = {}

StorageJoined(s) ==
  /\ \A o \in s.direct : UnknownField(o) \in s.fields
  /\ \A e \in Overlapping(s.fields, s.direct) : HasEdge(s, e[1], e[2])

Represented(s, system) ==
  /\ \A r \in RegionsOf(system) : r \in s.pts[s.rep[r]]
  /\ \A a \in system.addrs : a[2] \in s.pts[s.rep[a[1]]]
  /\ \A e \in system.copies : HasEdge(s, e[1], e[2])
  /\ \A j \in system.joins : j[2] \in s.joins[s.rep[j[1]]] \cup s.pjoins[s.rep[j[1]]]
  /\ \A m \in system.memcpys : \E k \in s.memcpys : SameEndpoints(s, m, k)

SemiNaive(s) ==
  /\ RepsCanonical(s)
  /\ PendingQueued(s)
  /\ CopiesConsumed(s)
  /\ JoinsConsumed(s)
  /\ MemcpysConsumed(s)
  /\ MemcpyInventory(s)
  /\ StorageJoined(s)

SemiNaiveInvariant ==
  /\ SemiNaive(solve)
  /\ \A system \in installed : Represented(solve, system)

(***************************************************************************)
(* The debug assertions of memcpy_logical_endpoints: at rest the pointees  *)
(* a memcpy has seen at an end are exactly what that end points to.  The   *)
(* certificates that later audit the solve read these inventories.         *)
(***************************************************************************)
QuiescentMemcpyInventory ==
  solve.worklist = {} =>
    \A m \in solve.memcpys :
      /\ solve.seenTo[m] = TargetsOf(solve, m)
      /\ solve.seenFrom[m] = OriginsOf(solve, m)

(***************************************************************************)
(* A field keeps its identity.  Once a GEP has been resolved for a pointee,*)
(* no later step resolves it to another cell, although the root's lane cap *)
(* and the set of fields change under it; and cells are only ever merged.  *)
(***************************************************************************)
IdentitiesStable ==
  [][/\ \A c \in Cells : \A j \in Geps(solve.joins[c]) :
          \A o \in PointeesOf(solve.pts[c] \ solve.pend[c]) :
            FieldOf(o, j[2], solve'.fields) = FieldOf(o, j[2], solve.fields)
     /\ \A c, d \in Cells :
          solve.rep[c] = solve.rep[d] => solve'.rep[c] = solve'.rep[d]
     /\ \A c \in Cells : Value(solve)[c] \subseteq Value(solve')[c]]_vars

(***************************************************************************)
(* No root ever holds more lane cells than the cap, although lanes are     *)
(* requested by several joins of one step and by nested GEPs.              *)
(***************************************************************************)
LaneCapRespected ==
  \A root \in Objects : Cardinality(LanesOf(solve.fields, root)) <= LaneCap

(***************************************************************************)
(* Propagation comes to rest with every call binding installed.            *)
(***************************************************************************)
Terminates == <>[]AtRest
=============================================================================
